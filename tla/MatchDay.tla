------------------------------ MODULE MatchDay ------------------------------
(***************************************************************************)
(* Matches, and what is recomputed after each change of one: the cards and *)
(* suspensions of its players and the cached tables of its season          *)
(* (src/src/match/match.service.ts, player-card-sync.service.ts,           *)
(* src/src/prisma/season-statistics.service.ts), with the season's life    *)
(* cycle and the knock-out round (src/src/season).                         *)
(*                                                                         *)
(* A change is one transaction at READ COMMITTED: what it has read may be  *)
(* old when it writes.  The recomputations run after the commit, one       *)
(* statement at a time, next to those of other requests.  `stale` keeps    *)
(* what may stay wrong, because the request that would have put it right   *)
(* died, was overtaken, or never existed.                                  *)
(***************************************************************************)
EXTENDS Standings

CONSTANTS
  Players, TeamOf,  \* Player.teamId
  ListedIn,         \* season -> team of each player on its list
  Seasons, First,   \* the season there is at first
  Types,            \* the types a season may have: "LEAGUE", "CUP"
  MatchIds,
  Fixtures,         \* type -> [ids of the matches there are at first -> their drafts]
  Free,             \* type -> [ids of matches that may be created -> their days]
  Drafts,           \* type -> matches that a request may create
  Edits,            \* type -> bodies of PATCH requests
  Groupings,        \* groups staff may draw: functions from teams to groups
  Requests,
  MaxChanges        \* bound, by type

VARIABLES
  type,             \* of the seasons
  seasons,          \* Season -> "none", "active", "archived" or "deleted"
  matches,          \* ids of the matches there are -> rows
  players,          \* Player -> cards and suspension
  groupOf,          \* Season -> SeasonGroupTeam: the group of each team drawn
  cache,            \* seasons that have cached tables -> standingsCache and statsCache
  req,              \* Request -> what it is at
  changes,          \* number of requests so far
  \* history
  stale,            \* players, seasons and matches nobody will recompute
  withdrawn,        \* a finished match was taken back or given to other teams
  irregular         \* a knock-out round was made by hand, or drawn twice
                    \* at once, or from tables that rank a team in two
                    \* groups or no longer fill a place

(* Columns of a match, and what must be in them. *)
Columns ==
  {"id", "day", "seasonId", "stage", "groupName", "knockoutRound", "knockoutMatchIndex",
   "homeTeamId", "awayTeamId", "homeScore", "awayScore", "homePenaltyScore", "awayPenaltyScore",
   "winnerTeamId", "decidedBy", "status", "events", "goals", "deleted"}

Fits(f, v) ==
  /\ f = "seasonId" => v \in Seasons
  /\ f \in {"homeTeamId", "awayTeamId"} => v # None
  /\ f \in {"homeScore", "awayScore"} => v \in Int
  /\ f \in {"homePenaltyScore", "awayPenaltyScore"} => v \in Int \cup {None}
  /\ f = "events" => IsFiniteSet(DOMAIN v)

IsRow(m) == DOMAIN m = Columns /\ \A f \in Columns : Fits(f, m[f])

IsBody(b) == DOMAIN b \subseteq Columns \ {"id", "deleted"} /\ \A f \in DOMAIN b : Fits(f, b[f])

IsDraft(d) == /\ d.seasonId \in Seasons /\ d.homeTeamId # None /\ d.awayTeamId # None

(* Rows of different tables, and what is no row, are told apart. *)
ASSUME KindsAssumption ==
  /\ Players \cap Seasons = {} /\ Players \cap MatchIds = {} /\ Seasons \cap MatchIds = {}
  /\ None \notin Players \cup Seasons \cup MatchIds \cup Int \cup Sides

ASSUME MatchAssumption ==
  /\ First \in Seasons
  /\ \A t \in Types :
       /\ DOMAIN Fixtures[t] \subseteq MatchIds /\ DOMAIN Free[t] \subseteq MatchIds
       /\ \A i \in DOMAIN Fixtures[t] : IsDraft(Fixtures[t][i]) /\ Fixtures[t][i].seasonId = First
       /\ \A d \in Drafts[t] : IsDraft(d) /\ IsBody(d.body)
       /\ \A body \in Edits[t] : IsBody(body)

data == <<type, seasons, matches, players, groupOf, cache>>
history == <<stale, withdrawn, irregular>>
vars == <<data, req, changes, history>>

Idle == [at |-> "idle"]

Exists(s) == seasons[s] \in {"active", "archived"}

Clean == [yellowCards |-> 0, redCards |-> 0, status |-> "active", suspendedAt |-> None]

(* Matches that were created and not deleted with their season. *)
Rows == DOMAIN matches
Live == {i \in Rows : ~ matches[i].deleted}

-----------------------------------------------------------------------------
(* syncPlayerCards: cards of the active season, of whichever is found      *)
(* first if there are two, and of all seasons (None) if there is none.     *)
Scopes ==
  LET active == {s \in Seasons : seasons[s] = "active"}
  IN  IF active = {} THEN {None} ELSE active

InScope(i, scope) == scope = None \/ matches[i].seasonId = scope

CardMatches(p, scope) ==
  {i \in Live : /\ InScope(i, scope)
                /\ matches[i].status \in {"finished", "ongoing"}
                /\ \E k \in DOMAIN matches[i].events : matches[i].events[k].player = p}

CardsIn(i, p, types) == CountOf(p, matches[i].events, types)

Yellows(ids, p) == SumFunction([i \in ids |-> CardsIn(i, p, {"yellow_card"})])
Reds(ids, p) == SumFunction([i \in ids |-> CardsIn(i, p, RedCards)])

(* A red card, or every third yellow card. *)
Triggers(ids, p) ==
  {i \in ids :
     \/ CardsIn(i, p, RedCards) > 0
     \/ LET before == Yellows({j \in ids : matches[j].day < matches[i].day}, p)
        IN  (before + CardsIn(i, p, {"yellow_card"})) \div 3 > before \div 3}

DaysOf(ids) == [i \in ids |-> matches[i].day]

Latest(days) == CHOOSE i \in DOMAIN days : \A j \in DOMAIN days : days[j] <= days[i]

(* The team on the list of the active season, or else the player's own. *)
EffectiveTeam(p, scope) ==
  IF scope # None /\ ListedIn[scope][p] # None THEN ListedIn[scope][p] ELSE TeamOf[p]

Serves(j, day, p, scope) ==
  /\ InScope(j, scope) /\ matches[j].status = "finished"
  /\ matches[j].day > day
  /\ EffectiveTeam(p, scope) \in {matches[j].homeTeamId, matches[j].awayTeamId}

(* The suspension ends with the next finished match of the team. *)
Served(day, p, scope) == \E j \in Live : Serves(j, day, p, scope)

Cards(p, scope) ==
  LET ids == CardMatches(p, scope)
      days == DaysOf(Triggers(ids, p))
      latest == Latest(days)
      out == DOMAIN days # {} /\ ~ Served(days[latest], p, scope)
  IN  [yellowCards |-> Yellows(ids, p), redCards |-> Reds(ids, p),
       status |-> IF out THEN "suspended" ELSE "active",
       suspendedAt |-> IF out THEN latest ELSE None]

(* computeAndCache *)
Computed(s) ==
  LET ids == {i \in Live : matches[i].seasonId = s /\ matches[i].status = "finished"}
      counted == [i \in ids |-> matches[i]]
  IN  [standings |-> IF type = "CUP" THEN GroupTables({counted[i] : i \in ids}, groupOf[s])
                     ELSE LeagueTable({counted[i] : i \in ids}, Teams),
       stats |-> PlayerStatistics(counted, Players)]

-----------------------------------------------------------------------------
Row(id, day, draft) ==
  [id |-> id, day |-> day, seasonId |-> draft.seasonId, stage |-> draft.stage,
   groupName |-> draft.groupName, knockoutRound |-> draft.knockoutRound,
   knockoutMatchIndex |-> draft.knockoutMatchIndex,
   homeTeamId |-> draft.homeTeamId, awayTeamId |-> draft.awayTeamId,
   homeScore |-> 0, awayScore |-> 0, homePenaltyScore |-> None, awayPenaltyScore |-> None,
   winnerTeamId |-> None, decidedBy |-> None, status |-> "scheduled",
   events |-> << >>, goals |-> << >>, deleted |-> FALSE]

NoGroups == [t \in {} |-> None]

Init ==
  /\ type \in Types
  /\ seasons = [s \in Seasons |-> IF s = First THEN "active" ELSE "none"]
  /\ matches = [i \in DOMAIN Fixtures[type] |-> Row(i, Fixtures[type][i].day, Fixtures[type][i])]
  /\ players = [p \in Players |-> Clean]
  /\ \E groups \in (IF type = "CUP" THEN Groupings ELSE {NoGroups}) :
       groupOf = [s \in Seasons |-> IF s = First THEN groups ELSE NoGroups]
  /\ cache = [s \in {First} |-> Computed(s)]
  /\ req = [r \in Requests |-> Idle]
  /\ changes = 0
  /\ stale = {} /\ withdrawn = FALSE
  /\ irregular = (\E i \in Rows : matches[i].stage = "KNOCKOUT")

Starts(r) == req[r].at = "idle" /\ changes < MaxChanges[type] /\ changes' = changes + 1

Goes(r, next) == req' = [req EXCEPT ![r] = next]

Involved(events) == {events[k].player : k \in DOMAIN events} \cap Players

(* What a committed request still has to do: the cards of these players    *)
(* and of those who are suspended in these teams, then the tables of these *)
(* seasons, and of the one a match is in by then.                          *)
Todo(todo, teams, ss, id) ==
  [at |-> "sync", todo |-> todo, teams |-> teams, seasons |-> ss, id |-> id]

(* Mutant: nobody's suspension ends with a match. *)
NoTeams(m) == {}

TeamsIfFinished(m) == IF m.status = "finished" THEN {m.homeTeamId, m.awayTeamId} ELSE {}

SuspendedIn(teams) == {p \in Players : players[p].status = "suspended" /\ TeamOf[p] \in teams}

(* A finished match no longer counts, or not where and when it did. *)
Withdraws(old, new) ==
  /\ old.status = "finished" /\ ~ old.deleted
  /\ \/ new.deleted \/ new.status # "finished" \/ new.seasonId # old.seasonId \/ new.day # old.day
     \/ {new.homeTeamId, new.awayTeamId} # {old.homeTeamId, old.awayTeamId}

(* A match of a knock-out round was put in another place, or given teams.  *)
ByHand(old, new) ==
  /\ "KNOCKOUT" \in {old.stage, new.stage}
  /\ \E f \in {"seasonId", "stage", "knockoutRound", "knockoutMatchIndex", "homeTeamId", "awayTeamId"} :
       new[f] # old[f]

(***************************************************************************)
(* PATCH: updateMatchCore reads the match and then writes it.              *)
(***************************************************************************)
Merge(m, body) == [f \in DOMAIN m |-> IF f \in DOMAIN body THEN body[f] ELSE m[f]]

(* Penalties of the row are kept unless they came from the events that are *)
(* replaced.                                                               *)
Penalties(old, body, f) ==
  IF f \in DOMAIN body THEN body[f]
  ELSE IF "events" \notin DOMAIN body \/ ~ HasShootoutEvents(old.events) THEN old[f]
  ELSE None

ByEvents(body) == "events" \in DOMAIN body /\ HasOutcomeEvents(body.events)

UpdateRefused(old, body) ==
  LET new == Merge(old, body)
  IN  \/ new.homeTeamId = new.awayTeamId
      \/ ~ Exists(new.seasonId)
      \/ ByEvents(body) /\ OutcomeRefused(body.events, Penalties(old, body, "homePenaltyScore"),
                                          Penalties(old, body, "awayPenaltyScore"))

NewOutcome(old, body) ==
  LET new == Merge(old, body)
      homePen == Penalties(old, body, "homePenaltyScore")
      awayPen == Penalties(old, body, "awayPenaltyScore")
  IN  IF ByEvents(body) THEN CalculateMatchOutcome(body.events, homePen, awayPen)
      ELSE ResolveMatchOutcome(new.homeScore, new.awayScore, homePen, awayPen, FALSE)

(* Mutant: the side that is ahead, without the shoot-out. *)
WinnerByScore(m, outcome) == TeamOn(m, Ahead(outcome.homeScore, outcome.awayScore))

WinnerOf(m, outcome) == TeamOn(m, outcome.side)

(* Columns that are written: those of the body, and teams, season and      *)
(* outcome as they follow from what was read.                              *)
Updated(now, old, body) ==
  LET new == Merge(old, body)
      outcome == NewOutcome(old, body)
  IN  Merge(Merge(now, body),
        [seasonId |-> new.seasonId, homeTeamId |-> new.homeTeamId, awayTeamId |-> new.awayTeamId,
         homeScore |-> outcome.homeScore, awayScore |-> outcome.awayScore,
         homePenaltyScore |-> outcome.homePenaltyScore,
         awayPenaltyScore |-> outcome.awayPenaltyScore,
         winnerTeamId |-> WinnerOf(new, outcome), decidedBy |-> outcome.decidedBy,
         goals |-> IF "events" \in DOMAIN body THEN GoalRows(body.events, << >>) ELSE Merge(now, body).goals])

UpdateRead(r) ==
  /\ Starts(r)
  /\ \E i \in Rows, body \in Edits[type] :
       /\ ~ UpdateRefused(matches[i], body)
       /\ Goes(r, [at |-> "updating", id |-> i, old |-> matches[i], body |-> body])
  /\ UNCHANGED <<data, history>>

(* Mutant: only players of the new events. *)
SyncedByNewEvents(old, new) == Involved(new.events)

(* Players of the events as read and written, and those who were in them. *)
SyncedBy(old, new) == Involved(new.events) \cup Involved(old.events)

UpdateCommit(r) ==
  LET q == req[r]
      now == matches[q.id]
      new == Updated(now, q.old, q.body)
      synced == SyncedBy(q.old, Merge(q.old, q.body))
  IN  /\ q.at = "updating" /\ q.id \in Rows
      /\ matches' = [matches EXCEPT ![q.id] = new]
      /\ Goes(r, Todo(synced, TeamsIfFinished(new), {}, q.id))
      /\ withdrawn' = (withdrawn \/ Withdraws(now, new))
      /\ stale' = (stale \ {q.id}) \cup (IF q.old = now THEN {} ELSE Involved(now.events) \ synced)
                  \cup ({now.seasonId} \ {new.seasonId})
      /\ irregular' = (irregular \/ ByHand(now, new))
      /\ UNCHANGED <<type, seasons, players, groupOf, cache, changes>>

(* The match went with its season. *)
UpdateFails(r) ==
  /\ req[r].at = "updating" /\ req[r].id \notin Rows
  /\ Goes(r, Idle)
  /\ UNCHANGED <<data, changes, history>>

(***************************************************************************)
(* POST, and afterMatchCommitted, which reads the match again.             *)
(***************************************************************************)
Create(r) ==
  /\ Starts(r)
  /\ \E i \in DOMAIN Free[type] \ Rows, draft \in Drafts[type] :
       LET row == Row(i, Free[type][i], draft)
       IN  /\ ~ UpdateRefused(row, draft.body)
           /\ matches' = [j \in Rows \cup {i} |->
                            IF j = i THEN Updated(row, row, draft.body) ELSE matches[j]]
           /\ Goes(r, [at |-> "created", id |-> i, events |-> matches'[i].events])
           /\ irregular' = (irregular \/ matches'[i].stage = "KNOCKOUT")
  /\ UNCHANGED <<type, seasons, players, groupOf, cache, stale, withdrawn>>

AfterCreate(r) ==
  LET q == req[r]
  IN  /\ q.at = "created"
      /\ IF q.id \notin Rows THEN Goes(r, Idle)
         ELSE Goes(r, Todo(Involved(q.events), TeamsIfFinished(matches[q.id]),
                           {matches[q.id].seasonId}, None))
      /\ UNCHANGED <<data, changes, history>>

(***************************************************************************)
(* DELETE: the match and the suspended players are read before the         *)
(* transaction.                                                            *)
(***************************************************************************)
RemoveRead(r) ==
  /\ Starts(r)
  /\ \E i \in Live :
       LET m == matches[i]
       IN  Goes(r, [at |-> "removing", id |-> i,
                    todo |-> Involved(m.events) \cup SuspendedIn({m.homeTeamId, m.awayTeamId})])
  /\ UNCHANGED <<data, history>>

RemoveCommit(r) ==
  LET q == req[r]
      now == matches[q.id]
  IN  /\ q.at = "removing" /\ q.id \in Rows
      /\ matches' = [matches EXCEPT ![q.id].deleted = TRUE]
      /\ Goes(r, Todo(q.todo, {}, {now.seasonId}, None))
      /\ withdrawn' = (withdrawn \/ Withdraws(now, matches'[q.id]))
      /\ stale' = stale \cup (Involved(now.events) \ q.todo)
      /\ UNCHANGED <<type, seasons, players, groupOf, cache, changes, irregular>>

RemoveFails(r) ==
  /\ req[r].at = "removing" /\ req[r].id \notin Rows
  /\ Goes(r, Idle)
  /\ UNCHANGED <<data, changes, history>>

(***************************************************************************)
(* After the commit: syncMatchPlayers, syncPlayerCards, computeAndCache.   *)
(***************************************************************************)
FindSuspended(r) ==
  LET q == req[r]
  IN  /\ q.at = "sync" /\ q.teams # {}
      /\ Goes(r, Todo(q.todo \cup SuspendedIn(q.teams), {}, q.seasons, q.id))
      /\ UNCHANGED <<data, changes, history>>

SyncRead(r) ==
  LET q == req[r]
  IN  /\ q.at = "sync" /\ q.teams = {}
      /\ \E p \in q.todo, scope \in Scopes :
           Goes(r, [at |-> "card", player |-> p, value |-> Cards(p, scope),
                    rest |-> Todo(q.todo \ {p}, {}, q.seasons, q.id)])
      /\ UNCHANGED <<data, changes, history>>

IsTrue(p, value) == \E scope \in Scopes : value = Cards(p, scope)

SyncWrite(r) ==
  LET q == req[r]
  IN  /\ q.at = "card"
      /\ players' = [players EXCEPT ![q.player] = q.value]
      /\ stale' = IF IsTrue(q.player, q.value) THEN stale \ {q.player} ELSE stale \cup {q.player}
      /\ Goes(r, q.rest)
      /\ UNCHANGED <<type, seasons, matches, groupOf, cache, changes, withdrawn, irregular>>

(* Mutant: not those of the season the match is in. *)
DueByRequest(q) == q.seasons

(* Seasons whose tables are still to be computed. *)
Due(q) ==
  q.seasons \cup (IF q.id \in Rows THEN {matches[q.id].seasonId} ELSE {})

TableRead(r) ==
  LET q == req[r]
  IN  /\ q.at = "sync" /\ q.teams = {} /\ q.todo = {}
      /\ \E s \in Due(q) :
           LET rest == Todo({}, {}, Due(q) \ {s}, None)
           IN  Goes(r, IF ~ Exists(s) THEN rest
                       ELSE [at |-> "table", season |-> s, value |-> Computed(s), rest |-> rest])
      /\ UNCHANGED <<data, changes, history>>

TableWrite(r) ==
  LET q == req[r]
      s == q.season
  IN  /\ q.at = "table"
      /\ Goes(r, q.rest)
      /\ IF ~ Exists(s) THEN UNCHANGED <<cache, stale>>
         ELSE /\ cache' = [x \in DOMAIN cache \cup {s} |-> IF x = s THEN q.value ELSE cache[x]]
              /\ stale' = IF q.value = Computed(s) THEN stale \ {s} ELSE stale \cup {s}
      /\ UNCHANGED <<type, seasons, matches, players, groupOf, changes, withdrawn, irregular>>

Answer(r) ==
  /\ req[r].at = "sync" /\ req[r].teams = {} /\ req[r].todo = {} /\ Due(req[r]) = {}
  /\ Goes(r, Idle)
  /\ UNCHANGED <<data, changes, history>>

(* What a request owes. *)
OwedPlayers(q) ==
  CASE q.at = "sync" -> q.todo \cup SuspendedIn(q.teams)
    [] q.at = "card" -> {q.player} \cup q.rest.todo
    [] q.at = "created" -> Involved(q.events)
                           \cup (IF q.id \notin Rows THEN {}
                                 ELSE SuspendedIn(TeamsIfFinished(matches[q.id])))
    [] OTHER -> {}

OwedSeasons(q) ==
  CASE q.at = "sync" -> Due(q)
    [] q.at = "card" -> Due(q.rest)
    [] q.at = "table" -> {q.season} \cup Due(q.rest)
    [] q.at = "created" -> IF q.id \notin Rows THEN {} ELSE {matches[q.id].seasonId}
    [] OTHER -> {}

(* The process is gone; what it owed stays undone. *)
Crash(r) ==
  /\ req[r].at # "idle"
  /\ Goes(r, Idle)
  /\ stale' = stale \cup OwedPlayers(req[r]) \cup OwedSeasons(req[r])
  /\ UNCHANGED <<data, changes, withdrawn, irregular>>

(* precomputeSeasonCaches: a process that starts computes all tables. *)
Boot(r) ==
  /\ Starts(r)
  /\ Goes(r, Todo({}, {}, {s \in Seasons : Exists(s)}, None))
  /\ UNCHANGED <<data, history>>

(***************************************************************************)
(* Seasons.  A new one takes everybody's cards away.                       *)
(***************************************************************************)
NewSeason(archives) ==
  \E s \in Seasons :
    /\ seasons[s] = "none"
    /\ seasons' = [x \in Seasons |->
                     IF x = s THEN "active"
                     ELSE IF archives /\ seasons[x] = "active" THEN "archived" ELSE seasons[x]]
    /\ players' = [p \in Players |-> Clean]

CreateSeason == NewSeason(FALSE)

ArchiveAndCreateNewSeason == NewSeason(TRUE)

UpdateSeasonStatus ==
  /\ \E s \in Seasons, status \in {"active", "archived"} :
       /\ Exists(s) /\ seasons[s] # status
       /\ seasons' = [seasons EXCEPT ![s] = status]
  /\ UNCHANGED players

SeasonChange ==
  /\ changes < MaxChanges[type] /\ changes' = changes + 1
  /\ \/ (CreateSeason \/ ArchiveAndCreateNewSeason) /\ UNCHANGED stale
     \/ UpdateSeasonStatus /\ stale' = stale \cup Players
  /\ UNCHANGED <<type, matches, groupOf, cache, req, withdrawn, irregular>>

(* approveSeasonDeletion: one approval is enough. *)
DeleteSeason ==
  /\ changes < MaxChanges[type] /\ changes' = changes + 1
  /\ \E s \in Seasons :
       /\ Exists(s)
       /\ seasons' = [seasons EXCEPT ![s] = "deleted"]
       /\ matches' = [i \in {j \in Rows : matches[j].seasonId # s} |-> matches[i]]
       /\ groupOf' = [groupOf EXCEPT ![s] = NoGroups]
       /\ cache' = [x \in DOMAIN cache \ {s} |-> cache[x]]
       /\ players' = [p \in Players |->
                        IF players[p].suspendedAt \in Rows \ DOMAIN matches'
                          THEN [players[p] EXCEPT !.suspendedAt = None] ELSE players[p]]
  /\ stale' = stale \cup Players
  /\ UNCHANGED <<type, req, withdrawn, irregular>>

UpdateSeasonGroups(r) ==
  /\ Starts(r)
  /\ \E s \in Seasons, groups \in Groupings :
       /\ Exists(s)
       /\ groupOf' = [groupOf EXCEPT ![s] = groups]
       /\ Goes(r, Todo({}, {}, {s}, None))
  /\ type = "CUP"
  /\ UNCHANGED <<type, seasons, matches, players, cache, history>>

(***************************************************************************)
(* generateKnockoutMatches: the pairs are those of the cached tables; the  *)
(* transaction looks for a match of each pair's place and then changes its *)
(* teams or creates it.                                                    *)
(***************************************************************************)
RoundOfSeason(s) == RoundOf(Cardinality(DOMAIN cache[s].standings))

InRound(i, s, round) ==
  matches[i].seasonId = s /\ matches[i].stage = "KNOCKOUT" /\ matches[i].knockoutRound = round

InPlace(s, index) ==
  {i \in Live : InRound(i, s, RoundOfSeason(s)) /\ matches[i].knockoutMatchIndex = index}

RanksTwice(tables) ==
  \E g, h \in DOMAIN tables : g # h
    /\ \E x \in tables[g], y \in tables[h] : x.teamId = y.teamId

(* A place that is no longer filled keeps the match it had. *)
KeepsOld(s, pairs) ==
  \E i \in Live : InRound(i, s, RoundOfSeason(s))
                  /\ matches[i].knockoutMatchIndex \notin {p.index : p \in pairs}

GenerateRead(r) ==
  /\ Starts(r) /\ type = "CUP"
  /\ \E s \in Seasons :
       /\ Exists(s) /\ s \in DOMAIN cache
       /\ LET pairs == Pairings(cache[s].standings)
              at(p) == InPlace(s, p.index)
          IN  /\ pairs # {}
              /\ \E found \in [pairs -> MatchIds \cup {None}] :
                   /\ \A p \in pairs : IF at(p) = {} THEN found[p] = None ELSE found[p] \in at(p)
                   /\ Goes(r, [at |-> "generating", season |-> s, found |-> found,
                               round |-> RoundOfSeason(s)])
              /\ irregular' = (irregular \/ RanksTwice(cache[s].standings) \/ KeepsOld(s, pairs)
                               \/ \E o \in Requests : req[o].at = "generating")
  /\ UNCHANGED <<data, stale, withdrawn>>

(* A match that was found is gone, or the season is. *)
Vanished(q) ==
  ~ Exists(q.season) \/ \E p \in DOMAIN q.found : q.found[p] \notin Rows \cup {None}

GenerateWrite(r) ==
  LET q == req[r]
      pairs == DOMAIN q.found
      missing == {p \in pairs : q.found[p] = None}
      free == DOMAIN Free[type] \ Rows
      ids == {f \in [missing -> free] : IsInjective(f)}
      new == CHOOSE f \in ids : TRUE
      Draft(p) == [seasonId |-> q.season, stage |-> "KNOCKOUT", groupName |-> None,
                   knockoutRound |-> q.round, knockoutMatchIndex |-> p.index,
                   homeTeamId |-> p.homeTeamId, awayTeamId |-> p.awayTeamId]
      drawn(i) == CHOOSE p \in pairs : q.found[p] = i
      placed(i) == CHOOSE p \in missing : new[p] = i
      changed == {i \in Rows : matches'[i] # matches[i]}
      played == {i \in Rows : Withdraws(matches[i], matches'[i])}
  IN  /\ q.at = "generating" /\ ~ Vanished(q)
      /\ ids # {}
      /\ matches' = [i \in Rows \cup {new[p] : p \in missing} |->
           IF i \notin Rows THEN Row(i, Free[type][i], Draft(placed(i)))
           ELSE IF \E p \in pairs : q.found[p] = i
             THEN Merge(matches[i], [homeTeamId |-> drawn(i).homeTeamId,
                                     awayTeamId |-> drawn(i).awayTeamId])
           ELSE matches[i]]
      /\ Goes(r, Idle)
      /\ stale' = stale \cup {i \in changed : matches[i].winnerTeamId # None}
                  \cup {matches[i].seasonId : i \in {j \in changed : matches[j].stage = "GROUP"}}
                  \cup (IF played # {} THEN Players ELSE {})
      /\ withdrawn' = (withdrawn \/ played # {})
      /\ UNCHANGED <<type, seasons, players, groupOf, cache, changes, irregular>>

GenerateFails(r) ==
  /\ req[r].at = "generating" /\ Vanished(req[r])
  /\ Goes(r, Idle)
  /\ UNCHANGED <<data, changes, history>>

MatchNext ==
  \/ \E r \in Requests :
       \/ UpdateRead(r) \/ UpdateCommit(r) \/ UpdateFails(r) \/ Create(r) \/ AfterCreate(r)
       \/ RemoveRead(r) \/ RemoveCommit(r) \/ RemoveFails(r)
       \/ FindSuspended(r) \/ SyncRead(r) \/ SyncWrite(r) \/ TableRead(r) \/ TableWrite(r)
       \/ Answer(r) \/ Crash(r) \/ Boot(r)
       \/ UpdateSeasonGroups(r) \/ GenerateRead(r) \/ GenerateWrite(r) \/ GenerateFails(r)
  \/ SeasonChange \/ DeleteSeason

MatchSpec == Init /\ [][MatchNext]_vars

-----------------------------------------------------------------------------
Owed(p) == \E r \in Requests : p \in OwedPlayers(req[r])
OwedTables(s) == \E r \in Requests : s \in OwedSeasons(req[r])

(* A player's yellow and red cards are those of the matches of the active  *)
(* season, or a request is on its way that counts them, or the one that    *)
(* should have was overtaken or died, or staff switched seasons by hand.   *)
CardsAreCounted ==
  \A p \in Players :
    \/ Owed(p) \/ p \in stale
    \/ \E scope \in Scopes : /\ players[p].yellowCards = Cards(p, scope).yellowCards
                             /\ players[p].redCards = Cards(p, scope).redCards

(* In the same sense a player is suspended only while a card keeps him     *)
(* out, and is kept out for as long as it does, unless a match that his    *)
(* team had played was taken back, or the list has him in another team     *)
(* than his own: the matches of that one end no suspension.                *)
SuspensionIsServed ==
  \A p \in Players :
    \/ Owed(p) \/ p \in stale
    \/ \E scope \in Scopes :
         \/ EffectiveTeam(p, scope) # TeamOf[p]
         \/ /\ players[p].status = Cards(p, scope).status
            /\ players[p].suspendedAt = Cards(p, scope).suspendedAt
         \/ withdrawn /\ players[p].status = "active"

(* The cached tables of a season are those of its finished matches and its *)
(* groups, or a request is on its way that computes them, or the one that  *)
(* should have was overtaken or died, or a match went to another season.   *)
TablesAreCurrent ==
  \A s \in Seasons :
    Exists(s) =>
      \/ OwedTables(s) \/ s \in stale
      \/ s \in DOMAIN cache /\ cache[s] = Computed(s)
      \/ s \notin DOMAIN cache /\ \A i \in Live : matches[i].seasonId # s

(* Whatever edits a match goes through, overtaken ones included, the       *)
(* winner that was stored when it was written is the one its row tells     *)
(* afterwards; except in a decided match that a draw gave other teams, and *)
(* where the typed shoot-out is level, or blank, over one in the events.   *)
WinnerIsCanonical ==
  \A i \in Rows :
    \/ i \in stale
    \/ matches[i].winnerTeamId = CanonicalWinner(matches[i])
    \/ /\ matches[i].homePenaltyScore = matches[i].awayPenaltyScore
       /\ HasShootoutEvents(matches[i].events)

(* In a knock-out round that is drawn and never changed by hand every      *)
(* place has one match and every team plays once, unless it was drawn      *)
(* twice at the same time, from tables that rank a team in two groups, or  *)
(* again from tables that no longer fill one of its places.  An edit that  *)
(* had read a match before the draw writes its former teams back by hand.  *)
EachQualifiesOnce ==
  \A i, j \in Live :
    /\ i # j /\ matches[i].stage = "KNOCKOUT"
    /\ InRound(j, matches[i].seasonId, matches[i].knockoutRound)
    => \/ irregular
       \/ /\ matches[i].knockoutMatchIndex # matches[j].knockoutMatchIndex
          /\ {matches[i].homeTeamId, matches[i].awayTeamId}
               \cap {matches[j].homeTeamId, matches[j].awayTeamId} = {}
=============================================================================
