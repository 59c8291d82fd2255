---------------------------- MODULE MatchDayProofs ----------------------------
(***************************************************************************)
(* What a change of a match leaves to be recomputed, for every number of   *)
(* matches, players, seasons and requests: whoever's cards or suspension,  *)
(* whichever tables and whichever winner are not those of the matches, a   *)
(* request owes them or they are known to be stale.                        *)
(***************************************************************************)
EXTENDS MatchDay, FiniteSetTheorems, TLAPS

-----------------------------------------------------------------------------
(* Rows.  A new one fits; a row into which a body is merged fits.          *)
LEMMA NewRowFits ==
  ASSUME NEW i, NEW day, NEW draft, IsDraft(draft)
  PROVE  /\ IsRow(Row(i, day, draft))
         /\ Row(i, day, draft).seasonId = draft.seasonId
         /\ Row(i, day, draft).status = "scheduled" /\ Row(i, day, draft).events = << >>
         /\ Row(i, day, draft).winnerTeamId = None
         /\ CanonicalWinner(Row(i, day, draft)) = None
<1> DEFINE row == Row(i, day, draft)
<1>1. /\ row.seasonId = draft.seasonId /\ row.status = "scheduled" /\ row.events = << >>
      /\ row.winnerTeamId = None /\ row.homeScore = 0 /\ row.awayScore = 0
      /\ row.homePenaltyScore = None /\ row.awayPenaltyScore = None
      /\ row.homeTeamId = draft.homeTeamId /\ row.awayTeamId = draft.awayTeamId
      /\ DOMAIN row = Columns
  BY DEF Row, Columns
<1>2. DOMAIN << >> = {}
  OBVIOUS
<1>3. IsFiniteSet(DOMAIN row.events)
  BY <1>1, <1>2, FS_EmptySet
<1>4. IsRow(row)
  <2> HIDE DEF row
  <2> SUFFICES ASSUME NEW f \in Columns PROVE Fits(f, row[f])
    BY <1>1 DEF IsRow
  <2> QED BY <1>1, <1>3, KindsAssumption DEF Fits, IsDraft
<1>5. CanonicalWinner(row) = None
  <2> HIDE DEF row
  <2>1. \A side : Tally(row.events, {"penalty_shootout_goal"}, side) = Cardinality({})
    BY <1>1, <1>2 DEF Tally
  <2>2. Ahead(0, 0) = None /\ Ahead(Cardinality({}), Cardinality({})) = None
    BY FS_EmptySet DEF Ahead
  <2> QED BY <1>1, <2>1, <2>2 DEF CanonicalWinner, IsDraft
<1> QED BY <1>1, <1>4, <1>5

LEMMA MergedFits ==
  ASSUME NEW m, NEW body, IsRow(m), \A f \in DOMAIN body : Fits(f, body[f])
  PROVE  /\ IsRow(Merge(m, body))
         /\ \A f \in Columns : Merge(m, body)[f] = IF f \in DOMAIN body THEN body[f] ELSE m[f]
BY DEF IsRow, Merge

(* How many events there are of some kind is a number. *)
LEMMA TallyIsNat ==
  ASSUME NEW events, IsFiniteSet(DOMAIN events), NEW types, NEW side
  PROVE  Tally(events, types, side) \in Nat
BY FS_Subset, FS_CardinalityType DEF Tally

(* Without a shoot-out nobody has scored in it. *)
LEMMA NoShootout ==
  ASSUME NEW events, NEW side, ~ HasShootoutEvents(events)
  PROVE  Tally(events, {"penalty_shootout_goal"}, side) = 0
<1>1. {k \in DOMAIN events : events[k].type \in {"penalty_shootout_goal"} /\ events[k].side = side} = {}
  BY DEF HasShootoutEvents, HasAny, ShootoutTypes
<1> QED BY <1>1, FS_EmptySet DEF Tally

(* An outcome: its columns have their types, and the winner is whom they   *)
(* name: the side ahead, else the side ahead in the shoot-out.             *)
IsOutcome(o) ==
  /\ o.homeScore \in Int /\ o.awayScore \in Int
  /\ o.homePenaltyScore \in Int \cup {None} /\ o.awayPenaltyScore \in Int \cup {None}
  /\ o.homeScore # o.awayScore => o.side = Ahead(o.homeScore, o.awayScore)
  /\ o.homeScore = o.awayScore =>
       o.side = IF o.homePenaltyScore # None /\ o.awayPenaltyScore # None
                  THEN Ahead(o.homePenaltyScore, o.awayPenaltyScore) ELSE None
  /\ o.homeScore = o.awayScore /\ (o.homePenaltyScore = None \/ o.awayPenaltyScore = None)
       => o.homePenaltyScore = None /\ o.awayPenaltyScore = None

LEMMA Resolved ==
  ASSUME NEW home \in Int, NEW away \in Int, NEW homePen \in Int \cup {None},
         NEW awayPen \in Int \cup {None}, NEW extra
  PROVE  IsOutcome(ResolveMatchOutcome(home, away, homePen, awayPen, extra))
<1> DEFINE o == ResolveMatchOutcome(home, away, homePen, awayPen, extra)
<1>1. CASE home # away
  <2>1. o = Outcome(home, away, homePen, awayPen, Ahead(home, away),
                    IF extra THEN "EXTRA_TIME" ELSE "REGULAR")
    BY <1>1 DEF ResolveMatchOutcome
  <2> QED BY <1>1, <2>1 DEF Outcome, IsOutcome
<1>2. CASE home = away /\ homePen # None /\ awayPen # None
  <2>1. o = Outcome(home, away, homePen, awayPen, Ahead(homePen, awayPen),
                    IF homePen = awayPen THEN None ELSE "PENALTIES")
    BY <1>2 DEF ResolveMatchOutcome
  <2> QED BY <1>2, <2>1 DEF Outcome, IsOutcome
<1>3. CASE home = away /\ ~ (homePen # None /\ awayPen # None)
  <2>1. o = Outcome(home, away, None, None, None, None)
    BY <1>3 DEF ResolveMatchOutcome
  <2> QED BY <1>3, <2>1 DEF Outcome, IsOutcome
<1> QED BY <1>1, <1>2, <1>3

(* What an edit writes, when the events decide and when they do not. *)
LEMMA OutcomeFits ==
  ASSUME NEW old, NEW body, IsRow(old), IsBody(body)
  PROVE  /\ IsOutcome(NewOutcome(old, body))
         /\ ByEvents(body) /\ HasShootoutEvents(body.events)
              /\ NewOutcome(old, body).homeScore = NewOutcome(old, body).awayScore
            => /\ NewOutcome(old, body).homePenaltyScore
                     = Tally(body.events, {"penalty_shootout_goal"}, "home")
               /\ NewOutcome(old, body).awayPenaltyScore
                     = Tally(body.events, {"penalty_shootout_goal"}, "away")
<1> DEFINE homePen == Penalties(old, body, "homePenaltyScore")
           awayPen == Penalties(old, body, "awayPenaltyScore")
           shot == ShootoutScore(body.events, homePen, awayPen)
<1>1. homePen \in Int \cup {None} /\ awayPen \in Int \cup {None}
  <2>1. \A f \in {"homePenaltyScore", "awayPenaltyScore"} :
          /\ old[f] \in Int \cup {None}
          /\ f \in DOMAIN body => body[f] \in Int \cup {None}
    BY DEF IsRow, IsBody, Fits, Columns
  <2> QED BY <2>1 DEF Penalties
<1>2. CASE ByEvents(body)
  <2>1. IsFiniteSet(DOMAIN body.events)
    BY <1>2 DEF ByEvents, IsBody, Fits
  <2>2. /\ RegularScore(body.events, "home") \in Int /\ RegularScore(body.events, "away") \in Int
    <3>1. \A types, side : Tally(body.events, types, side) \in Nat
      BY <2>1, TallyIsNat
    <3> QED BY <3>1 DEF RegularScore
  <2>3. /\ shot["home"] \in Int \cup {None} /\ shot["away"] \in Int \cup {None}
        /\ HasShootoutEvents(body.events) =>
             /\ shot["home"] = Tally(body.events, {"penalty_shootout_goal"}, "home")
             /\ shot["away"] = Tally(body.events, {"penalty_shootout_goal"}, "away")
    <3>1. \A side : Tally(body.events, {"penalty_shootout_goal"}, side) \in Int
      BY <2>1, TallyIsNat
    <3> HIDE DEF homePen, awayPen
    <3> QED BY <1>1, <3>1 DEF ShootoutScore, Sides
  <2> DEFINE extra == \E i \in DOMAIN body.events : body.events[i].phase = "EXTRA_TIME"
             o == ResolveMatchOutcome(RegularScore(body.events, "home"),
                    RegularScore(body.events, "away"), shot["home"], shot["away"], extra)
  <2>4. NewOutcome(old, body) = o
    BY <1>2 DEF NewOutcome, CalculateMatchOutcome
  <2> HIDE DEF shot, extra
  <2>5. IsOutcome(o)
    BY <2>2, <2>3, Resolved
  <2>6. o.homeScore = o.awayScore /\ HasShootoutEvents(body.events) =>
          o.homePenaltyScore = shot["home"] /\ o.awayPenaltyScore = shot["away"]
    <3> HIDE DEF o
    <3> SUFFICES ASSUME HasShootoutEvents(body.events), o.homeScore = o.awayScore
        PROVE  o.homePenaltyScore = shot["home"] /\ o.awayPenaltyScore = shot["away"]
      OBVIOUS
    <3>1. shot["home"] # None /\ shot["away"] # None
      BY <2>1, <2>3, TallyIsNat, KindsAssumption
    <3> QED BY <3>1 DEF o, ResolveMatchOutcome, Outcome
  <2> HIDE DEF o
  <2> QED BY <2>3, <2>4, <2>5, <2>6
<1>3. CASE ~ ByEvents(body)
  <2>1. Merge(old, body).homeScore \in Int /\ Merge(old, body).awayScore \in Int
    <3>1. IsRow(Merge(old, body))
      BY MergedFits DEF IsBody
    <3> QED BY <3>1 DEF IsRow, Fits, Columns
  <2>2. NewOutcome(old, body) = ResolveMatchOutcome(Merge(old, body).homeScore,
                                   Merge(old, body).awayScore, homePen, awayPen, FALSE)
    BY <1>3 DEF NewOutcome
  <2> HIDE DEF homePen, awayPen
  <2> QED BY <1>1, <1>3, <2>1, <2>2, Resolved
<1> QED BY <1>2, <1>3

(* The row an edit writes: columns of the body over those of the row, but  *)
(* teams, season and outcome as they follow from what was read.            *)
LEMMA UpdatedFits ==
  ASSUME NEW now, NEW old, NEW body, IsRow(now), IsRow(old), IsBody(body)
  PROVE  LET new == Updated(now, old, body)
             o == NewOutcome(old, body)
         IN  /\ IsRow(new)
             /\ new.seasonId = Merge(old, body).seasonId
             /\ new.homeTeamId = Merge(old, body).homeTeamId
             /\ new.awayTeamId = Merge(old, body).awayTeamId
             /\ new.homeScore = o.homeScore /\ new.awayScore = o.awayScore
             /\ new.homePenaltyScore = o.homePenaltyScore
             /\ new.awayPenaltyScore = o.awayPenaltyScore
             /\ new.winnerTeamId = WinnerOf(Merge(old, body), o)
             /\ new.events = Merge(now, body).events
             /\ new.deleted = now.deleted
<1> DEFINE read == Merge(old, body)
           o == NewOutcome(old, body)
           cols == [seasonId |-> read.seasonId, homeTeamId |-> read.homeTeamId,
                    awayTeamId |-> read.awayTeamId,
                    homeScore |-> o.homeScore, awayScore |-> o.awayScore,
                    homePenaltyScore |-> o.homePenaltyScore,
                    awayPenaltyScore |-> o.awayPenaltyScore,
                    winnerTeamId |-> WinnerOf(read, o), decidedBy |-> o.decidedBy,
                    goals |-> IF "events" \in DOMAIN body THEN GoalRows(body.events, << >>)
                              ELSE Merge(now, body).goals]
           new == Merge(Merge(now, body), cols)
<1>1. Updated(now, old, body) = new
  BY DEF Updated
<1>2. IsRow(read) /\ IsRow(Merge(now, body))
  BY MergedFits DEF IsBody
<1>3. IsOutcome(o)
  BY OutcomeFits
<1>4. Merge(now, body).deleted = now.deleted
  BY MergedFits DEF IsBody, Columns
<1> HIDE DEF read, o
<1>5. \A f \in DOMAIN cols : Fits(f, cols[f])
  BY <1>2, <1>3 DEF IsOutcome, IsRow, Fits, Columns
<1>6. IsRow(new) /\ \A f \in Columns : new[f] = IF f \in DOMAIN cols THEN cols[f] ELSE Merge(now, body)[f]
  <2> HIDE DEF cols
  <2> QED BY <1>2, <1>5, MergedFits
<1>7. /\ new.seasonId = read.seasonId
      /\ new.homeTeamId = read.homeTeamId /\ new.awayTeamId = read.awayTeamId
      /\ new.homeScore = o.homeScore /\ new.awayScore = o.awayScore
      /\ new.homePenaltyScore = o.homePenaltyScore
      /\ new.awayPenaltyScore = o.awayPenaltyScore
      /\ new.winnerTeamId = WinnerOf(read, o)
      /\ new.events = Merge(now, body).events
      /\ new.deleted = Merge(now, body).deleted
  <2> HIDE DEF new
  <2> QED BY <1>6 DEF Columns
<1> HIDE DEF new
<1> QED BY <1>1, <1>4, <1>6, <1>7 DEF read, o

-----------------------------------------------------------------------------
(* Winners.  What one row says of its own. *)
WinnerFits(m) ==
  \/ m.winnerTeamId = CanonicalWinner(m)
  \/ m.homePenaltyScore = m.awayPenaltyScore /\ HasShootoutEvents(m.events)

(* The winner that is stored with an outcome is the one its row tells. *)
LEMMA WinnerTold ==
  ASSUME NEW m, IsRow(m), NEW o, IsOutcome(o),
         m.homeScore = o.homeScore, m.awayScore = o.awayScore,
         m.homePenaltyScore = o.homePenaltyScore, m.awayPenaltyScore = o.awayPenaltyScore,
         m.winnerTeamId = TeamOn(m, o.side)
  PROVE  WinnerFits(m)
<1>1. m.homeTeamId # None /\ m.awayTeamId # None
  BY DEF IsRow, Fits, Columns
<1>2. \A x, y : Ahead(x, y) \in {"home", "away", None}
  BY DEF Ahead
<1>3. TeamOn(m, "home") = m.homeTeamId /\ TeamOn(m, "away") = m.awayTeamId
  BY DEF TeamOn
<1>4. CASE m.homeScore # m.awayScore
  <2>1. Ahead(m.homeScore, m.awayScore) # None
    BY <1>4, KindsAssumption DEF Ahead, IsOutcome, Sides
  <2> QED BY <1>4, <2>1 DEF CanonicalWinner, WinnerFits, IsOutcome
<1>5. CASE m.homeScore = m.awayScore
  <2>1. Ahead(m.homeScore, m.awayScore) = None
    BY <1>5 DEF Ahead, IsOutcome
  <2>2. ASSUME m.homePenaltyScore # m.awayPenaltyScore PROVE m.winnerTeamId = CanonicalWinner(m)
    <3>1. m.homePenaltyScore \in Int /\ m.awayPenaltyScore \in Int
      BY <1>5, <2>2 DEF IsOutcome
    <3>2. Ahead(m.homePenaltyScore, m.awayPenaltyScore) # None
      BY <2>2, <3>1, KindsAssumption DEF Ahead, Sides
    <3> QED BY <1>5, <2>1, <3>1, <3>2, KindsAssumption DEF CanonicalWinner, IsOutcome
  <2>3. ASSUME m.homePenaltyScore = m.awayPenaltyScore, ~ HasShootoutEvents(m.events)
        PROVE  m.winnerTeamId = CanonicalWinner(m)
    <3>1. /\ Tally(m.events, {"penalty_shootout_goal"}, "home") = 0
          /\ Tally(m.events, {"penalty_shootout_goal"}, "away") = 0
      BY <2>3, NoShootout
    <3>2. Ahead(0, 0) = None
      BY DEF Ahead
    <3>3. o.side = None
      BY <1>5, <2>3 DEF IsOutcome, Ahead
    <3>4. m.winnerTeamId = None
      BY <3>3, KindsAssumption DEF TeamOn, Sides
    <3>5. m.homePenaltyScore # None => Ahead(m.homePenaltyScore, m.awayPenaltyScore) = None
      BY <2>3, <1>5 DEF Ahead, IsOutcome
    <3> QED BY <1>1, <2>1, <2>3, <3>1, <3>2, <3>4, <3>5 DEF CanonicalWinner
  <2> QED BY <2>2, <2>3 DEF WinnerFits
<1> QED BY <1>4, <1>5

-----------------------------------------------------------------------------
(* States.  What a request carries. *)
IsSync(q) ==
  /\ q.at = "sync" /\ q = Todo(q.todo, q.teams, q.seasons, q.id)
  /\ q.todo \subseteq Players /\ q.seasons \subseteq Seasons

RequestFits(q) ==
  /\ q.at = "updating" => /\ IsRow(q.old) /\ IsBody(q.body)
                          /\ seasons[Merge(q.old, q.body).seasonId] # "none"
  /\ q.at = "removing" => q.todo \subseteq Players
  /\ q.at = "sync" => IsSync(q)
  /\ q.at = "card" => q.player \in Players /\ IsSync(q.rest)
  /\ q.at = "table" => q.season \in Seasons /\ IsSync(q.rest) /\ q.rest.id = None
  /\ q.at = "generating" =>
       /\ type = "CUP" /\ q.season \in Seasons /\ seasons[q.season] # "none"
       /\ Exists(q.season) => q.season \in DOMAIN cache
       /\ \A p \in DOMAIN q.found : p.homeTeamId # None /\ p.awayTeamId # None

RowsFit ==
  /\ Rows \subseteq MatchIds /\ matches = [i \in Rows |-> matches[i]]
  /\ \A i \in Rows : IsRow(matches[i]) /\ seasons[matches[i].seasonId] # "none"

CacheFits == DOMAIN cache \subseteq {s \in Seasons : seasons[s] # "none"}

TypeOK ==
  /\ type \in Types
  /\ seasons \in [Seasons -> {"none", "active", "archived", "deleted"}]
  /\ RowsFit
  /\ DOMAIN players = Players /\ DOMAIN groupOf = Seasons
  /\ CacheFits
  /\ DOMAIN req = Requests /\ \A r \in Requests : RequestFits(req[r])

LEMMA TodoFits ==
  ASSUME NEW todo, NEW teams, NEW ss, NEW id, todo \subseteq Players, ss \subseteq Seasons
  PROVE  /\ IsSync(Todo(todo, teams, ss, id)) /\ Todo(todo, teams, ss, id).at = "sync"
         /\ Todo(todo, teams, ss, id).todo = todo /\ Todo(todo, teams, ss, id).teams = teams
         /\ Todo(todo, teams, ss, id).seasons = ss /\ Todo(todo, teams, ss, id).id = id
BY DEF IsSync, Todo

LEMMA SyncFits ==
  ASSUME NEW q, IsSync(q)
  PROVE  RequestFits(q)
BY DEF IsSync, RequestFits

(* One request has gone on: the others are as they were. *)
LEMMA Gone ==
  ASSUME NEW r \in Requests, NEW next, DOMAIN req = Requests, Goes(r, next)
  PROVE  DOMAIN req' = Requests /\ req'[r] = next /\ \A o \in Requests \ {r} : req'[o] = req[o]
BY DEF Goes

(* What a request carries stays fit while seasons come and go. *)
SeasonsGoOn ==
  \A s \in Seasons :
    /\ seasons[s] # "none" => seasons'[s] # "none" /\ (Exists(s)' => Exists(s))
    /\ Exists(s)' /\ s \in DOMAIN cache => s \in DOMAIN cache'

LEMMA RequestKept ==
  ASSUME NEW q, RequestFits(q), type' = type, SeasonsGoOn
  PROVE  RequestFits(q)'
<1>1. ASSUME q.at = "updating" PROVE seasons'[Merge(q.old, q.body).seasonId] # "none"
  <2>1. IsRow(Merge(q.old, q.body))
    BY <1>1, MergedFits DEF RequestFits, IsBody
  <2>2. Merge(q.old, q.body).seasonId \in Seasons
    BY <2>1 DEF IsRow, Fits, Columns
  <2> QED BY <1>1, <2>2 DEF RequestFits, SeasonsGoOn
<1>2. ASSUME q.at = "generating"
      PROVE  seasons'[q.season] # "none" /\ (Exists(q.season)' => q.season \in DOMAIN cache')
  BY <1>2 DEF RequestFits, SeasonsGoOn
<1> QED BY <1>1, <1>2 DEF RequestFits

LEMMA RequestsFit ==
  ASSUME TypeOK, NEW r \in Requests, type' = type, SeasonsGoOn,
         \A o \in Requests \ {r} : req'[o] = req[o],
         RequestFits(req[r])'
  PROVE  \A o \in Requests : RequestFits(req[o])'
<1> SUFFICES ASSUME NEW o \in Requests \ {r} PROVE RequestFits(req[o])'
  OBVIOUS
<1>1. RequestFits(req[o]) /\ req'[o] = req[o]
  BY DEF TypeOK
<1>2. RequestFits(req[o])'
  BY <1>1, RequestKept
<1> QED BY <1>2

(* A step of a request that leaves matches and seasons alone. *)
LEMMA TypeWithRequest ==
  ASSUME TypeOK, NEW r \in Requests, NEW next, Goes(r, next), RequestFits(next),
         UNCHANGED <<type, seasons, matches>>,
         DOMAIN players' = DOMAIN players, DOMAIN groupOf' = DOMAIN groupOf,
         DOMAIN cache \subseteq DOMAIN cache',
         CacheFits'
  PROVE  TypeOK'
<1>1. /\ DOMAIN req' = Requests /\ req'[r] = next
      /\ \A o \in Requests \ {r} : req'[o] = req[o]
  BY Gone DEF TypeOK
<1>2. SeasonsGoOn
  BY DEF SeasonsGoOn, Exists
<1>3. RequestFits(req[r])'
  BY <1>1, <1>2, RequestKept
<1>4. \A o \in Requests : RequestFits(req[o])'
  BY <1>1, <1>2, <1>3, RequestsFit
<1> QED BY <1>1, <1>4 DEF TypeOK, RowsFit, Rows

LEMMA InitTypeOK == Init => TypeOK
<1> SUFFICES ASSUME Init PROVE TypeOK
  OBVIOUS
<1>1. type \in Types /\ seasons \in [Seasons -> {"none", "active", "archived", "deleted"}]
  BY DEF Init
<1>2. /\ Rows = DOMAIN Fixtures[type]
      /\ \A i \in Rows : matches[i] = Row(i, Fixtures[type][i].day, Fixtures[type][i])
      /\ matches = [i \in Rows |-> matches[i]]
  BY DEF Init, Rows
<1>3. \A i \in Rows : IsRow(matches[i]) /\ seasons[matches[i].seasonId] # "none"
  <2> SUFFICES ASSUME NEW i \in Rows PROVE IsRow(matches[i]) /\ seasons[matches[i].seasonId] # "none"
    OBVIOUS
  <2>1. IsDraft(Fixtures[type][i]) /\ Fixtures[type][i].seasonId = First /\ First \in Seasons
    BY <1>1, <1>2, MatchAssumption
  <2>2. IsRow(matches[i]) /\ matches[i].seasonId = First
    BY <1>2, <2>1, NewRowFits
  <2>3. seasons[First] = "active"
    BY <2>1 DEF Init
  <2> QED BY <2>2, <2>3
<1>4. Rows \subseteq MatchIds
  BY <1>1, <1>2, MatchAssumption
<1>5. /\ DOMAIN players = Players /\ DOMAIN groupOf = Seasons
      /\ CacheFits
  BY MatchAssumption DEF Init, CacheFits
<1>6. DOMAIN req = Requests /\ \A r \in Requests : RequestFits(req[r])
  <2>1. DOMAIN req = Requests /\ \A r \in Requests : req[r] = Idle
    BY DEF Init
  <2>2. RequestFits(Idle)
    BY DEF RequestFits, Idle
  <2> QED BY <2>1, <2>2
<1> QED BY <1>1, <1>2, <1>3, <1>4, <1>5, <1>6 DEF TypeOK, RowsFit

(* Seasons whose tables are due are seasons. *)
LEMMA DueFits ==
  ASSUME TypeOK, NEW q, IsSync(q)
  PROVE  Due(q) \subseteq Seasons
BY DEF Due, IsSync, TypeOK, RowsFit, IsRow, Fits, Columns

(* A step of a request that rewrites rows or adds some. *)
LEMMA TypeWithRows ==
  ASSUME TypeOK, NEW r \in Requests, NEW next, Goes(r, next), RequestFits(next),
         UNCHANGED <<type, seasons, players, groupOf, cache>>,
         Rows' \subseteq MatchIds, matches' = [i \in Rows' |-> matches'[i]],
         \A i \in Rows' : \/ i \in Rows /\ matches'[i] = matches[i]
                          \/ IsRow(matches'[i]) /\ seasons[matches'[i].seasonId] # "none"
  PROVE  TypeOK'
<1>1. /\ DOMAIN req' = Requests /\ req'[r] = next
      /\ \A o \in Requests \ {r} : req'[o] = req[o]
  BY Gone DEF TypeOK
<1>2. SeasonsGoOn
  BY DEF SeasonsGoOn, Exists
<1>3. \A o \in Requests : RequestFits(req[o])'
  <2>1. RequestFits(req[r])'
    BY <1>1, <1>2, RequestKept
  <2> QED BY <1>1, <1>2, <2>1, RequestsFit
<1>4. \A i \in Rows' : IsRow(matches'[i]) /\ seasons'[matches'[i].seasonId] # "none"
  BY DEF TypeOK, RowsFit
<1>5. RowsFit' /\ CacheFits'
  BY <1>4 DEF RowsFit, CacheFits, TypeOK
<1> QED BY <1>1, <1>3, <1>5 DEF TypeOK

LEMMA TypeUpdateRead ==
  ASSUME TypeOK, NEW r \in Requests, UpdateRead(r)
  PROVE  TypeOK'
<1>1. PICK i \in Rows, body \in Edits[type] :
        /\ ~ UpdateRefused(matches[i], body)
        /\ Goes(r, [at |-> "updating", id |-> i, old |-> matches[i], body |-> body])
  BY DEF UpdateRead
<1> DEFINE next == [at |-> "updating", id |-> i, old |-> matches[i], body |-> body]
<1>2. next.at = "updating" /\ next.old = matches[i] /\ next.body = body
  OBVIOUS
<1>3. IsRow(matches[i]) /\ IsBody(body)
  BY MatchAssumption DEF TypeOK, RowsFit
<1>4. seasons[Merge(matches[i], body).seasonId] # "none"
  BY <1>1 DEF UpdateRefused, Exists
<1> HIDE DEF next
<1>5. RequestFits(next)
  BY <1>2, <1>3, <1>4 DEF RequestFits
<1>6. UNCHANGED <<type, seasons, matches, players, groupOf, cache>> /\ Goes(r, next)
  BY <1>1 DEF UpdateRead, data, next
<1>7. CacheFits'
  BY <1>6 DEF TypeOK, CacheFits
<1> QED BY <1>5, <1>6, <1>7, TypeWithRequest

LEMMA TypeUpdateCommit ==
  ASSUME TypeOK, NEW r \in Requests, UpdateCommit(r)
  PROVE  TypeOK'
<1> DEFINE q == req[r]
           new == Updated(matches[q.id], q.old, q.body)
           synced == SyncedBy(q.old, Merge(q.old, q.body))
           next == Todo(synced, TeamsIfFinished(new), {}, q.id)
<1>1. /\ q.at = "updating" /\ q.id \in Rows /\ matches' = [matches EXCEPT ![q.id] = new]
      /\ Goes(r, next) /\ UNCHANGED <<type, seasons, players, groupOf, cache>>
  BY DEF UpdateCommit
<1>2. IsRow(q.old) /\ IsBody(q.body) /\ IsRow(matches[q.id])
      /\ seasons[Merge(q.old, q.body).seasonId] # "none"
  BY <1>1 DEF TypeOK, RequestFits, RowsFit
<1>3. IsRow(new) /\ seasons[new.seasonId] # "none"
  BY <1>2, UpdatedFits
<1>4. synced \subseteq Players
  BY DEF SyncedBy, Involved
<1>5. RequestFits(next)
  BY <1>4, TodoFits, SyncFits
<1> HIDE DEF new, next
<1>6. /\ Rows' = Rows /\ matches' = [i \in Rows' |-> matches'[i]]
      /\ matches'[q.id] = new /\ \A i \in Rows \ {q.id} : matches'[i] = matches[i]
  BY <1>1 DEF Rows
<1> QED BY <1>1, <1>3, <1>5, <1>6, TypeWithRows DEF TypeOK, RowsFit

LEMMA TypeCreate ==
  ASSUME TypeOK, NEW r \in Requests, Create(r)
  PROVE  TypeOK'
<1>1. PICK i \in DOMAIN Free[type] \ Rows, draft \in Drafts[type] :
        LET row == Row(i, Free[type][i], draft)
        IN  /\ ~ UpdateRefused(row, draft.body)
            /\ matches' = [j \in Rows \cup {i} |->
                             IF j = i THEN Updated(row, row, draft.body) ELSE matches[j]]
            /\ Goes(r, [at |-> "created", id |-> i, events |-> matches'[i].events])
  BY DEF Create
<1> DEFINE row == Row(i, Free[type][i], draft)
           new == Updated(row, row, draft.body)
           next == [at |-> "created", id |-> i, events |-> matches'[i].events]
<1>2. type \in Types /\ IsDraft(draft) /\ IsBody(draft.body) /\ i \in MatchIds
  BY MatchAssumption DEF TypeOK
<1>3. IsRow(row)
  BY <1>2, NewRowFits
<1>4. IsRow(new) /\ new.seasonId = Merge(row, draft.body).seasonId
  BY <1>2, <1>3, UpdatedFits
<1>5. seasons[Merge(row, draft.body).seasonId] # "none"
  BY <1>1 DEF UpdateRefused, Exists
<1> HIDE DEF row
<1>6. /\ Rows' = Rows \cup {i} /\ matches' = [j \in Rows' |-> matches'[j]] /\ Goes(r, next)
      /\ matches'[i] = new /\ \A j \in Rows : matches'[j] = matches[j]
  BY <1>1 DEF Rows, row
<1>7. RequestFits(next)
  BY DEF RequestFits
<1>8. UNCHANGED <<type, seasons, players, groupOf, cache>>
  BY DEF Create
<1> HIDE DEF new, next
<1>9. \A j \in Rows' : \/ j \in Rows /\ matches'[j] = matches[j]
                       \/ IsRow(matches'[j]) /\ seasons[matches'[j].seasonId] # "none"
  BY <1>4, <1>5, <1>6
<1> QED BY <1>2, <1>6, <1>7, <1>8, <1>9, TypeWithRows DEF TypeOK, RowsFit

(* A row is marked as deleted. *)
LEMMA Removed ==
  ASSUME TypeOK, NEW r \in Requests, RemoveCommit(r)
  PROVE  LET i == req[r].id
         IN  /\ Rows' = Rows /\ matches' = [j \in Rows' |-> matches'[j]] /\ i \in Rows
             /\ matches'[i] = [matches[i] EXCEPT !.deleted = TRUE]
             /\ DOMAIN matches'[i] = DOMAIN matches[i] /\ matches'[i].deleted
             /\ \A f \in DOMAIN matches[i] \ {"deleted"} : matches'[i][f] = matches[i][f]
             /\ \A j \in Rows \ {i} : matches'[j] = matches[j]
<1>1. IsRow(matches[req[r].id])
  BY DEF TypeOK, RowsFit, RemoveCommit
<1> QED BY <1>1 DEF RemoveCommit, Rows, IsRow, Columns

LEMMA TypeRemoveCommit ==
  ASSUME TypeOK, NEW r \in Requests, RemoveCommit(r)
  PROVE  TypeOK'
<1> DEFINE q == req[r]
           next == Todo(q.todo, {}, {matches[q.id].seasonId}, None)
<1>1. /\ q.at = "removing" /\ Goes(r, next)
      /\ UNCHANGED <<type, seasons, players, groupOf, cache>>
  BY DEF RemoveCommit
<1>2. IsRow(matches[q.id]) /\ matches[q.id].seasonId \in Seasons
  BY Removed DEF TypeOK, RowsFit, IsRow, Fits, Columns
<1>3. RequestFits(next)
  BY <1>1, <1>2, TodoFits, SyncFits DEF TypeOK, RequestFits
<1>4. IsRow(matches'[q.id]) /\ matches'[q.id].seasonId = matches[q.id].seasonId
  <2> DEFINE old == matches[q.id]
             new == matches'[q.id]
  <2>1. /\ IsRow(old) /\ DOMAIN new = DOMAIN old
        /\ \A f \in DOMAIN old \ {"deleted"} : new[f] = old[f]
    BY <1>2, Removed
  <2> HIDE DEF old, new
  <2>2. DOMAIN new = Columns /\ \A f \in Columns \ {"deleted"} : new[f] = old[f] /\ Fits(f, old[f])
    BY <2>1 DEF IsRow
  <2>3. \A v : Fits("deleted", v)
    BY DEF Fits
  <2>4. IsRow(new)
    <3> SUFFICES ASSUME NEW f \in Columns PROVE Fits(f, new[f])
      BY <2>2 DEF IsRow
    <3>1. CASE f = "deleted"
      BY <2>3, <3>1
    <3> QED BY <2>2, <3>1
  <2> QED BY <2>2, <2>4 DEF Columns, old, new
<1> HIDE DEF next
<1>5. /\ Rows' = Rows /\ matches' = [j \in Rows' |-> matches'[j]] /\ q.id \in Rows
      /\ \A j \in Rows \ {q.id} : matches'[j] = matches[j]
  BY Removed
<1>6. Rows \subseteq MatchIds /\ seasons[matches[q.id].seasonId] # "none"
  BY <1>5 DEF TypeOK, RowsFit
<1> QED BY <1>1, <1>3, <1>4, <1>5, <1>6, TypeWithRows

(* The steps of a request that change nothing else, or nothing but what    *)
(* was computed.                                                           *)
LEMMA TypeOther ==
  ASSUME TypeOK, NEW r \in Requests,
         \/ UpdateFails(r) \/ AfterCreate(r) \/ RemoveRead(r) \/ RemoveFails(r)
         \/ FindSuspended(r) \/ SyncRead(r) \/ SyncWrite(r) \/ TableRead(r) \/ TableWrite(r)
         \/ Answer(r) \/ Crash(r) \/ Boot(r)
         \/ UpdateSeasonGroups(r) \/ GenerateRead(r) \/ GenerateFails(r)
  PROVE  TypeOK'
<1> DEFINE q == req[r]
<1>1. ASSUME NEW next, Goes(r, next), RequestFits(next), UNCHANGED data
      PROVE  TypeOK'
  <2>1. UNCHANGED <<type, seasons, matches, players, groupOf, cache>>
    BY <1>1 DEF data
  <2>2. CacheFits'
    BY <2>1 DEF TypeOK, CacheFits
  <2> QED BY <1>1, <2>1, <2>2, TypeWithRequest
<1>2. RequestFits(Idle)
  BY DEF RequestFits, Idle
<1>3. RequestFits(q)
  BY DEF TypeOK
<1>4. CASE UpdateFails(r) \/ RemoveFails(r) \/ Answer(r) \/ Crash(r) \/ GenerateFails(r)
  <2>1. Goes(r, Idle) /\ UNCHANGED data
    BY <1>4 DEF UpdateFails, RemoveFails, Answer, Crash, GenerateFails
  <2> QED BY <1>1, <1>2, <2>1
<1>5. CASE AfterCreate(r)
  <2> DEFINE next == Todo(Involved(q.events), TeamsIfFinished(matches[q.id]),
                          {matches[q.id].seasonId}, None)
  <2>1. UNCHANGED data /\ (q.id \in Rows => Goes(r, next)) /\ (q.id \notin Rows => Goes(r, Idle))
    BY <1>5 DEF AfterCreate
  <2>2. ASSUME q.id \in Rows PROVE RequestFits(next)
    <3>1. matches[q.id].seasonId \in Seasons
      BY <2>2 DEF TypeOK, RowsFit, IsRow, Fits, Columns
    <3>2. Involved(q.events) \subseteq Players
      BY DEF Involved
    <3> QED BY <3>1, <3>2, TodoFits, SyncFits
  <2> HIDE DEF next
  <2> QED BY <1>1, <1>2, <2>1, <2>2
<1>6. CASE RemoveRead(r)
  <2>1. PICK i \in Live : Goes(r, [at |-> "removing", id |-> i,
                todo |-> Involved(matches[i].events)
                         \cup SuspendedIn({matches[i].homeTeamId, matches[i].awayTeamId})])
    BY <1>6 DEF RemoveRead
  <2> DEFINE next == [at |-> "removing", id |-> i,
                todo |-> Involved(matches[i].events)
                         \cup SuspendedIn({matches[i].homeTeamId, matches[i].awayTeamId})]
  <2>2. RequestFits(next)
    BY DEF RequestFits, Involved, SuspendedIn
  <2> HIDE DEF next
  <2>3. UNCHANGED data
    BY <1>6 DEF RemoveRead
  <2> QED BY <1>1, <2>1, <2>2, <2>3 DEF next
<1>7. CASE FindSuspended(r)
  <2> DEFINE next == Todo(q.todo \cup SuspendedIn(q.teams), {}, q.seasons, q.id)
  <2>1. IsSync(q) /\ Goes(r, next) /\ UNCHANGED data
    BY <1>3, <1>7 DEF FindSuspended, RequestFits
  <2>2. q.todo \cup SuspendedIn(q.teams) \subseteq Players /\ q.seasons \subseteq Seasons
    BY <2>1 DEF IsSync, SuspendedIn
  <2>3. RequestFits(next)
    BY <2>2, TodoFits, SyncFits
  <2> HIDE DEF next
  <2> QED BY <1>1, <2>1, <2>3
<1>8. CASE SyncRead(r)
  <2>1. IsSync(q) /\ UNCHANGED data
    BY <1>3, <1>8 DEF SyncRead, RequestFits
  <2>2. PICK p \in q.todo, scope \in Scopes :
          Goes(r, [at |-> "card", player |-> p, value |-> Cards(p, scope),
                   rest |-> Todo(q.todo \ {p}, {}, q.seasons, q.id)])
    BY <1>8 DEF SyncRead
  <2> DEFINE rest == Todo(q.todo \ {p}, {}, q.seasons, q.id)
             next == [at |-> "card", player |-> p, value |-> Cards(p, scope), rest |-> rest]
  <2>3. IsSync(rest) /\ p \in Players
    BY <2>1, TodoFits DEF IsSync
  <2> HIDE DEF rest
  <2>4. RequestFits(next)
    BY <2>3 DEF RequestFits
  <2> HIDE DEF next
  <2> QED BY <1>1, <2>1, <2>2, <2>4 DEF next, rest
<1>9. CASE SyncWrite(r)
  <2>1. RequestFits(q.rest)
    BY <1>3, <1>9, SyncFits DEF SyncWrite, RequestFits
  <2>2. /\ Goes(r, q.rest) /\ UNCHANGED <<type, seasons, matches, groupOf, cache>>
        /\ DOMAIN players' = DOMAIN players
    BY <1>9 DEF SyncWrite
  <2>3. CacheFits'
    BY <2>2 DEF TypeOK, CacheFits
  <2> QED BY <2>1, <2>2, <2>3, TypeWithRequest
<1>10. CASE TableRead(r)
  <2>1. IsSync(q) /\ UNCHANGED data
    BY <1>3, <1>10 DEF TableRead, RequestFits
  <2>2. PICK s \in Due(q) :
          LET rest == Todo({}, {}, Due(q) \ {s}, None)
          IN  Goes(r, IF ~ Exists(s) THEN rest
                      ELSE [at |-> "table", season |-> s, value |-> Computed(s), rest |-> rest])
    BY <1>10 DEF TableRead
  <2> DEFINE rest == Todo({}, {}, Due(q) \ {s}, None)
             next == [at |-> "table", season |-> s, value |-> Computed(s), rest |-> rest]
  <2>3. IsSync(rest) /\ rest.id = None /\ s \in Seasons
    BY <2>1, TodoFits, DueFits
  <2> HIDE DEF rest
  <2>4. RequestFits(next) /\ RequestFits(rest)
    BY <2>3, SyncFits DEF RequestFits
  <2> HIDE DEF next
  <2>5. Goes(r, rest) \/ Goes(r, next)
    BY <2>2 DEF next, rest
  <2> QED BY <1>1, <2>1, <2>4, <2>5
<1>11. CASE TableWrite(r)
  <2>1. RequestFits(q.rest)
    BY <1>3, <1>11, SyncFits DEF TableWrite, RequestFits
  <2>2. /\ Goes(r, q.rest) /\ UNCHANGED <<type, seasons, matches, players, groupOf>>
        /\ \/ cache' = cache
           \/ /\ Exists(q.season)
              /\ cache' = [x \in DOMAIN cache \cup {q.season} |->
                             IF x = q.season THEN q.value ELSE cache[x]]
    BY <1>11 DEF TableWrite
  <2>3. DOMAIN cache \subseteq DOMAIN cache' /\ CacheFits'
    <3>1. q.season \in Seasons /\ CacheFits
      BY <1>3, <1>11 DEF TableWrite, RequestFits, TypeOK
    <3>2. CASE cache' = cache
      BY <2>2, <3>1, <3>2 DEF CacheFits
    <3>3. CASE Exists(q.season) /\ DOMAIN cache' = DOMAIN cache \cup {q.season}
      BY <2>2, <3>1, <3>3 DEF CacheFits, Exists
    <3> QED BY <2>2, <3>2, <3>3
  <2> QED BY <2>1, <2>2, <2>3, TypeWithRequest
<1>12. CASE Boot(r)
  <2> DEFINE next == Todo({}, {}, {s \in Seasons : Exists(s)}, None)
  <2>1. Goes(r, next) /\ UNCHANGED data
    BY <1>12 DEF Boot
  <2>2. RequestFits(next)
    <3>1. {s \in Seasons : Exists(s)} \subseteq Seasons
      OBVIOUS
    <3> QED BY <3>1, TodoFits, SyncFits
  <2> HIDE DEF next
  <2> QED BY <1>1, <2>1, <2>2
<1>13. CASE UpdateSeasonGroups(r)
  <2>1. PICK s \in Seasons, groups \in Groupings :
          groupOf' = [groupOf EXCEPT ![s] = groups] /\ Goes(r, Todo({}, {}, {s}, None))
    BY <1>13 DEF UpdateSeasonGroups
  <2>2. RequestFits(Todo({}, {}, {s}, None))
    BY TodoFits, SyncFits
  <2>3. UNCHANGED <<type, seasons, matches, players, cache>> /\ DOMAIN groupOf' = DOMAIN groupOf
    BY <1>13, <2>1 DEF UpdateSeasonGroups
  <2>4. CacheFits'
    BY <2>3 DEF TypeOK, CacheFits
  <2> QED BY <2>1, <2>2, <2>3, <2>4, TypeWithRequest
<1>14. CASE GenerateRead(r)
  <2>1. type = "CUP" /\ UNCHANGED data
    BY <1>14 DEF GenerateRead
  <2>2. PICK s \in Seasons :
          /\ Exists(s) /\ s \in DOMAIN cache
          /\ \E found \in [Pairings(cache[s].standings) -> MatchIds \cup {None}] :
               Goes(r, [at |-> "generating", season |-> s, found |-> found, round |-> RoundOfSeason(s)])
    BY <1>14 DEF GenerateRead
  <2>3. PICK found \in [Pairings(cache[s].standings) -> MatchIds \cup {None}] :
          Goes(r, [at |-> "generating", season |-> s, found |-> found, round |-> RoundOfSeason(s)])
    BY <2>2
  <2> DEFINE next == [at |-> "generating", season |-> s, found |-> found, round |-> RoundOfSeason(s)]
  <2>4. \A p \in DOMAIN found : p.homeTeamId # None /\ p.awayTeamId # None
    BY DEF Pairings
  <2>5. seasons[s] # "none"
    BY <2>2 DEF Exists
  <2>6. RequestFits(next)
    BY <2>1, <2>2, <2>4, <2>5 DEF RequestFits
  <2> HIDE DEF next
  <2> QED BY <1>1, <2>1, <2>3, <2>6 DEF next
<1> QED BY <1>4, <1>5, <1>6, <1>7, <1>8, <1>9, <1>10, <1>11, <1>12, <1>13, <1>14

(* The knock-out round that is written: a row gets the teams of the pair   *)
(* it was found for, and each pair for which none was found gets one.      *)
DraftOf(q, x) ==
  [seasonId |-> q.season, stage |-> "KNOCKOUT", groupName |-> None,
   knockoutRound |-> q.round, knockoutMatchIndex |-> x.index,
   homeTeamId |-> x.homeTeamId, awayTeamId |-> x.awayTeamId]

LEMMA Drawn ==
  ASSUME TypeOK, NEW r \in Requests, GenerateWrite(r)
  PROVE  /\ Rows \subseteq Rows' /\ Rows' \subseteq MatchIds
         /\ matches' = [i \in Rows' |-> matches'[i]]
         /\ \A i \in Rows :
              \/ matches'[i] = matches[i] /\ \A x \in DOMAIN req[r].found : req[r].found[x] # i
              \/ \E x \in DOMAIN req[r].found :
                   /\ req[r].found[x] = i
                   /\ matches'[i] = Merge(matches[i], [homeTeamId |-> x.homeTeamId, awayTeamId |-> x.awayTeamId])
         /\ \E given : \A i \in Rows' \ Rows : \E x \in DOMAIN req[r].found :
              /\ req[r].found[x] = None /\ given[x] = i
              /\ \E day : matches'[i] = Row(i, day, DraftOf(req[r], x))
<1> DEFINE q == req[r]
           pairs == DOMAIN q.found
           missing == {p \in pairs : q.found[p] = None}
           free == DOMAIN Free[type] \ Rows
           ids == {f \in [missing -> free] : IsInjective(f)}
           given == CHOOSE f \in ids : TRUE
           Draft(p) == [seasonId |-> q.season, stage |-> "KNOCKOUT", groupName |-> None,
                        knockoutRound |-> q.round, knockoutMatchIndex |-> p.index,
                        homeTeamId |-> p.homeTeamId, awayTeamId |-> p.awayTeamId]
           drawn(i) == CHOOSE p \in pairs : q.found[p] = i
           placed(i) == CHOOSE p \in missing : given[p] = i
           all == Rows \cup {given[p] : p \in missing}
<1>1. /\ q.at = "generating" /\ ids # {}
      /\ matches' = [i \in all |->
           IF i \notin Rows THEN Row(i, Free[type][i], Draft(placed(i)))
           ELSE IF \E p \in pairs : q.found[p] = i
             THEN Merge(matches[i], [homeTeamId |-> drawn(i).homeTeamId,
                                     awayTeamId |-> drawn(i).awayTeamId])
           ELSE matches[i]]
  BY DEF GenerateWrite
<1>2. given \in [missing -> free]
  BY <1>1
<1>3. free \subseteq MatchIds /\ Rows \subseteq MatchIds
  BY MatchAssumption DEF TypeOK, RowsFit
<1>4. all \subseteq MatchIds
  <2> HIDE DEF given, missing, free
  <2> QED BY <1>2, <1>3
<1>5. Rows' = all /\ matches' = [i \in Rows' |-> matches'[i]]
  <2> HIDE DEF all, drawn, placed, pairs
  <2> QED BY <1>1 DEF Rows
<1>6. ASSUME NEW i \in Rows
      PROVE  \/ matches'[i] = matches[i] /\ \A x \in pairs : q.found[x] # i
             \/ \E x \in pairs :
                  /\ q.found[x] = i
                  /\ matches'[i] = Merge(matches[i], [homeTeamId |-> x.homeTeamId, awayTeamId |-> x.awayTeamId])
  <2>1. CASE \E p \in pairs : q.found[p] = i
    <3>1. drawn(i) \in pairs /\ q.found[drawn(i)] = i
      BY <2>1
    <3> HIDE DEF drawn, placed, pairs, given, missing
    <3>2. matches'[i] = Merge(matches[i], [homeTeamId |-> drawn(i).homeTeamId,
                                           awayTeamId |-> drawn(i).awayTeamId])
      BY <1>1, <2>1
    <3> QED BY <3>1, <3>2
  <2>2. CASE ~ \E p \in pairs : q.found[p] = i
    <3> HIDE DEF drawn, placed, pairs, given, missing
    <3> QED BY <1>1, <2>2
  <2> QED BY <2>1, <2>2
<1>7. ASSUME NEW i \in Rows' \ Rows
      PROVE  \E x \in pairs : /\ q.found[x] = None /\ given[x] = i
                              /\ \E day : matches'[i] = Row(i, day, DraftOf(q, x))
  <2>1. \E p \in missing : given[p] = i
    BY <1>5
  <2>2. placed(i) \in pairs /\ q.found[placed(i)] = None /\ given[placed(i)] = i
    <3> HIDE DEF given, pairs
    <3> QED BY <2>1
  <2>3. matches'[i] = Row(i, Free[type][i], Draft(placed(i)))
    <3> HIDE DEF drawn, placed, pairs, given, missing, Draft
    <3> QED BY <1>1, <1>5
  <2>4. Draft(placed(i)) = DraftOf(q, placed(i))
    <3> HIDE DEF placed
    <3> QED BY DEF DraftOf
  <2> HIDE DEF Draft
  <2> HIDE DEF placed, given, pairs
  <2> QED BY <2>2, <2>3, <2>4
<1>8. Rows \subseteq Rows'
  BY <1>5
<1> HIDE DEF all, given
<1> QED BY <1>4, <1>5, <1>6, <1>7, <1>8

LEMMA Generated ==
  ASSUME TypeOK, NEW r \in Requests, GenerateWrite(r)
  PROVE  /\ Rows \subseteq Rows' /\ Rows' \subseteq MatchIds
         /\ matches' = [i \in Rows' |-> matches'[i]]
         /\ \A i \in Rows :
              \/ matches'[i] = matches[i]
              \/ \E home, away :
                   /\ home # None /\ away # None
                   /\ matches'[i] = Merge(matches[i], [homeTeamId |-> home, awayTeamId |-> away])
         /\ \A i \in Rows' \ Rows : \E day, draft :
              /\ IsDraft(draft) /\ draft.seasonId = req[r].season /\ draft.stage = "KNOCKOUT"
              /\ matches'[i] = Row(i, day, draft)
<1> DEFINE q == req[r]
<1>1. /\ q.season \in Seasons
      /\ \A x \in DOMAIN q.found : x.homeTeamId # None /\ x.awayTeamId # None
  <2>1. q.at = "generating"
    BY DEF GenerateWrite
  <2> QED BY <2>1 DEF TypeOK, RequestFits
<1>2. \A x \in DOMAIN q.found :
        IsDraft(DraftOf(q, x)) /\ DraftOf(q, x).seasonId = q.season /\ DraftOf(q, x).stage = "KNOCKOUT"
  BY <1>1 DEF IsDraft, DraftOf
<1>3. ASSUME NEW i \in Rows' \ Rows
      PROVE  \E day, draft :
               /\ IsDraft(draft) /\ draft.seasonId = q.season /\ draft.stage = "KNOCKOUT"
               /\ matches'[i] = Row(i, day, draft)
  <2>1. PICK given : \A j \in Rows' \ Rows : \E x \in DOMAIN q.found :
                       /\ q.found[x] = None /\ given[x] = j
                       /\ \E day : matches'[j] = Row(j, day, DraftOf(q, x))
    BY Drawn, Zenon
  <2>2. PICK x \in DOMAIN q.found : \E day : matches'[i] = Row(i, day, DraftOf(q, x))
    BY <2>1, Zenon
  <2> QED BY <1>2, <2>2
<1>4. ASSUME NEW i \in Rows
      PROVE  \/ matches'[i] = matches[i]
             \/ \E home, away :
                  /\ home # None /\ away # None
                  /\ matches'[i] = Merge(matches[i], [homeTeamId |-> home, awayTeamId |-> away])
  <2>1. \/ matches'[i] = matches[i]
        \/ \E x \in DOMAIN q.found :
              matches'[i] = Merge(matches[i], [homeTeamId |-> x.homeTeamId, awayTeamId |-> x.awayTeamId])
    BY Drawn
  <2> QED BY <1>1, <2>1
<1>5. /\ Rows \subseteq Rows' /\ Rows' \subseteq MatchIds /\ matches' = [i \in Rows' |-> matches'[i]]
  BY Drawn
<1> QED BY <1>3, <1>4, <1>5

(* A row that is given other teams. *)
LEMMA Redrawn ==
  ASSUME NEW m, IsRow(m), NEW home, NEW away, home # None, away # None
  PROVE  LET new == Merge(m, [homeTeamId |-> home, awayTeamId |-> away])
         IN  /\ IsRow(new)
             /\ new.homeTeamId = home /\ new.awayTeamId = away
             /\ \A f \in Columns \ {"homeTeamId", "awayTeamId"} : new[f] = m[f]
<1> DEFINE body == [homeTeamId |-> home, awayTeamId |-> away]
<1>1. /\ DOMAIN body = {"homeTeamId", "awayTeamId"} /\ \A f \in DOMAIN body : Fits(f, body[f])
      /\ body["homeTeamId"] = home /\ body["awayTeamId"] = away
  BY DEF Fits
<1> HIDE DEF body
<1>2. IsRow(Merge(m, body))
      /\ \A f \in Columns : Merge(m, body)[f] = IF f \in DOMAIN body THEN body[f] ELSE m[f]
  BY <1>1, MergedFits
<1>3. Merge(m, body).homeTeamId = home /\ Merge(m, body).awayTeamId = away
  BY <1>1, <1>2 DEF Columns
<1> QED BY <1>1, <1>2, <1>3 DEF body

LEMMA TypeGenerateWrite ==
  ASSUME TypeOK, NEW r \in Requests, GenerateWrite(r)
  PROVE  TypeOK'
<1>1. /\ req[r].at = "generating" /\ Goes(r, Idle)
      /\ UNCHANGED <<type, seasons, players, groupOf, cache>>
  BY DEF GenerateWrite
<1>2. seasons[req[r].season] # "none"
  BY DEF GenerateWrite, Vanished, Exists
<1>3. RequestFits(Idle)
  BY DEF RequestFits, Idle
<1>4. ASSUME NEW i \in Rows'
      PROVE  \/ i \in Rows /\ matches'[i] = matches[i]
             \/ IsRow(matches'[i]) /\ seasons[matches'[i].seasonId] # "none"
  <2>1. CASE i \in Rows
    <3>1. IsRow(matches[i]) /\ seasons[matches[i].seasonId] # "none"
      BY <2>1 DEF TypeOK, RowsFit
    <3>2. ASSUME NEW home, NEW away, home # None, away # None,
                 matches'[i] = Merge(matches[i], [homeTeamId |-> home, awayTeamId |-> away])
          PROVE  IsRow(matches'[i]) /\ matches'[i].seasonId = matches[i].seasonId
      <4> DEFINE new == Merge(matches[i], [homeTeamId |-> home, awayTeamId |-> away])
      <4>1. IsRow(new) /\ \A f \in Columns \ {"homeTeamId", "awayTeamId"} : new[f] = matches[i][f]
        BY <3>1, <3>2, Redrawn
      <4> HIDE DEF new
      <4>2. matches'[i] = new
        BY <3>2 DEF new
      <4> QED BY <4>1, <4>2 DEF Columns
    <3> QED BY <2>1, <3>1, <3>2, Generated
  <2>2. CASE i \notin Rows
    <3>1. PICK day, draft : /\ IsDraft(draft) /\ draft.seasonId = req[r].season
                            /\ matches'[i] = Row(i, day, draft)
      BY <2>2, Generated
    <3> QED BY <1>2, <3>1, NewRowFits
  <2> QED BY <2>1, <2>2
<1> QED BY <1>1, <1>3, <1>4, Generated, TypeWithRows

LEMMA TypeSeasonChange == TypeOK /\ SeasonChange => TypeOK'
<1> SUFFICES ASSUME TypeOK, SeasonChange PROVE TypeOK'
  OBVIOUS
<1>1. UNCHANGED <<type, matches, groupOf, cache, req>>
  BY DEF SeasonChange
<1>2. /\ seasons' \in [Seasons -> {"none", "active", "archived", "deleted"}]
      /\ \A s \in Seasons : seasons[s] # "none" => seasons'[s] # "none" /\ (Exists(s)' => Exists(s))
      /\ DOMAIN players' = Players
  <2>1. ASSUME NEW archives \in BOOLEAN, NewSeason(archives)
        PROVE  /\ seasons' \in [Seasons -> {"none", "active", "archived", "deleted"}]
               /\ \A s \in Seasons : seasons[s] # "none" => seasons'[s] # "none" /\ (Exists(s)' => Exists(s))
               /\ DOMAIN players' = Players
    <3>1. PICK s \in Seasons :
            /\ seasons[s] = "none"
            /\ seasons' = [x \in Seasons |->
                          IF x = s THEN "active"
                          ELSE IF archives /\ seasons[x] = "active" THEN "archived" ELSE seasons[x]]
      BY <2>1 DEF NewSeason
    <3>2. DOMAIN players' = Players
      BY <2>1 DEF NewSeason
    <3> QED BY <3>1, <3>2 DEF TypeOK, Exists
  <2>2. CASE UpdateSeasonStatus
    BY <2>2 DEF UpdateSeasonStatus, Exists, TypeOK
  <2> QED BY <2>1, <2>2 DEF SeasonChange, CreateSeason, ArchiveAndCreateNewSeason
<1>3. SeasonsGoOn
  BY <1>1, <1>2 DEF SeasonsGoOn
<1>4. \A o \in Requests : RequestFits(req[o])'
  <2> SUFFICES ASSUME NEW o \in Requests PROVE RequestFits(req[o])'
    OBVIOUS
  <2>1. RequestFits(req[o]) /\ req'[o] = req[o] /\ type' = type
    BY <1>1 DEF TypeOK
  <2> QED BY <1>3, <2>1, RequestKept
<1>5. \A i \in Rows : matches[i].seasonId \in Seasons
  BY DEF TypeOK, RowsFit, IsRow, Fits, Columns
<1>6. CacheFits' /\ DOMAIN groupOf' = Seasons
  BY <1>1, <1>2 DEF TypeOK, CacheFits
<1> QED BY <1>1, <1>2, <1>4, <1>5, <1>6 DEF TypeOK, RowsFit, Rows

LEMMA TypeDeleteSeason == TypeOK /\ DeleteSeason => TypeOK'
<1> SUFFICES ASSUME TypeOK, DeleteSeason PROVE TypeOK'
  OBVIOUS
<1>1. PICK s \in Seasons :
        /\ Exists(s) /\ seasons' = [seasons EXCEPT ![s] = "deleted"]
        /\ matches' = [i \in {j \in Rows : matches[j].seasonId # s} |-> matches[i]]
        /\ groupOf' = [groupOf EXCEPT ![s] = NoGroups]
        /\ cache' = [x \in DOMAIN cache \ {s} |-> cache[x]]
  BY DEF DeleteSeason
<1>2. type' = type /\ req' = req /\ DOMAIN players' = Players
  BY DEF DeleteSeason
<1>3. /\ seasons' \in [Seasons -> {"none", "active", "archived", "deleted"}]
      /\ seasons'[s] = "deleted" /\ \A x \in Seasons \ {s} : seasons'[x] = seasons[x]
      /\ DOMAIN groupOf' = Seasons /\ DOMAIN cache' = DOMAIN cache \ {s}
  BY <1>1 DEF TypeOK, Exists
<1>4. /\ Rows' \subseteq Rows /\ matches' = [i \in Rows' |-> matches'[i]]
      /\ \A i \in Rows' : matches'[i] = matches[i] /\ matches[i].seasonId # s
  BY <1>1 DEF Rows
<1>5. \A i \in Rows : matches[i].seasonId \in Seasons
  BY DEF TypeOK, RowsFit, IsRow, Fits, Columns
<1>6. RowsFit'
  BY <1>3, <1>4, <1>5 DEF TypeOK, RowsFit
<1>7. SeasonsGoOn
  BY <1>3 DEF SeasonsGoOn, Exists
<1>8. \A o \in Requests : RequestFits(req[o])'
  <2> SUFFICES ASSUME NEW o \in Requests PROVE RequestFits(req[o])'
    OBVIOUS
  <2>1. RequestFits(req[o]) /\ req'[o] = req[o]
    BY <1>2 DEF TypeOK
  <2> QED BY <1>2, <1>7, <2>1, RequestKept
<1>9. CacheFits'
  BY <1>3 DEF TypeOK, CacheFits
<1> QED BY <1>2, <1>3, <1>6, <1>8, <1>9 DEF TypeOK

LEMMA TypeStep == TypeOK /\ [MatchNext]_vars => TypeOK'
<1> SUFFICES ASSUME TypeOK, [MatchNext]_vars PROVE TypeOK'
  OBVIOUS
<1>1. CASE UNCHANGED vars
  <2>1. UNCHANGED <<type, seasons, matches, players, groupOf, cache, req>>
    BY <1>1 DEF vars, data
  <2>2. SeasonsGoOn
    BY <2>1 DEF SeasonsGoOn, Exists
  <2>3. ASSUME NEW o \in Requests PROVE RequestFits(req[o])'
    <3>1. RequestFits(req[o]) /\ req'[o] = req[o]
      BY <2>1 DEF TypeOK
    <3> QED BY <2>1, <2>2, <3>1, RequestKept
  <2> QED BY <2>1, <2>3 DEF TypeOK, RowsFit, Rows, CacheFits
<1>2. ASSUME NEW r \in Requests,
             \/ UpdateRead(r) \/ UpdateCommit(r) \/ UpdateFails(r) \/ Create(r) \/ AfterCreate(r)
             \/ RemoveRead(r) \/ RemoveCommit(r) \/ RemoveFails(r)
             \/ FindSuspended(r) \/ SyncRead(r) \/ SyncWrite(r) \/ TableRead(r) \/ TableWrite(r)
             \/ Answer(r) \/ Crash(r) \/ Boot(r)
             \/ UpdateSeasonGroups(r) \/ GenerateRead(r) \/ GenerateWrite(r) \/ GenerateFails(r)
      PROVE  TypeOK'
  BY <1>2, TypeUpdateRead, TypeUpdateCommit, TypeCreate, TypeRemoveCommit, TypeGenerateWrite, TypeOther
<1> QED BY <1>1, <1>2, TypeSeasonChange, TypeDeleteSeason DEF MatchNext

(* Every row has its columns, and what a request carries fits the rows and *)
(* the seasons it is about.                                                *)
THEOREM TypeSafe == MatchSpec => []TypeOK
BY InitTypeOK, TypeStep, PTL DEF MatchSpec

-----------------------------------------------------------------------------
(* Cards.  A request is to count this player's cards. *)
Names(q, p) ==
  \/ q.at = "sync" /\ p \in q.todo
  \/ q.at = "card" /\ (p = q.player \/ p \in q.rest.todo)
  \/ q.at = "created" /\ q.id \in Rows /\ p \in Involved(q.events)

Named(p) == \E r \in Requests : Names(req[r], p)

(* A request will look for whom match j brings back. *)
Awaits(q, p, j) ==
  \/ q.at = "sync" /\ TeamOf[p] \in q.teams
  \/ q.at = "created" /\ q.id = j

Awaited(p, j) == \E r \in Requests : Awaits(req[r], p, j)

Counted(p, scope) ==
  LET ids == CardMatches(p, scope)
  IN  players[p].yellowCards = Yellows(ids, p) /\ players[p].redCards = Reds(ids, p)

(* A suspension is that of the latest card, and every match that ends it   *)
(* is one whose request still has to see to that.                          *)
Held(p, scope) ==
  LET days == DaysOf(Triggers(CardMatches(p, scope), p))
      latest == Latest(days)
  IN  \/ /\ players[p].status = "active" /\ players[p].suspendedAt = None
         /\ withdrawn \/ DOMAIN days = {} \/ Served(days[latest], p, scope)
      \/ /\ players[p].status = "suspended" /\ players[p].suspendedAt = latest
         /\ DOMAIN days # {}
         /\ \A j \in Live : Serves(j, days[latest], p, scope) => Awaited(p, j)

Right(p, scope) == Counted(p, scope) /\ (EffectiveTeam(p, scope) = TeamOf[p] => Held(p, scope))

Covered(p) == Named(p) \/ p \in stale

CardsFit == \A p \in Players : Covered(p) \/ \E scope \in Scopes : Right(p, scope)

(* No match that has or had a card of the player changes what counts. *)
Untouched(p) ==
  \A i \in Rows \cup Rows' :
    \/ /\ i \in Rows => \A k \in DOMAIN matches[i].events : matches[i].events[k].player # p
       /\ i \in Rows' => \A k \in DOMAIN matches'[i].events : matches'[i].events[k].player # p
    \/ /\ i \in Rows /\ i \in Rows'
       /\ matches'[i].seasonId = matches[i].seasonId /\ matches'[i].status = matches[i].status
       /\ matches'[i].events = matches[i].events /\ matches'[i].day = matches[i].day
       /\ matches'[i].deleted = matches[i].deleted

LEMMA SameCards ==
  ASSUME NEW p, NEW scope, Untouched(p)
  PROVE  LET ids == CardMatches(p, scope)
         IN  /\ Yellows(ids, p)' = Yellows(ids, p) /\ Reds(ids, p)' = Reds(ids, p)
             /\ DaysOf(Triggers(ids, p))' = DaysOf(Triggers(ids, p))
<1> DEFINE ids == CardMatches(p, scope)
<1>1. ids' = ids
  <2> SUFFICES ASSUME NEW i PROVE i \in ids' <=> i \in ids
    OBVIOUS
  <2>1. CASE i \notin Rows \cup Rows'
    BY <2>1 DEF CardMatches, Live
  <2>2. CASE /\ i \in Rows => \A k \in DOMAIN matches[i].events : matches[i].events[k].player # p
             /\ i \in Rows' => \A k \in DOMAIN matches'[i].events : matches'[i].events[k].player # p
    BY <2>2 DEF CardMatches, Live
  <2>3. CASE /\ i \in Rows /\ i \in Rows'
             /\ matches'[i].seasonId = matches[i].seasonId /\ matches'[i].status = matches[i].status
             /\ matches'[i].events = matches[i].events /\ matches'[i].deleted = matches[i].deleted
    BY <2>3 DEF CardMatches, Live, InScope
  <2> QED BY <2>1, <2>2, <2>3 DEF Untouched
<1>2. \A i \in ids : matches'[i].events = matches[i].events /\ matches'[i].day = matches[i].day
  BY <1>1 DEF Untouched, CardMatches, Live
<1> HIDE DEF ids
<1>3. ASSUME NEW set, set \subseteq ids
      PROVE  Yellows(set, p)' = Yellows(set, p) /\ Reds(set, p)' = Reds(set, p)
  <2>1. \A types : [i \in set |-> CardsIn(i, p, types)]' = [i \in set |-> CardsIn(i, p, types)]
    BY <1>2, <1>3 DEF CardsIn
  <2> QED BY <2>1 DEF Yellows, Reds
<1>4. Triggers(ids, p)' = Triggers(ids, p)
  <2>1. \A types : \A i \in ids : CardsIn(i, p, types)' = CardsIn(i, p, types)
    BY <1>2 DEF CardsIn
  <2>2. \A i \in ids : Yellows({j \in ids : matches[j].day < matches[i].day}, p)'
                       = Yellows({j \in ids : matches[j].day < matches[i].day}, p)
    <3> SUFFICES ASSUME NEW i \in ids
        PROVE  Yellows({j \in ids : matches[j].day < matches[i].day}, p)'
                 = Yellows({j \in ids : matches[j].day < matches[i].day}, p)
      OBVIOUS
    <3> DEFINE earlier == {j \in ids : matches[j].day < matches[i].day}
    <3>1. earlier' = earlier
      BY <1>1, <1>2
    <3>2. earlier \subseteq ids
      OBVIOUS
    <3> HIDE DEF earlier
    <3>3. Yellows(earlier, p)' = Yellows(earlier, p)
      BY <1>3, <3>1, <3>2
    <3> QED BY <3>3 DEF earlier
  <2> QED BY <1>1, <2>1, <2>2 DEF Triggers
<1>5. DaysOf(Triggers(ids, p))' = DaysOf(Triggers(ids, p))
  BY <1>1, <1>2, <1>4 DEF DaysOf, Triggers
<1> QED BY <1>1, <1>3, <1>4, <1>5 DEF ids

(* What a match has to do with a suspension stays as it is. *)
Steady(j) ==
  /\ matches'[j].seasonId = matches[j].seasonId /\ matches'[j].status = matches[j].status
  /\ matches'[j].day = matches[j].day
  /\ {matches'[j].homeTeamId, matches'[j].awayTeamId} = {matches[j].homeTeamId, matches[j].awayTeamId}

(* No match that ends a suspension is taken back unnoticed. *)
NoneLost ==
  \A j \in Live : withdrawn' \/ matches[j].status # "finished" \/ (j \in Live' /\ Steady(j))

(* Where there is a new one for a suspended player, a request sees to it.  *)
NewAwaited(p) ==
  \A j \in Live' :
    \/ players[p].status # "suspended" \/ matches'[j].status # "finished"
    \/ TeamOf[p] \notin {matches'[j].homeTeamId, matches'[j].awayTeamId}
    \/ Awaited(p, j)'
    \/ j \in Live /\ Steady(j) /\ ~ Awaited(p, j)

(* Cards that were right stay right. *)
LEMMA StaysRight ==
  ASSUME NEW p, NEW scope, Untouched(p), players'[p] = players[p], withdrawn => withdrawn',
         NoneLost, NewAwaited(p), Right(p, scope)
  PROVE  Right(p, scope)'
<1> DEFINE ids == CardMatches(p, scope)
           days == DaysOf(Triggers(ids, p))
           latest == Latest(days)
<1>1. /\ Yellows(ids, p)' = Yellows(ids, p) /\ Reds(ids, p)' = Reds(ids, p)
      /\ days' = days
  BY SameCards
<1>2. Counted(p, scope)'
  BY <1>1 DEF Right, Counted
<1>3. ASSUME EffectiveTeam(p, scope) = TeamOf[p] PROVE Held(p, scope)'
  <2>1. Held(p, scope)
    BY <1>3 DEF Right
  <2>2. latest' = latest
    BY <1>1 DEF Latest
  <2>3. ASSUME NEW j \in Live, Serves(j, days[latest], p, scope)
        PROVE  withdrawn' \/ (j \in Live' /\ Serves(j, days[latest], p, scope)')
    <3> HIDE DEF days, latest
    <3>1. withdrawn' \/ (j \in Live' /\ Steady(j))
      BY <2>3 DEF NoneLost, Serves
    <3> QED BY <1>1, <2>2, <2>3, <3>1 DEF Serves, Steady, InScope, EffectiveTeam
  <2>4. ASSUME players[p].status = "suspended", NEW j \in Live', Serves(j, days[latest], p, scope)'
        PROVE  Awaited(p, j)' \/ (j \in Live /\ Serves(j, days[latest], p, scope) /\ ~ Awaited(p, j))
    <3> HIDE DEF days, latest
    <3>1. Awaited(p, j)' \/ (j \in Live /\ Steady(j) /\ ~ Awaited(p, j))
      BY <1>3, <2>4 DEF NewAwaited, Serves, EffectiveTeam
    <3> QED BY <1>1, <2>2, <2>4, <3>1 DEF Serves, Steady, InScope, EffectiveTeam
  <2> HIDE DEF days, latest
  <2>5. CASE /\ players[p].status = "active" /\ players[p].suspendedAt = None
             /\ withdrawn \/ DOMAIN days = {} \/ Served(days[latest], p, scope)
    <3>1. withdrawn' \/ DOMAIN days = {} \/ Served(days[latest], p, scope)'
      BY <2>3, <2>5 DEF Served
    <3> QED BY <1>1, <2>2, <2>5, <3>1 DEF Held, days, latest
  <2>6. CASE /\ players[p].status = "suspended" /\ players[p].suspendedAt = latest
             /\ DOMAIN days # {}
             /\ \A j \in Live : Serves(j, days[latest], p, scope) => Awaited(p, j)
    <3>1. \A j \in Live' : Serves(j, days[latest], p, scope)' => Awaited(p, j)'
      BY <2>4, <2>6
    <3> QED BY <1>1, <2>2, <2>6, <3>1 DEF Held, days, latest
  <2> QED BY <2>1, <2>5, <2>6 DEF Held, days, latest
<1> QED BY <1>2, <1>3 DEF Right, EffectiveTeam

LEMMA CardsKept ==
  ASSUME CardsFit, players' = players, seasons' = seasons, withdrawn => withdrawn', NoneLost,
         \A p \in Players : Covered(p) => Covered(p)',
         \A p \in Players : Covered(p)' \/ (Untouched(p) /\ NewAwaited(p))
  PROVE  CardsFit'
<1> SUFFICES ASSUME NEW p \in Players, ~ Covered(p)' PROVE \E scope \in Scopes' : Right(p, scope)'
  BY DEF CardsFit
<1>1. ~ Covered(p) /\ Untouched(p) /\ NewAwaited(p)
  OBVIOUS
<1>2. PICK scope \in Scopes : Right(p, scope)
  BY <1>1 DEF CardsFit
<1>3. Scopes' = Scopes
  BY DEF Scopes
<1>4. Right(p, scope)'
  BY <1>1, <1>2, StaysRight
<1> QED BY <1>3, <1>4

(* A step of one request: what it has had to count it still has to, or it  *)
(* is known that nobody will.                                              *)
LEMMA NamedByOthers ==
  ASSUME NEW r \in Requests, \A o \in Requests \ {r} : req'[o] = req[o], Rows \subseteq Rows',
         Players \cap stale \subseteq stale', NEW p \in Players,
         Names(req[r], p) => Covered(p)'
  PROVE  Covered(p) => Covered(p)'
<1>1. ASSUME NEW o \in Requests \ {r}, Names(req[o], p) PROVE Names(req[o], p)'
  BY <1>1 DEF Names
<1> QED BY <1>1 DEF Covered, Named

LEMMA AwaitedByOthers ==
  ASSUME NEW r \in Requests, \A o \in Requests \ {r} : req'[o] = req[o], NEW p, NEW j,
         Awaits(req[r], p, j) => Awaited(p, j)'
  PROVE  Awaited(p, j) => Awaited(p, j)'
<1>1. ASSUME NEW o \in Requests \ {r}, Awaits(req[o], p, j) PROVE Awaits(req[o], p, j)'
  BY <1>1 DEF Awaits
<1> QED BY <1>1 DEF Awaited

(* A step that leaves the matches alone. *)
LEMMA CardsUnmoved ==
  ASSUME CardsFit, NEW r \in Requests, \A o \in Requests \ {r} : req'[o] = req[o],
         UNCHANGED <<seasons, matches, players, withdrawn>>, Players \cap stale \subseteq stale',
         \A p \in Players : Names(req[r], p) => Covered(p)',
         \A p \in Players, j \in Live :
            /\ Awaits(req[r], p, j) /\ players[p].status = "suspended"
            /\ matches[j].status = "finished"
            /\ TeamOf[p] \in {matches[j].homeTeamId, matches[j].awayTeamId}
            => Awaited(p, j)' \/ Covered(p)'
  PROVE  CardsFit'
<1>1. Rows' = Rows /\ Live' = Live /\ \A j \in Live : Steady(j)
  BY DEF Rows, Live, Steady
<1>2. NoneLost
  BY <1>1 DEF NoneLost
<1>3. ASSUME NEW p \in Players PROVE Covered(p) => Covered(p)'
  BY <1>1, NamedByOthers
<1>4. ASSUME NEW p \in Players, ~ Covered(p)' PROVE Untouched(p) /\ NewAwaited(p)
  <2>1. Untouched(p)
    BY <1>1 DEF Untouched
  <2>2. NewAwaited(p)
    <3> SUFFICES ASSUME NEW j \in Live, players[p].status = "suspended",
                        matches[j].status = "finished",
                        TeamOf[p] \in {matches[j].homeTeamId, matches[j].awayTeamId}
        PROVE  Awaited(p, j)' \/ ~ Awaited(p, j)
      BY <1>1 DEF NewAwaited
    <3>1. Awaits(req[r], p, j) => Awaited(p, j)'
      BY <1>4
    <3> QED BY <3>1, AwaitedByOthers
  <2> QED BY <2>1, <2>2
<1> QED BY <1>2, <1>3, <1>4, CardsKept

LEMMA CardsThroughRequests ==
  ASSUME TypeOK, CardsFit, NEW r \in Requests,
         \/ UpdateRead(r) \/ UpdateFails(r) \/ AfterCreate(r) \/ RemoveRead(r) \/ RemoveFails(r)
         \/ FindSuspended(r) \/ SyncRead(r) \/ TableRead(r) \/ TableWrite(r)
         \/ Answer(r) \/ Crash(r) \/ Boot(r)
         \/ UpdateSeasonGroups(r) \/ GenerateRead(r) \/ GenerateFails(r)
  PROVE  CardsFit'
<1> DEFINE q == req[r]
           Asked == \A p \in Players : Names(q, p) => Covered(p)'
           Awaiting == \A p \in Players, j \in Live :
                          /\ Awaits(q, p, j) /\ players[p].status = "suspended"
                          /\ matches[j].status = "finished"
                          /\ TeamOf[p] \in {matches[j].homeTeamId, matches[j].awayTeamId}
                          => Awaited(p, j)' \/ Covered(p)'
<1>1. UNCHANGED <<seasons, matches, players, withdrawn>> /\ Players \cap stale \subseteq stale'
  <2>1. CASE TableWrite(r)
    <3>1. UNCHANGED <<seasons, matches, players, withdrawn>>
      BY <2>1 DEF TableWrite
    <3>2. q.season \in Seasons /\ stale \ {q.season} \subseteq stale'
      BY <2>1 DEF TableWrite, TypeOK, RequestFits
    <3> QED BY <3>1, <3>2, KindsAssumption
  <2>2. CASE ~ TableWrite(r)
    <3>1. CASE UpdateSeasonGroups(r)
      BY <3>1 DEF UpdateSeasonGroups, history
    <3>2. CASE Crash(r)
      BY <3>2 DEF Crash, data
    <3>3. CASE GenerateRead(r)
      BY <3>3 DEF GenerateRead, data
    <3>4. CASE \/ UpdateRead(r) \/ UpdateFails(r) \/ AfterCreate(r) \/ RemoveRead(r) \/ RemoveFails(r)
               \/ FindSuspended(r) \/ SyncRead(r) \/ TableRead(r) \/ Answer(r) \/ Boot(r)
               \/ GenerateFails(r)
      <4>1. UNCHANGED <<data, history>>
        BY <3>4 DEF UpdateRead, UpdateFails, AfterCreate, RemoveRead, RemoveFails, FindSuspended,
                    SyncRead, TableRead, Answer, Boot, GenerateFails
      <4> QED BY <4>1 DEF data, history
    <3> QED BY <2>2, <3>1, <3>2, <3>3, <3>4
  <2> QED BY <2>1, <2>2
<1>2. DOMAIN req = Requests
  BY DEF TypeOK
<1>3. Rows' = Rows
  BY <1>1 DEF Rows
<1>4. ASSUME NEW next, Goes(r, next), Asked, Awaiting PROVE CardsFit'
  <2>1. \A o \in Requests \ {r} : req'[o] = req[o]
    BY <1>2, <1>4, Gone
  <2> QED BY <1>1, <1>4, <2>1, CardsUnmoved
<1> HIDE DEF Asked, Awaiting
<1>5. ASSUME NEW next, Goes(r, next), q.at \notin {"sync", "card", "created"} PROVE CardsFit'
  <2>1. Asked /\ Awaiting
    BY <1>5 DEF Asked, Awaiting, Names, Awaits
  <2> QED BY <1>4, <1>5, <2>1
<1>6. CASE \/ UpdateRead(r) \/ UpdateFails(r) \/ RemoveRead(r) \/ RemoveFails(r) \/ TableWrite(r)
           \/ Boot(r) \/ UpdateSeasonGroups(r) \/ GenerateRead(r) \/ GenerateFails(r)
  <2>1. q.at \notin {"sync", "card", "created"} /\ \E next : Goes(r, next)
    BY <1>6 DEF UpdateRead, UpdateFails, RemoveRead, RemoveFails, TableWrite, Boot,
                UpdateSeasonGroups, GenerateRead, GenerateFails, Starts
  <2> QED BY <1>5, <2>1
<1>7. CASE Answer(r) \/ TableRead(r)
  <2>1. q.at = "sync" /\ q.todo = {} /\ q.teams = {} /\ \E next : Goes(r, next)
    BY <1>7 DEF Answer, TableRead
  <2>2. Asked /\ Awaiting
    BY <2>1 DEF Asked, Awaiting, Names, Awaits
  <2> QED BY <1>4, <2>1, <2>2
<1>8. CASE SyncRead(r)
  <2>1. PICK p \in q.todo, scope \in Scopes :
          Goes(r, [at |-> "card", player |-> p, value |-> Cards(p, scope),
                   rest |-> Todo(q.todo \ {p}, {}, q.seasons, q.id)])
    BY <1>8 DEF SyncRead
  <2>2. q.at = "sync" /\ q.teams = {}
    BY <1>8 DEF SyncRead
  <2>3. req'[r].at = "card" /\ req'[r].player = p /\ req'[r].rest.todo = q.todo \ {p}
    BY <1>2, <2>1, Gone DEF Todo
  <2>4. Asked /\ Awaiting
    BY <2>2, <2>3 DEF Asked, Awaiting, Names, Awaits, Covered, Named
  <2> QED BY <1>4, <2>1, <2>4
<1>9. CASE Crash(r)
  <2>1. Goes(r, Idle) /\ OwedPlayers(q) \subseteq stale'
    BY <1>9 DEF Crash
  <2>2. ASSUME NEW p \in Players, Names(q, p) PROVE Covered(p)'
    BY <2>1, <2>2 DEF Names, OwedPlayers, Covered
  <2>3. ASSUME NEW p \in Players, NEW j \in Live, Awaits(q, p, j), players[p].status = "suspended",
               matches[j].status = "finished",
               TeamOf[p] \in {matches[j].homeTeamId, matches[j].awayTeamId}
        PROVE  Covered(p)'
    <3>1. j \in Rows
      BY DEF Live
    <3> QED BY <2>1, <2>3, <3>1
            DEF Awaits, OwedPlayers, SuspendedIn, TeamsIfFinished, Covered
  <2>4. Asked /\ Awaiting
    BY <2>2, <2>3 DEF Asked, Awaiting
  <2> QED BY <1>4, <2>1, <2>4
<1>10. CASE FindSuspended(r)
  <2> DEFINE next == Todo(q.todo \cup SuspendedIn(q.teams), {}, q.seasons, q.id)
  <2>1. q.at = "sync" /\ Goes(r, next)
    BY <1>10 DEF FindSuspended
  <2>2. req'[r].at = "sync" /\ req'[r].todo = q.todo \cup SuspendedIn(q.teams)
    BY <1>2, <2>1, Gone DEF Todo
  <2>3. Asked /\ Awaiting
    BY <2>1, <2>2 DEF Asked, Awaiting, Names, Awaits, Covered, Named, SuspendedIn
  <2> QED BY <1>4, <2>1, <2>3
<1>11. CASE AfterCreate(r)
  <2> DEFINE next == Todo(Involved(q.events), TeamsIfFinished(matches[q.id]),
                          {matches[q.id].seasonId}, None)
  <2>1. /\ q.at = "created" /\ (q.id \in Rows => Goes(r, next)) /\ (q.id \notin Rows => Goes(r, Idle))
    BY <1>11 DEF AfterCreate
  <2>2. ASSUME q.id \in Rows
        PROVE  req'[r].at = "sync" /\ req'[r].todo = Involved(q.events)
               /\ req'[r].teams = TeamsIfFinished(matches[q.id])
    BY <1>2, <2>1, <2>2, Gone DEF Todo
  <2>3. Asked
    BY <1>3, <2>1, <2>2 DEF Asked, Names, Covered, Named
  <2>4. Awaiting
    <3> SUFFICES ASSUME NEW p \in Players, NEW j \in Live, Awaits(q, p, j),
                        matches[j].status = "finished",
                        TeamOf[p] \in {matches[j].homeTeamId, matches[j].awayTeamId}
        PROVE  Awaited(p, j)'
      BY DEF Awaiting
    <3>1. j = q.id /\ j \in Rows
      BY <2>1 DEF Awaits, Live
    <3>2. TeamOf[p] \in TeamsIfFinished(matches[j])
      BY DEF TeamsIfFinished
    <3> QED BY <2>2, <3>1, <3>2 DEF Awaits, Awaited
  <2> QED BY <1>4, <2>1, <2>3, <2>4
<1> QED BY <1>6, <1>7, <1>8, <1>9, <1>10, <1>11

(* A step of a request that had no cards to count and rewrites rows. *)
LEMMA CardsThroughRows ==
  ASSUME CardsFit, NEW r \in Requests, \A o \in Requests \ {r} : req'[o] = req[o],
         req[r].at \notin {"sync", "card", "created"},
         UNCHANGED <<seasons, players>>, withdrawn => withdrawn', Rows \subseteq Rows',
         Players \cap stale \subseteq stale', NoneLost,
         \A p \in Players : Covered(p)' \/ Untouched(p),
         \A p \in Players, j \in Live' :
            \/ Covered(p)'
            \/ matches'[j].status # "finished"
            \/ TeamOf[p] \notin {matches'[j].homeTeamId, matches'[j].awayTeamId}
            \/ Awaited(p, j)'
            \/ j \in Live /\ Steady(j)
  PROVE  CardsFit'
<1>1. ASSUME NEW p \in Players PROVE Covered(p) => Covered(p)'
  <2>1. ~ Names(req[r], p)
    BY DEF Names
  <2> QED BY <2>1, NamedByOthers
<1>2. ASSUME NEW p \in Players, ~ Covered(p)' PROVE Untouched(p) /\ NewAwaited(p)
  <2>1. ASSUME NEW j PROVE Awaited(p, j) => Awaited(p, j)'
    <3>1. ~ Awaits(req[r], p, j)
      BY DEF Awaits
    <3> QED BY <3>1, AwaitedByOthers
  <2>2. NewAwaited(p)
    BY <1>2, <2>1 DEF NewAwaited
  <2> QED BY <1>2, <2>2
<1> QED BY <1>1, <1>2, CardsKept

LEMMA NotInvolved ==
  ASSUME NEW p \in Players, NEW events, p \notin Involved(events)
  PROVE  \A k \in DOMAIN events : events[k].player # p
BY DEF Involved

LEMMA CardsThroughUpdate ==
  ASSUME TypeOK, CardsFit, NEW r \in Requests, UpdateCommit(r)
  PROVE  CardsFit'
<1> DEFINE q == req[r]
           i == q.id
           now == matches[i]
           new == Updated(now, q.old, q.body)
           read == Merge(q.old, q.body)
           synced == SyncedBy(q.old, read)
           next == Todo(synced, TeamsIfFinished(new), {}, i)
<1>1. /\ q.at = "updating" /\ i \in Rows /\ matches' = [matches EXCEPT ![i] = new]
      /\ Goes(r, next) /\ UNCHANGED <<seasons, players>>
      /\ withdrawn' = (withdrawn \/ Withdraws(now, new))
      /\ stale' = (stale \ {i}) \cup (IF q.old = now THEN {} ELSE Involved(now.events) \ synced)
                  \cup ({now.seasonId} \ {new.seasonId})
  BY DEF UpdateCommit
<1>2. IsRow(q.old) /\ IsBody(q.body) /\ IsRow(now) /\ i \in MatchIds
  BY <1>1 DEF TypeOK, RequestFits, RowsFit
<1>3. new.events = Merge(now, q.body).events
  BY <1>2, UpdatedFits
<1>4. /\ Involved(now.events) \subseteq synced \cup stale'
      /\ Involved(new.events) \subseteq synced \cup stale'
  <2>1. Involved(now.events) \subseteq synced \cup stale'
    <3>1. Involved(q.old.events) \subseteq synced
      BY DEF SyncedBy
    <3> HIDE DEF synced, new
    <3> QED BY <1>1, <3>1
  <2>2. CASE "events" \in DOMAIN q.body
    <3>1. new.events = read.events
      BY <1>2, <1>3, <2>2 DEF Merge, IsRow, Columns
    <3> HIDE DEF new, read
    <3> QED BY <2>1, <3>1 DEF SyncedBy
  <2>3. CASE "events" \notin DOMAIN q.body
    <3>1. new.events = now.events
      BY <1>2, <1>3, <2>3 DEF Merge, IsRow, Columns
    <3> HIDE DEF new, read, now, synced
    <3> QED BY <2>1, <3>1
  <2> QED BY <2>1, <2>2, <2>3
<1> HIDE DEF synced, new, read
<1>5. /\ Rows' = Rows /\ matches'[i] = new /\ \A j \in Rows \ {i} : matches'[j] = matches[j]
  BY <1>1 DEF Rows
<1>6. /\ req'[r] = next /\ \A o \in Requests \ {r} : req'[o] = req[o]
  BY <1>1, Gone DEF TypeOK
<1>7. /\ next.at = "sync" /\ next.todo = synced /\ next.teams = TeamsIfFinished(new)
  BY DEF Todo
<1>8. Players \cap stale \subseteq stale'
  BY <1>1, <1>2, KindsAssumption
<1>9. NoneLost
  <2> SUFFICES ASSUME NEW j \in Live, ~ withdrawn', matches[j].status = "finished"
      PROVE  j \in Live' /\ Steady(j)
    BY DEF NoneLost
  <2>1. CASE j = i
    BY <1>1, <1>5, <2>1 DEF Withdraws, Live, Steady
  <2>2. CASE j # i
    BY <1>5, <2>2 DEF Live, Steady
  <2> QED BY <2>1, <2>2
<1>10. ASSUME NEW p \in Players, ~ Covered(p)' PROVE Untouched(p)
  <2>1. p \notin Involved(now.events) /\ p \notin Involved(new.events)
    BY <1>4, <1>6, <1>7, <1>10 DEF Covered, Named, Names
  <2>2. /\ \A k \in DOMAIN now.events : now.events[k].player # p
        /\ \A k \in DOMAIN new.events : new.events[k].player # p
    BY <2>1, NotInvolved
  <2> QED BY <1>5, <2>2 DEF Untouched
<1>11. ASSUME NEW p \in Players, NEW j \in Live', matches'[j].status = "finished",
              TeamOf[p] \in {matches'[j].homeTeamId, matches'[j].awayTeamId}
       PROVE  Awaited(p, j)' \/ (j \in Live /\ Steady(j))
  <2>1. CASE j = i
    <3>1. TeamOf[p] \in next.teams
      BY <1>5, <1>7, <1>11, <2>1 DEF TeamsIfFinished
    <3> QED BY <1>6, <1>7, <3>1 DEF Awaited, Awaits
  <2>2. CASE j # i
    BY <1>5, <2>2 DEF Live, Steady
  <2> QED BY <2>1, <2>2
<1> HIDE DEF next
<1>12. Rows \subseteq Rows' /\ (withdrawn => withdrawn')
  BY <1>1, <1>5
<1>13. q.at \notin {"sync", "card", "created"} /\ UNCHANGED <<seasons, players>>
  BY <1>1
<1> QED BY <1>6, <1>8, <1>9, <1>10, <1>11, <1>12, <1>13, CardsThroughRows

LEMMA CardsThroughCreate ==
  ASSUME TypeOK, CardsFit, NEW r \in Requests, Create(r)
  PROVE  CardsFit'
<1>1. PICK i \in DOMAIN Free[type] \ Rows :
        /\ Rows' = Rows \cup {i} /\ \A j \in Rows : matches'[j] = matches[j]
        /\ Goes(r, [at |-> "created", id |-> i, events |-> matches'[i].events])
  BY DEF Create, Rows
<1> DEFINE next == [at |-> "created", id |-> i, events |-> matches'[i].events]
<1>2. /\ req[r].at = "idle" /\ UNCHANGED <<seasons, players, stale, withdrawn>>
  BY DEF Create, Starts, history
<1>3. /\ req'[r] = next /\ \A o \in Requests \ {r} : req'[o] = req[o]
  BY <1>1, Gone DEF TypeOK
<1>4. NoneLost
  BY <1>1 DEF NoneLost, Live, Steady
<1>5. ASSUME NEW p \in Players, ~ Covered(p)' PROVE Untouched(p)
  <2>1. p \notin Involved(matches'[i].events)
    BY <1>1, <1>3, <1>5 DEF Covered, Named, Names
  <2>2. \A k \in DOMAIN matches'[i].events : matches'[i].events[k].player # p
    BY <2>1, NotInvolved
  <2> QED BY <1>1, <2>2 DEF Untouched
<1>6. ASSUME NEW p \in Players, NEW j \in Live'
      PROVE  Awaited(p, j)' \/ (j \in Live /\ Steady(j))
  BY <1>1, <1>3 DEF Awaited, Awaits, Live, Steady
<1> QED BY <1>1, <1>2, <1>3, <1>4, <1>5, <1>6, CardsThroughRows

LEMMA CardsThroughRemoval ==
  ASSUME TypeOK, CardsFit, NEW r \in Requests, RemoveCommit(r)
  PROVE  CardsFit'
<1> DEFINE q == req[r]
           i == q.id
           next == Todo(q.todo, {}, {matches[i].seasonId}, None)
<1>1. /\ q.at = "removing" /\ Goes(r, next) /\ UNCHANGED <<seasons, players>>
      /\ withdrawn' = (withdrawn \/ Withdraws(matches[i], matches'[i]))
      /\ stale' = stale \cup (Involved(matches[i].events) \ q.todo)
  BY DEF RemoveCommit
<1>2. /\ Rows' = Rows /\ i \in Rows /\ matches'[i].deleted
      /\ \A f \in DOMAIN matches[i] \ {"deleted"} : matches'[i][f] = matches[i][f]
      /\ \A j \in Rows \ {i} : matches'[j] = matches[j]
  BY Removed
<1>3. DOMAIN matches[i] = Columns
  BY <1>2 DEF TypeOK, RowsFit, IsRow
<1>4. matches'[i].events = matches[i].events
  BY <1>2, <1>3 DEF Columns
<1>5. /\ req'[r] = next /\ \A o \in Requests \ {r} : req'[o] = req[o]
  BY <1>1, Gone DEF TypeOK
<1>6. NoneLost
  BY <1>1, <1>2 DEF NoneLost, Live, Steady, Withdraws
<1>7. ASSUME NEW p \in Players, ~ Covered(p)' PROVE Untouched(p)
  <2>1. next.at = "sync" /\ next.todo = q.todo
    BY DEF Todo
  <2>2. p \notin Involved(matches[i].events)
    BY <1>1, <1>5, <1>7, <2>1 DEF Covered, Named, Names
  <2>3. \A k \in DOMAIN matches[i].events : matches[i].events[k].player # p
    BY <2>2, NotInvolved
  <2> QED BY <1>2, <1>4, <2>3 DEF Untouched
<1>8. ASSUME NEW p \in Players, NEW j \in Live' PROVE j \in Live /\ Steady(j)
  BY <1>2 DEF Live, Steady
<1> HIDE DEF next
<1>9. /\ Rows \subseteq Rows' /\ (withdrawn => withdrawn') /\ Players \cap stale \subseteq stale'
      /\ q.at \notin {"sync", "card", "created"}
  BY <1>1, <1>2
<1> QED BY <1>1, <1>5, <1>6, <1>7, <1>8, <1>9, CardsThroughRows

(* The draw of a knock-out round touches nobody's cards; where it takes a  *)
(* finished match from its teams, everybody's are stale.                   *)
LEMMA CardsThroughDraw ==
  ASSUME TypeOK, CardsFit, NEW r \in Requests, GenerateWrite(r)
  PROVE  CardsFit'
<1> DEFINE played == {i \in Rows : Withdraws(matches[i], matches'[i])}
<1>1. /\ req[r].at = "generating" /\ Goes(r, Idle) /\ UNCHANGED <<seasons, players>>
      /\ withdrawn' = (withdrawn \/ played # {})
  BY DEF GenerateWrite
<1>2. /\ stale \subseteq stale' /\ (played # {} => Players \subseteq stale')
  BY DEF GenerateWrite
<1>3. /\ req'[r] = Idle /\ \A o \in Requests \ {r} : req'[o] = req[o]
  BY <1>1, Gone DEF TypeOK
<1>4. ASSUME NEW i \in Rows
      PROVE  /\ i \in Rows' /\ IsRow(matches[i])
             /\ \A f \in Columns \ {"homeTeamId", "awayTeamId"} : matches'[i][f] = matches[i][f]
  <2>1. IsRow(matches[i]) /\ i \in Rows'
    BY Generated DEF TypeOK, RowsFit
  <2>2. CASE matches'[i] = matches[i]
    BY <2>1, <2>2
  <2>3. ASSUME NEW home, NEW away, home # None, away # None,
               matches'[i] = Merge(matches[i], [homeTeamId |-> home, awayTeamId |-> away])
        PROVE  \A f \in Columns \ {"homeTeamId", "awayTeamId"} : matches'[i][f] = matches[i][f]
    BY <2>1, <2>3, Redrawn
  <2> QED BY <2>1, <2>2, <2>3, Generated
<1>5. ASSUME NEW i \in Rows
      PROVE  /\ matches'[i].seasonId = matches[i].seasonId /\ matches'[i].status = matches[i].status
             /\ matches'[i].events = matches[i].events /\ matches'[i].day = matches[i].day
             /\ matches'[i].deleted = matches[i].deleted
  BY <1>4 DEF Columns
<1>6. ASSUME NEW i \in Rows' \ Rows
      PROVE  matches'[i].status = "scheduled" /\ matches'[i].events = << >>
  BY Generated, NewRowFits
<1>7. ASSUME NEW p \in Players PROVE Untouched(p)
  <2>1. DOMAIN << >> = {}
    OBVIOUS
  <2> QED BY <1>4, <1>5, <1>6, <2>1 DEF Untouched
<1>8. ASSUME NEW j \in Live, ~ Withdraws(matches[j], matches'[j]), matches[j].status = "finished"
      PROVE  Steady(j)
  BY <1>5, <1>8 DEF Live, Withdraws, Steady
<1>9. NoneLost
  BY <1>1, <1>4, <1>5, <1>8 DEF NoneLost, Live
<1>10. ASSUME NEW p \in Players, NEW j \in Live', ~ Covered(p)', matches'[j].status = "finished"
       PROVE  j \in Live /\ Steady(j)
  <2>1. played = {}
    BY <1>2, <1>10 DEF Covered
  <2>2. j \in Live
    BY <1>5, <1>6, <1>10 DEF Live
  <2> QED BY <1>5, <1>8, <1>10, <2>1, <2>2 DEF Live
<1>11. Rows \subseteq Rows' /\ (withdrawn => withdrawn')
  BY <1>1, <1>4
<1> HIDE DEF played
<1> QED BY <1>1, <1>2, <1>3, <1>7, <1>9, <1>10, <1>11, CardsThroughRows

(* What was computed is written: it is right, or it is known to be stale.  *)
LEMMA WrittenIsRight ==
  ASSUME NEW p, NEW scope, UNCHANGED <<matches, withdrawn>>, players'[p] = Cards(p, scope)
  PROVE  Right(p, scope)'
<1> DEFINE ids == CardMatches(p, scope)
           days == DaysOf(Triggers(ids, p))
           latest == Latest(days)
           out == DOMAIN days # {} /\ ~ Served(days[latest], p, scope)
<1>1. Rows' = Rows /\ Live' = Live
  BY DEF Rows, Live
<1>2. ids' = ids
  BY <1>1 DEF CardMatches, InScope
<1>3. Untouched(p)
  BY <1>1 DEF Untouched
<1>4. Yellows(ids, p)' = Yellows(ids, p) /\ Reds(ids, p)' = Reds(ids, p) /\ days' = days
  BY <1>3, SameCards
<1>5. latest' = latest
  BY <1>4 DEF Latest
<1>6. \A j, day : Serves(j, day, p, scope)' <=> Serves(j, day, p, scope)
  BY DEF Serves, InScope, EffectiveTeam
<1>7. /\ players'[p].yellowCards = Yellows(ids, p) /\ players'[p].redCards = Reds(ids, p)
      /\ players'[p].status = IF out THEN "suspended" ELSE "active"
      /\ players'[p].suspendedAt = IF out THEN latest ELSE None
  BY DEF Cards
<1> HIDE DEF ids, days, latest
<1>8. Counted(p, scope)'
  BY <1>4, <1>7 DEF Counted, ids
<1>9. Served(days[latest], p, scope)' <=> Served(days[latest], p, scope)
  <2>1. (days[latest])' = days[latest]
    BY <1>4, <1>5
  <2>2. \A j : Serves(j, days[latest], p, scope)' <=> Serves(j, days[latest], p, scope)
    BY <1>6, <2>1 DEF Serves, InScope, EffectiveTeam
  <2> QED BY <1>1, <2>2 DEF Served
<1>10. Held(p, scope)'
  <2>1. CASE out
    <3>1. \A j \in Live : ~ Serves(j, days[latest], p, scope)
      BY <2>1 DEF Served
    <3>2. \A j \in Live' : ~ Serves(j, days[latest], p, scope)'
      BY <1>1, <1>4, <1>5, <3>1 DEF Serves, InScope, EffectiveTeam
    <3> QED BY <1>4, <1>5, <1>7, <2>1, <3>2 DEF Held, ids, days, latest
  <2>2. CASE ~ out
    BY <1>4, <1>5, <1>7, <1>9, <2>2 DEF Held, ids, days, latest
  <2> QED BY <2>1, <2>2
<1> QED BY <1>8, <1>10 DEF Right

LEMMA CardsThroughWrite ==
  ASSUME TypeOK, CardsFit, NEW r \in Requests, SyncWrite(r)
  PROVE  CardsFit'
<1> DEFINE q == req[r]
<1>1. /\ q.at = "card" /\ Goes(r, q.rest) /\ UNCHANGED <<seasons, matches, withdrawn>>
      /\ players' = [players EXCEPT ![q.player] = q.value]
      /\ stale' = IF IsTrue(q.player, q.value) THEN stale \ {q.player} ELSE stale \cup {q.player}
  BY DEF SyncWrite
<1>2. q.player \in Players /\ IsSync(q.rest) /\ q.player \in DOMAIN players
  BY <1>1 DEF TypeOK, RequestFits
<1>3. /\ req'[r] = q.rest /\ \A o \in Requests \ {r} : req'[o] = req[o]
  BY <1>1, Gone DEF TypeOK
<1>4. Scopes' = Scopes /\ Rows' = Rows /\ Live' = Live /\ (withdrawn => withdrawn')
  BY <1>1 DEF Scopes, Rows, Live
<1> SUFFICES ASSUME NEW p \in Players, ~ Covered(p)' PROVE \E scope \in Scopes' : Right(p, scope)'
  BY DEF CardsFit
<1>5. CASE p = q.player
  <2>1. IsTrue(p, q.value)
    BY <1>1, <1>5 DEF Covered
  <2>2. PICK scope \in Scopes : q.value = Cards(p, scope)
    BY <2>1 DEF IsTrue
  <2>3. players'[p] = Cards(p, scope)
    BY <1>1, <1>2, <1>5, <2>2
  <2> QED BY <1>1, <1>4, <2>2, <2>3, WrittenIsRight
<1>6. CASE p # q.player
  <2>1. ~ Covered(p)
    <3>1. Names(q, p) => Names(req[r], p)'
      BY <1>1, <1>2, <1>3, <1>6 DEF Names, IsSync
    <3>2. ASSUME NEW o \in Requests \ {r}, Names(req[o], p) PROVE Names(req[o], p)'
      BY <1>3, <1>4, <3>2 DEF Names
    <3>3. p \in stale => p \in stale'
      BY <1>1, <1>6
    <3> QED BY <3>1, <3>2, <3>3 DEF Covered, Named
  <2>2. PICK scope \in Scopes : Right(p, scope)
    BY <2>1 DEF CardsFit
  <2>3. players'[p] = players[p]
    BY <1>1, <1>6
  <2>4. Untouched(p) /\ \A j \in Live : Steady(j)
    BY <1>1, <1>4 DEF Untouched, Steady
  <2>5. NoneLost
    BY <1>4, <2>4 DEF NoneLost
  <2>6. NewAwaited(p)
    <3>1. ASSUME NEW j PROVE Awaited(p, j) => Awaited(p, j)'
      <4>1. ~ Awaits(q, p, j)
        BY <1>1 DEF Awaits
      <4> QED BY <1>3, <4>1, AwaitedByOthers
    <3> QED BY <1>4, <2>4, <3>1 DEF NewAwaited
  <2>7. Right(p, scope)'
    BY <1>4, <2>2, <2>3, <2>4, <2>5, <2>6, StaysRight
  <2> QED BY <1>4, <2>2, <2>7
<1> QED BY <1>5, <1>6

(* Seasons.  Cards are taken away from everybody with a new one, and it    *)
(* has no matches.                                                         *)
LEMMA EmptySum ==
  ASSUME NEW f, DOMAIN f = {}
  PROVE  SumFunction(f) = 0
<1> DEFINE Step(g) == [s \in SUBSET {} |->
                         IF s = {} THEN 0
                         ELSE LET x == CHOOSE x \in s : TRUE IN f[x] + g[s \ {x}]]
           iter == CHOOSE g : g = Step(g)
<1>1. \E g : g = Step(g)
  <2>1. [s \in {{}} |-> 0] = Step([s \in {{}} |-> 0])
    OBVIOUS
  <2> QED BY <2>1
<1>2. iter = Step(iter)
  BY <1>1
<1>3. iter[{}] = 0
  <2> HIDE DEF iter
  <2>1. Step(iter)[{}] = 0
    OBVIOUS
  <2> QED BY <1>2, <2>1
<1>4. SumFunction(f) = iter[{}]
  BY DEF SumFunction, SumFunctionOnSet, FoldFunctionOnSet, MapThenFoldSet
<1> QED BY <1>3, <1>4

NoCards == \A p, scope : players[p] = Clean /\ CardMatches(p, scope) = {} => Right(p, scope)

LEMMA NoCardsIsRight == NoCards
<1> SUFFICES ASSUME NEW p, NEW scope, players[p] = Clean, CardMatches(p, scope) = {}
    PROVE  Right(p, scope)
  BY DEF NoCards
<1>1. Yellows({}, p) = 0 /\ Reds({}, p) = 0
  <2>1. \A types : DOMAIN [i \in {} |-> CardsIn(i, p, types)] = {}
    OBVIOUS
  <2> QED BY <2>1, EmptySum DEF Yellows, Reds
<1>2. DOMAIN DaysOf(Triggers({}, p)) = {}
  BY DEF DaysOf, Triggers
<1>3. /\ players[p].yellowCards = 0 /\ players[p].redCards = 0
      /\ players[p].status = "active" /\ players[p].suspendedAt = None
  BY DEF Clean
<1> QED BY <1>1, <1>2, <1>3 DEF Right, Counted, Held

LEMMA InitCardsFit == Init => CardsFit
<1> SUFFICES ASSUME Init, NEW p \in Players PROVE \E scope \in Scopes : Right(p, scope)
  BY DEF CardsFit
<1>1. /\ Rows = DOMAIN Fixtures[type]
      /\ \A i \in Rows : matches[i] = Row(i, Fixtures[type][i].day, Fixtures[type][i])
      /\ players[p] = Clean /\ type \in Types
  BY DEF Init, Rows
<1>2. \A i \in Rows : matches[i].events = << >>
  BY <1>1, NewRowFits, MatchAssumption
<1>3. \A scope : CardMatches(p, scope) = {}
  <2>1. DOMAIN << >> = {}
    OBVIOUS
  <2> QED BY <1>2, <2>1 DEF CardMatches, Live
<1>4. First \in Scopes
  BY MatchAssumption DEF Init, Scopes
<1> QED BY <1>1, <1>3, <1>4, NoCardsIsRight DEF NoCards

LEMMA CardsThroughSeasons == TypeOK /\ CardsFit /\ (SeasonChange \/ DeleteSeason) => CardsFit'
<1> SUFFICES ASSUME TypeOK, CardsFit, SeasonChange \/ DeleteSeason PROVE CardsFit'
  OBVIOUS
<1>1. CASE Players \subseteq stale'
  BY <1>1 DEF CardsFit, Covered
<1>2. ASSUME NEW archives \in BOOLEAN, NewSeason(archives), matches' = matches
      PROVE  CardsFit'
  <2>1. PICK s \in Seasons :
          /\ seasons[s] = "none"
          /\ seasons' = [x \in Seasons |->
                          IF x = s THEN "active"
                          ELSE IF archives /\ seasons[x] = "active" THEN "archived" ELSE seasons[x]]
    BY <1>2 DEF NewSeason
  <2>2. players' = [p \in Players |-> Clean]
    BY <1>2 DEF NewSeason
  <2>3. s \in Scopes'
    BY <2>1 DEF Scopes
  <2>4. \A i \in Rows : matches[i].seasonId # s
    BY <2>1 DEF TypeOK, RowsFit
  <2>5. \A p : CardMatches(p, s)' = {}
    BY <1>2, <2>1, <2>4, KindsAssumption DEF CardMatches, Live, Rows, InScope
  <2>6. NoCards'
    BY NoCardsIsRight, PTL
  <2>7. \A p \in Players : Right(p, s)'
    BY <2>2, <2>5, <2>6 DEF NoCards
  <2> QED BY <2>3, <2>7 DEF CardsFit
<1> QED BY <1>1, <1>2 DEF SeasonChange, DeleteSeason, CreateSeason, ArchiveAndCreateNewSeason

LEMMA CardsStep == TypeOK /\ CardsFit /\ [MatchNext]_vars => CardsFit'
<1> SUFFICES ASSUME TypeOK, CardsFit, [MatchNext]_vars PROVE CardsFit'
  OBVIOUS
<1>1. CASE UNCHANGED vars
  <2>1. /\ UNCHANGED <<seasons, matches, players, req, stale, withdrawn>>
    BY <1>1 DEF vars, data, history
  <2>2. /\ Rows' = Rows /\ Live' = Live /\ \A j \in Live : Steady(j)
    BY <2>1 DEF Rows, Live, Steady
  <2>3. NoneLost
    BY <2>2 DEF NoneLost
  <2>4. ASSUME NEW p \in Players
        PROVE  (Covered(p) => Covered(p)') /\ Untouched(p) /\ NewAwaited(p)
    <3>1. Covered(p) => Covered(p)'
      BY <2>1, <2>2 DEF Covered, Named, Names
    <3>2. Untouched(p)
      BY <2>1, <2>2 DEF Untouched
    <3>3. \A j : Awaited(p, j)' <=> Awaited(p, j)
      BY <2>1 DEF Awaited, Awaits
    <3>4. NewAwaited(p)
      BY <2>2, <3>3 DEF NewAwaited
    <3> QED BY <3>1, <3>2, <3>4
  <2> QED BY <2>1, <2>3, <2>4, CardsKept
<1>2. ASSUME NEW r \in Requests,
             \/ UpdateRead(r) \/ UpdateCommit(r) \/ UpdateFails(r) \/ Create(r) \/ AfterCreate(r)
             \/ RemoveRead(r) \/ RemoveCommit(r) \/ RemoveFails(r)
             \/ FindSuspended(r) \/ SyncRead(r) \/ SyncWrite(r) \/ TableRead(r) \/ TableWrite(r)
             \/ Answer(r) \/ Crash(r) \/ Boot(r)
             \/ UpdateSeasonGroups(r) \/ GenerateRead(r) \/ GenerateWrite(r) \/ GenerateFails(r)
      PROVE  CardsFit'
  BY <1>2, CardsThroughUpdate, CardsThroughCreate, CardsThroughRemoval, CardsThroughDraw,
     CardsThroughWrite, CardsThroughRequests
<1> QED BY <1>1, <1>2, CardsThroughSeasons DEF MatchNext

(* The invariant: whoever is not waiting to be counted has the cards of    *)
(* some season in force, and the suspension that they make.                *)
THEOREM CardsSafe == MatchSpec => []CardsFit
<1>1. Init => TypeOK /\ CardsFit
  BY InitTypeOK, InitCardsFit
<1>2. TypeOK /\ CardsFit /\ [MatchNext]_vars => (TypeOK /\ CardsFit)'
  BY TypeStep, CardsStep
<1> QED BY <1>1, <1>2, PTL DEF MatchSpec

LEMMA CoveredIsOwed ==
  ASSUME NEW p \in Players, Covered(p)
  PROVE  Owed(p) \/ p \in stale
<1>1. ASSUME NEW r \in Requests, Names(req[r], p) PROVE p \in OwedPlayers(req[r])
  BY <1>1 DEF Names, OwedPlayers
<1> QED BY <1>1 DEF Covered, Named, Owed

(* Yellow and red cards of a player are those of the season's matches, or  *)
(* somebody is to count them, or they are known to be stale.               *)
THEOREM CardsCounted == MatchSpec => []CardsAreCounted
<1>1. CardsFit => CardsAreCounted
  <2> SUFFICES ASSUME CardsFit, NEW p \in Players, ~ Covered(p)
      PROVE  \E scope \in Scopes : /\ players[p].yellowCards = Cards(p, scope).yellowCards
                                   /\ players[p].redCards = Cards(p, scope).redCards
    BY CoveredIsOwed DEF CardsAreCounted
  <2>1. PICK scope \in Scopes : Right(p, scope)
    BY DEF CardsFit
  <2> QED BY <2>1 DEF Right, Counted, Cards
<1> QED BY <1>1, CardsSafe, PTL

(* A player is suspended exactly while his latest card keeps him out, but  *)
(* for what SuspensionIsServed excuses: whenever a match ends a suspension *)
(* a request still has to see to it.                                       *)
THEOREM SuspensionServed == MatchSpec => []SuspensionIsServed
<1>1. CardsFit => SuspensionIsServed
  <2> SUFFICES ASSUME CardsFit, NEW p \in Players, ~ (Owed(p) \/ p \in stale)
      PROVE  \E scope \in Scopes :
               \/ EffectiveTeam(p, scope) # TeamOf[p]
               \/ /\ players[p].status = Cards(p, scope).status
                  /\ players[p].suspendedAt = Cards(p, scope).suspendedAt
               \/ withdrawn /\ players[p].status = "active"
    BY DEF SuspensionIsServed
  <2>1. PICK scope \in Scopes : Right(p, scope)
    BY CoveredIsOwed DEF CardsFit
  <2> SUFFICES ASSUME EffectiveTeam(p, scope) = TeamOf[p]
      PROVE  \/ /\ players[p].status = Cards(p, scope).status
                /\ players[p].suspendedAt = Cards(p, scope).suspendedAt
             \/ withdrawn /\ players[p].status = "active"
    OBVIOUS
  <2> DEFINE days == DaysOf(Triggers(CardMatches(p, scope), p))
             latest == Latest(days)
             out == DOMAIN days # {} /\ ~ Served(days[latest], p, scope)
  <2>2. Held(p, scope)
    BY <2>1 DEF Right
  <2>3. /\ Cards(p, scope).status = IF out THEN "suspended" ELSE "active"
        /\ Cards(p, scope).suspendedAt = IF out THEN latest ELSE None
    BY DEF Cards
  <2> HIDE DEF days, latest
  <2>4. CASE /\ players[p].status = "active" /\ players[p].suspendedAt = None
             /\ withdrawn \/ DOMAIN days = {} \/ Served(days[latest], p, scope)
    BY <2>3, <2>4
  <2>5. CASE /\ players[p].status = "suspended" /\ players[p].suspendedAt = latest
             /\ DOMAIN days # {}
             /\ \A j \in Live : Serves(j, days[latest], p, scope) => Awaited(p, j)
    <3>1. ASSUME NEW j \in Live, Serves(j, days[latest], p, scope) PROVE FALSE
      <4>1. PICK r \in Requests : Awaits(req[r], p, j)
        BY <2>5, <3>1 DEF Awaited
      <4>2. j \in Rows /\ TeamOf[p] \in TeamsIfFinished(matches[j])
        BY <3>1 DEF Serves, TeamsIfFinished, Live
      <4>3. p \in OwedPlayers(req[r])
        BY <2>5, <4>1, <4>2 DEF Awaits, OwedPlayers, SuspendedIn
      <4> QED BY <4>3 DEF Owed
    <3> QED BY <2>3, <2>5, <3>1 DEF Served
  <2> QED BY <2>2, <2>4, <2>5 DEF Held, days, latest
<1> QED BY <1>1, CardsSafe, PTL

-----------------------------------------------------------------------------
(* Tables.  Those of one season are as they should be. *)
Fresh(s) ==
  \/ s \in DOMAIN cache /\ cache[s] = Computed(s)
  \/ s \notin DOMAIN cache /\ \A i \in Live : matches[i].seasonId # s

Settled(s) == OwedTables(s) \/ s \in stale \/ Fresh(s)

(* The matches of a season stay in it. *)
Stays(s) == \A i \in Rows : matches[i].seasonId = s => i \in Rows' /\ matches'[i].seasonId = s

(* Nothing happens to a season's matches that its tables show. *)
Undisturbed(s) ==
  /\ Stays(s) /\ Computed(s)' = Computed(s)
  /\ s \notin DOMAIN cache /\ (\A i \in Live : matches[i].seasonId # s)
       => (\A i \in Live' : matches'[i].seasonId # s)
  /\ s \in stale => s \in stale'
  /\ s \in DOMAIN cache' <=> s \in DOMAIN cache
  /\ s \in DOMAIN cache => cache'[s] = cache[s]

LEMMA StillOwed ==
  ASSUME NEW q, NEW s, Stays(s), s \in OwedSeasons(q)
  PROVE  s \in OwedSeasons(q)'
<1>1. ASSUME NEW x, s \in Due(x) PROVE s \in Due(x)'
  BY <1>1 DEF Due, Stays
<1>2. CASE q.at = "sync"
  BY <1>1, <1>2 DEF OwedSeasons
<1>3. CASE q.at = "card"
  BY <1>1, <1>3 DEF OwedSeasons
<1>4. CASE q.at = "table"
  BY <1>1, <1>4 DEF OwedSeasons
<1>5. CASE q.at = "created"
  BY <1>5 DEF OwedSeasons, Stays
<1> QED BY <1>2, <1>3, <1>4, <1>5 DEF OwedSeasons

LEMMA StaysSettled ==
  ASSUME NEW r \in Requests, \A o \in Requests \ {r} : req'[o] = req[o],
         NEW s, Settled(s), Undisturbed(s), s \in OwedSeasons(req[r]) => Settled(s)'
  PROVE  Settled(s)'
<1>1. ASSUME NEW o \in Requests \ {r}, s \in OwedSeasons(req[o]) PROVE s \in OwedSeasons(req[o])'
  <2>1. req'[o] = req[o] /\ Stays(s)
    BY DEF Undisturbed
  <2> QED BY <1>1, <2>1, StillOwed
<1>2. OwedTables(s) => OwedTables(s)' \/ Settled(s)'
  BY <1>1 DEF OwedTables
<1>3. Fresh(s) => Fresh(s)'
  BY DEF Fresh, Undisturbed
<1> QED BY <1>2, <1>3 DEF Settled, Undisturbed

(* What a season's tables are computed from. *)
LEMMA SameTables ==
  ASSUME NEW s, type' = type, groupOf'[s] = groupOf[s],
         \A i \in Rows \cup Rows' :
            (i \in Rows /\ matches[i].seasonId = s) \/ (i \in Rows' /\ matches'[i].seasonId = s)
            => i \in Rows /\ i \in Rows' /\ matches'[i] = matches[i]
  PROVE  /\ Stays(s) /\ Computed(s)' = Computed(s)
         /\ (\A i \in Live : matches[i].seasonId # s) => (\A i \in Live' : matches'[i].seasonId # s)
<1> DEFINE ids == {i \in Live : matches[i].seasonId = s /\ matches[i].status = "finished"}
           counted == [i \in ids |-> matches[i]]
<1>1. ids' = ids
  BY DEF Live
<1>2. counted' = counted
  BY <1>1 DEF Live
<1>3. Computed(s) = [standings |-> IF type = "CUP" THEN GroupTables({counted[i] : i \in ids}, groupOf[s])
                                   ELSE LeagueTable({counted[i] : i \in ids}, Teams),
                     stats |-> PlayerStatistics(counted, Players)]
  BY DEF Computed
<1>4. Computed(s)' = [standings |-> IF type' = "CUP" THEN GroupTables({counted'[i] : i \in ids'}, groupOf'[s])
                                    ELSE LeagueTable({counted'[i] : i \in ids'}, Teams),
                      stats |-> PlayerStatistics(counted', Players)]
  BY DEF Computed
<1> HIDE DEF ids, counted
<1>5. Computed(s)' = Computed(s)
  BY <1>1, <1>2, <1>3, <1>4
<1> QED BY <1>5 DEF Stays, Live

LEMMA TablesKept ==
  ASSUME TablesAreCurrent, NEW r \in Requests, \A o \in Requests \ {r} : req'[o] = req[o],
         \A s \in Seasons : Exists(s)' =>
            /\ Exists(s)
            /\ \/ Settled(s)'
               \/ Undisturbed(s) /\ (s \in OwedSeasons(req[r]) => Settled(s)')
  PROVE  TablesAreCurrent'
<1> SUFFICES ASSUME NEW s \in Seasons, Exists(s)' PROVE Settled(s)'
  BY DEF TablesAreCurrent, Settled, Fresh
<1>1. Settled(s)
  BY DEF TablesAreCurrent, Settled, Fresh
<1> QED BY <1>1, StaysSettled

LEMMA TablesThroughRequests ==
  ASSUME TypeOK, TablesAreCurrent, NEW r \in Requests,
         \/ UpdateRead(r) \/ UpdateFails(r) \/ AfterCreate(r) \/ RemoveRead(r) \/ RemoveFails(r)
         \/ FindSuspended(r) \/ SyncRead(r) \/ SyncWrite(r) \/ TableRead(r)
         \/ Answer(r) \/ Crash(r) \/ Boot(r) \/ GenerateRead(r) \/ GenerateFails(r)
  PROVE  TablesAreCurrent'
<1> DEFINE q == req[r]
<1>1. UNCHANGED <<type, seasons, matches, groupOf, cache>> /\ Seasons \cap stale \subseteq stale'
  <2>1. CASE SyncWrite(r)
    <3>1. /\ q.player \in Players /\ stale \ {q.player} \subseteq stale'
          /\ UNCHANGED <<type, seasons, matches, groupOf, cache>>
      BY <2>1 DEF SyncWrite, TypeOK, RequestFits
    <3> QED BY <3>1, KindsAssumption
  <2>2. CASE Crash(r)
    BY <2>2 DEF Crash, data
  <2>3. CASE GenerateRead(r)
    BY <2>3 DEF GenerateRead, data
  <2>4. CASE \/ UpdateRead(r) \/ UpdateFails(r) \/ AfterCreate(r) \/ RemoveRead(r) \/ RemoveFails(r)
             \/ FindSuspended(r) \/ TableRead(r) \/ SyncRead(r) \/ Answer(r) \/ Boot(r)
             \/ GenerateFails(r)
    <3>1. UNCHANGED <<data, history>>
      BY <2>4 DEF UpdateRead, UpdateFails, AfterCreate, RemoveRead, RemoveFails, FindSuspended,
                  SyncRead, TableRead, Answer, Boot, GenerateFails
    <3> QED BY <3>1 DEF data, history
  <2> QED BY <2>1, <2>2, <2>3, <2>4
<1>2. DOMAIN req = Requests
  BY DEF TypeOK
<1>3. Rows' = Rows /\ \A x : Due(x)' = Due(x)
  BY <1>1 DEF Rows, Due
<1>4. ASSUME NEW next, Goes(r, next),
             \A s \in Seasons : Exists(s) /\ s \in OwedSeasons(q) => OwedTables(s)' \/ s \in stale'
      PROVE  TablesAreCurrent'
  <2>1. \A o \in Requests \ {r} : req'[o] = req[o]
    BY <1>2, <1>4, Gone
  <2>2. ASSUME NEW s \in Seasons PROVE Undisturbed(s) /\ (Exists(s)' => Exists(s))
    <3>1. /\ Stays(s) /\ Computed(s)' = Computed(s)
          /\ (\A i \in Live : matches[i].seasonId # s) => (\A i \in Live' : matches'[i].seasonId # s)
      BY <1>1, <1>3, SameTables
    <3> QED BY <1>1, <3>1 DEF Undisturbed, Exists
  <2>3. \A s \in Seasons : Exists(s)' /\ s \in OwedSeasons(q) => Settled(s)'
    BY <1>4, <2>2 DEF Settled
  <2> QED BY <2>1, <2>2, <2>3, TablesKept
<1>5. CASE q.at \notin {"sync", "card", "table", "created"}
  <2>1. OwedSeasons(q) = {}
    BY <1>5 DEF OwedSeasons
  <2>2. \E next : Goes(r, next)
    BY <1>5 DEF UpdateRead, UpdateFails, AfterCreate, RemoveRead, RemoveFails, FindSuspended,
                SyncRead, SyncWrite, TableRead, Answer, Crash, Boot, GenerateRead, GenerateFails
  <2> QED BY <1>4, <2>1, <2>2
<1>6. CASE AfterCreate(r)
  <2> DEFINE next == Todo(Involved(q.events), TeamsIfFinished(matches[q.id]),
                          {matches[q.id].seasonId}, None)
  <2>1. /\ q.at = "created" /\ (q.id \in Rows => Goes(r, next)) /\ (q.id \notin Rows => Goes(r, Idle))
    BY <1>6 DEF AfterCreate
  <2>2. OwedSeasons(q) = IF q.id \notin Rows THEN {} ELSE {matches[q.id].seasonId}
    BY <2>1 DEF OwedSeasons
  <2>3. ASSUME q.id \in Rows
        PROVE  req'[r].at = "sync" /\ req'[r].seasons = {matches[q.id].seasonId}
    BY <1>2, <2>1, <2>3, Gone DEF Todo
  <2>4. ASSUME q.id \in Rows PROVE {matches[q.id].seasonId} \subseteq OwedSeasons(req[r])'
    BY <2>3, <2>4 DEF OwedSeasons, Due
  <2>5. \A s : s \in OwedSeasons(q) => OwedTables(s)'
    BY <2>2, <2>4 DEF OwedTables
  <2> QED BY <1>4, <2>1, <2>5
<1>7. CASE FindSuspended(r)
  <2> DEFINE next == Todo(q.todo \cup SuspendedIn(q.teams), {}, q.seasons, q.id)
  <2>1. q.at = "sync" /\ Goes(r, next)
    BY <1>7 DEF FindSuspended
  <2>2. req'[r].at = "sync" /\ req'[r].seasons = q.seasons /\ req'[r].id = q.id
    BY <1>2, <2>1, Gone DEF Todo
  <2>3. OwedSeasons(req[r])' = OwedSeasons(q)
    BY <1>1, <1>3, <2>1, <2>2 DEF OwedSeasons, Due
  <2>4. \A s : s \in OwedSeasons(q) => OwedTables(s)'
    BY <2>3 DEF OwedTables
  <2> QED BY <1>4, <2>1, <2>4
<1>8. CASE SyncRead(r)
  <2>1. PICK p \in q.todo, scope \in Scopes :
          Goes(r, [at |-> "card", player |-> p, value |-> Cards(p, scope),
                   rest |-> Todo(q.todo \ {p}, {}, q.seasons, q.id)])
    BY <1>8 DEF SyncRead
  <2>2. q.at = "sync"
    BY <1>8 DEF SyncRead
  <2>3. req'[r].at = "card" /\ req'[r].rest.seasons = q.seasons /\ req'[r].rest.id = q.id
    BY <1>2, <2>1, Gone DEF Todo
  <2>4. OwedSeasons(req[r])' = OwedSeasons(q)
    BY <1>1, <1>3, <2>2, <2>3 DEF OwedSeasons, Due
  <2>5. \A s : s \in OwedSeasons(q) => OwedTables(s)'
    BY <2>4 DEF OwedTables
  <2> QED BY <1>4, <2>1, <2>5
<1>9. CASE SyncWrite(r)
  <2>1. q.at = "card" /\ Goes(r, q.rest) /\ q.rest.at = "sync"
    BY <1>9 DEF SyncWrite, TypeOK, RequestFits, IsSync
  <2>2. req'[r] = q.rest
    BY <1>2, <2>1, Gone
  <2>3. OwedSeasons(req[r])' = OwedSeasons(q)
    BY <1>1, <1>3, <2>1, <2>2 DEF OwedSeasons, Due
  <2>4. \A s : s \in OwedSeasons(q) => OwedTables(s)'
    BY <2>3 DEF OwedTables
  <2> QED BY <1>4, <2>1, <2>4
<1>10. CASE TableRead(r)
  <2>1. PICK x \in Due(q) :
          LET rest == Todo({}, {}, Due(q) \ {x}, None)
          IN  Goes(r, IF ~ Exists(x) THEN rest
                      ELSE [at |-> "table", season |-> x, value |-> Computed(x), rest |-> rest])
    BY <1>10 DEF TableRead
  <2> DEFINE rest == Todo({}, {}, Due(q) \ {x}, None)
             next == IF ~ Exists(x) THEN rest
                     ELSE [at |-> "table", season |-> x, value |-> Computed(x), rest |-> rest]
  <2>2. q.at = "sync" /\ Goes(r, next)
    BY <1>10, <2>1 DEF TableRead
  <2>3. rest.at = "sync" /\ rest.seasons = Due(q) \ {x}
    BY DEF Todo
  <2> HIDE DEF rest
  <2>4. ASSUME NEW s \in OwedSeasons(q), Exists(s) PROVE s \in OwedSeasons(req[r])'
    <3>1. s \in Due(q) /\ req'[r] = next
      BY <1>2, <2>2, <2>4, Gone DEF OwedSeasons
    <3>2. CASE ~ Exists(x)
      BY <2>3, <2>4, <3>1, <3>2 DEF OwedSeasons, Due
    <3>3. CASE Exists(x)
      <4>1. req'[r].at = "table" /\ req'[r].season = x /\ req'[r].rest = rest
        BY <3>1, <3>3
      <4> QED BY <2>3, <3>1, <4>1 DEF OwedSeasons, Due
    <3> QED BY <3>2, <3>3
  <2>5. \A s : Exists(s) /\ s \in OwedSeasons(q) => OwedTables(s)'
    BY <2>4 DEF OwedTables
  <2> HIDE DEF next
  <2> QED BY <1>4, <2>2, <2>5
<1>11. CASE Answer(r)
  <2>1. Goes(r, Idle) /\ OwedSeasons(q) = {}
    BY <1>11 DEF Answer, OwedSeasons
  <2> QED BY <1>4, <2>1
<1>12. CASE Crash(r)
  <2>1. Goes(r, Idle) /\ OwedSeasons(q) \subseteq stale'
    BY <1>12 DEF Crash
  <2> QED BY <1>4, <2>1
<1>13. CASE \/ UpdateRead(r) \/ UpdateFails(r) \/ RemoveRead(r) \/ RemoveFails(r) \/ Boot(r)
            \/ GenerateRead(r) \/ GenerateFails(r)
  <2>1. q.at \notin {"sync", "card", "table", "created"}
    BY <1>13 DEF UpdateRead, UpdateFails, RemoveRead, RemoveFails, Boot, GenerateRead, GenerateFails, Starts
  <2> QED BY <1>5, <2>1
<1> QED BY <1>6, <1>7, <1>8, <1>9, <1>10, <1>11, <1>12, <1>13

LEMMA TablesThroughWrite ==
  ASSUME TypeOK, TablesAreCurrent, NEW r \in Requests, TableWrite(r)
  PROVE  TablesAreCurrent'
<1> DEFINE q == req[r]
<1> PICK x : x = q.season
  OBVIOUS
<1>1. q.at = "table" /\ Goes(r, q.rest) /\ UNCHANGED <<type, seasons, matches, groupOf>>
  BY DEF TableWrite
<1>2. x \in Seasons /\ q.rest.at = "sync" /\ q.rest.id = None
  BY <1>1 DEF TypeOK, RequestFits, IsSync
<1>3. req'[r] = q.rest /\ \A o \in Requests \ {r} : req'[o] = req[o]
  BY <1>1, Gone DEF TypeOK
<1>4. \/ ~ Exists(x) /\ UNCHANGED <<cache, stale>>
      \/ /\ Exists(x)
         /\ cache' = [y \in DOMAIN cache \cup {x} |-> IF y = x THEN q.value ELSE cache[y]]
         /\ stale' = IF q.value = Computed(x) THEN stale \ {x} ELSE stale \cup {x}
  BY DEF TableWrite
<1>5. ASSUME NEW s \in Seasons
      PROVE  /\ Stays(s) /\ Computed(s)' = Computed(s)
             /\ (\A i \in Live : matches[i].seasonId # s) => (\A i \in Live' : matches'[i].seasonId # s)
  <2>1. Rows' = Rows
    BY <1>1 DEF Rows
  <2> QED BY <1>1, <2>1, SameTables
<1>6. ASSUME NEW s \in Seasons \ {x}
      PROVE  Undisturbed(s) /\ (s \in OwedSeasons(q) => OwedTables(s)')
  <2>1. Undisturbed(s)
    BY <1>4, <1>5 DEF Undisturbed
  <2>2. ASSUME s \in OwedSeasons(q) PROVE s \in OwedSeasons(req[r])'
    <3>1. None \notin Rows
      BY KindsAssumption DEF TypeOK, RowsFit
    <3>2. s \in q.rest.seasons
      BY <1>1, <1>2, <2>2, <3>1 DEF OwedSeasons, Due
    <3> QED BY <1>2, <1>3, <3>2 DEF OwedSeasons, Due
  <2> QED BY <2>1, <2>2 DEF OwedTables
<1>7. ASSUME Exists(x) PROVE Settled(x)'
  <2>1. x \in DOMAIN cache' /\ cache'[x] = q.value
    BY <1>4, <1>7
  <2>2. q.value = Computed(x) \/ x \in stale'
    BY <1>4, <1>7
  <2> QED BY <1>2, <1>5, <2>1, <2>2 DEF Settled, Fresh
<1>8. \A s \in Seasons : Exists(s)' <=> Exists(s)
  BY <1>1 DEF Exists
<1>9. \A s \in Seasons \ {x} : Exists(s)' =>
         Exists(s) /\ Undisturbed(s) /\ (s \in OwedSeasons(q) => Settled(s)')
  BY <1>6, <1>8 DEF Settled
<1> QED BY <1>2, <1>3, <1>7, <1>8, <1>9, TablesKept

LEMMA TablesThroughGroups ==
  ASSUME TypeOK, TablesAreCurrent, NEW r \in Requests, UpdateSeasonGroups(r)
  PROVE  TablesAreCurrent'
<1>1. PICK x \in Seasons, groups \in Groupings :
        groupOf' = [groupOf EXCEPT ![x] = groups] /\ Goes(r, Todo({}, {}, {x}, None))
  BY DEF UpdateSeasonGroups
<1>2. req[r].at = "idle" /\ UNCHANGED <<type, seasons, matches, cache, stale>>
  BY DEF UpdateSeasonGroups, Starts, history
<1>3. /\ req'[r] = Todo({}, {}, {x}, None) /\ \A o \in Requests \ {r} : req'[o] = req[o]
  BY <1>1, Gone DEF TypeOK
<1>4. Settled(x)'
  <2>1. x \in OwedSeasons(req[r])'
    BY <1>3 DEF OwedSeasons, Due, Todo
  <2> QED BY <2>1 DEF Settled, OwedTables
<1>5. ASSUME NEW s \in Seasons \ {x} PROVE Undisturbed(s)
  <2>1. groupOf'[s] = groupOf[s]
    BY <1>1
  <2>2. Rows' = Rows
    BY <1>2 DEF Rows
  <2>3. /\ Stays(s) /\ Computed(s)' = Computed(s)
        /\ (\A i \in Live : matches[i].seasonId # s) => (\A i \in Live' : matches'[i].seasonId # s)
    BY <1>2, <2>1, <2>2, SameTables
  <2> QED BY <1>2, <2>3 DEF Undisturbed
<1>6. \A s \in Seasons : Exists(s)' => Exists(s)
  BY <1>2 DEF Exists
<1>7. OwedSeasons(req[r]) = {}
  BY <1>2 DEF OwedSeasons
<1> QED BY <1>3, <1>4, <1>5, <1>6, <1>7, TablesKept

(* A step that writes one row leaves the seasons alone that it is not and  *)
(* was not in.                                                             *)
LEMMA TablesThroughRow ==
  ASSUME TablesAreCurrent, NEW r \in Requests, \A o \in Requests \ {r} : req'[o] = req[o],
         OwedSeasons(req[r]) = {},
         UNCHANGED <<type, seasons, groupOf, cache>>, Seasons \cap stale \subseteq stale',
         NEW i, Rows' = Rows \cup {i}, \A j \in Rows \ {i} : matches'[j] = matches[j],
         NEW was, i \in Rows => matches[i].seasonId = was, NEW is, matches'[i].seasonId = is,
         Settled(was)', Settled(is)'
  PROVE  TablesAreCurrent'
<1>1. ASSUME NEW s \in Seasons \ {was, is} PROVE Undisturbed(s)
  <2>1. /\ Stays(s) /\ Computed(s)' = Computed(s)
        /\ (\A j \in Live : matches[j].seasonId # s) => (\A j \in Live' : matches'[j].seasonId # s)
    BY <1>1, SameTables
  <2> QED BY <2>1 DEF Undisturbed
<1>2. \A s \in Seasons : Exists(s)' => Exists(s)
  BY DEF Exists
<1>3. \A s \in Seasons : Settled(s)' \/ Undisturbed(s)
  BY <1>1
<1> QED BY <1>2, <1>3, TablesKept

LEMMA TablesThroughUpdate ==
  ASSUME TypeOK, TablesAreCurrent, NEW r \in Requests, UpdateCommit(r)
  PROVE  TablesAreCurrent'
<1> DEFINE q == req[r]
           i == q.id
           now == matches[i]
           new == Updated(now, q.old, q.body)
           synced == SyncedBy(q.old, Merge(q.old, q.body))
           next == Todo(synced, TeamsIfFinished(new), {}, i)
<1> PICK was, is : was = now.seasonId /\ is = new.seasonId
  OBVIOUS
<1> PICK id : id = i
  OBVIOUS
<1>1. /\ q.at = "updating" /\ i \in Rows /\ matches' = [matches EXCEPT ![i] = new]
      /\ Goes(r, next) /\ UNCHANGED <<type, seasons, groupOf, cache>>
      /\ stale' = (stale \ {i}) \cup (IF q.old = now THEN {} ELSE Involved(now.events) \ synced)
                  \cup ({now.seasonId} \ {new.seasonId})
  BY DEF UpdateCommit
<1>2. i \in MatchIds
  BY <1>1 DEF TypeOK, RowsFit
<1>3. /\ Rows' = Rows /\ matches'[id] = new /\ \A j \in Rows \ {id} : matches'[j] = matches[j]
  BY <1>1 DEF Rows
<1>4. /\ req'[r] = next /\ \A o \in Requests \ {r} : req'[o] = req[o]
  BY <1>1, Gone DEF TypeOK
<1>5. Seasons \cap stale \subseteq stale' /\ (was # is => was \in stale')
  BY <1>1, <1>2, KindsAssumption
<1>6. next.at = "sync" /\ next.id = id
  BY DEF Todo
<1> HIDE DEF next, new
<1>7. Settled(is)'
  <2>1. is \in OwedSeasons(req[r])'
    BY <1>1, <1>3, <1>4, <1>6 DEF OwedSeasons, Due
  <2> QED BY <2>1 DEF Settled, OwedTables
<1>8. Settled(was)'
  BY <1>5, <1>7 DEF Settled
<1>9. OwedSeasons(q) = {}
  BY <1>1 DEF OwedSeasons
<1>10. /\ Rows' = Rows \cup {id} /\ matches[id].seasonId = was /\ matches'[id].seasonId = is
  BY <1>1, <1>3
<1>11. UNCHANGED <<type, seasons, groupOf, cache>>
  BY <1>1
<1> QED BY <1>3, <1>4, <1>5, <1>7, <1>8, <1>9, <1>10, <1>11, TablesThroughRow

LEMMA TablesThroughCreate ==
  ASSUME TypeOK, TablesAreCurrent, NEW r \in Requests, Create(r)
  PROVE  TablesAreCurrent'
<1>1. PICK i \in DOMAIN Free[type] \ Rows :
        /\ Rows' = Rows \cup {i} /\ \A j \in Rows : matches'[j] = matches[j]
        /\ Goes(r, [at |-> "created", id |-> i, events |-> matches'[i].events])
  BY DEF Create, Rows
<1>2. /\ req[r].at = "idle" /\ UNCHANGED <<type, seasons, groupOf, cache, stale>>
  BY DEF Create, Starts, history
<1>3. /\ req'[r].at = "created" /\ req'[r].id = i
      /\ \A o \in Requests \ {r} : req'[o] = req[o]
  BY <1>1, Gone DEF TypeOK
<1> PICK is : is = matches'[i].seasonId
  OBVIOUS
<1>4. Settled(is)'
  <2>1. is \in OwedSeasons(req[r])'
    BY <1>1, <1>3 DEF OwedSeasons
  <2> QED BY <2>1 DEF Settled, OwedTables
<1>5. OwedSeasons(req[r]) = {}
  BY <1>2 DEF OwedSeasons
<1> QED BY <1>1, <1>2, <1>3, <1>4, <1>5, TablesThroughRow

LEMMA TablesThroughRemoval ==
  ASSUME TypeOK, TablesAreCurrent, NEW r \in Requests, RemoveCommit(r)
  PROVE  TablesAreCurrent'
<1> DEFINE q == req[r]
           next == Todo(q.todo, {}, {matches[q.id].seasonId}, None)
<1> PICK i, was : i = q.id /\ was = matches[i].seasonId
  OBVIOUS
<1>1. /\ q.at = "removing" /\ Goes(r, next) /\ UNCHANGED <<type, seasons, groupOf, cache>>
      /\ stale \subseteq stale'
  BY DEF RemoveCommit
<1>2. /\ Rows' = Rows /\ i \in Rows
      /\ \A f \in DOMAIN matches[i] \ {"deleted"} : matches'[i][f] = matches[i][f]
      /\ \A j \in Rows \ {i} : matches'[j] = matches[j]
  BY Removed
<1>3. matches'[i].seasonId = was
  BY <1>2 DEF TypeOK, RowsFit, IsRow, Columns
<1>4. /\ req'[r] = next /\ \A o \in Requests \ {r} : req'[o] = req[o]
  BY <1>1, Gone DEF TypeOK
<1>5. Settled(was)'
  <2>1. next.at = "sync" /\ next.seasons = {was}
    BY DEF Todo
  <2>2. was \in OwedSeasons(req[r])'
    BY <1>4, <2>1 DEF OwedSeasons, Due
  <2> QED BY <2>2 DEF Settled, OwedTables
<1>6. OwedSeasons(q) = {} /\ Rows' = Rows \cup {i}
  BY <1>1, <1>2 DEF OwedSeasons
<1> QED BY <1>1, <1>2, <1>3, <1>4, <1>5, <1>6, TablesThroughRow

(* The tables of groups are those of the matches of groups. *)
LEMMA TablesOfGroups ==
  ASSUME NEW rows, NEW others, NEW of,
         {m \in rows : m.stage = "GROUP"} = {m \in others : m.stage = "GROUP"}
  PROVE  GroupTables(rows, of) = GroupTables(others, of)
<1> DEFINE group(m) == IF m.groupName = None THEN "A" ELSE m.groupName
           filed(set, g) == {m \in set : m.stage = "GROUP" /\ group(m) = g}
           names(set) == {of[t] : t \in DOMAIN of} \cup {group(m) : m \in {n \in set : n.stage = "GROUP"}}
           tables(set) == [g \in names(set) |->
              Table(filed(set, g), {t \in DOMAIN of : of[t] = g} \cup TeamsOf(filed(set, g)))]
<1>1. names(rows) = names(others)
  OBVIOUS
<1>2. \A g : filed(rows, g) = filed(others, g)
  <2> SUFFICES ASSUME NEW g PROVE filed(rows, g) = filed(others, g)
    OBVIOUS
  <2>1. \A set : filed(set, g) = {m \in {n \in set : n.stage = "GROUP"} : group(m) = g}
    OBVIOUS
  <2> HIDE DEF filed
  <2> QED BY <2>1
<1>3. \A set : GroupTables(set, of) = tables(set)
  BY DEF GroupTables
<1> HIDE DEF names, filed
<1> QED BY <1>1, <1>2, <1>3

(* The statistics of the players are those of the events and goals. *)
LEMMA StatisticsOfEvents ==
  ASSUME NEW rows, NEW others, NEW who, DOMAIN rows = DOMAIN others,
         \A i \in DOMAIN rows : rows[i].events = others[i].events /\ rows[i].goals = others[i].goals
  PROVE  PlayerStatistics(rows, who) = PlayerStatistics(others, who)
<1> DEFINE scored(r, p) == [i \in DOMAIN r |-> CountOf(p, r[i].goals, GoalTypes \ {"own_goal"})]
           shown(r, p, types) == [i \in DOMAIN r |-> CountOf(p, r[i].events, types)]
<1>1. \A p : scored(rows, p) = scored(others, p)
  OBVIOUS
<1>2. \A p, types : shown(rows, p, types) = shown(others, p, types)
  OBVIOUS
<1>3. \A r : PlayerStatistics(r, who) =
        [p \in who |-> [goals |-> SumFunction(scored(r, p)),
                        yellowCards |-> SumFunction(shown(r, p, {"yellow_card"})),
                        redCards |-> SumFunction(shown(r, p, RedCards))]]
  BY DEF PlayerStatistics
<1> HIDE DEF scored, shown
<1> QED BY <1>1, <1>2, <1>3

LEMMA TablesThroughDraw ==
  ASSUME TypeOK, TablesAreCurrent, NEW r \in Requests, GenerateWrite(r)
  PROVE  TablesAreCurrent'
<1> DEFINE q == req[r]
<1>1. /\ q.at = "generating" /\ Goes(r, Idle) /\ Exists(q.season)
      /\ UNCHANGED <<type, seasons, groupOf, cache>>
      /\ stale \subseteq stale'
      /\ \A i \in Rows : matches'[i] # matches[i] /\ matches[i].stage = "GROUP"
                         => matches[i].seasonId \in stale'
  BY DEF GenerateWrite, Vanished
<1>2. type = "CUP" /\ q.season \in DOMAIN cache
  BY <1>1 DEF TypeOK, RequestFits
<1>3. \A o \in Requests \ {r} : req'[o] = req[o]
  BY <1>1, Gone DEF TypeOK
<1>4. ASSUME NEW i \in Rows
      PROVE  /\ i \in Rows'
             /\ matches'[i].seasonId = matches[i].seasonId /\ matches'[i].status = matches[i].status
             /\ matches'[i].events = matches[i].events /\ matches'[i].goals = matches[i].goals
             /\ matches'[i].stage = matches[i].stage /\ matches'[i].deleted = matches[i].deleted
  <2>1. IsRow(matches[i]) /\ i \in Rows'
    BY Generated DEF TypeOK, RowsFit
  <2>2. CASE matches'[i] = matches[i]
    BY <2>1, <2>2
  <2>3. ASSUME NEW home, NEW away, home # None, away # None,
               matches'[i] = Merge(matches[i], [homeTeamId |-> home, awayTeamId |-> away])
        PROVE  \A f \in Columns \ {"homeTeamId", "awayTeamId"} : matches'[i][f] = matches[i][f]
    BY <2>1, <2>3, Redrawn
  <2>4. CASE \A f \in Columns \ {"homeTeamId", "awayTeamId"} : matches'[i][f] = matches[i][f]
    BY <2>1, <2>4 DEF Columns
  <2> QED BY <2>1, <2>2, <2>3, <2>4, Generated
<1>5. ASSUME NEW i \in Rows' \ Rows
      PROVE  matches'[i].status = "scheduled" /\ matches'[i].seasonId = q.season
  BY Generated, NewRowFits
<1>6. ASSUME NEW s \in Seasons, s \notin stale' PROVE Undisturbed(s)
  <2> DEFINE ids == {i \in Live : matches[i].seasonId = s /\ matches[i].status = "finished"}
             counted == [i \in ids |-> matches[i]]
  <2>1. ids' = ids
    BY <1>4, <1>5 DEF Live
  <2>2. ASSUME NEW i \in ids
        PROVE  /\ matches'[i].stage = matches[i].stage
               /\ matches[i].stage = "GROUP" => matches'[i] = matches[i]
    BY <1>1, <1>4, <1>6 DEF Live
  <2>3. counted' = [i \in ids |-> matches'[i]]
    BY <2>1
  <2>4. GroupTables({counted'[i] : i \in ids}, groupOf[s]) = GroupTables({counted[i] : i \in ids}, groupOf[s])
    <3> HIDE DEF ids
    <3>1. {m \in {counted'[i] : i \in ids} : m.stage = "GROUP"}
            = {m \in {counted[i] : i \in ids} : m.stage = "GROUP"}
      BY <2>1, <2>2, <2>3
    <3> QED BY <3>1, TablesOfGroups
  <2>5. PlayerStatistics(counted', Players) = PlayerStatistics(counted, Players)
    <3>1. \A i \in ids : counted'[i].events = counted[i].events /\ counted'[i].goals = counted[i].goals
      BY <1>4, <2>3 DEF Live
    <3>2. DOMAIN counted' = DOMAIN counted /\ DOMAIN counted = ids
      BY <2>3
    <3> HIDE DEF counted, ids
    <3> QED BY <3>1, <3>2, StatisticsOfEvents
  <2>6. Computed(s) = [standings |-> GroupTables({counted[i] : i \in ids}, groupOf[s]),
                       stats |-> PlayerStatistics(counted, Players)]
    BY <1>2 DEF Computed
  <2>7. Computed(s)' = [standings |-> GroupTables({counted'[i] : i \in ids'}, groupOf[s]),
                        stats |-> PlayerStatistics(counted', Players)]
    BY <1>1, <1>2 DEF Computed
  <2> HIDE DEF counted, ids
  <2>8. Computed(s)' = Computed(s)
    BY <2>1, <2>4, <2>5, <2>6, <2>7
  <2>9. Stays(s)
    BY <1>4 DEF Stays
  <2>10. s \notin DOMAIN cache /\ (\A i \in Live : matches[i].seasonId # s)
           => (\A i \in Live' : matches'[i].seasonId # s)
    BY <1>2, <1>4, <1>5 DEF Live
  <2> QED BY <1>1, <2>8, <2>9, <2>10 DEF Undisturbed
<1>7. \A s \in Seasons : Exists(s)' => Exists(s)
  BY <1>1 DEF Exists
<1>8. OwedSeasons(q) = {}
  BY <1>1 DEF OwedSeasons
<1>9. \A s \in Seasons : Settled(s)' \/ Undisturbed(s)
  BY <1>6 DEF Settled
<1> QED BY <1>3, <1>7, <1>8, <1>9, TablesKept

(* Nor does a step in which no request takes part unsettle any tables.     *)
LEMMA TablesLeft ==
  ASSUME TablesAreCurrent, req' = req, NEW s \in Seasons, Exists(s), Undisturbed(s)
  PROVE  Settled(s)'
<1>1. Settled(s)
  BY DEF TablesAreCurrent, Settled, Fresh
<1>2. ASSUME NEW o \in Requests, s \in OwedSeasons(req[o]) PROVE s \in OwedSeasons(req[o])'
  <2>1. req'[o] = req[o] /\ Stays(s)
    BY DEF Undisturbed
  <2> QED BY <1>2, <2>1, StillOwed
<1>3. OwedTables(s) => OwedTables(s)'
  BY <1>2 DEF OwedTables
<1>4. Fresh(s) => Fresh(s)'
  BY DEF Fresh, Undisturbed
<1> QED BY <1>1, <1>3, <1>4 DEF Settled, Undisturbed

LEMMA TablesThroughSeasons == TypeOK /\ TablesAreCurrent /\ (SeasonChange \/ DeleteSeason) => TablesAreCurrent'
<1> SUFFICES ASSUME TypeOK, TablesAreCurrent, SeasonChange \/ DeleteSeason, NEW s \in Seasons, Exists(s)'
    PROVE  Settled(s)'
  BY DEF TablesAreCurrent, Settled, Fresh
<1>2. CASE SeasonChange
  <2>1. UNCHANGED <<type, matches, groupOf, cache, req>> /\ stale \subseteq stale'
    BY <1>2 DEF SeasonChange
  <2>2. Rows' = Rows /\ Live' = Live
    BY <2>1 DEF Rows, Live
  <2>3. CASE seasons[s] = "none"
    <3>1. s \notin DOMAIN cache /\ \A i \in Live : matches[i].seasonId # s
      BY <2>3 DEF TypeOK, CacheFits, RowsFit, Live
    <3> QED BY <2>1, <2>2, <3>1 DEF Settled, Fresh
  <2>4. CASE seasons[s] # "none"
    <3>1. Exists(s)
      <4>1. ASSUME NEW archives \in BOOLEAN, NewSeason(archives) PROVE Exists(s)
        BY <2>4, <4>1 DEF NewSeason, Exists
      <4>2. CASE UpdateSeasonStatus
        BY <4>2 DEF UpdateSeasonStatus, Exists, TypeOK
      <4> QED BY <1>2, <4>1, <4>2 DEF SeasonChange, CreateSeason, ArchiveAndCreateNewSeason
    <3>2. /\ Stays(s) /\ Computed(s)' = Computed(s)
          /\ (\A i \in Live : matches[i].seasonId # s) => (\A i \in Live' : matches'[i].seasonId # s)
      BY <2>1, <2>2, SameTables
    <3>3. Undisturbed(s)
      BY <2>1, <3>2 DEF Undisturbed
    <3> QED BY <2>1, <3>1, <3>3, TablesLeft
  <2> QED BY <2>3, <2>4
<1>3. CASE DeleteSeason
  <2>1. PICK x \in Seasons :
          /\ Exists(x) /\ seasons' = [seasons EXCEPT ![x] = "deleted"]
          /\ matches' = [i \in {j \in Rows : matches[j].seasonId # x} |-> matches[i]]
          /\ groupOf' = [groupOf EXCEPT ![x] = NoGroups]
          /\ cache' = [y \in DOMAIN cache \ {x} |-> cache[y]]
    BY <1>3 DEF DeleteSeason
  <2>2. type' = type /\ req' = req /\ stale \subseteq stale'
    BY <1>3 DEF DeleteSeason
  <2>3. s # x /\ Exists(s)
    BY <2>1 DEF Exists, TypeOK
  <2>4. Rows' = {j \in Rows : matches[j].seasonId # x} /\ \A i \in Rows' : matches'[i] = matches[i]
    BY <2>1 DEF Rows
  <2>5. groupOf'[s] = groupOf[s]
    BY <2>1, <2>3
  <2>6. /\ Stays(s) /\ Computed(s)' = Computed(s)
        /\ (\A i \in Live : matches[i].seasonId # s) => (\A i \in Live' : matches'[i].seasonId # s)
    BY <2>2, <2>3, <2>4, <2>5, SameTables
  <2>7. Undisturbed(s)
    BY <2>1, <2>2, <2>3, <2>6 DEF Undisturbed
  <2> QED BY <2>2, <2>3, <2>7, TablesLeft
<1> QED BY <1>2, <1>3

LEMMA InitTables == Init => TablesAreCurrent
<1> SUFFICES ASSUME Init, NEW s \in Seasons, Exists(s) PROVE Fresh(s)
  BY DEF TablesAreCurrent, Fresh
<1>1. s = First
  BY DEF Init, Exists
<1>2. cache = [x \in {First} |-> Computed(x)]
  BY DEF Init
<1> QED BY <1>1, <1>2 DEF Fresh

LEMMA TablesStep == TypeOK /\ TablesAreCurrent /\ [MatchNext]_vars => TablesAreCurrent'
<1> SUFFICES ASSUME TypeOK, TablesAreCurrent, [MatchNext]_vars PROVE TablesAreCurrent'
  OBVIOUS
<1>1. CASE UNCHANGED vars
  <2>1. UNCHANGED <<type, seasons, matches, groupOf, cache, req, stale>> /\ Rows' = Rows
    BY <1>1 DEF vars, data, history, Rows
  <2>2. ASSUME NEW s \in Seasons, Exists(s)' PROVE Settled(s)'
    <3>1. Exists(s)
      BY <2>1, <2>2 DEF Exists
    <3>2. /\ Stays(s) /\ Computed(s)' = Computed(s)
          /\ (\A i \in Live : matches[i].seasonId # s) => (\A i \in Live' : matches'[i].seasonId # s)
      BY <2>1, SameTables
    <3>3. Undisturbed(s)
      BY <2>1, <3>2 DEF Undisturbed
    <3> QED BY <2>1, <3>1, <3>3, TablesLeft
  <2> QED BY <2>2 DEF TablesAreCurrent, Settled, Fresh
<1>2. ASSUME NEW r \in Requests,
             \/ UpdateRead(r) \/ UpdateCommit(r) \/ UpdateFails(r) \/ Create(r) \/ AfterCreate(r)
             \/ RemoveRead(r) \/ RemoveCommit(r) \/ RemoveFails(r)
             \/ FindSuspended(r) \/ SyncRead(r) \/ SyncWrite(r) \/ TableRead(r) \/ TableWrite(r)
             \/ Answer(r) \/ Crash(r) \/ Boot(r)
             \/ UpdateSeasonGroups(r) \/ GenerateRead(r) \/ GenerateWrite(r) \/ GenerateFails(r)
      PROVE  TablesAreCurrent'
  BY <1>2, TablesThroughUpdate, TablesThroughCreate, TablesThroughRemoval, TablesThroughDraw,
     TablesThroughWrite, TablesThroughGroups, TablesThroughRequests
<1> QED BY <1>1, <1>2, TablesThroughSeasons DEF MatchNext

(* The cached tables of a season there is are those of its finished        *)
(* matches, or a request is to compute them, or they are known to be stale. *)
THEOREM TablesCurrent == MatchSpec => []TablesAreCurrent
<1>1. Init => TypeOK /\ TablesAreCurrent
  BY InitTypeOK, InitTables
<1>2. TypeOK /\ TablesAreCurrent /\ [MatchNext]_vars => (TypeOK /\ TablesAreCurrent)'
  BY TypeStep, TablesStep
<1> QED BY <1>1, <1>2, PTL DEF MatchSpec

-----------------------------------------------------------------------------
(* Winners.  A row is as good as another in which they depend on the same. *)
LEMMA SameWinner ==
  ASSUME NEW m, NEW n, WinnerFits(m), IsRow(m),
         \A f \in Columns \ {"deleted"} : n[f] = m[f]
  PROVE  WinnerFits(n)
<1>1. \A f \in {"homeTeamId", "awayTeamId", "homeScore", "awayScore", "homePenaltyScore",
                "awayPenaltyScore", "winnerTeamId", "events"} : n[f] = m[f]
  BY DEF Columns
<1>2. CanonicalWinner(n) = CanonicalWinner(m)
  BY <1>1 DEF CanonicalWinner, TeamOn
<1> QED BY <1>1, <1>2 DEF WinnerFits

(* A match nobody has won yet may be given other teams. *)
LEMMA NoWinner ==
  ASSUME NEW m, IsRow(m), WinnerFits(m), m.winnerTeamId = None,
         NEW n, IsRow(n), \A f \in Columns \ {"homeTeamId", "awayTeamId"} : n[f] = m[f]
  PROVE  WinnerFits(n)
<1>1. /\ \A f \in {"homeScore", "awayScore", "homePenaltyScore", "awayPenaltyScore",
                   "winnerTeamId", "events"} : n[f] = m[f]
      /\ m.homeTeamId # None /\ m.awayTeamId # None
      /\ n.homeTeamId # None /\ n.awayTeamId # None
  BY DEF IsRow, Fits, Columns
<1>2. \A x, y : Ahead(x, y) \in {"home", "away", None}
  BY DEF Ahead
<1>3. None \notin {"home", "away"}
  BY KindsAssumption DEF Sides
<1>4. \A side \in {"home", "away", None} : TeamOn(m, side) = None <=> TeamOn(n, side) = None
  BY <1>1, <1>3 DEF TeamOn
<1>5. CanonicalWinner(m) = None => CanonicalWinner(n) = None
  BY <1>1, <1>2, <1>3, <1>4 DEF CanonicalWinner, TeamOn
<1> QED BY <1>1, <1>5 DEF WinnerFits

(* The row an edit writes tells its winner, whatever it was read from. *)
LEMMA UpdatedWinner ==
  ASSUME NEW now, NEW old, NEW body, IsRow(now), IsRow(old), IsBody(body)
  PROVE  WinnerFits(Updated(now, old, body))
<1> DEFINE new == Updated(now, old, body)
           read == Merge(old, body)
           o == NewOutcome(old, body)
<1>1. /\ IsRow(new) /\ new.homeTeamId = read.homeTeamId /\ new.awayTeamId = read.awayTeamId
      /\ new.homeScore = o.homeScore /\ new.awayScore = o.awayScore
      /\ new.homePenaltyScore = o.homePenaltyScore /\ new.awayPenaltyScore = o.awayPenaltyScore
      /\ new.winnerTeamId = WinnerOf(read, o)
  BY UpdatedFits
<1>2. IsOutcome(o)
  BY OutcomeFits
<1> HIDE DEF new, read, o
<1>3. new.winnerTeamId = TeamOn(new, o.side)
  BY <1>1 DEF WinnerOf, TeamOn
<1>4. WinnerFits(new)
  BY <1>1, <1>2, <1>3, WinnerTold
<1> QED BY <1>4 DEF new

LEMMA WinnersStep == TypeOK /\ WinnerIsCanonical /\ [MatchNext]_vars => WinnerIsCanonical'
<1> SUFFICES ASSUME TypeOK, WinnerIsCanonical, [MatchNext]_vars, NEW i \in Rows', i \notin stale'
    PROVE  WinnerFits(matches'[i])
  BY DEF WinnerIsCanonical, WinnerFits
<1>1. \A j \in Rows : j \in MatchIds /\ IsRow(matches[j]) /\ (j \in stale \/ WinnerFits(matches[j]))
  BY DEF TypeOK, RowsFit, WinnerIsCanonical, WinnerFits
<1>2. ASSUME i \in Rows, i \in stale => i \in stale',
             \A f \in Columns \ {"deleted"} : matches'[i][f] = matches[i][f]
      PROVE  WinnerFits(matches'[i])
  BY <1>1, <1>2, SameWinner
<1>3. ASSUME UNCHANGED matches, MatchIds \cap stale \subseteq stale' PROVE WinnerFits(matches'[i])
  BY <1>1, <1>2, <1>3 DEF Rows
<1>4. ASSUME NEW r \in Requests, UpdateCommit(r) PROVE WinnerFits(matches'[i])
  <2> DEFINE q == req[r]
             now == matches[q.id]
  <2>1. /\ q.id \in Rows /\ Rows' = Rows /\ matches'[q.id] = Updated(now, q.old, q.body)
        /\ \A j \in Rows \ {q.id} : matches'[j] = matches[j]
        /\ stale \ {q.id} \subseteq stale' /\ q.at = "updating"
    BY <1>4 DEF UpdateCommit, Rows
  <2>2. IsRow(now) /\ IsRow(q.old) /\ IsBody(q.body)
    BY <1>1, <2>1 DEF TypeOK, RequestFits
  <2>3. CASE i = q.id
    BY <2>1, <2>2, <2>3, UpdatedWinner
  <2>4. CASE i # q.id
    BY <1>2, <2>1, <2>4
  <2> QED BY <2>3, <2>4
<1>5. ASSUME NEW r \in Requests, Create(r) PROVE WinnerFits(matches'[i])
  <2>1. PICK x \in DOMAIN Free[type] \ Rows, draft \in Drafts[type] :
          matches' = [j \in Rows \cup {x} |->
                        IF j = x THEN Updated(Row(x, Free[type][x], draft), Row(x, Free[type][x], draft), draft.body)
                        ELSE matches[j]]
    BY <1>5 DEF Create
  <2> DEFINE row == Row(x, Free[type][x], draft)
  <2>2. IsRow(row) /\ IsBody(draft.body)
    BY NewRowFits, MatchAssumption DEF TypeOK
  <2>3. WinnerFits(Updated(row, row, draft.body))
    <3> HIDE DEF row
    <3> QED BY <2>2, UpdatedWinner
  <2>4. /\ i \in Rows \cup {x}
        /\ matches'[i] = IF i = x THEN Updated(row, row, draft.body) ELSE matches[i]
    BY <2>1 DEF Rows
  <2>5. stale' = stale
    BY <1>5 DEF Create, history
  <2> HIDE DEF row
  <2> QED BY <1>2, <2>3, <2>4, <2>5
<1>6. ASSUME NEW r \in Requests, RemoveCommit(r) PROVE WinnerFits(matches'[i])
  <2>1. /\ Rows' = Rows /\ req[r].id \in Rows
        /\ \A f \in Columns \ {"deleted"} : matches'[req[r].id][f] = matches[req[r].id][f]
        /\ \A j \in Rows \ {req[r].id} : matches'[j] = matches[j]
    BY <1>1, <1>6, Removed DEF IsRow
  <2>2. stale \subseteq stale'
    BY <1>6 DEF RemoveCommit
  <2> QED BY <1>2, <2>1, <2>2
<1>7. ASSUME NEW r \in Requests, GenerateWrite(r) PROVE WinnerFits(matches'[i])
  <2>1. /\ stale \subseteq stale'
        /\ i \in Rows /\ matches'[i] # matches[i] => matches[i].winnerTeamId = None
    BY <1>7 DEF GenerateWrite
  <2>2. CASE i \notin Rows
    <3>1. PICK day, draft : IsDraft(draft) /\ matches'[i] = Row(i, day, draft)
      BY <1>7, <2>2, Generated
    <3> QED BY <3>1, NewRowFits DEF WinnerFits
  <2>3. CASE i \in Rows /\ matches'[i] = matches[i]
    BY <1>2, <2>1, <2>3
  <2>4. CASE i \in Rows /\ matches'[i] # matches[i]
    <3>1. PICK home, away : /\ home # None /\ away # None
                            /\ matches'[i] = Merge(matches[i], [homeTeamId |-> home, awayTeamId |-> away])
      BY <1>7, <2>4, Generated
    <3>2. /\ IsRow(matches'[i])
          /\ \A f \in Columns \ {"homeTeamId", "awayTeamId"} : matches'[i][f] = matches[i][f]
      BY <1>1, <2>4, <3>1, Redrawn
    <3> QED BY <1>1, <2>1, <2>4, <3>2, NoWinner
  <2> QED BY <2>2, <2>3, <2>4
<1>8. ASSUME NEW r \in Requests, SyncWrite(r) \/ TableWrite(r) PROVE WinnerFits(matches'[i])
  <2>1. UNCHANGED matches
    BY <1>8 DEF SyncWrite, TableWrite
  <2>2. \E x \in Players \cup Seasons : stale \ {x} \subseteq stale'
    <3>1. CASE SyncWrite(r)
      <4>1. req[r].player \in Players /\ stale \ {req[r].player} \subseteq stale'
        BY <3>1 DEF SyncWrite, TypeOK, RequestFits
      <4> QED BY <4>1
    <3>2. CASE TableWrite(r)
      <4>1. req[r].season \in Seasons /\ stale \ {req[r].season} \subseteq stale'
        BY <3>2 DEF TableWrite, TypeOK, RequestFits
      <4> QED BY <4>1
    <3> QED BY <1>8, <3>1, <3>2
  <2> QED BY <1>3, <2>1, <2>2, KindsAssumption
<1>9. ASSUME NEW r \in Requests,
             \/ UpdateRead(r) \/ UpdateFails(r) \/ AfterCreate(r) \/ RemoveRead(r) \/ RemoveFails(r)
             \/ FindSuspended(r) \/ SyncRead(r) \/ TableRead(r) \/ Answer(r) \/ Crash(r) \/ Boot(r)
             \/ UpdateSeasonGroups(r) \/ GenerateRead(r) \/ GenerateFails(r)
      PROVE  WinnerFits(matches'[i])
  <2>1. UNCHANGED matches /\ stale \subseteq stale'
    BY <1>9 DEF UpdateRead, UpdateFails, AfterCreate, RemoveRead, RemoveFails, FindSuspended, SyncRead,
                TableRead, Answer, Crash, Boot, UpdateSeasonGroups, GenerateRead, GenerateFails,
                data, history
  <2> QED BY <1>3, <2>1
<1>10. CASE SeasonChange \/ UNCHANGED vars
  <2>1. UNCHANGED matches /\ stale \subseteq stale'
    BY <1>10 DEF SeasonChange, vars, data, history
  <2> QED BY <1>3, <2>1
<1>11. CASE DeleteSeason
  <2>1. /\ Rows' \subseteq Rows /\ \A j \in Rows' : matches'[j] = matches[j]
        /\ stale \subseteq stale'
    BY <1>11 DEF DeleteSeason, Rows
  <2> QED BY <1>2, <2>1
<1> QED BY <1>4, <1>5, <1>6, <1>7, <1>8, <1>9, <1>10, <1>11 DEF MatchNext

(* The winner stored with a match is the one its row tells, but for what   *)
(* WinnerIsCanonical excuses.                                              *)
THEOREM WinnerCanonical == MatchSpec => []WinnerIsCanonical
<1>1. Init => TypeOK /\ WinnerIsCanonical
  <2> SUFFICES ASSUME Init, NEW i \in Rows PROVE WinnerFits(matches[i])
    BY InitTypeOK DEF WinnerIsCanonical, WinnerFits
  <2>1. /\ i \in DOMAIN Fixtures[type] /\ type \in Types
        /\ matches[i] = Row(i, Fixtures[type][i].day, Fixtures[type][i])
    BY DEF Init, Rows
  <2>2. IsDraft(Fixtures[type][i])
    BY <2>1, MatchAssumption
  <2> QED BY <2>1, <2>2, NewRowFits DEF WinnerFits
<1>2. TypeOK /\ WinnerIsCanonical /\ [MatchNext]_vars => (TypeOK /\ WinnerIsCanonical)'
  BY TypeStep, WinnersStep
<1> QED BY <1>1, <1>2, PTL DEF MatchSpec

-----------------------------------------------------------------------------
(* The knock-out round.  A table has one row of each team. *)
RanksOnce(tables) == \A g \in DOMAIN tables : \A x, y \in tables[g] : x.teamId = y.teamId => x = y

LEMMA TablesRankOnce ==
  ASSUME NEW rows, NEW of
  PROVE  RanksOnce(GroupTables(rows, of))
<1>1. ASSUME NEW counted, NEW entered, NEW x \in Table(counted, entered),
             NEW y \in Table(counted, entered), x.teamId = y.teamId
      PROVE  x = y
  <2> DEFINE both == {m \in counted : {m.homeTeamId, m.awayTeamId} \subseteq entered}
  <2>1. \A t : Standing(both, t).teamId = t
    BY DEF Standing
  <2>2. Table(counted, entered) = {Standing(both, t) : t \in entered}
    BY DEF Table
  <2> HIDE DEF both
  <2> QED BY <1>1, <2>1, <2>2
<1>2. \A g \in DOMAIN GroupTables(rows, of) :
         \E counted, entered : GroupTables(rows, of)[g] = Table(counted, entered)
  BY DEF GroupTables
<1> QED BY <1>1, <1>2 DEF RanksOnce

(* Groups that meet. *)
Meet(n, g, h) == <<g, h>> \in Neighbours(n) \/ <<h, g>> \in Neighbours(n)

LEMMA NeighboursMeetOnce ==
  ASSUME NEW n, NEW g, NEW h, NEW g2, NEW h2, Meet(n, g, h), Meet(n, g2, h2)
  PROVE  /\ g # h /\ (g = g2 <=> h = h2) /\ (g = h2 <=> h = g2)
         /\ IndexOf(n, g) = IndexOf(n, g2) => g = g2
<1>1. \A order : \A x \in {order[i] : i \in DOMAIN order} :
        order[CHOOSE i \in DOMAIN order : order[i] = x] = x
  OBVIOUS
<1>2. CASE n = 8
  <2> DEFINE order == <<"A", "C", "E", "G", "B", "D", "F", "H">>
  <2>1. \A x : IndexOf(n, x) = CHOOSE i \in DOMAIN order : order[i] = x
    BY <1>2 DEF IndexOf
  <2>2. Neighbours(n) = {<<"A", "B">>, <<"C", "D">>, <<"E", "F">>, <<"G", "H">>}
    BY <1>2 DEF Neighbours
  <2>3. {g, g2} \subseteq {"A", "B", "C", "D", "E", "F", "G", "H"}
    BY <2>2 DEF Meet
  <2>4. {g, g2} \subseteq {order[i] : i \in DOMAIN order}
    BY <2>3
  <2>5. IndexOf(n, g) = IndexOf(n, g2) => g = g2
    <3> HIDE DEF order
    <3> QED BY <1>1, <2>1, <2>4
  <2> QED BY <2>2, <2>5 DEF Meet
<1>3. CASE n = 4
  <2> DEFINE order == <<"A", "C", "B", "D">>
  <2>1. \A x : IndexOf(n, x) = CHOOSE i \in DOMAIN order : order[i] = x
    BY <1>3 DEF IndexOf
  <2>2. Neighbours(n) = {<<"A", "B">>, <<"C", "D">>}
    BY <1>3 DEF Neighbours
  <2>3. {g, g2} \subseteq {"A", "B", "C", "D"}
    BY <2>2 DEF Meet
  <2>4. {g, g2} \subseteq {order[i] : i \in DOMAIN order}
    BY <2>3
  <2>5. IndexOf(n, g) = IndexOf(n, g2) => g = g2
    <3> HIDE DEF order
    <3> QED BY <1>1, <2>1, <2>4
  <2> QED BY <2>2, <2>5 DEF Meet
<1>4. CASE n = 2
  <2> DEFINE order == <<"A", "B">>
  <2>1. \A x : IndexOf(n, x) = CHOOSE i \in DOMAIN order : order[i] = x
    BY <1>4 DEF IndexOf
  <2>2. Neighbours(n) = {<<"A", "B">>}
    BY <1>4 DEF Neighbours
  <2>3. {g, g2} \subseteq {"A", "B"}
    BY <2>2 DEF Meet
  <2>4. {g, g2} \subseteq {order[i] : i \in DOMAIN order}
    BY <2>3
  <2>5. IndexOf(n, g) = IndexOf(n, g2) => g = g2
    <3> HIDE DEF order
    <3> QED BY <1>1, <2>1, <2>4
  <2> QED BY <2>2, <2>5 DEF Meet
<1>5. CASE n \notin {8, 4, 2}
  BY <1>5 DEF Neighbours, Meet
<1> QED BY <1>2, <1>3, <1>4, <1>5

(* Whoever is first in a group, or second, is in its table, and in one     *)
(* place of it.                                                            *)
LEMMA RankedApart ==
  ASSUME NEW tables, RanksOnce(tables), ~ RanksTwice(tables),
         NEW g, NEW h, NEW k \in {1, 2}, NEW l \in {1, 2},
         Ranked(tables, g, k) # None, Ranked(tables, g, k) = Ranked(tables, h, l)
  PROVE  g = h /\ k = l
<1>1. ASSUME NEW x, NEW rank, Ranked(tables, x, rank) # None
      PROVE  /\ x \in DOMAIN tables
             /\ \E row \in At(tables[x], rank) : row.teamId = Ranked(tables, x, rank)
  BY <1>1 DEF Ranked
<1>2. PICK row \in At(tables[g], k) : row.teamId = Ranked(tables, g, k)
  BY <1>1
<1>3. PICK other \in At(tables[h], l) : other.teamId = Ranked(tables, g, k)
  BY <1>1
<1>4. g \in DOMAIN tables /\ h \in DOMAIN tables
  BY <1>1
<1>5. row \in tables[g] /\ other \in tables[h]
  BY <1>2, <1>3 DEF At
<1>6. g = h
  BY <1>2, <1>3, <1>4, <1>5 DEF RanksTwice
<1>7. row = other
  BY <1>2, <1>3, <1>4, <1>5, <1>6 DEF RanksOnce
<1>8. k - 1 = l - 1
  BY <1>2, <1>3, <1>6, <1>7 DEF At
<1> QED BY <1>6, <1>8

(* Pairs have places of their own and no team in common. *)
Apart(x, y) ==
  x.index # y.index /\ {x.homeTeamId, x.awayTeamId} \cap {y.homeTeamId, y.awayTeamId} = {}

LEMMA PairingsApart ==
  ASSUME NEW tables, RanksOnce(tables), ~ RanksTwice(tables),
         NEW x \in Pairings(tables), NEW y \in Pairings(tables), x # y
  PROVE  Apart(x, y)
<1> DEFINE n == Cardinality(DOMAIN tables)
           Pair(g, h) == [index |-> IndexOf(n, g), homeTeamId |-> Ranked(tables, g, 1),
                          awayTeamId |-> Ranked(tables, h, 2)]
<1>1. ASSUME NEW z \in Pairings(tables)
      PROVE  /\ \E g, h : Meet(n, g, h) /\ z = Pair(g, h)
             /\ z.homeTeamId # None /\ z.awayTeamId # None
  <2>1. PICK gh \in Neighbours(n) : z = Pair(gh[1], gh[2]) \/ z = Pair(gh[2], gh[1])
    BY DEF Pairings, OpponentRank, RunnerUp
  <2>2. gh = <<gh[1], gh[2]>>
    BY DEF Neighbours
  <2>3. Meet(n, gh[1], gh[2]) /\ Meet(n, gh[2], gh[1])
    BY <2>2 DEF Meet
  <2>4. z.homeTeamId # None /\ z.awayTeamId # None
    BY DEF Pairings
  <2> HIDE DEF n, Pair
  <2> QED BY <2>1, <2>3, <2>4
<1>2. PICK g, h : Meet(n, g, h) /\ x = Pair(g, h)
  BY <1>1
<1>3. PICK g2, h2 : Meet(n, g2, h2) /\ y = Pair(g2, h2)
  BY <1>1
<1>4. /\ x.index = IndexOf(n, g) /\ x.homeTeamId = Ranked(tables, g, 1) /\ x.awayTeamId = Ranked(tables, h, 2)
      /\ y.index = IndexOf(n, g2) /\ y.homeTeamId = Ranked(tables, g2, 1) /\ y.awayTeamId = Ranked(tables, h2, 2)
  BY <1>2, <1>3
<1>5. g # g2 \/ h # h2
  BY <1>2, <1>3
<1> HIDE DEF n, Pair
<1>6. /\ g # g2 /\ h # h2 /\ IndexOf(n, g) # IndexOf(n, g2)
  BY <1>2, <1>3, <1>5, NeighboursMeetOnce
<1>7. x.homeTeamId # None /\ x.awayTeamId # None
  BY <1>1
<1>8. x.homeTeamId # y.homeTeamId
  BY <1>4, <1>6, <1>7, RankedApart
<1>9. x.awayTeamId # y.awayTeamId
  BY <1>4, <1>6, <1>7, RankedApart
<1>10. x.homeTeamId # y.awayTeamId
  <2>1. 1 # 2
    OBVIOUS
  <2> QED BY <1>4, <1>7, <2>1, RankedApart
<1>11. x.awayTeamId # y.homeTeamId
  <2>1. 1 # 2
    OBVIOUS
  <2> QED BY <1>4, <1>7, <2>1, RankedApart
<1> QED BY <1>4, <1>6, <1>8, <1>9, <1>10, <1>11 DEF Apart

(* What a draw leaves as it is. *)
LEMMA DrawLeaves ==
  ASSUME NEW r \in Requests, GenerateWrite(r)
  PROVE  /\ req[r].at = "generating" /\ Goes(r, Idle) /\ ~ Vanished(req[r])
         /\ UNCHANGED <<type, seasons, players, groupOf, cache, changes, irregular>>
<1> DEFINE q == req[r]
<1>1. /\ q.at = "generating" /\ Goes(r, Idle) /\ ~ Vanished(q)
      /\ UNCHANGED <<type, seasons, players, groupOf, cache, changes, irregular>>
  BY Zenon DEF GenerateWrite
<1> QED BY <1>1

(* Which step it takes to read tables, and to draw. *)
LEMMA NextAt ==
  ASSUME TypeOK, NEW r \in Requests,
         \/ UpdateRead(r) \/ UpdateCommit(r) \/ UpdateFails(r) \/ Create(r) \/ AfterCreate(r)
         \/ RemoveRead(r) \/ RemoveCommit(r) \/ RemoveFails(r)
         \/ FindSuspended(r) \/ SyncRead(r) \/ SyncWrite(r) \/ TableWrite(r)
         \/ Answer(r) \/ Crash(r) \/ Boot(r)
         \/ UpdateSeasonGroups(r) \/ GenerateWrite(r) \/ GenerateFails(r)
  PROVE  /\ \A o \in Requests \ {r} : req'[o] = req[o]
         /\ req'[r].at \notin {"table", "generating"}
<1>1. \A todo, teams, ss, id : Todo(todo, teams, ss, id).at = "sync"
  BY DEF Todo
<1>2. ASSUME NEW next, Goes(r, next), next.at \notin {"table", "generating"}
      PROVE  /\ \A o \in Requests \ {r} : req'[o] = req[o]
             /\ req'[r].at \notin {"table", "generating"}
  BY <1>2, Gone DEF TypeOK
<1>3. CASE UpdateRead(r)
  BY <1>2, <1>3 DEF UpdateRead
<1>4. CASE UpdateCommit(r)
  BY <1>1, <1>2, <1>4 DEF UpdateCommit
<1>5. CASE UpdateFails(r) \/ RemoveFails(r) \/ Answer(r) \/ Crash(r) \/ GenerateWrite(r) \/ GenerateFails(r)
  <2>1. Goes(r, Idle) /\ Idle.at = "idle"
    <3>1. CASE GenerateWrite(r)
      BY <3>1, DrawLeaves DEF Idle
    <3>2. CASE UpdateFails(r) \/ RemoveFails(r) \/ Answer(r) \/ Crash(r) \/ GenerateFails(r)
      BY <3>2 DEF UpdateFails, RemoveFails, Answer, Crash, GenerateFails, Idle
    <3> QED BY <1>5, <3>1, <3>2
  <2> QED BY <1>2, <2>1
<1>6. CASE Create(r)
  BY <1>2, <1>6 DEF Create
<1>7. CASE AfterCreate(r)
  <2>1. Idle.at = "idle"
    BY DEF Idle
  <2> QED BY <1>1, <1>2, <1>7, <2>1 DEF AfterCreate
<1>8. CASE RemoveRead(r)
  BY <1>2, <1>8 DEF RemoveRead
<1>9. CASE RemoveCommit(r) \/ FindSuspended(r) \/ Boot(r) \/ UpdateSeasonGroups(r)
  BY <1>1, <1>2, <1>9 DEF RemoveCommit, FindSuspended, Boot, UpdateSeasonGroups
<1>10. CASE SyncRead(r)
  BY <1>2, <1>10 DEF SyncRead
<1>11. CASE SyncWrite(r) \/ TableWrite(r)
  <2>1. Goes(r, req[r].rest) /\ req[r].rest.at = "sync"
    BY <1>11 DEF SyncWrite, TableWrite, TypeOK, RequestFits, IsSync
  <2> QED BY <1>2, <2>1
<1> QED BY <1>3, <1>4, <1>5, <1>6, <1>7, <1>8, <1>9, <1>10, <1>11

LEMMA NextAtRead ==
  ASSUME TypeOK, NEW r \in Requests, TableRead(r) \/ GenerateRead(r)
  PROVE  /\ \A o \in Requests \ {r} : req'[o] = req[o]
         /\ TableRead(r) => req'[r].at \in {"sync", "table"}
         /\ GenerateRead(r) => req'[r].at = "generating"
<1>1. ASSUME TableRead(r) PROVE \E next : Goes(r, next) /\ next.at \in {"sync", "table"}
  <2>1. \A todo, teams, ss, id : Todo(todo, teams, ss, id).at = "sync"
    BY DEF Todo
  <2> QED BY <1>1, <2>1 DEF TableRead
<1>2. ASSUME GenerateRead(r) PROVE \E next : Goes(r, next) /\ next.at = "generating"
  BY <1>2 DEF GenerateRead
<1> QED BY <1>1, <1>2, Gone DEF TypeOK

(* Cached tables of a cup, and those on their way, have one row of each    *)
(* team.                                                                   *)
CachesRank ==
  type = "CUP" =>
    /\ \A s \in DOMAIN cache : RanksOnce(cache[s].standings)
    /\ \A r \in Requests : req[r].at = "table" => RanksOnce(req[r].value.standings)

LEMMA ComputedRanks ==
  ASSUME type = "CUP", NEW s
  PROVE  RanksOnce(Computed(s).standings)
BY TablesRankOnce DEF Computed

LEMMA InitCaches == Init => CachesRank
<1> SUFFICES ASSUME Init, type = "CUP"
    PROVE  /\ \A s \in DOMAIN cache : RanksOnce(cache[s].standings)
           /\ \A r \in Requests : req[r].at # "table"
  BY DEF CachesRank
<1>1. cache = [s \in {First} |-> Computed(s)] /\ req = [r \in Requests |-> Idle]
  BY DEF Init
<1>2. \A r \in Requests : req[r].at = "idle"
  BY <1>1 DEF Idle
<1>3. DOMAIN cache = {First} /\ cache[First] = Computed(First)
  BY <1>1
<1> QED BY <1>2, <1>3, ComputedRanks

LEMMA CachesStep == TypeOK /\ CachesRank /\ [MatchNext]_vars => CachesRank'
<1> SUFFICES ASSUME TypeOK, CachesRank, [MatchNext]_vars, type = "CUP", type' = type
    PROVE  /\ \A s \in DOMAIN cache' : RanksOnce(cache'[s].standings)
           /\ \A r \in Requests : req'[r].at = "table" => RanksOnce(req'[r].value.standings)
  <2>1. CASE UNCHANGED vars \/ SeasonChange \/ DeleteSeason
    BY <2>1 DEF SeasonChange, DeleteSeason, vars, data, CachesRank
  <2>2. ASSUME NEW r \in Requests,
               \/ UpdateRead(r) \/ UpdateFails(r) \/ AfterCreate(r) \/ RemoveRead(r) \/ RemoveFails(r)
               \/ FindSuspended(r) \/ SyncRead(r) \/ TableRead(r)
               \/ Answer(r) \/ Crash(r) \/ Boot(r) \/ GenerateFails(r)
        PROVE  type' = type
    BY <2>2 DEF UpdateRead, UpdateFails, AfterCreate, RemoveRead, RemoveFails, FindSuspended,
                SyncRead, TableRead, Answer, Crash, Boot, GenerateFails, data
  <2>3. ASSUME NEW r \in Requests,
               \/ UpdateCommit(r) \/ Create(r) \/ RemoveCommit(r) \/ SyncWrite(r) \/ TableWrite(r)
               \/ UpdateSeasonGroups(r)
        PROVE  type' = type
    BY <2>3 DEF UpdateCommit, Create, RemoveCommit, SyncWrite, TableWrite, UpdateSeasonGroups
  <2>4. ASSUME NEW r \in Requests, GenerateRead(r) PROVE type' = type
    BY <2>4 DEF GenerateRead, data
  <2>5. ASSUME NEW r \in Requests, GenerateWrite(r) PROVE type' = type
    BY <2>5, DrawLeaves
  <2> QED BY <2>1, <2>2, <2>3, <2>4, <2>5 DEF MatchNext, CachesRank
<1>1. ASSUME DOMAIN cache' \subseteq DOMAIN cache, \A s \in DOMAIN cache' : cache'[s] = cache[s],
             \A r \in Requests : req'[r].at = "table" => req'[r] = req[r]
      PROVE  /\ \A s \in DOMAIN cache' : RanksOnce(cache'[s].standings)
             /\ \A r \in Requests : req'[r].at = "table" => RanksOnce(req'[r].value.standings)
  BY <1>1 DEF CachesRank
<1>2. CASE UNCHANGED vars
  BY <1>1, <1>2 DEF vars, data
<1>3. ASSUME NEW r \in Requests,
             \/ UpdateRead(r) \/ UpdateCommit(r) \/ UpdateFails(r) \/ Create(r) \/ AfterCreate(r)
             \/ RemoveRead(r) \/ RemoveCommit(r) \/ RemoveFails(r)
             \/ FindSuspended(r) \/ SyncRead(r) \/ SyncWrite(r)
             \/ Answer(r) \/ Crash(r) \/ Boot(r)
             \/ UpdateSeasonGroups(r) \/ GenerateRead(r) \/ GenerateWrite(r) \/ GenerateFails(r)
      PROVE  /\ cache' = cache /\ \A o \in Requests : req'[o].at = "table" => req'[o] = req[o]
  <2>1. cache' = cache
    <3>1. CASE \/ UpdateRead(r) \/ UpdateFails(r) \/ AfterCreate(r) \/ RemoveRead(r) \/ RemoveFails(r)
               \/ FindSuspended(r) \/ SyncRead(r) \/ Answer(r) \/ Crash(r) \/ Boot(r) \/ GenerateFails(r)
      BY <3>1 DEF UpdateRead, UpdateFails, AfterCreate, RemoveRead, RemoveFails, FindSuspended,
                  SyncRead, Answer, Crash, Boot, GenerateFails, data
    <3>2. CASE UpdateCommit(r) \/ Create(r) \/ RemoveCommit(r) \/ SyncWrite(r) \/ UpdateSeasonGroups(r)
      BY <3>2 DEF UpdateCommit, Create, RemoveCommit, SyncWrite, UpdateSeasonGroups
    <3>3. CASE GenerateRead(r)
      BY <3>3 DEF GenerateRead, data
    <3>4. CASE GenerateWrite(r)
      BY <3>4, DrawLeaves
    <3> QED BY <1>3, <3>1, <3>2, <3>3, <3>4
  <2>2. \A o \in Requests : req'[o].at = "table" => req'[o] = req[o]
    BY <1>3, NextAt, NextAtRead
  <2> QED BY <2>1, <2>2
<1>4. ASSUME NEW r \in Requests, TableRead(r)
      PROVE  /\ \A s \in DOMAIN cache' : RanksOnce(cache'[s].standings)
             /\ \A o \in Requests : req'[o].at = "table" => RanksOnce(req'[o].value.standings)
  <2>1. cache' = cache
    BY <1>4 DEF TableRead, data
  <2>2. PICK next : /\ Goes(r, next)
                    /\ next.at = "table" => \E s : next.value = Computed(s)
    <3>1. \A todo, teams, ss, id : Todo(todo, teams, ss, id).at = "sync"
      BY DEF Todo
    <3>2. PICK s : LET rest == Todo({}, {}, Due(req[r]) \ {s}, None)
                   IN  Goes(r, IF ~ Exists(s) THEN rest
                               ELSE [at |-> "table", season |-> s, value |-> Computed(s), rest |-> rest])
      BY <1>4 DEF TableRead
    <3> QED BY <3>1, <3>2
  <2>3. req'[r] = next /\ \A o \in Requests \ {r} : req'[o] = req[o]
    BY <2>2, Gone DEF TypeOK
  <2> QED BY <2>1, <2>2, <2>3, ComputedRanks DEF CachesRank
<1>5. ASSUME NEW r \in Requests, TableWrite(r)
      PROVE  /\ \A s \in DOMAIN cache' : RanksOnce(cache'[s].standings)
             /\ \A o \in Requests : req'[o].at = "table" => RanksOnce(req'[o].value.standings)
  <2>1. /\ req[r].at = "table"
        /\ \/ cache' = cache
           \/ cache' = [x \in DOMAIN cache \cup {req[r].season} |->
                          IF x = req[r].season THEN req[r].value ELSE cache[x]]
    BY <1>5 DEF TableWrite
  <2>2. req'[r].at # "table" /\ \A o \in Requests \ {r} : req'[o] = req[o]
    <3>1. Goes(r, req[r].rest) /\ req[r].rest.at = "sync"
      BY <1>5, <2>1 DEF TableWrite, TypeOK, RequestFits, IsSync
    <3> QED BY <3>1, Gone DEF TypeOK
  <2> QED BY <2>1, <2>2 DEF CachesRank
<1>6. CASE SeasonChange \/ DeleteSeason
  <2>1. /\ req' = req /\ DOMAIN cache' \subseteq DOMAIN cache
        /\ \A s \in DOMAIN cache' : cache'[s] = cache[s]
    BY <1>6 DEF SeasonChange, DeleteSeason
  <2> QED BY <1>1, <2>1
<1>7. ASSUME NEW r \in Requests,
             \/ UpdateRead(r) \/ UpdateCommit(r) \/ UpdateFails(r) \/ Create(r) \/ AfterCreate(r)
             \/ RemoveRead(r) \/ RemoveCommit(r) \/ RemoveFails(r)
             \/ FindSuspended(r) \/ SyncRead(r) \/ SyncWrite(r) \/ TableRead(r) \/ TableWrite(r)
             \/ Answer(r) \/ Crash(r) \/ Boot(r)
             \/ UpdateSeasonGroups(r) \/ GenerateRead(r) \/ GenerateWrite(r) \/ GenerateFails(r)
      PROVE  /\ \A s \in DOMAIN cache' : RanksOnce(cache'[s].standings)
             /\ \A o \in Requests : req'[o].at = "table" => RanksOnce(req'[o].value.standings)
  BY <1>1, <1>3, <1>4, <1>5, <1>7
<1> QED BY <1>2, <1>6, <1>7 DEF MatchNext

(* A pending draw: its pairs are apart, the matches it found are in the    *)
(* places of their pairs, and are all there are of the round.              *)
Seat == {"seasonId", "stage", "knockoutRound", "knockoutMatchIndex", "homeTeamId", "awayTeamId"}

Draws(q) == q.at = "generating"

DrawFits(q) ==
  /\ \A x, y \in DOMAIN q.found : x # y => Apart(x, y)
  /\ Exists(q.season) =>
       /\ \A x \in DOMAIN q.found :
            q.found[x] # None =>
              /\ q.found[x] \in Rows /\ InRound(q.found[x], q.season, q.round)
              /\ matches[q.found[x]].knockoutMatchIndex = x.index
       /\ \A i \in Live : InRound(i, q.season, q.round) => \E x \in DOMAIN q.found : q.found[x] = i

(* As long as nobody interferes with a round there is one draw at a time. *)
DrawsFit ==
  \/ irregular
  \/ /\ EachQualifiesOnce
     /\ \A r \in Requests : Draws(req[r]) => DrawFits(req[r])
     /\ \A r, o \in Requests : Draws(req[r]) /\ Draws(req[o]) => r = o

(* Matches of knock-out rounds stay where they are, and with their season. *)
SeatKept(i) == \A f \in Seat : matches'[i][f] = matches[i][f]

SeatsKept ==
  /\ \A i \in Live' : matches'[i].stage = "KNOCKOUT" => i \in Live /\ SeatKept(i)
  /\ \A i \in Rows, s \in Seasons :
       matches[i].stage = "KNOCKOUT" /\ matches[i].seasonId = s /\ Exists(s)'
       => i \in Rows' /\ SeatKept(i)

LEMMA DrawsKept ==
  ASSUME TypeOK, DrawsFit, irregular => irregular',
         \A r \in Requests : Draws(req'[r]) => req'[r] = req[r],
         \A s \in Seasons : seasons[s] # "none" /\ Exists(s)' => Exists(s),
         ~ irregular' => SeatsKept
  PROVE  DrawsFit'
<1> SUFFICES ASSUME ~ irregular'
    PROVE  /\ EachQualifiesOnce'
           /\ \A r \in Requests : Draws(req'[r]) => DrawFits(req[r])'
           /\ \A r, o \in Requests : Draws(req'[r]) /\ Draws(req'[o]) => r = o
  BY DEF DrawsFit, Draws
<1>1. /\ ~ irregular /\ SeatsKept /\ EachQualifiesOnce
      /\ \A r \in Requests : Draws(req[r]) => DrawFits(req[r])
      /\ \A r, o \in Requests : Draws(req[r]) /\ Draws(req[o]) => r = o
  BY DEF DrawsFit
<1>2. EachQualifiesOnce'
  <2> SUFFICES ASSUME NEW i \in Live', NEW j \in Live', i # j, matches'[i].stage = "KNOCKOUT",
                      InRound(j, matches[i].seasonId, matches[i].knockoutRound)'
      PROVE  /\ matches'[i].knockoutMatchIndex # matches'[j].knockoutMatchIndex
             /\ {matches'[i].homeTeamId, matches'[i].awayTeamId}
                  \cap {matches'[j].homeTeamId, matches'[j].awayTeamId} = {}
    BY DEF EachQualifiesOnce
  <2>1. /\ matches'[j].seasonId = matches'[i].seasonId /\ matches'[j].stage = "KNOCKOUT"
        /\ matches'[j].knockoutRound = matches'[i].knockoutRound
    BY DEF InRound
  <2>2. i \in Live /\ j \in Live /\ SeatKept(i) /\ SeatKept(j)
    BY <1>1, <2>1 DEF SeatsKept
  <2>3. \A k \in {i, j} :
          /\ matches'[k].seasonId = matches[k].seasonId /\ matches'[k].stage = matches[k].stage
          /\ matches'[k].knockoutRound = matches[k].knockoutRound
          /\ matches'[k].knockoutMatchIndex = matches[k].knockoutMatchIndex
          /\ matches'[k].homeTeamId = matches[k].homeTeamId
          /\ matches'[k].awayTeamId = matches[k].awayTeamId
    BY <2>2 DEF SeatKept, Seat
  <2>4. matches[i].stage = "KNOCKOUT" /\ InRound(j, matches[i].seasonId, matches[i].knockoutRound)
    BY <2>1, <2>3 DEF InRound
  <2>5. /\ matches[i].knockoutMatchIndex # matches[j].knockoutMatchIndex
        /\ {matches[i].homeTeamId, matches[i].awayTeamId}
             \cap {matches[j].homeTeamId, matches[j].awayTeamId} = {}
    BY <1>1, <2>2, <2>4 DEF EachQualifiesOnce
  <2> QED BY <2>3, <2>5
<1>3. ASSUME NEW r \in Requests, Draws(req'[r]) PROVE DrawFits(req[r])'
  <2> DEFINE q == req[r]
  <2>1. req'[r] = q /\ Draws(q)
    BY <1>3
  <2>2. DrawFits(q) /\ q.season \in Seasons /\ seasons[q.season] # "none"
    BY <1>1, <2>1 DEF TypeOK, RequestFits, Draws
  <2> PICK s, round, found : s = q.season /\ round = q.round /\ found = q.found
    OBVIOUS
  <2>3. \A x, y \in DOMAIN found : x # y => Apart(x, y)
    BY <2>2 DEF DrawFits
  <2>4. ASSUME Exists(s)'
        PROVE  /\ \A x \in DOMAIN found :
                    found[x] # None =>
                      /\ found[x] \in Rows' /\ InRound(found[x], s, round)'
                      /\ matches'[found[x]].knockoutMatchIndex = x.index
               /\ \A i \in Live' : InRound(i, s, round)' => \E x \in DOMAIN found : found[x] = i
    <3>1. Exists(s)
      BY <2>2, <2>4
    <3>2. ASSUME NEW x \in DOMAIN found, found[x] # None
          PROVE  /\ found[x] \in Rows' /\ InRound(found[x], s, round)'
                 /\ matches'[found[x]].knockoutMatchIndex = x.index
      <4> PICK i : i = found[x]
        OBVIOUS
      <4>1. /\ i \in Rows /\ InRound(i, s, round) /\ matches[i].knockoutMatchIndex = x.index
        BY <2>2, <3>1, <3>2 DEF DrawFits
      <4>2. matches[i].stage = "KNOCKOUT" /\ matches[i].seasonId = s /\ matches[i].knockoutRound = round
        BY <4>1 DEF InRound
      <4>3. i \in Rows' /\ SeatKept(i)
        BY <1>1, <2>2, <2>4, <4>1, <4>2 DEF SeatsKept
      <4> QED BY <4>1, <4>2, <4>3 DEF SeatKept, Seat, InRound
    <3>3. ASSUME NEW i \in Live', InRound(i, s, round)' PROVE \E x \in DOMAIN found : found[x] = i
      <4>1. /\ matches'[i].stage = "KNOCKOUT" /\ matches'[i].seasonId = s
            /\ matches'[i].knockoutRound = round
        BY <3>3 DEF InRound
      <4>2. i \in Live /\ SeatKept(i)
        BY <1>1, <4>1 DEF SeatsKept
      <4>3. InRound(i, s, round)
        BY <4>1, <4>2 DEF SeatKept, Seat, InRound
      <4> QED BY <2>2, <3>1, <4>2, <4>3 DEF DrawFits
    <3> QED BY <3>2, <3>3
  <2>5. req'[r].season = s /\ req'[r].round = round /\ req'[r].found = found
    BY <2>1
  <2> QED BY <2>3, <2>4, <2>5 DEF DrawFits, InRound, Exists
<1>4. \A r, o \in Requests : Draws(req'[r]) /\ Draws(req'[o]) => r = o
  BY <1>1
<1> QED BY <1>2, <1>3, <1>4

LEMMA InitDraws == Init => DrawsFit
<1> SUFFICES ASSUME Init, ~ irregular
    PROVE  EachQualifiesOnce /\ \A r \in Requests : ~ Draws(req[r])
  BY DEF DrawsFit
<1>1. \A i \in Rows : matches[i].stage # "KNOCKOUT"
  BY DEF Init
<1>2. \A r \in Requests : req[r] = Idle /\ Idle.at = "idle"
  BY DEF Init, Idle
<1> QED BY <1>1, <1>2 DEF EachQualifiesOnce, Live, Draws

LEMMA SeatsUnmoved ==
  ASSUME UNCHANGED matches
  PROVE  SeatsKept
BY DEF SeatsKept, SeatKept, Live, Rows

(* A row that is written, by whoever does so, and not by hand. *)
LEMMA SeatsThroughRow ==
  ASSUME NEW i \in Rows, Rows' = Rows, \A j \in Rows \ {i} : matches'[j] = matches[j],
         matches[i].deleted => matches'[i].deleted,
         matches'[i].stage = "KNOCKOUT" \/ matches[i].stage = "KNOCKOUT" => SeatKept(i)
  PROVE  SeatsKept
<1>1. \A j \in Rows : /\ matches'[j].stage = "KNOCKOUT" \/ matches[j].stage = "KNOCKOUT" => SeatKept(j)
                      /\ matches[j].deleted => matches'[j].deleted
  BY DEF SeatKept
<1> QED BY <1>1 DEF SeatsKept, Live

LEMMA DrawsThroughRequests ==
  ASSUME TypeOK, DrawsFit, NEW r \in Requests,
         \/ UpdateRead(r) \/ UpdateCommit(r) \/ UpdateFails(r) \/ Create(r) \/ AfterCreate(r)
         \/ RemoveRead(r) \/ RemoveCommit(r) \/ RemoveFails(r)
         \/ FindSuspended(r) \/ SyncRead(r) \/ SyncWrite(r) \/ TableRead(r) \/ TableWrite(r)
         \/ Answer(r) \/ Crash(r) \/ Boot(r) \/ UpdateSeasonGroups(r) \/ GenerateFails(r)
  PROVE  DrawsFit'
<1>1. ASSUME seasons' = seasons, irregular => irregular', ~ irregular' => SeatsKept
      PROVE  DrawsFit'
  <2>1. \A o \in Requests : Draws(req'[o]) => req'[o] = req[o]
    BY NextAt, NextAtRead DEF Draws
  <2>2. \A s \in Seasons : seasons[s] # "none" /\ Exists(s)' => Exists(s)
    BY <1>1 DEF Exists
  <2> QED BY <1>1, <2>1, <2>2, DrawsKept
<1>2. CASE UpdateCommit(r)
  <2> DEFINE q == req[r]
             now == matches[q.id]
             new == Updated(now, q.old, q.body)
  <2>1. /\ q.at = "updating" /\ q.id \in Rows /\ Rows' = Rows /\ matches'[q.id] = new
        /\ \A j \in Rows \ {q.id} : matches'[j] = matches[j]
        /\ seasons' = seasons /\ irregular' = (irregular \/ ByHand(now, new))
    BY <1>2 DEF UpdateCommit, Rows
  <2>2. new.deleted = now.deleted
    BY <2>1, UpdatedFits DEF TypeOK, RowsFit, RequestFits
  <2> HIDE DEF new
  <2>3. ASSUME ~ irregular', matches'[q.id].stage = "KNOCKOUT" \/ matches[q.id].stage = "KNOCKOUT"
        PROVE  SeatKept(q.id)
    BY <2>1, <2>3 DEF ByHand, SeatKept, Seat
  <2>4. ~ irregular' => SeatsKept
    BY <2>1, <2>2, <2>3, SeatsThroughRow
  <2> QED BY <1>1, <2>1, <2>4
<1>3. CASE Create(r)
  <2>1. PICK i \in DOMAIN Free[type] \ Rows :
          /\ Rows' = Rows \cup {i} /\ \A j \in Rows : matches'[j] = matches[j]
          /\ Goes(r, [at |-> "created", id |-> i, events |-> matches'[i].events])
          /\ irregular' = (irregular \/ matches'[i].stage = "KNOCKOUT")
    BY <1>3 DEF Create, Rows
  <2>2. ~ irregular' => SeatsKept
    BY <2>1 DEF SeatsKept, SeatKept, Live
  <2>3. seasons' = seasons
    BY <1>3 DEF Create
  <2> QED BY <1>1, <2>1, <2>2, <2>3
<1>4. CASE RemoveCommit(r)
  <2> PICK i : i = req[r].id
    OBVIOUS
  <2>1. /\ Rows' = Rows /\ i \in Rows /\ matches'[i].deleted
        /\ \A f \in DOMAIN matches[i] \ {"deleted"} : matches'[i][f] = matches[i][f]
        /\ \A j \in Rows \ {i} : matches'[j] = matches[j]
    BY <1>4, Removed
  <2>2. SeatKept(i)
    BY <2>1 DEF SeatKept, Seat, TypeOK, RowsFit, IsRow, Columns
  <2>3. SeatsKept
    BY <2>1, <2>2, SeatsThroughRow
  <2>4. seasons' = seasons /\ irregular' = irregular
    BY <1>4 DEF RemoveCommit
  <2> QED BY <1>1, <2>3, <2>4
<1>5. CASE \/ UpdateRead(r) \/ UpdateFails(r) \/ AfterCreate(r) \/ RemoveRead(r) \/ RemoveFails(r)
           \/ FindSuspended(r) \/ SyncRead(r) \/ SyncWrite(r) \/ TableRead(r) \/ TableWrite(r)
           \/ Answer(r) \/ Crash(r) \/ Boot(r) \/ UpdateSeasonGroups(r) \/ GenerateFails(r)
  <2>1. UNCHANGED <<seasons, matches, irregular>>
    <3>1. CASE \/ UpdateRead(r) \/ UpdateFails(r) \/ AfterCreate(r) \/ RemoveRead(r) \/ RemoveFails(r)
               \/ FindSuspended(r) \/ SyncRead(r) \/ TableRead(r)
               \/ Answer(r) \/ Crash(r) \/ Boot(r) \/ GenerateFails(r)
      BY <3>1 DEF UpdateRead, UpdateFails, AfterCreate, RemoveRead, RemoveFails, FindSuspended,
                  SyncRead, TableRead, Answer, Crash, Boot, GenerateFails, data, history
    <3>2. CASE SyncWrite(r) \/ TableWrite(r) \/ UpdateSeasonGroups(r)
      BY <3>2 DEF SyncWrite, TableWrite, UpdateSeasonGroups, history
    <3> QED BY <1>5, <3>1, <3>2
  <2> QED BY <1>1, <2>1, SeatsUnmoved
<1> QED BY <1>2, <1>3, <1>4, <1>5

LEMMA DrawsThroughSeasons == TypeOK /\ DrawsFit /\ (SeasonChange \/ DeleteSeason) => DrawsFit'
<1> SUFFICES ASSUME TypeOK, DrawsFit, SeasonChange \/ DeleteSeason PROVE DrawsFit'
  OBVIOUS
<1>1. req' = req /\ irregular' = irregular
  BY DEF SeasonChange, DeleteSeason
<1>2. CASE SeasonChange
  <2>1. ASSUME NEW s \in Seasons, seasons[s] # "none", Exists(s)' PROVE Exists(s)
    <3>1. ASSUME NEW archives \in BOOLEAN, NewSeason(archives) PROVE Exists(s)
      BY <2>1, <3>1 DEF NewSeason, Exists
    <3>2. CASE UpdateSeasonStatus
      BY <2>1, <3>2 DEF UpdateSeasonStatus, Exists, TypeOK
    <3> QED BY <1>2, <3>1, <3>2 DEF SeasonChange, CreateSeason, ArchiveAndCreateNewSeason
  <2>2. matches' = matches
    BY <1>2 DEF SeasonChange
  <2> QED BY <1>1, <2>1, <2>2, SeatsUnmoved, DrawsKept
<1>3. CASE DeleteSeason
  <2>1. PICK x \in Seasons :
          /\ seasons' = [seasons EXCEPT ![x] = "deleted"]
          /\ matches' = [i \in {j \in Rows : matches[j].seasonId # x} |-> matches[i]]
    BY <1>3 DEF DeleteSeason
  <2>2. \A s \in Seasons : Exists(s)' => s # x /\ Exists(s)
    BY <2>1 DEF Exists, TypeOK
  <2>3. Rows' = {j \in Rows : matches[j].seasonId # x} /\ \A i \in Rows' : matches'[i] = matches[i]
    BY <2>1 DEF Rows
  <2>4. SeatsKept
    BY <2>2, <2>3 DEF SeatsKept, SeatKept, Live
  <2> QED BY <1>1, <2>2, <2>4, DrawsKept
<1> QED BY <1>2, <1>3

(* A draw that is read from tables that rank every team once: the matches  *)
(* of its round are those it has found.                                    *)
LEMMA DrawsThroughRead ==
  ASSUME TypeOK, CachesRank, DrawsFit, NEW r \in Requests, GenerateRead(r)
  PROVE  DrawsFit'
<1>1. PICK s \in Seasons :
        /\ s \in DOMAIN cache
        /\ LET pairs == Pairings(cache[s].standings)
               at(p) == InPlace(s, p.index)
           IN  /\ pairs # {}
               /\ \E found \in [pairs -> MatchIds \cup {None}] :
                    /\ \A p \in pairs : IF at(p) = {} THEN found[p] = None ELSE found[p] \in at(p)
                    /\ Goes(r, [at |-> "generating", season |-> s, found |-> found,
                                round |-> RoundOfSeason(s)])
               /\ irregular' = (irregular \/ RanksTwice(cache[s].standings) \/ KeepsOld(s, pairs)
                                \/ \E o \in Requests : req[o].at = "generating")
  BY DEF GenerateRead
<1> DEFINE pairs == Pairings(cache[s].standings)
<1> PICK round : round = RoundOfSeason(s)
  OBVIOUS
<1>2. PICK found \in [pairs -> MatchIds \cup {None}] :
        /\ \A x \in pairs : IF InPlace(s, x.index) = {} THEN found[x] = None
                            ELSE found[x] \in InPlace(s, x.index)
        /\ Goes(r, [at |-> "generating", season |-> s, found |-> found, round |-> round])
  BY <1>1
<1>3. type = "CUP" /\ UNCHANGED <<seasons, matches>>
  BY DEF GenerateRead, data
<1> SUFFICES ASSUME ~ irregular' PROVE DrawsFit'
  BY DEF DrawsFit
<1>4. /\ ~ irregular /\ ~ RanksTwice(cache[s].standings) /\ ~ KeepsOld(s, pairs)
      /\ \A o \in Requests : req[o].at # "generating"
  BY <1>1
<1>5. EachQualifiesOnce
  BY <1>4 DEF DrawsFit
<1>6. /\ req'[r].at = "generating" /\ req'[r].season = s /\ req'[r].found = found
      /\ req'[r].round = round
      /\ \A o \in Requests \ {r} : req'[o] = req[o]
  BY <1>2, Gone DEF TypeOK
<1>7. DOMAIN found = pairs
  BY <1>2
<1>8. \A x, y \in pairs : x # y => Apart(x, y)
  <2>1. RanksOnce(cache[s].standings)
    BY <1>1, <1>3 DEF CachesRank
  <2> QED BY <1>4, <2>1, PairingsApart
<1> HIDE DEF pairs
<1>9. ASSUME NEW x \in pairs, found[x] # None
      PROVE  /\ found[x] \in Live /\ InRound(found[x], s, round)
             /\ matches[found[x]].knockoutMatchIndex = x.index
  BY <1>2, <1>9 DEF InPlace
<1>10. ASSUME NEW i \in Live, InRound(i, s, round) PROVE \E x \in pairs : found[x] = i
  <2>1. PICK x \in pairs : matches[i].knockoutMatchIndex = x.index
    BY <1>4, <1>10 DEF KeepsOld
  <2>2. i \in InPlace(s, x.index)
    BY <1>10, <2>1 DEF InPlace
  <2>3. found[x] \in Live /\ InRound(found[x], s, round) /\ matches[found[x]].knockoutMatchIndex = x.index
    BY <1>2, <2>2 DEF InPlace
  <2>4. found[x] = i
    BY <1>4, <1>5, <1>10, <2>1, <2>3 DEF EachQualifiesOnce, InRound
  <2> QED BY <2>4
<1>11. Live' = Live /\ Rows' = Rows
  BY <1>3 DEF Live, Rows
<1>12. \A i : InRound(i, s, round)' <=> InRound(i, s, round)
  BY <1>3 DEF InRound
<1>13. DrawFits(req[r])'
  <2>1. \A x \in DOMAIN found : found[x] # None =>
           /\ found[x] \in Rows' /\ InRound(found[x], s, round)'
           /\ matches'[found[x]].knockoutMatchIndex = x.index
    BY <1>3, <1>7, <1>9, <1>11, <1>12 DEF Live
  <2>2. \A i \in Live' : InRound(i, s, round)' => \E x \in DOMAIN found : found[x] = i
    BY <1>7, <1>10, <1>11, <1>12
  <2> QED BY <1>6, <1>7, <1>8, <2>1, <2>2 DEF DrawFits, InRound
<1>14. EachQualifiesOnce'
  BY <1>3, <1>4, <1>5, <1>11 DEF EachQualifiesOnce, InRound
<1> QED BY <1>4, <1>6, <1>13, <1>14 DEF DrawsFit, Draws

(* When it is written every match of the round is that of one pair, and    *)
(* the others are as they were.                                            *)
LEMMA DrawsThroughDraw ==
  ASSUME TypeOK, DrawsFit, NEW r \in Requests, GenerateWrite(r)
  PROVE  DrawsFit'
<1> PICK q : q = req[r]
  OBVIOUS
<1> PICK s, round, found : s = q.season /\ round = q.round /\ found = q.found
  OBVIOUS
<1>1. /\ q.at = "generating" /\ Goes(r, Idle) /\ Exists(s) /\ irregular' = irregular
  BY DrawLeaves DEF Vanished
<1> SUFFICES ASSUME ~ irregular
    PROVE  EachQualifiesOnce' /\ \A o \in Requests : ~ Draws(req'[o])
  BY <1>1 DEF DrawsFit
<1>2. /\ EachQualifiesOnce /\ DrawFits(q) /\ \A o \in Requests : Draws(req[o]) => o = r
  BY <1>1 DEF DrawsFit, Draws
<1>3. \A o \in Requests : ~ Draws(req'[o])
  <2>1. req'[r].at = "idle" /\ \A o \in Requests \ {r} : req'[o] = req[o]
    BY <1>1, Gone DEF TypeOK, Idle
  <2> QED BY <1>2, <2>1 DEF Draws
<1>4. /\ \A x, y \in DOMAIN found : x # y => Apart(x, y)
      /\ \A x \in DOMAIN found : found[x] # None =>
           /\ found[x] \in Rows /\ InRound(found[x], s, round)
           /\ matches[found[x]].knockoutMatchIndex = x.index
      /\ \A i \in Live : InRound(i, s, round) => \E x \in DOMAIN found : found[x] = i
      /\ \A x \in DOMAIN found : x.homeTeamId # None /\ x.awayTeamId # None
  BY <1>1, <1>2 DEF DrawFits, TypeOK, RequestFits
<1>5. \A i \in Rows :
        \/ matches'[i] = matches[i] /\ \A x \in DOMAIN found : found[x] # i
        \/ \E x \in DOMAIN found :
             /\ found[x] = i
             /\ matches'[i] = Merge(matches[i], [homeTeamId |-> x.homeTeamId, awayTeamId |-> x.awayTeamId])
  BY Drawn
<1>6. PICK given : \A i \in Rows' \ Rows : \E x \in DOMAIN found :
                     /\ found[x] = None /\ given[x] = i
                     /\ \E day : matches'[i] = Row(i, day, DraftOf(q, x))
  <2>1. \E given : \A i \in Rows' \ Rows : \E x \in DOMAIN req[r].found :
              /\ req[r].found[x] = None /\ given[x] = i
              /\ \E day : matches'[i] = Row(i, day, DraftOf(req[r], x))
    BY Drawn, Zenon
  <2>2. req[r] = q /\ req[r].found = found
    OBVIOUS
  <2> QED BY <2>1, <2>2
<1> DEFINE Filled(i, x) ==
             /\ matches'[i].stage = "KNOCKOUT" /\ matches'[i].seasonId = s
             /\ matches'[i].knockoutRound = round /\ matches'[i].knockoutMatchIndex = x.index
             /\ matches'[i].homeTeamId = x.homeTeamId /\ matches'[i].awayTeamId = x.awayTeamId
             /\ (i \in Rows /\ found[x] = i) \/ (i \notin Rows /\ found[x] = None /\ given[x] = i)
<1>7. ASSUME NEW i \in Live'
      PROVE  \/ \E x \in DOMAIN found : Filled(i, x)
             \/ i \in Live /\ matches'[i] = matches[i] /\ ~ InRound(i, s, round)
  <2>1. CASE i \in Rows /\ matches'[i] = matches[i] /\ \A x \in DOMAIN found : found[x] # i
    BY <1>4, <2>1 DEF Live
  <2>2. ASSUME NEW x \in DOMAIN found, i \in Rows, found[x] = i,
               matches'[i] = Merge(matches[i], [homeTeamId |-> x.homeTeamId, awayTeamId |-> x.awayTeamId])
        PROVE  Filled(i, x)
    <3>1. /\ matches'[i].homeTeamId = x.homeTeamId /\ matches'[i].awayTeamId = x.awayTeamId
          /\ \A f \in Columns \ {"homeTeamId", "awayTeamId"} : matches'[i][f] = matches[i][f]
      <4>1. IsRow(matches[i]) /\ x.homeTeamId # None /\ x.awayTeamId # None
        BY <1>4, <2>2 DEF TypeOK, RowsFit
      <4>2. PICK home, away : home = x.homeTeamId /\ away = x.awayTeamId
        OBVIOUS
      <4> QED BY <2>2, <4>1, <4>2, Redrawn
    <3>2. i # None
      BY <2>2, KindsAssumption DEF TypeOK, RowsFit
    <3>3. InRound(i, s, round) /\ matches[i].knockoutMatchIndex = x.index
      BY <1>4, <2>2, <3>2
    <3> QED BY <2>2, <3>1, <3>3 DEF Columns, InRound
  <2>3. ASSUME NEW x \in DOMAIN found, i \notin Rows, found[x] = None, given[x] = i,
               NEW day, matches'[i] = Row(i, day, DraftOf(q, x))
        PROVE  Filled(i, x)
    BY <2>3 DEF Row, DraftOf
  <2>4. i \in Rows'
    BY DEF Live
  <2> HIDE DEF Filled
  <2>5. CASE i \in Rows
    BY <1>5, <2>1, <2>2, <2>5
  <2>6. CASE i \notin Rows
    <3>1. PICK x \in DOMAIN found : /\ found[x] = None /\ given[x] = i
                                    /\ \E day : matches'[i] = Row(i, day, DraftOf(q, x))
      BY <1>6, <2>4, <2>6
    <3>2. Filled(i, x)
      BY <2>3, <2>6, <3>1
    <3> QED BY <3>2
  <2> QED BY <2>5, <2>6
<1>8. EachQualifiesOnce'
  <2> SUFFICES ASSUME NEW i \in Live', NEW j \in Live', i # j, matches'[i].stage = "KNOCKOUT",
                      matches'[j].seasonId = matches'[i].seasonId, matches'[j].stage = "KNOCKOUT",
                      matches'[j].knockoutRound = matches'[i].knockoutRound
      PROVE  /\ matches'[i].knockoutMatchIndex # matches'[j].knockoutMatchIndex
             /\ {matches'[i].homeTeamId, matches'[i].awayTeamId}
                  \cap {matches'[j].homeTeamId, matches'[j].awayTeamId} = {}
    BY DEF EachQualifiesOnce, InRound
  <2>1. CASE \E x \in DOMAIN found : Filled(i, x)
    <3>1. PICK x \in DOMAIN found : Filled(i, x)
      BY <2>1
    <3>2. PICK y \in DOMAIN found : Filled(j, y)
      BY <1>7, <3>1 DEF InRound
    <3>3. x # y
      <4>1. i # None /\ j # None
        <5>1. Rows' \subseteq MatchIds
          BY Drawn
        <5> QED BY <5>1, KindsAssumption DEF Live
      <4> QED BY <3>1, <3>2, <4>1
    <3>4. Apart(x, y)
      BY <1>4, <3>3
    <3> QED BY <3>1, <3>2, <3>4 DEF Apart
  <2>2. CASE i \in Live /\ matches'[i] = matches[i] /\ ~ InRound(i, s, round)
    <3>1. ASSUME NEW y \in DOMAIN found, Filled(j, y) PROVE FALSE
      BY <2>2, <3>1 DEF InRound
    <3>2. j \in Live /\ matches'[j] = matches[j]
      BY <1>7, <3>1
    <3> QED BY <1>2, <2>2, <3>2 DEF EachQualifiesOnce, InRound
  <2> QED BY <1>7, <2>1, <2>2
<1> QED BY <1>3, <1>8

LEMMA DrawsStep == TypeOK /\ CachesRank /\ DrawsFit /\ [MatchNext]_vars => DrawsFit'
<1> SUFFICES ASSUME TypeOK, CachesRank, DrawsFit, [MatchNext]_vars PROVE DrawsFit'
  OBVIOUS
<1>1. CASE UNCHANGED vars
  <2>1. UNCHANGED <<seasons, matches, req, irregular>>
    BY <1>1 DEF vars, data, history
  <2>2. \A s \in Seasons : Exists(s)' => Exists(s)
    BY <2>1 DEF Exists
  <2> QED BY <2>1, <2>2, SeatsUnmoved, DrawsKept
<1>2. ASSUME NEW r \in Requests,
             \/ UpdateRead(r) \/ UpdateCommit(r) \/ UpdateFails(r) \/ Create(r) \/ AfterCreate(r)
             \/ RemoveRead(r) \/ RemoveCommit(r) \/ RemoveFails(r)
             \/ FindSuspended(r) \/ SyncRead(r) \/ SyncWrite(r) \/ TableRead(r) \/ TableWrite(r)
             \/ Answer(r) \/ Crash(r) \/ Boot(r)
             \/ UpdateSeasonGroups(r) \/ GenerateRead(r) \/ GenerateWrite(r) \/ GenerateFails(r)
      PROVE  DrawsFit'
  BY <1>2, DrawsThroughRequests, DrawsThroughRead, DrawsThroughDraw
<1> QED BY <1>1, <1>2, DrawsThroughSeasons DEF MatchNext

(* In a knock-out round that nobody interferes with every place has one    *)
(* match and every team plays once, however often it is drawn.             *)
THEOREM QualifiesOnce == MatchSpec => []EachQualifiesOnce
<1>1. Init => TypeOK /\ CachesRank /\ DrawsFit
  BY InitTypeOK, InitCaches, InitDraws
<1>2. TypeOK /\ CachesRank /\ DrawsFit /\ [MatchNext]_vars => (TypeOK /\ CachesRank /\ DrawsFit)'
  BY TypeStep, CachesStep, DrawsStep
<1>3. DrawsFit => EachQualifiesOnce
  BY DEF DrawsFit, EachQualifiesOnce
<1> QED BY <1>1, <1>2, <1>3, PTL DEF MatchSpec
=============================================================================
