-------------------------------- MODULE Roster --------------------------------
(***************************************************************************)
(* Teams, players and the roster of one season                             *)
(* (src/src/player/player.service.ts, src/src/team/team.service.ts and     *)
(* src/src/team/team-roster.service.ts).                                   *)
(*                                                                         *)
(* Staff requests look something up and then write by id: what they have   *)
(* checked may no longer hold.  A request inside a transaction writes in   *)
(* one action, at its commit.  `holder` is the row lock that a longer      *)
(* transaction (the approval of a registration) has on a player.           *)
(*                                                                         *)
(* Students stand for student ids.  A removed player's id gets a suffix,   *)
(* from which a coach's import recognises it, so it is kept here.          *)
(***************************************************************************)
EXTENDS Integers, FiniteSets

CONSTANTS
  Teams, Players, Students,
  Fitting,          \* the teams of the season's gender
  FirstTeam,        \* the players there are at first: player -> team
  FirstStudent,     \* and their student ids
  Staff,            \* staff requests: each is made once
  NoOne

VARIABLES
  \* Player and Team rows
  team,             \* NoOne: no such row yet
  student, removed,
  disbanded,        \* teams that are deleted
  \* the season's SeasonTeamProfile and SeasonTeamPlayer rows
  profiles,
  rosterTeam,       \* NoOne: not on the roster
  rosterStudent,
  holder,
  \* requests
  job, jplayer, jteam, jstudent, jset

playerRows == <<team, student, removed, disbanded>>
rosterRows == <<profiles, rosterTeam, rosterStudent>>
jobs       == <<job, jplayer, jteam, jstudent, jset>>
rosterVars == <<playerRows, rosterRows, holder, jobs>>

Keep == NoOne                   \* a field the request leaves out
Ids == Students \cup {NoOne}

Start == DOMAIN FirstTeam

ASSUME RosterAssumption ==
  /\ Fitting \subseteq Teams
  /\ Start \subseteq Players /\ DOMAIN FirstStudent = Start
  /\ FirstTeam \in [Start -> Teams] /\ FirstStudent \in [Start -> Students]
  /\ NoOne \notin Teams \cup Players \cup Students

RosterTypeOK ==
  /\ team \in [Players -> Teams \cup {NoOne}]
  /\ student \in [Players -> Ids]
  /\ removed \subseteq Players
  /\ disbanded \subseteq Teams
  /\ profiles \subseteq Teams
  /\ rosterTeam \in [Players -> Teams \cup {NoOne}]
  /\ rosterStudent \in [Players -> Ids]
  /\ holder \in [Players -> Teams \cup {NoOne}]
  /\ job \in [Staff -> {"idle", "update", "sync", "remove", "import", "add", "edit", "disband", "over"}]
  /\ jplayer \in [Staff -> Players \cup {NoOne}]
  /\ jteam \in [Staff -> Teams \cup {NoOne}]
  /\ jstudent \in [Staff -> Ids]
  /\ jset \in [Staff -> SUBSET (Players \X Ids)]
  \* columns that are not null, and a foreign key
  /\ \A p \in Players : /\ team[p] = NoOne <=> student[p] = NoOne
                        /\ rosterTeam[p] = NoOne <=> rosterStudent[p] = NoOne
                        /\ rosterTeam[p] # NoOne => team[p] # NoOne

RosterInit ==
  /\ team = [p \in Players |-> IF p \in Start THEN FirstTeam[p] ELSE NoOne]
  /\ student = [p \in Players |-> IF p \in Start THEN FirstStudent[p] ELSE NoOne]
  /\ removed = {} /\ disbanded = {} /\ profiles = {}
  /\ rosterTeam = [p \in Players |-> NoOne]
  /\ rosterStudent = [p \in Players |-> NoOne]
  /\ holder = [p \in Players |-> NoOne]
  /\ job = [u \in Staff |-> "idle"]
  /\ jplayer = [u \in Staff |-> NoOne]
  /\ jteam = [u \in Staff |-> NoOne]
  /\ jstudent = [u \in Staff |-> NoOne]
  /\ jset = [u \in Staff |-> {}]

Live == {p \in Players : team[p] # NoOne} \ removed
Unused == {p \in Players : team[p] = NoOne /\ holder[p] = NoOne}
Free(p) == holder[p] = NoOne

(* A request goes on to step s with what it has read; at its end it forgets. *)
Take(u, s, p, t, i, ps) ==
  /\ job' = [job EXCEPT ![u] = s]
  /\ jplayer' = [jplayer EXCEPT ![u] = p]
  /\ jteam' = [jteam EXCEPT ![u] = t]
  /\ jstudent' = [jstudent EXCEPT ![u] = i]
  /\ jset' = [jset EXCEPT ![u] = ps]

Finish(u) == Take(u, "over", NoOne, NoOne, NoOne, {})

(* syncPlayerToSeason: the roster row follows the player, or goes if the   *)
(* team is not of the season's gender.                                     *)
Sync(p, t, i) ==
  IF t \in Fitting
  THEN /\ rosterTeam' = [rosterTeam EXCEPT ![p] = t]
       /\ rosterStudent' = [rosterStudent EXCEPT ![p] = i]
  ELSE /\ rosterTeam' = [rosterTeam EXCEPT ![p] = NoOne]
       /\ rosterStudent' = [rosterStudent EXCEPT ![p] = NoOne]

-----------------------------------------------------------------------------
(* PlayerService.update: three statements, no transaction *)

UpdateRead(u, p, t, i) ==
  /\ job[u] = "idle" /\ p \in Live
  /\ t = Keep \/ t \in Teams \ disbanded
  /\ Take(u, "update", p, t, i, {})
  /\ UNCHANGED <<playerRows, rosterRows, holder>>

UpdateWrite(u) ==
  LET p == jplayer[u]
      t == IF jteam[u] = Keep THEN team[p] ELSE jteam[u]
      i == IF jstudent[u] = Keep THEN student[p] ELSE jstudent[u] IN
  /\ job[u] = "update" /\ Free(p)
  /\ team' = [team EXCEPT ![p] = t]
  /\ student' = [student EXCEPT ![p] = i]
  /\ Take(u, "sync", p, t, i, {})
  /\ UNCHANGED <<removed, disbanded, rosterRows, holder>>

UpdateSync(u) ==
  /\ job[u] = "sync"
  /\ Sync(jplayer[u], jteam[u], jstudent[u])
  /\ Finish(u)
  /\ UNCHANGED <<playerRows, profiles, holder>>

-----------------------------------------------------------------------------
(* PlayerService.remove and TeamService.remove: soft deletions *)

RemoveRead(u, p) ==
  /\ job[u] = "idle" /\ p \in Live
  /\ Take(u, "remove", p, NoOne, student[p], {})
  /\ UNCHANGED <<playerRows, rosterRows, holder>>

RemoveWrite(u) ==
  LET p == jplayer[u] IN
  /\ job[u] = "remove" /\ Free(p)
  /\ removed' = removed \cup {p}
  /\ student' = [student EXCEPT ![p] = jstudent[u]]
  /\ Finish(u)
  /\ UNCHANGED <<team, disbanded, rosterRows, holder>>

(* The players and their ids are read before the transaction that removes them. *)
DisbandRead(u, t) ==
  /\ job[u] = "idle" /\ t \notin disbanded
  /\ Take(u, "disband", NoOne, t, NoOne, {<<p, student[p]>> : p \in {q \in Live : team[q] = t}})
  /\ UNCHANGED <<playerRows, rosterRows, holder>>

DisbandWrite(u) ==
  /\ job[u] = "disband" /\ \A x \in jset[u] : Free(x[1])
  /\ removed' = removed \cup {x[1] : x \in jset[u]}
  /\ student' = [p \in Players |-> IF \E x \in jset[u] : x[1] = p
                                 THEN (CHOOSE x \in jset[u] : x[1] = p)[2] ELSE student[p]]
  /\ disbanded' = disbanded \cup {jteam[u]}
  /\ Finish(u)
  /\ UNCHANGED <<team, rosterRows, holder>>

-----------------------------------------------------------------------------
(* PlayerService.create *)

(* The team must be registered in the season.  A coach's import takes over *)
(* the player with that student id, also a removed one, but not a live     *)
(* player of another team; a super admin always adds a player.             *)
CreateFind(u, t, i) ==
  /\ job[u] = "idle" /\ t \in profiles \ disbanded
  /\ \/ Take(u, "add", NoOne, t, i, {})
     \/ \E p \in Players :
          /\ team[p] # NoOne /\ student[p] = i
          /\ p \in Live => team[p] = t
          /\ Take(u, "import", p, t, i, {})
  /\ UNCHANGED <<playerRows, rosterRows, holder>>

ImportWrite(u) ==
  LET p == jplayer[u] IN
  /\ job[u] = "import" /\ Free(p)
  /\ team' = [team EXCEPT ![p] = jteam[u]]
  /\ student' = [student EXCEPT ![p] = jstudent[u]]
  /\ removed' = removed \ {p}
  /\ Sync(p, jteam[u], jstudent[u])
  /\ Finish(u)
  /\ UNCHANGED <<disbanded, profiles, holder>>

(* The pool of players is a bound: with none unused the request fails. *)
AddWrite(u) ==
  /\ job[u] = "add"
  /\ \E p \in Unused :
       /\ team' = [team EXCEPT ![p] = jteam[u]]
       /\ student' = [student EXCEPT ![p] = jstudent[u]]
       /\ Sync(p, jteam[u], jstudent[u])
  /\ Finish(u)
  /\ UNCHANGED <<removed, disbanded, profiles, holder>>

-----------------------------------------------------------------------------
(* TeamService.updateWithPlayers, with one player in the request *)

(* A player is named by id - any player's id - or is to be found by the    *)
(* student id, which for a coach must not be another live player's on the  *)
(* roster.  NoOne: a new player.                                           *)
EditFind(u, t, i) ==
  LET others(p) == {q \in Live \ {p} : rosterTeam[q] # NoOne /\ rosterStudent[q] = i}
      withId == {q \in Live : student[q] = i} IN
  /\ job[u] = "idle" /\ t \notin disbanded
  /\ \/ \E p \in Players :                           \* by id
          team[p] # NoOne /\ Take(u, "edit", p, t, i, {})
     \/ /\ others(NoOne) = {}                        \* a coach, by student id
        /\ \/ \E p \in withId : Take(u, "edit", p, t, i, {})
           \/ withId = {} /\ Take(u, "edit", NoOne, t, i, {})
     \/ Take(u, "edit", NoOne, t, i, {})             \* a super admin, no id
  /\ UNCHANGED <<playerRows, rosterRows, holder>>

(* The commit: the team is registered, a roster without the season's       *)
(* gender is emptied, the players in `out` leave it, the player of the     *)
(* request joins it.                                                       *)
EditWrite(u) ==
  LET t == jteam[u]
      leaves(q, out) == rosterTeam[q] = t /\ (t \notin Fitting \/ q \in out \cap Live) IN
  /\ job[u] = "edit"
  /\ profiles' = profiles \cup {t}
  /\ \E p \in IF jplayer[u] = NoOne THEN Unused ELSE {jplayer[u]} :
     \E out \in {{}} \cup {{q} : q \in Players} :
       /\ Free(p)
       /\ team' = [team EXCEPT ![p] = t]
       /\ student' = IF jplayer[u] = NoOne THEN [student EXCEPT ![p] = jstudent[u]] ELSE student
       /\ rosterTeam' = [q \in Players |-> IF q = p THEN t ELSE
                                           IF leaves(q, out) THEN NoOne ELSE rosterTeam[q]]
       /\ rosterStudent' = [q \in Players |-> IF q = p THEN jstudent[u] ELSE
                                              IF leaves(q, out) THEN NoOne ELSE rosterStudent[q]]
  /\ Finish(u)
  /\ UNCHANGED <<removed, disbanded, holder>>

(* A request that throws, times out or loses its process. *)
GiveUp(u) ==
  /\ job[u] \notin {"idle", "over"}
  /\ Finish(u)
  /\ UNCHANGED <<playerRows, rosterRows, holder>>

-----------------------------------------------------------------------------
RosterNext ==
  \E u \in Staff :
    \/ \E p \in Players, t \in Teams \cup {Keep}, i \in Ids : UpdateRead(u, p, t, i)
    \/ \E p \in Players : RemoveRead(u, p)
    \/ \E t \in Teams : DisbandRead(u, t)
    \/ \E t \in Teams, i \in Students : CreateFind(u, t, i) \/ EditFind(u, t, i)
    \/ UpdateWrite(u) \/ UpdateSync(u) \/ RemoveWrite(u) \/ DisbandWrite(u)
    \/ ImportWrite(u) \/ AddWrite(u) \/ EditWrite(u) \/ GiveUp(u)
=============================================================================
