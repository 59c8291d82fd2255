--------------------------- MODULE RegistrationProofs ---------------------------
(***************************************************************************)
(* What holds of the registration of teams for a season for any number of  *)
(* teams, players and staff requests: the workflow is followed, and what   *)
(* an approval puts on the season's roster is the list.                    *)
(*                                                                         *)
(* The inductive invariant says what a lock on a registration stands for,  *)
(* which players and roster rows an approval holds, and how far it has got *)
(* with its list.                                                          *)
(***************************************************************************)
EXTENDS SeasonRegistration, FiniteSetTheorems, TLAPS

(* The entries that an approval has dealt with. *)
Pending(c) == IF lock[c] = "update" THEN {entry[c]} ELSE {}
Done(c) == list[c] \ (todo[c] \cup Pending(c))

(* Only players that there are can have been removed. *)
RemovedWereThere == \A p \in removed : team[p] # NoOne

(* What a staff request has read: players that there are, since no row     *)
(* goes away again, and values that fit the columns it will write.         *)
JobFacts(u) ==
  /\ job[u] \in {"update", "sync", "remove", "import"} =>
       jplayer[u] \in Players /\ team[jplayer[u]] # NoOne
  /\ job[u] \in {"sync", "import", "add", "edit", "disband"} => jteam[u] \in Teams
  /\ job[u] \in {"sync", "remove", "import", "add", "edit"} => jstudent[u] \in Students
  /\ job[u] = "edit" /\ jplayer[u] # NoOne => team[jplayer[u]] # NoOne
  /\ \A x \in jset[u] : x[2] # NoOne /\ team[x[1]] # NoOne

(* The registration's status does not change under a lock. *)
LockFacts(c) ==
  /\ lock[c] = "save" => status[c] \in WithCoach
  /\ Approving(c) => status[c] = "SUBMITTED"
  /\ lock[c] = "update" <=> found[c] # NoOne

(* An approval holds the players it has written. *)
HoldFacts(c) ==
  \A p \in Players :
    /\ written[c][p] # NoOne <=> holder[p] = c
    /\ resolved[c][p] # NoOne <=> holder[p] = c
    /\ holder[p] = c => Approving(c)

(* The player it has looked up is there, or is one it adds itself. *)
FoundFacts(c) == \A p \in Players : found[c] = p => team[p] # NoOne \/ holder[p] = c

(* The list stays as it was locked; every player has the student id of an  *)
(* entry, and if there are as many as entries dealt with, every such entry *)
(* has its player.                                                         *)
ListFacts(c) ==
  Approving(c) =>
    /\ todo[c] \subseteq list[c]
    /\ lock[c] = "update" => entry[c] \in list[c] \ todo[c]
    /\ lock[c] = "roster" => todo[c] = {}
    /\ \A p \in Resolved(c) : \E e \in list[c] : resolved[c][p] = e.student
    /\ Cardinality(Resolved(c)) <= Cardinality(Done(c))
    /\ Cardinality(Resolved(c)) = Cardinality(Done(c)) =>
         \A e \in Done(c) : \E p \in Resolved(c) : resolved[c][p] = e.student

ClubFacts(c) == LockFacts(c) /\ HoldFacts(c) /\ FoundFacts(c) /\ ListFacts(c)

(* The team's rows, while its approval rewrites the roster: held, still to *)
(* be deleted, or put there by staff since they were looked for.           *)
RowFacts(c) ==
  \A p \in Players :
    /\ rowHolder[p] = c => lock[c] = "roster" /\ p \notin late[c]
    /\ lock[c] = "roster" /\ rosterTeam[p] = c =>
         rowHolder[p] = c \/ p \in doomed[c] \/ p \in late[c]

IInv ==
  /\ TypeOK /\ RemovedWereThere
  /\ \A u \in Staff : JobFacts(u)
  /\ \A c \in Clubs : ClubFacts(c)
  /\ \A c \in Clubs : RowFacts(c)

-----------------------------------------------------------------------------
(* The staff requests *)

PlayersFit ==
  /\ team \in [Players -> Teams \cup {NoOne}]
  /\ student \in [Players -> Ids]
  /\ removed \subseteq Players
  /\ disbanded \subseteq Teams
  /\ \A p \in Players : team[p] = NoOne <=> student[p] = NoOne
  /\ RemovedWereThere

RosterFits ==
  /\ profiles \subseteq Teams
  /\ rosterTeam \in [Players -> Teams \cup {NoOne}]
  /\ rosterStudent \in [Players -> Ids]
  /\ \A p \in Players : /\ rosterTeam[p] = NoOne <=> rosterStudent[p] = NoOne
                        /\ rosterTeam[p] # NoOne => team[p] # NoOne

JobsFit ==
  /\ job \in [Staff -> {"idle", "update", "sync", "remove", "import", "add", "edit", "disband", "over"}]
  /\ jplayer \in [Staff -> Players \cup {NoOne}]
  /\ jteam \in [Staff -> Teams \cup {NoOne}]
  /\ jstudent \in [Staff -> Ids]
  /\ jset \in [Staff -> SUBSET (Players \X Ids)]
  /\ \A u \in Staff : JobFacts(u)

HolderFits == holder \in [Players -> Teams \cup {NoOne}]

RowsFit == PlayersFit /\ RosterFits /\ JobsFit /\ HolderFits

LEMMA RowsAre == RowsFit <=> RosterTypeOK /\ RemovedWereThere /\ \A u \in Staff : JobFacts(u)
BY DEF RowsFit, PlayersFit, RosterFits, JobsFit, HolderFits, RosterTypeOK

(* No player row goes away, and nobody but its holder touches a held one. *)
Stay == \A p \in Players : team[p] # NoOne => team'[p] # NoOne
HeldStay ==
  \A p \in Players : holder[p] # NoOne => team'[p] = team[p] /\ (p \in removed' => p \in removed)

(* The facts that a request takes with it to step s. *)
TakesFacts(s, p, t, i, ps) ==
  /\ s \in {"idle", "update", "sync", "remove", "import", "add", "edit", "disband", "over"}
  /\ p \in Players \cup {NoOne} /\ t \in Teams \cup {NoOne} /\ i \in Ids
  /\ ps \in SUBSET (Players \X Ids)
  /\ s \in {"update", "sync", "remove", "import"} => p \in Players /\ team'[p] # NoOne
  /\ s \in {"sync", "import", "add", "edit", "disband"} => t \in Teams
  /\ s \in {"sync", "remove", "import", "add", "edit"} => i \in Students
  /\ s = "edit" /\ p # NoOne => team'[p] # NoOne
  /\ \A x \in ps : x[2] # NoOne /\ team'[x[1]] # NoOne

(* A request's note of what it has read keeps the facts about requests. *)
LEMMA TakeFits ==
  ASSUME JobsFit, Stay, NEW u \in Staff, NEW s, NEW p, NEW t, NEW i, NEW ps,
         TakesFacts(s, p, t, i, ps), Take(u, s, p, t, i, ps)
  PROVE  JobsFit'
<1>1. /\ job' \in [Staff -> {"idle", "update", "sync", "remove", "import", "add", "edit", "disband", "over"}]
      /\ jplayer' \in [Staff -> Players \cup {NoOne}]
      /\ jteam' \in [Staff -> Teams \cup {NoOne}]
      /\ jstudent' \in [Staff -> Ids]
      /\ jset' \in [Staff -> SUBSET (Players \X Ids)]
  BY DEF JobsFit, TakesFacts, Take
<1>2. ASSUME NEW v \in Staff PROVE JobFacts(v)'
  <2>1. CASE v = u
    <3>1. job'[u] = s /\ jplayer'[u] = p /\ jteam'[u] = t /\ jstudent'[u] = i /\ jset'[u] = ps
      BY DEF JobsFit, Take
    <3> QED BY <3>1, <2>1 DEF JobFacts, TakesFacts
  <2>2. CASE v # u
    <3>1. /\ job'[v] = job[v] /\ jplayer'[v] = jplayer[v] /\ jteam'[v] = jteam[v]
          /\ jstudent'[v] = jstudent[v] /\ jset'[v] = jset[v]
      BY <2>2 DEF JobsFit, Take
    <3>2. JobFacts(v) /\ jplayer[v] \in Players \cup {NoOne} /\ jset[v] \in SUBSET (Players \X Ids)
      BY DEF JobsFit
    <3>3. \A x \in jset[v] : x[1] \in Players
      BY <3>2
    <3> QED BY <3>1, <3>2, <3>3 DEF JobFacts, Stay
  <2> QED BY <2>1, <2>2
<1> QED BY <1>1, <1>2 DEF JobsFit

LEMMA FinishFits ==
  ASSUME JobsFit, Stay, NEW u \in Staff, Finish(u)
  PROVE  JobsFit'
<1>1. TakesFacts("over", NoOne, NoOne, NoOne, {})
  BY DEF TakesFacts, Ids
<1>2. Take(u, "over", NoOne, NoOne, NoOne, {})
  BY DEF Finish
<1> QED BY <1>1, <1>2, TakeFits

(* syncPlayerToSeason keeps the roster in order. *)
LEMMA SyncFits ==
  ASSUME RosterFits, Stay, profiles' = profiles, NEW p \in Players, NEW t \in Teams,
         NEW i \in Students, team'[p] # NoOne, Sync(p, t, i)
  PROVE  RosterFits'
<1> NoOne \notin Teams /\ NoOne \notin Students
  BY RosterAssumption
<1>1. CASE t \in Fitting
  BY <1>1 DEF Sync, RosterFits, Stay, Ids
<1>2. CASE t \notin Fitting
  BY <1>2 DEF Sync, RosterFits, Stay, Ids
<1> QED BY <1>1, <1>2

(* A roster row needs its player row only to be there. *)
LEMMA RosterSame ==
  ASSUME RosterFits, Stay, UNCHANGED rosterRows
  PROVE  RosterFits'
BY DEF RosterFits, Stay, rosterRows

LEMMA PlayersSame ==
  ASSUME PlayersFit, UNCHANGED playerRows
  PROVE  PlayersFit' /\ Stay /\ HeldStay
BY DEF PlayersFit, Stay, HeldStay, playerRows, RemovedWereThere

(* A request only reads. *)
LEMMA ReadFits ==
  ASSUME RowsFit, NEW u \in Staff, NEW s, NEW p, NEW t, NEW i, NEW ps,
         TakesFacts(s, p, t, i, ps), Take(u, s, p, t, i, ps),
         UNCHANGED <<playerRows, rosterRows, holder>>
  PROVE  RowsFit' /\ Stay /\ HeldStay
<1>1. PlayersFit' /\ Stay /\ HeldStay
  BY PlayersSame DEF RowsFit
<1>2. JobsFit'
  BY <1>1, TakeFits DEF RowsFit
<1>3. RosterFits'
  BY <1>1, RosterSame DEF RowsFit
<1> QED BY <1>1, <1>2, <1>3 DEF RowsFit, HolderFits

LEMMA UpdateReadFits ==
  ASSUME RowsFit, NEW u \in Staff, NEW p \in Players, NEW t \in Teams \cup {Keep}, NEW i \in Ids,
         UpdateRead(u, p, t, i)
  PROVE  RowsFit' /\ Stay /\ HeldStay
<1>1. TakesFacts("update", p, t, i, {})
  BY DEF UpdateRead, TakesFacts, Live, playerRows, Keep
<1> QED BY <1>1, ReadFits DEF UpdateRead

LEMMA RemoveReadFits ==
  ASSUME RowsFit, NEW u \in Staff, NEW p \in Players, RemoveRead(u, p)
  PROVE  RowsFit' /\ Stay /\ HeldStay
<1>1. TakesFacts("remove", p, NoOne, student[p], {})
  BY DEF RemoveRead, TakesFacts, Live, playerRows, RowsFit, PlayersFit, Ids
<1> QED BY <1>1, ReadFits DEF RemoveRead

LEMMA DisbandReadFits ==
  ASSUME RowsFit, NEW u \in Staff, NEW t \in Teams, DisbandRead(u, t)
  PROVE  RowsFit' /\ Stay /\ HeldStay
<1> DEFINE ps == {<<p, student[p]>> : p \in {q \in Live : team[q] = t}}
<1>1. TakesFacts("disband", NoOne, t, NoOne, ps)
  <2>1. \A p \in Live : p \in Players /\ student[p] \in Ids /\ student[p] # NoOne /\ team[p] # NoOne
    BY DEF Live, RowsFit, PlayersFit
  <2>2. ps \in SUBSET (Players \X Ids)
    BY <2>1
  <2>3. team' = team
    BY DEF DisbandRead, playerRows
  <2>4. \A x \in ps : x[2] # NoOne /\ team'[x[1]] # NoOne
    BY <2>1, <2>3
  <2> QED BY <2>2, <2>4 DEF TakesFacts, Ids
<1>2. Take(u, "disband", NoOne, t, NoOne, ps)
  BY DEF DisbandRead
<1> HIDE DEF ps
<1> QED BY <1>1, <1>2, ReadFits DEF DisbandRead

LEMMA CreateFindFits ==
  ASSUME RowsFit, NEW u \in Staff, NEW t \in Teams, NEW i \in Students, CreateFind(u, t, i)
  PROVE  RowsFit' /\ Stay /\ HeldStay
<1>0. team' = team
  BY DEF CreateFind, playerRows
<1>1. CASE Take(u, "add", NoOne, t, i, {})
  <2>1. TakesFacts("add", NoOne, t, i, {})
    BY DEF TakesFacts, Ids
  <2> QED BY <1>1, <2>1, ReadFits DEF CreateFind
<1>2. ASSUME NEW p \in Players, team[p] # NoOne, Take(u, "import", p, t, i, {})
      PROVE  RowsFit' /\ Stay /\ HeldStay
  <2>1. TakesFacts("import", p, t, i, {})
    BY <1>0, <1>2 DEF TakesFacts, Ids
  <2> QED BY <1>2, <2>1, ReadFits DEF CreateFind
<1> QED BY <1>1, <1>2 DEF CreateFind

LEMMA EditFindFits ==
  ASSUME RowsFit, NEW u \in Staff, NEW t \in Teams, NEW i \in Students, EditFind(u, t, i)
  PROVE  RowsFit' /\ Stay /\ HeldStay
<1>0. team' = team
  BY DEF EditFind, playerRows
<1>1. CASE Take(u, "edit", NoOne, t, i, {})
  <2>1. TakesFacts("edit", NoOne, t, i, {})
    BY DEF TakesFacts, Ids
  <2> QED BY <1>1, <2>1, ReadFits DEF EditFind
<1>2. ASSUME NEW p \in Players, team[p] # NoOne, Take(u, "edit", p, t, i, {})
      PROVE  RowsFit' /\ Stay /\ HeldStay
  <2>1. TakesFacts("edit", p, t, i, {})
    BY <1>0, <1>2 DEF TakesFacts, Ids
  <2> QED BY <1>2, <2>1, ReadFits DEF EditFind
<1>3. \A p \in Live : p \in Players /\ team[p] # NoOne
  BY DEF Live
<1> QED BY <1>1, <1>2, <1>3 DEF EditFind

LEMMA GiveUpFits ==
  ASSUME RowsFit, NEW u \in Staff, GiveUp(u)
  PROVE  RowsFit' /\ Stay /\ HeldStay
<1>1. TakesFacts("over", NoOne, NoOne, NoOne, {})
  BY DEF TakesFacts, Ids
<1> QED BY <1>1, ReadFits DEF GiveUp, Finish

LEMMA UpdateWriteFits ==
  ASSUME RowsFit, NEW u \in Staff, UpdateWrite(u)
  PROVE  RowsFit' /\ Stay /\ HeldStay
<1> DEFINE p == jplayer[u]
           t == IF jteam[u] = Keep THEN team[p] ELSE jteam[u]
           i == IF jstudent[u] = Keep THEN student[p] ELSE jstudent[u]
<1>1. p \in Players /\ team[p] # NoOne /\ student[p] # NoOne
  BY DEF UpdateWrite, RowsFit, JobsFit, JobFacts, PlayersFit
<1>2. t \in Teams /\ i \in Students
  BY <1>1 DEF RowsFit, JobsFit, PlayersFit, Keep, Ids
<1>3. /\ holder[p] = NoOne /\ team' = [team EXCEPT ![p] = t] /\ student' = [student EXCEPT ![p] = i]
      /\ Take(u, "sync", p, t, i, {})
      /\ UNCHANGED <<removed, disbanded, rosterRows, holder>>
  BY DEF UpdateWrite, Free
<1> NoOne \notin Teams /\ NoOne \notin Students
  BY RosterAssumption
<1> HIDE DEF p, t, i
<1>4. PlayersFit' /\ Stay /\ HeldStay
  BY <1>1, <1>2, <1>3 DEF RowsFit, PlayersFit, RemovedWereThere, Stay, HeldStay, Ids
<1>5. TakesFacts("sync", p, t, i, {})
  BY <1>1, <1>2, <1>4 DEF TakesFacts, Ids, Stay
<1>6. JobsFit'
  BY <1>3, <1>4, <1>5, TakeFits DEF RowsFit
<1>7. RosterFits'
  BY <1>3, <1>4, RosterSame DEF RowsFit
<1> QED BY <1>3, <1>4, <1>6, <1>7 DEF RowsFit, HolderFits

LEMMA UpdateSyncFits ==
  ASSUME RowsFit, NEW u \in Staff, UpdateSync(u)
  PROVE  RowsFit' /\ Stay /\ HeldStay
<1>1. /\ jplayer[u] \in Players /\ team[jplayer[u]] # NoOne
      /\ jteam[u] \in Teams /\ jstudent[u] \in Students
  BY DEF UpdateSync, RowsFit, JobsFit, JobFacts
<1>2. PlayersFit' /\ Stay /\ HeldStay
  BY PlayersSame DEF UpdateSync, RowsFit
<1>3. RosterFits'
  BY <1>1, <1>2, SyncFits DEF UpdateSync, RowsFit, Stay
<1>4. JobsFit'
  BY <1>2, FinishFits DEF UpdateSync, RowsFit
<1> QED BY <1>2, <1>3, <1>4 DEF RowsFit, HolderFits, UpdateSync

LEMMA RemoveWriteFits ==
  ASSUME RowsFit, NEW u \in Staff, RemoveWrite(u)
  PROVE  RowsFit' /\ Stay /\ HeldStay
<1>1. /\ jplayer[u] \in Players /\ team[jplayer[u]] # NoOne /\ jstudent[u] \in Students
      /\ holder[jplayer[u]] = NoOne
  BY DEF RemoveWrite, RowsFit, JobsFit, JobFacts, Free
<1> NoOne \notin Students
  BY RosterAssumption
<1>2. PlayersFit' /\ Stay /\ HeldStay
  BY <1>1 DEF RemoveWrite, RowsFit, PlayersFit, RemovedWereThere, Stay, HeldStay, Ids
<1>3. RosterFits'
  BY <1>2, RosterSame DEF RemoveWrite, RowsFit
<1>4. JobsFit'
  BY <1>2, FinishFits DEF RemoveWrite, RowsFit
<1> QED BY <1>2, <1>3, <1>4 DEF RowsFit, HolderFits, RemoveWrite

LEMMA DisbandWriteFits ==
  ASSUME RowsFit, NEW u \in Staff, DisbandWrite(u)
  PROVE  RowsFit' /\ Stay /\ HeldStay
<1>1. /\ jteam[u] \in Teams /\ jset[u] \subseteq Players \X Ids
      /\ \A x \in jset[u] : x[2] # NoOne /\ team[x[1]] # NoOne /\ holder[x[1]] = NoOne
  BY DEF DisbandWrite, RowsFit, JobsFit, JobFacts, Free
<1>2. \A x \in jset[u] : x[1] \in Players /\ x[2] \in Ids
  BY <1>1
<1> DEFINE given(p) == CHOOSE x \in jset[u] : x[1] = p
<1>3. \A p \in Players : (\E x \in jset[u] : x[1] = p) =>
        given(p) \in jset[u] /\ given(p)[1] = p
  OBVIOUS
<1>4. \A p \in Players : /\ student'[p] \in Ids
                         /\ student'[p] = NoOne <=> student[p] = NoOne
  <2> SUFFICES ASSUME NEW p \in Players
               PROVE  student'[p] \in Ids /\ (student'[p] = NoOne <=> student[p] = NoOne)
    OBVIOUS
  <2>1. student'[p] = IF \E x \in jset[u] : x[1] = p THEN given(p)[2] ELSE student[p]
    BY DEF DisbandWrite
  <2>2. student[p] \in Ids /\ (team[p] = NoOne <=> student[p] = NoOne)
    BY DEF RowsFit, PlayersFit
  <2> HIDE DEF given
  <2> QED BY <2>1, <2>2, <1>1, <1>2, <1>3
<1> HIDE DEF given
<1>5. student' \in [Players -> Ids]
  <2>1. student' = [p \in Players |-> student'[p]]
    BY DEF DisbandWrite
  <2> QED BY <2>1, <1>4
<1>6. team' = team /\ removed' = removed \cup {x[1] : x \in jset[u]}
      /\ disbanded' = disbanded \cup {jteam[u]}
  BY DEF DisbandWrite
<1>7. PlayersFit'
  BY <1>1, <1>2, <1>4, <1>5, <1>6 DEF RowsFit, PlayersFit, RemovedWereThere
<1>8. Stay /\ HeldStay
  BY <1>1, <1>6 DEF Stay, HeldStay
<1>9. RosterFits'
  BY <1>8, RosterSame DEF DisbandWrite, RowsFit
<1>10. JobsFit'
  BY <1>8, FinishFits DEF DisbandWrite, RowsFit
<1> QED BY <1>7, <1>8, <1>9, <1>10 DEF RowsFit, HolderFits, DisbandWrite

LEMMA ImportWriteFits ==
  ASSUME RowsFit, NEW u \in Staff, ImportWrite(u)
  PROVE  RowsFit' /\ Stay /\ HeldStay
<1>1. /\ jplayer[u] \in Players /\ jteam[u] \in Teams /\ jstudent[u] \in Students
      /\ holder[jplayer[u]] = NoOne
  BY DEF ImportWrite, RowsFit, JobsFit, JobFacts, Free
<1> NoOne \notin Teams /\ NoOne \notin Students
  BY RosterAssumption
<1>2. PlayersFit' /\ Stay /\ HeldStay /\ team'[jplayer[u]] # NoOne
  BY <1>1 DEF ImportWrite, RowsFit, PlayersFit, RemovedWereThere, Stay, HeldStay, Ids
<1>3. RosterFits'
  BY <1>1, <1>2, SyncFits DEF ImportWrite, RowsFit
<1>4. JobsFit'
  BY <1>2, FinishFits DEF ImportWrite, RowsFit
<1> QED BY <1>2, <1>3, <1>4 DEF RowsFit, HolderFits, ImportWrite

LEMMA AddWriteFits ==
  ASSUME RowsFit, NEW u \in Staff, AddWrite(u)
  PROVE  RowsFit' /\ Stay /\ HeldStay
<1>1. jteam[u] \in Teams /\ jstudent[u] \in Students
  BY DEF AddWrite, RowsFit, JobsFit, JobFacts
<1>2. PICK p \in Unused :
        /\ team' = [team EXCEPT ![p] = jteam[u]]
        /\ student' = [student EXCEPT ![p] = jstudent[u]]
        /\ Sync(p, jteam[u], jstudent[u])
  BY DEF AddWrite
<1>3. p \in Players /\ team[p] = NoOne /\ holder[p] = NoOne
  BY DEF Unused
<1> NoOne \notin Teams /\ NoOne \notin Students
  BY RosterAssumption
<1>4. PlayersFit' /\ Stay /\ HeldStay /\ team'[p] # NoOne
  BY <1>1, <1>2, <1>3 DEF AddWrite, RowsFit, PlayersFit, RemovedWereThere, Stay, HeldStay, Ids
<1>5. RosterFits'
  BY <1>1, <1>2, <1>3, <1>4, SyncFits DEF AddWrite, RowsFit
<1>6. JobsFit'
  BY <1>4, FinishFits DEF AddWrite, RowsFit
<1> QED BY <1>4, <1>5, <1>6 DEF RowsFit, HolderFits, AddWrite

LEMMA EditWriteFits ==
  ASSUME RowsFit, NEW u \in Staff, EditWrite(u)
  PROVE  RowsFit' /\ Stay /\ HeldStay
<1> DEFINE t == jteam[u]
           leaves(q, out) == rosterTeam[q] = t /\ (t \notin Fitting \/ q \in out \cap Live)
<1>1. /\ t \in Teams /\ jstudent[u] \in Students /\ jplayer[u] \in Players \cup {NoOne}
      /\ jplayer[u] # NoOne => team[jplayer[u]] # NoOne
  BY DEF EditWrite, RowsFit, JobsFit, JobFacts
<1>2. PICK p \in (IF jplayer[u] = NoOne THEN Unused ELSE {jplayer[u]}),
           out \in {{}} \cup {{q} : q \in Players} :
        /\ Free(p)
        /\ team' = [team EXCEPT ![p] = t]
        /\ student' = IF jplayer[u] = NoOne THEN [student EXCEPT ![p] = jstudent[u]] ELSE student
        /\ rosterTeam' = [q \in Players |-> IF q = p THEN t ELSE
                                            IF leaves(q, out) THEN NoOne ELSE rosterTeam[q]]
        /\ rosterStudent' = [q \in Players |-> IF q = p THEN jstudent[u] ELSE
                                               IF leaves(q, out) THEN NoOne ELSE rosterStudent[q]]
  BY DEF EditWrite
<1>3. p \in Players /\ holder[p] = NoOne
  BY <1>1, <1>2 DEF Unused, Free
<1>4. jplayer[u] # NoOne => team[p] # NoOne
  BY <1>1, <1>2
<1>5. /\ profiles' = profiles \cup {t} /\ removed' = removed /\ disbanded' = disbanded
      /\ holder' = holder /\ Finish(u)
  BY DEF EditWrite
<1> NoOne \notin Teams /\ NoOne \notin Students
  BY RosterAssumption
<1> HIDE DEF t, leaves
<1>6. PlayersFit'
  BY <1>1, <1>2, <1>3, <1>4, <1>5 DEF RowsFit, PlayersFit, RemovedWereThere, Ids
<1>7. Stay /\ HeldStay /\ team'[p] # NoOne
  BY <1>1, <1>2, <1>3, <1>5 DEF RowsFit, PlayersFit, Stay, HeldStay
<1>8. RosterFits'
  BY <1>1, <1>2, <1>3, <1>5, <1>7 DEF RowsFit, RosterFits, Stay, Ids
<1>9. JobsFit'
  BY <1>5, <1>7, FinishFits DEF RowsFit
<1> QED BY <1>5, <1>6, <1>7, <1>8, <1>9 DEF RowsFit, HolderFits

(* Every staff request leaves the rows in order, takes no row away and     *)
(* touches no player that an approval holds.                               *)
LEMMA StaffFits ==
  ASSUME RowsFit, RosterNext
  PROVE  RowsFit' /\ Stay /\ HeldStay /\ holder' = holder
<1>1. PICK u \in Staff :
        \/ \E p \in Players, t \in Teams \cup {Keep}, i \in Ids : UpdateRead(u, p, t, i)
        \/ \E p \in Players : RemoveRead(u, p)
        \/ \E t \in Teams : DisbandRead(u, t)
        \/ \E t \in Teams, i \in Students : CreateFind(u, t, i) \/ EditFind(u, t, i)
        \/ UpdateWrite(u) \/ UpdateSync(u) \/ RemoveWrite(u) \/ DisbandWrite(u)
        \/ ImportWrite(u) \/ AddWrite(u) \/ EditWrite(u) \/ GiveUp(u)
  BY DEF RosterNext
<1>2. ASSUME NEW p \in Players, NEW t \in Teams \cup {Keep}, NEW i \in Ids, UpdateRead(u, p, t, i)
      PROVE  RowsFit' /\ Stay /\ HeldStay /\ holder' = holder
  BY <1>2, UpdateReadFits DEF UpdateRead
<1>3. ASSUME NEW p \in Players, RemoveRead(u, p)
      PROVE  RowsFit' /\ Stay /\ HeldStay /\ holder' = holder
  BY <1>3, RemoveReadFits DEF RemoveRead
<1>4. ASSUME NEW t \in Teams, DisbandRead(u, t)
      PROVE  RowsFit' /\ Stay /\ HeldStay /\ holder' = holder
  BY <1>4, DisbandReadFits DEF DisbandRead
<1>5. ASSUME NEW t \in Teams, NEW i \in Students, CreateFind(u, t, i)
      PROVE  RowsFit' /\ Stay /\ HeldStay /\ holder' = holder
  BY <1>5, CreateFindFits DEF CreateFind
<1>6. ASSUME NEW t \in Teams, NEW i \in Students, EditFind(u, t, i)
      PROVE  RowsFit' /\ Stay /\ HeldStay /\ holder' = holder
  BY <1>6, EditFindFits DEF EditFind
<1>7. CASE UpdateWrite(u)
  BY <1>7, UpdateWriteFits DEF UpdateWrite
<1>8. CASE UpdateSync(u)
  BY <1>8, UpdateSyncFits DEF UpdateSync
<1>9. CASE RemoveWrite(u)
  BY <1>9, RemoveWriteFits DEF RemoveWrite
<1>10. CASE DisbandWrite(u)
  BY <1>10, DisbandWriteFits DEF DisbandWrite
<1>11. CASE ImportWrite(u)
  BY <1>11, ImportWriteFits DEF ImportWrite
<1>12. CASE AddWrite(u)
  BY <1>12, AddWriteFits DEF AddWrite
<1>13. CASE EditWrite(u)
  BY <1>13, EditWriteFits DEF EditWrite
<1>14. CASE GiveUp(u)
  BY <1>14, GiveUpFits DEF GiveUp
<1> QED BY <1>1, <1>2, <1>3, <1>4, <1>5, <1>6, <1>7, <1>8, <1>9, <1>10, <1>11, <1>12, <1>13, <1>14

-----------------------------------------------------------------------------
(* The requests on a registration: types and rows *)

RegistrationFits ==
  /\ status \in [Clubs -> WithCoach \cup {"NONE", "SUBMITTED", "APPROVED"}]
  /\ list \in [Clubs -> SUBSET Entries]
  /\ opening \in [Clubs -> BOOLEAN]
  /\ snapshot \in [Clubs -> SUBSET Entries]
  /\ lock \in [Clubs -> {"free", "save", "next", "update", "roster"}]

ApprovalFits ==
  /\ todo \in [Clubs -> SUBSET Entries]
  /\ entry \in [Clubs -> Entries]
  /\ found \in [Clubs -> Players \cup {NoOne}]
  /\ written \in [Clubs -> [Players -> Ids]]
  /\ resolved \in [Clubs -> [Players -> Ids]]

ClearingFits ==
  /\ rowHolder \in [Players -> Clubs \cup {NoOne}]
  /\ doomed \in [Clubs -> SUBSET Players]
  /\ late \in [Clubs -> SUBSET Players]

LEMMA IInvIs ==
  IInv <=> /\ RowsFit /\ RegistrationFits /\ ApprovalFits /\ ClearingFits
           /\ \A c \in Clubs : ClubFacts(c)
           /\ \A c \in Clubs : RowFacts(c)
BY RowsAre DEF IInv, TypeOK, RegistrationFits, ApprovalFits, ClearingFits

LEMMA NoEntryIsOne == NoEntry \in Entries /\ Nothing \in [Players -> Ids]
<1>1. (CHOOSE s \in Students : TRUE) \in Students
  BY RegistrationAssumption
<1> QED BY <1>1 DEF NoEntry, Entries, Nothing, Ids

LEMMA InitFits == Init => RowsFit /\ RegistrationFits /\ ApprovalFits
<1> SUFFICES ASSUME Init PROVE RowsFit /\ RegistrationFits /\ ApprovalFits
  OBVIOUS
<1> NoOne \notin Teams /\ NoOne \notin Students /\ NoOne \notin Players
  BY RosterAssumption
<1>1. \A p \in Start : FirstTeam[p] \in Teams /\ FirstStudent[p] \in Students
  BY RosterAssumption
<1>2. PlayersFit
  BY <1>1 DEF Init, RosterInit, PlayersFit, RemovedWereThere, Ids
<1>3. RosterFits /\ HolderFits
  BY DEF Init, RosterInit, RosterFits, HolderFits, Ids
<1>4. JobsFit
  BY DEF Init, RosterInit, JobsFit, JobFacts, Ids
<1>5. RegistrationFits
  BY DEF Init, RegistrationFits
<1>6. ApprovalFits
  BY NoEntryIsOne DEF Init, ApprovalFits
<1> QED BY <1>2, <1>3, <1>4, <1>5, <1>6 DEF RowsFit

(* What a save stores are entries, and so is what create copies. *)
LEMMA DetachedAreEntries ==
  ASSUME NEW c \in Clubs, NEW l \in Rosters
  PROVE  Detached(c, l) \in SUBSET Entries
<1>1. l \in SUBSET Entries
  BY RegistrationAssumption
<1>2. ASSUME NEW e \in l
      PROVE  [e EXCEPT !.player = IF @ \in Live /\ team[@] = c THEN @ ELSE NoOne] \in Entries
  BY <1>1, <1>2 DEF Entries
<1> QED BY <1>1, <1>2 DEF Detached

LEMMA CopiesAreEntries ==
  ASSUME PlayersFit, NEW c \in Clubs
  PROVE  {[player |-> p, student |-> student[p]] : p \in {q \in Live : team[q] = c}} \in SUBSET Entries
<1>1. ASSUME NEW p \in Live PROVE p \in Players /\ student[p] \in Students
  BY <1>1 DEF Live, PlayersFit, Ids
<1> QED BY <1>1 DEF Entries

LEMMA SameRows ==
  ASSUME RowsFit, UNCHANGED rosterVars
  PROVE  RowsFit'
<1>1. /\ UNCHANGED <<team, student, removed, disbanded>>
      /\ UNCHANGED <<profiles, rosterTeam, rosterStudent, holder>>
      /\ UNCHANGED <<job, jplayer, jteam, jstudent, jset>>
  BY DEF rosterVars, playerRows, rosterRows, jobs
<1>2. PlayersFit' /\ RosterFits' /\ HolderFits'
  BY <1>1 DEF RowsFit, PlayersFit, RosterFits, HolderFits, RemovedWereThere
<1>3. JobsFit'
  BY <1>1 DEF RowsFit, JobsFit, JobFacts
<1> QED BY <1>2, <1>3 DEF RowsFit

LEMMA HolderRows ==
  ASSUME RowsFit, UNCHANGED <<playerRows, rosterRows, jobs>>, HolderFits'
  PROVE  RowsFit'
<1>1. /\ UNCHANGED <<team, student, removed, disbanded>>
      /\ UNCHANGED <<profiles, rosterTeam, rosterStudent>>
      /\ UNCHANGED <<job, jplayer, jteam, jstudent, jset>>
  BY DEF playerRows, rosterRows, jobs
<1>2. PlayersFit' /\ RosterFits'
  BY <1>1 DEF RowsFit, PlayersFit, RosterFits, RemovedWereThere
<1>3. JobsFit'
  BY <1>1 DEF RowsFit, JobsFit, JobFacts
<1> QED BY <1>2, <1>3 DEF RowsFit

LEMMA ReleaseFits ==
  ASSUME RowsFit, RegistrationFits, ApprovalFits, NEW c \in Clubs, Release(c)
  PROVE  /\ HolderFits'
         /\ lock' \in [Clubs -> {"free", "save", "next", "update", "roster"}]
         /\ todo' \in [Clubs -> SUBSET Entries]
         /\ entry' \in [Clubs -> Entries]
         /\ found' \in [Clubs -> Players \cup {NoOne}]
         /\ written' \in [Clubs -> [Players -> Ids]]
         /\ resolved' \in [Clubs -> [Players -> Ids]]
<1>1. HolderFits'
  BY DEF RowsFit, HolderFits, Release
<1>2. /\ lock' \in [Clubs -> {"free", "save", "next", "update", "roster"}]
      /\ todo' \in [Clubs -> SUBSET Entries]
      /\ found' \in [Clubs -> Players \cup {NoOne}]
  BY DEF Release, RegistrationFits, ApprovalFits
<1>3. /\ entry' \in [Clubs -> Entries]
      /\ written' \in [Clubs -> [Players -> Ids]]
      /\ resolved' \in [Clubs -> [Players -> Ids]]
  BY NoEntryIsOne DEF Release, ApprovalFits
<1> QED BY <1>1, <1>2, <1>3

(* The commit of an approval leaves the rows in order: a player that it    *)
(* adds gets his team with his student id, and the roster has both or none.*)
LEMMA CommitFits ==
  ASSUME RowsFit, RegistrationFits, ApprovalFits, NEW c \in Clubs, HoldFacts(c), ApproveCommit(c)
  PROVE  RowsFit' /\ Stay
<1> NoOne \notin Teams /\ c \in Teams /\ c # NoOne
  BY RosterAssumption, RegistrationAssumption
<1>1. /\ profiles' = profiles \cup {c}
      /\ student' = [p \in Players |-> Seen(c, p)]
      /\ team' = [p \in Players |-> IF p \in Resolved(c) /\ team[p] = NoOne THEN c ELSE team[p]]
      /\ rosterTeam' = [p \in Players |-> RosterReplaced(c, p)]
      /\ rosterStudent' = [p \in Players |->
           IF p \in Resolved(c) THEN resolved[c][p]
           ELSE IF RosterReplaced(c, p) = NoOne THEN NoOne ELSE rosterStudent[p]]
      /\ removed' = removed /\ disbanded' = disbanded
      /\ UNCHANGED <<job, jplayer, jteam, jstudent, jset>>
  BY DEF ApproveCommit, jobs
<1>2. /\ written[c] \in [Players -> Ids] /\ resolved[c] \in [Players -> Ids]
      /\ \A p \in Players : p \in Resolved(c) <=> written[c][p] # NoOne
  BY DEF ApprovalFits, HoldFacts, Resolved
<1>3. \A p \in Players : /\ Seen(c, p) \in Ids
                         /\ written[c][p] # NoOne => Seen(c, p) # NoOne
                         /\ written[c][p] = NoOne => Seen(c, p) = student[p]
  BY <1>2 DEF Seen, RowsFit, PlayersFit
<1>4. PlayersFit' /\ Stay
  <2>1. student' \in [Players -> Ids] /\ team' \in [Players -> Teams \cup {NoOne}]
    BY <1>1, <1>3 DEF RowsFit, PlayersFit
  <2>2. \A p \in Players : team'[p] = NoOne <=> student'[p] = NoOne
    BY <1>1, <1>2, <1>3 DEF RowsFit, PlayersFit
  <2>3. Stay
    BY <1>1 DEF Stay
  <2> QED BY <2>1, <2>2, <2>3, <1>1 DEF RowsFit, PlayersFit, RemovedWereThere, Stay
<1>5. RosterFits'
  <2>1. \A p \in Players : /\ p \in Resolved(c) => resolved[c][p] # NoOne /\ resolved[c][p] \in Ids
                           /\ RosterReplaced(c, p) \in Teams \cup {NoOne}
                           /\ p \in Resolved(c) => RosterReplaced(c, p) = c /\ team'[p] # NoOne
                           /\ p \notin Resolved(c) /\ RosterReplaced(c, p) # NoOne =>
                                RosterReplaced(c, p) = rosterTeam[p]
    BY <1>1, <1>2 DEF Resolved, RosterReplaced, RowsFit, RosterFits, PlayersFit
  <2>2. rosterTeam' \in [Players -> Teams \cup {NoOne}] /\ rosterStudent' \in [Players -> Ids]
    BY <1>1, <2>1 DEF RowsFit, RosterFits, Ids
  <2>3. \A p \in Players : /\ rosterTeam'[p] = NoOne <=> rosterStudent'[p] = NoOne
                           /\ rosterTeam'[p] # NoOne => team'[p] # NoOne
    BY <1>1, <1>4, <2>1 DEF RowsFit, RosterFits, Stay
  <2> QED BY <2>2, <2>3, <1>1 DEF RowsFit, RosterFits
<1>6. JobsFit'
  <2>1. \A u \in Staff : JobFacts(u)'
    <3> SUFFICES ASSUME NEW u \in Staff PROVE JobFacts(u)'
      OBVIOUS
    <3>1. JobFacts(u) /\ jplayer[u] \in Players \cup {NoOne} /\ \A x \in jset[u] : x[1] \in Players
      BY DEF RowsFit, JobsFit
    <3> QED BY <3>1, <1>1, <1>4 DEF JobFacts, Stay
  <2> QED BY <2>1, <1>1 DEF RowsFit, JobsFit
<1>7. HolderFits'
  BY ReleaseFits DEF ApproveCommit
<1> QED BY <1>4, <1>5, <1>6, <1>7 DEF RowsFit

LEMMA HeldFits ==
  ASSUME RowsFit, NEW p \in Players, NEW c \in Clubs, holder' = [holder EXCEPT ![p] = c]
  PROVE  HolderFits'
BY RegistrationAssumption DEF RowsFit, HolderFits

(* Every step on a registration keeps the types and the rows. *)
LEMMA RegistrationStepFits ==
  ASSUME RowsFit, RegistrationFits, ApprovalFits, \A c \in Clubs : ClubFacts(c),
         RegistrationNext
  PROVE  RowsFit' /\ RegistrationFits' /\ ApprovalFits' /\ Stay
<1> DEFINE Goal == RowsFit' /\ RegistrationFits' /\ ApprovalFits' /\ Stay
<1> USE DEF WithCoach
<1>1. PICK c \in Clubs :
        \/ CreateRead(c) \/ Create(c) \/ SaveLock(c) \/ SaveWrite(c) \/ Submit(c)
        \/ RequestChanges(c) \/ ApproveLock(c) \/ UpdatePlayer(c) \/ ApproveCommit(c) \/ Abort(c)
        \/ ClearRoster(c) \/ \E p \in Players : ClearRow(c, p) \/ RegisterPlayer(c, p)
        \/ \E e \in todo[c] : Find(c, e) \/ AddPlayer(c, e)
  BY DEF RegistrationNext
<1>2. ASSUME UNCHANGED rosterVars PROVE RowsFit' /\ Stay
  BY <1>2, SameRows DEF Stay, rosterVars, playerRows
<1>3. CASE CreateRead(c)
  <2>1. RowsFit' /\ Stay /\ ApprovalFits'
    BY <1>2, <1>3 DEF CreateRead, ApprovalFits, approval
  <2>2. snapshot' \in [Clubs -> SUBSET Entries]
    BY <1>3, CopiesAreEntries DEF CreateRead, RegistrationFits, RowsFit
  <2>3. RegistrationFits'
    BY <1>3, <2>2 DEF CreateRead, RegistrationFits, regVars
  <2> QED BY <2>1, <2>3
<1>4. CASE Create(c)
  <2>1. RowsFit' /\ Stay /\ ApprovalFits'
    BY <1>2, <1>4 DEF Create, ApprovalFits, approval
  <2>2. RegistrationFits'
    BY <1>4 DEF Create, RegistrationFits, regVars
  <2> QED BY <2>1, <2>2
<1>5. CASE SaveLock(c)
  <2>1. RowsFit' /\ Stay /\ ApprovalFits'
    BY <1>2, <1>5 DEF SaveLock, ApprovalFits, approval
  <2>2. RegistrationFits'
    BY <1>5 DEF SaveLock, RegistrationFits, regVars
  <2> QED BY <2>1, <2>2
<1>6. CASE SaveWrite(c)
  <2>1. RowsFit' /\ Stay /\ ApprovalFits'
    BY <1>2, <1>6 DEF SaveWrite, ApprovalFits, approval
  <2>2. PICK l \in Rosters : list' = [list EXCEPT ![c] = Detached(c, l)]
    BY <1>6 DEF SaveWrite
  <2>3. list' \in [Clubs -> SUBSET Entries]
    BY <2>2, DetachedAreEntries DEF RegistrationFits
  <2>4. RegistrationFits'
    BY <1>6, <2>3 DEF SaveWrite, RegistrationFits
  <2> QED BY <2>1, <2>4
<1>7. CASE Submit(c)
  <2>1. RowsFit' /\ Stay /\ ApprovalFits'
    BY <1>2, <1>7 DEF Submit, ApprovalFits, approval
  <2>2. RegistrationFits'
    BY <1>7 DEF Submit, RegistrationFits
  <2> QED BY <2>1, <2>2
<1>8. CASE RequestChanges(c)
  <2>1. RowsFit' /\ Stay /\ ApprovalFits'
    BY <1>2, <1>8 DEF RequestChanges, ApprovalFits, approval
  <2>2. RegistrationFits'
    BY <1>8 DEF RequestChanges, RegistrationFits
  <2> QED BY <2>1, <2>2
<1>9. CASE ApproveLock(c)
  <2>1. RowsFit' /\ Stay
    BY <1>2, <1>9 DEF ApproveLock
  <2>2. RegistrationFits' /\ ApprovalFits'
    BY <1>9 DEF ApproveLock, RegistrationFits, ApprovalFits, regVars
  <2> QED BY <2>1, <2>2
<1>10. CASE UpdatePlayer(c)
  <2>1. ClubFacts(c) /\ NoOne \notin Players
    BY RosterAssumption
  <2>2. found[c] \in Players
    BY <1>10, <2>1 DEF ClubFacts, LockFacts, UpdatePlayer, ApprovalFits
  <2>3. RowsFit' /\ Stay
    BY <1>10, <2>2, HeldFits, HolderRows DEF UpdatePlayer, Stay, playerRows
  <2>4. RegistrationFits'
    BY <1>10 DEF UpdatePlayer, RegistrationFits, regVars
  <2>5. entry[c].student \in Ids /\ Seen(c, found[c]) \in Ids
    BY <2>2 DEF ApprovalFits, Entries, Ids, Seen, RowsFit, PlayersFit
  <2>6. /\ written' \in [Clubs -> [Players -> Ids]]
        /\ resolved' \in [Clubs -> [Players -> Ids]]
    BY <1>10, <2>2, <2>5 DEF UpdatePlayer, ApprovalFits
  <2>7. /\ found' \in [Clubs -> Players \cup {NoOne}] /\ entry' \in [Clubs -> Entries]
        /\ todo' \in [Clubs -> SUBSET Entries]
    BY <1>10, NoEntryIsOne DEF UpdatePlayer, ApprovalFits
  <2> QED BY <2>3, <2>4, <2>6, <2>7 DEF ApprovalFits
<1>11. CASE ApproveCommit(c)
  <2>1. RowsFit' /\ Stay
    BY <1>11, CommitFits DEF ClubFacts
  <2>2. RegistrationFits' /\ ApprovalFits'
    BY <1>11, ReleaseFits DEF ApproveCommit, RegistrationFits, ApprovalFits
  <2> QED BY <2>1, <2>2
<1>12. CASE Abort(c)
  <2>1. RowsFit' /\ Stay
    BY <1>12, ReleaseFits, HolderRows DEF Abort, Stay, playerRows
  <2>2. RegistrationFits' /\ ApprovalFits'
    BY <1>12, ReleaseFits DEF Abort, RegistrationFits, ApprovalFits, regVars
  <2> QED BY <2>1, <2>2
<1>13. ASSUME NEW e \in todo[c], Find(c, e) PROVE Goal
  <2>1. RowsFit' /\ Stay
    BY <1>2, <1>13 DEF Find
  <2>2. e \in Entries
    BY <1>13 DEF ApprovalFits
  <2>3. PICK p \in (IF e.player \in Own(c) THEN {e.player} ELSE ByStudent(c, e.student)) :
          found' = [found EXCEPT ![c] = p]
    BY <1>13 DEF Find
  <2>4. p \in Players
    BY <2>3 DEF Own, ByStudent, Live
  <2>5. ApprovalFits'
    BY <1>13, <2>2, <2>3, <2>4 DEF Find, ApprovalFits
  <2>6. RegistrationFits'
    BY <1>13 DEF Find, RegistrationFits, regVars
  <2> QED BY <2>1, <2>5, <2>6
<1>14. ASSUME NEW e \in todo[c], AddPlayer(c, e) PROVE Goal
  <2>1. PICK p \in Unused : /\ holder' = [holder EXCEPT ![p] = c]
                            /\ written' = [written EXCEPT ![c][p] = e.student]
                            /\ resolved' = [resolved EXCEPT ![c][p] = e.student]
    BY <1>14 DEF AddPlayer
  <2>2. p \in Players
    BY <2>1 DEF Unused
  <2>3. RowsFit' /\ Stay
    BY <1>14, <2>1, <2>2, HeldFits, HolderRows DEF AddPlayer, Stay, playerRows
  <2>4. e.student \in Ids
    BY <1>14 DEF ApprovalFits, Entries, Ids
  <2>5. ApprovalFits'
    BY <1>14, <2>1, <2>2, <2>4 DEF AddPlayer, ApprovalFits
  <2>6. RegistrationFits'
    BY <1>14 DEF AddPlayer, RegistrationFits, regVars
  <2> QED BY <2>3, <2>5, <2>6
<1>15. ASSUME NEW p \in Players, ClearRow(c, p) \/ RegisterPlayer(c, p) PROVE Goal
  <2>1. RowsFit' /\ Stay /\ ApprovalFits'
    BY <1>2, <1>15 DEF ClearRow, RegisterPlayer, ApprovalFits, approval
  <2>2. RegistrationFits'
    BY <1>15 DEF ClearRow, RegisterPlayer, RegistrationFits, regVars
  <2> QED BY <2>1, <2>2
<1>16. CASE ClearRoster(c)
  <2>1. RowsFit' /\ Stay /\ ApprovalFits'
    BY <1>2, <1>16 DEF ClearRoster, ApprovalFits, approval
  <2>2. RegistrationFits'
    BY <1>16 DEF ClearRoster, RegistrationFits, regVars
  <2> QED BY <2>1, <2>2
<1> QED
  BY <1>1, <1>3, <1>4, <1>5, <1>6, <1>7, <1>8, <1>9, <1>10, <1>11, <1>12, <1>13, <1>14, <1>15, <1>16

-----------------------------------------------------------------------------
(* The approval's progress *)

LEMMA EntriesAreFinite == \A S \in SUBSET Entries : IsFiniteSet(S)
<1>1. IsFiniteSet({NoOne}) /\ IsFiniteSet(Players) /\ IsFiniteSet(Students)
  BY FS_Singleton, RegistrationAssumption
<1>2. IsFiniteSet(Players \cup {NoOne})
  BY <1>1, FS_Union
<1>3. IsFiniteSet((Players \cup {NoOne}) \X Students)
  BY <1>1, <1>2, FS_Product
<1> DEFINE Pairs == (Players \cup {NoOne}) \X Students
           made == [x \in Pairs |-> [player |-> x[1], student |-> x[2]]]
<1>4. made \in Surjection(Pairs, Entries)
  <2>1. ASSUME NEW x \in Pairs PROVE made[x] \in Entries
    BY DEF Entries
  <2>2. ASSUME NEW e \in Entries PROVE \E x \in Pairs : made[x] = e
    <3>1. <<e.player, e.student>> \in Pairs /\ e = [player |-> e.player, student |-> e.student]
      BY DEF Entries
    <3> QED BY <3>1
  <2> HIDE DEF Pairs
  <2>3. made \in [Pairs -> Entries]
    BY <2>1
  <2> HIDE DEF made
  <2> QED BY <2>2, <2>3 DEF Surjection
<1>5. IsFiniteSet(Entries)
  <2> HIDE DEF Pairs, made
  <2> QED BY <1>3, <1>4, FS_Surjection DEF Pairs
<1> QED BY <1>5, FS_Subset

(* One more entry dealt with. *)
Named(r) == {p \in Players : r[p] # NoOne}

LEMMA OneMore ==
  ASSUME NEW r \in [Players -> Ids], NEW q, NEW p \in Players,
         NEW D \in SUBSET Entries, NEW e \in Entries \ D,
         \A x \in Players : q[x] = IF x = p THEN e.student ELSE r[x],
         Cardinality(Named(r)) <= Cardinality(D),
         Cardinality(Named(r)) = Cardinality(D) =>
           \A f \in D : \E x \in Named(r) : r[x] = f.student
  PROVE  /\ Cardinality(Named(q)) <= Cardinality(D \cup {e})
         /\ Cardinality(Named(q)) = Cardinality(D \cup {e}) =>
              \A f \in D \cup {e} : \E x \in Named(q) : q[x] = f.student
<1> DEFINE R == Named(r)
           Q == Named(q)
<1>1. e.student # NoOne
  BY RosterAssumption DEF Entries
<1>2. Q = R \cup {p} /\ R \subseteq Players
  BY <1>1 DEF Named
<1>3. IsFiniteSet(R) /\ IsFiniteSet(D)
  BY <1>2, EntriesAreFinite, RegistrationAssumption, FS_Subset
<1>4. /\ Cardinality(D \cup {e}) = Cardinality(D) + 1
      /\ Cardinality(D) \in Nat /\ Cardinality(R) \in Nat
  BY <1>3, FS_AddElement, FS_CardinalityType
<1>5. CASE p \in R
  <2>1. Q = R
    BY <1>2, <1>5
  <2>2. Cardinality(R) <= Cardinality(D)
    OBVIOUS
  <2>3. Cardinality(Q) < Cardinality(D \cup {e})
    <3> HIDE DEF Q, R
    <3> QED BY <1>4, <2>1, <2>2
  <2>4. Cardinality(Q) <= Cardinality(D \cup {e}) /\ Cardinality(Q) # Cardinality(D \cup {e})
    <3> HIDE DEF Q, R
    <3> QED BY <1>4, <2>1, <2>3
  <2> QED BY <2>4
<1>6. CASE p \notin R
  <2>1. Cardinality(Q) = Cardinality(R) + 1
    <3> HIDE DEF Q, R
    <3> QED BY <1>2, <1>3, <1>6, FS_AddElement
  <2>2. Cardinality(R) <= Cardinality(D)
    OBVIOUS
  <2>3. Cardinality(Q) <= Cardinality(D \cup {e})
    <3> HIDE DEF Q, R
    <3> QED BY <1>4, <2>1, <2>2
  <2>4. ASSUME Cardinality(Q) = Cardinality(D \cup {e}), NEW f \in D \cup {e}
        PROVE  \E x \in Q : q[x] = f.student
    <3>1. Cardinality(R) = Cardinality(D)
      <4> HIDE DEF Q, R
      <4> QED BY <1>4, <2>1, <2>4
    <3>2. CASE f = e
      BY <1>2, <3>2
    <3>3. CASE f \in D
      <4>1. PICK x \in R : r[x] = f.student
        BY <3>1, <3>3
      <4>2. q[x] = r[x] /\ x \in Q
        BY <4>1, <1>2, <1>6
      <4> QED BY <4>1, <4>2
    <3> QED BY <2>4, <3>2, <3>3
  <2> QED BY <2>3, <2>4
<1> QED BY <1>5, <1>6

(* Whoever else does something: the facts about registration d stay, if    *)
(* its fields and its players do.                                          *)
SameRegistration(d) ==
  /\ status'[d] = status[d] /\ list'[d] = list[d] /\ lock'[d] = lock[d]
  /\ todo'[d] = todo[d] /\ entry'[d] = entry[d] /\ found'[d] = found[d]
  /\ written'[d] = written[d] /\ resolved'[d] = resolved[d]
SamePlayers(d) == \A p \in Players : holder'[p] = d <=> holder[p] = d

LEMMA OthersKeep ==
  ASSUME NEW d \in Clubs, ClubFacts(d), SameRegistration(d), SamePlayers(d), Stay
  PROVE  ClubFacts(d)'
<1>1. LockFacts(d)'
  BY DEF ClubFacts, LockFacts, SameRegistration, Approving
<1>2. HoldFacts(d)'
  BY DEF ClubFacts, HoldFacts, SameRegistration, SamePlayers, Approving
<1>3. FoundFacts(d)'
  BY DEF ClubFacts, FoundFacts, SameRegistration, SamePlayers, Stay
<1>4. ListFacts(d)'
  <2>1. Resolved(d)' = Resolved(d) /\ Done(d)' = Done(d) /\ Approving(d)' = Approving(d)
    BY DEF SameRegistration, Resolved, Done, Pending, Approving
  <2>2. ListFacts(d)
    BY DEF ClubFacts
  <2> QED BY <2>1, <2>2 DEF ListFacts, SameRegistration
<1> QED BY <1>1, <1>2, <1>3, <1>4 DEF ClubFacts

LEMMA InitClubs == Init => \A c \in Clubs : ClubFacts(c)
<1> SUFFICES ASSUME Init, NEW c \in Clubs PROVE ClubFacts(c)
  OBVIOUS
<1> NoOne \notin Players /\ c # NoOne
  BY RosterAssumption, RegistrationAssumption
<1>1. ~Approving(c) /\ lock[c] = "free" /\ found[c] = NoOne
      /\ \A p \in Players : written[c][p] = NoOne /\ resolved[c][p] = NoOne /\ holder[p] = NoOne
  BY DEF Init, RosterInit, Approving, Nothing
<1> QED BY <1>1 DEF ClubFacts, LockFacts, HoldFacts, FoundFacts, ListFacts

(* Staff requests. *)
LEMMA StaffClubs ==
  ASSUME RowsFit, RegistrationFits, ApprovalFits, \A c \in Clubs : ClubFacts(c), StaffNext
  PROVE  RowsFit' /\ RegistrationFits' /\ ApprovalFits' /\ \A c \in Clubs : ClubFacts(c)'
<1>1. RowsFit' /\ Stay /\ HeldStay /\ holder' = holder
  BY StaffFits DEF StaffNext
<1>2. RegistrationFits' /\ ApprovalFits'
  BY <1>1 DEF StaffNext, RegistrationFits, ApprovalFits, regVars, approval, RowsFit, PlayersFit
<1>3. ASSUME NEW d \in Clubs PROVE ClubFacts(d)'
  <2>1. SameRegistration(d)
    BY DEF StaffNext, SameRegistration, regVars, approval
  <2>2. SamePlayers(d)
    BY <1>1 DEF SamePlayers
  <2> QED BY <1>1, <2>1, <2>2, OthersKeep
<1> QED BY <1>1, <1>2, <1>3

-----------------------------------------------------------------------------
(* The steps on a registration *)

RegistrationStep(c) ==
  \/ CreateRead(c) \/ Create(c) \/ SaveLock(c) \/ SaveWrite(c) \/ Submit(c)
  \/ RequestChanges(c) \/ ApproveLock(c) \/ UpdatePlayer(c) \/ ApproveCommit(c) \/ Abort(c)
  \/ ClearRoster(c) \/ \E p \in Players : ClearRow(c, p) \/ RegisterPlayer(c, p)
  \/ \E e \in todo[c] : Find(c, e) \/ AddPlayer(c, e)

(* A step on one registration leaves the others alone. *)
LEMMA OtherClubs ==
  ASSUME RowsFit, RegistrationFits, ApprovalFits, NEW c \in Clubs, ClubFacts(c),
         NEW d \in Clubs, d # c, ClubFacts(d), RegistrationStep(c)
  PROVE  SameRegistration(d) /\ SamePlayers(d)
<1> NoOne \notin Players /\ d # NoOne /\ c # NoOne
  BY RosterAssumption, RegistrationAssumption
<1>0. ASSUME UNCHANGED rosterVars PROVE SamePlayers(d)
  BY <1>0 DEF SamePlayers, rosterVars, playerRows
<1>1. CASE CreateRead(c)
  BY <1>0, <1>1 DEF CreateRead, SameRegistration, regVars, approval
<1>2. CASE Create(c)
  BY <1>0, <1>2 DEF Create, SameRegistration, regVars, approval, RegistrationFits
<1>3. CASE SaveLock(c)
  BY <1>0, <1>3 DEF SaveLock, SameRegistration, regVars, approval, RegistrationFits
<1>4. CASE SaveWrite(c)
  BY <1>0, <1>4 DEF SaveWrite, SameRegistration, approval, RegistrationFits
<1>5. CASE Submit(c)
  BY <1>0, <1>5 DEF Submit, SameRegistration, approval, RegistrationFits
<1>6. CASE RequestChanges(c)
  BY <1>0, <1>6 DEF RequestChanges, SameRegistration, approval, RegistrationFits
<1>7. CASE ApproveLock(c)
  BY <1>0, <1>7 DEF ApproveLock, SameRegistration, regVars, RegistrationFits, ApprovalFits
<1>8. CASE UpdatePlayer(c)
  <2>1. SameRegistration(d)
    BY <1>8 DEF UpdatePlayer, SameRegistration, regVars, RegistrationFits, ApprovalFits
  <2>2. SamePlayers(d)
    BY <1>8 DEF UpdatePlayer, SamePlayers, playerRows, RowsFit, HolderFits
  <2> QED BY <2>1, <2>2
<1>9. ASSUME Release(c)
      PROVE  /\ UNCHANGED <<status, list>> => SameRegistration(d)
             /\ status' = [status EXCEPT ![c] = "APPROVED"] /\ list' = list => SameRegistration(d)
             /\ \A p \in Players : holder'[p] = d <=> holder[p] = d
  BY <1>9 DEF Release, SameRegistration, RegistrationFits, ApprovalFits
<1>10. CASE ApproveCommit(c)
  <2>1. SameRegistration(d) /\ \A p \in Players : holder'[p] = d <=> holder[p] = d
    BY <1>9, <1>10 DEF ApproveCommit
  <2> QED BY <2>1, <1>10 DEF ApproveCommit, SamePlayers
<1>11. CASE Abort(c)
  BY <1>9, <1>11 DEF Abort, SamePlayers, playerRows, regVars
<1>12. ASSUME NEW e \in todo[c], Find(c, e)
       PROVE  SameRegistration(d) /\ SamePlayers(d)
  <2>1. SamePlayers(d)
    BY <1>0, <1>12 DEF Find
  <2>2. PICK p : found' = [found EXCEPT ![c] = p]
    BY <1>12 DEF Find
  <2> QED BY <2>1, <2>2, <1>12 DEF Find, SameRegistration, regVars, RegistrationFits, ApprovalFits
<1>13. ASSUME NEW e \in todo[c], AddPlayer(c, e)
       PROVE  SameRegistration(d) /\ SamePlayers(d)
  <2>1. PICK p \in Unused : /\ holder' = [holder EXCEPT ![p] = c]
                            /\ written' = [written EXCEPT ![c][p] = e.student]
                            /\ resolved' = [resolved EXCEPT ![c][p] = e.student]
    BY <1>13 DEF AddPlayer
  <2>2. SameRegistration(d)
    BY <2>1, <1>13 DEF AddPlayer, SameRegistration, regVars, RegistrationFits, ApprovalFits
  <2>3. SamePlayers(d)
    BY <2>1, <1>13 DEF AddPlayer, SamePlayers, playerRows, RowsFit, HolderFits, Unused
  <2> QED BY <2>2, <2>3
<1>14. CASE ClearRoster(c)
  BY <1>0, <1>14 DEF ClearRoster, SameRegistration, regVars, approval, RegistrationFits
<1>15. ASSUME NEW p \in Players, ClearRow(c, p) \/ RegisterPlayer(c, p)
       PROVE  SameRegistration(d) /\ SamePlayers(d)
  BY <1>0, <1>15 DEF ClearRow, RegisterPlayer, SameRegistration, regVars, approval
<1> QED
  BY <1>1, <1>2, <1>3, <1>4, <1>5, <1>6, <1>7, <1>8, <1>10, <1>11, <1>12, <1>13, <1>14, <1>15
  DEF RegistrationStep

(* As long as no approval runs, there is little to know. *)
LEMMA NotApproving ==
  ASSUME NEW c \in Clubs, ClubFacts(c), ~Approving(c)', lock'[c] = "save" => status'[c] \in WithCoach,
         found'[c] = NoOne, written'[c] = written[c], resolved'[c] = resolved[c],
         ~Approving(c), holder' = holder
  PROVE  ClubFacts(c)'
<1> NoOne \notin Players
  BY RosterAssumption
<1>1. LockFacts(c)' /\ ListFacts(c)'
  BY DEF LockFacts, ListFacts, Approving, WithCoach
<1>2. HoldFacts(c)'
  BY DEF ClubFacts, HoldFacts
<1>3. FoundFacts(c)'
  BY DEF ClubFacts, HoldFacts, FoundFacts
<1> QED BY <1>1, <1>2, <1>3 DEF ClubFacts

(* A registration that is let go holds nobody. *)
LEMMA ReleaseClub ==
  ASSUME RowsFit, RegistrationFits, ApprovalFits, NEW c \in Clubs, Release(c)
  PROVE  ClubFacts(c)'
<1> NoOne \notin Players /\ c # NoOne
  BY RosterAssumption, RegistrationAssumption
<1>1. /\ lock'[c] = "free" /\ found'[c] = NoOne
      /\ written'[c] = Nothing /\ resolved'[c] = Nothing
      /\ \A p \in Players : holder'[p] # c
  BY DEF Release, RegistrationFits, ApprovalFits
<1>2. LockFacts(c)' /\ ListFacts(c)'
  BY <1>1 DEF LockFacts, ListFacts, Approving
<1>3. HoldFacts(c)' /\ FoundFacts(c)'
  BY <1>1 DEF HoldFacts, FoundFacts, Nothing
<1> QED BY <1>2, <1>3 DEF ClubFacts

LEMMA ApproveLockClub ==
  ASSUME RegistrationFits, ApprovalFits, NEW c \in Clubs, ClubFacts(c), ApproveLock(c)
  PROVE  ClubFacts(c)'
<1> NoOne \notin Players
  BY RosterAssumption
<1>1. /\ lock[c] = "free" /\ lock'[c] = "next" /\ todo'[c] = list[c] /\ list' = list
      /\ status' = status /\ status[c] = "SUBMITTED"
      /\ holder' = holder /\ team' = team /\ removed' = removed
      /\ entry' = entry /\ found' = found /\ written' = written /\ resolved' = resolved
  BY DEF ApproveLock, RegistrationFits, ApprovalFits, regVars, rosterVars, playerRows
<1>2. found[c] = NoOne /\ \A p \in Players : holder[p] # c /\ written[c][p] = NoOne /\ resolved[c][p] = NoOne
  BY <1>1 DEF ClubFacts, LockFacts, HoldFacts, Approving
<1>3. LockFacts(c)' /\ HoldFacts(c)' /\ FoundFacts(c)'
  BY <1>1, <1>2 DEF LockFacts, HoldFacts, FoundFacts, Approving
<1>4. Resolved(c)' = {} /\ Done(c)' = {}
  BY <1>1, <1>2 DEF Resolved, Done, Pending
<1>5. Cardinality({}) = 0
  BY FS_EmptySet
<1>6. ListFacts(c)'
  BY <1>1, <1>4, <1>5 DEF ListFacts
<1> QED BY <1>3, <1>6 DEF ClubFacts

LEMMA FindClub ==
  ASSUME RowsFit, RegistrationFits, ApprovalFits, NEW c \in Clubs, ClubFacts(c),
         NEW e \in todo[c], Find(c, e)
  PROVE  ClubFacts(c)'
<1> NoOne \notin Players /\ c # NoOne
  BY RosterAssumption, RegistrationAssumption
<1>1. PICK p \in (IF e.player \in Own(c) THEN {e.player} ELSE ByStudent(c, e.student)) :
        found' = [found EXCEPT ![c] = p]
  BY DEF Find
<1>2. p \in Own(c)
  BY <1>1 DEF ByStudent
<1>3. /\ p \in Players
      /\ team[p] # NoOne \/ holder[p] = c
      /\ p \notin removed /\ team[p] \in {c, NoOne}
  BY <1>2 DEF Own, Live, RowsFit, PlayersFit, RemovedWereThere
<1>4. /\ lock[c] = "next" /\ lock'[c] = "update" /\ todo'[c] = todo[c] \ {e} /\ entry'[c] = e
      /\ found'[c] = p /\ list' = list /\ status' = status
      /\ holder' = holder /\ team' = team /\ removed' = removed
      /\ written' = written /\ resolved' = resolved
  BY <1>1 DEF Find, RegistrationFits, ApprovalFits, regVars, rosterVars, playerRows
<1>5. LockFacts(c)'
  BY <1>3, <1>4 DEF ClubFacts, LockFacts, Approving
<1>6. HoldFacts(c)'
  BY <1>4 DEF ClubFacts, HoldFacts, Approving
<1>7. FoundFacts(c)'
  BY <1>3, <1>4 DEF ClubFacts, FoundFacts
<1>8. todo[c] \subseteq list[c]
  BY <1>4 DEF ClubFacts, ListFacts, Approving
<1>9. Resolved(c)' = Resolved(c) /\ Done(c)' = Done(c)
  BY <1>4, <1>8 DEF Resolved, Done, Pending
<1>10. ListFacts(c)'
  BY <1>4, <1>8, <1>9 DEF ClubFacts, ListFacts, Approving
<1> QED BY <1>5, <1>6, <1>7, <1>10 DEF ClubFacts

(* One entry more is dealt with by player p, who is held from now on. *)
LEMMA EntryDone ==
  ASSUME RowsFit, RegistrationFits, ApprovalFits, NEW c \in Clubs, ClubFacts(c), Approving(c),
         NEW p \in Players, NEW e \in list[c] \ Done(c), NEW w \in Ids \ {NoOne},
         team[p] # NoOne \/ holder[p] \in {NoOne, c},
         holder' = [holder EXCEPT ![p] = c],
         written' = [written EXCEPT ![c][p] = w],
         resolved' = [resolved EXCEPT ![c][p] = e.student],
         UNCHANGED <<status, list, team, removed>>,
         lock'[c] = "next", found'[c] = NoOne, todo'[c] \subseteq todo[c],
         Done(c)' = Done(c) \cup {e}
  PROVE  ClubFacts(c)'
<1> NoOne \notin Players /\ c # NoOne
  BY RosterAssumption, RegistrationAssumption
<1>1. e \in Entries /\ e.student # NoOne
  BY RosterAssumption DEF RegistrationFits, Entries
<1>2. \A q \in Players : /\ holder'[q] = IF q = p THEN c ELSE holder[q]
                         /\ written'[c][q] = IF q = p THEN w ELSE written[c][q]
                         /\ resolved'[c][q] = IF q = p THEN e.student ELSE resolved[c][q]
  BY DEF RowsFit, HolderFits, ApprovalFits
<1>3. LockFacts(c)'
  BY DEF ClubFacts, LockFacts, Approving
<1>4. HoldFacts(c)'
  BY <1>1, <1>2 DEF ClubFacts, HoldFacts, Approving
<1>5. FoundFacts(c)'
  BY <1>2 DEF ClubFacts, FoundFacts
<1>6. /\ \A q \in Resolved(c) : \E f \in list[c] : resolved[c][q] = f.student
      /\ Cardinality(Resolved(c)) <= Cardinality(Done(c))
      /\ Cardinality(Resolved(c)) = Cardinality(Done(c)) =>
           \A f \in Done(c) : \E q \in Resolved(c) : resolved[c][q] = f.student
      /\ todo[c] \subseteq list[c]
  BY DEF ClubFacts, ListFacts
<1>7. \A q \in Resolved(c)' : \E f \in list'[c] : resolved'[c][q] = f.student
  BY <1>2, <1>6 DEF Resolved
<1>8. /\ resolved[c] \in [Players -> Ids] /\ Done(c) \in SUBSET Entries
      /\ resolved'[c] = [resolved[c] EXCEPT ![p] = e.student]
  BY DEF ApprovalFits, RegistrationFits, Done
<1> DEFINE D == Done(c)
           r == resolved[c]
           q == resolved'[c]
<1>9. /\ Resolved(c) = Named(r) /\ Resolved(c)' = Named(q)
      /\ r \in [Players -> Ids] /\ \A x \in Players : q[x] = IF x = p THEN e.student ELSE r[x]
      /\ D \in SUBSET Entries /\ e \in Entries \ D
  BY <1>1, <1>8 DEF Resolved, Named
<1>10. /\ Cardinality(Named(q)) <= Cardinality(D \cup {e})
       /\ Cardinality(Named(q)) = Cardinality(D \cup {e}) =>
            \A f \in D \cup {e} : \E x \in Named(q) : q[x] = f.student
  <2>1. /\ Cardinality(Named(r)) <= Cardinality(D)
        /\ Cardinality(Named(r)) = Cardinality(D) =>
             \A f \in D : \E x \in Named(r) : r[x] = f.student
    BY <1>6, <1>9
  <2>2. p \in Players /\ r \in [Players -> Ids]
    BY <1>9
  <2>3. D \in SUBSET Entries /\ e \in Entries \ D
    BY <1>9
  <2>4. \A x \in Players : q[x] = IF x = p THEN e.student ELSE r[x]
    BY <1>9
  <2> HIDE DEF D, r, q
  <2> QED BY ONLY <2>1, <2>2, <2>3, <2>4, OneMore
<1>11. /\ Cardinality(Resolved(c)') <= Cardinality(Done(c)')
       /\ Cardinality(Resolved(c)') = Cardinality(Done(c)') =>
            \A f \in Done(c)' : \E x \in Resolved(c)' : resolved'[c][x] = f.student
  BY <1>9, <1>10
<1>12. ListFacts(c)'
  BY <1>6, <1>7, <1>11 DEF ListFacts
<1> QED BY <1>3, <1>4, <1>5, <1>12 DEF ClubFacts

LEMMA UpdatePlayerClub ==
  ASSUME RowsFit, RegistrationFits, ApprovalFits, NEW c \in Clubs, ClubFacts(c),
         UpdatePlayer(c)
  PROVE  ClubFacts(c)'
<1> DEFINE p == found[c]
           e == entry[c]
           w == IF p = e.player THEN e.student ELSE Seen(c, p)
<1> NoOne \notin Players /\ c # NoOne /\ NoOne \notin Students
  BY RosterAssumption, RegistrationAssumption
<1>1. lock[c] = "update" /\ holder[p] \in {NoOne, c} /\ Approving(c)
  BY DEF UpdatePlayer, Approving
<1>2. p \in Players
  BY <1>1 DEF ClubFacts, LockFacts, ApprovalFits
<1>3. team[p] # NoOne \/ holder[p] = c
  BY <1>2 DEF ClubFacts, FoundFacts
<1>4. e \in list[c] \ todo[c] /\ e \notin Done(c) /\ e \in Entries
  BY <1>1 DEF ClubFacts, ListFacts, Done, Pending, ApprovalFits
<1>5. w \in Ids \ {NoOne}
  <2>1. e.student \in Students
    BY <1>4 DEF Entries
  <2>2. Seen(c, p) \in Ids /\ Seen(c, p) # NoOne
    <3>1. written[c][p] \in Ids /\ student[p] \in Ids /\ (team[p] = NoOne <=> student[p] = NoOne)
      BY <1>2 DEF ApprovalFits, RowsFit, PlayersFit
    <3>2. written[c][p] # NoOne <=> holder[p] = c
      BY <1>2 DEF ClubFacts, HoldFacts
    <3> QED BY <1>3, <3>1, <3>2 DEF Seen
  <2> QED BY <2>1, <2>2 DEF Ids
<1>6. /\ holder' = [holder EXCEPT ![p] = c]
      /\ written' = [written EXCEPT ![c][p] = w]
      /\ resolved' = [resolved EXCEPT ![c][p] = e.student]
      /\ UNCHANGED <<status, list, team, removed>>
      /\ lock'[c] = "next" /\ found'[c] = NoOne /\ todo' = todo
  BY DEF UpdatePlayer, playerRows, regVars, RegistrationFits, ApprovalFits
<1>7. Done(c)' = Done(c) \cup {e}
  BY <1>1, <1>4, <1>6 DEF Done, Pending
<1> HIDE DEF p, e, w
<1> QED BY <1>1, <1>2, <1>3, <1>4, <1>5, <1>6, <1>7, EntryDone

LEMMA AddPlayerClub ==
  ASSUME RowsFit, RegistrationFits, ApprovalFits, NEW c \in Clubs, ClubFacts(c),
         NEW e \in todo[c], AddPlayer(c, e)
  PROVE  ClubFacts(c)'
<1> NoOne \notin Students
  BY RosterAssumption
<1>1. PICK p \in Unused : /\ holder' = [holder EXCEPT ![p] = c]
                          /\ written' = [written EXCEPT ![c][p] = e.student]
                          /\ resolved' = [resolved EXCEPT ![c][p] = e.student]
  BY DEF AddPlayer
<1>2. p \in Players /\ team[p] = NoOne /\ holder[p] = NoOne /\ p \notin removed
  BY <1>1 DEF Unused, RowsFit, PlayersFit, RemovedWereThere
<1>3. /\ lock[c] = "next" /\ Approving(c) /\ lock' = lock /\ found' = found
      /\ todo'[c] = todo[c] \ {e} /\ entry' = entry
      /\ UNCHANGED <<status, list, team, removed>>
  BY DEF AddPlayer, Approving, playerRows, regVars, ApprovalFits
<1>4. found'[c] = NoOne
  BY <1>3 DEF ClubFacts, LockFacts
<1>5. e \in list[c] \ Done(c) /\ e.student \in Ids \ {NoOne}
  BY <1>3 DEF ClubFacts, ListFacts, Done, Pending, ApprovalFits, Entries, Ids
<1>6. Done(c)' = Done(c) \cup {e}
  BY <1>3, <1>5 DEF Done, Pending
<1>7. todo'[c] \subseteq todo[c] /\ lock'[c] = "next"
  BY <1>3
<1>8. team[p] # NoOne \/ holder[p] \in {NoOne, c}
  BY <1>2
<1>9. UNCHANGED <<status, list, team, removed>>
  BY <1>3
<1> QED BY <1>1, <1>2, <1>3, <1>4, <1>5, <1>6, <1>7, <1>8, <1>9, EntryDone

LEMMA ClearRosterClub ==
  ASSUME RegistrationFits, NEW c \in Clubs, ClubFacts(c), ClearRoster(c)
  PROVE  ClubFacts(c)'
<1>1. /\ lock[c] = "next" /\ lock'[c] = "roster" /\ todo[c] = {}
      /\ UNCHANGED <<status, list, todo, entry, found, written, resolved, holder, team>>
  BY DEF ClearRoster, RegistrationFits, regVars, approval, rosterVars, playerRows
<1>2. LockFacts(c)' /\ HoldFacts(c)' /\ FoundFacts(c)'
  BY <1>1 DEF ClubFacts, LockFacts, HoldFacts, FoundFacts, Approving
<1>3. Resolved(c)' = Resolved(c) /\ Done(c)' = Done(c)
  BY <1>1 DEF Resolved, Done, Pending
<1>4. ListFacts(c)'
  BY <1>1, <1>3 DEF ClubFacts, ListFacts, Approving
<1> QED BY <1>2, <1>4 DEF ClubFacts

(* Every step on a registration keeps the facts about it. *)
LEMMA ActingClub ==
  ASSUME RowsFit, RegistrationFits, ApprovalFits, NEW c \in Clubs, ClubFacts(c),
         RegistrationStep(c)
  PROVE  ClubFacts(c)'
<1>1. LockFacts(c)
  BY DEF ClubFacts
<1>2. CASE CreateRead(c)
  <2>1. SameRegistration(c) /\ SamePlayers(c) /\ Stay
    BY <1>2 DEF CreateRead, SameRegistration, SamePlayers, Stay, regVars, approval, rosterVars, playerRows
  <2> QED BY <2>1, OthersKeep
<1>3. CASE Create(c)
  <2>1. /\ lock' = lock /\ holder' = holder /\ found' = found
        /\ written' = written /\ resolved' = resolved
    BY <1>3 DEF Create, rosterVars, approval
  <2>2. CASE status[c] = "NONE"
    <3>1. ~Approving(c) /\ lock[c] # "save" /\ found[c] = NoOne
      BY <1>1, <2>2 DEF LockFacts, Approving, WithCoach
    <3> QED BY <2>1, <3>1, NotApproving DEF Approving
  <2>3. CASE status[c] # "NONE"
    <3>1. SameRegistration(c) /\ SamePlayers(c) /\ Stay
      BY <1>3, <2>3 DEF Create, SameRegistration, SamePlayers, Stay, regVars, approval, rosterVars, playerRows
    <3> QED BY <3>1, OthersKeep
  <2> QED BY <2>2, <2>3
<1>4. CASE SaveLock(c)
  <2>1. /\ lock[c] = "free" /\ lock'[c] = "save" /\ holder' = holder /\ found' = found
        /\ written' = written /\ resolved' = resolved
        /\ status'[c] \in WithCoach
    BY <1>4 DEF SaveLock, SaveBegins, rosterVars, regVars, approval, RegistrationFits
  <2>2. ~Approving(c) /\ ~Approving(c)' /\ found[c] = NoOne
    BY <1>1, <2>1 DEF LockFacts, Approving
  <2> QED BY <2>1, <2>2, NotApproving
<1>5. CASE SaveWrite(c)
  <2>1. /\ lock[c] = "save" /\ lock'[c] = "free" /\ holder' = holder /\ found' = found
        /\ written' = written /\ resolved' = resolved
    BY <1>5 DEF SaveWrite, rosterVars, approval, RegistrationFits
  <2>2. ~Approving(c) /\ ~Approving(c)' /\ found[c] = NoOne
    BY <1>1, <2>1 DEF LockFacts, Approving
  <2> QED BY <2>1, <2>2, NotApproving
<1>6. CASE Submit(c) \/ RequestChanges(c)
  <2>1. /\ lock[c] = "free" /\ lock' = lock /\ holder' = holder /\ found' = found
        /\ written' = written /\ resolved' = resolved
    BY <1>6 DEF Submit, RequestChanges, rosterVars, approval
  <2>2. ~Approving(c) /\ ~Approving(c)' /\ found[c] = NoOne
    BY <1>1, <2>1 DEF LockFacts, Approving
  <2> QED BY <2>1, <2>2, NotApproving
<1>7. CASE ApproveLock(c)
  BY <1>7, ApproveLockClub
<1>8. CASE UpdatePlayer(c)
  BY <1>8, UpdatePlayerClub
<1>9. CASE ApproveCommit(c) \/ Abort(c)
  BY <1>9, ReleaseClub DEF ApproveCommit, Abort
<1>10. ASSUME NEW e \in todo[c], Find(c, e) PROVE ClubFacts(c)'
  BY <1>10, FindClub
<1>11. ASSUME NEW e \in todo[c], AddPlayer(c, e) PROVE ClubFacts(c)'
  BY <1>11, AddPlayerClub
<1>12. ASSUME NEW p \in Players, ClearRow(c, p) \/ RegisterPlayer(c, p) PROVE ClubFacts(c)'
  <2>1. SameRegistration(c) /\ SamePlayers(c) /\ Stay
    BY <1>12 DEF ClearRow, RegisterPlayer, SameRegistration, SamePlayers, Stay, regVars, approval,
      rosterVars, playerRows
  <2> QED BY <2>1, OthersKeep
<1>13. CASE ClearRoster(c)
  BY <1>13, ClearRosterClub
<1> QED BY <1>2, <1>3, <1>4, <1>5, <1>6, <1>7, <1>8, <1>9, <1>10, <1>11, <1>12, <1>13 DEF RegistrationStep

-----------------------------------------------------------------------------
(* The rows that an approval deletes and writes *)

(* What the facts about the rows of c rest on. *)
SameClearing(c) ==
  /\ lock'[c] = "roster" <=> lock[c] = "roster"
  /\ doomed'[c] = doomed[c]
  /\ \A p \in Players : /\ rowHolder'[p] = c <=> rowHolder[p] = c
                        /\ p \in late'[c] => p \in late[c] \/ rosterTeam'[p] # rosterTeam[p]
                        /\ p \in late[c] => p \in late'[c]
                        /\ rowHolder[p] = c => rosterTeam'[p] = rosterTeam[p]
                        /\ rosterTeam'[p] = c => rosterTeam[p] = c \/ p \in late'[c] \/ lock[c] # "roster"

LEMMA OtherRows ==
  ASSUME NEW c \in Clubs, RowFacts(c), SameClearing(c)
  PROVE  RowFacts(c)'
BY DEF RowFacts, SameClearing

LEMMA StaffRows ==
  ASSUME ClearingFits, NEW c \in Clubs, RowFacts(c), StaffNext
  PROVE  RowFacts(c)'
<1> c # NoOne
  BY RosterAssumption, RegistrationAssumption
<1>1. /\ lock' = lock /\ doomed' = doomed /\ rowHolder' = rowHolder
      /\ late'[c] = IF lock[c] # "roster" THEN late[c] ELSE
                    late[c] \cup {p \in Players : rosterTeam'[p] = c /\ rosterTeam[p] # c}
      /\ \A p \in Players : rowHolder[p] # NoOne => rosterTeam'[p] = rosterTeam[p]
  BY DEF StaffNext, Waits
<1>2. SameClearing(c)
  BY <1>1 DEF SameClearing
<1> QED BY <1>2, OtherRows

(* A step of another team's approval, or one before the rows' deletion. *)
LEMMA StepRows ==
  ASSUME RegistrationFits, ClearingFits, NEW c \in Clubs, RowFacts(c), NEW d \in Clubs, RegistrationStep(d)
  PROVE  RowFacts(c)' /\ ClearingFits'
<1> c # NoOne /\ d # NoOne
  BY RosterAssumption, RegistrationAssumption
<1>1. ASSUME UNCHANGED <<rosterVars, clearing>> \/ UNCHANGED <<playerRows, rosterRows, clearing>>,
             lock'[c] = "roster" <=> lock[c] = "roster"
      PROVE  RowFacts(c)' /\ ClearingFits'
  <2>1. UNCHANGED <<rosterTeam, rowHolder, doomed, late>>
    BY <1>1 DEF rosterVars, rosterRows, clearing
  <2>2. SameClearing(c)
    BY <1>1, <2>1 DEF SameClearing
  <2> QED BY <2>1, <2>2, OtherRows DEF ClearingFits
<1>2. CASE CreateRead(d) \/ Create(d) \/ Submit(d) \/ RequestChanges(d)
  BY <1>1, <1>2 DEF CreateRead, Create, Submit, RequestChanges
<1>3. CASE SaveLock(d) \/ SaveWrite(d) \/ ApproveLock(d)
  BY <1>1, <1>3 DEF SaveLock, SaveBegins, SaveWrite, ApproveLock, RegistrationFits
<1>4. CASE UpdatePlayer(d)
  BY <1>1, <1>4 DEF UpdatePlayer, RegistrationFits
<1>5. ASSUME NEW e \in todo[d], Find(d, e) \/ AddPlayer(d, e)
      PROVE  RowFacts(c)' /\ ClearingFits'
  BY <1>1, <1>5 DEF Find, AddPlayer, RegistrationFits
<1>6. ASSUME Release(d)
      PROVE  /\ ClearingFits'
             /\ c = d => lock'[c] = "free" /\ \A p \in Players : rowHolder'[p] # c
             /\ c # d => /\ lock'[c] = lock[c] /\ doomed'[c] = doomed[c] /\ late'[c] = late[c]
                         /\ \A p \in Players : rowHolder'[p] = c <=> rowHolder[p] = c
  BY <1>6 DEF Release, ClearingFits, RegistrationFits
<1>7. ASSUME Release(d),
             \A p \in Players : rosterTeam'[p] = c => rosterTeam[p] = c \/ c = d
      PROVE  RowFacts(c)' /\ ClearingFits'
  BY <1>6, <1>7 DEF RowFacts
<1>8. CASE ApproveCommit(d)
  <2>1. \A p \in Players : rosterTeam'[p] = IF p \in Resolved(d) THEN d ELSE
                                            IF rowHolder[p] = d THEN NoOne ELSE rosterTeam[p]
    BY <1>8 DEF ApproveCommit, RosterReplaced
  <2>2. Release(d) /\ \A p \in Resolved(d) : rowHolder[p] = d
    BY <1>8 DEF ApproveCommit
  <2> QED BY <1>7, <2>1, <2>2
<1>9. CASE Abort(d)
  <2>1. Release(d) /\ UNCHANGED rosterTeam
    BY <1>9 DEF Abort, rosterRows
  <2> QED BY <1>7, <2>1
<1>10. CASE ClearRoster(d)
  <2>1. /\ lock' = [lock EXCEPT ![d] = "roster"]
        /\ doomed' = [doomed EXCEPT ![d] = {p \in Players : rosterTeam[p] = d}]
        /\ UNCHANGED <<rosterTeam, rowHolder, late>>
    BY <1>10 DEF ClearRoster, rosterVars, rosterRows
  <2> QED BY <2>1 DEF RowFacts, ClearingFits, RegistrationFits
<1>11. ASSUME NEW p \in Players, ClearRow(d, p)
       PROVE  RowFacts(c)' /\ ClearingFits'
  <2>1. /\ lock' = lock /\ rosterTeam' = rosterTeam /\ lock[d] = "roster" /\ rowHolder[p] = NoOne
        /\ doomed' = [doomed EXCEPT ![d] = @ \ {p}]
        /\ \/ /\ rowHolder' = [rowHolder EXCEPT ![p] = d]
              /\ late' = [late EXCEPT ![d] = @ \ {p}]
           \/ (rosterTeam[p] # d \/ p \in late[d]) /\ UNCHANGED <<rowHolder, late>>
    BY <1>11 DEF ClearRow, rosterVars, rosterRows
  <2> QED BY <2>1 DEF RowFacts, ClearingFits
<1>12. ASSUME NEW p \in Players, RegisterPlayer(d, p)
       PROVE  RowFacts(c)' /\ ClearingFits'
  <2>1. /\ lock' = lock /\ rosterTeam' = rosterTeam /\ lock[d] = "roster" /\ rowHolder[p] \in {NoOne, d}
        /\ doomed' = doomed
        /\ rowHolder' = [rowHolder EXCEPT ![p] = d]
        /\ late' = [late EXCEPT ![d] = @ \ {p}]
    BY <1>12 DEF RegisterPlayer, rosterVars, rosterRows
  <2> QED BY <2>1 DEF RowFacts, ClearingFits
<1> QED BY <1>2, <1>3, <1>4, <1>5, <1>8, <1>9, <1>10, <1>11, <1>12 DEF RegistrationStep

-----------------------------------------------------------------------------
(* The invariant *)

LEMMA Initially == Init => IInv
<1> SUFFICES ASSUME Init PROVE IInv
  OBVIOUS
<1> NoOne \notin Clubs
  BY RosterAssumption, RegistrationAssumption
<1>1. ClearingFits /\ \A c \in Clubs : RowFacts(c)
  BY DEF Init, RosterInit, ClearingFits, RowFacts
<1> QED BY <1>1, InitFits, InitClubs, IInvIs

LEMMA Steps == IInv /\ [Next]_vars => IInv'
<1> SUFFICES ASSUME IInv, [Next]_vars PROVE IInv'
  OBVIOUS
<1>1. /\ RowsFit /\ RegistrationFits /\ ApprovalFits /\ ClearingFits
      /\ \A c \in Clubs : ClubFacts(c)
      /\ \A c \in Clubs : RowFacts(c)
  BY IInvIs
<1>2. ASSUME RowsFit', RegistrationFits', ApprovalFits', ClearingFits',
             \A c \in Clubs : ClubFacts(c)', \A c \in Clubs : RowFacts(c)'
      PROVE  IInv'
  BY <1>2 DEF IInv, TypeOK, RosterTypeOK, RowsFit, PlayersFit, RosterFits, JobsFit, HolderFits,
    RegistrationFits, ApprovalFits, ClearingFits
<1>3. CASE RegistrationNext
  <2>1. RowsFit' /\ RegistrationFits' /\ ApprovalFits' /\ Stay
    BY <1>1, <1>3, RegistrationStepFits
  <2>2. PICK c \in Clubs : RegistrationStep(c)
    BY <1>3 DEF RegistrationNext, RegistrationStep
  <2>3. ASSUME NEW d \in Clubs PROVE ClubFacts(d)'
    <3>1. CASE d = c
      BY <1>1, <1>3, <2>2, <3>1, ActingClub
    <3>2. CASE d # c
      <4>1. SameRegistration(d) /\ SamePlayers(d)
        BY <1>1, <1>3, <2>2, <3>2, OtherClubs
      <4> QED BY <1>1, <2>1, <4>1, OthersKeep
    <3> QED BY <3>1, <3>2
  <2>4. ClearingFits' /\ \A d \in Clubs : RowFacts(d)'
    BY <1>1, <2>2, StepRows
  <2> QED BY <1>2, <2>1, <2>3, <2>4
<1>4. CASE StaffNext
  <2>1. \A c \in Clubs : RowFacts(c)'
    BY <1>1, <1>4, StaffRows
  <2>2. ClearingFits'
    BY <1>1, <1>4 DEF StaffNext, ClearingFits
  <2> QED BY <1>1, <1>2, <1>4, <2>1, <2>2, StaffClubs
<1>5. CASE UNCHANGED vars
  <2>1. UNCHANGED rosterVars /\ UNCHANGED regVars /\ UNCHANGED approval
        /\ UNCHANGED <<opening, snapshot, lock, rowHolder, doomed, late>>
    BY <1>5 DEF vars, clearing
  <2>2. RowsFit' /\ Stay
    BY <1>1, <2>1, SameRows DEF Stay, rosterVars, playerRows
  <2>3. RegistrationFits' /\ ApprovalFits'
    BY <1>1, <2>1 DEF RegistrationFits, ApprovalFits, regVars, approval
  <2>4. ASSUME NEW d \in Clubs PROVE ClubFacts(d)'
    <3>1. SameRegistration(d) /\ SamePlayers(d)
      BY <2>1 DEF SameRegistration, SamePlayers, regVars, approval, rosterVars, playerRows
    <3> QED BY <1>1, <2>2, <3>1, OthersKeep
  <2>5. ClearingFits' /\ \A d \in Clubs : RowFacts(d)'
    BY <1>1, <2>1 DEF ClearingFits, RowFacts, rosterVars, rosterRows
  <2> QED BY <1>2, <2>2, <2>3, <2>4, <2>5
<1> QED BY <1>3, <1>4, <1>5 DEF Next

(* In every reachable state the facts about locks, requests and lists hold.*)
THEOREM Inductive == Spec => []IInv
<1> QED BY Initially, Steps, PTL DEF Spec

(* Every variable keeps to its type; the columns that may not be null are  *)
(* not, and no roster row is without its player.                           *)
THEOREM TypeSafe == Spec => []TypeOK
<1>1. IInv => TypeOK
  BY DEF IInv
<1> QED BY <1>1, Inductive, PTL

-----------------------------------------------------------------------------
(* What an approval puts on the roster *)

(* A registration becomes approved only by the commit of its approval. *)
LEMMA OnlyCommitApproves ==
  ASSUME RegistrationFits, NEW c \in Clubs, [Next]_vars, status[c] # "APPROVED", status'[c] = "APPROVED"
  PROVE  ApproveCommit(c)
<1>1. status' # status
  OBVIOUS
<1>2. RegistrationNext
  BY <1>1 DEF Next, StaffNext, vars, regVars
<1>3. PICK d \in Clubs : RegistrationStep(d)
  BY <1>2 DEF RegistrationNext, RegistrationStep
<1>4. ApproveCommit(d)
  BY <1>1, <1>3 DEF RegistrationStep, CreateRead, Create, SaveLock, SaveWrite, Submit,
    RequestChanges, ApproveLock, UpdatePlayer, Abort, Find, AddPlayer, ClearRoster, ClearRow,
    RegisterPlayer, regVars, RegistrationFits
<1>5. status' = [status EXCEPT ![d] = "APPROVED"]
  BY <1>4 DEF ApproveCommit
<1>6. d = c
  BY <1>5 DEF RegistrationFits
<1> QED BY <1>2, <1>4, <1>6

(* At the commit the rows of the team are those of the players that the    *)
(* approval resolved, and those that staff have added late.                *)
LEMMA CommittedRoster ==
  ASSUME NEW c \in Clubs, RowFacts(c), ApproveCommit(c)
  PROVE  \A p \in Players : /\ p \notin late[c] /\ rosterTeam'[p] = c <=> p \in Resolved(c)
                            /\ p \in Resolved(c) => rosterStudent'[p] = resolved[c][p]
<1> c # NoOne
  BY RosterAssumption, RegistrationAssumption
<1>1. \A p \in Players : /\ rosterTeam'[p] = RosterReplaced(c, p)
                         /\ p \in Resolved(c) => rosterStudent'[p] = resolved[c][p]
  BY DEF ApproveCommit
<1>2. lock[c] = "roster" /\ doomed[c] = {} /\ \A p \in Resolved(c) : rowHolder[p] = c
  BY DEF ApproveCommit
<1> QED BY <1>1, <1>2 DEF RosterReplaced, RowFacts

LEMMA CommitsTheList ==
  ASSUME IInv, NEW c \in Clubs, ApproveCommit(c)
  PROVE  LET onRoster == {p \in Players \ late[c] : rosterTeam'[p] = c}
             listed == {e.student : e \in list[c]} IN
         /\ {rosterStudent'[p] : p \in onRoster} \subseteq listed
         /\ Cardinality(onRoster) = Cardinality(list[c]) => {rosterStudent'[p] : p \in onRoster} = listed
<1> DEFINE onRoster == {p \in Players \ late[c] : rosterTeam'[p] = c}
           listed == {e.student : e \in list[c]}
<1>1. lock[c] = "roster" /\ Approving(c)
  BY DEF ApproveCommit, Approving
<1>2. Done(c) = list[c]
  BY <1>1 DEF Done, Pending, IInv, ClubFacts, ListFacts
<1>3. onRoster = Resolved(c) /\ \A p \in onRoster : rosterStudent'[p] = resolved[c][p]
  <2>1. RowFacts(c)
    BY DEF IInv
  <2> QED BY <2>1, CommittedRoster DEF Resolved
<1>4. /\ \A p \in Resolved(c) : \E e \in list[c] : resolved[c][p] = e.student
      /\ Cardinality(Resolved(c)) = Cardinality(list[c]) =>
           \A e \in list[c] : \E p \in Resolved(c) : resolved[c][p] = e.student
  BY <1>1, <1>2 DEF IInv, ClubFacts, ListFacts
<1> HIDE DEF onRoster
<1>5. {rosterStudent'[p] : p \in onRoster} \subseteq listed
  BY <1>3, <1>4
<1>6. ASSUME Cardinality(onRoster) = Cardinality(list[c])
      PROVE  listed \subseteq {rosterStudent'[p] : p \in onRoster}
  BY <1>3, <1>4, <1>6
<1> QED BY <1>5, <1>6 DEF onRoster

(* Whatever staff and other approvals do while an approval runs, the       *)
(* roster that it commits names students of the reviewed list only, and    *)
(* all of them unless two entries met in one player; beside them are only  *)
(* those whom staff have put there since the old rows were looked for.     *)
THEOREM RosterFollowsList == Spec => RosterIsList
<1>1. ASSUME IInv, [Next]_vars, NEW c \in Clubs, status[c] # "APPROVED" /\ status'[c] = "APPROVED"
      PROVE  LET onRoster == {p \in Players \ late[c] : rosterTeam'[p] = c}
                 listed == {e.student : e \in list[c]} IN
             /\ {rosterStudent'[p] : p \in onRoster} \subseteq listed
             /\ Cardinality(onRoster) = Cardinality(list[c]) =>
                  {rosterStudent'[p] : p \in onRoster} = listed
  <2>1. ApproveCommit(c)
    BY <1>1, OnlyCommitApproves, IInvIs
  <2> QED BY <1>1, <2>1, CommitsTheList
<1>2. IInv /\ [Next]_vars =>
        \A c \in Clubs : status[c] # "APPROVED" /\ status'[c] = "APPROVED" =>
          LET onRoster == {p \in Players \ late[c] : rosterTeam'[p] = c}
              listed == {e.student : e \in list[c]} IN
          /\ {rosterStudent'[p] : p \in onRoster} \subseteq listed
          /\ Cardinality(onRoster) = Cardinality(list[c]) =>
               {rosterStudent'[p] : p \in onRoster} = listed
  BY <1>1
<1> QED BY <1>2, Inductive, PTL DEF Spec, RosterIsList

-----------------------------------------------------------------------------
(* The workflow *)

WorkflowStep(c) ==
  Workflow!Open(c) \/ Workflow!Edit(c) \/ Workflow!Submit(c) \/ Workflow!Decide(c)

LEMMA WorkflowSteps ==
  ASSUME RegistrationFits, NEW c \in Clubs, LockFacts(c), RegistrationStep(c)
  PROVE  WorkflowStep(c) \/ UNCHANGED <<status, list>>
<1> USE DEF WorkflowStep
<1>1. CASE CreateRead(c) \/ SaveLock(c) \/ ApproveLock(c) \/ UpdatePlayer(c) \/ Abort(c)
  BY <1>1 DEF CreateRead, SaveLock, ApproveLock, UpdatePlayer, Abort, regVars
<1>2. CASE Create(c)
  <2>1. CASE status[c] = "NONE"
    <3>1. snapshot[c] \in SUBSET Entries
      BY DEF RegistrationFits
    <3>2. Workflow!Open(c)
      BY <1>2, <2>1, <3>1 DEF Create, Workflow!Open
    <3> QED BY <3>2
  <2>2. CASE status[c] # "NONE"
    BY <1>2, <2>2 DEF Create, regVars
  <2> QED BY <2>1, <2>2
<1>3. CASE SaveWrite(c)
  <2>1. PICK l \in Rosters : list' = [list EXCEPT ![c] = Detached(c, l)]
    BY <1>3 DEF SaveWrite
  <2>2. Detached(c, l) \in SUBSET Entries
    BY DetachedAreEntries
  <2>3. status[c] \in WithCoach /\ status' = status
    BY <1>3 DEF SaveWrite, LockFacts
  <2>4. Workflow!Edit(c)
    <3> HIDE DEF Detached
    <3> QED BY <2>1, <2>2, <2>3 DEF Workflow!Edit, Workflow!WithCoach, WithCoach
  <2> QED BY <2>4
<1>4. CASE Submit(c)
  BY <1>4 DEF Submit, Workflow!Submit, Workflow!WithCoach, WithCoach
<1>5. CASE RequestChanges(c)
  BY <1>5 DEF RequestChanges, Workflow!Decide
<1>6. CASE ApproveCommit(c)
  <2>1. status[c] = "SUBMITTED"
    BY <1>6 DEF LockFacts, Approving, ApproveCommit
  <2> QED BY <1>6, <2>1 DEF ApproveCommit, Workflow!Decide
<1>7. ASSUME NEW e \in todo[c], Find(c, e) \/ AddPlayer(c, e)
      PROVE  UNCHANGED <<status, list>>
  BY <1>7 DEF Find, AddPlayer, regVars
<1>8. ASSUME NEW p \in Players, ClearRow(c, p) \/ RegisterPlayer(c, p)
      PROVE  UNCHANGED <<status, list>>
  BY <1>8 DEF ClearRow, RegisterPlayer, regVars
<1>9. CASE ClearRoster(c)
  BY <1>9 DEF ClearRoster, regVars
<1> QED BY <1>1, <1>2, <1>3, <1>4, <1>5, <1>6, <1>7, <1>8, <1>9 DEF RegistrationStep

(* Saves, submissions and reviews by several people, each with its lock    *)
(* and its transaction, implement the workflow: the list is edited only    *)
(* while it is with the coach, and each submission is decided once.        *)
THEOREM ImplementsWorkflow == Spec => FollowsWorkflow
<1>1. Init => Workflow!Init
  BY DEF Init, Workflow!Init
<1>2. IInv /\ [Next]_vars =>
        [\E c \in Clubs : Workflow!Open(c) \/ Workflow!Edit(c) \/ Workflow!Submit(c)
                            \/ Workflow!Decide(c)]_<<status, list>>
  <2> SUFFICES ASSUME IInv, [Next]_vars
               PROVE  (\E c \in Clubs : WorkflowStep(c)) \/ UNCHANGED <<status, list>>
    BY DEF WorkflowStep
  <2>1. CASE StaffNext \/ UNCHANGED vars
    BY <2>1 DEF StaffNext, vars, regVars
  <2>2. CASE RegistrationNext
    <3>1. PICK c \in Clubs : RegistrationStep(c)
      BY <2>2 DEF RegistrationNext, RegistrationStep
    <3>2. RegistrationFits /\ LockFacts(c)
      BY IInvIs DEF ClubFacts
    <3> QED BY <3>1, <3>2, WorkflowSteps
  <2> QED BY <2>1, <2>2 DEF Next
<1> QED BY <1>1, <1>2, Inductive, PTL DEF Spec, FollowsWorkflow, Workflow!Spec

=============================================================================
