-------------------------- MODULE SeasonRegistration --------------------------
(***************************************************************************)
(* The registration of teams for a season                                  *)
(* (src/src/registration/registration.service.ts), next to the staff       *)
(* requests of Roster on the same players and roster.                      *)
(*                                                                         *)
(* A list is a set of entries: the player it was copied from, if any, and  *)
(* a student id.  save and approve lock the registration with a            *)
(* conditional UPDATE and commit later; submit and requestChanges do       *)
(* nothing after theirs that others could see, and are one action.         *)
(* An approval writes players, and then roster rows, one at a time, each   *)
(* locked until it commits, and sees its own writes (`written`).           *)
(***************************************************************************)
EXTENDS Roster

CONSTANTS
  Clubs,            \* the teams whose coaches register
  Rosters           \* the lists that coaches save

Entries == [player : Players \cup {NoOne}, student : Students]
WithCoach == {"DRAFT", "CHANGES_REQUESTED"}

ASSUME RegistrationAssumption ==
  /\ Clubs \subseteq Teams /\ Rosters \subseteq SUBSET Entries
  /\ IsFiniteSet(Players) /\ IsFiniteSet(Students) /\ Students # {}

VARIABLES
  status, list,     \* TeamRegistration and its RegistrationPlayer rows
  opening, snapshot,  \* create has found no registration, and has read the team
  lock,             \* who holds the registration: "save" or a step of approve
  rowHolder,        \* whose approval has the lock on a player's roster row
  todo, entry, found, \* the approval: entries to come, the present one, its player
  written,          \* its uncommitted writes: player -> student id, or NoOne
  resolved,         \* the roster it has made so far: player -> student id on the list
  doomed,           \* the roster rows that it has found to delete, and not come to yet
  late              \* history: the rows that staff gave the team after that

regVars  == <<status, list>>
approval == <<todo, entry, found, written, resolved>>
clearing == <<rowHolder, doomed, late>>
vars == <<rosterVars, regVars, opening, snapshot, lock, approval, clearing>>

NoEntry == [player |-> NoOne, student |-> CHOOSE s \in Students : TRUE]
Nothing == [p \in Players |-> NoOne]

TypeOK ==
  /\ RosterTypeOK
  /\ status \in [Clubs -> WithCoach \cup {"NONE", "SUBMITTED", "APPROVED"}]
  /\ list \in [Clubs -> SUBSET Entries]
  /\ opening \in [Clubs -> BOOLEAN]
  /\ snapshot \in [Clubs -> SUBSET Entries]
  /\ lock \in [Clubs -> {"free", "save", "next", "update", "roster"}]
  /\ rowHolder \in [Players -> Clubs \cup {NoOne}]
  /\ todo \in [Clubs -> SUBSET Entries]
  /\ entry \in [Clubs -> Entries]
  /\ found \in [Clubs -> Players \cup {NoOne}]
  /\ written \in [Clubs -> [Players -> Ids]]
  /\ resolved \in [Clubs -> [Players -> Ids]]
  /\ doomed \in [Clubs -> SUBSET Players]
  /\ late \in [Clubs -> SUBSET Players]

Init ==
  /\ RosterInit
  /\ status = [c \in Clubs |-> "NONE"]
  /\ list = [c \in Clubs |-> {}]
  /\ opening = [c \in Clubs |-> FALSE]
  /\ snapshot = [c \in Clubs |-> {}]
  /\ lock = [c \in Clubs |-> "free"]
  /\ todo = [c \in Clubs |-> {}]
  /\ entry = [c \in Clubs |-> NoEntry]
  /\ found = [c \in Clubs |-> NoOne]
  /\ written = [c \in Clubs |-> Nothing]
  /\ resolved = [c \in Clubs |-> Nothing]
  /\ rowHolder = [p \in Players |-> NoOne]
  /\ doomed = [c \in Clubs |-> {}]
  /\ late = [c \in Clubs |-> {}]

-----------------------------------------------------------------------------
(* create, save, submit *)

CreateRead(c) ==
  /\ status[c] = "NONE" /\ ~opening[c] /\ c \notin disbanded
  /\ opening' = [opening EXCEPT ![c] = TRUE]
  /\ snapshot' = [snapshot EXCEPT ![c] =
                    {[player |-> p, student |-> student[p]] : p \in {q \in Live : team[q] = c}}]
  /\ UNCHANGED <<rosterVars, regVars, lock, approval, clearing>>

(* A registration that was created meanwhile makes the INSERT fail. *)
Create(c) ==
  /\ opening[c]
  /\ IF status[c] = "NONE"
     THEN /\ status' = [status EXCEPT ![c] = "DRAFT"]
          /\ list' = [list EXCEPT ![c] = snapshot[c]]
     ELSE UNCHANGED regVars
  /\ opening' = [opening EXCEPT ![c] = FALSE]
  /\ snapshot' = [snapshot EXCEPT ![c] = {}]
  /\ UNCHANGED <<rosterVars, lock, approval, clearing>>

(* Mutant: the conditional UPDATE does not look at the status. *)
SaveBeginsAnytime(c) == status[c] # "NONE" /\ lock[c] = "free"

SaveBegins(c) == status[c] \in WithCoach /\ lock[c] = "free"

SaveLock(c) ==
  /\ SaveBegins(c)
  /\ lock' = [lock EXCEPT ![c] = "save"]
  /\ UNCHANGED <<rosterVars, regVars, opening, snapshot, approval, clearing>>

(* An entry keeps its player only if that is a live player of the team. *)
Detached(c, l) ==
  {[e EXCEPT !.player = IF @ \in Live /\ team[@] = c THEN @ ELSE NoOne] : e \in l}

SaveWrite(c) ==
  /\ lock[c] = "save"
  /\ \E l \in Rosters : list' = [list EXCEPT ![c] = Detached(c, l)]
  /\ lock' = [lock EXCEPT ![c] = "free"]
  /\ UNCHANGED <<rosterVars, status, opening, snapshot, approval, clearing>>

Submit(c) ==
  /\ status[c] \in WithCoach /\ lock[c] = "free" /\ list[c] # {}
  /\ status' = [status EXCEPT ![c] = "SUBMITTED"]
  /\ UNCHANGED <<rosterVars, list, opening, snapshot, lock, approval, clearing>>

-----------------------------------------------------------------------------
(* requestChanges, approve *)

RequestChanges(c) ==
  /\ status[c] = "SUBMITTED" /\ lock[c] = "free"
  /\ status' = [status EXCEPT ![c] = "CHANGES_REQUESTED"]
  /\ UNCHANGED <<rosterVars, list, opening, snapshot, lock, approval, clearing>>

ApproveLock(c) ==
  /\ status[c] = "SUBMITTED" /\ lock[c] = "free"
  /\ lock' = [lock EXCEPT ![c] = "next"]
  /\ todo' = [todo EXCEPT ![c] = list[c]]
  /\ UNCHANGED <<rosterVars, regVars, opening, snapshot, entry, found, written, resolved, clearing>>

(* The transaction's view of the players of its team. *)
Seen(c, p) == IF written[c][p] # NoOne THEN written[c][p] ELSE student[p]

Own(c) == {p \in Live : team[p] = c} \cup {p \in Players : team[p] = NoOne /\ holder[p] = c}
ByStudent(c, s) == {p \in Own(c) : Seen(c, p) = s}

(* The next entry's player: the one it names if that is still a live       *)
(* player of the team, else one of the team with the student id.           *)
Find(c, e) ==
  /\ lock[c] = "next" /\ e \in todo[c]
  /\ \E p \in IF e.player \in Own(c) THEN {e.player} ELSE ByStudent(c, e.student) :
       found' = [found EXCEPT ![c] = p]
  /\ entry' = [entry EXCEPT ![c] = e]
  /\ todo' = [todo EXCEPT ![c] = @ \ {e}]
  /\ lock' = [lock EXCEPT ![c] = "update"]
  /\ UNCHANGED <<rosterVars, regVars, opening, snapshot, written, resolved, clearing>>

(* The UPDATE by id waits for the row and does not look at it again; it    *)
(* sets the student id only of a player that the entry names.              *)
UpdatePlayer(c) ==
  LET p == found[c] IN
  /\ lock[c] = "update" /\ holder[p] \in {NoOne, c}
  /\ holder' = [holder EXCEPT ![p] = c]
  /\ written' = [written EXCEPT ![c][p] = IF p = entry[c].player THEN entry[c].student ELSE Seen(c, p)]
  /\ resolved' = [resolved EXCEPT ![c][p] = entry[c].student]
  /\ lock' = [lock EXCEPT ![c] = "next"]
  /\ found' = [found EXCEPT ![c] = NoOne]
  /\ entry' = [entry EXCEPT ![c] = NoEntry]
  /\ UNCHANGED <<playerRows, rosterRows, jobs, regVars, opening, snapshot, todo, clearing>>

(* No such player: the entry becomes a new one. *)
AddPlayer(c, e) ==
  /\ lock[c] = "next" /\ e \in todo[c]
  /\ e.player \notin Own(c) /\ ByStudent(c, e.student) = {}
  /\ \E p \in Unused :
       /\ holder' = [holder EXCEPT ![p] = c]
       /\ written' = [written EXCEPT ![c][p] = e.student]
       /\ resolved' = [resolved EXCEPT ![c][p] = e.student]
  /\ todo' = [todo EXCEPT ![c] = @ \ {e}]
  /\ UNCHANGED <<playerRows, rosterRows, jobs, regVars, opening, snapshot, lock, entry, found, clearing>>

Resolved(c) == {p \in Players : resolved[c][p] # NoOne}

(* The DELETE of the team's roster rows works through those it finds ... *)
ClearRoster(c) ==
  /\ lock[c] = "next" /\ todo[c] = {}
  /\ lock' = [lock EXCEPT ![c] = "roster"]
  /\ doomed' = [doomed EXCEPT ![c] = {p \in Players : rosterTeam[p] = c}]
  /\ UNCHANGED <<rosterVars, regVars, opening, snapshot, approval, rowHolder, late>>

(* ... waits for each and looks at it again.  One that left the team and   *)
(* is back may be a new row, which it does not see.                        *)
ClearRow(c, p) ==
  /\ lock[c] = "roster" /\ p \in doomed[c] /\ rowHolder[p] = NoOne
  /\ \/ /\ rosterTeam[p] = c
        /\ rowHolder' = [rowHolder EXCEPT ![p] = c]
        /\ late' = [late EXCEPT ![c] = @ \ {p}]
     \/ (rosterTeam[p] # c \/ p \in late[c]) /\ UNCHANGED <<rowHolder, late>>
  /\ doomed' = [doomed EXCEPT ![c] = @ \ {p}]
  /\ UNCHANGED <<rosterVars, regVars, opening, snapshot, lock, approval>>

(* registerPlayer: an upsert, also of a row that belongs to another team. *)
RegisterPlayer(c, p) ==
  /\ lock[c] = "roster" /\ doomed[c] = {} /\ p \in Resolved(c)
  /\ rowHolder[p] \in {NoOne, c}
  /\ rowHolder' = [rowHolder EXCEPT ![p] = c]
  /\ late' = [late EXCEPT ![c] = @ \ {p}]
  /\ UNCHANGED <<rosterVars, regVars, opening, snapshot, lock, approval, doomed>>

Release(c) ==
  /\ lock' = [lock EXCEPT ![c] = "free"]
  /\ holder' = [p \in Players |-> IF holder[p] = c THEN NoOne ELSE holder[p]]
  /\ rowHolder' = [p \in Players |-> IF rowHolder[p] = c THEN NoOne ELSE rowHolder[p]]
  /\ todo' = [todo EXCEPT ![c] = {}]
  /\ entry' = [entry EXCEPT ![c] = NoEntry]
  /\ found' = [found EXCEPT ![c] = NoOne]
  /\ written' = [written EXCEPT ![c] = Nothing]
  /\ resolved' = [resolved EXCEPT ![c] = Nothing]
  /\ doomed' = [doomed EXCEPT ![c] = {}]
  /\ late' = [late EXCEPT ![c] = {}]

(* Mutant: the old roster of the team is left in place. *)
RosterAdded(c, p) == IF p \in Resolved(c) THEN c ELSE rosterTeam[p]

(* The rows that were deleted go, every resolved player has one. *)
RosterReplaced(c, p) ==
  IF p \in Resolved(c) THEN c ELSE IF rowHolder[p] = c THEN NoOne ELSE rosterTeam[p]

ApproveCommit(c) ==
  /\ lock[c] = "roster" /\ doomed[c] = {} /\ \A p \in Resolved(c) : rowHolder[p] = c
  /\ status' = [status EXCEPT ![c] = "APPROVED"]
  /\ profiles' = profiles \cup {c}
  /\ student' = [p \in Players |-> Seen(c, p)]
  /\ team' = [p \in Players |-> IF p \in Resolved(c) /\ team[p] = NoOne THEN c ELSE team[p]]
  /\ rosterTeam' = [p \in Players |-> RosterReplaced(c, p)]
  /\ rosterStudent' = [p \in Players |->
       IF p \in Resolved(c) THEN resolved[c][p]
       ELSE IF RosterReplaced(c, p) = NoOne THEN NoOne ELSE rosterStudent[p]]
  /\ Release(c)
  /\ UNCHANGED <<removed, disbanded, jobs, list, opening, snapshot>>

(* A save or an approval throws, times out or loses its process. *)
Abort(c) ==
  /\ lock[c] # "free"
  /\ Release(c)
  /\ UNCHANGED <<playerRows, rosterRows, jobs, regVars, opening, snapshot>>

-----------------------------------------------------------------------------
RegistrationNext ==
  \E c \in Clubs :
    \/ CreateRead(c) \/ Create(c) \/ SaveLock(c) \/ SaveWrite(c) \/ Submit(c)
    \/ RequestChanges(c) \/ ApproveLock(c) \/ UpdatePlayer(c) \/ ApproveCommit(c) \/ Abort(c)
    \/ ClearRoster(c) \/ \E p \in Players : ClearRow(c, p) \/ RegisterPlayer(c, p)
    \/ \E e \in todo[c] : Find(c, e) \/ AddPlayer(c, e)

Approving(c) == lock[c] \in {"next", "update", "roster"}

(* A staff request waits for a roster row that an approval has locked, and *)
(* an edit of the team for the season's profile of it, which an approval   *)
(* writes first.                                                           *)
Waits ==
  /\ \A p \in Players : rowHolder[p] # NoOne =>
       rosterTeam'[p] = rosterTeam[p] /\ rosterStudent'[p] = rosterStudent[p]
  /\ \A u \in Staff : job[u] = "edit" /\ job'[u] # "edit" /\ (\E c \in Clubs : jteam[u] = c /\ Approving(c)) =>
       UNCHANGED <<playerRows, rosterRows>>

(* A staff request; what it puts on a roster whose old rows an approval    *)
(* has found already is noted.                                             *)
StaffNext ==
  /\ RosterNext /\ Waits
  /\ late' = [c \in Clubs |-> IF lock[c] # "roster" THEN late[c] ELSE
               late[c] \cup {p \in Players : rosterTeam'[p] = c /\ rosterTeam[p] # c}]
  /\ UNCHANGED <<regVars, opening, snapshot, lock, approval, rowHolder, doomed>>

Next == RegistrationNext \/ StaffNext

Spec == Init /\ [][Next]_vars

-----------------------------------------------------------------------------
(* Properties *)

(* Saving, submitting and reviewing at the same time looks like one at a   *)
(* time: a submitted list is not edited, each submission is decided once   *)
(* and an approved registration stays as it is.                            *)
Workflow == INSTANCE RegistrationWorkflow WITH Lists <- SUBSET Entries
FollowsWorkflow == Workflow!Spec

(* Whatever staff do to the players while an approval runs, and whatever   *)
(* other approvals take or give, the season's roster of the team names at  *)
(* its commit exactly the students on the list that was reviewed - fewer   *)
(* only if two entries met in one player - and beside them only players    *)
(* whom staff put there after the old roster was read.                     *)
RosterIsList ==
  [][\A c \in Clubs : status[c] # "APPROVED" /\ status'[c] = "APPROVED" =>
       LET onRoster == {p \in Players \ late[c] : rosterTeam'[p] = c}
           listed == {e.student : e \in list[c]} IN
       /\ {rosterStudent'[p] : p \in onRoster} \subseteq listed
       /\ Cardinality(onRoster) = Cardinality(list[c]) => {rosterStudent'[p] : p \in onRoster} = listed]_vars
=============================================================================
