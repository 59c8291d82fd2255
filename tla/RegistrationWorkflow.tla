------------------------ MODULE RegistrationWorkflow ------------------------
(***************************************************************************)
(* What a season registration promises, whoever works on it at the same    *)
(* time: the list is edited by the coach only, and only while it is with   *)
(* the coach; what is submitted is what the reviewer decides on; each      *)
(* submission is decided once, and an approval is final.                   *)
(***************************************************************************)
CONSTANTS Clubs, Lists

VARIABLES status, list

WithCoach == {"DRAFT", "CHANGES_REQUESTED"}

Init == status = [c \in Clubs |-> "NONE"] /\ list = [c \in Clubs |-> {}]

Open(c) ==
  /\ status[c] = "NONE"
  /\ status' = [status EXCEPT ![c] = "DRAFT"]
  /\ \E l \in Lists : list' = [list EXCEPT ![c] = l]

Edit(c) ==
  /\ status[c] \in WithCoach
  /\ \E l \in Lists : list' = [list EXCEPT ![c] = l]
  /\ UNCHANGED status

Submit(c) ==
  /\ status[c] \in WithCoach /\ list[c] # {}
  /\ status' = [status EXCEPT ![c] = "SUBMITTED"]
  /\ UNCHANGED list

Decide(c) ==
  /\ status[c] = "SUBMITTED"
  /\ \E s \in {"APPROVED", "CHANGES_REQUESTED"} : status' = [status EXCEPT ![c] = s]
  /\ UNCHANGED list

Spec == Init /\ [][\E c \in Clubs : Open(c) \/ Edit(c) \/ Submit(c) \/ Decide(c)]_<<status, list>>
=============================================================================
