--------------------------- MODULE MCHistoryImport ---------------------------
(***************************************************************************)
(* Two files of one season, the second with a team, a player and a match   *)
(* more; one of the teams, its profile, an old match and a player who was  *)
(* in another team and on its list are there before.                       *)
(***************************************************************************)
EXTENDS HistoryImport, TLC

MCFiles ==
  [f1 |-> [seasons |-> {"s"}, teams |-> {"t"}, players |-> {"p"}, matches |-> {"g"}],
   f2 |-> [seasons |-> {"s"}, teams |-> {}, players |-> {"p", "q"}, matches |-> {"g", "h"}]]
MCSeasonOf == [x \in {"p", "q", "g", "h"} |-> "s"]
MCTeamsOf == [g |-> <<"t", "t">>, h |-> <<"t", "w">>]
MCTeamOf == [p |-> "t", q |-> "w", x |-> "w"]

MCOld ==
  (Season("s") :> "active") @@ (Team("t") :> "deleted")
  @@ (Profile("s", "t") :> "open") @@ (Match("g") :> "old")
  @@ (Team("o") :> "live") @@ (Player("p") :> "o") @@ (Link("s", "p") :> "o")
  @@ (Approval("s", "a") :> "approved")

MCStrangers ==
  (Player("x") :> "w") @@ (Lineup("h", "p") :> "lineup")
  @@ (Registration("s", "w") :> "submitted")

Symmetry == Permutations(Undoers)
=============================================================================
