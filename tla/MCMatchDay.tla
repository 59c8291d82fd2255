------------------------------ MODULE MCMatchDay ------------------------------
(***************************************************************************)
(* A league of two teams with two matches and a player, and a cup of four  *)
(* teams in two groups.                                                    *)
(***************************************************************************)
EXTENDS MatchDay, TLC

CONSTANTS a, b, c, d, p, s1, s2, m1, m2, k1, k2, k3

MCPlace == [t \in {a, b, c, d} |-> CASE t = a -> 1 [] t = b -> 2 [] t = c -> 3 [] OTHER -> 4]
MCTeamOf == [x \in {p} |-> a]
MCListedIn == (s1 :> MCTeamOf) @@ (s2 :> [x \in {p} |-> None])

Event(kind, side, who) == [type |-> kind, side |-> side, player |-> who, phase |-> "REGULAR"]
Scored == Event("goal", "home", p)
Booked == Event("yellow_card", "home", p)
SentOff == Event("red_card", "home", p)
ShotIn == Event("penalty_shootout_goal", "away", None)

Between(s, stage, group, home, away) ==
  [seasonId |-> s, stage |-> stage, groupName |-> group, knockoutRound |-> None,
   knockoutMatchIndex |-> None, homeTeamId |-> home, awayTeamId |-> away]

MCFixtures ==
  [LEAGUE |-> (m1 :> ([day |-> 1] @@ Between(s1, "LEAGUE", None, a, b)))
              @@ (m2 :> ([day |-> 2] @@ Between(s1, "LEAGUE", None, b, a))),
   CUP |-> (m1 :> ([day |-> 1] @@ Between(s1, "GROUP", "A", a, b)))]

MCFree == [LEAGUE |-> (k1 :> 3), CUP |-> (k1 :> 3) @@ (k2 :> 4) @@ (k3 :> 5)]

MCDrafts ==
  [LEAGUE |-> {Between(s1, "LEAGUE", None, a, b) @@ [body |-> [status |-> "ongoing", events |-> <<SentOff>>]]},
   CUP |-> {}]

MCEdits ==
  [LEAGUE |-> {[status |-> "finished", events |-> <<Booked, Booked>>],
               [status |-> "finished", events |-> <<Scored, SentOff>>],
               [status |-> "finished", homeScore |-> 1, awayScore |-> 1],
               [homePenaltyScore |-> 2, awayPenaltyScore |-> 2],
               [status |-> "finished", events |-> <<ShotIn>>],
               [status |-> "scheduled"],
               [day |-> 0],
               [seasonId |-> s2]},
   CUP |-> {[status |-> "finished", homeScore |-> 0, awayScore |-> 1],
            [status |-> "finished", homePenaltyScore |-> 3, awayPenaltyScore |-> 1],
            [groupName |-> "B"]}]

MCGroupings ==
  {(a :> "A") @@ (b :> "A") @@ (c :> "B") @@ (d :> "B"),
   (a :> "A") @@ (c :> "A") @@ (b :> "B") @@ (d :> "B"),
   (b :> "A") @@ (a :> "B") @@ (c :> "B") @@ (d :> "B")}

MCMaxChanges == [LEAGUE |-> 3, CUP |-> 4]

Symmetry == Permutations(Requests)
=============================================================================
