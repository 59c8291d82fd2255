------------------------------ MODULE Standings ------------------------------
(***************************************************************************)
(* The tables of a season, computed from its finished matches              *)
(* (src/src/prisma/*.calculator.ts), and the first knock-out round drawn   *)
(* from them (src/src/season/knockout-generator.service.ts).               *)
(*                                                                         *)
(* Names and logos are left out, and every team is of the season's gender. *)
(* A table is the set of its rows: which comes where follows from them, as *)
(* rows that compare equal stay in the order the database gave the teams.  *)
(***************************************************************************)
EXTENDS MatchOutcome, Functions, FiniteSetsExt

CONSTANTS
  Teams,
  Place          \* Teams -> Nat, one-to-one: the order the database gives them

(* getPenaltyWinner *)
PenaltyWinner(m) ==
  LET shot == \/ m.homePenaltyScore # None /\ m.awayPenaltyScore # None
              \/ m.decidedBy = "PENALTIES"
              \/ HasShootoutEvents(m.events)
  IN  IF shot
        THEN CanonicalWinner([m EXCEPT !.winnerTeamId =
                                IF m.decidedBy = "PENALTIES" THEN @ ELSE None])
        ELSE None

(* applyMatchResult: three points for a win; a draw gives one point each,  *)
(* or two to the team that won the shoot-out and none to the other.        *)
PointsFor(m, t) ==
  LET side == IF t = m.homeTeamId THEN "home" ELSE "away"
      ahead == Ahead(m.homeScore, m.awayScore)
      shot == PenaltyWinner(m)
  IN  IF ahead # None THEN (IF ahead = side THEN 3 ELSE 0)
      ELSE IF shot = None THEN 1
      ELSE IF shot = t THEN 2 ELSE 0

GoalsFor(m, t) == IF t = m.homeTeamId THEN m.homeScore ELSE m.awayScore
GoalsAgainst(m, t) == IF t = m.homeTeamId THEN m.awayScore ELSE m.homeScore

Standing(matches, t) ==
  LET own == {m \in matches : t \in {m.homeTeamId, m.awayTeamId}}
      Sum(value(_)) == MapThenSumSet(value, own)
      for == Sum(LAMBDA m : GoalsFor(m, t))
      against == Sum(LAMBDA m : GoalsAgainst(m, t))
  IN  [teamId |-> t, played |-> Cardinality(own), goalsFor |-> for,
       goalDifference |-> for - against, points |-> Sum(LAMBDA m : PointsFor(m, t))]

(* compareStandings; Array.sort is stable. *)
Before(a, b) ==
  \/ a.points > b.points
  \/ a.points = b.points /\ a.goalDifference > b.goalDifference
  \/ /\ a.points = b.points /\ a.goalDifference = b.goalDifference
     /\ \/ a.goalsFor > b.goalsFor
        \/ a.goalsFor = b.goalsFor /\ Place[a.teamId] < Place[b.teamId]

(* A match counts when both its teams are in the table. *)
Table(matches, teams) ==
  LET counted == {m \in matches : {m.homeTeamId, m.awayTeamId} \subseteq teams}
  IN  {Standing(counted, t) : t \in teams}

TeamsOf(matches) == {m.homeTeamId : m \in matches} \cup {m.awayTeamId : m \in matches}

LeagueTable(matches, entered) ==
  Table({m \in matches : m.stage = "LEAGUE"}, entered \cup TeamsOf(matches))

(* A team is in the group it was drawn in, and in each group a match of    *)
(* its is filed under.                                                     *)
GroupTables(matches, groupOf) ==
  LET group(m) == IF m.groupName = None THEN "A" ELSE m.groupName
      filed(g) == {m \in matches : m.stage = "GROUP" /\ group(m) = g}
      names == {groupOf[t] : t \in DOMAIN groupOf}
               \cup {group(m) : m \in {n \in matches : n.stage = "GROUP"}}
  IN  [g \in names |->
         Table(filed(g), {t \in DOMAIN groupOf : groupOf[t] = g} \cup TeamsOf(filed(g)))]

(* How many events of these types a player has in a match. *)
CountOf(p, events, types) ==
  Cardinality({k \in DOMAIN events : events[k].player = p /\ events[k].type \in types})

RedCards == {"red_card", "yellow_to_red"}

(* calculate: goals without own goals, and cards, of each player, from the *)
(* rows of the matches by their ids.                                       *)
PlayerStatistics(rows, players) ==
  [p \in players |->
     [goals |-> SumFunction([i \in DOMAIN rows |->
                               CountOf(p, rows[i].goals, GoalTypes \ {"own_goal"})]),
      yellowCards |-> SumFunction([i \in DOMAIN rows |-> CountOf(p, rows[i].events, {"yellow_card"})]),
      redCards |-> SumFunction([i \in DOMAIN rows |-> CountOf(p, rows[i].events, RedCards)])]]

(* writeGoals: from the goal events, or else from the goals of the request.*)
GoalRows(events, goals) ==
  LET own == {k \in DOMAIN events : events[k].type \in GoalTypes}
      Row(e) == [side |-> IF e.type = "own_goal" THEN OtherSide(e.side) ELSE e.side,
                 type |-> e.type, player |-> e.player]
  IN  IF own # {} THEN [k \in own |-> Row(events[k])] ELSE goals

-----------------------------------------------------------------------------
(* generateKnockoutMatches: winners of a group meet runners-up of its      *)
(* neighbour, in a round that depends on the number of groups.             *)
Neighbours(n) ==
  CASE n = 8 -> {<<"A", "B">>, <<"C", "D">>, <<"E", "F">>, <<"G", "H">>}
    [] n = 4 -> {<<"A", "B">>, <<"C", "D">>}
    [] n = 2 -> {<<"A", "B">>}
    [] OTHER -> {}

RoundOf(n) == CASE n = 8 -> "R16" [] n = 4 -> "QF" [] n = 2 -> "SF" [] OTHER -> None

IndexOf(n, g) ==
  LET order == CASE n = 8 -> <<"A", "C", "E", "G", "B", "D", "F", "H">>
                 [] n = 4 -> <<"A", "C", "B", "D">>
                 [] n = 2 -> <<"A", "B">>
  IN  CHOOSE i \in DOMAIN order : order[i] = g

(* The row that has this place in a table. *)
At(table, rank) ==
  {row \in table : Cardinality({other \in table : Before(other, row)}) = rank - 1}

Ranked(tables, g, rank) ==
  IF g \in DOMAIN tables /\ At(tables[g], rank) # {}
    THEN (CHOOSE row \in At(tables[g], rank) : TRUE).teamId ELSE None

RunnerUp == 2

(* Mutant: the winner of the other group. *)
RunnerUpOffByOne == 1

OpponentRank == RunnerUp

Pairings(tables) ==
  LET n == Cardinality(DOMAIN tables)
      Pair(g, h) == [index |-> IndexOf(n, g), homeTeamId |-> Ranked(tables, g, 1),
                     awayTeamId |-> Ranked(tables, h, OpponentRank)]
      all == UNION {{Pair(gh[1], gh[2]), Pair(gh[2], gh[1])} : gh \in Neighbours(n)}
  IN  {p \in all : p.homeTeamId # None /\ p.awayTeamId # None}
=============================================================================
