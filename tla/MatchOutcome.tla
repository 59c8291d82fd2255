---------------------------- MODULE MatchOutcome ----------------------------
(***************************************************************************)
(* Who wins a match: the outcome that is computed when a match is written  *)
(* (src/src/match/match-outcome.ts) and the one that is read back from its *)
(* row later (src/src/match/winner-team-id.ts).                            *)
(*                                                                         *)
(* An event is [type, side, player]; a list of events is a sequence.  Team *)
(* ids with the suffix of an old season are not told apart from the id     *)
(* without it.                                                             *)
(***************************************************************************)
EXTENDS Integers, Sequences, FiniteSets

CONSTANT None

Sides == {"home", "away"}

OtherSide(side) == IF side = "home" THEN "away" ELSE "home"

GoalTypes == {"goal", "penalty", "own_goal"}
ShootoutTypes == {"penalty_shootout_goal", "penalty_shootout_miss"}

HasAny(events, types) == \E i \in DOMAIN events : events[i].type \in types

Tally(events, types, side) ==
  Cardinality({i \in DOMAIN events : events[i].type \in types /\ events[i].side = side})

HasOutcomeEvents(events) == HasAny(events, GoalTypes \cup ShootoutTypes)

HasShootoutEvents(events) == HasAny(events, ShootoutTypes)

(* scoreRegularEvent: an own goal counts for the other side. *)
RegularScore(events, side) ==
  Tally(events, {"goal", "penalty"}, side) + Tally(events, {"own_goal"}, OtherSide(side))

Ahead(home, away) ==
  IF home > away THEN "home" ELSE IF away > home THEN "away" ELSE None

Outcome(home, away, homePen, awayPen, winner, decidedBy) ==
  [homeScore |-> home, awayScore |-> away, homePenaltyScore |-> homePen,
   awayPenaltyScore |-> awayPen, side |-> winner, decidedBy |-> decidedBy]

(* A shoot-out counts only when the score is level. *)
ResolveMatchOutcome(home, away, homePen, awayPen, extraTime) ==
  IF home # away
    THEN Outcome(home, away, homePen, awayPen, Ahead(home, away),
                 IF extraTime THEN "EXTRA_TIME" ELSE "REGULAR")
  ELSE IF homePen # None /\ awayPen # None
    THEN Outcome(home, away, homePen, awayPen, Ahead(homePen, awayPen),
                 IF homePen = awayPen THEN None ELSE "PENALTIES")
  ELSE Outcome(home, away, None, None, None, None)

(* calculateMatchOutcome throws when there was a shoot-out after a match   *)
(* that was not level.                                                     *)
OutcomeRefused(events, homePen, awayPen) ==
  /\ HasShootoutEvents(events) \/ (homePen # None /\ awayPen # None)
  /\ RegularScore(events, "home") # RegularScore(events, "away")

ShootoutScore(events, homePen, awayPen) ==
  IF HasShootoutEvents(events)
    THEN [side \in Sides |-> Tally(events, {"penalty_shootout_goal"}, side)]
  ELSE IF homePen # None /\ awayPen # None
    THEN [side \in Sides |-> IF side = "home" THEN homePen ELSE awayPen]
  ELSE [side \in Sides |-> None]

CalculateMatchOutcome(events, homePen, awayPen) ==
  LET shot == ShootoutScore(events, homePen, awayPen)
  IN  ResolveMatchOutcome(RegularScore(events, "home"), RegularScore(events, "away"),
                          shot["home"], shot["away"],
                          \E i \in DOMAIN events : events[i].phase = "EXTRA_TIME")

TeamOn(m, side) ==
  CASE side = "home" -> m.homeTeamId [] side = "away" -> m.awayTeamId [] OTHER -> None

(* getCanonicalWinnerTeamId: the score, the penalties of the row, the      *)
(* shoot-out events and only then the stored winner.                       *)
CanonicalWinner(m) ==
  LET byScore == Ahead(m.homeScore, m.awayScore)
      byPenalties == IF m.homePenaltyScore # None /\ m.awayPenaltyScore # None
                       THEN Ahead(m.homePenaltyScore, m.awayPenaltyScore) ELSE None
      byEvents == Ahead(Tally(m.events, {"penalty_shootout_goal"}, "home"),
                        Tally(m.events, {"penalty_shootout_goal"}, "away"))
      stored == IF m.winnerTeamId \in {m.homeTeamId, m.awayTeamId} THEN m.winnerTeamId ELSE None
  IN  IF byScore # None THEN TeamOn(m, byScore)
      ELSE IF byPenalties # None THEN TeamOn(m, byPenalties)
      ELSE IF byEvents # None THEN TeamOn(m, byEvents)
      ELSE stored
=============================================================================
