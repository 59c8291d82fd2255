--------------------------- MODULE MCBackupFormat ---------------------------
(***************************************************************************)
(* A player and a match; the player can be of the match's season in every  *)
(* way the code knows, and two seasons may claim one name.                 *)
(***************************************************************************)
EXTENDS BackupFormat

MCRow(id, ref) == [id |-> id, ref |-> ref, name |-> ""]
MCNamed(id, name) == [id |-> id, ref |-> [none |-> 0], name |-> name]

MCEvent(p, sub, assist) ==
  [matchId |-> 1, playerId |-> p, subPlayerId |-> sub, assistPlayerId |-> assist]

MCCandidates ==
  [User |-> {[id |-> 1, ref |-> [teamId |-> t], name |-> "u"] : t \in {0, 1}},
   MemberAccount |-> {MCNamed(1, "m")},
   Team |-> {MCNamed(1, "")},
   Season |-> {MCNamed(1, "a"), MCNamed(2, "a"), MCNamed(2, "b")},
   Player |-> {MCRow(1, [teamId |-> 1, suspendedAtMatchId |-> m]) : m \in {0, 1}},
   Match |-> {MCRow(1, [homeTeamId |-> 1, awayTeamId |-> 1, seasonId |-> 1,
                        mvpPlayerId |-> p]) : p \in {0, 1}},
   Prediction |-> {MCRow(1, [userId |-> 1, matchId |-> 1])},
   Goal |-> {MCRow(1, [matchId |-> 1, playerId |-> 1])},
   MatchEvent |-> {MCRow(i, MCEvent(0, 0, 0)) : i \in 1..3}
                  \cup {MCRow(1, MCEvent(0, 1, 0)), MCRow(1, MCEvent(0, 0, 1))},
   SeasonTeamProfile |-> {MCRow(1, [seasonId |-> 2, teamId |-> 1])},
   SeasonDeletionApproval |-> {MCRow(1, [seasonId |-> 1, approverId |-> 1])},
   SeasonTeamPlayer |-> {MCRow(1, [seasonId |-> 2, teamId |-> 1, playerId |-> 1])},
   MatchLineup |-> {MCRow(1, [matchId |-> 1, playerId |-> 1])},
   SeasonGroupTeam |-> {MCRow(1, [seasonId |-> 1, teamId |-> 1])},
   TeamRegistration |-> {MCRow(1, [seasonId |-> 1, teamId |-> 1, submittedById |-> 1])},
   News |-> {}, AuditLog |-> {}, HistoryImportBatch |-> {}, PdfImportBatch |-> {}]
=============================================================================
