---------------------------- MODULE BackupFormat ----------------------------
(***************************************************************************)
(* One backup from the rows of the database to the file, and from the file *)
(* back to rows (src/src/backup: -export, -scope, -writer, -parser,        *)
(* -staging-store, -validator, -table-registry and -restore).              *)
(*                                                                         *)
(* A row is its id, its references (0 is null) and the name that has to be *)
(* unique, "" where the table has none.  A file is a sequence of           *)
(* <<property, value>>, as an object of JSON is: its tables a sequence of  *)
(* <<table, rows>>, its manifest one of <<property, value>>.  The digest   *)
(* of the tables is what it is taken of, so no two contents share one.     *)
(* Bytes, gzip, size limits and dates are left out.                        *)
(***************************************************************************)
EXTENDS Integers, Sequences, FiniteSets, SequencesExt, FiniteSetsExt

CONSTANTS
  Candidates,    \* Candidates[T]: the rows table T may get
  NewName,       \* the name a season may be given
  Seasons,       \* the seasons exported on their own; 0 stands for the whole site
  PageSize,
  Budget         \* bound: rows before an export, and changes after it began

(* backup-table-registry: the tables in the order of the file. *)
MandatoryTables ==
  <<"User", "MemberAccount", "Team", "Player", "Season", "Match", "Prediction",
    "Goal", "MatchEvent", "News", "AuditLog", "SeasonTeamProfile",
    "HistoryImportBatch", "SeasonDeletionApproval", "SeasonTeamPlayer",
    "MatchLineup", "SeasonGroupTeam", "PdfImportBatch">>

Tables == Range(MandatoryTables)

(* Table and field of every reference. *)
Keyed ==
  [User |-> [teamId |-> "Team"],
   Player |-> [teamId |-> "Team", suspendedAtMatchId |-> "Match"],
   Match |-> [homeTeamId |-> "Team", awayTeamId |-> "Team", seasonId |-> "Season",
              mvpPlayerId |-> "Player"],
   Prediction |-> [userId |-> "MemberAccount", matchId |-> "Match"],
   Goal |-> [matchId |-> "Match", playerId |-> "Player"],
   MatchEvent |-> [matchId |-> "Match", playerId |-> "Player",
                   subPlayerId |-> "Player", assistPlayerId |-> "Player"],
   SeasonTeamProfile |-> [seasonId |-> "Season", teamId |-> "Team"],
   SeasonDeletionApproval |-> [seasonId |-> "Season", approverId |-> "User"],
   SeasonTeamPlayer |-> [seasonId |-> "Season", teamId |-> "Team", playerId |-> "Player"],
   MatchLineup |-> [matchId |-> "Match", playerId |-> "Player"],
   SeasonGroupTeam |-> [seasonId |-> "Season", teamId |-> "Team"],
   TeamRegistration |-> [seasonId |-> "Season", teamId |-> "Team", submittedById |-> "User"]]

(* The registrations are in the database and in no backup. *)
AllTables == Tables \cup {"TeamRegistration"}

CompositeKeys ==
  [Prediction |-> {"userId", "matchId"}, SeasonTeamProfile |-> {"seasonId", "teamId"},
   SeasonDeletionApproval |-> {"seasonId", "approverId"},
   SeasonTeamPlayer |-> {"seasonId", "playerId"},
   MatchLineup |-> {"matchId", "playerId"}, SeasonGroupTeam |-> {"seasonId", "teamId"}]

RestoreDeleteOrder ==
  <<"MatchLineup", "SeasonTeamPlayer", "SeasonTeamProfile", "SeasonGroupTeam",
    "SeasonDeletionApproval", "Goal", "MatchEvent", "Prediction", "Player", "Match",
    "Team", "User", "MemberAccount", "Season", "News", "AuditLog",
    "HistoryImportBatch", "PdfImportBatch">>

RestoreInsertOrder ==
  <<"User", "MemberAccount", "Season", "Team", "Player", "Match", "SeasonTeamProfile",
    "SeasonGroupTeam", "SeasonTeamPlayer", "SeasonDeletionApproval", "MatchLineup",
    "Goal", "MatchEvent", "Prediction", "News", "AuditLog", "HistoryImportBatch",
    "PdfImportBatch">>

(* The references and unique columns the database itself insists on. *)
Closed(d) ==
  \A T \in DOMAIN Keyed : \A r \in d[T] : \A f \in DOMAIN Keyed[T] :
    r.ref[f] = 0 \/ \E t \in d[Keyed[T][f]] : t.id = r.ref[f]

SameKey(T, r, q) ==
  \/ r.id = q.id
  \/ r.name # "" /\ r.name = q.name
  \/ T \in DOMAIN CompositeKeys /\ \A f \in CompositeKeys[T] : r.ref[f] = q.ref[f]

Unique(d) == \A T \in Tables : \A r, q \in d[T] : r # q => ~ SameKey(T, r, q)

(* References that are emptied when their row goes; a row goes along with   *)
(* what any other of its references names.                                 *)
Unlinking ==
  [User |-> {"teamId"}, Player |-> {"suspendedAtMatchId"},
   Match |-> {"seasonId", "mvpPlayerId"}, Goal |-> {"playerId"},
   MatchEvent |-> {"playerId", "subPlayerId", "assistPlayerId"}]

(* The tables the services remove rows of.                                 *)
Removable ==
  {"User", "Season", "Match", "Team", "Player", "SeasonTeamProfile", "SeasonTeamPlayer",
   "SeasonGroupTeam", "MatchLineup", "MatchEvent", "Goal"}

ASSUME FormatAssumption ==
  /\ PageSize \in Nat \ {0} /\ NewName # ""
  /\ \A T \in AllTables : \A r \in Candidates[T] :
       /\ r = [id |-> r.id, ref |-> r.ref, name |-> r.name] /\ r.id \in Nat \ {0}
       /\ T \in DOMAIN Keyed => r.ref \in [DOMAIN Keyed[T] -> Nat]
       /\ T \in DOMAIN CompositeKeys => \A f \in CompositeKeys[T] : r.ref[f] # 0

VARIABLES
  data,          \* data[T]: the rows of table T, as others than the restore see them
  phase,         \* "filled", "exporting", "stored", "restoring", "restored", "failed"
  scope,         \* what is exported: 0 or a season
  table, last,   \* the table that is being read, and the id of the last row read
  copy,          \* copy[T]: the rows read, in order
  damage,        \* what was done to the file after it was written
  result,        \* what the parser makes of the file
  step,          \* the next statement of the restore
  written,       \* written[T]: what the restore has put back and not yet committed
  joined,        \* joined[T]: rows others added since the restore deleted all
  \* history
  throughout,    \* throughout[T]: the rows that were there since the export began
  cut,           \* tables that lost the row the next page starts from
  gone,          \* gone[T]: rows as they were when they were removed or renamed
  changed,
  renamed,       \* a unique name was given up, and another row has taken it
  spent          \* what the rows and changes so far take of the budget

formatVars == <<data, phase, scope, table, last, copy, damage, result, step, written,
                joined, throughout, cut, gone, changed, renamed, spent>>
reading == <<scope, table, last, copy>>
transaction == <<step, written, joined>>
history == <<throughout, cut, gone, changed, renamed, spent>>

NoRows == [T \in AllTables |-> {}]
NoDamage == [kind |-> "none", at |-> "none", index |-> 0]
Unparsed == [bad |-> TRUE, version |-> "", scope |-> "full",
             tables |-> << >>, manifest |-> << >>]

FormatInit ==
  /\ data = NoRows
  /\ phase = "filled" /\ scope = 0
  /\ table = 1 /\ last = 0
  /\ copy = [T \in Tables |-> << >>]
  /\ damage = NoDamage /\ result = Unparsed
  /\ step = 0 /\ written = NoRows /\ joined = NoRows
  /\ throughout = NoRows /\ cut = {} /\ gone = NoRows
  /\ changed = FALSE /\ renamed = FALSE /\ spent = 0

(***************************************************************************)
(* The database.  The services go on while a backup is read, and between   *)
(* the statements of a restore: rows that it has deleted are locked, rows  *)
(* that it has put back are not to be seen.                                *)
(***************************************************************************)
Serving == {"exporting", "accepted", "restoring"}

Standing == IF phase = "restoring" THEN joined ELSE data

Has(rows, f, id) == \E r \in rows : r.ref[f] = id

(* What is removed takes along what refers to it, and that what refers to  *)
(* it in turn: no chain of such references is longer.                      *)
Cascading(T) ==
  IF T \notin DOMAIN Keyed THEN {}
  ELSE DOMAIN Keyed[T] \ (IF T \in DOMAIN Unlinking THEN Unlinking[T] ELSE {})

WithReferrers(rows) ==
  [T \in AllTables |-> rows[T] \cup
     {r \in Standing[T] : \E f \in Cascading(T) : \E q \in rows[Keyed[T][f]] : q.id = r.ref[f]}]

(* The matches of a season are deleted with it, in one transaction. *)
Removed(T, r) ==
  WithReferrers(WithReferrers(
    [U \in AllTables |->
       IF U = T THEN {r}
       ELSE IF U = "Match" /\ T = "Season" THEN {m \in Standing[U] : m.ref["seasonId"] = r.id}
       ELSE {}]))

Unlinked(T, r, removed) ==
  IF T \notin DOMAIN Unlinking THEN r
  ELSE [r EXCEPT !.ref = [f \in DOMAIN r.ref |->
          IF f \in Unlinking[T] /\ \E q \in removed[Keyed[T][f]] : q.id = r.ref[f]
            THEN 0 ELSE r.ref[f]]]

WithoutRows(d, removed) ==
  [T \in AllTables |-> {Unlinked(T, r, removed) : r \in d[T] \ removed[T]}]

(* What has been there since the export began, until it ends. *)
Lasting(d) ==
  IF phase = "exporting" THEN [T \in AllTables |-> throughout[T] \cap d[T]] ELSE throughout

(* An id is never given again, a name may be. *)
TakesOver(T, r) == r.name # "" /\ \E q \in gone[T] : q.name = r.name

InsertRow(T, r) ==
  /\ phase = "filled" \/ phase \in Serving
  /\ spent' = spent + (IF phase = "filled" THEN 1 ELSE 3) /\ spent' <= Budget
  /\ \A q \in data[T] \cup written[T] : ~ SameKey(T, r, q)
  /\ \A q \in gone[T] : q.id # r.id
  /\ T \in DOMAIN Keyed => \A f \in DOMAIN Keyed[T] :
       r.ref[f] = 0 \/ \E t \in Standing[Keyed[T][f]] : t.id = r.ref[f]
  /\ data' = [data EXCEPT ![T] = @ \cup {r}]
  /\ joined' = IF phase = "restoring" THEN [joined EXCEPT ![T] = @ \cup {r}] ELSE joined
  /\ changed' = (changed \/ phase # "filled")
  /\ renamed' = (renamed \/ TakesOver(T, r))
  /\ UNCHANGED <<phase, reading, damage, result, step, written, throughout, cut, gone>>

(* Teams go with an import that is undone, if nothing but registrations    *)
(* refers to them.                                                         *)
DeleteRow(T, r) ==
  LET removed == Removed(T, r)
      here == MandatoryTables[table]
  IN  /\ phase \in Serving
      /\ spent' = spent + 1 /\ spent' <= Budget
      /\ r \in Standing[T]
      /\ T = "Team" => \A U \in Tables \cap DOMAIN Keyed : \A f \in DOMAIN Keyed[U] :
           Keyed[U][f] = "Team" => ~ Has(Standing[U], f, r.id)
      /\ data' = WithoutRows(data, removed)
      /\ joined' = WithoutRows(joined, removed) /\ Closed(joined')
      /\ throughout' = Lasting(data')
      /\ cut' = IF phase = "exporting" /\ \E q \in removed[here] : q.id = last
                  THEN cut \cup {here} ELSE cut
      /\ gone' = [U \in AllTables |-> gone[U] \cup removed[U]]
      /\ changed' = TRUE
      /\ UNCHANGED <<phase, reading, damage, result, step, written, renamed>>

(* renameSeason; a new season may take the old name at once. *)
RenameSeason(r) ==
  LET named == [r EXCEPT !.name = NewName]
      Renamed(d) == [d EXCEPT !["Season"] =
                       {IF q = r THEN named ELSE q : q \in d["Season"]}]
  IN  /\ phase \in Serving
      /\ spent' = spent + 2 /\ spent' <= Budget
      /\ r \in Standing["Season"]
      /\ \A q \in data["Season"] \cup written["Season"] : q.name # NewName
      /\ data' = Renamed(data) /\ joined' = Renamed(joined)
      /\ throughout' = Lasting(data')
      /\ gone' = [gone EXCEPT !["Season"] = @ \cup {r}]
      /\ changed' = TRUE
      /\ renamed' = (renamed \/ TakesOver("Season", named))
      /\ UNCHANGED <<phase, reading, damage, result, step, written, cut>>

(***************************************************************************)
(* createBackup: what belongs to a season, and reading it page by page.    *)
(***************************************************************************)
MatchesOf(s) == {m \in data["Match"] : m.ref["seasonId"] = s}

OfMatches(T, s) == {r \in data[T] : \E m \in MatchesOf(s) : m.id = r.ref["matchId"]}

OfSeason(T, s) == {r \in data[T] : r.ref["seasonId"] = s}

(* Mutant: a match's best player does not count. *)
PlayerOfSeasonButMvp(p, s) ==
  \/ Has(OfSeason("SeasonTeamPlayer", s), "playerId", p.id)
  \/ Has(OfMatches("MatchLineup", s), "playerId", p.id)
  \/ Has(OfMatches("Goal", s), "playerId", p.id)
  \/ \E f \in {"playerId", "subPlayerId", "assistPlayerId"} :
       Has(OfMatches("MatchEvent", s), f, p.id)

PlayerOfSeason(p, s) ==
  \/ Has(OfSeason("SeasonTeamPlayer", s), "playerId", p.id)
  \/ Has(OfMatches("MatchLineup", s), "playerId", p.id)
  \/ Has(OfMatches("Goal", s), "playerId", p.id)
  \/ \E f \in {"playerId", "subPlayerId", "assistPlayerId"} :
       Has(OfMatches("MatchEvent", s), f, p.id)
  \/ Has(MatchesOf(s), "mvpPlayerId", p.id)

TeamOfSeason(t, s) ==
  \/ \E T \in {"SeasonTeamProfile", "SeasonTeamPlayer", "SeasonGroupTeam"} :
       Has(OfSeason(T, s), "teamId", t.id)
  \/ \E f \in {"homeTeamId", "awayTeamId"} : Has(MatchesOf(s), f, t.id)
  \/ \E p \in data["Player"] : p.ref["teamId"] = t.id /\ PlayerOfSeason(p, s)

UserOfSeason(u, s) ==
  \/ Has(OfSeason("SeasonDeletionApproval", s), "approverId", u.id)
  \/ \E t \in data["Team"] : t.id = u.ref["teamId"] /\ TeamOfSeason(t, s)

InScope(T, r, s) ==
  \/ s = 0
  \/ T = "Season" /\ r.id = s
  \/ T \in {"SeasonTeamProfile", "SeasonTeamPlayer", "SeasonGroupTeam",
            "SeasonDeletionApproval", "Match"} /\ r.ref["seasonId"] = s
  \/ T \in {"MatchLineup", "MatchEvent", "Goal", "Prediction"} /\ r \in OfMatches(T, s)
  \/ T = "Team" /\ TeamOfSeason(r, s)
  \/ T = "Player" /\ PlayerOfSeason(r, s)
  \/ T = "MemberAccount" /\ Has(OfMatches("Prediction", s), "userId", r.id)
  \/ T = "User" /\ UserOfSeason(r, s)

(* A player of a season keeps only a suspension of that season. *)
Exported(T, r) ==
  IF T = "Player" /\ scope # 0
     /\ ~ \E m \in MatchesOf(scope) : m.id = r.ref["suspendedAtMatchId"]
    THEN [r EXCEPT !.ref["suspendedAtMatchId"] = 0]
    ELSE r

Listed(T) == {r \in data[T] : InScope(T, r, scope)}

(* The n-th of some rows in the order of their ids. *)
Nth(rows, n) == CHOOSE r \in rows : Cardinality({q \in rows : q.id <= r.id}) = n

(* At most PageSize rows, after the first few. *)
PageOf(rows, skipped) ==
  [i \in 1..Min({PageSize, Cardinality(rows) - skipped}) |-> Nth(rows, skipped + i)]

FromCursor(T) == {r \in Listed(T) : r.id >= last}
CursorIsGone(T) == \A r \in data[T] : r.id # last

(* Mutant: the next page leaves out a row too many. *)
PageSkippingTwo(T) ==
  IF last = 0 THEN PageOf(Listed(T), 0)
  ELSE IF CursorIsGone(T) THEN << >>
  ELSE PageOf(FromCursor(T), 2)

(* The cursor is a row, which is left out: without it the page is empty. *)
Page(T) ==
  IF last = 0 THEN PageOf(Listed(T), 0)
  ELSE IF CursorIsGone(T) THEN << >>
  ELSE PageOf(FromCursor(T), 1)

BeginExport(s) ==
  /\ phase = "filled"
  /\ s = 0 \/ \E r \in data["Season"] : r.id = s
  /\ phase' = "exporting" /\ scope' = s
  /\ throughout' = data
  /\ UNCHANGED <<data, table, last, copy, damage, result, transaction, cut, gone, changed,
                 renamed, spent>>

ReadPage ==
  LET T == MandatoryTables[table]
      page == Page(T)
  IN  /\ phase = "exporting"
      /\ copy' = [copy EXCEPT ![T] = @ \o [i \in DOMAIN page |-> Exported(T, page[i])]]
      /\ IF Len(page) = PageSize
           THEN UNCHANGED <<table, phase>> /\ last' = page[Len(page)].id
         ELSE IF table < Len(MandatoryTables)
           THEN table' = table + 1 /\ last' = 0 /\ UNCHANGED phase
         ELSE phase' = "stored" /\ UNCHANGED <<table, last>>
      /\ UNCHANGED <<data, scope, damage, result, transaction, history>>

(***************************************************************************)
(* createV3BackupStream.                                                   *)
(***************************************************************************)
ScopeName == IF scope = 0 THEN "full" ELSE "season"

TablesWritten ==
  [i \in DOMAIN MandatoryTables |-> <<MandatoryTables[i], copy[MandatoryTables[i]]>>]

CountsWritten ==
  [i \in DOMAIN MandatoryTables |-> <<MandatoryTables[i], Len(copy[MandatoryTables[i]])>>]

(***************************************************************************)
(* A file that is not as it was written: a property, a table or a row that *)
(* is missing or there twice, a row that is missing and not counted, an    *)
(* end that never came.                                                    *)
(***************************************************************************)
Edited(seq, at) ==
  IF damage.at # at THEN seq
  ELSE IF damage.kind = "drop" THEN RemoveAt(seq, damage.index)
  ELSE InsertAt(seq, damage.index, seq[damage.index])

LastRowGone(tables) ==
  [i \in DOMAIN tables |->
     IF i # damage.index THEN tables[i]
     ELSE IF damage.kind = "double" THEN <<tables[i][1], Append(tables[i][2], Last(tables[i][2]))>>
     ELSE <<tables[i][1], Front(tables[i][2])>>]

Recounted(counts) == [counts EXCEPT ![damage.index] = <<@[1], @[2] - 1>>]

Manifest ==
  Edited(<<<<"formatVersion", "3.0">>, <<"checksumAlgorithm", "sha256">>,
           <<"checksum", TablesWritten>>,
           <<"tables", IF damage.at = "counted row" THEN Recounted(CountsWritten)
                       ELSE Edited(CountsWritten, "counts")>>,
           <<"scope", ScopeName>>>>, "manifest")

File ==
  Edited(<<<<"formatVersion", "3.0">>, <<"timestamp", 0>>, <<"scope", ScopeName>>,
           <<"tables", IF damage.at \in {"row", "counted row"}
                         THEN LastRowGone(TablesWritten)
                         ELSE Edited(TablesWritten, "tables")>>,
           <<"manifest", Manifest>>>>, "top")

Damages ==
  [kind : {"drop", "double"}, at : {"top", "manifest"}, index : 1..5]
  \cup [kind : {"drop", "double"}, at : {"tables", "counts"}, index : {1, 6, 18}]
  \cup [kind : {"drop", "double"}, at : {"row", "counted row"},
        index : {j \in DOMAIN MandatoryTables : copy[MandatoryTables[j]] # << >>}]
  \cup {[kind |-> "cut", at |-> "end", index |-> 0], NoDamage}

(***************************************************************************)
(* parseAndValidateBackupStream: one property after another.               *)
(***************************************************************************)
TopLevelKeys == {"formatVersion", "timestamp", "scope", "season", "tables", "manifest"}

Keys(seq) == {seq[i][1] : i \in DOMAIN seq}
Distinct(seq) == \A i, j \in DOMAIN seq : seq[i][1] = seq[j][1] => i = j
ValueOf(seq, key) ==
  seq[CHOOSE i \in DOMAIN seq : /\ seq[i][1] = key
                                /\ \A j \in (i + 1)..Len(seq) : seq[j][1] # key][2]
ValueOr(seq, key, default) == IF key \in Keys(seq) THEN ValueOf(seq, key) ELSE default

(* writeRow: an id or a composite key that is there already is refused. *)
Staged(T, rows) ==
  \A i, j \in DOMAIN rows : i # j =>
    /\ rows[i].id # rows[j].id
    /\ T \in DOMAIN CompositeKeys =>
         \E f \in CompositeKeys[T] : rows[i].ref[f] # rows[j].ref[f]

TablesAreRead(tables) ==
  /\ Keys(tables) \subseteq Tables /\ Distinct(tables)
  /\ \A i \in DOMAIN tables : Staged(tables[i][1], tables[i][2])

ManifestIsRead(manifest) ==
  /\ Distinct(manifest)
  /\ "tables" \in Keys(manifest) =>
       /\ Distinct(ValueOf(manifest, "tables"))
       /\ \A i \in DOMAIN ValueOf(manifest, "tables") : ValueOf(manifest, "tables")[i][2] >= 0

(* What is checked when the stream has ended. *)
Complete(tables, manifest) ==
  /\ damage.kind # "cut"
  /\ Keys(tables) = Tables
  /\ manifest # << >> =>
       /\ "tables" \in Keys(manifest)
       /\ Keys(ValueOf(manifest, "tables")) = Tables

(* The first thing that is wrong ends it, whatever has been read. *)
ParseStream(file) ==
  LET tables == ValueOr(file, "tables", << >>)
      manifest == ValueOr(file, "manifest", << >>)
  IN  [bad |-> ~ (/\ Keys(file) \subseteq TopLevelKeys /\ Distinct(file)
                  /\ TablesAreRead(tables) /\ ManifestIsRead(manifest)
                  /\ Complete(tables, manifest)),
       version |-> ValueOr(file, "formatVersion", ""),
       scope |-> IF ValueOr(file, "scope", "full") = "season" THEN "season" ELSE "full",
       tables |-> tables, manifest |-> manifest]

(***************************************************************************)
(* validateBackupStreamIntegrity and validateForeignKeysFromStaging.  The  *)
(* parser starts a manifest with the algorithm filled in, so that only the *)
(* digest itself can be missing.                                           *)
(***************************************************************************)
RowsOf(tables, T) == IF T \in Keys(tables) THEN ToSet(ValueOf(tables, T)) ELSE {}

Counted(tables, counts) ==
  \A T \in Tables : Len(ValueOf(tables, T)) = ValueOf(counts, T)

(* Mutant: the digest is not compared. *)
IntegrityByCounts(p) ==
  /\ p.version = "3.0" /\ "checksum" \in Keys(p.manifest)
  /\ Counted(p.tables, ValueOf(p.manifest, "tables"))
  /\ p.scope = "full" => RowsOf(p.tables, "User") # {}

Integrity(p) ==
  /\ p.version = "3.0" /\ "checksum" \in Keys(p.manifest)
  /\ Counted(p.tables, ValueOf(p.manifest, "tables"))
  /\ p.scope = "full" => RowsOf(p.tables, "User") # {}
  /\ ValueOf(p.manifest, "checksum") = p.tables

(* Mutant: seasons are not looked up. *)
ReferencesHoldButSeason(tables) ==
  \A T \in Tables \cap DOMAIN Keyed : \A r \in RowsOf(tables, T) :
    \A f \in DOMAIN Keyed[T] \ {"seasonId"} :
      r.ref[f] = 0 \/ \E t \in RowsOf(tables, Keyed[T][f]) : t.id = r.ref[f]

ReferencesHold(tables) ==
  \A T \in Tables \cap DOMAIN Keyed : \A r \in RowsOf(tables, T) :
    \A f \in DOMAIN Keyed[T] :
      r.ref[f] = 0 \/ \E t \in RowsOf(tables, Keyed[T][f]) : t.id = r.ref[f]

Accepted(p) == ~ p.bad /\ Integrity(p) /\ ReferencesHold(p.tables)

(***************************************************************************)
(* validateBackupSchemaAndIntegrity: the same on an object in memory, as   *)
(* the migration of old files reads it.  JSON.parse keeps the last of two  *)
(* properties with one name, at the place of the first.                    *)
(***************************************************************************)
Merged(seq) ==
  LET firsts == {i \in DOMAIN seq : \A j \in 1..(i - 1) : seq[j][1] # seq[i][1]}
      Place(n) == CHOOSE i \in firsts : Cardinality({j \in firsts : j <= i}) = n
  IN  [n \in 1..Cardinality(firsts) |->
         <<seq[Place(n)][1], ValueOf(seq, seq[Place(n)][1])>>]

MemoryScope(file) ==
  LET manifest == ValueOf(file, "manifest")
  IN  IF "scope" \in Keys(file) THEN ValueOf(file, "scope")
      ELSE IF "scope" \in Keys(manifest) THEN ValueOf(manifest, "scope")
      ELSE "full"

MemoryAccepts(file) ==
  /\ damage.kind # "cut"
  /\ Keys(file) \subseteq TopLevelKeys
  /\ {"formatVersion", "manifest", "tables"} \subseteq Keys(file)
  /\ {"checksumAlgorithm", "checksum", "tables"} \subseteq Keys(ValueOf(file, "manifest"))
  /\ LET tables == Merged(ValueOf(file, "tables"))
         counts == ValueOf(ValueOf(file, "manifest"), "tables")
     IN  /\ Keys(tables) = Tables /\ Tables \subseteq Keys(counts)
         /\ Counted(tables, counts)
         /\ MemoryScope(file) = "full" => RowsOf(tables, "User") # {}
         /\ tables = ValueOf(ValueOf(file, "manifest"), "checksum")
         /\ ReferencesHold(tables)
         /\ \A T \in DOMAIN CompositeKeys : \A r, q \in RowsOf(tables, T) :
              r # q => \E f \in CompositeKeys[T] : r.ref[f] # q.ref[f]

(***************************************************************************)
(* What happens to a file: it is stored, read back, restored.              *)
(***************************************************************************)
Damage(d) ==
  /\ phase = "stored"
  /\ d = NoDamage \/ spent + 2 <= Budget
  /\ damage' = d /\ phase' = "sent"
  /\ UNCHANGED <<data, reading, result, transaction, history>>

Verify ==
  /\ phase = "sent"
  /\ result' = ParseStream(File)
  /\ phase' = IF Accepted(result') THEN "accepted" ELSE "refused"
  /\ UNCHANGED <<data, reading, damage, transaction, history>>

(***************************************************************************)
(* The transaction of restoreBackup: everything is deleted, then inserted  *)
(* table by table without three references that would point ahead, then    *)
(* these are set.  It reads what is committed: rows that others add after  *)
(* the deletion stay.  What the database refuses rolls it back.            *)
(***************************************************************************)
PutOff == [Player |-> "suspendedAtMatchId", Match |-> "mvpPlayerId", User |-> "teamId"]

WithoutPutOff(T, r) == IF T \in DOMAIN PutOff THEN [r EXCEPT !.ref[PutOff[T]] = 0] ELSE r

(* The scope is the one the parser made out.  No row stays: registrations  *)
(* go with their seasons.  What others add between two of the deletions    *)
(* goes with the rest, or refers to nothing that goes.                     *)
DeleteAll ==
  /\ phase = "accepted" /\ result.scope # "season"
  /\ phase' = "restoring" /\ step' = 1
  /\ UNCHANGED <<data, reading, damage, result, written, joined, history>>

(* The rows that are there for the transaction when it has written some. *)
Rebuilt(rows) == [T \in AllTables |-> joined[T] \cup rows[T]]

Taken(rows) == Closed(Rebuilt(rows)) /\ Unique(Rebuilt(rows))

(* Tables without rows cost no statement. *)
Due == {n \in step..Len(RestoreInsertOrder) :
          RowsOf(result.tables, RestoreInsertOrder[n]) # {}}

InsertTable ==
  /\ phase = "restoring"
  /\ \E n \in Due :
       LET T == RestoreInsertOrder[n]
           rows == [written EXCEPT ![T] =
                      {WithoutPutOff(T, r) : r \in RowsOf(result.tables, T)}]
       IN  /\ \A m \in Due : n <= m
           /\ IF Taken(rows) THEN written' = rows /\ step' = n + 1 /\ UNCHANGED phase
              ELSE phase' = "failed" /\ UNCHANGED <<written, step>>
  /\ UNCHANGED <<data, reading, damage, result, joined, history>>

RepairAndCommit ==
  LET rows == [T \in AllTables |->
                 IF T \in DOMAIN PutOff THEN RowsOf(result.tables, T) ELSE written[T]]
  IN  /\ phase = "restoring" /\ Due = {}
      /\ IF Taken(rows) THEN data' = Rebuilt(rows) /\ phase' = "restored"
         ELSE phase' = "failed" /\ UNCHANGED data
      /\ UNCHANGED <<reading, damage, result, transaction, history>>

FormatNext ==
  \/ \E T \in AllTables : \E r \in Candidates[T] : InsertRow(T, r)
  \/ \E T \in Removable : \E r \in data[T] : DeleteRow(T, r)
  \/ \E r \in data["Season"] : RenameSeason(r)
  \/ \E s \in Seasons : BeginExport(s)
  \/ ReadPage
  \/ \E d \in Damages : Damage(d)
  \/ Verify
  \/ DeleteAll
  \/ InsertTable
  \/ RepairAndCommit

FormatSpec == FormatInit /\ [][FormatNext]_formatVars

-----------------------------------------------------------------------------
(* A backup of the whole site holds every row that was there from the      *)
(* first page to the last, and none twice, whatever is added, removed and  *)
(* renamed between two pages: except in a table that lost the very row the *)
(* next page starts from, of which the rest is left out.                   *)
NothingIsMissed ==
  phase \in {"stored", "sent", "accepted"} /\ scope = 0 =>
    \A T \in Tables :
      /\ T \in cut \/ throughout[T] \subseteq ToSet(copy[T])
      /\ \A i, j \in DOMAIN copy[T] : copy[T][i].id = copy[T][j].id => i = j

(* An export of a database at rest passes its own verification, a season's *)
(* too: the tables of a season refer to nothing outside it.  A staff       *)
(* account that approved its deletion and coaches a team elsewhere since   *)
(* is the exception, and a site without accounts is refused.               *)
QuietExportIsAccepted ==
  phase = "refused" /\ ~ changed /\ damage = NoDamage =>
    \/ scope = 0 /\ data["User"] = {}
    \/ scope # 0 /\ \E u \in data["User"] :
         /\ u.ref["teamId"] # 0
         /\ Has(OfSeason("SeasonDeletionApproval", scope), "approverId", u.id)

(* What passes holds what was written, row for row, whatever happened to   *)
(* the file; and the check in memory accepts all that the stream accepts,  *)
(* but for a manifest that does not name the algorithm of its digest.      *)
AcceptedIsWhole ==
  phase = "accepted" =>
    /\ \A T \in Tables : ValueOf(result.tables, T) = copy[T]
    /\ "checksumAlgorithm" \in Keys(Manifest) => MemoryAccepts(File)

(* An accepted backup can be restored, and gives back all its tables,      *)
(* beside the rows others added while it went on: no statement of the      *)
(* restore breaks a reference or a unique column, unless a unique name     *)
(* changed hands since the backup was begun.                               *)
AcceptedRestores ==
  /\ phase = "failed" => renamed
  /\ phase = "restored" => \A T \in Tables : data[T] = ToSet(copy[T]) \cup joined[T]
=============================================================================
