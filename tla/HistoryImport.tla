--------------------------- MODULE HistoryImport ---------------------------
(***************************************************************************)
(* Importing old seasons from JSON files and undoing the last import       *)
(* (src/src/import/import.service.ts, import-parser.ts, import-writer.ts). *)
(*                                                                         *)
(* A row is found by its key: the name of a season or a team, the          *)
(* legacyKey of a player, the legacyGameId of a match, the unique pair of  *)
(* the other tables.  born tells the import that created it from any other *)
(* row with that key, as its id does.  What a row says is reduced to what  *)
(* the import and its undo change; the events and goals of a match are     *)
(* part of its content.                                                    *)
(***************************************************************************)
EXTENDS Integers, Sequences, FiniteSets, FiniteSetsExt

CONSTANTS
  Files,         \* name of a file -> [seasons, teams, players, matches]
  SeasonOf,      \* of a match or a player: the season its file is of
  TeamsOf,       \* the two teams of a match
  TeamOf,        \* the team the file gives a player
  Old,           \* the rows that are there at the start
  Strangers,     \* rows that staff may add on their own
  Undoers,       \* requests that undo the last import
  MaxImports,    \* bound
  MaxEdits,      \* bound: changes by staff
  NoRow

Season(s) == <<"season", s>>
Team(t) == <<"team", t>>
Profile(s, t) == <<"profile", s, t>>
Player(p) == <<"player", p>>
Link(s, p) == <<"link", s, p>>
Match(m) == <<"match", m>>
Lineup(m, p) == <<"lineup", m, p>>
Registration(s, t) == <<"registration", s, t>>
Approval(s, u) == <<"approval", s, u>>

Row(born, val) == [born |-> born, val |-> val]

(* importFiles: a match brings its teams along, a team is of every season  *)
(* it is named in, a player is on the list of his season.                  *)
TeamNames(file) ==
  file.teams \cup (UNION {{TeamsOf[m][1], TeamsOf[m][2]} : m \in file.matches})
             \cup {TeamOf[p] : p \in file.players}

SeasonNames(file, t) ==
  IF t \in file.teams \/ \E p \in file.players : TeamOf[p] = t THEN file.seasons
  ELSE {SeasonOf[m] : m \in {n \in file.matches : t \in {TeamsOf[n][1], TeamsOf[n][2]}}}

KeysOf(file) ==
  {Season(s) : s \in file.seasons} \cup {Team(t) : t \in TeamNames(file)}
  \cup (UNION {{Profile(s, t) : s \in SeasonNames(file, t)} : t \in TeamNames(file)})
  \cup {Player(p) : p \in file.players} \cup {Link(SeasonOf[p], p) : p \in file.players}
  \cup {Match(m) : m \in file.matches}

(* What the import writes into a row. *)
FileVal(k, name) ==
  CASE k[1] = "season" -> "archived"
    [] k[1] = "team" -> "live"
    [] k[1] = "profile" -> "registered"
    [] k[1] \in {"player", "link"} -> TeamOf[k[Len(k)]]
    [] k[1] = "match" -> name

Keys == (UNION {KeysOf(Files[f]) : f \in DOMAIN Files}) \cup DOMAIN Old \cup DOMAIN Strangers

Kinds == {"season", "team", "profile", "player", "link", "match", "lineup",
          "registration", "approval"}

Vals == {"archived", "live", "registered", "edited"} \cup DOMAIN Files
        \cup {TeamOf[p] : p \in DOMAIN TeamOf} \cup {Old[k] : k \in DOMAIN Old}
        \cup {Strangers[k] : k \in DOMAIN Strangers}

Records == [born : Nat, val : Vals]
States == [Keys -> Records \cup {NoRow}]

There(d) == {k \in DOMAIN d : d[k] # NoRow}

(* The rows a row points to. *)
Refers(d, k) ==
  CASE k[1] = "profile" -> {Season(k[2]), Team(k[3])}
    [] k[1] = "player" -> {Team(d[k].val)}
    [] k[1] = "link" -> {Season(k[2]), Player(k[3]), Team(d[k].val)}
    [] k[1] = "match" -> {Season(SeasonOf[k[2]]), Team(TeamsOf[k[2]][1]), Team(TeamsOf[k[2]][2])}
    [] k[1] = "lineup" -> {Match(k[2]), Player(k[3])}
    [] k[1] = "registration" -> {Season(k[2]), Team(k[3])}
    [] k[1] = "approval" -> {Season(k[2])}
    [] OTHER -> {}

Whole(d) == \A k \in There(d) : Refers(d, k) \subseteq There(d)

OldRows == [k \in Keys |-> IF k \in DOMAIN Old THEN Row(0, Old[k]) ELSE NoRow]

(* A file names the season of what it lists; the database holds its foreign keys. *)
ASSUME FilesAssumption ==
  \A f \in DOMAIN Files :
    /\ Files[f].players \subseteq DOMAIN TeamOf
    /\ \A x \in Files[f].players \cup Files[f].matches : SeasonOf[x] \in Files[f].seasons
ASSUME RowsAssumption ==
  /\ NoRow \notin Records /\ Whole(OldRows)
  /\ \A k \in DOMAIN Old \cup DOMAIN Strangers : k[1] \in Kinds

VARIABLES
  db,            \* Keys -> row
  batches,       \* HistoryImportBatch, in the order of createdAt
  undo,          \* what each undo request has read: 0, or the number of a batch
  edits,         \* changes by staff so far
  \* history
  lost           \* staff deleted a row that an import had updated, or an undo
                 \* that read its batch too early ran when it was not the last

historyVars == <<db, batches, undo, edits, lost>>

Batch == [status : {"completed", "undone"}, created : SUBSET Keys,
          updated : States, before : States, after : States]

HistoryTypeOK ==
  /\ db \in States
  /\ batches \in Seq(Batch)
  /\ undo \in [Undoers -> Nat]
  /\ edits \in Nat /\ lost \in BOOLEAN

HistoryInit ==
  /\ db = OldRows
  /\ batches = << >>
  /\ undo = [u \in Undoers |-> 0]
  /\ edits = 0 /\ lost = FALSE

Referring(d, ks) == {k \in There(d) : Refers(d, k) \cap ks # {}}

(* Deleting rows takes the rows along that point to them. *)
Cascade(d, ks) ==
  LET one == ks \cup Referring(d, ks)
      two == one \cup Referring(d, one)
      all == two \cup Referring(d, two)
  IN  [k \in Keys |-> IF k \in all THEN NoRow ELSE d[k]]

(***************************************************************************)
(* importFiles: one transaction.  The undo payload has the rows that were  *)
(* created, and of the teams, players, list entries and matches that were  *)
(* updated what they were.                                                 *)
(***************************************************************************)
(* Mutant: list entries are not remembered. *)
RememberedButLinks == {"team", "player", "match"}

Remembered == {"team", "player", "link", "match"}

(* A row with the key is updated, a season is left as it is; without one   *)
(* the n-th import creates it.  A match also gets new events and goals.    *)
Upserted(k, name, n) ==
  IF db[k] = NoRow THEN Row(n, FileVal(k, name))
  ELSE IF k[1] = "season" THEN db[k]
  ELSE [db[k] EXCEPT !.val = FileVal(k, name)]

ImportFile(name) ==
  LET n == Len(batches) + 1
      keys == KeysOf(Files[name])
      old == keys \cap There(db)
      after == [k \in Keys |-> IF k \in keys THEN Upserted(k, name, n) ELSE db[k]]
  IN  /\ n <= MaxImports
      /\ db' = after
      /\ batches' = Append(batches,
           [status |-> "completed", created |-> keys \ old,
            updated |-> [k \in Keys |-> IF k \in old /\ k[1] \in Remembered THEN db[k] ELSE NoRow],
            before |-> db, after |-> after])
      /\ UNCHANGED <<undo, edits, lost>>

(***************************************************************************)
(* undoLastImport: the batch is read first, then everything is one         *)
(* transaction that does not look at the batch's status again.             *)
(***************************************************************************)
Completed == {n \in DOMAIN batches : batches[n].status = "completed"}

(* Mutant: the oldest one. *)
OldestCompleted == Min(Completed)

LastCompleted == Max(Completed)

ReadLast(u) ==
  /\ undo[u] = 0 /\ Completed # {}
  /\ undo' = [undo EXCEPT ![u] = LastCompleted]
  /\ UNCHANGED <<db, batches, edits, lost>>

Kind(ks, kind) == {k \in ks : k[1] = kind}

(* deleteMany by id. *)
Deleted(d, n, kind) ==
  Cascade(d, {k \in Kind(batches[n].created, kind) : d[k] # NoRow /\ d[k].born = n})

(* update by id, of each row that was updated. *)
PutBack(d, n, kind) ==
  LET old == batches[n].updated
  IN  [k \in Keys |-> IF k[1] = kind /\ old[k] # NoRow THEN old[k] ELSE d[k]]

(* Mutant: a team is deleted whoever plays in it. *)
DeletedIfFreeOfMatches(d, n, kind) ==
  Cascade(d, {k \in Kind(batches[n].created, kind) :
                /\ d[k] # NoRow /\ d[k].born = n
                /\ Kind(Referring(d, {k}), "match") = {}})

(* What has to be gone before a team or a season is deleted.  A club's      *)
(* registration and the approvals of a season's deletion are not looked    *)
(* for, and go along.                                                      *)
InUse == {"player", "profile", "link", "match"}

(* deleteMany where none of these points to the row. *)
DeletedIfFree(d, n, kind) ==
  Cascade(d, {k \in Kind(batches[n].created, kind) :
                /\ d[k] # NoRow /\ d[k].born = n
                /\ \A o \in Referring(d, {k}) : o[1] \notin InUse})

Undone(n) ==
  LET matches == PutBack(Deleted(db, n, "match"), n, "match")
      links == PutBack(Deleted(matches, n, "link"), n, "link")
      profiles == Deleted(links, n, "profile")
      players == Deleted(PutBack(profiles, n, "player"), n, "player")
      teams == DeletedIfFree(PutBack(players, n, "team"), n, "team")
  IN  DeletedIfFree(teams, n, "season")

(* The row with the key is still the one with the id. *)
SameRow(d, e, k) == k \in There(d) /\ k \in There(e) /\ d[k].born = e[k].born

(* An update of a row that has gone throws, and so does one that gives a   *)
(* player or a list entry back to a team that has gone.                    *)
CanPutBack(n) ==
  \A k \in There(batches[n].updated) :
    /\ SameRow(db, batches[n].updated, k)
    /\ k[1] \in {"player", "link"} =>
         SameRow(db, batches[n].before, Team(batches[n].updated[k].val))

UndoLast(u) ==
  LET n == undo[u]
  IN  /\ n # 0 /\ CanPutBack(n)
      /\ db' = Undone(n)
      /\ batches' = [batches EXCEPT ![n].status = "undone"]
      /\ undo' = [undo EXCEPT ![u] = 0]
      /\ lost' = (lost \/ Completed = {} \/ n # LastCompleted)
      /\ UNCHANGED edits

UndoThrows(u) ==
  /\ undo[u] # 0 /\ ~ CanPutBack(undo[u])
  /\ undo' = [undo EXCEPT ![u] = 0]
  /\ UNCHANGED <<db, batches, edits, lost>>

(***************************************************************************)
(* Staff work on the same rows: they edit a match, add players, list       *)
(* entries, line-ups, registrations and approvals of a season's deletion,  *)
(* and remove list entries or a whole season.                              *)
(***************************************************************************)
EditMatch(k) ==
  /\ k[1] = "match" /\ db[k] # NoRow /\ db[k].val # "edited"
  /\ db' = [db EXCEPT ![k].val = "edited"]
  /\ UNCHANGED lost

AddRow(k) ==
  /\ k \in DOMAIN Strangers /\ db[k] = NoRow
  /\ LET d == [db EXCEPT ![k] = Row(0, Strangers[k])]
     IN  Refers(d, k) \subseteq There(db) /\ db' = d
  /\ UNCHANGED lost

RemoveForGood(k) ==
  /\ k[1] \in {"link", "season"} /\ db[k] # NoRow
  /\ db' = Cascade(db, {k})
  /\ lost' = (lost \/ \E n \in DOMAIN batches :
                \E o \in There(batches[n].updated) : db[o] # NoRow /\ db'[o] = NoRow)

Staff(k) ==
  /\ edits < MaxEdits /\ edits' = edits + 1
  /\ EditMatch(k) \/ AddRow(k) \/ RemoveForGood(k)
  /\ UNCHANGED <<batches, undo>>

HistoryNext ==
  \/ \E name \in DOMAIN Files : ImportFile(name)
  \/ \E u \in Undoers : ReadLast(u) \/ UndoLast(u) \/ UndoThrows(u)
  \/ \E k \in Keys : Staff(k)

HistorySpec == HistoryInit /\ [][HistoryNext]_historyVars

-----------------------------------------------------------------------------
(* The flag that a profile is registered is not taken back. *)
Same(d, e) ==
  \A k \in Keys : d[k] = e[k] \/ (k[1] = "profile" /\ SameRow(d, e, k))

(* Undoing an import when the rows are as it left them brings back what    *)
(* was there before it, imports nested in one another included; only an    *)
(* old team's profile stays registered for the season.                     *)
UndoRestores ==
  [][\A n \in DOMAIN batches :
       /\ batches[n].status = "completed" /\ batches'[n].status = "undone"
       /\ Same(db, batches[n].after)
       => Same(db', batches[n].before)]_historyVars

(* Whatever staff and other imports did since, an undo removes nothing but *)
(* rows its import created and what hangs on a player or a match it        *)
(* created: teams and seasons that players, profiles, list entries or      *)
(* matches use stay.  Only the registrations of a team or a season it      *)
(* created, and the approvals of such a season's deletion, go unseen.      *)
UndoTakesNoBystander ==
  [][\A u \in Undoers : undo[u] # 0 /\ undo'[u] = 0 =>
       \A k \in There(db) \ There(db') :
         \/ k \in batches[undo[u]].created /\ db[k].born = undo[u]
         \/ /\ k[1] \in {"link", "lineup", "registration", "approval"}
            /\ Refers(db, k) \cap batches[undo[u]].created # {}]_historyVars

(* The last import can be undone, and then the one before it, unless staff *)
(* deleted a row that one of them updated or an overtaken undo has run.    *)
UndoIsPossible ==
  Completed # {} /\ ~ CanPutBack(LastCompleted) => lost
=============================================================================
