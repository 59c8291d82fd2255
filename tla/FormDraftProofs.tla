--------------------------- MODULE FormDraftProofs ---------------------------
(***************************************************************************)
(* Form drafts for every number of drafts, handlers and images: a draft is *)
(* materialized by one handler at a time and keeps its record, and no      *)
(* image in use is deleted.                                                *)
(***************************************************************************)
EXTENDS FormDraft, FiniteSetTheorems, TLAPS

(* What a handler knows of itself: until it tries to commit, its commit    *)
(* cannot have gone unanswered, and what it is about to write is usable    *)
(* and no temporary image.                                                 *)
Fresh == {"idle", "claimed", "blank", "read", "copied"}

HandlerFacts(h) ==
  /\ pc[h] = "idle" => draft[h] = NoOne
  /\ pc[h] \in {"claimed", "sweep", "sweeping"} => draft[h] \in Drafts
  /\ pc[h] \in Fresh => h \notin unanswered
  /\ pc[h] = "read" => image[h] \in Usable \ {h}
  /\ pc[h] = "copied" => image[h] \in Usable \ Temps /\ (image[h] = h => h \in stored)

Claims(h, d) == draft[h] = d /\ pc[h] \in Claiming

(* A draft nobody has interfered with is claimed by one handler, whose     *)
(* target is the record the draft has already become, if any.              *)
ClaimFacts(d) ==
  /\ \A h, g \in Handlers : Claims(h, d) /\ Claims(g, d) => h = g
  /\ \A h \in Handlers : Claims(h, d) =>
       /\ \/ dstatus[d] \in {"MATERIALIZING", "GONE"}
          \/ dstatus[d] = "MATERIALIZED" /\ h \in unanswered
       /\ pc[h] \in {"read", "copied"} /\ born[d] # {} => target[h] \in born[d]
  /\ born[d] # {} => official[d] \in born[d]
  /\ \A r, s \in born[d] : r = s

NothingBornUnsaved == \A d \in Drafts : dstatus[d] = "NONE" => born[d] = {}

(* The formal image of a handler is seen outside it only after its commit. *)
Seen(i) ==
  \/ \E r \in Records : record[r] = i
  \/ \E d \in Drafts : payload[d] = i
  \/ \E s \in Savers : upayload[s] = i
  \/ \E g \in Handlers \ {i} : image[g] = i

SeenAreKept ==
  \A h \in Handlers : Seen(h) =>
    /\ h \in stored \cup unanswered
    /\ h \in unanswered \/ pc[h] \notin Claiming \cup {"idle"}

(* The temporary image of a draft in use is there, and nobody is about to  *)
(* remove it but who deletes the draft.                                    *)
InUse(d) ==
  /\ Exists(d) /\ dstatus[d] # "MATERIALIZED" /\ payload[d] \in Temps
  /\ \A h \in unanswered : draft[h] # d

ImageFacts(d) ==
  InUse(d) => /\ payload[d] \in stored
              /\ \A h \in Removing(payload[d]) : pc[h] = "sweeping" /\ draft[h] = d

IInv ==
  /\ TypeOK
  /\ \A h \in Handlers : HandlerFacts(h)
  /\ NothingBornUnsaved
  /\ \A d \in Drafts \ meddled : ClaimFacts(d)
  /\ SeenAreKept
  /\ \A d \in Drafts \ (meddled \cup late) : ImageFacts(d)

-----------------------------------------------------------------------------
(* What clients send is a payload. *)
LEMMA SentArePayloads == TypeOK => \A r \in Records \cup {NoOne} : Sent(r) \subseteq Payloads
  BY NamesAssumption DEF TypeOK, Sent, Known, Payloads

(* Init establishes the invariant. *)
LEMMA InductiveInit == Init => IInv
<1> SUFFICES ASSUME Init PROVE IInv
  OBVIOUS
<1>1. TypeOK
  BY DEF Init, TypeOK, Statuses, Claimable, Payloads, Images, Records, Steps, Claiming
<1>2. \A h \in Handlers : HandlerFacts(h)
  BY DEF Init, HandlerFacts
<1>3. NothingBornUnsaved
  BY DEF Init, NothingBornUnsaved
<1>4. \A d \in Drafts \ meddled : ClaimFacts(d)
  BY DEF Init, ClaimFacts, Claims, Claiming
<1>5. SeenAreKept
  <2>1. \A h \in Handlers : h \notin {"PLAIN", "BLANK", NoOne}
    BY NamesAssumption DEF Images, Records
  <2> QED
    BY <2>1 DEF Init, SeenAreKept, Seen
<1>6. \A d \in Drafts \ (meddled \cup late) : ImageFacts(d)
  BY DEF Init, ImageFacts, InUse, Exists
<1> QED
  BY <1>1, <1>2, <1>3, <1>4, <1>5, <1>6 DEF IInv

(* A status written by id is a status. *)
LEMMA SetStatusTypes ==
  ASSUME TypeOK, NEW d, NEW s \in Statuses, SetStatus(d, s)
  PROVE  dstatus' \in [Drafts -> Statuses] /\ stale' \in [Drafts -> BOOLEAN]
<1>1. CASE d \in Drafts /\ Exists(d)
  BY <1>1 DEF SetStatus, TypeOK
<1>2. CASE ~(d \in Drafts /\ Exists(d))
  BY <1>2 DEF SetStatus, TypeOK
<1> QED
  BY <1>1, <1>2

(* What the transaction writes is well typed. *)
LEMMA WrittenTypes ==
  ASSUME TypeOK, NEW h \in Handlers, HandlerFacts(h), Written(h)
  PROVE  /\ record' \in [Records -> Images \cup {"PLAIN", NoOne}]
         /\ dstatus' \in [Drafts -> Statuses] /\ payload' \in [Drafts -> Payloads]
         /\ official' \in [Drafts -> Records \cup {NoOne}] /\ stale' \in [Drafts -> BOOLEAN]
         /\ born' \in [Drafts -> SUBSET Records] /\ late' \subseteq Drafts
<1>1. image[h] \in Images \cup {"PLAIN"} /\ image[h] \in Payloads
  BY DEF HandlerFacts, Written, Usable, Payloads
<1>2. Made(h) \in Records
  BY DEF TypeOK, Made, Records
<1>3. record' \in [Records -> Images \cup {"PLAIN", NoOne}]
  BY <1>1, <1>2 DEF Written, TypeOK
<1>4. CASE draft[h] = NoOne
  BY <1>3, <1>4 DEF Written, TypeOK, rows
<1>5. CASE draft[h] # NoOne
  <2>1. draft[h] \in Drafts
    BY <1>5 DEF TypeOK
  <2>2. "MATERIALIZED" \in Statuses
    BY DEF Statuses
  <2>3. dstatus' \in [Drafts -> Statuses] /\ official' \in [Drafts -> Records \cup {NoOne}]
    BY <1>2, <1>5, <2>1, <2>2 DEF Written, TypeOK
  <2>4. stale' \in [Drafts -> BOOLEAN]
    BY <1>5, <2>1 DEF Written, TypeOK
  <2>5. payload' \in [Drafts -> Payloads] /\ late' \subseteq Drafts
    BY <1>1, <1>5, <2>1 DEF Written, TypeOK
  <2>6. born' \in [Drafts -> SUBSET Records]
    <3>1. born[draft[h]] \cup {h} \in SUBSET Records
      BY <2>1 DEF TypeOK, Records
    <3> QED
      BY <1>5, <2>1, <3>1 DEF Written, TypeOK
  <2> QED
    BY <1>3, <2>3, <2>4, <2>5, <2>6
<1> QED
  BY <1>4, <1>5

(* Every step keeps the types. *)
LEMMA TypeStep == TypeOK /\ (\A h \in Handlers : HandlerFacts(h)) /\ [Next]_vars => TypeOK'
<1> SUFFICES ASSUME TypeOK /\ (\A h \in Handlers : HandlerFacts(h)), [Next]_vars PROVE TypeOK'
  OBVIOUS
<1> USE DEF TypeOK, HandlerFacts, Statuses, Claimable, Payloads, Usable, Images, Records, Steps, Claiming,
        rows, handlers, patches, history
<1>1. ASSUME NEW d \in Drafts, CreateDraft(d) PROVE TypeOK'
  <2>1. \A o \in Existing \cup {NoOne} : Sent(o) \subseteq Payloads
    BY SentArePayloads DEF Records
  <2> QED
    BY <1>1, <2>1 DEF CreateDraft, NowNaming
<1>2. ASSUME NEW s \in Savers, NEW d \in Drafts, SaveRead(s, d) PROVE TypeOK'
  BY <1>2 DEF SaveRead
<1>3. ASSUME NEW s \in Savers, SaveWrite(s) PROVE TypeOK'
  <2>1. CASE Exists(udraft[s])
    <3>1. udraft[s] \in Drafts
      BY <1>3 DEF SaveWrite
    <3>2. Inputs \cup {upayload[s]} \subseteq Payloads
      BY NamesAssumption
    <3>3. PICK p \in Inputs \cup {upayload[s]}, o \in Existing \cup {uofficial[s]} :
            /\ payload' = [payload EXCEPT ![udraft[s]] = p]
            /\ official' = [official EXCEPT ![udraft[s]] = o]
            /\ stale' = [stale EXCEPT ![udraft[s]] = FALSE]
            /\ late' = NowNaming(udraft[s], p)
            /\ meddled' \in {meddled, meddled \cup {udraft[s]}}
      BY <1>3, <2>1 DEF SaveWrite
    <3>4. payload' \in [Drafts -> Payloads]
      BY <3>2, <3>3
    <3>5. official' \in [Drafts -> Records \cup {NoOne}]
      <4>1. o \in Records \cup {NoOne} /\ official \in [Drafts -> Records \cup {NoOne}]
        OBVIOUS
      <4> QED
        BY <3>3, <4>1
    <3>6. late' \subseteq Drafts /\ meddled' \subseteq Drafts
      BY <3>1, <3>3 DEF NowNaming
    <3>7. stale' \in [Drafts -> BOOLEAN]
      BY <3>3
    <3> QED
      BY <1>3, <3>4, <3>5, <3>6, <3>7 DEF SaveWrite
  <2>2. CASE ~Exists(udraft[s])
    BY <1>3, <2>2 DEF SaveWrite
  <2> QED
    BY <2>1, <2>2
<1>4. ASSUME NEW h \in Handlers, NEW d \in Drafts, Claim(h, d) PROVE TypeOK'
  BY <1>4 DEF Claim
<1>5. ASSUME NEW h \in Handlers, ReadDraft(h) PROVE TypeOK'
  BY <1>5 DEF ReadDraft
<1>6. ASSUME NEW h \in Handlers, PutBack(h) PROVE TypeOK'
  <2>1. dstatus' \in [Drafts -> Statuses] /\ stale' \in [Drafts -> BOOLEAN]
    BY <1>6, SetStatusTypes DEF PutBack
  <2> QED
    BY <1>6, <2>1 DEF PutBack
<1>7. ASSUME NEW h \in Handlers, MarkFailed(h) PROVE TypeOK'
  <2>1. dstatus' \in [Drafts -> Statuses] /\ stale' \in [Drafts -> BOOLEAN]
    BY <1>7, SetStatusTypes DEF MarkFailed
  <2> QED
    BY <1>7, <2>1 DEF MarkFailed
<1>8. ASSUME NEW h \in Handlers, BeginTeam(h) PROVE TypeOK'
  <2>1. \A r \in Existing \cup {NoOne} : Sent(r) \subseteq Payloads
    BY SentArePayloads DEF Records
  <2> QED
    BY <1>8, <2>1 DEF BeginTeam
<1>9. ASSUME NEW h \in Handlers, Prepare(h) PROVE TypeOK'
  BY <1>9 DEF Prepare
<1>10. ASSUME NEW h \in Handlers, Commit(h) PROVE TypeOK'
  BY <1>10, WrittenTypes DEF Commit, Written
<1>11. ASSUME NEW h \in Handlers, CommitUnanswered(h) PROVE TypeOK'
  BY <1>11, WrittenTypes DEF CommitUnanswered, Written
<1>12. ASSUME NEW h \in Handlers, CommitFails(h) PROVE TypeOK'
  BY <1>12 DEF CommitFails
<1>13. ASSUME NEW h \in Handlers, Undo(h) PROVE TypeOK'
  BY <1>13 DEF Undo, Copied
<1>14. ASSUME NEW h \in Handlers, CheckRefs(h) PROVE TypeOK'
  BY <1>14 DEF CheckRefs
<1>15. ASSUME NEW h \in Handlers, RemoveTemp(h) PROVE TypeOK'
  BY <1>15 DEF RemoveTemp
<1>16. ASSUME NEW h \in Handlers, NEW d \in Drafts, BeginDelete(h, d) PROVE TypeOK'
  BY <1>16 DEF BeginDelete, Cleanable
<1>17. ASSUME NEW h \in Handlers, NEW t \in Temps, BeginCleanup(h, t) PROVE TypeOK'
  BY <1>17 DEF BeginCleanup
<1>18. ASSUME NEW h \in Handlers, DeleteRow(h) PROVE TypeOK'
  <2>1. dstatus' \in [Drafts -> Statuses] /\ stale' \in [Drafts -> BOOLEAN]
    BY <1>18, SetStatusTypes DEF DeleteRow
  <2> QED
    BY <1>18, <2>1 DEF DeleteRow
<1>19. ASSUME NEW h \in Handlers, Crash(h) PROVE TypeOK'
  BY <1>19 DEF Crash
<1>20. ASSUME NEW d \in Drafts, FiveMinutesPass(d) PROVE TypeOK'
  BY <1>20 DEF FiveMinutesPass
<1>21. ASSUME Recover PROVE TypeOK'
  BY <1>21 DEF Recover, Stuck
<1>22. CASE UNCHANGED vars
  BY <1>22 DEF vars
<1> HIDE DEF TypeOK
<1> QED
  BY <1>1, <1>2, <1>3, <1>4, <1>5, <1>6, <1>7, <1>8, <1>9, <1>10, <1>11, <1>12,
     <1>13, <1>14, <1>15, <1>16, <1>17, <1>18, <1>19, <1>20, <1>21, <1>22 DEF Next, Materialize

(* No name of a handler is taken by a temporary image, a record or a constant. *)
LEMMA HandlerNames ==
  \A h \in Handlers : h \notin Temps \cup Existing \cup Inputs \cup {"PLAIN", "BLANK", "ODD", NoOne}
  BY NamesAssumption DEF Images, Records

(* A client sends the formal image of a handler only if a record shows it. *)
LEMMA SentAreSeen ==
  \A h \in Handlers, r \in Existing \cup {NoOne} : h \in Sent(r) => Seen(h)
  BY HandlerNames DEF Sent, Known, Seen

(* Every step keeps what the handlers know of themselves. *)
LEMMA HandlersStep == IInv /\ [Next]_vars => (\A g \in Handlers : HandlerFacts(g))'
<1> SUFFICES ASSUME IInv, [Next]_vars PROVE (\A g \in Handlers : HandlerFacts(g))'
  OBVIOUS
<1>0. TypeOK /\ \A g \in Handlers : HandlerFacts(g)
  BY DEF IInv
<1> USE <1>0
<1> USE DEF TypeOK, HandlerFacts, Fresh, Claiming, rows, handlers, patches, history
<1>1. ASSUME NEW d \in Drafts, CreateDraft(d) PROVE (\A g \in Handlers : HandlerFacts(g))'
  BY <1>1 DEF CreateDraft
<1>2. ASSUME NEW s \in Savers, NEW d \in Drafts, SaveRead(s, d) PROVE (\A g \in Handlers : HandlerFacts(g))'
  BY <1>2 DEF SaveRead
<1>3. ASSUME NEW s \in Savers, SaveWrite(s) PROVE (\A g \in Handlers : HandlerFacts(g))'
  BY <1>3 DEF SaveWrite
<1>4. ASSUME NEW h \in Handlers, NEW d \in Drafts, Claim(h, d) PROVE (\A g \in Handlers : HandlerFacts(g))'
  BY <1>4 DEF Claim
<1>5. ASSUME NEW h \in Handlers, ReadDraft(h) PROVE (\A g \in Handlers : HandlerFacts(g))'
  <2>1. draft[h] \in Drafts /\ pc[h] = "claimed" /\ h \notin unanswered
    BY <1>5 DEF ReadDraft, IInv
  <2>2. payload[draft[h]] # h
    BY <2>1 DEF IInv, SeenAreKept, Seen
  <2> QED
    BY <1>5, <2>1, <2>2 DEF ReadDraft, Usable
<1>6. ASSUME NEW h \in Handlers, PutBack(h) PROVE (\A g \in Handlers : HandlerFacts(g))'
  BY <1>6 DEF PutBack, SetStatus
<1>7. ASSUME NEW h \in Handlers, MarkFailed(h) PROVE (\A g \in Handlers : HandlerFacts(g))'
  BY <1>7 DEF MarkFailed, SetStatus
<1>8. ASSUME NEW h \in Handlers, BeginTeam(h) PROVE (\A g \in Handlers : HandlerFacts(g))'
  <2>1. pc[h] = "idle" /\ h \notin unanswered
    BY <1>8 DEF BeginTeam, IInv
  <2>2. \A r \in Existing \cup {NoOne} : h \notin Sent(r)
    BY <2>1, SentAreSeen DEF IInv, SeenAreKept
  <2>3. PICK i \in Usable \ {h} : image' = [image EXCEPT ![h] = i]
    <3>1. PICK r \in Existing \cup {NoOne} :
            \E i \in Sent(r) \cap Usable : image' = [image EXCEPT ![h] = i]
      BY <1>8 DEF BeginTeam
    <3> QED
      BY <2>2, <3>1, ZenonT(30)
  <2>5. \A g \in Handlers : g # h => pc'[g] = pc[g] /\ image'[g] = image[g]
    BY <1>8, <2>3 DEF BeginTeam
  <2>6. pc'[h] = "read" /\ image'[h] = i
    BY <1>8, <2>3 DEF BeginTeam
  <2>7. UNCHANGED <<draft, unanswered, stored>>
    BY <1>8 DEF BeginTeam
  <2> QED
    BY <2>1, <2>5, <2>6, <2>7
<1>9. ASSUME NEW h \in Handlers, Prepare(h) PROVE (\A g \in Handlers : HandlerFacts(g))'
  <2>1. pc[h] = "read" /\ image[h] \in Usable \ {h} /\ h \notin unanswered
    BY <1>9 DEF Prepare
  <2>2. h \in Usable \ Temps
    BY HandlerNames DEF Usable, Payloads, Images
  <2>3. stored \subseteq stored' /\ UNCHANGED <<draft, unanswered>>
    BY <1>9 DEF Prepare
  <2>4. \A g \in Handlers : g # h => pc'[g] = pc[g] /\ image'[g] = image[g]
    BY <1>9 DEF Prepare
  <2>5. \/ pc'[h] = "broken"
        \/ pc'[h] = "copied" /\ image'[h] = image[h] /\ image[h] \notin Temps
        \/ pc'[h] = "copied" /\ image'[h] = h /\ h \in stored'
    BY <1>9 DEF Prepare
  <2> QED
    BY <2>1, <2>2, <2>3, <2>4, <2>5
<1>10. ASSUME NEW h \in Handlers, Commit(h) PROVE (\A g \in Handlers : HandlerFacts(g))'
  BY <1>10 DEF Commit, Written, Copied, Made
<1>11. ASSUME NEW h \in Handlers, CommitUnanswered(h) PROVE (\A g \in Handlers : HandlerFacts(g))'
  BY <1>11 DEF CommitUnanswered, Written, Copied, Made
<1>12. ASSUME NEW h \in Handlers, CommitFails(h) PROVE (\A g \in Handlers : HandlerFacts(g))'
  BY <1>12 DEF CommitFails
<1>13. ASSUME NEW h \in Handlers, Undo(h) PROVE (\A g \in Handlers : HandlerFacts(g))'
  BY <1>13 DEF Undo, Copied
<1>14. ASSUME NEW h \in Handlers, CheckRefs(h) PROVE (\A g \in Handlers : HandlerFacts(g))'
  BY <1>14 DEF CheckRefs
<1>15. ASSUME NEW h \in Handlers, RemoveTemp(h) PROVE (\A g \in Handlers : HandlerFacts(g))'
  <2>1. \A g \in Handlers : g \in stored => g \in stored'
    BY <1>15, HandlerNames DEF RemoveTemp
  <2> QED
    BY <1>15, <2>1 DEF RemoveTemp
<1>16. ASSUME NEW h \in Handlers, NEW d \in Drafts, BeginDelete(h, d) PROVE (\A g \in Handlers : HandlerFacts(g))'
  BY <1>16 DEF BeginDelete, Cleanable
<1>17. ASSUME NEW h \in Handlers, NEW t \in Temps, BeginCleanup(h, t) PROVE (\A g \in Handlers : HandlerFacts(g))'
  BY <1>17 DEF BeginCleanup
<1>18. ASSUME NEW h \in Handlers, DeleteRow(h) PROVE (\A g \in Handlers : HandlerFacts(g))'
  BY <1>18 DEF DeleteRow, SetStatus
<1>19. ASSUME NEW h \in Handlers, Crash(h) PROVE (\A g \in Handlers : HandlerFacts(g))'
  BY <1>19 DEF Crash
<1>20. ASSUME NEW d \in Drafts, FiveMinutesPass(d) PROVE (\A g \in Handlers : HandlerFacts(g))'
  BY <1>20 DEF FiveMinutesPass
<1>21. ASSUME Recover PROVE (\A g \in Handlers : HandlerFacts(g))'
  BY <1>21 DEF Recover, Stuck
<1>22. CASE UNCHANGED vars
  BY <1>22 DEF vars
<1> HIDE DEF HandlerFacts
<1> QED
  BY <1>1, <1>2, <1>3, <1>4, <1>5, <1>6, <1>7, <1>8, <1>9, <1>10, <1>11, <1>12,
     <1>13, <1>14, <1>15, <1>16, <1>17, <1>18, <1>19, <1>20, <1>21, <1>22 DEF Next, Materialize

(* Every step keeps the images that are seen. *)
LEMMA SeenStep == IInv /\ [Next]_vars => SeenAreKept'
<1> SUFFICES ASSUME IInv, [Next]_vars PROVE SeenAreKept'
  OBVIOUS
<1>0. TypeOK /\ (\A g \in Handlers : HandlerFacts(g)) /\ SeenAreKept
  BY DEF IInv
<1> USE <1>0, HandlerNames
<1> USE DEF TypeOK, HandlerFacts, Fresh, Claiming, SeenAreKept, Seen, rows, handlers, patches, history
<1>1. ASSUME NEW d \in Drafts, CreateDraft(d) PROVE SeenAreKept'
  <2>1. PICK o \in Existing \cup {NoOne} : \E p \in Sent(o) : payload' = [payload EXCEPT ![d] = p]
    BY <1>1 DEF CreateDraft
  <2>2. ASSUME NEW h \in Handlers, Seen(h)' PROVE Seen(h)
    BY <1>1, <2>1, <2>2, SentAreSeen DEF CreateDraft
  <2>3. UNCHANGED <<stored, unanswered, pc>>
    BY <1>1 DEF CreateDraft
  <2> HIDE DEF Seen
  <2> QED
    BY <2>2, <2>3
<1>2. ASSUME NEW s \in Savers, NEW d \in Drafts, SaveRead(s, d) PROVE SeenAreKept'
  BY <1>2 DEF SaveRead
<1>3. ASSUME NEW s \in Savers, SaveWrite(s) PROVE SeenAreKept'
  BY <1>3 DEF SaveWrite
<1>4. ASSUME NEW h \in Handlers, NEW d \in Drafts, Claim(h, d) PROVE SeenAreKept'
  BY <1>4 DEF Claim
<1>5. ASSUME NEW h \in Handlers, ReadDraft(h) PROVE SeenAreKept'
  BY <1>5 DEF ReadDraft
<1>6. ASSUME NEW h \in Handlers, PutBack(h) PROVE SeenAreKept'
  BY <1>6 DEF PutBack, SetStatus
<1>7. ASSUME NEW h \in Handlers, MarkFailed(h) PROVE SeenAreKept'
  BY <1>7 DEF MarkFailed, SetStatus
<1>8. ASSUME NEW h \in Handlers, BeginTeam(h) PROVE SeenAreKept'
  <2>1. PICK r \in Existing \cup {NoOne} : \E i \in Sent(r) : image' = [image EXCEPT ![h] = i]
    BY <1>8 DEF BeginTeam
  <2>2. ASSUME NEW g \in Handlers, Seen(g)' PROVE Seen(g)
    BY <1>8, <2>1, <2>2, SentAreSeen DEF BeginTeam
  <2>3. UNCHANGED <<stored, unanswered>>
    BY <1>8 DEF BeginTeam
  <2>4. \A g \in Handlers : pc'[g] \in Claiming \cup {"idle"} => pc[g] \in Claiming \cup {"idle"}
    BY <1>8 DEF BeginTeam
  <2> HIDE DEF Seen
  <2> QED
    BY <2>2, <2>3, <2>4
<1>9. ASSUME NEW h \in Handlers, Prepare(h) PROVE SeenAreKept'
  BY <1>9 DEF Prepare
<1>10. ASSUME NEW h \in Handlers, Commit(h) PROVE SeenAreKept'
  BY <1>10 DEF Commit, Written, Copied, Made
<1>11. ASSUME NEW h \in Handlers, CommitUnanswered(h) PROVE SeenAreKept'
  BY <1>11 DEF CommitUnanswered, Written, Copied, Made
<1>12. ASSUME NEW h \in Handlers, CommitFails(h) PROVE SeenAreKept'
  BY <1>12 DEF CommitFails
<1>13. ASSUME NEW h \in Handlers, Undo(h) PROVE SeenAreKept'
  BY <1>13 DEF Undo, Copied
<1>14. ASSUME NEW h \in Handlers, CheckRefs(h) PROVE SeenAreKept'
  BY <1>14 DEF CheckRefs
<1>15. ASSUME NEW h \in Handlers, RemoveTemp(h) PROVE SeenAreKept'
  BY <1>15 DEF RemoveTemp
<1>16. ASSUME NEW h \in Handlers, NEW d \in Drafts, BeginDelete(h, d) PROVE SeenAreKept'
  BY <1>16 DEF BeginDelete, Cleanable
<1>17. ASSUME NEW h \in Handlers, NEW t \in Temps, BeginCleanup(h, t) PROVE SeenAreKept'
  BY <1>17 DEF BeginCleanup
<1>18. ASSUME NEW h \in Handlers, DeleteRow(h) PROVE SeenAreKept'
  BY <1>18 DEF DeleteRow, SetStatus
<1>19. ASSUME NEW h \in Handlers, Crash(h) PROVE SeenAreKept'
  BY <1>19 DEF Crash
<1>20. ASSUME NEW d \in Drafts, FiveMinutesPass(d) PROVE SeenAreKept'
  BY <1>20 DEF FiveMinutesPass
<1>21. ASSUME Recover PROVE SeenAreKept'
  BY <1>21 DEF Recover, Stuck
<1>22. CASE UNCHANGED vars
  BY <1>22 DEF vars
<1> HIDE DEF SeenAreKept
<1> QED
  BY <1>1, <1>2, <1>3, <1>4, <1>5, <1>6, <1>7, <1>8, <1>9, <1>10, <1>11, <1>12,
     <1>13, <1>14, <1>15, <1>16, <1>17, <1>18, <1>19, <1>20, <1>21, <1>22 DEF Next, Materialize

(* No draft that was never saved has a record. *)
LEMMA BornStep == IInv /\ [Next]_vars => NothingBornUnsaved'
<1> SUFFICES ASSUME IInv, [Next]_vars PROVE NothingBornUnsaved'
  OBVIOUS
<1>0. TypeOK /\ NothingBornUnsaved
  BY DEF IInv
<1> USE <1>0
<1> USE DEF TypeOK, NothingBornUnsaved, Exists, rows, handlers, patches, history
<1>1. ASSUME NEW d \in Drafts, CreateDraft(d) PROVE NothingBornUnsaved'
  BY <1>1 DEF CreateDraft
<1>2. ASSUME NEW s \in Savers, NEW d \in Drafts, SaveRead(s, d) PROVE NothingBornUnsaved'
  BY <1>2 DEF SaveRead
<1>3. ASSUME NEW s \in Savers, SaveWrite(s) PROVE NothingBornUnsaved'
  BY <1>3 DEF SaveWrite
<1>4. ASSUME NEW h \in Handlers, NEW d \in Drafts, Claim(h, d) PROVE NothingBornUnsaved'
  BY <1>4 DEF Claim
<1>5. ASSUME NEW h \in Handlers, ReadDraft(h) PROVE NothingBornUnsaved'
  BY <1>5 DEF ReadDraft
<1>6. ASSUME NEW h \in Handlers, PutBack(h) PROVE NothingBornUnsaved'
  BY <1>6 DEF PutBack, SetStatus
<1>7. ASSUME NEW h \in Handlers, MarkFailed(h) PROVE NothingBornUnsaved'
  BY <1>7 DEF MarkFailed, SetStatus
<1>8. ASSUME NEW h \in Handlers, BeginTeam(h) PROVE NothingBornUnsaved'
  BY <1>8 DEF BeginTeam
<1>9. ASSUME NEW h \in Handlers, Prepare(h) PROVE NothingBornUnsaved'
  BY <1>9 DEF Prepare
<1>10. ASSUME NEW h \in Handlers, Commit(h) PROVE NothingBornUnsaved'
  BY <1>10 DEF Commit, Written, Copied, Made
<1>11. ASSUME NEW h \in Handlers, CommitUnanswered(h) PROVE NothingBornUnsaved'
  BY <1>11 DEF CommitUnanswered, Written, Copied, Made
<1>12. ASSUME NEW h \in Handlers, CommitFails(h) PROVE NothingBornUnsaved'
  BY <1>12 DEF CommitFails
<1>13. ASSUME NEW h \in Handlers, Undo(h) PROVE NothingBornUnsaved'
  BY <1>13 DEF Undo, Copied
<1>14. ASSUME NEW h \in Handlers, CheckRefs(h) PROVE NothingBornUnsaved'
  BY <1>14 DEF CheckRefs
<1>15. ASSUME NEW h \in Handlers, RemoveTemp(h) PROVE NothingBornUnsaved'
  BY <1>15 DEF RemoveTemp
<1>16. ASSUME NEW h \in Handlers, NEW d \in Drafts, BeginDelete(h, d) PROVE NothingBornUnsaved'
  BY <1>16 DEF BeginDelete, Cleanable
<1>17. ASSUME NEW h \in Handlers, NEW t \in Temps, BeginCleanup(h, t) PROVE NothingBornUnsaved'
  BY <1>17 DEF BeginCleanup
<1>18. ASSUME NEW h \in Handlers, DeleteRow(h) PROVE NothingBornUnsaved'
  BY <1>18 DEF DeleteRow, SetStatus
<1>19. ASSUME NEW h \in Handlers, Crash(h) PROVE NothingBornUnsaved'
  BY <1>19 DEF Crash
<1>20. ASSUME NEW d \in Drafts, FiveMinutesPass(d) PROVE NothingBornUnsaved'
  BY <1>20 DEF FiveMinutesPass
<1>21. ASSUME Recover PROVE NothingBornUnsaved'
  BY <1>21 DEF Recover, Stuck
<1>22. CASE UNCHANGED vars
  BY <1>22 DEF vars
<1> HIDE DEF NothingBornUnsaved
<1> QED
  BY <1>1, <1>2, <1>3, <1>4, <1>5, <1>6, <1>7, <1>8, <1>9, <1>10, <1>11, <1>12,
     <1>13, <1>14, <1>15, <1>16, <1>17, <1>18, <1>19, <1>20, <1>21, <1>22 DEF Next, Materialize

(* Every step leaves a draft to one handler at most, and to its record. *)
LEMMA ClaimsStep == IInv /\ [Next]_vars => (\A c \in Drafts \ meddled : ClaimFacts(c))'
<1> SUFFICES ASSUME IInv, [Next]_vars PROVE (\A c \in Drafts \ meddled : ClaimFacts(c))'
  OBVIOUS
<1>0. /\ TypeOK /\ (\A g \in Handlers : HandlerFacts(g)) /\ NothingBornUnsaved
      /\ \A c \in Drafts \ meddled : ClaimFacts(c)
  BY DEF IInv
<1> USE <1>0, NamesAssumption
<1> USE DEF TypeOK, HandlerFacts, Fresh, Claiming, Claims, Exists, ClaimFacts, rows, handlers, patches, history
<1>1. ASSUME NEW d \in Drafts, CreateDraft(d) PROVE (\A c \in Drafts \ meddled : ClaimFacts(c))'
  BY <1>1 DEF CreateDraft, NothingBornUnsaved
<1>2. ASSUME NEW s \in Savers, NEW d \in Drafts, SaveRead(s, d) PROVE (\A c \in Drafts \ meddled : ClaimFacts(c))'
  BY <1>2 DEF SaveRead
<1>3. ASSUME NEW s \in Savers, SaveWrite(s) PROVE (\A c \in Drafts \ meddled : ClaimFacts(c))'
  BY <1>3 DEF SaveWrite
<1>4. ASSUME NEW h \in Handlers, NEW d \in Drafts, Claim(h, d) PROVE (\A c \in Drafts \ meddled : ClaimFacts(c))'
  BY <1>4 DEF Claim, Claimable
<1>5. ASSUME NEW h \in Handlers, ReadDraft(h) PROVE (\A c \in Drafts \ meddled : ClaimFacts(c))'
  BY <1>5 DEF ReadDraft
<1>6. ASSUME NEW h \in Handlers, PutBack(h) PROVE (\A c \in Drafts \ meddled : ClaimFacts(c))'
  BY <1>6 DEF PutBack, SetStatus
<1>7. ASSUME NEW h \in Handlers, MarkFailed(h) PROVE (\A c \in Drafts \ meddled : ClaimFacts(c))'
  BY <1>7 DEF MarkFailed, SetStatus
<1>8. ASSUME NEW h \in Handlers, BeginTeam(h) PROVE (\A c \in Drafts \ meddled : ClaimFacts(c))'
  BY <1>8 DEF BeginTeam
<1>9. ASSUME NEW h \in Handlers, Prepare(h) PROVE (\A c \in Drafts \ meddled : ClaimFacts(c))'
  BY <1>9 DEF Prepare
<1>10. ASSUME NEW h \in Handlers, Commit(h) PROVE (\A c \in Drafts \ meddled : ClaimFacts(c))'
  BY <1>10 DEF Commit, Written, Copied, Made
<1>11. ASSUME NEW h \in Handlers, CommitUnanswered(h) PROVE (\A c \in Drafts \ meddled : ClaimFacts(c))'
  BY <1>11 DEF CommitUnanswered, Written, Copied, Made
<1>12. ASSUME NEW h \in Handlers, CommitFails(h) PROVE (\A c \in Drafts \ meddled : ClaimFacts(c))'
  BY <1>12 DEF CommitFails
<1>13. ASSUME NEW h \in Handlers, Undo(h) PROVE (\A c \in Drafts \ meddled : ClaimFacts(c))'
  BY <1>13 DEF Undo, Copied
<1>14. ASSUME NEW h \in Handlers, CheckRefs(h) PROVE (\A c \in Drafts \ meddled : ClaimFacts(c))'
  BY <1>14 DEF CheckRefs
<1>15. ASSUME NEW h \in Handlers, RemoveTemp(h) PROVE (\A c \in Drafts \ meddled : ClaimFacts(c))'
  BY <1>15 DEF RemoveTemp
<1>16. ASSUME NEW h \in Handlers, NEW d \in Drafts, BeginDelete(h, d) PROVE (\A c \in Drafts \ meddled : ClaimFacts(c))'
  BY <1>16 DEF BeginDelete, Cleanable
<1>17. ASSUME NEW h \in Handlers, NEW t \in Temps, BeginCleanup(h, t) PROVE (\A c \in Drafts \ meddled : ClaimFacts(c))'
  BY <1>17 DEF BeginCleanup
<1>18. ASSUME NEW h \in Handlers, DeleteRow(h) PROVE (\A c \in Drafts \ meddled : ClaimFacts(c))'
  BY <1>18 DEF DeleteRow, SetStatus
<1>19. ASSUME NEW h \in Handlers, Crash(h) PROVE (\A c \in Drafts \ meddled : ClaimFacts(c))'
  BY <1>19 DEF Crash
<1>20. ASSUME NEW d \in Drafts, FiveMinutesPass(d) PROVE (\A c \in Drafts \ meddled : ClaimFacts(c))'
  BY <1>20 DEF FiveMinutesPass
<1>21. ASSUME Recover PROVE (\A c \in Drafts \ meddled : ClaimFacts(c))'
  BY <1>21 DEF Recover, Stuck
<1>22. CASE UNCHANGED vars
  BY <1>22 DEF vars
<1> HIDE DEF ClaimFacts
<1> QED
  BY <1>1, <1>2, <1>3, <1>4, <1>5, <1>6, <1>7, <1>8, <1>9, <1>10, <1>11, <1>12,
     <1>13, <1>14, <1>15, <1>16, <1>17, <1>18, <1>19, <1>20, <1>21, <1>22 DEF Next, Materialize

(* Every step keeps the images of the drafts in use. *)
LEMMA ImagesStep == IInv /\ [Next]_vars => (\A c \in Drafts \ (meddled \cup late) : ImageFacts(c))'
<1> SUFFICES ASSUME IInv, [Next]_vars PROVE (\A c \in Drafts \ (meddled \cup late) : ImageFacts(c))'
  OBVIOUS
<1>0. /\ TypeOK /\ (\A g \in Handlers : HandlerFacts(g))
      /\ (\A c \in Drafts \ meddled : ClaimFacts(c))
      /\ \A c \in Drafts \ (meddled \cup late) : ImageFacts(c)
  BY DEF IInv
<1> USE <1>0, NamesAssumption, HandlerNames
<1> USE DEF TypeOK, HandlerFacts, Fresh, Claiming, Claims, Exists, ClaimFacts, ImageFacts, InUse, Removing,
        rows, handlers, patches, history
<1>1. ASSUME NEW d \in Drafts, CreateDraft(d) PROVE (\A c \in Drafts \ (meddled \cup late) : ImageFacts(c))'
  BY <1>1 DEF CreateDraft, NowNaming
<1>2. ASSUME NEW s \in Savers, NEW d \in Drafts, SaveRead(s, d) PROVE (\A c \in Drafts \ (meddled \cup late) : ImageFacts(c))'
  BY <1>2 DEF SaveRead
<1>3. ASSUME NEW s \in Savers, SaveWrite(s) PROVE (\A c \in Drafts \ (meddled \cup late) : ImageFacts(c))'
  BY <1>3 DEF SaveWrite, NowNaming
<1>4. ASSUME NEW h \in Handlers, NEW d \in Drafts, Claim(h, d) PROVE (\A c \in Drafts \ (meddled \cup late) : ImageFacts(c))'
  BY <1>4 DEF Claim, Claimable
<1>5. ASSUME NEW h \in Handlers, ReadDraft(h) PROVE (\A c \in Drafts \ (meddled \cup late) : ImageFacts(c))'
  BY <1>5 DEF ReadDraft
<1>6. ASSUME NEW h \in Handlers, PutBack(h) PROVE (\A c \in Drafts \ (meddled \cup late) : ImageFacts(c))'
  BY <1>6 DEF PutBack, SetStatus
<1>7. ASSUME NEW h \in Handlers, MarkFailed(h) PROVE (\A c \in Drafts \ (meddled \cup late) : ImageFacts(c))'
  BY <1>7 DEF MarkFailed, SetStatus
<1>8. ASSUME NEW h \in Handlers, BeginTeam(h) PROVE (\A c \in Drafts \ (meddled \cup late) : ImageFacts(c))'
  BY <1>8 DEF BeginTeam
<1>9. ASSUME NEW h \in Handlers, Prepare(h) PROVE (\A c \in Drafts \ (meddled \cup late) : ImageFacts(c))'
  BY <1>9, SMTT(20) DEF Prepare
<1>10. ASSUME NEW h \in Handlers, Commit(h) PROVE (\A c \in Drafts \ (meddled \cup late) : ImageFacts(c))'
  BY <1>10 DEF Commit, Written, Copied, Made
<1>11. ASSUME NEW h \in Handlers, CommitUnanswered(h) PROVE (\A c \in Drafts \ (meddled \cup late) : ImageFacts(c))'
  BY <1>11 DEF CommitUnanswered, Written, Copied, Made
<1>12. ASSUME NEW h \in Handlers, CommitFails(h) PROVE (\A c \in Drafts \ (meddled \cup late) : ImageFacts(c))'
  BY <1>12 DEF CommitFails
<1>13. ASSUME NEW h \in Handlers, Undo(h) PROVE (\A c \in Drafts \ (meddled \cup late) : ImageFacts(c))'
  BY <1>13 DEF Undo, Copied
<1>14. ASSUME NEW h \in Handlers, CheckRefs(h) PROVE (\A c \in Drafts \ (meddled \cup late) : ImageFacts(c))'
  BY <1>14 DEF CheckRefs, Unreferenced
<1>15. ASSUME NEW h \in Handlers, RemoveTemp(h) PROVE (\A c \in Drafts \ (meddled \cup late) : ImageFacts(c))'
  BY <1>15 DEF RemoveTemp
<1>16. ASSUME NEW h \in Handlers, NEW d \in Drafts, BeginDelete(h, d) PROVE (\A c \in Drafts \ (meddled \cup late) : ImageFacts(c))'
  BY <1>16 DEF BeginDelete, Cleanable
<1>17. ASSUME NEW h \in Handlers, NEW t \in Temps, BeginCleanup(h, t) PROVE (\A c \in Drafts \ (meddled \cup late) : ImageFacts(c))'
  BY <1>17 DEF BeginCleanup
<1>18. ASSUME NEW h \in Handlers, DeleteRow(h) PROVE (\A c \in Drafts \ (meddled \cup late) : ImageFacts(c))'
  BY <1>18 DEF DeleteRow, SetStatus
<1>19. ASSUME NEW h \in Handlers, Crash(h) PROVE (\A c \in Drafts \ (meddled \cup late) : ImageFacts(c))'
  BY <1>19 DEF Crash
<1>20. ASSUME NEW d \in Drafts, FiveMinutesPass(d) PROVE (\A c \in Drafts \ (meddled \cup late) : ImageFacts(c))'
  BY <1>20 DEF FiveMinutesPass
<1>21. ASSUME Recover PROVE (\A c \in Drafts \ (meddled \cup late) : ImageFacts(c))'
  BY <1>21 DEF Recover, Stuck
<1>22. CASE UNCHANGED vars
  BY <1>22 DEF vars
<1> HIDE DEF ImageFacts
<1> QED
  BY <1>1, <1>2, <1>3, <1>4, <1>5, <1>6, <1>7, <1>8, <1>9, <1>10, <1>11, <1>12,
     <1>13, <1>14, <1>15, <1>16, <1>17, <1>18, <1>19, <1>20, <1>21, <1>22 DEF Next, Materialize

(* Every step keeps the invariant. *)
LEMMA InductiveStep == IInv /\ [Next]_vars => IInv'
<1> SUFFICES ASSUME IInv, [Next]_vars PROVE IInv'
  OBVIOUS
<1>1. TypeOK /\ \A h \in Handlers : HandlerFacts(h)
  BY DEF IInv
<1>2. TypeOK' /\ (\A h \in Handlers : HandlerFacts(h))'
  BY <1>1, TypeStep, HandlersStep
<1>3. NothingBornUnsaved' /\ (\A d \in Drafts \ meddled : ClaimFacts(d))'
  BY BornStep, ClaimsStep
<1>4. SeenAreKept' /\ (\A d \in Drafts \ (meddled \cup late) : ImageFacts(d))'
  BY SeenStep, ImagesStep
<1> QED
  BY <1>2, <1>3, <1>4 DEF IInv

THEOREM Inductive == Spec => []IInv
  BY InductiveInit, InductiveStep, PTL DEF Spec

(* Type correctness for every number of drafts and handlers. *)
THEOREM TypeSafe == Spec => []TypeOK
<1>1. IInv => TypeOK
  BY DEF IInv
<1> QED
  BY <1>1, Inductive, PTL

(* A draft becomes one official record, however many handlers claim it, fail, *)
(* crash or lose the answer of their commit.                                  *)
THEOREM OneRecordEach == Spec => []OneRecord
<1>1. ASSUME IInv PROVE OneRecord
  <2> SUFFICES ASSUME NEW d \in Drafts \ meddled PROVE Cardinality(born[d]) <= 1
    BY DEF OneRecord
  <2>1. \A r, s \in born[d] : r = s
    BY <1>1 DEF IInv, ClaimFacts
  <2>2. CASE born[d] = {}
    BY <2>2, FS_EmptySet
  <2>3. CASE born[d] # {}
    <3>1. PICK r : born[d] = {r}
      BY <2>1, <2>3
    <3>2. Cardinality({r}) = 1
      BY FS_Singleton
    <3> QED
      BY <3>1, <3>2
  <2> QED
    BY <2>2, <2>3
<1> QED
  BY <1>1, Inductive, PTL

(* The record of a draft is linked to it, whatever became of the handler. *)
THEOREM RecordIsLinked == Spec => []LinkedToItsRecord
<1>1. IInv => LinkedToItsRecord
  BY DEF IInv, ClaimFacts, LinkedToItsRecord
<1> QED
  BY <1>1, Inductive, PTL

(* No compensation and no cleanup deletes an image that is in use. *)
THEOREM ImagesAreKept == Spec => []ImagesInUseKept
<1>1. IInv => RecordImageKept
  BY DEF IInv, SeenAreKept, Seen, RecordImageKept
<1>2. IInv => DraftImageKept
  BY DEF IInv, ImageFacts, InUse, Exists, Claimable, DraftImageKept
<1> QED
  BY <1>1, <1>2, Inductive, PTL DEF ImagesInUseKept
=============================================================================
