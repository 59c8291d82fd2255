-------------------------- MODULE BackupRetention --------------------------
(***************************************************************************)
(* Which stored backups a retention run removes                            *)
(* (src/src/backup/backup-retention.service.ts, the listing of             *)
(* backup-object-store.service.ts).                                        *)
(*                                                                         *)
(* A backup is a record.  What the code reads from the path and the file   *)
(* name is kept as fields: dir ("database" or "uploads"), scope ("full" or *)
(* a season), purpose and protected.  Time is counted in days; weeks and   *)
(* months are blocks of days, which is all the plan uses of a calendar.    *)
(***************************************************************************)
EXTENDS Integers, Sequences, FiniteSets, SequencesExt

CONSTANTS
  DaysPerWeek, DaysPerMonth,
  UploadDays,                  \* a temporary upload older than this goes
  SnapshotDays,                \* a snapshot taken before a restore older than this goes
  WeeklySlots, MonthlySlots    \* how many weeks and months keep one backup

ASSUME RetentionAssumption ==
  /\ DaysPerWeek \in Nat \ {0} /\ DaysPerMonth \in Nat \ {0}
  /\ UploadDays \in Nat /\ SnapshotDays \in Nat
  /\ WeeklySlots \in Nat /\ MonthlySlots \in Nat

Week(day) == day \div DaysPerWeek
Month(day) == day \div DaysPerMonth

IsFull(b) == b.dir = "database" /\ b.scope = "full"

(* listBackups: newest first; those of one time stay as the store lists    *)
(* them.                                                                   *)
Listing(backups) ==
  LET listed == SetToSeq(backups)
      Upto(i) == {j \in DOMAIN listed :
                    \/ listed[j].time > listed[i].time
                    \/ listed[j].time = listed[i].time /\ j <= i}
  IN  [n \in DOMAIN listed |->
         listed[CHOOSE i \in DOMAIN listed : Cardinality(Upto(i)) = n]]

(* The entries of a list at some places, in their order. *)
Entries(list, places) ==
  [n \in 1..Cardinality(places) |->
     list[CHOOSE i \in places : Cardinality({j \in places : j <= i}) = n]]

(* The newest backup of the whole site in a listing; at most one. *)
NewestFull(list) ==
  {list[i] : i \in {j \in 1..Len(list) :
     IsFull(list[j]) /\ \A k \in 1..(j - 1) : ~ IsFull(list[k])}}

Keep(acc, b) == [acc EXCEPT !.kept = Append(@, b)]
Drop(acc, b) == [acc EXCEPT !.planned = Append(@, b)]

(* A slot is <<scope, period>>; a scope has a limited number of them. *)
SlotFree(taken, slot, limit) ==
  /\ slot \notin taken
  /\ Cardinality({t \in taken : t[1] = slot[1]}) < limit

TakeSlot(acc, b) ==
  LET week == <<b.scope, Week(b.time)>>
      month == <<b.scope, Month(b.time)>>
  IN  IF SlotFree(acc.weeks, week, WeeklySlots)
        THEN Keep([acc EXCEPT !.weeks = @ \cup {week}], b)
      ELSE IF SlotFree(acc.months, month, MonthlySlots)
        THEN Keep([acc EXCEPT !.months = @ \cup {month}], b)
      ELSE Drop(acc, b)

Expired(b, now) ==
  \/ b.dir = "uploads" /\ now - b.time > UploadDays
  \/ b.dir = "database" /\ b.purpose = "pre-restore" /\ now - b.time > SnapshotDays

(* One iteration of the loop over the sorted backups. *)
Judge(acc, b, newest, now) ==
  IF b.dir = "uploads"
    THEN IF Expired(b, now) THEN Drop(acc, b) ELSE Keep(acc, b)
  ELSE IF b \in newest \/ b.protected
    THEN Keep(acc, b)
  ELSE IF Expired(b, now)
    THEN Drop(acc, b)
  ELSE TakeSlot(acc, b)

CalculateRetentionPlan(list, now) ==
  LET judged[n \in 0..Len(list)] ==
        IF n = 0 THEN [kept |-> << >>, planned |-> << >>, weeks |-> {}, months |-> {}]
        ELSE Judge(judged[n - 1], list[n], NewestFull(list), now)
  IN  judged[Len(list)]

(***************************************************************************)
(* The policy of the service's comment, without the loop: who is kept.     *)
(***************************************************************************)
Newer(list, i, period(_), pool) ==
  {period(list[j].time) : j \in {k \in pool :
     list[k].scope = list[i].scope /\ period(list[k].time) > period(list[i].time)}}

FirstOfItsPeriod(list, i, period(_), pool) ==
  \A j \in pool : j < i /\ list[j].scope = list[i].scope
                    => period(list[j].time) # period(list[i].time)

PolicyKeeps(list, now) ==
  LET all == DOMAIN list
      uploads == {i \in all : list[i].dir = "uploads"}
      guarded == {i \in all \ uploads : list[i] \in NewestFull(list) \/ list[i].protected}
      expired == {i \in all \ guarded : Expired(list[i], now)}
      pool == all \ (uploads \cup guarded \cup expired)
      weekly == {i \in pool : /\ FirstOfItsPeriod(list, i, Week, pool)
                              /\ Cardinality(Newer(list, i, Week, pool)) < WeeklySlots}
      rest == pool \ weekly
      monthly == {i \in rest : /\ FirstOfItsPeriod(list, i, Month, rest)
                               /\ Cardinality(Newer(list, i, Month, rest)) < MonthlySlots}
  IN  (uploads \ expired) \cup guarded \cup weekly \cup monthly
=============================================================================
