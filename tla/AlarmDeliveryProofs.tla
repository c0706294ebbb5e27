------------------------ MODULE AlarmDeliveryProofs ------------------------
(***************************************************************************)
(* Proofs about AlarmDelivery, for every number of sales, drains,          *)
(* administrators, every batch size and every bound.                       *)
(***************************************************************************)
EXTENDS AlarmDelivery, TLAPS

USE NoneIsNoWorker, NoneIsNoTime, LeaseOutlivesRequest, BatchAssumption,
    BoundsAssumption
USE DEF vars, facts, columns, ghosts

-----------------------------------------------------------------------------
(* The constant records have the types of the state they reset.            *)
LEMMA ConstantRecords ==
  /\ Idle \in AlarmRecord
  /\ Sent \in AlarmRecord
  /\ \A w \in Workers : ClaimedBy(w) \in AlarmRecord
  /\ NoDrain \in DrainRecord
  /\ NoSave \in SaveRecord
  /\ [NoSave EXCEPT !.pc = "suppress"] \in SaveRecord
  /\ \A r \in Nat : [NoDrain EXCEPT !.pc = "scan", !.round = r] \in DrainRecord
<1>1. Idle \in AlarmRecord /\ Sent \in AlarmRecord
  BY DEF Idle, Sent, AlarmRecord
<1>2. \A w \in Workers : ClaimedBy(w) \in AlarmRecord
  BY DEF ClaimedBy, AlarmRecord
<1>3. NoDrain \in DrainRecord
  BY DEF NoDrain, DrainRecord
<1>4. NoSave \in SaveRecord
  BY DEF NoSave, SaveRecord, SettingsRecord
<1>5. [NoSave EXCEPT !.pc = "suppress"] \in SaveRecord
  BY <1>4 DEF SaveRecord
<1>6. \A r \in Nat : [NoDrain EXCEPT !.pc = "scan", !.round = r] \in DrainRecord
  BY <1>3 DEF DrainRecord
<1>7. QED
  BY <1>1, <1>2, <1>3, <1>4, <1>5, <1>6

(* The updates a drain makes to its local state.                           *)
LEMMA DrainUpdates ==
  ASSUME NEW d \in DrainRecord
  PROVE  /\ [d EXCEPT !.pc = "accepted"] \in DrainRecord
         /\ \A ids \in SUBSET Payments :
              /\ [d EXCEPT !.todo = ids] \in DrainRecord
              /\ [d EXCEPT !.pc = "claim", !.todo = ids] \in DrainRecord
              /\ \A p \in Payments :
                   [d EXCEPT !.pc = "request", !.job = p, !.age = 0, !.todo = ids]
                     \in DrainRecord
         /\ \A n \in Nat :
              [d EXCEPT !.pc = "claim", !.job = None, !.age = 0, !.done = n]
                \in DrainRecord
<1>1. 0 \in 0..RequestTimeout
  OBVIOUS
<1>2. [d EXCEPT !.pc = "accepted"] \in DrainRecord
  BY DEF DrainRecord
<1>3. ASSUME NEW ids \in SUBSET Payments
      PROVE  /\ [d EXCEPT !.todo = ids] \in DrainRecord
             /\ [d EXCEPT !.pc = "claim", !.todo = ids] \in DrainRecord
  BY DEF DrainRecord
<1>4. ASSUME NEW ids \in SUBSET Payments, NEW p \in Payments
      PROVE  [d EXCEPT !.pc = "request", !.job = p, !.age = 0, !.todo = ids]
               \in DrainRecord
  BY <1>1, Zenon DEF DrainRecord
<1>5. ASSUME NEW n \in Nat
      PROVE  [d EXCEPT !.pc = "claim", !.job = None, !.age = 0, !.done = n]
               \in DrainRecord
  BY <1>1, Zenon DEF DrainRecord
<1>6. QED
  BY <1>2, <1>3, <1>4, <1>5

(* Counting one more for some sale, known or not, keeps a table of counts. *)
LEMMA BumpType ==
  ASSUME NEW f \in [Payments -> Nat], NEW p
  PROVE  [f EXCEPT ![p] = @ + 1] \in [Payments -> Nat]
<1>1. CASE p \in Payments
  <2>1. f[p] + 1 \in Nat
    BY <1>1
  <2>2. QED
    BY <2>1
<1>2. CASE p \notin Payments
  BY <1>2
<1>3. QED
  BY <1>1, <1>2

(* The rows written by the two bulk updates have the type of rows.         *)
LEMMA BulkUpdateType ==
  ASSUME TypeOK
  PROVE  Released \in [Payments -> AlarmRecord] /\ Suppressed \in [Payments -> AlarmRecord]
BY ConstantRecords DEF TypeOK, Released, Suppressed

(* Saving settings keeps their type.                                       *)
LEMMA SavedSettingsType ==
  ASSUME TypeOK, NEW a \in Admins, NEW submitted \in BOOLEAN, NEW switched \in BOOLEAN
  PROVE  SavedSettings(admin[a].seen, submitted, switched) \in SettingsRecord
<1>1. admin[a].seen \in SettingsRecord /\ settings \in SettingsRecord /\ now \in Nat
  BY DEF TypeOK, SaveRecord
<1>2. admin[a].seen.gen \in Nat /\ admin[a].seen.gen + 1 \in Nat
  BY <1>1 DEF SettingsRecord
<1>3. (IF switched \/ admin[a].seen.gen = 0 THEN admin[a].seen.gen + 1
       ELSE admin[a].seen.gen) \in Nat
  BY <1>2
<1>4. (IF Activated(admin[a].seen, submitted, switched) THEN now
       ELSE IF switched THEN None ELSE settings.boundary) \in Nat \cup {None}
  BY <1>1 DEF SettingsRecord
<1>5. (submitted \/ (~switched /\ (admin[a].seen.on \/ settings.on))) \in BOOLEAN
  OBVIOUS
<1>6. QED
  BY <1>3, <1>4, <1>5, Zenon DEF SavedSettings, SettingsRecord

(* A step of Square or of an upsert keeps the types.                       *)
LEMMA FactsType ==
  ASSUME TypeOK,
         \/ \E p \in Payments : SquareStep(p)
         \/ \E v \in versions : Ingest(v)
  PROVE  TypeOK'
<1>1. ASSUME NEW p \in Payments, NEW status \in {"APPROVED", "COMPLETED"},
             SquareOpens(p, status)
      PROVE  TypeOK'
  <2>1. Snapshot(p, status, now, now) \in SnapshotRecord
    BY DEF TypeOK, Snapshot, SnapshotRecord
  <2>2. [status |-> status, ts |-> now, updated |-> now, edits |-> 0,
         completed |-> IF status = "COMPLETED" THEN now ELSE None] \in SquareRecord
    BY DEF TypeOK, SquareRecord, Statuses
  <2>3. QED
    BY <1>1, <2>1, <2>2 DEF TypeOK, SquareOpens
<1>2. ASSUME NEW p \in Payments, SquareCompletes(p) PROVE TypeOK'
  <2>1. Snapshot(p, "COMPLETED", square[p].ts, now) \in SnapshotRecord
    BY DEF TypeOK, Snapshot, SnapshotRecord, SquareRecord
  <2>2. square' \in [Payments -> SquareRecord]
    BY <1>2 DEF TypeOK, SquareCompletes, SquareRecord, Statuses
  <2>3. QED
    BY <1>2, <2>1, <2>2 DEF TypeOK, SquareCompletes
<1>3. ASSUME NEW p \in Payments, SquareEdits(p) PROVE TypeOK'
  <2>1. Snapshot(p, square[p].status, square[p].ts, now) \in SnapshotRecord
    BY <1>3 DEF TypeOK, SquareEdits, Snapshot, SnapshotRecord, SquareRecord, Statuses
  <2>2. square' \in [Payments -> SquareRecord]
    BY <1>3 DEF TypeOK, SquareEdits, SquareRecord
  <2>3. QED
    BY <1>3, <2>1, <2>2 DEF TypeOK, SquareEdits
<1>4. ASSUME NEW v \in versions, Ingest(v) PROVE TypeOK'
  <2>1. v \in SnapshotRecord
    BY DEF TypeOK
  <2>2. row' \in [Payments -> RowRecord]
    BY <1>4, <2>1 DEF TypeOK, Ingest, RowRecord, SnapshotRecord, Statuses
  <2>3. alarm' \in [Payments -> AlarmRecord]
    BY <1>4, <2>1, ConstantRecords DEF TypeOK, Ingest, SnapshotRecord
  <2>4. QED
    BY <1>4, <2>2, <2>3 DEF TypeOK, Ingest
<1>5. QED
  BY <1>1, <1>2, <1>3, <1>4 DEF SquareStep

(* A step of a drain keeps the types.                                      *)
LEMMA DrainType ==
  ASSUME TypeOK, NEW w \in Workers, StartDrain(w) \/ DrainStep(w)
  PROVE  TypeOK'
<1>1. drain[w] \in DrainRecord
  BY DEF TypeOK
<1>2. CASE StartDrain(w)
  BY <1>2, ConstantRecords DEF TypeOK, StartDrain
<1>3. CASE Scan(w)
  <2>1. drain' \in [Workers -> DrainRecord]
    <3>1. PICK ids \in SUBSET Payments :
            drain' = [drain EXCEPT ![w].pc = "claim", ![w].todo = ids]
      BY <1>3 DEF Scan
    <3>2. drain' = [drain EXCEPT ![w] = [drain[w] EXCEPT !.pc = "claim", !.todo = ids]]
      BY <3>1 DEF TypeOK
    <3>3. QED
      BY <1>1, <3>2, DrainUpdates DEF TypeOK
  <2>2. QED
    BY <1>3, <2>1, BulkUpdateType DEF TypeOK, Scan
<1>4. CASE ScanUnconfigured(w)
  BY <1>4, ConstantRecords DEF TypeOK, ScanUnconfigured
<1>5. ASSUME NEW p \in Payments, Claim(w, p) PROVE TypeOK'
  <2>1. drain' \in [Workers -> DrainRecord]
    <3>1. CASE Pending(p)
      <4>1. drain[w].todo \ {p} \in SUBSET Payments
        BY <1>1 DEF DrainRecord
      <4>2. drain' = [drain EXCEPT ![w] = [drain[w] EXCEPT
                        !.pc = "request", !.job = p, !.age = 0,
                        !.todo = drain[w].todo \ {p}]]
        BY <1>5, <3>1 DEF Claim, TypeOK
      <4>3. QED
        BY <1>1, <4>1, <4>2, DrainUpdates DEF TypeOK
    <3>2. CASE ~Pending(p)
      BY <1>5, <3>2 DEF TypeOK, Claim, DrainRecord
    <3>3. QED
      BY <3>1, <3>2
  <2>2. alarm' \in [Payments -> AlarmRecord]
    BY <1>5, BulkUpdateType, ConstantRecords DEF Claim
  <2>3. QED
    BY <1>5, <2>1, <2>2 DEF TypeOK, Claim
<1>6. CASE EndBatch(w)
  <2>1. drain[w].round + 1 \in Nat
    BY <1>1 DEF DrainRecord
  <2>2. drain' \in [Workers -> DrainRecord]
    BY <1>6, <2>1, ConstantRecords DEF TypeOK, EndBatch
  <2>3. QED
    BY <1>6, <2>2 DEF TypeOK, EndBatch
<1>7. CASE ProtectAccepts(w)
  <2>1. drain' \in [Workers -> DrainRecord]
    BY <1>7 DEF TypeOK, ProtectAccepts, DrainRecord
  <2>2. accepted' \in [Payments -> Nat]
    BY <1>7, BumpType DEF TypeOK, ProtectAccepts
  <2>3. QED
    BY <1>7, <2>1, <2>2 DEF TypeOK, ProtectAccepts
<1>8. CASE MarkSent(w)
  <2> DEFINE p == drain[w].job
             n == drain[w].done + (IF Owns(w, p) THEN 1 ELSE 0)
  <2>1. n \in Nat
    BY <1>1 DEF DrainRecord
  <2>2. [drain[w] EXCEPT !.pc = "claim", !.job = None, !.age = 0, !.done = n]
          \in DrainRecord
    <3> HIDE DEF n, p
    <3> QED
      BY <1>1, <2>1, DrainUpdates
  <2>3. drain' = [drain EXCEPT ![w] = [drain[w] EXCEPT
                    !.pc = "claim", !.job = None, !.age = 0, !.done = n]]
    BY <1>8 DEF MarkSent, TypeOK
  <2>4. drain' \in [Workers -> DrainRecord]
    BY <2>2, <2>3 DEF TypeOK
  <2>5. alarm' \in [Payments -> AlarmRecord]
    BY <1>8, ConstantRecords DEF TypeOK, MarkSent
  <2>6. delivered' \in [Payments -> BOOLEAN]
    BY <1>8 DEF TypeOK, MarkSent
  <2>7. QED
    BY <1>8, <2>4, <2>5, <2>6 DEF TypeOK, MarkSent
<1>9. CASE RequestFails(w)
  BY <1>9, ConstantRecords DEF TypeOK, RequestFails, ReleaseAndStop
<1>10. CASE AnswerLost(w)
  <2>1. unsaved' \in [Payments -> Nat]
    BY <1>10, BumpType DEF TypeOK, AnswerLost
  <2>2. /\ drain' \in [Workers -> DrainRecord]
        /\ alarm' \in [Payments -> AlarmRecord]
    BY <1>10, ConstantRecords DEF TypeOK, AnswerLost, ReleaseAndStop
  <2>3. QED
    BY <1>10, <2>1, <2>2 DEF TypeOK, AnswerLost
<1>11. QED
  BY <1>2, <1>3, <1>4, <1>5, <1>6, <1>7, <1>8, <1>9, <1>10 DEF DrainStep

(* A step of an administrator's request keeps the types.                   *)
LEMMA AdminType ==
  ASSUME TypeOK, NEW a \in Admins, AdminStep(a)
  PROVE  TypeOK'
<1>1. admin[a] \in SaveRecord
  BY DEF TypeOK
<1>2. CASE BeginSave(a)
  <2>1. admin' \in [Admins -> SaveRecord]
    BY <1>2 DEF TypeOK, BeginSave, SaveRecord
  <2>2. QED
    BY <1>2, <2>1 DEF TypeOK, BeginSave
<1>3. CASE SaveConflict(a)
  BY <1>3, ConstantRecords DEF TypeOK, SaveConflict
<1>4. ASSUME NEW submitted \in BOOLEAN, ClearForSwitch(a, submitted)
      PROVE TypeOK'
  <2>1. admin' \in [Admins -> SaveRecord]
    BY <1>4 DEF TypeOK, ClearForSwitch, SaveRecord
  <2>2. QED
    BY <1>4, <2>1, BulkUpdateType DEF TypeOK, ClearForSwitch
<1>5. ASSUME NEW submitted \in BOOLEAN, SaveSameConsole(a, submitted)
      PROVE TypeOK'
  BY <1>5, SavedSettingsType, ConstantRecords
  DEF TypeOK, SaveSameConsole, WriteSettings
<1>6. CASE SaveNewConsole(a)
  <2>1. admin[a].submitted \in BOOLEAN
    BY <1>1 DEF SaveRecord
  <2>2. settings' \in SettingsRecord
    BY <1>6, <2>1, SavedSettingsType DEF SaveNewConsole, WriteSettings
  <2>3. QED
    BY <1>6, <2>2, ConstantRecords DEF TypeOK, SaveNewConsole, WriteSettings
<1>7. CASE DisableAlarm(a)
  <2>1. admin' \in [Admins -> SaveRecord]
    BY <1>7 DEF TypeOK, DisableAlarm, SaveRecord
  <2>2. settings' \in SettingsRecord
    BY <1>7 DEF TypeOK, DisableAlarm, SettingsRecord
  <2>3. QED
    BY <1>7, <2>1, <2>2 DEF TypeOK, DisableAlarm
<1>8. CASE FinishSave(a)
  BY <1>8, BulkUpdateType, ConstantRecords DEF TypeOK, FinishSave
<1>9. QED
  BY <1>2, <1>3, <1>4, <1>5, <1>6, <1>7, <1>8 DEF AdminStep

(* Every state Spec reaches has the declared types.                        *)
THEOREM TypeCorrect == Spec => []TypeOK
<1>1. Init => TypeOK
  <2> SUFFICES ASSUME Init PROVE TypeOK
    OBVIOUS
  <2>1. [status |-> "NONE", ts |-> 0, updated |-> 0, completed |-> None, edits |-> 0]
          \in SquareRecord
    BY DEF SquareRecord, Statuses
  <2>2. [status |-> "NONE", ts |-> 0, updated |-> 0] \in RowRecord
    BY DEF RowRecord, Statuses
  <2>3. settings \in SettingsRecord
    BY DEF Init, SettingsRecord
  <2>4. QED
    BY <2>1, <2>2, <2>3, ConstantRecords DEF Init, TypeOK
<1>2. TypeOK /\ [Next]_vars => TypeOK'
  <2> SUFFICES ASSUME TypeOK, [Next]_vars PROVE TypeOK'
    OBVIOUS
  <2>1. CASE ReadSummary
    BY <2>1, BulkUpdateType DEF TypeOK, ReadSummary
  <2>2. CASE Tick
    <3>1. ASSUME NEW p \in Payments PROVE alarm'[p] \in AlarmRecord
      <4>1. alarm[p] \in AlarmRecord
        BY DEF TypeOK
      <4>2. alarm[p].age < Lease => [alarm[p] EXCEPT !.age = @ + 1] \in AlarmRecord
        BY <4>1 DEF AlarmRecord
      <4>3. QED
        BY <2>2, <4>1, <4>2 DEF Tick
    <3>2. ASSUME NEW w \in Workers PROVE drain'[w] \in DrainRecord
      <4>1. drain[w] \in DrainRecord
        BY DEF TypeOK
      <4>2. drain[w].age < RequestTimeout =>
              [drain[w] EXCEPT !.age = @ + 1] \in DrainRecord
        BY <4>1 DEF DrainRecord
      <4>3. QED
        BY <2>2, <4>1, <4>2 DEF Tick, InTime
    <3>3. QED
      BY <2>2, <3>1, <3>2 DEF TypeOK, Tick
  <2>3. CASE Crash
    <3>1. \A p \in Payments : unsaved[p] \in Nat /\ unsaved[p] + 1 \in Nat
      BY DEF TypeOK
    <3>2. unsaved' \in [Payments -> Nat]
      BY <2>3, <3>1 DEF Crash
    <3>3. crashes' \in Nat
      BY <2>3 DEF TypeOK, Crash
    <3>4. QED
      BY <2>3, <3>2, <3>3, ConstantRecords DEF TypeOK, Crash
  <2>4. CASE UNCHANGED vars
    BY <2>4 DEF TypeOK
  <2>5. QED
    BY <2>1, <2>2, <2>3, <2>4, FactsType, DrainType, AdminType DEF Next
<1>3. QED
  BY <1>1, <1>2, PTL DEF Spec

-----------------------------------------------------------------------------
(* Square's snapshots and the rows.                                        *)

FactsInv == SnapshotsOrdered /\ CompletionKnown /\ RowIsSnapshot

(* Only Square and upserts touch snapshots and rows.                       *)
LEMMA FactsFrame ==
  ASSUME [Next]_vars,
         ~ \E p \in Payments : SquareStep(p),
         ~ \E v \in versions : Ingest(v)
  PROVE  UNCHANGED facts
BY DEF Next, StartDrain, DrainStep, Scan, ScanUnconfigured, Claim, EndBatch,
       ProtectAccepts, MarkSent, RequestFails, AnswerLost, ReadSummary, AdminStep,
       BeginSave, SaveConflict, ClearForSwitch, SaveSameConsole, SaveNewConsole,
       WriteSettings, DisableAlarm, FinishSave, Tick, Crash

(* What Square publishes keeps its order.                                  *)
LEMMA SquareStepFacts ==
  ASSUME TypeOK, FactsInv, NEW p \in Payments, SquareStep(p)
  PROVE  FactsInv' /\ UNCHANGED row
<1> USE DEF TypeOK, SquareRecord, SnapshotRecord, Statuses
<1>1. ASSUME NEW status \in {"APPROVED", "COMPLETED"}, SquareOpens(p, status)
      PROVE  FactsInv' /\ UNCHANGED row
  <2>1. \A v \in versions : v.payment # p
    BY <1>1 DEF FactsInv, SnapshotsOrdered, SquareOpens
  <2>2. SnapshotsOrdered'
    BY <1>1, <2>1 DEF FactsInv, SnapshotsOrdered, SquareOpens, Snapshot
  <2>3. CompletionKnown'
    BY <1>1 DEF FactsInv, CompletionKnown, SquareOpens
  <2>4. RowIsSnapshot'
    BY <1>1 DEF FactsInv, RowIsSnapshot, SquareOpens
  <2>5. QED
    BY <1>1, <2>2, <2>3, <2>4 DEF FactsInv, SquareOpens
<1>2. CASE SquareCompletes(p)
  <2>1. \A v \in versions : v.payment = p => v.status = "APPROVED" /\ v.updated < now
    BY <1>2 DEF FactsInv, SnapshotsOrdered, SquareCompletes
  <2>2. SnapshotsOrdered'
    BY <1>2, <2>1 DEF FactsInv, SnapshotsOrdered, SquareCompletes, Snapshot
  <2>3. CompletionKnown'
    BY <1>2 DEF FactsInv, CompletionKnown, SquareCompletes
  <2>4. RowIsSnapshot'
    BY <1>2 DEF FactsInv, RowIsSnapshot, SquareCompletes
  <2>5. QED
    BY <1>2, <2>2, <2>3, <2>4 DEF FactsInv, SquareCompletes
<1>3. CASE SquareEdits(p)
  <2>1. SnapshotsOrdered'
    BY <1>3 DEF FactsInv, SnapshotsOrdered, CompletionKnown, SquareEdits, Snapshot
  <2>2. CompletionKnown'
    BY <1>3 DEF FactsInv, CompletionKnown, SquareEdits
  <2>3. RowIsSnapshot'
    BY <1>3 DEF FactsInv, RowIsSnapshot, SquareEdits
  <2>4. QED
    BY <1>3, <2>1, <2>2, <2>3 DEF FactsInv, SquareEdits
<1>4. QED
  BY <1>1, <1>2, <1>3 DEF SquareStep

(* An upsert stores a snapshot, and never reopens a completed row.         *)
LEMMA IngestFacts ==
  ASSUME TypeOK, FactsInv, NEW v \in versions, Ingest(v)
  PROVE  FactsInv' /\ \A p \in Payments : Completed(p) => Completed(p)'
<1> USE DEF TypeOK, SquareRecord, SnapshotRecord, Statuses, RowRecord
<1>1. SnapshotsOrdered' /\ CompletionKnown'
  BY DEF FactsInv, Ingest, SnapshotsOrdered, CompletionKnown
<1>2. RowIsSnapshot'
  BY DEF FactsInv, Ingest, RowIsSnapshot
<1>3. ASSUME Completed(v.payment) PROVE v.status = "COMPLETED"
  <2>1. PICK u \in versions : /\ u.payment = v.payment
                             /\ u.status = "COMPLETED"
                             /\ u.updated = row[v.payment].updated
    BY <1>3 DEF FactsInv, RowIsSnapshot, Completed
  <2>2. v.updated >= u.updated
    BY <1>3, <2>1 DEF Ingest, Stale, Completed
  <2>3. square[v.payment].status = "COMPLETED" /\ u.updated >= square[v.payment].completed
    BY <2>1 DEF FactsInv, SnapshotsOrdered
  <2>4. square[v.payment].completed \in Nat
    BY <2>3 DEF FactsInv, CompletionKnown
  <2>5. QED
    BY <2>2, <2>3, <2>4, <2>1 DEF FactsInv, SnapshotsOrdered
<1>4. \A p \in Payments : Completed(p) => Completed(p)'
  BY <1>3 DEF Ingest, Completed
<1>5. QED
  BY <1>1, <1>2, <1>4 DEF FactsInv

LEMMA FactsStep ==
  ASSUME TypeOK, FactsInv, [Next]_vars
  PROVE  FactsInv' /\ \A p \in Payments : Completed(p) => Completed(p)'
<1>1. CASE \E p \in Payments : SquareStep(p)
  BY <1>1, SquareStepFacts DEF Completed
<1>2. CASE \E v \in versions : Ingest(v)
  BY <1>2, IngestFacts
<1>3. CASE UNCHANGED facts
  BY <1>3 DEF FactsInv, SnapshotsOrdered, CompletionKnown, RowIsSnapshot, Completed
<1>4. QED
  BY <1>1, <1>2, <1>3, FactsFrame

-----------------------------------------------------------------------------
(* The integration guard.                                                  *)

GuardInv == SavesExcludeDrains /\ DrainsOnlyWhenOn

LEMMA GuardStep ==
  ASSUME TypeOK, GuardInv, [Next]_vars
  PROVE  GuardInv'
<1> USE DEF TypeOK
<1>1. CASE UNCHANGED <<settings, drain, admin>>
  BY <1>1 DEF GuardInv, SavesExcludeDrains, DrainsOnlyWhenOn, Exclusive, InDrain
<1>2. ASSUME NEW w \in Workers, StartDrain(w) PROVE GuardInv'
  BY <1>2 DEF StartDrain, SharedFree, NoDrain, GuardInv, SavesExcludeDrains,
              DrainsOnlyWhenOn, Exclusive, InDrain
<1>3. ASSUME NEW w \in Workers, DrainStep(w) PROVE GuardInv'
  <2>1. InDrain(w) /\ UNCHANGED <<settings, admin>>
    BY <1>3 DEF DrainStep, Scan, ScanUnconfigured, Claim, EndBatch, ProtectAccepts,
                MarkSent, RequestFails, AnswerLost, InDrain
  <2>2. \A u \in Workers : u # w => drain'[u] = drain[u]
    BY <1>3 DEF DrainStep, Scan, ScanUnconfigured, Claim, EndBatch, ProtectAccepts,
                MarkSent, RequestFails, AnswerLost, ReleaseAndStop
  <2>3. \A a \in Admins : ~Exclusive(a)
    BY <2>1 DEF GuardInv, SavesExcludeDrains
  <2>4. SavesExcludeDrains'
    BY <2>1, <2>3 DEF SavesExcludeDrains, Exclusive
  <2>5. drain'[w].pc \in {"claim", "request", "accepted"} => settings.on
    <3>1. CASE Scan(w)
      BY <3>1 DEF Scan
    <3>2. CASE ScanUnconfigured(w)
      BY <3>2 DEF ScanUnconfigured, NoDrain
    <3>3. CASE drain[w].pc \in {"claim", "request", "accepted"}
      BY <3>3 DEF GuardInv, DrainsOnlyWhenOn
    <3>4. QED
      BY <1>3, <3>1, <3>2, <3>3 DEF DrainStep, Claim, EndBatch, ProtectAccepts,
                                    MarkSent, RequestFails, AnswerLost
  <2>6. QED
    BY <2>1, <2>2, <2>4, <2>5 DEF GuardInv, DrainsOnlyWhenOn
<1>4. ASSUME NEW a \in Admins, AdminStep(a) PROVE GuardInv'
  <2>1. UNCHANGED drain
    BY <1>4 DEF AdminStep, BeginSave, SaveConflict, ClearForSwitch, SaveSameConsole,
                SaveNewConsole, WriteSettings, DisableAlarm, FinishSave
  <2>2. \A b \in Admins : b # a => admin'[b] = admin[b]
    BY <1>4 DEF AdminStep, BeginSave, SaveConflict, ClearForSwitch, SaveSameConsole,
                SaveNewConsole, WriteSettings, DisableAlarm, FinishSave
  <2>3. CASE ExclusiveFree
    BY <2>1, <2>2, <2>3 DEF ExclusiveFree, SharedFree, GuardInv, SavesExcludeDrains,
                            DrainsOnlyWhenOn, Exclusive, InDrain
  <2>4. CASE Exclusive(a)
    BY <2>1, <2>2, <2>4 DEF GuardInv, SavesExcludeDrains, DrainsOnlyWhenOn, Exclusive,
                            InDrain
  <2>5. CASE BeginSave(a)
    BY <2>5 DEF BeginSave, GuardInv, SavesExcludeDrains, DrainsOnlyWhenOn, Exclusive,
                InDrain
  <2>6. ExclusiveFree \/ Exclusive(a) \/ BeginSave(a)
    BY <1>4 DEF AdminStep, SaveConflict, ClearForSwitch, SaveSameConsole,
                SaveNewConsole, DisableAlarm, FinishSave, Exclusive
  <2>7. QED
    BY <2>3, <2>4, <2>5, <2>6
<1>5. CASE Tick
  <2>1. \A w \in Workers : drain'[w].pc = drain[w].pc
    BY <1>5 DEF Tick, DrainRecord
  <2>2. UNCHANGED <<settings, admin>>
    BY <1>5 DEF Tick
  <2>3. QED
    BY <2>1, <2>2 DEF GuardInv, SavesExcludeDrains, DrainsOnlyWhenOn, Exclusive, InDrain
<1>6. CASE Crash
  BY <1>6 DEF Crash, NoDrain, NoSave, GuardInv, SavesExcludeDrains, DrainsOnlyWhenOn,
              Exclusive, InDrain
<1>7. QED
  BY <1>1, <1>2, <1>3, <1>4, <1>5, <1>6
  DEF Next, SquareStep, SquareOpens, SquareCompletes, SquareEdits, Ingest, ReadSummary
-----------------------------------------------------------------------------
(* Claims, rows and the account of the triggers.                           *)

ClaimInv == RequestOwnsClaim /\ DeliveredIsSent /\ RingsAccounted

(* A claim belongs to one drain: requests in flight are for other sales.   *)
LEMMA OwnerIsUnique ==
  ASSUME RequestOwnsClaim
  PROVE  ExclusiveDelivery
BY DEF RequestOwnsClaim, ExclusiveDelivery, Owns

(* Taking expired claims back touches no request in flight, because the    *)
(* client gives a request up before the lease ends, and no settled row.    *)
LEMMA ReleasedKeeps ==
  ASSUME TypeOK, RequestOwnsClaim
  PROVE  /\ Released \in [Payments -> AlarmRecord]
         /\ \A w \in Workers : InRequest(w) =>
              Released[drain[w].job] = alarm[drain[w].job]
         /\ \A p \in Payments : alarm[p].state = "sent" <=> Released[p].state = "sent"
         /\ \A p \in Payments : alarm[p].state = "sent" => Released[p] = alarm[p]
<1>1. Released \in [Payments -> AlarmRecord]
  BY ConstantRecords DEF TypeOK, Released
<1>2. ASSUME NEW w \in Workers, InRequest(w)
      PROVE  Released[drain[w].job] = alarm[drain[w].job]
  <2>1. drain[w].age \in 0..RequestTimeout
    BY DEF TypeOK, DrainRecord
  <2>2. ~Expired(drain[w].job)
    BY <1>2, <2>1 DEF RequestOwnsClaim, Expired
  <2>3. QED
    BY <1>2, <2>2 DEF RequestOwnsClaim, Released
<1>3. \A p \in Payments : /\ alarm[p].state = "sent" <=> Released[p].state = "sent"
                          /\ alarm[p].state = "sent" => Released[p] = alarm[p]
  BY DEF Released, Expired, Idle
<1>4. QED
  BY <1>1, <1>2, <1>3

(* Steps that touch no request in flight and take back expired claims at   *)
(* most.                                                                   *)
LEMMA QuietStep ==
  ASSUME TypeOK, ClaimInv,
         \A p \in Payments : Completed(p) => Completed(p)',
         UNCHANGED <<delivered, accepted, unsaved>>,
         UNCHANGED alarm \/ alarm' = Released,
         \A w \in Workers : \/ drain'[w] = drain[w]
                            \/ ~InRequest(w) /\ ~InRequest(w)'
  PROVE  ClaimInv'
<1> USE DEF ClaimInv
<1>1. \A p \in Payments : RingingUnsaved(p)' <=> RingingUnsaved(p)
  BY DEF RingingUnsaved, InRequest
<1>2. RingsAccounted'
  BY <1>1 DEF RingsAccounted
<1>3. DeliveredIsSent'
  BY ReleasedKeeps DEF DeliveredIsSent
<1>4. RequestOwnsClaim'
  BY ReleasedKeeps DEF RequestOwnsClaim, InRequest, Owns
<1>5. QED
  BY <1>2, <1>3, <1>4

(* An upsert settles only sales that were still open, which nobody claims. *)
LEMMA IngestClaims ==
  ASSUME TypeOK, ClaimInv, NEW v \in versions, Ingest(v),
         \A p \in Payments : Completed(p) => Completed(p)'
  PROVE  ClaimInv'
<1> USE DEF ClaimInv
<1>1. RequestOwnsClaim'
  <2>1. ASSUME NEW w \in Workers, InRequest(w)
        PROVE  alarm'[drain[w].job] = alarm[drain[w].job]
    BY <2>1 DEF Ingest, Historical, RequestOwnsClaim, Completed, TypeOK
  <2>2. QED
    BY <2>1 DEF Ingest, RequestOwnsClaim, InRequest, Owns
<1>2. DeliveredIsSent'
  BY DEF Ingest, DeliveredIsSent, Sent, TypeOK
<1>3. RingsAccounted'
  BY DEF Ingest, RingsAccounted, RingingUnsaved
<1>4. QED
  BY <1>1, <1>2, <1>3

(* Handling every pending sale waits for the drains, so it takes no claim. *)
LEMMA SuppressClaims ==
  ASSUME TypeOK, ClaimInv, \A w \in Workers : ~InDrain(w),
         alarm' = Suppressed, UNCHANGED <<delivered, drain, accepted, unsaved>>
  PROVE  ClaimInv'
<1> USE DEF ClaimInv
<1>1. RequestOwnsClaim'
  BY DEF RequestOwnsClaim, InRequest, InDrain
<1>2. DeliveredIsSent'
  BY DEF DeliveredIsSent, Suppressed, Sent
<1>3. RingsAccounted'
  BY DEF RingsAccounted, RingingUnsaved
<1>4. QED
  BY <1>1, <1>2, <1>3

(* A claim takes a sale that is open and that no request is in flight for. *)
LEMMA ClaimClaims ==
  ASSUME TypeOK, ClaimInv, NEW w \in Workers, NEW p \in Payments,
         Claim(w, p), Pending(p)
  PROVE  ClaimInv'
<1> USE DEF ClaimInv
<1>1. drain \in [Workers -> DrainRecord] /\ drain[w] \in DrainRecord
  BY DEF TypeOK
<1>2. /\ UNCHANGED <<row, delivered, accepted, unsaved>>
      /\ alarm' = [Released EXCEPT ![p] = ClaimedBy(w)]
      /\ \A u \in Workers : u # w => drain'[u] = drain[u]
      /\ ~InRequest(w)
  BY <1>1 DEF Claim, InRequest
<1>3. drain'[w].pc = "request" /\ drain'[w].job = p /\ drain'[w].age = 0
  BY <1>1 DEF Claim, DrainRecord
<1>4. Completed(p) /\ Released[p].state = "idle"
  BY DEF Pending
<1>5. \A q \in Payments : RingingUnsaved(q)' <=> RingingUnsaved(q)
  BY <1>2, <1>3 DEF RingingUnsaved, InRequest
<1>6. RingsAccounted'
  BY <1>2, <1>5 DEF RingsAccounted
<1>7. DeliveredIsSent'
  BY <1>2, <1>4, ReleasedKeeps DEF DeliveredIsSent
<1>8. ASSUME NEW u \in Workers \ {w}, InRequest(u)
      PROVE  /\ drain[u].job # p
             /\ alarm'[drain[u].job] = alarm[drain[u].job]
  BY <1>2, <1>4, <1>8, ReleasedKeeps DEF RequestOwnsClaim, Owns
<1>9. alarm'[p] = ClaimedBy(w)
  BY <1>2, ReleasedKeeps
<1>10. RequestOwnsClaim'
  BY <1>2, <1>3, <1>4, <1>8, <1>9
  DEF RequestOwnsClaim, InRequest, Owns, Completed, ClaimedBy
<1>11. QED
  BY <1>6, <1>7, <1>10

(* A request in flight, and what a step of its drain leaves of the others. *)
LEMMA RequestFrame ==
  ASSUME TypeOK, RequestOwnsClaim, NEW w \in Workers, InRequest(w),
         \A u \in Workers : u # w => drain'[u] = drain[u],
         NEW p, p = drain[w].job
  PROVE  /\ p \in Payments /\ Owns(w, p) /\ Completed(p)
         /\ alarm[p].age = drain[w].age
         /\ RingingUnsaved(p) <=> drain[w].pc = "accepted"
         /\ RingingUnsaved(p)' <=> drain'[w].pc = "accepted" /\ drain'[w].job = p
         /\ drain'[w].job = p \/ drain'[w].pc # "accepted" =>
              \A q \in Payments \ {p} : RingingUnsaved(q)' <=> RingingUnsaved(q)
         /\ \A u \in Workers \ {w} : InRequest(u)' <=> InRequest(u)
         /\ \A u \in Workers \ {w} : InRequest(u) => drain[u].job # p
<1>1. p \in Payments /\ Owns(w, p) /\ Completed(p) /\ alarm[p].age = drain[w].age
  BY DEF RequestOwnsClaim
<1>2. \A u \in Workers \ {w} : /\ InRequest(u)' <=> InRequest(u)
                               /\ InRequest(u) => drain[u].job # p
  BY OwnerIsUnique DEF ExclusiveDelivery, InRequest
<1>3. RingingUnsaved(p) <=> drain[w].pc = "accepted"
  BY <1>2 DEF RingingUnsaved, InRequest
<1>4. RingingUnsaved(p)' <=> drain'[w].pc = "accepted" /\ drain'[w].job = p
  BY <1>2 DEF RingingUnsaved, InRequest
<1>5. drain'[w].job = p \/ drain'[w].pc # "accepted" =>
        \A q \in Payments \ {p} : RingingUnsaved(q)' <=> RingingUnsaved(q)
  BY DEF RingingUnsaved
<1>6. QED
  BY <1>1, <1>2, <1>3, <1>4, <1>5

(* The steps of a request: Protect rings, and its answer settles the sale  *)
(* or is lost.                                                             *)
LEMMA RequestClaims ==
  ASSUME TypeOK, ClaimInv, NEW w \in Workers, NEW p, p = drain[w].job,
         ProtectAccepts(w) \/ MarkSent(w) \/ RequestFails(w) \/ AnswerLost(w)
  PROVE  ClaimInv'
<1> USE DEF ClaimInv
<1>1. /\ drain \in [Workers -> DrainRecord] /\ drain[w] \in DrainRecord
      /\ alarm \in [Payments -> AlarmRecord]
      /\ delivered \in [Payments -> BOOLEAN]
      /\ accepted \in [Payments -> Nat] /\ unsaved \in [Payments -> Nat]
  BY DEF TypeOK
<1>2. /\ InRequest(w) /\ UNCHANGED row
      /\ \A u \in Workers : u # w => drain'[u] = drain[u]
  BY <1>1 DEF ProtectAccepts, MarkSent, RequestFails, AnswerLost, ReleaseAndStop,
              InRequest
<1>3. p \in Payments /\ Owns(w, p) /\ Completed(p)
  BY <1>2, RequestFrame
<1>4. CASE ProtectAccepts(w)
  <2>1. /\ drain[w].pc = "request" /\ drain'[w].pc = "accepted"
        /\ drain'[w].job = p /\ drain'[w].age = drain[w].age
        /\ UNCHANGED <<alarm, delivered, unsaved>>
        /\ accepted' = [accepted EXCEPT ![p] = @ + 1]
    BY <1>4, <1>1 DEF ProtectAccepts, DrainRecord
  <2>2. ~RingingUnsaved(p) /\ RingingUnsaved(p)'
    BY <1>2, <2>1, RequestFrame
  <2>3. \A q \in Payments \ {p} : RingingUnsaved(q)' <=> RingingUnsaved(q)
    BY <1>2, <2>1, RequestFrame
  <2>4. RingsAccounted'
    BY <1>1, <1>3, <2>1, <2>2, <2>3 DEF RingsAccounted
  <2>5. RequestOwnsClaim'
    BY <1>2, <1>3, <2>1 DEF RequestOwnsClaim, InRequest, Owns, Completed
  <2>6. DeliveredIsSent'
    BY <2>1 DEF DeliveredIsSent
  <2>7. QED
    BY <2>4, <2>5, <2>6
<1>5. CASE MarkSent(w)
  <2>1. /\ drain[w].pc = "accepted" /\ drain'[w].pc = "claim"
        /\ alarm' = [alarm EXCEPT ![p] = Sent]
        /\ delivered' = [delivered EXCEPT ![p] = TRUE]
        /\ UNCHANGED <<accepted, unsaved>>
    BY <1>1, <1>3, <1>5 DEF MarkSent, DrainRecord
  <2>2. RingingUnsaved(p) /\ ~RingingUnsaved(p)'
    BY <1>2, <2>1, RequestFrame
  <2>3. \A q \in Payments \ {p} : RingingUnsaved(q)' <=> RingingUnsaved(q)
    BY <1>2, <2>1, RequestFrame
  <2>4. ~delivered[p]
    BY <1>3 DEF DeliveredIsSent, Owns
  <2>5. RingsAccounted'
    <3>1. \A q \in Payments \ {p} : delivered'[q] = delivered[q]
      BY <1>1, <2>1
    <3>2. delivered'[p] /\ accepted[p] = unsaved[p] + 1
      BY <1>1, <1>3, <2>1, <2>2, <2>4 DEF RingsAccounted
    <3>3. QED
      BY <1>1, <2>1, <2>2, <2>3, <3>1, <3>2 DEF RingsAccounted
  <2>6. ~InRequest(w)' /\ \A u \in Workers \ {w} : InRequest(u)' =>
                             InRequest(u) /\ drain[u].job # p
    BY <1>2, <2>1, RequestFrame DEF InRequest
  <2>7. RequestOwnsClaim'
    BY <1>1, <1>2, <2>1, <2>6 DEF RequestOwnsClaim, Owns, Completed
  <2>8. DeliveredIsSent'
    BY <1>1, <1>3, <2>1 DEF DeliveredIsSent, Sent
  <2>9. QED
    BY <2>5, <2>7, <2>8
<1>6. CASE RequestFails(w) \/ AnswerLost(w)
  <2>1. /\ alarm' = [alarm EXCEPT ![p] = Idle]
        /\ UNCHANGED <<accepted, delivered>>
        /\ drain'[w].pc = "idle"
    BY <1>1, <1>3, <1>6 DEF RequestFails, AnswerLost, ReleaseAndStop, NoDrain
  <2>2. ~RingingUnsaved(p)'
    BY <1>2, <2>1, RequestFrame
  <2>3. \A q \in Payments \ {p} : RingingUnsaved(q)' <=> RingingUnsaved(q)
    BY <1>2, <2>1, RequestFrame
  <2>4. ~delivered[p] /\ accepted'[p] = unsaved'[p]
    <3>1. ~delivered[p]
      BY <1>3 DEF DeliveredIsSent, Owns
    <3>2. CASE RequestFails(w)
      <4>1. ~RingingUnsaved(p) /\ UNCHANGED <<accepted, unsaved>>
        BY <1>2, <3>2, RequestFrame DEF RequestFails
      <4>2. QED
        BY <1>1, <1>3, <3>1, <4>1 DEF RingsAccounted
    <3>3. CASE AnswerLost(w)
      <4>1. /\ RingingUnsaved(p) /\ UNCHANGED accepted
            /\ unsaved' = [unsaved EXCEPT ![p] = @ + 1]
        BY <1>2, <3>3, RequestFrame DEF AnswerLost
      <4>2. accepted[p] = unsaved[p] + 1
        BY <1>1, <1>3, <3>1, <4>1 DEF RingsAccounted
      <4>3. QED
        BY <1>1, <1>3, <3>1, <4>1, <4>2
    <3>4. QED
      BY <1>6, <3>1, <3>2, <3>3
  <2>5. \A q \in Payments \ {p} : unsaved'[q] = unsaved[q]
    BY <1>1, <1>6 DEF RequestFails, AnswerLost
  <2>6. ~InRequest(w)' /\ \A u \in Workers \ {w} : InRequest(u)' =>
                             InRequest(u) /\ drain[u].job # p
    BY <1>2, <2>1, RequestFrame DEF InRequest
  <2>7. RequestOwnsClaim'
    BY <1>1, <1>2, <2>1, <2>6 DEF RequestOwnsClaim, Owns, Completed
  <2>8. DeliveredIsSent'
    BY <1>1, <1>3, <2>1 DEF DeliveredIsSent, Idle, Owns
  <2>9. RingsAccounted'
    <3>1. ASSUME NEW q \in Payments \ {p}
          PROVE  accepted'[q] = unsaved'[q] + (IF delivered'[q] THEN 1 ELSE 0)
                                  + (IF RingingUnsaved(q)' THEN 1 ELSE 0)
      BY <1>1, <2>1, <2>3, <2>5 DEF RingsAccounted
    <3>2. QED
      BY <1>1, <1>3, <2>1, <2>2, <2>4, <3>1 DEF RingsAccounted
  <2>10. QED
    BY <2>7, <2>8, <2>9
<1>7. QED
  BY <1>4, <1>5, <1>6

LEMMA DrainClaims ==
  ASSUME TypeOK, ClaimInv, NEW w \in Workers, DrainStep(w)
  PROVE  ClaimInv'
<1>1. drain \in [Workers -> DrainRecord] /\ drain[w] \in DrainRecord
  BY DEF TypeOK
<1>2. CASE \/ Scan(w) \/ ScanUnconfigured(w) \/ EndBatch(w)
           \/ \E p \in Payments : Claim(w, p) /\ ~Pending(p)
  <2>1. /\ UNCHANGED <<row, delivered, accepted, unsaved>>
        /\ UNCHANGED alarm \/ alarm' = Released
        /\ \A u \in Workers : u # w => drain'[u] = drain[u]
        /\ ~InRequest(w)
    BY <1>1, <1>2 DEF Scan, ScanUnconfigured, EndBatch, Claim, InRequest
  <2>2. CASE \E p \in Payments : Claim(w, p) /\ ~Pending(p)
    BY <1>1, <2>1, <2>2, QuietStep DEF Claim, DrainRecord, InRequest, Completed
  <2>3. CASE Scan(w) \/ ScanUnconfigured(w) \/ EndBatch(w)
    <3>1. ~InRequest(w)'
      <4>1. CASE Scan(w)
        BY <1>1, <4>1 DEF Scan, InRequest, DrainRecord
      <4>2. CASE ScanUnconfigured(w)
        BY <1>1, <4>2 DEF ScanUnconfigured, InRequest, NoDrain
      <4>3. CASE EndBatch(w)
        BY <1>1, <4>3 DEF EndBatch, InRequest, NoDrain
      <4>4. QED
        BY <2>3, <4>1, <4>2, <4>3
    <3>2. QED
      BY <2>1, <3>1, QuietStep DEF Completed
  <2>4. QED
    BY <1>2, <2>2, <2>3
<1>3. CASE \E p \in Payments : Claim(w, p) /\ Pending(p)
  BY <1>3, ClaimClaims
<1>4. CASE ProtectAccepts(w) \/ MarkSent(w) \/ RequestFails(w) \/ AnswerLost(w)
  BY <1>4, RequestClaims
<1>5. QED
  BY <1>2, <1>3, <1>4 DEF DrainStep

(* Claim and request age together.                                         *)
LEMMA TickClaims ==
  ASSUME TypeOK, ClaimInv, Tick
  PROVE  ClaimInv'
<1> USE DEF ClaimInv
<1>1. \A w \in Workers : drain[w] \in DrainRecord
  BY DEF TypeOK
<1>2. \A w \in Workers : /\ drain'[w].pc = drain[w].pc
                         /\ drain'[w].job = drain[w].job
                         /\ InRequest(w)' <=> InRequest(w)
                         /\ InRequest(w) => drain'[w].age = drain[w].age + 1
  BY <1>1 DEF Tick, DrainRecord, InRequest
<1>3. \A p \in Payments : /\ alarm'[p].state = alarm[p].state
                          /\ alarm'[p].claim = alarm[p].claim
  BY DEF Tick, TypeOK, AlarmRecord
<1>4. ASSUME NEW w \in Workers, InRequest(w)
      PROVE  alarm'[drain[w].job].age = alarm[drain[w].job].age + 1
  <2>1. drain[w].age < RequestTimeout /\ drain[w].age \in 0..RequestTimeout
    BY <1>1, <1>4 DEF Tick, InTime, DrainRecord
  <2>2. alarm[drain[w].job].age < Lease /\ alarm[drain[w].job].state = "in_progress"
    BY <1>4, <2>1 DEF RequestOwnsClaim, Owns
  <2>3. drain[w].job \in Payments /\ alarm[drain[w].job] \in AlarmRecord
    BY <1>4 DEF RequestOwnsClaim, TypeOK
  <2>4. QED
    BY <2>2, <2>3 DEF Tick, AlarmRecord
<1>5. RequestOwnsClaim'
  BY <1>2, <1>3, <1>4 DEF RequestOwnsClaim, Owns, Completed, Tick
<1>6. DeliveredIsSent'
  BY <1>3 DEF DeliveredIsSent, Tick
<1>7. RingsAccounted'
  BY <1>2 DEF RingsAccounted, RingingUnsaved, Tick
<1>8. QED
  BY <1>5, <1>6, <1>7

(* A crash turns every ring still waiting for its answer into a lost one.  *)
LEMMA CrashClaims ==
  ASSUME TypeOK, ClaimInv, Crash
  PROVE  ClaimInv'
<1> USE DEF ClaimInv
<1>1. \A w \in Workers : ~InRequest(w)' /\ drain'[w].pc = "idle"
  BY DEF Crash, NoDrain, InRequest
<1>2. RequestOwnsClaim'
  BY <1>1 DEF RequestOwnsClaim
<1>3. DeliveredIsSent'
  BY DEF DeliveredIsSent, Crash
<1>4. ASSUME NEW p \in Payments
      PROVE  accepted'[p] = unsaved'[p] + (IF delivered'[p] THEN 1 ELSE 0)
                              + (IF RingingUnsaved(p)' THEN 1 ELSE 0)
  <2>1. ~RingingUnsaved(p)'
    BY <1>1 DEF RingingUnsaved
  <2>2. unsaved'[p] = unsaved[p] + (IF RingingUnsaved(p) THEN 1 ELSE 0)
    BY DEF Crash, TypeOK
  <2>3. accepted[p] \in Nat /\ unsaved[p] \in Nat
    BY DEF TypeOK
  <2>4. QED
    BY <2>1, <2>2, <2>3 DEF RingsAccounted, Crash
<1>5. QED
  BY <1>2, <1>3, <1>4 DEF RingsAccounted

LEMMA AdminClaims ==
  ASSUME TypeOK, GuardInv, ClaimInv, NEW a \in Admins, AdminStep(a)
  PROVE  ClaimInv'
<1>1. CASE FinishSave(a)
  <2>1. \A w \in Workers : ~InDrain(w)
    BY <1>1 DEF FinishSave, Exclusive, GuardInv, SavesExcludeDrains
  <2>2. QED
    BY <1>1, <2>1, SuppressClaims DEF FinishSave
<1>2. CASE \E submitted \in BOOLEAN : ClearForSwitch(a, submitted)
  <2>1. PICK submitted \in BOOLEAN : ClearForSwitch(a, submitted)
    BY <1>2
  <2>2. QED
    BY <2>1, SuppressClaims DEF ClearForSwitch, ExclusiveFree
<1>3. CASE UNCHANGED <<row, alarm, delivered, drain, accepted, unsaved>>
  BY <1>3, QuietStep DEF Completed
<1>4. QED
  BY <1>1, <1>2, <1>3 DEF AdminStep, BeginSave, SaveConflict, SaveSameConsole,
                          SaveNewConsole, WriteSettings, DisableAlarm

LEMMA ClaimStep ==
  ASSUME TypeOK, FactsInv, GuardInv, ClaimInv, [Next]_vars
  PROVE  ClaimInv'
<1>1. \A p \in Payments : Completed(p) => Completed(p)'
  BY FactsStep
<1>2. ASSUME NEW p \in Payments, SquareStep(p) PROVE ClaimInv'
  BY <1>1, <1>2, QuietStep DEF SquareStep, SquareOpens, SquareCompletes, SquareEdits
<1>3. ASSUME NEW v \in versions, Ingest(v) PROVE ClaimInv'
  BY <1>1, <1>3, IngestClaims
<1>4. ASSUME NEW w \in Workers, StartDrain(w) PROVE ClaimInv'
  <2>1. ~InRequest(w) /\ ~InRequest(w)'
    BY <1>4 DEF StartDrain, InRequest, InDrain, TypeOK
  <2>2. QED
    BY <1>1, <1>4, <2>1, QuietStep DEF StartDrain, TypeOK
<1>5. ASSUME NEW w \in Workers, DrainStep(w) PROVE ClaimInv'
  BY <1>5, DrainClaims
<1>6. CASE ReadSummary
  BY <1>1, <1>6, QuietStep DEF ReadSummary
<1>7. ASSUME NEW a \in Admins, AdminStep(a) PROVE ClaimInv'
  BY <1>7, AdminClaims
<1>8. CASE Tick
  BY <1>8, TickClaims
<1>9. CASE Crash
  BY <1>9, CrashClaims
<1>10. CASE UNCHANGED vars
  BY <1>1, <1>10, QuietStep
<1>11. QED
  BY <1>2, <1>3, <1>4, <1>5, <1>6, <1>7, <1>8, <1>9, <1>10 DEF Next

-----------------------------------------------------------------------------
(* The invariant and what follows from it.                                 *)

LEMMA Invariant == Spec => [](TypeOK /\ FactsInv /\ GuardInv /\ ClaimInv)
<1>1. Init => FactsInv /\ GuardInv /\ ClaimInv
  BY DEF Init, FactsInv, SnapshotsOrdered, CompletionKnown, RowIsSnapshot, GuardInv,
         SavesExcludeDrains, DrainsOnlyWhenOn, Exclusive, InDrain, NoDrain, NoSave,
         ClaimInv, RequestOwnsClaim, InRequest, DeliveredIsSent, RingsAccounted,
         RingingUnsaved
<1>2. TypeOK /\ FactsInv /\ GuardInv /\ ClaimInv /\ [Next]_vars
        => (FactsInv /\ GuardInv /\ ClaimInv)'
  BY FactsStep, GuardStep, ClaimStep
<1>3. QED
  BY <1>1, <1>2, TypeCorrect, PTL DEF Spec

(* Two drains never have a trigger in flight for the same sale: each holds *)
(* the sale's only claim, and gives its request up before the lease ends.  *)
THEOREM Exclusivity == Spec => []ExclusiveDelivery
<1>1. ClaimInv => ExclusiveDelivery
  BY OwnerIsUnique DEF ClaimInv
<1>2. QED
  BY <1>1, Invariant, PTL

(* Every trigger Protect accepted is saved, awaited or known to be lost.   *)
THEOREM Accounting == Spec => []RingsAccounted
<1>1. ClaimInv => RingsAccounted
  BY DEF ClaimInv
<1>2. QED
  BY <1>1, Invariant, PTL

(* Protect rings only while the feature is on.                             *)
THEOREM OnlyWhenOn == Spec => RingsOnlyWhenOn
<1>1. ASSUME GuardInv, [Next]_vars, NEW p \in Payments, accepted'[p] # accepted[p]
      PROVE  settings.on
  <2>1. PICK w \in Workers : ProtectAccepts(w)
    BY <1>1 DEF Next, SquareStep, SquareOpens, SquareCompletes, SquareEdits, Ingest,
                StartDrain, DrainStep, Scan, ScanUnconfigured, Claim, EndBatch, MarkSent,
                RequestFails, AnswerLost, ReadSummary, AdminStep, BeginSave,
                SaveConflict, ClearForSwitch, SaveSameConsole, SaveNewConsole,
                WriteSettings, DisableAlarm, FinishSave, Tick, Crash
  <2>2. QED
    BY <1>1, <2>1 DEF GuardInv, DrainsOnlyWhenOn, ProtectAccepts
<1>2. GuardInv /\ [Next]_vars =>
        [\A p \in Payments : accepted'[p] # accepted[p] => settings.on]_vars
  BY <1>1
<1>3. QED
  BY <1>2, Invariant, PTL DEF Spec, RingsOnlyWhenOn

(* Alarms that are on have an activation time: a save that leaves the      *)
(* boundary alone found the settings as it had read them.                  *)
THEOREM BoundaryKnown == Spec => []EnabledHasBoundary
<1>1. Init => EnabledHasBoundary
  BY DEF Init, EnabledHasBoundary
<1>2. ASSUME TypeOK, EnabledHasBoundary, [Next]_vars PROVE EnabledHasBoundary'
  <2>1. CASE UNCHANGED settings
    BY <1>2, <2>1 DEF EnabledHasBoundary
  <2>2. ASSUME NEW a \in Admins, NEW submitted \in BOOLEAN, SaveSameConsole(a, submitted)
        PROVE  EnabledHasBoundary'
    BY <1>2, <2>2 DEF EnabledHasBoundary, SaveSameConsole, Unchanged, WriteSettings,
                      SavedSettings, Activated, TypeOK
  <2>3. ASSUME NEW a \in Admins, SaveNewConsole(a) PROVE EnabledHasBoundary'
    <3>1. settings' = SavedSettings(admin[a].seen, admin[a].submitted, TRUE)
      BY <2>3 DEF SaveNewConsole, WriteSettings
    <3>2. /\ settings'.on => Activated(admin[a].seen, admin[a].submitted, TRUE)
          /\ Activated(admin[a].seen, admin[a].submitted, TRUE)
               => settings'.boundary = now
      BY <3>1, Zenon DEF SavedSettings, Activated
    <3>3. now # None
      BY <1>2 DEF TypeOK
    <3>4. QED
      BY <3>2, <3>3 DEF EnabledHasBoundary
  <2>4. ASSUME NEW a \in Admins, DisableAlarm(a) PROVE EnabledHasBoundary'
    BY <1>2, <2>4 DEF EnabledHasBoundary, DisableAlarm, TypeOK, SettingsRecord
  <2>5. QED
    BY <1>2, <2>1, <2>2, <2>3, <2>4
    DEF Next, SquareStep, SquareOpens, SquareCompletes, SquareEdits, Ingest, StartDrain,
        DrainStep, Scan, ScanUnconfigured, Claim, EndBatch, ProtectAccepts, MarkSent,
        RequestFails, AnswerLost, ReadSummary, AdminStep, BeginSave, SaveConflict,
        ClearForSwitch, FinishSave, Tick, Crash
<1>3. QED
  BY <1>1, <1>2, TypeCorrect, PTL DEF Spec

-----------------------------------------------------------------------------
(* Claims, leases and guards implement the ledger.                         *)

(* A request in flight is for an open sale whose earlier rings are all     *)
(* doubtful; once it rang, it is the one ring awaited.                     *)
LEMMA InFlightIsOpen ==
  ASSUME TypeOK, ClaimInv, NEW w \in Workers, InRequest(w), NEW p, p = drain[w].job
  PROVE  /\ p \in Payments /\ Outcome[p] = "open" /\ ~delivered[p]
         /\ drain[w].pc = "request" => accepted[p] = unsaved[p]
         /\ drain[w].pc = "accepted" => accepted[p] = unsaved[p] + 1
<1>1. p \in Payments /\ Owns(w, p)
  BY DEF ClaimInv, RequestOwnsClaim
<1>2. ~delivered[p]
  BY <1>1 DEF ClaimInv, DeliveredIsSent, Owns
<1>3. RingingUnsaved(p) <=> drain[w].pc = "accepted"
  BY OwnerIsUnique DEF ClaimInv, ExclusiveDelivery, RingingUnsaved, InRequest
<1>4. accepted[p] = unsaved[p] + (IF RingingUnsaved(p) THEN 1 ELSE 0)
  BY <1>1, <1>2 DEF ClaimInv, RingsAccounted, TypeOK
<1>5. accepted[p] \in Nat /\ unsaved[p] \in Nat
  BY <1>1 DEF TypeOK
<1>6. QED
  BY <1>1, <1>2, <1>3, <1>4, <1>5 DEF Outcome, Owns, InRequest

(* Steps that ring nothing settle open sales as handled, or none at all.   *)
LEMMA HandlingStep ==
  ASSUME TypeOK, ClaimInv, UNCHANGED <<delivered, accepted, unsaved>>,
         \A p \in Payments :
           \/ alarm'[p].state = "sent" <=> alarm[p].state = "sent"
           \/ alarm'[p].state = "sent" /\ ~RingingUnsaved(p)
  PROVE  Ledger!Next
<1> DEFINE S == {p \in Payments : alarm[p].state # "sent" /\ alarm'[p].state = "sent"}
<1>1. ASSUME NEW p \in S PROVE Outcome[p] = "open" /\ accepted[p] = unsaved[p]
  <2>1. ~delivered[p] /\ ~RingingUnsaved(p)
    BY <1>1 DEF ClaimInv, DeliveredIsSent
  <2>2. QED
    BY <1>1, <2>1 DEF ClaimInv, RingsAccounted, TypeOK, Outcome
<1>2. Outcome' = [p \in Payments |-> IF p \in S THEN "handled" ELSE Outcome[p]]
  BY DEF Outcome, ClaimInv, DeliveredIsSent
<1>3. Ledger!Handle(S)
  BY <1>1, <1>2 DEF Ledger!Handle
<1>4. QED
  BY <1>3 DEF Ledger!Next

LEMMA DrainImplements ==
  ASSUME TypeOK, ClaimInv, NEW w \in Workers, DrainStep(w)
  PROVE  Ledger!Next
<1>1. PICK p : p = drain[w].job
  OBVIOUS
<1>2. CASE ProtectAccepts(w)
  <2>1. /\ InRequest(w) /\ drain[w].pc = "request"
        /\ accepted' = [accepted EXCEPT ![p] = @ + 1]
        /\ UNCHANGED <<alarm, delivered, unsaved>>
    BY <1>1, <1>2 DEF ProtectAccepts, InRequest
  <2>2. Outcome' = Outcome
    BY <2>1 DEF Outcome
  <2>3. Ledger!Ring(p) /\ p \in Payments
    BY <1>1, <2>1, <2>2, InFlightIsOpen DEF Ledger!Ring
  <2>4. QED
    BY <2>3 DEF Ledger!Next
<1>3. CASE MarkSent(w)
  <2>1. InRequest(w) /\ drain[w].pc = "accepted" /\ Owns(w, p)
    BY <1>1, <1>3 DEF MarkSent, InRequest, ClaimInv, RequestOwnsClaim
  <2>2. /\ alarm' = [alarm EXCEPT ![p] = Sent]
        /\ delivered' = [delivered EXCEPT ![p] = TRUE]
        /\ UNCHANGED <<accepted, unsaved>>
    BY <1>1, <1>3, <2>1 DEF MarkSent
  <2>3. p \in Payments /\ Ledger!Awaited(p)
    BY <1>1, <2>1, InFlightIsOpen DEF Ledger!Awaited
  <2>4. Outcome' = [Outcome EXCEPT ![p] = "rung"]
    BY <2>2, <2>3 DEF Outcome, Sent, TypeOK
  <2>5. Ledger!Confirm(p)
    BY <2>2, <2>3, <2>4 DEF Ledger!Confirm
  <2>6. QED
    BY <2>3, <2>5 DEF Ledger!Next
<1>4. CASE AnswerLost(w)
  <2>1. InRequest(w) /\ drain[w].pc = "accepted" /\ Owns(w, p)
    BY <1>1, <1>4 DEF AnswerLost, InRequest, ClaimInv, RequestOwnsClaim
  <2>2. /\ alarm' = [alarm EXCEPT ![p] = Idle]
        /\ unsaved' = [unsaved EXCEPT ![p] = @ + 1]
        /\ UNCHANGED <<accepted, delivered>>
    BY <1>1, <1>4, <2>1 DEF AnswerLost, ReleaseAndStop
  <2>3. p \in Payments /\ Ledger!Awaited(p)
    BY <1>1, <2>1, InFlightIsOpen DEF Ledger!Awaited
  <2>4. Outcome' = Outcome
    BY <2>1, <2>2, <2>3 DEF Outcome, Idle, Owns, TypeOK
  <2>5. Ledger!Lose({p})
    BY <2>2, <2>3, <2>4 DEF Ledger!Lose, TypeOK
  <2>6. QED
    BY <2>3, <2>5 DEF Ledger!Next
<1>5. CASE RequestFails(w)
  <2>1. InRequest(w) /\ p \in Payments /\ Owns(w, p)
    BY <1>1, <1>5 DEF RequestFails, InRequest, ClaimInv, RequestOwnsClaim
  <2>2. alarm' = [alarm EXCEPT ![p] = Idle] /\ UNCHANGED <<delivered, accepted, unsaved>>
    BY <1>1, <1>5, <2>1 DEF RequestFails, ReleaseAndStop
  <2>3. \A q \in Payments : alarm'[q].state = "sent" <=> alarm[q].state = "sent"
    BY <2>1, <2>2 DEF Idle, Owns, TypeOK
  <2>4. QED
    BY <2>2, <2>3, HandlingStep
<1>6. CASE \/ Scan(w) \/ ScanUnconfigured(w) \/ EndBatch(w)
           \/ \E q \in Payments : Claim(w, q)
  <2>1. \A q \in Payments : alarm'[q].state = "sent" <=> alarm[q].state = "sent"
    <3>1. CASE \E q \in Payments : Claim(w, q) /\ Pending(q)
      <4>1. PICK q \in Payments : Claim(w, q) /\ Pending(q)
        BY <3>1
      <4>2. alarm' = [Released EXCEPT ![q] = ClaimedBy(w)] /\ Released[q].state # "sent"
        BY <4>1 DEF Claim, Pending
      <4>3. QED
        BY <4>2, ReleasedKeeps DEF ClaimedBy, ClaimInv
    <3>2. CASE alarm' = Released \/ alarm' = alarm
      BY <3>2, ReleasedKeeps DEF ClaimInv
    <3>3. QED
      BY <1>6, <3>1, <3>2 DEF Scan, ScanUnconfigured, EndBatch, Claim
  <2>2. UNCHANGED <<delivered, accepted, unsaved>>
    BY <1>6 DEF Scan, ScanUnconfigured, EndBatch, Claim
  <2>3. QED
    BY <2>1, <2>2, HandlingStep
<1>7. QED
  BY <1>2, <1>3, <1>4, <1>5, <1>6 DEF DrainStep

LEMMA CrashImplements ==
  ASSUME TypeOK, ClaimInv, Crash
  PROVE  Ledger!Next
<1> DEFINE S == {p \in Payments : RingingUnsaved(p)}
<1>1. ASSUME NEW p \in S PROVE Ledger!Awaited(p)
  <2>1. PICK w \in Workers : drain[w].pc = "accepted" /\ drain[w].job = p
    BY <1>1 DEF RingingUnsaved
  <2>2. QED
    BY <2>1, InFlightIsOpen DEF InRequest, Ledger!Awaited
<1>2. unsaved' = [p \in Payments |-> IF p \in S THEN unsaved[p] + 1 ELSE unsaved[p]]
  BY DEF Crash
<1>3. Outcome' = Outcome /\ UNCHANGED accepted
  BY DEF Crash, Outcome
<1>4. Ledger!Lose(S)
  BY <1>1, <1>2, <1>3 DEF Ledger!Lose
<1>5. QED
  BY <1>4 DEF Ledger!Next

(* A sale is settled once, rings only while it is open and no earlier ring *)
(* is awaited, and is given up as handled only when none is: every step of *)
(* the drains, saves, upserts and crashes is one of the ledger's.          *)
THEOREM ImplementsLedger == Spec => LedgerSpec
<1>1. Init => Ledger!Init
  BY DEF Init, Ledger!Init, Outcome, Idle
<1>2. ASSUME TypeOK, FactsInv, GuardInv, ClaimInv, [Next]_vars
      PROVE  [Ledger!Next]_(Ledger!vars)
  <2>1. CASE Crash
    BY <1>2, <2>1, CrashImplements
  <2>2. ASSUME NEW w \in Workers, DrainStep(w) PROVE Ledger!Next
    BY <1>2, <2>2, DrainImplements
  <2>3. ASSUME NEW v \in versions, Ingest(v) PROVE Ledger!Next
    <3>1. ASSUME NEW p \in Payments, alarm'[p] # alarm[p]
          PROVE  alarm'[p].state = "sent" /\ ~RingingUnsaved(p)
      <4>1. Historical(v) /\ p = v.payment /\ alarm'[p] = Sent
        BY <1>2, <2>3, <3>1 DEF Ingest, TypeOK
      <4>2. ~Completed(p)
        BY <4>1 DEF Historical, Completed
      <4>3. QED
        BY <1>2, <4>1, <4>2 DEF Sent, RingingUnsaved, ClaimInv, RequestOwnsClaim, InRequest
    <3>2. QED
      BY <1>2, <2>3, <3>1, HandlingStep DEF Ingest
  <2>4. ASSUME NEW a \in Admins, AdminStep(a) PROVE Ledger!Next
    <3>1. CASE UNCHANGED alarm
      BY <1>2, <2>4, <3>1, HandlingStep
      DEF AdminStep, BeginSave, SaveConflict, SaveSameConsole, SaveNewConsole,
          WriteSettings, DisableAlarm, FinishSave, ClearForSwitch
    <3>2. CASE FinishSave(a) \/ \E submitted \in BOOLEAN : ClearForSwitch(a, submitted)
      <4>1. \A w \in Workers : ~InDrain(w)
        BY <1>2, <3>2 DEF FinishSave, ClearForSwitch, ExclusiveFree, GuardInv,
                          SavesExcludeDrains, Exclusive
      <4>2. \A p \in Payments : ~RingingUnsaved(p)
        BY <4>1 DEF RingingUnsaved, InDrain
      <4>3. alarm' = Suppressed /\ UNCHANGED <<delivered, accepted, unsaved>>
        BY <3>2 DEF FinishSave, ClearForSwitch
      <4>4. QED
        BY <1>2, <4>2, <4>3, HandlingStep DEF Suppressed, Sent
    <3>3. QED
      BY <2>4, <3>1, <3>2 DEF AdminStep, BeginSave, SaveConflict, SaveSameConsole,
                              SaveNewConsole, WriteSettings, DisableAlarm
  <2>5. CASE UNCHANGED <<alarm, delivered, accepted, unsaved>>
    BY <2>5 DEF Ledger!vars, Outcome
  <2>6. CASE ReadSummary
    BY <1>2, <2>6, HandlingStep, ReleasedKeeps DEF ReadSummary, ClaimInv
  <2>7. CASE Tick
    <3>1. \A p \in Payments : alarm'[p].state = alarm[p].state
      BY <1>2, <2>7 DEF Tick, TypeOK, AlarmRecord
    <3>2. QED
      BY <1>2, <2>7, <3>1, HandlingStep DEF Tick
  <2>8. QED
    BY <1>2, <2>1, <2>2, <2>3, <2>4, <2>5, <2>6, <2>7
    DEF Next, SquareStep, SquareOpens, SquareCompletes, SquareEdits, StartDrain
<1>3. QED
  BY <1>1, <1>2, Invariant, PTL DEF Spec, LedgerSpec, Ledger!Spec

-----------------------------------------------------------------------------
(* What it takes to replay a sale from before the activation: an edit of   *)
(* that sale by Square, or two crashes.                                    *)

(* Times of a sale: until Square edits it, its last update is its          *)
(* completion, and all its snapshots give it the same time.                *)
SaleTimes ==
  /\ \A p \in Payments :
       /\ square[p].status # "NONE" => square[p].ts <= square[p].updated
       /\ square[p].status = "COMPLETED" => square[p].ts <= square[p].completed
       /\ square[p].status = "COMPLETED" /\ square[p].edits = 0
            => square[p].updated = square[p].completed
       /\ square[p].edits <= MaxEdits
  /\ \A v \in versions : v.ts = square[v.payment].ts

OnWithBoundary == settings.on <=> settings.boundary # None

Open(p) == Completed(p) /\ alarm[p].state # "sent"

(* Between its two transactions a switch of the console leaves no sale.    *)
SwitchSettled == \A a \in Admins : admin[a].pc = "switch" => \A p \in Payments : ~Open(p)

Suppressing == \E a \in Admins : admin[a].pc = "suppress"

Recent(p) == settings.boundary # None /\ square[p].completed >= settings.boundary

(* An open sale that is not recent takes two of: the feature is off, a     *)
(* save is about to handle it, a crash has cut such a save short.          *)
OpenIsRecent ==
  \A p \in Payments : crashes <= 1 /\ square[p].edits = 0 /\ Open(p) =>
    \/ Recent(p)
    \/ settings.boundary = None /\ Suppressing
    \/ settings.boundary = None /\ crashes = 1
    \/ Suppressing /\ crashes = 1

CrashesBounded == crashes <= MaxCrashes

ReplayInv == SaleTimes /\ OnWithBoundary /\ SwitchSettled /\ OpenIsRecent /\ CrashesBounded

LEMMA SaleTimesStep ==
  ASSUME TypeOK, FactsInv, SaleTimes, [Next]_vars
  PROVE  SaleTimes'
<1> USE DEF TypeOK, SquareRecord, SnapshotRecord, Statuses
<1>1. ASSUME NEW p \in Payments, NEW status \in {"APPROVED", "COMPLETED"},
             SquareOpens(p, status)
      PROVE  SaleTimes'
  <2>1. \A v \in versions : v.payment # p
    BY <1>1 DEF FactsInv, SnapshotsOrdered, SquareOpens
  <2>2. \A v \in versions' : v.ts = square'[v.payment].ts
    BY <1>1, <2>1 DEF SaleTimes, SquareOpens, Snapshot
  <2>3. QED
    BY <1>1, <2>2 DEF SaleTimes, SquareOpens
<1>2. ASSUME NEW p \in Payments, SquareCompletes(p) PROVE SaleTimes'
  <2>1. \A v \in versions' : v.ts = square'[v.payment].ts
    BY <1>2 DEF SaleTimes, SquareCompletes, Snapshot
  <2>2. QED
    BY <1>2, <2>1 DEF SaleTimes, SquareCompletes
<1>3. ASSUME NEW p \in Payments, SquareEdits(p) PROVE SaleTimes'
  <2>1. \A v \in versions' : v.ts = square'[v.payment].ts
    BY <1>3 DEF SaleTimes, SquareEdits, Snapshot
  <2>2. QED
    BY <1>3, <2>1 DEF SaleTimes, SquareEdits
<1>4. CASE UNCHANGED <<square, versions>>
  BY <1>4 DEF SaleTimes
<1>5. QED
  BY <1>1, <1>2, <1>3, <1>4, FactsFrame DEF SquareStep, Ingest

LEMMA OnWithBoundaryStep ==
  ASSUME TypeOK, OnWithBoundary, [Next]_vars
  PROVE  OnWithBoundary'
<1>1. CASE UNCHANGED settings
  BY <1>1 DEF OnWithBoundary
<1>2. now # None
  BY DEF TypeOK
<1>3. ASSUME NEW a \in Admins, NEW submitted \in BOOLEAN, SaveSameConsole(a, submitted)
      PROVE  OnWithBoundary'
  <2>1. settings' = SavedSettings(admin[a].seen, submitted, FALSE) /\ settings = admin[a].seen
    BY <1>3 DEF SaveSameConsole, Unchanged, WriteSettings
  <2>2. /\ settings'.on <=> submitted \/ settings.on
        /\ Activated(settings, submitted, FALSE)
             <=> (submitted \/ settings.on) /\ (~ settings.on \/ settings.boundary = None)
        /\ settings'.boundary = IF Activated(settings, submitted, FALSE)
                                THEN now ELSE settings.boundary
    BY <2>1 DEF SavedSettings, Activated
  <2>3. settings.on <=> settings.boundary # None
    BY DEF OnWithBoundary
  <2>4. CASE Activated(settings, submitted, FALSE)
    <3>1. settings'.on /\ settings'.boundary = now
      BY <2>2, <2>4
    <3>2. QED
      BY <1>2, <3>1 DEF OnWithBoundary
  <2>5. CASE ~ Activated(settings, submitted, FALSE)
    <3>1. settings'.boundary = settings.boundary
      BY <2>2, <2>5
    <3>2. (submitted \/ settings.on) <=> settings.on
      BY <2>2, <2>3, <2>5
    <3>3. QED
      BY <2>2, <2>3, <3>1, <3>2 DEF OnWithBoundary
  <2>6. QED
    BY <2>4, <2>5
<1>4. ASSUME NEW a \in Admins, SaveNewConsole(a) PROVE OnWithBoundary'
  <2>1. settings' = SavedSettings(admin[a].seen, admin[a].submitted, TRUE)
    BY <1>4 DEF SaveNewConsole, WriteSettings
  <2>2. /\ settings'.on <=> admin[a].submitted
        /\ settings'.boundary = IF admin[a].submitted THEN now ELSE None
    BY <2>1, Zenon DEF SavedSettings, Activated
  <2>3. QED
    BY <1>2, <2>2 DEF OnWithBoundary
<1>5. ASSUME NEW a \in Admins, DisableAlarm(a) PROVE OnWithBoundary'
  BY <1>5 DEF OnWithBoundary, DisableAlarm, TypeOK, SettingsRecord
<1>6. QED
  BY <1>1, <1>3, <1>4, <1>5
  DEF Next, SquareStep, SquareOpens, SquareCompletes, SquareEdits, Ingest, StartDrain,
      DrainStep, Scan, ScanUnconfigured, Claim, EndBatch, ProtectAccepts, MarkSent,
      RequestFails, AnswerLost, ReadSummary, AdminStep, BeginSave, SaveConflict,
      ClearForSwitch, FinishSave, Tick, Crash

(* Steps that open no sale, and leave settings, saves and crashes alone.   *)
LEMMA NothingOpened ==
  ASSUME SwitchSettled, OpenIsRecent, UNCHANGED <<settings, crashes>>,
         \A p \in Payments :
           Open(p)' => Open(p) /\ (square'[p].edits = 0 => square'[p] = square[p]),
         \A a \in Admins : /\ admin'[a].pc = "switch" => admin[a].pc = "switch"
                           /\ admin[a].pc = "suppress" => admin'[a].pc = "suppress"
  PROVE  SwitchSettled' /\ OpenIsRecent'
<1>1. Suppressing => Suppressing'
  BY DEF Suppressing
<1>2. SwitchSettled'
  BY DEF SwitchSettled
<1>3. \A p \in Payments : square'[p].edits = 0 /\ Open(p)' =>
        /\ square[p].edits = 0 /\ Open(p)
        /\ Recent(p) => Recent(p)'
  BY DEF Recent
<1>4. OpenIsRecent'
  BY <1>1, <1>3 DEF OpenIsRecent
<1>5. QED
  BY <1>2, <1>4

(* A completed row is of a completed sale.                                 *)
LEMMA CompletedSale ==
  ASSUME TypeOK, FactsInv, NEW p \in Payments, Completed(p)
  PROVE  square[p].status = "COMPLETED" /\ square[p].completed \in Nat
<1>1. PICK v \in versions : v.payment = p /\ v.status = "COMPLETED"
  BY DEF FactsInv, RowIsSnapshot, Completed
<1>2. square[p].status = "COMPLETED"
  BY <1>1 DEF FactsInv, SnapshotsOrdered
<1>3. square[p].completed # None /\ square[p] \in SquareRecord
  BY <1>2 DEF FactsInv, CompletionKnown, TypeOK
<1>4. QED
  BY <1>2, <1>3 DEF SquareRecord

LEMMA SquareReplay ==
  ASSUME TypeOK, FactsInv, SwitchSettled, OpenIsRecent, NEW p \in Payments, SquareStep(p)
  PROVE  SwitchSettled' /\ OpenIsRecent'
<1>1. UNCHANGED <<row, alarm, settings, admin, crashes>>
  BY DEF SquareStep, SquareOpens, SquareCompletes, SquareEdits
<1>2. \A q \in Payments : q # p => square'[q] = square[q]
  BY DEF SquareStep, SquareOpens, SquareCompletes, SquareEdits, TypeOK
<1>3. ASSUME Open(p), square'[p].edits = 0 PROVE FALSE
  <2>1. square[p].status = "COMPLETED"
    BY <1>3, CompletedSale DEF Open
  <2>2. SquareEdits(p)
    BY <2>1 DEF SquareStep, SquareOpens, SquareCompletes
  <2>3. square'[p].edits = square[p].edits + 1 /\ square[p].edits \in Nat
    BY <2>2 DEF SquareEdits, TypeOK, SquareRecord
  <2>4. QED
    BY <1>3, <2>3
<1>4. \A q \in Payments : Open(q)' <=> Open(q)
  BY <1>1 DEF Open, Completed
<1>5. QED
  BY <1>1, <1>2, <1>3, <1>4, NothingOpened

(* An upsert leaves a sale open only if it completed after the activation. *)
LEMMA IngestReplay ==
  ASSUME TypeOK, FactsInv, SaleTimes, SwitchSettled, OpenIsRecent,
         NEW v \in versions, Ingest(v)
  PROVE  SwitchSettled' /\ OpenIsRecent'
<1> DEFINE p == v.payment
<1>1. /\ v \in SnapshotRecord /\ p \in Payments /\ settings \in SettingsRecord
      /\ square[p] \in SquareRecord
  BY DEF TypeOK, SnapshotRecord
<1>2. /\ UNCHANGED <<square, settings, admin, crashes>>
      /\ row' = [row EXCEPT ![p] = [status |-> v.status, ts |-> v.ts, updated |-> v.updated]]
      /\ alarm' = IF Historical(v) THEN [alarm EXCEPT ![p] = Sent] ELSE alarm
  BY DEF Ingest
<1>3. \A a \in Admins : admin[a].pc # "switch"
  BY DEF Ingest, SharedFree, Exclusive
<1>4. SwitchSettled'
  BY <1>2, <1>3 DEF SwitchSettled
<1>5. \A q \in Payments : Open(q)' /\ q # p => Open(q)
  BY <1>1, <1>2 DEF Open, Completed, TypeOK
<1>6. ASSUME Open(p)', square[p].edits = 0 PROVE Open(p) \/ Recent(p)
  <2>1. v.status = "COMPLETED" /\ ~ Historical(v) /\ alarm' = alarm
    BY <1>1, <1>2, <1>6 DEF Open, Completed, Sent, TypeOK
  <2>2. CASE Completed(p)
    BY <1>6, <2>1, <2>2 DEF Open
  <2>3. CASE ~ Completed(p)
    <3>1. /\ settings.boundary # None /\ ~ (CompletionReference(v) < settings.boundary)
          /\ settings.boundary \in Nat
      BY <1>1, <2>1, <2>3 DEF Historical, Completed, SettingsRecord
    <3>2. square[p].status = "COMPLETED" /\ v.updated <= square[p].updated
      BY <2>1 DEF FactsInv, SnapshotsOrdered
    <3>3. /\ square[p].updated = square[p].completed /\ v.ts = square[p].ts
          /\ square[p].ts <= square[p].completed
      BY <1>1, <1>6, <3>2 DEF SaleTimes
    <3>4. /\ v.updated \in Nat /\ v.ts \in Nat
          /\ square[p].updated \in Nat /\ square[p].ts \in Nat
      BY <1>1 DEF SnapshotRecord, SquareRecord
    <3>5. CompletionReference(v) \in {v.ts, v.updated}
      BY DEF CompletionReference
    <3> HIDE DEF p
    <3>6. square[p].completed >= settings.boundary
      BY <3>1, <3>2, <3>3, <3>4, <3>5
    <3>7. QED
      BY <3>1, <3>6 DEF Recent
  <2>4. QED
    BY <2>2, <2>3
<1> HIDE DEF p
<1>7. ASSUME NEW q \in Payments, crashes <= 1, square[q].edits = 0, Open(q)'
      PROVE  Open(q) \/ Recent(q)
  BY <1>5, <1>6, <1>7
<1>8. OpenIsRecent'
  <2>1. \A q \in Payments : Recent(q)' <=> Recent(q)
    BY <1>2 DEF Recent
  <2>2. Suppressing' <=> Suppressing
    BY <1>2 DEF Suppressing
  <2>3. QED
    BY <1>2, <1>7, <2>1, <2>2 DEF OpenIsRecent
<1>9. QED
  BY <1>4, <1>8

(* A drain opens no sale again.                                            *)
LEMMA DrainReplay ==
  ASSUME TypeOK, ClaimInv, SwitchSettled, OpenIsRecent, NEW w \in Workers, DrainStep(w)
  PROVE  SwitchSettled' /\ OpenIsRecent'
<1>1. UNCHANGED <<square, row, settings, admin, crashes>>
  BY DEF DrainStep, Scan, ScanUnconfigured, Claim, EndBatch, ProtectAccepts, MarkSent,
         RequestFails, AnswerLost
<1>2. \A p \in Payments : Released[p].state # "sent" => alarm[p].state # "sent"
  BY ReleasedKeeps DEF ClaimInv
<1>3. ASSUME NEW p \in Payments, alarm'[p].state # "sent" PROVE alarm[p].state # "sent"
  <2>1. CASE alarm' = alarm
    BY <1>3, <2>1
  <2>2. CASE alarm' = Released
    BY <1>2, <1>3, <2>2
  <2>3. ASSUME NEW q \in Payments, Pending(q), alarm' = [Released EXCEPT ![q] = ClaimedBy(w)]
        PROVE  alarm[p].state # "sent"
    <3>1. Released[q].state # "sent"
      BY <2>3 DEF Pending
    <3>2. CASE p = q
      BY <1>2, <3>1, <3>2
    <3>3. CASE p # q
      BY <1>2, <1>3, <2>3, <3>3, BulkUpdateType
    <3>4. QED
      BY <3>2, <3>3
  <2>4. CASE MarkSent(w)
    BY <1>3, <2>4 DEF MarkSent, Owns, TypeOK, Sent
  <2>5. CASE ReleaseAndStop(w)
    BY <1>3, <2>5 DEF ReleaseAndStop, Owns, TypeOK
  <2>6. QED
    BY <2>1, <2>2, <2>3, <2>4, <2>5
    DEF DrainStep, Scan, ScanUnconfigured, Claim, EndBatch, ProtectAccepts,
        RequestFails, AnswerLost
<1>4. \A p \in Payments : Open(p)' => Open(p)
  BY <1>1, <1>3 DEF Open, Completed
<1>5. QED
  BY <1>1, <1>4, NothingOpened

(* Handling every completed sale leaves none open.                         *)
LEMMA SuppressedSettles ==
  ASSUME alarm' = Suppressed, UNCHANGED row
  PROVE  (\A p \in Payments : ~ Open(p)') /\ SwitchSettled' /\ OpenIsRecent'
<1>1. ASSUME NEW p \in Payments PROVE ~ Open(p)'
  BY DEF Open, Completed, Suppressed, Sent
<1>2. SwitchSettled' /\ OpenIsRecent'
  BY <1>1 DEF SwitchSettled, OpenIsRecent
<1>3. QED
  BY <1>1, <1>2

(* What a save writes: open sales are recent, or about to be handled.      *)
LEMMA AdminReplay ==
  ASSUME TypeOK, GuardInv, OnWithBoundary, SwitchSettled, OpenIsRecent,
         NEW a \in Admins, AdminStep(a)
  PROVE  SwitchSettled' /\ OpenIsRecent'
<1>1. /\ UNCHANGED <<square, row, crashes>> /\ admin[a] \in SaveRecord
      /\ \A b \in Admins : b # a => admin'[b] = admin[b]
  BY DEF AdminStep, BeginSave, SaveConflict, ClearForSwitch, SaveSameConsole,
         SaveNewConsole, WriteSettings, DisableAlarm, FinishSave, TypeOK
<1>2. CASE FinishSave(a) \/ \E submitted \in BOOLEAN : ClearForSwitch(a, submitted)
  BY <1>1, <1>2, SuppressedSettles DEF FinishSave, ClearForSwitch
<1>3. CASE BeginSave(a)
  <2>1. admin'[a].pc = "verify" /\ admin[a].pc = "idle" /\ UNCHANGED <<alarm, settings>>
    BY <1>1, <1>3 DEF BeginSave, TypeOK, SaveRecord
  <2>2. \A p \in Payments : Open(p)' => Open(p)
    BY <1>1, <2>1 DEF Open, Completed
  <2>3. QED
    BY <1>1, <2>1, <2>2, NothingOpened
<1>4. CASE SaveConflict(a)
  <2>1. admin'[a].pc = "idle" /\ admin[a].pc = "verify" /\ UNCHANGED <<alarm, settings>>
    BY <1>4 DEF SaveConflict, TypeOK, NoSave
  <2>2. \A p \in Payments : Open(p)' => Open(p)
    BY <1>1, <2>1 DEF Open, Completed
  <2>3. QED
    BY <1>1, <2>1, <2>2, NothingOpened
<1>5. ASSUME NEW submitted \in BOOLEAN, SaveSameConsole(a, submitted)
      PROVE  SwitchSettled' /\ OpenIsRecent'
  <2>1. /\ settings' = SavedSettings(settings, submitted, FALSE) /\ UNCHANGED alarm
        /\ admin' = [admin EXCEPT ![a] = IF Activated(settings, submitted, FALSE)
                                         THEN [NoSave EXCEPT !.pc = "suppress"] ELSE NoSave]
        /\ \A b \in Admins : admin[b].pc \notin {"switch", "suppress"}
    BY <1>5 DEF SaveSameConsole, Unchanged, WriteSettings, ExclusiveFree, SharedFree,
                Exclusive
  <2>2. ~ Suppressing
    BY <2>1 DEF Suppressing
  <2>3. \A p \in Payments : Open(p)' <=> Open(p)
    BY <1>1, <2>1 DEF Open, Completed
  <2>4. SwitchSettled'
    BY <1>1, <2>1 DEF SwitchSettled, NoSave, TypeOK
  <2>5. CASE Activated(settings, submitted, FALSE)
    <3>1. Suppressing'
      BY <2>1, <2>5 DEF Suppressing, NoSave, TypeOK
    <3>2. settings.boundary = None
      BY <2>5 DEF Activated, OnWithBoundary
    <3>3. \A p \in Payments :
            crashes <= 1 /\ square[p].edits = 0 /\ Open(p) => crashes = 1
      BY <2>2, <3>2 DEF OpenIsRecent, Recent
    <3>4. QED
      BY <1>1, <2>3, <2>4, <3>1, <3>3 DEF OpenIsRecent
  <2>6. CASE ~ Activated(settings, submitted, FALSE)
    <3>1. settings'.boundary = settings.boundary
      BY <2>1, <2>6 DEF SavedSettings
    <3>2. \A p \in Payments : Recent(p)' <=> Recent(p)
      BY <1>1, <3>1 DEF Recent
    <3>3. QED
      BY <1>1, <2>2, <2>3, <2>4, <3>1, <3>2 DEF OpenIsRecent
  <2>7. QED
    BY <2>5, <2>6
<1>6. CASE SaveNewConsole(a)
  <2>1. admin[a].pc = "switch" /\ UNCHANGED alarm
    BY <1>6 DEF SaveNewConsole, WriteSettings
  <2>2. \A p \in Payments : ~ Open(p)'
    BY <1>1, <2>1 DEF SwitchSettled, Open, Completed
  <2>3. QED
    BY <2>2 DEF SwitchSettled, OpenIsRecent
<1>7. CASE DisableAlarm(a)
  <2>1. /\ settings'.boundary = None /\ admin'[a].pc = "suppress" /\ UNCHANGED alarm
        /\ \A b \in Admins : admin[b].pc # "switch"
    BY <1>1, <1>7 DEF DisableAlarm, ExclusiveFree, SharedFree, Exclusive, TypeOK,
                      SettingsRecord, SaveRecord
  <2>2. Suppressing'
    BY <2>1 DEF Suppressing
  <2>3. SwitchSettled'
    BY <1>1, <2>1 DEF SwitchSettled
  <2>4. QED
    BY <2>1, <2>2, <2>3 DEF OpenIsRecent
<1>8. QED
  BY <1>2, <1>3, <1>4, <1>5, <1>6, <1>7 DEF AdminStep

LEMMA CrashReplay ==
  ASSUME TypeOK, OpenIsRecent, Crash
  PROVE  SwitchSettled' /\ OpenIsRecent'
<1>1. /\ crashes' = crashes + 1 /\ crashes \in Nat
      /\ UNCHANGED <<square, row, alarm, settings>>
      /\ admin' = [a \in Admins |-> NoSave]
  BY DEF Crash, TypeOK
<1>2. \A a \in Admins : admin'[a].pc = "idle"
  BY <1>1 DEF NoSave
<1>3. SwitchSettled'
  BY <1>2 DEF SwitchSettled
<1>4. ASSUME NEW p \in Payments, crashes' <= 1, square[p].edits = 0, Open(p)'
      PROVE  Recent(p)' \/ (settings'.boundary = None /\ crashes' = 1)
  <2>1. crashes = 0 /\ crashes' = 1
    BY <1>1, <1>4
  <2>2. Open(p)
    BY <1>1, <1>4 DEF Open, Completed
  <2>3. Recent(p) \/ settings.boundary = None
    BY <1>4, <2>1, <2>2 DEF OpenIsRecent
  <2>4. Recent(p) => Recent(p)'
    BY <1>1 DEF Recent
  <2>5. QED
    BY <1>1, <2>1, <2>3, <2>4
<1>5. OpenIsRecent'
  BY <1>1, <1>4 DEF OpenIsRecent
<1>6. QED
  BY <1>3, <1>5

LEMMA CrashesCounted == ASSUME TypeOK, CrashesBounded, [Next]_vars PROVE CrashesBounded'
<1>1. CASE Crash
  BY <1>1 DEF Crash, CrashesBounded, TypeOK
<1>2. CASE UNCHANGED crashes
  BY <1>2 DEF CrashesBounded
<1>3. QED
  BY <1>1, <1>2
  DEF Next, SquareStep, SquareOpens, SquareCompletes, SquareEdits, Ingest, StartDrain,
      DrainStep, Scan, ScanUnconfigured, Claim, EndBatch, ProtectAccepts, MarkSent,
      RequestFails, AnswerLost, ReadSummary, AdminStep, BeginSave, SaveConflict,
      ClearForSwitch, SaveSameConsole, SaveNewConsole, WriteSettings, DisableAlarm,
      FinishSave, Tick

LEMMA ReplayStep ==
  ASSUME TypeOK, FactsInv, GuardInv, ClaimInv, ReplayInv, [Next]_vars
  PROVE  ReplayInv'
<1>1. SaleTimes' /\ OnWithBoundary' /\ CrashesBounded'
  BY SaleTimesStep, OnWithBoundaryStep, CrashesCounted DEF ReplayInv
<1>2. SaleTimes /\ OnWithBoundary /\ SwitchSettled /\ OpenIsRecent
  BY DEF ReplayInv
<1>3. ASSUME NEW p \in Payments, SquareStep(p) PROVE SwitchSettled' /\ OpenIsRecent'
  BY <1>2, <1>3, SquareReplay
<1>4. ASSUME NEW v \in versions, Ingest(v) PROVE SwitchSettled' /\ OpenIsRecent'
  BY <1>2, <1>4, IngestReplay
<1>5. ASSUME NEW w \in Workers, StartDrain(w) PROVE SwitchSettled' /\ OpenIsRecent'
  BY <1>2, <1>5, NothingOpened DEF StartDrain, Open, Completed
<1>6. ASSUME NEW w \in Workers, DrainStep(w) PROVE SwitchSettled' /\ OpenIsRecent'
  BY <1>2, <1>6, DrainReplay
<1>7. ASSUME ReadSummary PROVE SwitchSettled' /\ OpenIsRecent'
  <2>1. /\ alarm' = Released /\ UNCHANGED <<square, row, settings, admin, crashes>>
    BY <1>7 DEF ReadSummary
  <2>2. \A p \in Payments : Open(p)' => Open(p)
    BY <2>1, ReleasedKeeps DEF Open, Completed, ClaimInv
  <2>3. QED
    BY <1>2, <2>1, <2>2, NothingOpened
<1>8. ASSUME NEW a \in Admins, AdminStep(a) PROVE SwitchSettled' /\ OpenIsRecent'
  BY <1>2, <1>8, AdminReplay
<1>9. ASSUME Tick PROVE SwitchSettled' /\ OpenIsRecent'
  <2>1. UNCHANGED <<square, row, settings, admin, crashes>>
    BY <1>9 DEF Tick
  <2>2. \A p \in Payments : alarm'[p].state = alarm[p].state
    BY <1>9 DEF Tick, TypeOK, AlarmRecord
  <2>3. \A p \in Payments : Open(p)' => Open(p)
    BY <2>1, <2>2 DEF Open, Completed
  <2>4. QED
    BY <1>2, <2>1, <2>3, NothingOpened
<1>10. ASSUME Crash PROVE SwitchSettled' /\ OpenIsRecent'
  BY <1>2, <1>10, CrashReplay
<1>11. ASSUME UNCHANGED vars PROVE SwitchSettled' /\ OpenIsRecent'
  BY <1>2, <1>11, NothingOpened DEF Open, Completed
<1>12. QED
  BY <1>1, <1>3, <1>4, <1>5, <1>6, <1>7, <1>8, <1>9, <1>10, <1>11 DEF Next, ReplayInv

LEMMA ReplayInvariant == Spec => []ReplayInv
<1>1. Init => ReplayInv
  BY DEF Init, ReplayInv, SaleTimes, OnWithBoundary, SwitchSettled, OpenIsRecent, Open,
         Completed, CrashesBounded, NoSave
<1>2. TypeOK /\ FactsInv /\ GuardInv /\ ClaimInv /\ ReplayInv /\ [Next]_vars => ReplayInv'
  BY ReplayStep
<1>3. QED
  BY <1>1, <1>2, Invariant, PTL DEF Spec

(* Whoever rings for a sale from before the activation.                    *)
ReplaysExplained ==
  [][\A p \in Payments :
       accepted'[p] # accepted[p] /\ settings.boundary # None
         => \/ square[p].completed >= settings.boundary
            \/ square[p].edits > 0 \/ crashes > 1]_vars

LEMMA RingIsRecent ==
  ASSUME TypeOK, GuardInv, ClaimInv, ReplayInv, [Next]_vars,
         NEW p \in Payments, accepted'[p] # accepted[p], settings.boundary # None
  PROVE  \/ square[p].completed >= settings.boundary
         \/ square[p].edits > 0 \/ crashes > 1
<1>1. PICK w \in Workers : ProtectAccepts(w)
  BY DEF Next, SquareStep, SquareOpens, SquareCompletes, SquareEdits, Ingest,
         StartDrain, DrainStep, Scan, ScanUnconfigured, Claim, EndBatch, MarkSent,
         RequestFails, AnswerLost, ReadSummary, AdminStep, BeginSave, SaveConflict,
         ClearForSwitch, SaveSameConsole, SaveNewConsole, WriteSettings, DisableAlarm,
         FinishSave, Tick, Crash
<1>2. InRequest(w) /\ InDrain(w) /\ drain[w].job = p
  BY <1>1 DEF ProtectAccepts, InRequest, InDrain, TypeOK
<1>3. Open(p)
  BY <1>2 DEF ClaimInv, RequestOwnsClaim, Owns, Open
<1>4. ~ Suppressing
  BY <1>2 DEF GuardInv, SavesExcludeDrains, Exclusive, Suppressing
<1>5. crashes <= 1 /\ square[p].edits = 0 => Recent(p)
  BY <1>3, <1>4 DEF ReplayInv, OpenIsRecent
<1>6. crashes \in Nat /\ square[p].edits \in Nat
  BY DEF TypeOK, SquareRecord
<1>7. QED
  BY <1>5, <1>6 DEF Recent

(* The README's promise, and what it takes to break it: Protect rings for  *)
(* a sale completed before the alarms were activated only if Square edited *)
(* the sale, or if the program crashed twice.                              *)
THEOREM ReplaysNeedEditsOrCrashes == Spec => ReplaysExplained
<1> DEFINE Explained ==
      \A p \in Payments :
        accepted'[p] # accepted[p] /\ settings.boundary # None
          => \/ square[p].completed >= settings.boundary
             \/ square[p].edits > 0 \/ crashes > 1
<1>1. TypeOK /\ GuardInv /\ ClaimInv /\ ReplayInv /\ [Next]_vars => [Explained]_vars
  BY RingIsRecent
<1> HIDE DEF Explained
<1>2. Spec => [][Explained]_vars
  BY <1>1, Invariant, ReplayInvariant, PTL DEF Spec
<1>3. QED
  BY <1>2 DEF Explained, ReplaysExplained

(* Without edits, and with one crash at most, the promise holds.           *)
THEOREM PromiseKept ==
  ASSUME MaxEdits = 0, MaxCrashes <= 1
  PROVE  Spec => NeverReplayed
<1> DEFINE Recently ==
      \A p \in Payments :
        accepted'[p] # accepted[p] /\ settings.boundary # None
          => square[p].completed >= settings.boundary
<1>1. ASSUME TypeOK, GuardInv, ClaimInv, ReplayInv, [Next]_vars, NEW p \in Payments,
             accepted'[p] # accepted[p], settings.boundary # None
      PROVE  square[p].completed >= settings.boundary
  <2>1. crashes \in Nat /\ square[p].edits \in Nat
    BY <1>1 DEF TypeOK, SquareRecord
  <2>2. crashes <= MaxCrashes /\ square[p].edits <= MaxEdits
    BY <1>1 DEF ReplayInv, CrashesBounded, SaleTimes
  <2>3. ~ (square[p].edits > 0) /\ ~ (crashes > 1)
    BY <2>1, <2>2
  <2>4. QED
    BY <1>1, <2>3, RingIsRecent
<1>2. TypeOK /\ GuardInv /\ ClaimInv /\ ReplayInv /\ [Next]_vars => [Recently]_vars
  BY <1>1
<1> HIDE DEF Recently
<1>3. Spec => [][Recently]_vars
  BY <1>2, Invariant, ReplayInvariant, PTL DEF Spec
<1>4. QED
  BY <1>3 DEF Recently, NeverReplayed
=============================================================================
