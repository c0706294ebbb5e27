--------------------------- MODULE EvidenceProofs ---------------------------
(***************************************************************************)
(* Proofs about EvidencePipeline, for any number of payments, drains,      *)
(* cameras and files, and every bound: pictures are never exchanged,       *)
(* payments never forgotten, files never lost or left behind.              *)
(*                                                                         *)
(* A file name has one holder: the row that shows it, the drain that wrote *)
(* it, or the task that is about to delete it.  What happens to the file   *)
(* between the two steps of a capture, or of a deletion, is therefore the  *)
(* holder's business alone, except for a sweep; and a sweep excludes       *)
(* drains by the guard.                                                    *)
(***************************************************************************)
EXTENDS EvidencePipeline, TLAPS

USE NoneAssumption, LostAssumption, AnywhereAssumption, BoundsAssumption DEF removals

-----------------------------------------------------------------------------
(* What a row looks like; retired and foreign evidence has no file.        *)
RowShape(r) ==
  /\ ~r.present => r = Absent
  /\ r.present => r.ts \in Moments /\ r.source \in Sources
  /\ r.expired => r.path = None
  /\ r.foreign => r.path = None /\ r.camera = None

Rows == \A p \in Payments : RowShape(row[p])

(* A drain that works on a job has one, and a file once it is written.     *)
WorkerShape(k) ==
  /\ k.pc \in {"capture", "written", "discard", "failed"} => k.job \in Job
  /\ k.pc \in {"written", "discard"} <=> k.file # None

Working == \A w \in Workers : WorkerShape(worker[w])

(* The drain that wrote a file is the only one to hold it, and the picture *)
(* is the one of its job.                                                  *)
InHand(w) ==
  worker[w].file # None =>
    /\ ~Referenced(worker[w].file)
    /\ worker[w].file \notin unlinks \cup doomed
    /\ disk[worker[w].file] = worker[w].job

Holders ==
  /\ \A p, q \in Payments : row[p].path # None /\ row[p].path = row[q].path => p = q
  /\ \A v, w \in Workers : worker[v].file # None /\ worker[v].file = worker[w].file => v = w
  /\ \A w \in Workers : InHand(w)
  /\ \A f \in unlinks \cup doomed : ~Referenced(f)

(* The list a sweep goes by stays true until the sweep ends.               *)
Listed == spared = IF Sweeping THEN Named ELSE {}

(* Who deletes or retires holds the guard, and no drain is under way.      *)
GuardHeld == Exclusive => \A w \in Workers : ~InDrain(w)

IInv ==
  /\ TypeOK /\ Rows /\ Working /\ Holders /\ GuardHeld /\ Listed
  /\ PicturesMatch /\ QueueExact /\ NoStrayFiles

-----------------------------------------------------------------------------
(* The parts of the invariant that a step leaves alone.                    *)

LEMMA RowFields ==
  ASSUME NEW r \in RowRecord
  PROVE  /\ r.present \in BOOLEAN /\ r.ts \in Moments \cup {None}
         /\ r.source \in Sources \cup {None} /\ r.camera \in Cameras \cup {None}
         /\ r.path \in Names \cup {None} /\ r.expired \in BOOLEAN /\ r.foreign \in BOOLEAN
BY DEF RowRecord

(* The list of a sweep concerns nobody else's steps.                       *)
LEMMA ListKept ==
  ASSUME Listed, UNCHANGED <<spared, upkeep, clearing>>, UNCHANGED row \/ ~Exclusive
  PROVE  Listed'
BY DEF Listed, Sweeping, Exclusive, Named

(* Where a payment's camera comes from.                                    *)
LEMMA CameraType ==
  ASSUME TypeOK, NEW s \in Sources
  PROVE  CameraFor(s) \in Cameras \cup {None}
BY DEF TypeOK, CameraFor

LEMMA Constructed ==
  /\ Absent \in RowRecord /\ RowShape(Absent) /\ ~Runnable(Absent)
  /\ NotQueued \in RetryRecord /\ Fresh \in RetryRecord /\ BackedOff \in RetryRecord
  /\ Resting \in WorkerRecord /\ WorkerShape(Resting)
  /\ ~NotQueued.queued /\ Fresh.queued /\ BackedOff.queued
  /\ Resting.file = None /\ Resting.pc = "idle"
BY DEF Absent, RowRecord, RowShape, Runnable, NotQueued, Fresh, BackedOff, RetryRecord,
       Resting, WorkerRecord, WorkerShape, NoJob

LEMMA InitKeeps == Init => IInv
<1> SUFFICES ASSUME Init PROVE IInv
  OBVIOUS
<1>1. TypeOK
  BY Constructed DEF Init, TypeOK, UpkeepRecord
<1>2. Rows /\ Working /\ GuardHeld /\ Listed
  BY Constructed DEF Init, Rows, Working, GuardHeld, Exclusive, Listed, Sweeping
<1>3. \A p \in Payments : row[p].path = None
  BY DEF Init, Absent
<1>4. Holders
  BY <1>3, Constructed DEF Init, Holders, InHand
<1>5. PicturesMatch /\ NoStrayFiles
  BY <1>3 DEF Init, PicturesMatch, NoStrayFiles
<1>6. QueueExact
  BY Constructed DEF Init, QueueExact
<1>7. QED
  BY <1>1, <1>2, <1>4, <1>5, <1>6 DEF IInv

-----------------------------------------------------------------------------
(* upsert_payment.                                                         *)

(* The row an upsert writes keeps its file only with the same evidence.    *)
LEMMA RevisedRow ==
  ASSUME TypeOK, Rows, NEW p \in Payments, NEW ts \in Moments, NEW s \in Sources
  PROVE  /\ Revised(p, ts, s) \in RowRecord
         /\ RowShape(Revised(p, ts, s))
         /\ Revised(p, ts, s).path # None =>
              /\ Revised(p, ts, s).path = row[p].path
              /\ Revised(p, ts, s).camera = row[p].camera
              /\ Revised(p, ts, s).ts = row[p].ts
         /\ row[p].path # None /\ Revised(p, ts, s).path = None
              => row[p].path \in Superseded(p, ts, s)
         /\ Superseded(p, ts, s) \subseteq {row[p].path} \ {None}
         /\ Superseded(p, ts, s) # {} => Revised(p, ts, s).path = None
<1> DEFINE camera == MappedCamera(p, ts, s)
           new == Revised(p, ts, s)
<1>1. row[p] \in RowRecord /\ RowShape(row[p])
  BY DEF TypeOK, Rows
<1>2. camera \in Cameras \cup {None}
  BY <1>1, CameraType, RowFields DEF MappedCamera
<1>3. row[p].foreign => camera = None
  BY DEF MappedCamera, Preserves
<1>4. row[p].path # None => row[p].present /\ ~row[p].expired
  BY <1>1 DEF RowShape, Absent
<1>5. /\ new.present = TRUE /\ new.ts = ts /\ new.source = s /\ new.camera = camera
      /\ new.path = IF EvidenceChanged(p, ts, s) \/ row[p].expired THEN None ELSE row[p].path
      /\ new.expired = row[p].expired /\ new.foreign = row[p].foreign
  BY <1>1 DEF Revised, RowRecord
<1>6. new \in RowRecord
  BY <1>1, <1>2 DEF Revised, RowRecord
<1>7. RowShape(new)
  BY <1>1, <1>3, <1>5 DEF RowShape
<1>8. new.path # None => /\ new.path = row[p].path /\ camera = row[p].camera /\ ts = row[p].ts
  BY <1>4, <1>5 DEF EvidenceChanged
<1>9. row[p].path # None /\ new.path = None => row[p].path \in Superseded(p, ts, s)
  BY <1>4, <1>5 DEF Superseded
<1>10. /\ Superseded(p, ts, s) \subseteq {row[p].path} \ {None}
       /\ Superseded(p, ts, s) # {} => new.path = None
  BY <1>5 DEF Superseded
<1>11. QED
  BY <1>5, <1>6, <1>7, <1>8, <1>9, <1>10

LEMMA RequeuedRow ==
  ASSUME TypeOK, QueueExact, NEW p \in Payments, NEW ts \in Moments, NEW s \in Sources
  PROVE  /\ Requeued(p, ts, s) \in RetryRecord
         /\ Requeued(p, ts, s).queued <=> Runnable(Revised(p, ts, s))
BY Constructed DEF Requeued, TypeOK

LEMMA UpsertKeeps ==
  ASSUME IInv, NEW p \in Payments, NEW ts \in Moments, NEW s \in Sources,
         Upsert(p, ts, s), changes' \in Nat
  PROVE  IInv'
<1> DEFINE new == Revised(p, ts, s)
           gone == Superseded(p, ts, s)
<1>1. TypeOK /\ Rows /\ Working /\ Holders /\ GuardHeld /\ PicturesMatch /\ QueueExact
      /\ NoStrayFiles
  BY DEF IInv
<1>2. /\ new \in RowRecord /\ RowShape(new)
      /\ new.path # None => /\ new.path = row[p].path /\ new.camera = row[p].camera
                            /\ new.ts = row[p].ts
      /\ row[p].path # None /\ new.path = None => row[p].path \in gone
      /\ gone \subseteq {row[p].path} \ {None}
      /\ gone # {} => new.path = None
  BY <1>1, RevisedRow
<1>3. /\ row' = [row EXCEPT ![p] = new]
      /\ retry' = [retry EXCEPT ![p] = Requeued(p, ts, s)]
      /\ cleanup' = (cleanup \/ gone # {})
      /\ unlinks' = unlinks \cup gone
      /\ UNCHANGED <<cameraMap, disk, doomed, spared, worker, upkeep, clearing, crashes, stray>>
      /\ ~Exclusive
  BY DEF Upsert, SharedFree
<1>4. row \in [Payments -> RowRecord] /\ row[p].path \in Names \cup {None}
  BY <1>1, RowFields DEF TypeOK
<1>5. row'[p] = new /\ \A q \in Payments \ {p} : row'[q] = row[q]
  BY <1>3, <1>4
<1>6. TypeOK'
  BY <1>1, <1>2, <1>3, <1>4, RequeuedRow DEF TypeOK
<1>7. Rows'
  BY <1>1, <1>2, <1>5 DEF Rows
<1>8. Working' /\ GuardHeld' /\ Listed'
  <2>1. Working' /\ GuardHeld'
    BY <1>1, <1>3 DEF Working, GuardHeld, Exclusive, InDrain
  <2>2. Listed'
    BY <1>3, ListKept DEF IInv
  <2>3. QED
    BY <2>1, <2>2
<1>9. \A f : Referenced(f)' /\ f # None => Referenced(f)
  BY <1>2, <1>5 DEF Referenced
<1>10. \A f \in gone : f \in Names /\ Referenced(f) /\ ~Referenced(f)'
  <2>1. TAKE f \in gone
  <2>2. f = row[p].path /\ f # None /\ new.path = None
    BY <1>2
  <2>3. \A q \in Payments \ {p} : row[q].path # f
    BY <2>2, <1>1 DEF Holders
  <2>4. QED
    BY <2>2, <2>3, <1>4, <1>5 DEF Referenced
<1>11. Holders'
  <2>1. \A q, u \in Payments : row'[q].path # None /\ row'[q].path = row'[u].path => q = u
    BY <1>1, <1>2, <1>5 DEF Holders
  <2>2. \A w \in Workers : InHand(w)'
    BY <1>1, <1>3, <1>9, <1>10 DEF Holders, InHand
  <2>3. \A f \in unlinks' \cup doomed' : ~Referenced(f)'
    <3>1. \A f \in unlinks \cup doomed : f # None
      BY <1>1 DEF TypeOK
    <3>2. QED
      BY <3>1, <1>1, <1>3, <1>9, <1>10 DEF Holders
  <2>4. QED
    BY <2>1, <2>2, <2>3, <1>1, <1>3 DEF Holders
<1>12. PicturesMatch'
  BY <1>1, <1>2, <1>3, <1>5 DEF PicturesMatch, Missing
<1>13. QueueExact'
  BY <1>1, <1>3, <1>5, RequeuedRow DEF QueueExact, TypeOK
<1>14. NoStrayFiles'
  <2>1. SUFFICES ASSUME NEW f \in Names, disk[f] # None, ~cleanup, gone = {},
                        Referenced(f)
                 PROVE  Referenced(f)'
    BY <1>1, <1>3 DEF NoStrayFiles, InFlight
  <2>2. QED
    BY <2>1, <1>2, <1>5 DEF Referenced
<1>15. QED
  BY <1>6, <1>7, <1>8, <1>11, <1>12, <1>13, <1>14 DEF IInv

LEMMA PayStep ==
  ASSUME IInv, NEW p \in Payments, NEW ts \in Moments, NEW s \in Sources,
         Ingest(p, ts, s) \/ Repoll(p) \/ Edit(p, ts, s)
  PROVE  IInv'
<1>1. changes \in Nat
  BY DEF IInv, TypeOK
<1>2. CASE Ingest(p, ts, s)
  BY <1>1, <1>2, UpsertKeeps DEF Ingest
<1>3. CASE Repoll(p)
  <2>1. row[p].ts \in Moments /\ row[p].source \in Sources
    BY <1>3 DEF Repoll, IInv, Rows, RowShape
  <2>2. QED
    BY <1>1, <1>3, <2>1, UpsertKeeps DEF Repoll
<1>4. CASE Edit(p, ts, s)
  BY <1>1, <1>4, UpsertKeeps DEF Edit, Changed
<1>5. QED
  BY <1>2, <1>3, <1>4

-----------------------------------------------------------------------------
(* Drains.  Most of their steps touch neither the rows nor the files.      *)

LEMMA JobFields ==
  ASSUME NEW job \in Job
  PROVE  /\ job.payment \in Payments /\ job.camera # None
         /\ job = [payment |-> job.payment, camera |-> job.camera, ts |-> job.ts]
BY DEF Job

(* A step of the drains that keeps what they hold and what is queued.      *)
LEMMA QuietKeeps ==
  ASSUME IInv,
         UNCHANGED <<row, cameraMap, files, upkeep, clearing, ghosts>>,
         retry' \in [Payments -> RetryRecord],
         \A p \in Payments : retry'[p].queued = retry[p].queued,
         worker' \in [Workers -> WorkerRecord],
         \A w \in Workers :
           /\ WorkerShape(worker'[w])
           /\ worker'[w].file = worker[w].file
           /\ worker'[w].file # None => worker'[w].job = worker[w].job
           /\ Exclusive => worker'[w].pc = "idle"
  PROVE  IInv'
<1>1. TypeOK'
  BY DEF IInv, TypeOK, files, ghosts
<1>2. Rows' /\ Working' /\ GuardHeld' /\ Listed'
  BY ListKept DEF IInv, Rows, Working, GuardHeld, Exclusive, InDrain, files
<1>3. Holders'
  BY DEF IInv, Holders, InHand, Referenced, files
<1>4. PicturesMatch' /\ NoStrayFiles'
  BY DEF IInv, PicturesMatch, Missing, NoStrayFiles, Referenced, InFlight, files, ghosts
<1>5. QueueExact'
  BY DEF IInv, QueueExact
<1>6. QED
  BY <1>1, <1>2, <1>3, <1>4, <1>5 DEF IInv

(* The same for one drain, which does not idle unless it lets go.          *)
LEMMA QuietDrain ==
  ASSUME IInv, NEW w \in Workers, NEW k \in WorkerRecord,
         worker' = [worker EXCEPT ![w] = k],
         InDrain(w),
         WorkerShape(k), k.file = worker[w].file,
         k.file # None => k.job = worker[w].job,
         UNCHANGED <<row, cameraMap, files, upkeep, clearing, ghosts>>,
         retry' \in [Payments -> RetryRecord],
         \A p \in Payments : retry'[p].queued = retry[p].queued
  PROVE  IInv'
<1>1. worker \in [Workers -> WorkerRecord] /\ \A v \in Workers : WorkerShape(worker[v])
  BY DEF IInv, TypeOK, Working
<1>2. ~Exclusive
  BY DEF IInv, GuardHeld
<1>3. worker' \in [Workers -> WorkerRecord]
  BY <1>1
<1>4. \A v \in Workers :
        /\ WorkerShape(worker'[v])
        /\ worker'[v].file = worker[v].file
        /\ worker'[v].file # None => worker'[v].job = worker[v].job
  BY <1>1
<1>5. QED
  BY <1>2, <1>3, <1>4, QuietKeeps

LEMMA ClaimedDrain ==
  ASSUME NEW jobs \in SUBSET Job
  PROVE  LET k == [Resting EXCEPT !.pc = "next", !.jobs = jobs] IN
         k \in WorkerRecord /\ WorkerShape(k) /\ k.file = None
BY DEF Resting, WorkerRecord, WorkerShape

LEMMA ClaimKeeps ==
  ASSUME IInv, NEW w \in Workers, Claim(w)
  PROVE  IInv'
<1> PICK ids \in SUBSET {p \in Payments : Claimable(p)} :
      /\ retry' = [p \in Payments |->
                     IF p \in ids THEN [Fresh EXCEPT !.lease = w] ELSE retry[p]]
      /\ worker' = [worker EXCEPT ![w] =
           [Resting EXCEPT !.pc = "next", !.jobs =
              {[payment |-> p, camera |-> row[p].camera, ts |-> row[p].ts] : p \in ids}]]
  BY DEF Claim
<1> DEFINE jobs == {[payment |-> p, camera |-> row[p].camera, ts |-> row[p].ts] : p \in ids}
           k == [Resting EXCEPT !.pc = "next", !.jobs = jobs]
<1>1. UNCHANGED <<row, cameraMap, files, upkeep, clearing, ghosts>> /\ SharedFree /\ ~InDrain(w)
  BY DEF Claim
<1>2. /\ retry \in [Payments -> RetryRecord] /\ worker \in [Workers -> WorkerRecord]
      /\ row \in [Payments -> RowRecord] /\ QueueExact /\ Working /\ Rows
  BY DEF IInv, TypeOK
<1>3. \A p \in ids : p \in Payments /\ retry[p].queued /\ Runnable(row[p])
  BY DEF Claimable
<1>4. \A p \in ids : row[p].camera \in Cameras /\ row[p].ts \in Moments
  <2> TAKE p \in ids
  <2>1. row[p] \in RowRecord /\ RowShape(row[p]) /\ row[p].camera # None
    BY <1>2, <1>3 DEF Runnable, Rows
  <2>2. QED
    BY <2>1, RowFields DEF RowShape, Absent
<1>5. jobs \subseteq Job
  BY <1>3, <1>4 DEF Job
<1>6. worker' = [worker EXCEPT ![w] = k]
  OBVIOUS
<1> HIDE DEF jobs
<1>7. k \in WorkerRecord /\ WorkerShape(k) /\ k.file = None
  BY <1>5, ClaimedDrain
<1>8. [Fresh EXCEPT !.lease = w] \in RetryRecord /\ [Fresh EXCEPT !.lease = w].queued
  BY DEF Fresh, RetryRecord
<1>9. /\ retry' \in [Payments -> RetryRecord]
      /\ \A p \in Payments : retry'[p].queued = retry[p].queued
  BY <1>2, <1>3, <1>8 DEF RetryRecord
<1>10. worker[w].file = None
  BY <1>1, <1>2 DEF InDrain, Working, WorkerShape
<1> HIDE DEF k
<1>12. /\ worker' \in [Workers -> WorkerRecord]
       /\ \A v \in Workers :
            /\ WorkerShape(worker'[v])
            /\ worker'[v].file = worker[v].file
            /\ worker'[v].file # None => worker'[v].job = worker[v].job
  <2>1. worker[w].file = None /\ k.file = None
    BY <1>7, <1>10
  <2>2. \A v \in Workers : worker'[v] = IF v = w THEN k ELSE worker[v]
    BY <1>2, <1>6
  <2>3. worker' \in [Workers -> WorkerRecord]
    BY <1>2, <1>6, <1>7
  <2>4. QED
    BY <1>2, <1>7, <2>1, <2>2, <2>3 DEF Working
<1>13. QED
  BY <1>1, <1>9, <1>12, QuietKeeps DEF SharedFree

LEMMA TakeJobKeeps ==
  ASSUME IInv, NEW w \in Workers, NEW job \in worker[w].jobs, TakeJob(w, job)
  PROVE  IInv'
<1>1. worker[w] \in WorkerRecord /\ WorkerShape(worker[w])
  BY DEF IInv, TypeOK, Working
<1> DEFINE k == [worker[w] EXCEPT !.pc = "capture", !.job = job, !.jobs = @ \ {job}]
<1>2. /\ worker' = [worker EXCEPT ![w] = k]
      /\ worker[w].pc = "next"
      /\ UNCHANGED <<tables, files, upkeep, clearing, ghosts>>
  BY <1>1 DEF TakeJob, IInv, TypeOK
<1>3. /\ k \in WorkerRecord
      /\ k.pc = "capture" /\ k.job = job /\ k.file = worker[w].file /\ job \in Job
  BY <1>1 DEF WorkerRecord
<1>4. k.file = None
  BY <1>1, <1>2, <1>3 DEF WorkerShape
<1> HIDE DEF k
<1>5. WorkerShape(k)
  BY <1>3, <1>4 DEF WorkerShape
<1>6. retry' \in [Payments -> RetryRecord] /\ retry' = retry
  BY <1>2 DEF IInv, TypeOK, tables
<1>7. InDrain(w) /\ UNCHANGED <<row, cameraMap>>
  BY <1>2 DEF InDrain, tables
<1>8. QED
  BY <1>2, <1>3, <1>4, <1>5, <1>6, <1>7, QuietDrain

LEMMA EndBatchKeeps ==
  ASSUME IInv, NEW w \in Workers, EndBatch(w)
  PROVE  IInv'
<1>1. worker[w].file = None /\ InDrain(w)
  BY DEF EndBatch, IInv, Working, WorkerShape, InDrain
<1>2. /\ UNCHANGED <<row, retry, cameraMap, files, upkeep, clearing, ghosts>>
      /\ worker' = [worker EXCEPT ![w] = Resting]
  BY DEF EndBatch, tables
<1>3. retry' \in [Payments -> RetryRecord] /\ retry' = retry
  BY <1>2 DEF IInv, TypeOK
<1>4. QED
  BY <1>1, <1>2, <1>3, Constructed, QuietDrain

(* What NextJob leaves in a drain's hands: nothing.                        *)
LEMMA NextJobShape ==
  ASSUME TypeOK, NEW w \in Workers, NextJob(w)
  PROVE  \E k \in WorkerRecord :
           /\ worker' = [worker EXCEPT ![w] = k]
           /\ WorkerShape(k) /\ k.file = None /\ k.pc = "next"
<1> DEFINE k == [worker[w] EXCEPT !.pc = "next", !.job = NoJob, !.file = None]
<1>1. worker \in [Workers -> WorkerRecord]
  BY DEF TypeOK
<1>2. worker' = [worker EXCEPT ![w] = k]
  BY <1>1 DEF NextJob
<1>3. k \in WorkerRecord /\ k.file = None /\ k.pc = "next"
  BY <1>1 DEF WorkerRecord
<1>4. WorkerShape(k)
  BY <1>3 DEF WorkerShape
<1>5. QED
  BY <1>2, <1>3, <1>4

(* What a requeue writes is what the queue must hold anyway.               *)
LEMMA RequeueChangedKeeps ==
  ASSUME TypeOK, QueueExact, NEW p \in Payments, RequeueChanged(p)
  PROVE  /\ retry' \in [Payments -> RetryRecord]
         /\ \A q \in Payments : retry'[q].queued = retry[q].queued
BY Constructed DEF TypeOK, QueueExact, RequeueChanged, RetryRecord

LEMMA FailKeeps ==
  ASSUME IInv, NEW w \in Workers, Fail(w)
  PROVE  IInv'
<1> DEFINE job == worker[w].job
<1>1. TypeOK /\ QueueExact /\ WorkerShape(worker[w])
  BY DEF IInv, Working
<1>2. job \in Job /\ worker[w].file = None /\ InDrain(w)
  BY <1>1 DEF Fail, WorkerShape, InDrain
<1>3. SameEvidence(job) => Runnable(row[job.payment])
  BY <1>2, JobFields DEF SameEvidence, Runnable
<1>4. /\ retry' \in [Payments -> RetryRecord]
      /\ \A p \in Payments : retry'[p].queued = retry[p].queued
  <2>1. CASE ~Holds(w, job.payment)
    BY <1>1, <2>1 DEF Fail, TypeOK
  <2>2. CASE Holds(w, job.payment) /\ SameEvidence(job)
    <3>1. retry' = [retry EXCEPT ![job.payment] = BackedOff] /\ retry[job.payment].queued
      BY <2>2 DEF Fail, Holds
    <3>2. retry \in [Payments -> RetryRecord] /\ job.payment \in Payments
      BY <1>1, <1>2, JobFields DEF TypeOK
    <3>3. BackedOff \in RetryRecord /\ BackedOff.queued = TRUE
      BY DEF BackedOff, Fresh, RetryRecord
    <3>4. retry[job.payment].queued = TRUE
      BY <3>1, <3>2 DEF RetryRecord
    <3>5. QED
      BY <3>1, <3>2, <3>3, <3>4
  <2>3. CASE Holds(w, job.payment) /\ ~SameEvidence(job)
    BY <1>1, <1>2, <2>3, JobFields, RequeueChangedKeeps DEF Fail
  <2>4. QED
    BY <2>1, <2>2, <2>3
<1>5. PICK k \in WorkerRecord :
        /\ worker' = [worker EXCEPT ![w] = k]
        /\ WorkerShape(k) /\ k.file = None /\ k.pc = "next"
  BY <1>1, NextJobShape DEF Fail
<1>6. UNCHANGED <<row, cameraMap, files, upkeep, clearing, ghosts>>
  BY DEF Fail
<1>7. QED
  BY <1>2, <1>4, <1>5, <1>6, QuietDrain

LEMMA RejectKeeps ==
  ASSUME IInv, NEW w \in Workers, Reject(w)
  PROVE  IInv'
<1> DEFINE job == worker[w].job
           k == [worker[w] EXCEPT !.pc = "discard"]
<1>1. TypeOK /\ QueueExact /\ worker[w] \in WorkerRecord /\ WorkerShape(worker[w])
  BY DEF IInv, Working, TypeOK
<1>2. worker[w].pc = "written" /\ InDrain(w) /\ job \in Job /\ worker[w].file # None
  BY <1>1 DEF Reject, InDrain, WorkerShape
<1>3. /\ retry' \in [Payments -> RetryRecord]
      /\ \A p \in Payments : retry'[p].queued = retry[p].queued
  <2>1. CASE ~Holds(w, job.payment)
    BY <1>1, <2>1 DEF Reject, TypeOK
  <2>2. CASE Holds(w, job.payment)
    BY <1>1, <1>2, <2>2, JobFields, RequeueChangedKeeps DEF Reject
  <2>3. QED
    BY <2>1, <2>2
<1>4. /\ k \in WorkerRecord /\ k.pc = "discard"
      /\ k.file = worker[w].file /\ k.job = worker[w].job
  BY <1>1 DEF WorkerRecord
<1>5. worker' = [worker EXCEPT ![w] = k]
  BY <1>1 DEF Reject, TypeOK
<1>6. UNCHANGED <<row, cameraMap, files, upkeep, clearing, ghosts>>
  BY DEF Reject
<1> HIDE DEF k
<1>7. WorkerShape(k)
  BY <1>2, <1>4 DEF WorkerShape
<1>8. QED
  BY <1>2, <1>3, <1>4, <1>5, <1>6, <1>7, QuietDrain

LEMMA AbandonKeeps ==
  ASSUME IInv, NEW w \in Workers, Abandon(w)
  PROVE  IInv'
<1>1. worker[w].file = None /\ InDrain(w)
  BY DEF Abandon, IInv, Working, WorkerShape, InDrain
<1>2. retry \in [Payments -> RetryRecord]
  BY DEF IInv, TypeOK
<1>3. /\ retry' \in [Payments -> RetryRecord]
      /\ \A p \in Payments : retry'[p].queued = retry[p].queued
  <2>1. \A p \in Payments : /\ [retry[p] EXCEPT !.lease = Lost] \in RetryRecord
                           /\ [retry[p] EXCEPT !.lease = Lost].queued = retry[p].queued
    BY <1>2 DEF RetryRecord
  <2>2. QED
    BY <1>2, <2>1 DEF Abandon
<1>4. /\ UNCHANGED <<row, cameraMap, files, upkeep, clearing, ghosts>>
      /\ worker' = [worker EXCEPT ![w] = Resting]
  BY DEF Abandon
<1>5. QED
  BY <1>1, <1>3, <1>4, Constructed, QuietDrain

LEMMA TimerKeeps ==
  ASSUME IInv, NEW p \in Payments, LeaseExpires(p) \/ BackoffEnds(p)
  PROVE  IInv'
<1>1. retry \in [Payments -> RetryRecord] /\ worker \in [Workers -> WorkerRecord]
      /\ Working /\ GuardHeld
  BY DEF IInv, TypeOK
<1>2. /\ retry' \in [Payments -> RetryRecord]
      /\ \A q \in Payments : retry'[q].queued = retry[q].queued
  <2>1. /\ [retry[p] EXCEPT !.overdue = TRUE] \in RetryRecord
        /\ [retry[p] EXCEPT !.overdue = TRUE].queued = retry[p].queued
        /\ [retry[p] EXCEPT !.due = TRUE] \in RetryRecord
        /\ [retry[p] EXCEPT !.due = TRUE].queued = retry[p].queued
    BY <1>1 DEF RetryRecord
  <2>2. \/ retry' = [retry EXCEPT ![p] = [retry[p] EXCEPT !.overdue = TRUE]]
        \/ retry' = [retry EXCEPT ![p] = [retry[p] EXCEPT !.due = TRUE]]
    BY <1>1 DEF LeaseExpires, BackoffEnds
  <2>3. QED
    BY <1>1, <2>1, <2>2
<1>3. UNCHANGED <<row, cameraMap, files, upkeep, clearing, ghosts, worker>>
  BY DEF LeaseExpires, BackoffEnds
<1>4. \A w \in Workers : WorkerShape(worker[w]) /\ (Exclusive => worker[w].pc = "idle")
  BY <1>1 DEF Working, GuardHeld, InDrain
<1>5. QED
  BY <1>1, <1>2, <1>3, <1>4, QuietKeeps

-----------------------------------------------------------------------------
(* The steps of a drain that publish, attach and remove a file.            *)

LEMMA WriteFileKeeps ==
  ASSUME IInv, NEW w \in Workers, NEW f \in Names, WriteFile(w, f)
  PROVE  IInv'
<1> DEFINE job == worker[w].job
           k == [worker[w] EXCEPT !.pc = "written", !.file = f]
<1>1. TypeOK /\ Rows /\ Working /\ Holders /\ GuardHeld /\ PicturesMatch /\ NoStrayFiles
  BY DEF IInv
<1>2. /\ worker \in [Workers -> WorkerRecord] /\ disk \in [Names -> Job \cup {None}]
      /\ WorkerShape(worker[w])
  BY <1>1 DEF TypeOK, Working
<1>3. /\ worker[w].pc = "capture" /\ Unused(f) /\ disk' = [disk EXCEPT ![f] = job]
      /\ UNCHANGED <<row, retry, cameraMap, cleanup, removals, upkeep, clearing, ghosts>>
  BY DEF WriteFile, tables
<1>4. worker' = [worker EXCEPT ![w] = k]
  BY <1>2 DEF WriteFile
<1>5. /\ k \in WorkerRecord /\ k.pc = "written"
      /\ k.file = f /\ k.job = job /\ job \in Job
  BY <1>2, <1>3 DEF WorkerRecord, WorkerShape
<1>15. worker[w].file = None
  BY <1>2, <1>3 DEF WorkerShape
<1> HIDE DEF k
<1>6. WorkerShape(k)
  BY <1>5 DEF WorkerShape
<1>7. TypeOK'
  BY <1>1, <1>2, <1>3, <1>4, <1>5 DEF TypeOK, ghosts
<1>8. Rows' /\ Working' /\ GuardHeld' /\ QueueExact' /\ Listed'
  <2>1. ~Exclusive
    BY <1>1, <1>3 DEF GuardHeld, InDrain
  <2>2. ~Exclusive'
    BY <1>3, <2>1 DEF Exclusive
  <2>3. QED
    BY <1>1, <1>2, <1>3, <1>4, <1>6, <2>2, ListKept DEF IInv, Rows, Working, GuardHeld, QueueExact
<1>9. \A v \in Workers : worker'[v].file = IF v = w THEN f ELSE worker[v].file
  BY <1>2, <1>4, <1>5
<1>10. /\ ~Referenced(f) /\ f \notin unlinks \cup doomed
       /\ \A v \in Workers : worker[v].file # f
  BY <1>3 DEF Unused, InFlight
<1>11. Holders'
  <2>1. \A v \in Workers \ {w} : InHand(v)'
    <3>1. \A v \in Workers \ {w} : worker'[v] = worker[v]
      BY <1>2, <1>4
    <3>2. \A v \in Workers \ {w} : worker[v].file # None => disk'[worker[v].file] = disk[worker[v].file]
      BY <1>2, <1>3, <1>10
    <3>3. QED
      BY <1>1, <1>3, <3>1, <3>2 DEF Holders, InHand, Referenced
  <2>2. InHand(w)'
    BY <1>2, <1>3, <1>4, <1>5, <1>10 DEF InHand, Referenced
  <2>3. QED
    BY <1>1, <1>3, <1>9, <1>10, <2>1, <2>2 DEF Holders, Referenced
<1>12. PicturesMatch'
  BY <1>1, <1>2, <1>3, <1>10 DEF PicturesMatch, Missing, Referenced
<1>13. NoStrayFiles'
  <2>1. SUFFICES ASSUME NEW g \in Names, disk'[g] # None
                 PROVE  Referenced(g)' \/ InFlight(g)' \/ g \in stray' \/ cleanup'
    BY DEF NoStrayFiles
  <2>2. CASE g = f
    BY <2>2, <1>9 DEF InFlight
  <2>3. CASE g # f
    <3>1. disk[g] # None
      BY <1>2, <1>3, <2>1, <2>3
    <3>2. InFlight(g) => InFlight(g)'
      BY <1>9, <1>15 DEF InFlight
    <3>3. QED
      BY <1>1, <1>3, <3>1, <3>2 DEF NoStrayFiles, Referenced, ghosts
  <2>4. QED
    BY <2>2, <2>3
<1>14. QED
  BY <1>7, <1>8, <1>11, <1>12, <1>13 DEF IInv

(* A file that is published although its write failed is in no hand.       *)
LEMMA WriteFailsKeeps ==
  ASSUME IInv, NEW w \in Workers, NEW f \in Names, WriteFails(w, f)
  PROVE  IInv'
<1> DEFINE job == worker[w].job
           k == [worker[w] EXCEPT !.pc = "failed"]
<1>1. TypeOK /\ Rows /\ Working /\ Holders /\ GuardHeld /\ PicturesMatch /\ NoStrayFiles
  BY DEF IInv
<1>2. /\ worker \in [Workers -> WorkerRecord] /\ disk \in [Names -> Job \cup {None}]
      /\ WorkerShape(worker[w])
  BY <1>1 DEF TypeOK, Working
<1>3. /\ worker[w].pc = "capture" /\ Unused(f) /\ disk' = [disk EXCEPT ![f] = job]
      /\ stray' = stray \cup {f} /\ changes' = changes + 1
      /\ UNCHANGED <<row, retry, cameraMap, cleanup, removals, upkeep, clearing, crashes>>
  BY DEF WriteFails, tables, Changed
<1>4. worker' = [worker EXCEPT ![w] = k]
  BY <1>2 DEF WriteFails
<1>5. /\ k \in WorkerRecord /\ k.pc = "failed"
      /\ k.file = worker[w].file /\ k.job = job /\ job \in Job
  BY <1>2, <1>3 DEF WorkerRecord, WorkerShape
<1>6. worker[w].file = None
  BY <1>2, <1>3 DEF WorkerShape
<1> HIDE DEF k
<1>7. TypeOK'
  BY <1>1, <1>2, <1>3, <1>4, <1>5 DEF TypeOK
<1>8. Rows' /\ Working' /\ GuardHeld' /\ QueueExact' /\ Listed'
  <2>1. ~Exclusive
    BY <1>1, <1>3 DEF GuardHeld, InDrain
  <2>2. ~Exclusive'
    BY <1>3, <2>1 DEF Exclusive
  <2>3. WorkerShape(k)
    BY <1>5, <1>6 DEF WorkerShape
  <2>4. QED
    BY <1>1, <1>2, <1>3, <1>4, <2>2, <2>3, ListKept DEF IInv, Rows, Working, GuardHeld, QueueExact
<1>9. \A v \in Workers :
        /\ worker'[v].file = worker[v].file
        /\ worker[v].file # None => worker'[v] = worker[v]
  BY <1>2, <1>4, <1>5, <1>6
<1>10. ~Referenced(f) /\ \A v \in Workers : worker[v].file # f
  BY <1>3 DEF Unused, InFlight
<1>11. \A g \in Names \ {f} : disk'[g] = disk[g]
  BY <1>2, <1>3
<1>12. Holders'
  <2>1. \A v \in Workers : worker[v].file # None => worker[v].file \in Names \ {f}
    BY <1>2, <1>10 DEF WorkerRecord
  <2>2. \A v \in Workers : InHand(v)'
    BY <1>1, <1>3, <1>9, <1>11, <2>1 DEF Holders, InHand, Referenced
  <2>3. QED
    BY <1>1, <1>3, <1>9, <2>2 DEF Holders, Referenced
<1>13. PicturesMatch'
  BY <1>1, <1>2, <1>3, <1>10 DEF PicturesMatch, Missing, Referenced
<1>14. NoStrayFiles'
  BY <1>1, <1>3, <1>9, <1>11 DEF NoStrayFiles, Referenced, InFlight
<1>15. QED
  BY <1>7, <1>8, <1>12, <1>13, <1>14 DEF IInv

(* A drain that lets go of its file: the file is removed, or left behind.  *)
LEMMA DropKeeps ==
  ASSUME IInv, NEW w \in Workers, NEW k \in WorkerRecord,
         worker' = [worker EXCEPT ![w] = k],
         WorkerShape(k), k.file = None, InDrain(w),
         worker[w].file # None,
         LetGo(worker[w].file),
         UNCHANGED <<tables, cleanup, removals, upkeep, clearing, crashes>>
  PROVE  IInv'
<1> DEFINE f == worker[w].file
<1>1. TypeOK /\ Rows /\ Working /\ Holders /\ GuardHeld /\ PicturesMatch /\ NoStrayFiles
      /\ QueueExact
  BY DEF IInv
<1>2. worker \in [Workers -> WorkerRecord] /\ disk \in [Names -> Job \cup {None}]
  BY <1>1 DEF TypeOK
<1>3. f \in Names
  BY <1>2 DEF WorkerRecord
<1>4. /\ UNCHANGED <<row, retry, cameraMap, cleanup, unlinks, doomed>>
      /\ disk' \in [Names -> Job \cup {None}]
      /\ \A g \in Names \ {f} : disk'[g] = disk[g]
      /\ disk'[f] = None \/ (disk' = disk /\ f \in stray')
      /\ changes' \in Nat /\ stray' \subseteq Names /\ stray \subseteq stray'
  BY <1>1, <1>2, <1>3 DEF tables, Removed, LetGo, Changed, TypeOK
<1>5. TypeOK'
  BY <1>1, <1>2, <1>4 DEF TypeOK
<1>6. Rows' /\ QueueExact' /\ Listed'
  BY <1>1, <1>4, ListKept DEF Rows, QueueExact, IInv
<1>7. Working' /\ GuardHeld'
  BY <1>1, <1>2 DEF Working, GuardHeld, Exclusive, InDrain
<1>8. ~Referenced(f)
  BY <1>1 DEF Holders, InHand
<1>9. \A v \in Workers \ {w} : worker'[v] = worker[v] /\ (worker[v].file # None => worker[v].file # f)
  BY <1>1, <1>2 DEF Holders
<1>10. worker'[w].file = None
  BY <1>2
<1>11. Holders'
  <2>1. \A v \in Workers \ {w} : InHand(v)'
    <3>1. \A v \in Workers \ {w} : worker[v].file # None => worker[v].file \in Names \ {f}
      BY <1>2, <1>9 DEF WorkerRecord
    <3>2. QED
      BY <1>1, <1>4, <1>9, <3>1 DEF Holders, InHand, Referenced
  <2>2. InHand(w)'
    BY <1>10 DEF InHand
  <2>3. QED
    BY <1>1, <1>4, <1>9, <1>10, <2>1, <2>2 DEF Holders, Referenced
<1>12. PicturesMatch'
  <2>1. \A p \in Payments : row[p].path # None => row[p].path \in Names \ {f}
    BY <1>1, <1>8 DEF TypeOK, RowRecord, Referenced
  <2>2. QED
    BY <1>1, <1>4, <2>1 DEF PicturesMatch, Missing
<1>13. NoStrayFiles'
  <2>1. SUFFICES ASSUME NEW g \in Names, disk'[g] # None
                 PROVE  Referenced(g)' \/ InFlight(g)' \/ g \in stray' \/ cleanup'
    BY DEF NoStrayFiles
  <2>2. CASE g = f
    BY <1>4, <2>1, <2>2
  <2>3. CASE g # f
    <3>1. InFlight(g) => InFlight(g)'
      BY <1>9, <2>3 DEF InFlight
    <3>2. QED
      BY <1>1, <1>4, <2>1, <2>3, <3>1 DEF NoStrayFiles, Referenced
  <2>4. QED
    BY <2>2, <2>3
<1>14. QED
  BY <1>5, <1>6, <1>7, <1>11, <1>12, <1>13 DEF IInv

LEMMA DiscardKeeps ==
  ASSUME IInv, NEW w \in Workers, Discard(w)
  PROVE  IInv'
<1>1. TypeOK /\ WorkerShape(worker[w])
  BY DEF IInv, Working
<1>2. PICK k \in WorkerRecord :
        /\ worker' = [worker EXCEPT ![w] = k]
        /\ WorkerShape(k) /\ k.file = None /\ k.pc = "next"
  BY <1>1, NextJobShape DEF Discard
<1>3. worker[w].file # None /\ InDrain(w)
  BY <1>1 DEF Discard, WorkerShape, InDrain
<1>4. QED
  BY <1>2, <1>3, DropKeeps DEF Discard

LEMMA AttachErrorsKeeps ==
  ASSUME IInv, NEW w \in Workers, AttachErrors(w)
  PROVE  IInv'
<1> DEFINE k == [worker[w] EXCEPT !.pc = "failed", !.file = None]
<1>1. worker \in [Workers -> WorkerRecord] /\ WorkerShape(worker[w])
  BY DEF IInv, TypeOK, Working
<1>2. worker[w].pc = "written" /\ worker[w].file # None /\ worker[w].job \in Job /\ InDrain(w)
  BY <1>1 DEF AttachErrors, WorkerShape, InDrain
<1>3. worker' = [worker EXCEPT ![w] = k]
  BY <1>1 DEF AttachErrors
<1>4. k \in WorkerRecord /\ k.pc = "failed" /\ k.file = None /\ k.job = worker[w].job
  BY <1>1 DEF WorkerRecord
<1> HIDE DEF k
<1>5. WorkerShape(k)
  BY <1>2, <1>4 DEF WorkerShape
<1>6. QED
  BY <1>2, <1>3, <1>4, <1>5, DropKeeps DEF AttachErrors

LEMMA AttachKeeps ==
  ASSUME IInv, NEW w \in Workers, Attach(w)
  PROVE  IInv'
<1> DEFINE job == worker[w].job
           f == worker[w].file
           p == job.payment
           new == [row[p] EXCEPT !.path = f]
<1>1. TypeOK /\ Rows /\ Working /\ Holders /\ GuardHeld /\ PicturesMatch /\ NoStrayFiles
      /\ QueueExact
  BY DEF IInv
<1>2. /\ worker \in [Workers -> WorkerRecord] /\ WorkerShape(worker[w])
      /\ row \in [Payments -> RowRecord] /\ retry \in [Payments -> RetryRecord]
  BY <1>1 DEF TypeOK, Working
<1>3. /\ worker[w].pc = "written" /\ SameEvidence(job)
      /\ retry' = [retry EXCEPT ![p] = NotQueued]
      /\ UNCHANGED <<cameraMap, disk, cleanup, removals, upkeep, clearing, ghosts>>
  BY DEF Attach, Attaches, files
<1>4. job \in Job /\ f \in Names /\ f # None /\ InDrain(w)
  BY <1>2, <1>3 DEF WorkerShape, WorkerRecord, InDrain
<1>5. p \in Payments /\ job.camera # None
      /\ job = [payment |-> p, camera |-> job.camera, ts |-> job.ts]
  BY <1>4, JobFields
<1>6. /\ row[p].camera = job.camera /\ row[p].ts = job.ts
      /\ row[p].path = None /\ ~row[p].expired
  BY <1>3 DEF SameEvidence
<1>7. row' = [row EXCEPT ![p] = new]
  BY <1>2 DEF Attach
<1>8. /\ new \in RowRecord /\ new.path = f /\ new.camera = row[p].camera /\ new.ts = row[p].ts
      /\ new.expired = row[p].expired /\ new.foreign = row[p].foreign
      /\ new.present = row[p].present /\ new.source = row[p].source
  BY <1>2, <1>4, <1>5 DEF RowRecord
<1> HIDE DEF new
<1>9. RowShape(new)
  <2>1. RowShape(row[p])
    BY <1>1, <1>5 DEF Rows
  <2>2. row[p].present
    BY <2>1, <1>5, <1>6 DEF RowShape, Absent
  <2>3. QED
    BY <2>1, <2>2, <1>5, <1>6, <1>8 DEF RowShape
<1>10. row'[p] = new /\ \A q \in Payments \ {p} : row'[q] = row[q]
  BY <1>2, <1>5, <1>7
<1>11. PICK k \in WorkerRecord :
         /\ worker' = [worker EXCEPT ![w] = k]
         /\ WorkerShape(k) /\ k.file = None /\ k.pc = "next"
  BY <1>1, NextJobShape DEF Attach
<1>12. /\ ~Referenced(f) /\ f \notin unlinks \cup doomed /\ disk[f] = job
       /\ \A v \in Workers \ {w} : worker[v].file # f
  BY <1>1, <1>4 DEF Holders, InHand
<1>13. worker'[w].file = None /\ \A v \in Workers \ {w} : worker'[v] = worker[v]
  BY <1>2, <1>11
<1>14. TypeOK'
  BY <1>1, <1>2, <1>3, <1>5, <1>7, <1>8, <1>11, Constructed DEF TypeOK, ghosts
<1>15. Rows'
  BY <1>1, <1>9, <1>10 DEF Rows
<1>16. Working' /\ GuardHeld' /\ Listed'
  <2>1. ~Exclusive
    BY <1>1, <1>4 DEF GuardHeld
  <2>2. QED
    BY <1>1, <1>2, <1>3, <1>4, <1>11, <2>1, ListKept
       DEF IInv, Working, GuardHeld, Exclusive, InDrain
<1>17. \A g : Referenced(g)' /\ g # f => Referenced(g)
  BY <1>8, <1>10 DEF Referenced
<1>18. Holders'
  <2>1. \A q, u \in Payments : row'[q].path # None /\ row'[q].path = row'[u].path => q = u
    BY <1>1, <1>8, <1>10, <1>12 DEF Holders, Referenced
  <2>2. \A v \in Workers : InHand(v)'
    BY <1>1, <1>3, <1>12, <1>13, <1>17 DEF Holders, InHand
  <2>3. \A g \in unlinks' \cup doomed' : ~Referenced(g)'
    BY <1>1, <1>3, <1>12, <1>17 DEF Holders
  <2>4. \A u, v \in Workers : worker'[v].file # None /\ worker'[v].file = worker'[u].file => v = u
    BY <1>1, <1>13 DEF Holders
  <2>5. QED
    BY <2>1, <2>2, <2>3, <2>4 DEF Holders
<1>19. PicturesMatch'
  <2>1. disk'[f] = [payment |-> p, camera |-> row'[p].camera, ts |-> row'[p].ts]
    BY <1>3, <1>5, <1>6, <1>8, <1>10, <1>12
  <2>2. QED
    BY <2>1, <1>1, <1>3, <1>8, <1>10 DEF PicturesMatch, Missing
<1>20. QueueExact'
  BY <1>1, <1>2, <1>3, <1>4, <1>5, <1>8, <1>10, Constructed DEF QueueExact, Runnable
<1>21. NoStrayFiles'
  <2>1. \A g \in Names : Referenced(g) \/ g = f => Referenced(g)'
    BY <1>4, <1>5, <1>6, <1>8, <1>10 DEF Referenced
  <2>2. \A g \in Names : InFlight(g) /\ g # f => InFlight(g)'
    BY <1>13 DEF InFlight
  <2>3. QED
    BY <1>1, <1>3, <2>1, <2>2 DEF NoStrayFiles, ghosts
<1>22. QED
  BY <1>14, <1>15, <1>16, <1>18, <1>19, <1>20, <1>21 DEF IInv

LEMMA DrainKeeps ==
  ASSUME IInv, NEW w \in Workers, Claim(w) \/ DrainStep(w)
  PROVE  IInv'
BY ClaimKeeps, TakeJobKeeps, EndBatchKeeps, WriteFileKeeps, WriteFailsKeeps, AttachKeeps,
   RejectKeeps, DiscardKeeps, AttachErrorsKeeps, FailKeeps, AbandonKeeps DEF DrainStep

-----------------------------------------------------------------------------
(* Files that are deleted: by the task that replaced the picture, by an    *)
(* outsider, by a sweep.                                                   *)

(* A file nobody holds may go, whoever removes it.                         *)
LEMMA RemovalKeeps ==
  ASSUME IInv, NEW f \in Names,
         disk' = Removed(f) \/ disk' = disk,
         \A w \in Workers : worker[w].file # None => worker[w].file # f,
         UNCHANGED <<tables, cleanup, worker>>,
         unlinks' \subseteq unlinks, doomed' \subseteq doomed \cup unlinks, spared' = spared,
         stray' = stray \/ (stray' = stray \ {f} /\ disk' = Removed(f)),
         changes' \in Nat, crashes' \in Nat,
         upkeep' \in UpkeepRecord, clearing' = clearing,
         upkeep'.pc = upkeep.pc \/ (upkeep.pc = "unlink" /\ upkeep'.pc # "sweep")
  PROVE  IInv'
<1>1. TypeOK /\ Rows /\ Working /\ Holders /\ GuardHeld /\ PicturesMatch /\ NoStrayFiles
      /\ QueueExact /\ disk \in [Names -> Job \cup {None}]
  BY DEF IInv, TypeOK
<1>2. UNCHANGED <<row, retry, cameraMap, cleanup, worker>>
  BY DEF tables
<1>3. \A g \in Names : disk'[g] # None => disk'[g] = disk[g] /\ (g = f => disk' = disk)
  BY <1>1 DEF Removed
<1>4. \A g \in Names : g # f => disk'[g] = disk[g]
  BY <1>1 DEF Removed
<1>5. TypeOK'
  BY <1>1, <1>2 DEF TypeOK, Removed
<1>6. Rows' /\ Working' /\ QueueExact'
  BY <1>1, <1>2 DEF Rows, Working, QueueExact
<1>7. GuardHeld' /\ Listed'
  BY <1>1, <1>2 DEF IInv, GuardHeld, Exclusive, InDrain, Listed, Sweeping, Named
<1>8. Holders'
  <2>1. \A w \in Workers : worker[w].file # None =>
          worker[w].file \in Names /\ worker[w].file # f
    BY <1>1 DEF TypeOK, WorkerRecord
  <2>2. \A w \in Workers : InHand(w)'
    BY <1>1, <1>2, <1>4, <2>1 DEF Holders, InHand, Referenced
  <2>3. QED
    BY <1>1, <1>2, <2>2 DEF Holders, Referenced
<1>9. \A p \in Payments : row[p].path # None => row[p].path \in Names
  BY <1>1 DEF TypeOK, RowRecord
<1>10. PicturesMatch'
  BY <1>1, <1>2, <1>3, <1>9 DEF PicturesMatch, Missing
<1>11. NoStrayFiles'
  <2>1. SUFFICES ASSUME NEW g \in Names, disk'[g] # None
                 PROVE  Referenced(g) \/ InFlight(g) \/ g \in stray' \/ cleanup
    BY <1>2 DEF NoStrayFiles, Referenced, InFlight
  <2>2. g = f => disk' # Removed(f)
    BY <1>1, <2>1 DEF Removed
  <2>3. QED
    BY <1>1, <1>3, <2>1, <2>2 DEF NoStrayFiles
<1>12. QED
  BY <1>5, <1>6, <1>7, <1>8, <1>10, <1>11 DEF IInv

LEMMA UpkeepType ==
  ASSUME TypeOK
  PROVE  /\ upkeep.assets \in SUBSET (Payments \X Names)
         /\ \A pc \in {"idle", "retire", "unlink", "sweep"} :
              /\ [upkeep EXCEPT !.pc = pc] \in UpkeepRecord
              /\ [upkeep EXCEPT !.pc = pc].pc = pc
         /\ \A assets \in SUBSET (Payments \X Names) :
              /\ [upkeep EXCEPT !.assets = assets] \in UpkeepRecord
              /\ [upkeep EXCEPT !.assets = assets].pc = upkeep.pc
BY DEF TypeOK, UpkeepRecord

(* What is about to be deleted is in no drain's hand.                      *)
LEMMA UnlinkKeeps ==
  ASSUME IInv, NEW f \in Names, Unlink(f) \/ Erase(f)
  PROVE  IInv'
<1>1. TypeOK /\ Holders
  BY DEF IInv
<1>2. /\ f \in unlinks \cup doomed
      /\ unlinks' \subseteq unlinks /\ doomed' \subseteq doomed \cup unlinks
      /\ UNCHANGED <<tables, cleanup, spared, worker, clearing, ghosts>>
      /\ disk' = Removed(f) \/ disk' = disk
  BY DEF Unlink, Erase
<1>3. \A w \in Workers : worker[w].file # None => worker[w].file # f
  BY <1>1, <1>2 DEF Holders, InHand
<1>4. /\ upkeep' \in UpkeepRecord
      /\ upkeep'.pc = upkeep.pc \/ (upkeep.pc = "unlink" /\ upkeep'.pc # "sweep")
  <2>1. upkeep \in UpkeepRecord
    BY <1>1 DEF TypeOK
  <2>2. [pc |-> "idle", assets |-> {}] \in UpkeepRecord
    BY DEF UpkeepRecord
  <2>3. \/ upkeep' = upkeep
        \/ upkeep.pc = "unlink" /\ upkeep' = [upkeep EXCEPT !.pc = "retire"]
        \/ upkeep.pc = "unlink" /\ upkeep' = [pc |-> "idle", assets |-> {}]
    BY DEF Unlink, Erase, AfterUnlink
  <2>4. CASE upkeep' = [upkeep EXCEPT !.pc = "retire"] /\ upkeep.pc = "unlink"
    <3>1. upkeep' \in UpkeepRecord /\ upkeep'.pc = "retire"
      BY <1>1, <2>4, UpkeepType
    <3>2. QED
      BY <2>4, <3>1
  <2>5. CASE upkeep' = [pc |-> "idle", assets |-> {}] /\ upkeep.pc = "unlink"
    BY <2>2, <2>5
  <2>6. QED
    BY <2>1, <2>3, <2>4, <2>5
<1>5. changes' \in Nat /\ crashes' \in Nat /\ stray' = stray
  BY <1>1, <1>2 DEF TypeOK, ghosts
<1>6. QED
  BY <1>2, <1>3, <1>4, <1>5, RemovalKeeps

LEMMA VanishKeeps ==
  ASSUME IInv, NEW f \in Names, Vanish(f)
  PROVE  IInv'
<1>1. TypeOK /\ Holders
  BY DEF IInv
<1>2. /\ Referenced(f) /\ disk' = Removed(f)
      /\ UNCHANGED <<tables, cleanup, removals, worker, upkeep, clearing, crashes, stray>>
      /\ changes' = changes + 1
  BY DEF Vanish, Changed
<1>3. \A w \in Workers : worker[w].file # None => worker[w].file # f
  BY <1>1, <1>2 DEF Holders, InHand
<1>4. changes' \in Nat /\ crashes' \in Nat /\ upkeep' \in UpkeepRecord
  BY <1>1, <1>2 DEF TypeOK
<1>5. QED
  BY <1>2, <1>3, <1>4, RemovalKeeps

(* A sweep holds the guard exclusively: no drain has a file in hand.       *)
LEMMA ExclusiveHands ==
  ASSUME IInv, Exclusive \/ ExclusiveFree
  PROVE  \A w \in Workers : worker[w].file = None /\ ~InDrain(w)
BY DEF IInv, GuardHeld, ExclusiveFree, Working, WorkerShape, InDrain

LEMMA SweepKeeps ==
  ASSUME IInv, NEW f \in Names, Sweep(f)
  PROVE  IInv'
<1>1. TypeOK
  BY DEF IInv
<1>2. /\ Exclusive /\ disk' = Removed(f) /\ stray' = stray \ {f}
      /\ UNCHANGED <<tables, cleanup, removals, worker, upkeep, clearing, changes, crashes>>
  BY DEF Sweep, Sweeping, Exclusive
<1>3. \A w \in Workers : worker[w].file # None => worker[w].file # f
  BY <1>2, ExclusiveHands
<1>4. changes' \in Nat /\ crashes' \in Nat /\ upkeep' \in UpkeepRecord
  BY <1>1, <1>2 DEF TypeOK
<1>5. QED
  BY <1>2, <1>3, <1>4, RemovalKeeps

(* The end of a sweep takes the marker only when no file is left over.     *)
LEMMA EndSweepKeeps ==
  ASSUME IInv, Swept \/ SweepFails
  PROVE  IInv'
<1>1. TypeOK /\ Rows /\ Working /\ Holders /\ GuardHeld /\ PicturesMatch /\ NoStrayFiles
      /\ QueueExact
  BY DEF IInv
<1>2. /\ Sweeping /\ EndSweep /\ spared' = {}
      /\ UNCHANGED <<row, retry, cameraMap, disk, unlinks, doomed, worker, ghosts>>
      /\ cleanup' = cleanup \/ (cleanup' = FALSE /\ \A f \in Names : ~Orphan(f))
  BY DEF Swept, SweepFails, tables, EndSweep
<1>3. ~Exclusive' \/ (upkeep' = upkeep /\ clearing' = FALSE)
  <2>1. CASE upkeep.pc = "sweep"
    BY <1>1, <1>2, <2>1, UpkeepType DEF EndSweep, Exclusive
  <2>2. CASE upkeep.pc # "sweep"
    BY <1>2, <2>2 DEF EndSweep
  <2>3. QED
    BY <2>1, <2>2
<1>4. TypeOK' /\ GuardHeld' /\ Listed'
  <2>1. clearing' = FALSE /\ upkeep' \in UpkeepRecord
    BY <1>1, <1>2, UpkeepType DEF EndSweep, TypeOK
  <2>2. GuardHeld'
    BY <1>1, <1>2, <1>3, <2>1 DEF GuardHeld, Exclusive, InDrain
  <2>3. upkeep'.pc # "sweep"
    BY <1>1, <1>2, UpkeepType DEF EndSweep
  <2>4. QED
    BY <1>1, <1>2, <1>3, <2>1, <2>2, <2>3 DEF TypeOK, ghosts, Listed, Sweeping
<1>5. Rows' /\ Working' /\ Holders' /\ PicturesMatch' /\ QueueExact'
  BY <1>1, <1>2 DEF Rows, Working, Holders, InHand, Referenced, PicturesMatch, Missing, QueueExact
<1>6. NoStrayFiles'
  <2>1. spared = Named
    BY <1>2 DEF IInv, Listed
  <2>2. \A f \in Names : disk[f] # None /\ ~Orphan(f) => Referenced(f)
    BY <2>1 DEF Orphan, Named, Referenced
  <2>3. QED
    BY <1>1, <1>2, <2>2 DEF NoStrayFiles, Referenced, InFlight, ghosts
<1>7. QED
  BY <1>4, <1>5, <1>6 DEF IInv

(* The steps that only move run_thumbnail_maintenance along.               *)
LEMMA UpkeepStep ==
  ASSUME IInv, UNCHANGED <<tables, disk, cleanup, unlinks, doomed, worker, clearing, ghosts>>,
         upkeep' \in UpkeepRecord, Exclusive' => Exclusive \/ ExclusiveFree,
         Listed', spared' \subseteq Names
  PROVE  IInv'
<1>1. UNCHANGED <<row, retry, cameraMap, disk, cleanup, unlinks, doomed, worker, clearing,
                  changes, crashes, stray>>
  BY DEF tables, ghosts
<1>2. GuardHeld'
  BY <1>1, ExclusiveHands DEF GuardHeld, InDrain
<1>3. QED
  BY <1>1, <1>2 DEF IInv, TypeOK, Rows, Working, Holders, InHand, Referenced, PicturesMatch,
                    Missing, QueueExact, NoStrayFiles, InFlight

LEMMA UpkeepKeeps ==
  ASSUME IInv,
         StartUpkeep \/ EndUpkeep \/ \E asset \in upkeep.assets : PassOver(asset)
  PROVE  IInv'
<1>1. /\ TypeOK /\ Listed
      /\ UNCHANGED <<tables, disk, cleanup, unlinks, doomed, worker, clearing, ghosts>>
      /\ UNCHANGED row
  BY DEF IInv, StartUpkeep, EndUpkeep, PassOver, files, tables
<1>2. spared \subseteq Names /\ Named \subseteq Names /\ Named' = Named
  BY <1>1 DEF TypeOK, Named, RowRecord
<1>3. CASE StartUpkeep
  <2> DEFINE assets == {<<p, row[p].path>> : p \in {q \in Payments : row[q].path # None}}
  <2>1. \A p \in Payments : row[p].path \in Names \cup {None}
    BY <1>1 DEF TypeOK, RowRecord
  <2>2. assets \subseteq Payments \X Names
    BY <2>1
  <2>3. upkeep' = [pc |-> "retire", assets |-> assets] /\ upkeep.pc = "idle" /\ spared' = spared
    BY <1>3 DEF StartUpkeep, files
  <2>4. upkeep' \in UpkeepRecord /\ upkeep'.pc = "retire"
    BY <2>2, <2>3 DEF UpkeepRecord
  <2>5. (Exclusive' => Exclusive) /\ Listed'
    BY <1>1, <1>2, <2>3, <2>4 DEF Exclusive, Listed, Sweeping
  <2>6. QED
    BY <1>1, <1>2, <2>3, <2>4, <2>5, UpkeepStep
<1>4. CASE EndUpkeep
  <2>1. /\ upkeep' \in UpkeepRecord /\ upkeep'.pc = IF cleanup THEN "sweep" ELSE "idle"
        /\ upkeep.pc = "retire" /\ spared' = IF cleanup THEN Named ELSE spared
    BY <1>1, <1>4, UpkeepType DEF EndUpkeep
  <2>2. Exclusive' => Exclusive \/ ExclusiveFree
    BY <1>1, <1>4, <2>1 DEF Exclusive, EndUpkeep
  <2>3. Listed'
    BY <1>1, <1>2, <2>1 DEF Listed, Sweeping
  <2>4. QED
    BY <1>1, <1>2, <2>1, <2>2, <2>3, UpkeepStep
<1>5. CASE \E asset \in upkeep.assets : PassOver(asset)
  <2>1. upkeep' \in UpkeepRecord /\ upkeep'.pc = upkeep.pc /\ spared' = spared
    BY <1>1, <1>5, UpkeepType DEF PassOver, files
  <2>2. (Exclusive' => Exclusive) /\ Listed'
    BY <1>1, <1>2, <2>1 DEF Exclusive, Listed, Sweeping
  <2>3. QED
    BY <1>1, <1>2, <2>1, <2>2, UpkeepStep
<1>6. QED
  BY <1>3, <1>4, <1>5

-----------------------------------------------------------------------------
(* Rows that lose their picture, or the camera it was to come from.        *)
LEMMA RowsKeep ==
  ASSUME IInv,
         row' \in [Payments -> RowRecord], retry' \in [Payments -> RetryRecord],
         \A p \in Payments :
           /\ RowShape(row'[p])
           /\ row'[p].path # None => /\ row'[p].path = row[p].path
                                     /\ row'[p].camera = row[p].camera
                                     /\ row'[p].ts = row[p].ts
           /\ retry'[p].queued <=> Runnable(row'[p]),
         cameraMap' \in [Sources \cup {Anywhere} -> Cameras \cup {None}],
         disk' = disk, cleanup' \in BOOLEAN, upkeep' \in UpkeepRecord, clearing' \in BOOLEAN,
         changes' \in Nat, crashes' \in Nat, stray' \subseteq Names,
         worker' = worker \/ worker' = [w \in Workers |-> Resting],
         \/ unlinks' \subseteq unlinks /\ doomed' \subseteq doomed
         \/ /\ \A w \in Workers : worker[w].file = None
            /\ unlinks' \cup doomed' \subseteq Names
            /\ \A f \in unlinks' \cup doomed' : ~Referenced(f)',
         spared' \subseteq Names, Listed', GuardHeld', NoStrayFiles'
  PROVE  IInv'
<1>1. TypeOK /\ Rows /\ Working /\ Holders /\ PicturesMatch
  BY DEF IInv
<1>2. worker' \in [Workers -> WorkerRecord] /\ Working'
  BY <1>1, Constructed DEF TypeOK, Working
<1>3. TypeOK'
  BY <1>1, <1>2 DEF TypeOK
<1>4. Rows' /\ QueueExact'
  BY DEF Rows, QueueExact
<1>5. \A f : f # None /\ Referenced(f)' => Referenced(f)
  BY DEF Referenced
<1>6. Holders'
  <2>1. \A p, q \in Payments : row'[p].path # None /\ row'[p].path = row'[q].path => p = q
    BY <1>1 DEF Holders
  <2>2. \A v \in Workers : worker'[v].file # None => worker'[v] = worker[v]
    BY Constructed
  <2>3. \A v, w \in Workers : worker'[v].file # None /\ worker'[v].file = worker'[w].file => v = w
    BY <1>1, <2>2 DEF Holders
  <2>4. \A v \in Workers : InHand(v)'
    BY <1>1, <1>5, <2>2 DEF Holders, InHand
  <2>5. \A f \in unlinks' \cup doomed' : ~Referenced(f)'
    BY <1>1, <1>5 DEF Holders, TypeOK
  <2>6. QED
    BY <2>1, <2>3, <2>4, <2>5 DEF Holders
<1>7. PicturesMatch'
  BY <1>1 DEF PicturesMatch, Missing
<1>8. QED
  BY <1>2, <1>3, <1>4, <1>6, <1>7 DEF IInv

(* A row that shows a picture carries facts; retired evidence shows none.  *)
LEMMA ShownRow ==
  ASSUME IInv, NEW p \in Payments
  PROVE  /\ row[p] \in RowRecord /\ RowShape(row[p])
         /\ row[p].path # None => row[p].present /\ ~row[p].expired /\ ~row[p].foreign
         /\ row[p].present => row[p].source \in Sources
BY DEF IInv, TypeOK, Rows, RowShape, Absent

LEMMA RequeueMissingKeeps ==
  ASSUME IInv, NEW p \in Payments, RequeueMissing(p)
  PROVE  IInv'
<1> DEFINE camera == IF row[p].foreign THEN None ELSE CameraFor(row[p].source)
           new == [row[p] EXCEPT !.path = None, !.camera = camera]
<1>1. TypeOK /\ QueueExact /\ Working /\ NoStrayFiles /\ Rows /\ GuardHeld
  BY DEF IInv
<1>2. /\ Missing(p)
      /\ row' = [row EXCEPT ![p].path = None, ![p].camera = camera]
      /\ retry' = [retry EXCEPT ![p] = IF camera # None THEN Fresh ELSE NotQueued]
      /\ UNCHANGED <<cameraMap, files, worker, upkeep, clearing, ghosts>>
  BY DEF RequeueMissing
<1>3. row[p].present /\ ~row[p].expired /\ row[p].source \in Sources /\ row[p] \in RowRecord
  BY <1>2, ShownRow DEF Missing
<1>4. camera \in Cameras \cup {None}
  BY <1>1, <1>3, CameraType
<1>5. row \in [Payments -> RowRecord] /\ retry \in [Payments -> RetryRecord]
  BY <1>1 DEF TypeOK
<1>6. row' = [row EXCEPT ![p] = new]
  BY <1>2, <1>5
<1>7. row[p].foreign => camera = None
  OBVIOUS
<1> HIDE DEF camera
<1>8. /\ new \in RowRecord /\ new.path = None /\ new.camera = camera
      /\ new.present = row[p].present /\ new.ts = row[p].ts /\ new.source = row[p].source
      /\ new.expired = row[p].expired /\ new.foreign = row[p].foreign
  BY <1>3, <1>4 DEF RowRecord
<1> HIDE DEF new
<1>9. RowShape(new)
  BY <1>3, <1>7, <1>8, ShownRow DEF RowShape
<1>10. row'[p] = new /\ \A q \in Payments \ {p} : row'[q] = row[q]
  BY <1>5, <1>6
<1>11. row' \in [Payments -> RowRecord] /\ retry' \in [Payments -> RetryRecord]
  BY <1>2, <1>5, <1>6, <1>8, Constructed
<1>12. \A q \in Payments :
         /\ RowShape(row'[q])
         /\ row'[q].path # None => /\ row'[q].path = row[q].path
                                   /\ row'[q].camera = row[q].camera
                                   /\ row'[q].ts = row[q].ts
         /\ retry'[q].queued <=> Runnable(row'[q])
  <2>1. RowShape(row'[p]) /\ row'[p].path = None /\ (retry'[p].queued <=> Runnable(row'[p]))
    BY <1>2, <1>3, <1>5, <1>8, <1>9, <1>10, Constructed DEF Runnable
  <2>2. \A q \in Payments \ {p} : RowShape(row[q]) /\ (retry'[q].queued <=> Runnable(row[q]))
    BY <1>1, <1>2, <1>5 DEF QueueExact, Rows
  <2>3. QED
    BY <1>10, <2>1, <2>2
<1>13. /\ GuardHeld' /\ UNCHANGED <<disk, unlinks, doomed, spared, cleanup>>
       /\ UNCHANGED <<stray, changes, crashes>>
  BY <1>1, <1>2 DEF GuardHeld, Exclusive, InDrain, files, ghosts
<1>16. Listed'
  BY <1>2, <1>13, ListKept DEF IInv, RequeueMissing, SharedFree
<1>14. NoStrayFiles'
  <2>1. \A f \in Names : disk[f] # None /\ Referenced(f) => Referenced(f)'
    BY <1>2, <1>10 DEF Referenced, Missing
  <2>2. QED
    BY <1>1, <1>2, <1>13, <2>1 DEF NoStrayFiles, InFlight
<1>15. QED
  BY <1>1, <1>2, <1>11, <1>12, <1>13, <1>14, <1>16, RowsKeep DEF TypeOK

(* replace_camera_mappings: only payments without a picture are concerned. *)
LEMMA RetargetedRow ==
  ASSUME IInv, NEW map \in [Sources \cup {Anywhere} -> Cameras \cup {None}],
         NEW p \in Payments, Retargets(map, p)
  PROVE  LET new == [row[p] EXCEPT !.camera = Retargeted(map, p)] IN
         /\ new \in RowRecord /\ RowShape(new) /\ new.path = None
         /\ Runnable(new) <=> Retargeted(map, p) # None
<1> DEFINE new == [row[p] EXCEPT !.camera = Retargeted(map, p)]
<1>1. /\ row[p] \in RowRecord /\ RowShape(row[p]) /\ row[p].present
      /\ row[p].path = None /\ ~row[p].expired /\ ~row[p].foreign /\ row[p].source \in Sources
  BY ShownRow DEF Retargets
<1>2. Retargeted(map, p) \in Cameras \cup {None}
  BY <1>1 DEF Retargeted
<1>3. /\ new \in RowRecord /\ new.path = row[p].path /\ new.camera = Retargeted(map, p)
      /\ new.present = row[p].present /\ new.ts = row[p].ts /\ new.source = row[p].source
      /\ new.expired = row[p].expired /\ new.foreign = row[p].foreign
  BY <1>1, <1>2 DEF RowRecord
<1> HIDE DEF new
<1>4. RowShape(new) /\ (Runnable(new) <=> Retargeted(map, p) # None)
  BY <1>1, <1>3 DEF RowShape, Runnable
<1>5. QED
  BY <1>1, <1>3, <1>4 DEF new

LEMMA ReplaceMappingsKeeps ==
  ASSUME IInv, NEW map \in [Sources \cup {Anywhere} -> Cameras \cup {None}],
         ReplaceMappings(map)
  PROVE  IInv'
<1> DEFINE new(p) == [row[p] EXCEPT !.camera = Retargeted(map, p)]
<1>1. TypeOK /\ QueueExact /\ Working /\ NoStrayFiles /\ Rows /\ GuardHeld
  BY DEF IInv
<1>2. /\ cameraMap' = map
      /\ changes' = changes + 1
      /\ row' = [p \in Payments |-> IF Retargets(map, p) THEN new(p) ELSE row[p]]
      /\ retry' = [p \in Payments |->
                     IF ~Retargets(map, p) THEN retry[p]
                     ELSE IF Retargeted(map, p) # None THEN Fresh ELSE NotQueued]
      /\ UNCHANGED <<files, worker, upkeep, clearing, crashes, stray>>
  BY DEF ReplaceMappings, Changed
<1>3. \A p \in Payments : Retargets(map, p) =>
        /\ new(p) \in RowRecord /\ RowShape(new(p)) /\ new(p).path = None
        /\ Runnable(new(p)) <=> Retargeted(map, p) # None
  BY RetargetedRow
<1> HIDE DEF new
<1>4. row \in [Payments -> RowRecord] /\ retry \in [Payments -> RetryRecord]
  BY <1>1 DEF TypeOK
<1>5. row' \in [Payments -> RowRecord] /\ retry' \in [Payments -> RetryRecord]
  BY <1>2, <1>3, <1>4, Constructed
<1>6. \A q \in Payments :
         /\ RowShape(row'[q])
         /\ row'[q].path # None => /\ row'[q].path = row[q].path
                                   /\ row'[q].camera = row[q].camera
                                   /\ row'[q].ts = row[q].ts
         /\ retry'[q].queued <=> Runnable(row'[q])
  BY <1>1, <1>2, <1>3, Constructed DEF QueueExact, Rows
<1>7. GuardHeld' /\ UNCHANGED <<disk, unlinks, doomed, spared, cleanup, stray, crashes>>
  BY <1>1, <1>2 DEF GuardHeld, Exclusive, InDrain, files
<1>11. Listed'
  BY <1>2, <1>7, ListKept DEF IInv, ReplaceMappings, ExclusiveFree, SharedFree
<1>8. NoStrayFiles'
  <2>1. \A f \in Names : Referenced(f) => Referenced(f)'
    <3>1. \A p \in Payments : row[p].path \in Names => row'[p].path = row[p].path
      BY <1>2 DEF Retargets
    <3>2. QED
      BY <3>1 DEF Referenced
  <2>2. QED
    BY <1>1, <1>2, <1>7, <2>1 DEF NoStrayFiles, InFlight
<1>9. changes' \in Nat
  BY <1>1, <1>2 DEF TypeOK
<1>10. QED
  BY <1>1, <1>2, <1>5, <1>6, <1>7, <1>8, <1>9, <1>11, RowsKeep DEF TypeOK

LEMMA SwitchKeeps ==
  ASSUME IInv, SwitchConsole \/ SwitchMerchant
  PROVE  IInv'
<1>1. TypeOK /\ Rows
  BY DEF IInv
<1>2. /\ ExclusiveFree
      /\ cameraMap' = NoMap /\ cleanup' = TRUE /\ clearing' = TRUE /\ changes' = changes + 1
      /\ retry' = [p \in Payments |-> NotQueued]
      /\ UNCHANGED <<disk, unlinks, doomed, spared, worker, upkeep, crashes, stray>>
  BY DEF SwitchConsole, SwitchMerchant, Changed
<1>3. \A p \in Payments : row[p].present =>
        LET new == [row[p] EXCEPT !.camera = None, !.path = None, !.foreign = TRUE] IN
        new \in RowRecord /\ RowShape(new) /\ new.path = None /\ ~Runnable(new)
  <2> TAKE p \in Payments
  <2> HAVE row[p].present
  <2> DEFINE new == [row[p] EXCEPT !.camera = None, !.path = None, !.foreign = TRUE]
  <2>1. row[p] \in RowRecord /\ RowShape(row[p])
    BY ShownRow
  <2>2. /\ new \in RowRecord /\ new.path = None /\ new.camera = None /\ new.foreign = TRUE
        /\ new.present = row[p].present /\ new.ts = row[p].ts /\ new.source = row[p].source
        /\ new.expired = row[p].expired
    BY <2>1 DEF RowRecord
  <2> HIDE DEF new
  <2>3. RowShape(new) /\ ~Runnable(new)
    BY <2>1, <2>2 DEF RowShape, Runnable
  <2>4. QED
    BY <2>2, <2>3 DEF new
<1>4. \A p \in Payments : ~row[p].present => row[p] = Absent
  BY <1>1 DEF Rows, RowShape
<1>5. /\ row' \in [Payments -> RowRecord]
      /\ \A p \in Payments : RowShape(row'[p]) /\ row'[p].path = None /\ ~Runnable(row'[p])
  <2>1. Absent.path = None
    BY DEF Absent
  <2>2. CASE SwitchConsole
    BY <1>3, <1>4, <2>1, <2>2, Constructed DEF SwitchConsole
  <2>3. CASE SwitchMerchant
    BY <2>1, <2>3, Constructed DEF SwitchMerchant
  <2>4. QED
    BY <2>2, <2>3
<1>6. GuardHeld' /\ NoStrayFiles'
  BY <1>2, ExclusiveHands DEF GuardHeld, InDrain, NoStrayFiles
<1>7. NoMap \in [Sources \cup {Anywhere} -> Cameras \cup {None}]
  BY DEF NoMap
<1>8. retry' \in [Payments -> RetryRecord] /\ \A p \in Payments : ~retry'[p].queued
  BY <1>2, Constructed
<1>9. changes' \in Nat /\ spared' \subseteq Names
  BY <1>1, <1>2 DEF TypeOK
<1>10. Listed'
  <2>1. Named' = {} /\ Sweeping'
    BY <1>2, <1>5 DEF Named, Sweeping
  <2>2. spared = {}
    BY <1>2 DEF IInv, Listed, Sweeping, ExclusiveFree, SharedFree, Exclusive
  <2>3. QED
    BY <1>2, <2>1, <2>2 DEF Listed
<1>11. QED
  BY <1>1, <1>2, <1>5, <1>6, <1>7, <1>8, <1>9, <1>10, RowsKeep DEF TypeOK

LEMMA RetireKeeps ==
  ASSUME IInv, NEW asset \in upkeep.assets, Retire(asset[1], asset[2])
  PROVE  IInv'
<1> DEFINE p == asset[1]
           f == asset[2]
           new == [row[p] EXCEPT !.path = None, !.expired = TRUE]
<1>1. TypeOK /\ Rows /\ QueueExact /\ Holders
  BY DEF IInv
<1>2. p \in Payments /\ f \in Names /\ upkeep.assets \in SUBSET (Payments \X Names)
  BY <1>1, UpkeepType
<1>3. /\ ExclusiveFree /\ row[p].path = f
      /\ row' = [row EXCEPT ![p].path = None, ![p].expired = TRUE]
      /\ retry' = [retry EXCEPT ![p] = NotQueued]
      /\ cleanup' = TRUE /\ unlinks' = {f}
      /\ upkeep' = [pc |-> "unlink", assets |-> upkeep.assets \ {<<p, f>>}]
      /\ UNCHANGED <<cameraMap, disk, doomed, spared, worker, clearing, ghosts>>
  BY DEF Retire
<1> HIDE DEF p, f
<1>4. f # None /\ row[p] \in RowRecord /\ RowShape(row[p]) /\ row[p].present
  BY <1>2, <1>3, ShownRow
<1>5. row \in [Payments -> RowRecord] /\ retry \in [Payments -> RetryRecord]
  BY <1>1 DEF TypeOK
<1>6. row' = [row EXCEPT ![p] = new]
  BY <1>3, <1>5
<1>7. /\ new \in RowRecord /\ new.path = None /\ new.expired = TRUE
      /\ new.camera = row[p].camera /\ new.foreign = row[p].foreign
      /\ new.present = row[p].present /\ new.ts = row[p].ts /\ new.source = row[p].source
  BY <1>4 DEF RowRecord
<1> HIDE DEF new
<1>8. RowShape(new) /\ ~Runnable(new)
  BY <1>4, <1>7 DEF RowShape, Runnable
<1>9. row'[p] = new /\ \A q \in Payments \ {p} : row'[q] = row[q]
  BY <1>2, <1>5, <1>6
<1>10. row' \in [Payments -> RowRecord] /\ retry' \in [Payments -> RetryRecord]
  BY <1>3, <1>5, <1>6, <1>7, Constructed
<1>11. \A q \in Payments :
         /\ RowShape(row'[q])
         /\ row'[q].path # None => /\ row'[q].path = row[q].path
                                   /\ row'[q].camera = row[q].camera
                                   /\ row'[q].ts = row[q].ts
         /\ retry'[q].queued <=> Runnable(row'[q])
  <2>1. RowShape(row'[p]) /\ row'[p].path = None /\ (retry'[p].queued <=> Runnable(row'[p]))
    BY <1>2, <1>3, <1>5, <1>7, <1>8, <1>9, Constructed
  <2>2. \A q \in Payments \ {p} : RowShape(row[q]) /\ (retry'[q].queued <=> Runnable(row[q]))
    BY <1>1, <1>3, <1>5 DEF QueueExact, Rows
  <2>3. QED
    BY <1>9, <2>1, <2>2
<1>12. ~Referenced(f)'
  <2>1. \A q \in Payments \ {p} : row[q].path # f
    BY <1>1, <1>2, <1>3, <1>4 DEF Holders
  <2>2. row'[p].path # f
    BY <1>4, <1>7, <1>9
  <2>3. QED
    BY <1>9, <2>1, <2>2 DEF Referenced
<1>13. \A w \in Workers : worker[w].file = None /\ ~InDrain(w)
  BY <1>3, ExclusiveHands
<1>14. GuardHeld' /\ NoStrayFiles'
  BY <1>3, <1>13 DEF GuardHeld, InDrain, NoStrayFiles
<1>15. upkeep' \in UpkeepRecord
  BY <1>2, <1>3 DEF UpkeepRecord
<1>16. unlinks' \cup doomed' \subseteq Names /\ \A g \in unlinks' \cup doomed' : ~Referenced(g)'
  BY <1>2, <1>3, <1>12 DEF ExclusiveFree, Deleting
<1>17. Listed' /\ spared' \subseteq Names
  BY <1>1, <1>3
     DEF IInv, TypeOK, Listed, Sweeping, ExclusiveFree, SharedFree, Exclusive
<1>18. QED
  BY <1>1, <1>3, <1>10, <1>11, <1>13, <1>14, <1>15, <1>16, <1>17, RowsKeep DEF TypeOK, ghosts

(* The restart forgets the files that are gone and queues their payments.  *)
LEMMA CrashKeeps ==
  ASSUME IInv, Crash
  PROVE  IInv'
<1>1. TypeOK /\ Rows /\ QueueExact /\ NoStrayFiles
  BY DEF IInv
<1>2. /\ crashes' = crashes + 1
      /\ stray' = stray \cup {f \in Names : InFlight(f)}
      /\ row' = [p \in Payments |-> Reconciled(p)]
      /\ retry' = [p \in Payments |-> RestartQueue(p)]
      /\ unlinks' = {} /\ doomed' = {} /\ spared' = {}
      /\ worker' = [w \in Workers |-> Resting]
      /\ upkeep' = [pc |-> "idle", assets |-> {}] /\ clearing' = FALSE
      /\ UNCHANGED <<cameraMap, disk, cleanup, changes>>
  BY DEF Crash
<1>3. \A p \in Payments :
        /\ Reconciled(p) \in RowRecord /\ RowShape(Reconciled(p))
        /\ Missing(p) => Reconciled(p).path = None
        /\ ~Missing(p) => Reconciled(p) = row[p]
        /\ RestartQueue(p) \in RetryRecord
        /\ RestartQueue(p).queued <=> Runnable(Reconciled(p))
  <2> TAKE p \in Payments
  <2> DEFINE new == [row[p] EXCEPT !.path = None]
             taken == [retry[p] EXCEPT !.lease = IF @ = None THEN None ELSE Lost]
  <2>1. row[p] \in RowRecord /\ RowShape(row[p]) /\ retry[p] \in RetryRecord
    BY <1>1, ShownRow DEF TypeOK
  <2>2. /\ new \in RowRecord /\ new.path = None
        /\ new.present = row[p].present /\ new.ts = row[p].ts /\ new.source = row[p].source
        /\ new.camera = row[p].camera /\ new.expired = row[p].expired
        /\ new.foreign = row[p].foreign
    BY <2>1 DEF RowRecord
  <2>3. taken \in RetryRecord /\ taken.queued = retry[p].queued
    BY <2>1 DEF RetryRecord
  <2>4. Reconciled(p) = IF Missing(p) THEN new ELSE row[p]
    BY DEF Reconciled
  <2>5. RestartQueue(p) = IF retry[p].queued THEN taken
                          ELSE IF Runnable(Reconciled(p)) THEN Fresh ELSE NotQueued
    BY DEF RestartQueue
  <2> HIDE DEF new, taken
  <2>6. Missing(p) => RowShape(new)
    BY <2>1, <2>2, ShownRow DEF RowShape, Missing
  <2>7. retry[p].queued => Reconciled(p) = row[p] /\ Runnable(row[p])
    BY <1>1, <2>4 DEF QueueExact, Runnable, Missing
  <2>8. QED
    BY <2>1, <2>2, <2>3, <2>4, <2>5, <2>6, <2>7, Constructed
<1>4. /\ row' \in [Payments -> RowRecord] /\ retry' \in [Payments -> RetryRecord]
      /\ \A p \in Payments :
           /\ RowShape(row'[p])
           /\ row'[p].path # None => row'[p] = row[p]
           /\ retry'[p].queued <=> Runnable(row'[p])
  BY <1>2, <1>3
<1>5. NoStrayFiles'
  <2>1. \A f \in Names : disk[f] # None /\ Referenced(f) => Referenced(f)'
    BY <1>2, <1>3 DEF Referenced, Missing
  <2>2. QED
    BY <1>1, <1>2, <2>1 DEF NoStrayFiles
<1>6. GuardHeld' /\ Listed' /\ upkeep' \in UpkeepRecord
  BY <1>2 DEF GuardHeld, Exclusive, UpkeepRecord, Listed, Sweeping
<1>7. crashes' \in Nat /\ stray' \subseteq Names
  BY <1>1, <1>2 DEF TypeOK
<1>8. unlinks' \subseteq unlinks /\ doomed' \subseteq doomed /\ spared' \subseteq Names
  BY <1>2
<1>9. QED
  BY <1>1, <1>2, <1>4, <1>5, <1>6, <1>7, <1>8, RowsKeep DEF TypeOK

-----------------------------------------------------------------------------
LEMMA StepKeeps == IInv /\ [Next]_vars => IInv'
<1> SUFFICES ASSUME IInv, [Next]_vars PROVE IInv'
  OBVIOUS
<1>1. CASE Next
  <2>1. CASE \E p \in Payments, ts \in Moments, s \in Sources : Ingest(p, ts, s) \/ Edit(p, ts, s)
    BY <2>1, PayStep
  <2>2. CASE \E p \in Payments : Repoll(p)
    <3>1. PICK p \in Payments : Repoll(p)
      BY <2>2
    <3>2. row[p].ts \in Moments /\ row[p].source \in Sources
      BY <3>1 DEF Repoll, IInv, Rows, RowShape
    <3>3. QED
      BY <3>1, <3>2, PayStep
  <2>3. CASE \E p \in Payments : RequeueMissing(p) \/ LeaseExpires(p) \/ BackoffEnds(p)
    BY <2>3, RequeueMissingKeeps, TimerKeeps
  <2>4. CASE \E w \in Workers : Claim(w) \/ DrainStep(w)
    BY <2>4, DrainKeeps
  <2>5. CASE \E f \in Names : Unlink(f) \/ Erase(f) \/ Vanish(f) \/ Sweep(f)
    BY <2>5, UnlinkKeeps, VanishKeeps, SweepKeeps
  <2>6. CASE \E map \in [Sources \cup {Anywhere} -> Cameras \cup {None}] : ReplaceMappings(map)
    BY <2>6, ReplaceMappingsKeeps
  <2>7. CASE SwitchConsole \/ SwitchMerchant
    BY <2>7, SwitchKeeps
  <2>8. CASE StartUpkeep \/ EndUpkeep \/ \E asset \in upkeep.assets : PassOver(asset)
    BY <2>8, UpkeepKeeps
  <2>9. CASE \E asset \in upkeep.assets : Retire(asset[1], asset[2])
    BY <2>9, RetireKeeps
  <2>10. CASE Swept \/ SweepFails
    BY <2>10, EndSweepKeeps
  <2>11. CASE Crash
    BY <2>11, CrashKeeps
  <2>12. QED
    BY <1>1, <2>1, <2>2, <2>3, <2>4, <2>5, <2>6, <2>7, <2>8, <2>9, <2>10, <2>11 DEF Next
<1>2. CASE UNCHANGED vars
  BY <1>2 DEF IInv, TypeOK, Rows, Working, Holders, InHand, GuardHeld, Exclusive, InDrain,
              PicturesMatch, Missing, QueueExact, NoStrayFiles, Referenced, InFlight,
              Listed, Sweeping, Named, vars, tables, files, ghosts
<1>3. QED
  BY <1>1, <1>2

(* The inductive invariant: who holds which file, who holds the guard, and *)
(* what the rows, the queue and the directory say of each other.           *)
THEOREM Invariant == Spec => []IInv
BY InitKeeps, StepKeeps, PTL DEF Spec

(* Rows, queue, files and drains stay within their types.                  *)
THEOREM TypeCorrect == Spec => []TypeOK
<1>1. IInv => TypeOK
  BY DEF IInv
<1>2. QED
  BY <1>1, Invariant, PTL

(* A payment never shows the picture of another payment, camera or moment. *)
THEOREM PicturesNeverExchanged == Spec => []PicturesMatch
<1>1. IInv => PicturesMatch
  BY DEF IInv
<1>2. QED
  BY <1>1, Invariant, PTL

(* No interleaving of captures, edits, mappings, retirement and restarts   *)
(* forgets a payment whose picture is wanted, or queues another one.       *)
THEOREM NoPaymentForgotten == Spec => []QueueExact
<1>1. IInv => QueueExact
  BY DEF IInv
<1>2. QED
  BY <1>1, Invariant, PTL

(* Every file on the disk is shown, in a drain's hands, covered by the     *)
(* marker of a clean-up, or left by a crash or a failed file operation.    *)
THEOREM NoFileLeftBehind == Spec => []NoStrayFiles
<1>1. IInv => NoStrayFiles
  BY DEF IInv
<1>2. QED
  BY <1>1, Invariant, PTL

-----------------------------------------------------------------------------
(* The two action properties.                                              *)

(* What a step does to the flags of a payment's row.                       *)
LEMMA FlagsPersist ==
  ASSUME IInv, [Next]_vars, NEW p \in Payments,
         row[p].expired \/ row[p].foreign, row'[p].present
  PROVE  row'[p].expired \/ row'[p].foreign
<1>1. row \in [Payments -> RowRecord]
  BY DEF IInv, TypeOK
<1>2. CASE \E q \in Payments : \E ts, s : Upsert(q, ts, s)
  <2>1. \A ts, s : /\ Revised(p, ts, s).expired = row[p].expired
                   /\ Revised(p, ts, s).foreign = row[p].foreign
    BY <1>1 DEF Revised, RowRecord
  <2>2. QED
    BY <1>1, <1>2, <2>1 DEF Upsert
<1>3. CASE \E q \in Payments : RequeueMissing(q)
  BY <1>1, <1>3 DEF RequeueMissing, RowRecord
<1>4. CASE \E map : ReplaceMappings(map)
  <2>1. \A c : /\ [row[p] EXCEPT !.camera = c].expired = row[p].expired
               /\ [row[p] EXCEPT !.camera = c].foreign = row[p].foreign
    BY <1>1 DEF RowRecord
  <2>2. QED
    BY <1>1, <1>4, <2>1 DEF ReplaceMappings
<1>5. CASE SwitchConsole
  <2>1. row'[p] = [row[p] EXCEPT !.camera = None, !.path = None, !.foreign = TRUE] \/ row'[p] = row[p]
    BY <1>5 DEF SwitchConsole
  <2>2. QED
    BY <1>1, <2>1 DEF RowRecord
<1>6. CASE SwitchMerchant
  BY <1>6 DEF SwitchMerchant, Absent
<1>7. CASE \E q, f : q \in Payments /\ Retire(q, f)
  BY <1>1, <1>7 DEF Retire, RowRecord
<1>8. CASE Crash
  <2>1. row'[p] = [row[p] EXCEPT !.path = None] \/ row'[p] = row[p]
    BY <1>8 DEF Crash, Reconciled
  <2>2. QED
    BY <1>1, <2>1 DEF RowRecord
<1>9. CASE \E w \in Workers : Attach(w)
  <2>1. PICK w \in Workers : Attach(w)
    BY <1>9
  <2>2. row' = [row EXCEPT ![worker[w].job.payment].path = worker[w].file]
    BY <2>1 DEF Attach
  <2>3. row'[p] = [row[p] EXCEPT !.path = worker[w].file] \/ row'[p] = row[p]
    BY <1>1, <2>2
  <2>4. QED
    BY <1>1, <2>3 DEF RowRecord
<1>10. \/ row' = row
       \/ \E q \in Payments : \E ts, s : Upsert(q, ts, s)
       \/ \E q \in Payments : RequeueMissing(q)
       \/ \E map : ReplaceMappings(map)
       \/ SwitchConsole
       \/ SwitchMerchant
       \/ \E q, f : q \in Payments /\ Retire(q, f)
       \/ Crash
       \/ \E w \in Workers : Attach(w)
  <2>1. UNCHANGED vars => row' = row
    BY DEF vars, tables
  <2>2. ASSUME NEW w \in Workers, Claim(w) \/ DrainStep(w)
        PROVE  row' = row \/ Attach(w)
    BY <2>2 DEF Claim, DrainStep, TakeJob, EndBatch, WriteFile, WriteFails, Reject, Discard, AttachErrors,
                Fail, Abandon, tables
  <2>3. ASSUME NEW f \in Names, Unlink(f) \/ Erase(f) \/ Vanish(f) \/ Sweep(f)
        PROVE  row' = row
    BY <2>3 DEF Unlink, Erase, Vanish, Sweep, tables
  <2>4. ASSUME StartUpkeep \/ EndUpkeep \/ Swept \/ SweepFails
               \/ \E asset \in upkeep.assets : PassOver(asset)
        PROVE  row' = row
    BY <2>4 DEF StartUpkeep, EndUpkeep, Swept, SweepFails, PassOver, tables
  <2>5. ASSUME NEW q \in Payments, LeaseExpires(q) \/ BackoffEnds(q)
        PROVE  row' = row
    BY <2>5 DEF LeaseExpires, BackoffEnds
  <2>6. ASSUME NEW asset \in upkeep.assets, Retire(asset[1], asset[2])
        PROVE  \E q, f : q \in Payments /\ Retire(q, f)
    <3>1. asset[1] \in Payments
      BY UpkeepType DEF IInv
    <3>2. QED
      BY <2>6, <3>1
  <2>7. ASSUME NEW q \in Payments, NEW ts, NEW s, Ingest(q, ts, s) \/ Repoll(q) \/ Edit(q, ts, s)
        PROVE  \E u, v : Upsert(q, u, v)
    BY <2>7 DEF Ingest, Repoll, Edit
  <2>8. QED
    BY <2>1, <2>2, <2>3, <2>4, <2>5, <2>6, <2>7 DEF Next
<1>11. QED
  BY <1>2, <1>3, <1>4, <1>5, <1>6, <1>7, <1>8, <1>9, <1>10

(* A picture retired by age or quota is never captured again, and evidence *)
(* of the old console never comes back.                                    *)
THEOREM RetiredStaysRetired == Spec => RetiredForGood
<1>1. IInv /\ IInv' /\ [Next]_vars =>
        \A p \in Payments : (row[p].expired \/ row[p].foreign) /\ row'[p].present
          => row'[p].path = None /\ ~retry'[p].queued
  <2>1. SUFFICES ASSUME IInv, IInv', [Next]_vars, NEW p \in Payments,
                        row[p].expired \/ row[p].foreign, row'[p].present
                 PROVE  row'[p].path = None /\ ~retry'[p].queued
    OBVIOUS
  <2>2. row'[p].expired \/ row'[p].foreign
    BY <2>1, FlagsPersist
  <2>3. RowShape(row'[p]) /\ (retry'[p].queued <=> Runnable(row'[p]))
    BY <2>1 DEF IInv, Rows, QueueExact
  <2>4. QED
    BY <2>2, <2>3 DEF RowShape, Runnable
<1>2. QED
  BY <1>1, Invariant, PTL DEF Spec, RetiredForGood

(* No task deletes a file that a payment shows at that moment, or that     *)
(* another drain has in hand: the list of a sweep and the answer a         *)
(* deletion goes by hold until the file is gone.                           *)
THEOREM FilesInUseStay == Spec => DeletesOnlyUnused
<1>1. IInv /\ [Next]_vars =>
        \A f \in Names : disk[f] # None /\ disk'[f] = None =>
          \/ Vanish(f)
          \/ ~Referenced(f) /\ \A w \in Workers : worker[w].file = f => worker'[w].file # f
  <2> SUFFICES ASSUME IInv, [Next]_vars, NEW f \in Names, disk[f] # None, disk'[f] = None,
                      ~Vanish(f)
               PROVE  ~Referenced(f) /\ \A w \in Workers : worker[w].file = f => worker'[w].file # f
    OBVIOUS
  <2>1. /\ Holders /\ Working /\ Listed /\ disk \in [Names -> Job \cup {None}]
        /\ worker \in [Workers -> WorkerRecord] /\ f # None
    BY DEF IInv, TypeOK
  <2>2. \A g \in Names : disk' = Removed(g) => g = f
    BY <2>1 DEF Removed
  <2>3. ASSUME NEW g \in Names, Unlink(g) \/ Erase(g) \/ Vanish(g) \/ Sweep(g)
        PROVE  ~Referenced(f) /\ \A w \in Workers : worker[w].file # f
    <3>1. CASE Erase(g)
      <4>1. f \in doomed
        BY <2>1, <2>2, <3>1 DEF Erase
      <4>2. QED
        BY <2>1, <4>1 DEF Holders, InHand
    <3>2. CASE Sweep(g)
      <4>1. f \notin spared /\ Sweeping
        BY <2>2, <3>2 DEF Sweep, Orphan
      <4>2. ~Referenced(f)
        BY <2>1, <4>1 DEF Listed, Named, Referenced
      <4>3. \A w \in Workers : worker[w].file # f
        BY <2>1, <4>1, ExclusiveHands DEF Sweeping, Exclusive
      <4>4. QED
        BY <4>2, <4>3
    <3>3. CASE Unlink(g) \/ Vanish(g)
      BY <2>1, <2>2, <3>3 DEF Unlink, Vanish
    <3>4. QED
      BY <2>3, <3>1, <3>2, <3>3
  <2>4. ASSUME NEW v \in Workers, Claim(v) \/ DrainStep(v)
        PROVE  ~Referenced(f) /\ \A w \in Workers : worker[w].file = f => worker'[w].file # f
    <3>1. CASE Discard(v) \/ AttachErrors(v)
      <4>1. worker[v].file # None /\ worker[v].file \in Names
        BY <3>1, <2>1 DEF Discard, AttachErrors, Working, WorkerShape, WorkerRecord
      <4>2. worker[v].file = f
        BY <2>2, <3>1, <4>1 DEF Discard, AttachErrors, LetGo
      <4>3. worker'[v].file = None
        BY <2>1, <3>1 DEF Discard, AttachErrors, NextJob, WorkerRecord
      <4>4. QED
        BY <2>1, <4>1, <4>2, <4>3 DEF Holders, InHand
    <3>2. CASE \E g \in Names : WriteFile(v, g) \/ WriteFails(v, g)
      <4>1. PICK g \in Names : WriteFile(v, g) \/ WriteFails(v, g)
        BY <3>2
      <4>2. disk[g] = None /\ disk' = [disk EXCEPT ![g] = worker[v].job]
        BY <4>1 DEF WriteFile, WriteFails, Unused
      <4>3. QED
        BY <2>1, <4>2
    <3>3. CASE /\ ~Discard(v) /\ ~AttachErrors(v)
               /\ ~\E g \in Names : WriteFile(v, g) \/ WriteFails(v, g)
      <4>1. disk' = disk
        BY <2>4, <3>3 DEF Claim, DrainStep, TakeJob, EndBatch, Attach, Reject, Fail, Abandon, files
      <4>2. QED
        BY <4>1
    <3>4. QED
      BY <3>1, <3>2, <3>3
  <2>5. ASSUME \/ UNCHANGED vars
               \/ \E p \in Payments, ts \in Moments, s \in Sources : Ingest(p, ts, s) \/ Edit(p, ts, s)
               \/ \E p \in Payments : Repoll(p) \/ RequeueMissing(p)
                                       \/ LeaseExpires(p) \/ BackoffEnds(p)
        PROVE  disk' = disk
    BY <2>5 DEF vars, files, Ingest, Edit, Repoll, Upsert, RequeueMissing, LeaseExpires, BackoffEnds
  <2>6. ASSUME \/ \E map : ReplaceMappings(map)
               \/ SwitchConsole \/ SwitchMerchant \/ StartUpkeep \/ EndUpkeep
               \/ \E asset \in upkeep.assets : PassOver(asset) \/ Retire(asset[1], asset[2])
               \/ Swept \/ SweepFails \/ Crash
        PROVE  disk' = disk
    BY <2>6 DEF files, ReplaceMappings, SwitchConsole, SwitchMerchant, StartUpkeep, EndUpkeep,
                PassOver, Retire, Swept, SweepFails, Crash
  <2>7. QED
    BY <2>3, <2>4, <2>5, <2>6 DEF Next
<1>2. QED
  BY <1>1, Invariant, PTL DEF Spec, DeletesOnlyUnused
=============================================================================
