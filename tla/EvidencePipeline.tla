-------------------------- MODULE EvidencePipeline --------------------------
(***************************************************************************)
(* Thumbnails of Square payments: the durable retry queue, the JPEG files  *)
(* in the thumbnail directory, and the camera mappings that decide what a  *)
(* payment's evidence is.                                                  *)
(*                                                                         *)
(* Workers claim queued payments under a lease, capture the camera's       *)
(* picture of the sale, publish it as a file and attach it in a later      *)
(* transaction.  Meanwhile webhooks and polls revise the payments,         *)
(* mappings are replaced, maintenance retires old files, consoles and      *)
(* merchants are switched, files vanish and the process crashes.           *)
(***************************************************************************)
EXTENDS Naturals, FiniteSets

CONSTANTS
  Payments,     \* Square payments
  Workers,      \* tasks that may run drain_protect_queues concurrently
  Cameras,      \* cameras of the Protect console
  Sources,      \* locations and devices payments come from
  Anywhere,     \* the fallback entry of the camera map
  Moments,      \* times a payment may carry (ts_ms)
  Names,        \* file names; a claim's token makes every name a new one
  None,         \* SQL NULL, an absent file, no owner
  Lost,         \* the lease token of a worker that died
  Batch,        \* jobs one claim returns (10 in the code)
  MaxChanges,   \* bound: edits, mappings, switches, vanished files and
                \* failures of the file system under a drain
  MaxCrashes    \* bound: process crashes

ASSUME NoneAssumption ==
  None \notin Workers \cup Cameras \cup Names \cup {Lost}
ASSUME LostAssumption == Lost \notin Workers
ASSUME AnywhereAssumption == Anywhere \notin Sources
ASSUME BoundsAssumption ==
  Batch \in Nat \ {0} /\ MaxChanges \in Nat /\ MaxCrashes \in Nat

VARIABLES
  row,        \* transactions, and protect_evidence_retired ("foreign")
  retry,      \* thumbnail_retries
  cameraMap,  \* camera_map
  disk,       \* the thumbnail directory
  cleanup,    \* maintenance.orphan_thumbnail_cleanup_pending
  unlinks,    \* files a task is to delete, if no row names them
  doomed,     \* files it found unnamed and is about to delete
  spared,     \* names the rows held when a sweep listed them
  worker,     \* local state of the drains
  upkeep,     \* local state of run_thumbnail_maintenance
  clearing,   \* a console or merchant switch is deleting files
  changes,    \* ghost: changes so far
  crashes,    \* ghost: crashes so far
  stray       \* ghost: files a crash or a failed file operation left behind

tables == <<row, retry, cameraMap>>
removals == <<unlinks, doomed, spared>>
files  == <<disk, cleanup, removals>>
ghosts == <<changes, crashes, stray>>
vars   == <<tables, files, worker, upkeep, clearing, ghosts>>

-----------------------------------------------------------------------------
Absent == [present |-> FALSE, ts |-> None, source |-> None, camera |-> None,
           path |-> None, expired |-> FALSE, foreign |-> FALSE]
NotQueued == [queued |-> FALSE, lease |-> None, overdue |-> FALSE, due |-> FALSE]
Fresh == [queued |-> TRUE, lease |-> None, overdue |-> FALSE, due |-> TRUE]
BackedOff == [Fresh EXCEPT !.due = FALSE]
NoJob == [payment |-> None, camera |-> None, ts |-> None]
Resting == [pc |-> "idle", jobs |-> {}, job |-> NoJob, file |-> None]

(* Mutation: payments no camera is mapped to are queued as well.           *)
RunnableUnmapped(r) == r.path = None /\ ~r.expired

(* A payment whose picture is still wanted.                                *)
Runnable(r) == r.camera # None /\ r.path = None /\ ~r.expired

(* camera_for_location: the exact entry, or else the fallback.             *)
CameraFor(source) ==
  IF cameraMap[source] # None THEN cameraMap[source] ELSE cameraMap[Anywhere]

(* The integration guard.                                                  *)
Exclusive == clearing \/ upkeep.pc \in {"unlink", "sweep"}
SharedFree == ~Exclusive
InDrain(w) == worker[w].pc # "idle"
Deleting == unlinks # {} \/ doomed # {}
(* Mutation: the drains' hold on the guard is not waited for.              *)
IgnoresDrains == SharedFree /\ ~Deleting
ExclusiveFree == SharedFree /\ ~Deleting /\ \A w \in Workers : ~InDrain(w)

Named == {row[p].path : p \in Payments} \ {None}
Referenced(f) == \E p \in Payments : row[p].path = f
InFlight(f) == \E w \in Workers : worker[w].file = f
Unused(f) ==
  /\ disk[f] = None
  /\ ~Referenced(f) /\ ~InFlight(f)
  /\ f \notin unlinks \cup doomed \cup spared

MayChange == changes < MaxChanges
Changed == changes' = changes + 1

Init ==
  /\ row = [p \in Payments |-> Absent]
  /\ retry = [p \in Payments |-> NotQueued]
  /\ cameraMap = [s \in Sources \cup {Anywhere} |-> None]
  /\ disk = [f \in Names |-> None]
  /\ cleanup = FALSE
  /\ unlinks = {} /\ doomed = {} /\ spared = {}
  /\ worker = [w \in Workers |-> Resting]
  /\ upkeep = [pc |-> "idle", assets |-> {}]
  /\ clearing = FALSE
  /\ changes = 0
  /\ crashes = 0
  /\ stray = {}

-----------------------------------------------------------------------------
(* upsert_payment.  A stale snapshot changes nothing; any other one may    *)
(* repeat the row's facts or revise them.                                  *)

Preserves(p, ts, source) ==
  /\ ~row[p].foreign
  /\ row[p].path # None
  /\ row[p].ts = ts
  /\ row[p].source = source

(* Mutation: the console switch is forgotten.                              *)
MapsForeign(p, ts, source) ==
  IF Preserves(p, ts, source) THEN row[p].camera ELSE CameraFor(source)

MappedCamera(p, ts, source) ==
  IF Preserves(p, ts, source) THEN row[p].camera
  ELSE IF row[p].foreign THEN None ELSE CameraFor(source)

(* Mutation: only another camera makes new evidence.                       *)
CameraChanged(p, ts, source) ==
  row[p].present /\ row[p].camera # MappedCamera(p, ts, source)

EvidenceChanged(p, ts, source) ==
  /\ row[p].present
  /\ row[p].ts # ts \/ row[p].camera # MappedCamera(p, ts, source)

Revised(p, ts, source) ==
  [row[p] EXCEPT !.present = TRUE, !.ts = ts, !.source = source,
                 !.camera = MappedCamera(p, ts, source),
                 !.path = IF EvidenceChanged(p, ts, source) \/ row[p].expired
                            THEN None ELSE row[p].path]

Requeued(p, ts, source) ==
  IF ~Runnable(Revised(p, ts, source)) THEN NotQueued
  ELSE IF retry[p].queued /\ ~EvidenceChanged(p, ts, source) THEN retry[p]
  ELSE Fresh

Superseded(p, ts, source) ==
  IF EvidenceChanged(p, ts, source) THEN {row[p].path} \ {None} ELSE {}

Upsert(p, ts, source) ==
  /\ SharedFree
  /\ row' = [row EXCEPT ![p] = Revised(p, ts, source)]
  /\ retry' = [retry EXCEPT ![p] = Requeued(p, ts, source)]
  /\ cleanup' = (cleanup \/ Superseded(p, ts, source) # {})
  /\ unlinks' = unlinks \cup Superseded(p, ts, source)
  /\ UNCHANGED <<cameraMap, disk, doomed, spared, worker, upkeep, clearing, crashes,
                 stray>>

Ingest(p, ts, source) ==
  /\ ~row[p].present
  /\ Upsert(p, ts, source)
  /\ UNCHANGED changes

Repoll(p) ==
  /\ row[p].present
  /\ Upsert(p, row[p].ts, row[p].source)
  /\ UNCHANGED changes

Edit(p, ts, source) ==
  /\ row[p].present
  /\ MayChange /\ Changed
  /\ Upsert(p, ts, source)

Removed(f) == [disk EXCEPT ![f] = None]

(* retire_thumbnail deletes its file last; an error ends the maintenance.  *)
AfterUnlink(succeeded) ==
  upkeep' = IF upkeep.pc # "unlink" THEN upkeep
            ELSE IF succeeded THEN [upkeep EXCEPT !.pc = "retire"]
            ELSE [pc |-> "idle", assets |-> {}]

(* delete_thumbnail_if_unreferenced asks the rows first ...                *)
Unlink(f) ==
  /\ f \in unlinks
  /\ unlinks' = unlinks \ {f}
  /\ IF Referenced(f) THEN AfterUnlink(TRUE) /\ UNCHANGED doomed
     ELSE doomed' = doomed \cup {f} /\ UNCHANGED upkeep
  /\ UNCHANGED <<tables, disk, cleanup, spared, worker, clearing, ghosts>>

(* ... and deletes the file afterwards, or fails to.                       *)
Erase(f) ==
  /\ f \in doomed
  /\ doomed' = doomed \ {f}
  /\ disk' = Removed(f) \/ UNCHANGED disk
  /\ AfterUnlink(disk'[f] = None)
  /\ UNCHANGED <<tables, cleanup, unlinks, spared, worker, clearing, ghosts>>

-----------------------------------------------------------------------------
(* Drains: retry_thumbnails and capture_thumbnail.                         *)

(* Mutation: the lease of a drain that died is never taken over.           *)
ClaimableOnce(p) ==
  retry[p].queued /\ retry[p].due /\ retry[p].lease = None /\ Runnable(row[p])

Claimable(p) ==
  /\ retry[p].queued /\ retry[p].due
  /\ retry[p].lease # None => retry[p].overdue
  /\ Runnable(row[p])

(* claim_due_thumbnail_retries: at most Batch jobs, under one lease.       *)
Claim(w) ==
  /\ SharedFree
  /\ ~InDrain(w)
  /\ \E ids \in SUBSET {p \in Payments : Claimable(p)} :
       /\ ids # {} /\ Cardinality(ids) <= Batch
       /\ retry' = [p \in Payments |->
                      IF p \in ids THEN [Fresh EXCEPT !.lease = w] ELSE retry[p]]
       /\ worker' = [worker EXCEPT ![w] =
            [Resting EXCEPT !.pc = "next", !.jobs =
               {[payment |-> p, camera |-> row[p].camera, ts |-> row[p].ts] : p \in ids}]]
  /\ UNCHANGED <<row, cameraMap, files, upkeep, clearing, ghosts>>

TakeJob(w, job) ==
  /\ worker[w].pc = "next"
  /\ job \in worker[w].jobs
  /\ worker' = [worker EXCEPT ![w].pc = "capture", ![w].job = job,
                              ![w].jobs = @ \ {job}]
  /\ UNCHANGED <<tables, files, upkeep, clearing, ghosts>>

EndBatch(w) ==
  /\ worker[w].pc = "next"
  /\ worker[w].jobs = {}
  /\ worker' = [worker EXCEPT ![w] = Resting]
  /\ UNCHANGED <<tables, files, upkeep, clearing, ghosts>>

(* The picture arrived and is published under its final name.              *)
WriteFile(w, f) ==
  /\ worker[w].pc = "capture"
  /\ Unused(f)
  /\ disk' = [disk EXCEPT ![f] = worker[w].job]
  /\ worker' = [worker EXCEPT ![w].pc = "written", ![w].file = f]
  /\ UNCHANGED <<tables, cleanup, removals, upkeep, clearing, ghosts>>

(* The file has its final name, but its permissions cannot be set: the     *)
(* capture fails, and nobody removes the file.                             *)
WriteFails(w, f) ==
  /\ worker[w].pc = "capture"
  /\ Unused(f)
  /\ MayChange /\ Changed
  /\ disk' = [disk EXCEPT ![f] = worker[w].job]
  /\ stray' = stray \cup {f}
  /\ worker' = [worker EXCEPT ![w].pc = "failed"]
  /\ UNCHANGED <<tables, cleanup, removals, upkeep, clearing, crashes>>

Holds(w, p) == retry[p].queued /\ retry[p].lease = w

SameEvidence(job) ==
  LET r == row[job.payment] IN
  r.camera = job.camera /\ r.ts = job.ts /\ r.path = None /\ ~r.expired

(* requeue_changed_thumbnail_locked.                                       *)
RequeueChanged(p) ==
  retry' = [retry EXCEPT ![p] = IF Runnable(row[p]) THEN Fresh ELSE NotQueued]

Attaches(w, job) == Holds(w, job.payment) /\ SameEvidence(job)

NextJob(w) ==
  worker' = [worker EXCEPT ![w].pc = "next", ![w].job = NoJob, ![w].file = None]

(* complete_thumbnail_retry, when it attaches the file ...                 *)
Attach(w) ==
  LET job == worker[w].job IN
  /\ worker[w].pc = "written"
  /\ Attaches(w, job)
  /\ row' = [row EXCEPT ![job.payment].path = worker[w].file]
  /\ retry' = [retry EXCEPT ![job.payment] = NotQueued]
  /\ NextJob(w)
  /\ UNCHANGED <<cameraMap, files, upkeep, clearing, ghosts>>

(* ... and when it does not: the evidence changed, or the lease is gone.   *)
Reject(w) ==
  LET job == worker[w].job IN
  /\ worker[w].pc = "written"
  /\ ~Attaches(w, job)
  /\ IF Holds(w, job.payment) THEN RequeueChanged(job.payment) ELSE UNCHANGED retry
  /\ worker' = [worker EXCEPT ![w].pc = "discard"]
  /\ UNCHANGED <<row, cameraMap, files, upkeep, clearing, ghosts>>

(* Mutation: a rejected picture stays on the disk.                         *)
KeepsFile(w) ==
  /\ worker[w].pc = "discard"
  /\ NextJob(w)
  /\ UNCHANGED <<tables, files, upkeep, clearing, ghosts>>

(* capture_thumbnail removes the file and does not ask whether that works. *)
LetGo(f) ==
  \/ disk' = Removed(f) /\ UNCHANGED <<changes, stray>>
  \/ MayChange /\ Changed /\ stray' = stray \cup {f} /\ UNCHANGED disk

Discard(w) ==
  /\ worker[w].pc = "discard"
  /\ LetGo(worker[w].file)
  /\ NextJob(w)
  /\ UNCHANGED <<tables, cleanup, removals, upkeep, clearing, crashes>>

(* The database refuses to attach the file, and the job fails.             *)
AttachErrors(w) ==
  /\ worker[w].pc = "written"
  /\ LetGo(worker[w].file)
  /\ worker' = [worker EXCEPT ![w].pc = "failed", ![w].file = None]
  /\ UNCHANGED <<tables, cleanup, removals, upkeep, clearing, crashes>>

(* fail_thumbnail_retry, whatever step of the capture failed.              *)
Fail(w) ==
  LET job == worker[w].job IN
  /\ worker[w].pc \in {"capture", "failed"}
  /\ IF ~Holds(w, job.payment) THEN UNCHANGED retry
     ELSE IF SameEvidence(job)
       THEN retry' = [retry EXCEPT ![job.payment] = BackedOff]
       ELSE RequeueChanged(job.payment)
  /\ NextJob(w)
  /\ UNCHANGED <<row, cameraMap, files, upkeep, clearing, ghosts>>

(* The database refuses even that: the drain ends, its leases stay behind. *)
Abandon(w) ==
  /\ worker[w].pc \in {"capture", "failed"}
  /\ worker' = [worker EXCEPT ![w] = Resting]
  /\ retry' = [p \in Payments |->
                 IF retry[p].lease = w THEN [retry[p] EXCEPT !.lease = Lost] ELSE retry[p]]
  /\ UNCHANGED <<row, cameraMap, files, upkeep, clearing, ghosts>>

(* Leases run out and back-off delays elapse.                              *)
LeaseExpires(p) ==
  /\ retry[p].lease # None /\ ~retry[p].overdue
  /\ retry' = [retry EXCEPT ![p].overdue = TRUE]
  /\ UNCHANGED <<row, cameraMap, files, worker, upkeep, clearing, ghosts>>

BackoffEnds(p) ==
  /\ retry[p].queued /\ ~retry[p].due
  /\ retry' = [retry EXCEPT ![p].due = TRUE]
  /\ UNCHANGED <<row, cameraMap, files, worker, upkeep, clearing, ghosts>>

-----------------------------------------------------------------------------
(* The thumbnail handler finds a file missing: requeue_missing_thumbnail.  *)
Vanish(f) ==
  /\ MayChange /\ Changed
  /\ Referenced(f) /\ disk[f] # None
  /\ disk' = Removed(f)
  /\ UNCHANGED <<tables, cleanup, removals, worker, upkeep, clearing, crashes, stray>>

Missing(p) == row[p].path # None /\ disk[row[p].path] = None

RequeueMissing(p) ==
  LET camera == IF row[p].foreign THEN None ELSE CameraFor(row[p].source) IN
  /\ SharedFree
  /\ Missing(p)
  /\ row' = [row EXCEPT ![p].path = None, ![p].camera = camera]
  /\ retry' = [retry EXCEPT ![p] = IF camera # None THEN Fresh ELSE NotQueued]
  /\ UNCHANGED <<cameraMap, files, worker, upkeep, clearing, ghosts>>

(* replace_camera_mappings re-targets every payment that has no picture.   *)
Retargeted(map, p) ==
  IF map[row[p].source] # None THEN map[row[p].source] ELSE map[Anywhere]

Retargets(map, p) ==
  /\ row[p].present
  /\ row[p].path = None /\ ~row[p].expired /\ ~row[p].foreign
  /\ Retargeted(map, p) # row[p].camera

ReplaceMappings(map) ==
  /\ ExclusiveFree
  /\ MayChange /\ Changed
  /\ cameraMap' = map
  /\ row' = [p \in Payments |->
               IF Retargets(map, p)
                 THEN [row[p] EXCEPT !.camera = Retargeted(map, p)] ELSE row[p]]
  /\ retry' = [p \in Payments |->
                 IF ~Retargets(map, p) THEN retry[p]
                 ELSE IF Retargeted(map, p) # None THEN Fresh ELSE NotQueued]
  /\ UNCHANGED <<files, worker, upkeep, clearing, crashes, stray>>

-----------------------------------------------------------------------------
(* A console switch retires all evidence, a merchant switch all payments;  *)
(* both then delete the files under the same exclusive guard.              *)
NoMap == [s \in Sources \cup {Anywhere} |-> None]

SwitchConsole ==
  /\ ExclusiveFree
  /\ MayChange /\ Changed
  /\ row' = [p \in Payments |->
               IF row[p].present
                 THEN [row[p] EXCEPT !.camera = None, !.path = None, !.foreign = TRUE]
                 ELSE row[p]]
  /\ retry' = [p \in Payments |-> NotQueued]
  /\ cameraMap' = NoMap
  /\ cleanup' = TRUE
  /\ clearing' = TRUE
  /\ UNCHANGED <<disk, removals, worker, upkeep, crashes, stray>>

SwitchMerchant ==
  /\ ExclusiveFree
  /\ MayChange /\ Changed
  /\ row' = [p \in Payments |-> Absent]
  /\ retry' = [p \in Payments |-> NotQueued]
  /\ cameraMap' = NoMap
  /\ cleanup' = TRUE
  /\ clearing' = TRUE
  /\ UNCHANGED <<disk, removals, worker, upkeep, crashes, stray>>

(* run_thumbnail_maintenance lists the files first, and retires each of    *)
(* them, or passes over it, later.                                         *)
StartUpkeep ==
  /\ upkeep.pc = "idle"
  /\ upkeep' = [pc |-> "retire", assets |->
       {<<p, row[p].path>> : p \in {q \in Payments : row[q].path # None}}]
  /\ UNCHANGED <<tables, files, worker, clearing, ghosts>>

PassOver(asset) ==
  /\ upkeep.pc = "retire"
  /\ asset \in upkeep.assets
  /\ upkeep' = [upkeep EXCEPT !.assets = @ \ {asset}]
  /\ UNCHANGED <<tables, files, worker, clearing, ghosts>>

(* retire_thumbnail.                                                       *)
Retire(p, f) ==
  /\ upkeep.pc = "retire"
  /\ <<p, f>> \in upkeep.assets
  /\ ExclusiveFree
  /\ row[p].path = f
  /\ row' = [row EXCEPT ![p].path = None, ![p].expired = TRUE]
  /\ retry' = [retry EXCEPT ![p] = NotQueued]
  /\ cleanup' = TRUE
  /\ unlinks' = {f}
  /\ upkeep' = [pc |-> "unlink", assets |-> upkeep.assets \ {<<p, f>>}]
  /\ UNCHANGED <<cameraMap, disk, doomed, spared, worker, clearing, ghosts>>

(* remove_orphan_thumbnails lists the names in use once, at its start.     *)
EndUpkeep ==
  /\ upkeep.pc = "retire"
  /\ upkeep.assets = {}
  /\ cleanup => ExclusiveFree
  /\ upkeep' = [upkeep EXCEPT !.pc = IF cleanup THEN "sweep" ELSE "idle"]
  /\ spared' = IF cleanup THEN Named ELSE spared
  /\ UNCHANGED <<tables, disk, cleanup, unlinks, doomed, worker, clearing, ghosts>>

(* It deletes every file it did not list, then the marker; the end of a    *)
(* switch spares none.  An I/O error stops either half-way.                *)
Sweeping == clearing \/ upkeep.pc = "sweep"
Orphan(f) == disk[f] # None /\ f \notin spared
EndSweep ==
  /\ clearing' = FALSE
  /\ spared' = {}
  /\ upkeep' = IF upkeep.pc = "sweep" THEN [upkeep EXCEPT !.pc = "idle"] ELSE upkeep

Sweep(f) ==
  /\ Sweeping
  /\ Orphan(f)
  /\ disk' = Removed(f)
  /\ stray' = stray \ {f}
  /\ UNCHANGED <<tables, cleanup, removals, worker, upkeep, clearing, changes, crashes>>

Swept ==
  /\ Sweeping
  /\ \A f \in Names : ~Orphan(f)
  /\ cleanup' = FALSE
  /\ EndSweep
  /\ UNCHANGED <<tables, disk, unlinks, doomed, worker, ghosts>>

SweepFails ==
  /\ Sweeping
  /\ EndSweep
  /\ UNCHANGED <<tables, disk, cleanup, unlinks, doomed, worker, ghosts>>

-----------------------------------------------------------------------------
(* A crash and the restart, which ends with reconcile_missing_thumbnails.  *)
Reconciled(p) == IF Missing(p) THEN [row[p] EXCEPT !.path = None] ELSE row[p]

(* Mutation: rows whose file is gone are not queued again at startup.      *)
RestartKeeps(p) == [retry[p] EXCEPT !.lease = IF @ = None THEN None ELSE Lost]

RestartQueue(p) ==
  IF retry[p].queued
    THEN [retry[p] EXCEPT !.lease = IF @ = None THEN None ELSE Lost]
  ELSE IF Runnable(Reconciled(p)) THEN Fresh ELSE NotQueued

Crash ==
  /\ crashes < MaxCrashes
  /\ crashes' = crashes + 1
  /\ stray' = stray \cup {f \in Names : InFlight(f)}
  /\ row' = [p \in Payments |-> Reconciled(p)]
  /\ retry' = [p \in Payments |-> RestartQueue(p)]
  /\ unlinks' = {} /\ doomed' = {} /\ spared' = {}
  /\ worker' = [w \in Workers |-> Resting]
  /\ upkeep' = [pc |-> "idle", assets |-> {}]
  /\ clearing' = FALSE
  /\ UNCHANGED <<cameraMap, disk, cleanup, changes>>

-----------------------------------------------------------------------------
DrainStep(w) ==
  \/ \E job \in worker[w].jobs : TakeJob(w, job)
  \/ EndBatch(w)
  \/ \E f \in Names : WriteFile(w, f) \/ WriteFails(w, f)
  \/ Attach(w)
  \/ Reject(w)
  \/ Discard(w)
  \/ AttachErrors(w)
  \/ Fail(w)
  \/ Abandon(w)

Next ==
  \/ \E p \in Payments, ts \in Moments, s \in Sources : Ingest(p, ts, s) \/ Edit(p, ts, s)
  \/ \E p \in Payments : Repoll(p) \/ RequeueMissing(p) \/ LeaseExpires(p) \/ BackoffEnds(p)
  \/ \E w \in Workers : Claim(w) \/ DrainStep(w)
  \/ \E f \in Names : Unlink(f) \/ Erase(f) \/ Vanish(f) \/ Sweep(f)
  \/ \E map \in [Sources \cup {Anywhere} -> Cameras \cup {None}] : ReplaceMappings(map)
  \/ SwitchConsole
  \/ SwitchMerchant
  \/ StartUpkeep
  \/ \E asset \in upkeep.assets : PassOver(asset) \/ Retire(asset[1], asset[2])
  \/ EndUpkeep
  \/ Swept
  \/ SweepFails
  \/ Crash

Spec == Init /\ [][Next]_vars

(* The poller drains for ever, claimed batches are worked off, delays and  *)
(* leases elapse, guards are released, a camera that is asked again and    *)
(* again finally delivers a picture, and the database finally attaches it. *)
Fairness ==
  /\ \A w \in Workers :
       /\ SF_vars(Claim(w))
       /\ WF_vars(DrainStep(w))
       /\ SF_vars(\E f \in Names : WriteFile(w, f))
       /\ SF_vars(Attach(w))
  /\ \A p \in Payments : WF_vars(LeaseExpires(p)) /\ WF_vars(BackoffEnds(p))
  /\ \A f \in Names : WF_vars(Unlink(f) \/ Erase(f))
  /\ WF_vars(Swept \/ \E f \in Names : Sweep(f))

FairSpec == Spec /\ Fairness
-----------------------------------------------------------------------------
(* Properties.                                                             *)

Job == [payment : Payments, camera : Cameras, ts : Moments]
RowRecord == [present : BOOLEAN, ts : Moments \cup {None},
              source : Sources \cup {None}, camera : Cameras \cup {None},
              path : Names \cup {None}, expired : BOOLEAN, foreign : BOOLEAN]
RetryRecord == [queued : BOOLEAN, lease : Workers \cup {None, Lost},
                overdue : BOOLEAN, due : BOOLEAN]
WorkerRecord == [pc : {"idle", "next", "capture", "written", "discard", "failed"},
                 jobs : SUBSET Job, job : Job \cup {NoJob}, file : Names \cup {None}]
UpkeepRecord == [pc : {"idle", "retire", "unlink", "sweep"},
                 assets : SUBSET (Payments \X Names)]

TypeOK ==
  /\ row \in [Payments -> RowRecord]
  /\ retry \in [Payments -> RetryRecord]
  /\ cameraMap \in [Sources \cup {Anywhere} -> Cameras \cup {None}]
  /\ disk \in [Names -> Job \cup {None}]
  /\ cleanup \in BOOLEAN
  /\ unlinks \subseteq Names /\ doomed \subseteq Names /\ spared \subseteq Names
  /\ worker \in [Workers -> WorkerRecord]
  /\ upkeep \in UpkeepRecord
  /\ clearing \in BOOLEAN
  /\ changes \in Nat /\ crashes \in Nat
  /\ stray \subseteq Names

(* A payment never shows the picture of another payment, camera or moment, *)
(* although edits, new mappings and other drains overtake its capture.     *)
PicturesMatch ==
  \A p \in Payments : row[p].path # None /\ ~Missing(p) =>
    disk[row[p].path] =
      [payment |-> p, camera |-> row[p].camera, ts |-> row[p].ts]

(* The queue holds exactly the payments whose picture is still wanted: no  *)
(* interleaving of captures, edits, mappings and restarts forgets one.     *)
QueueExact == \A p \in Payments : retry[p].queued <=> Runnable(row[p])

(* Every file on the disk is attached, on its way to be, covered by the    *)
(* marker of a pending clean-up, or was left by a crash or by a failed     *)
(* file operation: no refused attachment, supersession, retirement, switch *)
(* or interrupted sweep loses sight of a file by itself.                   *)
NoStrayFiles ==
  \A f \in Names : disk[f] # None =>
    Referenced(f) \/ InFlight(f) \/ f \in stray \/ cleanup

(* A picture retired by age or quota is never captured again, and evidence *)
(* of the old console never comes back, unless the payment itself goes.    *)
RetiredForGood ==
  [][\A p \in Payments : (row[p].expired \/ row[p].foreign) /\ row'[p].present
       => row'[p].path = None /\ ~retry'[p].queued]_vars

(* Nobody but an outsider deletes a file that a payment shows at that      *)
(* moment, or that a drain has published and not yet attached, unless it   *)
(* is that drain: although a sweep goes by names it listed before, and a   *)
(* deletion by a question it asked before.                                 *)
DeletesOnlyUnused ==
  [][\A f \in Names : disk[f] # None /\ disk'[f] = None =>
       \/ Vanish(f)
       \/ ~Referenced(f) /\ \A w \in Workers : worker[w].file = f => worker'[w].file # f]_vars

(* A wanted picture is captured in the end, or is wanted no more.          *)
EventuallyCaptured ==
  \A p \in Payments : Runnable(row[p]) ~> ~Runnable(row[p])
=============================================================================
