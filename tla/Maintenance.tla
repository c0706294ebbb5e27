----------------------------- MODULE Maintenance -----------------------------
(***************************************************************************)
(* Thumbnail maintenance: the in-memory queue that coalesces requests into *)
(* runs, and what a run does to the stored pictures under a policy that    *)
(* administrators may replace, and pictures that polls may supersede,      *)
(* while it runs.                                                          *)
(*                                                                         *)
(* A run compresses pictures of an older policy revision when it was asked *)
(* to, then retires pictures that are too old, then pictures that exceed   *)
(* the storage quota.  It works from lists it read earlier and takes the   *)
(* exclusive integration guard for one picture at a time.                  *)
(***************************************************************************)
EXTENDS Naturals, FiniteSets

CONSTANTS
  Payments,     \* payments that have, or get, a picture
  Admins,       \* concurrent requests of administrators
  Startup,      \* the request start_background_work makes
  Qualities,    \* compression settings
  Runners,      \* slots for run_maintenance_queue tasks
  MaxSaves,     \* bound: policies saved
  MaxPictures,  \* bound: pictures captured of one payment
  MaxCrashes    \* bound: process crashes

ASSUME StartupAssumption == Startup \notin Admins
ASSUME QualitiesAssumption == "off" \notin Qualities
ASSUME RunnersAssumption == Runners # {}
ASSUME BoundsAssumption ==
  MaxSaves \in Nat /\ MaxPictures \in Nat /\ MaxCrashes \in Nat

Requesters == Admins \cup {Startup}

VARIABLES
  queue,     \* AppState.maintenance_queue
  status,    \* AppState.maintenance, the "state" administrators see
  request,   \* requests that still have to call schedule_maintenance
  runner,    \* run_maintenance_queue tasks
  policy,    \* the thumbnail.* settings
  asset,     \* the stored picture of each payment
  old,       \* payments older than any retention period
  asked,     \* ghost: pictures an accepted request is to compress
  owed,      \* ghost: pictures an accepted request is to retire
  saves, crashes    \* ghosts: counters of the bounds

stored == <<policy, asset, old>>
ghosts == <<asked, owed>>
counters == <<saves, crashes>>
vars == <<queue, status, request, runner, stored, ghosts, counters>>

-----------------------------------------------------------------------------
Compressions == {"off"} \cup Qualities
NoPolicy == [compression |-> "off", retention |-> FALSE, quota |-> FALSE, revision |-> 0]
NoRun == [pc |-> "idle", optimize |-> FALSE, policy |-> NoPolicy, due |-> {}, todo |-> {}]
Quiet == [pc |-> "idle", optimize |-> FALSE]
AtStartup == [r \in Requesters |->
                IF r = Startup THEN [Quiet EXCEPT !.pc = "schedule"] ELSE Quiet]
NoQueue == [active |-> FALSE, pending |-> FALSE, optimize |-> FALSE]
NoAsset == [state |-> "none", picture |-> 0, revision |-> 0]

Kept == {p \in Payments : asset[p].state = "kept"}

(* list_thumbnail_assets: rows as they were read.                          *)
Listed == {[id |-> p, picture |-> asset[p].picture, revision |-> asset[p].revision] :
             p \in Kept}

(* The payment still has the picture, and the metadata, that were listed.  *)
SamePicture(t) == t.id \in Kept /\ asset[t.id].picture = t.picture
IsCurrent(t) == SamePicture(t) /\ asset[t.id].revision = t.revision

Init ==
  /\ queue = NoQueue
  /\ status = "idle"
  /\ request = AtStartup
  /\ runner = [r \in Runners |-> NoRun]
  /\ policy = NoPolicy
  /\ asset \in [Payments -> {NoAsset, [NoAsset EXCEPT !.state = "kept", !.picture = 1]}]
  /\ old \in SUBSET Payments
  /\ asked = {} /\ owed = {}
  /\ saves = 0 /\ crashes = 0

(* A picture is stored, compressed under the policy in force.              *)
Capture(p) ==
  /\ asset[p].state = "none"
  /\ asset[p].picture < MaxPictures
  /\ asset' = [asset EXCEPT ![p] =
       [state |-> "kept", picture |-> @.picture + 1,
        revision |-> IF policy.compression = "off" THEN 0 ELSE policy.revision]]
  /\ UNCHANGED <<queue, status, request, runner, policy, old, ghosts, counters>>

(* A poll moves the payment to another camera: its picture is superseded.  *)
Supersede(p) ==
  /\ p \in Kept
  /\ asset' = [asset EXCEPT ![p].state = "none", ![p].revision = 0]
  /\ asked' = asked \ {p} /\ owed' = owed \ {p}
  /\ UNCHANGED <<queue, status, request, runner, policy, old, counters>>

(* Time passes; polls go on, and do not look at the age of pictures.       *)
GrowsOld(p) ==
  /\ p \notin old
  /\ old' = old \cup {p}
  /\ UNCHANGED <<queue, status, request, runner, policy, asset, ghosts, counters>>

-----------------------------------------------------------------------------
(* Requests.  Saving a policy and scheduling its run are two steps.        *)

(* Mutation: switching compression off starts the revisions over.          *)
RevisionsRestart(compression) ==
  IF compression = "off" THEN 0 ELSE policy.revision + 1

NextRevision(compression) ==
  IF compression = policy.compression THEN policy.revision ELSE policy.revision + 1

(* update_thumbnail_policy: only compression settings make a new revision. *)
SavePolicy(a, compression, retention, quota) ==
  /\ request[a].pc = "idle"
  /\ saves < MaxSaves
  /\ policy' = [compression |-> compression, retention |-> retention, quota |-> quota,
                revision |-> NextRevision(compression)]
  /\ request' = [request EXCEPT ![a] =
       [pc |-> "schedule", optimize |-> compression # "off" /\ quota]]
  /\ asked' = IF policy' = policy THEN asked ELSE {}
  /\ owed' = IF policy' = policy THEN owed ELSE {}
  /\ saves' = saves + 1
  /\ UNCHANGED <<queue, status, runner, asset, old, crashes>>

Outdated == {p \in Kept : policy.compression # "off" /\ asset[p].revision < policy.revision}
Overdue == {p \in Kept \cap old : policy.retention}

(* The slot a spawned task takes; it is free unless every slot is busy.    *)
FreeRunner == CHOOSE n \in Runners : runner[n].pc = "idle"

(* Mutation: every request starts a run of its own.                        *)
ScheduleAlways(r, optimize) ==
  /\ queue' = [active |-> TRUE, pending |-> FALSE, optimize |-> queue.optimize \/ optimize]
  /\ status' = "queued"
  /\ runner' = [runner EXCEPT ![FreeRunner].pc = "begin"]

(* Mutation: a request during a run is dropped.                            *)
ScheduleOnce(r, optimize) ==
  IF queue.active THEN UNCHANGED <<queue, status, runner>>
  ELSE ScheduleAlways(r, optimize)

(* Mutation: a request shows "queued" even while a run is under way.       *)
ScheduleLoud(r, optimize) ==
  IF queue.active
    THEN /\ queue' = [queue EXCEPT !.pending = TRUE, !.optimize = @ \/ optimize]
         /\ status' = "queued"
         /\ UNCHANGED runner
    ELSE ScheduleAlways(r, optimize)

(* schedule_maintenance, under the lock of the queue.                      *)
Schedule(r, optimize) ==
  IF queue.active
    THEN /\ queue' = [queue EXCEPT !.pending = TRUE, !.optimize = @ \/ optimize]
         /\ UNCHANGED <<status, runner>>
    ELSE /\ queue' = [active |-> TRUE, pending |-> FALSE,
                      optimize |-> queue.optimize \/ optimize]
         /\ status' = "queued"
         /\ runner' = [runner EXCEPT ![FreeRunner].pc = "begin"]

Accepted(optimize) ==
  /\ asked' = IF optimize THEN Outdated ELSE asked
  /\ owed' = Overdue

FinishRequest(r) ==
  /\ request[r].pc = "schedule"
  /\ Schedule(r, request[r].optimize)
  /\ request' = [request EXCEPT ![r] = Quiet]
  /\ Accepted(request[r].optimize)
  /\ UNCHANGED <<stored, counters>>

(* The button "Optimize existing thumbnails now".                          *)
OptimizeNow(a) ==
  /\ request[a].pc = "idle"
  /\ Schedule(a, TRUE)
  /\ Accepted(TRUE)
  /\ UNCHANGED <<request, stored, counters>>

-----------------------------------------------------------------------------
(* The queue's task takes the flags, runs, reports and looks again.        *)
Begin(r) ==
  /\ runner[r].pc = "begin"
  /\ runner' = [runner EXCEPT ![r].pc = "load", ![r].optimize = queue.optimize]
  /\ queue' = [queue EXCEPT !.pending = FALSE, !.optimize = FALSE]
  /\ status' = "running"
  /\ UNCHANGED <<request, stored, ghosts, counters>>

(* run_thumbnail_maintenance reads the clock, the policy and the pictures. *)
LoadPolicy(r) ==
  /\ runner[r].pc = "load"
  /\ runner' = [runner EXCEPT ![r].pc = "optimize", ![r].policy = policy,
                              ![r].due = old, ![r].todo = Listed]
  /\ UNCHANGED <<queue, status, request, stored, ghosts, counters>>

Outdates(r, t) ==
  /\ runner[r].optimize
  /\ runner[r].policy.compression # "off"
  /\ t.revision < runner[r].policy.revision

Drop(r, t) == [runner EXCEPT ![r].todo = @ \ {t}]
GiveUp(r, pc) == [runner EXCEPT ![r] = [NoRun EXCEPT !.pc = pc]]

(* Mutation: the policy is not read again under the guard.                 *)
AssumedUnchanged(r) == TRUE

PolicyUnchanged(r) == policy = runner[r].policy

(* One picture is compressed, under the guard, if the policy still holds   *)
(* and the picture is the one that was listed.                             *)
Optimize(r, t) ==
  /\ runner[r].pc = "optimize"
  /\ Outdates(r, t)
  /\ PolicyUnchanged(r)
  /\ runner' = Drop(r, t)
  /\ IF IsCurrent(t)
       THEN /\ asset' = [asset EXCEPT ![t.id].revision = runner[r].policy.revision]
            /\ asked' = asked \ {t.id}
       ELSE UNCHANGED <<asset, asked>>
  /\ UNCHANGED <<queue, status, request, policy, old, owed, counters>>

(* The file could not be read or written: the run goes on without it.      *)
OptimizeFails(r, t) ==
  /\ runner[r].pc = "optimize"
  /\ Outdates(r, t)
  /\ runner' = Drop(r, t)
  /\ asked' = asked \ {t.id}
  /\ UNCHANGED <<queue, status, request, stored, owed, counters>>

(* The pictures are listed again.                                          *)
EndOptimize(r) ==
  /\ runner[r].pc = "optimize"
  /\ \A t \in runner[r].todo : ~Outdates(r, t)
  /\ runner' = [runner EXCEPT ![r].pc = "age", ![r].todo = Listed]
  /\ UNCHANGED <<queue, status, request, stored, ghosts, counters>>

TooOld(r, t) == runner[r].policy.retention /\ t.id \in runner[r].due

(* retire_thumbnail.                                                       *)
Retire(r, t) ==
  /\ \/ runner[r].pc = "age" /\ TooOld(r, t)
     \/ runner[r].pc = "quota"
  /\ PolicyUnchanged(r)
  /\ runner' = Drop(r, t)
  /\ IF SamePicture(t)
       THEN /\ asset' = [asset EXCEPT ![t.id].state = "retired", ![t.id].revision = 0]
            /\ asked' = asked \ {t.id} /\ owed' = owed \ {t.id}
       ELSE UNCHANGED <<asset, ghosts>>
  /\ UNCHANGED <<queue, status, request, policy, old, counters>>

EndAge(r) ==
  /\ runner[r].pc = "age"
  /\ \A t \in runner[r].todo : ~TooOld(r, t)
  /\ runner' = [runner EXCEPT ![r].pc = "quota",
                              ![r].todo = IF runner[r].policy.quota THEN @ ELSE {}]
  /\ UNCHANGED <<queue, status, request, stored, ghosts, counters>>

(* The outcome is published, and only then is the queue looked at.         *)
Report(r) ==
  /\ status' = "complete"
  /\ runner' = GiveUp(r, "look")
  /\ UNCHANGED <<queue, request, stored, ghosts, counters>>

(* The pictures that are left fit the quota, or none are left.             *)
EndQuota(r) == runner[r].pc = "quota" /\ Report(r)

(* Another policy is met under the guard: the run gives up, and reports    *)
(* completion.                                                             *)
PolicyChanged(r) ==
  /\ \E t \in runner[r].todo :
       \/ runner[r].pc = "optimize" /\ Outdates(r, t)
       \/ runner[r].pc = "age" /\ TooOld(r, t)
       \/ runner[r].pc = "quota"
  /\ ~PolicyUnchanged(r)
  /\ Report(r)

(* A database or file error, or a panic, ends a run; the queue goes on.    *)
(* Requests made since the run began are still to be served.               *)
RunFails(r) ==
  /\ runner[r].pc \in {"load", "optimize", "age", "quota"}
  /\ status' = "error"
  /\ runner' = GiveUp(r, "look")
  /\ asked' = IF queue.optimize THEN asked ELSE {}
  /\ owed' = IF queue.pending THEN owed ELSE {}
  /\ UNCHANGED <<queue, request, stored, counters>>

(* Mutation: the task ends without looking at requests made meanwhile.     *)
LookAway(r) ==
  /\ runner[r].pc = "look"
  /\ queue' = [queue EXCEPT !.active = FALSE]
  /\ runner' = GiveUp(r, "idle")
  /\ UNCHANGED <<status, request, stored, ghosts, counters>>

LookAgain(r) ==
  /\ runner[r].pc = "look"
  /\ IF queue.pending \/ queue.optimize
       THEN runner' = GiveUp(r, "begin") /\ UNCHANGED queue
       ELSE runner' = GiveUp(r, "idle") /\ queue' = [queue EXCEPT !.active = FALSE]
  /\ UNCHANGED <<status, request, stored, ghosts, counters>>

(* The process restarts; only the settings and the pictures are stored.    *)
Crash ==
  /\ crashes < MaxCrashes
  /\ crashes' = crashes + 1
  /\ queue' = NoQueue
  /\ status' = "idle"
  /\ request' = AtStartup
  /\ runner' = [r \in Runners |-> NoRun]
  /\ asked' = {} /\ owed' = {}
  /\ UNCHANGED <<stored, saves>>

-----------------------------------------------------------------------------
(* Every loop makes progress; the quota may stop short.                    *)
RunStep(r) ==
  \/ Begin(r)
  \/ LoadPolicy(r)
  \/ \E t \in runner[r].todo :
       \/ Optimize(r, t) \/ OptimizeFails(r, t) \/ Retire(r, t)
  \/ EndOptimize(r)
  \/ EndAge(r)
  \/ EndQuota(r)
  \/ PolicyChanged(r)
  \/ RunFails(r)
  \/ LookAgain(r)

Next ==
  \/ \E p \in Payments : Capture(p) \/ Supersede(p) \/ GrowsOld(p)
  \/ \E a \in Admins :
       \/ \E c \in Compressions, retention, quota \in BOOLEAN :
            SavePolicy(a, c, retention, quota)
       \/ OptimizeNow(a)
  \/ \E r \in Requesters : FinishRequest(r)
  \/ \E r \in Runners : RunStep(r)
  \/ Crash

Spec == Init /\ [][Next]_vars

(* Tasks are scheduled, and the guard is released by its other holders.    *)
Fairness ==
  /\ \A r \in Requesters : WF_vars(FinishRequest(r))
  /\ \A r \in Runners : WF_vars(RunStep(r))

FairSpec == Spec /\ Fairness
-----------------------------------------------------------------------------
(* Properties.                                                             *)

Policies == [compression : Compressions, retention : BOOLEAN, quota : BOOLEAN,
             revision : Nat]

(* Types of the queue, the tasks and the stored state; no picture carries  *)
(* a revision that update_thumbnail_policy has not given out.              *)
TypeOK ==
  /\ queue \in [active : BOOLEAN, pending : BOOLEAN, optimize : BOOLEAN]
  /\ status \in {"idle", "queued", "running", "complete", "error"}
  /\ request \in [Requesters -> [pc : {"idle", "schedule"}, optimize : BOOLEAN]]
  /\ runner \in [Runners ->
       [pc : {"idle", "begin", "load", "optimize", "age", "quota", "look"},
        optimize : BOOLEAN, policy : Policies, due : SUBSET Payments,
        todo : SUBSET [id : Payments, picture : Nat, revision : Nat]]]
  /\ policy \in Policies
  /\ asset \in [Payments -> [state : {"none", "kept", "retired"}, picture : Nat,
                             revision : 0 .. policy.revision]]
  /\ old \subseteq Payments
  /\ asked \subseteq Payments /\ owed \subseteq Payments
  /\ saves \in Nat /\ crashes \in Nat

(* One run at a time: the queue is marked active exactly while one task    *)
(* works for it (the hand-over between schedule_maintenance and the end of *)
(* run_maintenance_queue).  No request is left behind: flags are only set  *)
(* while that task will still look at them.                                *)
SingleRunner ==
  /\ Cardinality({r \in Runners : runner[r].pc # "idle"}) = (IF queue.active THEN 1 ELSE 0)
  /\ queue.pending \/ queue.optimize => queue.active

(* What administrators see is what happens: "running" exactly while a run  *)
(* is made, "queued" only before one, and neither once the queue is idle.  *)
StatusHonest ==
  /\ status = "running" <=>
       \E r \in Runners : runner[r].pc \in {"load", "optimize", "age", "quota"}
  /\ status = "queued" => \E r \in Runners : runner[r].pc = "begin"

(* Pictures are handled under the policy in force only, whichever policy a *)
(* run started with: one is retired for a reason that policy gives, never  *)
(* one that was relaxed while the run was under way; and a kept picture is *)
(* recompressed only for the revision in force, never marked with an older *)
(* one.                                                                    *)
PolicyInForce ==
  [][\A p \in Payments : asset[p].state = "kept" =>
       /\ asset'[p].state = "retired" => policy.quota \/ (policy.retention /\ p \in old)
       /\ asset'[p].state = "kept" /\ asset'[p].revision # asset[p].revision
            => /\ asset'[p].revision = policy.revision
               /\ asset'[p].revision > asset[p].revision]_vars

(* A request to maintain is served: every picture that was too old, or of  *)
(* an older revision, when it was accepted is retired, or compressed,      *)
(* unless the run that took the request fails or runs fail for ever, the   *)
(* policy or the picture is replaced, or the process crashes.              *)
RequestsServed ==
  \A p \in Payments :
    /\ (p \in owed) ~> (p \notin owed \/ status = "error")
    /\ (p \in asked) ~> (p \notin asked \/ status = "error")
=============================================================================
