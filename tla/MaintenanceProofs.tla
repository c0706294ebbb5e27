-------------------------- MODULE MaintenanceProofs --------------------------
(***************************************************************************)
(* Proofs about Maintenance, for any number of payments, requests, slots   *)
(* and bounds: the queue never has two tasks, nor flags without one; what  *)
(* is shown is what happens; and no picture is touched under a policy that *)
(* is no longer in force.                                                  *)
(*                                                                         *)
(* The task that is not idle is the queue's: whoever finds the queue       *)
(* active leaves a flag to that task, which clears "active" only when it   *)
(* finds no flag under the same lock.  Everything else about a run is said *)
(* of that one task.                                                       *)
(***************************************************************************)
EXTENDS Maintenance, FiniteSetTheorems, TLAPS

USE StartupAssumption, QualitiesAssumption, RunnersAssumption, BoundsAssumption

-----------------------------------------------------------------------------
Busy == {"load", "optimize", "age", "quota"}

(* The queue's task, if there is one, is the only one.                     *)
OneTask ==
  /\ \A q, r \in Runners : runner[q].pc # "idle" /\ runner[r].pc # "idle" => q = r
  /\ queue.active <=> \E r \in Runners : runner[r].pc # "idle"
  /\ queue.pending \/ queue.optimize => queue.active

(* What a run knows was true when it read it, and ages only grow.          *)
RunShape(k) ==
  /\ k.due \subseteq old
  /\ k.pc = "quota" /\ k.todo # {} => k.policy.quota

Runs == \A r \in Runners : RunShape(runner[r])

IInv == TypeOK /\ OneTask /\ Runs /\ StatusHonest

-----------------------------------------------------------------------------
Picture == [id : Payments, picture : Nat, revision : Nat]
RunnerRecord == [pc : {"idle", "begin", "load", "optimize", "age", "quota", "look"},
                 optimize : BOOLEAN, policy : Policies, due : SUBSET Payments,
                 todo : SUBSET Picture]
QueueRecord == [active : BOOLEAN, pending : BOOLEAN, optimize : BOOLEAN]
Statuses == {"idle", "queued", "running", "complete", "error"}
RequestRecord == [pc : {"idle", "schedule"}, optimize : BOOLEAN]
AssetRecord == [state : {"none", "kept", "retired"}, picture : Nat,
                revision : 0 .. policy.revision]

(* The same types, with a name for each record.                            *)
LEMMA Types ==
  TypeOK <=>
    /\ queue \in QueueRecord /\ status \in Statuses
    /\ request \in [Requesters -> RequestRecord]
    /\ runner \in [Runners -> RunnerRecord]
    /\ policy \in Policies /\ asset \in [Payments -> AssetRecord]
    /\ old \subseteq Payments /\ asked \subseteq Payments /\ owed \subseteq Payments
    /\ saves \in Nat /\ crashes \in Nat
BY DEF TypeOK, QueueRecord, Statuses, RequestRecord, RunnerRecord, AssetRecord, Picture

LEMMA PolicyTypes ==
  /\ NoPolicy \in Policies
  /\ \A q \in Policies : q.revision \in Nat /\ q.quota \in BOOLEAN /\ q.retention \in BOOLEAN
  /\ NoRun \in RunnerRecord /\ NoRun.pc = "idle" /\ RunShape(NoRun)
  /\ \A pc \in {"idle", "begin", "look"} :
       LET k == [NoRun EXCEPT !.pc = pc] IN k \in RunnerRecord /\ k.pc = pc /\ RunShape(k)
BY DEF NoPolicy, Policies, Compressions, NoRun, RunnerRecord, RunShape

LEMMA AtRest ==
  /\ AtStartup \in [Requesters -> RequestRecord]
  /\ Quiet \in RequestRecord
  /\ NoQueue \in QueueRecord
  /\ ~NoQueue.active /\ ~NoQueue.pending /\ ~NoQueue.optimize
BY DEF AtStartup, Quiet, RequestRecord, NoQueue, QueueRecord

LEMMA InitKeeps == Init => IInv
<1> SUFFICES ASSUME Init PROVE IInv
  OBVIOUS
<1>1. asset \in [Payments -> AssetRecord]
  <2>1. /\ NoAsset \in AssetRecord
        /\ [NoAsset EXCEPT !.state = "kept", !.picture = 1] \in AssetRecord
    <3>1. 0 \in 0 .. policy.revision
      BY DEF Init, NoPolicy
    <3>2. QED
      BY <3>1 DEF NoAsset, AssetRecord
  <2>2. QED
    BY <2>1 DEF Init
<1>2. TypeOK
  BY <1>1, PolicyTypes, AtRest, Types DEF Init, Statuses
<1>3. OneTask /\ Runs /\ StatusHonest
  BY PolicyTypes, AtRest DEF Init, OneTask, Runs, StatusHonest, Busy
<1>4. QED
  BY <1>2, <1>3 DEF IInv

-----------------------------------------------------------------------------
(* A step of the queue's task, which ends as k.                            *)
LEMMA TaskKeeps ==
  ASSUME IInv, NEW r \in Runners, runner[r].pc # "idle",
         NEW k \in RunnerRecord, runner' = [runner EXCEPT ![r] = k], RunShape(k),
         queue' \in QueueRecord, status' \in Statuses,
         UNCHANGED <<request, policy, old, counters>>,
         asset' \in [Payments -> AssetRecord],
         asked' \subseteq Payments, owed' \subseteq Payments,
         queue'.active <=> k.pc # "idle",
         queue'.pending \/ queue'.optimize => queue'.active,
         status' = "running" <=> k.pc \in Busy,
         status' = "queued" => k.pc = "begin"
  PROVE  IInv'
<1>1. TypeOK /\ OneTask /\ Runs
  BY DEF IInv
<1>2. runner \in [Runners -> RunnerRecord] /\ UNCHANGED <<saves, crashes>>
  BY <1>1, Types DEF counters
<1>3. runner'[r] = k /\ \A q \in Runners \ {r} : runner'[q] = runner[q] /\ runner[q].pc = "idle"
  BY <1>1, <1>2 DEF OneTask
<1>4. TypeOK'
  <2>1. AssetRecord' = AssetRecord
    BY DEF AssetRecord
  <2>2. runner' \in [Runners -> RunnerRecord]
    BY <1>2
  <2>3. QED
    BY <1>1, <1>2, <2>1, <2>2, Types DEF TypeOK, AssetRecord, RunnerRecord, Picture, QueueRecord,
                                          Statuses, RequestRecord
<1>5. OneTask'
  BY <1>3 DEF OneTask
<1>6. Runs'
  BY <1>1, <1>3 DEF Runs, RunShape
<1>7. StatusHonest'
  BY <1>3 DEF StatusHonest, Busy
<1>8. QED
  BY <1>4, <1>5, <1>6, <1>7 DEF IInv

(* What the list of a run holds.                                           *)
LEMMA ListedType ==
  ASSUME TypeOK
  PROVE  Listed \in SUBSET Picture
<1>1. asset \in [Payments -> AssetRecord] /\ policy.revision \in Nat
  BY Types, PolicyTypes
<1>2. \A p \in Payments : asset[p].picture \in Nat /\ asset[p].revision \in Nat
  BY <1>1 DEF AssetRecord
<1>3. QED
  BY <1>2 DEF Listed, Kept, Picture

(* A step of a run that leaves the queue, the status and the pictures be.  *)
LEMMA RunKeeps ==
  ASSUME IInv, NEW r \in Runners, runner[r].pc \in Busy,
         NEW k \in RunnerRecord, runner' = [runner EXCEPT ![r] = k], RunShape(k), k.pc \in Busy,
         UNCHANGED <<queue, status, request, policy, old, counters>>,
         asset' \in [Payments -> AssetRecord],
         asked' \subseteq Payments, owed' \subseteq Payments
  PROVE  IInv'
<1>1. TypeOK /\ OneTask /\ StatusHonest
  BY DEF IInv
<1>2. queue.active /\ status = "running"
  BY <1>1 DEF OneTask, StatusHonest, Busy
<1>3. queue' \in QueueRecord /\ status' \in Statuses /\ runner[r].pc # "idle" /\ k.pc # "idle"
  BY <1>1, Types DEF Busy
<1>4. QED
  BY <1>1, <1>2, <1>3, TaskKeeps DEF OneTask

LEMMA BeginKeeps ==
  ASSUME IInv, NEW r \in Runners, Begin(r)
  PROVE  IInv'
<1> DEFINE k == [runner[r] EXCEPT !.pc = "load", !.optimize = queue.optimize]
<1>1. /\ TypeOK /\ OneTask /\ queue \in QueueRecord /\ runner \in [Runners -> RunnerRecord]
      /\ RunShape(runner[r])
  BY Types DEF IInv, Runs
<1>2. /\ runner[r].pc = "begin" /\ status' = "running"
      /\ queue' = [queue EXCEPT !.pending = FALSE, !.optimize = FALSE]
      /\ UNCHANGED <<request, policy, old, asset, asked, owed, counters>>
  BY DEF Begin, stored, ghosts
<1>3. runner' = [runner EXCEPT ![r] = k]
  BY <1>1 DEF Begin
<1>4. /\ k \in RunnerRecord /\ k.pc = "load" /\ k.due = runner[r].due
  BY <1>1 DEF RunnerRecord, QueueRecord
<1> HIDE DEF k
<1>5. RunShape(k)
  BY <1>1, <1>4 DEF RunShape
<1>6. /\ queue' \in QueueRecord /\ queue'.active = queue.active
      /\ ~queue'.pending /\ ~queue'.optimize
  BY <1>1, <1>2 DEF QueueRecord
<1>7. queue.active
  BY <1>1, <1>2 DEF OneTask
<1>8. /\ asset' \in [Payments -> AssetRecord] /\ asked' \subseteq Payments
      /\ owed' \subseteq Payments /\ status' \in Statuses
  BY <1>1, <1>2, Types DEF Statuses
<1>9. runner[r].pc # "idle" /\ k.pc \in Busy /\ k.pc # "idle" /\ status' # "queued"
  BY <1>2, <1>4 DEF Busy
<1>10. QED
  BY <1>2, <1>3, <1>4, <1>5, <1>6, <1>7, <1>8, <1>9, TaskKeeps

LEMMA LoadPolicyKeeps ==
  ASSUME IInv, NEW r \in Runners, LoadPolicy(r)
  PROVE  IInv'
<1> DEFINE k == [runner[r] EXCEPT !.pc = "optimize", !.policy = policy, !.due = old, !.todo = Listed]
<1>1. /\ TypeOK /\ runner \in [Runners -> RunnerRecord] /\ policy \in Policies
      /\ old \subseteq Payments /\ Listed \in SUBSET Picture
  BY Types, ListedType DEF IInv
<1>2. /\ runner[r].pc = "load"
      /\ UNCHANGED <<queue, status, request, policy, old, asset, asked, owed, counters>>
  BY DEF LoadPolicy, stored, ghosts
<1>3. runner' = [runner EXCEPT ![r] = k]
  BY <1>1 DEF LoadPolicy
<1>4. k \in RunnerRecord /\ k.pc = "optimize" /\ k.due = old
  BY <1>1 DEF RunnerRecord
<1> HIDE DEF k
<1>5. RunShape(k)
  BY <1>4 DEF RunShape
<1>6. /\ asset' \in [Payments -> AssetRecord] /\ asked' \subseteq Payments
      /\ owed' \subseteq Payments
  BY <1>1, <1>2, Types
<1>7. QED
  BY <1>2, <1>3, <1>4, <1>5, <1>6, RunKeeps DEF Busy

(* A picture is done with: it leaves the list.                             *)
LEMMA DropShape ==
  ASSUME IInv, NEW r \in Runners, NEW t, runner' = Drop(r, t), runner[r].pc \in Busy
  PROVE  \E k \in RunnerRecord :
           /\ runner' = [runner EXCEPT ![r] = k]
           /\ RunShape(k) /\ k.pc \in Busy
<1> DEFINE k == [runner[r] EXCEPT !.todo = @ \ {t}]
<1>1. runner \in [Runners -> RunnerRecord] /\ RunShape(runner[r])
  BY Types DEF IInv, Runs
<1>2. runner' = [runner EXCEPT ![r] = k]
  BY <1>1 DEF Drop
<1>3. /\ k \in RunnerRecord /\ k.pc = runner[r].pc /\ k.due = runner[r].due
      /\ k.policy = runner[r].policy /\ k.todo \subseteq runner[r].todo
  BY <1>1 DEF RunnerRecord
<1> HIDE DEF k
<1>4. RunShape(k)
  BY <1>1, <1>3 DEF RunShape
<1>5. QED
  BY <1>2, <1>3, <1>4

LEMMA DropKeeps ==
  ASSUME IInv, NEW r \in Runners, NEW t, runner' = Drop(r, t), runner[r].pc \in Busy,
         UNCHANGED <<queue, status, request, policy, old, counters>>,
         asset' \in [Payments -> AssetRecord],
         asked' \subseteq Payments, owed' \subseteq Payments
  PROVE  IInv'
<1>1. PICK k \in RunnerRecord :
        /\ runner' = [runner EXCEPT ![r] = k]
        /\ RunShape(k) /\ k.pc \in Busy
  BY DropShape
<1>2. QED
  BY <1>1, RunKeeps

LEMMA PictureKeeps ==
  ASSUME IInv, NEW r \in Runners, NEW t \in runner[r].todo,
         Optimize(r, t) \/ OptimizeFails(r, t) \/ Retire(r, t)
  PROVE  IInv'
<1>1. TypeOK /\ asset \in [Payments -> AssetRecord] /\ policy \in Policies
      /\ asked \subseteq Payments /\ owed \subseteq Payments
  BY Types DEF IInv
<1>2. /\ runner' = Drop(r, t) /\ runner[r].pc \in Busy
      /\ UNCHANGED <<queue, status, request, policy, old, counters>>
      /\ asked' \subseteq Payments /\ owed' \subseteq Payments
  BY <1>1 DEF Optimize, OptimizeFails, Retire, Busy, stored, ghosts
<1>3. policy.revision \in 0 .. policy.revision /\ 0 \in 0 .. policy.revision
  BY <1>1, PolicyTypes
<1>4. asset' \in [Payments -> AssetRecord]
  <2>1. CASE Optimize(r, t) /\ IsCurrent(t)
    <3>1. asset' = [asset EXCEPT ![t.id].revision = policy.revision]
      BY <2>1 DEF Optimize, PolicyUnchanged
    <3>2. QED
      BY <1>1, <1>3, <3>1 DEF AssetRecord
  <2>2. CASE Retire(r, t) /\ SamePicture(t)
    <3>1. asset' = [asset EXCEPT ![t.id].state = "retired", ![t.id].revision = 0]
      BY <2>2 DEF Retire
    <3>2. QED
      BY <1>1, <1>3, <3>1 DEF AssetRecord
  <2>3. QED
    BY <1>1, <2>1, <2>2 DEF Optimize, OptimizeFails, Retire, stored
<1>5. QED
  BY <1>2, <1>4, DropKeeps

LEMMA PhaseKeeps ==
  ASSUME IInv, NEW r \in Runners, EndOptimize(r) \/ EndAge(r)
  PROVE  IInv'
<1>1. /\ TypeOK /\ runner \in [Runners -> RunnerRecord] /\ Listed \in SUBSET Picture
      /\ RunShape(runner[r])
  BY Types, ListedType DEF IInv, Runs
<1>2. /\ runner[r].pc \in Busy
      /\ UNCHANGED <<queue, status, request, policy, old, asset, asked, owed, counters>>
  BY DEF EndOptimize, EndAge, Busy, stored, ghosts
<1>3. /\ asset' \in [Payments -> AssetRecord] /\ asked' \subseteq Payments
      /\ owed' \subseteq Payments
  BY <1>1, <1>2, Types
<1>4. CASE EndOptimize(r)
  <2> DEFINE k == [runner[r] EXCEPT !.pc = "age", !.todo = Listed]
  <2>1. runner' = [runner EXCEPT ![r] = k]
    BY <1>1, <1>4 DEF EndOptimize
  <2>2. k \in RunnerRecord /\ k.pc = "age" /\ k.due = runner[r].due
    BY <1>1 DEF RunnerRecord
  <2> HIDE DEF k
  <2>3. RunShape(k)
    BY <1>1, <2>2 DEF RunShape
  <2>4. QED
    BY <1>2, <1>3, <2>1, <2>2, <2>3, RunKeeps DEF Busy
<1>5. CASE EndAge(r)
  <2> DEFINE k == [runner[r] EXCEPT !.pc = "quota",
                                    !.todo = IF runner[r].policy.quota THEN @ ELSE {}]
  <2>1. runner' = [runner EXCEPT ![r] = k]
    BY <1>1, <1>5 DEF EndAge
  <2>2. /\ k \in RunnerRecord /\ k.pc = "quota" /\ k.due = runner[r].due
        /\ k.policy = runner[r].policy
        /\ k.todo = IF runner[r].policy.quota THEN runner[r].todo ELSE {}
    BY <1>1 DEF RunnerRecord
  <2> HIDE DEF k
  <2>3. RunShape(k)
    BY <1>1, <2>2 DEF RunShape
  <2>4. QED
    BY <1>2, <1>3, <2>1, <2>2, <2>3, RunKeeps DEF Busy
<1>6. QED
  BY <1>4, <1>5

(* A run that ends, whatever its outcome, looks at the queue again.        *)
LEMMA RunEndsKeeps ==
  ASSUME IInv, NEW r \in Runners, EndQuota(r) \/ PolicyChanged(r) \/ RunFails(r)
  PROVE  IInv'
<1>1. TypeOK /\ OneTask /\ queue \in QueueRecord
  BY Types DEF IInv
<1> DEFINE k == [NoRun EXCEPT !.pc = "look"]
<1>2. /\ runner[r].pc # "idle" /\ status' \in {"complete", "error"}
      /\ runner' = [runner EXCEPT ![r] = k]
      /\ UNCHANGED <<queue, request, policy, old, asset, counters>>
      /\ asked' \in {asked, {}} /\ owed' \in {owed, {}}
  BY DEF EndQuota, PolicyChanged, RunFails, Report, GiveUp, stored, ghosts
<1>3. k \in RunnerRecord /\ k.pc = "look" /\ RunShape(k)
  BY PolicyTypes
<1> HIDE DEF k
<1>4. /\ asset' \in [Payments -> AssetRecord] /\ asked' \subseteq Payments
      /\ owed' \subseteq Payments /\ status' \in Statuses
  BY <1>1, <1>2, Types DEF Statuses
<1>5. queue.active /\ k.pc \notin Busy /\ k.pc # "idle" /\ status' # "running" /\ status' # "queued"
  BY <1>1, <1>2, <1>3 DEF OneTask, Busy
<1>6. QED
  BY <1>1, <1>2, <1>3, <1>4, <1>5, TaskKeeps DEF OneTask

LEMMA LookAgainKeeps ==
  ASSUME IInv, NEW r \in Runners, LookAgain(r)
  PROVE  IInv'
<1>1. TypeOK /\ OneTask /\ StatusHonest /\ queue \in QueueRecord
  BY Types DEF IInv
<1>2. /\ runner[r].pc = "look"
      /\ UNCHANGED <<status, request, policy, old, asset, asked, owed, counters>>
  BY DEF LookAgain, stored, ghosts
<1>3. status # "running" /\ status # "queued" /\ queue.active
  BY <1>1, <1>2 DEF OneTask, StatusHonest
<1>4. /\ asset' \in [Payments -> AssetRecord] /\ asked' \subseteq Payments
      /\ owed' \subseteq Payments /\ status' \in Statuses
  BY <1>1, <1>2, Types
<1>5. CASE queue.pending \/ queue.optimize
  <2> DEFINE k == [NoRun EXCEPT !.pc = "begin"]
  <2>1. runner' = [runner EXCEPT ![r] = k] /\ queue' = queue
    BY <1>5 DEF LookAgain, GiveUp
  <2>2. k \in RunnerRecord /\ k.pc = "begin" /\ RunShape(k)
    BY PolicyTypes
  <2> HIDE DEF k
  <2>3. k.pc \notin Busy
    BY <2>2 DEF Busy
  <2>4. QED
    BY <1>1, <1>2, <1>3, <1>4, <2>1, <2>2, <2>3, TaskKeeps DEF OneTask
<1>6. CASE ~(queue.pending \/ queue.optimize)
  <2> DEFINE k == [NoRun EXCEPT !.pc = "idle"]
  <2>1. runner' = [runner EXCEPT ![r] = k] /\ queue' = [queue EXCEPT !.active = FALSE]
    BY <1>6 DEF LookAgain, GiveUp
  <2>2. k \in RunnerRecord /\ k.pc = "idle" /\ RunShape(k)
    BY PolicyTypes
  <2> HIDE DEF k
  <2>3. k.pc \notin Busy
    BY <2>2 DEF Busy
  <2>4. /\ queue' \in QueueRecord /\ ~queue'.active
        /\ queue'.pending = queue.pending /\ queue'.optimize = queue.optimize
    BY <1>1, <2>1 DEF QueueRecord
  <2>5. QED
    BY <1>2, <1>3, <1>4, <1>6, <2>1, <2>2, <2>3, <2>4, TaskKeeps
<1>7. QED
  BY <1>5, <1>6

-----------------------------------------------------------------------------
(* Pictures, ages and saved policies: the queue and its task do not move.  *)
LEMMA StillKeeps ==
  ASSUME IInv, TypeOK', UNCHANGED <<queue, status, runner>>, old \subseteq old'
  PROVE  IInv'
BY DEF IInv, OneTask, Runs, RunShape, StatusHonest

LEMMA PaymentKeeps ==
  ASSUME IInv, NEW p \in Payments, Capture(p) \/ Supersede(p) \/ GrowsOld(p)
  PROVE  IInv'
<1>1. TypeOK /\ asset \in [Payments -> AssetRecord] /\ policy \in Policies
  BY Types DEF IInv
<1>2. /\ UNCHANGED <<queue, status, request, runner, policy, counters>>
      /\ asked' \subseteq asked /\ owed' \subseteq owed
      /\ old \subseteq old' /\ old' \subseteq old \cup {p}
  BY DEF Capture, Supersede, GrowsOld, ghosts
<1>3. asset' \in [Payments -> AssetRecord]
  <2>1. policy.revision \in 0 .. policy.revision /\ 0 \in 0 .. policy.revision
    BY <1>1, PolicyTypes
  <2>2. CASE Capture(p)
    <3> DEFINE new == [state |-> "kept", picture |-> asset[p].picture + 1,
                       revision |-> IF policy.compression = "off" THEN 0 ELSE policy.revision]
    <3>1. asset' = [asset EXCEPT ![p] = new]
      BY <1>1, <2>2 DEF Capture
    <3>2. asset[p].picture + 1 \in Nat
      BY <1>1 DEF AssetRecord
    <3>3. new \in AssetRecord
      BY <2>1, <3>2 DEF AssetRecord
    <3> HIDE DEF new
    <3>4. QED
      BY <1>1, <3>1, <3>3
  <2>3. CASE Supersede(p)
    BY <1>1, <2>1, <2>3 DEF Supersede, AssetRecord
  <2>4. CASE GrowsOld(p)
    BY <1>1, <2>4 DEF GrowsOld
  <2>5. QED
    BY <2>2, <2>3, <2>4
<1>4. TypeOK'
  BY <1>1, <1>2, <1>3 DEF TypeOK, AssetRecord, counters
<1>5. QED
  BY <1>2, <1>4, StillKeeps

LEMMA SavePolicyKeeps ==
  ASSUME IInv, NEW a \in Admins, NEW c \in Compressions, NEW retention \in BOOLEAN,
         NEW quota \in BOOLEAN, SavePolicy(a, c, retention, quota)
  PROVE  IInv'
<1>1. /\ TypeOK /\ asset \in [Payments -> AssetRecord] /\ policy \in Policies
      /\ policy.revision \in Nat /\ request \in [Requesters -> RequestRecord]
      /\ asked \subseteq Payments /\ owed \subseteq Payments /\ saves \in Nat
  BY Types, PolicyTypes DEF IInv
<1>2. /\ policy' = [compression |-> c, retention |-> retention, quota |-> quota,
                    revision |-> NextRevision(c)]
      /\ request' = [request EXCEPT ![a] = [pc |-> "schedule", optimize |-> c # "off" /\ quota]]
      /\ asked' \in {asked, {}} /\ owed' \in {owed, {}} /\ saves' = saves + 1
      /\ UNCHANGED <<queue, status, runner, asset, old, crashes>>
  BY DEF SavePolicy
<1>3. NextRevision(c) \in Nat /\ policy.revision <= NextRevision(c)
  BY <1>1 DEF NextRevision
<1>4. policy' \in Policies /\ policy'.revision = NextRevision(c)
  BY <1>2, <1>3 DEF Policies
<1>5. asset' \in [Payments -> [state : {"none", "kept", "retired"}, picture : Nat,
                              revision : 0 .. policy'.revision]]
  <2>1. 0 .. policy.revision \subseteq 0 .. policy'.revision
    BY <1>1, <1>3, <1>4
  <2>2. QED
    BY <1>1, <1>2, <2>1 DEF AssetRecord
<1>6. request' \in [Requesters -> RequestRecord]
  <2>1. [pc |-> "schedule", optimize |-> c # "off" /\ quota] \in RequestRecord
    BY DEF RequestRecord
  <2>2. QED
    BY <1>1, <1>2, <2>1
<1>7. saves' \in Nat
  BY <1>1, <1>2
<1>8. asked' \subseteq Payments /\ owed' \subseteq Payments
  BY <1>1, <1>2
<1>9. TypeOK'
  BY <1>1, <1>2, <1>4, <1>5, <1>6, <1>7, <1>8 DEF TypeOK, RequestRecord
<1>10. QED
  BY <1>2, <1>9, StillKeeps

(* A request sets flags for the task there is, or makes one.               *)
LEMMA ScheduleKeeps ==
  ASSUME IInv, NEW r, NEW optimize \in BOOLEAN, Schedule(r, optimize), Accepted(optimize),
         request' \in [Requesters -> RequestRecord], UNCHANGED <<stored, counters>>
  PROVE  IInv'
<1>1. /\ TypeOK /\ OneTask /\ Runs /\ StatusHonest /\ queue \in QueueRecord
      /\ runner \in [Runners -> RunnerRecord] /\ status \in Statuses
  BY Types DEF IInv
<1>2. UNCHANGED <<policy, asset, old, saves, crashes>>
  BY DEF stored, counters
<1>3. asked' \subseteq Payments /\ owed' \subseteq Payments
  BY <1>1, Types DEF Accepted, Outdated, Overdue, Kept
<1>4. CASE queue.active
  <2>1. /\ queue' = [queue EXCEPT !.pending = TRUE, !.optimize = @ \/ optimize]
        /\ UNCHANGED <<status, runner>>
    BY <1>4 DEF Schedule
  <2>2. queue' \in QueueRecord /\ queue'.active = queue.active
    BY <1>1, <2>1 DEF QueueRecord
  <2>3. TypeOK'
    BY <1>1, <1>2, <1>3, <2>1, <2>2 DEF TypeOK, QueueRecord, RequestRecord
  <2>4. OneTask' /\ Runs' /\ StatusHonest'
    BY <1>1, <1>2, <1>4, <2>1, <2>2 DEF OneTask, Runs, RunShape, StatusHonest
  <2>5. QED
    BY <2>3, <2>4 DEF IInv
<1>5. CASE ~queue.active
  <2> DEFINE n == FreeRunner
             k == [runner[n] EXCEPT !.pc = "begin"]
  <2>1. \A q \in Runners : runner[q].pc = "idle"
    BY <1>1, <1>5 DEF OneTask
  <2>2. n \in Runners
    BY <2>1 DEF FreeRunner
  <2>3. /\ queue' = [active |-> TRUE, pending |-> FALSE, optimize |-> queue.optimize \/ optimize]
        /\ status' = "queued"
    BY <1>5 DEF Schedule
  <2>4. runner' = [runner EXCEPT ![n] = k]
    BY <1>1, <1>5 DEF Schedule
  <2> HIDE DEF n
  <2>5. /\ k \in RunnerRecord /\ k.pc = "begin" /\ k.due = runner[n].due
    BY <1>1, <2>2 DEF RunnerRecord
  <2> HIDE DEF k
  <2>6. runner'[n] = k /\ \A q \in Runners \ {n} : runner'[q] = runner[q]
    BY <1>1, <2>2, <2>4
  <2>7. runner' \in [Runners -> RunnerRecord]
    BY <1>1, <2>2, <2>4, <2>5
  <2>8. queue' \in QueueRecord /\ queue'.active
    BY <2>3 DEF QueueRecord
  <2>9. TypeOK'
    BY <1>1, <1>2, <1>3, <2>3, <2>7, <2>8
       DEF TypeOK, QueueRecord, RequestRecord, RunnerRecord, Picture
  <2>10. OneTask'
    BY <2>1, <2>2, <2>5, <2>6, <2>8 DEF OneTask
  <2>11. Runs'
    BY <1>1, <1>2, <2>2, <2>5, <2>6 DEF Runs, RunShape
  <2>12. StatusHonest'
    BY <2>1, <2>2, <2>3, <2>5, <2>6 DEF StatusHonest
  <2>13. QED
    BY <2>9, <2>10, <2>11, <2>12 DEF IInv
<1>6. QED
  BY <1>4, <1>5

LEMMA RequestKeeps ==
  ASSUME IInv, (\E r \in Requesters : FinishRequest(r)) \/ \E a \in Admins : OptimizeNow(a)
  PROVE  IInv'
<1>1. request \in [Requesters -> RequestRecord]
  BY Types DEF IInv
<1>2. ASSUME NEW r \in Requesters, FinishRequest(r)
      PROVE  IInv'
  <2>1. request[r].optimize \in BOOLEAN
    BY <1>1 DEF RequestRecord
  <2>2. request' \in [Requesters -> RequestRecord]
    BY <1>1, <1>2, AtRest DEF FinishRequest
  <2>3. QED
    BY <1>2, <2>1, <2>2, ScheduleKeeps DEF FinishRequest
<1>3. ASSUME NEW a \in Admins, OptimizeNow(a)
      PROVE  IInv'
  BY <1>1, <1>3, ScheduleKeeps DEF OptimizeNow
<1>4. QED
  BY <1>2, <1>3

LEMMA CrashKeeps ==
  ASSUME IInv, Crash
  PROVE  IInv'
<1>1. TypeOK
  BY DEF IInv
<1>2. /\ queue' = NoQueue /\ status' = "idle" /\ request' = AtStartup
      /\ runner' = [r \in Runners |-> NoRun] /\ asked' = {} /\ owed' = {}
      /\ crashes' = crashes + 1 /\ UNCHANGED <<policy, asset, old, saves>>
  BY DEF Crash, stored
<1>3. TypeOK'
  <2>1. /\ queue' \in QueueRecord /\ request' \in [Requesters -> RequestRecord]
        /\ runner' \in [Runners -> RunnerRecord]
    BY <1>2, AtRest, PolicyTypes
  <2>2. QED
    BY <1>1, <1>2, <2>1 DEF TypeOK, QueueRecord, RequestRecord, RunnerRecord, Picture
<1>4. OneTask' /\ StatusHonest'
  BY <1>2, AtRest, PolicyTypes DEF OneTask, StatusHonest
<1>5. Runs'
  BY <1>2, PolicyTypes DEF Runs, RunShape, NoRun
<1>6. QED
  BY <1>3, <1>4, <1>5 DEF IInv

LEMMA StepKeeps == IInv /\ [Next]_vars => IInv'
<1> SUFFICES ASSUME IInv, [Next]_vars PROVE IInv'
  OBVIOUS
<1>1. CASE \E p \in Payments : Capture(p) \/ Supersede(p) \/ GrowsOld(p)
  BY <1>1, PaymentKeeps
<1>2. CASE \E a \in Admins, c \in Compressions, retention, quota \in BOOLEAN :
             SavePolicy(a, c, retention, quota)
  BY <1>2, SavePolicyKeeps
<1>3. CASE (\E r \in Requesters : FinishRequest(r)) \/ \E a \in Admins : OptimizeNow(a)
  BY <1>3, RequestKeeps
<1>4. CASE \E r \in Runners : RunStep(r)
  BY <1>4, BeginKeeps, LoadPolicyKeeps, PictureKeeps, PhaseKeeps, RunEndsKeeps, LookAgainKeeps
     DEF RunStep
<1>5. CASE Crash
  BY <1>5, CrashKeeps
<1>6. CASE UNCHANGED vars
  BY <1>6 DEF IInv, TypeOK, OneTask, Runs, RunShape, StatusHonest, vars, stored, ghosts, counters
<1>7. QED
  BY <1>1, <1>2, <1>3, <1>4, <1>5, <1>6 DEF Next

(* The inductive invariant.                                                *)
THEOREM Invariant == Spec => []IInv
BY InitKeeps, StepKeeps, PTL DEF Spec

(* The queue, its tasks and the pictures keep their types, and no picture  *)
(* carries a revision that was never given out.                            *)
THEOREM TypeCorrect == Spec => []TypeOK
<1>1. IInv => TypeOK
  BY DEF IInv
<1>2. QED
  BY <1>1, Invariant, PTL

(* Maintenance runs one at a time, and no request is left in a queue that  *)
(* nobody looks at.                                                        *)
THEOREM OneRunAtATime == Spec => []SingleRunner
<1>1. IInv => SingleRunner
  <2> SUFFICES ASSUME IInv PROVE SingleRunner
    OBVIOUS
  <2> DEFINE working == {r \in Runners : runner[r].pc # "idle"}
  <2>1. OneTask
    BY DEF IInv
  <2>2. CASE queue.active
    <3>1. PICK r \in Runners : runner[r].pc # "idle"
      BY <2>1, <2>2 DEF OneTask
    <3>2. working = {r}
      BY <2>1, <3>1 DEF OneTask
    <3>3. Cardinality(working) = 1
      BY <3>2, FS_Singleton
    <3>4. QED
      BY <2>1, <2>2, <3>3 DEF SingleRunner, OneTask
  <2>3. CASE ~queue.active
    <3>1. working = {}
      BY <2>1, <2>3 DEF OneTask
    <3>2. Cardinality(working) = 0
      BY <3>1, FS_EmptySet
    <3>3. QED
      BY <2>1, <2>3, <3>2 DEF SingleRunner, OneTask
  <2>4. QED
    BY <2>2, <2>3
<1>2. QED
  BY <1>1, Invariant, PTL

(* The state administrators see is the state of the runs.                  *)
THEOREM StatusIsHonest == Spec => []StatusHonest
<1>1. IInv => StatusHonest
  BY DEF IInv
<1>2. QED
  BY <1>1, Invariant, PTL

-----------------------------------------------------------------------------
(* What a step may do to a kept picture.                                   *)
Handled ==
  \A p \in Payments : asset[p].state = "kept" =>
    /\ asset'[p].state = "retired" => policy.quota \/ (policy.retention /\ p \in old)
    /\ asset'[p].state = "kept" /\ asset'[p].revision # asset[p].revision
         => /\ asset'[p].revision = policy.revision
            /\ asset'[p].revision > asset[p].revision

LEMMA RetireHandled ==
  ASSUME IInv, NEW r \in Runners, NEW t \in runner[r].todo, Retire(r, t)
  PROVE  Handled
<1>1. asset \in [Payments -> AssetRecord] /\ RunShape(runner[r])
  BY Types DEF IInv, Runs
<1>2. policy.quota \/ (policy.retention /\ t.id \in old)
  BY <1>1 DEF Retire, PolicyUnchanged, TooOld, RunShape
<1>3. \/ asset' = [asset EXCEPT ![t.id].state = "retired", ![t.id].revision = 0]
      \/ asset' = asset
  BY DEF Retire
<1>4. CASE asset' = asset
  BY <1>4 DEF Handled
<1>5. CASE asset' = [asset EXCEPT ![t.id].state = "retired", ![t.id].revision = 0]
  <2> SUFFICES ASSUME NEW p \in Payments, asset[p].state = "kept"
               PROVE  /\ asset'[p].state = "retired" => p = t.id
                      /\ asset'[p].state = "kept" => asset'[p] = asset[p]
    BY <1>2 DEF Handled
  <2>1. p # t.id => asset'[p] = asset[p]
    BY <1>1, <1>5
  <2>2. p = t.id => asset'[p].state = "retired"
    BY <1>1, <1>5 DEF AssetRecord
  <2>3. QED
    BY <2>1, <2>2
<1>6. QED
  BY <1>3, <1>4, <1>5

LEMMA OptimizeHandled ==
  ASSUME IInv, NEW r \in Runners, NEW t \in runner[r].todo, Optimize(r, t)
  PROVE  Handled
<1>1. asset \in [Payments -> AssetRecord] /\ runner \in [Runners -> RunnerRecord]
      /\ policy.revision \in Nat
  BY Types, PolicyTypes DEF IInv
<1>2. CASE asset' = asset
  BY <1>2 DEF Handled
<1>3. CASE asset' # asset
  <2>1. /\ IsCurrent(t) /\ t.revision < policy.revision
        /\ asset' = [asset EXCEPT ![t.id].revision = policy.revision]
    BY <1>3 DEF Optimize, Outdates, PolicyUnchanged
  <2>2. asset[t.id].revision < policy.revision
    BY <2>1 DEF IsCurrent
  <2>3. \A p \in Payments \ {t.id} : asset'[p] = asset[p]
    BY <1>1, <2>1
  <2>4. t.id \in Payments => /\ asset'[t.id].state = asset[t.id].state
                            /\ asset'[t.id].revision = policy.revision
    BY <1>1, <2>1 DEF AssetRecord
  <2>5. t.id \in Payments => asset[t.id].revision \in Nat
    BY <1>1 DEF AssetRecord
  <2>6. QED
    BY <1>1, <2>2, <2>3, <2>4, <2>5 DEF Handled
<1>4. QED
  BY <1>2, <1>3

(* No picture is retired, or recompressed, by a policy that was replaced   *)
(* while the run was under way.                                            *)
THEOREM PolicyInForceHolds == Spec => PolicyInForce
<1>1. IInv /\ [Next]_vars => Handled
  <2> SUFFICES ASSUME IInv, [Next]_vars PROVE Handled
    OBVIOUS
  <2>1. asset \in [Payments -> AssetRecord]
    BY Types DEF IInv
  <2>2. CASE asset' = asset
    BY <2>2 DEF Handled
  <2>3. ASSUME NEW r \in Runners, NEW t \in runner[r].todo, Optimize(r, t) \/ Retire(r, t)
        PROVE  Handled
    BY <2>3, RetireHandled, OptimizeHandled
  <2>4. ASSUME NEW p \in Payments, Capture(p)
        PROVE  Handled
    BY <2>1, <2>4 DEF Capture, Handled
  <2>5. ASSUME NEW p \in Payments, Supersede(p)
        PROVE  Handled
    <3>1. \A q \in Payments \ {p} : asset'[q] = asset[q]
      BY <2>1, <2>5 DEF Supersede
    <3>2. asset'[p].state = "none"
      BY <2>1, <2>5 DEF Supersede, AssetRecord
    <3>3. QED
      BY <3>1, <3>2 DEF Handled
  <2>6. \/ asset' = asset
        \/ \E p \in Payments : Capture(p) \/ Supersede(p)
        \/ \E r \in Runners : \E t \in runner[r].todo : Optimize(r, t) \/ Retire(r, t)
    BY DEF Next, vars, stored, RunStep, GrowsOld, SavePolicy, OptimizeNow, FinishRequest, Begin,
           LoadPolicy, OptimizeFails, EndOptimize, EndAge, EndQuota, PolicyChanged, Report,
           RunFails, LookAgain, Crash
  <2>7. QED
    BY <2>2, <2>3, <2>4, <2>5, <2>6
<1>2. QED
  BY <1>1, Invariant, PTL DEF Spec, PolicyInForce, Handled
=============================================================================
