--------------------------- MODULE AlarmDelivery ---------------------------
(***************************************************************************)
(* Delivery of Protect alarms for completed Square sales.                  *)
(*                                                                         *)
(* A sale's row carries an alarm state: idle -> in_progress (claimed by    *)
(* one drain, with a lease) -> sent.  Drains (the sync pass and the tasks  *)
(* a webhook spawns) run concurrently under the shared integration guard;  *)
(* administrators switch the feature on and off under the exclusive one.   *)
(* The process may crash between any two steps, and Protect may accept a   *)
(* trigger whose answer is lost.                                           *)
(***************************************************************************)
EXTENDS Integers, FiniteSets

CONSTANTS
  Payments,        \* Square payments
  Workers,         \* tasks that may run drain_protect_queues concurrently
  Admins,          \* concurrent requests of administrators
  None,            \* SQL NULL, or an absent setting
  Lease,           \* lifetime of an alarm claim (60 s in the code)
  RequestTimeout,  \* HTTP client timeout (15 s in the code)
  Batch,           \* ids one scan returns (10 in the code)
  Rounds,          \* scans of one drain (20 in the code)
  MaxTime,         \* bound: the clock stops counting here
  MaxEdits,        \* bound: post-creation edits Square makes to a payment
  MaxSaves,        \* bound: saves that change the console generation
  MaxUnsaved,      \* bound: accepted triggers whose answer is lost, per sale
  MaxCrashes       \* bound: process crashes

ASSUME NoneIsNoWorker == None \notin Workers /\ None \notin Payments
ASSUME NoneIsNoTime == None \notin Int
ASSUME LeaseOutlivesRequest ==
  /\ Lease \in Nat /\ RequestTimeout \in Nat
  /\ RequestTimeout < Lease
ASSUME BatchAssumption == Batch \in Nat \ {0} /\ Rounds \in Nat \ {0}
ASSUME BoundsAssumption ==
  /\ MaxTime \in Nat /\ MaxEdits \in Nat /\ MaxSaves \in Nat
  /\ MaxUnsaved \in Nat /\ MaxCrashes \in Nat

VARIABLES
  now,         \* the clock, in ticks
  square,      \* Square's own record of each payment
  versions,    \* snapshots Square has published, deliverable in any order
  row,         \* transactions: status, ts_ms, updated_ts_ms
  alarm,       \* transactions: alarm_state, alarm_claim_token, alarm_claimed_at
  delivered,   \* transactions.alarm_delivered_at_ms IS NOT NULL
  settings,    \* the protect.* settings that matter for alarms
  drain,       \* local state of the running drains
  admin,       \* local state of the administrators' requests
  accepted,    \* ghost: triggers Protect accepted, per sale
  unsaved,     \* ghost: accepted triggers whose answer never reached the row
  crashes      \* ghost: crashes so far

facts     == <<square, versions, row>>
columns   == <<alarm, delivered>>
ghosts    == <<accepted, unsaved, crashes>>
vars      == <<now, facts, columns, settings, drain, admin, ghosts>>

-----------------------------------------------------------------------------
(* The claims.  A claim token is fresh and a drain holds at most one claim *)
(* it may still use, so the token is named by the drain that made it.      *)

Idle == [state |-> "idle", claim |-> None, age |-> 0]
Sent == [state |-> "sent", claim |-> None, age |-> 0]
ClaimedBy(w) == [state |-> "in_progress", claim |-> w, age |-> 0]

Completed(p) == row[p].status = "COMPLETED"

(* Mutation: a claim is taken back without looking at its age.             *)
ExpiredAtOnce(p) == alarm[p].state = "in_progress"

Expired(p) == alarm[p].state = "in_progress" /\ alarm[p].age >= Lease

(* Mutation: nobody takes expired claims back.                             *)
NeverReleased == alarm

(* The rows after the UPDATE that takes expired claims back.               *)
Released == [p \in Payments |-> IF Expired(p) THEN Idle ELSE alarm[p]]

Pending(p) == Completed(p) /\ Released[p].state = "idle"
PendingSet == {p \in Payments : Pending(p)}

(* What pending_alarm_ids may return: the oldest pending sales, at most    *)
(* Batch of them.                                                          *)
OldestPending(ids) ==
  /\ ids \subseteq PendingSet
  /\ Cardinality(ids) <= Batch
  /\ ids # PendingSet => Cardinality(ids) = Batch
  /\ \A p \in ids, q \in PendingSet \ ids : row[p].ts <= row[q].ts

Owns(w, p) == alarm[p].state = "in_progress" /\ alarm[p].claim = w

(* The rows after suppress_pending_alarms.                                 *)
Suppressed == [p \in Payments |-> IF Completed(p) THEN Sent ELSE alarm[p]]

-----------------------------------------------------------------------------
(* The integration guard: drains hold it shared, saves hold it exclusive.  *)

InDrain(w) == drain[w].pc # "idle"
Exclusive(a) == admin[a].pc \in {"switch", "suppress"}
SharedFree == \A a \in Admins : ~Exclusive(a)

(* Mutation: a save only waits for other saves.                            *)
ExclusiveSaves == SharedFree

ExclusiveFree == SharedFree /\ \A w \in Workers : ~InDrain(w)

NoDrain == [pc |-> "idle", todo |-> {}, job |-> None, age |-> 0,
            done |-> 0, round |-> 0]
NoSave == [pc |-> "idle", seen |-> [on |-> FALSE, boundary |-> None, gen |-> 0],
           submitted |-> FALSE]

Init ==
  /\ now = 0
  /\ square = [p \in Payments |->
                 [status |-> "NONE", ts |-> 0, updated |-> 0, completed |-> None,
                  edits |-> 0]]
  /\ versions = {}
  /\ row = [p \in Payments |-> [status |-> "NONE", ts |-> 0, updated |-> 0]]
  /\ alarm = [p \in Payments |-> Idle]
  /\ delivered = [p \in Payments |-> FALSE]
  /\ settings = [on |-> FALSE, boundary |-> None, gen |-> 0]
  /\ drain = [w \in Workers |-> NoDrain]
  /\ admin = [a \in Admins |-> NoSave]
  /\ accepted = [p \in Payments |-> 0]
  /\ unsaved = [p \in Payments |-> 0]
  /\ crashes = 0

-----------------------------------------------------------------------------
(* Square: payments open approved or already completed, complete, and are  *)
(* edited afterwards (tips, refunds); every change publishes a snapshot.   *)

Snapshot(p, status, ts, updated) ==
  [payment |-> p, status |-> status, ts |-> ts, updated |-> updated]

SquareOpens(p, status) ==
  /\ square[p].status = "NONE"
  /\ square' = [square EXCEPT ![p] =
                  [status |-> status, ts |-> now, updated |-> now, edits |-> 0,
                   completed |-> IF status = "COMPLETED" THEN now ELSE None]]
  /\ versions' = versions \cup {Snapshot(p, status, now, now)}
  /\ UNCHANGED <<now, row, columns, settings, drain, admin, ghosts>>

SquareCompletes(p) ==
  /\ square[p].status = "APPROVED"
  /\ square[p].updated < now
  /\ square' = [square EXCEPT ![p].status = "COMPLETED", ![p].updated = now,
                              ![p].completed = now]
  /\ versions' = versions \cup {Snapshot(p, "COMPLETED", square[p].ts, now)}
  /\ UNCHANGED <<now, row, columns, settings, drain, admin, ghosts>>

SquareEdits(p) ==
  /\ square[p].status # "NONE"
  /\ square[p].updated < now
  /\ square[p].edits < MaxEdits
  /\ square' = [square EXCEPT ![p].updated = now, ![p].edits = @ + 1]
  /\ versions' = versions \cup {Snapshot(p, square[p].status, square[p].ts, now)}
  /\ UNCHANGED <<now, row, columns, settings, drain, admin, ghosts>>

-----------------------------------------------------------------------------
(* upsert_payment, for what alarms depend on.  The completion reference of *)
(* suppress_historical_alarm is the sale's time when the row is new and    *)
(* the time of this update when an open row completes.                     *)

Stale(v) == /\ row[v.payment].status # "NONE"
            /\ v.updated < row[v.payment].updated

CompletionReference(v) ==
  IF row[v.payment].status = "NONE" THEN v.ts ELSE v.updated

(* Mutation: with the feature off, sales are left for a later activation.  *)
HistoricalWhileOn(v) ==
  /\ v.status = "COMPLETED"
  /\ row[v.payment].status # "COMPLETED"
  /\ settings.boundary # None
  /\ CompletionReference(v) < settings.boundary

Historical(v) ==
  /\ v.status = "COMPLETED"
  /\ row[v.payment].status # "COMPLETED"
  /\ settings.boundary # None => CompletionReference(v) < settings.boundary

Ingest(v) ==
  /\ SharedFree
  /\ ~Stale(v)
  /\ row' = [row EXCEPT ![v.payment] =
               [status |-> v.status, ts |-> v.ts, updated |-> v.updated]]
  /\ alarm' = IF Historical(v) THEN [alarm EXCEPT ![v.payment] = Sent] ELSE alarm
  /\ UNCHANGED <<now, square, versions, delivered, settings, drain, admin, ghosts>>

-----------------------------------------------------------------------------
(* Drains.                                                                 *)

StartDrain(w) ==
  /\ SharedFree
  /\ ~InDrain(w)
  /\ drain' = [drain EXCEPT ![w] = [NoDrain EXCEPT !.pc = "scan", !.round = 1]]
  /\ UNCHANGED <<now, facts, columns, settings, admin, ghosts>>

(* retry_alarms up to its loop: without a trigger the drain is over.       *)
Scan(w) ==
  /\ drain[w].pc = "scan"
  /\ settings.on
  /\ \E ids \in SUBSET Payments :
       /\ OldestPending(ids)
       /\ drain' = [drain EXCEPT ![w].pc = "claim", ![w].todo = ids]
  /\ alarm' = Released
  /\ UNCHANGED <<now, facts, delivered, settings, admin, ghosts>>

ScanUnconfigured(w) ==
  /\ drain[w].pc = "scan"
  /\ ~settings.on
  /\ drain' = [drain EXCEPT ![w] = NoDrain]
  /\ UNCHANGED <<now, facts, columns, settings, admin, ghosts>>

Oldest(w, p) ==
  /\ p \in drain[w].todo
  /\ \A q \in drain[w].todo : row[p].ts <= row[q].ts

(* claim_alarm_trigger: the row is claimed only if it is still pending.    *)
Claim(w, p) ==
  /\ drain[w].pc = "claim"
  /\ Oldest(w, p)
  /\ IF Pending(p)
       THEN /\ alarm' = [Released EXCEPT ![p] = ClaimedBy(w)]
            /\ drain' = [drain EXCEPT ![w].pc = "request", ![w].job = p,
                                      ![w].age = 0, ![w].todo = @ \ {p}]
       ELSE /\ alarm' = Released
            /\ drain' = [drain EXCEPT ![w].todo = @ \ {p}]
  /\ UNCHANGED <<now, facts, delivered, settings, admin, ghosts>>

(* A full batch that was delivered completely is followed by another scan. *)
EndBatch(w) ==
  /\ drain[w].pc = "claim"
  /\ drain[w].todo = {}
  /\ drain' = [drain EXCEPT ![w] =
                 IF drain[w].done = Batch /\ drain[w].round < Rounds
                   THEN [NoDrain EXCEPT !.pc = "scan", !.round = drain[w].round + 1]
                   ELSE NoDrain]
  /\ UNCHANGED <<now, facts, columns, settings, admin, ghosts>>

(* The POST reaches Protect, which rings the alarm.                        *)
ProtectAccepts(w) ==
  /\ drain[w].pc = "request"
  /\ accepted' = [accepted EXCEPT ![drain[w].job] = @ + 1]
  /\ drain' = [drain EXCEPT ![w].pc = "accepted"]
  /\ UNCHANGED <<now, facts, columns, settings, admin, unsaved, crashes>>

(* mark_alarm_sent, fenced by the claim.                                   *)
MarkSent(w) ==
  LET p == drain[w].job IN
  /\ drain[w].pc = "accepted"
  /\ IF Owns(w, p)
       THEN /\ alarm' = [alarm EXCEPT ![p] = Sent]
            /\ delivered' = [delivered EXCEPT ![p] = TRUE]
       ELSE UNCHANGED columns
  /\ drain' = [drain EXCEPT ![w].pc = "claim", ![w].job = None, ![w].age = 0,
                            ![w].done = @ + IF Owns(w, p) THEN 1 ELSE 0]
  /\ UNCHANGED <<now, facts, settings, admin, ghosts>>

(* release_alarm_claim, fenced by the claim; the failure ends the drain.   *)
ReleaseAndStop(w) ==
  LET p == drain[w].job IN
  /\ alarm' = IF Owns(w, p) THEN [alarm EXCEPT ![p] = Idle] ELSE alarm
  /\ drain' = [drain EXCEPT ![w] = NoDrain]

RequestFails(w) ==
  /\ drain[w].pc = "request"
  /\ ReleaseAndStop(w)
  /\ UNCHANGED <<now, facts, delivered, settings, admin, ghosts>>

AnswerLost(w) ==
  /\ drain[w].pc = "accepted"
  /\ unsaved[drain[w].job] < MaxUnsaved
  /\ unsaved' = [unsaved EXCEPT ![drain[w].job] = @ + 1]
  /\ ReleaseAndStop(w)
  /\ UNCHANGED <<now, facts, delivered, settings, admin, accepted,
                 crashes>>

(* queue_depths and alarm_summary release expired claims while they read.  *)
ReadSummary ==
  /\ \E p \in Payments : Expired(p)
  /\ alarm' = Released
  /\ UNCHANGED <<now, facts, delivered, settings, drain, admin, ghosts>>

-----------------------------------------------------------------------------
(* Administrators.  set_protect reads the settings, talks to the console   *)
(* with no guard held, then compares and saves under the exclusive guard.  *)

(* Mutation: the settings are not read again under the guard.              *)
AssumedUnchanged(a) == TRUE

Unchanged(a) == settings = admin[a].seen

BeginSave(a) ==
  /\ admin[a].pc = "idle"
  /\ admin' = [admin EXCEPT ![a].pc = "verify", ![a].seen = settings]
  /\ UNCHANGED <<now, facts, columns, settings, drain, ghosts>>

SaveConflict(a) ==
  /\ admin[a].pc = "verify"
  /\ ExclusiveFree
  /\ ~Unchanged(a)
  /\ admin' = [admin EXCEPT ![a] = NoSave]
  /\ UNCHANGED <<now, facts, columns, settings, drain, ghosts>>

(* A confirmed switch first clears the old console's evidence, which marks *)
(* every completed sale handled, in a transaction of its own.              *)
ClearForSwitch(a, submitted) ==
  /\ admin[a].pc = "verify"
  /\ ExclusiveFree
  /\ Unchanged(a)
  /\ settings.gen > 0
  /\ settings.gen < MaxSaves
  /\ alarm' = Suppressed
  /\ admin' = [admin EXCEPT ![a].pc = "switch", ![a].submitted = submitted]
  /\ UNCHANGED <<now, facts, delivered, settings, drain, ghosts>>

(* What update_settings writes for key, trigger, boundary and generation.  *)
Activated(seen, submitted, switched) ==
  (submitted \/ (~switched /\ seen.on)) /\
  (switched \/ ~seen.on \/ seen.boundary = None)

SavedSettings(seen, submitted, switched) ==
  [on |-> submitted \/ (~switched /\ (seen.on \/ settings.on)),
   boundary |-> IF Activated(seen, submitted, switched) THEN now
                ELSE IF switched THEN None ELSE settings.boundary,
   gen |-> IF switched \/ seen.gen = 0 THEN seen.gen + 1 ELSE seen.gen]

WriteSettings(a, submitted, switched) ==
  /\ settings' = SavedSettings(admin[a].seen, submitted, switched)
  /\ admin' = [admin EXCEPT ![a] =
                 IF Activated(admin[a].seen, submitted, switched)
                   THEN [NoSave EXCEPT !.pc = "suppress"] ELSE NoSave]
  /\ UNCHANGED <<now, facts, columns, drain, ghosts>>

SaveSameConsole(a, submitted) ==
  /\ admin[a].pc = "verify"
  /\ ExclusiveFree
  /\ Unchanged(a)
  /\ WriteSettings(a, submitted, FALSE)

SaveNewConsole(a) ==
  /\ admin[a].pc = "switch"
  /\ WriteSettings(a, admin[a].submitted, TRUE)

(* delete_protect_alarm, and set_protect with disable_alarm.               *)
DisableAlarm(a) ==
  /\ admin[a].pc = "idle"
  /\ ExclusiveFree
  /\ settings' = [settings EXCEPT !.on = FALSE, !.boundary = None]
  /\ admin' = [admin EXCEPT ![a].pc = "suppress"]
  /\ UNCHANGED <<now, facts, columns, drain, ghosts>>

(* suppress_pending_alarms, the second transaction of a save or a disable. *)
FinishSave(a) ==
  /\ admin[a].pc = "suppress"
  /\ alarm' = Suppressed
  /\ admin' = [admin EXCEPT ![a] = NoSave]
  /\ UNCHANGED <<now, facts, delivered, settings, drain, ghosts>>

-----------------------------------------------------------------------------
(* Time passes; a request in flight is answered or given up in time.       *)
InRequest(w) == drain[w].pc \in {"request", "accepted"}

(* Mutation: the HTTP client has no timeout.                               *)
NoTimeout(w) == TRUE

InTime(w) == InRequest(w) => drain[w].age < RequestTimeout

Tick ==
  /\ \A w \in Workers : InTime(w)
  /\ now' = IF now < MaxTime THEN now + 1 ELSE now
  /\ alarm' = [p \in Payments |->
                 IF alarm[p].state = "in_progress" /\ alarm[p].age < Lease
                   THEN [alarm[p] EXCEPT !.age = @ + 1] ELSE alarm[p]]
  /\ drain' = [w \in Workers |->
                 IF InRequest(w) THEN [drain[w] EXCEPT !.age = @ + 1]
                                 ELSE drain[w]]
  /\ UNCHANGED <<facts, delivered, settings, admin, ghosts>>

(* The process dies and restarts: local state is gone, the database stays. *)
RingingUnsaved(p) ==
  \E w \in Workers : drain[w].pc = "accepted" /\ drain[w].job = p

Crash ==
  /\ crashes < MaxCrashes
  /\ crashes' = crashes + 1
  /\ unsaved' = [p \in Payments |->
                   IF RingingUnsaved(p) THEN unsaved[p] + 1 ELSE unsaved[p]]
  /\ drain' = [w \in Workers |-> NoDrain]
  /\ admin' = [a \in Admins |-> NoSave]
  /\ UNCHANGED <<now, facts, columns, settings, accepted>>

-----------------------------------------------------------------------------
SquareStep(p) ==
  \/ \E status \in {"APPROVED", "COMPLETED"} : SquareOpens(p, status)
  \/ SquareCompletes(p)
  \/ SquareEdits(p)

DrainStep(w) ==
  \/ Scan(w)
  \/ ScanUnconfigured(w)
  \/ \E p \in Payments : Claim(w, p)
  \/ EndBatch(w)
  \/ ProtectAccepts(w)
  \/ MarkSent(w)
  \/ RequestFails(w)
  \/ AnswerLost(w)

AdminStep(a) ==
  \/ BeginSave(a)
  \/ SaveConflict(a)
  \/ \E submitted \in BOOLEAN :
       ClearForSwitch(a, submitted) \/ SaveSameConsole(a, submitted)
  \/ SaveNewConsole(a)
  \/ DisableAlarm(a)
  \/ FinishSave(a)

Next ==
  \/ \E p \in Payments : SquareStep(p)
  \/ \E v \in versions : Ingest(v)
  \/ \E w \in Workers : StartDrain(w) \/ DrainStep(w)
  \/ ReadSummary
  \/ \E a \in Admins : AdminStep(a)
  \/ Tick
  \/ Crash

Spec == Init /\ [][Next]_vars

(* The poller starts drains for ever, a drain never stops half-way, HTTP   *)
(* calls end, and an endpoint that is tried for ever accepts for ever and  *)
(* its answers arrive for ever.                                            *)
Fairness ==
  /\ WF_vars(Tick)
  /\ \A w \in Workers :
       /\ WF_vars(StartDrain(w))
       /\ WF_vars(DrainStep(w))
       /\ SF_vars(ProtectAccepts(w))
       /\ SF_vars(MarkSent(w))
  /\ \A a \in Admins :
       WF_vars(FinishSave(a) \/ SaveNewConsole(a) \/ SaveConflict(a))

FairSpec == Spec /\ Fairness
-----------------------------------------------------------------------------
(* Properties.                                                             *)

Statuses == {"NONE", "APPROVED", "COMPLETED"}
SquareRecord == [status : Statuses, ts : Nat, updated : Nat,
                 completed : Nat \cup {None}, edits : Nat]
SnapshotRecord == [payment : Payments, status : {"APPROVED", "COMPLETED"},
                   ts : Nat, updated : Nat]
RowRecord == [status : Statuses, ts : Nat, updated : Nat]
AlarmRecord == [state : {"idle", "in_progress", "sent"},
                claim : Workers \cup {None}, age : 0..Lease]
SettingsRecord == [on : BOOLEAN, boundary : Nat \cup {None}, gen : Nat]
DrainRecord == [pc : {"idle", "scan", "claim", "request", "accepted"},
                todo : SUBSET Payments, job : Payments \cup {None},
                age : 0..RequestTimeout, done : Nat, round : Nat]
SaveRecord == [pc : {"idle", "verify", "switch", "suppress"},
               seen : SettingsRecord, submitted : BOOLEAN]

TypeOK ==
  /\ now \in Nat
  /\ square \in [Payments -> SquareRecord]
  /\ versions \subseteq SnapshotRecord
  /\ row \in [Payments -> RowRecord]
  /\ alarm \in [Payments -> AlarmRecord]
  /\ delivered \in [Payments -> BOOLEAN]
  /\ settings \in SettingsRecord
  /\ drain \in [Workers -> DrainRecord]
  /\ admin \in [Admins -> SaveRecord]
  /\ accepted \in [Payments -> Nat]
  /\ unsaved \in [Payments -> Nat]
  /\ crashes \in Nat

(* Two drains never have a trigger in flight for the same sale, although   *)
(* expired claims are taken over and crashes leave claims behind.          *)
ExclusiveDelivery ==
  \A w1, w2 \in Workers :
    InRequest(w1) /\ InRequest(w2) /\ drain[w1].job = drain[w2].job => w1 = w2

(* Every trigger Protect accepted for a sale is recorded on its row, still *)
(* waiting for its answer, or one whose answer was lost: a sale rings      *)
(* again only after an ambiguous outcome, and its row never claims a       *)
(* delivery that did not happen.                                           *)
RingsAccounted ==
  \A p \in Payments :
    accepted[p] = unsaved[p] + (IF delivered[p] THEN 1 ELSE 0)
                             + (IF RingingUnsaved(p) THEN 1 ELSE 0)

(* Alarms that are on always have an activation time: without one every    *)
(* later sale would be taken for history and silently never ring.          *)
EnabledHasBoundary == settings.on => settings.boundary # None

(* No trigger is sent while the feature is off: switching it off waits for *)
(* the drains that still use the old key and trigger.                      *)
RingsOnlyWhenOn ==
  [][\A p \in Payments : accepted'[p] # accepted[p] => settings.on]_vars

(* The README's promise: a sale completed before the feature was enabled   *)
(* is never replayed.  It holds while at most one crash falls between the  *)
(* two transactions of a save, and while Square does not touch a sale      *)
(* after its completion.                                                   *)
NeverReplayed ==
  [][\A p \in Payments : accepted'[p] # accepted[p] /\ settings.boundary # None
       => square[p].completed >= settings.boundary]_vars

(* A sale waiting for its alarm is delivered or handled, unless the        *)
(* feature is switched off, whatever fails on the way.                     *)
PendingIsSettled ==
  \A p \in Payments :
    (Completed(p) /\ alarm[p].state # "sent" /\ settings.on)
      ~> (alarm[p].state = "sent" \/ ~settings.on)

(* The inductive strengthening behind these properties.                    *)

(* Square's snapshots of a payment are ordered: every open one is older    *)
(* than the completion, and a row holds one of them, so that a completed   *)
(* row never opens again.                                                  *)
SnapshotsOrdered ==
  \A v \in versions :
    LET s == square[v.payment] IN
    /\ s.status # "NONE"
    /\ v.updated <= s.updated
    /\ v.status = "COMPLETED" => s.status = "COMPLETED" /\ v.updated >= s.completed
    /\ v.status = "APPROVED" /\ s.status = "COMPLETED" => v.updated < s.completed

CompletionKnown ==
  \A p \in Payments :
    /\ square[p].status = "COMPLETED" <=> square[p].completed # None
    /\ square[p].status = "COMPLETED" => square[p].completed <= square[p].updated

RowIsSnapshot ==
  \A p \in Payments : row[p].status # "NONE" =>
    \E v \in versions : /\ v.payment = p
                        /\ v.status = row[p].status
                        /\ v.updated = row[p].updated

(* A request in flight holds its sale's claim, which is no older than the  *)
(* request, and the sale stays completed.                                  *)
RequestOwnsClaim ==
  \A w \in Workers : InRequest(w) =>
    /\ drain[w].job \in Payments
    /\ Owns(w, drain[w].job)
    /\ alarm[drain[w].job].age = drain[w].age
    /\ Completed(drain[w].job)

DeliveredIsSent == \A p \in Payments : delivered[p] => alarm[p].state = "sent"

(* The exclusive guard: a save between its transactions is alone.          *)
SavesExcludeDrains ==
  \A a \in Admins : Exclusive(a) =>
    /\ \A w \in Workers : ~InDrain(w)
    /\ \A b \in Admins : Exclusive(b) => b = a

(* A drain past its scan uses a trigger that is still configured.          *)
DrainsOnlyWhenOn ==
  \A w \in Workers :
    drain[w].pc \in {"claim", "request", "accepted"} => settings.on

IInv ==
  /\ TypeOK
  /\ SnapshotsOrdered
  /\ CompletionKnown
  /\ RowIsSnapshot
  /\ RequestOwnsClaim
  /\ DeliveredIsSent
  /\ SavesExcludeDrains
  /\ DrainsOnlyWhenOn
  /\ RingsAccounted

(* The promise of AlarmLedger, with a row's outcome read from its columns. *)
Outcome == [p \in Payments |->
              IF alarm[p].state # "sent" THEN "open"
              ELSE IF delivered[p] THEN "rung" ELSE "handled"]

Ledger == INSTANCE AlarmLedger WITH
            Sales <- Payments, outcome <- Outcome, rings <- accepted,
            doubtful <- unsaved

LedgerSpec == Ledger!Spec
=============================================================================
