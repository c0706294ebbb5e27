----------------------------- MODULE SquareSync -----------------------------
(***************************************************************************)
(* How the payments of the connected Square account reach the database:    *)
(* the sync pass (SyncEngine::sync), which pages through each location by  *)
(* update time from a saved watermark, and the webhook (square_webhook),   *)
(* which ingests single events and remembers their receipts; both while    *)
(* administrators replace the account and the process crashes.             *)
(*                                                                         *)
(* Of a payment only its update time is kept, 0 for none.  A merchant has  *)
(* one location, so the watermarks are indexed by merchants.  The guard    *)
(* is held shared by a pass and by a webhook, exclusively by a switch.     *)
(***************************************************************************)
EXTENDS Naturals, FiniteSets

CONSTANTS
  Payments, Merchants,
  Hooks,          \* webhook requests handled at a time
  None,
  Overlap,        \* five minutes, before the watermark
  Backfill,       \* 24 hours, for a location without a watermark
  Delay,          \* Square lists an update at most this long after making it
  Cap,            \* receipts kept
  Polls,          \* FALSE: the poller is disabled
  Alarms,         \* TRUE: alarms are on (AlarmDelivery has the details)
  MaxTime, MaxUpdates, MaxFailures, MaxSwitches, MaxCrashes   \* bounds

ASSUME ReceiptCap == Cap \in Nat \ {0}
ASSUME OverlapCoversDelay ==
  Overlap \in Nat /\ Delay \in Nat /\ Backfill \in Nat /\ Delay <= Overlap
ASSUME NoneAssumption == None \notin Merchants /\ None \notin Nat
ASSUME Bounds == MaxTime \in Nat \ {0} /\ {Polls, Alarms} \subseteq BOOLEAN

VARIABLES
  now,            \* the clock, shared by Square and the program
  square,         \* Square's payments: owner, last update, update listed
  published,      \* the events Square sends, again and again
  merchant,       \* settings: square.merchant_id and its token
  row,            \* transactions: the update time of each payment
  watermark,      \* square_poll_watermarks
  since,          \* ghost: how far back the first complete pass went
  receipts,       \* square_webhook_receipts
  alarm,          \* transactions: an alarm is still owed for some sale
  poll,           \* the sync pass that holds the execution lock
  hook,           \* webhook requests
  admin,          \* set_square or confirm_oauth_switch under its guard
  drain,          \* a drain has been spawned
  failures, switches, crashes

store == <<row, watermark, receipts, alarm>>
world == <<now, square, published>>
counters == <<failures, switches, crashes>>
vars == <<world, merchant, store, since, poll, hook, admin, drain, counters>>

Times == 0 .. MaxTime
Events == Payments \X (1 .. MaxTime)
NoPoll == [pc |-> "idle", boundary |-> 0, begin |-> 0, cursor |-> 0,
           batch |-> {}, more |-> FALSE, seen |-> {}]
NoHook == [pc |-> "idle", event |-> None]
NoAdmin == [pc |-> "idle", target |-> None]

Init ==
  /\ now = 1
  /\ square = [p \in Payments |-> [owner |-> None, made |-> 0, listed |-> 0]]
  /\ published = {}
  /\ merchant \in Merchants
  /\ row = [p \in Payments |-> 0]
  /\ watermark = [m \in Merchants |-> None]
  /\ since = [m \in Merchants |-> None]
  /\ receipts = {} /\ alarm = FALSE
  /\ poll = NoPoll
  /\ hook = [h \in Hooks |-> NoHook]
  /\ admin = NoAdmin
  /\ drain = FALSE
  /\ failures = 0 /\ switches = 0 /\ crashes = 0

(***************************************************************************)
(* Square and time.                                                        *)
(***************************************************************************)

(* A payment is created or edited, by the merchant it belongs to.          *)
SquareUpdates(p, m) ==
  /\ Cardinality(published) < MaxUpdates
  /\ square[p].owner \in {None, m}
  /\ square[p].made < now
  /\ square' = [square EXCEPT ![p].owner = m, ![p].made = now]
  /\ published' = published \union {<<p, now>>}
  /\ UNCHANGED <<now, merchant, store, since, poll, hook, admin, drain, counters>>

(* ListPayments catches up with a payment.                                 *)
Index(p) ==
  /\ square[p].listed < square[p].made
  /\ square' = [square EXCEPT ![p].listed = square[p].made]
  /\ UNCHANGED <<now, published, merchant, store, since, poll, hook, admin, drain, counters>>

Tick ==
  /\ now < MaxTime
  /\ \A p \in Payments :
       square[p].listed < square[p].made => now < square[p].made + Delay
  /\ now' = now + 1
  /\ UNCHANGED <<square, published, merchant, store, since, poll, hook, admin, drain, counters>>

(***************************************************************************)
(* The integration guard and the upsert.                                   *)
(***************************************************************************)

SharedFree == admin.pc = "idle"

(* Mutation: switching the account does not wait for passes and webhooks.  *)
ExclusiveIgnoresReaders == SharedFree

ExclusiveFree == SharedFree /\ poll.pc = "idle" /\ \A h \in Hooks : hook[h].pc = "idle"

(* Mutation: what arrives last wins.                                       *)
NeverStale(p, u) == FALSE

Stale(p, u) == u < row[p]

(* upsert_payment; with alarms on, a payment it accepts may owe one.       *)
Upsert(p, u) ==
  IF Stale(p, u)
  THEN UNCHANGED <<row, alarm>>
  ELSE row' = [row EXCEPT ![p] = u] /\ alarm' \in {alarm, alarm \/ Alarms}

(***************************************************************************)
(* The sync pass.                                                          *)
(***************************************************************************)

(* Mutation: the next pass begins where the last one ended.                *)
EarliestExactly(boundary) ==
  IF watermark[merchant] # None THEN watermark[merchant]
  ELSE IF Backfill > boundary THEN 0 ELSE boundary - Backfill

Earliest(boundary) ==
  LET back == IF watermark[merchant] = None THEN Backfill ELSE Overlap
      from == IF watermark[merchant] = None THEN boundary ELSE watermark[merchant]
  IN  IF back > from THEN 0 ELSE from - back

(* try_lock and the guard; the boundary is taken before the first page.    *)
StartSync ==
  /\ Polls /\ SharedFree
  /\ poll.pc = "idle"
  /\ poll' = [NoPoll EXCEPT !.pc = "page", !.boundary = now, !.begin = Earliest(now)]
  /\ UNCHANGED <<world, merchant, store, since, hook, admin, drain, counters>>

(* What the next page can hold, by update time after the cursor.           *)
Listed == {p \in Payments : /\ square[p].owner = merchant
                            /\ square[p].listed > poll.cursor
                            /\ square[p].listed >= poll.begin
                            /\ square[p].listed > 0}

First(p) == \A q \in Listed : square[p].listed <= square[q].listed

(* A page arrives: the payments with the next update time.                 *)
PageArrives ==
  /\ poll.pc = "page"
  /\ IF Listed = {}
     THEN poll' = [poll EXCEPT !.pc = "advance"]
     ELSE \E p \in Listed :
            LET batch == {q \in Listed : square[q].listed = square[p].listed} IN
            /\ First(p)
            /\ poll' = [poll EXCEPT !.pc = "ingest", !.cursor = square[p].listed,
                          !.batch = batch, !.more = batch # Listed]
  /\ UNCHANGED <<world, merchant, store, since, hook, admin, drain, counters>>

(* The loop over a page; a payment already seen in this pass is skipped.   *)
IngestPolled(p) ==
  /\ poll.pc = "ingest" /\ p \in poll.batch
  /\ poll' = [poll EXCEPT !.batch = @ \ {p}, !.seen = @ \union {p}]
  /\ IF p \in poll.seen THEN UNCHANGED <<row, alarm>> ELSE Upsert(p, poll.cursor)
  /\ UNCHANGED <<world, merchant, watermark, receipts, since, hook, admin, drain, counters>>

EndPage ==
  /\ poll.pc = "ingest" /\ poll.batch = {}
  /\ poll' = [poll EXCEPT !.pc = IF poll.more THEN "page" ELSE "advance", !.more = FALSE]
  /\ UNCHANGED <<world, merchant, store, since, hook, admin, drain, counters>>

(* Mutation: a pass that fails ends like one that does not.                *)
SyncFailsQuietly ==
  /\ poll.pc \in {"page", "ingest"}
  /\ failures < MaxFailures
  /\ failures' = failures + 1
  /\ poll' = [poll EXCEPT !.pc = "advance", !.batch = {}, !.more = FALSE]
  /\ UNCHANGED <<world, merchant, store, since, hook, admin, drain, switches, crashes>>

(* A page or an upsert fails, or a cursor is repeated: sync returns Err.   *)
SyncFails ==
  /\ poll.pc \in {"page", "ingest"}
  /\ failures < MaxFailures
  /\ failures' = failures + 1
  /\ poll' = NoPoll
  /\ UNCHANGED <<world, merchant, store, since, hook, admin, drain, switches, crashes>>

Advanced(w) == IF w = None \/ w < poll.boundary THEN poll.boundary ELSE w

(* advance_square_poll_watermark; the drain the pass ends with is left to  *)
(* DrainDelivers, like the spawned ones.                                   *)
FinishSync ==
  /\ poll.pc = "advance"
  /\ watermark' = [watermark EXCEPT ![merchant] = Advanced(@)]
  /\ since' = [since EXCEPT ![merchant] = IF @ = None THEN poll.begin ELSE @]
  /\ poll' = NoPoll
  /\ drain' = TRUE
  /\ UNCHANGED <<world, merchant, row, receipts, alarm, hook, admin, counters>>

(***************************************************************************)
(* The webhook.                                                            *)
(***************************************************************************)

Foreign(e) == square[e[1]].owner # merchant

(* A verified event: answered at once when foreign or known.               *)
Receive(h, e) ==
  /\ SharedFree
  /\ hook[h].pc = "idle"
  /\ ~Foreign(e)
  /\ hook' = [hook EXCEPT ![h] =
       [pc |-> IF e \in receipts THEN "duplicate" ELSE "new", event |-> e]]
  /\ UNCHANGED <<world, merchant, store, since, poll, admin, drain, counters>>

(* record_webhook_receipt only counts a duplicate, and nothing is drained. *)
AnswerDuplicate(h) ==
  /\ hook[h].pc = "duplicate"
  /\ hook' = [hook EXCEPT ![h] = NoHook]
  /\ UNCHANGED <<world, merchant, store, since, poll, admin, drain, counters>>

IngestEvent(h) ==
  /\ hook[h].pc = "new"
  /\ Upsert(hook[h].event[1], hook[h].event[2])
  /\ hook' = [hook EXCEPT ![h].pc = "ingested"]
  /\ UNCHANGED <<world, merchant, watermark, receipts, since, poll, admin, drain, counters>>

(* Mutation: the table of receipts is never trimmed.                       *)
KeptForEver(e) == {receipts \union {e}}

(* The receipts after one more: the longest received ones go first.        *)
Kept(e) ==
  LET all == receipts \union {e}
  IN  IF Cardinality(all) <= Cap THEN {all} ELSE {all \ {old} : old \in all}

(* record_webhook_receipt and the spawned drain.                           *)
RecordReceipt(h) ==
  /\ hook[h].pc = "ingested"
  /\ receipts' \in Kept(hook[h].event)
  /\ drain' = TRUE
  /\ hook' = [hook EXCEPT ![h] = NoHook]
  /\ UNCHANGED <<world, merchant, row, watermark, alarm, since, poll, admin, counters>>

(* upsert or receipt fails: Square sees an error.                          *)
HookFails(h) ==
  /\ hook[h].pc \in {"new", "ingested"}
  /\ failures < MaxFailures
  /\ failures' = failures + 1
  /\ hook' = [hook EXCEPT ![h] = NoHook]
  /\ UNCHANGED <<world, merchant, store, since, poll, admin, drain, switches, crashes>>

(* A picture somebody looks at has lost its file: the handler spawns a     *)
(* drain as well.                                                          *)
Recapture ==
  /\ SharedFree
  /\ \E p \in Payments : row[p] # 0
  /\ drain' = TRUE
  /\ UNCHANGED <<world, merchant, store, since, poll, hook, admin, counters>>

(* drain_verified_protect_queues: see AlarmDelivery.                       *)
DrainDelivers ==
  /\ drain /\ SharedFree
  /\ drain' = FALSE /\ alarm' = FALSE
  /\ UNCHANGED <<world, merchant, row, watermark, receipts, since, poll, hook, admin, counters>>

DrainFails ==
  /\ drain /\ SharedFree
  /\ failures < MaxFailures
  /\ failures' = failures + 1
  /\ drain' = FALSE
  /\ UNCHANGED <<world, merchant, store, since, poll, hook, admin, switches, crashes>>

(***************************************************************************)
(* The account.                                                            *)
(***************************************************************************)

(* Mutation: the old account's watermarks and receipts survive a switch.   *)
ClearTransactionsOnly ==
  /\ row' = [p \in Payments |-> 0]
  /\ alarm' = FALSE
  /\ UNCHANGED <<watermark, since, receipts>>

(* clear_square_account_data_under_guard: one transaction.                 *)
ClearAccountData ==
  /\ row' = [p \in Payments |-> 0]
  /\ alarm' = FALSE
  /\ watermark' = [m \in Merchants |-> None]
  /\ since' = [m \in Merchants |-> None]
  /\ receipts' = {}

(* A confirmed switch clears under the guard what the old account left.    *)
SwitchClears(m) ==
  /\ ExclusiveFree
  /\ m # merchant
  /\ switches < MaxSwitches
  /\ switches' = switches + 1
  /\ ClearAccountData
  /\ admin' = [pc |-> "cleared", target |-> m]
  /\ UNCHANGED <<world, merchant, poll, hook, drain, failures, crashes>>

SaveAccount ==
  /\ admin.pc = "cleared"
  /\ merchant' = admin.target
  /\ admin' = NoAdmin
  /\ UNCHANGED <<world, store, since, poll, hook, drain, counters>>

(* A file of the old account cannot be removed: the settings stay.         *)
SwitchFails ==
  /\ admin.pc = "cleared"
  /\ admin' = NoAdmin
  /\ UNCHANGED <<world, merchant, store, since, poll, hook, drain, counters>>

Crash ==
  /\ crashes < MaxCrashes
  /\ crashes' = crashes + 1
  /\ poll' = NoPoll
  /\ hook' = [h \in Hooks |-> NoHook]
  /\ admin' = NoAdmin
  /\ drain' = FALSE
  /\ UNCHANGED <<world, merchant, store, since, failures, switches>>

SyncStep == PageArrives \/ (\E p \in Payments : IngestPolled(p)) \/ EndPage \/ FinishSync

HookStep(h) == AnswerDuplicate(h) \/ IngestEvent(h) \/ RecordReceipt(h)

Next ==
  \/ \E p \in Payments, m \in Merchants : SquareUpdates(p, m)
  \/ \E p \in Payments : Index(p)
  \/ Tick
  \/ StartSync \/ SyncStep \/ SyncFails
  \/ \E h \in Hooks : HookStep(h) \/ HookFails(h)
  \/ \E h \in Hooks, e \in published : Receive(h, e)
  \/ Recapture \/ DrainDelivers \/ DrainFails
  \/ \E m \in Merchants : SwitchClears(m)
  \/ SaveAccount \/ SwitchFails
  \/ Crash

Spec == Init /\ [][Next]_vars

(* Passes are started by the poller and go on, drains and requests end,    *)
(* and Square indexes; nothing makes Square send an event again.           *)
FairSpec ==
  /\ Spec
  /\ WF_vars(StartSync) /\ WF_vars(SyncStep)
  /\ \A p \in Payments : WF_vars(Index(p))
  /\ \A h \in Hooks : WF_vars(HookStep(h))
  /\ WF_vars(DrainDelivers)
  /\ WF_vars(SaveAccount)

(***************************************************************************)
(* Properties.                                                             *)
(***************************************************************************)

(* Each variable has its type.                                             *)
TypeOK ==
  /\ now \in 1 .. MaxTime
  /\ square \in [Payments -> [owner : Merchants \union {None}, made : 0 .. now, listed : Times]]
  /\ \A p \in Payments : square[p].listed <= square[p].made
  /\ published \subseteq Events
  /\ merchant \in Merchants
  /\ row \in [Payments -> Times]
  /\ watermark \in [Merchants -> (1 .. now) \union {None}]
  /\ since \in [Merchants -> Times \union {None}]
  /\ receipts \subseteq published /\ Cardinality(receipts) <= Cap
  /\ alarm \in BOOLEAN /\ drain \in BOOLEAN
  /\ poll \in [pc : {"idle", "page", "ingest", "advance"}, boundary : 0 .. now,
               begin : Times, cursor : Times, batch : SUBSET Payments,
               more : BOOLEAN, seen : SUBSET Payments]
  /\ hook \in [Hooks -> [pc : {"idle", "new", "ingested", "duplicate"},
                         event : published \union {None}]]
  /\ admin \in [pc : {"idle", "cleared"}, target : Merchants \union {None}]

(* Every payment of the connected account that Square updated between the  *)
(* start of the first complete pass and the saved watermark, less the      *)
(* overlap, is stored as Square has it, whatever pages failed, however     *)
(* late Square listed it, and although it may have been edited while a     *)
(* pass was paging (sync, advance_square_poll_watermark).                  *)
NothingMissed ==
  watermark[merchant] # None =>
    \A p \in Payments :
      /\ square[p].owner = merchant
      /\ since[merchant] <= square[p].made
      /\ square[p].made + Overlap < watermark[merchant]
      => row[p] = square[p].made

(* Only payments of the connected account are stored, also after a crash   *)
(* in the middle of a switch (integration_guard, set_square).              *)
OneAccount ==
  \A p \in Payments : row[p] # 0 => square[p].owner = merchant

(* A remembered event took effect: dropping its duplicates loses nothing   *)
(* (square_webhook, clear_square_account_data_under_guard).                *)
ReceiptsTookEffect ==
  \A e \in receipts : row[e[1]] >= e[2]

(* Stored payments never go back to an earlier update, except that a       *)
(* switch removes them all (upsert_payment).                               *)
NeverBackwards ==
  [][\A p \in Payments : row'[p] >= row[p] \/ row' = [q \in Payments |-> 0]]_vars

(* Every update of a payment of the connected account is stored sooner or  *)
(* later, also one that is listed after the pass it fell into, unless the  *)
(* account is replaced (sync).                                             *)
EventuallyStored ==
  \A p \in Payments, t \in 1 .. MaxTime :
    (square[p].made = t /\ square[p].owner = merchant)
      ~> (row[p] >= t \/ square[p].owner # merchant \/ admin.pc = "cleared")

(* README.md:307-316: an alarm that is still owed is retried by a          *)
(* duplicate webhook, the only way left when the poller is disabled.       *)
DuplicateRetriesAlarm ==
  \A h \in Hooks : (hook[h].pc = "duplicate" /\ alarm) ~> ~alarm
=============================================================================
