-------------------------- MODULE SquareSyncProofs --------------------------
(***************************************************************************)
(* Proofs about SquareSync, for any number of payments, merchants and      *)
(* webhooks, and every bound: a pass that reaches its end has stored every *)
(* payment it was to find, so the watermark may advance to its boundary.   *)
(*                                                                         *)
(* The argument is about the payments that are due: those last updated     *)
(* after the begin of the pass and, by more than the overlap, before its   *)
(* boundary.  Square has listed them all, for it takes no longer than the  *)
(* overlap; an edit takes a payment out of their number; and whatever page *)
(* the pass is at, a due payment is stored, in the batch, or still ahead   *)
(* of the cursor.                                                          *)
(***************************************************************************)
EXTENDS SquareSync, FiniteSetTheorems, TLAPS

USE ReceiptCap, OverlapCoversDelay, NoneAssumption, Bounds

-----------------------------------------------------------------------------
(* Square: its events are no newer than its payments, and what it has not  *)
(* listed yet it will have listed within the delay.                        *)
Clocked ==
  /\ \A e \in published : e[2] <= square[e[1]].made
  /\ \A p \in Payments :
       /\ square[p].owner = None <=> square[p].made = 0
       /\ square[p].listed < square[p].made => now <= square[p].made + Delay

(* The tables: no row is newer than its payment, and a watermark comes     *)
(* with the begin of the first pass.                                       *)
Stored ==
  /\ \A p \in Payments : row[p] <= square[p].made
  /\ IsFiniteSet(receipts)
  /\ \A m \in Merchants : watermark[m] = None <=> since[m] = None

(* The payments a pass is to find.                                         *)
Due(p) ==
  /\ square[p].owner = merchant
  /\ poll.begin <= square[p].made
  /\ square[p].made + Overlap < poll.boundary

(* How far the pass is with a payment.                                     *)
Progress(p) ==
  /\ p \in poll.batch => square[p].owner = merchant /\ poll.cursor <= square[p].made
  /\ Due(p) =>
       /\ p \in poll.batch => poll.cursor = square[p].made
       /\ p \in poll.seen => row[p] = square[p].made
       /\ poll.pc = "page" => row[p] = square[p].made \/ poll.cursor < square[p].made
       /\ poll.pc = "ingest" =>
            \/ row[p] = square[p].made
            \/ p \in poll.batch
            \/ poll.more /\ poll.cursor < square[p].made
       /\ poll.pc = "advance" => row[p] = square[p].made

Passing ==
  poll.pc # "idle" =>
    /\ SharedFree
    /\ 1 <= poll.boundary
    /\ poll.begin = Earliest(poll.boundary)
    /\ \A p \in Payments : Progress(p)

(* A webhook at work has an event of the connected account.                *)
Handling ==
  \A h \in Hooks : hook[h].pc # "idle" =>
    /\ SharedFree
    /\ hook[h].event \in published /\ ~Foreign(hook[h].event)
    /\ hook[h].pc = "ingested" => row[hook[h].event[1]] >= hook[h].event[2]

(* Between the two steps of a switch the tables are empty.                 *)
Cleared ==
  admin.pc = "cleared" =>
    /\ admin.target \in Merchants
    /\ \A p \in Payments : row[p] = 0
    /\ \A m \in Merchants : watermark[m] = None /\ since[m] = None
    /\ receipts = {}

IInv ==
  /\ TypeOK /\ Clocked /\ Stored /\ Passing /\ Handling /\ Cleared
  /\ NothingMissed /\ OneAccount /\ ReceiptsTookEffect

-----------------------------------------------------------------------------
LEMMA Facts ==
  ASSUME TypeOK
  PROVE  /\ now \in Nat /\ 1 <= now /\ now <= MaxTime /\ MaxTime \in Nat
         /\ \A p \in Payments :
              /\ square[p].owner \in Merchants \union {None}
              /\ square[p].made \in Nat /\ square[p].made <= now
              /\ square[p].listed \in Nat /\ square[p].listed <= square[p].made
              /\ row[p] \in Nat
         /\ \A e \in published : e[1] \in Payments /\ e[2] \in Nat /\ e \in Events
         /\ merchant \in Merchants
         /\ \A m \in Merchants :
              /\ watermark[m] \in Nat \union {None}
              /\ watermark[m] # None => watermark[m] <= now
              /\ since[m] \in Nat \union {None}
         /\ poll.pc \in {"idle", "page", "ingest", "advance"}
         /\ poll.boundary \in Nat /\ poll.boundary <= now
         /\ poll.begin \in Nat /\ poll.cursor \in Nat /\ poll.more \in BOOLEAN
         /\ poll.batch \subseteq Payments /\ poll.seen \subseteq Payments
         /\ admin.pc \in {"idle", "cleared"}
BY DEF TypeOK, Times, Events

LEMMA InitKeeps == Init => IInv
<1> SUFFICES ASSUME Init PROVE IInv
  OBVIOUS
<1>1. Cardinality({}) = 0 /\ IsFiniteSet({})
  BY FS_EmptySet
<1>2. TypeOK
  <2>1. NoPoll \in [pc : {"idle", "page", "ingest", "advance"}, boundary : 0 .. now,
                    begin : Times, cursor : Times, batch : SUBSET Payments,
                    more : BOOLEAN, seen : SUBSET Payments]
    BY DEF Init, NoPoll, Times
  <2>2. square \in [Payments -> [owner : Merchants \union {None}, made : 0 .. now, listed : Times]]
    BY DEF Init, Times
  <2>3. hook \in [Hooks -> [pc : {"idle", "new", "ingested", "duplicate"},
                           event : published \union {None}]]
    BY DEF Init, NoHook
  <2>4. receipts \subseteq published /\ Cardinality(receipts) <= Cap
    BY <1>1 DEF Init
  <2>5. /\ now \in 1 .. MaxTime /\ row \in [Payments -> Times]
        /\ watermark \in [Merchants -> (1 .. now) \union {None}]
        /\ since \in [Merchants -> Times \union {None}]
    BY DEF Init, Times
  <2>6. \A p \in Payments : square[p].listed <= square[p].made
    BY DEF Init
  <2>7. /\ published \subseteq Events /\ merchant \in Merchants
        /\ alarm \in BOOLEAN /\ drain \in BOOLEAN
        /\ admin \in [pc : {"idle", "cleared"}, target : Merchants \union {None}]
    BY DEF Init, NoAdmin
  <2>8. poll = NoPoll
    BY DEF Init
  <2>9. QED
    BY <2>1, <2>2, <2>3, <2>4, <2>5, <2>6, <2>7, <2>8 DEF TypeOK
<1>3. Clocked /\ Stored /\ NothingMissed /\ OneAccount /\ ReceiptsTookEffect
  BY <1>1 DEF Init, Clocked, Stored, NothingMissed, OneAccount, ReceiptsTookEffect
<1>4. Passing /\ Handling /\ Cleared
  BY DEF Init, Passing, Handling, Cleared, NoPoll, NoHook, NoAdmin
<1>5. QED
  BY <1>2, <1>3, <1>4 DEF IInv

-----------------------------------------------------------------------------
(* Square and time.  An edit makes a payment newer than any watermark and  *)
(* any boundary, so neither a pass nor the watermark promises it any more. *)

LEMMA WorldKeeps ==
  ASSUME IInv, TypeOK', Clocked',
         UNCHANGED <<merchant, store, since, poll, hook, admin, drain, counters>>,
         published \subseteq published',
         \A p \in Payments :
           \/ square'[p].made = square[p].made /\ square'[p].owner = square[p].owner
           \/ /\ square'[p].made = now
              /\ square[p].owner = None \/ square'[p].owner = square[p].owner
  PROVE  IInv'
<1>1. TypeOK /\ Clocked /\ Stored /\ Passing /\ Handling /\ Cleared
      /\ NothingMissed /\ OneAccount /\ ReceiptsTookEffect
  BY DEF IInv
<1>2. UNCHANGED <<merchant, row, watermark, receipts, since, poll, hook, admin>>
  BY DEF store
<1>3. \A p \in Payments : /\ square[p].made <= square'[p].made
                          /\ square'[p].made \in Nat
                          /\ square[p].owner = merchant => square'[p].owner = merchant
                          /\ square'[p].made < now => square'[p].made = square[p].made
                                                      /\ square'[p].owner = square[p].owner
  BY <1>1, Facts
<1>4. Stored' /\ ReceiptsTookEffect' /\ Cleared'
  <2>1. \A p \in Payments : row'[p] <= square'[p].made
    BY <1>1, <1>2, <1>3, Facts DEF Stored
  <2>2. QED
    BY <1>1, <1>2, <2>1 DEF Stored, ReceiptsTookEffect, Cleared
<1>5. OneAccount'
  BY <1>1, <1>2, <1>3 DEF OneAccount
<1>6. NothingMissed'
  <2>1. SUFFICES ASSUME watermark[merchant] # None, NEW p \in Payments,
                        square'[p].owner = merchant, since[merchant] <= square'[p].made,
                        square'[p].made + Overlap < watermark[merchant]
                 PROVE  row[p] = square'[p].made
    BY <1>2 DEF NothingMissed
  <2>2. square'[p].made < now
    BY <1>1, <1>3, <2>1, Facts
  <2>3. QED
    BY <1>1, <1>3, <2>1, <2>2 DEF NothingMissed
<1>7. Passing'
  <2>1. SUFFICES ASSUME poll.pc # "idle", NEW p \in Payments
                 PROVE  Progress(p)'
    BY <1>1, <1>2 DEF Passing, SharedFree, Earliest
  <2>2. Progress(p)
    BY <1>1, <2>1 DEF Passing
  <2>3. Due(p)' => Due(p) /\ square'[p].made = square[p].made
    BY <1>1, <1>2, <1>3, Facts DEF Due
  <2>4. p \in poll.batch => square'[p].owner = merchant /\ poll.cursor <= square'[p].made
    BY <1>1, <1>3, <2>2, Facts DEF Progress
  <2>5. QED
    BY <1>2, <2>2, <2>3, <2>4 DEF Progress
<1>8. Handling'
  <2>1. SUFFICES ASSUME NEW h \in Hooks, hook[h].pc # "idle"
                 PROVE  /\ SharedFree
                        /\ hook[h].event \in published /\ square'[hook[h].event[1]].owner = merchant
                        /\ hook[h].pc = "ingested" => row[hook[h].event[1]] >= hook[h].event[2]
    BY <1>2 DEF Handling, SharedFree, Foreign
  <2>2. hook[h].event \in published /\ hook[h].event[1] \in Payments
    BY <1>1, <2>1, Facts DEF Handling
  <2>3. QED
    BY <1>1, <1>3, <2>1, <2>2 DEF Handling, Foreign
<1>9. QED
  BY <1>1, <1>4, <1>5, <1>6, <1>7, <1>8 DEF IInv

LEMMA SquareUpdatesKeeps ==
  ASSUME IInv, NEW p \in Payments, NEW m \in Merchants, SquareUpdates(p, m)
  PROVE  IInv'
<1>1. TypeOK /\ Clocked
  BY DEF IInv
<1>2. /\ square[p].owner \in {None, m} /\ square[p].made < now
      /\ square' = [square EXCEPT ![p].owner = m, ![p].made = now]
      /\ published' = published \union {<<p, now>>}
      /\ UNCHANGED <<now, merchant, store, since, poll, hook, admin, drain, counters>>
  BY DEF SquareUpdates
<1>3. square \in [Payments -> [owner : Merchants \union {None}, made : 0 .. now, listed : Times]]
  BY <1>1 DEF TypeOK
<1>4. /\ square'[p].owner = m /\ square'[p].made = now /\ square'[p].listed = square[p].listed
      /\ \A q \in Payments \ {p} : square'[q] = square[q]
      /\ square' \in [Payments -> [owner : Merchants \union {None}, made : 0 .. now', listed : Times]]
  <2> DEFINE new == [square[p] EXCEPT !.owner = m, !.made = now]
  <2>1. square' = [square EXCEPT ![p] = new]
    BY <1>2, <1>3
  <2>2. /\ new \in [owner : Merchants \union {None}, made : 0 .. now, listed : Times]
        /\ new.owner = m /\ new.made = now /\ new.listed = square[p].listed
    <3>1. now \in 0 .. now
      BY <1>1, Facts
    <3>2. QED
      BY <1>3, <3>1
  <2> HIDE DEF new
  <2>3. QED
    BY <1>2, <1>3, <2>1, <2>2
<1>5. <<p, now>> \in Events
  BY <1>1, Facts DEF Events
<1>6. TypeOK'
  <2>1. /\ published' \subseteq Events /\ receipts' \subseteq published'
        /\ hook' \in [Hooks -> [pc : {"idle", "new", "ingested", "duplicate"},
                                event : published' \union {None}]]
    BY <1>1, <1>2, <1>5 DEF TypeOK, store
  <2>2. \A q \in Payments : square'[q].listed <= square'[q].made
    BY <1>1, <1>2, <1>4, Facts
  <2>3. QED
    BY <1>1, <1>2, <1>4, <2>1, <2>2 DEF TypeOK, store
<1>7. Clocked'
  <2>1. \A e \in published' : e[2] <= square'[e[1]].made
    <3>1. \A e \in published : e[1] \in Payments /\ e[2] \in Nat /\ e[2] <= square[e[1]].made
      BY <1>1, Facts DEF Clocked
    <3>2. \A q \in Payments : square[q].made <= square'[q].made /\ square'[q].made \in Nat
                               /\ square[q].made \in Nat
      BY <1>1, <1>4, Facts
    <3>3. <<p, now>>[2] <= square'[<<p, now>>[1]].made
      BY <1>1, <1>4, Facts
    <3>4. \A e \in published : e[2] <= square'[e[1]].made
      BY <3>1, <3>2
    <3>5. QED
      BY <1>2, <3>3, <3>4
  <2>2. \A q \in Payments :
          /\ square'[q].owner = None <=> square'[q].made = 0
          /\ square'[q].listed < square'[q].made => now <= square'[q].made + Delay
    BY <1>1, <1>4, Facts DEF Clocked
  <2>3. QED
    BY <1>2, <2>1, <2>2 DEF Clocked
<1>8. QED
  BY <1>2, <1>4, <1>6, <1>7, WorldKeeps

LEMMA IndexKeeps ==
  ASSUME IInv, NEW p \in Payments, Index(p)
  PROVE  IInv'
<1>1. TypeOK /\ Clocked
  BY DEF IInv
<1>2. /\ square' = [square EXCEPT ![p].listed = square[p].made]
      /\ UNCHANGED <<now, published, merchant, store, since, poll, hook, admin, drain, counters>>
  BY DEF Index
<1>3. square \in [Payments -> [owner : Merchants \union {None}, made : 0 .. now, listed : Times]]
  BY <1>1 DEF TypeOK
<1>4. /\ square'[p].owner = square[p].owner /\ square'[p].made = square[p].made
      /\ square'[p].listed = square[p].made
      /\ \A q \in Payments \ {p} : square'[q] = square[q]
      /\ square' \in [Payments -> [owner : Merchants \union {None}, made : 0 .. now', listed : Times]]
  <2> DEFINE new == [square[p] EXCEPT !.listed = square[p].made]
  <2>1. square' = [square EXCEPT ![p] = new]
    BY <1>2, <1>3
  <2>2. /\ new \in [owner : Merchants \union {None}, made : 0 .. now, listed : Times]
        /\ new.owner = square[p].owner /\ new.made = square[p].made /\ new.listed = square[p].made
    BY <1>1, <1>3, Facts DEF Times
  <2> HIDE DEF new
  <2>3. QED
    BY <1>2, <1>3, <2>1, <2>2
<1>5. TypeOK'
  <2>1. \A q \in Payments : square'[q].listed <= square'[q].made
    BY <1>1, <1>4, Facts
  <2>2. QED
    BY <1>1, <1>2, <1>4, <2>1 DEF TypeOK, store
<1>6. Clocked'
  <2>1. \A q \in Payments : square'[q].made = square[q].made /\ square'[q].owner = square[q].owner
    BY <1>4
  <2>2. \A e \in published : e[1] \in Payments
    BY <1>1, Facts
  <2>3. \A q \in Payments : square'[q].listed < square'[q].made => now <= square'[q].made + Delay
    BY <1>1, <1>4, Facts DEF Clocked
  <2>4. QED
    BY <1>1, <1>2, <2>1, <2>2, <2>3 DEF Clocked
<1>7. QED
  BY <1>2, <1>4, <1>5, <1>6, WorldKeeps

LEMMA TickKeeps ==
  ASSUME IInv, Tick
  PROVE  IInv'
<1>1. TypeOK /\ Clocked
  BY DEF IInv
<1>2. /\ now < MaxTime /\ now' = now + 1
      /\ \A p \in Payments : square[p].listed < square[p].made => now < square[p].made + Delay
      /\ UNCHANGED <<square, published, merchant, store, since, poll, hook, admin, drain, counters>>
  BY DEF Tick
<1>3. now' \in 1 .. MaxTime /\ 0 .. now \subseteq 0 .. now' /\ 1 .. now \subseteq 1 .. now'
  BY <1>1, <1>2, Facts
<1>4. TypeOK'
  <2>1. square' \in [Payments -> [owner : Merchants \union {None}, made : 0 .. now', listed : Times]]
    BY <1>1, <1>2, <1>3 DEF TypeOK
  <2>2. /\ watermark' \in [Merchants -> (1 .. now') \union {None}]
        /\ poll' \in [pc : {"idle", "page", "ingest", "advance"}, boundary : 0 .. now',
                      begin : Times, cursor : Times, batch : SUBSET Payments,
                      more : BOOLEAN, seen : SUBSET Payments]
    BY <1>1, <1>2, <1>3 DEF TypeOK, store
  <2>3. QED
    BY <1>1, <1>2, <1>3, <2>1, <2>2 DEF TypeOK, store
<1>5. Clocked'
  <2>1. \A p \in Payments : square[p].listed < square[p].made => now' <= square[p].made + Delay
    BY <1>1, <1>2, Facts
  <2>2. QED
    BY <1>1, <1>2, <2>1 DEF Clocked
<1>6. QED
  BY <1>2, <1>4, <1>5, WorldKeeps

-----------------------------------------------------------------------------
(* The sync pass.                                                          *)

PollRecord == [pc : {"idle", "page", "ingest", "advance"}, boundary : 0 .. now,
               begin : Times, cursor : Times, batch : SUBSET Payments,
               more : BOOLEAN, seen : SUBSET Payments]

(* A step of the pass that touches nothing but itself.                     *)
LEMMA PollKeeps ==
  ASSUME IInv, UNCHANGED <<world, merchant, store, since, hook, admin, drain>>,
         poll' \in PollRecord, Passing'
  PROVE  IInv'
<1>1. UNCHANGED <<now, square, published, merchant, row, watermark, receipts, alarm, since, hook,
                  admin, drain>>
  BY DEF world, store
<1>2. TypeOK'
  BY <1>1 DEF IInv, TypeOK, PollRecord
<1>3. Clocked' /\ Stored' /\ Handling' /\ Cleared' /\ NothingMissed' /\ OneAccount'
      /\ ReceiptsTookEffect'
  BY <1>1 DEF IInv, Clocked, Stored, Handling, SharedFree, Foreign, Cleared, NothingMissed,
              OneAccount, ReceiptsTookEffect
<1>4. QED
  BY <1>2, <1>3 DEF IInv

(* A payment that is due is listed: Square has had its time.               *)
LEMMA DueListed ==
  ASSUME TypeOK, Clocked, NEW p \in Payments, Due(p)
  PROVE  square[p].listed = square[p].made /\ 0 < square[p].made
<1>1. square[p].made + Delay < now
  BY Facts DEF Due
<1>2. square[p].made # 0
  BY Facts DEF Due, Clocked
<1>3. QED
  BY <1>1, <1>2, Facts DEF Clocked

LEMMA StartSyncKeeps ==
  ASSUME IInv, StartSync
  PROVE  IInv'
<1>1. TypeOK /\ Clocked
  BY DEF IInv
<1>2. /\ SharedFree /\ poll.pc = "idle"
      /\ poll' = [NoPoll EXCEPT !.pc = "page", !.boundary = now, !.begin = Earliest(now)]
      /\ UNCHANGED <<world, merchant, store, since, hook, admin, drain, counters>>
  BY DEF StartSync
<1>3. Earliest(now) \in Times
  BY <1>1, Facts DEF Earliest, Times
<1>4. /\ poll'.pc = "page" /\ poll'.boundary = now /\ poll'.begin = Earliest(now)
      /\ poll'.cursor = 0 /\ poll'.batch = {} /\ poll'.seen = {} /\ poll'.more = FALSE
  BY <1>2 DEF NoPoll
<1>5. poll' \in PollRecord
  <2>1. now \in 0 .. now /\ 0 \in Times
    BY <1>1, Facts DEF Times
  <2>2. QED
    BY <1>2, <1>3, <2>1 DEF NoPoll, PollRecord
<1>6. UNCHANGED <<now, square, merchant, row, watermark, admin>>
  BY <1>2 DEF world, store
<1>7. Passing'
  <2>1. \A p \in Payments : Due(p)' => 0 < square[p].made
    BY <1>1, <1>6, Facts DEF Due, Clocked
  <2>2. \A p \in Payments : Progress(p)'
    BY <1>4, <1>6, <2>1 DEF Progress
  <2>3. Earliest(poll.boundary)' = Earliest(now)
    BY <1>4, <1>6 DEF Earliest
  <2>4. QED
    BY <1>1, <1>2, <1>4, <1>6, <2>2, <2>3, Facts DEF Passing, SharedFree
<1>8. QED
  BY <1>2, <1>5, <1>7, PollKeeps

LEMMA PageArrivesKeeps ==
  ASSUME IInv, PageArrives
  PROVE  IInv'
<1>1. TypeOK /\ Clocked /\ Passing /\ poll \in PollRecord
  BY DEF IInv, TypeOK, PollRecord
<1>2. poll.pc = "page" /\ UNCHANGED <<world, merchant, store, since, hook, admin, drain, counters>>
  BY DEF PageArrives
<1>3. UNCHANGED <<now, square, merchant, row, watermark, admin>>
  BY <1>2 DEF world, store
<1>4. \A p \in Payments : Progress(p)
  BY <1>1, <1>2 DEF Passing
<1>5. \A p \in Payments : Due(p) /\ poll.cursor < square[p].made => p \in Listed
  BY <1>1, DueListed DEF Due, Listed
<1>6. poll' \in PollRecord /\ poll'.boundary = poll.boundary /\ poll'.begin = poll.begin
      /\ poll'.seen = poll.seen /\ poll'.pc # "idle" /\ \A p \in Payments : Progress(p)'
  <2>1. CASE Listed = {}
    <3>1. poll' = [poll EXCEPT !.pc = "advance"]
      BY <2>1 DEF PageArrives
    <3>2. /\ poll' \in PollRecord /\ poll'.pc = "advance"
          /\ poll'.boundary = poll.boundary /\ poll'.begin = poll.begin
          /\ poll'.seen = poll.seen /\ poll'.cursor = poll.cursor /\ poll'.batch = poll.batch
      BY <1>1, <3>1 DEF PollRecord
    <3>3. \A p \in Payments : Due(p)' <=> Due(p)
      BY <1>3, <3>2 DEF Due
    <3>4. \A p \in Payments : Due(p) => row[p] = square[p].made
      BY <1>2, <1>4, <1>5, <2>1 DEF Progress
    <3>5. \A p \in Payments : Progress(p)'
      BY <1>3, <1>4, <3>2, <3>3, <3>4 DEF Progress
    <3>6. QED
      BY <3>2, <3>5
  <2>2. CASE Listed # {}
    <3> DEFINE batch(p) == {q \in Listed : square[q].listed = square[p].listed}
    <3>1. PICK p \in Listed :
            /\ First(p)
            /\ poll' = [poll EXCEPT !.pc = "ingest", !.cursor = square[p].listed,
                          !.batch = batch(p), !.more = batch(p) # Listed]
      BY <2>2 DEF PageArrives
    <3>2. p \in Payments /\ batch(p) \subseteq Payments /\ square[p].listed \in Times
      BY <1>1 DEF Listed, TypeOK
    <3>3. /\ poll' \in PollRecord /\ poll'.pc = "ingest"
          /\ poll'.boundary = poll.boundary /\ poll'.begin = poll.begin
          /\ poll'.seen = poll.seen /\ poll'.cursor = square[p].listed
          /\ poll'.batch = batch(p) /\ poll'.more = (batch(p) # Listed)
      BY <1>1, <3>1, <3>2 DEF PollRecord
    <3>4. \A q \in Payments : Due(q)' <=> Due(q)
      BY <1>3, <3>3 DEF Due
    <3>5. ASSUME NEW q \in Payments PROVE Progress(q)'
      <4>1. q \in batch(p) => /\ square[q].owner = merchant
                             /\ square[p].listed = square[q].listed
                             /\ square[p].listed <= square[q].made
        BY <1>1, Facts DEF Listed
      <4>2. Due(q) /\ q \in poll.seen => row[q] = square[q].made
        BY <1>4 DEF Progress
      <4>3. ASSUME Due(q), row[q] # square[q].made, q \notin batch(p)
            PROVE  batch(p) # Listed /\ square[p].listed < square[q].made
        <5>1. Due(q) /\ row[q] # square[q].made /\ q \notin batch(p)
          BY <4>3
        <5>2. q \in Listed
          BY <1>2, <1>4, <1>5, <5>1 DEF Progress
        <5>3. square[p].listed <= square[q].listed /\ square[p].listed # square[q].listed
          BY <3>1, <5>1, <5>2 DEF First
        <5>4. square[q].listed = square[q].made
          BY <1>1, <5>1, DueListed
        <5>5. QED
          BY <1>1, <3>2, <5>1, <5>2, <5>3, <5>4, Facts
      <4>4. Due(q) => square[q].listed = square[q].made
        BY <1>1, DueListed
      <4>5. QED
        BY <1>3, <3>3, <3>4, <4>1, <4>2, <4>3, <4>4 DEF Progress
    <3>6. QED
      BY <3>3, <3>5
  <2>3. QED
    BY <2>1, <2>2
<1>7. Passing'
  BY <1>1, <1>2, <1>3, <1>6 DEF Passing, SharedFree, Earliest
<1>8. QED
  BY <1>2, <1>6, <1>7, PollKeeps

LEMMA EndPageKeeps ==
  ASSUME IInv, EndPage
  PROVE  IInv'
<1>1. TypeOK /\ Passing /\ poll \in PollRecord
  BY DEF IInv, TypeOK, PollRecord
<1>2. /\ poll.pc = "ingest" /\ poll.batch = {}
      /\ poll' = [poll EXCEPT !.pc = IF poll.more THEN "page" ELSE "advance", !.more = FALSE]
      /\ UNCHANGED <<world, merchant, store, since, hook, admin, drain, counters>>
  BY DEF EndPage
<1>3. UNCHANGED <<now, square, merchant, row, watermark, admin>>
  BY <1>2 DEF world, store
<1>4. /\ poll' \in PollRecord /\ poll'.pc = (IF poll.more THEN "page" ELSE "advance")
      /\ poll'.boundary = poll.boundary /\ poll'.begin = poll.begin
      /\ poll'.seen = poll.seen /\ poll'.cursor = poll.cursor /\ poll'.batch = poll.batch
  BY <1>1, <1>2 DEF PollRecord
<1>5. ASSUME NEW p \in Payments PROVE Progress(p)'
  <2>1. Progress(p) /\ (Due(p)' <=> Due(p))
    BY <1>1, <1>2, <1>3, <1>4 DEF Passing, Due
  <2>2. QED
    BY <1>2, <1>3, <1>4, <2>1 DEF Progress
<1>6. Passing'
  BY <1>1, <1>2, <1>3, <1>4, <1>5 DEF Passing, SharedFree, Earliest
<1>7. QED
  BY <1>2, <1>4, <1>6, PollKeeps

LEMMA NoPollType ==
  ASSUME TypeOK
  PROVE  NoPoll \in PollRecord /\ NoPoll.pc = "idle"
<1>1. 0 \in Times /\ 0 \in 0 .. now
  BY Facts DEF Times
<1>2. QED
  BY <1>1 DEF NoPoll, PollRecord

LEMMA SyncFailsKeeps ==
  ASSUME IInv, SyncFails
  PROVE  IInv'
<1>1. poll' = NoPoll /\ UNCHANGED <<world, merchant, store, since, hook, admin, drain>>
  BY DEF SyncFails
<1>2. TypeOK /\ now' = now
  BY <1>1 DEF IInv, world
<1>3. poll' \in PollRecord /\ Passing'
  BY <1>1, <1>2, NoPollType DEF Passing
<1>4. QED
  BY <1>1, <1>3, PollKeeps

(* The watermark advances to the boundary: what was due is stored.         *)
LEMMA FinishSyncKeeps ==
  ASSUME IInv, FinishSync
  PROVE  IInv'
<1>1. TypeOK /\ Clocked /\ Stored /\ Passing /\ Handling /\ Cleared
      /\ NothingMissed /\ OneAccount /\ ReceiptsTookEffect
  BY DEF IInv
<1>2. /\ poll.pc = "advance"
      /\ watermark' = [watermark EXCEPT ![merchant] = Advanced(watermark[merchant])]
      /\ since' = [since EXCEPT ![merchant] =
                     IF since[merchant] = None THEN poll.begin ELSE since[merchant]]
      /\ poll' = NoPoll /\ drain' = TRUE
      /\ UNCHANGED <<now, square, published, merchant, row, receipts, alarm, hook, admin>>
  BY DEF FinishSync, world
<1>3. SharedFree /\ 1 <= poll.boundary /\ poll.boundary <= now
      /\ poll.begin = Earliest(poll.boundary) /\ \A p \in Payments : Progress(p)
  BY <1>1, <1>2, Facts DEF Passing
<1>4. Advanced(watermark[merchant]) \in 1 .. now
  BY <1>1, <1>3, Facts DEF Advanced, TypeOK
<1>5. TypeOK'
  <2>1. /\ watermark' \in [Merchants -> (1 .. now) \union {None}]
        /\ since' \in [Merchants -> Times \union {None}]
    BY <1>1, <1>2, <1>4, Facts DEF TypeOK
  <2>2. poll' \in PollRecord
    BY <1>1, <1>2, NoPollType
  <2>3. QED
    BY <1>1, <1>2, <2>1, <2>2 DEF TypeOK, PollRecord
<1>6. /\ watermark'[merchant] = Advanced(watermark[merchant])
      /\ since'[merchant] = IF since[merchant] = None THEN poll.begin ELSE since[merchant]
      /\ \A m \in Merchants \ {merchant} : watermark'[m] = watermark[m] /\ since'[m] = since[m]
  BY <1>1, <1>2 DEF TypeOK
<1>7. Clocked' /\ ReceiptsTookEffect' /\ OneAccount'
  BY <1>1, <1>2 DEF Clocked, ReceiptsTookEffect, OneAccount
<1>8. Stored'
  <2>1. watermark'[merchant] # None /\ since'[merchant] # None
    BY <1>1, <1>4, <1>6, Facts
  <2>2. QED
    BY <1>1, <1>2, <1>6, <2>1 DEF Stored
<1>9. Passing' /\ Handling' /\ Cleared'
  BY <1>1, <1>2, <1>3, NoPollType DEF Passing, Handling, Foreign, SharedFree, Cleared
<1>10. NothingMissed'
  <2>1. SUFFICES ASSUME NEW p \in Payments, square[p].owner = merchant,
                        since'[merchant] <= square[p].made,
                        square[p].made + Overlap < watermark'[merchant]
                 PROVE  row[p] = square[p].made
    BY <1>2 DEF NothingMissed
  <2>2. Due(p) => row[p] = square[p].made
    BY <1>2, <1>3 DEF Progress
  <2>3. CASE watermark[merchant] = None
    <3>1. since[merchant] = None
      BY <1>1, <2>3 DEF Stored, TypeOK
    <3>2. QED
      BY <1>6, <2>1, <2>2, <2>3, <3>1 DEF Due, Advanced
  <2>4. CASE watermark[merchant] # None
    <3>1. since'[merchant] = since[merchant]
      BY <1>1, <1>6, <2>4 DEF Stored, TypeOK
    <3>2. square[p].made + Overlap < watermark[merchant] => row[p] = square[p].made
      BY <1>1, <2>1, <2>4, <3>1 DEF NothingMissed
    <3>3. ASSUME ~(square[p].made + Overlap < watermark[merchant])
          PROVE  Due(p)
      <4>1. watermark[merchant] \in Nat /\ square[p].made \in Nat /\ poll.boundary \in Nat
        BY <1>1, <2>4, Facts
      <4>2. poll.begin <= square[p].made
        BY <1>3, <2>4, <3>3, <4>1 DEF Earliest
      <4>3. watermark'[merchant] = poll.boundary
        BY <1>6, <2>1, <2>4, <3>3, <4>1 DEF Advanced
      <4>4. QED
        BY <2>1, <4>2, <4>3 DEF Due
    <3>4. QED
      BY <2>2, <3>2, <3>3
  <2>5. QED
    BY <2>3, <2>4
<1>11. QED
  BY <1>5, <1>7, <1>8, <1>9, <1>10 DEF IInv

-----------------------------------------------------------------------------
(* The upsert, by a pass or by a webhook: rows only rise, and no higher    *)
(* than Square's payment.                                                  *)

HookSet == [Hooks -> [pc : {"idle", "new", "ingested", "duplicate"},
                      event : published \union {None}]]

Raised == \A p \in Payments :
  /\ row[p] <= row'[p] /\ row'[p] <= square[p].made
  /\ row'[p] # row[p] => square[p].owner = merchant

LEMMA UpsertRaises ==
  ASSUME IInv, NEW p \in Payments, NEW u \in Times, Upsert(p, u),
         u <= square[p].made, square[p].owner = merchant
  PROVE  /\ row' \in [Payments -> Times] /\ alarm' \in BOOLEAN
         /\ Raised /\ u <= row'[p]
<1>1. TypeOK /\ \A q \in Payments : row[q] <= square[q].made
  BY DEF IInv, Stored
<1>2. row \in [Payments -> Times] /\ alarm \in BOOLEAN /\ Alarms \in BOOLEAN
  BY <1>1 DEF TypeOK
<1>3. \A q \in Payments : row[q] \in Nat
  BY <1>1, Facts
<1>4. CASE Stale(p, u)
  BY <1>1, <1>2, <1>3, <1>4 DEF Upsert, Stale, Raised, Times
<1>5. CASE ~Stale(p, u)
  <2>1. row' = [row EXCEPT ![p] = u] /\ alarm' \in {alarm, alarm \/ Alarms}
    BY <1>5 DEF Upsert
  <2>2. row[p] <= u /\ u \in Nat
    BY <1>3, <1>5 DEF Stale, Times
  <2>3. QED
    BY <1>1, <1>2, <1>3, <2>1, <2>2 DEF Raised
<1>6. QED
  BY <1>4, <1>5

LEMMA RaiseKeeps ==
  ASSUME IInv, SharedFree, Raised,
         row' \in [Payments -> Times], alarm' \in BOOLEAN,
         UNCHANGED <<world, merchant, watermark, receipts, since, admin, drain>>,
         poll' \in PollRecord, Passing', hook' \in HookSet, Handling'
  PROVE  IInv'
<1>1. TypeOK /\ Clocked /\ Stored /\ NothingMissed /\ OneAccount /\ ReceiptsTookEffect
  BY DEF IInv
<1>2. UNCHANGED <<now, square, published, merchant, watermark, receipts, since, admin, drain>>
  BY DEF world
<1>3. TypeOK'
  BY <1>1, <1>2 DEF TypeOK, PollRecord, HookSet
<1>4. Clocked' /\ Stored' /\ OneAccount'
  BY <1>1, <1>2 DEF Clocked, Stored, OneAccount, Raised
<1>5. NothingMissed'
  <2>1. \A p \in Payments : row[p] = square[p].made => row'[p] = square[p].made
    <3>1. \A p \in Payments : row'[p] \in Nat /\ square[p].made \in Nat
      BY <1>1, Facts DEF Times
    <3>2. QED
      BY <3>1 DEF Raised
  <2>2. QED
    BY <1>1, <1>2, <2>1 DEF NothingMissed
<1>6. ReceiptsTookEffect'
  <2>1. \A e \in receipts : e[1] \in Payments /\ e[2] \in Nat
    BY <1>1, Facts DEF TypeOK
  <2>2. \A p \in Payments : row[p] \in Nat /\ row'[p] \in Nat /\ row[p] <= row'[p]
    BY <1>1, Facts DEF Raised, Times
  <2>3. QED
    BY <1>1, <1>2, <2>1, <2>2 DEF ReceiptsTookEffect
<1>7. Cleared'
  BY <1>2 DEF Cleared, SharedFree
<1>8. QED
  BY <1>3, <1>4, <1>5, <1>6, <1>7 DEF IInv

LEMMA IngestPolledKeeps ==
  ASSUME IInv, NEW p \in Payments, IngestPolled(p)
  PROVE  IInv'
<1>1. TypeOK /\ Clocked /\ Stored /\ Passing /\ Handling /\ poll \in PollRecord
  BY DEF IInv, TypeOK, PollRecord
<1>2. /\ poll.pc = "ingest" /\ p \in poll.batch
      /\ poll' = [poll EXCEPT !.batch = poll.batch \ {p}, !.seen = poll.seen \union {p}]
      /\ IF p \in poll.seen THEN UNCHANGED <<row, alarm>> ELSE Upsert(p, poll.cursor)
      /\ UNCHANGED <<world, merchant, watermark, receipts, since, hook, admin, drain, counters>>
  BY DEF IngestPolled
<1>3. SharedFree /\ \A q \in Payments : Progress(q)
  BY <1>1, <1>2 DEF Passing
<1>4. square[p].owner = merchant /\ poll.cursor <= square[p].made /\ poll.cursor \in Times
  BY <1>1, <1>2, <1>3 DEF Progress, PollRecord
<1>5. /\ row' \in [Payments -> Times] /\ alarm' \in BOOLEAN /\ Raised
      /\ p \notin poll.seen => poll.cursor <= row'[p]
  <2>1. CASE p \in poll.seen
    BY <1>1, <1>2, <2>1, Facts DEF Stored, Raised, TypeOK
  <2>2. CASE p \notin poll.seen
    BY <1>2, <1>4, <2>2, UpsertRaises
  <2>3. QED
    BY <2>1, <2>2
<1>6. UNCHANGED <<now, square, published, merchant, watermark, receipts, since, hook, admin, drain>>
  BY <1>2 DEF world
<1>7. /\ poll' \in PollRecord /\ poll'.pc = "ingest"
      /\ poll'.boundary = poll.boundary /\ poll'.begin = poll.begin
      /\ poll'.cursor = poll.cursor /\ poll'.more = poll.more
      /\ poll'.batch = poll.batch \ {p} /\ poll'.seen = poll.seen \union {p}
  BY <1>1, <1>2 DEF PollRecord
<1>8. ASSUME NEW q \in Payments PROVE Progress(q)'
  <2>1. Progress(q) /\ (Due(q)' <=> Due(q))
    BY <1>3, <1>6, <1>7 DEF Due
  <2>2. /\ row[q] \in Nat /\ row'[q] \in Nat /\ square[q].made \in Nat
        /\ row[q] <= row'[q] /\ row'[q] <= square[q].made
    BY <1>1, <1>5, Facts DEF Raised, Times
  <2>3. Due(q) /\ q = p => row'[q] = square[q].made
    <3>1. ASSUME Due(q), q = p PROVE row'[q] = square[q].made
      <4>1. poll.cursor = square[q].made /\ (q \in poll.seen => row[q] = square[q].made)
        BY <1>2, <2>1, <3>1 DEF Progress
      <4>2. QED
        BY <1>5, <2>2, <3>1, <4>1
    <3>2. QED
      BY <3>1
  <2>4. QED
    BY <1>2, <1>6, <1>7, <2>1, <2>2, <2>3 DEF Progress
<1>9. Passing'
  BY <1>1, <1>2, <1>3, <1>6, <1>7, <1>8 DEF Passing, SharedFree, Earliest
<1>10. Handling'
  <2>1. \A h \in Hooks : hook[h].event \in published =>
          LET e == hook[h].event IN row[e[1]] >= e[2] => row'[e[1]] >= e[2]
    <3>1. \A e \in published : e[1] \in Payments /\ e[2] \in Nat
      BY <1>1, Facts
    <3>2. \A q \in Payments : row[q] \in Nat /\ row'[q] \in Nat /\ row[q] <= row'[q]
      BY <1>1, <1>5, Facts DEF Raised, Times
    <3>3. QED
      BY <3>1, <3>2
  <2>2. QED
    BY <1>1, <1>6, <2>1 DEF Handling, SharedFree, Foreign
<1>11. hook' \in HookSet
  BY <1>1, <1>6 DEF HookSet, TypeOK
<1>12. QED
  BY <1>3, <1>5, <1>6, <1>7, <1>9, <1>10, <1>11, RaiseKeeps DEF world

LEMMA IngestEventKeeps ==
  ASSUME IInv, NEW h \in Hooks, IngestEvent(h)
  PROVE  IInv'
<1> DEFINE e == hook[h].event
<1>1. TypeOK /\ Clocked /\ Passing /\ Handling /\ poll \in PollRecord /\ hook \in HookSet
  BY DEF IInv, TypeOK, PollRecord, HookSet
<1>2. /\ hook[h].pc = "new" /\ Upsert(e[1], e[2])
      /\ hook' = [hook EXCEPT ![h].pc = "ingested"]
      /\ UNCHANGED <<world, merchant, watermark, receipts, since, poll, admin, drain, counters>>
  BY DEF IngestEvent
<1>3. SharedFree /\ e \in published /\ square[e[1]].owner = merchant
  BY <1>1, <1>2 DEF Handling, Foreign
<1>4. e[1] \in Payments /\ e[2] \in Times /\ e[2] <= square[e[1]].made
  BY <1>1, <1>3 DEF TypeOK, Events, Times, Clocked
<1>5. row' \in [Payments -> Times] /\ alarm' \in BOOLEAN /\ Raised /\ e[2] <= row'[e[1]]
  BY <1>2, <1>3, <1>4, UpsertRaises
<1>6. UNCHANGED <<now, square, published, merchant, watermark, receipts, since, poll, admin, drain>>
  BY <1>2 DEF world
<1>7. /\ hook' \in HookSet /\ hook'[h].pc = "ingested" /\ hook'[h].event = e
      /\ \A g \in Hooks \ {h} : hook'[g] = hook[g]
  <2>1. /\ [hook[h] EXCEPT !.pc = "ingested"].pc = "ingested"
        /\ [hook[h] EXCEPT !.pc = "ingested"].event = e
        /\ [hook[h] EXCEPT !.pc = "ingested"] \in
             [pc : {"idle", "new", "ingested", "duplicate"}, event : published \union {None}]
    BY <1>1 DEF HookSet
  <2>2. hook' = [hook EXCEPT ![h] = [hook[h] EXCEPT !.pc = "ingested"]]
    BY <1>1, <1>2 DEF HookSet
  <2>3. QED
    BY <1>1, <1>6, <2>1, <2>2 DEF HookSet
<1> HIDE DEF e
<1>8. \A q \in Payments : /\ row[q] \in Nat /\ row'[q] \in Nat /\ square[q].made \in Nat
                          /\ row[q] <= row'[q] /\ row'[q] <= square[q].made
  BY <1>1, <1>5, Facts DEF Raised, Times
<1>9. Passing'
  <2>1. ASSUME NEW q \in Payments, Progress(q) PROVE Progress(q)'
    <3>1. Due(q)' <=> Due(q)
      BY <1>6 DEF Due
    <3>2. row[q] = square[q].made => row'[q] = square[q].made
      BY <1>8
    <3>3. QED
      BY <1>6, <2>1, <3>1, <3>2 DEF Progress
  <2>2. QED
    BY <1>1, <1>6, <2>1 DEF Passing, SharedFree, Earliest
<1>10. Handling'
  <2>1. \A g \in Hooks \ {h} : hook[g].event \in published =>
          LET d == hook[g].event IN row[d[1]] >= d[2] => row'[d[1]] >= d[2]
    <3>1. \A d \in published : d[1] \in Payments /\ d[2] \in Nat
      BY <1>1, Facts
    <3>2. QED
      BY <1>8, <3>1
  <2>2. row'[e[1]] >= e[2]
    BY <1>4, <1>5, <1>8 DEF Times
  <2>3. QED
    BY <1>1, <1>3, <1>6, <1>7, <2>1, <2>2 DEF Handling, SharedFree, Foreign
<1>11. QED
  BY <1>1, <1>3, <1>5, <1>6, <1>7, <1>9, <1>10, RaiseKeeps DEF world

-----------------------------------------------------------------------------
(* The other steps of a webhook.                                           *)

LEMMA HookKeeps ==
  ASSUME IInv, UNCHANGED <<world, merchant, row, watermark, alarm, since, poll, admin>>,
         drain' \in BOOLEAN, hook' \in HookSet, Handling',
         \/ receipts' = receipts
         \/ /\ SharedFree /\ IsFiniteSet(receipts') /\ Cardinality(receipts') <= Cap
            /\ receipts' \subseteq published /\ \A e \in receipts' : row[e[1]] >= e[2]
  PROVE  IInv'
<1>1. UNCHANGED <<now, square, published, merchant, row, watermark, alarm, since, poll, admin>>
  BY DEF world
<1>2. TypeOK'
  BY <1>1 DEF IInv, TypeOK, HookSet
<1>3. Clocked' /\ Stored' /\ NothingMissed' /\ OneAccount' /\ ReceiptsTookEffect'
  BY <1>1 DEF IInv, Clocked, Stored, NothingMissed, OneAccount, ReceiptsTookEffect
<1>4. Passing'
  BY <1>1 DEF IInv, Passing, Progress, Due, SharedFree, Earliest
<1>5. Cleared'
  BY <1>1 DEF IInv, Cleared, SharedFree
<1>6. QED
  BY <1>2, <1>3, <1>4, <1>5 DEF IInv

(* A webhook that ends, or one that begins.                                *)
LEMMA HookSlot ==
  ASSUME IInv, NEW h \in Hooks, NEW k,
         hook' = [hook EXCEPT ![h] = k],
         UNCHANGED <<world, merchant, row, admin>>,
         \/ k = NoHook
         \/ /\ SharedFree /\ k.event \in published /\ ~Foreign(k.event)
            /\ k.pc \in {"new", "duplicate"}
            /\ k \in [pc : {"idle", "new", "ingested", "duplicate"},
                      event : published \union {None}]
  PROVE  hook' \in HookSet /\ Handling'
<1>1. hook \in HookSet /\ Handling /\ UNCHANGED <<square, published, merchant, row, admin>>
  BY DEF IInv, TypeOK, HookSet, world
<1>2. k \in [pc : {"idle", "new", "ingested", "duplicate"}, event : published \union {None}]
  BY DEF NoHook
<1>3. k = NoHook => k.pc = "idle"
  BY DEF NoHook
<1>4. hook' \in HookSet
  BY <1>1, <1>2 DEF HookSet
<1>5. hook'[h] = k /\ \A g \in Hooks \ {h} : hook'[g] = hook[g]
  BY <1>1 DEF HookSet
<1>6. Handling'
  BY <1>1, <1>3, <1>5 DEF Handling, SharedFree, Foreign
<1>7. QED
  BY <1>4, <1>6

LEMMA WebhookKeeps ==
  ASSUME IInv, NEW h \in Hooks,
         AnswerDuplicate(h) \/ HookFails(h) \/ \E e \in published : Receive(h, e)
  PROVE  IInv'
<1>1. /\ UNCHANGED <<world, merchant, row, watermark, alarm, receipts, since, poll, admin, drain>>
      /\ drain' \in BOOLEAN
  BY DEF AnswerDuplicate, HookFails, Receive, store, IInv, TypeOK
<1>2. CASE AnswerDuplicate(h) \/ HookFails(h)
  <2>1. hook' = [hook EXCEPT ![h] = NoHook]
    BY <1>2 DEF AnswerDuplicate, HookFails
  <2>2. hook' \in HookSet /\ Handling'
    BY <1>1, <2>1, HookSlot
  <2>3. QED
    BY <1>1, <2>2, HookKeeps
<1>3. CASE \E e \in published : Receive(h, e)
  <2>1. PICK e \in published : Receive(h, e)
    BY <1>3
  <2> DEFINE k == [pc |-> IF e \in receipts THEN "duplicate" ELSE "new", event |-> e]
  <2>2. SharedFree /\ ~Foreign(e) /\ hook' = [hook EXCEPT ![h] = k]
    BY <2>1 DEF Receive
  <2>3. /\ k.event = e /\ k.pc \in {"new", "duplicate"}
        /\ k \in [pc : {"idle", "new", "ingested", "duplicate"}, event : published \union {None}]
    OBVIOUS
  <2> HIDE DEF k
  <2>4. hook' \in HookSet /\ Handling'
    BY <1>1, <2>2, <2>3, HookSlot
  <2>5. QED
    BY <1>1, <2>4, HookKeeps
<1>4. QED
  BY <1>2, <1>3

(* The table of receipts is trimmed to its size.                           *)
LEMMA KeptFits ==
  ASSUME IsFiniteSet(receipts), Cardinality(receipts) <= Cap, NEW e, NEW kept \in Kept(e)
  PROVE  IsFiniteSet(kept) /\ Cardinality(kept) <= Cap /\ kept \subseteq receipts \union {e}
<1> DEFINE all == receipts \union {e}
<1>1. /\ IsFiniteSet(all) /\ Cardinality(receipts) \in Nat /\ Cardinality(all) \in Nat
      /\ Cardinality(all) <= Cardinality(receipts) + 1
  <2>1. IsFiniteSet(all) /\ Cardinality(all) = IF e \in receipts THEN Cardinality(receipts)
                                               ELSE Cardinality(receipts) + 1
    BY FS_AddElement
  <2>2. Cardinality(receipts) \in Nat
    BY FS_CardinalityType
  <2> HIDE DEF all
  <2>3. QED
    BY <2>1, <2>2
<1>2. CASE Cardinality(all) <= Cap
  BY <1>1, <1>2 DEF Kept
<1>3. CASE ~(Cardinality(all) <= Cap)
  <2>1. PICK old \in all : kept = all \ {old}
    BY <1>3 DEF Kept
  <2>2. IsFiniteSet(all \ {old}) /\ Cardinality(all \ {old}) = Cardinality(all) - 1
    BY <1>1, <2>1, FS_RemoveElement
  <2>3. QED
    BY <1>1, <2>1, <2>2
<1>4. QED
  BY <1>2, <1>3

LEMMA RecordReceiptKeeps ==
  ASSUME IInv, NEW h \in Hooks, RecordReceipt(h)
  PROVE  IInv'
<1> DEFINE e == hook[h].event
<1>1. TypeOK /\ Stored /\ Handling /\ ReceiptsTookEffect
  BY DEF IInv
<1>2. /\ hook[h].pc = "ingested" /\ receipts' \in Kept(e) /\ drain' = TRUE
      /\ hook' = [hook EXCEPT ![h] = NoHook]
      /\ UNCHANGED <<world, merchant, row, watermark, alarm, since, poll, admin>>
  BY DEF RecordReceipt
<1>3. SharedFree /\ e \in published /\ row[e[1]] >= e[2]
  BY <1>1, <1>2 DEF Handling
<1>4. IsFiniteSet(receipts) /\ Cardinality(receipts) <= Cap /\ receipts \subseteq published
  BY <1>1 DEF Stored, TypeOK
<1> HIDE DEF e
<1>5. /\ IsFiniteSet(receipts') /\ Cardinality(receipts') <= Cap
      /\ receipts' \subseteq receipts \union {e}
  BY <1>2, <1>4, KeptFits
<1>6. receipts' \subseteq published /\ \A d \in receipts' : row[d[1]] >= d[2]
  BY <1>1, <1>3, <1>4, <1>5 DEF ReceiptsTookEffect
<1>7. hook' \in HookSet /\ Handling'
  BY <1>2, HookSlot
<1>8. QED
  BY <1>2, <1>3, <1>5, <1>6, <1>7, HookKeeps

-----------------------------------------------------------------------------
(* Drains, the account, and the crash.                                     *)

LEMMA DrainKeeps ==
  ASSUME IInv, Recapture \/ DrainDelivers \/ DrainFails
  PROVE  IInv'
<1>1. /\ UNCHANGED <<world, merchant, row, watermark, receipts, since, poll, hook, admin>>
      /\ drain' \in BOOLEAN /\ alarm' \in BOOLEAN
  BY DEF Recapture, DrainDelivers, DrainFails, store, IInv, TypeOK
<1>2. UNCHANGED <<now, square, published, merchant, row, watermark, receipts, since, poll, hook,
                  admin>>
  BY <1>1 DEF world
<1>3. TypeOK'
  BY <1>1, <1>2 DEF IInv, TypeOK
<1>4. QED
  BY <1>2, <1>3 DEF IInv, Clocked, Stored, Passing, Progress, Due, SharedFree, Earliest, Handling,
                    Foreign, Cleared, NothingMissed, OneAccount, ReceiptsTookEffect

(* Steps that leave no pass and no webhook at work.                        *)
LEMMA QuietKeeps ==
  ASSUME IInv, UNCHANGED <<now, square, published>>,
         \A p \in Payments : row'[p] = 0 \/ (row'[p] = row[p] /\ merchant' = merchant),
         TypeOK', Stored', Cleared', NothingMissed', ReceiptsTookEffect',
         poll'.pc = "idle", \A h \in Hooks : hook'[h].pc = "idle"
  PROVE  IInv'
<1>1. Clocked' /\ Passing' /\ Handling'
  BY DEF IInv, Clocked, Passing, Handling
<1>2. OneAccount'
  BY DEF IInv, OneAccount
<1>3. QED
  BY <1>1, <1>2 DEF IInv

LEMMA SwitchClearsKeeps ==
  ASSUME IInv, NEW m \in Merchants, SwitchClears(m)
  PROVE  IInv'
<1>1. TypeOK
  BY DEF IInv
<1>2. /\ ExclusiveFree
      /\ row' = [p \in Payments |-> 0] /\ alarm' = FALSE
      /\ watermark' = [n \in Merchants |-> None] /\ since' = [n \in Merchants |-> None]
      /\ receipts' = {} /\ admin' = [pc |-> "cleared", target |-> m]
      /\ UNCHANGED <<now, square, published, merchant, poll, hook, drain>>
  BY DEF SwitchClears, ClearAccountData, world
<1>3. Cardinality(receipts') = 0 /\ IsFiniteSet(receipts')
  BY <1>2, FS_EmptySet
<1>4. TypeOK'
  <2>1. /\ row' \in [Payments -> Times] /\ receipts' \subseteq published
        /\ Cardinality(receipts') <= Cap
    BY <1>2, <1>3 DEF Times
  <2>2. /\ watermark' \in [Merchants -> (1 .. now) \union {None}]
        /\ since' \in [Merchants -> Times \union {None}]
        /\ admin' \in [pc : {"idle", "cleared"}, target : Merchants \union {None}]
        /\ alarm' \in BOOLEAN
    BY <1>2
  <2>3. QED
    BY <1>1, <1>2, <2>1, <2>2 DEF TypeOK
<1>5. Stored'
  BY <1>1, <1>2, <1>3, Facts DEF Stored
<1>6. Cleared' /\ ReceiptsTookEffect'
  BY <1>2 DEF Cleared, ReceiptsTookEffect
<1>7. NothingMissed'
  BY <1>1, <1>2, Facts DEF NothingMissed
<1>8. poll'.pc = "idle" /\ \A h \in Hooks : hook'[h].pc = "idle"
  BY <1>2 DEF ExclusiveFree
<1>9. QED
  BY <1>2, <1>4, <1>5, <1>6, <1>7, <1>8, QuietKeeps

LEMMA SwitchEndsKeeps ==
  ASSUME IInv, SaveAccount \/ SwitchFails
  PROVE  IInv'
<1>1. TypeOK /\ Stored /\ Passing /\ Handling /\ Cleared /\ ReceiptsTookEffect
  BY DEF IInv
<1>2. /\ admin.pc = "cleared" /\ admin' = NoAdmin
      /\ merchant' = admin.target \/ merchant' = merchant
      /\ UNCHANGED <<now, square, published, row, watermark, receipts, alarm, since, poll, hook,
                     drain>>
  BY DEF SaveAccount, SwitchFails, world, store
<1>3. /\ admin.target \in Merchants /\ \A p \in Payments : row[p] = 0
      /\ \A m \in Merchants : watermark[m] = None
  BY <1>1, <1>2 DEF Cleared
<1>4. TypeOK'
  BY <1>1, <1>2, <1>3 DEF TypeOK, NoAdmin
<1>5. Stored' /\ Cleared' /\ ReceiptsTookEffect'
  BY <1>1, <1>2 DEF Stored, Cleared, ReceiptsTookEffect, NoAdmin
<1>6. NothingMissed'
  BY <1>2, <1>3, <1>4 DEF NothingMissed, TypeOK
<1>7. poll.pc = "idle" /\ \A h \in Hooks : hook[h].pc = "idle"
  BY <1>1, <1>2 DEF Passing, Handling, SharedFree
<1>8. QED
  BY <1>2, <1>3, <1>4, <1>5, <1>6, <1>7, QuietKeeps

LEMMA CrashKeeps ==
  ASSUME IInv, Crash
  PROVE  IInv'
<1>1. TypeOK /\ Stored /\ NothingMissed /\ ReceiptsTookEffect
  BY DEF IInv
<1>2. /\ poll' = NoPoll /\ hook' = [h \in Hooks |-> NoHook]
      /\ admin' = NoAdmin /\ drain' = FALSE
      /\ UNCHANGED <<now, square, published, merchant, row, watermark, receipts, alarm, since>>
  BY DEF Crash, world, store
<1>3. TypeOK'
  BY <1>1, <1>2, NoPollType DEF TypeOK, PollRecord, NoHook, NoAdmin
<1>4. Stored' /\ NothingMissed' /\ ReceiptsTookEffect' /\ Cleared'
  BY <1>1, <1>2 DEF Stored, NothingMissed, ReceiptsTookEffect, Cleared, NoAdmin
<1>5. poll'.pc = "idle" /\ \A h \in Hooks : hook'[h].pc = "idle"
  BY <1>2 DEF NoPoll, NoHook
<1>6. QED
  BY <1>2, <1>3, <1>4, <1>5, QuietKeeps

-----------------------------------------------------------------------------
LEMMA StepKeeps == IInv /\ [Next]_vars => IInv'
<1> SUFFICES ASSUME IInv, [Next]_vars PROVE IInv'
  OBVIOUS
<1>1. CASE (\E p \in Payments, m \in Merchants : SquareUpdates(p, m))
           \/ (\E p \in Payments : Index(p)) \/ Tick
  BY <1>1, SquareUpdatesKeeps, IndexKeeps, TickKeeps
<1>2. CASE StartSync \/ SyncStep \/ SyncFails
  BY <1>2, StartSyncKeeps, PageArrivesKeeps, IngestPolledKeeps, EndPageKeeps, FinishSyncKeeps,
     SyncFailsKeeps DEF SyncStep
<1>3. CASE (\E h \in Hooks : HookStep(h) \/ HookFails(h))
           \/ \E h \in Hooks, e \in published : Receive(h, e)
  BY <1>3, WebhookKeeps, IngestEventKeeps, RecordReceiptKeeps DEF HookStep
<1>4. CASE Recapture \/ DrainDelivers \/ DrainFails
  BY <1>4, DrainKeeps
<1>5. CASE (\E m \in Merchants : SwitchClears(m)) \/ SaveAccount \/ SwitchFails \/ Crash
  BY <1>5, SwitchClearsKeeps, SwitchEndsKeeps, CrashKeeps
<1>6. CASE UNCHANGED vars
  <2>1. UNCHANGED <<world, merchant, store, since, hook, admin, drain, poll>>
    BY <1>6 DEF vars
  <2>2. poll' \in PollRecord /\ now' = now
    BY <2>1 DEF IInv, TypeOK, PollRecord, world
  <2>3. Passing'
    BY <2>1 DEF IInv, Passing, Progress, Due, SharedFree, Earliest, world, store
  <2>4. QED
    BY <2>1, <2>2, <2>3, PollKeeps
<1>7. QED
  BY <1>1, <1>2, <1>3, <1>4, <1>5, <1>6 DEF Next

(* The inductive invariant: what each pass and each webhook at work has    *)
(* done so far, and that nobody is at work while an account is replaced.   *)
THEOREM Invariant == Spec => []IInv
BY InitKeeps, StepKeeps, PTL DEF Spec

(* The tables, the pass and the webhooks keep their types, and the table   *)
(* of receipts its size.                                                   *)
THEOREM TypeCorrect == Spec => []TypeOK
<1>1. IInv => TypeOK
  BY DEF IInv
<1>2. QED
  BY <1>1, Invariant, PTL

(* No payment before the watermark is missing or out of date.              *)
THEOREM NoPaymentMissed == Spec => []NothingMissed
<1>1. IInv => NothingMissed
  BY DEF IInv
<1>2. QED
  BY <1>1, Invariant, PTL

(* Payments of two accounts are never stored side by side.                 *)
THEOREM AccountsNeverMix == Spec => []OneAccount
<1>1. IInv => OneAccount
  BY DEF IInv
<1>2. QED
  BY <1>1, Invariant, PTL

(* An event whose duplicates are dropped has taken effect.                 *)
THEOREM DuplicatesLoseNothing == Spec => []ReceiptsTookEffect
<1>1. IInv => ReceiptsTookEffect
  BY DEF IInv
<1>2. QED
  BY <1>1, Invariant, PTL

(* Rows change by an upsert or are removed by a switch.                    *)
LEMMA RowStep ==
  ASSUME IInv, [Next]_vars
  PROVE  \/ row' = row
         \/ row' = [p \in Payments |-> 0]
         \/ \E p \in Payments, u \in Times : Upsert(p, u)
<1>1. CASE (\E p \in Payments, m \in Merchants : SquareUpdates(p, m))
           \/ (\E p \in Payments : Index(p)) \/ Tick
  BY <1>1 DEF SquareUpdates, Index, Tick, store
<1>2. CASE StartSync \/ SyncStep \/ SyncFails
  <2>1. ASSUME NEW p \in Payments, IngestPolled(p)
        PROVE  row' = row \/ \E u \in Times : Upsert(p, u)
    <3>1. poll.cursor \in Times
      BY DEF IInv, TypeOK
    <3>2. QED
      BY <2>1, <3>1 DEF IngestPolled
  <2>2. QED
    BY <1>2, <2>1 DEF StartSync, SyncStep, SyncFails, PageArrives, EndPage, FinishSync, store
<1>3. CASE (\E h \in Hooks : HookStep(h) \/ HookFails(h))
           \/ \E h \in Hooks, e \in published : Receive(h, e)
  <2>1. ASSUME NEW h \in Hooks, IngestEvent(h)
        PROVE  \E p \in Payments, u \in Times : Upsert(p, u)
    <3>1. hook[h].event \in Events
      BY <2>1 DEF IngestEvent, IInv, Handling, TypeOK
    <3>2. hook[h].event[1] \in Payments /\ hook[h].event[2] \in Times
      BY <3>1 DEF Events, Times
    <3>3. QED
      BY <2>1, <3>2 DEF IngestEvent
  <2>2. QED
    BY <1>3, <2>1 DEF HookStep, HookFails, AnswerDuplicate, RecordReceipt, Receive, store
<1>4. CASE Recapture \/ DrainDelivers \/ DrainFails
  BY <1>4 DEF Recapture, DrainDelivers, DrainFails, store
<1>5. CASE (\E m \in Merchants : SwitchClears(m)) \/ SaveAccount \/ SwitchFails \/ Crash
  BY <1>5 DEF SwitchClears, ClearAccountData, SaveAccount, SwitchFails, Crash, store
<1>6. CASE UNCHANGED vars
  BY <1>6 DEF vars, store
<1>7. QED
  BY <1>1, <1>2, <1>3, <1>4, <1>5, <1>6 DEF Next

(* A stored payment never goes back to an earlier update, whichever of a   *)
(* page and a webhook arrives last.                                        *)
THEOREM UpdatesNeverLost == Spec => NeverBackwards
<1>1. IInv /\ [Next]_vars =>
        \A p \in Payments : row'[p] >= row[p] \/ row' = [q \in Payments |-> 0]
  <2> SUFFICES ASSUME IInv, [Next]_vars, NEW p \in Payments, row' # [q \in Payments |-> 0]
               PROVE  row'[p] >= row[p]
    OBVIOUS
  <2>1. row \in [Payments -> Times] /\ row[p] \in Nat
    BY DEF IInv, TypeOK, Times
  <2>2. CASE row' = row
    BY <2>1, <2>2
  <2>3. CASE \E q \in Payments, u \in Times : Upsert(q, u)
    <3>1. PICK q \in Payments, u \in Times : Upsert(q, u)
      BY <2>3
    <3>2. u \in Nat /\ row[q] \in Nat
      BY <2>1 DEF IInv, TypeOK, Times
    <3>3. QED
      BY <2>1, <3>1, <3>2 DEF Upsert, Stale
  <2>4. QED
    BY <2>2, <2>3, RowStep
<1>2. QED
  BY <1>1, Invariant, PTL DEF Spec, NeverBackwards
=============================================================================
