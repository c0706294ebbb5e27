---------------------------- MODULE AlarmLedger ----------------------------
(***************************************************************************)
(* What alarm delivery promises for every sale, without claims, leases,    *)
(* guards or drains: a sale is open until it is settled, once and for      *)
(* ever; it rings only while it is open and no earlier ring is awaiting    *)
(* its answer; it settles as "rung" only on the answer to a ring, and as   *)
(* "handled" (history, or the feature was switched off) only when no       *)
(* answer is awaited.  Delivery is at least once: a ring whose answer is   *)
(* lost is doubtful, and leaves the sale open.                             *)
(***************************************************************************)
EXTENDS Naturals

CONSTANT Sales

VARIABLES
  outcome,    \* what became of each sale
  rings,      \* how often Protect rang for it
  doubtful    \* how many of those rings were never confirmed

vars == <<outcome, rings, doubtful>>

Init ==
  /\ outcome = [s \in Sales |-> "open"]
  /\ rings = [s \in Sales |-> 0]
  /\ doubtful = [s \in Sales |-> 0]

Awaited(s) == outcome[s] = "open" /\ rings[s] = doubtful[s] + 1

(* Protect rings for an open sale with no ring outstanding.                *)
Ring(s) ==
  /\ outcome[s] = "open"
  /\ rings[s] = doubtful[s]
  /\ rings' = [rings EXCEPT ![s] = @ + 1]
  /\ UNCHANGED <<outcome, doubtful>>

(* The answer to the outstanding ring settles the sale.                    *)
Confirm(s) ==
  /\ Awaited(s)
  /\ outcome' = [outcome EXCEPT ![s] = "rung"]
  /\ UNCHANGED <<rings, doubtful>>

(* Answers are lost: one by a failed request, several by a crash.          *)
Lose(S) ==
  /\ \A s \in S : Awaited(s)
  /\ doubtful' = [s \in Sales |-> IF s \in S THEN doubtful[s] + 1 ELSE doubtful[s]]
  /\ UNCHANGED <<outcome, rings>>

(* Open sales without an outstanding ring are marked handled.              *)
Handle(S) ==
  /\ \A s \in S : outcome[s] = "open" /\ rings[s] = doubtful[s]
  /\ outcome' = [s \in Sales |-> IF s \in S THEN "handled" ELSE outcome[s]]
  /\ UNCHANGED <<rings, doubtful>>

Next ==
  \/ \E s \in Sales : Ring(s) \/ Confirm(s)
  \/ \E S \in SUBSET Sales : Lose(S) \/ Handle(S)

Spec == Init /\ [][Next]_vars
=============================================================================
