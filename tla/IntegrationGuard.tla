-------------------------- MODULE IntegrationGuard --------------------------
(***************************************************************************)
(* The integration guard: the file lock that requests and polls hold       *)
(* shared while they use a provider, and that whoever replaces a provider  *)
(* holds exclusively.  A task is one request, poll or drain; it holds the  *)
(* guard from a step to a later one, or takes and drops it within a step.  *)
(*                                                                         *)
(* The camera map is here because it depends on both providers, and the    *)
(* replacement of either erases it.                                        *)
(***************************************************************************)
EXTENDS Naturals

CONSTANTS
  Tasks,          \* requests, polls and drains under way at a time
  None,
  MaxRequests     \* bound: requests, polls and drains begun in all

ASSUME GuardAssumption == MaxRequests \in Nat

VARIABLES
  task,           \* what each task does, and what it keeps in its variables
  guard,          \* how each holds the guard
  requests,
  mapping         \* whose sales are mapped to whose cameras: None if nobody's

guardVars == <<task, guard, requests>>

Idle == [pc |-> "idle"]

GuardInit ==
  /\ task = [t \in Tasks |-> Idle]
  /\ guard = [t \in Tasks |-> "free"]
  /\ requests = 0

At(t, pc) == task[t].pc = pc

(* Mutation: the guard is asked for shared by mistake.                     *)
IgnoresReaders(t) == \A u \in Tasks \ {t} : guard[u] # "exclusive"

SharedFree(t) == \A u \in Tasks \ {t} : guard[u] # "exclusive"
ExclusiveFree(t) == \A u \in Tasks \ {t} : guard[u] = "free"

Goes(t, stage) == task' = [task EXCEPT ![t] = stage]
Holds(t, mode) == guard' = [guard EXCEPT ![t] = mode]

Starts(t) == At(t, "idle") /\ requests < MaxRequests /\ requests' = requests + 1

(* Tasks that keep the guard, or go on without it.                         *)
EnterShared(t, stage) ==
  Starts(t) /\ SharedFree(t) /\ Goes(t, stage) /\ Holds(t, "shared")
EnterExclusive(t, stage) ==
  Starts(t) /\ ExclusiveFree(t) /\ Goes(t, stage) /\ Holds(t, "exclusive")
EnterFree(t, stage) == Starts(t) /\ Goes(t, stage) /\ UNCHANGED guard

Continue(t, stage) == Goes(t, stage) /\ UNCHANGED <<guard, requests>>

(* A task that reached its last stage answers, and drops the guard.        *)
Finish(t) == Goes(t, Idle) /\ Holds(t, "free") /\ UNCHANGED requests

(* Requests without a stage: the guard is taken and dropped in the step.   *)
Briefly(t) == Starts(t) /\ ExclusiveFree(t) /\ UNCHANGED <<task, guard>>
BrieflyShared(t) == Starts(t) /\ SharedFree(t) /\ UNCHANGED <<task, guard>>

(* A sync or a drain ends, and at any stage a task fails, loses its client *)
(* or dies with the process; what it wrote before stays.                   *)
Quit(t) == ~ At(t, "idle") /\ Finish(t)
=============================================================================
