----------------------------- MODULE Providers -----------------------------
(***************************************************************************)
(* The providers of an installation: SquareAccount and ProtectConsole      *)
(* under one integration guard, a sync that uses both, and the camera map, *)
(* whose form an administrator fills in from pages loaded earlier.         *)
(***************************************************************************)
EXTENDS SquareAccount, ProtectConsole

VARIABLE form     \* the pages an administrator has loaded to map cameras

vars == <<guardVars, mapping, squareVars, protectVars, form>>

NoForm == [account |-> None, revision |-> 0, console |-> None, generation |-> 0]

(* Nothing is set up, or everything is, and the form is on the screen.     *)
Init ==
  /\ GuardInit /\ SquareInit /\ ProtectInit
  /\ \/ /\ square = NoAccount /\ protect = NoConsole
        /\ mapping = None /\ form = NoForm
     \/ /\ square # NoAccount /\ protect # NoConsole
        /\ mapping = [account |-> square.merchant, console |-> protect.console]
        /\ form = [account |-> square.merchant, revision |-> square.revision,
                   console |-> protect.console, generation |-> protect.generation]

(* The locations, with the revision of their account.                      *)
ShowLocations(t) ==
  /\ Client(t, "locations")
  /\ form' = [form EXCEPT !.account = task[t].account, !.revision = square.revision]
  /\ Finish(t)
  /\ UNCHANGED <<mapping, squareVars, protectVars>>

(* The cameras, with the generation of their console.                      *)
ShowCameras(t) ==
  /\ BrieflyShared(t)
  /\ Verified
  /\ form' = [form EXCEPT !.console = protect.console, !.generation = protect.generation]
  /\ UNCHANGED <<mapping, squareVars, protectVars>>

(* The form was filled in from pages of the account and console in force.  *)
Current == form.revision = square.revision /\ form.generation = protect.generation

SetMapping(t) ==
  /\ Briefly(t)
  /\ form.revision # 0 /\ form.generation # 0 /\ Current
  /\ mapping' = [account |-> form.account, console |-> form.console]
  /\ UNCHANGED <<squareVars, protectVars, form>>

(* A sync verifies the console first, and leaves out one out of reach; a   *)
(* console that reports another identity ends it.                          *)
SyncBegins(t) ==
  /\ \/ BeginPages(t, None)
     \/ Verified /\ BeginPages(t, protect.host)
  /\ UNCHANGED <<protectVars, form>>

Next ==
  \/ \E t \in Tasks :
       \/ SquareNext(t) /\ UNCHANGED <<protectVars, form>>
       \/ ProtectNext(t) /\ UNCHANGED <<squareVars, form>>
       \/ SyncBegins(t) \/ ShowLocations(t) \/ ShowCameras(t) \/ SetMapping(t)
       \/ Quit(t) /\ UNCHANGED <<mapping, squareVars, protectVars, form>>
  \/ SquareExpires /\ UNCHANGED <<protectVars, form>>
  \/ Surroundings /\ UNCHANGED <<squareVars, form>>

Spec == Init /\ [][Next]_vars

-----------------------------------------------------------------------------
(* Properties.                                                             *)

(* Who holds the guard, and how the settings are related.                  *)
TypeOK ==
  /\ guard \in [Tasks -> {"free", "shared", "exclusive"}]
  /\ \A t, u \in Tasks : guard[t] = "exclusive" /\ u # t => guard[u] = "free"
  /\ \A t \in Tasks : At(t, "idle") => guard[t] = "free"
  /\ square.merchant \in Accounts \union {None}
  /\ square.merchant = None <=> square.revision = 0
  /\ offer.account \in Accounts \union {None} /\ pending.account \in Accounts \union {None}
  /\ states \in 0 .. KeptStates
  /\ protect.host \in Hosts \union {None} /\ protect.console \in Consoles \union {None}
  /\ protect.host = None <=> protect.generation = 0
  /\ motion.token \in 0 .. Len(issued)
  /\ requests \in 0 .. MaxRequests

(* The camera map is of the connected account and the saved console.       *)
OwnMapping ==
  mapping = None \/ mapping = [account |-> square.merchant, console |-> protect.console]

(* Nothing stored is attributed to a provider that it did not come from,   *)
(* while providers are replaced, refreshed, synced and drained at once and *)
(* requests fail or die at any point.                                      *)
OwnData == OwnAccount /\ OwnConsole /\ OwnCamera /\ OwnMapping

AccountSwitch ==
  square.merchant # None /\ square'.merchant # square.merchant
    => /\ sales = {} /\ mapping = None
       /\ square'.merchant \in {offer.account, pending.account}

ConsoleSwitch ==
  protect.host # None
    /\ <<protect'.host, protect'.console>> # <<protect.host, protect.console>>
    => /\ pictures = {} /\ mapping = None
       /\ confirmation.host = protect'.host /\ confirmation.console = protect'.console

(* The account or the console is replaced only when its replacement by     *)
(* that very one has been confirmed and what came from it has been erased. *)
SwitchConfirmed == [][AccountSwitch /\ ConsoleSwitch]_vars
=============================================================================
