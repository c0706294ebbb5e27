-------------------------- MODULE ProvidersProofs --------------------------
(***************************************************************************)
(* Proofs about Providers, for any number of tasks, accounts and consoles: *)
(* nothing is attributed to a provider that it did not come from, and no   *)
(* provider is replaced unconfirmed.                                       *)
(*                                                                         *)
(* Who is at a stage holds the guard in a way the stage determines (Held), *)
(* so that what it keeps in its variables stays true of the settings until *)
(* it uses it: the account of a client, the host that a capture asks, the  *)
(* emptiness of what a replacement has erased.                             *)
(***************************************************************************)
EXTENDS Providers, TLAPS

Account == Accounts \union {None}
Console == Consoles \union {None}
Camera == [console : Console, camera : Cameras \union {0}]

SquareTypes ==
  /\ square \in [merchant : Account, access : Account, refresh : Account,
                 webhook : Account, revision : Nat]
  /\ offer \in [account : Account, live : BOOLEAN]
  /\ pending \in [account : Account, live : BOOLEAN]
  /\ states \in 0 .. KeptStates
  /\ sales \subseteq Accounts

ProtectTypes ==
  /\ protect \in [host : Hosts \union {None}, console : Console, generation : Nat]
  /\ confirmation \in [id : Nat, host : Hosts \union {None}, console : Console,
                       live : BOOLEAN]
  /\ motion \in [token : Nat, camera : Camera]
  /\ issued \in Seq(Camera)
  /\ pictures \subseteq Consoles
  /\ answers \in [Hosts -> Consoles]

FormTypes ==
  form \in [account : Account, revision : Nat, console : Console, generation : Nat]

GuardTypes ==
  /\ DOMAIN task = Tasks
  /\ guard \in [Tasks -> {"free", "shared", "exclusive"}]
  /\ requests \in 0 .. MaxRequests

(* What a task keeps in its variables at a stage.                          *)
Fits(stage) ==
  /\ stage.pc \in {"save", "adopt", "client", "sync"} => stage.account \in Account
  /\ stage.pc = "save" => stage.webhook \in Account
  /\ stage.pc = "sync" => stage.host \in Hosts \union {None}
  /\ stage.pc \in {"ask console", "verify", "save console", "bind", "capture"}
       => stage.host \in Hosts
  /\ stage.pc \in {"save console", "bind"} => stage.console \in Consoles

StageTypes == \A t \in Tasks : Fits(task[t])

Types == SquareTypes /\ ProtectTypes /\ FormTypes /\ GuardTypes /\ StageTypes

ExclusiveStages == {"save", "forget", "exchange", "adopt", "ask console", "bind"}
SharedStages == {"refresh", "renew", "ready", "client", "sync", "capture",
                 "meet console", "ask cameras"}

(* How the guard is held at a stage.                                       *)
Mode(pc) ==
  IF pc \in ExclusiveStages THEN "exclusive"
  ELSE IF pc \in SharedStages THEN "shared" ELSE "free"

(* The stage determines how the guard is held, and the guard excludes.     *)
Held ==
  \A t \in Tasks :
    /\ guard[t] = Mode(task[t].pc)
    /\ \A u \in Tasks : guard[t] = "exclusive" /\ u # t => guard[u] = "free"

(* What a task knows of the account while it uses or replaces it.          *)
KnowsAccount(stage) ==
  /\ stage.pc = "renew" => stage.seen[3] # None
  /\ stage.pc \in {"client", "sync"}
       => stage.account = square.merchant /\ stage.account # None
  /\ stage.pc \in {"save", "adopt"} => sales = {} /\ stage.account # None
  /\ stage.pc = "save" => stage.account = offer.account
  /\ stage.pc = "adopt" => stage.account = pending.account

FormOfAccount ==
  /\ form.revision <= square.revision
  /\ form.revision = square.revision /\ form.revision # 0 => form.account = square.merchant

Settled ==
  /\ square.merchant = None <=> square.revision = 0
  /\ OwnAccount
  /\ FormOfAccount

SquareInv ==
  /\ Settled
  /\ \A t \in Tasks : KnowsAccount(task[t])

(* What a task knows of the console while it uses or replaces it.          *)
KnowsConsole(stage) ==
  /\ (stage.pc = "sync" /\ stage.host # None) \/ stage.pc = "capture"
       => stage.host = protect.host /\ answers[stage.host] = protect.console
  /\ stage.pc = "bind"
       => /\ pictures = {}
          /\ confirmation.host = stage.host /\ confirmation.console = stage.console

FormOfConsole ==
  /\ form.generation <= protect.generation
  /\ form.generation = protect.generation /\ form.generation # 0
       => form.console = protect.console

Installed ==
  /\ protect.host = None <=> protect.generation = 0
  /\ protect.host = None <=> protect.console = None
  /\ OwnConsole
  /\ FormOfConsole

ProtectInv ==
  /\ Installed
  /\ \A t \in Tasks : KnowsConsole(task[t])

(* The camera map is nobody's while one of its two owners is replaced.     *)
MappingInv ==
  /\ OwnMapping
  /\ mapping # None => square.revision # 0 /\ protect.generation # 0
  /\ \A t \in Tasks : task[t].pc \in {"save", "adopt", "bind"} => mapping = None

(* What the motion tokens were issued for.                                 *)
MotionInv ==
  /\ motion.token \in 0 .. Len(issued)
  /\ motion.token = 0 => motion = NoMotion
  /\ motion.token # 0 => issued[motion.token] = motion.camera
  /\ \A e \in events : e.token \in 1 .. Len(issued)
  /\ OwnCamera

IInv == Types /\ Held /\ SquareInv /\ ProtectInv /\ MappingInv /\ MotionInv

-----------------------------------------------------------------------------
(***************************************************************************)
(* The movements of the tasks.                                             *)
(***************************************************************************)

(* Task t goes to a stage, and the others stay.                            *)
Moved(t, stage) ==
  DOMAIN task' = Tasks /\ \A u \in Tasks : task'[u] = IF u = t THEN stage ELSE task[u]

LEMMA GoesMoves ==
  ASSUME GuardTypes, NEW t \in Tasks, NEW stage, Goes(t, stage)
  PROVE  Moved(t, stage)
BY DEF GuardTypes, Goes, Moved

LEMMA HoldsMoves ==
  ASSUME GuardTypes, NEW t \in Tasks, NEW mode \in {"free", "shared", "exclusive"},
         Holds(t, mode)
  PROVE  /\ guard' \in [Tasks -> {"free", "shared", "exclusive"}]
         /\ \A u \in Tasks : guard'[u] = IF u = t THEN mode ELSE guard[u]
BY DEF GuardTypes, Holds

(* A task that begins with the guard has found it free for its purpose.    *)
LEMMA EnterSharedHeld ==
  ASSUME GuardTypes, Held, NEW t \in Tasks, NEW stage,
         EnterShared(t, stage), Mode(stage.pc) = "shared"
  PROVE  GuardTypes' /\ Held' /\ Moved(t, stage)
<1>1. Moved(t, stage)
  BY GoesMoves DEF EnterShared
<1>2. requests' \in 0 .. MaxRequests
  BY GuardAssumption DEF EnterShared, Starts, GuardTypes
<1>3. QED
  BY <1>1, <1>2, HoldsMoves DEF EnterShared, SharedFree, GuardTypes, Held, Moved

LEMMA EnterExclusiveHeld ==
  ASSUME GuardTypes, Held, NEW t \in Tasks, NEW stage,
         EnterExclusive(t, stage), Mode(stage.pc) = "exclusive"
  PROVE  GuardTypes' /\ Held' /\ Moved(t, stage)
<1>1. Moved(t, stage)
  BY GoesMoves DEF EnterExclusive
<1>2. requests' \in 0 .. MaxRequests
  BY GuardAssumption DEF EnterExclusive, Starts, GuardTypes
<1>3. QED
  BY <1>1, <1>2, HoldsMoves DEF EnterExclusive, ExclusiveFree, GuardTypes, Held, Moved

LEMMA EnterFreeHeld ==
  ASSUME GuardTypes, Held, NEW t \in Tasks, NEW stage,
         EnterFree(t, stage), Mode(stage.pc) = "free"
  PROVE  GuardTypes' /\ Held' /\ Moved(t, stage)
<1>1. Moved(t, stage)
  BY GoesMoves DEF EnterFree
<1>2. requests' \in 0 .. MaxRequests
  BY GuardAssumption DEF EnterFree, Starts, GuardTypes
<1>3. Mode("idle") = "free"
  BY DEF Mode, ExclusiveStages, SharedStages
<1>4. QED
  BY <1>1, <1>2, <1>3 DEF EnterFree, Starts, At, GuardTypes, Held, Moved

(* A task goes on with the guard as it is.                                 *)
LEMMA ContinueHeld ==
  ASSUME GuardTypes, Held, NEW t \in Tasks, NEW stage,
         Continue(t, stage), Mode(stage.pc) = Mode(task[t].pc)
  PROVE  GuardTypes' /\ Held' /\ Moved(t, stage)
<1>1. Moved(t, stage)
  BY GoesMoves DEF Continue
<1>2. QED
  BY <1>1 DEF Continue, GuardTypes, Held, Moved

(* A task that ends drops it.                                              *)
LEMMA FinishHeld ==
  ASSUME GuardTypes, Held, NEW t \in Tasks, Finish(t)
  PROVE  GuardTypes' /\ Held' /\ Moved(t, Idle)
<1>1. Moved(t, Idle)
  BY GoesMoves DEF Finish
<1>2. Mode(Idle.pc) = "free"
  BY DEF Idle, Mode, ExclusiveStages, SharedStages
<1>3. QED
  BY <1>1, <1>2, HoldsMoves DEF Finish, GuardTypes, Held, Moved

(* A request without a stage leaves the tasks and the guard.               *)
LEMMA BrieflyHeld ==
  ASSUME GuardTypes, Held, NEW t \in Tasks, Briefly(t) \/ BrieflyShared(t)
  PROVE  GuardTypes' /\ Held' /\ UNCHANGED task
BY GuardAssumption DEF Briefly, BrieflyShared, Starts, GuardTypes, Held

-----------------------------------------------------------------------------
(***************************************************************************)
(* The guard: every task takes, keeps and drops it as its stage says.      *)
(***************************************************************************)

(* Replacing the account.                                                  *)
LEMMA SquareChangeHeld ==
  ASSUME GuardTypes, Held, NEW t \in Tasks, SquareChange(t)
  PROVE  GuardTypes' /\ Held'
<1>1. CASE SaveSquare(t)
  BY <1>1, ContinueHeld DEF SaveSquare, At, Mode, ExclusiveStages, SharedStages
<1>2. CASE Callback(t)
  BY <1>2, EnterExclusiveHeld DEF Callback, Mode, ExclusiveStages, SharedStages
<1>3. CASE ConfirmOAuth(t)
  BY <1>3, EnterExclusiveHeld DEF ConfirmOAuth, Mode, ExclusiveStages, SharedStages
<1>4. ASSUME NEW a \in Accounts, NEW webhook, ConfirmSwitch(t, a, webhook)
      PROVE  GuardTypes' /\ Held'
  BY <1>4, EnterExclusiveHeld DEF ConfirmSwitch, Mode, ExclusiveStages, SharedStages
<1>5. ASSUME NEW a \in Accounts, NEW webhook, Reconnect(t, a, webhook)
      PROVE  GuardTypes' /\ Held'
  BY <1>5, EnterExclusiveHeld DEF Reconnect, Mode, ExclusiveStages, SharedStages
<1>6. CASE ForgetStates(t)
  BY <1>6, FinishHeld DEF ForgetStates
<1>7. CASE AdoptOAuth(t)
  BY <1>7, FinishHeld DEF AdoptOAuth
<1>8. ASSUME NEW a \in Accounts, ConnectOAuth(t, a)
      PROVE  GuardTypes' /\ Held'
  BY <1>8, FinishHeld DEF ConnectOAuth
<1>9. ASSUME NEW a \in Accounts, ParkOAuth(t, a)
      PROVE  GuardTypes' /\ Held'
  BY <1>9, FinishHeld DEF ParkOAuth
<1>10. QED
  BY <1>1, <1>2, <1>3, <1>4, <1>5, <1>6, <1>7, <1>8, <1>9, FinishHeld, BrieflyHeld
     DEF SquareChange

(* Using the account.                                                      *)
LEMMA SquareClientHeld ==
  ASSUME GuardTypes, Held, NEW t \in Tasks, SquareClient(t)
  PROVE  GuardTypes' /\ Held'
<1>1. ASSUME NEW what, UseSquare(t, what)
      PROVE  GuardTypes' /\ Held'
  BY <1>1, EnterSharedHeld DEF UseSquare, Mode, ExclusiveStages, SharedStages
<1>2. CASE StartRefresh(t)
  BY <1>2, ContinueHeld DEF StartRefresh, At, Mode, ExclusiveStages, SharedStages
<1>3. CASE EndRefresh(t)
  BY <1>3, ContinueHeld DEF EndRefresh, At, Mode, ExclusiveStages, SharedStages
<1>4. CASE GetClient(t)
  BY <1>4, ContinueHeld DEF GetClient, At, Mode, ExclusiveStages, SharedStages
<1>5. CASE RegisterWebhook(t)
  BY <1>5, FinishHeld DEF RegisterWebhook
<1>6. CASE Ingest(t)
  BY <1>6 DEF Ingest, guardVars, GuardTypes, Held
<1>7. QED
  BY <1>1, <1>2, <1>3, <1>4, <1>5, <1>6, FinishHeld, BrieflyHeld DEF SquareClient

(* Replacing the console.                                                  *)
LEMMA ConsoleChangeHeld ==
  ASSUME GuardTypes, Held, NEW t \in Tasks, ConsoleChange(t)
  PROVE  GuardTypes' /\ Held'
<1>1. ASSUME NEW h \in Hosts, AskConsole(t, h)
      PROVE  GuardTypes' /\ Held'
  BY <1>1, EnterExclusiveHeld DEF AskConsole, Mode, ExclusiveStages, SharedStages
<1>2. CASE Confirm(t)
  BY <1>2, FinishHeld DEF Confirm
<1>3. ASSUME NEW h \in Hosts, NEW id, ReadConsole(t, h, id)
      PROVE  GuardTypes' /\ Held'
  BY <1>3, EnterFreeHeld DEF ReadConsole, Mode, ExclusiveStages, SharedStages
<1>4. CASE VerifyConsole(t)
  BY <1>4, ContinueHeld DEF VerifyConsole, At, Mode, ExclusiveStages, SharedStages
<1>5. CASE SaveConsole(t)
  BY <1>5, FinishHeld DEF SaveConsole
<1>6. CASE EraseProtect(t)
  <2> DEFINE stage == [pc |-> "bind", host |-> task[t].host, console |-> task[t].console]
  <2>1. Moved(t, stage)
    BY <1>6, GoesMoves DEF EraseProtect
  <2>2. \A u \in Tasks : guard'[u] = IF u = t THEN "exclusive" ELSE guard[u]
    BY <1>6, HoldsMoves DEF EraseProtect
  <2>3. GuardTypes'
    BY <1>6, <2>1, HoldsMoves DEF EraseProtect, GuardTypes, Moved
  <2>4. Mode(stage.pc) = "exclusive"
    BY DEF Mode, ExclusiveStages
  <2> HIDE DEF stage
  <2>5. \A u \in Tasks : guard'[u] = Mode(task'[u].pc)
    BY <2>1, <2>2, <2>4 DEF Held, Moved
  <2>6. \A u, v \in Tasks : guard'[u] = "exclusive" /\ v # u => guard'[v] = "free"
    BY <1>6, <2>2 DEF EraseProtect, ExclusiveFree, Held
  <2>7. QED
    BY <2>3, <2>5, <2>6 DEF Held
<1>7. CASE BindConsole(t)
  BY <1>7, FinishHeld DEF BindConsole
<1>8. QED
  BY <1>1, <1>2, <1>3, <1>4, <1>5, <1>6, <1>7, FinishHeld, BrieflyHeld DEF ConsoleChange

(* Using the console.                                                      *)
LEMMA ProtectHeld ==
  ASSUME GuardTypes, Held, NEW t \in Tasks, ProtectNext(t)
  PROVE  GuardTypes' /\ Held'
<1>1. CASE StartMotion(t)
  BY <1>1, EnterSharedHeld DEF StartMotion, Mode, ExclusiveStages, SharedStages
<1>2. CASE DisableMotion(t)
  BY <1>2, BrieflyHeld DEF DisableMotion
<1>3. CASE RecordMotion(t)
  BY <1>3, FinishHeld DEF RecordMotion
<1>4. ASSUME NEW n \in Cameras, NEW asked \in BOOLEAN, ConfigureMotion(t, n, asked)
      PROVE  GuardTypes' /\ Held'
  BY <1>4, FinishHeld DEF ConfigureMotion
<1>5. ASSUME NEW k \in DOMAIN issued, Authenticate(t, k)
      PROVE  GuardTypes' /\ Held'
  BY <1>5, EnterFreeHeld DEF Authenticate, Mode, ExclusiveStages, SharedStages
<1>6. CASE StartDrain(t)
  BY <1>6, EnterSharedHeld DEF StartDrain, Mode, ExclusiveStages, SharedStages
<1>7. CASE MeetConsole(t)
  BY <1>7, ContinueHeld DEF MeetConsole, At, Mode, ExclusiveStages, SharedStages
<1>8. CASE EndPages(t)
  BY <1>8, ContinueHeld DEF EndPages, At, Mode, ExclusiveStages, SharedStages
<1>9. CASE Capture(t)
  BY <1>9 DEF Capture, guardVars, GuardTypes, Held
<1>10. CASE ConsoleChange(t)
  BY <1>10, ConsoleChangeHeld
<1>11. QED
  BY <1>1, <1>2, <1>3, <1>4, <1>5, <1>6, <1>7, <1>8, <1>9, <1>10, FinishHeld, BrieflyHeld
     DEF ProtectNext, Motion

LEMMA HeldStep ==
  ASSUME GuardTypes, Held, [Next]_vars
  PROVE  GuardTypes' /\ Held'
<1>1. ASSUME NEW t \in Tasks, SquareNext(t)
      PROVE  GuardTypes' /\ Held'
  <2>1. CASE SquareBriefly(t)
    BY <2>1, BrieflyHeld DEF SquareBriefly, SetOAuthApp, StartOAuth, CancelOAuth,
                             AskSwitch
  <2>2. QED
    BY <1>1, <2>1, SquareChangeHeld, SquareClientHeld DEF SquareNext
<1>2. ASSUME NEW t \in Tasks, SyncBegins(t)
      PROVE  GuardTypes' /\ Held'
  BY <1>2, ContinueHeld DEF SyncBegins, BeginPages, Client, At, Mode, ExclusiveStages,
                            SharedStages
<1>3. ASSUME NEW t \in Tasks, ShowLocations(t) \/ Quit(t)
      PROVE  GuardTypes' /\ Held'
  BY <1>3, FinishHeld DEF ShowLocations, Quit
<1>4. ASSUME NEW t \in Tasks, ShowCameras(t) \/ SetMapping(t)
      PROVE  GuardTypes' /\ Held'
  BY <1>4, BrieflyHeld DEF ShowCameras, SetMapping
<1>5. CASE SquareExpires
  BY <1>5 DEF SquareExpires, OfferExpires, PendingExpires, StateExpires, guardVars,
              GuardTypes, Held
<1>6. CASE Surroundings
  BY <1>6 DEF Surroundings, ConfirmationExpires, Replace, guardVars, GuardTypes, Held
<1>7. CASE UNCHANGED vars
  BY <1>7 DEF vars, guardVars, GuardTypes, Held
<1>8. QED
  BY <1>1, <1>2, <1>3, <1>4, <1>5, <1>6, <1>7, ProtectHeld DEF Next

-----------------------------------------------------------------------------
(***************************************************************************)
(* Types.                                                                  *)
(***************************************************************************)

LEMMA MovedFits ==
  ASSUME StageTypes, NEW t \in Tasks, NEW stage, Moved(t, stage), Fits(stage)
  PROVE  StageTypes'
BY DEF StageTypes, Moved

LEMMA FinishFits ==
  ASSUME GuardTypes, StageTypes, NEW t \in Tasks, Finish(t)
  PROVE  StageTypes'
BY GoesMoves, MovedFits DEF Finish, Idle, Fits

(* Replacing the account.                                                  *)
LEMMA SquareChangeFits ==
  ASSUME Types, NEW t \in Tasks, SquareChange(t)
  PROVE  StageTypes'
<1> USE DEF Types
<1>1. CASE SaveSquare(t)
  BY <1>1, GoesMoves, MovedFits DEF SaveSquare, Continue, Fits
<1>2. CASE Callback(t)
  BY <1>2, GoesMoves, MovedFits DEF Callback, EnterExclusive, Fits
<1>3. CASE ConfirmOAuth(t)
  BY <1>3, GoesMoves, MovedFits DEF ConfirmOAuth, EnterExclusive, SquareTypes, Fits
<1>4. ASSUME NEW a \in Accounts, NEW webhook \in {None, a}, ConfirmSwitch(t, a, webhook)
      PROVE  StageTypes'
  BY <1>4, GoesMoves, MovedFits DEF ConfirmSwitch, EnterExclusive, Account, Fits
<1>5. ASSUME NEW a \in Accounts, NEW webhook, Reconnect(t, a, webhook)
      PROVE  StageTypes'
  BY <1>5, GoesMoves, MovedFits DEF Reconnect, EnterExclusive, Fits
<1>6. CASE ForgetStates(t) \/ AdoptOAuth(t)
  BY <1>6, FinishFits DEF ForgetStates, AdoptOAuth
<1>7. ASSUME NEW a \in Accounts, ConnectOAuth(t, a) \/ ParkOAuth(t, a)
      PROVE  StageTypes'
  BY <1>7, FinishFits DEF ConnectOAuth, ParkOAuth
<1>8. QED
  BY <1>1, <1>2, <1>3, <1>4, <1>5, <1>6, <1>7 DEF SquareChange

(* Using the account.                                                      *)
LEMMA SquareClientFits ==
  ASSUME Types, NEW t \in Tasks, SquareClient(t)
  PROVE  StageTypes'
<1> USE DEF Types
<1>1. ASSUME NEW what, UseSquare(t, what)
      PROVE  StageTypes'
  BY <1>1, GoesMoves, MovedFits DEF UseSquare, EnterShared, Fits
<1>2. CASE StartRefresh(t)
  BY <1>2, GoesMoves, MovedFits DEF StartRefresh, Continue, Fits
<1>3. CASE EndRefresh(t)
  BY <1>3, GoesMoves, MovedFits DEF EndRefresh, Continue, Fits
<1>4. CASE GetClient(t)
  BY <1>4, GoesMoves, MovedFits DEF GetClient, Continue, SquareTypes, Fits
<1>5. CASE RegisterWebhook(t)
  BY <1>5, FinishFits DEF RegisterWebhook
<1>6. CASE Ingest(t)
  BY <1>6 DEF Ingest, guardVars, StageTypes
<1>7. QED
  BY <1>1, <1>2, <1>3, <1>4, <1>5, <1>6 DEF SquareClient

(* Replacing the console.                                                  *)
LEMMA ConsoleChangeFits ==
  ASSUME Types, NEW t \in Tasks, ConsoleChange(t)
  PROVE  StageTypes'
<1> USE DEF Types
<1>1. ASSUME NEW h \in Hosts, AskConsole(t, h)
      PROVE  StageTypes'
  BY <1>1, GoesMoves, MovedFits DEF AskConsole, EnterExclusive, Fits
<1>2. ASSUME NEW h \in Hosts, NEW id, ReadConsole(t, h, id)
      PROVE  StageTypes'
  BY <1>2, GoesMoves, MovedFits DEF ReadConsole, EnterFree, Fits
<1>3. CASE VerifyConsole(t)
  BY <1>3, GoesMoves, MovedFits DEF VerifyConsole, Continue, At, Differs, StageTypes,
                                    ProtectTypes, Fits
<1>4. CASE EraseProtect(t)
  BY <1>4, GoesMoves, MovedFits DEF EraseProtect, At, StageTypes, Fits
<1>5. CASE Confirm(t) \/ SaveConsole(t) \/ BindConsole(t)
  BY <1>5, FinishFits DEF Confirm, SaveConsole, BindConsole
<1>6. QED
  BY <1>1, <1>2, <1>3, <1>4, <1>5 DEF ConsoleChange

(* Using the console.                                                      *)
LEMMA ProtectFits ==
  ASSUME Types, NEW t \in Tasks, ProtectNext(t)
  PROVE  StageTypes'
<1> USE DEF Types
<1>1. CASE StartMotion(t)
  BY <1>1, GoesMoves, MovedFits DEF StartMotion, EnterShared, Fits
<1>2. CASE StartDrain(t)
  BY <1>2, GoesMoves, MovedFits DEF StartDrain, EnterShared, Fits
<1>3. ASSUME NEW k \in DOMAIN issued, Authenticate(t, k)
      PROVE  StageTypes'
  BY <1>3, GoesMoves, MovedFits DEF Authenticate, EnterFree, Fits
<1>4. CASE MeetConsole(t)
  BY <1>4, GoesMoves, MovedFits DEF MeetConsole, Continue, Verified, ProtectTypes, Fits
<1>5. CASE EndPages(t)
  BY <1>5, GoesMoves, MovedFits DEF EndPages, Continue, At, StageTypes, Fits
<1>6. ASSUME NEW n \in Cameras, NEW asked \in BOOLEAN, ConfigureMotion(t, n, asked)
      PROVE  StageTypes'
  BY <1>6, FinishFits DEF ConfigureMotion
<1>7. CASE RecordMotion(t)
  BY <1>7, FinishFits DEF RecordMotion
<1>8. CASE DisableMotion(t)
  BY <1>8 DEF DisableMotion, BrieflyShared, StageTypes
<1>9. CASE Capture(t)
  BY <1>9 DEF Capture, guardVars, StageTypes
<1>10. QED
  BY <1>1, <1>2, <1>3, <1>4, <1>5, <1>6, <1>7, <1>8, <1>9, ConsoleChangeFits
     DEF ProtectNext, Motion

(* Tasks keep what their stage asks for.                                   *)
LEMMA StageStep ==
  ASSUME Types, [Next]_vars
  PROVE  StageTypes'
<1>1. ASSUME NEW t \in Tasks, SquareNext(t)
      PROVE  StageTypes'
  <2>1. CASE SquareBriefly(t)
    BY <2>1 DEF SquareBriefly, SetOAuthApp, StartOAuth, CancelOAuth, AskSwitch, Briefly,
                Types, StageTypes
  <2>2. QED
    BY <1>1, <2>1, SquareChangeFits, SquareClientFits DEF SquareNext
<1>2. ASSUME NEW t \in Tasks, SyncBegins(t)
      PROVE  StageTypes'
  <2>1. PICK host \in Hosts \union {None} : BeginPages(t, host)
    BY <1>2 DEF SyncBegins, Types, ProtectTypes
  <2>2. task[t].account \in Account
    BY <2>1 DEF BeginPages, Client, At, Types, StageTypes, Fits
  <2>3. QED
    BY <2>1, <2>2, GoesMoves, MovedFits DEF BeginPages, Continue, Fits, Types
<1>3. ASSUME NEW t \in Tasks, ShowLocations(t) \/ Quit(t)
      PROVE  StageTypes'
  BY <1>3, FinishFits DEF ShowLocations, Quit, Types
<1>4. ASSUME NEW t \in Tasks, ShowCameras(t) \/ SetMapping(t)
      PROVE  StageTypes'
  BY <1>4 DEF ShowCameras, SetMapping, Briefly, BrieflyShared, Types, StageTypes
<1>5. CASE SquareExpires \/ Surroundings
  BY <1>5 DEF SquareExpires, OfferExpires, PendingExpires, StateExpires,
              Surroundings, ConfirmationExpires, Replace, guardVars, Types, StageTypes
<1>6. CASE UNCHANGED vars
  BY <1>6 DEF vars, guardVars, Types, StageTypes
<1>7. QED
  BY <1>1, <1>2, <1>3, <1>4, <1>5, <1>6, ProtectFits DEF Next

-----------------------------------------------------------------------------
(***************************************************************************)
(* The connected account.                                                  *)
(***************************************************************************)

SquareFacts == SquareTypes /\ SquareInv

(* Stages at which a task keeps something about a provider.                *)
AccountStages == {"renew", "client", "sync", "save", "adopt"}
ConsoleStages == {"sync", "capture", "bind"}

(* No task goes to one of them.                                            *)
OffAccount == \A u \in Tasks : task'[u] = task[u] \/ task'[u].pc \notin AccountStages
OffConsole == \A u \in Tasks : task'[u] = task[u] \/ task'[u].pc \notin ConsoleStages

LEMMA GoesOffAccount ==
  ASSUME GuardTypes, NEW t \in Tasks, NEW stage, Goes(t, stage), stage.pc \notin AccountStages
  PROVE  OffAccount
BY GoesMoves DEF Moved, OffAccount

LEMMA GoesOffConsole ==
  ASSUME GuardTypes, NEW t \in Tasks, NEW stage, Goes(t, stage), stage.pc \notin ConsoleStages
  PROVE  OffConsole
BY GoesMoves DEF Moved, OffConsole

(* While one task holds the guard exclusively, nobody else is inside.      *)
LEMMA Alone ==
  ASSUME Held, NEW t \in Tasks, ExclusiveFree(t) \/ task[t].pc \in ExclusiveStages
  PROVE  \A u \in Tasks \ {t} :
           task[u].pc \notin AccountStages /\ task[u].pc \notin ConsoleStages
BY DEF Held, ExclusiveFree, Mode, ExclusiveStages, SharedStages, AccountStages,
       ConsoleStages

(* A step that leaves the account alone keeps what is known of it.         *)
LEMMA SquareFrame ==
  ASSUME SquareFacts, UNCHANGED <<square, offer, pending, states, sales, form>>,
         OffAccount
  PROVE  SquareFacts'
<1>1. SquareTypes'
  BY DEF SquareFacts, SquareTypes
<1>2. \A u \in Tasks : KnowsAccount(task[u])'
  BY DEF SquareFacts, SquareInv, KnowsAccount, AccountStages, OffAccount
<1>3. QED
  BY <1>1, <1>2 DEF SquareFacts, SquareInv, Settled, OwnAccount, FormOfAccount

(* A step of the one who replaces it leaves the others, who do not use it. *)
LEMMA SquareAlone ==
  ASSUME SquareInv, NEW t \in Tasks, NEW stage, Moved(t, stage),
         ExclusiveFree(t) \/ task[t].pc \in ExclusiveStages, Held,
         KnowsAccount(stage)', Settled'
  PROVE  SquareInv'
<1>1. \A u \in Tasks \ {t} : task'[u] = task[u] /\ task[u].pc \notin AccountStages
  BY Alone DEF Moved
<1>2. \A u \in Tasks \ {t} : KnowsAccount(task[u])'
  BY <1>1 DEF KnowsAccount, AccountStages
<1>3. QED
  BY <1>2 DEF Moved, SquareInv

(* An authorization of an account whose sales, at most, are stored.         *)
LEMMA AuthorizedKeeps ==
  ASSUME SquareTypes, FormTypes, SquareInv, NEW a \in Accounts,
         square' = Authorized(a), sales \subseteq {a}, UNCHANGED <<sales, form>>
  PROVE  /\ square' \in [merchant : Account, access : Account, refresh : Account,
                         webhook : Account, revision : Nat]
         /\ Settled'
<1>1. square' \in [merchant : Account, access : Account, refresh : Account,
                  webhook : Account, revision : Nat]
  <2>1. square' = [merchant |-> a, access |-> a, refresh |-> a,
                   webhook |-> square.webhook, revision |-> square.revision + 1]
    BY DEF Authorized, SquareTypes
  <2>2. square.webhook \in Account /\ square.revision + 1 \in Nat /\ a \in Account
    BY DEF SquareTypes, Account
  <2>3. QED
    BY <2>1, <2>2
<1>2. /\ square'.merchant = a /\ square'.access = a /\ square'.refresh = a
      /\ square'.revision = square.revision + 1
  BY DEF Authorized, SquareTypes
<1>3. QED
  BY <1>1, <1>2, SquareAssumption
     DEF SquareTypes, FormTypes, SquareInv, Settled, FormOfAccount, OwnAccount

(* Nobody is mistaken about an account that is replaced.                   *)
LEMMA SquareChangeKeeps ==
  ASSUME Types, Held, SquareInv, NEW t \in Tasks, SquareChange(t), UNCHANGED form
  PROVE  SquareFacts'
<1> USE SquareAssumption DEF Types, SquareFacts
<1>1. CASE SaveSquare(t)
  <2>1. Moved(t, [pc |-> "forget"])
    BY <1>1, GoesMoves DEF SaveSquare, Continue
  <2>2. task[t].account \in Accounts /\ task[t].webhook \in Account /\ sales = {}
    BY <1>1 DEF SaveSquare, At, StageTypes, Fits, SquareInv, KnowsAccount, Account
  <2>3. SquareTypes' /\ Settled'
    BY <1>1, <2>2 DEF SaveSquare, Saves, Connected, NoOffer, SquareTypes, Account,
                      FormTypes, SquareInv, Settled, FormOfAccount, OwnAccount
  <2>4. QED
    BY <1>1, <2>1, <2>3, SquareAlone DEF SaveSquare, At, ExclusiveStages, KnowsAccount
<1>2. ASSUME NEW a \in Accounts, NEW webhook \in {None, a, square.webhook}, Reconnect(t, a, webhook)
      PROVE  SquareFacts'
  <2>1. Moved(t, [pc |-> "forget"])
    BY <1>2, GoesMoves DEF Reconnect, EnterExclusive
  <2>2. square.merchant \in {None, a} /\ webhook \in Account /\ sales \subseteq {a}
    BY <1>2 DEF Reconnect, Replaces, SquareTypes, SquareInv, Settled, OwnAccount, Account
  <2>3. SquareTypes' /\ Settled'
    BY <1>2, <2>2 DEF Reconnect, Saves, Connected, NoOffer, SquareTypes, Account,
                      FormTypes, SquareInv, Settled, FormOfAccount, OwnAccount
  <2>4. QED
    BY <1>2, <2>1, <2>3, SquareAlone DEF Reconnect, EnterExclusive, KnowsAccount
<1>3. ASSUME NEW a \in Accounts, ConnectOAuth(t, a)
      PROVE  SquareFacts'
  <2>1. Moved(t, Idle)
    BY <1>3, GoesMoves DEF ConnectOAuth, Finish
  <2>2. square.merchant \in {None, a} /\ sales \subseteq {a}
    BY <1>3 DEF ConnectOAuth, Replaces, SquareTypes, SquareInv, Settled, OwnAccount,
                Account
  <2>3. SquareTypes' /\ Settled'
    BY <1>3, <2>2, AuthorizedKeeps DEF ConnectOAuth, SquareTypes
  <2>4. QED
    BY <1>3, <2>1, <2>3, SquareAlone
       DEF ConnectOAuth, At, Idle, ExclusiveStages, KnowsAccount
<1>4. CASE AdoptOAuth(t)
  <2>1. Moved(t, Idle)
    BY <1>4, GoesMoves DEF AdoptOAuth, Finish
  <2>2. task[t].account \in Accounts /\ sales = {}
    BY <1>4 DEF AdoptOAuth, At, StageTypes, Fits, SquareInv, KnowsAccount, Account
  <2>3. SquareTypes' /\ Settled'
    BY <1>4, <2>2, AuthorizedKeeps DEF AdoptOAuth, NoOffer, SquareTypes, Account
  <2>4. QED
    BY <1>4, <2>1, <2>3, SquareAlone
       DEF AdoptOAuth, At, Idle, ExclusiveStages, KnowsAccount
<1>5. ASSUME NEW a \in Accounts, NEW webhook, ConfirmSwitch(t, a, webhook)
      PROVE  SquareFacts'
  <2>1. Moved(t, [pc |-> "save", account |-> a, webhook |-> webhook])
    BY <1>5, GoesMoves DEF ConfirmSwitch, EnterExclusive
  <2>2. SquareTypes' /\ Settled'
    BY <1>5 DEF ConfirmSwitch, EraseSquare, SquareTypes, SquareInv, Settled,
                FormOfAccount, OwnAccount
  <2>3. QED
    BY <1>5, <2>1, <2>2, SquareAlone
       DEF ConfirmSwitch, EnterExclusive, EraseSquare, KnowsAccount
<1>6. CASE ConfirmOAuth(t)
  <2>1. Moved(t, [pc |-> "adopt", account |-> pending.account])
    BY <1>6, GoesMoves DEF ConfirmOAuth, EnterExclusive
  <2>2. SquareTypes' /\ Settled'
    BY <1>6 DEF ConfirmOAuth, EraseSquare, SquareTypes, SquareInv, Settled, FormOfAccount,
                OwnAccount
  <2>3. QED
    BY <1>6, <2>1, <2>2, SquareAlone
       DEF ConfirmOAuth, EnterExclusive, EraseSquare, KnowsAccount
<1>7. ASSUME NEW a \in Accounts, ParkOAuth(t, a)
      PROVE  SquareFacts'
  <2>1. Moved(t, Idle)
    BY <1>7, GoesMoves DEF ParkOAuth, Finish
  <2>2. SquareTypes' /\ Settled'
    BY <1>7 DEF ParkOAuth, SquareTypes, Account, SquareInv, Settled, FormOfAccount,
                OwnAccount
  <2>3. QED
    BY <1>7, <2>1, <2>2, SquareAlone
       DEF ParkOAuth, At, Idle, ExclusiveStages, KnowsAccount
<1>8. CASE Callback(t)
  <2>1. Moved(t, [pc |-> "exchange"])
    BY <1>8, GoesMoves DEF Callback, EnterExclusive
  <2>2. SquareTypes' /\ Settled'
    BY <1>8 DEF Callback, ConsumeState, SquareTypes, SquareInv, Settled, FormOfAccount,
                OwnAccount
  <2>3. QED
    BY <1>8, <2>1, <2>2, SquareAlone DEF Callback, EnterExclusive, KnowsAccount
<1>9. CASE ForgetStates(t)
  <2>1. Moved(t, Idle)
    BY <1>9, GoesMoves DEF ForgetStates, Finish
  <2>2. SquareTypes' /\ Settled'
    BY <1>9 DEF ForgetStates, SquareTypes, SquareInv, Settled, FormOfAccount, OwnAccount
  <2>3. QED
    BY <1>9, <2>1, <2>2, SquareAlone
       DEF ForgetStates, At, Idle, ExclusiveStages, KnowsAccount
<1>10. QED
  BY <1>1, <1>2, <1>3, <1>4, <1>5, <1>6, <1>7, <1>8, <1>9 DEF SquareChange

(* A task goes on, and the account stays.                                  *)
LEMMA SquareMoves ==
  ASSUME SquareFacts, NEW t \in Tasks, NEW stage, Moved(t, stage), KnowsAccount(stage),
         UNCHANGED <<square, offer, pending, states, sales, form>>
  PROVE  SquareFacts'
<1>1. SquareTypes' /\ Settled'
  BY DEF SquareFacts, SquareTypes, SquareInv, Settled, OwnAccount, FormOfAccount
<1>2. \A u \in Tasks : KnowsAccount(task[u])'
  BY DEF Moved, SquareFacts, SquareInv, KnowsAccount
<1>3. QED
  BY <1>1, <1>2 DEF SquareFacts, SquareInv

(* The tokens and the key of an account may change while it is used.       *)
LEMMA SameAccountKeeps ==
  ASSUME SquareFacts, NEW t \in Tasks, NEW stage, Moved(t, stage),
         stage.pc \notin AccountStages, UNCHANGED <<offer, pending, states, sales, form>>,
         SquareTypes', square'.merchant = square.merchant,
         square'.revision = square.revision, square'.access = square.merchant,
         square'.refresh \in {None, square.merchant}
  PROVE  SquareFacts'
<1>1. Settled'
  BY DEF SquareFacts, SquareInv, Settled, OwnAccount, FormOfAccount
<1>2. \A u \in Tasks : KnowsAccount(task[u])'
  BY DEF Moved, SquareFacts, SquareInv, KnowsAccount, AccountStages
<1>3. QED
  BY <1>1, <1>2 DEF SquareFacts, SquareInv

(* Clients are of the connected account, and so is what they store.        *)
LEMMA SquareClientKeeps ==
  ASSUME Types, Held, SquareInv, NEW t \in Tasks, SquareClient(t), UNCHANGED form
  PROVE  SquareFacts'
<1> USE SquareAssumption DEF Types, SquareFacts
<1>1. ASSUME NEW what, UseSquare(t, what)
      PROVE  SquareFacts'
  BY <1>1, GoesMoves, SquareMoves DEF UseSquare, EnterShared, squareVars, KnowsAccount
<1>2. CASE StartRefresh(t)
  BY <1>2, GoesMoves, SquareMoves DEF StartRefresh, Continue, Snapshot, squareVars,
                                      KnowsAccount
<1>3. CASE EndRefresh(t)
  <2>1. Moved(t, [pc |-> "ready", what |-> task[t].what])
    BY <1>3, GoesMoves DEF EndRefresh, Continue
  <2>2. CASE SaveTokens(task[t].seen)
    <3> DEFINE a == task[t].seen[3]
    <3>1. a = square.merchant /\ a \in Accounts
      BY <1>3, <2>2 DEF EndRefresh, At, SaveTokens, Snapshot, SquareInv, Settled,
                        OwnAccount, KnowsAccount, SquareTypes, Account
    <3>2. square' = [merchant |-> square.merchant, access |-> a, refresh |-> a,
                     webhook |-> square.webhook, revision |-> square.revision]
      BY <2>2 DEF SaveTokens, SquareTypes
    <3> HIDE DEF a
    <3>3. SquareTypes'
      BY <1>3, <3>1, <3>2 DEF EndRefresh, SquareTypes, Account
    <3>4. QED
      BY <1>3, <2>1, <3>1, <3>2, <3>3, SameAccountKeeps DEF EndRefresh, AccountStages
  <2>3. CASE UNCHANGED square
    BY <1>3, <2>1, <2>3, SquareMoves DEF EndRefresh, KnowsAccount
  <2>4. QED
    BY <1>3, <2>2, <2>3 DEF EndRefresh
<1>4. CASE GetClient(t)
  <2>1. square.access = square.merchant
    BY DEF SquareInv, Settled, OwnAccount
  <2>2. QED
    BY <1>4, <2>1, GoesMoves, SquareMoves
       DEF GetClient, Continue, squareVars, KnowsAccount
<1>5. CASE Ingest(t)
  <2>1. task[t].account = square.merchant /\ square.merchant \in Accounts
    BY <1>5 DEF Ingest, At, SquareInv, KnowsAccount, SquareTypes, Account
  <2>2. SquareTypes' /\ Settled'
    BY <1>5, <2>1 DEF Ingest, SquareTypes, SquareInv, Settled, OwnAccount, FormOfAccount
  <2>3. guard[t] = "shared"
    BY <1>5 DEF Ingest, At, Held, Mode, ExclusiveStages, SharedStages
  <2>4. \A u \in Tasks : task[u].pc \notin {"save", "adopt"}
    BY <2>3 DEF Held, Mode, ExclusiveStages
  <2>5. \A u \in Tasks : KnowsAccount(task[u])'
    BY <1>5, <2>4 DEF Ingest, guardVars, SquareInv, KnowsAccount
  <2>6. QED
    BY <2>2, <2>5 DEF SquareInv
<1>6. CASE RegisterWebhook(t)
  <2>1. Moved(t, Idle)
    BY <1>6, GoesMoves DEF RegisterWebhook, Finish
  <2>2. task[t].account \in Account
    BY <1>6 DEF RegisterWebhook, Client, At, StageTypes, Fits
  <2>3. square' = [merchant |-> square.merchant, access |-> square.access,
                   refresh |-> square.refresh, webhook |-> task[t].account,
                   revision |-> square.revision]
    BY <1>6 DEF RegisterWebhook, SquareTypes
  <2>4. SquareTypes'
    BY <1>6, <2>2, <2>3 DEF RegisterWebhook, SquareTypes
  <2>5. square.access = square.merchant /\ square.refresh \in {None, square.merchant}
    BY DEF SquareInv, Settled, OwnAccount
  <2>6. QED
    BY <1>6, <2>1, <2>3, <2>4, <2>5, SameAccountKeeps
       DEF RegisterWebhook, Idle, AccountStages
<1>7. QED
  BY <1>1, <1>2, <1>3, <1>4, <1>5, <1>6 DEF SquareClient

(* Requests that take the guard for a moment, and what expires.            *)
LEMMA SquareBrieflyKeeps ==
  ASSUME Types, Held, SquareInv, UNCHANGED form,
         (\E t \in Tasks : SquareBriefly(t)) \/ SquareExpires
  PROVE  SquareFacts'
<1> USE DEF Types, SquareFacts
<1>1. ASSUME NEW t \in Tasks, SquareBriefly(t)
      PROVE  SquareFacts'
  <2>1. UNCHANGED task /\ task[t].pc = "idle" /\ ExclusiveFree(t)
    BY <1>1 DEF SquareBriefly, SetOAuthApp, StartOAuth, CancelOAuth, AskSwitch, Briefly,
                Starts, At
  <2>2. \A u \in Tasks : task[u].pc \notin AccountStages
    BY <2>1, Alone DEF AccountStages
  <2>3. SquareTypes' /\ UNCHANGED <<square, sales>>
    <3> USE SquareAssumption DEF SquareTypes, Account, NoOffer
    <3>1. CASE SetOAuthApp(t)
      BY <3>1 DEF SetOAuthApp
    <3>2. CASE CancelOAuth(t)
      BY <3>2 DEF CancelOAuth
    <3>3. CASE StartOAuth(t)
      <4>1. states' \in 0 .. KeptStates
        BY <3>3 DEF StartOAuth, StoreState
      <4>2. pending' \in [account : Account, live : BOOLEAN]
        BY <3>3 DEF StartOAuth
      <4>3. QED
        BY <3>3, <4>1, <4>2 DEF StartOAuth
    <3>4. ASSUME NEW a \in Accounts, AskSwitch(t, a)
          PROVE  SquareTypes' /\ UNCHANGED <<square, sales>>
      BY <3>4 DEF AskSwitch
    <3>5. QED
      BY <1>1, <3>1, <3>3, <3>4, <3>2 DEF SquareBriefly
  <2>4. QED
    BY <2>1, <2>2, <2>3
       DEF SquareInv, Settled, OwnAccount, FormOfAccount, KnowsAccount, AccountStages
<1>2. CASE SquareExpires
  <2>1. UNCHANGED <<task, square, sales>> /\ SquareTypes'
    <3>1. CASE OfferExpires
      BY <3>1 DEF OfferExpires, guardVars, SquareTypes
    <3>2. CASE PendingExpires
      BY <3>2 DEF PendingExpires, guardVars, SquareTypes
    <3>3. CASE StateExpires
      BY <3>3, SquareAssumption DEF StateExpires, ConsumeState, guardVars, SquareTypes
    <3>4. QED
      BY <1>2, <3>1, <3>2, <3>3 DEF SquareExpires
  <2>2. UNCHANGED <<offer.account, pending.account>>
    BY <1>2 DEF SquareExpires, OfferExpires, PendingExpires, StateExpires, SquareTypes
  <2>3. QED
    BY <2>1, <2>2 DEF SquareInv, Settled, OwnAccount, FormOfAccount, KnowsAccount
<1>3. QED
  BY <1>1, <1>2

(* What replaces the console goes to no stage of the account.              *)
LEMMA ConsoleChangeMoves ==
  ASSUME GuardTypes, NEW t \in Tasks, ConsoleChange(t)
  PROVE  OffAccount
<1> USE GoesOffAccount DEF AccountStages
<1>1. ASSUME NEW h \in Hosts, AskConsole(t, h)
      PROVE  OffAccount
  BY <1>1 DEF AskConsole, EnterExclusive
<1>2. ASSUME NEW h \in Hosts, NEW id, ReadConsole(t, h, id)
      PROVE  OffAccount
  BY <1>2 DEF ReadConsole, EnterFree
<1>3. CASE VerifyConsole(t)
  BY <1>3 DEF VerifyConsole, Continue
<1>4. CASE EraseProtect(t)
  BY <1>4 DEF EraseProtect
<1>5. CASE Confirm(t) \/ SaveConsole(t) \/ BindConsole(t)
  BY <1>5 DEF Confirm, SaveConsole, BindConsole, Finish, Idle
<1>6. QED
  BY <1>1, <1>2, <1>3, <1>4, <1>5 DEF ConsoleChange

(* Neither does what uses it.                                              *)
LEMMA ProtectMoves ==
  ASSUME GuardTypes, NEW t \in Tasks, ProtectNext(t)
  PROVE  OffAccount
<1> USE GoesOffAccount DEF AccountStages
<1>1. CASE StartMotion(t) \/ StartDrain(t)
  BY <1>1 DEF StartMotion, StartDrain, EnterShared
<1>2. ASSUME NEW k \in DOMAIN issued, Authenticate(t, k)
      PROVE  OffAccount
  BY <1>2 DEF Authenticate, EnterFree
<1>3. CASE MeetConsole(t) \/ EndPages(t)
  BY <1>3 DEF MeetConsole, EndPages, Continue
<1>4. ASSUME NEW n \in Cameras, NEW asked \in BOOLEAN, ConfigureMotion(t, n, asked)
      PROVE  OffAccount
  BY <1>4 DEF ConfigureMotion, Finish, Idle
<1>5. CASE RecordMotion(t)
  BY <1>5 DEF RecordMotion, Finish, Idle
<1>6. CASE DisableMotion(t)
  BY <1>6 DEF DisableMotion, BrieflyShared, OffAccount
<1>7. CASE Capture(t)
  BY <1>7 DEF Capture, guardVars, OffAccount
<1>8. QED
  BY <1>1, <1>2, <1>3, <1>4, <1>5, <1>6, <1>7, ConsoleChangeMoves DEF ProtectNext, Motion

(* Every step keeps what is known of the account.                          *)
LEMMA SquareStep ==
  ASSUME Types, Held, SquareInv, [Next]_vars
  PROVE  SquareFacts'
<1> USE DEF Types, SquareFacts
<1>1. ASSUME NEW t \in Tasks, SquareNext(t), UNCHANGED form
      PROVE  SquareFacts'
  BY <1>1, SquareChangeKeeps, SquareClientKeeps, SquareBrieflyKeeps DEF SquareNext
<1>2. ASSUME NEW t \in Tasks, ProtectNext(t), UNCHANGED <<squareVars, form>>
      PROVE  SquareFacts'
  <2>1. OffAccount
    BY <1>2, ProtectMoves
  <2>2. QED
    BY <1>2, <2>1, SquareFrame DEF squareVars
<1>3. ASSUME NEW t \in Tasks, SyncBegins(t)
      PROVE  SquareFacts'
  <2>1. PICK host : BeginPages(t, host)
    BY <1>3 DEF SyncBegins
  <2>2. KnowsAccount([pc |-> "sync", what |-> "sync", account |-> task[t].account,
                      host |-> host])
    BY <2>1 DEF BeginPages, Client, At, SquareInv, KnowsAccount
  <2>3. QED
    BY <1>3, <2>1, <2>2, GoesMoves, SquareMoves
       DEF SyncBegins, BeginPages, Continue, squareVars
<1>4. ASSUME NEW t \in Tasks, ShowLocations(t)
      PROVE  SquareFacts'
  <2>1. task[t].account = square.merchant
    BY <1>4 DEF ShowLocations, Client, At, SquareInv, KnowsAccount
  <2>2. FormOfAccount'
    BY <1>4, <2>1 DEF ShowLocations, squareVars, FormOfAccount, FormTypes, SquareTypes
  <2>3. \A u \in Tasks : task'[u] = task[u] \/ task'[u].pc \notin AccountStages
    BY <1>4, GoesMoves DEF ShowLocations, Finish, Moved, Idle, AccountStages
  <2>4. \A u \in Tasks : KnowsAccount(task[u])'
    BY <1>4, <2>3 DEF ShowLocations, squareVars, SquareInv, KnowsAccount, AccountStages
  <2>5. QED
    BY <1>4, <2>2, <2>4
       DEF ShowLocations, squareVars, SquareTypes, SquareInv, Settled, OwnAccount
<1>5. ASSUME NEW t \in Tasks, ShowCameras(t)
      PROVE  SquareFacts'
  <2>1. FormOfAccount' /\ UNCHANGED <<task, squareVars>>
    BY <1>5 DEF ShowCameras, BrieflyShared, squareVars, SquareInv, Settled, FormOfAccount,
                FormTypes
  <2>2. QED
    BY <2>1 DEF squareVars, SquareTypes, SquareInv, Settled, OwnAccount, KnowsAccount
<1>6. ASSUME NEW t \in Tasks, SetMapping(t)
      PROVE  SquareFacts'
  BY <1>6, SquareFrame DEF SetMapping, Briefly, squareVars, OffAccount
<1>7. ASSUME NEW t \in Tasks, Quit(t), UNCHANGED <<squareVars, form>>
      PROVE  SquareFacts'
  <2>1. Moved(t, Idle)
    BY <1>7, GoesMoves DEF Quit, Finish
  <2>2. QED
    BY <1>7, <2>1, SquareMoves DEF Idle, KnowsAccount, squareVars
<1>8. CASE SquareExpires /\ UNCHANGED form
  BY <1>8, SquareBrieflyKeeps
<1>9. CASE Surroundings /\ UNCHANGED <<squareVars, form>>
  <2>1. UNCHANGED task
    BY <1>9 DEF Surroundings, ConfirmationExpires, Replace, guardVars
  <2>2. QED
    BY <1>9, <2>1, SquareFrame DEF squareVars, OffAccount
<1>10. CASE UNCHANGED vars
  BY <1>10, SquareFrame DEF vars, guardVars, squareVars, OffAccount
<1>11. QED
  BY <1>1, <1>2, <1>3, <1>4, <1>5, <1>6, <1>7, <1>8, <1>9, <1>10 DEF Next

-----------------------------------------------------------------------------
(***************************************************************************)
(* The saved console.                                                      *)
(***************************************************************************)

ProtectFacts == ProtectTypes /\ ProtectInv

(* A step that leaves the console alone keeps what is known of it.         *)
LEMMA ProtectFrame ==
  ASSUME ProtectFacts, OffConsole,
         protect' = protect, confirmation' = confirmation, motion' = motion,
         issued' = issued, pictures' = pictures, answers' = answers, form' = form
  PROVE  ProtectFacts'
<1>1. ProtectTypes' /\ Installed'
  BY DEF ProtectFacts, ProtectTypes, ProtectInv, Installed, OwnConsole, FormOfConsole
<1>2. \A u \in Tasks : KnowsConsole(task[u])'
  BY DEF ProtectFacts, ProtectInv, KnowsConsole, ConsoleStages, OffConsole
<1>3. QED
  BY <1>1, <1>2 DEF ProtectFacts, ProtectInv

(* A task goes on, and the console stays.                                  *)
LEMMA ProtectMoved ==
  ASSUME ProtectFacts, NEW t \in Tasks, NEW stage, Moved(t, stage), KnowsConsole(stage),
         protect' = protect, confirmation' = confirmation, motion' = motion,
         issued' = issued, pictures' = pictures, answers' = answers, form' = form
  PROVE  ProtectFacts'
<1>1. ProtectTypes' /\ Installed'
  BY DEF ProtectFacts, ProtectTypes, ProtectInv, Installed, OwnConsole, FormOfConsole
<1>2. \A u \in Tasks : KnowsConsole(task[u])'
  BY DEF Moved, ProtectFacts, ProtectInv, KnowsConsole
<1>3. QED
  BY <1>1, <1>2 DEF ProtectFacts, ProtectInv

(* A step of the one who replaces it leaves the others, who do not use it. *)
LEMMA ProtectAlone ==
  ASSUME ProtectInv, NEW t \in Tasks, NEW stage, Moved(t, stage), Held,
         ExclusiveFree(t) \/ task[t].pc \in ExclusiveStages,
         KnowsConsole(stage)', Installed'
  PROVE  ProtectInv'
<1>1. \A u \in Tasks \ {t} :
        task'[u] = task[u] /\ task[u].pc \notin ConsoleStages
  BY Alone DEF Moved
<1>2. \A u \in Tasks \ {t} : KnowsConsole(task[u])'
  BY <1>1 DEF KnowsConsole, ConsoleStages, ProtectInv
<1>3. QED
  BY <1>2 DEF Moved, ProtectInv

(* A form that is not of the past is of the generation in force.           *)
LEMMA OlderForm ==
  ASSUME ProtectTypes, FormTypes, Installed, NEW g \in Nat, g # 0,
         g = protect.generation + 1 \/ protect.host = None \/ g = protect.generation
  PROVE  /\ form.generation <= g
         /\ form.generation = g
              => g = protect.generation /\ g # protect.generation + 1 /\ protect.host # None
BY DEF ProtectTypes, FormTypes, Installed, FormOfConsole

(* Saving the console that is saved, the first, or one after an erasure.   *)
LEMMA SavedKeeps ==
  ASSUME ProtectTypes, StageTypes, FormTypes, Installed, NEW t \in Tasks,
         task[t].pc \in {"save console", "bind"}, NEW g \in Nat, g # 0,
         protect' = Saved(t, g), pictures' = pictures, form' = form,
         \/ pictures = {} /\ g = protect.generation + 1
         \/ protect.host = None
         \/ /\ protect.host = task[t].host /\ protect.console = task[t].console
            /\ g = protect.generation
  PROVE  /\ protect' \in [host : Hosts \union {None}, console : Console, generation : Nat]
         /\ Installed'
<1>1. task[t].host \in Hosts /\ task[t].console \in Consoles
  BY DEF StageTypes, Fits
<1>2. protect'.host = task[t].host /\ protect'.console = task[t].console /\ protect'.generation = g
  BY DEF Saved
<1>3. protect' \in [host : Hosts \union {None}, console : Console, generation : Nat]
  BY <1>1 DEF Saved, Console
<1>4. protect'.host # None /\ protect'.console # None
  BY <1>1, <1>2, ProtectAssumption
<1>5. protect.generation \in Nat /\ pictures \subseteq Consoles /\ form.generation \in Nat
  BY DEF ProtectTypes, FormTypes
<1>6. pictures \subseteq {task[t].console}
  BY <1>5, ProtectAssumption DEF Installed, OwnConsole
<1>7. /\ form.generation <= g
      /\ form.generation = g
           => g = protect.generation /\ g # protect.generation + 1 /\ protect.host # None
  BY OlderForm
<1>8. form.generation = g /\ form.generation # 0 => form.console = task[t].console
  BY <1>7, Zenon DEF Installed, FormOfConsole
<1>9. FormOfConsole'
  BY <1>2, <1>7, <1>8, Zenon DEF FormOfConsole
<1>10. QED
  BY <1>2, <1>3, <1>4, <1>6, <1>9 DEF Installed, OwnConsole

(* Nobody is mistaken about a console that is replaced.                    *)
LEMMA ConsoleChangeKeeps ==
  ASSUME Types, Held, ProtectInv, NEW t \in Tasks, ConsoleChange(t), UNCHANGED form
  PROVE  ProtectFacts'
<1> USE DEF Types, ProtectFacts
<1>1. ASSUME NEW h \in Hosts, AskConsole(t, h)
      PROVE  ProtectFacts'
  BY <1>1, GoesMoves, ProtectMoved DEF AskConsole, EnterExclusive, protectVars,
                                       KnowsConsole
<1>2. ASSUME NEW h \in Hosts, NEW id, ReadConsole(t, h, id)
      PROVE  ProtectFacts'
  BY <1>2, GoesMoves, ProtectMoved DEF ReadConsole, EnterFree, protectVars, KnowsConsole
<1>3. CASE VerifyConsole(t)
  BY <1>3, GoesMoves, ProtectMoved DEF VerifyConsole, Continue, protectVars, KnowsConsole
<1>4. CASE Confirm(t)
  <2>1. Moved(t, Idle)
    BY <1>4, GoesMoves DEF Confirm, Finish
  <2>2. task[t].host \in Hosts
    BY <1>4 DEF Confirm, At, StageTypes, Fits
  <2>3. answers[task[t].host] \in Consoles
    BY <2>2 DEF ProtectTypes
  <2>4. requests \in Nat
    BY GuardAssumption DEF GuardTypes
  <2>5. ProtectTypes'
    BY <1>4, <2>2, <2>3, <2>4 DEF Confirm, ProtectTypes, Console
  <2>6. Installed'
    BY <1>4 DEF Confirm, ProtectInv, Installed, OwnConsole, FormOfConsole
  <2>7. QED
    BY <1>4, <2>1, <2>5, <2>6, ProtectAlone
       DEF Confirm, At, Idle, ExclusiveStages, KnowsConsole
<1>5. CASE SaveConsole(t)
  <2>1. Moved(t, Idle)
    BY <1>5, GoesMoves DEF SaveConsole, Finish
  <2>2. protect = task[t].seen
    BY <1>5 DEF SaveConsole, Unchanged
  <2>3. \/ protect.host = None
        \/ protect.host = task[t].host /\ protect.console = task[t].console
    BY <1>5, <2>2 DEF SaveConsole, Switched, Differs
  <2>4. /\ protect' \in [host : Hosts \union {None}, console : Console, generation : Nat]
        /\ Installed'
    <3> DEFINE g == IF protect.generation = 0 THEN 1 ELSE protect.generation
    <3>1. g \in Nat /\ g # 0 /\ (protect.generation # 0 => g = protect.generation)
      BY DEF ProtectTypes
    <3>2. protect' = Saved(t, g)
      BY <1>5 DEF SaveConsole
    <3> HIDE DEF g
    <3>3. Installed
      BY DEF ProtectInv
    <3>4. \/ protect.host = None
          \/ /\ protect.host = task[t].host /\ protect.console = task[t].console
             /\ g = protect.generation
      BY <2>3, <3>1, <3>3 DEF Installed
    <3>5. QED
      BY <1>5, <3>1, <3>2, <3>3, <3>4, SavedKeeps DEF SaveConsole, At
  <2>5. ProtectTypes'
    BY <1>5, <2>4 DEF SaveConsole, NoConfirmation, ProtectTypes, Console
  <2>6. QED
    BY <1>5, <2>1, <2>4, <2>5, ProtectAlone DEF SaveConsole, Idle, KnowsConsole
<1>6. CASE EraseProtect(t)
  <2>1. PICK stage :
          stage = [pc |-> "bind", host |-> task[t].host, console |-> task[t].console]
    OBVIOUS
  <2>2. Moved(t, stage)
    BY <1>6, <2>1, GoesMoves DEF EraseProtect
  <2>3. ProtectTypes' /\ Installed'
    BY <1>6 DEF EraseProtect, ProtectTypes, ProtectInv, Installed, OwnConsole,
                FormOfConsole
  <2>4. confirmation'.host = stage.host /\ confirmation'.console = stage.console
    BY <1>6, <2>1 DEF EraseProtect, Confirmed
  <2>5. KnowsConsole(stage)'
    BY <1>6, <2>1, <2>4 DEF EraseProtect, KnowsConsole
  <2>6. QED
    BY <1>6, <2>2, <2>3, <2>5, ProtectAlone DEF EraseProtect
<1>7. CASE BindConsole(t)
  <2>1. Moved(t, Idle)
    BY <1>7, GoesMoves DEF BindConsole, Finish
  <2>2. pictures = {}
    BY <1>7 DEF BindConsole, At, ProtectInv, KnowsConsole
  <2>3. /\ protect' \in [host : Hosts \union {None}, console : Console, generation : Nat]
        /\ Installed'
    <3>1. protect.generation + 1 \in Nat /\ protect.generation + 1 # 0
      BY DEF ProtectTypes
    <3>2. QED
      BY <1>7, <2>2, <3>1, SavedKeeps DEF BindConsole, At, ProtectInv
  <2>4. ProtectTypes'
    BY <1>7, <2>3 DEF BindConsole, NoConfirmation, ProtectTypes, Console
  <2>5. QED
    BY <1>7, <2>1, <2>3, <2>4, ProtectAlone
       DEF BindConsole, At, Idle, ExclusiveStages, KnowsConsole
<1>8. QED
  BY <1>1, <1>2, <1>3, <1>4, <1>5, <1>6, <1>7 DEF ConsoleChange

(* What is done to the account goes to no stage of the console.            *)
LEMMA SquareMovesOff ==
  ASSUME GuardTypes, NEW t \in Tasks, SquareNext(t)
  PROVE  OffConsole
<1> USE GoesOffConsole DEF ConsoleStages
<1>1. CASE SetOAuthApp(t) \/ StartOAuth(t) \/ CancelOAuth(t)
  BY <1>1 DEF SetOAuthApp, StartOAuth, CancelOAuth, Briefly, OffConsole
<1>2. ASSUME NEW a \in Accounts, AskSwitch(t, a)
      PROVE  OffConsole
  BY <1>2 DEF AskSwitch, Briefly, OffConsole
<1>3. CASE SaveSquare(t)
  BY <1>3 DEF SaveSquare, Continue
<1>4. CASE Callback(t) \/ ConfirmOAuth(t)
  BY <1>4 DEF Callback, ConfirmOAuth, EnterExclusive
<1>5. ASSUME NEW a \in Accounts, NEW webhook, ConfirmSwitch(t, a, webhook)
      PROVE  OffConsole
  BY <1>5 DEF ConfirmSwitch, EnterExclusive
<1>6. ASSUME NEW a \in Accounts, NEW webhook, Reconnect(t, a, webhook)
      PROVE  OffConsole
  BY <1>6 DEF Reconnect, EnterExclusive
<1>7. CASE ForgetStates(t) \/ AdoptOAuth(t)
  BY <1>7 DEF ForgetStates, AdoptOAuth, Finish, Idle
<1>8. ASSUME NEW a \in Accounts, ConnectOAuth(t, a) \/ ParkOAuth(t, a)
      PROVE  OffConsole
  BY <1>8 DEF ConnectOAuth, ParkOAuth, Finish, Idle
<1>9. ASSUME NEW what, UseSquare(t, what)
      PROVE  OffConsole
  BY <1>9 DEF UseSquare, EnterShared
<1>10. CASE StartRefresh(t)
  BY <1>10 DEF StartRefresh, Continue
<1>11. CASE EndRefresh(t)
  BY <1>11 DEF EndRefresh, Continue
<1>12. CASE GetClient(t)
  BY <1>12 DEF GetClient, Continue
<1>13. CASE RegisterWebhook(t)
  BY <1>13 DEF RegisterWebhook, Finish, Idle
<1>14. CASE Ingest(t)
  BY <1>14 DEF Ingest, guardVars, OffConsole
<1>15. QED
  BY <1>1, <1>2, <1>3, <1>4, <1>5, <1>6, <1>7, <1>8, <1>9, <1>10, <1>11, <1>12, <1>13,
     <1>14
     DEF SquareNext, SquareBriefly, SquareChange, SquareClient

(* The console is the one that is drained, and what it gives is its own.   *)
LEMMA ConsoleUseKeeps ==
  ASSUME Types, Held, ProtectInv, NEW t \in Tasks, UNCHANGED form,
         StartDrain(t) \/ MeetConsole(t) \/ EndPages(t) \/ Capture(t) \/ StartMotion(t)
  PROVE  ProtectFacts'
<1> USE DEF Types, ProtectFacts
<1>1. CASE StartDrain(t)
  BY <1>1, GoesMoves, ProtectMoved DEF StartDrain, EnterShared, protectVars, KnowsConsole
<1>2. CASE StartMotion(t)
  BY <1>2, GoesMoves, ProtectMoved DEF StartMotion, EnterShared, protectVars, KnowsConsole
<1>3. CASE MeetConsole(t)
  BY <1>3, GoesMoves, ProtectMoved DEF MeetConsole, Verified, Continue, protectVars,
                                       KnowsConsole
<1>4. CASE EndPages(t)
  <2>1. KnowsConsole([pc |-> "capture", what |-> "sync", host |-> task[t].host])
    BY <1>4 DEF EndPages, At, ProtectInv, KnowsConsole
  <2>2. QED
    BY <1>4, <2>1, GoesMoves, ProtectMoved DEF EndPages, Continue, protectVars
<1>5. CASE Capture(t)
  <2>1. answers[task[t].host] = protect.console /\ task[t].host \in Hosts
    BY <1>5 DEF Capture, At, ProtectInv, KnowsConsole, StageTypes, Fits
  <2>2. pictures' = pictures \union {protect.console} /\ protect.console \in Consoles
    BY <1>5, <2>1 DEF Capture, ProtectTypes
  <2>3. ProtectTypes' /\ Installed'
    BY <1>5, <2>2 DEF Capture, ProtectTypes, ProtectInv, Installed, OwnConsole,
                      FormOfConsole
  <2>4. guard[t] = "shared"
    BY <1>5 DEF Capture, At, Held, Mode, ExclusiveStages, SharedStages
  <2>5. \A u \in Tasks : task[u].pc # "bind"
    BY <2>4 DEF Held, Mode, ExclusiveStages
  <2>6. \A u \in Tasks : KnowsConsole(task[u])'
    BY <1>5, <2>5 DEF Capture, guardVars, ProtectInv, KnowsConsole
  <2>7. QED
    BY <2>3, <2>6 DEF ProtectInv
<1>6. QED
  BY <1>1, <1>2, <1>3, <1>4, <1>5

(* A step that only concerns motion.                                       *)
LEMMA MotionFrame ==
  ASSUME ProtectFacts, OffConsole, motion' \in [token : Nat, camera : Camera],
         issued' \in Seq(Camera), protect' = protect, confirmation' = confirmation,
         pictures' = pictures, answers' = answers, form' = form
  PROVE  ProtectFacts'
<1>1. ProtectTypes' /\ Installed'
  BY DEF ProtectFacts, ProtectTypes, ProtectInv, Installed, OwnConsole, FormOfConsole
<1>2. \A u \in Tasks : KnowsConsole(task[u])'
  BY DEF ProtectFacts, ProtectInv, KnowsConsole, ConsoleStages, OffConsole
<1>3. QED
  BY <1>1, <1>2 DEF ProtectFacts, ProtectInv

LEMMA MotionKeeps ==
  ASSUME Types, ProtectInv, NEW t \in Tasks, Motion(t), UNCHANGED form
  PROVE  ProtectFacts'
<1> USE GoesOffConsole DEF Types, ConsoleStages
<1>1. ProtectFacts
  BY DEF ProtectFacts
<1>2. CASE StartMotion(t)
  <2>1. OffConsole
    BY <1>2 DEF StartMotion, EnterShared
  <2>2. QED
    BY <1>1, <1>2, <2>1, ProtectFrame DEF StartMotion, protectVars
<1>3. CASE DisableMotion(t)
  <2>1. NoMotion \in [token : Nat, camera : Camera]
    BY DEF NoMotion, NoCamera, Camera, Console
  <2>2. motion' \in [token : Nat, camera : Camera] /\ issued' \in Seq(Camera) /\ OffConsole
    BY <1>3, <2>1 DEF DisableMotion, BrieflyShared, OffConsole, ProtectTypes
  <2>3. QED
    BY <1>1, <1>3, <2>2, MotionFrame DEF DisableMotion
<1>4. CASE RecordMotion(t)
  <2>1. OffConsole
    BY <1>4 DEF RecordMotion, Finish, Idle
  <2>2. QED
    BY <1>1, <1>4, <2>1, ProtectFrame DEF RecordMotion
<1>5. ASSUME NEW n \in Cameras, NEW asked \in BOOLEAN, ConfigureMotion(t, n, asked)
      PROVE  ProtectFacts'
  <2>1. OffConsole
    BY <1>5 DEF ConfigureMotion, Finish, Idle
  <2>2. PICK camera : camera = [console |-> answers[protect.host], camera |-> n]
    OBVIOUS
  <2>3. camera \in Camera
    BY <1>5, <2>2 DEF ConfigureMotion, Verified, ProtectTypes, Camera, Console
  <2>4. \/ issued' = issued /\ motion' = [token |-> motion.token, camera |-> camera]
        \/ /\ issued' = Append(issued, camera)
           /\ motion' = [token |-> Len(issued) + 1, camera |-> camera]
    BY <1>5, <2>2 DEF ConfigureMotion
  <2>5. motion' \in [token : Nat, camera : Camera] /\ issued' \in Seq(Camera)
    <3>1. issued \in Seq(Camera) /\ motion.token \in Nat /\ Len(issued) + 1 \in Nat
      BY DEF ProtectTypes
    <3>2. Append(issued, camera) \in Seq(Camera)
      BY <2>3, <3>1
    <3>3. QED
      BY <2>3, <2>4, <3>1, <3>2
  <2>6. QED
    BY <1>1, <1>5, <2>1, <2>5, MotionFrame DEF ConfigureMotion
<1>6. ASSUME NEW k \in DOMAIN issued, Authenticate(t, k)
      PROVE  ProtectFacts'
  <2>1. OffConsole
    BY <1>6 DEF Authenticate, EnterFree
  <2>2. QED
    BY <1>1, <1>6, <2>1, ProtectFrame DEF Authenticate, protectVars
<1>7. QED
  BY <1>2, <1>3, <1>4, <1>5, <1>6 DEF Motion

(* Every step keeps what is known of the console.                          *)
LEMMA ProtectStep ==
  ASSUME Types, Held, ProtectInv, [Next]_vars
  PROVE  ProtectFacts'
<1> USE DEF Types
<1>1. ProtectFacts
  BY DEF ProtectFacts
<1>2. ASSUME NEW t \in Tasks, SquareNext(t), UNCHANGED <<protectVars, form>>
      PROVE  ProtectFacts'
  BY <1>1, <1>2, SquareMovesOff, ProtectFrame DEF protectVars
<1>3. ASSUME NEW t \in Tasks, ProtectNext(t), UNCHANGED form
      PROVE  ProtectFacts'
  BY <1>3, ConsoleChangeKeeps, ConsoleUseKeeps, MotionKeeps DEF ProtectNext
<1>4. ASSUME NEW t \in Tasks, SyncBegins(t)
      PROVE  ProtectFacts'
  <2>1. PICK host \in {None, protect.host} :
          BeginPages(t, host) /\ (host # None => Verified)
    BY <1>4 DEF SyncBegins
  <2>2. KnowsConsole([pc |-> "sync", what |-> "sync", account |-> task[t].account,
                      host |-> host])
    BY <2>1 DEF Verified, KnowsConsole
  <2>3. QED
    BY <1>1, <1>4, <2>1, <2>2, GoesMoves, ProtectMoved
       DEF SyncBegins, BeginPages, Continue, protectVars
<1>5. ASSUME NEW t \in Tasks, ShowLocations(t) \/ ShowCameras(t)
      PROVE  ProtectFacts'
  <2>1. UNCHANGED protectVars /\ OffConsole
    BY <1>5, GoesOffConsole DEF ShowLocations, ShowCameras, Finish, BrieflyShared, Idle,
                                ConsoleStages, OffConsole
  <2>2. \/ form'.generation = form.generation /\ form'.console = form.console
        \/ form'.generation = protect.generation /\ form'.console = protect.console
    BY <1>5 DEF ShowLocations, ShowCameras, FormTypes
  <2>3. FormOfConsole'
    BY <2>1, <2>2 DEF protectVars, ProtectInv, Installed, FormOfConsole, FormTypes,
                      ProtectTypes
  <2>4. \A u \in Tasks : KnowsConsole(task[u])'
    BY <2>1 DEF protectVars, ProtectInv, KnowsConsole, ConsoleStages, OffConsole
  <2>5. QED
    BY <2>1, <2>3, <2>4
       DEF protectVars, ProtectFacts, ProtectTypes, ProtectInv, Installed, OwnConsole
<1>6. ASSUME NEW t \in Tasks, SetMapping(t)
      PROVE  ProtectFacts'
  BY <1>1, <1>6, ProtectFrame DEF SetMapping, Briefly, protectVars, OffConsole
<1>7. ASSUME NEW t \in Tasks, Quit(t), UNCHANGED <<protectVars, form>>
      PROVE  ProtectFacts'
  BY <1>1, <1>7, GoesOffConsole, ProtectFrame
     DEF Quit, Finish, Idle, ConsoleStages, protectVars
<1>8. CASE SquareExpires /\ UNCHANGED <<protectVars, form>>
  BY <1>1, <1>8, ProtectFrame DEF SquareExpires, OfferExpires, PendingExpires,
                                  StateExpires, guardVars, protectVars, OffConsole
<1>9. CASE ConfirmationExpires /\ UNCHANGED form
  <2>1. /\ UNCHANGED <<task, protect, motion, issued, pictures, answers>> /\ ProtectTypes'
        /\ UNCHANGED <<confirmation.host, confirmation.console>>
    BY <1>9 DEF ConfirmationExpires, guardVars, ProtectTypes
  <2>2. QED
    BY <1>9, <2>1
       DEF ProtectFacts, ProtectInv, Installed, OwnConsole, FormOfConsole, KnowsConsole
<1>10. ASSUME NEW h \in Hosts, NEW c \in Consoles, Replace(h, c), UNCHANGED form
       PROVE  ProtectFacts'
  <2>1. UNCHANGED <<task, protect, confirmation, motion, issued, pictures>> /\ ProtectTypes'
    BY <1>10 DEF Replace, guardVars, ProtectTypes
  <2>2. \A u \in Tasks : task[u].pc \notin {"sync", "capture"}
    BY <1>10 DEF Replace
  <2>3. QED
    BY <1>10, <2>1, <2>2
       DEF ProtectFacts, ProtectInv, Installed, OwnConsole, FormOfConsole, KnowsConsole
<1>11. CASE UNCHANGED vars
  BY <1>1, <1>11, ProtectFrame DEF vars, guardVars, protectVars, OffConsole
<1>12. QED
  BY <1>2, <1>3, <1>4, <1>5, <1>6, <1>7, <1>8, <1>9, <1>10, <1>11 DEF Next, Surroundings

-----------------------------------------------------------------------------
(***************************************************************************)
(* The camera map, its form, and the motion receiver.                      *)
(***************************************************************************)

LEMMA FormStep ==
  ASSUME Types, [Next]_vars
  PROVE  FormTypes'
<1> USE DEF Types
<1>1. ASSUME NEW t \in Tasks, ShowLocations(t)
      PROVE  FormTypes'
  <2>1. task[t].account \in Account /\ square.revision \in Nat
    BY <1>1 DEF ShowLocations, Client, At, StageTypes, Fits, SquareTypes
  <2>2. QED
    BY <1>1, <2>1 DEF ShowLocations, FormTypes
<1>2. ASSUME NEW t \in Tasks, ShowCameras(t)
      PROVE  FormTypes'
  BY <1>2 DEF ShowCameras, ProtectTypes, FormTypes
<1>3. CASE UNCHANGED form
  BY <1>3 DEF FormTypes
<1>4. QED
  BY <1>1, <1>2, <1>3 DEF Next, SetMapping, SyncBegins, vars

(* Stages of a task that has erased, and has not yet saved.                *)
ErasureStages == {"save", "adopt", "bind"}
OffErasure == \A u \in Tasks : task'[u] = task[u] \/ task'[u].pc \notin ErasureStages

LEMMA GoesOffErasure ==
  ASSUME GuardTypes, NEW t \in Tasks, NEW stage, Goes(t, stage), stage.pc \notin ErasureStages
  PROVE  OffErasure
BY GoesMoves DEF Moved, OffErasure

(* A step that leaves the map, and its owners.                             *)
LEMMA MappingFrame ==
  ASSUME MappingInv, mapping' = mapping, square'.merchant = square.merchant,
         square'.revision = square.revision, protect' = protect,
         OffErasure
  PROVE  MappingInv'
BY DEF MappingInv, OwnMapping, OffErasure, ErasureStages

(* The map is erased with either of its owners.                            *)
LEMMA ErasedMapping ==
  ASSUME mapping' = None
  PROVE  MappingInv'
BY DEF MappingInv, OwnMapping

(* A new token of the account that is connected leaves it.                 *)
LEMMA MappingOfSame ==
  ASSUME Types, SquareInv, MappingInv, NEW a \in Accounts, ~ Replaces(a), mapping' = mapping,
         square'.merchant = a, square'.revision = square.revision + 1, protect' = protect,
         OffErasure
  PROVE  MappingInv'
<1>1. CASE mapping = None
  BY <1>1, ErasedMapping
<1>2. CASE mapping # None
  <2>1. square.merchant = a /\ square.revision \in Nat
    BY <1>2 DEF Types, SquareTypes, SquareInv, Settled, MappingInv, Replaces
  <2>2. QED
    BY <1>2, <2>1 DEF MappingInv, OwnMapping, OffErasure, ErasureStages
<1>3. QED
  BY <1>1, <1>2

(* What the account goes through leaves or erases the map.                 *)
LEMMA SquareMapping ==
  ASSUME Types, Held, SquareInv, MappingInv, NEW t \in Tasks, SquareNext(t),
         protect' = protect
  PROVE  MappingInv'
<1> USE DEF Types
<1>1. CASE SetOAuthApp(t) \/ StartOAuth(t) \/ CancelOAuth(t)
  BY <1>1, MappingFrame DEF SetOAuthApp, StartOAuth, CancelOAuth, Briefly, OffErasure
<1>2. ASSUME NEW a \in Accounts, AskSwitch(t, a)
      PROVE  MappingInv'
  BY <1>2, MappingFrame DEF AskSwitch, Briefly, OffErasure
<1>3. CASE SaveSquare(t)
  BY <1>3, ErasedMapping DEF SaveSquare, Saves, At, MappingInv
<1>4. CASE AdoptOAuth(t)
  BY <1>4, ErasedMapping DEF AdoptOAuth, At, MappingInv
<1>5. CASE ConfirmOAuth(t)
  BY <1>5, ErasedMapping DEF ConfirmOAuth, EraseSquare
<1>6. ASSUME NEW a \in Accounts, NEW webhook, ConfirmSwitch(t, a, webhook)
      PROVE  MappingInv'
  BY <1>6, ErasedMapping DEF ConfirmSwitch, EraseSquare
<1>7. ASSUME NEW a \in Accounts, NEW webhook, Reconnect(t, a, webhook)
      PROVE  MappingInv'
  <2>1. square'.merchant = a /\ square'.revision = square.revision + 1
    BY <1>7 DEF Reconnect, Saves, Connected
  <2>2. OffErasure
    BY <1>7, GoesOffErasure DEF Reconnect, EnterExclusive, ErasureStages
  <2>3. QED
    BY <1>7, <2>1, <2>2, MappingOfSame DEF Reconnect, Saves
<1>8. ASSUME NEW a \in Accounts, ConnectOAuth(t, a)
      PROVE  MappingInv'
  <2>1. square'.merchant = a /\ square'.revision = square.revision + 1
    BY <1>8 DEF ConnectOAuth, Authorized, SquareTypes
  <2>2. OffErasure
    BY <1>8, GoesOffErasure DEF ConnectOAuth, Finish, Idle, ErasureStages
  <2>3. QED
    BY <1>8, <2>1, <2>2, MappingOfSame DEF ConnectOAuth
<1>9. CASE Callback(t)
  BY <1>9, GoesOffErasure, MappingFrame DEF Callback, EnterExclusive, ErasureStages
<1>10. CASE ForgetStates(t)
  BY <1>10, GoesOffErasure, MappingFrame DEF ForgetStates, Finish, Idle, ErasureStages
<1>11. ASSUME NEW a \in Accounts, ParkOAuth(t, a)
      PROVE  MappingInv'
  BY <1>11, GoesOffErasure, MappingFrame DEF ParkOAuth, Finish, Idle, ErasureStages
<1>12. ASSUME NEW what, UseSquare(t, what)
      PROVE  MappingInv'
  BY <1>12, GoesOffErasure, MappingFrame
     DEF UseSquare, EnterShared, squareVars, ErasureStages
<1>13. CASE StartRefresh(t)
  BY <1>13, GoesOffErasure, MappingFrame
     DEF StartRefresh, Continue, squareVars, ErasureStages
<1>14. CASE GetClient(t)
  BY <1>14, GoesOffErasure, MappingFrame
     DEF GetClient, Continue, squareVars, ErasureStages
<1>15. CASE EndRefresh(t)
  <2>1. square'.merchant = square.merchant /\ square'.revision = square.revision
    BY <1>15 DEF EndRefresh, SaveTokens, SquareTypes
  <2>2. QED
    BY <1>15, <2>1, GoesOffErasure, MappingFrame DEF EndRefresh, Continue, ErasureStages
<1>16. CASE RegisterWebhook(t)
  <2>1. square'.merchant = square.merchant /\ square'.revision = square.revision
    BY <1>16 DEF RegisterWebhook, SquareTypes
  <2>2. QED
    BY <1>16, <2>1, GoesOffErasure, MappingFrame
       DEF RegisterWebhook, Finish, Idle, ErasureStages
<1>17. CASE Ingest(t)
  BY <1>17, MappingFrame DEF Ingest, guardVars, OffErasure
<1>18. QED
  BY <1>1, <1>2, <1>3, <1>4, <1>5, <1>6, <1>7, <1>8, <1>9, <1>10, <1>11, <1>12, <1>13,
     <1>14, <1>15, <1>16, <1>17
     DEF SquareNext, SquareBriefly, SquareChange, SquareClient

(* And so does what the console goes through.                              *)
LEMMA ProtectMapping ==
  ASSUME Types, Held, ProtectInv, MappingInv, NEW t \in Tasks, ProtectNext(t),
         square' = square
  PROVE  MappingInv'
<1> USE DEF Types
<1>1. ASSUME NEW h \in Hosts, AskConsole(t, h)
      PROVE  MappingInv'
  BY <1>1, GoesOffErasure, MappingFrame
     DEF AskConsole, EnterExclusive, protectVars, ErasureStages
<1>2. ASSUME NEW h \in Hosts, NEW id, ReadConsole(t, h, id)
      PROVE  MappingInv'
  BY <1>2, GoesOffErasure, MappingFrame
     DEF ReadConsole, EnterFree, protectVars, ErasureStages
<1>3. CASE VerifyConsole(t)
  BY <1>3, GoesOffErasure, MappingFrame
     DEF VerifyConsole, Continue, protectVars, ErasureStages
<1>4. CASE Confirm(t)
  BY <1>4, GoesOffErasure, MappingFrame DEF Confirm, Finish, Idle, ErasureStages
<1>5. CASE SaveConsole(t)
  <2>1. CASE mapping = None
    BY <1>5, <2>1, ErasedMapping DEF SaveConsole
  <2>2. CASE mapping # None
    <3>1. protect = task[t].seen /\ ~ Switched(t)
      BY <1>5 DEF SaveConsole, Unchanged
    <3>2. protect.generation # 0 /\ protect.host # None
      BY <2>2 DEF MappingInv, ProtectInv, Installed
    <3>3. protect.host = task[t].host /\ protect.console = task[t].console
      BY <3>1, <3>2 DEF Switched, Differs
    <3>4. protect' = [host |-> task[t].host, console |-> task[t].console,
                      generation |-> protect.generation]
      BY <1>5, <3>2 DEF SaveConsole, Saved
    <3>5. protect'.console = protect.console /\ protect'.generation = protect.generation
      BY <3>3, <3>4
    <3>6. OffErasure
      BY <1>5, GoesOffErasure DEF SaveConsole, Finish, Idle, ErasureStages
    <3>7. QED
      BY <1>5, <3>5, <3>6 DEF SaveConsole, squareVars, MappingInv, OwnMapping, OffErasure,
                              ErasureStages
  <2>3. QED
    BY <2>1, <2>2
<1>6. CASE EraseProtect(t)
  BY <1>6, ErasedMapping DEF EraseProtect
<1>7. CASE BindConsole(t)
  BY <1>7, ErasedMapping DEF BindConsole, At, MappingInv
<1>8. CASE StartDrain(t)
  BY <1>8, GoesOffErasure, MappingFrame
     DEF StartDrain, EnterShared, protectVars, ErasureStages
<1>9. CASE MeetConsole(t)
  BY <1>9, GoesOffErasure, MappingFrame
     DEF MeetConsole, Continue, protectVars, ErasureStages
<1>10. CASE EndPages(t)
  BY <1>10, GoesOffErasure, MappingFrame
     DEF EndPages, Continue, protectVars, ErasureStages
<1>11. CASE Capture(t)
  BY <1>11, MappingFrame DEF Capture, guardVars, OffErasure
<1>12. CASE StartMotion(t)
  BY <1>12, GoesOffErasure, MappingFrame
     DEF StartMotion, EnterShared, protectVars, ErasureStages
<1>13. CASE DisableMotion(t)
  BY <1>13, MappingFrame DEF DisableMotion, BrieflyShared, OffErasure
<1>14. CASE RecordMotion(t)
  BY <1>14, GoesOffErasure, MappingFrame DEF RecordMotion, Finish, Idle, ErasureStages
<1>15. ASSUME NEW n \in Cameras, NEW asked \in BOOLEAN, ConfigureMotion(t, n, asked)
      PROVE  MappingInv'
  BY <1>15, GoesOffErasure, MappingFrame DEF ConfigureMotion, Finish, Idle, ErasureStages
<1>16. ASSUME NEW k \in DOMAIN issued, Authenticate(t, k)
      PROVE  MappingInv'
  BY <1>16, GoesOffErasure, MappingFrame
     DEF Authenticate, EnterFree, protectVars, ErasureStages
<1>17. QED
  BY <1>1, <1>2, <1>3, <1>4, <1>5, <1>6, <1>7, <1>8, <1>9, <1>10, <1>11, <1>12, <1>13,
     <1>14, <1>15, <1>16
     DEF ProtectNext, ConsoleChange, Motion

(* The map is of the account and the console, or nobody's.                 *)
LEMMA MappingStep ==
  ASSUME Types, Held, SquareInv, ProtectInv, MappingInv, [Next]_vars
  PROVE  MappingInv'
<1>1. ASSUME NEW t \in Tasks, SetMapping(t)
      PROVE  MappingInv'
  <2>1. /\ form.account = square.merchant /\ square.revision # 0
        /\ form.console = protect.console /\ protect.generation # 0
    BY <1>1 DEF SetMapping, Current, SquareInv, Settled, FormOfAccount, ProtectInv,
                Installed, FormOfConsole
  <2>2. mapping' = [account |-> square.merchant, console |-> protect.console]
    BY <1>1, <2>1 DEF SetMapping
  <2>3. UNCHANGED <<task, square, protect>> /\ ExclusiveFree(t) /\ task[t].pc = "idle"
    BY <1>1 DEF SetMapping, Briefly, Starts, At, squareVars, protectVars
  <2>4. \A u \in Tasks : task[u].pc \notin ErasureStages
    BY <2>3 DEF Held, ExclusiveFree, Mode, ExclusiveStages, SharedStages, ErasureStages
  <2>5. QED
    BY <2>1, <2>2, <2>3, <2>4 DEF MappingInv, OwnMapping, ErasureStages
<1>2. ASSUME NEW t \in Tasks, SyncBegins(t)
      PROVE  MappingInv'
  <2>1. PICK host : BeginPages(t, host)
    BY <1>2 DEF SyncBegins
  <2>2. QED
    BY <1>2, <2>1, GoesOffErasure, MappingFrame
       DEF SyncBegins, BeginPages, Continue, squareVars, protectVars, ErasureStages, Types
<1>3. ASSUME NEW t \in Tasks, ShowLocations(t)
      PROVE  MappingInv'
  BY <1>3, GoesOffErasure, MappingFrame
     DEF ShowLocations, Finish, Idle, squareVars, protectVars, ErasureStages, Types
<1>4. ASSUME NEW t \in Tasks, ShowCameras(t)
      PROVE  MappingInv'
  BY <1>4, MappingFrame DEF ShowCameras, BrieflyShared, squareVars, protectVars,
                            OffErasure
<1>5. ASSUME NEW t \in Tasks, Quit(t), UNCHANGED <<mapping, squareVars, protectVars, form>>
      PROVE  MappingInv'
  BY <1>5, GoesOffErasure, MappingFrame
     DEF Quit, Finish, Idle, squareVars, protectVars, ErasureStages, Types
<1>6. CASE SquareExpires /\ UNCHANGED <<protectVars, form>>
  BY <1>6, MappingFrame DEF SquareExpires, OfferExpires, PendingExpires, StateExpires,
                            guardVars, protectVars, OffErasure
<1>7. CASE Surroundings /\ UNCHANGED <<squareVars, form>>
  BY <1>7, MappingFrame
     DEF Surroundings, ConfirmationExpires, Replace, guardVars, squareVars, OffErasure
<1>8. CASE UNCHANGED vars
  BY <1>8, MappingFrame DEF vars, guardVars, squareVars, protectVars, OffErasure
<1>9. QED
  BY <1>1, <1>2, <1>3, <1>4, <1>5, <1>6, <1>7, <1>8, SquareMapping, ProtectMapping
     DEF Next, squareVars, protectVars

(* A motion token is the newest that was issued, and was issued for the    *)
(* camera that is configured, whatever tokens deliveries present.          *)
LEMMA MotionStep ==
  ASSUME Types, MotionInv, [Next]_vars
  PROVE  MotionInv'
<1> USE DEF Types
<1>1. CASE UNCHANGED <<motion, issued, events>>
  BY <1>1 DEF MotionInv, OwnCamera
<1>2. ASSUME NEW t \in Tasks, NEW n \in Cameras, NEW asked \in BOOLEAN,
             ConfigureMotion(t, n, asked)
      PROVE  MotionInv'
  <2>1. PICK camera : camera = [console |-> answers[protect.host], camera |-> n]
    OBVIOUS
  <2>2. events' = events /\ issued \in Seq(Camera) /\ motion.token \in Nat
    BY <1>2 DEF ConfigureMotion, ProtectTypes
  <2>3. camera \in Camera
    BY <1>2, <2>1 DEF ConfigureMotion, Verified, ProtectTypes, Camera, Console
  <2>4. CASE /\ issued' = Append(issued, camera)
             /\ motion' = [token |-> Len(issued) + 1, camera |-> camera]
    <3>1. Len(issued') = Len(issued) + 1 /\ issued'[Len(issued) + 1] = camera
      BY <2>2, <2>3, <2>4
    <3>2. \A k \in 1 .. Len(issued) : issued'[k] = issued[k]
      BY <2>2, <2>3, <2>4
    <3>3. /\ motion'.token \in 0 .. Len(issued') /\ motion'.token # 0
          /\ issued'[motion'.token] = motion'.camera
      BY <2>2, <2>4, <3>1
    <3>4. \A e \in events : e.token \in 1 .. Len(issued') /\ issued'[e.token] = e.camera
      BY <2>2, <3>1, <3>2 DEF MotionInv, OwnCamera
    <3>5. QED
      BY <2>2, <3>3, <3>4 DEF MotionInv, OwnCamera
  <2>5. CASE /\ issued' = issued /\ motion # NoMotion /\ motion.camera = camera
             /\ motion' = [token |-> motion.token, camera |-> camera]
    BY <2>2, <2>5 DEF MotionInv, OwnCamera
  <2>6. QED
    BY <1>2, <2>1, <2>4, <2>5 DEF ConfigureMotion, Rotates
<1>3. ASSUME NEW t \in Tasks, DisableMotion(t)
      PROVE  MotionInv'
  BY <1>3 DEF DisableMotion, NoMotion, MotionInv, OwnCamera, ProtectTypes
<1>4. ASSUME NEW t \in Tasks, RecordMotion(t)
      PROVE  MotionInv'
  <2>1. motion.token \in 1 .. Len(issued) /\ issued[motion.token] = motion.camera
    BY <1>4 DEF RecordMotion, Accepts, MotionInv, ProtectTypes
  <2>2. PICK kept \in {events, {}} :
          events' = kept \union {[token |-> motion.token, camera |-> motion.camera]}
    BY <1>4 DEF RecordMotion, Accepts
  <2>3. \A e \in events' : e.token \in 1 .. Len(issued) /\ issued[e.token] = e.camera
    BY <2>1, <2>2 DEF MotionInv, OwnCamera
  <2>4. UNCHANGED <<motion, issued>>
    BY <1>4 DEF RecordMotion
  <2>5. QED
    BY <2>3, <2>4 DEF MotionInv, OwnCamera
<1>5. ASSUME NEW t \in Tasks, EraseProtect(t)
      PROVE  MotionInv'
  BY <1>5 DEF EraseProtect, MotionInv, OwnCamera
<1>6. ASSUME NEW t \in Tasks, ProtectNext(t)
      PROVE  MotionInv'
  <2>1. CASE Motion(t)
    BY <1>1, <1>2, <1>3, <1>4, <2>1 DEF Motion, StartMotion, Authenticate, protectVars
  <2>2. CASE ConsoleChange(t)
    BY <1>1, <1>5, <2>2 DEF ConsoleChange, AskConsole, Confirm, ReadConsole,
                            VerifyConsole, SaveConsole, BindConsole, protectVars
  <2>3. QED
    BY <1>1, <1>6, <2>1, <2>2 DEF ProtectNext, StartDrain, MeetConsole, EndPages, Capture,
                                  protectVars
<1>7. QED
  BY <1>1, <1>6 DEF Next, SyncBegins, ShowLocations, ShowCameras, SetMapping,
                    Surroundings, ConfirmationExpires, Replace, protectVars, vars

-----------------------------------------------------------------------------
(***************************************************************************)
(* Theorems.                                                               *)
(***************************************************************************)

LEMMA InitKeeps == Init => IInv
<1> SUFFICES ASSUME Init
             PROVE  IInv
  OBVIOUS
<1> USE GuardAssumption, SquareAssumption, ProtectAssumption
<1>1. GuardTypes /\ StageTypes
  <2>1. DOMAIN task = Tasks /\ \A t \in Tasks : task[t] = Idle
    BY DEF Init, GuardInit
  <2>2. Fits(Idle)
    BY DEF Idle, Fits
  <2>3. StageTypes
    BY <2>1, <2>2 DEF StageTypes
  <2>4. guard \in [Tasks -> {"free", "shared", "exclusive"}] /\ requests \in 0 .. MaxRequests
    BY DEF Init, GuardInit
  <2>5. QED
    BY <2>1, <2>3, <2>4 DEF GuardTypes
<1>2. SquareTypes
  BY DEF Init, SquareInit, NoAccount, NoOffer, SquareTypes, Account
<1>3. ProtectTypes
  BY DEF Init, ProtectInit, NoConsole, NoConfirmation, NoMotion, NoCamera, ProtectTypes,
         Console, Camera
<1>4. FormTypes
  BY <1>2, <1>3 DEF Init, NoForm, FormTypes, SquareTypes, ProtectTypes, Account, Console
<1>5. Held
  BY DEF Init, GuardInit, Idle, Held, Mode, ExclusiveStages, SharedStages
<1>6. Settled
  BY DEF Init, SquareInit, NoAccount, NoForm, Settled, OwnAccount, FormOfAccount
<1>7. Installed
  BY DEF Init, ProtectInit, NoConsole, NoForm, Installed, OwnConsole, FormOfConsole
<1>8. SquareInv
  BY <1>6 DEF Init, GuardInit, Idle, SquareInv, KnowsAccount
<1>9. ProtectInv
  BY <1>7 DEF Init, GuardInit, Idle, ProtectInv, KnowsConsole
<1>10. MappingInv
  BY DEF Init, GuardInit, Idle, SquareInit, ProtectInit, NoAccount, NoConsole, MappingInv,
         OwnMapping
<1>11. MotionInv
  BY DEF Init, ProtectInit, NoMotion, MotionInv, OwnCamera
<1>12. QED
  BY <1>1, <1>2, <1>3, <1>4, <1>5, <1>8, <1>9, <1>10, <1>11 DEF IInv, Types

LEMMA StepKeeps == IInv /\ [Next]_vars => IInv'
BY HeldStep, StageStep, SquareStep, ProtectStep, FormStep, MappingStep, MotionStep
   DEF IInv, Types, SquareFacts, ProtectFacts

(* The inductive invariant.                                                *)
THEOREM Invariant == Spec => []IInv
<1>1. Init => IInv
  BY InitKeeps
<1>2. IInv /\ [Next]_vars => IInv'
  BY StepKeeps
<1>3. QED
  BY <1>1, <1>2, PTL DEF Spec

(* Tasks exclude each other by the guard, and the settings keep their      *)
(* types: what the code of clear_*_under_guard and set_* relies on.        *)
THEOREM TypeCorrect == Spec => []TypeOK
<1>1. IInv => TypeOK
  <2> SUFFICES ASSUME IInv PROVE TypeOK
    OBVIOUS
  <2>1. \A t \in Tasks : At(t, "idle") => guard[t] = "free"
    BY DEF IInv, Held, At, Mode, ExclusiveStages, SharedStages
  <2>2. \A t, u \in Tasks : guard[t] = "exclusive" /\ u # t => guard[u] = "free"
    BY DEF IInv, Held
  <2>3. requests \in 0 .. MaxRequests /\ guard \in [Tasks -> {"free", "shared", "exclusive"}]
    BY DEF IInv, Types, GuardTypes
  <2>4. /\ square.merchant \in Accounts \union {None}
        /\ offer.account \in Accounts \union {None}
        /\ pending.account \in Accounts \union {None}
        /\ states \in 0 .. KeptStates
        /\ square.merchant = None <=> square.revision = 0
    BY DEF IInv, Types, SquareTypes, Account, SquareInv, Settled
  <2>5. /\ protect.host \in Hosts \union {None} /\ protect.console \in Consoles \union {None}
        /\ protect.host = None <=> protect.generation = 0
        /\ motion.token \in 0 .. Len(issued)
    BY DEF IInv, Types, ProtectTypes, Console, ProtectInv, Installed, MotionInv
  <2>6. QED
    BY <2>1, <2>2, <2>3, <2>4, <2>5 DEF TypeOK
<1>2. QED
  BY <1>1, Invariant, PTL

(* Sales, tokens, pictures, motion events and the camera map are of the    *)
(* account and the console they are stored under: what set_square,         *)
(* confirm_oauth_switch and set_protect erase leaves nothing behind.       *)
THEOREM OwnDataHolds == Spec => []OwnData
<1>1. IInv => OwnData
  BY DEF IInv, SquareInv, Settled, ProtectInv, Installed, MappingInv, MotionInv, OwnData
<1>2. QED
  BY <1>1, Invariant, PTL

LEMMA SameAccount ==
  ASSUME square'.merchant = square.merchant \/ square.merchant = None
  PROVE  AccountSwitch
BY DEF AccountSwitch

LEMMA AccountSwitchStep ==
  ASSUME IInv, [Next]_vars
  PROVE  AccountSwitch
<1> USE DEF IInv, Types
<1>1. ASSUME NEW t \in Tasks, SquareChange(t)
      PROVE  AccountSwitch
  <2>1. CASE SaveSquare(t)
    BY <2>1 DEF SaveSquare, Saves, Connected, At, SquareInv, KnowsAccount, MappingInv,
                AccountSwitch
  <2>2. CASE AdoptOAuth(t)
    <3>1. square'.merchant = task[t].account
      BY <2>2 DEF AdoptOAuth, Authorized, SquareTypes
    <3>2. QED
      BY <2>2, <3>1 DEF AdoptOAuth, At, SquareInv, KnowsAccount, MappingInv, AccountSwitch
  <2>3. ASSUME NEW a \in Accounts, ConnectOAuth(t, a)
        PROVE  AccountSwitch
    BY <2>3, SameAccount DEF ConnectOAuth, Authorized, Replaces, SquareTypes
  <2>4. ASSUME NEW a \in Accounts, NEW webhook, Reconnect(t, a, webhook)
        PROVE  AccountSwitch
    BY <2>4, SameAccount DEF Reconnect, Saves, Connected, Replaces
  <2>5. CASE square' = square
    BY <2>5, SameAccount
  <2>6. QED
    BY <1>1, <2>1, <2>2, <2>3, <2>4, <2>5
       DEF SquareChange, ForgetStates, Callback, ConfirmOAuth, ConfirmSwitch, ParkOAuth
<1>2. ASSUME NEW t \in Tasks, SquareClient(t)
      PROVE  AccountSwitch
  <2>1. CASE EndRefresh(t)
    BY <2>1, SameAccount DEF EndRefresh, SaveTokens, SquareTypes
  <2>2. CASE RegisterWebhook(t)
    BY <2>2, SameAccount DEF RegisterWebhook, SquareTypes
  <2>3. CASE square' = square
    BY <2>3, SameAccount
  <2>4. QED
    BY <1>2, <2>1, <2>2, <2>3
       DEF SquareClient, UseSquare, StartRefresh, GetClient, Ingest, squareVars
<1>3. CASE square' = square
  BY <1>3, SameAccount
<1>4. ASSUME NEW t \in Tasks, SquareBriefly(t)
      PROVE  AccountSwitch
  BY <1>3, <1>4 DEF SquareBriefly, SetOAuthApp, StartOAuth, CancelOAuth, AskSwitch
<1>5. CASE SquareExpires
  BY <1>3, <1>5 DEF SquareExpires, OfferExpires, PendingExpires, StateExpires
<1>6. ASSUME NEW t \in Tasks, SyncBegins(t)
      PROVE  AccountSwitch
  BY <1>3, <1>6 DEF SyncBegins, BeginPages, squareVars
<1>7. QED
  BY <1>1, <1>2, <1>3, <1>4, <1>5, <1>6
     DEF Next, SquareNext, ShowLocations, ShowCameras, SetMapping, squareVars, vars

LEMMA SameConsole ==
  ASSUME \/ protect'.host = protect.host /\ protect'.console = protect.console
         \/ protect.host = None
  PROVE  ConsoleSwitch
BY DEF ConsoleSwitch

LEMMA ConsoleSwitchStep ==
  ASSUME IInv, [Next]_vars
  PROVE  ConsoleSwitch
<1> USE DEF IInv, Types
<1>1. CASE protect' = protect
  BY <1>1, SameConsole
<1>2. ASSUME NEW t \in Tasks, SaveConsole(t)
      PROVE  ConsoleSwitch
  <2>1. protect'.host = task[t].host /\ protect'.console = task[t].console
    BY <1>2 DEF SaveConsole, Saved
  <2>2. protect = task[t].seen /\ ~ Switched(t)
    BY <1>2 DEF SaveConsole, Unchanged
  <2>3. QED
    BY <2>1, <2>2, SameConsole DEF Switched, Differs
<1>3. ASSUME NEW t \in Tasks, BindConsole(t)
      PROVE  ConsoleSwitch
  <2>1. protect'.host = task[t].host /\ protect'.console = task[t].console
    BY <1>3 DEF BindConsole, Saved
  <2>2. /\ pictures = {} /\ mapping = None
        /\ confirmation.host = task[t].host /\ confirmation.console = task[t].console
    BY <1>3 DEF BindConsole, At, ProtectInv, KnowsConsole, MappingInv
  <2>3. QED
    BY <2>1, <2>2 DEF ConsoleSwitch
<1>4. ASSUME NEW t \in Tasks, ProtectNext(t)
      PROVE  ConsoleSwitch
  BY <1>1, <1>2, <1>3, <1>4
     DEF ProtectNext, ConsoleChange, AskConsole, Confirm, ReadConsole, VerifyConsole,
         EraseProtect, StartDrain, MeetConsole, EndPages, Capture, Motion, StartMotion,
         DisableMotion, RecordMotion, ConfigureMotion, Authenticate, protectVars
<1>5. QED
  BY <1>1, <1>4 DEF Next, SyncBegins, ShowLocations, ShowCameras, SetMapping,
                    Surroundings, ConfirmationExpires, Replace, protectVars, vars

(* No provider is replaced unconfirmed, or before what came from it has    *)
(* been erased.                                                            *)
THEOREM SwitchesConfirmed == Spec => SwitchConfirmed
<1>1. IInv /\ [Next]_vars => [AccountSwitch /\ ConsoleSwitch]_vars
  BY AccountSwitchStep, ConsoleSwitchStep
<1>2. QED
  BY <1>1, Invariant, PTL DEF Spec, SwitchConfirmed
=============================================================================
