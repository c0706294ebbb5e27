---------------------------- MODULE Installation ----------------------------
(***************************************************************************)
(* An installation: the processes of Startup, one of which serves the      *)
(* requests of Accounts while it holds the port, and the menu-bar          *)
(* application, which runs probes, spawns a server with a bootstrap secret *)
(* and shows the secret until setup is complete.                           *)
(***************************************************************************)
EXTENDS Startup, Accounts

VARIABLES
  app,        \* where the bootstrap secret of each process comes from
  menubar     \* the application: its stage, secret, server and probe

vars == <<startupVars, accountsVars, app, menubar>>

Absent == [pc |-> "off", secret |-> FALSE, child |-> None, probe |-> None]

Init ==
  /\ StartupInit /\ AccountsInit
  /\ app = [p \in Procs |-> "none"]
  /\ menubar = Absent

(***************************************************************************)
(* Processes.                                                              *)
(***************************************************************************)

(* Mutation: the handles of processes that ended are kept.                 *)
HandlesKept(p) == menubar

(* The application's handle of a process that has ended names nobody else. *)
Reaped(p) ==
  IF proc'[p].pc = "dead"
  THEN [menubar EXCEPT !.child = IF @ = p THEN None ELSE @,
                       !.probe = IF @ = p THEN None ELSE @]
  ELSE menubar

(* A process that has ended leaves no secret.                              *)
Kept == [p \in Procs |-> IF proc'[p].pc = "dead" THEN "none" ELSE app[p]]

(* Requests and memory of a server end with it.                            *)
Memory(p) == IF port = p THEN StopAccounts ELSE UNCHANGED accountsVars

(* A process begins with the bootstrap secret of its environment.          *)
Begins(p, h, supplied) == Launch(p, h) /\ app' = [app EXCEPT ![p] = supplied]

(* The AppState is built before the server has a pair and the port.        *)
Builds(p) ==
  /\ Build(p)
  /\ app' = [app EXCEPT ![p] = AppSecret(@)]
  /\ UNCHANGED <<accountsVars, menubar>>

Serves(p) == Bind(p) /\ BootAccounts(app[p]) /\ UNCHANGED <<app, menubar>>

Prepares(p) ==
  /\ Prepare(p)
  /\ app' = Kept /\ menubar' = Reaped(p)
  /\ UNCHANGED accountsVars

Dies(p) ==
  /\ menubar.probe # p
  /\ Die(p) /\ Memory(p)
  /\ app' = Kept /\ menubar' = Reaped(p)

(* The service manager, or somebody, starts a server.                      *)
StartsAlone(p, h) ==
  /\ \E supplied \in {"none", "environment"} : Begins(p, h, supplied)
  /\ UNCHANGED <<accountsVars, menubar>>

Requested == Serve /\ UNCHANGED <<startupVars, app, menubar>>

(***************************************************************************)
(* The menu bar.                                                           *)
(***************************************************************************)

(* A probe runs while the application waits for it.                        *)
Probe(p, pc) ==
  /\ Begins(p, None, "none")
  /\ menubar' = [menubar EXCEPT !.pc = pc, !.probe = p]
  /\ UNCHANGED accountsVars

(* MenubarApplication::new: the port must be free; a first probe.          *)
OpenMenubar(p) == menubar.pc = "off" /\ port = None /\ Probe(p, "first")

(* refresh_state, while there is a secret to show.                         *)
Refresh(p) == menubar.pc = "run" /\ menubar.secret /\ Probe(p, "again")

(* A secret is wanted until a probe says that setup is complete.           *)
ProbeReturns(p, failed) ==
  /\ menubar.probe = p
  /\ menubar' = [menubar EXCEPT
       !.probe = None,
       !.pc = IF @ = "first" THEN "spawn" ELSE "run",
       !.secret = (menubar.pc = "first" \/ @) /\ (failed \/ ~ SetupComplete)]
  /\ UNCHANGED <<accountsVars, app>>

ProbeAnswers(p) == Answer(p) /\ ProbeReturns(p, FALSE)
ProbeDies(p) == Die(p) /\ ProbeReturns(p, TRUE)

(* Mutation: the variable is removed, and not set.                         *)
NonePassed == "none"

(* spawn_server: the variable is removed, and set when there is a secret.  *)
Passed == IF menubar.secret THEN "menu bar" ELSE "none"

Spawn(p, h) ==
  /\ menubar.pc = "spawn"
  /\ Begins(p, h, Passed)
  /\ menubar' = [menubar EXCEPT !.pc = "run", !.child = p]
  /\ UNCHANGED accountsVars

(* ServerProcess::stop: the server is terminated before the application.   *)
Quit ==
  /\ menubar.pc = "run"
  /\ IF menubar.child = None
     THEN UNCHANGED <<startupVars, accountsVars>>
     ELSE Stop(menubar.child) /\ Memory(menubar.child)
  /\ app' = Kept /\ menubar' = Absent

(* The application is killed: its server goes on alone.                    *)
MenubarDies ==
  /\ menubar.pc # "off"
  /\ menubar' = Absent
  /\ UNCHANGED <<startupVars, accountsVars, app>>

Next ==
  \/ Requested \/ Quit \/ MenubarDies
  \/ \E p \in Procs :
       \/ Builds(p) \/ Serves(p) \/ Prepares(p) \/ Dies(p)
       \/ ProbeAnswers(p) \/ ProbeDies(p) \/ OpenMenubar(p) \/ Refresh(p)
       \/ \E h \in Hosts : StartsAlone(p, h) \/ Spawn(p, h)

Spec == Init /\ [][Next]_vars

(***************************************************************************)
(* Properties.                                                             *)
(***************************************************************************)

(* Types of the whole; requests are served by whoever holds the port.      *)
TypeOK ==
  /\ StartupTypeOK /\ AccountsTypeOK
  /\ up <=> port # None
  /\ app \in [Procs -> Supplied \union {"generated"}]
  /\ menubar.child # None => ~ At(menubar.child, "dead")
  /\ menubar.probe # None <=> menubar.pc \in {"first", "again"}

(* While setup is incomplete, the secret the menu bar shows is one its     *)
(* server accepts.                                                         *)
ShownSecretWorks ==
  (menubar.secret /\ port # None /\ menubar.child = port /\ ~ SetupComplete)
    => bootstrap = "menu bar"
=============================================================================
