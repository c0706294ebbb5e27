--------------------------- MODULE ProtectConsole ---------------------------
(***************************************************************************)
(* The Protect console of the installation: its confirmed replacement, the *)
(* drains that capture pictures from it, and the receiver of its motion    *)
(* webhooks, which does not take the integration guard.                    *)
(*                                                                         *)
(* A picture is known by the console it was taken from.  The alarm         *)
(* settings, which set_protect saves too, are in AlarmDelivery.  Consoles  *)
(* report an identity; a host answers with one console at a time.          *)
(***************************************************************************)
EXTENDS IntegrationGuard, Sequences

CONSTANTS
  Hosts, Consoles,
  Cameras,        \* the numbers of a console's cameras
  MaxReplaced     \* bound: consoles replaced in place

ASSUME ProtectAssumption == None \notin Hosts \union Consoles /\ MaxReplaced \in Nat

VARIABLES
  protect,        \* the protect.* settings of the saved console
  confirmation,   \* protect.switch_*: the console to be confirmed
  motion,         \* the token and the camera of the motion receiver
  issued,         \* ghost: the camera each motion token was issued for
  pictures,       \* the consoles that stored pictures were taken from
  events,         \* stored motion events: the presented token and the camera
  answers,        \* which console answers at a host
  replaced

protectVars ==
  <<protect, confirmation, motion, issued, pictures, events, answers, replaced>>

NoConsole == [host |-> None, console |-> None, generation |-> 0]
NoConfirmation == [id |-> 0, host |-> None, console |-> None, live |-> FALSE]
NoCamera == [console |-> None, camera |-> 0]
NoMotion == [token |-> 0, camera |-> NoCamera]

ProtectInit ==
  /\ answers \in [Hosts -> Consoles]
  /\ replaced = 0
  /\ protect \in {NoConsole} \union
       {[host |-> h, console |-> answers[h], generation |-> 1] : h \in Hosts}
  /\ confirmation = NoConfirmation
  /\ motion = NoMotion /\ issued = << >>
  /\ pictures = {} /\ events = {}

(* The hardware at an address is replaced, while nobody talks to it: a     *)
(* connection to the old console does not survive.                         *)
Replace(h, c) ==
  /\ replaced < MaxReplaced /\ replaced' = replaced + 1
  /\ \A t \in Tasks : task[t].pc \notin {"sync", "capture"}
  /\ answers[h] # c /\ answers' = [answers EXCEPT ![h] = c]
  /\ UNCHANGED <<guardVars, mapping, protect, confirmation, motion, issued, pictures, events>>

(***************************************************************************)
(* The confirmation of another console, and set_protect.                   *)
(***************************************************************************)

(* protect_switch_token keeps the guard while it asks the console.         *)
AskConsole(t, h) ==
  /\ EnterExclusive(t, [pc |-> "ask console", host |-> h])
  /\ UNCHANGED <<protectVars, mapping>>

Confirm(t) ==
  /\ At(t, "ask console")
  /\ confirmation' = [id |-> requests, host |-> task[t].host,
                      console |-> answers[task[t].host], live |-> TRUE]
  /\ Finish(t)
  /\ UNCHANGED <<protect, motion, issued, pictures, events, answers, replaced, mapping>>

ConfirmationExpires ==
  /\ confirmation.live
  /\ confirmation' = [confirmation EXCEPT !.live = FALSE]
  /\ UNCHANGED <<guardVars, mapping, protect, motion, issued, pictures, events, answers,
                 replaced>>

(* valid_protect_switch_token.                                             *)
Confirmed(id, h, c) ==
  id # 0 /\ confirmation = [id |-> id, host |-> h, console |-> c, live |-> TRUE]

(* set_protect reads the settings, without the guard; another host needs a *)
(* confirmation from the start.                                            *)
ReadConsole(t, h, id) ==
  /\ EnterFree(t, [pc |-> "verify", host |-> h, id |-> id, seen |-> protect])
  /\ id \in {0, confirmation.id}
  /\ protect.host \in {None, h} \/ id # 0
  /\ UNCHANGED <<protectVars, mapping>>

(* Whether what was seen is another console than what answered.            *)
Differs(seen, h, c) == seen.host # None /\ (seen.host # h \/ seen.console # c)

(* The console answers with its cameras and its identity.                  *)
VerifyConsole(t) ==
  LET h == task[t].host
      c == answers[h]
  IN /\ At(t, "verify")
     /\ Differs(task[t].seen, h, c) => Confirmed(task[t].id, h, c)
     /\ Continue(t, [pc |-> "save console", host |-> h, console |-> c, id |-> task[t].id,
                     seen |-> task[t].seen])
     /\ UNCHANGED <<protectVars, mapping>>

(* Mutation: the settings are taken to be those that were read.            *)
AssumedUnchanged(seen) == TRUE

Unchanged(seen) == protect = seen

Switched(t) == Differs(task[t].seen, task[t].host, task[t].console)

Saved(t, generation) ==
  [host |-> task[t].host, console |-> task[t].console, generation |-> generation]

(* The same console, or the first.                                         *)
SaveConsole(t) ==
  /\ At(t, "save console") /\ ~ Switched(t)
  /\ ExclusiveFree(t) /\ Unchanged(task[t].seen)
  /\ protect' = Saved(t, IF protect.generation = 0 THEN 1 ELSE protect.generation)
  /\ confirmation' = NoConfirmation
  /\ Finish(t)
  /\ UNCHANGED <<motion, issued, pictures, events, answers, replaced, mapping>>

(* Another console: its predecessor's evidence is erased first.            *)
EraseProtect(t) ==
  /\ At(t, "save console") /\ Switched(t)
  /\ ExclusiveFree(t) /\ Unchanged(task[t].seen)
  /\ Confirmed(task[t].id, task[t].host, task[t].console)
  /\ pictures' = {} /\ events' = {} /\ mapping' = None
  /\ Goes(t, [pc |-> "bind", host |-> task[t].host, console |-> task[t].console])
  /\ Holds(t, "exclusive")
  /\ UNCHANGED <<requests, protect, confirmation, motion, issued, answers, replaced>>

BindConsole(t) ==
  /\ At(t, "bind")
  /\ protect' = Saved(t, protect.generation + 1)
  /\ confirmation' = NoConfirmation
  /\ Finish(t)
  /\ UNCHANGED <<motion, issued, pictures, events, answers, replaced, mapping>>

(***************************************************************************)
(* Pictures.                                                               *)
(***************************************************************************)

(* verify_protect_identity.                                                *)
Verified == protect.host # None /\ answers[protect.host] = protect.console

StartDrain(t) ==
  /\ EnterShared(t, [pc |-> "meet console"])
  /\ protect.host # None
  /\ UNCHANGED <<protectVars, mapping>>

MeetConsole(t) ==
  /\ At(t, "meet console") /\ Verified
  /\ Continue(t, [pc |-> "capture", what |-> "drain", host |-> protect.host])
  /\ UNCHANGED <<protectVars, mapping>>

(* A sync drains the console that it verified before its pages.            *)
EndPages(t) ==
  /\ At(t, "sync") /\ task[t].host # None
  /\ Continue(t, [pc |-> "capture", what |-> "sync", host |-> task[t].host])
  /\ UNCHANGED <<protectVars, mapping>>

(* A job needs a mapped camera.                                            *)
Capture(t) ==
  /\ At(t, "capture") /\ mapping # None
  /\ pictures' = pictures \union {answers[task[t].host]}
  /\ UNCHANGED <<guardVars, mapping, protect, confirmation, motion, issued, events, answers,
                 replaced>>

(***************************************************************************)
(* Motion.                                                                 *)
(***************************************************************************)

StartMotion(t) ==
  /\ EnterShared(t, [pc |-> "ask cameras"])
  /\ protect.host # None
  /\ UNCHANGED <<protectVars, mapping>>

(* Whether configure_motion issues a new token.                            *)
Rotates(camera, asked) == asked \/ motion = NoMotion \/ motion.camera # camera

ConfigureMotion(t, n, asked) ==
  LET camera == [console |-> answers[protect.host], camera |-> n]
      rotates == Rotates(camera, asked)
  IN /\ At(t, "ask cameras") /\ Verified
     /\ issued' = IF rotates THEN Append(issued, camera) ELSE issued
     /\ motion' = [token |-> IF rotates THEN Len(issued) + 1 ELSE motion.token,
                   camera |-> camera]
     /\ Finish(t)
     /\ UNCHANGED <<protect, confirmation, pictures, events, answers, replaced, mapping>>

DisableMotion(t) ==
  /\ BrieflyShared(t)
  /\ motion' = NoMotion
  /\ UNCHANGED <<protect, confirmation, issued, pictures, events, answers, replaced, mapping>>

(* authenticate_motion.                                                    *)
Accepts(k) == k # 0 /\ motion.token = k

(* protect_motion_get and protect_motion_post: the token is checked before *)
(* the body is parsed, and again when the event is recorded.               *)
Authenticate(t, k) ==
  /\ EnterFree(t, [pc |-> "record", token |-> k])
  /\ Accepts(k)
  /\ UNCHANGED <<protectVars, mapping>>

(* Expired rows and those beyond the cap go with it; an exact repetition   *)
(* adds nothing.                                                           *)
RecordMotion(t) ==
  /\ At(t, "record") /\ Accepts(task[t].token)
  /\ \E kept \in {events, {}} :
       events' = kept \union {[token |-> task[t].token, camera |-> motion.camera]}
  /\ Finish(t)
  /\ UNCHANGED <<protect, confirmation, motion, issued, pictures, answers, replaced, mapping>>

ConsoleChange(t) ==
  \/ Confirm(t) \/ VerifyConsole(t) \/ SaveConsole(t) \/ EraseProtect(t) \/ BindConsole(t)
  \/ \E h \in Hosts :
       AskConsole(t, h) \/ \E id \in {0, confirmation.id} : ReadConsole(t, h, id)

Motion(t) ==
  \/ StartMotion(t) \/ DisableMotion(t) \/ RecordMotion(t)
  \/ \E n \in Cameras, asked \in BOOLEAN : ConfigureMotion(t, n, asked)
  \/ \E k \in DOMAIN issued : Authenticate(t, k)

ProtectNext(t) ==
  \/ ConsoleChange(t) \/ StartDrain(t) \/ MeetConsole(t) \/ EndPages(t) \/ Capture(t)
  \/ Motion(t)

Surroundings == ConfirmationExpires \/ \E h \in Hosts, c \in Consoles : Replace(h, c)

-----------------------------------------------------------------------------
(* Pictures are of the saved console.                                      *)
OwnConsole == pictures \subseteq {protect.console}

(* A motion event is filed under the camera its token was issued for.      *)
OwnCamera == \A e \in events : issued[e.token] = e.camera
=============================================================================
