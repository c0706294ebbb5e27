--------------------------- MODULE SquareAccount ---------------------------
(***************************************************************************)
(* The Square account of the installation: access tokens and OAuth         *)
(* authorizations, their refresh, the confirmed replacement of the account *)
(* and the erasure of what belongs to the old one.                         *)
(*                                                                         *)
(* A token, a webhook key or a sale is known by the account it is of.      *)
(* Which session token or OAuth state a request presents is left out: only *)
(* the right one has an effect.  That time passes is an action of each     *)
(* thing that expires.                                                     *)
(***************************************************************************)
EXTENDS IntegrationGuard

CONSTANTS
  Accounts,       \* merchants
  KeptStates      \* OAuth states kept: 16 in the code

ASSUME SquareAssumption == None \notin Accounts /\ KeptStates \in Nat

VARIABLES
  square,         \* the square.* settings of the connected account
  offer,          \* square.switch_*: the replacement to be confirmed
  pending,        \* square.oauth_pending_*: the authorization to be confirmed
  app,            \* whether an OAuth application is configured
  states,         \* how many OAuth states are valid
  sales           \* the accounts whose transactions are stored

squareVars == <<square, offer, pending, app, states, sales>>

NoAccount == [merchant |-> None, access |-> None, refresh |-> None,
              webhook |-> None, revision |-> 0]
NoOffer == [account |-> None, live |-> FALSE]

(* A new installation, or one that has been connected by OAuth.            *)
SquareInit ==
  /\ \/ square = NoAccount
     \/ \E a \in Accounts : square =
          [merchant |-> a, access |-> a, refresh |-> a, webhook |-> None, revision |-> 1]
  /\ app = (square # NoAccount)
  /\ offer = NoOffer /\ pending = NoOffer
  /\ states = 0
  /\ sales = {}

Replaces(a) == square.merchant # None /\ square.merchant # a

(* clear_square_account_data_under_guard: one transaction; the files of    *)
(* the thumbnails go after it.                                             *)
EraseSquare == sales' = {} /\ mapping' = None

(***************************************************************************)
(* set_square: an access token that Square has accepted.                   *)
(***************************************************************************)

(* Mutation: the refresh token of the old account is kept.                 *)
KeepsRefresh(a, webhook) ==
  [square EXCEPT !.merchant = a, !.access = a, !.webhook = webhook, !.revision = @ + 1]

(* The settings that set_square writes; it deletes the refresh token.      *)
Connected(a, webhook) ==
  [merchant |-> a, access |-> a, refresh |-> None, webhook |-> webhook,
   revision |-> square.revision + 1]

(* An unconfirmed replacement is refused with a token to confirm it.       *)
AskSwitch(t, a) ==
  /\ Briefly(t)
  /\ Replaces(a)
  /\ offer' = [account |-> a, live |-> TRUE]
  /\ UNCHANGED <<square, pending, app, states, sales, mapping>>

(* The confirmed replacement erases first, then saves (SaveSquare).        *)
ConfirmSwitch(t, a, webhook) ==
  /\ EnterExclusive(t, [pc |-> "save", account |-> a, webhook |-> webhook])
  /\ Replaces(a)
  /\ offer.account = a /\ offer.live
  /\ EraseSquare
  /\ UNCHANGED <<square, offer, pending, app, states>>

Saves(a, webhook) ==
  /\ square' = Connected(a, webhook)
  /\ offer' = NoOffer /\ pending' = NoOffer
  /\ UNCHANGED <<app, states, sales, mapping>>

SaveSquare(t) ==
  /\ At(t, "save")
  /\ Saves(task[t].account, task[t].webhook)
  /\ Continue(t, [pc |-> "forget"])

(* The first account, or a new token of the same one; the webhook key is   *)
(* kept, set or cleared.                                                   *)
Reconnect(t, a, webhook) ==
  /\ EnterExclusive(t, [pc |-> "forget"])
  /\ ~ Replaces(a)
  /\ Saves(a, webhook)

(* clear_oauth_states, in a transaction of its own.                        *)
ForgetStates(t) ==
  /\ At(t, "forget")
  /\ states' = 0
  /\ Finish(t)
  /\ UNCHANGED <<square, offer, pending, app, sales, mapping>>

(***************************************************************************)
(* OAuth.                                                                  *)
(***************************************************************************)

SetOAuthApp(t) ==
  /\ Briefly(t)
  /\ app' = TRUE
  /\ UNCHANGED <<square, offer, pending, states, sales, mapping>>

(* store_oauth_state: the newest are kept.  consume_oauth_state: once.     *)
StoreState == states' = IF states < KeptStates THEN states + 1 ELSE states
ConsumeState == states > 0 /\ states' = states - 1

(* A new authorization drops the one that waits for its confirmation.      *)
StartOAuth(t) ==
  /\ Briefly(t)
  /\ app
  /\ pending' = NoOffer
  /\ StoreState
  /\ UNCHANGED <<square, offer, app, sales, mapping>>

(* The callback consumes its state and exchanges the code under the guard. *)
Callback(t) ==
  /\ EnterExclusive(t, [pc |-> "exchange"])
  /\ ConsumeState
  /\ UNCHANGED <<square, offer, pending, app, sales, mapping>>

(* What an authorization saves: the webhook key is left alone.             *)
Authorized(a) ==
  [square EXCEPT !.merchant = a, !.access = a, !.refresh = a, !.revision = @ + 1]

ConnectOAuth(t, a) ==
  /\ At(t, "exchange") /\ ~ Replaces(a)
  /\ square' = Authorized(a)
  /\ Finish(t)
  /\ UNCHANGED <<offer, pending, app, states, sales, mapping>>

(* Another account has authorized: its tokens wait for a confirmation.     *)
ParkOAuth(t, a) ==
  /\ At(t, "exchange") /\ Replaces(a)
  /\ pending' = [account |-> a, live |-> TRUE]
  /\ Finish(t)
  /\ UNCHANGED <<square, offer, app, states, sales, mapping>>

ConfirmOAuth(t) ==
  /\ EnterExclusive(t, [pc |-> "adopt", account |-> pending.account])
  /\ pending.account # None /\ pending.live
  /\ EraseSquare
  /\ UNCHANGED <<square, offer, pending, app, states>>

AdoptOAuth(t) ==
  /\ At(t, "adopt")
  /\ square' = Authorized(task[t].account)
  /\ pending' = NoOffer
  /\ Finish(t)
  /\ UNCHANGED <<offer, app, states, sales, mapping>>

(* An authorization is cancelled, or confirmed when it has expired.        *)
CancelOAuth(t) ==
  /\ Briefly(t)
  /\ pending.account # None
  /\ pending' = NoOffer
  /\ UNCHANGED <<square, offer, app, states, sales, mapping>>

(* Five minutes, or ten, have passed.                                      *)
OfferExpires ==
  /\ offer.live /\ offer' = [offer EXCEPT !.live = FALSE]
  /\ UNCHANGED <<guardVars, square, pending, app, states, sales, mapping>>
PendingExpires ==
  /\ pending.live /\ pending' = [pending EXCEPT !.live = FALSE]
  /\ UNCHANGED <<guardVars, square, offer, app, states, sales, mapping>>
StateExpires ==
  /\ ConsumeState
  /\ UNCHANGED <<guardVars, square, offer, pending, app, sales, mapping>>

(***************************************************************************)
(* The client that syncs, forms and webhook registration use: under the    *)
(* shared guard, after a refresh of the OAuth tokens that is due.          *)
(***************************************************************************)

Syncing(u) ==
  /\ task[u].pc \in {"refresh", "renew", "ready", "client", "sync", "capture"}
  /\ task[u].what = "sync"

(* A sync, the list of locations or the registration of the webhook; one   *)
(* sync at a time (the execution lock).                                    *)
UseSquare(t, what) ==
  /\ EnterShared(t, [pc |-> "refresh", what |-> what])
  /\ what = "sync" => \A u \in Tasks : ~ Syncing(u)
  /\ UNCHANGED <<squareVars, mapping>>

(* The settings that an answer to a refresh must find unchanged.           *)
Snapshot == <<square.merchant, square.access, square.refresh, square.revision>>

(* The lock of the refresh is held by one task of the process.             *)
StartRefresh(t) ==
  /\ At(t, "refresh") /\ \A u \in Tasks : ~ At(u, "renew")
  /\ app /\ square.refresh # None
  /\ Continue(t, [pc |-> "renew", what |-> task[t].what, seen |-> Snapshot])
  /\ UNCHANGED <<squareVars, mapping>>

(* update_square_oauth_tokens: the answer is saved if nothing has changed. *)
SaveTokens(seen) ==
  Snapshot = seen /\ square' = [square EXCEPT !.access = seen[3], !.refresh = seen[3]]

(* Square answers, or it does not and the old token is used.               *)
EndRefresh(t) ==
  /\ At(t, "renew")
  /\ SaveTokens(task[t].seen) \/ UNCHANGED square
  /\ Continue(t, [pc |-> "ready", what |-> task[t].what])
  /\ UNCHANGED <<offer, pending, app, states, sales, mapping>>

(* square_from_store, when no refresh was due or after it.                 *)
GetClient(t) ==
  /\ At(t, "ready") \/ (At(t, "refresh") /\ \A u \in Tasks : ~ At(u, "renew"))
  /\ square.access # None
  /\ Continue(t, [pc |-> "client", what |-> task[t].what, account |-> square.access])
  /\ UNCHANGED <<squareVars, mapping>>

Client(t, what) == At(t, "client") /\ task[t].what = what

(* The pages of a sync, with the host of the console it will drain, if any. *)
BeginPages(t, host) ==
  /\ Client(t, "sync")
  /\ Continue(t, [pc |-> "sync", what |-> "sync", account |-> task[t].account,
                  host |-> host])
  /\ UNCHANGED <<squareVars, mapping>>

(* Payments of the account of the token are stored.                        *)
Ingest(t) ==
  /\ At(t, "sync")
  /\ sales' = sales \union {task[t].account}
  /\ UNCHANGED <<guardVars, square, offer, pending, app, states, mapping>>

RegisterWebhook(t) ==
  /\ Client(t, "webhook")
  /\ square' = [square EXCEPT !.webhook = task[t].account]
  /\ Finish(t)
  /\ UNCHANGED <<offer, pending, app, states, sales, mapping>>

SquareBriefly(t) ==
  \/ SetOAuthApp(t) \/ StartOAuth(t) \/ CancelOAuth(t)
  \/ \E a \in Accounts : AskSwitch(t, a)

SquareChange(t) ==
  \/ SaveSquare(t) \/ ForgetStates(t) \/ Callback(t) \/ ConfirmOAuth(t) \/ AdoptOAuth(t)
  \/ \E a \in Accounts :
       \/ ConnectOAuth(t, a) \/ ParkOAuth(t, a)
       \/ \E webhook \in {None, a} : ConfirmSwitch(t, a, webhook)
       \/ \E webhook \in {None, a, square.webhook} : Reconnect(t, a, webhook)

SquareClient(t) ==
  \/ \E what \in {"sync", "locations", "webhook"} : UseSquare(t, what)
  \/ StartRefresh(t) \/ EndRefresh(t) \/ GetClient(t) \/ Ingest(t) \/ RegisterWebhook(t)

SquareExpires == OfferExpires \/ PendingExpires \/ StateExpires

SquareNext(t) == SquareBriefly(t) \/ SquareChange(t) \/ SquareClient(t)

-----------------------------------------------------------------------------
(* Everything stored under the connected account is of that account.       *)
OwnAccount ==
  /\ square.access = square.merchant
  /\ square.refresh \in {None, square.merchant}
  /\ sales \subseteq {square.merchant}
=============================================================================
