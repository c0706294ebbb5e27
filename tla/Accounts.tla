------------------------------ MODULE Accounts ------------------------------
(***************************************************************************)
(* Accounts of one running server: first-run setup, logins, sessions,      *)
(* password resets and the login throttle.  Accounts and sessions are      *)
(* rows; the failures and the bootstrap secret live in the process.        *)
(* Hashing and verifying a password take long and hold no lock, so every   *)
(* request that does so is two steps: what it read before may be old.      *)
(*                                                                         *)
(* The code has no operation that changes a role or disables an account:   *)
(* who is an administrator is a constant.                                  *)
(***************************************************************************)
EXTENDS Naturals, FiniteSets

CONSTANTS
  Users,          \* accounts that may come to be
  Admins,         \* those that are administrators
  First,          \* the account the first-run setup creates
  Passwords, Addresses,
  Requests,       \* HTTP requests handled at a time
  NoOne,
  MaxFailures,    \* LOGIN_MAX_FAILURES
  KeyLimit,       \* LOGIN_FAILURE_KEY_LIMIT
  MaxWork,        \* bounds: slow requests,
  MaxSessions     \* sessions ever made

ASSUME AccountsAssumption ==
  /\ First \in Admins /\ Admins \subseteq Users /\ NoOne \notin Users
  /\ MaxFailures \in Nat /\ KeyLimit \in Nat /\ MaxWork \in Nat /\ MaxSessions \in Nat
  /\ IsFiniteSet(Requests) /\ Requests # {}

VARIABLES
  up,             \* the server is serving
  users,          \* users: password and auth_revision
  sessions,       \* sessions, each with the password that was verified
  bootstrap,      \* BootstrapSecretVerifier: where its secret came from
  failures,       \* login_failures of the last minute
  guesses,        \* ghost: wrong passwords answered since a failure was forgotten
  request,
  setups,         \* ghost: first-run setups that succeeded
  work, made      \* how many requests and sessions there have been

accountsVars ==
  <<up, users, sessions, bootstrap, failures, guesses, request, setups, work, made>>

NoFailures == [a \in Addresses |-> 0]
Unknown == [exists |-> FALSE, pw |-> NoOne, rev |-> 0]
Account == [exists : {TRUE}, pw : Passwords, rev : Nat] \union {Unknown}
Session == [id : Nat, user : Users, pw : Passwords]
Idle == [pc |-> "idle", user |-> NoOne, pw |-> NoOne, addr |-> NoOne, account |-> Unknown]

Supplied == {"none", "environment", "menu bar"}
SetupComplete == \E u \in Admins : users[u].exists
Admin(s) == s.user \in Admins

AccountsInit ==
  /\ up = FALSE
  /\ users = [u \in Users |-> Unknown]
  /\ sessions = {}
  /\ bootstrap = "none"
  /\ failures = NoFailures /\ guesses = NoFailures
  /\ request = [r \in Requests |-> Idle]
  /\ setups = 0 /\ work = 0 /\ made = 0

(***************************************************************************)
(* The process.                                                            *)
(***************************************************************************)

(* AppState::new: a secret that is supplied is kept in any case; without   *)
(* one, a secret is generated if setup is incomplete.                      *)
AppSecret(supplied) == IF supplied = "none" /\ ~ SetupComplete THEN "generated" ELSE supplied

(* The server listens, with the secret its AppState was built with.        *)
BootAccounts(built) ==
  /\ ~ up
  /\ up' = TRUE
  /\ bootstrap' = built
  /\ UNCHANGED <<users, sessions, failures, guesses, request, setups, work, made>>

(* The process ends; requests, failures and the secret go with it.         *)
StopAccounts ==
  /\ up
  /\ up' = FALSE
  /\ bootstrap' = "none"
  /\ failures' = NoFailures /\ guesses' = NoFailures
  /\ request' = [r \in Requests |-> Idle]
  /\ UNCHANGED <<users, sessions, setups, work, made>>

(* A request that will hash or verify begins, with what it has read.       *)
Begin(r, pc, u, pw, a, account) ==
  /\ up /\ request[r].pc = "idle" /\ work < MaxWork
  /\ request' = [request EXCEPT ![r] =
                   [pc |-> pc, user |-> u, pw |-> pw, addr |-> a, account |-> account]]
  /\ work' = work + 1
  /\ UNCHANGED <<up, users, sessions, bootstrap, failures, guesses, setups, made>>

End(r) == request' = [request EXCEPT ![r] = Idle]

(***************************************************************************)
(* First-run setup.                                                        *)
(***************************************************************************)

(* The checks of setup, before the password is hashed.                     *)
Setup(r, pw) ==
  /\ ~ SetupComplete /\ bootstrap # "none"
  /\ Begin(r, "setup", First, pw, NoOne, Unknown)

(* 409: the secret is forgotten.                                           *)
RefuseSetup ==
  /\ up /\ SetupComplete /\ bootstrap # "none"
  /\ bootstrap' = "none"
  /\ UNCHANGED <<up, users, sessions, failures, guesses, request, setups, work, made>>

(* Mutation: the check made before hashing is trusted.                     *)
FirstAlways == TRUE

FirstStill == \A u \in Users : ~ users[u].exists

(* create_initial_admin inserts only into an empty table.                  *)
FinishSetup(r) ==
  /\ request[r].pc = "setup"
  /\ \/ /\ FirstStill
        /\ users' = [users EXCEPT ![First] = [exists |-> TRUE, pw |-> request[r].pw, rev |-> 0]]
        /\ setups' = setups + 1
     \/ ~ FirstStill /\ UNCHANGED <<users, setups>>
  /\ bootstrap' = "none"
  /\ End(r)
  /\ UNCHANGED <<up, sessions, failures, guesses, work, made>>

(***************************************************************************)
(* Login.                                                                  *)
(***************************************************************************)

(* No attempt is left, or no address can be added.                         *)
Throttled(a) ==
  \/ failures[a] >= MaxFailures
  \/ failures[a] = 0 /\ Cardinality({b \in Addresses : failures[b] > 0}) >= KeyLimit

(* Mutation: the throttle is asked only after the password is verified.    *)
AskedLater(a) == TRUE

LetIn(a) == ~ Throttled(a)

(* The throttle lets the request in; user_for_login reads the account.     *)
Login(r, u, pw, a) ==
  /\ SetupComplete
  /\ LetIn(a)
  /\ Begin(r, "login", u, pw, a, users[u])

Verified(r) == request[r].account.exists /\ request[r].account.pw = request[r].pw

(* Mutation: the throttle is asked only before the password is verified.   *)
CountsAlways(a) == TRUE

(* The throttle is asked again: other attempts may have failed meanwhile.  *)
Counts(a) == ~ Throttled(a)

(* 401, or 429 when the attempt does not count any more.                   *)
FailLogin(r) ==
  /\ request[r].pc = "login" /\ ~ Verified(r)
  /\ failures' = IF Counts(request[r].addr)
                 THEN [failures EXCEPT ![request[r].addr] = @ + 1] ELSE failures
  /\ guesses' = [guesses EXCEPT ![request[r].addr] = @ + 1]
  /\ End(r)
  /\ UNCHANGED <<up, users, sessions, bootstrap, setups, work, made>>

(* Mutation: the account need only exist.                                  *)
FencedByName(r) == users[request[r].user].exists

(* create_session: auth_revision is the one the password was read with.    *)
Fenced(r) ==
  users[request[r].user].exists /\ users[request[r].user].rev = request[r].account.rev

(* The session and its audit row are one transaction.                      *)
CreateSession(r) ==
  /\ request[r].pc = "login" /\ Verified(r) /\ Fenced(r)
  /\ made < MaxSessions
  /\ made' = made + 1
  /\ sessions' = sessions \union {[id |-> made, user |-> request[r].user, pw |-> request[r].pw]}
  /\ request' = [request EXCEPT ![r].pc = "forgive"]
  /\ UNCHANGED <<up, users, bootstrap, failures, guesses, setups, work>>

(* 409: the password was reset since.                                      *)
LoginOvertaken(r) ==
  /\ request[r].pc = "login" /\ Verified(r) /\ ~ Fenced(r)
  /\ End(r)
  /\ UNCHANGED <<up, users, sessions, bootstrap, failures, guesses, setups, work, made>>

(* A login that succeeded takes the failures of its address with it.       *)
Forgive(r) ==
  /\ request[r].pc = "forgive"
  /\ failures' = [failures EXCEPT ![request[r].addr] = 0]
  /\ guesses' = NoFailures
  /\ End(r)
  /\ UNCHANGED <<up, users, sessions, bootstrap, setups, work, made>>

(* The oldest failure of an address is a minute old.                       *)
Age(a) ==
  /\ failures[a] > 0
  /\ failures' = [failures EXCEPT ![a] = @ - 1]
  /\ guesses' = NoFailures
  /\ UNCHANGED <<up, users, sessions, bootstrap, request, setups, work, made>>

(***************************************************************************)
(* Sessions and administration.                                            *)
(***************************************************************************)

(* logout, or expiry: the prune of the next session_user.                  *)
EndSession(s) ==
  /\ up
  /\ sessions' = sessions \ {s}
  /\ UNCHANGED <<up, users, bootstrap, failures, guesses, request, setups, work, made>>

(* require_admin, and then the password is hashed.                         *)
Administer(r, s, pc, u, pw) ==
  /\ Admin(s)
  /\ Begin(r, pc, u, pw, NoOne, Unknown)

(* create_user, or 409 for a name in use.                                  *)
CreateUser(r) ==
  LET u == request[r].user IN
  /\ request[r].pc = "create"
  /\ users' = IF users[u].exists THEN users
              ELSE [users EXCEPT ![u] = [exists |-> TRUE, pw |-> request[r].pw, rev |-> 0]]
  /\ End(r)
  /\ UNCHANGED <<up, sessions, bootstrap, failures, guesses, setups, work, made>>

(* reset_user_password, or 404: the hash, the revision and the sessions    *)
(* change in one transaction.                                              *)
ResetPassword(r) ==
  LET u == request[r].user IN
  /\ request[r].pc = "reset"
  /\ IF users[u].exists
     THEN /\ users' = [users EXCEPT ![u] =
                         [exists |-> TRUE, pw |-> request[r].pw, rev |-> @.rev + 1]]
          /\ sessions' = {s \in sessions : s.user # u}
     ELSE UNCHANGED <<users, sessions>>
  /\ End(r)
  /\ UNCHANGED <<up, bootstrap, failures, guesses, setups, work, made>>

Handle(r) ==
  \/ FinishSetup(r) \/ FailLogin(r) \/ CreateSession(r) \/ LoginOvertaken(r) \/ Forgive(r)
  \/ CreateUser(r) \/ ResetPassword(r)

Serve ==
  \/ RefuseSetup
  \/ \E a \in Addresses : Age(a)
  \/ \E s \in sessions : EndSession(s)
  \/ \E r \in Requests :
       \/ Handle(r)
       \/ \E pw \in Passwords :
            \/ Setup(r, pw)
            \/ \E u \in Users, a \in Addresses : Login(r, u, pw, a)
            \/ \E u \in Users, s \in sessions, pc \in {"create", "reset"} : Administer(r, s, pc, u, pw)

AccountsNext ==
  (\E built \in Supplied \union {"generated"} : BootAccounts(built)) \/ StopAccounts \/ Serve

AccountsSpec == AccountsInit /\ [][AccountsNext]_accountsVars

(***************************************************************************)
(* Properties.                                                             *)
(***************************************************************************)

Request ==
  [pc : {"idle", "setup", "login", "forgive", "create", "reset"},
   user : Users \union {NoOne}, pw : Passwords \union {NoOne},
   addr : Addresses \union {NoOne}, account : Account]

(* Types; no address has more failures than MaxFailures, and no more       *)
(* addresses than KeyLimit have any.                                       *)
AccountsTypeOK ==
  /\ up \in BOOLEAN /\ bootstrap \in Supplied \union {"generated"}
  /\ users \in [Users -> Account]
  /\ sessions \subseteq Session
  /\ failures \in [Addresses -> 0 .. MaxFailures]
  /\ Cardinality({a \in Addresses : failures[a] > 0}) <= KeyLimit
  /\ guesses \in [Addresses -> Nat]
  /\ request \in [Requests -> Request]
  /\ setups \in Nat /\ work \in Nat /\ made \in Nat

(* A session was opened with the password its account has now: a reset     *)
(* ends the sessions there are, and a login that verified the old password *)
(* cannot open one after it.                                               *)
NoOldSession ==
  \A s \in sessions : users[s.user].exists /\ users[s.user].pw = s.pw

(* However many requests come at once, one first-run setup succeeds, and   *)
(* none once there are accounts.                                           *)
SetupOnce == setups <= 1 /\ (setups = 0 => \A u \in Users : ~ users[u].exists)

(* While no failure is forgotten, because it is a minute old or because a  *)
(* login succeeded, an address is told of no more wrong passwords than     *)
(* MaxFailures and those whose verification was under way when it reached  *)
(* the limit, one less than the requests handled at a time: answers that   *)
(* are not counted, also those of an address for which login_failures has  *)
(* no room, do not go on.  A right password that was being verified is     *)
(* accepted beyond the limit.                                              *)
GuessesBounded ==
  \A a \in Addresses : guesses[a] <= MaxFailures + Cardinality(Requests) - 1
=============================================================================
