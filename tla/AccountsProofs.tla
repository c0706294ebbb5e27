--------------------------- MODULE AccountsProofs ---------------------------
(***************************************************************************)
(* Proofs about Accounts, for any accounts, requests and addresses, and    *)
(* every bound.                                                            *)
(***************************************************************************)
EXTENDS Accounts, FiniteSetTheorems, TLAPS

USE AccountsAssumption

(* Where the secret that an AppState has may come from.                    *)
Built == Supplied \union {"generated"}

-----------------------------------------------------------------------------
(***************************************************************************)
(* Accounts: no session outlives its password.                             *)
(***************************************************************************)

(* What a login has read is what the account was, or an older revision.    *)
ReadsFenced ==
  \A r \in Requests :
    (request[r].pc = "login" /\ request[r].account.exists)
      => /\ users[request[r].user].exists
         /\ request[r].account.rev <= users[request[r].user].rev
         /\ request[r].account.rev = users[request[r].user].rev
              => request[r].account.pw = users[request[r].user].pw

(* The part of the types the argument needs.                               *)
RowTypes ==
  /\ users \in [Users -> Account]
  /\ sessions \subseteq Session
  /\ request \in [Requests -> Request]
  /\ \A r \in Requests : request[r].pc # "idle" =>
       request[r].user \in Users /\ request[r].pw \in Passwords
  /\ made \in Nat

SessionInv == RowTypes /\ NoOldSession /\ ReadsFenced

LEMMA UnknownType == Unknown \in Account /\ Idle \in Request
BY DEF Unknown, Idle, Account, Request

(* Revisions are numbers, also of an account that does not exist.          *)
LEMMA RevisionType == \A account \in Account : account.rev \in Nat
<1>1. ASSUME NEW account \in [exists : {TRUE}, pw : Passwords, rev : Nat]
      PROVE  account.rev \in Nat
  OBVIOUS
<1>2. Unknown.rev = 0
  BY DEF Unknown
<1>3. Unknown.rev \in Nat
  BY <1>2
<1>4. QED
  BY <1>1, <1>3, Zenon DEF Account

(* A request that ends leaves the others.                                  *)
LEMMA EndType ==
  ASSUME RowTypes, NEW r \in Requests, End(r)
  PROVE  /\ request' \in [Requests -> Request]
         /\ \A q \in Requests : request'[q] = IF q = r THEN Idle ELSE request[q]
BY UnknownType DEF RowTypes, End

(* Requests that end leave the others as they were.                        *)
LEMMA EndKeeps ==
  ASSUME SessionInv, NEW r \in Requests, End(r), UNCHANGED <<users, sessions, made>>
  PROVE  SessionInv'
<1>1. RowTypes'
  BY EndType DEF SessionInv, RowTypes, Idle
<1>2. NoOldSession'
  BY DEF SessionInv, NoOldSession
<1>3. ReadsFenced'
  BY EndType DEF SessionInv, ReadsFenced, Idle
<1>4. QED
  BY <1>1, <1>2, <1>3 DEF SessionInv

(* A request that begins does so with the row of now, or with none.        *)
LEMMA BeginKeeps ==
  ASSUME SessionInv, NEW r \in Requests, NEW pc \in {"setup", "login", "create", "reset"},
         NEW u \in Users, NEW pw \in Passwords, NEW a \in Addresses \union {NoOne},
         NEW account \in {Unknown, users[u]}, Begin(r, pc, u, pw, a, account)
  PROVE  SessionInv'
<1> DEFINE new == [pc |-> pc, user |-> u, pw |-> pw, addr |-> a, account |-> account]
<1>1. account \in Account
  BY UnknownType DEF SessionInv, RowTypes
<1>2. new \in Request
  BY <1>1 DEF Request
<1>3. \A q \in Requests : request'[q] = IF q = r THEN new ELSE request[q]
  BY DEF Begin, SessionInv, RowTypes
<1>4. request' \in [Requests -> Request] /\ UNCHANGED <<users, sessions, made>>
  BY <1>2 DEF Begin, SessionInv, RowTypes
<1>5. RowTypes'
  BY <1>3, <1>4 DEF SessionInv, RowTypes
<1>6. NoOldSession'
  BY <1>4 DEF SessionInv, NoOldSession
<1>7. ReadsFenced'
  <2>1. users[u] \in Account
    BY DEF SessionInv, RowTypes
  <2>2. users[u].rev \in Nat
    BY <2>1, RevisionType
  <2>3. new.account.exists => new.account = users[u]
    BY DEF Unknown
  <2>4. ASSUME NEW q \in Requests, request'[q].pc = "login", request'[q].account.exists
        PROVE  /\ users'[request'[q].user].exists
               /\ request'[q].account.rev <= users'[request'[q].user].rev
               /\ request'[q].account.rev = users'[request'[q].user].rev
                    => request'[q].account.pw = users'[request'[q].user].pw
    <3>1. CASE q = r
      BY <1>3, <1>4, <2>2, <2>3, <2>4, <3>1
    <3>2. CASE q # r
      BY <1>3, <1>4, <2>4, <3>2 DEF SessionInv, ReadsFenced
    <3>3. QED
      BY <3>1, <3>2
  <2>5. QED
    BY <2>4 DEF ReadsFenced
<1>8. QED
  BY <1>5, <1>6, <1>7 DEF SessionInv

(* An account gets its first password: nobody has a session of it.         *)
LEMMA NewAccountKeeps ==
  ASSUME SessionInv, NEW r \in Requests, NEW u \in Users, NEW pw \in Passwords,
         ~ users[u].exists, End(r), UNCHANGED <<sessions, made>>,
         users' = [users EXCEPT ![u] = [exists |-> TRUE, pw |-> pw, rev |-> 0]]
  PROVE  SessionInv'
<1>1. users' \in [Users -> Account]
  <2>1. [exists |-> TRUE, pw |-> pw, rev |-> 0] \in Account
    BY DEF Account
  <2>2. users \in [Users -> Account]
    BY DEF SessionInv, RowTypes
  <2>3. QED
    BY <2>1, <2>2
<1>2. \A v \in Users : v # u => users'[v] = users[v]
  BY DEF SessionInv, RowTypes
<1>3. RowTypes'
  BY <1>1, EndType DEF SessionInv, RowTypes, Idle
<1>4. NoOldSession'
  BY <1>2 DEF SessionInv, RowTypes, NoOldSession, Session
<1>5. ReadsFenced'
  BY <1>2, EndType DEF SessionInv, RowTypes, ReadsFenced, Idle
<1>6. QED
  BY <1>3, <1>4, <1>5 DEF SessionInv

(* A reset ends the sessions and outdates what logins have read.           *)
LEMMA ResetKeeps ==
  ASSUME SessionInv, NEW r \in Requests, ResetPassword(r)
  PROVE  SessionInv'
<1> DEFINE u == request[r].user
           pw == request[r].pw
<1>1. u \in Users /\ pw \in Passwords /\ End(r)
  BY DEF SessionInv, RowTypes, ResetPassword
<1>2. CASE ~ users[u].exists
  BY <1>1, <1>2, EndKeeps DEF ResetPassword
<1>3. CASE users[u].exists
  <2>1. users[u].rev \in Nat
    BY <1>1, RevisionType DEF SessionInv, RowTypes
  <2>2. users' = [users EXCEPT ![u] =
                    [exists |-> TRUE, pw |-> pw, rev |-> users[u].rev + 1]]
    BY <1>3 DEF ResetPassword
  <2>3. sessions' = {s \in sessions : s.user # u} /\ UNCHANGED made
    BY <1>3 DEF ResetPassword
  <2>4. users' \in [Users -> Account]
    <3>1. [exists |-> TRUE, pw |-> pw, rev |-> users[u].rev + 1] \in Account
      BY <1>1, <2>1 DEF Account
    <3>2. QED
      BY <2>2, <3>1 DEF SessionInv, RowTypes
  <2>5. /\ \A v \in Users : v # u => users'[v] = users[v]
        /\ users'[u].exists /\ users'[u].rev = users[u].rev + 1
    BY <1>1, <2>2 DEF SessionInv, RowTypes
  <2>6. RowTypes'
    BY <1>1, <2>3, <2>4, EndType DEF SessionInv, RowTypes, Idle
  <2>7. NoOldSession'
    BY <2>3, <2>5 DEF SessionInv, RowTypes, NoOldSession, Session
  <2>8. ReadsFenced'
    <3>1. ASSUME NEW q \in Requests, request'[q].pc = "login", request'[q].account.exists
          PROVE  /\ users'[request'[q].user].exists
                 /\ request'[q].account.rev <= users'[request'[q].user].rev
                 /\ request'[q].account.rev = users'[request'[q].user].rev
                      => request'[q].account.pw = users'[request'[q].user].pw
      <4>1. q # r /\ request'[q] = request[q]
        BY <1>1, <3>1, EndType DEF SessionInv, Idle
      <4>2. /\ users[request[q].user].exists
            /\ request[q].account.rev <= users[request[q].user].rev
            /\ request[q].account.rev = users[request[q].user].rev
                 => request[q].account.pw = users[request[q].user].pw
        BY <3>1, <4>1 DEF SessionInv, ReadsFenced
      <4>3. request[q].user \in Users /\ request[q].account \in Account
        BY <3>1, <4>1 DEF SessionInv, RowTypes, Request
      <4>4. request[q].account.rev \in Nat
        BY <4>3, RevisionType
      <4>5. CASE request[q].user = u
        BY <2>1, <2>5, <4>1, <4>2, <4>4, <4>5
      <4>6. CASE request[q].user # u
        BY <2>5, <4>1, <4>2, <4>3, <4>6
      <4>7. QED
        BY <4>5, <4>6
    <3>2. QED
      BY <3>1 DEF ReadsFenced
  <2>9. QED
    BY <2>6, <2>7, <2>8 DEF SessionInv
<1>4. QED
  BY <1>2, <1>3

(* The session a login opens has the password of its account.              *)
LEMMA CreateSessionKeeps ==
  ASSUME SessionInv, NEW r \in Requests, CreateSession(r)
  PROVE  SessionInv'
<1> DEFINE s == [id |-> made, user |-> request[r].user, pw |-> request[r].pw]
<1>1. request[r].user \in Users /\ request[r].pw \in Passwords /\ request[r] \in Request
  BY DEF SessionInv, RowTypes, CreateSession
<1>2. s \in Session /\ sessions' = sessions \union {s} /\ UNCHANGED users
  BY <1>1 DEF CreateSession, Session, SessionInv, RowTypes
<1>3. users[s.user].exists /\ users[s.user].pw = s.pw
  BY DEF SessionInv, ReadsFenced, CreateSession, Verified, Fenced
<1>4. NoOldSession'
  BY <1>2, <1>3 DEF SessionInv, NoOldSession
<1>5. [request[r] EXCEPT !.pc = "forgive"] \in Request
  BY <1>1 DEF Request
<1>6. \A q \in Requests :
        request'[q] = IF q = r THEN [request[r] EXCEPT !.pc = "forgive"] ELSE request[q]
  BY DEF CreateSession, SessionInv, RowTypes
<1>7. RowTypes'
  <2>1. request' \in [Requests -> Request]
    BY <1>5 DEF CreateSession, SessionInv, RowTypes
  <2>2. \A q \in Requests : request'[q].pc # "idle" =>
          request'[q].user \in Users /\ request'[q].pw \in Passwords
    BY <1>1, <1>6 DEF SessionInv, RowTypes, Request
  <2>3. made' \in Nat
    BY DEF CreateSession, SessionInv, RowTypes
  <2>4. QED
    BY <1>2, <2>1, <2>2, <2>3 DEF SessionInv, RowTypes
<1>8. ReadsFenced'
  <2>1. request'[r].pc = "forgive"
    BY <1>1, <1>6 DEF Request
  <2>2. \A q \in Requests : q # r => request'[q] = request[q]
    BY <1>6
  <2>3. QED
    BY <1>2, <2>1, <2>2 DEF SessionInv, ReadsFenced
<1>9. QED
  BY <1>4, <1>7, <1>8 DEF SessionInv

LEMMA SessionInitially == AccountsInit => SessionInv
BY UnknownType
DEF AccountsInit, SessionInv, RowTypes, NoOldSession, ReadsFenced, Idle, Session

LEMMA SessionStep ==
  ASSUME SessionInv, AccountsNext
  PROVE  SessionInv'
<1>1. ASSUME UNCHANGED <<users, request, made>>, sessions' \subseteq sessions PROVE SessionInv'
  BY <1>1 DEF SessionInv, RowTypes, NoOldSession, ReadsFenced
<1>2. ASSUME NEW built \in Built, BootAccounts(built) PROVE SessionInv'
  BY <1>1, <1>2 DEF BootAccounts
<1>3. CASE StopAccounts
  <2>1. request' \in [Requests -> Request] /\ \A r \in Requests : request'[r] = Idle
    BY <1>3, UnknownType DEF StopAccounts
  <2>2. QED
    BY <1>3, <2>1 DEF StopAccounts, SessionInv, RowTypes, NoOldSession, ReadsFenced, Idle
<1>4. CASE RefuseSetup
  BY <1>1, <1>4 DEF RefuseSetup
<1>5. ASSUME NEW a \in Addresses, Age(a) PROVE SessionInv'
  BY <1>1, <1>5 DEF Age
<1>6. ASSUME NEW s \in sessions, EndSession(s) PROVE SessionInv'
  BY <1>1, <1>6 DEF EndSession
<1>7. ASSUME NEW r \in Requests, Handle(r) PROVE SessionInv'
  <2>1. CASE FinishSetup(r)
    <3>1. First \in Users /\ request[r].pw \in Passwords
      BY <2>1 DEF FinishSetup, SessionInv, RowTypes
    <3>2. CASE FirstStill
      BY <2>1, <3>1, <3>2, NewAccountKeeps DEF FinishSetup, FirstStill
    <3>3. CASE ~ FirstStill
      BY <2>1, <3>3, EndKeeps DEF FinishSetup
    <3>4. QED
      BY <3>2, <3>3
  <2>2. CASE FailLogin(r) \/ LoginOvertaken(r) \/ Forgive(r)
    BY <2>2, EndKeeps DEF FailLogin, LoginOvertaken, Forgive
  <2>3. CASE CreateSession(r)
    BY <2>3, CreateSessionKeeps
  <2>4. CASE CreateUser(r)
    <3>1. request[r].user \in Users /\ request[r].pw \in Passwords
      BY <2>4 DEF CreateUser, SessionInv, RowTypes
    <3>2. CASE users[request[r].user].exists
      BY <2>4, <3>2, EndKeeps DEF CreateUser
    <3>3. CASE ~ users[request[r].user].exists
      BY <2>4, <3>1, <3>3, NewAccountKeeps DEF CreateUser
    <3>4. QED
      BY <3>2, <3>3
  <2>5. CASE ResetPassword(r)
    BY <2>5, ResetKeeps
  <2>6. QED
    BY <1>7, <2>1, <2>2, <2>3, <2>4, <2>5 DEF Handle
<1>8. ASSUME NEW r \in Requests, NEW pw \in Passwords,
             \/ Setup(r, pw)
             \/ \E u \in Users, a \in Addresses : Login(r, u, pw, a)
             \/ \E u \in Users, s \in sessions, pc \in {"create", "reset"} :
                  Administer(r, s, pc, u, pw)
      PROVE  SessionInv'
  BY <1>8, BeginKeeps DEF Setup, Login, Administer
<1>9. QED
  BY <1>2, <1>3, <1>4, <1>5, <1>6, <1>7, <1>8 DEF AccountsNext, Serve, Built

(* However a login and a password reset interleave, no session is left     *)
(* that was opened with an earlier password (create_session compares the   *)
(* auth_revision that user_for_login read).                                *)
THEOREM SessionsFenced == AccountsSpec => []NoOldSession
<1>1. SessionInv /\ [AccountsNext]_accountsVars => SessionInv'
  <2>1. SessionInv /\ UNCHANGED accountsVars => SessionInv'
    BY DEF accountsVars, SessionInv, RowTypes, NoOldSession, ReadsFenced
  <2>2. QED
    BY <2>1, SessionStep
<1>2. SessionInv => NoOldSession
  BY DEF SessionInv
<1>3. QED
  BY <1>1, <1>2, SessionInitially, PTL DEF AccountsSpec

-----------------------------------------------------------------------------
(***************************************************************************)
(* Accounts: the first-run setup happens once.                             *)
(***************************************************************************)

(* There are accounts exactly when a setup has succeeded; only sessions,   *)
(* which need accounts, administer.                                        *)
SetupInv ==
  /\ setups \in {0, 1}
  /\ setups = 0 <=> FirstStill
  /\ \A r \in Requests : request[r].pc \in {"create", "reset"} => ~ FirstStill

(* A step that leaves the accounts alone and begins nothing administrative.*)
LEMMA SetupKept ==
  ASSUME SetupInv, RowTypes, UNCHANGED <<users, setups>>,
         \A r \in Requests : \/ request'[r] = request[r]
                             \/ request'[r].pc \notin {"create", "reset"}
                             \/ ~ FirstStill
  PROVE  SetupInv'
BY DEF SetupInv, FirstStill

LEMMA SetupStep ==
  ASSUME SetupInv, SessionInv, AccountsNext
  PROVE  SetupInv'
<1>1. ASSUME UNCHANGED <<users, setups, request>> PROVE SetupInv'
  BY <1>1 DEF SetupInv, FirstStill
<1>2. ASSUME NEW r \in Requests, End(r), UNCHANGED <<users, setups>> PROVE SetupInv'
  BY <1>2, EndType, SetupKept DEF SessionInv, Idle
<1>3. ASSUME NEW built \in Built, BootAccounts(built) PROVE SetupInv'
  BY <1>1, <1>3 DEF BootAccounts
<1>4. CASE StopAccounts
  BY <1>4, SetupKept DEF StopAccounts, SessionInv, Idle
<1>5. CASE RefuseSetup
  BY <1>1, <1>5 DEF RefuseSetup
<1>6. ASSUME NEW a \in Addresses, Age(a) PROVE SetupInv'
  BY <1>1, <1>6 DEF Age
<1>7. ASSUME NEW s \in sessions, EndSession(s) PROVE SetupInv'
  BY <1>1, <1>7 DEF EndSession
<1>8. ASSUME NEW r \in Requests, Handle(r) PROVE SetupInv'
  <2>1. CASE FinishSetup(r)
    <3>1. CASE FirstStill
      <4>1. First \in Users /\ users' = [users EXCEPT ![First] =
                [exists |-> TRUE, pw |-> request[r].pw, rev |-> 0]]
        BY <2>1, <3>1 DEF FinishSetup
      <4>2. users'[First].exists
        BY <4>1 DEF SessionInv, RowTypes
      <4>3. setups' = 1
        BY <2>1, <3>1 DEF FinishSetup, SetupInv
      <4>4. QED
        BY <4>1, <4>2, <4>3 DEF SetupInv, FirstStill
    <3>2. CASE ~ FirstStill
      BY <1>2, <2>1, <3>2 DEF FinishSetup
    <3>3. QED
      BY <3>1, <3>2
  <2>2. CASE FailLogin(r) \/ LoginOvertaken(r) \/ Forgive(r)
    BY <1>2, <2>2 DEF FailLogin, LoginOvertaken, Forgive
  <2>3. CASE CreateSession(r)
    <3>1. \A q \in Requests :
            request'[q] = request[q] \/ request'[q].pc = "forgive"
      BY <2>3 DEF CreateSession, SessionInv, RowTypes, Request
    <3>2. QED
      BY <2>3, <3>1, SetupKept DEF CreateSession, SessionInv
  <2>4. CASE CreateUser(r) \/ ResetPassword(r)
    <3>1. request[r].user \in Users /\ ~ FirstStill /\ setups' = setups
      BY <2>4 DEF CreateUser, ResetPassword, SessionInv, RowTypes, SetupInv
    <3>2. \A u \in Users : users[u].exists => users'[u].exists
      BY <2>4, <3>1 DEF CreateUser, ResetPassword, SessionInv, RowTypes
    <3>3. QED
      BY <3>1, <3>2 DEF SetupInv, FirstStill
  <2>5. QED
    BY <1>8, <2>1, <2>2, <2>3, <2>4 DEF Handle
<1>9. ASSUME NEW r \in Requests, NEW pc \in {"setup", "login", "create", "reset"},
             NEW u, NEW pw, NEW a, NEW account, Begin(r, pc, u, pw, a, account),
             pc \in {"setup", "login"} \/ sessions # {}
      PROVE  SetupInv'
  <2>1. \A q \in Requests :
          request'[q] = IF q = r THEN [pc |-> pc, user |-> u, pw |-> pw, addr |-> a,
                                       account |-> account]
                        ELSE request[q]
    BY <1>9 DEF Begin, SessionInv, RowTypes
  <2>2. sessions # {} => ~ FirstStill
    BY DEF SessionInv, RowTypes, NoOldSession, Session, FirstStill
  <2>3. QED
    BY <1>9, <2>1, <2>2, SetupKept DEF Begin, SessionInv
<1>10. ASSUME NEW r \in Requests, NEW pw \in Passwords,
              \/ Setup(r, pw)
              \/ \E u \in Users, a \in Addresses : Login(r, u, pw, a)
              \/ \E u \in Users, s \in sessions, pc \in {"create", "reset"} :
                   Administer(r, s, pc, u, pw)
       PROVE  SetupInv'
  <2>1. ASSUME Setup(r, pw) PROVE SetupInv'
    BY <1>9, <2>1 DEF Setup
  <2>2. ASSUME NEW u \in Users, NEW a \in Addresses, Login(r, u, pw, a) PROVE SetupInv'
    BY <1>9, <2>2 DEF Login
  <2>3. ASSUME NEW u \in Users, NEW s \in sessions, NEW pc \in {"create", "reset"},
               Administer(r, s, pc, u, pw)
        PROVE  SetupInv'
    BY <1>9, <2>3 DEF Administer
  <2>4. QED
    BY <1>10, <2>1, <2>2, <2>3
<1>11. QED
  BY <1>3, <1>4, <1>5, <1>6, <1>7, <1>8, <1>10 DEF AccountsNext, Serve, Built

(* However many setups race, one succeeds, because create_initial_admin    *)
(* inserts into an empty table only.                                       *)
THEOREM SetupHappensOnce == AccountsSpec => []SetupOnce
<1>1. AccountsInit => SetupInv
  BY DEF AccountsInit, SetupInv, FirstStill, Unknown, Idle
<1>2. SessionInv /\ SetupInv /\ [AccountsNext]_accountsVars => SessionInv' /\ SetupInv'
  <2>1. SessionInv /\ SetupInv /\ UNCHANGED accountsVars => SessionInv' /\ SetupInv'
    BY DEF accountsVars, SessionInv, RowTypes, NoOldSession, ReadsFenced, SetupInv, FirstStill
  <2>2. QED
    BY <2>1, SessionStep, SetupStep
<1>3. SetupInv => SetupOnce
  BY DEF SetupInv, SetupOnce, FirstStill
<1>4. QED
  BY <1>1, <1>2, <1>3, SessionInitially, PTL DEF AccountsSpec

-----------------------------------------------------------------------------
(***************************************************************************)
(* Accounts: the failures that are remembered.                             *)
(***************************************************************************)

Failing == {a \in Addresses : failures[a] > 0}

Limits == (\A a \in Addresses : failures[a] <= MaxFailures) /\ Cardinality(Failing) <= KeyLimit

(* The addresses need not be finitely many; those remembered are.          *)
ThrottleInv ==
  failures \in [Addresses -> Nat] /\ IsFiniteSet(Failing) /\ Limits

(* Fewer failures are remembered, at no more addresses.                    *)
LEMMA FewerFailures ==
  ASSUME ThrottleInv, failures' \in [Addresses -> Nat],
         \A a \in Addresses : failures'[a] <= failures[a]
  PROVE  ThrottleInv'
<1>1. Failing' \subseteq Failing
  <2>1. ASSUME NEW a \in Addresses, failures'[a] > 0 PROVE failures[a] > 0
    BY <2>1 DEF ThrottleInv
  <2>2. QED
    BY <2>1 DEF Failing
<1>2. IsFiniteSet(Failing) /\ Cardinality(Failing) <= KeyLimit
  BY DEF ThrottleInv, Limits, Failing
<1>3. IsFiniteSet(Failing') /\ Cardinality(Failing') <= Cardinality(Failing)
  BY <1>1, <1>2, FS_Subset
<1>4. Cardinality(Failing') \in Nat /\ Cardinality(Failing) \in Nat
  BY <1>2, <1>3, FS_CardinalityType
<1>5. Cardinality(Failing') <= KeyLimit
  BY <1>2, <1>3, <1>4
<1>6. \A a \in Addresses : failures'[a] <= MaxFailures
  BY DEF ThrottleInv, Limits
<1>7. QED
  BY <1>3, <1>5, <1>6 DEF ThrottleInv, Limits, Failing

(* One more failure is counted only while the throttle lets it.            *)
LEMMA FailureCounts ==
  ASSUME ThrottleInv, NEW a \in Addresses, Counts(a),
         failures' = [failures EXCEPT ![a] = @ + 1]
  PROVE  ThrottleInv'
<1>1. /\ failures' \in [Addresses -> Nat]
      /\ failures'[a] = failures[a] + 1
      /\ \A b \in Addresses : b # a => failures'[b] = failures[b]
  BY DEF ThrottleInv
<1>2. /\ failures[a] \in Nat /\ failures[a] < MaxFailures
      /\ failures[a] = 0 => ~ (Cardinality(Failing) >= KeyLimit)
  BY DEF Counts, Throttled, Failing, ThrottleInv
<1>3. \A b \in Addresses : failures'[b] <= MaxFailures
  BY <1>1, <1>2 DEF ThrottleInv, Limits
<1>4. Failing' = Failing \union {a}
  <2>1. ASSUME NEW b \in Addresses
        PROVE  failures'[b] > 0 <=> failures[b] > 0 \/ b = a
    BY <1>1, <1>2
  <2>2. QED
    BY <2>1 DEF Failing
<1>5. IsFiniteSet(Failing) /\ Cardinality(Failing) <= KeyLimit
  BY DEF ThrottleInv, Limits, Failing
<1>6. Cardinality(Failing) \in Nat
  BY <1>5, FS_CardinalityType
<1>7. /\ IsFiniteSet(Failing')
      /\ Cardinality(Failing') = IF a \in Failing THEN Cardinality(Failing)
                                 ELSE Cardinality(Failing) + 1
  BY <1>4, <1>5, FS_AddElement
<1>8. a \notin Failing => failures[a] = 0
  BY <1>2 DEF Failing
<1>9. Cardinality(Failing') <= KeyLimit
  BY <1>2, <1>5, <1>6, <1>7, <1>8
<1>10. QED
  BY <1>1, <1>3, <1>7, <1>9 DEF ThrottleInv, Limits, Failing

LEMMA ThrottleStep ==
  ASSUME ThrottleInv, [AccountsNext]_accountsVars
  PROVE  ThrottleInv'
<1>1. ASSUME UNCHANGED failures PROVE ThrottleInv'
  BY <1>1 DEF ThrottleInv, Failing, Limits
<1>2. CASE StopAccounts
  BY <1>2, FewerFailures DEF StopAccounts, NoFailures, ThrottleInv
<1>3. ASSUME NEW a \in Addresses, Age(a) PROVE ThrottleInv'
  <2>1. failures' \in [Addresses -> Nat]
    BY <1>3 DEF Age, ThrottleInv
  <2>2. \A b \in Addresses : failures'[b] <= failures[b]
    BY <1>3 DEF Age, ThrottleInv
  <2>3. QED
    BY <2>1, <2>2, FewerFailures
<1>4. ASSUME NEW r \in Requests, FailLogin(r) PROVE ThrottleInv'
  <2>1. CASE request[r].addr \in Addresses /\ Counts(request[r].addr)
    BY <1>4, <2>1, FailureCounts DEF FailLogin
  <2>2. CASE ~ (request[r].addr \in Addresses /\ Counts(request[r].addr))
    BY <1>1, <1>4, <2>2 DEF FailLogin, ThrottleInv
  <2>3. QED
    BY <2>1, <2>2
<1>5. ASSUME NEW r \in Requests, Forgive(r) PROVE ThrottleInv'
  <2>1. failures' \in [Addresses -> Nat]
    BY <1>5 DEF Forgive, ThrottleInv
  <2>2. \A b \in Addresses : failures'[b] <= failures[b]
    BY <1>5 DEF Forgive, ThrottleInv
  <2>3. QED
    BY <2>1, <2>2, FewerFailures
<1>6. ASSUME NEW r \in Requests,
             \/ FinishSetup(r) \/ CreateSession(r) \/ LoginOvertaken(r)
             \/ CreateUser(r) \/ ResetPassword(r)
      PROVE  UNCHANGED failures
  BY <1>6 DEF FinishSetup, CreateSession, LoginOvertaken, CreateUser, ResetPassword
<1>7. ASSUME NEW r \in Requests, NEW pw \in Passwords,
             \/ Setup(r, pw)
             \/ \E u \in Users, a \in Addresses : Login(r, u, pw, a)
             \/ \E u \in Users, s \in sessions, pc \in {"create", "reset"} :
                  Administer(r, s, pc, u, pw)
      PROVE  UNCHANGED failures
  BY <1>7 DEF Setup, Login, Administer, Begin
<1>8. ASSUME NEW built \in Built, BootAccounts(built) PROVE UNCHANGED failures
  BY <1>8 DEF BootAccounts
<1>9. ASSUME NEW s \in sessions, EndSession(s) PROVE UNCHANGED failures
  BY <1>9 DEF EndSession
<1>10. CASE RefuseSetup \/ UNCHANGED accountsVars
  BY <1>1, <1>10 DEF RefuseSetup, accountsVars
<1>11. QED
  BY <1>1, <1>2, <1>3, <1>4, <1>5, <1>6, <1>7, <1>8, <1>9, <1>10
  DEF AccountsNext, Serve, Handle, Built

LEMMA ThrottleInitially == AccountsInit => ThrottleInv
<1> SUFFICES ASSUME AccountsInit PROVE ThrottleInv
  OBVIOUS
<1>1. failures \in [Addresses -> Nat] /\ \A a \in Addresses : failures[a] = 0
  BY DEF AccountsInit, NoFailures
<1>2. Failing = {}
  BY <1>1 DEF Failing
<1>3. IsFiniteSet(Failing) /\ Cardinality(Failing) = 0
  BY <1>2, FS_EmptySet
<1>4. QED
  BY <1>1, <1>3 DEF ThrottleInv, Limits, Failing

-----------------------------------------------------------------------------
(***************************************************************************)
(* Accounts: wrong passwords answered while nothing is forgotten.          *)
(***************************************************************************)

(* Logins of an address whose password is being verified.                  *)
Pending(a) == {r \in Requests : request[r].pc = "login" /\ request[r].addr = a}

GuessLimit == MaxFailures + Cardinality(Requests) - 1

(* While attempts are let in, each wrong password has been counted; then   *)
(* only those that are pending can still add one.                          *)
GuessInv ==
  /\ guesses \in [Addresses -> Nat]
  /\ \A r \in Requests : request[r].pc = "login" => request[r].addr \in Addresses
  /\ \A a \in Addresses : ~ Throttled(a) => guesses[a] <= failures[a]
  /\ \A a \in Addresses : Throttled(a) => guesses[a] + Cardinality(Pending(a)) <= GuessLimit

LEMMA PendingFinite ==
  ASSUME NEW a
  PROVE  /\ IsFiniteSet(Pending(a)) /\ Cardinality(Pending(a)) \in Nat
         /\ Cardinality(Pending(a)) <= Cardinality(Requests)
         /\ Cardinality(Requests) \in Nat \ {0}
<1>1. Pending(a) \subseteq Requests
  BY DEF Pending
<1>2. IsFiniteSet(Pending(a)) /\ Cardinality(Pending(a)) <= Cardinality(Requests)
  BY <1>1, FS_Subset
<1>3. Cardinality(Requests) \in Nat /\ Cardinality(Requests) # 0
  BY FS_CardinalityType, FS_EmptySet
<1>4. QED
  BY <1>2, <1>3, FS_CardinalityType

(* Logins end: fewer are pending.                                          *)
LEMMA PendingFewer ==
  ASSUME NEW a,
         \A q \in Requests : request'[q].pc = "login" => request'[q] = request[q]
  PROVE  /\ Pending(a)' \subseteq Pending(a)
         /\ IsFiniteSet(Pending(a)') /\ Cardinality(Pending(a)') \in Nat
         /\ Cardinality(Pending(a)') <= Cardinality(Pending(a))
<1>1. Pending(a)' \subseteq Pending(a)
  BY DEF Pending
<1>2. IsFiniteSet(Pending(a))
  BY PendingFinite
<1>3. QED
  BY <1>1, <1>2, FS_Subset, FS_CardinalityType

(* Pending logins alone never exceed the limit: where there is room for a  *)
(* failure, MaxFailures is not zero.                                       *)
LEMMA PendingBounded ==
  ASSUME ThrottleInv, GuessInv, NEW a \in Addresses
  PROVE  Cardinality(Pending(a)) <= GuessLimit
<1>1. guesses[a] \in Nat /\ failures[a] \in Nat
  BY DEF GuessInv, ThrottleInv
<1>2. /\ Cardinality(Pending(a)) \in Nat /\ Cardinality(Requests) \in Nat
      /\ Cardinality(Pending(a)) <= Cardinality(Requests)
  BY PendingFinite
<1>3. CASE Throttled(a)
  BY <1>1, <1>2, <1>3 DEF GuessInv, GuessLimit
<1>4. CASE ~ Throttled(a)
  BY <1>1, <1>2, <1>4 DEF Throttled, GuessLimit
<1>5. QED
  BY <1>3, <1>4

(* Failures and answers stay, and no login begins.                         *)
LEMMA GuessesKept ==
  ASSUME ThrottleInv, GuessInv, UNCHANGED <<failures, guesses>>,
         \A q \in Requests : request'[q].pc = "login" => request'[q] = request[q]
  PROVE  GuessInv'
<1>1. \A a \in Addresses : Throttled(a)' <=> Throttled(a)
  BY DEF Throttled
<1>2. guesses' \in [Addresses -> Nat]
      /\ \A r \in Requests : request'[r].pc = "login" => request'[r].addr \in Addresses
  BY DEF GuessInv
<1>3. \A a \in Addresses : ~ Throttled(a)' => guesses'[a] <= failures'[a]
  BY <1>1 DEF GuessInv
<1>4. ASSUME NEW a \in Addresses, Throttled(a)'
      PROVE  guesses'[a] + Cardinality(Pending(a)') <= GuessLimit
  <2>1. guesses[a] + Cardinality(Pending(a)) <= GuessLimit /\ guesses[a] \in Nat
    BY <1>1, <1>4 DEF GuessInv
  <2>2. /\ Cardinality(Pending(a)) \in Nat /\ Cardinality(Pending(a)') \in Nat
        /\ Cardinality(Pending(a)') <= Cardinality(Pending(a))
    BY PendingFinite, PendingFewer
  <2>3. GuessLimit \in Int /\ guesses'[a] = guesses[a]
    BY PendingFinite DEF GuessLimit
  <2>4. QED
    BY <2>1, <2>2, <2>3
<1>5. QED
  BY <1>2, <1>3, <1>4 DEF GuessInv, GuessLimit

(* A failure is forgotten, and the answers are counted anew.               *)
LEMMA GuessesForgotten ==
  ASSUME ThrottleInv, GuessInv, ThrottleInv', guesses' = NoFailures,
         \A q \in Requests : request'[q].pc = "login" => request'[q] = request[q]
  PROVE  GuessInv'
<1>1. guesses' \in [Addresses -> Nat] /\ \A a \in Addresses : guesses'[a] = 0
  BY DEF NoFailures
<1>2. \A r \in Requests : request'[r].pc = "login" => request'[r].addr \in Addresses
  BY DEF GuessInv
<1>3. \A a \in Addresses : guesses'[a] <= failures'[a]
  BY <1>1 DEF ThrottleInv
<1>4. ASSUME NEW a \in Addresses
      PROVE  guesses'[a] + Cardinality(Pending(a)') <= GuessLimit
  <2>1. /\ Cardinality(Pending(a)) \in Nat /\ Cardinality(Pending(a)') \in Nat
        /\ Cardinality(Pending(a)') <= Cardinality(Pending(a))
    BY PendingFinite, PendingFewer
  <2>2. GuessLimit \in Int
    BY PendingFinite DEF GuessLimit
  <2>3. QED
    BY <1>1, <2>1, <2>2, PendingBounded
<1>5. QED
  BY <1>1, <1>2, <1>3, <1>4 DEF GuessInv, GuessLimit

(* A wrong password is answered: its login is pending no more.             *)
LEMMA GuessAnswered ==
  ASSUME ThrottleInv, GuessInv, RowTypes, ThrottleInv', NEW r \in Requests, FailLogin(r)
  PROVE  GuessInv'
<1>a. PICK b \in Addresses : request[r].addr = b
  BY DEF FailLogin, GuessInv
<1>1. b \in Addresses /\ request[r].addr = b /\ request[r].pc = "login"
  BY <1>a DEF FailLogin
<1>2. \A q \in Requests : request'[q] = IF q = r THEN Idle ELSE request[q]
  BY EndType DEF FailLogin
<1>3. /\ \A q \in Requests : request'[q].pc = "login" => request'[q] = request[q]
      /\ request'[r].pc # "login"
  BY <1>2 DEF Idle
<1>4. /\ guesses' \in [Addresses -> Nat] /\ guesses'[b] = guesses[b] + 1
      /\ \A a \in Addresses \ {b} : guesses'[a] = guesses[a]
  BY <1>1 DEF FailLogin, GuessInv
<1>5. /\ \A a \in Addresses : guesses[a] \in Nat /\ failures[a] \in Nat
      /\ \A a \in Addresses : failures[a] <= MaxFailures
      /\ \A a \in Addresses : failures'[a] \in Nat /\ failures'[a] <= MaxFailures
  BY DEF GuessInv, ThrottleInv, Limits
<1>6. \A a : Pending(a)' \subseteq Requests \ {r}
  BY <1>3 DEF Pending
<1>7. /\ \A a : Cardinality(Pending(a)') \in Nat
      /\ \A a : Cardinality(Pending(a)') <= Cardinality(Pending(a))
      /\ \A a : Cardinality(Pending(a)) \in Nat
      /\ Cardinality(Requests) \in Nat
  BY <1>3, PendingFewer, PendingFinite
<1>8. \A a : Cardinality(Pending(a)') <= Cardinality(Requests) - 1
  <2> SUFFICES ASSUME NEW a PROVE Cardinality(Pending(a)') <= Cardinality(Requests) - 1
    OBVIOUS
  <2>1. IsFiniteSet(Requests \ {r})
        /\ Cardinality(Requests \ {r}) = Cardinality(Requests) - 1
    BY FS_RemoveElement
  <2>2. QED
    BY <1>6, <2>1, FS_Subset
<1>9. \A q \in Requests : request'[q].pc = "login" => request'[q].addr \in Addresses
  BY <1>3 DEF GuessInv
<1>10. CASE Counts(b)
  <2>1. /\ failures'[b] = failures[b] + 1
        /\ \A a \in Addresses \ {b} : failures'[a] = failures[a]
    BY <1>1, <1>10 DEF FailLogin, ThrottleInv
  <2>2. guesses'[b] <= failures'[b]
    BY <1>1, <1>4, <1>5, <1>10, <2>1 DEF Counts, GuessInv
  <2>3. ASSUME NEW a \in Addresses, ~ Throttled(a) PROVE guesses'[a] <= failures'[a]
    BY <1>4, <2>1, <2>2, <2>3 DEF GuessInv
  <2>4. ASSUME NEW a \in Addresses, ~ Throttled(a)', Throttled(a) PROVE guesses'[a] <= failures'[a]
    <3>1. CASE a = b
      BY <2>2, <3>1
    <3>2. CASE a # b
      <4>1. /\ failures[a] < MaxFailures /\ failures[a] = 0
            /\ Cardinality(Failing) >= KeyLimit
            /\ ~ (Cardinality(Failing') >= KeyLimit)
        BY <1>5, <2>1, <2>4, <3>2 DEF Throttled, Failing
      <4>2. Failing \subseteq Failing' /\ IsFiniteSet(Failing')
        BY <1>5, <2>1 DEF Failing, ThrottleInv
      <4>3. Cardinality(Failing) <= Cardinality(Failing')
        BY <4>2, FS_Subset
      <4>4. Cardinality(Failing) \in Nat /\ Cardinality(Failing') \in Nat
        BY FS_CardinalityType, <4>2 DEF ThrottleInv
      <4>5. QED
        BY <4>1, <4>3, <4>4
    <3>3. QED
      BY <3>1, <3>2
  <2>5. ASSUME NEW a \in Addresses, Throttled(a)'
        PROVE  guesses'[a] + Cardinality(Pending(a)') <= GuessLimit
    <3>1. CASE ~ Throttled(a)
      BY <1>5, <1>4, <1>7, <1>8, <2>3, <3>1 DEF GuessLimit
    <3>2. CASE Throttled(a)
      <4>1. a # b
        BY <1>10, <3>2 DEF Counts
      <4>2. guesses[a] + Cardinality(Pending(a)) <= GuessLimit /\ guesses'[a] = guesses[a]
        BY <1>4, <3>2, <4>1 DEF GuessInv
      <4>3. QED
        BY <1>5, <1>7, <4>2 DEF GuessLimit
    <3>3. QED
      BY <3>1, <3>2
  <2>6. QED
    BY <1>4, <1>9, <2>3, <2>4, <2>5 DEF GuessInv, GuessLimit
<1>11. CASE ~ Counts(b)
  <2>1. UNCHANGED failures
    BY <1>1, <1>11 DEF FailLogin
  <2>2. \A a \in Addresses : Throttled(a)' <=> Throttled(a)
    BY <2>1 DEF Throttled
  <2>3. Throttled(b)
    BY <1>11 DEF Counts
  <2>4. \A a \in Addresses : ~ Throttled(a)' => guesses'[a] <= failures'[a]
    BY <1>4, <2>1, <2>2, <2>3 DEF GuessInv
  <2>5. Cardinality(Pending(b)') <= Cardinality(Pending(b)) - 1
    <3>1. Pending(b)' \subseteq Pending(b) \ {r} /\ r \in Pending(b)
      BY <1>1, <1>3 DEF Pending
    <3>2. IsFiniteSet(Pending(b))
      BY PendingFinite
    <3>3. IsFiniteSet(Pending(b) \ {r})
          /\ Cardinality(Pending(b) \ {r}) = Cardinality(Pending(b)) - 1
      BY <3>1, <3>2, FS_RemoveElement
    <3>4. QED
      BY <3>1, <3>3, FS_Subset
  <2>6. ASSUME NEW a \in Addresses, Throttled(a)'
        PROVE  guesses'[a] + Cardinality(Pending(a)') <= GuessLimit
    <3>1. guesses[a] + Cardinality(Pending(a)) <= GuessLimit
      BY <2>2, <2>6 DEF GuessInv
    <3>2. CASE a = b
      BY <1>1, <1>4, <1>5, <1>7, <2>5, <3>1, <3>2 DEF GuessLimit
    <3>3. CASE a # b
      BY <1>4, <1>5, <1>7, <3>1, <3>3 DEF GuessLimit
    <3>4. QED
      BY <3>2, <3>3
  <2>7. QED
    BY <1>4, <1>9, <2>4, <2>6 DEF GuessInv, GuessLimit
<1>12. QED
  BY <1>10, <1>11

(* A request begins; a login does so only where the throttle lets it in.   *)
LEMMA BeginGuesses ==
  ASSUME ThrottleInv, GuessInv, RowTypes, NEW r \in Requests, NEW pc, NEW u, NEW pw, NEW a,
         NEW account, Begin(r, pc, u, pw, a, account),
         pc = "login" => a \in Addresses /\ ~ Throttled(a)
  PROVE  GuessInv'
<1>1. \A q \in Requests :
        request'[q] = IF q = r
                      THEN [pc |-> pc, user |-> u, pw |-> pw, addr |-> a, account |-> account]
                      ELSE request[q]
  BY DEF Begin, RowTypes
<1>2. UNCHANGED <<failures, guesses>>
  BY DEF Begin
<1>3. \A b \in Addresses : Throttled(b)' <=> Throttled(b)
  BY <1>2 DEF Throttled
<1>4. \A q \in Requests : request'[q].pc = "login" => request'[q].addr \in Addresses
  BY <1>1 DEF GuessInv
<1>5. ASSUME NEW b \in Addresses, Throttled(b) PROVE Pending(b)' \subseteq Pending(b)
  <2>1. ~ (request'[r].pc = "login" /\ request'[r].addr = b)
    BY <1>1, <1>5
  <2>2. QED
    BY <1>1, <2>1 DEF Pending
<1>6. ASSUME NEW b \in Addresses, Throttled(b)'
      PROVE  guesses'[b] + Cardinality(Pending(b)') <= GuessLimit
  <2>1. guesses[b] + Cardinality(Pending(b)) <= GuessLimit /\ guesses[b] \in Nat
    BY <1>3, <1>6 DEF GuessInv
  <2>2. Cardinality(Pending(b)') <= Cardinality(Pending(b)) /\ IsFiniteSet(Pending(b)')
    BY <1>3, <1>5, <1>6, PendingFinite, FS_Subset
  <2>3. Cardinality(Pending(b)) \in Nat /\ Cardinality(Pending(b)') \in Nat
    BY <2>2, PendingFinite, FS_CardinalityType
  <2>4. GuessLimit \in Int
    BY PendingFinite DEF GuessLimit
  <2>5. QED
    BY <1>2, <2>1, <2>2, <2>3, <2>4
<1>7. QED
  BY <1>2, <1>3, <1>4, <1>6 DEF GuessInv, GuessLimit

LEMMA GuessStep ==
  ASSUME ThrottleInv, GuessInv, RowTypes, [AccountsNext]_accountsVars
  PROVE  GuessInv'
<1>1. ThrottleInv'
  BY ThrottleStep
<1>2. ASSUME UNCHANGED <<failures, guesses, request>> PROVE GuessInv'
  BY <1>2, GuessesKept
<1>3. ASSUME NEW r \in Requests, End(r)
      PROVE  \A q \in Requests : request'[q].pc = "login" => request'[q] = request[q]
  BY <1>3, EndType DEF Idle
<1>4. CASE StopAccounts
  <2>1. \A q \in Requests : request'[q].pc # "login"
    BY <1>4 DEF StopAccounts, Idle
  <2>2. QED
    BY <1>1, <1>4, <2>1, GuessesForgotten DEF StopAccounts
<1>5. ASSUME NEW a \in Addresses, Age(a) PROVE GuessInv'
  BY <1>1, <1>5, GuessesForgotten DEF Age
<1>6. ASSUME NEW r \in Requests, Handle(r) PROVE GuessInv'
  <2>1. CASE FailLogin(r)
    BY <1>1, <2>1, GuessAnswered
  <2>2. CASE Forgive(r)
    BY <1>1, <1>3, <2>2, GuessesForgotten DEF Forgive
  <2>3. CASE FinishSetup(r) \/ LoginOvertaken(r) \/ CreateUser(r) \/ ResetPassword(r)
    BY <1>3, <2>3, GuessesKept DEF FinishSetup, LoginOvertaken, CreateUser, ResetPassword
  <2>4. CASE CreateSession(r)
    <3>1. request' = [request EXCEPT ![r].pc = "forgive"] /\ UNCHANGED <<failures, guesses>>
      BY <2>4 DEF CreateSession
    <3>2. request[r] \in Request /\ request \in [Requests -> Request]
      BY DEF RowTypes
    <3>3. request'[r].pc = "forgive" /\ \A q \in Requests : q # r => request'[q] = request[q]
      BY <3>1, <3>2 DEF Request
    <3>4. QED
      BY <3>1, <3>3, GuessesKept
  <2>5. QED
    BY <1>6, <2>1, <2>2, <2>3, <2>4 DEF Handle
<1>7. ASSUME NEW r \in Requests, NEW pw \in Passwords,
             \/ Setup(r, pw)
             \/ \E u \in Users, a \in Addresses : Login(r, u, pw, a)
             \/ \E u \in Users, s \in sessions, pc \in {"create", "reset"} :
                  Administer(r, s, pc, u, pw)
      PROVE  GuessInv'
  BY <1>7, BeginGuesses DEF Setup, Login, LetIn, Administer
<1>8. ASSUME NEW built \in Built, BootAccounts(built) PROVE GuessInv'
  BY <1>2, <1>8 DEF BootAccounts
<1>9. ASSUME NEW s \in sessions, EndSession(s) PROVE GuessInv'
  BY <1>2, <1>9 DEF EndSession
<1>10. CASE RefuseSetup \/ UNCHANGED accountsVars
  BY <1>2, <1>10 DEF RefuseSetup, accountsVars
<1>11. QED
  BY <1>4, <1>5, <1>6, <1>7, <1>8, <1>9, <1>10 DEF AccountsNext, Serve, Built

LEMMA GuessesInitially == AccountsInit => GuessInv
<1> SUFFICES ASSUME AccountsInit PROVE GuessInv
  OBVIOUS
<1>1. /\ guesses \in [Addresses -> Nat] /\ failures \in [Addresses -> Nat]
      /\ \A a \in Addresses : guesses[a] = 0 /\ failures[a] = 0
      /\ \A r \in Requests : request[r].pc # "login"
  BY DEF AccountsInit, NoFailures, Idle
<1>2. ASSUME NEW a \in Addresses PROVE Cardinality(Pending(a)) = 0
  <2>1. Pending(a) = {}
    BY <1>1 DEF Pending
  <2>2. QED
    BY <2>1, FS_EmptySet
<1>3. Cardinality(Requests) \in Nat \ {0}
  BY FS_CardinalityType, FS_EmptySet
<1>4. QED
  BY <1>1, <1>2, <1>3 DEF GuessInv, GuessLimit

(* However many attempts overlap, an address is told of no more wrong      *)
(* passwords than MaxFailures and the verifications that can be under way  *)
(* at the limit, until a failure is forgotten: login_failures is asked     *)
(* before a password is verified and again when a failure is counted.      *)
THEOREM LoginsThrottled == AccountsSpec => []GuessesBounded
<1> DEFINE Inv == SessionInv /\ ThrottleInv /\ GuessInv
<1>1. Inv /\ [AccountsNext]_accountsVars => Inv'
  <2>1. SessionInv /\ UNCHANGED accountsVars => SessionInv'
    BY DEF accountsVars, SessionInv, RowTypes, NoOldSession, ReadsFenced
  <2>2. QED
    BY <2>1, SessionStep, ThrottleStep, GuessStep DEF SessionInv
<1>2. ThrottleInv /\ GuessInv => GuessesBounded
  <2> SUFFICES ASSUME ThrottleInv, GuessInv, NEW a \in Addresses
               PROVE  guesses[a] <= GuessLimit
    BY DEF GuessesBounded, GuessLimit
  <2>1. /\ guesses[a] \in Nat /\ failures[a] \in Nat /\ failures[a] <= MaxFailures
        /\ Cardinality(Pending(a)) \in Nat /\ Cardinality(Requests) \in Nat \ {0}
    BY PendingFinite DEF GuessInv, ThrottleInv, Limits
  <2>2. QED
    BY <2>1 DEF GuessInv, GuessLimit
<1>3. Inv => GuessesBounded
  BY <1>2
<1>4. AccountsInit => Inv
  BY SessionInitially, ThrottleInitially, GuessesInitially
<1> HIDE DEF Inv
<1>5. QED
  BY <1>1, <1>3, <1>4, PTL DEF AccountsSpec

-----------------------------------------------------------------------------
(***************************************************************************)
(* Accounts: types, and everything together.                               *)
(***************************************************************************)

(* The types that the arguments above do not need.                         *)
OtherTypes ==
  /\ up \in BOOLEAN /\ bootstrap \in Supplied \union {"generated"}
  /\ setups \in Nat /\ work \in Nat /\ made \in Nat

LEMMA OtherTypesStep ==
  ASSUME OtherTypes, [AccountsNext]_accountsVars
  PROVE  OtherTypes'
<1>1. ASSUME NEW built \in Built, BootAccounts(built) PROVE OtherTypes'
  BY <1>1 DEF BootAccounts, OtherTypes, Built
<1>2. CASE StopAccounts \/ RefuseSetup \/ UNCHANGED accountsVars
  BY <1>2 DEF StopAccounts, RefuseSetup, accountsVars, OtherTypes, Supplied
<1>3. ASSUME NEW a \in Addresses, Age(a) PROVE OtherTypes'
  BY <1>3 DEF Age, OtherTypes
<1>4. ASSUME NEW s \in sessions, EndSession(s) PROVE OtherTypes'
  BY <1>4 DEF EndSession, OtherTypes
<1>5. ASSUME NEW r \in Requests, Handle(r) PROVE OtherTypes'
  <2>1. ASSUME FinishSetup(r) PROVE OtherTypes'
    <3>1. setups' \in {setups, setups + 1}
      BY <2>1 DEF FinishSetup
    <3>2. setups' \in Nat
      BY <3>1 DEF OtherTypes
    <3>3. QED
      BY <2>1, <3>2 DEF FinishSetup, OtherTypes, Supplied
  <2>2. ASSUME FailLogin(r) \/ LoginOvertaken(r) \/ Forgive(r) PROVE OtherTypes'
    BY <2>2 DEF FailLogin, LoginOvertaken, Forgive, OtherTypes
  <2>3. ASSUME CreateSession(r) PROVE OtherTypes'
    BY <2>3 DEF CreateSession, OtherTypes
  <2>4. ASSUME CreateUser(r) \/ ResetPassword(r) PROVE OtherTypes'
    BY <2>4 DEF CreateUser, ResetPassword, OtherTypes
  <2>5. QED
    BY <1>5, <2>1, <2>2, <2>3, <2>4 DEF Handle
<1>6. ASSUME NEW r \in Requests, NEW pw \in Passwords,
             \/ Setup(r, pw)
             \/ \E u \in Users, a \in Addresses : Login(r, u, pw, a)
             \/ \E u \in Users, s \in sessions, pc \in {"create", "reset"} :
                  Administer(r, s, pc, u, pw)
      PROVE  OtherTypes'
  BY <1>6 DEF Setup, Login, Administer, Begin, OtherTypes
<1>7. QED
  BY <1>1, <1>2, <1>3, <1>4, <1>5, <1>6 DEF AccountsNext, Serve, Built

(* Once there is an account, there is the administrator of the setup.      *)
FirstAdmin == ~ FirstStill => users[First].exists

(* Accounts come, and none goes.                                           *)
LEMMA AccountsStay ==
  ASSUME RowTypes, [AccountsNext]_accountsVars, NEW u \in Users, users[u].exists
  PROVE  users'[u].exists
<1>1. ASSUME UNCHANGED users PROVE users'[u].exists
  BY <1>1
<1>2. ASSUME NEW r \in Requests, FinishSetup(r) PROVE users'[u].exists
  BY <1>2 DEF FinishSetup, FirstStill
<1>3. ASSUME NEW r \in Requests, CreateUser(r) \/ ResetPassword(r)
      PROVE  users'[u].exists
  BY <1>3 DEF CreateUser, ResetPassword, RowTypes
<1>4. ASSUME NEW r \in Requests,
             FailLogin(r) \/ CreateSession(r) \/ LoginOvertaken(r) \/ Forgive(r)
      PROVE  UNCHANGED users
  BY <1>4 DEF FailLogin, CreateSession, LoginOvertaken, Forgive
<1>5. ASSUME NEW r \in Requests, NEW pw \in Passwords,
             \/ Setup(r, pw)
             \/ \E v \in Users, a \in Addresses : Login(r, v, pw, a)
             \/ \E v \in Users, s \in sessions, pc \in {"create", "reset"} :
                  Administer(r, s, pc, v, pw)
      PROVE  UNCHANGED users
  BY <1>5 DEF Setup, Login, Administer, Begin
<1>6. ASSUME NEW built \in Built, BootAccounts(built) PROVE UNCHANGED users
  BY <1>6 DEF BootAccounts
<1>7. ASSUME NEW s \in sessions, EndSession(s) PROVE UNCHANGED users
  BY <1>7 DEF EndSession
<1>8. ASSUME NEW a \in Addresses, Age(a) PROVE UNCHANGED users
  BY <1>8 DEF Age
<1>9. CASE StopAccounts \/ RefuseSetup \/ UNCHANGED accountsVars
  BY <1>9 DEF StopAccounts, RefuseSetup, accountsVars
<1>10. QED
  BY <1>1, <1>2, <1>3, <1>4, <1>5, <1>6, <1>7, <1>8, <1>9 DEF AccountsNext, Serve, Handle, Built

LEMMA FirstAdminStep ==
  ASSUME SessionInv, SetupInv, FirstAdmin, [AccountsNext]_accountsVars
  PROVE  FirstAdmin'
<1>1. First \in Users /\ RowTypes
  BY DEF SessionInv
<1>2. CASE ~ FirstStill
  BY <1>1, <1>2, AccountsStay DEF FirstAdmin
<1>3. CASE FirstStill
  <2>1. ASSUME NEW r \in Requests, FinishSetup(r) PROVE users'[First].exists
    BY <1>1, <1>3, <2>1 DEF FinishSetup, RowTypes
  <2>2. ASSUME NEW r \in Requests, CreateUser(r) \/ ResetPassword(r) PROVE FALSE
    BY <1>3, <2>2 DEF CreateUser, ResetPassword, SetupInv
  <2>3. CASE UNCHANGED users
    BY <1>3, <2>3 DEF FirstAdmin, FirstStill
  <2>4. ASSUME NEW r \in Requests, Handle(r) PROVE FirstAdmin'
    <3>1. CASE FailLogin(r) \/ CreateSession(r) \/ LoginOvertaken(r) \/ Forgive(r)
      BY <2>3, <3>1 DEF FailLogin, CreateSession, LoginOvertaken, Forgive
    <3>2. QED
      BY <2>1, <2>2, <2>4, <3>1 DEF Handle, FirstAdmin
  <2>5. ASSUME NEW r \in Requests, NEW pw \in Passwords,
               \/ Setup(r, pw)
               \/ \E u \in Users, a \in Addresses : Login(r, u, pw, a)
               \/ \E u \in Users, s \in sessions, pc \in {"create", "reset"} :
                    Administer(r, s, pc, u, pw)
        PROVE  UNCHANGED users
    BY <2>5 DEF Setup, Login, Administer, Begin
  <2>6. ASSUME NEW built \in Built, BootAccounts(built) PROVE UNCHANGED users
    BY <2>6 DEF BootAccounts
  <2>7. ASSUME NEW s \in sessions, EndSession(s) PROVE UNCHANGED users
    BY <2>7 DEF EndSession
  <2>8. ASSUME NEW a \in Addresses, Age(a) PROVE UNCHANGED users
    BY <2>8 DEF Age
  <2>9. CASE StopAccounts \/ RefuseSetup \/ UNCHANGED accountsVars
    BY <2>3, <2>9 DEF StopAccounts, RefuseSetup, accountsVars
  <2>10. QED
    BY <2>3, <2>4, <2>5, <2>6, <2>7, <2>8, <2>9 DEF AccountsNext, Serve, Built
<1>4. QED
  BY <1>2, <1>3

(* The whole of what holds of the accounts of a server.                    *)
AccountsInv ==
  SessionInv /\ SetupInv /\ ThrottleInv /\ GuessInv /\ OtherTypes /\ FirstAdmin

LEMMA AccountsInitially == AccountsInit => AccountsInv
<1>1. AccountsInit => SetupInv /\ FirstAdmin
  BY DEF AccountsInit, SetupInv, FirstAdmin, FirstStill, Unknown, Idle
<1>2. AccountsInit => OtherTypes
  <2>1. AccountsInit => up \in BOOLEAN
    BY DEF AccountsInit
  <2>2. AccountsInit => bootstrap \in Supplied \union {"generated"}
    BY DEF AccountsInit, Supplied
  <2>3. AccountsInit => setups \in Nat /\ work \in Nat /\ made \in Nat
    BY DEF AccountsInit
  <2>4. QED
    BY <2>1, <2>2, <2>3 DEF OtherTypes
<1>3. AccountsInit => ThrottleInv /\ GuessInv
  BY ThrottleInitially, GuessesInitially
<1>4. QED
  BY <1>1, <1>2, <1>3, SessionInitially DEF AccountsInv

LEMMA AccountsStep ==
  ASSUME AccountsInv, [AccountsNext]_accountsVars
  PROVE  AccountsInv'
<1>1. SessionInv' /\ SetupInv'
  <2>1. CASE UNCHANGED accountsVars
    BY <2>1 DEF accountsVars, AccountsInv, SessionInv, RowTypes, NoOldSession, ReadsFenced,
                SetupInv, FirstStill
  <2>2. QED
    BY <2>1, SessionStep, SetupStep DEF AccountsInv
<1>2. ThrottleInv' /\ GuessInv'
  BY ThrottleStep, GuessStep DEF AccountsInv, SessionInv
<1>3. OtherTypes'
  BY OtherTypesStep DEF AccountsInv
<1>4. FirstAdmin'
  BY FirstAdminStep DEF AccountsInv
<1>5. QED
  BY <1>1, <1>2, <1>3, <1>4 DEF AccountsInv

LEMMA AccountsTyped == AccountsInv => AccountsTypeOK
<1> SUFFICES ASSUME AccountsInv PROVE AccountsTypeOK
  OBVIOUS
<1>1. failures \in [Addresses -> 0 .. MaxFailures]
  BY DEF AccountsInv, ThrottleInv, Limits
<1>2. Cardinality({a \in Addresses : failures[a] > 0}) <= KeyLimit
  BY DEF AccountsInv, ThrottleInv, Limits, Failing
<1>3. QED
  BY <1>1, <1>2 DEF AccountsInv, SessionInv, RowTypes, GuessInv, OtherTypes, AccountsTypeOK

(* Accounts, sessions and requests keep their types, and the failures      *)
(* their limits.                                                           *)
THEOREM AccountsTypes == AccountsSpec => []AccountsTypeOK
<1>1. AccountsInv => AccountsTypeOK
  BY AccountsTyped
<1>2. AccountsInv /\ [AccountsNext]_accountsVars => AccountsInv'
  BY AccountsStep
<1>3. QED
  BY <1>1, <1>2, AccountsInitially, PTL DEF AccountsSpec
=============================================================================
