------------------------------- MODULE Startup -------------------------------
(***************************************************************************)
(* Processes that open one data directory: servers, and the probes that    *)
(* the menu-bar application runs to learn whether setup is complete.       *)
(* Each opens the encryption key and the salt, creating them if need be,   *)
(* unless its environment brings a key of its own; a server then needs the *)
(* port and, with SPI_TLS, a TLS pair, which is made under a file lock.    *)
(* Processes die at any point; files survive, locks and ports do not.      *)
(*                                                                         *)
(* A secret or a pair is known by the number of its creation.  A file is   *)
(* written under a temporary name first, so a torn one is never seen.      *)
(***************************************************************************)
EXTENDS Naturals, FiniteSets

CONSTANTS
  Procs,          \* processes alive at a time
  Hosts,          \* addresses to bind, which a certificate must cover
  None,
  MaxLaunches, MaxDeaths      \* bounds

ASSUME StartupAssumption ==
  None \notin Procs \union Hosts /\ MaxLaunches \in Nat /\ MaxDeaths \in Nat

VARIABLES
  secret,         \* the key and salt files
  tlsKey, tlsCert,  \* the files of the self-signed pair
  lock,           \* who holds .tls-generation.lock
  port,           \* who listens
  proc,
  minted,         \* how many secrets and pairs have been generated
  launches, deaths

files == <<secret, tlsKey, tlsCert>>
startupVars == <<files, lock, port, proc, minted, launches, deaths>>

Secrets == {"key", "salt"}
NoCert == [pair |-> 0, host |-> None]
Dead == [pc |-> "dead", host |-> None, key |-> 0, salt |-> 0, cert |-> NoCert,
         alone |-> FALSE]

(* The directory is empty, or it has secrets, and a certificate whose key  *)
(* was lost.                                                               *)
StartupInit ==
  /\ \/ secret = [f \in Secrets |-> 0] /\ tlsCert = NoCert
     \/ secret = [f \in Secrets |-> 1] /\ tlsCert \in [pair : {1}, host : Hosts]
  /\ tlsKey = 0
  /\ lock = None /\ port = None
  /\ proc = [p \in Procs |-> Dead]
  /\ minted = 1 /\ launches = 0 /\ deaths = 0

At(p, pc) == proc[p].pc = pc
Go(p, pc) == proc' = [proc EXCEPT ![p].pc = pc]

(* CredentialCipher::open begins with the key file, or with the salt when  *)
(* SPI_ENCRYPTION_KEY replaces the file.                                   *)
FirstStages == {"key", "salt"}

(* A process is launched; a probe binds no address.  Ghost: whether any    *)
(* other process has been there since.                                     *)
Launch(p, h) ==
  /\ At(p, "dead") /\ launches < MaxLaunches
  /\ \E first \in FirstStages :
       proc' = [q \in Procs |->
                  IF q # p THEN [proc[q] EXCEPT !.alone = FALSE]
                  ELSE [Dead EXCEPT !.pc = first, !.host = h,
                                    !.alone = \A o \in Procs : At(o, "dead")]]
  /\ launches' = launches + 1
  /\ UNCHANGED <<files, lock, port, minted, deaths>>

(* It ends, orderly or not.                                                *)
Ends(p) ==
  /\ proc' = [proc EXCEPT ![p] = Dead]
  /\ lock' = IF lock = p THEN None ELSE lock
  /\ port' = IF port = p THEN None ELSE port
  /\ UNCHANGED <<files, minted, launches>>

Die(p) ==
  /\ ~ At(p, "dead") /\ deaths < MaxDeaths
  /\ deaths' = deaths + 1
  /\ Ends(p)

(* It is stopped by whoever spawned it.                                    *)
Stop(p) == ~ At(p, "dead") /\ Ends(p) /\ UNCHANGED deaths

(***************************************************************************)
(* The encryption key and the salt.                                        *)
(***************************************************************************)

Publishing(f) == IF f = "key" THEN "publish key" ELSE "publish salt"
AfterSecret(p, f) == IF f = "key" THEN "salt" ELSE IF proc[p].host = None THEN "answer" ELSE "app"

(* load_or_create: take the file, or generate a value to publish.          *)
ReadSecret(p, f) ==
  /\ At(p, f)
  /\ proc' = IF secret[f] # 0
             THEN [proc EXCEPT ![p].pc = AfterSecret(p, f), ![p][f] = secret[f]]
             ELSE [proc EXCEPT ![p].pc = Publishing(f), ![p][f] = minted + 1]
  /\ minted' = IF secret[f] # 0 THEN minted ELSE minted + 1
  /\ UNCHANGED <<files, lock, port, launches, deaths>>

(* Mutation: the temporary file replaces whatever is there.                *)
LinkOverwrites(p, f) == secret' = [secret EXCEPT ![f] = proc[p][f]]

(* hard_link: the first to publish wins.                                   *)
Link(p, f) == secret' = IF secret[f] = 0 THEN [secret EXCEPT ![f] = proc[p][f]] ELSE secret

PublishSecret(p, f) ==
  /\ At(p, Publishing(f))
  /\ Link(p, f)
  /\ Go(p, f)
  /\ UNCHANGED <<tlsKey, tlsCert, lock, port, minted, launches, deaths>>

(* A probe answers from the database and ends.                             *)
Answer(p) ==
  /\ At(p, "answer")
  /\ Ends(p) /\ UNCHANGED deaths

(* A server has its AppState, and needs a pair only with SPI_TLS.          *)
Build(p) ==
  /\ At(p, "app")
  /\ Go(p, "tls") \/ Go(p, "bind")
  /\ UNCHANGED <<files, lock, port, minted, launches, deaths>>

(***************************************************************************)
(* The self-signed pair.                                                   *)
(***************************************************************************)

Lock(p) ==
  /\ At(p, "tls") /\ lock = None
  /\ lock' = p
  /\ Go(p, "check")
  /\ UNCHANGED <<files, port, minted, launches, deaths>>

(* Mutation: a pair is valid if its certificate covers the address.        *)
CoversOnly(p) == tlsCert.host = proc[p].host

(* generated_pair_is_valid: the names are covered, the key belongs to it.  *)
PairValid(p) == tlsCert.host = proc[p].host /\ tlsCert.pair = tlsKey

(* The pair is used, or a new one generated.                               *)
CheckPair(p) ==
  /\ At(p, "check")
  /\ IF PairValid(p)
     THEN lock' = None /\ Go(p, "load cert") /\ UNCHANGED minted
     ELSE /\ minted' = minted + 1
          /\ proc' = [proc EXCEPT ![p].pc = "publish pair",
                                  ![p].cert = [pair |-> minted + 1, host |-> proc[p].host]]
          /\ UNCHANGED lock
  /\ UNCHANGED <<files, port, launches, deaths>>

(* The key is published first, then the certificate.                       *)
PublishTlsKey(p) ==
  /\ At(p, "publish pair")
  /\ tlsKey' = proc[p].cert.pair
  /\ Go(p, "publish cert")
  /\ UNCHANGED <<secret, tlsCert, lock, port, minted, launches, deaths>>

PublishCert(p) ==
  /\ At(p, "publish cert")
  /\ tlsCert' = proc[p].cert
  /\ lock' = None
  /\ Go(p, "load cert")
  /\ UNCHANGED <<secret, tlsKey, port, minted, launches, deaths>>

(* from_pem_file reads both files without the lock.                        *)
LoadCert(p) ==
  /\ At(p, "load cert")
  /\ proc' = [proc EXCEPT ![p].cert = tlsCert, ![p].pc = "load key"]
  /\ UNCHANGED <<files, lock, port, minted, launches, deaths>>

(* A certificate and a key that do not match end the process.              *)
LoadKey(p) ==
  /\ At(p, "load key")
  /\ \/ /\ proc[p].cert.pair = tlsKey /\ Go(p, "bind")
        /\ UNCHANGED <<files, lock, port, minted, launches>>
     \/ proc[p].cert.pair # tlsKey /\ Ends(p)
  /\ UNCHANGED deaths

(* bind_listener: the port is fixed, and taken means the end.              *)
Bind(p) ==
  /\ At(p, "bind") /\ port = None
  /\ port' = p
  /\ Go(p, "serve")
  /\ UNCHANGED <<files, lock, minted, launches, deaths>>

PortTaken(p) ==
  /\ At(p, "bind") /\ port # None
  /\ Ends(p) /\ UNCHANGED deaths

Prepare(p) ==
  \/ \E f \in Secrets : ReadSecret(p, f) \/ PublishSecret(p, f)
  \/ Lock(p) \/ CheckPair(p) \/ PublishTlsKey(p) \/ PublishCert(p)
  \/ LoadCert(p) \/ LoadKey(p) \/ PortTaken(p)

StartupNext ==
  \E p \in Procs :
    \/ \E h \in Hosts \union {None} : Launch(p, h)
    \/ Prepare(p) \/ Answer(p) \/ Build(p) \/ Bind(p) \/ Die(p) \/ Stop(p)

StartupSpec == StartupInit /\ [][StartupNext]_startupVars

(***************************************************************************)
(* Properties.                                                             *)
(***************************************************************************)

Opened(p, f) == proc[p][f] # 0 /\ ~ At(p, Publishing(f)) /\ ~ At(p, f)

(* Whoever took the key, or the salt, from a file has the one that is in   *)
(* the file now, however many raced to create it: what one process that    *)
(* uses the key file encrypts every other can read, and all hash with one  *)
(* salt.  The key of an environment (key = 0) is in no file: such a        *)
(* process shares the salt only.                                           *)
KeyAgreement ==
  \A p \in Procs, f \in Secrets : Opened(p, f) => proc[p][f] = secret[f]

(* A server that nobody disturbs loads a pair that matches and covers its  *)
(* address, whatever processes that died before it have left behind.       *)
LonePairMatches ==
  \A p \in Procs :
    (At(p, "load key") /\ proc[p].alone)
      => proc[p].cert.pair = tlsKey /\ proc[p].cert.host = proc[p].host

(* Types; one process listens, and the lock belongs to a live process.     *)
StartupTypeOK ==
  /\ secret \in [Secrets -> Nat]
  /\ tlsKey \in Nat /\ tlsCert \in [pair : Nat, host : Hosts \union {None}]
  /\ lock \in Procs \union {None} /\ port \in Procs \union {None}
  /\ \A p \in Procs : At(p, "serve") <=> port = p
  /\ \A p \in Procs : lock = p <=> proc[p].pc \in {"check", "publish pair", "publish cert"}
=============================================================================
