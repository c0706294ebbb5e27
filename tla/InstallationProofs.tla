------------------------- MODULE InstallationProofs -------------------------
(***************************************************************************)
(* Proofs about Startup and about its composition with Accounts, for every *)
(* number of processes and every bound.                                    *)
(***************************************************************************)
EXTENDS Installation, AccountsProofs, TLAPS

USE StartupAssumption

-----------------------------------------------------------------------------
(***************************************************************************)
(* Startup: one key, one salt, and a pair that matches.                    *)
(***************************************************************************)

Stages ==
  {"dead", "key", "publish key", "salt", "publish salt", "answer", "app", "tls",
   "check", "publish pair", "publish cert", "load cert", "load key", "bind", "serve"}

Certificate == [pair : Nat, host : Hosts \union {None}]

Process ==
  [pc : Stages, host : Hosts \union {None}, key : Nat, salt : Nat, cert : Certificate,
   alone : BOOLEAN]

StateTypes ==
  /\ secret \in [Secrets -> Nat]
  /\ tlsKey \in Nat /\ tlsCert \in Certificate
  /\ proc \in [Procs -> Process]
  /\ minted \in Nat

(* What a process that is alone knows at each stage of the pair.           *)
PairKnown(x, key, cert) ==
  /\ x.pc \in {"publish pair", "publish cert", "load key"} => x.cert.host = x.host
  /\ x.pc \in {"publish cert", "load key"} => x.cert.pair = key
  /\ x.pc = "load cert" => cert.host = x.host /\ cert.pair = key

LonePair(p) ==
  /\ \A q \in Procs : q # p => At(q, "dead")
  /\ PairKnown(proc[p], tlsKey, tlsCert)

LonePairs == \A p \in Procs : proc[p].alone => LonePair(p)

FilesInv == StateTypes /\ KeyAgreement /\ LonePairs

LEMMA DeadType == Dead \in Process /\ NoCert \in Certificate
BY DEF Dead, NoCert, Process, Certificate, Stages

(* What the processes are after a step of one of them.                     *)
LEMMA ProcTypes ==
  ASSUME StateTypes, NEW p \in Procs, NEW new \in Process,
         proc' = [proc EXCEPT ![p] = new]
  PROVE  /\ proc' \in [Procs -> Process]
         /\ proc'[p] = new
         /\ \A q \in Procs : q # p => proc'[q] = proc[q]
BY DEF StateTypes

LEMMA GoTypes ==
  ASSUME StateTypes, NEW p \in Procs, NEW pc \in Stages
  PROVE  /\ [proc[p] EXCEPT !.pc = pc] \in Process
         /\ Go(p, pc) => proc' = [proc EXCEPT ![p] = [proc[p] EXCEPT !.pc = pc]]
BY DEF StateTypes, Process, Go

(* Keys agree after a step of one process that leaves the secrets, and     *)
(* opens none that is not the one in its file.                             *)
LEMMA AgreementKept ==
  ASSUME FilesInv, NEW p \in Procs, NEW new \in Process,
         proc' = [proc EXCEPT ![p] = new], UNCHANGED secret,
         \A f \in Secrets : Opened(p, f)' => new[f] = secret[f]
  PROVE  KeyAgreement'
<1>1. ASSUME NEW q \in Procs, NEW f \in Secrets, Opened(q, f)'
      PROVE  proc'[q][f] = secret'[f]
  <2>1. CASE q = p
    BY <1>1, <2>1, ProcTypes DEF FilesInv
  <2>2. CASE q # p
    <3>1. proc'[q] = proc[q]
      BY <2>2, ProcTypes DEF FilesInv
    <3>2. Opened(q, f)
      BY <1>1, <3>1 DEF Opened, At
    <3>3. QED
      BY <3>1, <3>2 DEF FilesInv, KeyAgreement
  <2>3. QED
    BY <2>1, <2>2
<1>2. QED
  BY <1>1 DEF KeyAgreement

(* A live process takes a step: nobody else is alone.                      *)
LEMMA ProcessStep ==
  ASSUME FilesInv, NEW p \in Procs, ~ At(p, "dead"), NEW new \in Process,
         proc' = [proc EXCEPT ![p] = new], UNCHANGED secret,
         tlsKey' \in Nat, tlsCert' \in Certificate, minted' \in Nat,
         \A f \in Secrets : Opened(p, f)' => new[f] = secret[f],
         new.alone => proc[p].alone /\ PairKnown(new, tlsKey', tlsCert')
  PROVE  FilesInv'
<1>1. StateTypes'
  BY ProcTypes DEF FilesInv, StateTypes
<1>2. ASSUME NEW q \in Procs, proc'[q].alone PROVE LonePair(q)'
  <2>1. CASE q = p
    BY <1>2, <2>1, ProcTypes DEF FilesInv, LonePairs, LonePair, At
  <2>2. CASE q # p
    <3>1. proc[q].alone
      BY <1>2, <2>2, ProcTypes DEF FilesInv
    <3>2. At(p, "dead")
      BY <2>2, <3>1 DEF FilesInv, LonePairs, LonePair
    <3>3. QED
      BY <3>2
  <2>3. QED
    BY <2>1, <2>2
<1>3. QED
  BY <1>1, <1>2, AgreementKept DEF FilesInv, LonePairs

(* A step past the secrets, which keeps them.                              *)
LEMMA LaterStep ==
  ASSUME FilesInv, NEW p \in Procs, NEW new \in Process,
         proc' = [proc EXCEPT ![p] = new], UNCHANGED secret,
         tlsKey' \in Nat, tlsCert' \in Certificate, minted' \in Nat,
         proc[p].pc \in Stages \ {"dead", "key", "publish key", "salt", "publish salt"},
         new.key = proc[p].key, new.salt = proc[p].salt,
         new.alone = proc[p].alone,
         proc[p].alone => PairKnown(new, tlsKey', tlsCert')
  PROVE  FilesInv'
<1>1. \A f \in Secrets : proc[p][f] # 0 => Opened(p, f)
  BY DEF Opened, At, Publishing, Secrets
<1>2. \A f \in Secrets : new[f] = proc[p][f]
  BY DEF Secrets
<1>3. \A f \in Secrets : Opened(p, f)' => new[f] = secret[f]
  <2>1. ASSUME NEW f \in Secrets, Opened(p, f)' PROVE new[f] = secret[f]
    <3>1. new[f] # 0
      BY <2>1, ProcTypes DEF FilesInv, Opened
    <3>2. Opened(p, f)
      BY <1>1, <1>2, <3>1
    <3>3. QED
      BY <1>2, <3>2 DEF FilesInv, KeyAgreement
  <2>2. QED
    BY <2>1
<1>4. ~ At(p, "dead")
  BY DEF At
<1>5. QED
  BY <1>3, <1>4, ProcessStep

(* A process that ends knows nothing.                                      *)
LEMMA EndsKeeps ==
  ASSUME FilesInv, NEW p \in Procs, ~ At(p, "dead"), Ends(p)
  PROVE  FilesInv'
<1>1. proc' = [proc EXCEPT ![p] = Dead] /\ UNCHANGED <<secret, tlsKey, tlsCert, minted>>
  BY DEF Ends, files
<1>2. \A f \in Secrets : ~ Opened(p, f)'
  <2>1. \A f \in Secrets : Dead[f] = 0
    BY DEF Dead, Secrets
  <2>2. proc'[p] = Dead
    BY <1>1, DeadType, ProcTypes DEF FilesInv
  <2>3. QED
    BY <2>1, <2>2 DEF Opened
<1>3. QED
  BY <1>1, <1>2, DeadType, ProcessStep DEF FilesInv, StateTypes, Dead

LEMMA LaunchKeeps ==
  ASSUME FilesInv, NEW p \in Procs, NEW h \in Hosts \union {None}, Launch(p, h)
  PROVE  FilesInv'
<1>1. PICK first \in FirstStages :
        proc' = [q \in Procs |->
                   IF q # p THEN [proc[q] EXCEPT !.alone = FALSE]
                   ELSE [Dead EXCEPT !.pc = first, !.host = h,
                                     !.alone = \A o \in Procs : At(o, "dead")]]
  BY DEF Launch
<1> DEFINE begun == [Dead EXCEPT !.pc = first, !.host = h,
                                 !.alone = \A o \in Procs : At(o, "dead")]
<1>2. begun \in Process
  <2>1. (\A o \in Procs : At(o, "dead")) \in BOOLEAN
    OBVIOUS
  <2>2. QED
    BY <2>1, DeadType DEF Process, Stages, FirstStages
<1>3. /\ begun.pc = first /\ begun.key = 0 /\ begun.salt = 0
      /\ begun.alone = (\A o \in Procs : At(o, "dead"))
  BY DEF Dead
<1>4. proc' = [q \in Procs |-> IF q # p THEN [proc[q] EXCEPT !.alone = FALSE] ELSE begun]
  BY <1>1
<1> HIDE DEF begun
<1>5. \A q \in Procs : proc[q] \in Process /\ [proc[q] EXCEPT !.alone = FALSE] \in Process
  BY DEF FilesInv, StateTypes, Process
<1>6. /\ proc' \in [Procs -> Process] /\ proc'[p] = begun
      /\ \A q \in Procs : q # p => /\ proc'[q].pc = proc[q].pc /\ proc'[q].key = proc[q].key
                                   /\ proc'[q].salt = proc[q].salt /\ ~ proc'[q].alone
  <2>1. proc' \in [Procs -> Process] /\ proc'[p] = begun
    BY <1>2, <1>4, <1>5
  <2>2. ASSUME NEW q \in Procs, q # p
        PROVE  /\ proc'[q].pc = proc[q].pc /\ proc'[q].key = proc[q].key
               /\ proc'[q].salt = proc[q].salt /\ ~ proc'[q].alone
    <3>1. proc'[q] = [proc[q] EXCEPT !.alone = FALSE]
      BY <1>4, <2>2
    <3>2. QED
      BY <1>5, <3>1 DEF Process
  <2>3. QED
    BY <2>1, <2>2
<1>7. StateTypes' /\ UNCHANGED secret
  BY <1>6 DEF Launch, files, FilesInv, StateTypes
<1>8. KeyAgreement'
  <2>1. ASSUME NEW q \in Procs, NEW f \in Secrets, Opened(q, f)'
        PROVE  proc'[q][f] = secret'[f]
    <3>1. CASE q = p
      <4>1. proc'[p][f] = 0
        BY <1>3, <1>6 DEF Secrets
      <4>2. QED
        BY <2>1, <3>1, <4>1 DEF Opened
    <3>2. CASE q # p
      <4>1. proc'[q][f] = proc[q][f] /\ proc'[q].pc = proc[q].pc
        BY <1>6, <3>2 DEF Secrets
      <4>2. Opened(q, f)
        BY <2>1, <4>1 DEF Opened, At
      <4>3. QED
        BY <1>7, <4>1, <4>2 DEF FilesInv, KeyAgreement
    <3>3. QED
      BY <3>1, <3>2
  <2>2. QED
    BY <2>1 DEF KeyAgreement
<1>9. LonePairs'
  <2>1. ASSUME NEW q \in Procs, proc'[q].alone PROVE LonePair(q)'
    <3>1. q = p
      BY <1>6, <2>1
    <3>2. (\A o \in Procs : At(o, "dead")) /\ proc'[p].pc = first
      BY <1>3, <1>6, <2>1, <3>1
    <3>3. \A o \in Procs : o # p => proc'[o].pc = "dead"
      BY <1>6, <3>2 DEF At
    <3>4. QED
      BY <3>1, <3>2, <3>3 DEF LonePair, PairKnown, At, FirstStages
  <2>2. QED
    BY <2>1 DEF LonePairs
<1>10. QED
  BY <1>7, <1>8, <1>9 DEF FilesInv

(* What the two secrets do to the process record.                          *)
LEMMA SecretRecords ==
  ASSUME NEW x \in Process, NEW v \in Nat, NEW pc \in Stages
  PROVE  /\ [x EXCEPT !.pc = pc, !.key = v] \in Process
         /\ [x EXCEPT !.pc = pc, !.salt = v] \in Process
BY DEF Process

LEMMA ReadSecretKeeps ==
  ASSUME FilesInv, NEW p \in Procs, NEW f \in Secrets, ReadSecret(p, f)
  PROVE  FilesInv'
<1> DEFINE pc == IF secret[f] # 0 THEN AfterSecret(p, f) ELSE Publishing(f)
           v == IF secret[f] # 0 THEN secret[f] ELSE minted + 1
<1>1. /\ pc \in Stages \ {"publish pair", "publish cert", "load cert", "load key"}
      /\ v \in Nat
  BY DEF FilesInv, StateTypes, AfterSecret, Publishing, Stages
<1>2. /\ UNCHANGED <<secret, tlsKey, tlsCert>> /\ minted' \in Nat
      /\ ~ At(p, "dead") /\ At(p, f)
  BY DEF ReadSecret, files, FilesInv, StateTypes, At, Secrets
<1>3. proc[p] \in Process
  BY DEF FilesInv, StateTypes
<1>4. CASE f = "key"
  <2> DEFINE new == [proc[p] EXCEPT !.pc = pc, !.key = v]
  <2>1. new \in Process
    BY <1>1, <1>3, SecretRecords
  <2>2. proc' = [proc EXCEPT ![p] = new]
    BY <1>4 DEF ReadSecret, FilesInv, StateTypes, Process
  <2>3. proc'[p] = new
    BY <2>1, <2>2, ProcTypes DEF FilesInv
  <2>4. new.key = v /\ new.salt = proc[p].salt /\ new.pc = pc /\ new.alone = proc[p].alone
    BY <1>3 DEF Process
  <2>5. ASSUME NEW g \in Secrets, Opened(p, g)' PROVE new[g] = secret[g]
    <3>1. CASE g = "key"
      <4>1. pc # "publish key"
        BY <2>3, <2>4, <2>5, <3>1 DEF Opened, At, Publishing
      <4>2. secret[f] # 0
        BY <1>4, <4>1 DEF Publishing
      <4>3. QED
        BY <1>4, <2>4, <3>1, <4>2
    <3>2. CASE g = "salt"
      <4>1. proc[p].salt # 0
        BY <2>3, <2>4, <2>5, <3>2 DEF Opened
      <4>2. Opened(p, "salt")
        BY <1>2, <1>4, <4>1 DEF Opened, At, Publishing
      <4>3. proc[p].salt = secret["salt"]
        BY <4>2 DEF FilesInv, KeyAgreement, Secrets
      <4>4. QED
        BY <2>4, <3>2, <4>3
    <3>3. QED
      BY <3>1, <3>2 DEF Secrets
  <2>6. PairKnown(new, tlsKey', tlsCert')
    BY <1>1, <2>4 DEF PairKnown
  <2>7. QED
    BY <1>2, <2>1, <2>2, <2>4, <2>5, <2>6, ProcessStep DEF FilesInv, StateTypes
<1>5. CASE f = "salt"
  <2> DEFINE new == [proc[p] EXCEPT !.pc = pc, !.salt = v]
  <2>1. new \in Process
    BY <1>1, <1>3, SecretRecords
  <2>2. proc' = [proc EXCEPT ![p] = new]
    BY <1>5 DEF ReadSecret, FilesInv, StateTypes, Process
  <2>3. proc'[p] = new
    BY <2>1, <2>2, ProcTypes DEF FilesInv
  <2>4. new.salt = v /\ new.key = proc[p].key /\ new.pc = pc /\ new.alone = proc[p].alone
    BY <1>3 DEF Process
  <2>5. ASSUME NEW g \in Secrets, Opened(p, g)' PROVE new[g] = secret[g]
    <3>1. CASE g = "salt"
      <4>1. pc # "publish salt"
        BY <2>3, <2>4, <2>5, <3>1 DEF Opened, At, Publishing
      <4>2. secret[f] # 0
        BY <1>5, <4>1 DEF Publishing
      <4>3. QED
        BY <1>5, <2>4, <3>1, <4>2
    <3>2. CASE g = "key"
      <4>1. proc[p].key # 0
        BY <2>3, <2>4, <2>5, <3>2 DEF Opened
      <4>2. Opened(p, "key")
        BY <1>2, <1>5, <4>1 DEF Opened, At, Publishing
      <4>3. proc[p].key = secret["key"]
        BY <4>2 DEF FilesInv, KeyAgreement, Secrets
      <4>4. QED
        BY <2>4, <3>2, <4>3
    <3>3. QED
      BY <3>1, <3>2 DEF Secrets
  <2>6. PairKnown(new, tlsKey', tlsCert')
    BY <1>1, <2>4 DEF PairKnown
  <2>7. QED
    BY <1>2, <2>1, <2>2, <2>4, <2>5, <2>6, ProcessStep DEF FilesInv, StateTypes
<1>6. QED
  BY <1>4, <1>5 DEF Secrets

(* A secret is published over none: whoever has opened it has it still.    *)
LEMMA PublishSecretKeeps ==
  ASSUME FilesInv, NEW p \in Procs, NEW f \in Secrets, PublishSecret(p, f)
  PROVE  FilesInv'
<1> DEFINE new == [proc[p] EXCEPT !.pc = f]
<1>1. f \in Stages /\ Publishing(f) \in Stages /\ f # Publishing(f)
  BY DEF Stages, Publishing, Secrets
<1>2. new \in Process /\ proc' = [proc EXCEPT ![p] = new]
  BY <1>1, GoTypes DEF PublishSecret, FilesInv
<1>3. /\ proc[p] \in Process /\ new.pc = f
      /\ \A g \in Secrets : new[g] = proc[p][g]
      /\ new.alone = proc[p].alone
  BY DEF FilesInv, StateTypes, Process, Secrets
<1>4. UNCHANGED <<tlsKey, tlsCert, minted>> /\ proc[p].pc = Publishing(f)
  BY DEF PublishSecret, At
<1>5. secret' \in [Secrets -> Nat]
  <2>1. proc[p][f] \in Nat
    BY <1>3 DEF Process, Secrets
  <2>2. QED
    BY <2>1 DEF PublishSecret, Link, FilesInv, StateTypes
<1>6. \A g \in Secrets : secret[g] # 0 => secret'[g] = secret[g]
  BY DEF PublishSecret, Link, FilesInv, StateTypes
<1>7. StateTypes'
  BY <1>2, <1>4, <1>5, ProcTypes DEF FilesInv, StateTypes
<1>8. KeyAgreement'
  <2>1. ASSUME NEW q \in Procs, NEW g \in Secrets, Opened(q, g)'
        PROVE  proc'[q][g] = secret'[g]
    <3>1. proc'[q][g] = proc[q][g] /\ proc'[q][g] # 0
      BY <1>2, <1>3, <2>1, ProcTypes DEF FilesInv, Opened
    <3>2. Opened(q, g)
      <4>1. CASE q = p
        <5>1. g # f
          BY <1>2, <1>3, <2>1, <4>1, ProcTypes DEF FilesInv, Opened, At
        <5>2. proc[p].pc # g /\ proc[p].pc # Publishing(g)
          BY <1>4, <5>1 DEF Publishing, Secrets
        <5>3. QED
          BY <3>1, <4>1, <5>2 DEF Opened, At
      <4>2. CASE q # p
        BY <1>2, <2>1, <4>2, ProcTypes DEF FilesInv, Opened, At
      <4>3. QED
        BY <4>1, <4>2
    <3>3. QED
      BY <1>6, <3>1, <3>2 DEF FilesInv, KeyAgreement
  <2>2. QED
    BY <2>1 DEF KeyAgreement
<1>9. LonePairs'
  <2>1. ASSUME NEW q \in Procs, proc'[q].alone PROVE LonePair(q)'
    <3>1. proc[q].alone
      BY <1>2, <1>3, <2>1, ProcTypes DEF FilesInv
    <3>2. LonePair(q)
      BY <3>1 DEF FilesInv, LonePairs
    <3>3. q = p
      BY <1>4, <3>2 DEF LonePair, At, Publishing, Secrets
    <3>4. PairKnown(new, tlsKey', tlsCert')
      BY <1>3 DEF PairKnown, Secrets
    <3>5. QED
      BY <1>2, <3>2, <3>3, <3>4, ProcTypes DEF FilesInv, LonePair, At
  <2>2. QED
    BY <2>1 DEF LonePairs
<1>10. QED
  BY <1>7, <1>8, <1>9 DEF FilesInv

(* The pair is made, and read, behind the secrets.                         *)
LEMMA PrepareKeeps ==
  ASSUME FilesInv, NEW p \in Procs, Prepare(p)
  PROVE  FilesInv'
<1> DEFINE went(pc) == [proc[p] EXCEPT !.pc = pc]
<1>1. proc[p] \in Process /\ tlsKey \in Nat /\ tlsCert \in Certificate /\ minted \in Nat
  BY DEF FilesInv, StateTypes
<1>2. proc[p].alone => PairKnown(proc[p], tlsKey, tlsCert)
  BY DEF FilesInv, LonePairs, LonePair
<1>3. \A pc \in Stages :
        /\ went(pc) \in Process /\ went(pc).pc = pc
        /\ went(pc).key = proc[p].key /\ went(pc).salt = proc[p].salt
        /\ went(pc).alone = proc[p].alone /\ went(pc).cert = proc[p].cert
        /\ went(pc).host = proc[p].host
  BY <1>1 DEF Process
<1>4. proc[p].cert.pair \in Nat /\ proc[p].cert \in Certificate
  BY <1>1 DEF Process, Certificate
<1>5. CASE \E f \in Secrets : ReadSecret(p, f) \/ PublishSecret(p, f)
  BY <1>5, ReadSecretKeeps, PublishSecretKeeps
<1>6. CASE Lock(p)
  <2>1. "check" \in Stages /\ proc' = [proc EXCEPT ![p] = went("check")]
    BY <1>6, GoTypes DEF Lock, Stages, FilesInv
  <2>2. PairKnown(went("check"), tlsKey', tlsCert')
    BY <1>3, <2>1 DEF PairKnown
  <2>3. QED
    BY <1>1, <1>3, <1>6, <2>1, <2>2, LaterStep DEF Lock, At, files, Stages
<1>7. CASE CheckPair(p)
  <2>1. CASE PairValid(p)
    <3>1. "load cert" \in Stages /\ proc' = [proc EXCEPT ![p] = went("load cert")]
      BY <1>7, <2>1, GoTypes DEF CheckPair, Stages, FilesInv
    <3>2. PairKnown(went("load cert"), tlsKey', tlsCert')
      BY <1>3, <1>7, <2>1, <3>1 DEF PairKnown, PairValid, CheckPair, files
    <3>3. QED
      BY <1>1, <1>3, <1>7, <2>1, <3>1, <3>2, LaterStep DEF CheckPair, At, files, Stages
  <2>2. CASE ~ PairValid(p)
    <3> DEFINE new == [proc[p] EXCEPT !.pc = "publish pair",
                                      !.cert = [pair |-> minted + 1, host |-> proc[p].host]]
    <3>1. [pair |-> minted + 1, host |-> proc[p].host] \in Certificate
      BY <1>1 DEF Certificate, Process
    <3>2. /\ new \in Process /\ new.pc = "publish pair"
          /\ new.key = proc[p].key /\ new.salt = proc[p].salt /\ new.alone = proc[p].alone
          /\ new.cert.host = new.host
      BY <1>1, <3>1 DEF Process, Stages
    <3>3. proc' = [proc EXCEPT ![p] = new]
      <4>1. proc' = [proc EXCEPT ![p].pc = "publish pair",
                                 ![p].cert = [pair |-> minted + 1, host |-> proc[p].host]]
        BY <1>7, <2>2 DEF CheckPair
      <4>2. QED
        BY <1>1, <4>1 DEF FilesInv, StateTypes, Process
    <3>4. minted' \in Nat
      <4>1. minted' = minted + 1
        BY <1>7, <2>2 DEF CheckPair
      <4>2. QED
        BY <1>1, <4>1
    <3>5. PairKnown(new, tlsKey', tlsCert')
      BY <3>2 DEF PairKnown
    <3>6. QED
      BY <1>1, <1>7, <3>2, <3>3, <3>4, <3>5, LaterStep DEF CheckPair, At, files, Stages
  <2>3. QED
    BY <2>1, <2>2
<1>8. CASE PublishTlsKey(p)
  <2>1. "publish cert" \in Stages /\ proc' = [proc EXCEPT ![p] = went("publish cert")]
    BY <1>8, GoTypes DEF PublishTlsKey, Stages, FilesInv
  <2>2. proc[p].alone => PairKnown(went("publish cert"), tlsKey', tlsCert')
    BY <1>2, <1>3, <1>8, <2>1 DEF PairKnown, PublishTlsKey, At
  <2>3. QED
    BY <1>1, <1>3, <1>4, <1>8, <2>1, <2>2, LaterStep DEF PublishTlsKey, At, Stages
<1>9. CASE PublishCert(p)
  <2>1. "load cert" \in Stages /\ proc' = [proc EXCEPT ![p] = went("load cert")]
    BY <1>9, GoTypes DEF PublishCert, Stages, FilesInv
  <2>2. proc[p].alone => PairKnown(went("load cert"), tlsKey', tlsCert')
    BY <1>2, <1>3, <1>9, <2>1 DEF PairKnown, PublishCert, At
  <2>3. QED
    BY <1>1, <1>3, <1>4, <1>9, <2>1, <2>2, LaterStep DEF PublishCert, At, Stages
<1>10. CASE LoadCert(p)
  <2> DEFINE new == [proc[p] EXCEPT !.cert = tlsCert, !.pc = "load key"]
  <2>1. /\ new \in Process /\ new.pc = "load key" /\ new.cert = tlsCert
        /\ new.key = proc[p].key /\ new.salt = proc[p].salt /\ new.alone = proc[p].alone
        /\ new.host = proc[p].host
    BY <1>1 DEF Process, Stages
  <2>2. proc' = [proc EXCEPT ![p] = new]
    BY <1>1, <1>10 DEF LoadCert, FilesInv, StateTypes, Process
  <2>3. proc[p].alone => PairKnown(new, tlsKey', tlsCert')
    BY <1>2, <1>10, <2>1 DEF PairKnown, LoadCert, At, files
  <2>4. QED
    BY <1>1, <1>10, <2>1, <2>2, <2>3, LaterStep DEF LoadCert, At, files, Stages
<1>11. CASE LoadKey(p)
  <2>1. CASE Ends(p)
    BY <1>11, <2>1, EndsKeeps DEF LoadKey, At
  <2>2. CASE ~ Ends(p)
    <3>1. "bind" \in Stages /\ proc' = [proc EXCEPT ![p] = went("bind")]
      BY <1>11, <2>2, GoTypes DEF LoadKey, Stages, FilesInv
    <3>2. PairKnown(went("bind"), tlsKey', tlsCert')
      BY <1>3, <3>1 DEF PairKnown
    <3>3. UNCHANGED <<secret, tlsKey, tlsCert, minted>> /\ proc[p].pc = "load key"
      BY <1>11, <2>2 DEF LoadKey, At, files
    <3>4. proc[p].pc \in Stages \ {"dead", "key", "publish key", "salt", "publish salt"}
      BY <3>3 DEF Stages
    <3>5. /\ went("bind") \in Process
          /\ went("bind").key = proc[p].key /\ went("bind").salt = proc[p].salt
          /\ went("bind").alone = proc[p].alone
      BY <1>3, <3>1
    <3> HIDE DEF went
    <3>6. QED
      BY <1>1, <3>1, <3>2, <3>3, <3>4, <3>5, LaterStep
  <2>3. QED
    BY <2>1, <2>2
<1>12. CASE PortTaken(p)
  BY <1>12, EndsKeeps DEF PortTaken, At
<1>13. QED
  BY <1>5, <1>6, <1>7, <1>8, <1>9, <1>10, <1>11, <1>12 DEF Prepare

LEMMA BuildKeeps ==
  ASSUME FilesInv, NEW p \in Procs, Build(p)
  PROVE  FilesInv'
<1>1. PICK pc \in {"tls", "bind"} : Go(p, pc)
  BY DEF Build
<1> DEFINE new == [proc[p] EXCEPT !.pc = pc]
<1>a. pc \in Stages
  BY DEF Stages
<1>2. new \in Process /\ proc' = [proc EXCEPT ![p] = new]
  BY <1>1, <1>a, GoTypes DEF FilesInv
<1>3. /\ proc[p] \in Process /\ new.pc = pc /\ new.key = proc[p].key
      /\ new.salt = proc[p].salt /\ new.alone = proc[p].alone
  BY DEF FilesInv, StateTypes, Process
<1>4. PairKnown(new, tlsKey', tlsCert')
  BY <1>3 DEF PairKnown
<1>5. proc[p].pc = "app" /\ UNCHANGED <<secret, tlsKey, tlsCert, minted>>
  BY DEF Build, At, files
<1>6. QED
  BY <1>2, <1>3, <1>4, <1>5, LaterStep DEF Stages, FilesInv, StateTypes

LEMMA FilesStep ==
  ASSUME FilesInv, StartupNext
  PROVE  FilesInv'
<1>1. ASSUME NEW p \in Procs, NEW h \in Hosts \union {None}, Launch(p, h) PROVE FilesInv'
  BY <1>1, LaunchKeeps
<1>2. ASSUME NEW p \in Procs, Prepare(p) PROVE FilesInv'
  BY <1>2, PrepareKeeps
<1>3. ASSUME NEW p \in Procs, Answer(p) \/ Die(p) \/ Stop(p) PROVE FilesInv'
  BY <1>3, EndsKeeps DEF Answer, Die, Stop, At
<1>4. ASSUME NEW p \in Procs, Bind(p) PROVE FilesInv'
  <2> DEFINE new == [proc[p] EXCEPT !.pc = "serve"]
  <2>1. new \in Process /\ proc' = [proc EXCEPT ![p] = new]
    BY <1>4, GoTypes DEF Bind, Stages, FilesInv
  <2>2. /\ proc[p] \in Process /\ new.pc = "serve" /\ new.key = proc[p].key
        /\ new.salt = proc[p].salt /\ new.alone = proc[p].alone
    BY DEF FilesInv, StateTypes, Process
  <2>3. PairKnown(new, tlsKey', tlsCert')
    BY <2>2 DEF PairKnown
  <2>4. QED
    BY <1>4, <2>1, <2>2, <2>3, LaterStep DEF Bind, At, files, Stages, FilesInv, StateTypes
<1>5. ASSUME NEW p \in Procs, Build(p) PROVE FilesInv'
  BY <1>5, BuildKeeps
<1>6. QED
  BY <1>1, <1>2, <1>3, <1>4, <1>5 DEF StartupNext

LEMMA FilesInitially == StartupInit => FilesInv
<1>1. ASSUME StartupInit PROVE FilesInv
  <2>1. StateTypes
    BY <1>1, DeadType DEF StartupInit, StateTypes, Certificate, Secrets
  <2>2. \A f \in Secrets : Dead[f] = 0
    BY DEF Dead, Secrets
  <2>3. KeyAgreement
    BY <1>1, <2>2 DEF StartupInit, KeyAgreement, Opened
  <2>4. LonePairs
    BY <1>1 DEF StartupInit, LonePairs, Dead
  <2>5. QED
    BY <2>1, <2>3, <2>4 DEF FilesInv
<1>2. QED
  BY <1>1

LEMMA FilesHold == StartupSpec => []FilesInv
<1>1. FilesInv /\ [StartupNext]_startupVars => FilesInv'
  <2>1. FilesInv /\ UNCHANGED startupVars => FilesInv'
    BY DEF startupVars, files, FilesInv, StateTypes, KeyAgreement, Opened, LonePairs,
           LonePair, PairKnown, At
  <2>2. QED
    BY <2>1, FilesStep
<1>2. QED
  BY <1>1, FilesInitially, PTL DEF StartupSpec

(* However many processes race to create the key and the salt, each that   *)
(* takes them from the files goes on with the ones that are there; one     *)
(* that has the key from its environment shares the salt.                  *)
THEOREM KeysAgree == StartupSpec => []KeyAgreement
<1>1. FilesInv => KeyAgreement
  BY DEF FilesInv
<1>2. QED
  BY <1>1, FilesHold, PTL

(* Whatever dead processes left, a server that is alone loads a matching   *)
(* pair that covers its address.                                           *)
THEOREM LoneServersStart == StartupSpec => []LonePairMatches
<1>1. FilesInv => LonePairMatches
  BY DEF FilesInv, LonePairs, LonePair, PairKnown, LonePairMatches, At
<1>2. QED
  BY <1>1, FilesHold, PTL

-----------------------------------------------------------------------------
(***************************************************************************)
(* Startup: who listens, and who generates a pair.                         *)
(***************************************************************************)

Generating == {"check", "publish pair", "publish cert"}

(* Stages of a process that binds no address.                              *)
ProbeStages == {"key", "publish key", "salt", "publish salt", "answer"}

(* One process listens, and one at a time generates a pair.                *)
Exclusive ==
  /\ lock \in Procs \union {None} /\ port \in Procs \union {None}
  /\ \A p \in Procs : At(p, "serve") <=> port = p
  /\ \A p \in Procs : lock = p <=> proc[p].pc \in Generating

(* One process changes its stage, and what it holds with it.               *)
LEMMA ExclusiveKept ==
  ASSUME Exclusive, NEW p \in Procs,
         \A q \in Procs : q # p => proc'[q].pc = proc[q].pc,
         lock' \in Procs \union {None}, port' \in Procs \union {None},
         \A q \in Procs : q # p => (lock' = q <=> lock = q) /\ (port' = q <=> port = q),
         At(p, "serve")' <=> port' = p,
         proc'[p].pc \in Generating <=> lock' = p
  PROVE  Exclusive'
<1>1. ASSUME NEW q \in Procs, q # p
      PROVE  (At(q, "serve")' <=> port' = q) /\ (lock' = q <=> proc'[q].pc \in Generating)
  BY <1>1 DEF Exclusive, At
<1>2. QED
  BY <1>1 DEF Exclusive

(* A process that ends lets go of what it held.                            *)
LEMMA ExclusiveEnds ==
  ASSUME StateTypes, Exclusive, NEW p \in Procs, Ends(p)
  PROVE  Exclusive'
<1>1. proc'[p] = Dead /\ \A q \in Procs : q # p => proc'[q] = proc[q]
  BY DEF Ends, StateTypes
<1>2. /\ lock' = IF lock = p THEN None ELSE lock
      /\ port' = IF port = p THEN None ELSE port
  BY DEF Ends
<1>3. lock' # p /\ port' # p
  BY <1>2
<1>4. proc'[p].pc = "dead"
  BY <1>1 DEF Dead
<1>5. ~ At(p, "serve")' /\ proc'[p].pc \notin Generating
  BY <1>4 DEF At, Generating
<1>6. lock' \in Procs \union {None} /\ port' \in Procs \union {None}
  BY <1>2 DEF Exclusive
<1>7. QED
  BY <1>1, <1>2, <1>3, <1>5, <1>6, ExclusiveKept

(* What a process becomes when it is launched.                             *)
LEMMA LaunchMoves ==
  ASSUME StateTypes, NEW p \in Procs, NEW h \in Hosts \union {None}, Launch(p, h)
  PROVE  /\ At(p, "dead") /\ UNCHANGED <<lock, port>>
         /\ proc'[p].pc \in FirstStages /\ proc'[p].host = h
         /\ \A q \in Procs : q # p => /\ proc'[q].pc = proc[q].pc
                                      /\ proc'[q].host = proc[q].host
<1>1. At(p, "dead") /\ UNCHANGED <<lock, port>>
  BY DEF Launch
<1>2. PICK first \in FirstStages :
        proc'[p] = [Dead EXCEPT !.pc = first, !.host = h,
                                !.alone = \A o \in Procs : At(o, "dead")]
  BY DEF Launch
<1>3. proc'[p].pc \in FirstStages /\ proc'[p].host = h
  BY <1>2 DEF Dead
<1>4. ASSUME NEW q \in Procs, q # p
      PROVE  proc'[q].pc = proc[q].pc /\ proc'[q].host = proc[q].host
  <2>1. proc'[q] = [proc[q] EXCEPT !.alone = FALSE]
    BY <1>4 DEF Launch
  <2>2. proc[q] \in Process
    BY DEF StateTypes
  <2>3. QED
    BY <2>1, <2>2 DEF Process
<1>5. QED
  BY <1>1, <1>3, <1>4

(* The stage a process reaches keeps its address.                          *)
LEMMA GoMoves ==
  ASSUME StateTypes, NEW p \in Procs, NEW pc \in Stages, Go(p, pc)
  PROVE  /\ proc'[p].pc = pc /\ proc'[p].host = proc[p].host
         /\ \A q \in Procs : q # p => proc'[q] = proc[q]
BY DEF StateTypes, Process, Go

(* Reading and publishing the key and the salt moves a process on.         *)
LEMMA SecretMoves ==
  ASSUME StateTypes, NEW p \in Procs, NEW f \in Secrets,
         ReadSecret(p, f) \/ PublishSecret(p, f)
  PROVE  /\ UNCHANGED <<lock, port>>
         /\ proc[p].pc \in ProbeStages \ {"answer"}
         /\ proc'[p].host = proc[p].host
         /\ proc'[p].pc \in ProbeStages \union {"app"}
         /\ proc[p].host = None => proc'[p].pc \in ProbeStages
         /\ \A q \in Procs : q # p => proc'[q] = proc[q]
<1>1. CASE ReadSecret(p, f)
  <2> DEFINE pc == IF secret[f] # 0 THEN AfterSecret(p, f) ELSE Publishing(f)
             v == IF secret[f] # 0 THEN secret[f] ELSE minted + 1
  <2>1. proc' = [proc EXCEPT ![p].pc = pc, ![p][f] = v]
    BY <1>1 DEF ReadSecret
  <2>2. /\ pc \in ProbeStages \union {"app"}
        /\ proc[p].host = None => pc \in ProbeStages
    BY DEF AfterSecret, Publishing, ProbeStages
  <2> HIDE DEF pc, v
  <2>3. proc[p] \in Process /\ proc \in [Procs -> Process]
    BY DEF StateTypes
  <2>4. proc'[p].pc = pc /\ proc'[p].host = proc[p].host
    BY <2>1, <2>3 DEF Process, Secrets
  <2>5. \A q \in Procs : q # p => proc'[q] = proc[q]
    BY <2>1, <2>3
  <2>6. UNCHANGED <<lock, port>> /\ proc[p].pc \in ProbeStages \ {"answer"}
    BY <1>1 DEF ReadSecret, At, Secrets, ProbeStages
  <2>7. QED
    BY <2>2, <2>4, <2>5, <2>6
<1>2. CASE PublishSecret(p, f)
  <2>1. Go(p, f) /\ f \in {"key", "salt"} /\ UNCHANGED <<lock, port>>
    BY <1>2 DEF PublishSecret, Secrets
  <2>2. proc[p].pc \in ProbeStages \ {"answer"}
    BY <1>2 DEF PublishSecret, At, Publishing, ProbeStages
  <2>3. QED
    BY <2>1, <2>2, GoMoves DEF Stages, ProbeStages
<1>3. QED
  BY <1>1, <1>2

(* A process prepares to serve: it keeps its address, listens to nothing   *)
(* yet, and ends up serving only if it has an address.                     *)
LEMMA PrepareMoves ==
  ASSUME StateTypes, Exclusive, NEW p \in Procs, Prepare(p)
  PROVE  /\ Exclusive'
         /\ UNCHANGED port /\ ~ At(p, "dead")
         /\ proc'[p].pc # "dead" => proc'[p].host = proc[p].host
         /\ (proc[p].pc \in ProbeStages /\ proc[p].host = None) => proc'[p].pc \in ProbeStages
         /\ \A q \in Procs : q # p => proc'[q] = proc[q]
<1> DEFINE Moves ==
      /\ Exclusive'
      /\ UNCHANGED port /\ ~ At(p, "dead")
      /\ proc'[p].pc # "dead" => proc'[p].host = proc[p].host
      /\ (proc[p].pc \in ProbeStages /\ proc[p].host = None) => proc'[p].pc \in ProbeStages
      /\ \A q \in Procs : q # p => proc'[q] = proc[q]
<1>1. ASSUME NEW f \in Secrets, ReadSecret(p, f) \/ PublishSecret(p, f) PROVE Moves
  <2>1. /\ UNCHANGED <<lock, port>> /\ proc[p].pc \in ProbeStages \ {"answer"}
        /\ proc'[p].host = proc[p].host /\ proc'[p].pc \in ProbeStages \union {"app"}
        /\ proc[p].host = None => proc'[p].pc \in ProbeStages
        /\ \A q \in Procs : q # p => proc'[q] = proc[q]
    BY <1>1, SecretMoves
  <2>2. ~ At(p, "dead") /\ lock # p /\ port # p
    BY <2>1 DEF Exclusive, At, ProbeStages, Generating
  <2>3. ~ At(p, "serve")' /\ proc'[p].pc \notin Generating
    BY <2>1 DEF At, ProbeStages, Generating
  <2>4. Exclusive'
    BY <2>1, <2>2, <2>3, ExclusiveKept DEF Exclusive
  <2>5. QED
    BY <2>1, <2>2, <2>4
<1>2. ASSUME NEW pc \in {"check", "publish pair", "publish cert", "load cert", "load key", "bind"},
             proc[p].pc \in {"tls", "check", "publish pair", "publish cert", "load cert",
                             "load key"},
             proc'[p].pc = pc, proc'[p].host = proc[p].host,
             \A q \in Procs : q # p => proc'[q] = proc[q],
             UNCHANGED port, lock' \in Procs \union {None},
             \A q \in Procs : q # p => (lock' = q <=> lock = q),
             pc \in Generating <=> lock' = p
      PROVE  Moves
  <2>1. ~ At(p, "dead") /\ port # p /\ ~ At(p, "serve")'
    BY <1>2 DEF Exclusive, At
  <2>2. proc[p].pc \notin ProbeStages
    BY <1>2 DEF ProbeStages
  <2>3. Exclusive'
    BY <1>2, <2>1, ExclusiveKept DEF Exclusive
  <2>4. QED
    BY <1>2, <2>1, <2>2, <2>3
<1>3. ASSUME proc[p].pc \in {"load key", "bind"}, Ends(p) PROVE Moves
  <2>1. /\ Exclusive' /\ proc'[p].pc = "dead"
        /\ \A q \in Procs : q # p => proc'[q] = proc[q]
    BY <1>3, ExclusiveEnds DEF Ends, StateTypes, Dead
  <2>2. port # p /\ ~ At(p, "dead") /\ proc[p].pc \notin ProbeStages
    BY <1>3 DEF Exclusive, At, ProbeStages
  <2>3. UNCHANGED port
    BY <1>3, <2>2 DEF Ends
  <2>4. QED
    BY <2>1, <2>2, <2>3
<1>4. CASE Lock(p)
  <2>1. /\ At(p, "tls") /\ lock = None /\ lock' = p /\ UNCHANGED port
        /\ proc'[p].pc = "check" /\ proc'[p].host = proc[p].host
        /\ \A q \in Procs : q # p => proc'[q] = proc[q]
    BY <1>4, GoMoves DEF Lock, Stages
  <2>2. QED
    BY <1>2, <2>1 DEF At, Generating
<1>5. CASE CheckPair(p)
  <2>1. At(p, "check") /\ UNCHANGED port /\ lock = p
    BY <1>5 DEF CheckPair, At, Exclusive, Generating
  <2>2. CASE PairValid(p)
    <3>1. /\ lock' = None
          /\ proc'[p].pc = "load cert" /\ proc'[p].host = proc[p].host
          /\ \A q \in Procs : q # p => proc'[q] = proc[q]
      BY <1>5, <2>2, GoMoves DEF CheckPair, Stages
    <3>2. QED
      BY <1>2, <2>1, <3>1 DEF At, Generating
  <2>3. CASE ~ PairValid(p)
    <3> DEFINE c == [pair |-> minted + 1, host |-> proc[p].host]
    <3>1. /\ proc' = [proc EXCEPT ![p].pc = "publish pair", ![p].cert = c]
          /\ UNCHANGED lock
      BY <1>5, <2>3 DEF CheckPair
    <3> HIDE DEF c
    <3>2. /\ proc'[p].pc = "publish pair" /\ proc'[p].host = proc[p].host
          /\ \A q \in Procs : q # p => proc'[q] = proc[q]
      BY <3>1 DEF StateTypes, Process
    <3>3. QED
      BY <1>2, <2>1, <3>1, <3>2 DEF At, Generating, Exclusive
  <2>4. QED
    BY <2>2, <2>3
<1>6. CASE PublishTlsKey(p)
  <2>1. /\ At(p, "publish pair") /\ UNCHANGED <<lock, port>> /\ lock = p
        /\ proc'[p].pc = "publish cert" /\ proc'[p].host = proc[p].host
        /\ \A q \in Procs : q # p => proc'[q] = proc[q]
    BY <1>6, GoMoves DEF PublishTlsKey, Stages, At, Exclusive, Generating
  <2>2. QED
    BY <1>2, <2>1 DEF At, Generating, Exclusive
<1>7. CASE PublishCert(p)
  <2>1. /\ At(p, "publish cert") /\ UNCHANGED port /\ lock = p /\ lock' = None
        /\ proc'[p].pc = "load cert" /\ proc'[p].host = proc[p].host
        /\ \A q \in Procs : q # p => proc'[q] = proc[q]
    BY <1>7, GoMoves DEF PublishCert, Stages, At, Exclusive, Generating
  <2>2. QED
    BY <1>2, <2>1 DEF At, Generating
<1>8. CASE LoadCert(p)
  <2>1. /\ proc' = [proc EXCEPT ![p].cert = tlsCert, ![p].pc = "load key"]
        /\ At(p, "load cert") /\ UNCHANGED <<lock, port>>
    BY <1>8 DEF LoadCert
  <2>2. /\ proc'[p].pc = "load key" /\ proc'[p].host = proc[p].host
        /\ \A q \in Procs : q # p => proc'[q] = proc[q]
    BY <2>1 DEF StateTypes, Process
  <2>3. lock # p
    BY <2>1 DEF Exclusive, At, Generating
  <2>4. QED
    BY <1>2, <2>1, <2>2, <2>3 DEF At, Generating, Exclusive
<1>9. CASE LoadKey(p)
  <2>1. CASE Ends(p)
    BY <1>3, <1>9, <2>1 DEF LoadKey, At
  <2>2. CASE Go(p, "bind") /\ UNCHANGED <<lock, port>>
    <3>1. /\ At(p, "load key")
          /\ proc'[p].pc = "bind" /\ proc'[p].host = proc[p].host
          /\ \A q \in Procs : q # p => proc'[q] = proc[q]
      BY <1>9, <2>2, GoMoves DEF LoadKey, Stages
    <3>2. lock # p
      BY <3>1 DEF Exclusive, At, Generating
    <3>3. QED
      BY <1>2, <2>2, <3>1, <3>2 DEF At, Generating, Exclusive
  <2>3. QED
    BY <1>9, <2>1, <2>2 DEF LoadKey
<1>10. CASE PortTaken(p)
  BY <1>3, <1>10 DEF PortTaken, At
<1>11. QED
  BY <1>1, <1>4, <1>5, <1>6, <1>7, <1>8, <1>9, <1>10 DEF Prepare

(* A process that builds its AppState had an address.                      *)
LEMMA BuildMoves ==
  ASSUME StateTypes, Exclusive, NEW p \in Procs, Build(p)
  PROVE  /\ Exclusive'
         /\ UNCHANGED port /\ At(p, "app")
         /\ proc'[p].pc # "dead" /\ proc'[p].host = proc[p].host
         /\ \A q \in Procs : q # p => proc'[q] = proc[q]
<1>1. PICK pc \in {"tls", "bind"} : Go(p, pc)
  BY DEF Build
<1>2. At(p, "app") /\ UNCHANGED <<lock, port>>
  BY DEF Build
<1>3. /\ proc'[p].pc = pc /\ proc'[p].host = proc[p].host
      /\ \A q \in Procs : q # p => proc'[q] = proc[q]
  BY <1>1, GoMoves DEF Stages
<1>4. lock # p /\ port # p
  BY <1>2 DEF Exclusive, At, Generating
<1>5. ~ At(p, "serve")' /\ proc'[p].pc \notin Generating
  BY <1>3 DEF At, Generating
<1>6. Exclusive'
  BY <1>2, <1>3, <1>4, <1>5, ExclusiveKept DEF Exclusive
<1>7. QED
  BY <1>2, <1>3, <1>6

(* A process that has a pair takes the port when it is free.               *)
LEMMA BindMoves ==
  ASSUME StateTypes, Exclusive, NEW p \in Procs, Bind(p)
  PROVE  /\ Exclusive'
         /\ At(p, "bind") /\ port = None /\ port' = p
         /\ proc'[p].pc = "serve" /\ proc'[p].host = proc[p].host
         /\ \A q \in Procs : q # p => proc'[q] = proc[q]
<1>1. /\ At(p, "bind") /\ port = None /\ port' = p /\ UNCHANGED lock
      /\ proc'[p].pc = "serve" /\ proc'[p].host = proc[p].host
      /\ \A q \in Procs : q # p => proc'[q] = proc[q]
  BY GoMoves DEF Bind, Stages
<1>2. lock # p /\ proc'[p].pc \notin Generating
  BY <1>1 DEF Exclusive, At, Generating
<1>3. Exclusive'
  BY <1>1, <1>2, ExclusiveKept DEF Exclusive, At
<1>4. QED
  BY <1>1, <1>3

LEMMA ExclusiveStep ==
  ASSUME StateTypes, Exclusive, [StartupNext]_startupVars
  PROVE  Exclusive'
<1>1. ASSUME NEW p \in Procs, NEW h \in Hosts \union {None}, Launch(p, h) PROVE Exclusive'
  <2>1. lock # p /\ port # p
    BY <1>1, LaunchMoves DEF Exclusive, At, Generating
  <2>2. ~ At(p, "serve")' /\ proc'[p].pc \notin Generating
    BY <1>1, LaunchMoves DEF At, Generating, FirstStages
  <2>3. QED
    BY <1>1, <2>1, <2>2, LaunchMoves, ExclusiveKept DEF Exclusive
<1>2. ASSUME NEW p \in Procs, Answer(p) \/ Die(p) \/ Stop(p) PROVE Exclusive'
  BY <1>2, ExclusiveEnds DEF Answer, Die, Stop
<1>3. ASSUME NEW p \in Procs, Prepare(p) \/ Build(p) \/ Bind(p) PROVE Exclusive'
  BY <1>3, PrepareMoves, BuildMoves, BindMoves
<1>4. CASE UNCHANGED startupVars
  BY <1>4 DEF startupVars, Exclusive, At
<1>5. QED
  BY <1>1, <1>2, <1>3, <1>4 DEF StartupNext

LEMMA ExclusiveInitially == StartupInit => Exclusive
<1> SUFFICES ASSUME StartupInit PROVE Exclusive
  OBVIOUS
<1>1. lock = None /\ port = None /\ \A p \in Procs : proc[p] = Dead
  BY DEF StartupInit
<1>2. \A p \in Procs : p # None /\ proc[p].pc = "dead"
  BY <1>1 DEF Dead
<1>3. QED
  BY <1>1, <1>2 DEF Exclusive, At, Generating

(* Files and processes keep their types; one process listens, and the      *)
(* generation lock belongs to one that checks or writes a pair.            *)
THEOREM StartupTypes == StartupSpec => []StartupTypeOK
<1>1. FilesInv /\ Exclusive => StartupTypeOK
  BY DEF FilesInv, StateTypes, Exclusive, Certificate, Generating, StartupTypeOK
<1>2. FilesInv /\ Exclusive /\ [StartupNext]_startupVars => Exclusive'
  BY ExclusiveStep DEF FilesInv
<1>3. QED
  BY <1>1, <1>2, FilesHold, ExclusiveInitially, PTL DEF StartupSpec

-----------------------------------------------------------------------------
(***************************************************************************)
(* The composition.                                                        *)
(***************************************************************************)

MenubarTypes ==
  /\ menubar \in [pc : {"off", "first", "spawn", "run", "again"}, secret : BOOLEAN,
                  child : Procs \union {None}, probe : Procs \union {None}]
  /\ app \in [Procs -> Built]

LEMMA MenubarInitially == Init => MenubarTypes
BY DEF Init, MenubarTypes, Absent, Built, Supplied

(* The secrets processes have, after a step of any of them.                *)
LEMMA AppTypes ==
  ASSUME MenubarTypes, [Next]_vars
  PROVE  app' \in [Procs -> Built]
<1>1. ASSUME NEW p \in Procs, NEW h, NEW supplied \in Supplied, Begins(p, h, supplied)
      PROVE  app' \in [Procs -> Built]
  BY <1>1 DEF Begins, MenubarTypes, Built
<1>2. ASSUME app' = Kept PROVE app' \in [Procs -> Built]
  BY <1>2 DEF Kept, MenubarTypes, Built, Supplied
<1>3. ASSUME UNCHANGED app PROVE app' \in [Procs -> Built]
  BY <1>3 DEF MenubarTypes
<1>4. ASSUME NEW p \in Procs, Builds(p) PROVE app' \in [Procs -> Built]
  <2>1. AppSecret(app[p]) \in Built
    BY DEF AppSecret, MenubarTypes, Built
  <2>2. QED
    BY <1>4, <2>1 DEF Builds, MenubarTypes
<1>5. ASSUME NEW p \in Procs,
             \/ Serves(p) \/ Prepares(p) \/ Dies(p) \/ ProbeAnswers(p) \/ ProbeDies(p)
             \/ Quit \/ MenubarDies \/ Requested
      PROVE  app' = Kept \/ UNCHANGED app
  BY <1>5 DEF Serves, Prepares, Dies, ProbeAnswers, ProbeDies, ProbeReturns, Quit, MenubarDies,
              Requested
<1>6. ASSUME NEW p \in Procs, OpenMenubar(p) \/ Refresh(p) PROVE app' \in [Procs -> Built]
  BY <1>1, <1>6 DEF OpenMenubar, Refresh, Probe, Supplied
<1>7. ASSUME NEW p \in Procs, NEW h \in Hosts, StartsAlone(p, h) \/ Spawn(p, h)
      PROVE  app' \in [Procs -> Built]
  BY <1>1, <1>7 DEF StartsAlone, Spawn, Passed, Supplied
<1>8. CASE Quit \/ MenubarDies \/ Requested
  BY <1>2, <1>3, <1>8 DEF Quit, MenubarDies, Requested
<1>9. CASE UNCHANGED vars
  BY <1>3, <1>9 DEF vars
<1>10. QED
  BY <1>2, <1>3, <1>4, <1>5, <1>6, <1>7, <1>8, <1>9 DEF Next

MenubarRecord ==
  menubar \in [pc : {"off", "first", "spawn", "run", "again"}, secret : BOOLEAN,
               child : Procs \union {None}, probe : Procs \union {None}]

LEMMA MenubarStep ==
  ASSUME MenubarTypes, [Next]_vars
  PROVE  MenubarTypes'
<1>1. ASSUME NEW p \in Procs, menubar' = Reaped(p) PROVE MenubarRecord'
  BY <1>1 DEF Reaped, MenubarTypes, MenubarRecord
<1>2. ASSUME NEW p \in Procs, NEW failed \in BOOLEAN, ProbeReturns(p, failed)
      PROVE  MenubarRecord'
  <2> DEFINE still == (menubar.pc = "first" \/ menubar.secret) /\ (failed \/ ~ SetupComplete)
             pc == IF menubar.pc = "first" THEN "spawn" ELSE "run"
  <2>1. still \in BOOLEAN /\ pc \in {"spawn", "run"}
    OBVIOUS
  <2>2. menubar' = [menubar EXCEPT !.probe = None, !.pc = pc, !.secret = still]
    BY <1>2 DEF ProbeReturns, MenubarTypes
  <2> HIDE DEF still, pc
  <2>3. QED
    BY <2>1, <2>2 DEF MenubarTypes, MenubarRecord
<1>3. ASSUME NEW p \in Procs, Builds(p) \/ Serves(p) \/ Prepares(p) \/ Dies(p)
      PROVE  MenubarRecord'
  BY <1>1, <1>3 DEF Builds, Serves, Prepares, Dies, MenubarTypes, MenubarRecord
<1>4. ASSUME NEW p \in Procs, ProbeAnswers(p) \/ ProbeDies(p) PROVE MenubarRecord'
  BY <1>2, <1>4 DEF ProbeAnswers, ProbeDies
<1>5. ASSUME NEW p \in Procs, OpenMenubar(p) \/ Refresh(p) PROVE MenubarRecord'
  <2>1. \A pc \in {"first", "again"} :
          Probe(p, pc) => menubar' = [menubar EXCEPT !.pc = pc, !.probe = p]
    BY DEF Probe
  <2>2. \A pc \in {"first", "again"} : Probe(p, pc) => MenubarRecord'
    BY <2>1 DEF MenubarTypes, MenubarRecord
  <2>3. QED
    BY <1>5, <2>2 DEF OpenMenubar, Refresh
<1>6. ASSUME NEW p \in Procs, NEW h \in Hosts, StartsAlone(p, h) \/ Spawn(p, h)
      PROVE  MenubarRecord'
  <2>1. CASE StartsAlone(p, h)
    BY <2>1 DEF StartsAlone, MenubarTypes, MenubarRecord
  <2>2. CASE Spawn(p, h)
    <3>1. menubar' = [menubar EXCEPT !.pc = "run", !.child = p]
      BY <2>2 DEF Spawn
    <3>2. QED
      BY <3>1 DEF MenubarTypes, MenubarRecord
  <2>3. QED
    BY <1>6, <2>1, <2>2
<1>7. ASSUME Quit \/ MenubarDies PROVE MenubarRecord'
  <2>1. menubar' = Absent
    BY <1>7 DEF Quit, MenubarDies
  <2>2. QED
    BY <2>1 DEF Absent, MenubarRecord
<1>8. ASSUME Requested \/ UNCHANGED vars PROVE MenubarRecord'
  BY <1>8 DEF Requested, vars, MenubarTypes, MenubarRecord
<1>9. MenubarRecord'
  BY <1>3, <1>4, <1>5, <1>6, <1>7, <1>8 DEF Next
<1>10. QED
  BY <1>9, AppTypes DEF MenubarTypes, MenubarRecord

(* A step of the installation is a step of its processes, or none.         *)
LEMMA StartupMoves ==
  ASSUME MenubarTypes, [Next]_vars
  PROVE  [StartupNext]_startupVars
<1>1. ASSUME NEW p \in Procs,
             \/ Builds(p) \/ Serves(p) \/ Prepares(p) \/ Dies(p)
             \/ ProbeAnswers(p) \/ ProbeDies(p)
      PROVE  StartupNext
  BY <1>1 DEF Builds, Serves, Prepares, Dies, ProbeAnswers, ProbeDies, StartupNext
<1>2. ASSUME NEW p \in Procs, OpenMenubar(p) \/ Refresh(p) PROVE StartupNext
  BY <1>2 DEF OpenMenubar, Refresh, Probe, Begins, StartupNext
<1>3. ASSUME NEW p \in Procs, NEW h \in Hosts, StartsAlone(p, h) \/ Spawn(p, h)
      PROVE  StartupNext
  BY <1>3 DEF StartsAlone, Spawn, Begins, StartupNext
<1>4. CASE Quit
  BY <1>4 DEF Quit, StartupNext, MenubarTypes
<1>5. CASE Requested \/ MenubarDies \/ UNCHANGED vars
  BY <1>5 DEF Requested, MenubarDies, vars
<1>6. QED
  BY <1>1, <1>2, <1>3, <1>4, <1>5 DEF Next

(* And it is a step of the accounts of its server, or none.                *)
LEMMA AccountsMove ==
  ASSUME MenubarTypes, [Next]_vars
  PROVE  [AccountsNext]_accountsVars
<1>1. ASSUME NEW p \in Procs, Serves(p) PROVE AccountsNext
  BY <1>1 DEF Serves, MenubarTypes, Built, AccountsNext
<1>2. ASSUME NEW p, Memory(p) PROVE [AccountsNext]_accountsVars
  BY <1>2 DEF Memory, AccountsNext
<1>3. ASSUME NEW p \in Procs, Dies(p) PROVE [AccountsNext]_accountsVars
  BY <1>2, <1>3 DEF Dies
<1>4. CASE Quit
  BY <1>2, <1>4 DEF Quit
<1>5. CASE Requested
  BY <1>5 DEF Requested, AccountsNext
<1>6. ASSUME UNCHANGED accountsVars PROVE [AccountsNext]_accountsVars
  BY <1>6
<1>7. ASSUME NEW p \in Procs,
             \/ Builds(p) \/ Prepares(p) \/ ProbeAnswers(p) \/ ProbeDies(p) \/ OpenMenubar(p) \/ Refresh(p)
             \/ \E h \in Hosts : StartsAlone(p, h) \/ Spawn(p, h)
      PROVE  UNCHANGED accountsVars
  BY <1>7 DEF Builds, Prepares, ProbeAnswers, ProbeDies, ProbeReturns, OpenMenubar, Refresh, Probe,
              StartsAlone, Spawn
<1>8. CASE MenubarDies \/ UNCHANGED vars
  BY <1>8 DEF MenubarDies, vars
<1>9. QED
  BY <1>1, <1>3, <1>4, <1>5, <1>6, <1>7, <1>8 DEF Next

(* The installation implements both of its parts: menu bar and service     *)
(* manager do to the processes, and to the server that holds the port,     *)
(* nothing that Startup and Accounts do not allow for.                     *)
THEOREM ImplementsParts == Spec => StartupSpec /\ AccountsSpec
<1>1. Init => MenubarTypes /\ StartupInit /\ AccountsInit
  BY MenubarInitially DEF Init
<1>2. MenubarTypes /\ [Next]_vars => MenubarTypes' /\ [StartupNext]_startupVars
  BY MenubarStep, StartupMoves
<1>3. MenubarTypes /\ [Next]_vars => [AccountsNext]_accountsVars
  BY AccountsMove
<1>4. QED
  BY <1>1, <1>2, <1>3, PTL DEF Spec, StartupSpec, AccountsSpec

(* Sessions, set-ups, logins, secrets and pairs are safe also while the    *)
(* processes of the installation are started, stopped and killed: what is  *)
(* proved of Startup and of Accounts holds of the whole.                   *)
THEOREM InstallationSafe ==
  Spec => [](NoOldSession /\ SetupOnce /\ GuessesBounded /\ KeyAgreement /\ LonePairMatches)
BY ImplementsParts, SessionsFenced, SetupHappensOnce, LoginsThrottled, KeysAgree,
   LoneServersStart, PTL

-----------------------------------------------------------------------------
(***************************************************************************)
(* The composition is safe: the handles of the menu bar name processes     *)
(* that live, and the secret it shows is the one its server has.           *)
(***************************************************************************)

(* Its server has an address, its probe has none: they are not the same.   *)
HandlesLive ==
  /\ menubar.child # None =>
       /\ menubar.pc \in {"run", "again"}
       /\ ~ At(menubar.child, "dead") /\ proc[menubar.child].host # None
  /\ menubar.probe # None =>
       proc[menubar.probe].host = None /\ proc[menubar.probe].pc \in ProbeStages
  /\ menubar.probe # None <=> menubar.pc \in {"first", "again"}

PartsInv == MenubarTypes /\ FilesInv /\ Exclusive /\ AccountsInv

(* The server of the application was given the secret that is shown.       *)
Given == menubar.child # None /\ menubar.secret => app[menubar.child] = "menu bar"

WholeInv == PartsInv /\ HandlesLive /\ Given /\ (up <=> port # None) /\ ShownSecretWorks

LEMMA PartsStep ==
  ASSUME PartsInv, [Next]_vars
  PROVE  PartsInv'
<1>1. MenubarTypes' /\ [StartupNext]_startupVars /\ [AccountsNext]_accountsVars
  BY MenubarStep, StartupMoves, AccountsMove DEF PartsInv
<1>2. FilesInv'
  <2>1. CASE UNCHANGED startupVars
    BY <2>1 DEF startupVars, files, PartsInv, FilesInv, StateTypes, KeyAgreement, Opened,
                LonePairs, LonePair, PairKnown, At
  <2>2. QED
    BY <1>1, <2>1, FilesStep DEF PartsInv
<1>3. Exclusive'
  BY <1>1, ExclusiveStep DEF PartsInv, FilesInv
<1>4. AccountsInv'
  BY <1>1, AccountsStep DEF PartsInv
<1>5. QED
  BY <1>1, <1>2, <1>3, <1>4 DEF PartsInv

(* A server in which setup remains to be done keeps its secret.            *)
LEMMA SecretKept ==
  ASSUME AccountsInv, AccountsInv', Serve, ~ SetupComplete'
  PROVE  ~ SetupComplete /\ UNCHANGED bootstrap
<1>1. First \in Users /\ First \in Admins
  BY AccountsAssumption
<1>2. ~ users'[First].exists
  BY <1>1 DEF SetupComplete
<1>3. [AccountsNext]_accountsVars /\ RowTypes
  BY DEF AccountsNext, AccountsInv, SessionInv
<1>4. ~ SetupComplete
  <2>1. \A u \in Admins : u \in Users
    BY AccountsAssumption
  <2>2. \A u \in Admins : users[u].exists => users'[u].exists
    BY <1>3, <2>1, AccountsStay
  <2>3. QED
    BY <2>2 DEF SetupComplete
<1>5. ASSUME NEW r \in Requests, FinishSetup(r) PROVE FALSE
  <2>1. RowTypes /\ RowTypes'
    BY DEF AccountsInv, SessionInv
  <2>2. CASE FirstStill
    BY <1>1, <1>2, <1>5, <2>1, <2>2 DEF FinishSetup, RowTypes
  <2>3. CASE ~ FirstStill
    <3>1. users[First].exists
      BY <2>3 DEF AccountsInv, FirstAdmin
    <3>2. QED
      BY <1>1, <1>4, <3>1 DEF SetupComplete
  <2>4. QED
    BY <2>2, <2>3
<1>6. ASSUME RefuseSetup PROVE FALSE
  BY <1>4, <1>6 DEF RefuseSetup
<1>7. ASSUME NEW r \in Requests, Handle(r) PROVE UNCHANGED bootstrap
  BY <1>5, <1>7 DEF Handle, FailLogin, CreateSession, LoginOvertaken, Forgive, CreateUser,
                    ResetPassword
<1>8. ASSUME NEW r \in Requests, NEW pw \in Passwords,
             \/ Setup(r, pw)
             \/ \E u \in Users, a \in Addresses : Login(r, u, pw, a)
             \/ \E u \in Users, s \in sessions, pc \in {"create", "reset"} :
                  Administer(r, s, pc, u, pw)
      PROVE  UNCHANGED bootstrap
  BY <1>8 DEF Setup, Login, Administer, Begin
<1>9. ASSUME NEW a \in Addresses, Age(a) PROVE UNCHANGED bootstrap
  BY <1>9 DEF Age
<1>10. ASSUME NEW s \in sessions, EndSession(s) PROVE UNCHANGED bootstrap
  BY <1>10 DEF EndSession
<1>11. QED
  BY <1>4, <1>6, <1>7, <1>8, <1>9, <1>10 DEF Serve

LEMMA ServeRuns == ASSUME Serve, up \in BOOLEAN PROVE UNCHANGED up
<1>1. ASSUME NEW r \in Requests, Handle(r) PROVE UNCHANGED up
  BY <1>1 DEF Handle, FinishSetup, FailLogin, CreateSession, LoginOvertaken, Forgive,
              CreateUser, ResetPassword
<1>2. ASSUME NEW r \in Requests, NEW pw \in Passwords,
             \/ Setup(r, pw)
             \/ \E u \in Users, a \in Addresses : Login(r, u, pw, a)
             \/ \E u \in Users, s \in sessions, pc \in {"create", "reset"} :
                  Administer(r, s, pc, u, pw)
      PROVE  UNCHANGED up
  BY <1>2 DEF Setup, Login, Administer, Begin
<1>3. ASSUME NEW a \in Addresses, Age(a) PROVE UNCHANGED up
  BY <1>3 DEF Age
<1>4. ASSUME NEW s \in sessions, EndSession(s) PROVE UNCHANGED up
  BY <1>4 DEF EndSession
<1>5. CASE RefuseSetup
  BY <1>5 DEF RefuseSetup
<1>6. QED
  BY <1>1, <1>2, <1>3, <1>4, <1>5 DEF Serve

(* A step that is none of the server's: the secret shown is no newer.      *)
LEMMA ShownKept ==
  ASSUME ShownSecretWorks, UNCHANGED <<port, users, bootstrap>>,
         menubar'.secret /\ port # None /\ menubar'.child = port
           => menubar.secret /\ menubar.child = port
  PROVE  ShownSecretWorks'
BY DEF ShownSecretWorks, SetupComplete

(* The server the application still has keeps what it was given.           *)
LEMMA GivenKept ==
  ASSUME MenubarTypes, Given, HandlesLive', app' = Kept,
         menubar'.child # None /\ menubar'.secret => menubar.secret,
         menubar'.child \in {menubar.child, None}
  PROVE  Given'
<1> SUFFICES ASSUME menubar'.child # None, menubar'.secret
             PROVE  app'[menubar'.child] = "menu bar"
  BY DEF Given
<1>1. /\ menubar'.child = menubar.child /\ menubar.child \in Procs
      /\ app[menubar.child] = "menu bar"
  BY DEF Given, MenubarTypes
<1>2. proc'[menubar.child].pc # "dead"
  BY <1>1 DEF HandlesLive, At
<1>3. QED
  BY <1>1, <1>2 DEF Kept

(* What is left of the handles when a process takes a step.                *)
LEMMA ReapedHandles ==
  ASSUME MenubarTypes, NEW p \in Procs, menubar' = Reaped(p)
  PROVE  /\ menubar'.pc = menubar.pc /\ menubar'.secret = menubar.secret
         /\ menubar'.child = IF proc'[p].pc = "dead" /\ menubar.child = p THEN None
                             ELSE menubar.child
         /\ menubar'.probe = IF proc'[p].pc = "dead" /\ menubar.probe = p THEN None
                             ELSE menubar.probe
BY DEF Reaped, MenubarTypes

(* A process takes a step that its probe does not die of.                  *)
LEMMA HandlesReaped ==
  ASSUME MenubarTypes, HandlesLive, NEW p \in Procs, menubar' = Reaped(p),
         \A q \in Procs : q # p => proc'[q] = proc[q],
         proc'[p].pc # "dead" => proc'[p].host = proc[p].host,
         menubar.probe = p => proc'[p].pc \in ProbeStages
  PROVE  HandlesLive'
<1>1. /\ menubar'.pc = menubar.pc
      /\ menubar'.child = IF proc'[p].pc = "dead" /\ menubar.child = p THEN None
                          ELSE menubar.child
      /\ menubar'.probe = IF proc'[p].pc = "dead" /\ menubar.probe = p THEN None
                          ELSE menubar.probe
      /\ menubar.child \in Procs \union {None} /\ menubar.probe \in Procs \union {None}
  BY ReapedHandles DEF MenubarTypes
<1>2. menubar'.probe = menubar.probe
  BY <1>1 DEF ProbeStages
<1>3. menubar'.child # None =>
        /\ menubar'.pc \in {"run", "again"}
        /\ proc'[menubar'.child].pc # "dead" /\ proc'[menubar'.child].host # None
  <2>1. ASSUME menubar'.child # None
        PROVE  proc'[menubar'.child].pc # "dead" /\ proc'[menubar'.child].host # None
    <3>1. /\ menubar'.child = menubar.child /\ menubar.child \in Procs
          /\ proc[menubar.child].pc # "dead" /\ proc[menubar.child].host # None
      BY <1>1, <2>1 DEF HandlesLive, At
    <3>2. CASE menubar.child = p
      BY <1>1, <2>1, <3>1, <3>2
    <3>3. CASE menubar.child # p
      BY <3>1, <3>3
    <3>4. QED
      BY <3>2, <3>3
  <2>2. QED
    BY <1>1, <2>1 DEF HandlesLive, At
<1>4. menubar'.probe # None =>
        proc'[menubar'.probe].host = None /\ proc'[menubar'.probe].pc \in ProbeStages
  <2>1. CASE menubar.probe = p
    BY <1>2, <2>1 DEF HandlesLive, ProbeStages
  <2>2. CASE menubar.probe # p
    BY <1>1, <1>2, <2>2 DEF HandlesLive
  <2>3. QED
    BY <2>1, <2>2
<1>5. QED
  BY <1>1, <1>2, <1>3, <1>4 DEF HandlesLive, At

(* A process that ends leaves the port; a server takes its memory along.   *)
LEMMA EndsServing ==
  ASSUME PartsInv, up <=> port # None, NEW p \in Procs, Ends(p), Memory(p)
  PROVE  /\ proc'[p].pc = "dead"
         /\ \A q \in Procs : q # p => proc'[q] = proc[q]
         /\ up' <=> port' # None
         /\ port' = None \/ UNCHANGED <<port, users, bootstrap>>
<1>1. proc'[p].pc = "dead" /\ \A q \in Procs : q # p => proc'[q] = proc[q]
  BY DEF Ends, Dead, PartsInv, FilesInv, StateTypes
<1>2. CASE port = p
  BY <1>1, <1>2 DEF Ends, Memory, StopAccounts
<1>3. CASE port # p
  BY <1>1, <1>3 DEF Ends, Memory, accountsVars
<1>4. QED
  BY <1>1, <1>2, <1>3

LEMMA ServesKeeps ==
  ASSUME WholeInv, NEW p \in Procs, Serves(p)
  PROVE  HandlesLive' /\ Given' /\ (up' <=> port' # None) /\ ShownSecretWorks'
<1>1. Bind(p) /\ UNCHANGED menubar
  BY DEF Serves
<1>2. /\ At(p, "bind") /\ port = None /\ port' = p /\ p # None
      /\ proc'[p].pc = "serve" /\ proc'[p].host = proc[p].host
      /\ \A q \in Procs : q # p => proc'[q] = proc[q]
  BY <1>1, BindMoves DEF WholeInv, PartsInv, FilesInv
<1>3. menubar.probe # p
  BY <1>2 DEF WholeInv, HandlesLive, At, ProbeStages
<1>4. HandlesLive'
  <2>1. menubar.child \in Procs \union {None} /\ menubar.probe \in Procs \union {None}
    BY DEF WholeInv, PartsInv, MenubarTypes
  <2>2. menubar.child # None => proc'[menubar.child].pc # "dead"
                                /\ proc'[menubar.child].host # None
    BY <1>2, <2>1 DEF WholeInv, HandlesLive, At
  <2>3. menubar.probe # None => proc'[menubar.probe] = proc[menubar.probe]
    BY <1>2, <1>3, <2>1
  <2>4. QED
    BY <1>1, <2>2, <2>3 DEF WholeInv, HandlesLive, At
<1>5. up' = TRUE /\ bootstrap' = app[p] /\ UNCHANGED app
  BY DEF Serves, BootAccounts
<1>6. Given'
  BY <1>1, <1>5 DEF WholeInv, Given
<1>7. ShownSecretWorks'
  BY <1>1, <1>2, <1>5 DEF ShownSecretWorks, WholeInv, Given
<1>8. QED
  BY <1>2, <1>4, <1>5, <1>6, <1>7

LEMMA PreparesKeeps ==
  ASSUME WholeInv, NEW p \in Procs, Prepares(p)
  PROVE  HandlesLive' /\ Given' /\ (up' <=> port' # None) /\ ShownSecretWorks'
<1>1. Prepare(p) /\ menubar' = Reaped(p) /\ UNCHANGED <<up, users, bootstrap>>
  BY DEF Prepares, accountsVars
<1>2. /\ UNCHANGED port
      /\ proc'[p].pc # "dead" => proc'[p].host = proc[p].host
      /\ (proc[p].pc \in ProbeStages /\ proc[p].host = None) => proc'[p].pc \in ProbeStages
      /\ \A q \in Procs : q # p => proc'[q] = proc[q]
  BY <1>1, PrepareMoves DEF WholeInv, PartsInv, FilesInv
<1>3. menubar.probe = p => proc'[p].pc \in ProbeStages
  BY <1>2, StartupAssumption DEF WholeInv, HandlesLive
<1>4. HandlesLive'
  BY <1>1, <1>2, <1>3, HandlesReaped DEF WholeInv, PartsInv
<1>5. ShownSecretWorks'
  BY <1>1, <1>2, ReapedHandles, ShownKept DEF WholeInv, PartsInv
<1>6. Given'
  <2>1. app' = Kept
    BY DEF Prepares
  <2>2. QED
    BY <1>1, <1>4, <2>1, ReapedHandles, GivenKept DEF WholeInv, PartsInv
<1>7. QED
  BY <1>1, <1>2, <1>4, <1>5, <1>6 DEF WholeInv

(* A process with an address builds its AppState, with the secret it was   *)
(* given when it was given one.                                            *)
LEMMA BuildsKeeps ==
  ASSUME WholeInv, NEW p \in Procs, Builds(p)
  PROVE  HandlesLive' /\ Given' /\ (up' <=> port' # None) /\ ShownSecretWorks'
<1>1. Build(p) /\ UNCHANGED <<up, users, bootstrap, menubar>>
  BY DEF Builds, accountsVars
<1>2. /\ UNCHANGED port /\ At(p, "app")
      /\ proc'[p].pc # "dead" /\ proc'[p].host = proc[p].host
      /\ \A q \in Procs : q # p => proc'[q] = proc[q]
  BY <1>1, BuildMoves DEF WholeInv, PartsInv, FilesInv
<1>3. menubar.child \in Procs \union {None} /\ menubar.probe \in Procs \union {None}
  BY DEF WholeInv, PartsInv, MenubarTypes
<1>4. menubar.probe # p
  BY <1>2, StartupAssumption DEF WholeInv, HandlesLive, At, ProbeStages
<1>5. menubar.probe # None => proc'[menubar.probe] = proc[menubar.probe]
  BY <1>2, <1>3, <1>4
<1>6. menubar.child # None =>
        proc'[menubar.child].pc # "dead" /\ proc'[menubar.child].host # None
  BY <1>2, <1>3 DEF WholeInv, HandlesLive, At
<1>7. HandlesLive'
  BY <1>1, <1>5, <1>6 DEF WholeInv, HandlesLive, At
<1>8. Given'
  <2>1. app' = [app EXCEPT ![p] = AppSecret(app[p])] /\ app \in [Procs -> Built]
    BY DEF Builds, WholeInv, PartsInv, MenubarTypes
  <2>2. app[p] = "menu bar" => AppSecret(app[p]) = "menu bar"
    BY DEF AppSecret
  <2>3. \A q \in Procs : app[q] = "menu bar" => app'[q] = "menu bar"
    BY <2>1, <2>2
  <2>4. QED
    BY <1>1, <1>3, <2>3 DEF WholeInv, Given
<1>9. ShownSecretWorks'
  BY <1>1, <1>2, ShownKept DEF WholeInv
<1>10. QED
  BY <1>1, <1>2, <1>7, <1>8, <1>9 DEF WholeInv

LEMMA DiesKeeps ==
  ASSUME WholeInv, NEW p \in Procs, Dies(p)
  PROVE  HandlesLive' /\ Given' /\ (up' <=> port' # None) /\ ShownSecretWorks'
<1>1. menubar.probe # p /\ Ends(p) /\ Memory(p) /\ menubar' = Reaped(p)
  BY DEF Dies, Die
<1>2. /\ proc'[p].pc = "dead"
      /\ \A q \in Procs : q # p => proc'[q] = proc[q]
      /\ up' <=> port' # None
      /\ port' = None \/ UNCHANGED <<port, users, bootstrap>>
  BY <1>1, EndsServing DEF WholeInv
<1>3. HandlesLive'
  BY <1>1, <1>2, HandlesReaped DEF WholeInv, PartsInv
<1>4. ShownSecretWorks'
  <2>1. CASE port' = None
    BY <2>1 DEF ShownSecretWorks
  <2>2. CASE UNCHANGED <<port, users, bootstrap>>
    BY <1>1, <2>2, ReapedHandles, ShownKept DEF WholeInv, PartsInv
  <2>3. QED
    BY <1>2, <2>1, <2>2
<1>5. Given'
  <2>1. app' = Kept
    BY DEF Dies
  <2>2. QED
    BY <1>1, <1>3, <2>1, ReapedHandles, GivenKept DEF WholeInv, PartsInv
<1>6. QED
  BY <1>2, <1>3, <1>4, <1>5

(* A probe ends, and the secret is wanted still, or for the first time.    *)
LEMMA ReturnsKeeps ==
  ASSUME WholeInv, NEW p \in Procs, ProbeAnswers(p) \/ ProbeDies(p)
  PROVE  HandlesLive' /\ Given' /\ (up' <=> port' # None) /\ ShownSecretWorks'
<1>1. Ends(p) /\ menubar.probe = p /\ UNCHANGED <<up, users, bootstrap>>
  BY DEF ProbeAnswers, ProbeDies, ProbeReturns, Answer, Die, accountsVars
<1>2. PICK failed \in BOOLEAN : ProbeReturns(p, failed)
  BY DEF ProbeAnswers, ProbeDies
<1> DEFINE still == (menubar.pc = "first" \/ menubar.secret) /\ (failed \/ ~ SetupComplete)
           pc == IF menubar.pc = "first" THEN "spawn" ELSE "run"
<1>3. menubar' = [menubar EXCEPT !.probe = None, !.pc = pc, !.secret = still]
  BY <1>2 DEF ProbeReturns, WholeInv, PartsInv, MenubarTypes
<1>4. /\ menubar'.probe = None /\ menubar'.pc = pc /\ menubar'.secret = still
      /\ menubar'.child = menubar.child
      /\ menubar.child \in Procs \union {None}
  BY <1>3 DEF WholeInv, PartsInv, MenubarTypes
<1>5. p # None /\ proc[p].host = None /\ proc[p].pc \in ProbeStages
  BY <1>1, StartupAssumption DEF WholeInv, HandlesLive
<1>6. menubar.pc \in {"first", "again"} /\ (menubar.child # None => menubar.pc = "again")
  BY <1>1, <1>5 DEF WholeInv, HandlesLive
<1>7. port # p
  BY <1>5 DEF WholeInv, PartsInv, Exclusive, At, ProbeStages
<1>8. UNCHANGED port /\ \A q \in Procs : q # p => proc'[q] = proc[q]
  BY <1>1, <1>7 DEF Ends, WholeInv, PartsInv, FilesInv, StateTypes
<1>9. menubar.child # p
  BY <1>5 DEF WholeInv, HandlesLive
<1>10. HandlesLive'
  <2>1. menubar.child # None => proc'[menubar.child] = proc[menubar.child]
    BY <1>4, <1>8, <1>9
  <2>2. pc \notin {"first", "again"} /\ (menubar.child # None => pc = "run")
    BY <1>6
  <2> HIDE DEF pc, still
  <2>3. QED
    BY <1>4, <2>1, <2>2 DEF WholeInv, HandlesLive, At
<1>11. ShownSecretWorks'
  <2>1. menubar.child # None /\ still => menubar.secret
    BY <1>6
  <2> HIDE DEF pc, still
  <2>2. menubar'.secret /\ port # None /\ menubar'.child = port
          => menubar.secret /\ menubar.child = port
    BY <1>4, <2>1
  <2>3. QED
    BY <1>1, <1>8, <2>2, ShownKept DEF WholeInv
<1>12. Given'
  <2>1. UNCHANGED app
    BY <1>2 DEF ProbeReturns
  <2>2. menubar.child # None /\ still => menubar.secret
    BY <1>6
  <2> HIDE DEF pc, still
  <2>3. QED
    BY <1>4, <2>1, <2>2 DEF WholeInv, Given
<1>13. QED
  BY <1>1, <1>8, <1>10, <1>11, <1>12 DEF WholeInv

(* A process that is launched is none of those the application knows.      *)
LEMMA LaunchedIsNew ==
  ASSUME WholeInv, NEW p \in Procs, NEW h \in Hosts \union {None}, Launch(p, h)
  PROVE  /\ p # None /\ p \notin {port, menubar.child, menubar.probe} /\ UNCHANGED port
         /\ proc'[p].pc \in FirstStages /\ proc'[p].host = h
         /\ \A q \in Procs \ {p} : proc'[q].pc = proc[q].pc /\ proc'[q].host = proc[q].host
         /\ menubar.child \in Procs \union {None} /\ menubar.probe \in Procs \union {None}
<1>1. /\ At(p, "dead") /\ UNCHANGED port
      /\ proc'[p].pc \in FirstStages /\ proc'[p].host = h
      /\ \A q \in Procs : q # p => proc'[q].pc = proc[q].pc /\ proc'[q].host = proc[q].host
  BY LaunchMoves DEF WholeInv, PartsInv, FilesInv
<1>2. p # None
  BY StartupAssumption
<1>3. port # p
  BY <1>1 DEF WholeInv, PartsInv, Exclusive, At
<1>4. menubar.child # p /\ menubar.probe # p
  BY <1>1, <1>2 DEF WholeInv, HandlesLive, At, ProbeStages
<1>5. QED
  BY <1>1, <1>2, <1>3, <1>4 DEF WholeInv, PartsInv, MenubarTypes

LEMMA ProbeKeeps ==
  ASSUME WholeInv, NEW p \in Procs, NEW pc \in {"first", "again"}, Probe(p, pc),
         menubar.child # None => pc = "again", menubar.probe = None
  PROVE  HandlesLive' /\ Given' /\ (up' <=> port' # None) /\ ShownSecretWorks'
<1>1. /\ Launch(p, None) /\ UNCHANGED <<up, users, bootstrap>>
      /\ app' = [app EXCEPT ![p] = "none"]
  BY DEF Probe, Begins, accountsVars
<1>2. menubar' = [menubar EXCEPT !.pc = pc, !.probe = p]
  BY DEF Probe
<1>3. /\ menubar'.pc = pc /\ menubar'.probe = p
      /\ menubar'.child = menubar.child /\ menubar'.secret = menubar.secret
  BY <1>2 DEF WholeInv, PartsInv, MenubarTypes
<1>4. /\ p # None /\ menubar.child # p /\ UNCHANGED port
      /\ proc'[p].pc \in FirstStages /\ proc'[p].host = None
      /\ \A q \in Procs \ {p} : proc'[q].pc = proc[q].pc /\ proc'[q].host = proc[q].host
      /\ menubar.child \in Procs \union {None}
  BY <1>1, LaunchedIsNew
<1>5. HandlesLive'
  BY <1>3, <1>4 DEF WholeInv, HandlesLive, At, ProbeStages, FirstStages
<1>6. ShownSecretWorks'
  BY <1>1, <1>3, <1>4, ShownKept DEF WholeInv
<1>7. Given'
  BY <1>1, <1>3, <1>4 DEF WholeInv, PartsInv, MenubarTypes, Given
<1>8. QED
  BY <1>1, <1>4, <1>5, <1>6, <1>7 DEF WholeInv

LEMMA SpawnKeeps ==
  ASSUME WholeInv, NEW p \in Procs, NEW h \in Hosts, Spawn(p, h)
  PROVE  HandlesLive' /\ Given' /\ (up' <=> port' # None) /\ ShownSecretWorks'
<1>1. /\ Launch(p, h) /\ menubar.pc = "spawn" /\ UNCHANGED <<up, users, bootstrap>>
      /\ h # None /\ app' = [app EXCEPT ![p] = Passed]
  BY StartupAssumption DEF Spawn, Begins, accountsVars
<1>2. menubar' = [menubar EXCEPT !.pc = "run", !.child = p]
  BY DEF Spawn
<1>3. /\ menubar'.pc = "run" /\ menubar'.child = p /\ menubar'.probe = menubar.probe
      /\ menubar'.secret = menubar.secret
  BY <1>2 DEF WholeInv, PartsInv, MenubarTypes
<1>4. menubar.probe = None
  BY <1>1 DEF WholeInv, HandlesLive
<1>5. port # p /\ UNCHANGED port /\ proc'[p].pc \in FirstStages /\ proc'[p].host = h
  BY <1>1, LaunchedIsNew
<1>6. HandlesLive'
  BY <1>1, <1>3, <1>4, <1>5 DEF HandlesLive, At, FirstStages
<1>7. ShownSecretWorks'
  BY <1>3, <1>5 DEF ShownSecretWorks
<1>8. Given'
  BY <1>1, <1>3 DEF WholeInv, PartsInv, MenubarTypes, Given, Passed
<1>9. QED
  BY <1>1, <1>5, <1>6, <1>7, <1>8 DEF WholeInv

LEMMA StartsAloneKeeps ==
  ASSUME WholeInv, NEW p \in Procs, NEW h \in Hosts, StartsAlone(p, h)
  PROVE  HandlesLive' /\ Given' /\ (up' <=> port' # None) /\ ShownSecretWorks'
<1>1. /\ Launch(p, h) /\ UNCHANGED <<up, users, bootstrap, menubar>>
      /\ \E supplied \in Supplied : app' = [app EXCEPT ![p] = supplied]
  BY DEF StartsAlone, Begins, Supplied, accountsVars
<1>2. /\ p # menubar.child /\ p # menubar.probe /\ UNCHANGED port
      /\ \A q \in Procs \ {p} : proc'[q].pc = proc[q].pc /\ proc'[q].host = proc[q].host
      /\ menubar.child \in Procs \union {None} /\ menubar.probe \in Procs \union {None}
  BY <1>1, LaunchedIsNew
<1>3. HandlesLive'
  BY <1>1, <1>2 DEF WholeInv, HandlesLive, At
<1>4. ShownSecretWorks'
  BY <1>1, <1>2, ShownKept DEF WholeInv
<1>5. Given'
  BY <1>1, <1>2 DEF WholeInv, PartsInv, MenubarTypes, Given
<1>6. QED
  BY <1>1, <1>2, <1>3, <1>4, <1>5 DEF WholeInv

(* The application ends, with its server or without it.                    *)
LEMMA LeavesKeeps ==
  ASSUME WholeInv, Quit \/ MenubarDies
  PROVE  HandlesLive' /\ Given' /\ (up' <=> port' # None) /\ ShownSecretWorks'
<1>1. menubar' = Absent
  BY DEF Quit, MenubarDies
<1>2. HandlesLive' /\ Given' /\ ShownSecretWorks'
  BY <1>1 DEF Absent, HandlesLive, Given, ShownSecretWorks
<1>3. up' <=> port' # None
  <2>1. CASE UNCHANGED <<startupVars, accountsVars>>
    BY <2>1 DEF WholeInv, startupVars, accountsVars
  <2>2. CASE menubar.child # None /\ Stop(menubar.child) /\ Memory(menubar.child)
    <3>1. menubar.child \in Procs
      BY <2>2 DEF WholeInv, PartsInv, MenubarTypes
    <3>2. QED
      BY <2>2, <3>1, EndsServing DEF Stop, WholeInv
  <2>3. QED
    BY <2>1, <2>2 DEF Quit, MenubarDies
<1>4. QED
  BY <1>2, <1>3

LEMMA RequestedKeeps ==
  ASSUME WholeInv, PartsInv', Requested
  PROVE  HandlesLive' /\ Given' /\ (up' <=> port' # None) /\ ShownSecretWorks'
<1>1. Serve /\ UNCHANGED <<proc, port, app, menubar>>
  BY DEF Requested, startupVars
<1>2. UNCHANGED up
  BY <1>1, ServeRuns DEF WholeInv, PartsInv, AccountsInv, OtherTypes
<1>3. HandlesLive'
  BY <1>1 DEF WholeInv, HandlesLive, At
<1>4. ~ SetupComplete' => ~ SetupComplete /\ UNCHANGED bootstrap
  BY <1>1, SecretKept DEF WholeInv, PartsInv
<1>5. ShownSecretWorks'
  BY <1>1, <1>4 DEF WholeInv, ShownSecretWorks
<1>6. Given'
  BY <1>1 DEF WholeInv, Given
<1>7. QED
  BY <1>1, <1>2, <1>3, <1>5, <1>6 DEF WholeInv

LEMMA WholeStep ==
  ASSUME WholeInv, [Next]_vars
  PROVE  WholeInv'
<1>1. PartsInv'
  BY PartsStep DEF WholeInv
<1> DEFINE Rest == HandlesLive' /\ Given' /\ (up' <=> port' # None) /\ ShownSecretWorks'
<1>2. ASSUME NEW p \in Procs, Builds(p) \/ Serves(p) \/ Prepares(p) \/ Dies(p) PROVE Rest
  BY <1>2, BuildsKeeps, ServesKeeps, PreparesKeeps, DiesKeeps
<1>3. ASSUME NEW p \in Procs, ProbeAnswers(p) \/ ProbeDies(p) PROVE Rest
  BY <1>3, ReturnsKeeps
<1>4. ASSUME NEW p \in Procs, OpenMenubar(p) \/ Refresh(p) PROVE Rest
  <2>1. CASE OpenMenubar(p)
    <3>1. Probe(p, "first") /\ menubar.pc = "off"
      BY <2>1 DEF OpenMenubar
    <3>2. menubar.child = None /\ menubar.probe = None
      BY <3>1 DEF WholeInv, HandlesLive
    <3>3. QED
      BY <3>1, <3>2, ProbeKeeps
  <2>2. CASE Refresh(p)
    <3>1. Probe(p, "again") /\ menubar.pc = "run"
      BY <2>2 DEF Refresh
    <3>2. menubar.probe = None
      BY <3>1 DEF WholeInv, HandlesLive
    <3>3. QED
      BY <3>1, <3>2, ProbeKeeps
  <2>3. QED
    BY <1>4, <2>1, <2>2
<1>5. ASSUME NEW p \in Procs, NEW h \in Hosts, StartsAlone(p, h) \/ Spawn(p, h) PROVE Rest
  BY <1>5, StartsAloneKeeps, SpawnKeeps
<1>6. ASSUME Quit \/ MenubarDies PROVE Rest
  BY <1>6, LeavesKeeps
<1>7. ASSUME Requested PROVE Rest
  BY <1>1, <1>7, RequestedKeeps
<1>8. ASSUME UNCHANGED vars PROVE Rest
  BY <1>8 DEF vars, startupVars, accountsVars, WholeInv, HandlesLive, Given, At, ShownSecretWorks,
              SetupComplete
<1>9. Rest
  BY <1>2, <1>3, <1>4, <1>5, <1>6, <1>7, <1>8 DEF Next
<1>10. QED
  BY <1>1, <1>9 DEF WholeInv

(* Whatever the application, its probes, servers that others start and     *)
(* requests do in whatever order, the whole invariant holds.               *)
THEOREM InstallationInvariant == Spec => []WholeInv
<1>1. ASSUME Init PROVE WholeInv
  <2>1. MenubarTypes /\ FilesInv /\ Exclusive /\ AccountsInv
    BY <1>1, MenubarInitially, FilesInitially, ExclusiveInitially, AccountsInitially DEF Init
  <2>2. menubar = Absent /\ up = FALSE /\ port = None
    BY <1>1 DEF Init, StartupInit, AccountsInit
  <2>3. QED
    BY <2>1, <2>2 DEF WholeInv, PartsInv, HandlesLive, Given, ShownSecretWorks, Absent
<1>2. WholeInv /\ [Next]_vars => WholeInv'
  BY WholeStep
<1>3. QED
  BY <1>1, <1>2, PTL DEF Spec

(* All parts keep their types; requests are served exactly while somebody  *)
(* has the port, and the application's handles name living processes.      *)
THEOREM InstallationTypes == Spec => []TypeOK
<1>1. WholeInv => StartupTypeOK
  BY DEF WholeInv, PartsInv, FilesInv, StateTypes, Exclusive, Certificate, Generating,
         StartupTypeOK
<1>2. WholeInv => AccountsTypeOK
  BY AccountsTyped DEF WholeInv, PartsInv
<1>3. WholeInv => TypeOK
  BY <1>1, <1>2 DEF WholeInv, PartsInv, MenubarTypes, Built, HandlesLive, TypeOK
<1>4. QED
  BY <1>3, InstallationInvariant, PTL

(* The secret that the menu bar shows is the one that its server accepts,  *)
(* until setup is complete.                                                *)
THEOREM ShownSecretIsAccepted == Spec => []ShownSecretWorks
<1>1. WholeInv => ShownSecretWorks
  BY DEF WholeInv
<1>2. QED
  BY <1>1, InstallationInvariant, PTL
=============================================================================
