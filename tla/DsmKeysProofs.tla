--------------------------- MODULE DsmKeysProofs ---------------------------
(***************************************************************************)
(* Proofs about DsmKeys, for any number of processes, names and workloads. *)
(***************************************************************************)
EXTENDS DsmKeys, TLAPS

ImportSteps == CreateSteps \cup {"linkSigning", "linkEncryption"}

\* The calls each command can be at.
StepsOf(o) == {"start"} \cup Terminal \cup
              (CASE o = "generate" -> WriteSteps
                 [] o = "import"   -> ImportSteps
                 [] OTHER          -> ReadSteps)

StepOK == \A p \in Procs : pc[p] \in StepsOf(cmd[p].op)

LEMMA GenerateThenType ==
    ASSUME NEW c \in Commands, NEW s \in WriteSteps
    PROVE  GenerateThen(c)[s] \in WriteSteps \cup {"done"}
BY DEF GenerateThen, GenerateCalls, WriteSteps, CreateSteps, UpdateSteps, SignSteps

LEMMA ImportThenType ==
    ASSUME NEW c \in Commands, NEW s \in ImportSteps
    PROVE  ImportThen(c)[s] \in ImportSteps \cup {"done"}
BY DEF ImportThen, ImportCalls, ImportSteps, CreateSteps

LEMMA ThenType ==
    ASSUME TypeOK, StepOK, NEW p \in Procs, pc[p] \in WriteSteps
    PROVE  Then(p, pc[p]) \in StepsOf(cmd[p].op) \ {"start", "failed"}
<1>1. CASE cmd[p].op = "generate"
  BY <1>1, GenerateThenType DEF TypeOK, Then, StepsOf, WriteSteps, CreateSteps, UpdateSteps, SignSteps, Terminal
<1>2. CASE cmd[p].op = "import"
  <2>1. pc[p] \in ImportSteps
    BY <1>2 DEF StepOK, StepsOf, WriteSteps, Terminal, CreateSteps, UpdateSteps, SignSteps, ImportSteps
  <2> QED
    BY <2>1, <1>2, ImportThenType DEF TypeOK, Then, StepsOf, ImportSteps, CreateSteps, Terminal
<1>3. CASE cmd[p].op \notin Writers
  BY <1>3 DEF StepOK, StepsOf, Writers, WriteSteps, ReadSteps, Terminal, CreateSteps, UpdateSteps, SignSteps
<1> QED
  BY <1>1, <1>2, <1>3 DEF Writers
----------------------------------------------------------------------------
(***************************************************************************)
(* Type correctness.                                                       *)
(***************************************************************************)
\* The command of a process is one of the workload's and never changes.
CmdOK == cmd \in Workloads

TypeInv == TypeOK /\ StepOK /\ CmdOK

USE DEF Key, Primary, Goto

LEMMA RoleType == \A s \in CreateSteps \cup UpdateSteps : StepRole[s] \in Roles
BY DEF CreateSteps, UpdateSteps, StepRole, Roles, Subkeys

LEMMA KeyType == ASSUME NEW p \in Procs, NEW r \in Roles PROVE Key(p, r) \in Uids
BY DEF Uids

LEMMA NameType ==
    ASSUME TypeOK, NEW p \in Procs, NEW r \in Roles
    PROVE  FirstName(p, r) \in ObjNames /\ FinalName(p, r) \in ObjNames
BY DEF TypeOK, FirstName, FinalName, ObjNames, Commands

LEMMA CertType == NoCert \in Certs /\ NoMd \in Md
BY DEF NoCert, NoMd, Certs, Md

\* The object changed by an update is one of the process's own keys, and the
\* update keeps DSM well formed.
LEMMA DsmUpdateType ==
    ASSUME TypeOK, NEW p \in Procs, NEW s \in UpdateSteps, DsmUpdate(p, s)
    PROVE  /\ live' \subseteq Uids
           /\ name' \in [Uids -> ObjNames]
           /\ ops' \in [Uids -> SUBSET KeyOps]
           /\ parent' \in [Uids -> SUBSET Uids]
           /\ md' \in [Uids -> Md]
<1> DEFINE r == StepRole[s]
           u == Key(p, r)
<1>1. r \in Roles
  BY RoleType
<1>2. u \in Uids /\ Primary(p) \in Uids
  BY <1>1, KeyType DEF Roles
<1>3. FinalName(p, r) \in ObjNames
  BY <1>1, NameType
<1>4. /\ [set |-> TRUE, flags |-> cmd[p].flags[r], cert |-> cert[p]] \in Md
      /\ [set |-> TRUE, flags |-> cmd[p].flags[r], cert |-> NoCert] \in Md
  BY <1>1, CertType DEF TypeOK, Commands, Md
<1>5. live' \subseteq Uids /\ ops' \in [Uids -> SUBSET KeyOps]
  BY DEF DsmUpdate, TypeOK
<1>6. name' \in [Uids -> ObjNames]
  BY <1>3 DEF DsmUpdate, TypeOK
<1>7. parent' \in [Uids -> SUBSET Uids]
  BY <1>2 DEF DsmUpdate, TypeOK
<1>8. md' \in [Uids -> Md]
  BY <1>4 DEF DsmUpdate, TypeOK
<1> QED
  BY <1>5, <1>6, <1>7, <1>8

LEMMA DsmCreateType ==
    ASSUME TypeOK, NEW p \in Procs, NEW r \in Roles, DsmCreate(p, r)
    PROVE  /\ live' \subseteq Uids
           /\ name' \in [Uids -> ObjNames]
           /\ ops' \in [Uids -> SUBSET KeyOps]
           /\ parent' \in [Uids -> SUBSET Uids]
           /\ md' \in [Uids -> Md]
<1> DEFINE u == Key(p, r)
<1>1. u \in Uids
  BY KeyType
<1>2. FirstName(p, r) \in ObjNames /\ FinalName(p, r) \in ObjNames
  BY NameType
<1>3. CreateOps(cmd[p], r) \in SUBSET KeyOps
  BY DEF CreateOps, KeyOps
<1>4. ImportOps(cmd[p], r) \in SUBSET KeyOps
  BY DEF ImportOps, KeyOps
<1>5. ImportMd(p, r) \in Md
  <2>1. cmd[p].flags[r] \in SUBSET Flags
    BY DEF TypeOK, Commands
  <2>2. InputCert(p) \in Certs
    BY DEF InputCert, Certs, TypeOK, Commands, Uids, Roles
  <2> QED
    BY <2>1, <2>2, CertType DEF ImportMd, Md
<1>6. live' \subseteq Uids
  BY <1>1 DEF DsmCreate, TypeOK
<1>7. name' \in [Uids -> ObjNames]
  BY <1>2 DEF DsmCreate, TypeOK
<1>8. ops' \in [Uids -> SUBSET KeyOps]
  BY <1>3, <1>4 DEF DsmCreate, TypeOK
<1>9. parent' \in [Uids -> SUBSET Uids]
  BY DEF DsmCreate, TypeOK
<1>10. md' \in [Uids -> Md]
  BY <1>5, CertType DEF DsmCreate, TypeOK
<1> QED
  BY <1>6, <1>7, <1>8, <1>9, <1>10
----------------------------------------------------------------------------
LEMMA TypeInit == Init => TypeInv
<1> SUFFICES ASSUME Init PROVE TypeInv
  OBVIOUS
<1>1. cmd \in [Procs -> Commands] /\ CmdOK
  BY WorkloadAssumption DEF Init, CmdOK
<1>2. \A u \in Uids : Owner(u) \in Procs /\ RoleOf(u) \in Roles
  BY DEF Uids, Owner, RoleOf
<1>3. name \in [Uids -> ObjNames]
  BY <1>1, <1>2 DEF Init, FirstName, ObjNames, Commands
<1>4. req \in [Procs -> Requests]
  BY DEF Init, NoReq, Requests, Steps
<1>5. pc \in [Procs -> Steps]
  BY DEF Init, Steps
<1>6. cert \in [Procs -> Certs] /\ md \in [Uids -> Md]
  BY CertType DEF Init
<1>7. StepOK
  BY DEF Init, StepOK, StepsOf
<1> QED
  BY <1>1, <1>3, <1>4, <1>5, <1>6, <1>7 DEF Init, TypeInv, TypeOK

\* Every step a command can be at is a step.
LEMMA StepsOfType == \A o : StepsOf(o) \subseteq Steps
BY DEF StepsOf, Steps, ImportSteps, WriteSteps, UpdateSteps

\* A process that moves to a step of its own command keeps pc well formed.
LEMMA MoveOK ==
    ASSUME TypeInv, NEW p \in Procs, NEW s, Goto(p, s), s \in StepsOf(cmd[p].op),
           UNCHANGED cmd
    PROVE  pc' \in [Procs -> Steps] /\ StepOK' /\ CmdOK'
<1>1. s \in Steps
  BY StepsOfType
<1>2. pc' \in [Procs -> Steps] /\ CmdOK'
  BY <1>1 DEF TypeInv, TypeOK, CmdOK
<1>3. StepOK'
  BY DEF TypeInv, TypeOK, StepOK
<1> QED
  BY <1>2, <1>3

LEMMA ReqOK ==
    ASSUME TypeInv, NEW p \in Procs,
           \/ req' = [req EXCEPT ![p] = NoReq]
           \/ \E x \in {"approved", "denied"} :
                 req' = [req EXCEPT ![p] = [step |-> req[p].step, state |-> x]]
           \/ req' = [req EXCEPT ![p] = [step |-> pc[p], state |-> "pending"]]
    PROVE  req' \in [Procs -> Requests]
<1>1. NoReq \in Requests
  BY DEF NoReq, Requests, Steps
<1>2. [step |-> pc[p], state |-> "pending"] \in Requests
  BY DEF Requests, TypeInv, TypeOK
<1>3. \A x \in {"approved", "denied"} : [step |-> req[p].step, state |-> x] \in Requests
  BY DEF Requests, TypeInv, TypeOK
<1> QED
  BY <1>1, <1>2, <1>3 DEF TypeInv, TypeOK

LEMMA TypeWrite ==
    ASSUME TypeInv, NEW p \in Procs, WriterStep(p)
    PROVE  TypeInv'
<1>1. ASSUME NEW s \in CreateSteps, Create(p, s) PROVE TypeInv'
  <2>1. StepRole[s] \in Roles
    BY RoleType
  <2>2. PICK t \in {Then(p, s), "failed"} : Goto(p, t)
    BY <1>1 DEF Create
  <2>3. t \in StepsOf(cmd[p].op)
    BY <1>1, ThenType DEF Create, StepsOf, Terminal, TypeInv, WriteSteps
  <2>4. pc' \in [Procs -> Steps] /\ StepOK' /\ CmdOK'
    BY <1>1, <2>2, <2>3, MoveOK DEF Create
  <2>5. CASE DsmCreate(p, StepRole[s])
    BY <1>1, <2>1, <2>4, <2>5, DsmCreateType DEF Create, TypeInv, TypeOK
  <2>6. CASE UNCHANGED dsm
    BY <1>1, <2>4, <2>6 DEF Create, TypeInv, TypeOK, dsm
  <2> QED
    BY <1>1, <2>5, <2>6 DEF Create
<1>2. ASSUME NEW s \in UpdateSteps, Update(p, s) PROVE TypeInv'
  <2>1. PICK t \in {Then(p, s), "failed"} : Goto(p, t)
    BY <1>2 DEF Update
  <2>2. t \in StepsOf(cmd[p].op)
    BY <1>2, ThenType DEF Update, StepsOf, Terminal, TypeInv, WriteSteps
  <2>3. pc' \in [Procs -> Steps] /\ StepOK' /\ CmdOK'
    BY <1>2, <2>1, <2>2, MoveOK DEF Update
  <2> QED
    BY <1>2, <2>3, DsmUpdateType DEF Update, TypeInv, TypeOK
<1>3. ASSUME NEW s \in UpdateSteps, Updated(p, s) PROVE TypeInv'
  <2>1. Then(p, s) \in StepsOf(cmd[p].op)
    BY <1>3, ThenType DEF Updated, TypeInv, WriteSteps
  <2>2. pc' \in [Procs -> Steps] /\ StepOK' /\ CmdOK'
    BY <1>3, <2>1, MoveOK DEF Updated
  <2>3. req' \in [Procs -> Requests]
    BY <1>3, ReqOK DEF Updated
  <2> QED
    BY <1>3, <2>2, <2>3 DEF Updated, TypeInv, TypeOK
<1>4. ASSUME NEW s \in SignSteps, Sign(p, s) PROVE TypeInv'
  <2>1. PICK t \in {Then(p, s), "failed"} : Goto(p, t)
    BY <1>4 DEF Sign
  <2>2. t \in StepsOf(cmd[p].op)
    BY <1>4, ThenType DEF Sign, Granted, StepsOf, Terminal, TypeInv, WriteSteps
  <2>3. pc' \in [Procs -> Steps] /\ StepOK' /\ CmdOK'
    BY <1>4, <2>1, <2>2, MoveOK DEF Sign
  <2>4. req' \in [Procs -> Requests]
    BY <1>4, ReqOK DEF Sign, Granted
  <2>5. CertAfter(p, s) \in Certs
    <3>1. \A r \in Roles : Key(p, r) \in Uids
      BY KeyType
    <3>2. cert[p] \in Certs /\ agent[p] \in SUBSET Uids
      BY DEF TypeInv, TypeOK
    <3> QED
      BY <3>1, <3>2 DEF CertAfter, Certs, Roles, Subkeys
  <2>6. cert' \in [Procs -> Certs]
    BY <1>4, <2>5 DEF Sign, TypeInv, TypeOK
  <2> QED
    BY <1>4, <2>3, <2>4, <2>6 DEF Sign, TypeInv, TypeOK
<1>5. ASSUME NewCertifier(p) PROVE TypeInv'
  <2>1. PICK t \in {Then(p, "newCertifier"), "failed"} : Goto(p, t)
    BY <1>5 DEF NewCertifier
  <2>2. t \in StepsOf(cmd[p].op)
    BY <1>5, ThenType DEF NewCertifier, StepsOf, Terminal, TypeInv, WriteSteps
  <2>3. pc' \in [Procs -> Steps] /\ StepOK' /\ CmdOK'
    BY <1>5, <2>1, <2>2, MoveOK DEF NewCertifier
  <2>4. agent' \in [Procs -> SUBSET Uids]
    BY <1>5 DEF NewCertifier, Named, TypeInv, TypeOK
  <2> QED
    BY <1>5, <2>3, <2>4 DEF NewCertifier, TypeInv, TypeOK
<1>6. ASSUME NewSubkeySigner(p) PROVE TypeInv'
  <2>1. PICK t \in {Then(p, "newSubkeySigner"), "failed"} : Goto(p, t)
    BY <1>6 DEF NewSubkeySigner
  <2>2. t \in StepsOf(cmd[p].op)
    BY <1>6, ThenType DEF NewSubkeySigner, StepsOf, Terminal, TypeInv, WriteSteps
  <2>3. pc' \in [Procs -> Steps] /\ StepOK' /\ CmdOK'
    BY <1>6, <2>1, <2>2, MoveOK DEF NewSubkeySigner
  <2> QED
    BY <1>6, <2>3 DEF NewSubkeySigner, TypeInv, TypeOK
<1> QED
  BY <1>1, <1>2, <1>3, <1>4, <1>5, <1>6 DEF WriterStep
LEMMA TypeRead ==
    ASSUME TypeInv, NEW p \in Procs, ReaderStep(p)
    PROVE  TypeInv'
<1> DEFINE Ends == {"done", "failed"}
<1>0. ASSUME pc[p] \in ReadSteps
      PROVE  ReadSteps \cup Ends \subseteq StepsOf(cmd[p].op)
  BY <1>0 DEF TypeInv, StepOK, StepsOf, ReadSteps, WriteSteps, ImportSteps,
              CreateSteps, UpdateSteps, SignSteps, Terminal
<1>1. ASSUME GetPrimary(p) PROVE TypeInv'
  <2>1. PICK t \in ReadSteps \cup Ends : Goto(p, t)
    BY <1>1 DEF GetPrimary, AfterPrimary, ReadSteps
  <2>2. pc' \in [Procs -> Steps] /\ StepOK' /\ CmdOK'
    BY <1>0, <1>1, <2>1, MoveOK DEF GetPrimary, ReadSteps
  <2>3. /\ agent' \in [Procs -> SUBSET Uids]
        /\ todo' \in [Procs -> SUBSET Uids]
        /\ got' \in [Procs -> SUBSET Uids]
    BY <1>1 DEF GetPrimary, Named, LinkedTo, TypeInv, TypeOK
  <2> QED
    BY <1>1, <2>2, <2>3 DEF GetPrimary, TypeInv, TypeOK
<1>2. ASSUME ListObjects(p) PROVE TypeInv'
  <2>1. pc' \in [Procs -> Steps] /\ StepOK' /\ CmdOK'
    BY <1>0, <1>2, MoveOK DEF ListObjects, ReadSteps
  <2> QED
    BY <1>2, <2>1 DEF ListObjects, TypeInv, TypeOK
<1>3. ASSUME GetSubkey(p) PROVE TypeInv'
  <2>1. PICK t \in ReadSteps \cup Ends : Goto(p, t)
    BY <1>3 DEF GetSubkey, ReadSteps
  <2>2. pc' \in [Procs -> Steps] /\ StepOK' /\ CmdOK'
    BY <1>0, <1>3, <2>1, MoveOK DEF GetSubkey, ReadSteps
  <2>3. /\ agent' \in [Procs -> SUBSET Uids]
        /\ todo' \in [Procs -> SUBSET Uids]
    BY <1>3 DEF GetSubkey, TypeInv, TypeOK
  <2> QED
    BY <1>3, <2>2, <2>3 DEF GetSubkey, TypeInv, TypeOK
<1>4. ASSUME SignData(p) \/ DecryptKey(p) PROVE TypeInv'
  <2>1. PICK t \in Ends : Goto(p, t)
    BY <1>4 DEF SignData, DecryptKey
  <2>2. pc' \in [Procs -> Steps] /\ StepOK' /\ CmdOK'
    BY <1>0, <1>4, <2>1, MoveOK DEF SignData, DecryptKey, Granted, ReadSteps
  <2>3. req' \in [Procs -> Requests]
    BY <1>4, ReqOK DEF SignData, DecryptKey, Granted
  <2> QED
    BY <1>4, <2>2, <2>3 DEF SignData, DecryptKey, TypeInv, TypeOK
<1>5. ASSUME ExportPrimary(p) \/ ExportSubkey(p) PROVE TypeInv'
  <2>1. PICK t \in ReadSteps \cup Ends : Goto(p, t)
    BY <1>5 DEF ExportPrimary, ExportSubkey, ReadSteps
  <2>2. pc' \in [Procs -> Steps] /\ StepOK' /\ CmdOK'
    BY <1>0, <1>5, <2>1, MoveOK DEF ExportPrimary, ExportSubkey, Granted, ReadSteps
  <2>3. req' \in [Procs -> Requests]
    BY <1>5, ReqOK DEF ExportPrimary, ExportSubkey, Granted
  <2>4. /\ todo' \in [Procs -> SUBSET Uids]
        /\ got' \in [Procs -> SUBSET Uids]
    BY <1>5 DEF ExportPrimary, ExportSubkey, Named, LinkedTo, TypeInv, TypeOK
  <2> QED
    BY <1>5, <2>2, <2>3, <2>4 DEF ExportPrimary, ExportSubkey, TypeInv, TypeOK
<1> QED
  BY <1>1, <1>2, <1>3, <1>4, <1>5 DEF ReaderStep

LEMMA TypeOther ==
    ASSUME TypeInv, NEW p \in Procs,
           Start(p) \/ Denied(p) \/ Abort(p) \/ AskApproval(p) \/ Quorum(p)
    PROVE  TypeInv'
<1>1. CASE Start(p)
  <2>1. FirstCall(cmd[p]) \in StepsOf(cmd[p].op)
    BY DEF FirstCall, StepsOf, Terminal, WriteSteps, ImportSteps, CreateSteps, ReadSteps
  <2>2. pc' \in [Procs -> Steps] /\ StepOK' /\ CmdOK'
    BY <1>1, <2>1, MoveOK DEF Start
  <2> QED
    BY <1>1, <2>2 DEF Start, TypeInv, TypeOK
<1>2. CASE Denied(p) \/ Abort(p)
  <2>1. "failed" \in StepsOf(cmd[p].op)
    BY DEF StepsOf, Terminal
  <2>2. pc' \in [Procs -> Steps] /\ StepOK' /\ CmdOK'
    BY <1>2, <2>1, MoveOK DEF Denied, Abort
  <2>3. req' \in [Procs -> Requests]
    BY <1>2, ReqOK DEF Denied, Abort, TypeInv, TypeOK
  <2> QED
    BY <1>2, <2>2, <2>3 DEF Denied, Abort, TypeInv, TypeOK
<1>3. CASE AskApproval(p) \/ Deny(p)
  <2>1. req' \in [Procs -> Requests]
    BY <1>3, ReqOK DEF AskApproval, Deny
  <2> QED
    BY <1>3, <2>1 DEF AskApproval, Deny, TypeInv, TypeOK, StepOK, CmdOK
<1>4. CASE Approve(p)
  <2>1. req' \in [Procs -> Requests]
    BY <1>4, ReqOK DEF Approve
  <2>2. CASE req[p].step \in UpdateSteps
    BY <1>4, <2>1, <2>2, DsmUpdateType DEF Approve, TypeInv, TypeOK, StepOK, CmdOK
  <2>3. CASE req[p].step \notin UpdateSteps
    BY <1>4, <2>1, <2>3 DEF Approve, TypeInv, TypeOK, StepOK, CmdOK, dsm
  <2> QED
    BY <2>2, <2>3
<1> QED
  BY <1>1, <1>2, <1>3, <1>4 DEF Quorum

LEMMA TypeNext == TypeInv /\ [Next]_vars => TypeInv'
<1> SUFFICES ASSUME TypeInv, [Next]_vars PROVE TypeInv'
  OBVIOUS
<1>1. ASSUME NEW p \in Procs, Step(p) PROVE TypeInv'
  BY <1>1, TypeWrite, TypeRead, TypeOther DEF Step
<1>2. ASSUME NEW p \in Procs, AskApproval(p) \/ Quorum(p) \/ Abort(p) PROVE TypeInv'
  BY <1>2, TypeOther
<1>3. CASE UNCHANGED vars
  BY <1>3 DEF vars, TypeInv, TypeOK, StepOK, CmdOK
<1> QED
  BY <1>1, <1>2, <1>3 DEF Next, Finished

\* DSM and the processes stay well formed, and every process is at a call of
\* its own command, for any number of commands and any workload.
THEOREM TypeCorrect == Spec => []TypeOK
<1>1. Spec => []TypeInv
  BY TypeInit, TypeNext, PTL DEF Spec
<1>2. TypeInv => TypeOK
  BY DEF TypeInv
<1> QED
  BY <1>1, <1>2, PTL
----------------------------------------------------------------------------
(***************************************************************************)
(* A certificate in DSM is complete.                                       *)
(*                                                                         *)
(* Facts(p, s) is what generate_key may rely on when process p is about to *)
(* make call s.  The inductive invariant says it of the call p is at, of   *)
(* the call p has asked the approvers for (which DSM may carry out after p *)
(* has died), and, once an update was approved, of the call that follows.  *)
(***************************************************************************)
NotYet      == {"start", "failed"}
Signed      == {"signUserId", "bindEncryption", "newSubkeySigner", "signEmbedded",
                "bindSigning"}
Stores      == {"storePrimary", "storeSigning", "storeEncryption", "done"}
SigningOnly == {"createSigning", "linkSigning", "newSubkeySigner", "signEmbedded",
                "bindSigning", "storeSigning"}
NoSubsYet   == {"createPrimary", "createSigning", "createEncryption", "linkSigning",
                "linkEncryption", "newCertifier", "signDirectKey", "signUserId",
                "bindEncryption"}

AllSubs(p) == {Key(p, r) : r \in cmd[p].has \ {"primary"}}

ObjectFacts(p, s) ==
    /\ s \notin NotYet => SupportedLayout(cmd[p])
    /\ s \in SigningOnly => "signing" \in cmd[p].has
    /\ s \notin NotYet \cup {"createPrimary"} => Primary(p) \in live
    /\ s \notin NotYet \cup {"createPrimary", "createSigning"} =>
          ("signing" \in cmd[p].has => Key(p, "signing") \in live)
    /\ s \notin NotYet \cup CreateSteps => Key(p, "encryption") \in live
    /\ s \notin NotYet \cup CreateSteps \cup {"linkSigning"} =>
          ("signing" \in cmd[p].has => parent[Key(p, "signing")] = {Primary(p)})
    /\ s \notin NotYet \cup CreateSteps \cup {"linkSigning", "linkEncryption"} =>
          parent[Key(p, "encryption")] = {Primary(p)}
    /\ s \in CreateSteps \cup {"start"} => ~Published(p)

CertFacts(p, s) ==
    /\ s \in {"start"} \cup NoSubsYet => cert[p].subs = {}
    /\ s \in Signed \cup Stores \cup {"signDirectKey"} => agent[p] = {Primary(p)}
    /\ s \in Signed \cup Stores => cert[p].signers = {Primary(p)}
    /\ s \in {"newSubkeySigner", "signEmbedded", "bindSigning"} =>
          cert[p].subs = {Key(p, "encryption")}
    /\ s = "bindSigning" => Key(p, "signing") \in cert[p].back
    /\ s \in Stores => /\ cert[p].subs = AllSubs(p)
                       /\ "signing" \in cmd[p].has => Key(p, "signing") \in cert[p].back
    /\ s \in Stores \ {"storePrimary"} => Published(p)

Facts(p, s) == ObjectFacts(p, s) /\ CertFacts(p, s)

\* A request belongs to the call its process is at, as long as it runs.
RequestOK(p) ==
    req[p].state \in {"pending", "approved"} =>
        /\ req[p].step \in ApprovalSteps
        /\ pc[p] \in {req[p].step, "failed"}

Complete(p) ==
    Published(p) =>
        LET c == md[Primary(p)].cert
        IN  /\ c.signers = {Primary(p)}
            /\ c.subs = AllSubs(p)
            /\ \A u \in c.subs : u \in live /\ parent[u] = {Primary(p)}
            /\ Key(p, "signing") \in c.subs => Key(p, "signing") \in c.back

GenInv(p) ==
    /\ RequestOK(p)
    /\ cert[p].signers \subseteq {Primary(p)}
    /\ cmd[p].op = "generate" =>
          /\ agent[p] \subseteq {Primary(p)}
          /\ Facts(p, pc[p])
          /\ req[p].state = "pending" => Facts(p, req[p].step)
          /\ req[p].state = "approved" /\ pc[p] \in UpdateSteps => Facts(p, Then(p, pc[p]))
          /\ Complete(p)

NameInv ==
    \A u \in live :
        /\ name[u] \in {FirstName(Owner(u), RoleOf(u)), FinalName(Owner(u), RoleOf(u))}
        /\ RoleOf(u) = "primary" => name[u] = FirstName(Owner(u), "primary")

SafeInv == /\ TypeInv
           /\ NameInv
           /\ OneWinner
           /\ \A p \in Procs : GenInv(p)
----------------------------------------------------------------------------
\* The objects of process q, and what q knows, are as before.
SameObjects(q) ==
    \A r \in Roles : LET u == Key(q, r) IN
        /\ (u \in live') <=> (u \in live)
        /\ parent'[u] = parent[u]
        /\ md'[u] = md[u]
SameLocal(q) ==
    /\ pc'[q] = pc[q]
    /\ req'[q] = req[q]
    /\ agent'[q] = agent[q]
    /\ cert'[q] = cert[q]

\* A call of process p only touches objects of p.
LEMMA CreateFrame ==
    ASSUME TypeOK, NEW p \in Procs, NEW r \in Roles, DsmCreate(p, r),
           NEW q \in Procs, q # p
    PROVE  SameObjects(q)
BY KeyType DEF TypeOK, DsmCreate, SameObjects

LEMMA UpdateFrame ==
    ASSUME TypeOK, NEW p \in Procs, NEW s \in UpdateSteps, DsmUpdate(p, s),
           NEW q \in Procs, q # p
    PROVE  SameObjects(q)
BY KeyType DEF TypeOK, DsmUpdate, SameObjects

LEMMA RolesLayout ==
    ASSUME NEW c, SupportedLayout(c)
    PROVE  /\ c.has \ {"primary"} = IF "signing" \in c.has
                                    THEN {"signing", "encryption"} ELSE {"encryption"}
BY DEF SupportedLayout, CSE, C_S_E, Roles, Subkeys

LEMMA FactsKept ==
    ASSUME TypeOK, UNCHANGED cmd, NEW q \in Procs, NEW s, SameObjects(q),
           agent'[q] = agent[q], cert'[q] = cert[q], Facts(q, s)
    PROVE  Facts(q, s)'
<1>1. ObjectFacts(q, s)'
  BY DEF Facts, ObjectFacts, SameObjects, Published, Roles, Subkeys
<1>2. CertFacts(q, s)'
  BY DEF Facts, CertFacts, SameObjects, Published, Roles, Subkeys, AllSubs
<1> QED
  BY <1>1, <1>2 DEF Facts

LEMMA CompleteKept ==
    ASSUME TypeOK, UNCHANGED cmd, NEW q \in Procs, SameObjects(q), Complete(q),
           cmd[q].op = "generate"
    PROVE  Complete(q)'
<1>1. \A u \in AllSubs(q) : \E r \in Roles : u = Key(q, r)
  BY DEF AllSubs, TypeOK, Commands
<1>2. AllSubs(q)' = AllSubs(q)
  BY DEF AllSubs
<1> QED
  BY <1>1, <1>2 DEF Complete, SameObjects, Published, Roles

\* What holds of a process still does when another one makes a step.
LEMMA OtherKept ==
    ASSUME TypeOK, UNCHANGED cmd, NEW q \in Procs, SameObjects(q), SameLocal(q), GenInv(q)
    PROVE  GenInv(q)'
<1>1. RequestOK(q)'
  BY DEF GenInv, RequestOK, SameLocal
<1>2. cert'[q].signers \subseteq {Primary(q)}
  BY DEF GenInv, SameLocal
<1>3. ASSUME cmd[q].op = "generate"
      PROVE  /\ agent'[q] \subseteq {Primary(q)}
             /\ Facts(q, pc[q])'
             /\ req'[q].state = "pending" => Facts(q, req[q].step)'
             /\ req'[q].state = "approved" /\ pc'[q] \in UpdateSteps =>
                   Facts(q, Then(q, pc[q]))'
             /\ Complete(q)'
  <2>1. Facts(q, pc[q])'
    BY <1>3, FactsKept DEF GenInv, SameLocal
  <2>2. req'[q].state = "pending" => Facts(q, req[q].step)'
    BY <1>3, FactsKept DEF GenInv, SameLocal
  <2>3. req'[q].state = "approved" /\ pc'[q] \in UpdateSteps => Facts(q, Then(q, pc[q]))'
    BY <1>3, FactsKept DEF GenInv, SameLocal, Then
  <2>4. Complete(q)'
    BY <1>3, CompleteKept DEF GenInv
  <2> QED
    BY <1>3, <2>1, <2>2, <2>3, <2>4 DEF GenInv, SameLocal
<1> QED
  BY <1>1, <1>2, <1>3 DEF GenInv, SameLocal
----------------------------------------------------------------------------
(***************************************************************************)
(* One lemma for each kind of call of generate_key: the call establishes   *)
(* the facts its successor relies on.                                      *)
(***************************************************************************)
LEMMA DistinctKeys ==
    ASSUME NEW p \in Procs
    PROVE  /\ Primary(p) # Key(p, "signing") /\ Primary(p) # Key(p, "encryption")
           /\ Key(p, "signing") # Key(p, "encryption")
           /\ {Primary(p), Key(p, "signing"), Key(p, "encryption")} \subseteq Uids
BY DEF Uids, Roles, Subkeys

LEMMA CreateFacts ==
    ASSUME TypeOK, NEW p \in Procs, NEW s \in CreateSteps, cmd[p].op = "generate",
           Facts(p, s), DsmCreate(p, StepRole[s]), UNCHANGED <<cmd, agent, cert>>
    PROVE  Facts(p, Then(p, s))' /\ ~Published(p)'
<1> USE DistinctKeys
<1>1. CASE s = "createPrimary"
  <2>1. Then(p, s)' = IF "signing" \in cmd[p].has THEN "createSigning" ELSE "createEncryption"
    BY <1>1 DEF Then, GenerateThen, GenerateCalls
  <2> QED
    BY <1>1, <2>1 DEF Facts, ObjectFacts, CertFacts, DsmCreate, StepRole, TypeOK, NotYet, Signed,
       Stores, SigningOnly, NoSubsYet, CreateSteps, Published, NoMd
<1>2. CASE s = "createSigning"
  <2>1. Then(p, s)' = "createEncryption"
    BY <1>2 DEF Then, GenerateThen, GenerateCalls
  <2> QED
    BY <1>2, <2>1 DEF Facts, ObjectFacts, CertFacts, DsmCreate, StepRole, TypeOK, NotYet, Signed,
       Stores, SigningOnly, NoSubsYet, CreateSteps, Published, NoMd
<1>3. CASE s = "createEncryption"
  <2>1. Then(p, s)' = IF "signing" \in cmd[p].has THEN "linkSigning" ELSE "linkEncryption"
    BY <1>3 DEF Then, GenerateThen, GenerateCalls
  <2> QED
    BY <1>3, <2>1 DEF Facts, ObjectFacts, CertFacts, DsmCreate, StepRole, TypeOK, NotYet, Signed,
       Stores, SigningOnly, NoSubsYet, CreateSteps, Published, NoMd
<1> QED
  BY <1>1, <1>2, <1>3 DEF CreateSteps

LEMMA UpdateFacts ==
    ASSUME TypeOK, NEW p \in Procs, NEW s \in UpdateSteps, cmd[p].op = "generate",
           Facts(p, s), Complete(p), DsmUpdate(p, s), UNCHANGED <<cmd, agent, cert>>
    PROVE  Facts(p, s)' /\ Facts(p, Then(p, s))' /\ Complete(p)'
<1> USE DistinctKeys
<1> DEFINE sg == "signing" \in cmd[p].has
<1>0. /\ SupportedLayout(cmd[p])
      /\ AllSubs(p) = IF sg THEN {Key(p, "signing"), Key(p, "encryption")}
                             ELSE {Key(p, "encryption")}
      /\ AllSubs(p)' = AllSubs(p)
  BY RolesLayout DEF Facts, ObjectFacts, AllSubs, UpdateSteps, NotYet
<1>1. CASE s = "linkSigning"
  <2>1. Then(p, s)' = "linkEncryption"
    BY <1>1 DEF Then, GenerateThen, GenerateCalls
  <2>2. Facts(p, s)' /\ Facts(p, "linkEncryption")'
    BY <1>1 DEF Facts, ObjectFacts, CertFacts, DsmUpdate, StepRole, TypeOK,
       NotYet, Signed, Stores, SigningOnly, NoSubsYet, CreateSteps, Published
  <2>3. Complete(p)'
    BY <1>0, <1>1 DEF Complete, Published, DsmUpdate, StepRole, TypeOK
  <2> QED
    BY <2>1, <2>2, <2>3
<1>2. CASE s = "linkEncryption"
  <2>1. Then(p, s)' = "newCertifier"
    BY <1>2 DEF Then, GenerateThen, GenerateCalls
  <2>2. Facts(p, s)' /\ Facts(p, "newCertifier")'
    BY <1>2 DEF Facts, ObjectFacts, CertFacts, DsmUpdate, StepRole, TypeOK,
       NotYet, Signed, Stores, SigningOnly, NoSubsYet, CreateSteps, Published
  <2>3. Complete(p)'
    BY <1>0, <1>2 DEF Complete, Published, DsmUpdate, StepRole, TypeOK
  <2> QED
    BY <2>1, <2>2, <2>3
<1>3. CASE s = "storePrimary"
  <2>1. Then(p, s)' = IF sg THEN "storeSigning" ELSE "storeEncryption"
    BY <1>3 DEF Then, GenerateThen, GenerateCalls
  <2>2. cert[p].signers = {Primary(p)} /\ cert[p].subs = AllSubs(p)
    BY <1>3 DEF Facts, CertFacts, Stores
  <2>3. md'[Primary(p)].cert = cert[p] /\ Published(p)'
    <3>1. StepRole[s] = "primary"
      BY <1>3 DEF StepRole
    <3>2. md'[Primary(p)] = [set |-> TRUE, flags |-> cmd[p].flags["primary"],
                             cert |-> cert[p]]
      BY <1>3, <3>1 DEF DsmUpdate, TypeOK
    <3>3. NoCert.signers = {}
      BY DEF NoCert
    <3>4. cert[p] # NoCert
      BY <2>2, <3>3
    <3> QED
      BY <3>2, <3>4 DEF Published
  <2>4. Facts(p, s)' /\ Facts(p, "storeEncryption")' /\ (sg => Facts(p, "storeSigning")')
    BY <1>0, <1>3, <2>3 DEF Facts, ObjectFacts, CertFacts, DsmUpdate, StepRole, TypeOK,
       NotYet, Signed, Stores, SigningOnly, NoSubsYet, CreateSteps
  <2>5. Complete(p)'
    BY <1>0, <1>3, <2>2, <2>3 DEF Complete, DsmUpdate, StepRole, Facts, CertFacts,
       ObjectFacts, Stores, NotYet, CreateSteps
  <2> QED
    BY <2>1, <2>4, <2>5
<1>4. CASE s \in {"storeSigning", "storeEncryption"}
  <2>1. Then(p, s)' \in {"storeEncryption", "done"}
    BY <1>4 DEF Then, GenerateThen, GenerateCalls
  <2>2. /\ md'[Primary(p)] = md[Primary(p)]
        /\ live' = live /\ parent' = parent
    BY <1>4 DEF DsmUpdate, StepRole, TypeOK
  <2>3. Facts(p, s)' /\ Facts(p, "storeEncryption")' /\ Facts(p, "done")'
    BY <1>0, <1>4, <2>2 DEF Facts, ObjectFacts, CertFacts, Published,
       NotYet, Signed, Stores, SigningOnly, NoSubsYet, CreateSteps
  <2>4. Complete(p)'
    BY <1>0, <2>2 DEF Complete, Published
  <2> QED
    BY <2>1, <2>3, <2>4
<1> QED
  BY <1>1, <1>2, <1>3, <1>4 DEF UpdateSteps
LEMMA SignFacts ==
    ASSUME TypeOK, NEW p \in Procs, NEW s \in SignSteps, cmd[p].op = "generate",
           Facts(p, s), cert[p].signers \subseteq {Primary(p)},
           cert' = [cert EXCEPT ![p] = CertAfter(p, s)],
           UNCHANGED <<cmd, agent, live, parent, md>>
    PROVE  Facts(p, Then(p, s))' /\ cert'[p].signers \subseteq {Primary(p)}
<1> USE DistinctKeys
<1> DEFINE sg == "signing" \in cmd[p].has
<1>0. /\ SupportedLayout(cmd[p])
      /\ AllSubs(p) = IF sg THEN {Key(p, "signing"), Key(p, "encryption")}
                             ELSE {Key(p, "encryption")}
      /\ AllSubs(p)' = AllSubs(p)
  BY RolesLayout DEF Facts, ObjectFacts, AllSubs, SignSteps, NotYet
<1>1. agent[p] = {Primary(p)} /\ agent'[p] = {Primary(p)}
  BY DEF Facts, CertFacts, SignSteps, Signed
<1>2. cert'[p] = CertAfter(p, s)
  BY DEF TypeOK
<1>3. /\ s # "signEmbedded" => cert'[p].signers = {Primary(p)}
      /\ s = "signEmbedded" => cert'[p].signers = cert[p].signers
  BY <1>1, <1>2 DEF CertAfter, SignSteps, TypeOK, Certs
<1>4. /\ s \notin {"bindEncryption", "bindSigning"} => cert'[p].subs = cert[p].subs
      /\ s = "bindEncryption" => cert'[p].subs = cert[p].subs \cup {Key(p, "encryption")}
      /\ s = "bindSigning" => cert'[p].subs = cert[p].subs \cup {Key(p, "signing")}
  BY <1>2 DEF CertAfter, SignSteps, TypeOK, Certs
<1>5. /\ s = "signEmbedded" => Key(p, "signing") \in cert'[p].back
      /\ s # "signEmbedded" => cert'[p].back = cert[p].back
  BY <1>2 DEF CertAfter, SignSteps, TypeOK, Certs
<1> HIDE DEF sg
<1>6. ObjectFacts(p, Then(p, s))'
  <2>1. Then(p, s)' \in SignSteps \cup {"newSubkeySigner", "storePrimary"}
    BY DEF Then, GenerateThen, GenerateCalls, SignSteps
  <2>2. Then(p, s)' \in SigningOnly => "signing" \in cmd[p].has
    BY DEF Then, GenerateThen, GenerateCalls, SignSteps, SigningOnly, Facts, ObjectFacts
  <2> QED
    BY <2>1, <2>2 DEF Facts, ObjectFacts, SignSteps, NotYet, CreateSteps, Published
<1>7. CertFacts(p, Then(p, s))'
  <2>1. CASE s = "signDirectKey"
    <3>1. Then(p, s)' = "signUserId"
      BY <2>1 DEF Then, GenerateThen, GenerateCalls
    <3> QED
      BY <2>1, <3>1, <1>1, <1>3, <1>4 DEF Facts, CertFacts, Signed, Stores, NoSubsYet
  <2>2. CASE s = "signUserId"
    <3>1. Then(p, s)' = "bindEncryption"
      BY <2>2 DEF Then, GenerateThen, GenerateCalls
    <3> QED
      BY <2>2, <3>1, <1>1, <1>3, <1>4 DEF Facts, CertFacts, Signed, Stores, NoSubsYet
  <2>3. CASE s = "bindEncryption"
    <3>1. Then(p, s)' = IF sg THEN "newSubkeySigner" ELSE "storePrimary"
      BY <2>3 DEF Then, GenerateThen, GenerateCalls, sg
    <3>2. cert'[p].subs = {Key(p, "encryption")}
      BY <2>3, <1>4 DEF Facts, CertFacts, NoSubsYet
    <3>3. ~sg => cert'[p].subs = AllSubs(p)'
      BY <3>2, <1>0
    <3> QED
      BY <2>3, <3>1, <3>2, <3>3, <1>1, <1>3 DEF CertFacts, Signed, Stores, NoSubsYet, sg
  <2>4. CASE s = "signEmbedded"
    <3>1. Then(p, s)' = "bindSigning"
      BY <2>4 DEF Then, GenerateThen, GenerateCalls
    <3> QED
      BY <2>4, <3>1, <1>1, <1>3, <1>4, <1>5 DEF Facts, CertFacts, Signed, Stores, NoSubsYet
  <2>5. CASE s = "bindSigning"
    <3>1. Then(p, s)' = "storePrimary"
      BY <2>5 DEF Then, GenerateThen, GenerateCalls
    <3>2. sg
      BY <2>5 DEF Facts, ObjectFacts, SigningOnly, sg
    <3>3. cert'[p].subs = AllSubs(p)'
      BY <2>5, <3>2, <1>0, <1>4 DEF Facts, CertFacts
    <3> QED
      BY <2>5, <3>1, <3>3, <1>1, <1>3, <1>5 DEF Facts, CertFacts, Signed, Stores, NoSubsYet
  <2> QED
    BY <2>1, <2>2, <2>3, <2>4, <2>5 DEF SignSteps
<1> QED
  BY <1>3, <1>6, <1>7 DEF Facts

\* An object that bears a bare key name is a primary key.
LEMMA NamedIsPrimary ==
    ASSUME TypeOK, NameInv, NEW n \in Names, NEW u \in Named(n)
    PROVE  Owner(u) \in Procs /\ u = Primary(Owner(u)) /\ cmd[Owner(u)].name = n
<1>1. u \in live /\ u \in Uids /\ name[u] = <<n, "primary">>
  BY DEF Named, TypeOK
<1>2. Owner(u) \in Procs /\ RoleOf(u) \in Roles /\ u = <<Owner(u), RoleOf(u)>>
  BY <1>1 DEF Uids, Owner, RoleOf
<1>3. <<n, "primary">> # FinalName(Owner(u), RoleOf(u))
  BY DEF FinalName
<1>4. <<n, "primary">> = <<cmd[Owner(u)].name, RoleOf(u)>>
  BY <1>1, <1>3 DEF NameInv, FirstName
<1> QED
  BY <1>2, <1>4
LEMMA CertifierFacts ==
    ASSUME SafeInv, NEW p \in Procs, cmd[p].op = "generate", pc[p] = "newCertifier",
           NEW u \in Named(cmd[p].name), agent' = [agent EXCEPT ![p] = {u}],
           UNCHANGED <<cmd, cert, live, parent, md>>
    PROVE  Facts(p, Then(p, "newCertifier"))' /\ agent'[p] = {Primary(p)}
<1>1. Facts(p, "newCertifier")
  BY DEF SafeInv, GenInv
<1>2. Primary(p) \in live
  BY <1>1 DEF Facts, ObjectFacts, NotYet
<1>3. cmd[p].name \in Names
  BY DEF SafeInv, TypeInv, TypeOK, Commands
<1>4. Owner(u) \in Procs /\ u = Primary(Owner(u)) /\ cmd[Owner(u)].name = cmd[p].name
  BY <1>3, NamedIsPrimary DEF SafeInv, TypeInv
<1>5. u \in live
  BY DEF Named
<1>6. Owner(u) = p
  BY <1>2, <1>4, <1>5 DEF SafeInv, OneWinner
<1>7. agent'[p] = {Primary(p)}
  BY <1>4, <1>6 DEF SafeInv, TypeInv, TypeOK
<1>8. Then(p, "newCertifier")' = "signDirectKey"
  BY DEF Then, GenerateThen, GenerateCalls
<1>9. ObjectFacts(p, "signDirectKey")'
  BY <1>1 DEF Facts, ObjectFacts, NotYet, CreateSteps, SigningOnly, Published
<1>10. CertFacts(p, "signDirectKey")'
  BY <1>1, <1>7 DEF Facts, CertFacts, Signed, Stores, NoSubsYet
<1> QED
  BY <1>7, <1>8, <1>9, <1>10 DEF Facts

\* Nothing is known, or needed, of a command that has failed.
LEMMA FailedFacts == \A p : Facts(p, "failed") /\ Facts(p, "failed")'
BY DEF Facts, ObjectFacts, CertFacts, NotYet, CreateSteps, Signed, Stores, SigningOnly, NoSubsYet
----------------------------------------------------------------------------
(***************************************************************************)
(* Names.                                                                  *)
(***************************************************************************)
LEMMA CreateNames ==
    ASSUME SafeInv, NEW p \in Procs, NEW s \in CreateSteps, Create(p, s)
    PROVE  NameInv' /\ OneWinner'
<1> DEFINE r == StepRole[s]
           k == Key(p, r)
<1>1. r \in Roles /\ k \in Uids /\ Owner(k) = p /\ RoleOf(k) = r
  BY RoleType, KeyType DEF Owner, RoleOf
<1>2. UNCHANGED cmd
  BY DEF Create
<1>3. CASE UNCHANGED dsm
  BY <1>2, <1>3 DEF dsm, SafeInv, NameInv, OneWinner, FirstName, FinalName
<1>4. CASE DsmCreate(p, r)
  <2>1. live' = live \cup {k}
    BY <1>4 DEF DsmCreate
  <2>2. /\ name'[k] \in {FirstName(p, r), FinalName(p, r)}
        /\ r = "primary" => name'[k] = FirstName(p, r)
        /\ \A u \in live : u # k => name'[u] = name[u]
    BY <1>1, <1>4 DEF DsmCreate, SafeInv, TypeInv, TypeOK
  <2>3. NameInv'
    BY <1>1, <1>2, <2>1, <2>2 DEF SafeInv, NameInv, FirstName, FinalName
  <2>4. ASSUME r = "primary", NEW q \in Procs, Primary(q) \in live, q # p,
               cmd[q].name = cmd[p].name
        PROVE  FALSE
    <3>1. name[Primary(q)] = FirstName(q, "primary")
      BY <2>4 DEF SafeInv, NameInv, Owner, RoleOf
    <3>2. NameFree(FirstName(p, "primary")) \/ live' = live
      BY <2>4 DEF Create, dsm
    <3>3. ~NameFree(FirstName(p, "primary"))
      BY <2>4, <3>1 DEF NameFree, FirstName
    <3>4. Primary(p) \in live
      BY <2>1, <2>4, <3>2, <3>3
    <3> QED
      BY <2>4, <3>4 DEF SafeInv, OneWinner
  <2>5. OneWinner'
    BY <1>1, <1>2, <2>1, <2>4 DEF SafeInv, OneWinner
  <2> QED
    BY <2>3, <2>5
<1> QED
  BY <1>3, <1>4 DEF Create

LEMMA UpdateNames ==
    ASSUME SafeInv, NEW p \in Procs, NEW s \in UpdateSteps, DsmUpdate(p, s), UNCHANGED cmd
    PROVE  NameInv' /\ OneWinner'
<1> DEFINE r == StepRole[s]
           k == Key(p, r)
<1>1. r \in Roles /\ k \in Uids /\ Owner(k) = p /\ RoleOf(k) = r
  BY RoleType, KeyType DEF Owner, RoleOf
<1>2. live' = live
  BY DEF DsmUpdate
<1>3. CASE s \in {"storeSigning", "storeEncryption"}
  <2>1. r # "primary"
    BY <1>3 DEF StepRole
  <2>2. name'[k] = FinalName(p, r) /\ \A u \in live : u # k => name'[u] = name[u]
    BY <1>1, <1>3 DEF DsmUpdate, SafeInv, TypeInv, TypeOK
  <2> QED
    BY <1>1, <1>2, <2>1, <2>2 DEF SafeInv, NameInv, OneWinner, FirstName, FinalName
<1>4. CASE s \notin {"storeSigning", "storeEncryption"}
  <2>1. name' = name
    BY <1>4 DEF DsmUpdate
  <2> QED
    BY <1>2, <2>1 DEF SafeInv, NameInv, OneWinner, FirstName, FinalName
<1> QED
  BY <1>3, <1>4

\* Steps that leave DSM alone.
LEMMA SameNames ==
    ASSUME SafeInv, UNCHANGED <<cmd, live, name>>
    PROVE  NameInv' /\ OneWinner'
BY DEF SafeInv, NameInv, OneWinner, FirstName, FinalName
----------------------------------------------------------------------------
(***************************************************************************)
(* The inductive step.                                                     *)
(***************************************************************************)
LEMMA OthersKept ==
    ASSUME SafeInv, UNCHANGED cmd, NEW p \in Procs, GenInv(p)',
           \A q \in Procs : q # p => SameObjects(q) /\ SameLocal(q)
    PROVE  \A q \in Procs : GenInv(q)'
BY OtherKept DEF SafeInv, TypeInv

\* Only generate_key makes signatures and stores metadata by an update.
LEMMA GenerateStep ==
    ASSUME TypeInv, NEW p \in Procs,
           pc[p] \in SignSteps \cup {"newCertifier", "newSubkeySigner"}
    PROVE  cmd[p].op = "generate"
BY DEF TypeInv, StepOK, StepsOf, ImportSteps, ReadSteps, Terminal, SignSteps,
       CreateSteps, UpdateSteps, WriteSteps

LEMMA SafeCreate ==
    ASSUME SafeInv, NEW p \in Procs, NEW s \in CreateSteps, Create(p, s)
    PROVE  SafeInv'
<1>1. TypeInv'
  BY TypeWrite DEF SafeInv, WriterStep
<1>2. NameInv' /\ OneWinner'
  BY CreateNames
<1>3. \A q \in Procs : q # p => SameLocal(q)
  BY DEF Create, SameLocal, SafeInv, TypeInv, TypeOK
<1>4. \A q \in Procs : q # p => SameObjects(q)
  <2>1. CASE UNCHANGED dsm
    BY <2>1 DEF dsm, SameObjects
  <2>2. CASE DsmCreate(p, StepRole[s])
    BY <2>2, CreateFrame, RoleType DEF SafeInv, TypeInv
  <2> QED
    BY <2>1, <2>2 DEF Create
<1>5. GenInv(p)'
  <2>0. /\ UNCHANGED <<cmd, req, agent, cert>>
        /\ pc[p] = s /\ pc \in [Procs -> Steps]
        /\ pc'[p] \in {Then(p, s), "failed"}
    BY DEF Create, SafeInv, TypeInv, TypeOK
  <2>1. req[p].state \notin {"pending", "approved"}
    BY <2>0 DEF SafeInv, GenInv, RequestOK, ApprovalSteps, UpdateSteps, SignSteps, CreateSteps
  <2>2. ASSUME cmd[p].op = "generate"
        PROVE  Facts(p, pc[p])' /\ Complete(p)'
    <3>1. CASE UNCHANGED dsm /\ pc'[p] = "failed"
      <4>1. Complete(p)'
        BY <2>0, <2>2, <3>1, CompleteKept DEF dsm, SafeInv, GenInv, SameObjects, TypeInv
      <4> QED
        BY <3>1, <4>1, FailedFacts
    <3>2. CASE DsmCreate(p, StepRole[s])
      <4>1. Facts(p, Then(p, s))' /\ ~Published(p)'
        BY <2>0, <2>2, <3>2, CreateFacts DEF SafeInv, GenInv, TypeInv
      <4>2. Then(p, s)' = Then(p, s)
        BY <2>0 DEF Then
      <4>3. Facts(p, pc[p])'
        BY <2>0, <4>1, <4>2, FailedFacts
      <4> QED
        BY <4>1, <4>3 DEF Complete
    <3> QED
      BY <3>1, <3>2 DEF Create, SafeInv, TypeInv, TypeOK
  <2> QED
    BY <2>0, <2>1, <2>2 DEF SafeInv, GenInv, RequestOK
<1>6. \A q \in Procs : GenInv(q)'
  BY <1>3, <1>4, <1>5, OthersKept DEF Create
<1> QED
  BY <1>1, <1>2, <1>6 DEF SafeInv

LEMMA SafeUpdate ==
    ASSUME SafeInv, NEW p \in Procs, NEW s \in UpdateSteps, Update(p, s)
    PROVE  SafeInv'
<1>1. TypeInv'
  BY TypeWrite DEF SafeInv, WriterStep
<1>2. NameInv' /\ OneWinner'
  BY UpdateNames DEF Update
<1>3. \A q \in Procs : q # p => SameLocal(q) /\ SameObjects(q)
  BY UpdateFrame DEF Update, SameLocal, SafeInv, TypeInv, TypeOK
<1>4. GenInv(p)'
  <2>0. /\ UNCHANGED <<cmd, req, agent, cert>>
        /\ pc[p] = s /\ req[p].state = "none"
        /\ pc'[p] \in {Then(p, s), "failed"}
    BY DEF Update, SafeInv, TypeInv, TypeOK
  <2>1. ASSUME cmd[p].op = "generate"
        PROVE  Facts(p, pc[p])' /\ Complete(p)'
    <3>1. Facts(p, Then(p, s))' /\ Complete(p)'
      BY <2>0, <2>1, UpdateFacts DEF SafeInv, GenInv, TypeInv, Update
    <3>2. Then(p, s)' = Then(p, s)
      BY <2>0 DEF Then
    <3> QED
      BY <2>0, <3>1, <3>2, FailedFacts
  <2> QED
    BY <2>0, <2>1 DEF SafeInv, GenInv, RequestOK
<1>5. \A q \in Procs : GenInv(q)'
  BY <1>3, <1>4, OthersKept DEF Update
<1> QED
  BY <1>1, <1>2, <1>5 DEF SafeInv

LEMMA SafeUpdated ==
    ASSUME SafeInv, NEW p \in Procs, NEW s \in UpdateSteps, Updated(p, s)
    PROVE  SafeInv'
<1>1. TypeInv'
  BY TypeWrite DEF SafeInv, WriterStep
<1>2. NameInv' /\ OneWinner'
  BY SameNames DEF Updated
<1>3. \A q \in Procs : SameObjects(q) /\ (q # p => SameLocal(q))
  BY DEF Updated, SameLocal, SameObjects, SafeInv, TypeInv, TypeOK
<1>4. GenInv(p)'
  <2>0. /\ UNCHANGED <<cmd, agent, cert>>
        /\ pc[p] = s /\ req[p].state = "approved"
        /\ pc'[p] = Then(p, s) /\ req'[p].state = "none"
    BY DEF Updated, NoReq, SafeInv, TypeInv, TypeOK
  <2>1. ASSUME cmd[p].op = "generate"
        PROVE  Facts(p, pc[p])' /\ Complete(p)'
    <3>1. Facts(p, Then(p, s))
      BY <2>0, <2>1 DEF SafeInv, GenInv
    <3>2. \A t : Facts(p, t) => Facts(p, t)'
      BY <1>3, <2>0, FactsKept DEF SafeInv, TypeInv
    <3>3. Complete(p)'
      BY <1>3, <2>0, <2>1, CompleteKept DEF SafeInv, TypeInv, GenInv
    <3> QED
      BY <2>0, <3>1, <3>2, <3>3
  <2> QED
    BY <2>0, <2>1 DEF SafeInv, GenInv, RequestOK
<1>5. \A q \in Procs : GenInv(q)'
  BY <1>3, <1>4, OthersKept DEF Updated
<1> QED
  BY <1>1, <1>2, <1>5 DEF SafeInv
LEMMA SafeSign ==
    ASSUME SafeInv, NEW p \in Procs, NEW s \in SignSteps, Sign(p, s)
    PROVE  SafeInv'
<1>1. TypeInv'
  BY TypeWrite DEF SafeInv, WriterStep
<1>2. NameInv' /\ OneWinner'
  BY SameNames DEF Sign
<1>3. \A q \in Procs : SameObjects(q) /\ (q # p => SameLocal(q))
  BY DEF Sign, Granted, SameLocal, SameObjects, SafeInv, TypeInv, TypeOK
<1>4. GenInv(p)'
  <2>0. /\ UNCHANGED <<cmd, agent, live, parent, md>>
        /\ pc[p] = s /\ req'[p].state = "none"
    BY DEF Sign, Granted, NoReq, SafeInv, TypeInv, TypeOK
  <2>1. cmd[p].op = "generate"
    BY <2>0, GenerateStep DEF SafeInv
  <2>2. Complete(p)'
    BY <1>3, <2>0, <2>1, CompleteKept DEF SafeInv, TypeInv, GenInv
  <2>3. CASE cert' = cert /\ pc'[p] = "failed"
    BY <2>0, <2>1, <2>2, <2>3, FailedFacts DEF SafeInv, GenInv, RequestOK
  <2>4. CASE cert' = [cert EXCEPT ![p] = CertAfter(p, s)] /\ pc'[p] = Then(p, s)
    <3>1. Facts(p, Then(p, s))' /\ cert'[p].signers \subseteq {Primary(p)}
      BY <2>0, <2>1, <2>4, SignFacts DEF SafeInv, TypeInv, GenInv
    <3>2. Then(p, s)' = Then(p, s)
      BY <2>0 DEF Then
    <3> QED
      BY <2>0, <2>1, <2>2, <2>4, <3>1, <3>2 DEF SafeInv, GenInv, RequestOK
  <2> QED
    BY <2>3, <2>4 DEF Sign, SafeInv, TypeInv, TypeOK
<1>5. \A q \in Procs : GenInv(q)'
  BY <1>3, <1>4, OthersKept DEF Sign
<1> QED
  BY <1>1, <1>2, <1>5 DEF SafeInv

LEMMA SafeAgents ==
    ASSUME SafeInv, NEW p \in Procs, NewCertifier(p) \/ NewSubkeySigner(p)
    PROVE  SafeInv'
<1>1. TypeInv'
  BY TypeWrite DEF SafeInv, WriterStep
<1>2. NameInv' /\ OneWinner'
  BY SameNames DEF NewCertifier, NewSubkeySigner
<1>3. \A q \in Procs : SameObjects(q) /\ (q # p => SameLocal(q))
  BY DEF NewCertifier, NewSubkeySigner, SameLocal, SameObjects, SafeInv, TypeInv, TypeOK
<1>4. GenInv(p)'
  <2>0. /\ UNCHANGED <<cmd, req, cert, live, parent, md>>
        /\ pc[p] \in {"newCertifier", "newSubkeySigner"}
    BY DEF NewCertifier, NewSubkeySigner
  <2>1. cmd[p].op = "generate"
    BY <2>0, GenerateStep DEF SafeInv
  <2>2. Complete(p)'
    BY <1>3, <2>0, <2>1, CompleteKept DEF SafeInv, TypeInv, GenInv
  <2>3. req[p].state \notin {"pending", "approved"}
    BY <2>0 DEF SafeInv, GenInv, RequestOK, ApprovalSteps, UpdateSteps, SignSteps
  <2>4. Facts(p, pc[p])' /\ agent'[p] \subseteq {Primary(p)}
    <3>1. CASE pc'[p] = "failed" /\ agent' = agent
      BY <2>1, <3>1, FailedFacts DEF SafeInv, GenInv
    <3>2. ASSUME NEW u \in Named(cmd[p].name), agent' = [agent EXCEPT ![p] = {u}],
                 pc[p] = "newCertifier", pc'[p] = Then(p, "newCertifier")
          PROVE  Facts(p, pc[p])' /\ agent'[p] \subseteq {Primary(p)}
      <4>1. Facts(p, Then(p, "newCertifier"))' /\ agent'[p] = {Primary(p)}
        BY <2>0, <2>1, <3>2, CertifierFacts
      <4>2. Then(p, "newCertifier")' = Then(p, "newCertifier")
        BY <2>0 DEF Then
      <4> QED
        BY <3>2, <4>1, <4>2
    <3>3. CASE agent' = agent /\ pc[p] = "newSubkeySigner" /\ pc'[p] = Then(p, "newSubkeySigner")
      <4>1. pc'[p] = "signEmbedded"
        BY <2>1, <3>3 DEF Then, GenerateThen, GenerateCalls
      <4>2. Facts(p, "newSubkeySigner") /\ agent[p] \subseteq {Primary(p)}
        BY <2>1, <3>3 DEF SafeInv, GenInv
      <4>3. Facts(p, "signEmbedded")
        BY <4>2 DEF Facts, ObjectFacts, CertFacts, NotYet, CreateSteps, Signed, Stores,
                    SigningOnly, NoSubsYet
      <4>4. Facts(p, "signEmbedded")'
        BY <1>3, <2>0, <3>3, <4>3, FactsKept DEF SafeInv, TypeInv
      <4> QED
        BY <3>3, <4>1, <4>2, <4>4
    <3> QED
      BY <3>1, <3>2, <3>3 DEF NewCertifier, NewSubkeySigner, SafeInv, TypeInv, TypeOK
  <2> QED
    BY <2>0, <2>1, <2>2, <2>3, <2>4 DEF SafeInv, GenInv, RequestOK
<1>5. \A q \in Procs : GenInv(q)'
  BY <1>3, <1>4, OthersKept DEF NewCertifier, NewSubkeySigner
<1> QED
  BY <1>1, <1>2, <1>5 DEF SafeInv

\* A reader changes nothing in DSM and has no certificate of its own.
LEMMA SafeRead ==
    ASSUME SafeInv, NEW p \in Procs, ReaderStep(p)
    PROVE  SafeInv'
<1>1. TypeInv'
  BY TypeRead DEF SafeInv
<1>2. UNCHANGED <<cmd, cert, live, name, parent, md>>
  BY DEF ReaderStep, GetPrimary, ListObjects, GetSubkey, SignData, DecryptKey,
         ExportPrimary, ExportSubkey
<1>3. NameInv' /\ OneWinner'
  BY <1>2, SameNames
<1>4. pc[p] \in ReadSteps
  BY DEF ReaderStep, GetPrimary, ListObjects, GetSubkey, SignData, DecryptKey,
         ExportPrimary, ExportSubkey, Granted, ReadSteps
<1>5. cmd[p].op # "generate"
  BY <1>4 DEF SafeInv, TypeInv, StepOK, StepsOf, ReadSteps, WriteSteps, CreateSteps,
              UpdateSteps, SignSteps, Terminal
<1>6. \A q \in Procs : SameObjects(q) /\ (q # p => SameLocal(q))
  BY <1>2 DEF SameObjects, SameLocal, SafeInv, TypeInv, TypeOK, ReaderStep, GetPrimary,
     ListObjects, GetSubkey, SignData, DecryptKey, ExportPrimary, ExportSubkey, Granted
<1>7. RequestOK(p)'
  <2>1. CASE GetPrimary(p) \/ ListObjects(p) \/ GetSubkey(p)
    BY <2>1 DEF GetPrimary, ListObjects, GetSubkey, SafeInv, GenInv, RequestOK,
                ApprovalSteps, UpdateSteps, SignSteps
  <2>2. CASE SignData(p) \/ DecryptKey(p) \/ ExportPrimary(p) \/ ExportSubkey(p)
    <3>1. req'[p] = NoReq
      BY <2>2 DEF SignData, DecryptKey, ExportPrimary, ExportSubkey, Granted,
                  SafeInv, TypeInv, TypeOK
    <3> QED
      BY <3>1 DEF NoReq, RequestOK
  <2> QED
    BY <2>1, <2>2 DEF ReaderStep
<1>8. GenInv(p)'
  BY <1>2, <1>5, <1>7 DEF SafeInv, GenInv
<1>9. \A q \in Procs : GenInv(q)'
  BY <1>2, <1>6, <1>8, OthersKept
<1> QED
  BY <1>1, <1>3, <1>9 DEF SafeInv
LEMMA SafeEnds ==
    ASSUME SafeInv, NEW p \in Procs, Start(p) \/ Denied(p) \/ Abort(p)
    PROVE  SafeInv'
<1>1. TypeInv'
  BY TypeOther DEF SafeInv
<1>2. UNCHANGED <<cmd, agent, cert, live, name, parent, md>>
  BY DEF Start, Denied, Abort
<1>3. NameInv' /\ OneWinner'
  BY <1>2, SameNames
<1>4. \A q \in Procs : SameObjects(q) /\ (q # p => SameLocal(q))
  BY <1>2 DEF Start, Denied, Abort, SameLocal, SameObjects, SafeInv, TypeInv, TypeOK
<1>5. \A s : Facts(p, s) => Facts(p, s)'
  BY <1>2, <1>4, FactsKept DEF SafeInv, TypeInv
<1>6. cmd[p].op = "generate" => Complete(p)'
  BY <1>2, <1>4, CompleteKept DEF SafeInv, TypeInv, GenInv
<1>7. CASE Denied(p) \/ Abort(p)
  <2>1. pc'[p] = "failed" /\ (req'[p] = req[p] \/ req'[p] = NoReq)
    BY <1>7 DEF Denied, Abort, SafeInv, TypeInv, TypeOK
  <2>2. NoReq.state = "none"
    BY DEF NoReq
  <2>3. RequestOK(p)'
    BY <2>1, <2>2 DEF SafeInv, GenInv, RequestOK
  <2>4. GenInv(p)'
    BY <1>2, <1>5, <1>6, <2>1, <2>2, <2>3, FailedFacts DEF SafeInv, GenInv, UpdateSteps
  <2>5. \A q \in Procs : GenInv(q)'
    BY <1>2, <1>4, <2>4, OthersKept
  <2> QED
    BY <1>1, <1>3, <2>5 DEF SafeInv
<1>8. CASE Start(p)
  <2>1. pc[p] = "start" /\ pc'[p] = FirstCall(cmd[p]) /\ req' = req
    BY <1>8 DEF Start, SafeInv, TypeInv, TypeOK
  <2>2. req[p].state \notin {"pending", "approved"}
    BY <2>1 DEF SafeInv, GenInv, RequestOK, ApprovalSteps, UpdateSteps, SignSteps
  <2>3. ASSUME cmd[p].op = "generate" PROVE Facts(p, pc[p])'
    <3>1. CASE SupportedLayout(cmd[p])
      <4>1. Facts(p, "start")
        BY <2>1, <2>3 DEF SafeInv, GenInv
      <4>2. Facts(p, "createPrimary")
        BY <3>1, <4>1 DEF Facts, ObjectFacts, CertFacts, NotYet, CreateSteps, Signed, Stores,
                    SigningOnly, NoSubsYet
      <4>3. pc'[p] = "createPrimary"
        BY <2>1, <2>3, <3>1 DEF FirstCall
      <4> QED
        BY <1>5, <4>2, <4>3
    <3>2. CASE ~SupportedLayout(cmd[p])
      BY <2>1, <2>3, <3>2, FailedFacts DEF FirstCall
    <3> QED
      BY <3>1, <3>2
  <2>4. GenInv(p)'
    BY <1>2, <1>6, <2>1, <2>2, <2>3 DEF SafeInv, GenInv, RequestOK
  <2>5. \A q \in Procs : GenInv(q)'
    BY <1>2, <1>4, <2>4, OthersKept
  <2> QED
    BY <1>1, <1>3, <2>5 DEF SafeInv
<1> QED
  BY <1>7, <1>8

LEMMA SafeApproval ==
    ASSUME SafeInv, NEW p \in Procs, AskApproval(p) \/ Quorum(p)
    PROVE  SafeInv'
<1>1. TypeInv'
  BY TypeOther DEF SafeInv
<1>2. UNCHANGED <<cmd, pc, agent, cert>>
  BY DEF AskApproval, Quorum, Approve, Deny
<1>3. CASE Approve(p) /\ req[p].step \in UpdateSteps
  <2>0. /\ DsmUpdate(p, req[p].step) /\ req[p].state = "pending"
        /\ req'[p].state = "approved" /\ req'[p].step = req[p].step
    BY <1>3 DEF Approve, SafeInv, TypeInv, TypeOK
  <2>1. NameInv' /\ OneWinner'
    BY <1>2, <1>3, <2>0, UpdateNames
  <2>2. \A q \in Procs : q # p => SameObjects(q) /\ SameLocal(q)
    BY <1>2, <1>3, <2>0, UpdateFrame DEF Approve, SameLocal, SafeInv, TypeInv, TypeOK
  <2>3. RequestOK(p)'
    BY <1>2, <2>0 DEF SafeInv, GenInv, RequestOK
  <2>4. ASSUME cmd[p].op = "generate"
        PROVE  /\ Facts(p, pc[p])' /\ Complete(p)'
               /\ pc[p] \in UpdateSteps => Facts(p, Then(p, pc[p]))'
    <3>1. PICK s \in UpdateSteps : s = req[p].step
      BY <1>3
    <3>2. Facts(p, s) /\ Complete(p) /\ DsmUpdate(p, s)
      BY <2>0, <2>4, <3>1 DEF SafeInv, GenInv
    <3>3. Facts(p, s)' /\ Facts(p, Then(p, s))' /\ Complete(p)'
      BY <1>2, <2>4, <3>2, UpdateFacts DEF SafeInv, TypeInv
    <3>4. pc[p] \in {s, "failed"} /\ pc'[p] = pc[p]
      BY <1>2, <2>0, <3>1 DEF SafeInv, GenInv, RequestOK
    <3>5. Then(p, s)' = Then(p, s)
      BY <1>2 DEF Then
    <3>6. Facts(p, pc[p])'
      BY <3>3, <3>4, FailedFacts
    <3>7. pc[p] \in UpdateSteps => Facts(p, Then(p, pc[p]))'
      BY <3>3, <3>4 DEF UpdateSteps
    <3> QED
      BY <3>3, <3>6, <3>7
  <2>5. GenInv(p)'
    BY <1>2, <2>0, <2>3, <2>4 DEF SafeInv, GenInv
  <2>6. \A q \in Procs : GenInv(q)'
    BY <1>2, <2>2, <2>5, OthersKept
  <2> QED
    BY <1>1, <2>1, <2>6 DEF SafeInv
<1>4. CASE AskApproval(p) \/ Deny(p) \/ (Approve(p) /\ req[p].step \notin UpdateSteps)
  <2>0. UNCHANGED <<live, name, parent, md>>
    BY <1>4 DEF AskApproval, Deny, Approve, dsm
  <2>1. NameInv' /\ OneWinner'
    BY <1>2, <2>0, SameNames
  <2>2. \A q \in Procs : SameObjects(q) /\ (q # p => SameLocal(q))
    BY <1>2, <1>4, <2>0 DEF AskApproval, Deny, Approve, SameObjects, SameLocal, SafeInv, TypeInv, TypeOK
  <2>3. \A s : Facts(p, s) => Facts(p, s)'
    BY <1>2, <2>2, FactsKept DEF SafeInv, TypeInv
  <2>4. cmd[p].op = "generate" => Complete(p)'
    BY <1>2, <2>2, CompleteKept DEF SafeInv, TypeInv, GenInv
  <2>5. /\ RequestOK(p)'
        /\ req'[p].state = "pending" => req'[p].step = pc[p]
        /\ req'[p].state = "approved" => pc[p] \notin UpdateSteps
    <3>1. CASE AskApproval(p)
      BY <1>2, <3>1 DEF AskApproval, RequestOK, SafeInv, TypeInv, TypeOK
    <3>2. CASE Deny(p)
      BY <1>2, <3>2 DEF Deny, RequestOK, SafeInv, TypeInv, TypeOK
    <3>3. CASE Approve(p) /\ req[p].step \notin UpdateSteps
      <4>1. /\ req[p].state = "pending" /\ req'[p].state = "approved"
            /\ req'[p].step = req[p].step
        BY <3>3 DEF Approve, SafeInv, TypeInv, TypeOK
      <4>2. pc[p] \in {req[p].step, "failed"} /\ req[p].step \in ApprovalSteps
        BY <4>1 DEF SafeInv, GenInv, RequestOK
      <4> QED
        BY <1>2, <3>3, <4>1, <4>2 DEF RequestOK, UpdateSteps
    <3> QED
      BY <1>4, <3>1, <3>2, <3>3
  <2>6. GenInv(p)'
    BY <1>2, <2>3, <2>4, <2>5 DEF SafeInv, GenInv
  <2>7. \A q \in Procs : GenInv(q)'
    BY <1>2, <2>2, <2>6, OthersKept
  <2> QED
    BY <1>1, <2>1, <2>7 DEF SafeInv
<1> QED
  BY <1>3, <1>4 DEF Quorum
----------------------------------------------------------------------------
LEMMA SafeInit == Init => SafeInv
<1> SUFFICES ASSUME Init PROVE SafeInv
  OBVIOUS
<1>1. TypeInv
  BY TypeInit
<1>2. NameInv /\ OneWinner
  BY DEF Init, NameInv, OneWinner
<1>3. ASSUME NEW p \in Procs PROVE GenInv(p)
  <2>1. req[p].state = "none" /\ pc[p] = "start" /\ agent[p] = {} /\ cert[p] = NoCert
    BY DEF Init, NoReq
  <2>2. ~Published(p)
    BY KeyType DEF Init, Published, NoMd, Roles
  <2>3. Facts(p, "start")
    BY <2>1, <2>2 DEF Facts, ObjectFacts, CertFacts, NotYet, Signed, Stores, SigningOnly, NoCert
  <2>4. cert[p].signers = {}
    BY <2>1 DEF NoCert
  <2> QED
    BY <2>1, <2>2, <2>3, <2>4 DEF GenInv, RequestOK, Complete
<1> QED
  BY <1>1, <1>2, <1>3 DEF SafeInv

LEMMA SafeNext == SafeInv /\ [Next]_vars => SafeInv'
<1> SUFFICES ASSUME SafeInv, [Next]_vars PROVE SafeInv'
  OBVIOUS
<1>1. ASSUME NEW p \in Procs, WriterStep(p) PROVE SafeInv'
  BY <1>1, SafeCreate, SafeUpdate, SafeUpdated, SafeSign, SafeAgents DEF WriterStep
<1>2. ASSUME NEW p \in Procs, Start(p) \/ ReaderStep(p) \/ Denied(p) \/ Abort(p) PROVE SafeInv'
  BY <1>2, SafeRead, SafeEnds
<1>3. ASSUME NEW p \in Procs, AskApproval(p) \/ Quorum(p) PROVE SafeInv'
  BY <1>3, SafeApproval
<1>4. CASE UNCHANGED vars
  <2>1. TypeInv'
    BY <1>4, TypeNext DEF SafeInv
  <2>2. NameInv' /\ OneWinner'
    BY <1>4, SameNames DEF vars
  <2>3. \A q \in Procs : GenInv(q)'
    BY <1>4, OtherKept DEF vars, SafeInv, TypeInv, SameObjects, SameLocal
  <2> QED
    BY <2>1, <2>2, <2>3 DEF SafeInv
<1> QED
  BY <1>1, <1>2, <1>3, <1>4 DEF Next, Step, Finished

LEMMA Safe == Spec => []SafeInv
BY SafeInit, SafeNext, PTL DEF Spec

\* At most one of the commands that write under a key name ever has a primary
\* key in DSM: the name check of DSM is the only lock generate_key and
\* import_key_to_dsm have, and it is enough.
THEOREM OneWinnerHolds == Spec => []OneWinner
<1>1. SafeInv => OneWinner
  BY DEF SafeInv
<1> QED
  BY <1>1, Safe, PTL

\* Although generate_key finds its certifying key by name, every signature on
\* the certificate it assembles is by the primary key it created itself.
THEOREM CertifierIsOwnHolds == Spec => []CertifierIsOwn
<1>1. SafeInv => CertifierIsOwn
  BY DEF SafeInv, GenInv, CertifierIsOwn
<1> QED
  BY <1>1, Safe, PTL

\* A certificate stored by generate_key is complete and its subkeys exist and
\* are linked, whatever fails, dies, or is approved late.
THEOREM PublishedIsCompleteHolds == Spec => []PublishedIsComplete
<1>1. SafeInv => PublishedIsComplete
  BY DEF SafeInv, GenInv, Complete, AllSubs, PublishedIsComplete
<1> QED
  BY <1>1, Safe, PTL
----------------------------------------------------------------------------
(***************************************************************************)
(* What the writers leave in DSM, and what a reader makes of it.           *)
(*                                                                         *)
(* StoredFacts(p, s) is what generate_key and import_key_to_dsm have       *)
(* stored when they are about to make call s; ObjectInv(p) holds of the    *)
(* objects of p whatever p does, also after its death.  ReaderInv and      *)
(* TskInv say that the keys a reader has collected by several calls all    *)
(* belong to the one primary of its key name.                              *)
(***************************************************************************)
BeforeStore == {"start", "newCertifier", "newSubkeySigner", "linkSigning",
                "linkEncryption"} \cup CreateSteps \cup SignSteps

Advertised(p, r) == md[Key(p, r)].set /\ md[Key(p, r)].flags = cmd[p].flags[r]
Stored(p, r)     == Advertised(p, r) /\ name[Key(p, r)] = FinalName(p, r)
Linked(p, r)     == /\ Key(p, r) \in live
                    /\ Stored(p, r)
                    /\ parent[Key(p, r)] = {Primary(p)}

GenStored(p, s) ==
    /\ s \in {"storeSigning", "storeEncryption", "done"} => Advertised(p, "primary")
    /\ s \in {"storeEncryption", "done"} /\ "signing" \in cmd[p].has =>
          Stored(p, "signing")
    /\ s = "done" => Stored(p, "encryption")
    /\ s \in BeforeStore => ~Published(p)

ImpStored(p, s) ==
    /\ s \in {"start", "createPrimary"} => Primary(p) \notin live
    /\ s \notin {"start", "failed", "createPrimary"} =>
          Primary(p) \in live /\ Advertised(p, "primary")
    /\ s \in {"createSigning", "linkSigning"} => "signing" \in Imported(cmd[p])
    /\ s = "linkSigning" => Key(p, "signing") \in live /\ Stored(p, "signing")
    /\ s \in {"createEncryption", "linkEncryption"} => "encryption" \in Imported(cmd[p])
    /\ s = "linkEncryption" => Key(p, "encryption") \in live /\ Stored(p, "encryption")
    /\ s \in {"createEncryption", "linkEncryption", "done"} =>
          ("signing" \in Imported(cmd[p]) => Linked(p, "signing"))
    /\ s = "done" => ("encryption" \in Imported(cmd[p]) => Linked(p, "encryption"))

StoredFacts(p, s) == /\ cmd[p].op = "generate" => GenStored(p, s)
                     /\ cmd[p].op = "import" => ImpStored(p, s)

ObjectInv(p) ==
    /\ \A r \in Roles : Key(p, r) \in live =>
          cmd[p].op \in Writers /\ r \in cmd[p].has /\ Primary(p) \in live
    /\ parent[Primary(p)] = {}
    /\ \A r \in Roles : parent[Key(p, r)] \subseteq {Primary(p)}
    /\ Published(p) => Primary(p) \in live
    /\ cmd[p].op = "generate" =>
          /\ \A r \in Roles : md[Key(p, r)].set => Published(p)
          /\ Published(p) => md[Primary(p)].cert = cert[p]
    /\ cmd[p].op = "import" => (Primary(p) \in live => md[Primary(p)].cert = InputCert(p))

WriterInv(p) ==
    /\ req[p].state = "pending" => req[p].step \in StepsOf(cmd[p].op)
    /\ ObjectInv(p)
    /\ StoredFacts(p, pc[p])
    /\ req[p].state = "approved" /\ pc[p] \in UpdateSteps => StoredFacts(p, Then(p, pc[p]))

\* q made the key that the command of p names.
KeyOf(p, q) == cmd[q].name = cmd[p].name /\ Primary(q) \in live

ReaderInv(p) ==
    cmd[p].op \in Readers =>
       /\ \A u \in agent[p] : \E q \in Procs :
             KeyOf(p, q) /\ u \in {Primary(q)} \cup md[Primary(q)].cert.subs
       /\ \A u \in todo[p] : \E q \in Procs, r \in Subkeys :
             KeyOf(p, q) /\ u = Key(q, r) /\ u \in live

TskInv(p) ==
    cmd[p].op = "extractTsk" =>
       /\ pc[p] \in {"start", "exportPrimary", "exportSubkey", "done", "failed"}
       /\ pc[p] = "done" => todo[p] = {}
       /\ \A q \in Procs : cmd[q].op = "generate" /\ Primary(q) \in got[p] =>
             Published(q) /\ got[p] \cup todo[p] = {Primary(q)} \cup AllSubs(q)

UseInv == /\ SafeInv
          /\ \A p \in Procs : WriterInv(p) /\ ReaderInv(p) /\ TskInv(p)
----------------------------------------------------------------------------
\* As SameObjects, the names included.
SameKeys(q) == SameObjects(q) /\ \A r \in Roles : name'[Key(q, r)] = name[Key(q, r)]

LEMMA CreateKeysFrame ==
    ASSUME TypeOK, NEW p \in Procs, NEW r \in Roles, DsmCreate(p, r),
           NEW q \in Procs, q # p
    PROVE  SameKeys(q)
<1>1. \A x \in Roles : name'[Key(q, x)] = name[Key(q, x)]
  BY KeyType DEF TypeOK, DsmCreate
<1> QED
  BY <1>1, CreateFrame DEF SameKeys

LEMMA UpdateKeysFrame ==
    ASSUME TypeOK, NEW p \in Procs, NEW s \in UpdateSteps, DsmUpdate(p, s),
           NEW q \in Procs, q # p
    PROVE  SameKeys(q)
<1>1. \A x \in Roles : name'[Key(q, x)] = name[Key(q, x)]
  BY KeyType DEF TypeOK, DsmUpdate
<1> QED
  BY <1>1, UpdateFrame DEF SameKeys

LEMMA StoredKept ==
    ASSUME UNCHANGED cmd, NEW q \in Procs, NEW s, SameKeys(q), StoredFacts(q, s)
    PROVE  StoredFacts(q, s)'
<1>1. \A r \in Roles : /\ Advertised(q, r)' <=> Advertised(q, r)
                       /\ Stored(q, r)' <=> Stored(q, r)
                       /\ Linked(q, r)' <=> Linked(q, r)
  BY DEF SameKeys, SameObjects, Advertised, Stored, Linked, FinalName
<1>2. /\ Published(q)' <=> Published(q)
      /\ \A r \in Roles : (Key(q, r) \in live)' <=> Key(q, r) \in live
  BY DEF SameKeys, SameObjects, Published, Roles
<1>3. GenStored(q, s) => GenStored(q, s)'
  BY <1>1, <1>2 DEF GenStored, Roles, Subkeys
<1>4. ImpStored(q, s) => ImpStored(q, s)'
  BY <1>1, <1>2 DEF ImpStored, Roles, Subkeys
<1> QED
  BY <1>3, <1>4 DEF StoredFacts

LEMMA ObjectKept ==
    ASSUME UNCHANGED cmd, NEW q \in Procs, SameObjects(q), cert'[q] = cert[q], ObjectInv(q)
    PROVE  ObjectInv(q)'
<1>1. /\ Published(q)' <=> Published(q)
      /\ md'[Primary(q)] = md[Primary(q)]
      /\ parent'[Primary(q)] = parent[Primary(q)]
      /\ Primary(q) \in live' <=> Primary(q) \in live
  BY DEF SameObjects, Published, Roles
<1>2. InputCert(q)' = InputCert(q)
  BY DEF InputCert
<1> QED
  BY <1>1, <1>2 DEF ObjectInv, SameObjects

LEMMA WriterKept ==
    ASSUME UNCHANGED cmd, NEW q \in Procs, SameKeys(q), SameLocal(q), WriterInv(q)
    PROVE  WriterInv(q)'
<1>1. ObjectInv(q)'
  BY ObjectKept DEF WriterInv, SameKeys, SameLocal
<1>2. StoredFacts(q, pc[q])'
  BY StoredKept DEF WriterInv, SameLocal
<1>3. req'[q].state = "approved" /\ pc'[q] \in UpdateSteps => StoredFacts(q, Then(q, pc[q]))'
  BY StoredKept DEF WriterInv, SameLocal, Then
<1> QED
  BY <1>1, <1>2, <1>3 DEF WriterInv, SameLocal
----------------------------------------------------------------------------
(***************************************************************************)
(* The calls of the writers.                                               *)
(***************************************************************************)
\* Nothing is stored for sure by a command that has failed.
LEMMA FailedStored == \A p : StoredFacts(p, "failed") /\ StoredFacts(p, "failed")'
BY DEF StoredFacts, GenStored, ImpStored, BeforeStore, CreateSteps, SignSteps

LEMMA InputIsCert == \A p : InputCert(p) # NoCert
<1> SUFFICES ASSUME NEW p PROVE InputCert(p) # NoCert
  OBVIOUS
<1>1. InputCert(p).signers = {Primary(p)} /\ NoCert.signers = {}
  BY DEF InputCert, NoCert
<1> QED
  BY <1>1

\* The object a create call makes, and the others.
LEMMA CreateEffect ==
    ASSUME TypeOK, NEW p \in Procs, NEW r \in Roles, DsmCreate(p, r)
    PROVE  /\ live' = live \cup {Key(p, r)}
           /\ parent'[Key(p, r)] = {}
           /\ cmd[p].op = "generate" => md'[Key(p, r)] = NoMd
           /\ cmd[p].op = "import" =>
                 /\ md'[Key(p, r)] = ImportMd(p, r)
                 /\ r # "primary" => name'[Key(p, r)] = FinalName(p, r)
           /\ \A x \in Roles : x # r => /\ parent'[Key(p, x)] = parent[Key(p, x)]
                                        /\ md'[Key(p, x)] = md[Key(p, x)]
                                        /\ name'[Key(p, x)] = name[Key(p, x)]
<1>1. /\ Key(p, r) \in Uids
      /\ \A x \in Roles : Key(p, x) \in Uids /\ (x # r => Key(p, x) # Key(p, r))
  BY KeyType
<1> QED
  BY <1>1 DEF DsmCreate, TypeOK

\* A create call of generate_key.
LEMMA GenerateCreates ==
    ASSUME UseInv, NEW p \in Procs, NEW s \in CreateSteps, pc[p] = s,
           cmd[p].op = "generate", DsmCreate(p, StepRole[s]), UNCHANGED <<cmd, agent, cert>>
    PROVE  ObjectInv(p)' /\ StoredFacts(p, Then(p, s))'
<1> DEFINE r == StepRole[s]
<1>0. TypeOK /\ Facts(p, s) /\ ObjectInv(p) /\ StoredFacts(p, s)
  BY DEF UseInv, SafeInv, TypeInv, GenInv, WriterInv
<1>1. r \in Roles /\ "primary" \in Roles
  BY RoleType DEF Roles
<1>e. /\ live' = live \cup {Key(p, r)}
      /\ parent'[Key(p, r)] = {}
      /\ md'[Key(p, r)] = NoMd
      /\ \A x \in Roles : x # r => /\ parent'[Key(p, x)] = parent[Key(p, x)]
                                   /\ md'[Key(p, x)] = md[Key(p, x)]
                                   /\ name'[Key(p, x)] = name[Key(p, x)]
  BY <1>0, <1>1, CreateEffect
<1>2. ~Published(p) /\ ~Published(p)'
  BY <1>0, CreateFacts DEF StoredFacts, GenStored, BeforeStore
<1>3. r \in cmd[p].has
  <2>1. SupportedLayout(cmd[p]) /\ (s = "createSigning" => "signing" \in cmd[p].has)
    BY <1>0 DEF Facts, ObjectFacts, NotYet, CreateSteps, SigningOnly
  <2> QED
    BY <2>1 DEF SupportedLayout, CSE, C_S_E, Roles, Subkeys, CreateSteps, StepRole
<1>4. r # "primary" => Primary(p) \in live
  BY <1>0 DEF Facts, ObjectFacts, NotYet, CreateSteps, StepRole
<1>5. ObjectInv(p)'
  <2>1. \A x \in Roles : Key(p, x) \in live' =>
           cmd'[p].op \in Writers /\ x \in cmd'[p].has /\ Primary(p) \in live'
    BY <1>0, <1>1, <1>e, <1>3, <1>4 DEF ObjectInv, Writers
  <2>2. parent'[Primary(p)] = {} /\ \A x \in Roles : parent'[Key(p, x)] \subseteq {Primary(p)}
    BY <1>0, <1>1, <1>e DEF ObjectInv
  <2>3. \A x \in Roles : ~md'[Key(p, x)].set
    <3>1. ~NoMd.set
      BY DEF NoMd
    <3> QED
      BY <1>0, <1>1, <1>2, <1>e, <3>1 DEF ObjectInv
  <2> QED
    BY <1>2, <2>1, <2>2, <2>3 DEF ObjectInv
<1>6. Then(p, s)' \in BeforeStore
  BY DEF Then, GenerateThen, GenerateCalls, CreateSteps, BeforeStore
<1>7. StoredFacts(p, Then(p, s))'
  BY <1>2, <1>6 DEF StoredFacts, GenStored, BeforeStore, CreateSteps, SignSteps
<1> QED
  BY <1>5, <1>7

\* A create call of import_key_to_dsm.
LEMMA ImportCreates ==
    ASSUME UseInv, NEW p \in Procs, NEW s \in CreateSteps, pc[p] = s,
           cmd[p].op = "import", DsmCreate(p, StepRole[s]), UNCHANGED cmd
    PROVE  ObjectInv(p)' /\ StoredFacts(p, Then(p, s))'
<1> DEFINE r == StepRole[s]
           sub(x) == x \in Imported(cmd[p])
<1>0. TypeOK /\ ObjectInv(p) /\ ImpStored(p, s)
  BY DEF UseInv, SafeInv, TypeInv, WriterInv, StoredFacts
<1>1. r \in Roles /\ "primary" \in Roles /\ "signing" \in Roles /\ "encryption" \in Roles
  BY RoleType DEF Roles, Subkeys
<1>2. "primary" \in cmd[p].has
  BY WorkloadAssumption DEF UseInv, SafeInv, TypeInv, CmdOK
<1>3. r \in cmd[p].has
  BY <1>0, <1>2 DEF ImpStored, CreateSteps, StepRole, Imported
<1>4. r # "primary" => Primary(p) \in live
  BY <1>0 DEF ImpStored, CreateSteps, StepRole
<1>5. /\ live' = live \cup {Key(p, r)}
      /\ parent'[Key(p, r)] = {}
      /\ md'[Key(p, r)] = ImportMd(p, r)
      /\ \A x \in Roles : x # r => /\ parent'[Key(p, x)] = parent[Key(p, x)]
                                   /\ md'[Key(p, x)] = md[Key(p, x)]
                                   /\ name'[Key(p, x)] = name[Key(p, x)]
  BY <1>0, <1>1, CreateEffect
<1>6. /\ ImportMd(p, r).set /\ ImportMd(p, r).flags = cmd[p].flags[r]
      /\ ImportMd(p, "primary").cert = InputCert(p)
  BY DEF ImportMd
<1>7. Primary(p) \in live' /\ md'[Primary(p)].cert = InputCert(p)
  <2>1. CASE r = "primary"
    BY <1>1, <1>5, <1>6, <2>1
  <2>2. CASE r # "primary"
    BY <1>0, <1>1, <1>4, <1>5, <2>2 DEF ObjectInv
  <2> QED
    BY <2>1, <2>2
<1>8. ObjectInv(p)'
  <2>1. \A x \in Roles : Key(p, x) \in live' =>
           cmd'[p].op \in Writers /\ x \in cmd'[p].has /\ Primary(p) \in live'
    BY <1>0, <1>1, <1>3, <1>5, <1>7 DEF ObjectInv, Writers
  <2>2. parent'[Primary(p)] = {} /\ \A x \in Roles : parent'[Key(p, x)] \subseteq {Primary(p)}
    BY <1>0, <1>1, <1>5 DEF ObjectInv
  <2>3. InputCert(p)' = InputCert(p)
    BY DEF InputCert
  <2> QED
    BY <1>7, <2>1, <2>2, <2>3 DEF ObjectInv
<1>9. Advertised(p, r)' /\ (r # "primary" => Stored(p, r)')
  BY <1>0, <1>1, <1>5, <1>6, CreateEffect DEF Advertised, Stored, FinalName
<1>10. \A x \in Roles : x # r => /\ Advertised(p, x) => Advertised(p, x)'
                                 /\ Linked(p, x) => Linked(p, x)'
  BY <1>5 DEF Advertised, Stored, Linked, FinalName
<1>11. Key(p, r) \in live' /\ (sub(r)' <=> sub(r))
  BY <1>5 DEF Imported
<1>12. CASE s = "createPrimary"
  <2>1. Then(p, s)' = IF sub("signing") THEN "createSigning"
                      ELSE IF sub("encryption") THEN "createEncryption" ELSE "done"
    BY <1>12 DEF Then, ImportThen, ImportCalls
  <2>2. r = "primary"
    BY <1>12 DEF StepRole
  <2> QED
    BY <1>7, <1>8, <1>9, <2>1, <2>2 DEF StoredFacts, ImpStored
<1>13. CASE s = "createSigning"
  <2>1. Then(p, s)' = "linkSigning"
    BY <1>13 DEF Then, ImportThen, ImportCalls
  <2>2. r = "signing" /\ sub("signing") /\ Advertised(p, "primary")
    BY <1>0, <1>13 DEF StepRole, ImpStored
  <2> QED
    BY <1>1, <1>7, <1>8, <1>9, <1>10, <1>11, <2>1, <2>2 DEF StoredFacts, ImpStored
<1>14. CASE s = "createEncryption"
  <2>1. Then(p, s)' = "linkEncryption"
    BY <1>14 DEF Then, ImportThen, ImportCalls
  <2>2. /\ r = "encryption" /\ sub("encryption") /\ Advertised(p, "primary")
        /\ sub("signing") => Linked(p, "signing")
    BY <1>0, <1>14 DEF StepRole, ImpStored
  <2>3. sub("signing")' <=> sub("signing")
    BY DEF Imported
  <2> QED
    BY <1>1, <1>7, <1>8, <1>9, <1>10, <1>11, <2>1, <2>2, <2>3 DEF StoredFacts, ImpStored
<1> QED
  BY <1>12, <1>13, <1>14 DEF CreateSteps

\* The fields an update call replaces, and the objects it leaves alone.
LEMMA UpdateEffect ==
    ASSUME TypeOK, NEW p \in Procs, NEW s \in UpdateSteps, DsmUpdate(p, s)
    PROVE  LET r == StepRole[s] IN
           /\ live' = live /\ r \in Roles
           /\ (r = "primary") <=> (s = "storePrimary")
           /\ \A x \in Roles : x # r => /\ parent'[Key(p, x)] = parent[Key(p, x)]
                                        /\ md'[Key(p, x)] = md[Key(p, x)]
                                        /\ name'[Key(p, x)] = name[Key(p, x)]
           /\ s \in {"linkSigning", "linkEncryption"} =>
                 /\ parent'[Key(p, r)] = {Primary(p)}
                 /\ md' = md /\ name' = name
           /\ s = "storePrimary" =>
                 /\ md'[Key(p, r)] = [set |-> TRUE, flags |-> cmd[p].flags[r],
                                      cert |-> cert[p]]
                 /\ parent' = parent /\ name' = name
           /\ s \in {"storeSigning", "storeEncryption"} =>
                 /\ md'[Key(p, r)] = [set |-> TRUE, flags |-> cmd[p].flags[r],
                                      cert |-> NoCert]
                 /\ name'[Key(p, r)] = FinalName(p, r)
                 /\ parent' = parent
<1> DEFINE r == StepRole[s]
<1>1. /\ r \in Roles /\ Key(p, r) \in Uids
      /\ \A x \in Roles : Key(p, x) \in Uids /\ (x # r => Key(p, x) # Key(p, r))
  BY RoleType, KeyType
<1>2. (r = "primary") <=> (s = "storePrimary")
  BY DEF UpdateSteps, StepRole
<1>3. live' = live
  BY DEF DsmUpdate
<1>4. CASE s \in {"linkSigning", "linkEncryption"}
  BY <1>1, <1>2, <1>3, <1>4 DEF DsmUpdate, TypeOK
<1>5. CASE s = "storePrimary"
  BY <1>1, <1>2, <1>3, <1>5 DEF DsmUpdate, TypeOK
<1>6. CASE s \in {"storeSigning", "storeEncryption"}
  BY <1>1, <1>2, <1>3, <1>6 DEF DsmUpdate, TypeOK
<1> QED
  BY <1>4, <1>5, <1>6 DEF UpdateSteps

\* An update call of generate_key, also when it is carried out after its death.
LEMMA GenerateUpdates ==
    ASSUME TypeOK, NEW p \in Procs, NEW s \in UpdateSteps, cmd[p].op = "generate",
           Facts(p, s), ObjectInv(p), DsmUpdate(p, s), UNCHANGED <<cmd, cert>>
    PROVE  /\ ObjectInv(p)'
           /\ GenStored(p, s) => StoredFacts(p, s)' /\ StoredFacts(p, Then(p, s))'
<1> DEFINE r == StepRole[s]
<1>0. /\ live' = live /\ r \in Roles /\ "primary" \in Roles
      /\ \A x \in Roles : x # r => /\ parent'[Key(p, x)] = parent[Key(p, x)]
                                   /\ md'[Key(p, x)] = md[Key(p, x)]
                                   /\ name'[Key(p, x)] = name[Key(p, x)]
  BY UpdateEffect DEF Roles
<1>e. s = "storePrimary" =>
         /\ md'[Key(p, r)] = [set |-> TRUE, flags |-> cmd[p].flags[r], cert |-> cert[p]]
         /\ parent' = parent /\ name' = name
  BY UpdateEffect
<1>1. CASE s \in {"linkSigning", "linkEncryption"}
  <2>1. parent'[Key(p, r)] = {Primary(p)} /\ r # "primary" /\ md' = md /\ name' = name
    BY <1>1, UpdateEffect
  <2>2. Published(p)' <=> Published(p)
    BY <2>1 DEF Published
  <2>3. ObjectInv(p)'
    BY <1>0, <2>1, <2>2 DEF ObjectInv
  <2>4. s \in BeforeStore /\ Then(p, s)' \in BeforeStore
    BY <1>1 DEF Then, GenerateThen, GenerateCalls, BeforeStore
  <2>5. GenStored(p, s) => GenStored(p, s)' /\ GenStored(p, Then(p, s))'
    BY <2>2, <2>4 DEF GenStored, BeforeStore, CreateSteps, SignSteps
  <2> QED
    BY <2>3, <2>5 DEF StoredFacts
<1>2. CASE s = "storePrimary"
  <2>1. /\ md'[Primary(p)] = [set |-> TRUE, flags |-> cmd[p].flags["primary"],
                              cert |-> cert[p]]
        /\ parent' = parent /\ name' = name /\ r = "primary"
    <3>1. StepRole[s] = "primary"
      BY <1>2 DEF StepRole
    <3> QED
      BY <1>2, <1>e, <3>1
  <2>2. cert[p] # NoCert
    <3>1. cert[p].signers = {Primary(p)} /\ NoCert.signers = {}
      BY <1>2 DEF Facts, CertFacts, Stores, NoCert
    <3> QED
      BY <3>1
  <2>3. md'[Primary(p)].cert = cert[p] /\ Published(p)' /\ Advertised(p, "primary")'
    BY <2>1, <2>2 DEF Published, Advertised
  <2>4. Primary(p) \in live
    BY <1>2 DEF Facts, ObjectFacts, NotYet
  <2>5. ObjectInv(p)'
    BY <1>0, <2>1, <2>3, <2>4 DEF ObjectInv
  <2>6. Then(p, s)' = IF "signing" \in cmd[p].has THEN "storeSigning" ELSE "storeEncryption"
    BY <1>2 DEF Then, GenerateThen, GenerateCalls
  <2>7. StoredFacts(p, s)' /\ StoredFacts(p, Then(p, s))'
    BY <1>2, <2>3, <2>6 DEF StoredFacts, GenStored, BeforeStore, CreateSteps, SignSteps
  <2> QED
    BY <2>5, <2>7
<1>3. CASE s \in {"storeSigning", "storeEncryption"}
  <2>1. /\ md'[Key(p, r)] = [set |-> TRUE, flags |-> cmd[p].flags[r], cert |-> NoCert]
        /\ name'[Key(p, r)] = FinalName(p, r) /\ parent' = parent /\ r # "primary"
    BY <1>3, UpdateEffect
  <2>2. Published(p) /\ Published(p)' /\ md'[Primary(p)] = md[Primary(p)]
    BY <1>0, <1>3, <2>1 DEF Facts, CertFacts, Stores, Published
  <2>3. ObjectInv(p)'
    BY <1>0, <2>1, <2>2 DEF ObjectInv
  <2>4. Stored(p, r)' /\ \A x \in Roles : x # r => /\ Advertised(p, x) => Advertised(p, x)'
                                                   /\ Stored(p, x) => Stored(p, x)'
    BY <1>0, <2>1 DEF Stored, Advertised, FinalName
  <2>5. GenStored(p, s) => GenStored(p, s)'
    BY <1>0, <1>3, <2>1, <2>4 DEF GenStored, BeforeStore, CreateSteps, SignSteps, Roles, Subkeys
  <2>6. /\ s = "storeSigning" => Then(p, s)' = "storeEncryption" /\ r = "signing"
        /\ s = "storeEncryption" => Then(p, s)' = "done" /\ r = "encryption"
    BY <1>3 DEF Then, GenerateThen, GenerateCalls, StepRole
  <2>7. GenStored(p, s) => GenStored(p, Then(p, s))'
    BY <1>0, <1>3, <2>1, <2>4, <2>6
       DEF GenStored, BeforeStore, CreateSteps, SignSteps, Roles, Subkeys
  <2> QED
    BY <2>3, <2>5, <2>7 DEF StoredFacts
<1> QED
  BY <1>1, <1>2, <1>3 DEF UpdateSteps

\* import_key_to_dsm only updates links.
LEMMA ImportUpdates ==
    ASSUME TypeOK, NEW p \in Procs, NEW s \in UpdateSteps, cmd[p].op = "import",
           s \in StepsOf(cmd[p].op), ObjectInv(p), DsmUpdate(p, s), UNCHANGED cmd
    PROVE  /\ ObjectInv(p)'
           /\ ImpStored(p, s) => StoredFacts(p, s)' /\ StoredFacts(p, Then(p, s))'
<1> DEFINE r == StepRole[s]
<1>1. s \in {"linkSigning", "linkEncryption"}
  BY DEF StepsOf, ImportSteps, CreateSteps, UpdateSteps, Terminal
<1>2. /\ live' = live /\ r \in Roles /\ "primary" \in Roles /\ r # "primary"
      /\ parent'[Key(p, r)] = {Primary(p)} /\ md' = md /\ name' = name
      /\ \A x \in Roles : x # r => parent'[Key(p, x)] = parent[Key(p, x)]
  BY <1>1, UpdateEffect DEF Roles
<1>3. /\ Published(p)' <=> Published(p)
      /\ InputCert(p)' = InputCert(p)
      /\ Imported(cmd[p])' = Imported(cmd[p])
  BY <1>2 DEF Published, InputCert
<1>4. ObjectInv(p)'
  BY <1>2, <1>3 DEF ObjectInv
<1>5. \A x \in Roles : /\ Advertised(p, x)' <=> Advertised(p, x)
                       /\ Stored(p, x)' <=> Stored(p, x)
                       /\ Linked(p, x) => Linked(p, x)'
  BY <1>2 DEF Advertised, Stored, Linked, FinalName
<1>6. Key(p, r) \in live /\ Stored(p, r) => Linked(p, r)'
  BY <1>2 DEF Linked, Stored, Advertised, FinalName
<1>7. ImpStored(p, s) => ImpStored(p, s)'
  BY <1>1, <1>2, <1>3, <1>5 DEF ImpStored, Roles, Subkeys
<1>8. CASE s = "linkSigning"
  <2>1. Then(p, s)' = IF "encryption" \in Imported(cmd[p]) THEN "createEncryption" ELSE "done"
    BY <1>8 DEF Then, ImportThen, ImportCalls
  <2>2. r = "signing"
    BY <1>8 DEF StepRole
  <2>3. ImpStored(p, s) => ImpStored(p, Then(p, s))'
    BY <1>2, <1>3, <1>5, <1>6, <1>8, <2>1, <2>2 DEF ImpStored
  <2> QED
    BY <1>4, <1>7, <2>3 DEF StoredFacts
<1>9. CASE s = "linkEncryption"
  <2>1. Then(p, s)' = "done"
    BY <1>9 DEF Then, ImportThen, ImportCalls
  <2>2. r = "encryption"
    BY <1>9 DEF StepRole
  <2>3. ImpStored(p, s) => ImpStored(p, Then(p, s))'
    BY <1>2, <1>3, <1>5, <1>6, <1>9, <2>1, <2>2 DEF ImpStored, Roles, Subkeys
  <2> QED
    BY <1>4, <1>7, <2>3 DEF StoredFacts
<1> QED
  BY <1>1, <1>8, <1>9
----------------------------------------------------------------------------
(***************************************************************************)
(* DSM only grows: no object goes away and no certificate is replaced.     *)
(***************************************************************************)
DsmGrows == /\ live \subseteq live'
            /\ \A q \in Procs : Published(q) => md'[Primary(q)].cert = md[Primary(q)].cert

LEMMA CreateGrows ==
    ASSUME UseInv, NEW p \in Procs, NEW s \in CreateSteps, pc[p] = s,
           DsmCreate(p, StepRole[s])
    PROVE  DsmGrows
<1> DEFINE r == StepRole[s]
<1>0. TypeOK /\ ObjectInv(p) /\ StoredFacts(p, s) /\ cmd[p].op \in Writers /\ r \in Roles
  <2>1. cmd[p].op \in Writers
    BY DEF UseInv, SafeInv, TypeInv, StepOK, StepsOf, Terminal, ReadSteps, CreateSteps, Writers
  <2> QED
    BY <2>1, RoleType DEF UseInv, SafeInv, TypeInv, WriterInv
<1>1. live \subseteq live'
  BY <1>0, CreateEffect
<1>2. r = "primary" => ~Published(p)
  <2>1. s \in BeforeStore /\ (r = "primary" => s = "createPrimary")
    BY DEF BeforeStore, CreateSteps, StepRole
  <2> QED
    BY <1>0, <2>1 DEF Writers, StoredFacts, GenStored, ImpStored, ObjectInv
<1>3. r # "primary" => md'[Primary(p)] = md[Primary(p)]
  <2>1. \A x \in Roles : x # r => md'[Key(p, x)] = md[Key(p, x)]
    BY <1>0, CreateEffect
  <2> QED
    BY <2>1 DEF Roles
<1>4. \A q \in Procs : q # p => md'[Primary(q)] = md[Primary(q)]
  BY <1>0, CreateFrame DEF SameObjects, Roles
<1> QED
  BY <1>1, <1>2, <1>3, <1>4 DEF DsmGrows

LEMMA UpdateGrows ==
    ASSUME UseInv, NEW p \in Procs, NEW s \in UpdateSteps, DsmUpdate(p, s),
           cmd[p].op = "generate" \/ s # "storePrimary"
    PROVE  DsmGrows
<1>0. TypeOK /\ ObjectInv(p) /\ "primary" \in Roles
  BY DEF UseInv, SafeInv, TypeInv, WriterInv, Roles
<1>1. live' = live
  BY DEF DsmUpdate
<1>2. \A x \in Roles : x # StepRole[s] => md'[Key(p, x)] = md[Key(p, x)]
  BY <1>0, KeyType, RoleType DEF DsmUpdate, TypeOK
<1>3. s = "storePrimary" =>
         md'[Primary(p)] = [set |-> TRUE, flags |-> cmd[p].flags["primary"], cert |-> cert[p]]
  BY <1>0, KeyType DEF DsmUpdate, StepRole, TypeOK
<1>4. Published(p) => md'[Primary(p)].cert = md[Primary(p)].cert
  <2>1. CASE s = "storePrimary"
    BY <1>0, <1>3, <2>1 DEF ObjectInv
  <2>2. CASE s # "storePrimary"
    <3>1. StepRole[s] # "primary"
      BY <2>2 DEF StepRole, UpdateSteps
    <3>2. md'[Primary(p)] = md[Primary(p)]
      BY <1>0, <1>2, <3>1
    <3> QED
      BY <3>2
  <2> QED
    BY <2>1, <2>2
<1>5. \A q \in Procs : q # p => md'[Primary(q)] = md[Primary(q)]
  BY <1>0, UpdateFrame DEF SameObjects
<1> QED
  BY <1>1, <1>4, <1>5 DEF DsmGrows

LEMMA SubsArePublished == \A q : \A u \in md[Primary(q)].cert.subs : Published(q)
BY DEF Published, NoCert

LEMMA ReaderKept ==
    ASSUME UNCHANGED cmd, DsmGrows, NEW p \in Procs, ReaderInv(p),
           agent'[p] = agent[p], todo'[p] = todo[p]
    PROVE  ReaderInv(p)'
<1>1. \A q \in Procs : KeyOf(p, q) => KeyOf(p, q)'
  BY DEF KeyOf, DsmGrows
<1>2. \A q \in Procs : \A u \in md[Primary(q)].cert.subs : u \in md'[Primary(q)].cert.subs
  BY SubsArePublished DEF DsmGrows
<1> SUFFICES ASSUME cmd[p].op \in Readers
             PROVE  /\ \A u \in agent[p] : \E q \in Procs :
                          KeyOf(p, q)' /\ u \in {Primary(q)} \cup md'[Primary(q)].cert.subs
                    /\ \A u \in todo[p] : \E q \in Procs, r \in Subkeys :
                          KeyOf(p, q)' /\ u = Key(q, r) /\ u \in live'
  BY DEF ReaderInv
<1>3. ASSUME NEW u \in agent[p]
      PROVE  \E q \in Procs : KeyOf(p, q)' /\ u \in {Primary(q)} \cup md'[Primary(q)].cert.subs
  <2>1. PICK q \in Procs : KeyOf(p, q) /\ u \in {Primary(q)} \cup md[Primary(q)].cert.subs
    BY <1>3 DEF ReaderInv
  <2> QED
    BY <1>1, <1>2, <2>1
<1>4. ASSUME NEW u \in todo[p]
      PROVE  \E q \in Procs, r \in Subkeys : KeyOf(p, q)' /\ u = Key(q, r) /\ u \in live'
  <2>1. PICK q \in Procs, r \in Subkeys : KeyOf(p, q) /\ u = Key(q, r) /\ u \in live
    BY <1>4 DEF ReaderInv
  <2> QED
    BY <1>1, <2>1 DEF DsmGrows
<1> QED
  BY <1>3, <1>4

LEMMA PublishedGrows ==
    ASSUME DsmGrows, NEW q \in Procs, Published(q) PROVE Published(q)'
BY DEF DsmGrows, Published

LEMMA TskKept ==
    ASSUME UNCHANGED cmd, DsmGrows, NEW p \in Procs, TskInv(p),
           todo'[p] = todo[p], got'[p] = got[p],
           pc'[p] = pc[p] \/ pc'[p] = "failed"
    PROVE  TskInv(p)'
<1>1. \A q \in Procs : (Published(q) => Published(q)') /\ AllSubs(q)' = AllSubs(q)
  BY PublishedGrows DEF AllSubs
<1> QED
  BY <1>1 DEF TskInv

\* Only the process that makes a step has to be looked at.
LEMMA UseOthers ==
    ASSUME UseInv, SafeInv', UNCHANGED cmd, DsmGrows, NEW p \in Procs,
           \A q \in Procs : q # p => /\ SameKeys(q) /\ SameLocal(q)
                                     /\ todo'[q] = todo[q] /\ got'[q] = got[q],
           WriterInv(p)', ReaderInv(p)', TskInv(p)'
    PROVE  UseInv'
<1>1. ASSUME NEW q \in Procs, q # p PROVE WriterInv(q)' /\ ReaderInv(q)' /\ TskInv(q)'
  BY <1>1, WriterKept, ReaderKept, TskKept DEF UseInv, SameLocal
<1> QED
  BY <1>1 DEF UseInv
----------------------------------------------------------------------------
(***************************************************************************)
(* The inductive step, for the process p that makes it.                    *)
(***************************************************************************)
\* A process at a call that writes is a writer.
LEMMA WriterAt ==
    ASSUME TypeInv, NEW p \in Procs, pc[p] \in WriteSteps
    PROVE  cmd[p].op \in Writers
BY DEF TypeInv, StepOK, StepsOf, Terminal, ReadSteps, WriteSteps, CreateSteps,
       UpdateSteps, SignSteps, Writers

\* Writers have neither collected keys nor an agent of new_signer.
LEMMA WriterReads ==
    ASSUME NEW p \in Procs, cmd[p].op \in Writers, UNCHANGED cmd
    PROVE  ReaderInv(p)' /\ TskInv(p)'
BY DEF Writers, Readers, ReaderInv, TskInv

LEMMA UseCreate ==
    ASSUME UseInv, NEW p \in Procs, NEW s \in CreateSteps, Create(p, s)
    PROVE  UseInv'
<1>0. /\ SafeInv /\ TypeInv /\ TypeOK /\ WriterInv(p) /\ RequestOK(p)
      /\ pc[p] = s /\ pc'[p] \in {Then(p, s), "failed"}
      /\ UNCHANGED <<cmd, req, agent, cert, todo, got>>
  BY DEF UseInv, SafeInv, GenInv, TypeInv, TypeOK, Create
<1>1. SafeInv' /\ cmd[p].op \in Writers
  BY <1>0, SafeCreate, WriterAt DEF WriteSteps
<1>2. req[p].state \notin {"pending", "approved"}
  BY <1>0 DEF RequestOK, ApprovalSteps, UpdateSteps, SignSteps, CreateSteps
<1>3. ReaderInv(p)' /\ TskInv(p)'
  BY <1>0, <1>1, WriterReads
<1>4. \A q \in Procs : q # p => SameLocal(q)
  BY <1>0 DEF Create, SameLocal, TypeOK
<1>5. Then(p, s)' = Then(p, s)
  BY <1>0 DEF Then
<1>6. CASE DsmCreate(p, StepRole[s])
  <2>1. ObjectInv(p)' /\ StoredFacts(p, Then(p, s))'
    BY <1>0, <1>1, <1>6, GenerateCreates, ImportCreates DEF Writers
  <2>2. StoredFacts(p, pc[p])'
    BY <1>0, <1>5, <2>1, FailedStored
  <2>3. WriterInv(p)'
    BY <1>0, <1>2, <2>1, <2>2 DEF WriterInv
  <2>4. DsmGrows
    BY <1>0, <1>6, CreateGrows
  <2>5. \A q \in Procs : q # p => SameKeys(q)
    BY <1>0, <1>6, CreateKeysFrame, RoleType
  <2> QED
    BY <1>0, <1>1, <1>3, <1>4, <2>3, <2>4, <2>5, UseOthers
<1>7. CASE UNCHANGED dsm /\ pc'[p] = "failed"
  <2>1. DsmGrows /\ \A q \in Procs : SameKeys(q)
    BY <1>7 DEF dsm, DsmGrows, SameKeys, SameObjects
  <2>2. ObjectInv(p)'
    BY <1>0, <2>1, ObjectKept DEF SameKeys, WriterInv
  <2>3. WriterInv(p)'
    BY <1>0, <1>2, <1>7, <2>2, FailedStored DEF WriterInv
  <2> QED
    BY <1>0, <1>1, <1>3, <1>4, <2>1, <2>3, UseOthers
<1> QED
  BY <1>0, <1>6, <1>7 DEF Create, TypeOK

\* An update, answered at once.
LEMMA UseUpdate ==
    ASSUME UseInv, NEW p \in Procs, NEW s \in UpdateSteps, Update(p, s)
    PROVE  UseInv'
<1>0. /\ SafeInv /\ TypeInv /\ TypeOK /\ WriterInv(p) /\ GenInv(p)
      /\ pc[p] = s /\ pc'[p] \in {Then(p, s), "failed"}
      /\ DsmUpdate(p, s) /\ req[p].state = "none"
      /\ UNCHANGED <<cmd, req, agent, cert, todo, got>>
  BY DEF UseInv, SafeInv, TypeInv, TypeOK, Update
<1>1. SafeInv' /\ cmd[p].op \in Writers
  BY <1>0, SafeUpdate, WriterAt DEF WriteSteps
<1>2. s \in StepsOf(cmd[p].op)
  BY <1>0 DEF TypeInv, StepOK
<1>3. ReaderInv(p)' /\ TskInv(p)'
  BY <1>0, <1>1, WriterReads
<1>4. \A q \in Procs : q # p => SameLocal(q) /\ SameKeys(q)
  BY <1>0, UpdateKeysFrame DEF Update, SameLocal, TypeOK
<1>5. Then(p, s)' = Then(p, s)
  BY <1>0 DEF Then
<1>6. ObjectInv(p)' /\ StoredFacts(p, Then(p, s))'
  BY <1>0, <1>1, <1>2, GenerateUpdates, ImportUpdates DEF Writers, WriterInv, StoredFacts, GenInv
<1>7. WriterInv(p)'
  BY <1>0, <1>5, <1>6, FailedStored DEF WriterInv
<1>8. DsmGrows
  <2>1. cmd[p].op = "generate" \/ s # "storePrimary"
    BY <1>1, <1>2 DEF Writers, StepsOf, ImportSteps, CreateSteps, Terminal
  <2> QED
    BY <1>0, <2>1, UpdateGrows
<1> QED
  BY <1>0, <1>1, <1>3, <1>4, <1>7, <1>8, UseOthers

\* An update that the quorum approves, whether or not p still runs.
LEMMA UseApprove ==
    ASSUME UseInv, NEW p \in Procs, Approve(p), NEW s \in UpdateSteps, req[p].step = s
    PROVE  UseInv'
<1>0. /\ SafeInv /\ TypeInv /\ TypeOK /\ WriterInv(p) /\ GenInv(p)
      /\ DsmUpdate(p, s) /\ req[p].state = "pending" /\ req'[p].state = "approved"
      /\ UNCHANGED <<cmd, pc, agent, cert, todo, got>>
  BY DEF UseInv, SafeInv, TypeInv, TypeOK, Approve
<1>1. SafeInv'
  BY <1>0, SafeApproval DEF Quorum
<1>2. s \in StepsOf(cmd[p].op)
  BY <1>0 DEF WriterInv
<1>3. cmd[p].op \in Writers
  BY <1>2 DEF StepsOf, Terminal, ReadSteps, UpdateSteps, Writers
<1>4. ReaderInv(p)' /\ TskInv(p)'
  BY <1>0, <1>3, WriterReads
<1>5. \A q \in Procs : q # p => SameLocal(q) /\ SameKeys(q)
  BY <1>0, UpdateKeysFrame DEF Approve, SameLocal, TypeOK
<1>6. pc[p] \in {s, "failed"} /\ (cmd[p].op = "generate" => Facts(p, s))
  BY <1>0 DEF GenInv, RequestOK
<1>7. ObjectInv(p)'
  BY <1>0, <1>2, <1>3, <1>6, GenerateUpdates, ImportUpdates DEF Writers, WriterInv
<1>8. pc[p] = s => StoredFacts(p, s)' /\ StoredFacts(p, Then(p, s))'
  BY <1>0, <1>2, <1>3, <1>6, GenerateUpdates, ImportUpdates DEF Writers, WriterInv, StoredFacts
<1>9. WriterInv(p)'
  <2>1. Then(p, s)' = Then(p, s)
    BY <1>0 DEF Then
  <2>2. "failed" \notin UpdateSteps
    BY DEF UpdateSteps
  <2>3. CASE pc[p] = s
    BY <1>0, <1>7, <1>8, <2>1, <2>3 DEF WriterInv
  <2>4. CASE pc[p] = "failed"
    BY <1>0, <1>7, <2>2, <2>4, FailedStored DEF WriterInv
  <2> QED
    BY <1>6, <2>3, <2>4
<1>10. DsmGrows
  <2>1. cmd[p].op = "generate" \/ s # "storePrimary"
    BY <1>2, <1>3 DEF Writers, StepsOf, ImportSteps, CreateSteps, Terminal
  <2> QED
    BY <1>0, <2>1, UpdateGrows
<1> QED
  BY <1>0, <1>1, <1>4, <1>5, <1>9, <1>10, UseOthers

\* A step that leaves DSM alone leaves the objects of every process alone.
LEMMA DsmSame ==
    ASSUME UNCHANGED <<live, name, parent, md>>
    PROVE  DsmGrows /\ \A q \in Procs : SameKeys(q)
BY DEF DsmGrows, SameKeys, SameObjects

\* The other calls of the writers.
LEMMA UseWriter ==
    ASSUME UseInv, NEW p \in Procs,
           \/ \E s \in UpdateSteps : Updated(p, s)
           \/ \E s \in SignSteps : Sign(p, s)
           \/ NewCertifier(p) \/ NewSubkeySigner(p)
    PROVE  UseInv'
<1>0. /\ SafeInv /\ TypeInv /\ TypeOK /\ WriterInv(p) /\ GenInv(p)
      /\ UNCHANGED <<cmd, todo, got, live, name, parent, md>>
  BY DEF UseInv, SafeInv, TypeInv, Updated, Sign, NewCertifier, NewSubkeySigner
<1>1. SafeInv'
  BY <1>0, SafeUpdated, SafeSign, SafeAgents
<1>2. pc[p] \in WriteSteps
  BY DEF Updated, Sign, Granted, NewCertifier, NewSubkeySigner, WriteSteps
<1>3. ReaderInv(p)' /\ TskInv(p)'
  BY <1>0, <1>2, WriterAt, WriterReads
<1>4. DsmGrows /\ \A q \in Procs : SameKeys(q)
  BY <1>0, DsmSame
<1>5. \A q \in Procs : q # p => SameLocal(q)
  BY <1>0 DEF Updated, Sign, Granted, NewCertifier, NewSubkeySigner, SameLocal, TypeOK
<1>6. \A t : StoredFacts(p, t) => StoredFacts(p, t)'
  BY <1>0, <1>4, StoredKept
<1>7. ASSUME NEW s \in UpdateSteps, Updated(p, s) PROVE WriterInv(p)'
  <2>1. /\ pc[p] = s /\ req[p].state = "approved" /\ pc'[p] = Then(p, s)
        /\ req'[p].state = "none" /\ cert' = cert
    BY <1>0, <1>7 DEF Updated, NoReq, TypeOK
  <2>2. StoredFacts(p, Then(p, s))
    BY <1>0, <2>1 DEF WriterInv
  <2>3. ObjectInv(p)'
    BY <1>0, <1>4, <2>1, ObjectKept DEF WriterInv, SameKeys
  <2> QED
    BY <1>6, <2>1, <2>2, <2>3 DEF WriterInv
<1>8. ASSUME pc[p] \in SignSteps \cup {"newCertifier", "newSubkeySigner"},
             pc'[p] \in BeforeStore \cup {"storePrimary", "failed"},
             req'[p].state \notin {"pending", "approved"}
      PROVE  WriterInv(p)'
  <2>1. cmd[p].op = "generate"
    BY <1>0, <1>8, GenerateStep
  <2>2. ~Published(p) /\ ~Published(p)'
    BY <1>0, <1>8, <2>1 DEF WriterInv, StoredFacts, GenStored, BeforeStore, Published
  <2>3. ObjectInv(p)'
    BY <1>0, <2>1, <2>2 DEF WriterInv, ObjectInv
  <2>4. StoredFacts(p, pc[p])'
    BY <1>0, <1>8, <2>1, <2>2 DEF StoredFacts, GenStored, BeforeStore, CreateSteps, SignSteps
  <2> QED
    BY <1>8, <2>3, <2>4 DEF WriterInv
<1>9. ASSUME NEW s \in SignSteps, Sign(p, s) PROVE WriterInv(p)'
  <2>1. pc[p] = s /\ req'[p].state = "none" /\ pc'[p] \in {Then(p, s), "failed"}
    BY <1>0, <1>9 DEF Sign, Granted, NoReq, TypeOK
  <2>2. cmd[p].op = "generate"
    BY <1>0, <2>1, GenerateStep
  <2>3. Then(p, s) \in BeforeStore \cup {"storePrimary"}
    BY <2>2 DEF Then, GenerateThen, GenerateCalls, SignSteps, BeforeStore
  <2> QED
    BY <1>8, <2>1, <2>3
<1>10. ASSUME NewCertifier(p) \/ NewSubkeySigner(p) PROVE WriterInv(p)'
  <2>1. /\ pc[p] \in {"newCertifier", "newSubkeySigner"} /\ req' = req
        /\ pc'[p] \in {Then(p, pc[p]), "failed"}
    BY <1>0, <1>10 DEF NewCertifier, NewSubkeySigner, TypeOK
  <2>2. cmd[p].op = "generate"
    BY <1>0, <2>1, GenerateStep
  <2>3. Then(p, pc[p]) \in BeforeStore
    BY <2>1, <2>2 DEF Then, GenerateThen, GenerateCalls, SignSteps, BeforeStore
  <2>4. req[p].state \notin {"pending", "approved"}
    BY <1>0, <2>1 DEF GenInv, RequestOK, ApprovalSteps, UpdateSteps, SignSteps
  <2> QED
    BY <1>8, <2>1, <2>3, <2>4
<1>11. WriterInv(p)'
  BY <1>7, <1>9, <1>10
<1> QED
  BY <1>0, <1>1, <1>3, <1>4, <1>5, <1>11, UseOthers

LEMMA UseEnds ==
    ASSUME UseInv, NEW p \in Procs, Start(p) \/ Denied(p) \/ Abort(p)
    PROVE  UseInv'
<1>0. /\ SafeInv /\ TypeInv /\ TypeOK /\ WriterInv(p) /\ GenInv(p)
      /\ ReaderInv(p) /\ TskInv(p)
      /\ UNCHANGED <<cmd, agent, cert, todo, got, live, name, parent, md>>
  BY DEF UseInv, SafeInv, TypeInv, Start, Denied, Abort
<1>1. SafeInv'
  BY <1>0, SafeEnds
<1>2. DsmGrows /\ \A q \in Procs : SameKeys(q)
  BY <1>0, DsmSame
<1>3. \A q \in Procs : q # p => SameLocal(q)
  BY <1>0 DEF Start, Denied, Abort, SameLocal, TypeOK
<1>4. ObjectInv(p)' /\ ReaderInv(p)'
  BY <1>0, <1>2, ObjectKept, ReaderKept DEF WriterInv, SameKeys
<1>5. CASE Denied(p) \/ Abort(p)
  <2>1. pc'[p] = "failed" /\ (req'[p] = req[p] \/ req'[p] = NoReq)
    BY <1>0, <1>5 DEF Denied, Abort, TypeOK
  <2>2. NoReq.state = "none" /\ "failed" \notin UpdateSteps
    BY DEF NoReq, UpdateSteps
  <2>3. WriterInv(p)'
    BY <1>0, <1>4, <2>1, <2>2, FailedStored DEF WriterInv
  <2>4. TskInv(p)'
    BY <1>0, <1>2, <2>1, TskKept
  <2> QED
    BY <1>0, <1>1, <1>2, <1>3, <1>4, <2>3, <2>4, UseOthers
<1>6. CASE Start(p)
  <2>1. pc[p] = "start" /\ pc'[p] = FirstCall(cmd[p]) /\ req' = req
    BY <1>0, <1>6 DEF Start, TypeOK
  <2>2. req[p].state \notin {"pending", "approved"}
    BY <1>0, <2>1 DEF GenInv, RequestOK, ApprovalSteps, UpdateSteps, SignSteps
  <2>3. StoredFacts(p, "start")
    BY <1>0, <2>1 DEF WriterInv
  <2>4. StoredFacts(p, "createPrimary")
    BY <2>3 DEF StoredFacts, GenStored, ImpStored, BeforeStore, CreateSteps, SignSteps
  <2>5. cmd[p].op \in Writers => pc'[p] \in {"createPrimary", "failed"}
    BY <2>1 DEF Writers, FirstCall
  <2>6. StoredFacts(p, "createPrimary")'
    BY <1>0, <1>2, <2>4, StoredKept
  <2>7. StoredFacts(p, pc[p])'
    BY <1>0, <2>5, <2>6, FailedStored DEF StoredFacts, Writers
  <2>8. WriterInv(p)'
    BY <1>4, <2>1, <2>2, <2>7 DEF WriterInv
  <2>9. TskInv(p)'
    <3>1. cmd[p].op = "extractTsk" => pc'[p] = "exportPrimary"
      BY <2>1 DEF FirstCall
    <3>2. \A q \in Procs : (Published(q) => Published(q)') /\ AllSubs(q)' = AllSubs(q)
      BY <1>0, <1>2, PublishedGrows DEF AllSubs
    <3> QED
      BY <1>0, <3>1, <3>2 DEF TskInv
  <2> QED
    BY <1>0, <1>1, <1>2, <1>3, <1>4, <2>8, <2>9, UseOthers
<1> QED
  BY <1>5, <1>6

LEMMA UseApproval ==
    ASSUME UseInv, NEW p \in Procs, AskApproval(p) \/ Quorum(p)
    PROVE  UseInv'
<1>1. CASE Approve(p) /\ req[p].step \in UpdateSteps
  BY <1>1, UseApprove
<1>2. CASE AskApproval(p) \/ Deny(p) \/ (Approve(p) /\ req[p].step \notin UpdateSteps)
  <2>0. /\ SafeInv /\ TypeInv /\ TypeOK /\ WriterInv(p) /\ GenInv(p)
        /\ ReaderInv(p) /\ TskInv(p)
        /\ UNCHANGED <<cmd, pc, agent, cert, todo, got, live, name, parent, md>>
    BY <1>2 DEF UseInv, SafeInv, TypeInv, AskApproval, Deny, Approve, dsm
  <2>1. SafeInv'
    BY <2>0, SafeApproval
  <2>2. DsmGrows /\ \A q \in Procs : SameKeys(q)
    BY <2>0, DsmSame
  <2>3. \A q \in Procs : q # p => SameLocal(q)
    BY <1>2, <2>0 DEF AskApproval, Deny, Approve, SameLocal, TypeOK
  <2>4. ObjectInv(p)' /\ ReaderInv(p)' /\ TskInv(p)'
    BY <2>0, <2>2, ObjectKept, ReaderKept, TskKept DEF WriterInv, SameKeys
  <2>5. StoredFacts(p, pc[p])'
    BY <2>0, <2>2, StoredKept DEF WriterInv
  <2>6. /\ req'[p].state = "pending" => req'[p].step = pc[p]
        /\ req'[p].state = "approved" => pc[p] \notin UpdateSteps
    <3>1. CASE AskApproval(p) \/ Deny(p)
      BY <2>0, <3>1 DEF AskApproval, Deny, TypeOK
    <3>2. CASE Approve(p) /\ req[p].step \notin UpdateSteps
      BY <2>0, <3>2 DEF Approve, TypeOK, GenInv, RequestOK, UpdateSteps
    <3> QED
      BY <1>2, <3>1, <3>2
  <2>7. pc[p] \in StepsOf(cmd[p].op)
    BY <2>0 DEF TypeInv, StepOK
  <2>8. WriterInv(p)'
    BY <2>0, <2>4, <2>5, <2>6, <2>7 DEF WriterInv
  <2> QED
    BY <2>0, <2>1, <2>2, <2>3, <2>4, <2>8, UseOthers
<1> QED
  BY <1>1, <1>2 DEF Quorum
----------------------------------------------------------------------------
(***************************************************************************)
(* The commands that use a key.                                            *)
(***************************************************************************)
\* The objects linked to a primary are subkeys of the same key.
LEMMA LinkedIsSubkey ==
    ASSUME UseInv, NEW q \in Procs, NEW u \in LinkedTo(Primary(q))
    PROVE  \E r \in Subkeys : u = Key(q, r) /\ u \in live
<1>1. u \in live /\ u \in Uids /\ Primary(q) \in parent[u]
  BY DEF LinkedTo, UseInv, SafeInv, TypeInv, TypeOK
<1>2. PICK x \in Procs, r \in Roles : u = Key(x, r)
  BY <1>1 DEF Uids
<1>3. ObjectInv(x)
  BY DEF UseInv, WriterInv
<1>4. Primary(x) = Primary(q) /\ r # "primary"
  BY <1>1, <1>2, <1>3 DEF ObjectInv
<1>5. x = q /\ r \in Subkeys
  BY <1>4 DEF Roles
<1> QED
  BY <1>1, <1>2, <1>5

\* All the subkeys of a certificate that generate_key stored are linked.
LEMMA LinkedIsAll ==
    ASSUME UseInv, NEW q \in Procs, cmd[q].op = "generate", Published(q)
    PROVE  LinkedTo(Primary(q)) = AllSubs(q)
<1>1. ObjectInv(q) /\ Complete(q)
  BY DEF UseInv, SafeInv, GenInv, WriterInv
<1>2. ASSUME NEW u \in LinkedTo(Primary(q)) PROVE u \in AllSubs(q)
  <2>1. PICK r \in Subkeys : u = Key(q, r) /\ u \in live
    BY <1>2, LinkedIsSubkey
  <2>2. r \in cmd[q].has \ {"primary"}
    BY <1>1, <2>1 DEF ObjectInv, Roles, Subkeys
  <2> QED
    BY <2>1, <2>2 DEF AllSubs
<1>3. ASSUME NEW u \in AllSubs(q) PROVE u \in LinkedTo(Primary(q))
  BY <1>1, <1>3 DEF Complete, LinkedTo
<1> QED
  BY <1>2, <1>3

\* A subkey that carries sq metadata is one of the stored certificate.
LEMMA SetIsCertified ==
    ASSUME UseInv, NEW q \in Procs, NEW r \in Subkeys, Key(q, r) \in live, md[Key(q, r)].set
    PROVE  Key(q, r) \in md[Primary(q)].cert.subs
<1>1. ObjectInv(q) /\ GenInv(q) /\ r \in Roles /\ r # "primary"
  BY DEF UseInv, SafeInv, WriterInv, Roles, Subkeys
<1>2. r \in cmd[q].has /\ Primary(q) \in live /\ cmd[q].op \in Writers
  BY <1>1 DEF ObjectInv
<1>3. CASE cmd[q].op = "generate"
  <2>1. Published(q) /\ Complete(q)
    BY <1>1, <1>3 DEF ObjectInv, GenInv
  <2> QED
    BY <1>1, <1>2, <2>1 DEF Complete, AllSubs
<1>4. CASE cmd[q].op = "import"
  <2>1. md[Primary(q)].cert = InputCert(q)
    BY <1>1, <1>2, <1>4 DEF ObjectInv
  <2> QED
    BY <1>1, <1>2, <2>1 DEF InputCert
<1> QED
  BY <1>2, <1>3, <1>4 DEF Writers

\* The primary found by name.
LEMMA FoundByName ==
    ASSUME UseInv, NEW p \in Procs, NEW u \in Named(cmd[p].name)
    PROVE  \E q \in Procs : KeyOf(p, q) /\ u = Primary(q)
<1>1. TypeOK /\ NameInv /\ cmd[p].name \in Names
  BY DEF UseInv, SafeInv, TypeInv, TypeOK, Commands
<1>2. Owner(u) \in Procs /\ u = Primary(Owner(u)) /\ cmd[Owner(u)].name = cmd[p].name
  BY <1>1, NamedIsPrimary
<1>3. u \in live
  BY DEF Named
<1> QED
  BY <1>2, <1>3 DEF KeyOf

LEMMA UseGetPrimary ==
    ASSUME UseInv, NEW p \in Procs, GetPrimary(p)
    PROVE  ReaderInv(p)' /\ TskInv(p)'
<1>0. /\ TypeOK /\ ReaderInv(p) /\ TskInv(p) /\ UNCHANGED <<cmd, live, name, parent, md>>
      /\ pc[p] = "getPrimary"
  BY DEF UseInv, SafeInv, TypeInv, GetPrimary
<1>1. cmd[p].op # "extractTsk" /\ TskInv(p)'
  BY <1>0 DEF TskInv
<1>2. \A q \in Procs : KeyOf(p, q)' <=> KeyOf(p, q)
  BY <1>0 DEF KeyOf
<1>3. CASE UNCHANGED <<agent, todo>>
  BY <1>0, <1>3, DsmSame, ReaderKept, <1>1
<1>4. ASSUME NEW u \in Named(cmd[p].name),
             agent' = agent \/ agent' = [agent EXCEPT ![p] = {u}],
             todo' = todo \/ todo' = [todo EXCEPT ![p] = LinkedTo(u)]
      PROVE  ReaderInv(p)'
  <2>1. PICK q \in Procs : KeyOf(p, q) /\ u = Primary(q)
    BY <1>4, FoundByName
  <2>2. \A v \in LinkedTo(u) : \E r \in Subkeys : v = Key(q, r) /\ v \in live
    BY <2>1, LinkedIsSubkey
  <2>3. agent'[p] = agent[p] \/ agent'[p] = {u}
    BY <1>0, <1>4 DEF TypeOK
  <2>4. todo'[p] = todo[p] \/ todo'[p] = LinkedTo(u)
    BY <1>0, <1>4 DEF TypeOK
  <2>5. ASSUME cmd[p].op \in Readers, NEW v \in agent'[p]
        PROVE  \E x \in Procs : KeyOf(p, x)' /\ v \in {Primary(x)} \cup md'[Primary(x)].cert.subs
    BY <1>0, <1>2, <2>1, <2>3, <2>5 DEF ReaderInv
  <2>6. ASSUME cmd[p].op \in Readers, NEW v \in todo'[p]
        PROVE  \E x \in Procs, r \in Subkeys : KeyOf(p, x)' /\ v = Key(x, r) /\ v \in live'
    BY <1>0, <1>2, <2>1, <2>2, <2>4, <2>6 DEF ReaderInv
  <2> QED
    BY <1>0, <2>5, <2>6 DEF ReaderInv
<1> QED
  BY <1>1, <1>3, <1>4 DEF GetPrimary

LEMMA UseGetSubkey ==
    ASSUME UseInv, NEW p \in Procs, GetSubkey(p)
    PROVE  ReaderInv(p)' /\ TskInv(p)'
<1>0. /\ TypeOK /\ ReaderInv(p) /\ TskInv(p) /\ UNCHANGED <<cmd, live, name, parent, md>>
      /\ pc[p] = "getSubkey"
  BY DEF UseInv, SafeInv, TypeInv, GetSubkey
<1>1. TskInv(p)'
  BY <1>0 DEF TskInv
<1>2. \A q \in Procs : KeyOf(p, q)' <=> KeyOf(p, q)
  BY <1>0 DEF KeyOf
<1>3. PICK u \in todo[p] :
         /\ todo' = [todo EXCEPT ![p] = todo[p] \ {u}]
         /\ \/ agent' = [agent EXCEPT ![p] = @]
            \/ agent' = [agent EXCEPT ![p] = agent[p] \cup {}]
            \/ md[u].set /\ agent' = [agent EXCEPT ![p] = agent[p] \cup {u}]
  BY DEF GetSubkey
<1>4. todo'[p] \subseteq todo[p]
  BY <1>0, <1>3 DEF TypeOK
<1>5. agent'[p] \subseteq agent[p] \/ (md[u].set /\ agent'[p] = agent[p] \cup {u})
  BY <1>0, <1>3 DEF TypeOK
<1>6. ASSUME cmd[p].op \in Readers, NEW v \in agent'[p]
      PROVE  \E x \in Procs : KeyOf(p, x)' /\ v \in {Primary(x)} \cup md'[Primary(x)].cert.subs
  <2>1. CASE v \in agent[p]
    BY <1>0, <1>2, <1>6, <2>1 DEF ReaderInv
  <2>2. CASE v = u /\ md[u].set
    <3>1. PICK q \in Procs, r \in Subkeys : KeyOf(p, q) /\ u = Key(q, r) /\ u \in live
      BY <1>0, <1>6 DEF ReaderInv
    <3>2. u \in md[Primary(q)].cert.subs
      BY <2>2, <3>1, SetIsCertified
    <3> QED
      BY <1>0, <1>2, <2>2, <3>1, <3>2
  <2> QED
    BY <1>5, <1>6, <2>1, <2>2
<1>7. ASSUME cmd[p].op \in Readers, NEW v \in todo'[p]
      PROVE  \E x \in Procs, r \in Subkeys : KeyOf(p, x)' /\ v = Key(x, r) /\ v \in live'
  BY <1>0, <1>2, <1>4, <1>7 DEF ReaderInv
<1> QED
  BY <1>0, <1>1, <1>6, <1>7 DEF ReaderInv

LEMMA UseExport ==
    ASSUME UseInv, NEW p \in Procs, ExportPrimary(p) \/ ExportSubkey(p)
    PROVE  ReaderInv(p)' /\ TskInv(p)'
<1>0. /\ TypeOK /\ ReaderInv(p) /\ TskInv(p)
      /\ UNCHANGED <<cmd, agent, live, name, parent, md>>
  BY DEF UseInv, SafeInv, TypeInv, ExportPrimary, ExportSubkey
<1>1. \A q \in Procs : /\ KeyOf(p, q)' <=> KeyOf(p, q)
                       /\ Published(q)' <=> Published(q)
                       /\ AllSubs(q)' = AllSubs(q)
  BY <1>0 DEF KeyOf, Published, AllSubs
<1>2. CASE UNCHANGED <<todo, got>> /\ pc'[p] = "failed"
  BY <1>0, <1>2, DsmSame, ReaderKept, TskKept
<1>3. ASSUME NEW u \in Named(cmd[p].name), md[u].set,
             todo' = [todo EXCEPT ![p] = LinkedTo(u)],
             got' = [got EXCEPT ![p] = {u}], pc'[p] = "exportSubkey"
      PROVE  ReaderInv(p)' /\ TskInv(p)'
  <2>1. PICK q \in Procs : KeyOf(p, q) /\ u = Primary(q)
    BY <1>3, FoundByName
  <2>2. todo'[p] = LinkedTo(u) /\ got'[p] = {u}
    BY <1>0, <1>3 DEF TypeOK
  <2>3. ASSUME NEW v \in todo'[p]
        PROVE  \E x \in Procs, r \in Subkeys : KeyOf(p, x)' /\ v = Key(x, r) /\ v \in live'
    <3>1. \E r \in Subkeys : v = Key(q, r) /\ v \in live
      BY <2>1, <2>2, <2>3, LinkedIsSubkey
    <3> QED
      BY <1>0, <1>1, <2>1, <3>1
  <2>4. ReaderInv(p)'
    BY <1>0, <1>1, <2>3 DEF ReaderInv
  <2>5. ASSUME NEW x \in Procs, cmd[x].op = "generate", Primary(x) \in got'[p]
        PROVE  Published(x)' /\ got'[p] \cup todo'[p] = {Primary(x)} \cup AllSubs(x)'
    <3>1. u = Primary(x)
      BY <2>2, <2>5
    <3>2. Published(x)
      BY <1>3, <2>5, <3>1 DEF UseInv, WriterInv, ObjectInv, Roles
    <3>3. LinkedTo(u) = AllSubs(x)
      BY <2>5, <3>1, <3>2, LinkedIsAll
    <3> QED
      BY <1>1, <2>2, <3>1, <3>2, <3>3
  <2>6. TskInv(p)'
    BY <1>0, <1>3, <2>5 DEF TskInv
  <2> QED
    BY <2>4, <2>6
<1>4. ASSUME NEW u \in todo[p],
             todo' = [todo EXCEPT ![p] = @ \ {u}], got' = [got EXCEPT ![p] = @ \cup {u}],
             pc'[p] \in {"exportSubkey", "done", "failed"},
             pc'[p] = "done" => todo[p] = {u},
             cmd[p].op \in Readers
      PROVE  ReaderInv(p)' /\ TskInv(p)'
  <2>1. todo'[p] = todo[p] \ {u} /\ got'[p] = got[p] \cup {u}
    BY <1>0, <1>4 DEF TypeOK
  <2>2. ReaderInv(p)'
    BY <1>0, <1>1, <2>1 DEF ReaderInv
  <2>3. PICK y \in Procs, r \in Subkeys : u = Key(y, r)
    BY <1>0, <1>4 DEF ReaderInv
  <2>4. \A x \in Procs : u # Primary(x)
    BY <2>3 DEF Subkeys
  <2>5. got'[p] \cup todo'[p] = got[p] \cup todo[p]
    BY <2>1
  <2>6. \A x \in Procs : Primary(x) \in got'[p] => Primary(x) \in got[p]
    BY <2>1, <2>4
  <2>7. pc'[p] = "done" => todo'[p] = {}
    BY <1>4, <2>1
  <2>8. TskInv(p)'
    BY <1>0, <1>1, <1>4, <2>5, <2>6, <2>7 DEF TskInv
  <2> QED
    BY <2>2, <2>8
<1>5. CASE ExportPrimary(p)
  BY <1>0, <1>2, <1>3, <1>5 DEF ExportPrimary, Exportable, TypeOK
<1>6. CASE ExportSubkey(p)
  <2>1. cmd[p].op \in Readers
    BY <1>6 DEF ExportSubkey, Granted, UseInv, SafeInv, TypeInv, StepOK, StepsOf, Terminal,
       WriteSteps, ImportSteps, CreateSteps, UpdateSteps, SignSteps, TypeOK, Commands, Writers
  <2>2. PICK u \in todo[p] :
           \/ /\ todo' = [todo EXCEPT ![p] = @ \ {u}]
              /\ got' = [got EXCEPT ![p] = @ \cup {u}]
              /\ Goto(p, IF todo[p] # {u} THEN "exportSubkey"
                         ELSE IF \E v \in got[p] : md[v].cert # NoCert THEN "done"
                         ELSE "failed")
           \/ Goto(p, "failed") /\ UNCHANGED <<todo, got>>
    BY <1>6 DEF ExportSubkey
  <2> QED
    BY <1>0, <1>2, <1>4, <2>1, <2>2 DEF TypeOK
<1> QED
  BY <1>5, <1>6

LEMMA UseRead ==
    ASSUME UseInv, NEW p \in Procs, ReaderStep(p)
    PROVE  UseInv'
<1>0. /\ SafeInv /\ TypeInv /\ TypeOK /\ WriterInv(p) /\ GenInv(p)
      /\ ReaderInv(p) /\ TskInv(p)
      /\ UNCHANGED <<cmd, cert, live, name, parent, md>> /\ pc[p] \in ReadSteps
  BY DEF UseInv, SafeInv, TypeInv, ReaderStep, GetPrimary, ListObjects, GetSubkey, SignData,
         DecryptKey, ExportPrimary, ExportSubkey, Granted, ReadSteps
<1>1. SafeInv'
  BY <1>0, SafeRead
<1>2. DsmGrows /\ \A q \in Procs : SameKeys(q)
  BY <1>0, DsmSame
<1>3. \A q \in Procs : q # p => SameLocal(q) /\ todo'[q] = todo[q] /\ got'[q] = got[q]
  BY <1>0 DEF ReaderStep, GetPrimary, ListObjects, GetSubkey, SignData, DecryptKey,
              ExportPrimary, ExportSubkey, Granted, SameLocal, TypeOK
<1>4. cmd[p].op \notin Writers
  BY <1>0 DEF TypeInv, StepOK, StepsOf, ReadSteps, WriteSteps, ImportSteps, CreateSteps,
              UpdateSteps, SignSteps, Terminal, Writers
<1>5. \A t : StoredFacts(p, t)'
  BY <1>0, <1>4 DEF StoredFacts, Writers
<1>6. req'[p] = req[p] \/ req'[p] = NoReq
  BY <1>0 DEF ReaderStep, GetPrimary, ListObjects, GetSubkey, SignData, DecryptKey,
              ExportPrimary, ExportSubkey, Granted, TypeOK
<1>7. WriterInv(p)'
  <2>1. ObjectInv(p)'
    BY <1>0, <1>2, ObjectKept DEF WriterInv, SameKeys
  <2>2. NoReq.state = "none"
    BY DEF NoReq
  <2> QED
    BY <1>0, <1>5, <1>6, <2>1, <2>2 DEF WriterInv
<1>8. ReaderInv(p)' /\ TskInv(p)'
  <2>1. CASE ListObjects(p)
    <3>1. UNCHANGED <<agent, todo>> /\ pc[p] = "listObjects"
      BY <2>1 DEF ListObjects
    <3>2. TskInv(p)'
      BY <1>0, <3>1 DEF TskInv
    <3> QED
      BY <1>0, <1>2, <3>1, <3>2, ReaderKept
  <2>2. CASE SignData(p) \/ DecryptKey(p)
    <3>1. UNCHANGED <<agent, todo>> /\ pc[p] \in {"signData", "decryptKey"}
      BY <2>2 DEF SignData, DecryptKey, Granted
    <3>2. TskInv(p)'
      BY <1>0, <3>1 DEF TskInv
    <3> QED
      BY <1>0, <1>2, <3>1, <3>2, ReaderKept
  <2> QED
    BY <2>1, <2>2, UseGetPrimary, UseGetSubkey, UseExport DEF ReaderStep
<1> QED
  BY <1>0, <1>1, <1>2, <1>3, <1>7, <1>8, UseOthers
----------------------------------------------------------------------------
LEMMA UseInit == Init => UseInv
<1> SUFFICES ASSUME Init PROVE UseInv
  OBVIOUS
<1>1. SafeInv
  BY SafeInit
<1>2. ASSUME NEW p \in Procs PROVE WriterInv(p) /\ ReaderInv(p) /\ TskInv(p)
  <2>1. /\ req[p].state = "none" /\ pc[p] = "start" /\ agent[p] = {} /\ todo[p] = {}
        /\ got[p] = {} /\ live = {}
    BY DEF Init, NoReq
  <2>2. /\ \A r \in Roles : ~md[Key(p, r)].set /\ parent[Key(p, r)] = {}
        /\ md[Primary(p)].cert = NoCert
    BY KeyType DEF Init, NoMd, Roles
  <2>3. ~Published(p) /\ parent[Primary(p)] = {}
    BY <2>2 DEF Published, Roles
  <2>4. ObjectInv(p)
    BY <2>1, <2>2, <2>3 DEF ObjectInv
  <2>5. StoredFacts(p, "start")
    BY <2>1, <2>3 DEF StoredFacts, GenStored, ImpStored
  <2> QED
    BY <2>1, <2>4, <2>5 DEF WriterInv, ReaderInv, TskInv
<1> QED
  BY <1>1, <1>2 DEF UseInv

LEMMA UseNext == UseInv /\ [Next]_vars => UseInv'
<1> SUFFICES ASSUME UseInv, [Next]_vars PROVE UseInv'
  OBVIOUS
<1>1. ASSUME NEW p \in Procs, WriterStep(p) PROVE UseInv'
  BY <1>1, UseCreate, UseUpdate, UseWriter DEF WriterStep
<1>2. ASSUME NEW p \in Procs, Start(p) \/ ReaderStep(p) \/ Denied(p) \/ Abort(p) PROVE UseInv'
  BY <1>2, UseRead, UseEnds
<1>3. ASSUME NEW p \in Procs, AskApproval(p) \/ Quorum(p) PROVE UseInv'
  BY <1>3, UseApproval
<1>4. CASE UNCHANGED vars
  <2>1. SafeInv'
    BY <1>4, SafeNext DEF UseInv
  <2>2. DsmGrows /\ \A q \in Procs : SameKeys(q)
    BY <1>4, DsmSame DEF vars
  <2>3. ASSUME NEW q \in Procs PROVE WriterInv(q)' /\ ReaderInv(q)' /\ TskInv(q)'
    BY <1>4, <2>2, WriterKept, ReaderKept, TskKept DEF vars, UseInv, SameLocal
  <2> QED
    BY <2>1, <2>3 DEF UseInv
<1> QED
  BY <1>1, <1>2, <1>3, <1>4 DEF Next, Step, Finished

LEMMA Use == Spec => []UseInv
BY UseInit, UseNext, PTL DEF Spec

\* A step of the system never replaces a certificate.
LEMMA CertKept == UseInv /\ [Next]_vars => DsmGrows
<1> SUFFICES ASSUME UseInv, [Next]_vars PROVE DsmGrows
  OBVIOUS
<1>1. ASSUME NEW p \in Procs, NEW s \in CreateSteps, Create(p, s) PROVE DsmGrows
  <2>1. CASE DsmCreate(p, StepRole[s])
    BY <1>1, <2>1, CreateGrows DEF Create
  <2>2. CASE UNCHANGED dsm
    BY <2>2, DsmSame DEF dsm
  <2> QED
    BY <1>1, <2>1, <2>2 DEF Create
<1>2. ASSUME NEW p \in Procs, NEW s \in UpdateSteps, DsmUpdate(p, s),
             s \in StepsOf(cmd[p].op)
      PROVE  DsmGrows
  <2>1. cmd[p].op = "generate" \/ s # "storePrimary"
    BY <1>2 DEF StepsOf, ImportSteps, CreateSteps, ReadSteps, Terminal
  <2> QED
    BY <1>2, <2>1, UpdateGrows
<1>3. ASSUME NEW p \in Procs, NEW s \in UpdateSteps, Update(p, s) PROVE DsmGrows
  BY <1>2, <1>3 DEF Update, UseInv, SafeInv, TypeInv, StepOK
<1>4. ASSUME NEW p \in Procs, Approve(p) PROVE DsmGrows
  <2>1. CASE req[p].step \in UpdateSteps
    BY <1>2, <1>4, <2>1 DEF Approve, UseInv, WriterInv
  <2>2. CASE req[p].step \notin UpdateSteps
    BY <1>4, <2>2, DsmSame DEF Approve, dsm
  <2> QED
    BY <2>1, <2>2
<1>5. CASE UNCHANGED <<live, name, parent, md>>
  BY <1>5, DsmSame
<1>6. ASSUME NEW p \in Procs, ReaderStep(p) PROVE UNCHANGED <<live, name, parent, md>>
  BY <1>6 DEF ReaderStep, GetPrimary, ListObjects, GetSubkey, SignData, DecryptKey,
              ExportPrimary, ExportSubkey
<1>7. ASSUME NEW p \in Procs, WriterStep(p) PROVE DsmGrows
  BY <1>1, <1>3, <1>5, <1>7 DEF WriterStep, Updated, Sign, NewCertifier, NewSubkeySigner
<1>8. ASSUME NEW p \in Procs,
             Start(p) \/ Denied(p) \/ Abort(p) \/ AskApproval(p) \/ Deny(p)
      PROVE  UNCHANGED <<live, name, parent, md>>
  BY <1>8 DEF Start, Denied, Abort, AskApproval, Deny
<1> QED
  BY <1>4, <1>5, <1>6, <1>7, <1>8 DEF Next, Step, Quorum, Finished, vars

\* A certificate stored in DSM is never replaced: generate_key stores the one
\* it has assembled once, an approval that comes after its death stores that
\* same one, and a later command under the same name never gets that far.
THEOREM CertWriteOnceHolds == Spec => CertWriteOnce
<1>1. UseInv /\ [Next]_vars =>
         [\A p \in Procs : Published(p) => md'[Primary(p)].cert = md[Primary(p)].cert]_vars
  BY CertKept DEF DsmGrows
<1> QED
  BY <1>1, Use, PTL DEF Spec, CertWriteOnce

\* generate_key and import_key_to_dsm return Ok only for a finished key,
\* whichever of their calls were answered at once and which had to be approved.
THEOREM OkIsCompleteHolds == Spec => []OkIsComplete
<1>1. UseInv => OkIsComplete
  <2> SUFFICES ASSUME UseInv, NEW p \in Procs, cmd[p].op \in Writers, pc[p] = "done"
               PROVE  /\ Published(p)
                      /\ \A r \in (IF cmd[p].op = "generate" THEN cmd[p].has
                                                            ELSE Imported(cmd[p])) :
                            /\ Key(p, r) \in live
                            /\ md[Key(p, r)].set /\ md[Key(p, r)].flags = cmd[p].flags[r]
                            /\ r # "primary" => /\ name[Key(p, r)] = FinalName(p, r)
                                                /\ parent[Key(p, r)] = {Primary(p)}
    BY DEF OkIsComplete
  <2>0. StoredFacts(p, "done") /\ GenInv(p) /\ ObjectInv(p) /\ TypeOK
    BY DEF UseInv, WriterInv, SafeInv, TypeInv
  <2>1. CASE cmd[p].op = "generate"
    <3>1. ObjectFacts(p, "done") /\ Published(p) /\ GenStored(p, "done")
      BY <2>0, <2>1 DEF GenInv, Facts, CertFacts, Stores, StoredFacts
    <3>2. SupportedLayout(cmd[p])
      BY <3>1 DEF ObjectFacts, NotYet
    <3>3. cmd[p].has \subseteq {"primary", "signing", "encryption"}
      BY <3>2 DEF SupportedLayout, CSE, C_S_E, Roles, Subkeys
    <3>4. /\ Primary(p) \in live /\ Advertised(p, "primary")
          /\ Linked(p, "encryption")
          /\ "signing" \in cmd[p].has => Linked(p, "signing")
      BY <3>1 DEF ObjectFacts, GenStored, NotYet, CreateSteps, Linked
    <3> QED
      BY <2>1, <3>1, <3>3, <3>4 DEF Linked, Stored, Advertised
  <2>2. CASE cmd[p].op = "import"
    <3>1. ImpStored(p, "done")
      BY <2>0, <2>2 DEF StoredFacts
    <3>2. Primary(p) \in live /\ Advertised(p, "primary")
      BY <3>1 DEF ImpStored
    <3>3. Published(p)
      BY <2>0, <2>2, <3>2, InputIsCert DEF ObjectInv, Published
    <3>4. Imported(cmd[p]) \subseteq {"primary", "signing", "encryption"}
      BY <2>0 DEF Imported, TypeOK, Commands, Roles, Subkeys
    <3>5. \A r \in Imported(cmd[p]) : r # "primary" => Linked(p, r)
      BY <3>1, <3>4 DEF ImpStored
    <3> QED
      BY <2>2, <3>2, <3>3, <3>5 DEF Linked, Stored, Advertised
  <2> QED
    BY <2>1, <2>2 DEF Writers
<1> QED
  BY <1>1, Use, PTL

\* The keys that new_signer and new_decryptors hand out are keys of the
\* certificate that extract_cert returns for the same name, although they are
\* collected by several reads while other commands write.
THEOREM AgentIsCertifiedHolds == Spec => []AgentIsCertified
<1>1. UseInv => AgentIsCertified
  <2> SUFFICES ASSUME UseInv, NEW p \in Procs, cmd[p].op \in {"sign", "decrypt"},
                      NEW u \in agent[p]
               PROVE  \E q \in Procs : /\ Named(cmd[p].name) = {Primary(q)}
                                       /\ u \in {Primary(q)} \cup md[Primary(q)].cert.subs
    BY DEF AgentIsCertified
  <2>1. PICK q \in Procs : KeyOf(p, q) /\ u \in {Primary(q)} \cup md[Primary(q)].cert.subs
    BY DEF UseInv, ReaderInv, Readers
  <2>2. Primary(q) \in Named(cmd[p].name)
    BY <2>1 DEF KeyOf, Named, UseInv, SafeInv, NameInv, Owner, RoleOf, FirstName
  <2>3. ASSUME NEW v \in Named(cmd[p].name) PROVE v = Primary(q)
    <3>1. PICK x \in Procs : KeyOf(p, x) /\ v = Primary(x)
      BY <2>3, FoundByName
    <3>2. x = q
      BY <2>1, <3>1 DEF KeyOf, UseInv, SafeInv, OneWinner
    <3> QED
      BY <3>1, <3>2
  <2> QED
    BY <2>1, <2>2, <2>3
<1> QED
  BY <1>1, Use, PTL

\* A secret key that extract_tsk_from_dsm returns for a generated key has every
\* key of the stored certificate.
THEOREM TskIsCompleteHolds == Spec => []TskIsComplete
<1>1. UseInv => TskIsComplete
  <2> SUFFICES ASSUME UseInv, NEW p \in Procs, NEW q \in Procs,
                      cmd[p].op = "extractTsk", pc[p] = "done",
                      cmd[q].op = "generate", Primary(q) \in got[p]
               PROVE  got[p] = {Primary(q)} \cup md[Primary(q)].cert.subs
    BY DEF TskIsComplete
  <2>1. Published(q) /\ got[p] \cup todo[p] = {Primary(q)} \cup AllSubs(q) /\ todo[p] = {}
    BY DEF UseInv, TskInv
  <2>2. md[Primary(q)].cert.subs = AllSubs(q)
    BY <2>1 DEF UseInv, SafeInv, GenInv, Complete
  <2> QED
    BY <2>1, <2>2
<1> QED
  BY <1>1, Use, PTL
============================================================================
