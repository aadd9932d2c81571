------------------------------ MODULE DsmKeys ------------------------------
(***************************************************************************)
(* OpenPGP keys kept as linked security objects in Fortanix DSM, and the   *)
(* sq commands that create, import and use them (openpgp-dsm/src/lib.rs).  *)
(*                                                                         *)
(* Every sq command is a process of its own.  It runs a fixed sequence of  *)
(* remote calls against the one DSM that all processes share; between two  *)
(* calls any other process may run, and the process may die.  A call can   *)
(* succeed, fail, take effect while its answer is lost, or be parked by    *)
(* DSM until a quorum approves it (OperateOrAskApproval); the request      *)
(* stays with the approvers when the process that made it dies.            *)
(*                                                                         *)
(* A key made or imported by process p in role r is the object <<p, r>>:   *)
(* DSM draws a fresh UUID for each.  Key material is represented by that   *)
(* identity, a certificate by the sets of keys it binds and was signed by. *)
(***************************************************************************)
EXTENDS Naturals, FiniteSets

CONSTANTS Procs,      \* the running sq commands
          Names,      \* values of the --dsm-key argument
          Workloads   \* which command each process runs

Subkeys == {"signing", "encryption"}
Roles   == {"primary"} \cup Subkeys      \* KeyRole
Flags   == {"C", "S", "E", "A"}          \* KeyFlags; E stands for Et and Er
KeyOps  == {"SIGN", "VERIFY", "DECRYPT", "ENCRYPT", "AGREEKEY", "EXPORT"}

Uids == Procs \X Roles
Key(p, r)  == <<p, r>>
Owner(u)   == u[1]
RoleOf(u)  == u[2]
Primary(p) == Key(p, "primary")

(***************************************************************************)
(* What a process was asked to do.  has: the keys of the certificate to    *)
(* generate or import; secret: those whose secret the input file holds;    *)
(* ec: the encryption key is an ECDH key; export: --dsm-exportable.        *)
(***************************************************************************)
Writers  == {"generate", "import"}
Readers  == {"info", "list", "extractCert", "extractTsk", "sign", "decrypt"}
Commands == [op     : Writers \cup Readers,
             name   : Names,
             has    : SUBSET Roles,
             flags  : [Roles -> SUBSET Flags],
             secret : SUBSET Roles,
             ec     : BOOLEAN,
             export : BOOLEAN]

ASSUME WorkloadAssumption ==
    /\ Workloads \subseteq [Procs -> Commands]
    /\ \A w \in Workloads : \A p \in Procs :
          w[p].op = "import" => "primary" \in w[p].has

VARIABLES cmd,     \* the command of each process
          pc,      \* the remote call each process makes next
          req,     \* the approval request of each process
          agent,   \* the key a DsmAgent of the process uses
          cert,    \* the certificate generate_key has built so far
          todo,    \* subkeys of the primary that are still to be fetched
          got,     \* keys a reader has collected
          live,    \* DSM: the objects that exist
          name,    \* DSM: their names
          ops,     \* DSM: their permitted operations
          parent,  \* DSM: their link to a parent, at most one
          md       \* DSM: their custom metadata

dsm   == <<live, name, ops, parent, md>>
vars  == <<cmd, pc, req, agent, cert, todo, got, live, name, ops, parent, md>>

Certs  == [signers : SUBSET Uids, subs : SUBSET Uids, back : SUBSET Uids]
NoCert == [signers |-> {}, subs |-> {}, back |-> {}]
Md     == [set : BOOLEAN, flags : SUBSET Flags, cert : Certs]
NoMd   == [set |-> FALSE, flags |-> {}, cert |-> NoCert]

\* An object's name: the key name itself, "<name> (PGP: ... subkey)" while a
\* subkey is being generated, and "<name> <keyid>/<keyid>" in the end.
FirstName(p, r) == <<cmd[p].name, r>>
\* Mutant: the final name leaves out which subkey it is for.
FinalNameNoSubkey(p, r) == <<cmd[p].name, p>>
FinalName(p, r) == <<cmd[p].name, p, r>>
ObjNames == (Names \X Roles) \cup (Names \X Procs \X Roles)

UpdateSteps == {"linkSigning", "linkEncryption",
                "storePrimary", "storeSigning", "storeEncryption"}
SignSteps   == {"signDirectKey", "signUserId", "bindEncryption",
                "signEmbedded", "bindSigning"}
CreateSteps == {"createPrimary", "createSigning", "createEncryption"}
WriteSteps  == CreateSteps \cup UpdateSteps \cup SignSteps
                 \cup {"newCertifier", "newSubkeySigner"}
ReadSteps   == {"getPrimary", "listObjects", "getSubkey", "exportPrimary",
                "exportSubkey", "signData", "decryptKey"}
Terminal    == {"done", "failed"}
Steps       == {"start"} \cup WriteSteps \cup ReadSteps \cup Terminal
ApprovalSteps == UpdateSteps \cup SignSteps
                   \cup {"exportPrimary", "exportSubkey", "signData", "decryptKey"}

\* Mutant: the metadata of the encryption subkey is stored on the primary.
StepRoleWrongTarget ==
            [createPrimary |-> "primary", storePrimary |-> "primary",
             createSigning |-> "signing", linkSigning |-> "signing",
             storeSigning |-> "signing",
             createEncryption |-> "encryption", linkEncryption |-> "encryption",
             storeEncryption |-> "primary"]

StepRole == [createPrimary |-> "primary", storePrimary |-> "primary",
             createSigning |-> "signing", linkSigning |-> "signing",
             storeSigning |-> "signing",
             createEncryption |-> "encryption", linkEncryption |-> "encryption",
             storeEncryption |-> "encryption"]
----------------------------------------------------------------------------
(***************************************************************************)
(* The order of the remote calls of the two commands that write.           *)
(***************************************************************************)

\* generate_key accepts [CS,EtEr] and [C,S,EtEr] only.
CSE   == [has |-> {"primary", "encryption"},
          flags |-> [r \in Roles |-> CASE r = "primary" -> {"C", "S"}
                                       [] r = "encryption" -> {"E"}
                                       [] OTHER -> {}]]
C_S_E == [has |-> Roles,
          flags |-> [r \in Roles |-> CASE r = "primary" -> {"C"}
                                       [] r = "encryption" -> {"E"}
                                       [] OTHER -> {"S"}]]
SupportedLayout(c) == \E l \in {CSE, C_S_E} : c.has = l.has /\ c.flags = l.flags

GenerateCalls(c) ==
    LET sign(yes, no) == IF "signing" \in c.has THEN yes ELSE no
    IN  [createPrimary    |-> sign("createSigning", "createEncryption"),
         createSigning    |-> "createEncryption",
         createEncryption |-> sign("linkSigning", "linkEncryption"),
         linkSigning      |-> "linkEncryption",
         linkEncryption   |-> "newCertifier",
         newCertifier     |-> "signDirectKey",
         signDirectKey    |-> "signUserId",
         signUserId       |-> "bindEncryption",
         bindEncryption   |-> sign("newSubkeySigner", "storePrimary"),
         newSubkeySigner  |-> "signEmbedded",
         signEmbedded     |-> "bindSigning",
         bindSigning      |-> "storePrimary",
         storePrimary     |-> sign("storeSigning", "storeEncryption"),
         storeSigning     |-> "storeEncryption",
         storeEncryption  |-> "done"]

\* Mutants: the encryption subkey is never linked, the links come last, the
\* primary's metadata is stored last, the encryption subkey's is forgotten.
GenerateThenNoLink(c) ==
    [GenerateCalls(c) EXCEPT !.createEncryption = "newCertifier"]
GenerateThenLinkLast(c) ==
    [GenerateCalls(c) EXCEPT !.createEncryption = "newCertifier",
                             !.storeEncryption = "linkSigning",
                             !.linkEncryption = "done"]
GenerateThenPrimaryLast(c) ==
    [GenerateCalls(c) EXCEPT !.bindEncryption = IF "signing" \in c.has THEN @
                                                ELSE "storeEncryption",
                             !.bindSigning = "storeSigning",
                             !.storeEncryption = "storePrimary",
                             !.storePrimary = "done"]
GenerateThenForgets(c) == [GenerateCalls(c) EXCEPT !.storeSigning = "done"]

GenerateThen(c) == GenerateCalls(c)

\* A transferable secret key contributes the subkeys that have a secret, a
\* public one all of them.
Imported(c) == IF "primary" \in c.secret THEN c.secret \cap c.has ELSE c.has

ImportCalls(c) ==
    LET sub(r, yes, no) == IF r \in Imported(c) THEN yes ELSE no
        last            == sub("encryption", "createEncryption", "done")
    IN  [createPrimary    |-> sub("signing", "createSigning", last),
         createSigning    |-> "linkSigning",
         linkSigning      |-> last,
         createEncryption |-> "linkEncryption",
         linkEncryption   |-> "done"]

ImportThen(c) == ImportCalls(c)

Then(p, s) == IF cmd[p].op = "generate" THEN GenerateThen(cmd[p])[s]
                                        ELSE ImportThen(cmd[p])[s]
----------------------------------------------------------------------------
(***************************************************************************)
(* DSM.  Names are unique, a link to a parent also shows up as a subkey of *)
(* that parent, and an update names the fields it replaces.                *)
(***************************************************************************)
NameFree(nm) == \A u \in live : name[u] # nm
Named(n)     == {u \in live : name[u] = <<n, "primary">>}
LinkedTo(u)  == {v \in live : u \in parent[v]}

CreateOps(c, r) ==
    (IF r # "encryption" THEN {"SIGN"} ELSE IF c.ec THEN {"AGREEKEY"} ELSE {"DECRYPT"})
    \cup (IF c.export THEN {"EXPORT"} ELSE {})

\* get_operations
ImportOps(c, r) ==
    LET secret == "primary" \in c.secret
        ecdh   == c.ec /\ r = "encryption"
    IN  (IF c.export THEN {"EXPORT"} ELSE {})
        \cup (IF c.flags[r] \cap {"C", "S"} # {}
               THEN {IF secret THEN "SIGN" ELSE "VERIFY"} ELSE {})
        \cup (IF "E" \in c.flags[r]
               THEN {IF ecdh THEN "AGREEKEY"
                     ELSE IF secret THEN "DECRYPT" ELSE "ENCRYPT"} ELSE {})

\* The certificate read from the input file of an import.
InputCert(p) ==
    LET subs == {Key(p, r) : r \in cmd[p].has \ {"primary"}}
    IN  [signers |-> {Primary(p)}, subs |-> subs, back |-> subs]

ImportMd(p, r) == [set |-> TRUE, flags |-> cmd[p].flags[r],
                   cert |-> IF r = "primary" THEN InputCert(p) ELSE NoCert]

\* Whether DSM has the private half of u: an import of a public certificate
\* brings none.
HoldsSecret(u) == cmd[Owner(u)].op = "generate" \/ "primary" \in cmd[Owner(u)].secret

\* create_sobject and import_sobject.
DsmCreate(p, r) ==
    LET u   == Key(p, r)
        gen == cmd[p].op = "generate"
    IN  /\ live'   = live \cup {u}
        /\ name'   = [name EXCEPT ![u] =
                        IF gen \/ r = "primary" THEN FirstName(p, r)
                                               ELSE FinalName(p, r)]
        /\ ops'    = [ops EXCEPT ![u] = IF gen THEN CreateOps(cmd[p], r)
                                              ELSE ImportOps(cmd[p], r)]
        /\ md'     = [md EXCEPT ![u] = IF gen THEN NoMd ELSE ImportMd(p, r)]
        /\ parent' = [parent EXCEPT ![u] = {}]

\* update_sobject: what the five updates of the writers change.
DsmUpdate(p, s) ==
    LET r == StepRole[s]
        u == Key(p, r)
    IN  /\ parent' = IF s \in {"linkSigning", "linkEncryption"}
                     THEN [parent EXCEPT ![u] = {Primary(p)}] ELSE parent
        /\ name'   = IF s \in {"storeSigning", "storeEncryption"}
                     THEN [name EXCEPT ![u] = FinalName(p, r)] ELSE name
        /\ md'     = CASE s = "storePrimary" ->
                            [md EXCEPT ![u] = [set |-> TRUE,
                                               flags |-> cmd[p].flags[r],
                                               cert |-> cert[p]]]
                      [] s \in {"storeSigning", "storeEncryption"} ->
                            [md EXCEPT ![u] = [set |-> TRUE,
                                               flags |-> cmd[p].flags[r],
                                               cert |-> NoCert]]
                      [] OTHER -> md
        /\ UNCHANGED <<live, ops>>
----------------------------------------------------------------------------
(***************************************************************************)
(* Approval requests.                                                      *)
(***************************************************************************)
NoReq    == [step |-> "start", state |-> "none"]
Requests == [step : Steps, state : {"none", "pending", "approved", "denied"}]

Goto(p, s) == pc' = [pc EXCEPT ![p] = s]

\* Process p may take the answer of call s: DSM answered at once, or its
\* approval request was approved.
Granted(p, s) ==
    /\ pc[p] = s
    /\ req[p].state \in {"none", "approved"}
    /\ req' = [req EXCEPT ![p] = NoReq]

\* DSM refuses the call until a quorum approves it; an ECDH agreement
\* cannot be approved that way (__agree) and fails instead.
AskApproval(p) ==
    /\ pc[p] \in ApprovalSteps
    /\ req[p].state = "none"
    /\ pc[p] = "decryptKey" => \E u \in agent[p] : "DECRYPT" \in ops[u]
    /\ req' = [req EXCEPT ![p] = [step |-> pc[p], state |-> "pending"]]
    /\ UNCHANGED <<cmd, pc, agent, cert, todo, got, live, name, ops, parent, md>>

\* The quorum approves, and DSM carries the update out, whether or not the
\* process that asked is still there.
Approve(p) ==
    /\ req[p].state = "pending"
    /\ req' = [req EXCEPT ![p] = [step |-> req[p].step, state |-> "approved"]]
    /\ IF req[p].step \in UpdateSteps THEN DsmUpdate(p, req[p].step)
                                      ELSE UNCHANGED dsm
    /\ UNCHANGED <<cmd, pc, agent, cert, todo, got>>

Deny(p) ==
    /\ req[p].state = "pending"
    /\ req' = [req EXCEPT ![p] = [step |-> req[p].step, state |-> "denied"]]
    /\ UNCHANGED <<cmd, pc, agent, cert, todo, got, live, name, ops, parent, md>>

\* Mutant: the refused call is made again.
DeniedRetries(p) ==
    /\ pc[p] \notin Terminal
    /\ req[p].state = "denied"
    /\ req' = [req EXCEPT ![p] = NoReq]
    /\ UNCHANGED <<cmd, pc, agent, cert, todo, got, live, name, ops, parent, md>>

\* __retry_until_resolved returns the refusal to its caller.
Denied(p) ==
    /\ pc[p] \notin Terminal
    /\ req[p].state = "denied"
    /\ Goto(p, "failed")
    /\ req' = [req EXCEPT ![p] = NoReq]
    /\ UNCHANGED <<cmd, agent, cert, todo, got, live, name, ops, parent, md>>

\* Any call can fail, the process can be killed, and so can the status query
\* of a pending request: the request itself stays with the approvers.
Abort(p) ==
    /\ pc[p] \notin Terminal
    /\ Goto(p, "failed")
    /\ UNCHANGED <<cmd, req, agent, cert, todo, got, live, name, ops, parent, md>>
----------------------------------------------------------------------------
(***************************************************************************)
(* generate_key and import_key_to_dsm.                                     *)
(***************************************************************************)
FirstCall(c) == CASE c.op = "generate" -> IF SupportedLayout(c)
                                          THEN "createPrimary" ELSE "failed"
                  [] c.op = "import"     -> "createPrimary"
                  [] c.op = "list"       -> "listObjects"
                  [] c.op = "extractTsk" -> "exportPrimary"
                  [] OTHER               -> "getPrimary"

Start(p) ==
    /\ pc[p] = "start"
    /\ Goto(p, FirstCall(cmd[p]))
    /\ UNCHANGED <<cmd, req, agent, cert, todo, got, live, name, ops, parent, md>>

\* Mutant: a name that is taken is no obstacle.
CreateAnyName(p, s) ==
    /\ pc[p] = s
    /\ DsmCreate(p, StepRole[s])
    /\ \E t \in {Then(p, s), "failed"} : Goto(p, t)
    /\ UNCHANGED <<cmd, req, agent, cert, todo, got>>

\* PublicKey::create and import_constructed_sobject.  DSM refuses a name that
\* is taken; if only the answer is lost, the object stays behind.
Create(p, s) ==
    LET r  == StepRole[s]
        nm == IF cmd[p].op = "generate" \/ r = "primary" THEN FirstName(p, r)
                                                        ELSE FinalName(p, r)
    IN  /\ pc[p] = s
        /\ \/ /\ NameFree(nm)
              /\ DsmCreate(p, r)
              /\ \E t \in {Then(p, s), "failed"} : Goto(p, t)
           \/ /\ ~NameFree(nm)
              /\ Goto(p, "failed")
              /\ UNCHANGED dsm
        /\ UNCHANGED <<cmd, req, agent, cert, todo, got>>

\* __update_sobject, answered at once.
Update(p, s) ==
    /\ pc[p] = s
    /\ req[p].state = "none"
    /\ DsmUpdate(p, s)
    /\ \E t \in {Then(p, s), "failed"} : Goto(p, t)
    /\ UNCHANGED <<cmd, req, agent, cert, todo, got>>

\* __update_sobject, once the request has been approved and carried out.
Updated(p, s) ==
    /\ pc[p] = s
    /\ req[p].state = "approved"
    /\ req' = [req EXCEPT ![p] = NoReq]
    /\ Goto(p, Then(p, s))
    /\ UNCHANGED <<cmd, agent, cert, todo, got, live, name, ops, parent, md>>

\* DsmAgent::new_certifier finds the primary key by its name.
NewCertifier(p) ==
    /\ pc[p] = "newCertifier"
    /\ IF Named(cmd[p].name) = {}
       THEN Goto(p, "failed") /\ UNCHANGED agent
       ELSE /\ \E u \in Named(cmd[p].name) : agent' = [agent EXCEPT ![p] = {u}]
            /\ Goto(p, Then(p, "newCertifier"))
    /\ UNCHANGED <<cmd, req, cert, todo, got, live, name, ops, parent, md>>

\* DsmAgent::new_signing_subkey_from_descriptor fetches the new subkey by UUID.
NewSubkeySigner(p) ==
    /\ pc[p] = "newSubkeySigner"
    /\ Goto(p, IF Key(p, "signing") \in live THEN Then(p, "newSubkeySigner")
                                             ELSE "failed")
    /\ UNCHANGED <<cmd, req, agent, cert, todo, got, live, name, ops, parent, md>>

\* The certificate after signature s: the certifier signs the primary key,
\* the user ID and the two bindings; the signing subkey signs the embedded
\* primary key binding.
CertAfter(p, s) ==
    LET c == cert[p]
    IN  CASE s = "signEmbedded"   -> [c EXCEPT !.back = @ \cup {Key(p, "signing")}]
          [] s = "bindEncryption" -> [c EXCEPT !.signers = @ \cup agent[p],
                                               !.subs = @ \cup {Key(p, "encryption")}]
          [] s = "bindSigning"    -> [c EXCEPT !.signers = @ \cup agent[p],
                                               !.subs = @ \cup {Key(p, "signing")}]
          [] OTHER                -> [c EXCEPT !.signers = @ \cup agent[p]]

SignedBy(p, s) == IF s = "signEmbedded" THEN {Key(p, "signing")} ELSE agent[p]

\* Signer::sign for a signature of generate_key.
Sign(p, s) ==
    /\ Granted(p, s)
    /\ IF \A u \in SignedBy(p, s) : "SIGN" \in ops[u]
       THEN /\ cert' = [cert EXCEPT ![p] = CertAfter(p, s)]
            /\ Goto(p, Then(p, s))
       ELSE Goto(p, "failed") /\ UNCHANGED cert
    /\ UNCHANGED <<cmd, agent, todo, got, live, name, ops, parent, md>>
----------------------------------------------------------------------------
(***************************************************************************)
(* The commands that use a key.  Each fetches the primary by name and then *)
(* the subkeys that were linked to it at that moment, one call each.       *)
(***************************************************************************)
\* What the command does with the primary it was given (prim), md and links
\* being those of that answer.
AfterPrimary(c, prim) ==
    CASE c.op = "info"        -> IF md[prim].set THEN "done" ELSE "failed"
      [] c.op = "extractCert" -> IF md[prim].set /\ md[prim].cert # NoCert
                                 THEN "done" ELSE "failed"
      [] c.op = "sign"        -> IF ~md[prim].set THEN "failed"
                                 ELSE IF "S" \in md[prim].flags THEN "signData"
                                 ELSE IF LinkedTo(prim) = {} THEN "failed"
                                 ELSE "getSubkey"
      [] OTHER                -> IF LinkedTo(prim) = {} THEN "failed"
                                                        ELSE "getSubkey"

GetPrimary(p) ==
    /\ pc[p] = "getPrimary"
    /\ \/ /\ Named(cmd[p].name) = {}
          /\ Goto(p, "failed")
          /\ UNCHANGED <<agent, todo, got>>
       \/ \E u \in Named(cmd[p].name) :
             LET s == AfterPrimary(cmd[p], u)
             IN  /\ Goto(p, s)
                 /\ agent' = IF s = "signData" THEN [agent EXCEPT ![p] = {u}]
                                               ELSE agent
                 /\ todo' = IF s = "getSubkey" THEN [todo EXCEPT ![p] = LinkedTo(u)]
                                               ELSE todo
                 /\ got' = IF s = "done" THEN [got EXCEPT ![p] = {u}] ELSE got
    /\ UNCHANGED <<cmd, req, cert, live, name, ops, parent, md>>

\* list_keys keeps the objects that carry sq metadata.  The calls it makes for the
\* objects of each group are taken for one.
ListObjects(p) ==
    /\ pc[p] = "listObjects"
    /\ got' = [got EXCEPT ![p] = {u \in live : md[u].set}]
    /\ Goto(p, "done")
    /\ UNCHANGED <<cmd, req, agent, cert, todo, live, name, ops, parent, md>>

\* The subkey loops of new_signer, which stops at the first signing key, and
\* of new_decryptors, which collects every encryption key.
GetSubkey(p) ==
    /\ pc[p] = "getSubkey"
    /\ \E u \in todo[p] :
         LET rest   == todo[p] \ {u}
             signer == cmd[p].op = "sign" /\ "S" \in md[u].flags
             found  == agent[p] \cup
                         (IF signer \/ (cmd[p].op = "decrypt" /\ "E" \in md[u].flags)
                          THEN {u} ELSE {})
         IN  /\ todo'  = [todo EXCEPT ![p] = rest]
             /\ agent' = [agent EXCEPT ![p] = IF md[u].set THEN found ELSE @]
             /\ Goto(p, CASE ~md[u].set -> "failed"
                          [] md[u].set /\ signer -> "signData"
                          [] md[u].set /\ ~signer /\ rest # {} -> "getSubkey"
                          [] OTHER -> IF cmd[p].op = "decrypt" /\ found # {}
                                      THEN "decryptKey" ELSE "failed")
    /\ UNCHANGED <<cmd, req, cert, got, live, name, ops, parent, md>>

\* Signer::sign of an agent handed out by new_signer.
SignData(p) ==
    /\ Granted(p, "signData")
    /\ Goto(p, IF \A u \in agent[p] : "SIGN" \in ops[u] THEN "done" ELSE "failed")
    /\ UNCHANGED <<cmd, agent, cert, todo, got, live, name, ops, parent, md>>

\* Decryptor::decrypt by one of the agents of new_decryptors.  For a curve the import of
\* the ephemeral key, the agreement and the export of its result, which leave transient
\* objects only, are taken for one call.
DecryptKey(p) ==
    /\ Granted(p, "decryptKey")
    /\ Goto(p, IF \E u \in agent[p] : /\ HoldsSecret(u)
                                     /\ ops[u] \cap {"DECRYPT", "AGREEKEY"} # {}
               THEN "done" ELSE "failed")
    /\ UNCHANGED <<cmd, agent, cert, todo, got, live, name, ops, parent, md>>
\* secret_packet_from_sobject deduces the role of a key from its flags, C
\* before S before E.
Deduced(f) == CASE "C" \in f -> "primary"
                [] "C" \notin f /\ "S" \in f -> "signing"
                [] f \cap {"C", "S"} = {} /\ "E" \in f -> "encryption"
                [] OTHER -> "none"

Exportable(u) == "EXPORT" \in ops[u] /\ HoldsSecret(u) /\ md[u].set

\* extract_tsk_from_dsm: the primary key.
ExportPrimary(p) ==
    /\ Granted(p, "exportPrimary")
    /\ \/ /\ \A u \in Named(cmd[p].name) :
               ~Exportable(u) \/ Deduced(md[u].flags) # "primary" \/ LinkedTo(u) = {}
          /\ Goto(p, "failed")
          /\ UNCHANGED <<todo, got>>
       \/ \E u \in Named(cmd[p].name) :
             /\ Exportable(u) /\ Deduced(md[u].flags) = "primary" /\ LinkedTo(u) # {}
             /\ todo' = [todo EXCEPT ![p] = LinkedTo(u)]
             /\ got'  = [got EXCEPT ![p] = {u}]
             /\ Goto(p, "exportSubkey")
    /\ UNCHANGED <<cmd, agent, cert, live, name, ops, parent, md>>

\* extract_tsk_from_dsm: one subkey; after the last one the packets are merged
\* with the certificate of the primary's metadata (which is only ever written
\* together with the flags, so that it is the one exported before).
ExportSubkey(p) ==
    /\ Granted(p, "exportSubkey")
    /\ \E u \in todo[p] :
         IF Exportable(u) /\ Deduced(md[u].flags) \in Subkeys
         THEN /\ todo' = [todo EXCEPT ![p] = @ \ {u}]
              /\ got'  = [got EXCEPT ![p] = @ \cup {u}]
              /\ Goto(p, IF todo[p] # {u} THEN "exportSubkey"
                         ELSE IF \E v \in got[p] : md[v].cert # NoCert THEN "done"
                         ELSE "failed")
         ELSE Goto(p, "failed") /\ UNCHANGED <<todo, got>>
    /\ UNCHANGED <<cmd, agent, cert, live, name, ops, parent, md>>
----------------------------------------------------------------------------
Init ==
    /\ cmd \in Workloads
    /\ pc     = [p \in Procs |-> "start"]
    /\ req    = [p \in Procs |-> NoReq]
    /\ agent  = [p \in Procs |-> {}]
    /\ cert   = [p \in Procs |-> NoCert]
    /\ todo   = [p \in Procs |-> {}]
    /\ got    = [p \in Procs |-> {}]
    /\ live   = {}
    /\ name   = [u \in Uids |-> FirstName(Owner(u), RoleOf(u))]
    /\ ops    = [u \in Uids |-> {}]
    /\ parent = [u \in Uids |-> {}]
    /\ md     = [u \in Uids |-> NoMd]

\* One step of generate_key or import_key_to_dsm, and of the other commands.
WriterStep(p) ==
    \/ \E s \in CreateSteps : Create(p, s)
    \/ \E s \in UpdateSteps : Update(p, s) \/ Updated(p, s)
    \/ \E s \in SignSteps : Sign(p, s)
    \/ NewCertifier(p) \/ NewSubkeySigner(p)

ReaderStep(p) ==
    \/ GetPrimary(p) \/ ListObjects(p) \/ GetSubkey(p)
    \/ SignData(p) \/ DecryptKey(p)
    \/ ExportPrimary(p) \/ ExportSubkey(p)

Step(p) == Start(p) \/ WriterStep(p) \/ ReaderStep(p) \/ Denied(p)

Quorum(p) == Approve(p) \/ Deny(p)

\* Every command has returned.
Finished == (\A p \in Procs : pc[p] \in Terminal) /\ UNCHANGED vars

Next == \/ \E p \in Procs : Step(p) \/ AskApproval(p) \/ Quorum(p) \/ Abort(p)
        \/ Finished

Spec == Init /\ [][Next]_vars

\* A running process keeps going (the user presses Enter while it waits) and
\* the quorum decides on every request.
Fairness == \A p \in Procs : WF_vars(Step(p)) /\ WF_vars(Quorum(p))
FairSpec == Spec /\ Fairness
----------------------------------------------------------------------------
(***************************************************************************)
(* Properties.                                                             *)
(***************************************************************************)
\* Every object, request, agent and certificate in the making is well formed.
TypeOK ==
    /\ cmd \in [Procs -> Commands]
    /\ pc \in [Procs -> Steps]
    /\ req \in [Procs -> Requests]
    /\ agent \in [Procs -> SUBSET Uids]
    /\ cert \in [Procs -> Certs]
    /\ todo \in [Procs -> SUBSET Uids]
    /\ got \in [Procs -> SUBSET Uids]
    /\ live \subseteq Uids
    /\ name \in [Uids -> ObjNames]
    /\ ops \in [Uids -> SUBSET KeyOps]
    /\ parent \in [Uids -> SUBSET Uids]
    /\ md \in [Uids -> Md]

Published(p) == md[Primary(p)].cert # NoCert

\* Two commands that create or import under the same key name cannot both
\* have a primary key in DSM, however their calls interleave, and a name whose
\* command died stays taken.
OneWinner ==
    \A p, q \in Procs :
        /\ Primary(p) \in live /\ Primary(q) \in live
        /\ cmd[p].name = cmd[q].name
        => p = q

\* generate_key looks its certifying key up by name (new_certifier) although it
\* knows the UUID of the primary it has just created: every signature of the
\* certificate it assembles is nevertheless by that very primary.
CertifierIsOwn ==
    \A p \in Procs : cert[p].signers \subseteq {Primary(p)}

\* A certificate that generate_key stored on a primary is one that can be used:
\* it is signed by that primary only, names a key of every role asked for, the
\* signing subkey has made its embedded signature, and each of its subkeys is
\* an object of DSM linked to the primary.  This holds in every crash state, and
\* for an update that is approved after the command has died.
PublishedIsComplete ==
    \A p \in Procs : cmd[p].op = "generate" /\ Published(p) =>
        LET c == md[Primary(p)].cert
        IN  /\ c.signers = {Primary(p)}
            /\ c.subs = {Key(p, r) : r \in cmd[p].has \ {"primary"}}
            /\ \A u \in c.subs : u \in live /\ parent[u] = {Primary(p)}
            /\ Key(p, "signing") \in c.subs => Key(p, "signing") \in c.back

\* The keys handed out by new_signer and new_decryptors, assembled from
\* several reads while other commands write, are keys of the certificate that
\* extract_cert returns for the same name.
AgentIsCertified ==
    \A p \in Procs : cmd[p].op \in {"sign", "decrypt"} =>
        \A u \in agent[p] : \E q \in Procs :
            /\ Named(cmd[p].name) = {Primary(q)}
            /\ u \in {Primary(q)} \cup md[Primary(q)].cert.subs

\* When extract_tsk_from_dsm succeeds on a generated key it has the secret of
\* every key in the certificate, even if it ran while the key was being made.
TskIsComplete ==
    \A p, q \in Procs :
        (/\ cmd[p].op = "extractTsk" /\ pc[p] = "done"
         /\ cmd[q].op = "generate" /\ Primary(q) \in got[p])
        => got[p] = {Primary(q)} \cup md[Primary(q)].cert.subs

\* generate_key and import_key_to_dsm return Ok only for a key that is finished:
\* certificate stored, every key they were to store advertised with its flags
\* and linked, temporary subkey names gone.
OkIsComplete ==
    \A p \in Procs : cmd[p].op \in Writers /\ pc[p] = "done" =>
        /\ Published(p)
        /\ \A r \in (IF cmd[p].op = "generate" THEN cmd[p].has ELSE Imported(cmd[p])) :
              /\ Key(p, r) \in live
              /\ md[Key(p, r)].set /\ md[Key(p, r)].flags = cmd[p].flags[r]
              /\ r # "primary" => /\ name[Key(p, r)] = FinalName(p, r)
                                  /\ parent[Key(p, r)] = {Primary(p)}

\* Once a certificate is stored it is never replaced: no late approval and no
\* command run again under the same name rewrites it.
CertWriteOnce ==
    [][\A p \in Procs : Published(p) => md'[Primary(p)].cert = md[Primary(p)].cert]_vars

\* Every command returns, provided its user presses Enter and the quorum
\* decides: no sequence of approvals makes __retry_until_resolved spin forever.
Termination == \A p \in Procs : <>(pc[p] \in Terminal)
============================================================================
