------------------------- MODULE PacketParserProofs -------------------------
(***************************************************************************)
(* Proofs about PacketParser, for any set of tags, any limit on the depth  *)
(* and on the packets of the stream, and any faults.                       *)
(***************************************************************************)
EXTENDS PacketParser, TLAPS

AllTags == MessageTags \cup CertTags \cup {"Marker"}

PacketInv ==
    cur \in [tag : AllTags, encrypted : BOOLEAN, was_read : BOOLEAN, left : BOOLEAN,
             finished : BOOLEAN, hash : BOOLEAN, failed : BOOLEAN]

\* The body hash is missing only after a read that failed, or once the packet
\* is finished, when nothing asks for it again.
HashInv == /\ mode = "some" /\ ~cur.hash => cur.failed \/ cur.finished
           /\ PanicsOnlyOnFault

LEMMA NewPacket ==
    ASSUME NEW t \in Tags, NEW left \in Lefts(t)
    PROVE  /\ Packet(t, left) \in
                 [tag : AllTags, encrypted : BOOLEAN, was_read : BOOLEAN, left : BOOLEAN,
                  finished : BOOLEAN, hash : BOOLEAN, failed : BOOLEAN]
           /\ Packet(t, left).hash
<1>1. t \in AllTags /\ left \in BOOLEAN
  BY ParserAssumption DEF AllTags, Lefts
<1> QED
  BY <1>1 DEF Packet

LEMMA InitHash == Init => PacketInv /\ HashInv
<1> SUFFICES ASSUME Init PROVE PacketInv /\ HashInv
  OBVIOUS
<1>1. CASE mode = "eof" /\ cur = Packet("Marker", FALSE)
  BY <1>1 DEF PacketInv, HashInv, PanicsOnlyOnFault, Packet, AllTags
<1>2. CASE mode = "some" /\ \E t \in Tags : \E left \in Lefts(t) : cur = Packet(t, left)
  BY <1>2, NewPacket DEF PacketInv, HashInv, PanicsOnlyOnFault
<1> QED
  BY <1>1, <1>2 DEF Init

\* The next packet, in this container or in one that is entered.
LEMMA ArriveHash ==
    ASSUME NEW t \in Tags, NEW left \in Lefts(t), NEW d, NEW m, NEW ns,
           Arrive(t, left, d, m, ns)
    PROVE  PacketInv' /\ HashInv'
BY NewPacket DEF Arrive, PacketInv, HashInv, PanicsOnlyOnFault

LEMMA FailsHash == ASSUME PacketInv, Fails PROVE PacketInv' /\ HashInv'
BY DEF Fails, PacketInv, HashInv, PanicsOnlyOnFault

LEMMA PanicHash ==
    ASSUME PacketInv, NEW call, NEW fails \in BOOLEAN, Panics(call, fails),
           call # "some",
           call = "finish panicked" => (cur.failed \/ fails) /\ ~cur.finished,
           call = "read panicked" => cur.failed \/ fails \/ cur.finished
    PROVE  PacketInv' /\ HashInv'
<1>1. mode' = call /\ cur' = [cur EXCEPT !.failed = cur.failed \/ fails]
  BY DEF Panics
<1>2. /\ PacketInv'
      /\ cur'.failed = (cur.failed \/ fails)
      /\ cur'.finished = cur.finished
  BY <1>1 DEF PacketInv
<1> QED
  BY <1>1, <1>2 DEF HashInv, PanicsOnlyOnFault

LEMMA BreakHash ==
    ASSUME PacketInv, HashInv, mode = "some", FinishBreaks
    PROVE  PacketInv' /\ HashInv'
<1>1. CASE FinishPanics /\ Panics("finish panicked", FALSE)
  <2>1. cur.failed /\ ~cur.finished
    BY <1>1 DEF HashInv, FinishPanics
  <2> QED
    BY <1>1, <2>1, PanicHash
<1>2. CASE DropPanics /\ Panics("finish panicked", TRUE)
  <2>1. ~cur.finished
    BY <1>2 DEF DropPanics
  <2> QED
    BY <1>2, <2>1, PanicHash
<1> QED
  BY <1>1, <1>2 DEF FinishBreaks

LEMMA FinishHash == ASSUME PacketInv, HashInv, Finish PROVE PacketInv' /\ HashInv'
<1>1. CASE FinishBreaks
  BY <1>1, BreakHash DEF Finish
<1>2. CASE ~FinishBreaks
  BY <1>2 DEF Finish, PacketInv, HashInv, PanicsOnlyOnFault
<1> QED
  BY <1>1, <1>2

LEMMA CallNextHash ==
    ASSUME PacketInv, HashInv, mode = "some", CallNext
    PROVE  PacketInv' /\ HashInv'
<1>1. CASE FinishBreaks
  BY <1>1, BreakHash
<1>2. CASE Fails
  BY <1>2, FailsHash
<1>3. CASE Eof(FinishedMv) /\ cur' = cur
  BY <1>3 DEF Eof, PacketInv, HashInv, PanicsOnlyOnFault
<1>4. CASE \E t \in Tags : \E left \in Lefts(t) : NextPacket(t, left)
  BY <1>4, ArriveHash DEF NextPacket
<1> QED
  BY <1>1, <1>2, <1>3, <1>4 DEF CallNext

LEMMA NextHash ==
    ASSUME PacketInv, HashInv, [Next]_vars
    PROVE  PacketInv' /\ HashInv'
<1>1. CASE Decrypt
  <2>1. CASE Panics("decrypt panicked", FALSE)
    BY <2>1, PanicHash
  <2>2. CASE ~Panics("decrypt panicked", FALSE)
    BY <1>1, <2>2 DEF Decrypt, PacketInv, HashInv, PanicsOnlyOnFault
  <2> QED
    BY <2>1, <2>2
<1>2. CASE ReadContent
  BY <1>2 DEF ReadContent, PacketInv, HashInv, PanicsOnlyOnFault
<1>3. CASE ReadFails
  <2>1. CASE Panics("read panicked", TRUE)
    BY <2>1, PanicHash
  <2>2. CASE ~Panics("read panicked", TRUE)
    BY <1>3, <2>2 DEF ReadFails, PacketInv, HashInv, PanicsOnlyOnFault
  <2> QED
    BY <2>1, <2>2
<1>4. CASE ReadLate
  <2>1. Panics("read panicked", FALSE) /\ mode = "some" /\ ~cur.hash
    BY <1>4 DEF ReadLate
  <2>2. cur.failed \/ cur.finished
    BY <2>1 DEF HashInv
  <2> QED
    BY <2>1, <2>2, PanicHash
<1>5. CASE Finish
  BY <1>5, FinishHash
<1>6. CASE mode = "some" /\ CallNext
  BY <1>6, CallNextHash
<1>7. CASE Enter
  BY <1>7, ArriveHash, FailsHash DEF Enter
<1>8. CASE UNCHANGED vars
  BY <1>8 DEF vars, PacketInv, HashInv, PanicsOnlyOnFault
<1> QED
  BY <1>1, <1>2, <1>3, <1>4, <1>5, <1>6, <1>7, <1>8 DEF Next, CallRecurse, Returned

(***************************************************************************)
(* finish, next and recurse may be called in any order and any number of   *)
(* times although finish takes the body hash out of the parser: they panic *)
(* only on a packet that is not finished and of which a read failed, and a *)
(* read panics only on a finished packet or after a read that failed.      *)
(***************************************************************************)
THEOREM PanicsOnlyOnFaultHolds == Spec => []PanicsOnlyOnFault
<1>1. HashInv => PanicsOnlyOnFault
  BY DEF HashInv
<1> QED
  BY <1>1, InitHash, NextHash, PTL DEF Spec
-----------------------------------------------------------------------------
(***************************************************************************)
(* Certificates.                                                           *)
(***************************************************************************)
Nodes == [tag : AllTags, depth : Nat, content : {"unseen", "opaque"}]
Validators == [tokens : Seq(CertTags), n_keys : Nat, error : BOOLEAN, finished : BOOLEAN]

\* The packets are those of certificates, with one key or with any number.
CertForm(ns) == /\ ns # <<>> /\ ns[1].tag \in KeyTags
                /\ \A i \in 1..Len(ns) : ns[i].tag \in CertTags
OneKey(ns) == \A i \in 2..Len(ns) : ns[i].tag \notin KeyTags

\* The validator keeps the packets of the last certificate only.
LastCert(k) == /\ ~k.error /\ k.tokens # <<>> /\ k.tokens[1] \in KeyTags
               /\ \A i \in 2..Len(k.tokens) : k.tokens[i] \notin KeyTags

Follows(ns, k) == CertForm(ns) => LastCert(k) /\ (OneKey(ns) => k.n_keys = 1)

ValidatorInv ==
    /\ nodes \in Seq(Nodes) /\ depth \in Nat /\ kv \in Validators
    /\ mode = "some" => nodes # <<>>
    /\ Follows(nodes, kv)

LEMMA PushCases ==
    ASSUME NEW k, NEW t
    PROVE  /\ t \notin CertTags => PushKeyring(k, t) = [k EXCEPT !.error = TRUE]
           /\ t \in CertTags /\ k.error => PushKeyring(k, t) = k
           /\ t \in KeyTags /\ ~k.error =>
                PushKeyring(k, t) = [k EXCEPT !.tokens = <<t>>, !.n_keys = @ + 1]
           /\ t \in CertTags \ KeyTags /\ ~k.error =>
                PushKeyring(k, t) \in {k, [k EXCEPT !.tokens = Append(@, t)]}
BY DEF PushKeyring, CertTags, KeyTags

LEMMA PushType ==
    ASSUME NEW k \in Validators, NEW t PROVE PushKeyring(k, t) \in Validators
<1> DEFINE j == PushKeyring(k, t)
<1>0. k.error \in BOOLEAN
  BY DEF Validators
<1>1. CASE t \notin CertTags
  <2>1. j = [k EXCEPT !.error = TRUE]
    BY <1>1, PushCases
  <2> QED
    BY <2>1 DEF Validators
<1>2. CASE t \in CertTags
  <2>1. <<t>> \in Seq(CertTags) /\ Append(k.tokens, t) \in Seq(CertTags)
    BY <1>2 DEF Validators
  <2>2. \/ j = k
        \/ j = [k EXCEPT !.tokens = <<t>>, !.n_keys = @ + 1]
        \/ j = [k EXCEPT !.tokens = Append(@, t)]
    BY <1>0, <1>2, PushCases
  <2> HIDE DEF j
  <2>3. j \in Validators
    <3>1. k.n_keys + 1 \in Nat
      BY DEF Validators
    <3>2. [k EXCEPT !.tokens = <<t>>, !.n_keys = k.n_keys + 1] \in Validators
      BY <2>1, <3>1 DEF Validators
    <3>3. [k EXCEPT !.tokens = Append(k.tokens, t)] \in Validators
      BY <2>1 DEF Validators
    <3> QED
      BY <2>2, <3>2, <3>3
  <2> QED
    BY <2>3 DEF j
<1> QED
  BY <1>1, <1>2

\* One more packet, after some or as the first.
LEMMA PushFollows ==
    ASSUME NEW ns \in Seq(Nodes), NEW k \in Validators, NEW n \in Nodes,
           ns # <<>> => Follows(ns, k),
           ns = <<>> => k = NewKv
    PROVE  Follows(Append(ns, n), PushKeyring(k, n.tag))
<1> DEFINE ms == Append(ns, n)
           j == PushKeyring(k, n.tag)
<1>1. /\ ms \in Seq(Nodes) /\ Len(ms) = Len(ns) + 1 /\ Len(ns) \in Nat
      /\ ms[Len(ns) + 1] = n /\ \A i \in 1..Len(ns) : ms[i] = ns[i]
  OBVIOUS
<1> SUFFICES ASSUME CertForm(ms) PROVE LastCert(j) /\ (OneKey(ms) => j.n_keys = 1)
  BY DEF Follows
<1> HIDE DEF ms
<1>2. n.tag \in CertTags
  BY <1>1 DEF CertForm
<1>3. CASE ns = <<>>
  <2>1. n.tag \in KeyTags
    BY <1>1, <1>3 DEF CertForm
  <2>2. j = [NewKv EXCEPT !.tokens = <<n.tag>>, !.n_keys = @ + 1]
    BY <1>3, <2>1, PushCases DEF NewKv
  <2>3. ~j.error /\ j.tokens = <<n.tag>> /\ j.n_keys = 1
    BY <2>2 DEF NewKv
  <2> QED
    BY <2>1, <2>3 DEF LastCert
<1>4. CASE ns # <<>>
  <2>1. CertForm(ns)
    BY <1>1, <1>4 DEF CertForm
  <2>2. LastCert(k) /\ (OneKey(ns) => k.n_keys = 1)
    BY <1>4, <2>1 DEF Follows
  <2>3. OneKey(ms) => OneKey(ns) /\ n.tag \notin KeyTags
    BY <1>1, <1>4 DEF OneKey
  <2>4. CASE n.tag \in KeyTags
    <3>1. j = [k EXCEPT !.tokens = <<n.tag>>, !.n_keys = @ + 1]
      BY <2>2, <2>4, PushCases DEF LastCert
    <3>2. ~j.error /\ j.tokens = <<n.tag>>
      BY <2>2, <3>1 DEF LastCert, Validators
    <3> QED
      BY <2>3, <2>4, <3>2 DEF LastCert
  <2>5. CASE n.tag \notin KeyTags
    <3>1. j = k \/ j = [k EXCEPT !.tokens = Append(@, n.tag)]
      BY <1>2, <2>2, <2>5, PushCases DEF LastCert
    <3>2. CASE j = k
      BY <2>2, <2>3, <3>2
    <3>3. CASE j = [k EXCEPT !.tokens = Append(@, n.tag)]
      <4>1. /\ ~j.error /\ j.tokens = Append(k.tokens, n.tag) /\ j.n_keys = k.n_keys
            /\ k.tokens \in Seq(CertTags) /\ k.tokens # <<>>
        BY <2>2, <3>3 DEF LastCert, Validators
      <4>2. /\ Len(j.tokens) = Len(k.tokens) + 1 /\ Len(k.tokens) \in Nat \ {0}
            /\ j.tokens[Len(k.tokens) + 1] = n.tag
            /\ \A i \in 1..Len(k.tokens) : j.tokens[i] = k.tokens[i]
        BY <4>1
      <4>3. LastCert(j)
        BY <2>2, <2>5, <4>1, <4>2 DEF LastCert
      <4> QED
        BY <2>2, <2>3, <4>1, <4>3
    <3> QED
      BY <3>1, <3>2, <3>3
  <2> QED
    BY <2>4, <2>5
<1> QED
  BY <1>3, <1>4

LEMMA NodeType == \A t \in Tags, d \in Nat : Node(t, d) \in Nodes /\ Node(t, d).tag = t
BY ParserAssumption DEF Node, Nodes, AllTags

\* PacketParser::finish does not change which packets there are.
LEMMA FinishedForm ==
    ASSUME ValidatorInv, nodes # <<>>
    PROVE  /\ FinishedNodes \in Seq(Nodes) /\ FinishedNodes # <<>>
           /\ Follows(FinishedNodes, kv)
<1> DEFINE ns == FinishedNodes
<1>1. nodes \in Seq(Nodes) /\ Len(nodes) \in Nat \ {0}
  BY DEF ValidatorInv
<1>2. /\ ns \in Seq(Nodes) /\ Len(ns) = Len(nodes)
      /\ \A i \in 1..Len(nodes) : ns[i].tag = nodes[i].tag
  <2>1. CASE ns = nodes
    BY <1>1, <2>1
  <2>2. CASE ns = [nodes EXCEPT ![Len(nodes)].content = "opaque"]
    <3>1. nodes[Len(nodes)] \in Nodes
      BY <1>1
    <3>2. [nodes[Len(nodes)] EXCEPT !.content = "opaque"] \in Nodes
      BY <3>1 DEF Nodes
    <3>3. ns \in Seq(Nodes) /\ Len(ns) = Len(nodes)
      BY <1>1, <2>2, <3>2
    <3>4. ASSUME NEW i \in 1..Len(nodes) PROVE ns[i].tag = nodes[i].tag
      <4>1. CASE i = Len(nodes)
        <5>1. ns[i] = [nodes[i] EXCEPT !.content = "opaque"]
          BY <1>1, <2>2, <4>1
        <5> QED
          BY <3>1, <4>1, <5>1 DEF Nodes
      <4>2. CASE i # Len(nodes)
        BY <1>1, <2>2, <4>2
      <4> QED
        BY <4>1, <4>2
    <3> QED
      BY <3>3, <3>4
  <2> QED
    BY <2>1, <2>2 DEF FinishedNodes
<1> HIDE DEF ns
<1>3. ns # <<>>
  BY <1>1, <1>2
<1>4. CertForm(ns) => CertForm(nodes)
  BY <1>1, <1>2 DEF CertForm
<1>5. OneKey(ns) => OneKey(nodes)
  BY <1>1, <1>2 DEF OneKey
<1>6. Follows(ns, kv)
  BY <1>4, <1>5 DEF Follows, ValidatorInv
<1> QED
  BY <1>2, <1>3, <1>6 DEF ns

LEMMA InitValidator == Init => ValidatorInv
<1> SUFFICES ASSUME Init PROVE ValidatorInv
  OBVIOUS
<1>0. NewKv \in Validators
  BY DEF NewKv, Validators
<1>1. CASE mode = "eof" /\ nodes = <<>> /\ kv = [NewKv EXCEPT !.finished = TRUE]
  <2>1. kv \in Validators
    BY <1>0, <1>1 DEF Validators
  <2>2. nodes \in Seq(Nodes) /\ Follows(nodes, kv)
    BY <1>1 DEF Follows, CertForm
  <2> QED
    BY <1>1, <2>1, <2>2 DEF Init, ValidatorInv
<1>2. CASE /\ mode = "some"
           /\ \E t \in Tags : nodes = <<Node(t, 0)>> /\ kv = PushKeyring(NewKv, t)
  <2>1. PICK t \in Tags : nodes = <<Node(t, 0)>> /\ kv = PushKeyring(NewKv, t)
    BY <1>2
  <2>2. Node(t, 0) \in Nodes /\ Node(t, 0).tag = t
    BY NodeType
  <2>3. nodes \in Seq(Nodes) /\ nodes # <<>> /\ nodes = Append(<<>>, Node(t, 0))
    BY <2>1, <2>2
  <2>4. Follows(Append(<<>>, Node(t, 0)), PushKeyring(NewKv, Node(t, 0).tag))
    <3>1. <<>> \in Seq(Nodes)
      OBVIOUS
    <3> QED
      BY <1>0, <2>2, <3>1, PushFollows
  <2>5. Follows(nodes, kv)
    BY <2>1, <2>2, <2>3, <2>4
  <2> QED
    BY <1>0, <2>1, <2>3, <2>5, PushType DEF Init, ValidatorInv
<1> QED
  BY <1>1, <1>2 DEF Init

LEMMA ArriveValidator ==
    ASSUME ValidatorInv, NEW t \in Tags, NEW left, NEW d \in Nat, NEW m,
           NEW ns \in Seq(Nodes), ns # <<>>, Follows(ns, kv),
           Arrive(t, left, d, m, ns)
    PROVE  ValidatorInv'
<1>1. /\ nodes' = Append(ns, Node(t, d)) /\ depth' = d /\ kv' = PushKeyring(kv, t)
  BY DEF Arrive
<1>2. Node(t, d) \in Nodes /\ Node(t, d).tag = t
  BY NodeType
<1>3. nodes' \in Seq(Nodes) /\ nodes' # <<>>
  BY <1>1, <1>2
<1>4. kv' \in Validators
  BY <1>1, PushType DEF ValidatorInv
<1>5. Follows(Append(ns, Node(t, d)), PushKeyring(kv, Node(t, d).tag))
  BY <1>2, PushFollows DEF ValidatorInv
<1>6. Follows(nodes', kv')
  BY <1>1, <1>2, <1>5
<1>7. Follows(nodes, kv)'
  BY <1>6 DEF Follows, CertForm, LastCert, OneKey
<1> QED
  BY <1>1, <1>3, <1>4, <1>7 DEF ValidatorInv

\* A step that brings no packet.
LEMMA KeepsValidator ==
    ASSUME ValidatorInv, UNCHANGED <<depth, nodes, kv>>, mode' = "some" => mode = "some"
    PROVE  ValidatorInv'
BY DEF ValidatorInv, Follows, CertForm, LastCert, OneKey

LEMMA CallNextValidator ==
    ASSUME ValidatorInv, mode = "some", CallNext PROVE ValidatorInv'
<1>0. /\ nodes # <<>> /\ depth \in Nat /\ kv \in Validators
      /\ FinishedNodes \in Seq(Nodes) /\ FinishedNodes # <<>> /\ Follows(FinishedNodes, kv)
  BY FinishedForm DEF ValidatorInv
<1>1. CASE FinishBreaks \/ Fails
  BY <1>1, KeepsValidator DEF FinishBreaks, Panics, Fails
<1>2. CASE Eof(FinishedMv) /\ nodes' = FinishedNodes /\ depth' = depth
  <2>1. kv' = [kv EXCEPT !.finished = TRUE] /\ mode' = "eof"
    BY <1>2 DEF Eof
  <2>2. kv' \in Validators
    BY <1>0, <2>1 DEF Validators
  <2>3. kv'.error = kv.error /\ kv'.tokens = kv.tokens /\ kv'.n_keys = kv.n_keys
    BY <1>0, <2>1 DEF Validators
  <2>4. Follows(nodes, kv)'
    BY <1>0, <1>2, <2>3 DEF Follows, CertForm, LastCert, OneKey
  <2> QED
    BY <1>0, <1>2, <2>1, <2>2, <2>4 DEF ValidatorInv
<1>3. CASE \E t \in Tags : \E left \in Lefts(t) : NextPacket(t, left)
  <2>0. PICK t \in Tags : \E left \in Lefts(t) : NextPacket(t, left)
    BY <1>3
  <2>1. PICK left \in Lefts(t) : NextPacket(t, left)
    BY <2>0
  <2>2. \E d \in 0..depth : Arrive(t, left, d, FinishedMv, FinishedNodes)
    BY <1>0, <2>1 DEF NextPacket
  <2>3. PICK d \in Nat : Arrive(t, left, d, FinishedMv, FinishedNodes)
    BY <1>0, <2>2
  <2> QED
    BY <1>0, <2>3, ArriveValidator
<1> QED
  BY <1>1, <1>2, <1>3 DEF CallNext

LEMMA NextValidator == ASSUME ValidatorInv, [Next]_vars PROVE ValidatorInv'
<1>1. CASE Decrypt \/ ReadContent \/ ReadFails \/ ReadLate
  BY <1>1, KeepsValidator DEF Decrypt, ReadContent, ReadFails, ReadLate, Panics
<1>2. CASE Finish
  <2>1. CASE FinishBreaks
    BY <1>2, <2>1, KeepsValidator DEF FinishBreaks, Panics
  <2>2. CASE ~FinishBreaks
    <3>1. nodes' = FinishedNodes /\ UNCHANGED <<mode, depth, kv>> /\ mode = "some"
      BY <1>2, <2>2 DEF Finish
    <3>2. FinishedNodes \in Seq(Nodes) /\ FinishedNodes # <<>> /\ Follows(FinishedNodes, kv)
      BY <3>1, FinishedForm DEF ValidatorInv
    <3>3. Follows(nodes, kv)'
      BY <3>1, <3>2 DEF Follows, CertForm, LastCert, OneKey
    <3> QED
      BY <3>1, <3>2, <3>3 DEF ValidatorInv
  <2> QED
    BY <2>1, <2>2
<1>3. CASE mode = "some" /\ CallNext
  BY <1>3, CallNextValidator
<1>4. CASE mode = "some" /\ Enter
  <2>1. CASE Fails
    BY <1>4, <2>1, KeepsValidator DEF Fails
  <2>2. CASE ~Fails
    <3>0. PICK t \in Tags : \E left : Arrive(t, left, depth + 1, mv, nodes)
      BY <1>4, <2>2 DEF Enter
    <3>1. PICK left : Arrive(t, left, depth + 1, mv, nodes)
      BY <3>0
    <3>2. depth + 1 \in Nat /\ nodes \in Seq(Nodes) /\ nodes # <<>> /\ Follows(nodes, kv)
      BY <1>4 DEF ValidatorInv
    <3> QED
      BY <3>1, <3>2, ArriveValidator
  <2> QED
    BY <2>1, <2>2
<1>5. CASE UNCHANGED vars
  BY <1>5, KeepsValidator DEF vars
<1> QED
  BY <1>1, <1>2, <1>3, <1>4, <1>5 DEF Next, CallRecurse, Returned

(***************************************************************************)
(* KeyringValidator accepts every prefix of a sequence that starts with a  *)
(* key and has only packets of certificates in it, with any number of      *)
(* keys, and CertValidator if there is one key, although the validator     *)
(* keeps the tokens of the last certificate only, drops repeated           *)
(* signatures, and is told of packets at any depth.                        *)
(***************************************************************************)
THEOREM CertsAreRecognisedHolds == Spec => []CertsAreRecognised
<1>1. ASSUME ValidatorInv PROVE CertsAreRecognised
  <2> DEFINE form == /\ tags # <<>> /\ Head(tags) \in KeyTags
                     /\ \A i \in 1..Len(tags) : tags[i] \in CertTags
             one == \A i \in 2..Len(tags) : tags[i] \notin KeyTags
  <2>1. nodes \in Seq(Nodes) /\ kv \in Validators /\ Len(nodes) \in Nat
    BY <1>1 DEF ValidatorInv
  <2>2. /\ tags \in Seq(AllTags) /\ Len(tags) = Len(nodes)
        /\ \A i \in 1..Len(nodes) : tags[i] = nodes[i].tag
    <3>0. \A n \in Nodes : n.tag \in AllTags
      BY DEF Nodes
    <3>1. \A i \in 1..Len(nodes) : nodes[i].tag \in AllTags
      BY <2>1, <3>0
    <3> QED
      BY <2>1, <3>1 DEF tags
  <2>3. form => CertForm(nodes)
    BY <2>1, <2>2 DEF CertForm
  <2>4. one => OneKey(nodes)
    BY <2>1, <2>2 DEF OneKey
  <2> HIDE DEF form, one
  <2>5. CertForm(nodes) => LastCert(kv) /\ (OneKey(nodes) => kv.n_keys = 1)
    BY <1>1 DEF ValidatorInv, Follows
  <2>6. LastCert(kv) => CheckKeyring(kv) \in {"Keyring", "KeyringPrefix"}
    <3>1. kv.tokens \in Seq(CertTags)
      BY <2>1 DEF Validators
    <3> QED
      BY <3>1 DEF LastCert, CheckKeyring
  <2>7. LastCert(kv) /\ kv.n_keys = 1 => CheckCert(kv) \in {"Cert", "CertPrefix"}
    BY <2>6 DEF CheckCert
  <2> QED
    BY <2>3, <2>4, <2>5, <2>6, <2>7 DEF CertsAreRecognised, form, one
<1> QED
  BY <1>1, InitValidator, NextValidator, PTL DEF Spec
=============================================================================
