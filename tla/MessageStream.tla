--------------------------- MODULE MessageStream ---------------------------
(***************************************************************************)
(* What Verifier and Decryptor (openpgp/src/parse/stream.rs) make of a     *)
(* stream of packets: the layers of the message and the signatures in      *)
(* them, and what the readers below have hashed for each signature         *)
(* (openpgp/src/parse.rs, parse/hashed_reader.rs).                         *)
(*                                                                         *)
(* Signatures come after the data, without naming their one-pass           *)
(* signature packets.  Three parts of the code pair them up, each by its   *)
(* own count: the message grammar, the signature groups in the cookies of  *)
(* the hashed readers, and the layers of IMessageStructure.                *)
(*                                                                         *)
(* The n-th packet of the stream consists of the bytes <<n, "head">> and   *)
(* <<n, "body">>; a digest is the sequence of the bytes that went into it. *)
(* A container's bytes pass the readers below it when it is opened.        *)
(***************************************************************************)
EXTENDS Integers, Sequences, SequencesExt, FiniteSets

CONSTANTS Algos,       \* hash algorithms, each with a mode, binary or text
          Supported,   \* those among them that have an implementation
          Tags,        \* the packet tags that occur
          MaxDepth,    \* bound on the nesting
          MaxHeader,   \* bound on the packets up to the literal data packet
          MaxPackets   \* bound on the packets of the message

ASSUME MessageAssumption ==
    /\ Supported \subseteq Algos /\ Algos # {}
    /\ Tags \subseteq {"OnePassSig", "Signature", "Literal", "CompressedData", "SEIP", "MDC"}
    /\ MaxDepth \in Nat /\ MaxHeader \in Nat /\ MaxPackets \in Nat

VARIABLES phase,     \* from_buffered_reader "header", finish_maybe "trailer", or the outcome
          stream,    \* the packets parsed so far; the last one is the current one
          readers,   \* cookies of the hashed readers, the topmost last
          layers,    \* IMessageStructure::layers
          counter,   \* IMessageStructure::sig_group_counter
          digest,    \* digest[n]: computed_digest of the signature at n
          mv         \* MessageValidator

vars == <<phase, stream, readers, layers, counter, digest, mv>>

\* The message validator is that of the packet parser.
P == INSTANCE PacketParser WITH Faults <- {}, mode <- phase, depth <- 0, open <- <<>>,
                                cur <- <<>>, nodes <- <<>>, kv <- <<>>

Packets == [tag : Tags, d : 0..MaxDepth, last : BOOLEAN, algo : Algos, valid : BOOLEAN]
\* Packets without the fields that only some have.
Plain == {p \in Packets :
            /\ p.tag # "OnePassSig" => ~ p.last
            /\ p.tag \notin {"OnePassSig", "Signature"} => p.algo = CHOOSE a \in Algos : TRUE
            /\ p.tag # "MDC" => p.valid}

None == <<0, "none">>     \* no digest, no stashed bytes
NoDigest == <<None>>
-----------------------------------------------------------------------------
(* Cookies.                                                                *)

Group == [ops_count |-> 0, hashes |-> [a \in {} |-> <<>>]]

\* HashedReader::new, on top of a message at depth d.
Reader(d, algos, last) ==
    [level |-> d - 1, for_signature |-> TRUE, hashing |-> "Enabled", saw_last |-> last,
     sig_groups |-> <<[ops_count |-> 1, hashes |-> [a \in algos |-> <<>>]]>>,
     stash |-> None]

AddTo(g, b) == [g EXCEPT !.hashes = [a \in DOMAIN @ |-> Append(@[a], b)]]

\* Mutant: the stashed bytes are forgotten.
HashUpdateNoStash(c, b) ==
    LET top == Len(c.sig_groups) IN
    [c EXCEPT !.sig_groups = [i \in 1..top |->
                 IF c.hashing = "Disabled" \/ (i = top /\ c.hashing # "Enabled")
                 THEN @[i] ELSE AddTo(@[i], b)],
              !.stash = None]

\* Cookie::hash_update: the stashed header belongs to the group that was
\* topmost when it was read; the topmost group does not hash signatures.
HashUpdate(c, b) ==
    LET top == Len(c.sig_groups)
        unstashed == [i \in 1..top |-> IF i = top - 1 /\ c.stash # None
                                       THEN AddTo(c.sig_groups[i], c.stash)
                                       ELSE c.sig_groups[i]]
    IN  [c EXCEPT !.sig_groups = [i \in 1..top |->
                     IF c.hashing = "Disabled" \/ (i = top /\ c.hashing # "Enabled")
                     THEN unstashed[i] ELSE AddTo(unstashed[i], b)],
                  !.stash = None]

\* Bytes of a packet at depth d pass the readers of its level.
Consume(rs, d, b) == [i \in 1..Len(rs) |-> IF rs[i].level = d - 1 THEN HashUpdate(rs[i], b) ELSE rs[i]]

\* Cookie::hashing.
Hashing(rs, how, d) ==
    [i \in 1..Len(rs) |-> IF rs[i].level = d - 1 /\ rs[i].for_signature
                          THEN [rs[i] EXCEPT !.hashing = how] ELSE rs[i]]

\* The hashed reader that OnePassSig3::parse and Signature4::parse find at
\* depth d walking up from the packet, or 0.
Find(rs, d) ==
    LET fit == {i \in 1..Len(rs) : rs[i].level = d - 1 /\ rs[i].for_signature}
    IN  IF fit = {} THEN 0 ELSE CHOOSE i \in fit : \A j \in fit : j <= i

\* buffered_reader_stack_pop: the readers of containers that are left.
Peel(rs, d) == SelectSeq(rs, LAMBDA c : c.level < d)

-----------------------------------------------------------------------------
(* The packet parsers.                                                     *)

\* Cookie::sig_group_push, as OnePassSig3::parse does it.
PushGroup(c, n) ==
    IF c.saw_last
    THEN [c EXCEPT !.sig_groups = Append(@, Group), !.saw_last = FALSE, !.stash = <<n, "head">>]
    ELSE c

\* OnePassSig3::parse, for a reader that exists.
Account(c, p) ==
    LET top == Len(c.sig_groups)
        algos == DOMAIN c.sig_groups[top].hashes \union ({p.algo} \intersect Supported)
    IN  [c EXCEPT !.sig_groups[top] =
                     [ops_count |-> @.ops_count + 1,
                      hashes |-> [a \in algos |-> IF a \in DOMAIN @.hashes THEN @.hashes[a] ELSE <<>>]],
                  !.saw_last = p.last]

ParseOnePassSig(rs, n, p) ==
    LET i == Find(rs, p.d)
        body == <<n, "body">>
    IN  IF i # 0
        THEN Consume([rs EXCEPT ![i] = Account(PushGroup(rs[i], n), p)], p.d, body)
        ELSE Append(Consume(rs, p.d, body), Reader(p.d, {p.algo} \intersect Supported, p.last))

\* Signature4::parse on the cookie that it finds, with sig_group_pop.
TakeSignature(c) ==
    LET top == Len(c.sig_groups)
        left == c.sig_groups[top].ops_count - 1
    IN  CASE left # 0              -> [c EXCEPT !.sig_groups[top].ops_count = left]
          [] left = 0 /\ top > 1   -> [c EXCEPT !.sig_groups = Front(@)]
          [] left = 0 /\ top = 1   -> [c EXCEPT !.sig_groups = <<Group>>, !.for_signature = FALSE]

\* The digest that Signature4::parse takes out of the cookie.
DigestOf(c, algo) ==
    LET g == Last(c.sig_groups) IN
    IF algo \in DOMAIN g.hashes THEN g.hashes[algo] ELSE NoDigest

\* What PacketParser::parse does to hashing before it consumes the header.
How(tag, rs, d) ==
    CASE tag = "Literal" -> Hashing(rs, "Disabled", d)
      [] tag \in {"OnePassSig", "Signature"} -> Hashing(rs, "Notarized", d)
      [] OTHER -> rs

\* PacketParser::parse of the n-th packet: the readers after it, and the
\* digest if it is a signature.  For a one-pass signature it calls
\* Cookie::hashing to enable hashing again, on a PacketParser: that has no
\* inner reader, and the call changes nothing.
Parse(rs, n, p) ==
    LET head == Consume(How(p.tag, Peel(rs, p.d), p.d), p.d, <<n, "head">>)
        body == Consume(head, p.d, <<n, "body">>)
        i == Find(body, p.d)
    IN  CASE p.tag = "OnePassSig" ->
               [readers |-> ParseOnePassSig(head, n, p), digest |-> NoDigest]
          [] p.tag = "Literal" ->
               [readers |-> Consume(Hashing(head, "Enabled", p.d), p.d, <<n, "body">>), digest |-> NoDigest]
          [] p.tag = "Signature" /\ i # 0 ->
               [readers |-> [body EXCEPT ![i] = TakeSignature(@)], digest |-> DigestOf(body[i], p.algo)]
          [] OTHER -> [readers |-> body, digest |-> NoDigest]
-----------------------------------------------------------------------------
(* IMessageStructure.                                                      *)

Layer(kind, d, count) == [kind |-> kind, d |-> d, count |-> count, sigs |-> <<>>]

\* insert_missing_signature_group
WithMissing == IF counter > 0 THEN Append(layers, Layer("sigs", 0, counter)) ELSE layers

\* new_compression_layer, new_encryption_layer
NewLayer(kind, d) == /\ layers' = Append(WithMissing, Layer(kind, d, 0))
                     /\ counter' = 0

push_ops(p) ==
    IF p.last THEN layers' = Append(layers, Layer("sigs", 0, counter + 1)) /\ counter' = 0
              ELSE counter' = counter + 1 /\ UNCHANGED layers

push_bare_signature(n) ==
    LET base == IF layers # <<>> /\ Last(layers).kind = "sigs" THEN layers
                ELSE Append(layers, Layer("sigs", 0, 0))
    IN  layers' = [base EXCEPT ![Len(base)].sigs = Append(@, n)] /\ UNCHANGED counter

\* The groups that push_signature considers.
Waiting == {i \in 1..Len(layers) : layers[i].kind = "sigs" /\ layers[i].count > 0}

\* Mutant: the outermost group is served first.
push_signature_first(n) ==
    LET i == CHOOSE i \in Waiting : \A j \in Waiting : i <= j
    IN  layers' = [layers EXCEPT ![i].sigs = Append(@, n), ![i].count = @ - 1]

push_signature(n) ==
    LET i == CHOOSE i \in Waiting : \A j \in Waiting : j <= i
    IN  layers' = [layers EXCEPT ![i].sigs = Append(@, n), ![i].count = @ - 1]

expect_mdc_at(d) == \E i \in 1..Len(layers) : layers[i].kind = "encryption" /\ layers[i].d = d
-----------------------------------------------------------------------------
Init ==
    /\ phase = "header"
    /\ stream = <<>> /\ readers = <<>> /\ digest = <<>>
    /\ layers = <<>> /\ counter = 0
    /\ mv = P!NewMv

\* The packets inside the container at n.
Inside(n) == {k \in (n + 1)..Len(stream) : \A j \in (n + 1)..k : stream[j].d > stream[n].d}
Children(n) == {k \in Inside(n) : stream[k].d = stream[n].d + 1}

\* PacketParser::next and recurse can go on at depth d, or at the end if that
\* is 0: containers are not empty, and the bytes that SEIP keeps back for its
\* MDC come to light in a packet of their own.
Reaches(d) ==
    LET p == Last(stream) IN
    /\ IF p.tag \in P!Containers THEN d = p.d + 1 ELSE d <= p.d
    /\ \A n \in 1..Len(stream) :
          stream[n].tag = "SEIP" /\ stream[n].d >= d /\ Len(stream) \in Inside(n)
              => Cardinality(Children(n)) >= 2

Following == {p \in Plain : IF stream = <<>> THEN p.d = 0 ELSE Reaches(p.d)}

\* The packet parser goes on to packet p.
Advance(p) ==
    LET n == Len(stream) + 1
        r == Parse(readers, n, p)
    IN  /\ stream' = Append(stream, p)
        /\ readers' = r.readers
        /\ digest' = Append(digest, r.digest)
        /\ mv' = P!PushTag(mv, p.tag, p.d)

possible_message(v) == P!CheckMessage(v) # "Error"

\* An error return, or a panic.
Stop(what) == phase' = what /\ UNCHANGED <<stream, readers, digest, mv, layers, counter>>

\* Decryptor::from_buffered_reader, one packet.  The session key is known.
Header(p) ==
    /\ phase = "header" /\ Len(stream) < MaxHeader
    /\ Advance(p)
    /\ possible_message(mv')
    /\ \/ /\ p.tag = "CompressedData" /\ NewLayer("compression", p.d)
          /\ UNCHANGED phase
       \/ /\ p.tag = "SEIP" /\ NewLayer("encryption", p.d)
          /\ UNCHANGED phase
       \/ /\ p.tag = "OnePassSig" /\ push_ops(p)
          /\ UNCHANGED phase
       \/ /\ p.tag = "Signature" /\ push_bare_signature(Len(stream'))
          /\ UNCHANGED phase
       \/ /\ p.tag = "Literal" /\ layers' = WithMissing /\ counter' = 0
          /\ phase' = "trailer"

\* Error returns that do not depend on the packets, I/O or a truncated packet,
\* and those of from_buffered_reader: not a message, or no literal in it.
Fails == phase \in {"header", "trailer"} /\ Stop("error")

\* Decryptor::finish_maybe: was p the last packet of a container that has
\* to end in an MDC?  The next packet is at depth next.
Manipulated(p, next) ==
    /\ next + 1 = p.d /\ expect_mdc_at(next)
    /\ ~ (p.tag = "MDC" /\ p.valid)

\* The loop of finish_maybe lets go of the current packet; a signature that
\* no group waits for is "unaccounted for".
Leave(next, then) ==
    LET p == Last(stream) IN
    /\ ~ Manipulated(p, next)
    /\ IF p.tag # "Signature" THEN phase' = then /\ UNCHANGED layers
       ELSE IF Waiting = {} THEN phase' = "panic" /\ UNCHANGED layers
       ELSE phase' = then /\ push_signature(Len(stream))
    /\ UNCHANGED counter

\* Decryptor::finish_maybe, one packet.
Trailer(p) ==
    /\ phase = "trailer" /\ Len(stream) < MaxPackets
    /\ Leave(p.d, "trailer")
    /\ Advance(p)
    /\ possible_message(mv')

\* The end of the packets, and verify_signatures.
End ==
    /\ phase = "trailer" /\ Reaches(0)
    /\ Leave(0, "checked")
    /\ UNCHANGED <<stream, readers, digest, mv>>

\* The loop refuses the current packet, or packet p once it comes to it.
Rejected(p) ==
    /\ phase = "trailer"
    /\ Manipulated(Last(stream), p.d) \/ ~ possible_message(P!PushTag(mv, p.tag, p.d))
    /\ Stop("error")

Over == phase \in {"checked", "error", "panic"} /\ UNCHANGED vars

Next ==
    \/ \E p \in Following : Header(p) \/ Trailer(p) \/ Rejected(p)
    \/ End \/ Fails \/ Over

Spec == Init /\ [][Next]_vars
-----------------------------------------------------------------------------
(* What a signature is over, read off the tree of packets.                 *)

\* The packets before s in the same container.
Before(s) == {m \in 1..(s - 1) : stream[m].d = stream[s].d
                                 /\ \A k \in m..s : stream[k].d >= stream[s].d}
\* Does s come after the data, or is it a bare signature before it?
Trails(s) == /\ stream[s].tag = "Signature"
             /\ \E m \in Before(s) : stream[m].tag \in P!Containers \union {"Literal"}
Opens(s) == {m \in Before(s) : stream[m].tag = "OnePassSig"}
\* Signatures and one-pass signatures nest; s closes the one at m.
Ordinal(s) == Cardinality({m \in Before(s) : Trails(m)})
Closes(s, m) == m \in Opens(s) /\ Cardinality({o \in Opens(s) : o > m}) = Ordinal(s)
\* The last one-pass signature of the group of m.
Ends(s, m) == CHOOSE e \in Opens(s) : /\ e >= m
                                      /\ stream[e].last \/ \A o \in Opens(s) : o <= e
                                      /\ \A o \in Opens(s) : m <= o /\ o < e => ~ stream[o].last
InGroup(s, m, o) == o \in Opens(s) /\ Ends(s, o) = Ends(s, m)
\* What lies between it and the first signature of the group.
Covered(s, m) ==
    LET e == Ends(s, m)
        inner == Cardinality({o \in Opens(s) : o > e})
    IN  {k \in Before(s) : k > e /\ (Trails(k) => Ordinal(k) < inner)}
Bytes(k) == IF stream[k].tag = "Literal" THEN <<<<k, "body">>>> ELSE <<<<k, "head">>, <<k, "body">>>>
Content(s, m) == FlattenSeq([i \in 1..Cardinality(Covered(s, m)) |->
                               Bytes(SetToSortSeq(Covered(s, m), <)[i])])

\* The data is a container, s belongs to the innermost group around it, and
\* there is more than one one-pass signature.
Unhashed(s, m) ==
    /\ \E k \in Before(s) : stream[k].tag \in P!Containers
    /\ \A o \in Opens(s) : o <= Ends(s, m)
    /\ Cardinality(Opens(s)) > 1

\* No signature comes before the data.
Regular == \A n \in 1..Len(stream) : stream[n].tag = "Signature" => Trails(n)
-----------------------------------------------------------------------------
(* Properties.                                                             *)

\* Signature4::parse finds the group whose data the signature is over: every
\* signature that its one-pass signature announced gets the digest of what
\* lies between them, with the packets of inner groups, and of the literal
\* data packet only the body.  The one exception is a group right around a
\* container: from the second one-pass signature on hashing is suspended for the
\* topmost group, and only a literal data packet resumes it, so that the
\* signatures of this group get the digest of nothing.
DigestIsOfContent ==
    Regular /\ phase \in {"trailer", "checked"} =>
        \A s \in 1..Len(stream), m \in 1..Len(stream) :
            Trails(s) /\ Closes(s, m) =>
                digest[s] = IF \E o \in Opens(s) : InGroup(s, m, o) /\ stream[o].algo = stream[s].algo
                                                   /\ stream[o].algo \in Supported
                            THEN IF Unhashed(s, m) THEN <<>> ELSE Content(s, m)
                            ELSE NoDigest

\* The layers that check is shown: two signatures share one exactly if their
\* one-pass signatures form a group, and the layers of enclosing containers
\* come before it.  push_signature finds room for every signature: it never meets
\* one that is "unaccounted for".
LayerOf(s) == CHOOSE i \in 1..Len(layers) : \E k \in 1..Len(layers[i].sigs) : layers[i].sigs[k] = s
LayersAreGroups ==
    /\ phase # "panic"
    /\ Regular /\ phase = "checked" =>
        LET closed == {s \in 1..Len(stream) : Trails(s)} IN
        /\ \A s, t \in closed : s < t =>
             /\ LayerOf(s) >= LayerOf(t)
             /\ LayerOf(s) = LayerOf(t) <=>
                  /\ Before(s) \subseteq Before(t)
                  /\ \E m, o \in Opens(t) : Closes(t, m) /\ Closes(s, o) /\ InGroup(t, m, o)
        /\ \A s \in closed :
             Cardinality({i \in 1..(LayerOf(s) - 1) : layers[i].kind # "sigs"}) = stream[s].d
=============================================================================
