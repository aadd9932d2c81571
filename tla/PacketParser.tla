---------------------------- MODULE PacketParser ----------------------------
(***************************************************************************)
(* PacketParser (openpgp/src/parse.rs) walking through a stream of nested  *)
(* packets, and the three validators that watch it: MessageValidator       *)
(* (message/mod.rs), KeyringValidator and CertValidator (cert/parser/).    *)
(*                                                                         *)
(* The stream is not fixed beforehand: whenever the parser asks for the    *)
(* next packet, any packet may come that the nesting allows, at any depth  *)
(* that is still open.  The caller decides whether to decrypt a container, *)
(* to recurse into it, to read its content itself, or to skip it.  A       *)
(* packet is its tag; of its content only matters whether any is left.     *)
(***************************************************************************)
EXTENDS Naturals, Sequences, SequencesExt

CONSTANTS Tags,        \* the packet tags that occur
          MaxDepth,    \* max_recursion_depth of the builder
          MaxPackets,  \* bound on the packets of the stream
          Faults       \* what may go wrong: a "read" fails, the plaintext of
                       \* a SEIP is "short", the caller reads too "late"

MessageTags == {"Literal", "CompressedData", "PKESK", "SKESK", "SEIP", "MDC",
                "AED", "OnePassSig", "Signature"}
KeyTags     == {"PublicKey", "SecretKey"}
CertTags    == KeyTags \cup {"PublicSubkey", "SecretSubkey", "UserID",
                             "UserAttribute", "Signature", "Trust"}
Containers  == {"CompressedData", "SEIP", "AED"}
Streamed    == Containers \cup {"Literal"}     \* packets with a body to read

ASSUME ParserAssumption ==
    /\ Tags \subseteq MessageTags \cup CertTags \cup {"Marker"}
    /\ MaxDepth \in Nat /\ MaxPackets \in Nat
    /\ Faults \subseteq {"read", "short", "late"}

VARIABLES mode,    \* what the last call returned: some packet, EOF, an error
          depth,   \* path().len() - 1 of the current packet
          open,    \* for each open container: does it still hide its MDC?
          cur,     \* the current packet and what happened to it
          nodes,   \* the packets parsed so far (history)
          mv,      \* MessageValidator
          kv       \* KeyringValidator, and the CertValidator around it

vars == <<mode, depth, open, cur, nodes, mv, kv>>

\* A packet just parsed.  Encrypted containers have to be decrypted first;
\* only streamed packets can have content left.  `failed` is history: a read
\* of its content has failed.
Packet(t, left) ==
    [tag |-> t, encrypted |-> t \in {"SEIP", "AED"}, was_read |-> FALSE,
     left |-> left, finished |-> FALSE, hash |-> TRUE, failed |-> FALSE]
Lefts(t) == IF t \in Containers THEN BOOLEAN ELSE {t = "Literal"}
----------------------------------------------------------------------------
(***************************************************************************)
(* The grammar of messages, as what may still come: the top of `expect` is *)
(* the next symbol.  "M" is a message, "E" the rest of an encrypted part   *)
(* after a session key, "T" what follows SEIP, "U" what follows opaque     *)
(* content in SEIP; the others stand for themselves.                       *)
(***************************************************************************)
Starts == [Literal        |-> <<>>,
           Opaque         |-> <<>>,
           CompressedData |-> <<"M", "Pop">>,
           AED            |-> <<"M", "Pop">>,
           SEIP           |-> <<"T">>,
           PKESK          |-> <<"E">>,
           SKESK          |-> <<"E">>,
           Signature      |-> <<"M">>,
           OnePassSig     |-> <<"M", "Signature">>]

\* What replaces the symbol s when token t arrives; "none" if t does not fit.
Expand(s, t) ==
    CASE s = "M" /\ t \in DOMAIN Starts -> Starts[t]
      [] s = "E" /\ t \in {"PKESK", "SKESK", "SEIP", "AED"} -> Starts[t]
      [] s = "T" /\ t = "Opaque" -> <<"U">>
      [] s = "T" /\ t # "Opaque" /\ t \in DOMAIN Starts -> Starts[t] \o <<"MDC", "Pop">>
      [] s = "U" /\ t = "MDC" -> <<"Pop">>
      [] s = "U" /\ t = "Pop" -> <<>>
      [] s = t -> <<>>
      [] OTHER -> <<"none">>

Stuck == <<"none">>

\* MessageParser on one more token.
Shift(expect, t) ==
    LET new == IF expect = <<>> THEN Stuck ELSE Expand(Head(expect), t)
    IN  IF new = Stuck THEN Stuck ELSE new \o Tail(expect)

\* Mutant: the containers that were left are not popped.
PushTokenNoPops(v, t, d) ==
    IF v.error THEN v
    ELSE [v EXCEPT !.expect = Shift(v.expect, t), !.depth = d]

\* MessageValidator::push_token: leaving containers is noticed by the path.
PushToken(v, t, d) ==
    IF v.error THEN v
    ELSE LET pops == IF v.depth > d THEN v.depth - d ELSE 0
             toks == [i \in 1..pops |-> "Pop"] \o <<t>>
         IN  [v EXCEPT !.expect = FoldLeft(Shift, v.expect, toks), !.depth = d]

\* MessageValidator::push.
PushTag(v, t, d) ==
    CASE t = "Marker"       -> v
      [] t \in MessageTags  -> PushToken(v, t, d)
      [] OTHER              -> [v EXCEPT !.error = TRUE]

\* MessageValidator::finish.
FinishMessage(v) ==
    [v EXCEPT !.expect = FoldLeft(Shift, v.expect, [i \in 1..v.depth |-> "Pop"]),
              !.finished = TRUE]

\* MessageValidator::check.
CheckMessage(v) ==
    IF v.error \/ v.expect = Stuck THEN "Error"
    ELSE IF ~v.finished THEN "MessagePrefix"
    ELSE IF v.expect = <<>> THEN "Message" ELSE "Error"

\* Mutant: the packets of the last certificate are kept.
PushKeyringKeeps(k, t) ==
    CASE t \notin CertTags        -> [k EXCEPT !.error = TRUE]
      [] t \in CertTags /\ k.error -> k
      [] OTHER                    ->
           [k EXCEPT !.tokens = Append(@, t),
                     !.n_keys = IF t \in KeyTags THEN @ + 1 ELSE @]

\* KeyringValidator::push: a key starts the next certificate, whose packets
\* replace those of the last one.
PushKeyring(k, t) ==
    CASE t \notin CertTags        -> [k EXCEPT !.error = TRUE]
      [] t \in CertTags /\ k.error -> k
      [] t \in KeyTags /\ ~k.error -> [k EXCEPT !.tokens = <<t>>, !.n_keys = @ + 1]
      [] OTHER                    ->
           IF t = "Signature" /\ k.tokens # <<>> /\ Last(k.tokens) = t
           THEN k ELSE [k EXCEPT !.tokens = Append(@, t)]

\* KeyringValidator::check.  The grammar wants one primary key, and after it
\* components, signatures and trust packets in any order.
CheckKeyring(k) ==
    LET started == k.tokens # <<>>
        good    == /\ started /\ Head(k.tokens) \in KeyTags
                   /\ \A i \in 2..Len(k.tokens) : k.tokens[i] \notin KeyTags
    IN  CASE k.error               -> "Error"
          [] ~k.error /\ good      -> IF k.finished THEN "Keyring" ELSE "KeyringPrefix"
          [] OTHER                 -> IF k.finished \/ started THEN "Error"
                                                               ELSE "KeyringPrefix"

\* CertValidator::check.
CheckCert(k) ==
    IF k.n_keys > 1 THEN "Error"
    ELSE [Keyring |-> "Cert", KeyringPrefix |-> "CertPrefix",
          Error |-> "Error"][CheckKeyring(k)]
----------------------------------------------------------------------------
NewMv == [expect |-> <<"M">>, depth |-> 0, error |-> FALSE, finished |-> FALSE]
NewKv == [tokens |-> <<>>, n_keys |-> 0, error |-> FALSE, finished |-> FALSE]

Node(t, d) == [tag |-> t, depth |-> d, content |-> "unseen"]

\* A packet of tag t at depth d is handed to the caller and the validators.
Arrive(t, left, d, m, ns) ==
    /\ mode' = "some"
    /\ depth' = d
    /\ cur' = Packet(t, left)
    /\ nodes' = Append(ns, Node(t, d))
    /\ mv' = PushTag(m, t, d)
    /\ kv' = PushKeyring(kv, t)

\* PacketParserEOF::new.
Eof(m) ==
    /\ mode' = "eof"
    /\ mv' = FinishMessage(m)
    /\ kv' = [kv EXCEPT !.finished = TRUE]

\* PacketParserBuilder::build.
Init ==
    /\ depth = 0 /\ open = <<>>
    /\ \/ /\ mode = "eof"
          /\ cur = Packet("Marker", FALSE)
          /\ nodes = <<>>
          /\ mv = FinishMessage(NewMv)
          /\ kv = [NewKv EXCEPT !.finished = TRUE]
       \/ /\ mode = "some"
          /\ \E t \in Tags : \E left \in Lefts(t) :
                /\ cur = Packet(t, left)
                /\ nodes = <<Node(t, 0)>>
                /\ mv = PushTag(NewMv, t, 0)
                /\ kv = PushKeyring(NewKv, t)

Fails  == mode' = "failed" /\ UNCHANGED <<depth, open, cur, nodes, mv, kv>>

\* A call panics, by itself or because a read fails in it.
Panics(call, fails) == /\ mode' = call
                       /\ cur' = [cur EXCEPT !.failed = @ \/ fails]
                       /\ UNCHANGED <<depth, open, nodes, mv, kv>>
----------------------------------------------------------------------------
(***************************************************************************)
(* What the caller does with the current packet.                           *)
(***************************************************************************)
\* PacketParser::decrypt.  The session key may be wrong, and is then refused.
\* The header is consumed through the reader that hides the MDC: that call is
\* unwrapped, and fails if the plaintext is shorter than an MDC packet.
Decrypt ==
    /\ mode = "some" /\ cur.encrypted /\ ~cur.was_read /\ cur.left
    /\ \/ /\ \E left \in BOOLEAN :
                cur' = [cur EXCEPT !.encrypted = FALSE, !.left = left]
          /\ UNCHANGED <<mode, depth, open, nodes, mv, kv>>
       \/ cur.tag = "SEIP" /\ "short" \in Faults /\ Panics("decrypt panicked", FALSE)

\* The Read and BufferedReader interfaces: all that is left, or part of it.
ReadContent ==
    /\ mode = "some" /\ cur.tag \in Streamed /\ cur.left /\ cur.hash
    /\ \E left \in BOOLEAN :
          cur' = [cur EXCEPT !.was_read = TRUE, !.left = left]
    /\ UNCHANGED <<mode, depth, open, nodes, mv, kv>>

\* data_consume and data_consume_hard take the body hash out of the parser, and
\* do not put it back if the reader fails.  An error behind some data is kept
\* by the reader while it returns the data; consume, called for that data, asks
\* for it again, gets the error and panics.
ReadFails ==
    /\ mode = "some" /\ cur.tag \in Streamed /\ cur.hash /\ ~cur.finished
    /\ "read" \in Faults
    /\ \/ /\ cur' = [cur EXCEPT !.hash = FALSE, !.failed = TRUE]
          /\ UNCHANGED <<mode, depth, open, nodes, mv, kv>>
       \/ cur.left /\ Panics("read panicked", TRUE)

\* A read of a packet whose body hash is gone, since it is finished or since
\* an earlier read failed.
ReadLate ==
    /\ mode = "some" /\ cur.tag \in Streamed /\ ~cur.hash
    /\ "late" \in Faults
    /\ Panics("read panicked", FALSE)

\* The parts of PacketParser::finish: the content that is left is dropped, and
\* content of a container is reported as opaque, one level down.
HasOpaque == ~cur.finished /\ cur.left /\ cur.tag \in Containers
FinishedMv == IF HasOpaque THEN PushToken(mv, "Opaque", depth + 1) ELSE mv
FinishedNodes == IF HasOpaque THEN [nodes EXCEPT ![Len(nodes)].content = "opaque"]
                              ELSE nodes
\* Mutant: a second call does not return early.
FinishTwicePanics == ~cur.hash /\ cur.tag \in Streamed
FinishPanics == ~cur.finished /\ ~cur.hash

\* drop_eof asks for some content and then consumes it, as ReadFails does; an
\* error behind the content makes consume panic.
DropPanics == "read" \in Faults /\ ~cur.finished /\ cur.left

FinishBreaks == \/ FinishPanics /\ Panics("finish panicked", FALSE)
                \/ ~FinishPanics /\ DropPanics /\ Panics("finish panicked", TRUE)

\* PacketParser::finish, which callers may also call themselves.  An error
\* with no data before it is returned, and leaves the packet partly read, as
\* ReadContent does.
Finish ==
    /\ mode = "some"
    /\ \/ FinishBreaks
       \/ /\ ~FinishPanics
          /\ cur' = [cur EXCEPT !.was_read = @ \/ cur.left, !.left = FALSE,
                                !.finished = TRUE,
                                !.hash = @ /\ (cur.finished \/ cur.tag \notin Streamed)]
          /\ mv' = FinishedMv
          /\ nodes' = FinishedNodes
          /\ UNCHANGED <<mode, depth, open, kv>>
----------------------------------------------------------------------------
(***************************************************************************)
(* PacketParser::next.                                                     *)
(***************************************************************************)
\* A SEIP container that was decrypted but not entered: the reader that hides
\* its MDC is popped, and the parser goes on behind it.
Skipped == cur.tag = "SEIP" /\ ~cur.encrypted

\* The containers deeper than d have been left: none of them hides an MDC.
Closed(d) == \A i \in d + 1 .. depth : ~open[i]

NextPacket(t, left) ==
    \/ /\ Skipped
       /\ Arrive(t, left, depth, FinishedMv, FinishedNodes)
       /\ UNCHANGED open
    \/ /\ ~Skipped
       /\ \E d \in 0..depth :
             /\ Closed(d)
             /\ Arrive(t, left, d, FinishedMv, FinishedNodes)
             \* The end of a SEIP container: its MDC comes into view.
             /\ \/ open' = SubSeq(open, 1, d)
                \/ /\ d > 0 /\ open[d]
                   /\ open' = [SubSeq(open, 1, d) EXCEPT ![d] = FALSE]

\* Any call can fail: a truncated packet, an I/O error, junk in the stream.
CallNext ==
    \/ FinishBreaks
    \/ ~FinishPanics /\ Fails
    \/ /\ ~FinishPanics /\ ~Skipped /\ Closed(0)
       /\ Eof(FinishedMv)
       /\ nodes' = FinishedNodes
       /\ UNCHANGED <<depth, open, cur>>
    \/ /\ ~FinishPanics
       /\ Len(nodes) < MaxPackets
       /\ \E t \in Tags : \E left \in Lefts(t) : NextPacket(t, left)

\* PacketParser::recurse enters a container that can be entered; finding
\* nothing in it is an error.
Enters == /\ cur.tag \in Containers /\ ~cur.encrypted
          /\ depth < MaxDepth /\ ~cur.was_read

Enter ==
    \/ Fails
    \/ /\ cur.left
       /\ Len(nodes) < MaxPackets
       /\ \E t \in Tags : \E left \in Lefts(t) :
             Arrive(t, left, depth + 1, mv, nodes)
       /\ open' = Append(open, cur.tag = "SEIP")

CallRecurse == (Enters /\ Enter) \/ (~Enters /\ CallNext)

Returned == mode # "some" /\ UNCHANGED vars

Next == \/ Decrypt \/ ReadContent \/ ReadFails \/ ReadLate \/ Finish
        \/ mode = "some" /\ (CallNext \/ CallRecurse)
        \/ Returned

Spec == Init /\ [][Next]_vars
----------------------------------------------------------------------------
(***************************************************************************)
(* Properties.                                                             *)
(***************************************************************************)

is_message == CheckMessage(mv) = "Message"

\* finish, next and recurse, called in any order and any number of times with
\* reads between them, panic only on a packet that is not finished and of which
\* a read failed, before or in this call: once finish has taken the body hash
\* they do not ask for it again, whatever failed before.  Reads panic only on a
\* finished packet or after a read that failed.
PanicsOnlyOnFault ==
    /\ mode = "finish panicked" => cur.failed /\ ~cur.finished
    /\ mode = "read panicked" => cur.failed \/ cur.finished

tags == [i \in 1..Len(nodes) |-> nodes[i].tag]

\* A sequence that starts with a key and has only packets of certificates in
\* it is accepted by KeyringValidator at every prefix, with any number of keys,
\* and by CertValidator if there is one key.
CertsAreRecognised ==
    LET form == /\ tags # <<>> /\ Head(tags) \in KeyTags
                /\ \A i \in 1..Len(tags) : tags[i] \in CertTags
        one  == \A i \in 2..Len(tags) : tags[i] \notin KeyTags
    IN  /\ form => CheckKeyring(kv) # "Error"
        /\ form /\ one => CheckCert(kv) # "Error"
=============================================================================
