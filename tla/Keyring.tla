------------------------------ MODULE Keyring ------------------------------
(***************************************************************************)
(* CertParser (openpgp/src/cert/parser/mod.rs), the iterator that cuts a   *)
(* stream of packets into certificates, and the commands of `sq keyring`   *)
(* (sq/src/commands/keyring.rs) that are built on it.                      *)
(*                                                                         *)
(* The stream is not fixed beforehand: whenever the parser asks its source *)
(* for a packet, any packet, an error or the end may come.  `hist` records *)
(* what was in the input, and a packet is named by its position in `hist`.  *)
(***************************************************************************)
EXTENDS Integers, Sequences, FiniteSets, SequencesExt

CONSTANTS Commands,    \* who drives the parser: a library user ("collect"), the
                       \* commands filter, join, list and split ("filter") or
                       \* merge
          Fprs,        \* fingerprints of certificates, small numbers
          MaxItems,    \* bound on the length of the input
          MaxFiles     \* bound on the number of input files

ASSUME KeyringAssumption ==
    /\ Commands \subseteq {"collect", "filter", "merge"}
    /\ Fprs \subseteq Nat
    /\ MaxItems \in Nat /\ MaxFiles \in Nat

VARIABLES cmd,       \* the caller: a command, or a library user's loop
          rejects,   \* fingerprints that the filters given to the parser
                     \* ("collect") or the filter command turn down
          source,    \* CertParser::source: "pp" from a PacketParser, "iter"
                     \* from another iterator, "none" when it is dropped
          cur,       \* the packet the PacketParser is at, 0 for none
          retry,     \* retry_with_reader: look for another armored blob
          packets,   \* CertParser::packets
          queued,    \* CertParser::queued_error is set
          hist,      \* history: what was read of the input
          unread,    \* history: 1 if the input held more when the source was dropped
          out,       \* history: what next() returned
          written,   \* what the command has written
          merged,    \* the map of the merge command
          files,     \* files the command has opened
          exit       \* how the command ended

vars == <<cmd, rejects, source, cur, retry, packets, queued, hist, unread,
          out, written, merged, files, exit>>

\* What can be met in the input.  "ukey" is a packet with the tag of a primary
\* key that could not be parsed (Packet::Unknown), "body" everything else that
\* valid_packet accepts, "junk" what it refuses, which includes the packet that
\* stands for skipped garbage.
Keys == [tag : {"key"}, fpr : Fprs]
Others == [tag : {"ukey", "body", "marker", "junk"}, fpr : {-1}]
Packets == Keys \cup Others
Mark(t) == [tag |-> t, fpr |-> -1]

Full == Len(hist) >= MaxItems
Add(x) == hist' = Append(hist, x)
Tag(i) == hist[i].tag

\* Cert::valid_start and Cert::valid_packet.
valid_start(t) == t \in {"key", "ukey"}
valid_packet(t) == t # "junk"

\* Mutant: an invalid packet does not end a certificate.
FinishesNotAtJunk(t) ==
    /\ packets # <<>>
    /\ (Len(packets) = 1 /\ ~valid_start(Tag(packets[1]))) \/ valid_start(t)

\* CertParser::parse makes the buffered packets into a certificate before it
\* buffers a packet with tag t.
Finishes(t) ==
    /\ packets # <<>>
    /\ \/ Len(packets) = 1 /\ ~valid_start(Tag(packets[1]))
       \/ valid_start(t)
       \/ ~valid_packet(t)

\* CertParser::cert on the buffered packets: the low-level grammar wants a
\* primary key that could be parsed, and the filters have to want the result.
Outcome ==
    IF Tag(packets[1]) # "key" THEN "err"
    ELSE IF cmd = "collect" /\ hist[packets[1]].fpr \in rejects THEN "rejected"
    ELSE "cert"

CertOf(ps) == [res |-> "cert", of |-> ps]
Err(i) == [res |-> "err", of |-> <<i>>]
None == [res |-> "none", of |-> <<>>]

-----------------------------------------------------------------------------
(* What the caller does with what next() returns. *)

\* Writes the certificate if it is wanted (filter, join, list, split), or merges it with what the map
\* has for its fingerprint.  A certificate is named by where it starts.
Take(ps) ==
    LET f == hist[ps[1]].fpr IN
    /\ written' = IF cmd = "filter" /\ f \notin rejects
                  THEN Append(written, [fpr |-> f, of |-> {ps[1]}]) ELSE written
    /\ merged' = IF cmd = "merge" THEN [merged EXCEPT ![f] = @ \cup {ps[1]}]
                 ELSE merged

\* Mutant: malformed certificates are skipped.
ReturnSkipping(r) ==
    /\ out' = Append(out, r)
    /\ IF r.res = "cert" THEN Take(r.of) ELSE UNCHANGED <<written, merged>>
    /\ UNCHANGED <<cmd, rejects, files, exit>>

Return(r) ==
    /\ out' = Append(out, r)
    /\ CASE r.res = "cert" -> Take(r.of) /\ UNCHANGED exit
         [] r.res = "err" -> /\ exit' = IF cmd = "collect" THEN exit ELSE "failed"
                             /\ UNCHANGED <<written, merged>>
    /\ UNCHANGED <<cmd, rejects, files>>

\* The call of next() goes on with its loop.
Loop == UNCHANGED <<cmd, rejects, out, written, merged, files, exit>>

\* Ok(None) from cert() goes on with the loop too.
Deliver ==
    CASE Outcome = "cert" -> Return(CertOf(packets))
      [] Outcome = "err" -> Return(Err(packets[1]))
      [] Outcome = "rejected" -> Loop

\* CertParser::parse for packet i with tag t.
Parse(i, t) ==
    /\ source' = source /\ unread' = unread
    /\ CASE t = "marker" -> Loop /\ UNCHANGED <<packets, queued>>
         [] t # "marker" /\ Finishes(t) ->
               Deliver /\ packets' = <<i>> /\ queued' = FALSE
         [] OTHER ->
               Loop /\ packets' = Append(packets, i) /\ UNCHANGED queued

\* The source reports an error, which stands at position i of the input: the
\* source is gone, whatever else it holds, and a certificate that is buffered is
\* returned first.
SourceError(i) ==
    /\ source' = "none" /\ packets' = <<>> /\ unread' \in 0 .. 1
    /\ IF packets = <<>> THEN Return(Err(i)) /\ UNCHANGED queued
       ELSE CASE Outcome = "cert" -> Return(CertOf(packets)) /\ queued' = TRUE
              [] Outcome = "rejected" -> Return(Err(i)) /\ queued' = FALSE
              [] Outcome = "err" -> Return(Err(packets[1])) /\ queued' = FALSE

\* The source is exhausted.
SourceEnd ==
    /\ source' = "none" /\ packets' = <<>> /\ unread' = unread
    /\ IF packets = <<>> THEN Loop /\ UNCHANGED queued
       ELSE Deliver /\ queued' = FALSE

-----------------------------------------------------------------------------
(* The iterator over a PacketParser, built by From<PacketParserResult>. *)

Running(s) == exit = "none" /\ source = s
NoRetry == retry' = FALSE

\* PacketParser::next returns the packet it is at when it has found another one.
PullPacket ==
    /\ Running("pp") /\ cur # 0 /\ ~Full
    /\ \E p \in Packets : Add(p)
    /\ cur' = Len(hist) + 1 /\ NoRetry
    /\ Parse(cur, Tag(cur))

\* ... or the end of the (armored) blob ...
PullLast ==
    /\ Running("pp") /\ cur # 0
    /\ Add(Mark("blob")) /\ cur' = 0 /\ retry' = TRUE
    /\ Parse(cur, Tag(cur))

\* ... and drops it if there is an error instead, or if the content of an unknown
\* packet cannot be read.
PullError ==
    /\ Running("pp") /\ cur # 0
    /\ Add(Mark("cut")) /\ cur' = 0 /\ NoRetry
    /\ SourceError(Len(hist) + 1)

\* Another blob after the end of one.  Its first packet is no skipped garbage.
NextBlob ==
    /\ Running("pp") /\ cur = 0 /\ retry /\ ~Full
    /\ \E p \in Packets : Add(p)
    /\ cur' = Len(hist) + 1 /\ NoRetry
    /\ Loop /\ UNCHANGED <<source, packets, queued, unread>>

\* Nothing follows, or something that ends within the header of its first packet:
\* UnexpectedEof is taken for the end.
NoNextBlob ==
    /\ Running("pp") /\ cur = 0 /\ retry
    /\ Add(Mark("end")) \/ Add(Mark("torn"))
    /\ NoRetry /\ UNCHANGED cur
    /\ SourceEnd

BadNextBlob ==
    /\ Running("pp") /\ cur = 0 /\ retry
    /\ Add(Mark("err")) /\ NoRetry /\ UNCHANGED cur
    /\ SourceError(Len(hist) + 1)

\* Any other iterator over results of packets, CertParser::from_iter.
PullItem ==
    /\ Running("iter") /\ ~Full
    /\ \E p \in Packets : Add(p) /\ Parse(Len(hist) + 1, p.tag)
    /\ UNCHANGED <<cur, retry>>

PullItemError ==
    /\ Running("iter")
    /\ Add(Mark("err")) /\ SourceError(Len(hist) + 1)
    /\ UNCHANGED <<cur, retry>>

PullItemEnd ==
    /\ Running("iter")
    /\ Add(Mark("end")) /\ SourceEnd
    /\ UNCHANGED <<cur, retry>>

-----------------------------------------------------------------------------
(* The source is gone. *)

\* The error that had to wait for a certificate is the last thing in the input.
ReturnQueued ==
    /\ Running("none") /\ queued
    /\ queued' = FALSE
    /\ Return(Err(Len(hist)))
    /\ UNCHANGED <<source, cur, retry, packets, hist, unread>>

\* next() returns None.  A library user calls it once more, a command goes on with
\* its next file or ends.
AtEnd == Running("none") /\ ~queued /\ packets = <<>>

CollectEnds ==
    /\ AtEnd /\ cmd = "collect"
    /\ out' = Append(out, None)
    /\ exit' = IF out # <<>> /\ Last(out) = None THEN "ok" ELSE exit
    /\ UNCHANGED <<cmd, rejects, source, cur, retry, packets, queued, hist, unread,
                   written, merged, files>>

\* CertParser::from_file: the first packet, an empty file, or an error.
OpenFile ==
    /\ AtEnd /\ cmd # "collect" /\ files < MaxFiles /\ ~Full
    /\ files' = files + 1
    /\ \/ \E p \in Packets : /\ hist' = hist \o <<Mark("file"), p>>
                             /\ source' = "pp" /\ cur' = Len(hist) + 2
                             /\ UNCHANGED exit
       \/ /\ Add(Mark("file")) /\ UNCHANGED <<source, cur, exit>>
       \/ /\ hist' = hist \o <<Mark("file"), Mark("err")>>
          /\ exit' = "failed" /\ UNCHANGED <<source, cur>>
    /\ UNCHANGED <<cmd, rejects, retry, packets, queued, unread, out, written, merged>>

\* A finite set of numbers in their order.
Ascending(S) ==
    [k \in 1 .. Cardinality(S) |-> CHOOSE x \in S : Cardinality({y \in S : y < x}) = k - 1]

\* The merge command writes its map in the order of the fingerprints.
MergedSeq ==
    LET order == Ascending({f \in Fprs : merged[f] # {}}) IN
    [k \in DOMAIN order |-> [fpr |-> order[k], of |-> merged[order[k]]]]

CommandEnds ==
    /\ AtEnd /\ cmd # "collect" /\ files > 0
    /\ exit' = "ok"
    /\ written' = IF cmd = "merge" THEN MergedSeq ELSE written
    /\ UNCHANGED <<cmd, rejects, source, cur, retry, packets, queued, hist, unread, out,
                   merged, files>>

Init ==
    /\ cmd \in Commands
    /\ rejects \in IF cmd = "merge" THEN {{}} ELSE SUBSET Fprs
    /\ IF cmd = "collect"
       THEN \/ source = "iter" /\ hist = <<>> /\ cur = 0
            \/ source = "pp" /\ cur = 1 /\ \E p \in Packets : hist = <<p>>
            \/ source = "none" /\ hist = <<>> /\ cur = 0
       ELSE source = "none" /\ hist = <<>> /\ cur = 0
    /\ retry = FALSE /\ packets = <<>> /\ queued = FALSE /\ unread = 0
    /\ out = <<>> /\ written = <<>> /\ merged = [f \in Fprs |-> {}]
    /\ files = 0 /\ exit = "none"

\* The command is over.
Exited == exit # "none" /\ UNCHANGED vars

FromParser == PullPacket \/ PullLast \/ PullError \/ NextBlob \/ NoNextBlob
              \/ BadNextBlob
FromIter == PullItem \/ PullItemError \/ PullItemEnd
Next == FromParser \/ FromIter \/ ReturnQueued \/ CollectEnds \/ OpenFile
        \/ CommandEnds \/ Exited

Spec == Init /\ [][Next]_vars

-----------------------------------------------------------------------------
(* Properties *)

\* The reference: positions of the input, without reference to any buffer.
Positions == DOMAIN hist
Lost(i) == i + 1 \in Positions /\ Tag(i + 1) = "cut"
Breaks(i) == Tag(i) \in {"key", "ukey", "junk", "cut", "err", "end", "torn", "file"}
Belongs(s, i) ==
    /\ s < i /\ valid_start(Tag(s)) /\ Tag(i) = "body" /\ ~Lost(i)
    /\ \A j \in s+1 .. i-1 : ~Breaks(j)
Stray(i) == /\ Tag(i) \in {"body", "ukey", "junk"} /\ ~Lost(i)
            /\ ~\E s \in Positions : Belongs(s, i)
\* An error of the source right behind a stray packet or an unreadable
\* certificate: CertParser::next returns the error about that packet and drops
\* the other.
Hidden(e) == \E s \in 1 .. e-1 :
    /\ Stray(s)
    /\ \A j \in s+1 .. e-1 : Tag(j) \in {"marker", "blob"} \/ Lost(j) \/ Belongs(s, j)
Expected(i) ==
    \/ Tag(i) = "key" /\ ~Lost(i) /\ hist[i].fpr \notin rejects
    \/ Stray(i)
    \/ Tag(i) \in {"cut", "err"} /\ ~Hidden(i)
Reference ==
    LET at == Ascending({i \in Positions : Expected(i)}) IN
    [k \in DOMAIN at |->
        IF Tag(at[k]) = "key"
        THEN CertOf(Ascending({at[k]} \cup {i \in Positions : Belongs(at[k], i)}))
        ELSE Err(at[k])]

\* When next() returns None it has returned exactly the certificates that the
\* filters want of what was read, each with all packets up to the next key or
\* invalid packet and no other, and one error for each packet that belongs to
\* none, in the order of the input (CertParser::parse, cert).  None is final: not
\* even an error that was queued comes after it.  Of the errors of the source
\* exactly the Hidden ones are lost.  Input is left unread only behind such an
\* error, reported or not: the parser drops its source then, where its documentation
\* has it emit the error and go on.
MatchesInput ==
    \A k \in DOMAIN out : out[k] = None =>
        /\ \E n \in 0 .. k - 1 : /\ SubSeq(out, 1, n) = Reference
                                /\ \A j \in n + 1 .. Len(out) : out[j] = None
        /\ unread # 0 => hist # <<>> /\ Tag(Len(hist)) \in {"cut", "err"}

\* A command of `sq keyring` that succeeds has written every certificate of every
\* input that its filter wants, and merge has written each fingerprint once, in order.
\* No error was met, but a file may end within the first header of its last blob.
OkIsComplete ==
    exit = "ok" /\ cmd # "collect" =>
        /\ \A i \in Positions : Tag(i) \notin {"cut", "err", "ukey", "junk"}
        /\ UNION {written[k].of : k \in DOMAIN written}
              = {i \in Positions : Tag(i) = "key" /\ hist[i].fpr \notin rejects}
        /\ \A k \in DOMAIN written : \A i \in written[k].of : hist[i].fpr = written[k].fpr
        /\ \A j, k \in DOMAIN written : cmd = "merge" /\ j < k => written[j].fpr < written[k].fpr

=============================================================================
