---------------------------- MODULE PartialBody ----------------------------
(***************************************************************************)
(* Bodies of packets whose length is not known in advance.  The writer     *)
(* (openpgp/src/serialize/stream/partial_body.rs) cuts what it is given    *)
(* into chunks, each with its length in front.  The readers (Limitor in    *)
(* buffered-reader/src/limitor.rs, BufferedReaderPartialBodyFilter in      *)
(* openpgp/src/parse/partial_body.rs) put the chunks together again for a   *)
(* caller that may ask for any number of bytes at a time.                   *)
(*                                                                         *)
(* Bytes of the body are numbered in the order they are written.  A length  *)
(* of one to five octets is one symbol.  The calls of the readers that loop *)
(* are taken one iteration at a time.                                       *)
(***************************************************************************)
EXTENDS Integers, Sequences, SequencesExt, FiniteSetsExt

CONSTANTS Powers,      \* the powers of two: the lengths a chunk may have
          Thresholds,  \* values of buffer_threshold
          MaxChunks,   \* values of max_chunk_size
          MaxBody,     \* bound on the length of a body
          MaxAmount,   \* bound on what a caller asks for at once
          MaxCalls,    \* bound on the calls of flush, and of the reader
          BufSize      \* DEFAULT_BUF_SIZE

ASSUME PartialBodyAssumption ==
    /\ Powers \subseteq Nat \ {0} /\ 1 \in Powers
    /\ Thresholds \subseteq Powers /\ MaxChunks \subseteq Powers
    /\ MaxBody \in Nat /\ MaxAmount \in Nat /\ MaxCalls \in Nat
    /\ BufSize \in Nat \ {0}

VARIABLES
    \* The writer
    threshold, maxChunk, \* buffer_threshold and max_chunk_size
    buffer,    \* bytes that are held back
    other,     \* bytes of the current call of write_out
    body,      \* history: number of bytes written so far
    out,       \* what the inner writer got
    \* What arrives at the other end
    phase,     \* "write", "emit" in the loop of write_out, "sent", "read", "done"
    input,     \* what can be read
    fate,      \* what comes after that: "eof" or "error"
    over,      \* history: octets a call has consumed from it and not counted off `left`
    pos,       \* how much of it is consumed
    stash,     \* Generic::error is set
    hashed,    \* what the HashedReader below has hashed
    \* The reader
    kind,      \* "limitor" or "partial"
    hash_headers,
    left,      \* limit, or partial_body_length
    last,
    buf,       \* what is left in the reader's own buffer
    call,      \* the call in progress
    \* Its caller
    ready,     \* number of bytes the last call has shown
    got,       \* bytes consumed
    calls,
    ended      \* how the packet parser left the packet

writer == <<threshold, maxChunk, buffer, other, body, out>>
source == <<input, fate, over>>
inner == <<pos, stash, hashed>>
reader == <<kind, hash_headers, left, last, buf>>
caller == <<ready, got, calls, ended>>
vars == <<writer, phase, source, inner, reader, call, caller>>

Lesser(a, b) == IF a < b THEN a ELSE b
Byte(i) == [k |-> "byte", n |-> i]
FullLen(l) == [k |-> "full", n |-> l]
PartialLen(l) == [k |-> "partial", n |-> l]
Tail_ == [k |-> "next", n |-> 0]      \* an octet of the packet that follows
Bytes(from, to) == [i \in 1 .. to - from + 1 |-> Byte(from + i - 1)]

-----------------------------------------------------------------------------
(* The writer: PartialBodyFilter. *)

\* 1 << log2(x)
Power(x) == Max({p \in Powers : p <= x})

Chunks(n) == n >= threshold - Len(buffer)

Grow(n) == body + n <= MaxBody /\ body' = body + n

\* write() that can put out a chunk starts write_out.
WriteOut(n) ==
    /\ phase = "write" /\ Grow(n) /\ Chunks(n)
    /\ other' = Bytes(body + 1, body + n) /\ phase' = "emit"
    /\ UNCHANGED <<threshold, maxChunk, buffer, out, source, inner, reader, call,
                   caller>>

\* write() that cannot.
WriteBuffered(n) ==
    /\ phase = "write" /\ Grow(n) /\ ~Chunks(n)
    /\ buffer' = buffer \o Bytes(body + 1, body + n)
    /\ UNCHANGED <<threshold, maxChunk, other, out, phase, source, inner, reader,
                   call, caller>>

Flush ==
    /\ phase = "write" /\ calls < MaxCalls /\ calls' = calls + 1
    /\ other' = <<>> /\ phase' = "emit"
    /\ UNCHANGED <<threshold, maxChunk, buffer, body, out, source, inner, reader,
                   call, ready, got, ended>>

\* One iteration of the loop of write_out: a chunk, from the buffer first.
EmitChunk ==
    /\ phase = "emit" /\ Len(buffer) + Len(other) > threshold
    /\ LET size == Power(Lesser(maxChunk, Len(buffer) + Len(other)))
           l == Lesser(Len(buffer), size)
       IN /\ out' = out \o <<PartialLen(size)>> \o SubSeq(buffer, 1, l)
                        \o SubSeq(other, 1, size - l)
          /\ buffer' = SubSeq(buffer, l + 1, Len(buffer))
          /\ other' = SubSeq(other, size - l + 1, Len(other))
    /\ UNCHANGED <<threshold, maxChunk, body, phase, source, inner, reader, call,
                   caller>>

\* Its end: the rest is buffered.
EmitRest ==
    /\ phase = "emit" /\ Len(buffer) + Len(other) <= threshold
    /\ buffer' = buffer \o other /\ other' = <<>> /\ phase' = "write"
    /\ UNCHANGED <<threshold, maxChunk, body, out, source, inner, reader, call,
                   caller>>

\* Mutant: no last chunk if there is nothing to put into it.
FinalizeLazy ==
    /\ phase = "write"
    /\ out' = IF buffer = <<>> THEN out ELSE out \o <<FullLen(Len(buffer))>> \o buffer
    /\ buffer' = <<>> /\ phase' = "sent"
    /\ UNCHANGED <<threshold, maxChunk, other, body, source, inner, reader, call,
                   caller>>

\* into_inner, pop: write_out with done set.
Finalize ==
    /\ phase = "write"
    /\ out' = out \o <<FullLen(Len(buffer))>> \o buffer
    /\ buffer' = <<>> /\ phase' = "sent"
    /\ UNCHANGED <<threshold, maxChunk, other, body, source, inner, reader, call,
                   caller>>

-----------------------------------------------------------------------------
(* The reader below: Generic, with what it reads from.  A call either fails
   or shows n symbols; an error that comes after some data is kept for the
   next call. *)

Rem == Len(input) - pos
Res(ok, n, s) == [ok |-> ok, n |-> n, stash |-> s]

Inner(amount, hard) ==
    IF stash THEN {Res(FALSE, 0, FALSE)}
    ELSE IF amount > Rem THEN
        IF hard \/ (fate = "error" /\ Rem = 0) THEN {Res(FALSE, 0, FALSE)}
        ELSE {Res(TRUE, Rem, fate = "error")}
    ELSE IF amount = 0 THEN {Res(TRUE, 0, FALSE)}
    ELSE {Res(TRUE, n, FALSE) : n \in {amount, Rem}}

\* n symbols are consumed from it, and hashed on the way.
Took(n, s) == /\ pos' = pos + n /\ stash' = s
              /\ hashed' = hashed \o SubSeq(input, pos + 1, pos + n)

\* PacketParser::parse: the length of the packet decides on the reader.
OpenBody ==
    /\ phase = "sent"
    /\ \E cut \in 0 .. Len(out) :
        input' = IF cut = Len(out) THEN out \o <<Tail_, Tail_>>
                 ELSE SubSeq(out, 1, cut)
    /\ fate' \in {"eof", "error"} /\ hash_headers' \in BOOLEAN
    /\ IF input' = <<>>
       THEN /\ phase' = "done" /\ ended' = "err"
            /\ UNCHANGED <<pos, kind, left, call>>
       ELSE /\ phase' = "read" /\ pos' = 1
            /\ kind' = IF input'[1].k = "full" THEN "limitor" ELSE "partial"
            /\ left' = input'[1].n
            /\ UNCHANGED <<ended, call>>
    /\ calls' = 0
    /\ UNCHANGED <<writer, over, stash, hashed, last, buf, ready, got>>

-----------------------------------------------------------------------------
(* Calls.  "drop" is an iteration of drop_eof and "eof" the call of eof() when
   the packet parser leaves the packet (buffered_reader_stack_pop). *)

NoCall == [op |-> "none", amount |-> 0, stage |-> "none", fill |-> <<>>]
Call(op, amount) == [op |-> op, amount |-> amount, stage |-> "start", fill |-> <<>>]
Hard == call.op \in {"data_hard", "data_consume_hard", "eof"}
Consume == call.op \in {"data_consume", "data_consume_hard"}

\* A call of the reader's caller.
Ask(op, amount) ==
    /\ phase = "read" /\ call = NoCall /\ calls < MaxCalls
    /\ call' = Call(op, amount) /\ calls' = calls + 1
    /\ UNCHANGED <<writer, phase, source, inner, reader, ready, got, ended>>

\* Consumes n bytes of what the last call has shown.
Used(n) == IF buf # <<>>
           THEN /\ buf' = SubSeq(buf, n + 1, Len(buf))
                /\ got' = got \o SubSeq(buf, 1, n)
                /\ UNCHANGED <<inner, left>>
           ELSE /\ got' = got \o SubSeq(input, pos + 1, pos + n)
                /\ left' = left - n /\ Took(n, stash)
                /\ UNCHANGED buf

consume(n) ==
    /\ phase = "read" /\ call = NoCall /\ n \in 1 .. ready
    /\ Used(n)
    /\ ready' = ready - n
    /\ UNCHANGED <<writer, phase, source, kind, hash_headers, last, call, calls,
                   ended>>

\* PacketParser::finish and next.
Finish ==
    /\ phase = "read" /\ call = NoCall
    /\ call' = Call("drop", BufSize) /\ ready' = 0
    /\ UNCHANGED <<writer, phase, source, inner, reader, got, calls, ended>>

consummated == left = 0 /\ (kind = "partial" => last)

\* Mutant: the end of the stream is the end of the packet.
LeaveUnchecked(eof) ==
    /\ phase' = "done" /\ call' = NoCall
    /\ ended' = "ok"

\* What the packet parser does when it leaves the packet.
Leave(eof) ==
    /\ phase' = "done" /\ call' = NoCall
    /\ ended' = IF ~eof THEN "leftover"
                ELSE IF consummated THEN "ok" ELSE "err"

\* The call fails.
Fails ==
    /\ ready' = 0 /\ UNCHANGED <<got, calls>>
    /\ CASE call.op = "eof" -> Leave(TRUE)
         [] call.op = "drop" -> /\ ended' = "err" /\ phase' = "done" /\ call' = NoCall
         [] OTHER -> call' = NoCall /\ UNCHANGED <<ended, phase>>

\* The call shows the bytes `seen` without consuming anything.
Shows(seen) ==
    /\ ready' = Len(seen) /\ UNCHANGED <<got, calls>>
    /\ CASE call.op = "eof" -> Leave(FALSE)
         [] call.op = "drop" -> UNCHANGED <<ended, phase>> /\
              call' = [NoCall EXCEPT !.op = "dropped"]
         [] OTHER -> call' = NoCall /\ UNCHANGED <<ended, phase>>

\* The call returns the bytes `seen` and has consumed those it was asked for.
Returns(seen) ==
    /\ got' = got \o SubSeq(seen, 1, Lesser(call.amount, Len(seen)))
    /\ ready' = 0 /\ call' = NoCall /\ UNCHANGED <<calls, ended, phase>>

\* drop_eof consumes what it was shown and goes on until it is too little.
Dropped ==
    /\ call.op = "dropped"
    /\ Used(ready) /\ ready' = 0
    /\ call' = IF ready < BufSize THEN Call("eof", 1) ELSE Call("drop", BufSize)
    /\ UNCHANGED <<writer, phase, source, kind, hash_headers, last, calls, ended>>

\* Calls that go to the reader below.  It consumes n symbols; what it shows is cut to
\* the m bytes that belong to the chunk, and only of those `counted` are noted.
PassOn(amount) ==
    \E r \in Inner(amount, call.op = "data_consume_hard") :
        LET n == IF r.ok /\ Consume THEN Lesser(amount, r.n) ELSE 0
            m == Lesser(r.n, left)
            seen == SubSeq(input, pos + 1, pos + m)
            fails == ~r.ok \/ (Hard /\ m < call.amount)
            counted == IF Consume /\ ~fails THEN Lesser(call.amount, m) ELSE 0
        IN /\ Took(n, r.stash)
           /\ left' = left - counted /\ over' = over + (n - counted)
           /\ IF fails THEN Fails ELSE IF Consume THEN Returns(seen) ELSE Shows(seen)

Starts(k) == phase = "read" /\ call.stage = "start" /\ kind = k

\* The Limitor does not ask for more than its limit.
LimitorCall ==
    /\ Starts("limitor")
    /\ IF call.op = "data_consume_hard" /\ call.amount > left
       THEN Fails /\ UNCHANGED <<inner, left, over>>
       ELSE PassOn(Lesser(call.amount, left))
    /\ UNCHANGED <<writer, input, fate, kind, hash_headers, last, buf>>

\* data_helper of the partial body filter, with nothing buffered: a call that does not
\* cross the end of the chunk, and in the last chunk any call, is passed on as it is.
DirectCall ==
    /\ Starts("partial") /\ buf = <<>> /\ (call.amount <= left \/ last)
    /\ PassOn(call.amount)
    /\ UNCHANGED <<writer, input, fate, kind, hash_headers, last, buf>>

\* Mutant: what is left in the buffer is forgotten.
FillStartFresh ==
    /\ Starts("partial")
    /\ IF buf = <<>> THEN call.amount > left /\ ~last ELSE call.amount > Len(buf)
    /\ call' = [call EXCEPT !.stage = IF last /\ left = 0 THEN "return" ELSE "read",
                            !.fill = <<>>]
    /\ UNCHANGED <<writer, phase, source, inner, reader, caller>>

\* do_fill_buffer starts with what is left in the buffer.
FillStart ==
    /\ Starts("partial")
    /\ IF buf = <<>> THEN call.amount > left /\ ~last ELSE call.amount > Len(buf)
    /\ call' = [call EXCEPT !.stage = IF last /\ left = 0 THEN "return" ELSE "read",
                            !.fill = buf]
    /\ UNCHANGED <<writer, phase, source, inner, reader, caller>>

\* The call is served from the buffer.
Buffered ==
    /\ Starts("partial") /\ buf # <<>> /\ call.amount <= Len(buf)
    /\ call' = [call EXCEPT !.stage = "return", !.fill = buf]
    /\ UNCHANGED <<writer, phase, source, inner, reader, caller>>

Filling(stage) == phase = "read" /\ call.stage = stage
Enough == Len(call.fill) = call.amount \/ last
ToRead == Lesser(left, call.amount - Len(call.fill))

\* One iteration of do_fill_buffer up to the end of the chunk.
FillRead ==
    /\ Filling("read")
    /\ \E r \in Inner(ToRead, FALSE) :
        LET did == Lesser(ToRead, r.n)
            fill == call.fill \o SubSeq(input, pos + 1, pos + did)
            done == did < ToRead \/ last \/ Len(fill) = call.amount
        IN IF ToRead = 0
           THEN call' = [call EXCEPT !.stage = IF Enough THEN "return" ELSE "header"]
                /\ UNCHANGED <<inner, left>>
           ELSE /\ Took(did, r.stash) /\ left' = left - did
                /\ call' = [call EXCEPT !.stage = IF ~r.ok THEN "fail"
                                                  ELSE IF done THEN "return"
                                                  ELSE "header",
                                        !.fill = fill]
    /\ UNCHANGED <<writer, phase, source, kind, hash_headers, last, buf, caller>>

\* Mutant: a length that was read with hashing turned on.
HeaderHashed(x) == hashed' = Append(hashed, x)

\* Hashing is turned off for the length, unless headers are to be hashed.
Header(x) == hashed' = IF hash_headers THEN Append(hashed, x) ELSE hashed

\* ... and the length of the next chunk.
FillHeader ==
    /\ Filling("header")
    /\ \E r \in Inner(1, TRUE) :
        /\ stash' = r.stash
        /\ IF r.ok
           THEN LET x == input[pos + 1] IN
                /\ pos' = pos + 1 /\ Header(x)
                /\ left' = x.n /\ last' = (x.k = "full")
                /\ call' = [call EXCEPT !.stage = "read"]
           ELSE /\ call' = [call EXCEPT !.stage = "fail"]
                /\ UNCHANGED <<pos, hashed, left, last>>
    /\ UNCHANGED <<writer, phase, source, kind, hash_headers, buf, caller>>

\* The new buffer replaces the old one, and the call fails or returns.
FillEnds ==
    /\ Filling("return") \/ Filling("fail")
    /\ LET seen == call.fill IN
       IF call.stage = "fail" \/ (Hard /\ Len(seen) < call.amount)
       THEN buf' = seen /\ Fails
       ELSE IF Consume
       THEN /\ buf' = SubSeq(seen, Lesser(call.amount, Len(seen)) + 1, Len(seen))
            /\ Returns(seen)
       ELSE buf' = seen /\ Shows(seen)
    /\ UNCHANGED <<writer, source, inner, kind, hash_headers, left, last>>

-----------------------------------------------------------------------------
Init ==
    /\ threshold \in Thresholds /\ maxChunk \in MaxChunks
    /\ buffer = <<>> /\ other = <<>> /\ body = 0 /\ out = <<>> /\ phase = "write"
    /\ input = <<>> /\ fate = "eof" /\ over = 0 /\ pos = 0 /\ stash = FALSE /\ hashed = <<>>
    /\ kind = "limitor" /\ hash_headers = FALSE /\ left = 0 /\ last = FALSE
    /\ buf = <<>> /\ call = NoCall
    /\ ready = 0 /\ got = <<>> /\ calls = 0 /\ ended = "none"

\* The packet was left.
Done == phase = "done" /\ UNCHANGED vars

Write == \E n \in 1 .. MaxBody : WriteOut(n) \/ WriteBuffered(n)
Ops == {"data", "data_hard", "data_consume", "data_consume_hard"}
Reads == \E n \in 0 .. MaxAmount : (\E op \in Ops : Ask(op, n)) \/ consume(n)
Steps == LimitorCall \/ DirectCall \/ FillStart \/ Buffered \/ FillRead \/ FillHeader
         \/ FillEnds \/ Dropped
Next == Write \/ Flush \/ EmitChunk \/ EmitRest \/ Finalize \/ OpenBody \/ Reads
        \/ Finish \/ Steps \/ Done

Spec == Init /\ [][Next]_vars

-----------------------------------------------------------------------------
(* Properties *)

Complete == Len(input) = Len(out) + 2

\* Whatever a caller asks for, and however its calls straddle the chunks, it gets
\* the bytes of the body in the order they were written, no lengths and never more
\* of them than the body has.  That holds until octets of the next packet are
\* consumed, although partial_body.rs calls itself an implicit limitor, and they are
\* consumed in one case only: a consuming call, in the last of several chunks and
\* with nothing buffered, asks for more than is left (data_helper).
InOrder ==
    /\ Len(got) <= body
    /\ over = 0 => got = Bytes(1, Len(got))
    /\ over > 0 <=> pos > Len(out)
    /\ over > 0 => kind = "partial" /\ last /\ buf = <<>>

\* If the packet parser leaves a packet without error (buffered_reader_stack_pop,
\* consummated), the body had arrived complete, as many bytes as it has were
\* delivered, and what follows is read from exactly as many octets behind its
\* beginning as overrunning calls have consumed of it: from its beginning if there
\* was none.
EndIsComplete ==
    ended = "ok" => Complete /\ Len(got) = body /\ pos = Len(out) + over

\* A body that arrived complete is not taken for a truncated one, unless a
\* data_consume_hard consumed past its end and then failed: bytes of the body are
\* then gone that the reader still counts as left.
IntactIsAccepted ==
    ended \in {"err", "leftover"} => ~Complete \/ fate = "error" \/ (over > 0 /\ left > 0)

\* What has been hashed of a literal data packet is exactly its body, without the
\* lengths of its chunks (do_fill_buffer and hash_headers), as long as no call
\* consumed octets of the next packet.  PacketParser, through which a literal is
\* read, asks for no more than is there.
HashIsOfBody ==
    ended = "ok" /\ ~hash_headers /\ over = 0 => hashed = Bytes(1, body)

=============================================================================
