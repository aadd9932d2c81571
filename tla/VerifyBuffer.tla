---------------------------- MODULE VerifyBuffer ----------------------------
(***************************************************************************)
(* The buffer with which Decryptor (and Verifier, which wraps it) holds    *)
(* back the end of a message until its signatures have been checked:       *)
(* read_helper and finish_maybe in openpgp/src/parse/stream.rs.            *)
(*                                                                         *)
(* The body of the literal data packet is a sequence of len bytes.  The    *)
(* packet parser has consumed some of them and buffers `have` more; how    *)
(* much it buffers beyond what it is asked for depends on the stack of     *)
(* BufferedReaders and is left open.  Bytes are represented by their       *)
(* position, so that order, loss and duplication are visible in the        *)
(* counters.                                                               *)
(***************************************************************************)
EXTENDS Integers

CONSTANTS BufferSize,      \* buffer_size of the builder
          MaxLen,          \* bound on the length of the body
          MaxRead,         \* bound on the caller's read buffer
          KeepReading,     \* does the caller read on after an error?
          OverflowChecks   \* was the crate built with overflow checks?

\* With a buffer of 0 bytes read_helper need not return, see the README.
ASSUME BufferAssumption ==
    /\ BufferSize \in Nat \ {0}
    /\ MaxLen \in Nat
    /\ MaxRead \in Nat \ {0}
    /\ KeepReading \in BOOLEAN
    /\ OverflowChecks \in BOOLEAN

VARIABLES len,        \* bytes in the body
          consumed,   \* bytes the packet parser has consumed
          have,       \* bytes buffered behind those
          store,      \* where the rest is: self.oppr, self.reserve or neither
          reserve,    \* self.reserve.len(), or 0
          cursor,     \* self.cursor
          verdict,    \* what the helper's check callback returned
          delivered,  \* bytes copied to the caller so far
          caller,     \* what the caller is doing
          largest     \* history: the size of the largest read so far

vars == <<len, consumed, have, store, reserve, cursor, verdict, delivered, caller, largest>>

Least(a, b) == IF a <= b THEN a ELSE b

Left == len - consumed

AfterError == IF KeepReading = TRUE THEN "reading" ELSE "gone"

\* BufferedReader::data(amount) returns everything that is buffered, h bytes,
\* and reads from its source only if that is less than amount; a short answer
\* means the end of the body (left bytes remain).
Filled(buffered, left, amount, h) ==
    IF amount <= buffered THEN h = buffered
                          ELSE h \in Least(amount, left)..left

\* The body, the buffer and the cursor stay within the bounds of the message.
TypeOK ==
    /\ len \in 0..MaxLen
    /\ consumed \in 0..len
    /\ have \in 0..len
    /\ store \in {"oppr", "reserve", "neither"}
    /\ reserve \in 0..len
    /\ cursor \in 0..len
    /\ verdict \in {"none", "good", "bad"}
    /\ delivered \in 0..len
    /\ caller \in {"building", "reading", "eof", "gone", "panicked", "overflow"}
    /\ largest \in 0..MaxRead
----------------------------------------------------------------------------
\* from_buffered_reader has found the literal data packet.
Init ==
    /\ len \in 0..MaxLen
    /\ consumed = 0
    /\ have \in 0..len
    /\ store = "oppr"
    /\ reserve = 0
    /\ cursor = 0
    /\ verdict = "none"
    /\ delivered = 0
    /\ caller = "building"
    /\ largest = 0

\* Mutant: the part already handed out is not consumed first.
StashTooMuch(c, v) ==
    /\ consumed' = len
    /\ have' = 0
    /\ store' = "reserve"
    /\ reserve' = Left
    /\ verdict' = v

\* finish_maybe at the end of the body: the rest becomes the reserve, then the
\* remaining packets are processed and the helper is asked.  v is its answer,
\* "none" if an error came before it was asked.
Stash(c, v) ==
    /\ consumed' = len
    /\ have' = 0
    /\ store' = "reserve"
    /\ reserve' = Left - c
    /\ verdict' = v

\* The call of finish_maybe that ends from_buffered_reader; no Decryptor is
\* returned when it fails.
BuildEarly ==
    /\ caller = "building"
    /\ \E h \in 0..len : Filled(have, len, BufferSize + 1, h) /\ h <= BufferSize
    /\ \E v \in {"none", "good", "bad"} :
          /\ Stash(0, v)
          /\ caller' = IF v = "good" THEN "reading" ELSE "gone"
    /\ UNCHANGED <<len, cursor, delivered, largest>>

BuildLate ==
    /\ caller = "building"
    /\ \E h \in 0..len : /\ Filled(have, len, BufferSize + 1, h)
                         /\ h > BufferSize
                         /\ have' = h
    /\ caller' = "reading"
    /\ UNCHANGED <<len, consumed, store, reserve, cursor, verdict, delivered, largest>>

BuildError ==
    /\ caller = "building"
    /\ store' = "neither"
    /\ caller' = "gone"
    /\ UNCHANGED <<len, consumed, have, reserve, cursor, verdict, delivered, largest>>
----------------------------------------------------------------------------
(***************************************************************************)
(* read_helper, for a caller's buffer of b > 0 bytes.                      *)
(***************************************************************************)
\* Mutant: the end is not reported.
DrainNoEnd(b) ==
    /\ caller = "reading" /\ store = "reserve"
    /\ LET n == Least(b, reserve - cursor)
       IN  cursor' = cursor + n /\ delivered' = delivered + n
    /\ UNCHANGED <<len, consumed, have, store, reserve, verdict, caller>>

\* The reserve is handed out; Ok(0) tells the caller that this is the end.
Drain(b) ==
    /\ caller = "reading" /\ store = "reserve"
    /\ LET n == Least(b, reserve - cursor)
       IN  /\ cursor' = cursor + n
           /\ delivered' = delivered + n
           /\ caller' = IF n = 0 THEN "eof" ELSE caller
    /\ UNCHANGED <<len, consumed, have, store, reserve, verdict>>

\* Mutant: the buffer is never consumed.
SkipNothing == 0

\* The part of the buffer that has been handed out is consumed first.
Skip == IF cursor >= BufferSize THEN BufferSize ELSE 0

\* More than BufferSize bytes are buffered behind the cursor: all but the last
\* BufferSize of them may go out.  The amount of the second call of data,
\* 2 * buffer_size - cursor, wraps when the cursor is too far on.  Without
\* overflow checks the call then asks for an absurd amount: a reader that sets
\* up a buffer of that size panics, one that does not returns everything there
\* is, and a longer answer trips assert_eq!(data.len(), data_len).
Wraps(c) == c > 2 * BufferSize
Trips(c, h) == Wraps(c) /\ (OverflowChecks = TRUE \/ h < Left - Skip)

\* Mutant: the held back part is not left out.
HandOutAll(b) ==
    /\ caller = "reading" /\ store = "oppr"
    /\ \E h \in 0..len :
          LET c == cursor - Skip
              n == Least(b, h - c)
          IN  /\ Filled(have - Skip, Left - Skip, 2 * BufferSize, h)
              /\ h - c > BufferSize /\ ~Trips(c, h)
              /\ consumed' = consumed + Skip
              /\ have' = h
              /\ cursor' = c + n
              /\ delivered' = delivered + n
    /\ UNCHANGED <<len, store, reserve, verdict, caller>>

\* Mutant: the cursor is not moved back when the buffer is consumed.
HandOutNoRewind(b) ==
    /\ caller = "reading" /\ store = "oppr"
    /\ \E h \in 0..len :
          /\ Filled(have - Skip, Left - Skip, 2 * BufferSize, h)
          /\ h > cursor + BufferSize /\ ~Trips(cursor, h)
          /\ LET n == Least(b, h - BufferSize - cursor)
             IN  /\ consumed' = consumed + Skip
                 /\ have' = h
                 /\ cursor' = cursor + n
                 /\ delivered' = delivered + n
    /\ UNCHANGED <<len, store, reserve, verdict, caller>>

HandOut(b) ==
    /\ caller = "reading" /\ store = "oppr"
    /\ \E h \in 0..len :
          LET c == cursor - Skip
              n == Least(b, h - BufferSize - c)
          IN  /\ Filled(have - Skip, Left - Skip, 2 * BufferSize, h)
              /\ h - c > BufferSize /\ ~Trips(c, h)
              /\ consumed' = consumed + Skip
              /\ have' = h
              /\ cursor' = c + n
              /\ delivered' = delivered + n
    /\ UNCHANGED <<len, store, reserve, verdict, caller>>

HandOutPanics ==
    /\ caller = "reading" /\ store = "oppr"
    /\ \E h \in 0..len :
          LET c == cursor - Skip
          IN  /\ Filled(have - Skip, Left - Skip, 2 * BufferSize, h)
              /\ h - c > BufferSize /\ Wraps(c)
    /\ store' = "neither"
    /\ caller' = "overflow"
    /\ UNCHANGED <<len, consumed, have, reserve, cursor, verdict, delivered>>

\* At most BufferSize bytes are buffered behind the cursor: finish_maybe takes
\* the rest of the body, and on success the same call drains the reserve.
Finish(b, v) ==
    /\ caller = "reading" /\ store = "oppr"
    /\ \E h \in 0..len :
          /\ Filled(have - Skip, Left - Skip, 2 * BufferSize, h)
          /\ h - (cursor - Skip) <= BufferSize
    /\ Stash(cursor, v)
    /\ LET n == IF v = "good" THEN Least(b, Left - cursor) ELSE 0
       IN  /\ cursor' = n
           /\ delivered' = delivered + n
           /\ caller' = IF v # "good" THEN AfterError
                        ELSE IF n = 0 THEN "eof" ELSE caller
    /\ UNCHANGED len

\* data or steal_eof fails: the parser result was taken out of self.oppr
\* and is gone.
ReadError ==
    /\ caller = "reading" /\ store = "oppr"
    /\ store' = "neither"
    /\ caller' = AfterError
    /\ UNCHANGED <<len, consumed, have, reserve, cursor, verdict, delivered>>

\* Neither a reserve nor a parser result: panic!("No ppr.").
NoPpr ==
    /\ caller = "reading" /\ store = "neither"
    /\ caller' = "panicked"
    /\ UNCHANGED <<len, consumed, have, store, reserve, cursor, verdict, delivered>>

Read(b) == /\ \/ Drain(b) \/ HandOut(b) \/ HandOutPanics
              \/ \E v \in {"none", "good", "bad"} : Finish(b, v)
              \/ ReadError \/ NoPpr
           /\ largest' = IF b > largest THEN b ELSE largest

\* The caller has what it wanted, or has given up.
Returned == caller \in {"eof", "gone", "panicked", "overflow"} /\ UNCHANGED vars

Next == \/ BuildEarly \/ BuildLate \/ BuildError
        \/ \E b \in 1..MaxRead : Read(b)
        \/ Returned

Spec == Init /\ [][Next]_vars

\* The caller calls read until it gets Ok(0) or an error, as read_to_end and
\* io::copy do.
FairSpec == Spec /\ WF_vars(Next)
----------------------------------------------------------------------------
(***************************************************************************)
(* Properties.                                                             *)
(***************************************************************************)
\* Every read continues where the last one stopped: the bytes handed out so far
\* are exactly those before the cursor, in the parser's buffer and then in the
\* reserve.  The cursor stays inside the buffer, so data_len - self.cursor does
\* not wrap, and the assertion on it in the reserve branch holds.
InOrder ==
    /\ store = "oppr" => /\ delivered = consumed + cursor
                         /\ cursor <= have /\ have <= Left
    /\ store = "reserve" => /\ delivered = len - reserve + cursor
                            /\ cursor <= reserve

\* While the message is not verified, and for good if it turns out to be bad,
\* the caller lacks at least the last BufferSize bytes; of a message that fits
\* the buffer it has nothing.  For a caller that stops at the first error.
HeldBack == verdict # "good" => delivered = 0 \/ delivered + BufferSize <= len

\* Ok(0) means that the message was verified and handed out completely: neither a
\* short answer of the reader nor an error is mistaken for the end.  For a
\* caller that stops at the first error.
EofIsVerified == caller = "eof" => verdict = "good" /\ delivered = len

\* Whatever the caller does, Ok(0) means that it has been given everything.
EofIsAll == caller = "eof" => delivered = len

\* 2 * buffer_size - cursor underflows, or the assertion behind it fails, only for a
\* caller that has made a read larger than buffer_size: reads up to that size keep
\* the cursor within two buffers, in any order, after errors, and however much the
\* readers below buffer.  A larger read gains on the buffer that each call consumes,
\* and then read_helper does panic, as HandOutPanics in the same run.
SmallReadsAreSafe == caller = "overflow" => largest > BufferSize

\* A caller that reads in a loop gets to the end or to an error.
Completes == <>(caller \in {"eof", "gone", "panicked", "overflow"})

Status == IF caller = "eof" THEN "ended"
          ELSE IF verdict = "good" THEN "verified"
          ELSE IF caller \in {"gone", "panicked", "overflow"} THEN "rejected"
          ELSE "streaming"

HB == INSTANCE HoldBack WITH Hold <- BufferSize, total <- len,
                             given <- delivered, status <- Status

\* The buffer implements the promise of HoldBack, however much the readers
\* below it buffer and however the caller chooses its read sizes.
Implements == HB!HBSpec
============================================================================
