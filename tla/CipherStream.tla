---------------------------- MODULE CipherStream ----------------------------
(***************************************************************************)
(* Encrypted streams.  The Encryptors of openpgp/src/crypto/symmetric.rs   *)
(* (mode "cfb") and openpgp/src/crypto/aead.rs (mode "aead") gather what    *)
(* is written to them in blocks or chunks; the Decryptors take the stream   *)
(* apart again for readers that ask for any number of bytes.                *)
(*                                                                         *)
(* A chunk of an AEAD stream is followed by its tag and the last one by a   *)
(* final tag; neither says where it starts, so that the Decryptor has to    *)
(* tell them apart by what is left.  A CFB stream has no framing, but only  *)
(* the last call of the cipher may be for less than whole blocks.           *)
(*                                                                         *)
(* Bytes of the text are numbered.  A byte on the wire is a record of what  *)
(* it is (k), the index or the offset it was made for (i), what it covers   *)
(* (of) and which byte of a tag it is (j): tags are equal only if they were *)
(* made for the same index and the same content.                            *)
(***************************************************************************)
EXTENDS Integers, Sequences, SequencesExt

CONSTANTS Modes,      \* subset of {"cfb", "aead"}
          Unit,       \* block_size or chunk_size
          TagSize,    \* digest_size
          MaxText,    \* bound on the length of the text
          MaxPiece    \* bound on what is written or read at once

ASSUME CipherAssumption ==
    /\ Modes \subseteq {"cfb", "aead"} /\ Unit \in Nat \ {0} /\ TagSize \in Nat \ {0}
    /\ MaxText \in Nat /\ MaxPiece \in Nat

VARIABLES mode,
          phase,    \* "write", "dropped", "sent", "try", "read", "over"
          written,  \* number of bytes in writes that returned Ok
          lost,     \* a write or finish returned an error
          enc,      \* the Encryptor and what the writer below it got
          intact,   \* what arrives is what was sent, and all of it
          dec,      \* the Decryptor and the reader below it
          got,      \* the bytes the reader was given
          end       \* how reading ended

vars == <<mode, phase, written, lost, enc, intact, dec, got, end>>

Lesser(a, b) == IF a < b THEN a ELSE b
Take(s, n) == SubSeq(s, 1, n)
Drop(s, n) == SubSeq(s, n + 1, Len(s))
Numbers(from, n) == [x \in 1 .. n |-> from + x - 1] \o <<>>

Data(i, text) == [x \in 1 .. Len(text) |-> [k |-> "data", i |-> i, of |-> <<text[x]>>, j |-> 0]] \o <<>>
TagOf(kind, i, of) == [x \in 1 .. TagSize |-> [k |-> kind, i |-> i, of |-> of, j |-> x]] \o <<>>

-----------------------------------------------------------------------------
(* The Encryptors. *)

Fresh == [buf |-> <<>>, index |-> 0, bytes |-> 0, wire |-> <<>>, takes |-> 0, err |-> FALSE]

\* write_all on a writer that takes some more bytes and then fails.
Put(e, s) ==
    IF e.err THEN e
    ELSE [e EXCEPT !.wire = @ \o Take(s, Lesser(Len(s), e.takes)), !.takes = @ - Lesser(Len(s), e.takes),
                   !.err = Len(s) > e.takes]

\* A chunk is encrypted and written with its tag.  The counters are advanced before
\* it is known whether it can be written.
Chunk(e, text) ==
    IF e.err THEN e
    ELSE Put(Put([e EXCEPT !.index = @ + 1, !.bytes = @ + Len(text)], Data(e.index, text)),
             TagOf("tag", e.index, text))

\* Whole blocks are encrypted in one call.  A call that does not start on a block
\* boundary would go out of step.
Blocks(e, text) ==
    IF e.err THEN e
    ELSE Put([e EXCEPT !.bytes = @ + Len(text)], Data(e.bytes % Unit, text))

\* Whole blocks or chunks; there are no more of them than MaxPiece.
Encrypted(e, text) ==
    LET Upto[n \in 0 .. MaxPiece] ==
            IF n = 0 \/ n * Unit > Len(text) THEN e
            ELSE Chunk(Upto[n - 1], SubSeq(text, (n - 1) * Unit + 1, n * Unit))
    IN IF mode = "cfb" THEN (IF text = <<>> THEN e ELSE Blocks(e, text))
       ELSE Upto[Len(text) \div Unit]

Full(buf) == Len(buf) = Unit

\* Encryptor::write_helper, Encryptor::write
EncryptorWrite(e, text) ==
    LET n == IF e.buf = <<>> THEN 0 ELSE Lesser(Len(text), Unit - Len(e.buf))
        filled == e.buf \o Take(text, n)
        first == IF Full(filled) THEN Encrypted([e EXCEPT !.buf = <<>>], filled)
                 ELSE [e EXCEPT !.buf = filled]
        rest == Drop(text, n)
        whole == (Len(rest) \div Unit) * Unit
        second == Encrypted(first, Take(rest, whole))
    IN IF second.err THEN second ELSE [second EXCEPT !.buf = @ \o Drop(rest, whole)]

\* Encryptor::finish
EncryptorFinish(e) ==
    LET last == IF e.buf = <<>> THEN e
                ELSE IF mode = "cfb" THEN Blocks([e EXCEPT !.buf = <<>>], e.buf)
                ELSE Chunk([e EXCEPT !.buf = <<>>], e.buf)
    IN IF mode = "cfb" THEN last ELSE Put(last, TagOf("final", last.index, <<last.bytes>>))

\* Bytes a writer takes before it fails; the last one is more than is ever written.
Plenty == 2 * MaxText + (MaxText + 2) * TagSize
Limits == 0 .. Unit + TagSize \cup {Plenty}
Ready(takes) == [enc EXCEPT !.takes = takes, !.err = FALSE]
Done(e) == [e EXCEPT !.takes = 0, !.err = FALSE]

Write(n, takes) ==
    /\ phase = "write" /\ written + n <= MaxText
    /\ LET e == EncryptorWrite(Ready(takes), Numbers(written + 1, n)) IN
       /\ enc' = Done(e) /\ lost' = e.err
       /\ phase' = IF e.err THEN "dropped" ELSE phase
       /\ written' = IF e.err THEN written ELSE written + n
    /\ UNCHANGED <<mode, intact, dec, got, end>>

\* finish, or the destructor, which calls it as well, whatever happened before.
Finish(takes) ==
    /\ phase \in {"write", "dropped"} /\ phase' = "sent"
    /\ LET e == EncryptorFinish(Ready(takes)) IN
       enc' = Done(e) /\ lost' = (lost \/ e.err)
    /\ UNCHANGED <<mode, written, intact, dec, got, end>>

-----------------------------------------------------------------------------
(* On the way a part may be lost, repeated or exchanged with the part behind it;
   of a CFB stream, which does not notice, the end may be lost.  The reader below
   the Decryptor comes to the end, or to an error. *)

Arrivals(w) ==
    IF mode = "cfb" THEN {Take(w, n) : n \in 0 .. Len(w)}
    ELSE LET spans == {<<a, b>> \in (0 .. Len(w)) \X (0 .. Len(w)) : a <= b} IN
         {Take(w, s[1]) \o Drop(w, s[2]) : s \in spans}
           \cup {Take(w, s[2]) \o Drop(w, s[1]) : s \in spans}
           \cup {Take(w, s[1]) \o SubSeq(w, s[2] + 1, 2 * s[2] - s[1]) \o SubSeq(w, s[1] + 1, s[2])
                   \o Drop(w, 2 * s[2] - s[1]) : s \in {t \in spans : 2 * t[2] - t[1] <= Len(w)}}

Opened(src, fate) ==
    [src |-> src, fate |-> fate, pos |-> 0, stash |-> FALSE, buf |-> <<>>, index |-> 0, bytes |-> 0]

Arrive ==
    /\ phase = "sent" /\ phase' = (IF mode = "aead" THEN "try" ELSE "read")
    /\ \E src \in Arrivals(enc.wire), fate \in {"eof", "error"} :
          /\ dec' = Opened(src, fate)
          /\ intact' = (src = enc.wire /\ fate = "eof" /\ ~lost)
    /\ enc' = Fresh
    /\ UNCHANGED <<mode, written, lost, got, end>>

-----------------------------------------------------------------------------
(* The Decryptors. *)

Left(d) == Len(d.src) - d.pos

\* BufferedReader::data(amount) of the reader below: an error behind some data is
\* kept for the next call.
Asked(d, amount) ==
    LET short == Left(d) < amount /\ d.fate = "error" IN
    [ok |-> ~d.stash /\ ~(short /\ Left(d) = 0),
     d |-> [d EXCEPT !.stash = ~d.stash /\ short /\ Left(d) > 0]]

Failed(r, d) == [r EXCEPT !.d = d, !.out = <<>>, !.res = "err"]

\* Mutant: room for the final tag is not left.
ToReadNaive == Unit + TagSize

\* A chunk with its tag, and another tag in case it is the last.
ToRead == Unit + 2 * TagSize

\* Mutant: the index is not part of what is authenticated.
AuthenticAnywhere(i, chunk) ==
    LET m == Len(chunk) - TagSize IN
    /\ \A x \in 1 .. m : chunk[x].k = "data" /\ chunk[x].i = chunk[m + 1].i
    /\ Drop(chunk, m) = TagOf("tag", chunk[m + 1].i, [x \in 1 .. m |-> chunk[x].of[1]] \o <<>>)

\* The tag at the end of the chunk is the one for this index and content.
Authentic(i, chunk) ==
    LET m == Len(chunk) - TagSize IN
    /\ \A x \in 1 .. m : chunk[x].k = "data" /\ chunk[x].i = i
    /\ Drop(chunk, m) = TagOf("tag", i, [x \in 1 .. m |-> chunk[x].of[1]] \o <<>>)

\* Mutant: the length of the message is not part of what is authenticated.
FinalAny(d) == Take(Drop(d.src, d.pos), 1)[1].k = "final"
Final(d) == Take(Drop(d.src, d.pos), TagSize) = TagOf("final", d.index, <<d.bytes>>)

\* One iteration of aead::Decryptor::read_helper, for a buffer with room for k bytes.
\* A chunk that does not fit is decrypted into the Decryptor's own buffer.
Iterate(r, k) ==
    LET d == Asked(r.d, ToRead).d
        len == Lesser(Left(d), ToRead) - TagSize
        chunk == Take(Drop(d.src, d.pos), len)
        text == [x \in 1 .. len - TagSize |-> IF chunk[x].k = "data" THEN chunk[x].of[1] ELSE 0] \o <<>>
        n == Lesser(Len(text), k - Len(r.out))
        buf == Drop(text, n)
        next == [r EXCEPT !.out = @ \o Take(text, n),
                          !.d = IF len = 0 THEN d
                                ELSE [d EXCEPT !.pos = @ + len, !.index = @ + 1,
                                               !.bytes = @ + Len(text), !.buf = buf]]
    IN IF r.res # "go" THEN r
       ELSE IF ~Asked(r.d, ToRead).ok THEN Failed(r, d)
       ELSE IF Left(d) = 0 THEN [r EXCEPT !.d = d, !.res = "ok"]
       ELSE IF Left(d) < TagSize \/ len \in 1 .. TagSize THEN Failed(r, d)
       ELSE IF len > 0 /\ ~Authentic(d.index, chunk)
       THEN Failed(r, [d EXCEPT !.buf = IF buf = <<>> THEN @ ELSE text])
       ELSE IF Left(d) >= ToRead THEN next
       ELSE IF ~Asked(next.d, TagSize).ok \/ ~Final(next.d)
       THEN Failed(next, Asked(next.d, TagSize).d)
       ELSE [next EXCEPT !.d = [@ EXCEPT !.pos = @ + TagSize], !.res = "ok"]

NChunks(n) == (n + Unit - 1) \div Unit

\* aead::Decryptor::read_helper: what is buffered, then chunk by chunk.
AeadRead(d, k) ==
    LET n == Lesser(Len(d.buf), k)
        start == [d |-> [d EXCEPT !.buf = Drop(@, n)], out |-> Take(d.buf, n), res |-> "go"]
        After[m \in 0 .. MaxPiece + Unit] == IF m = 0 THEN start ELSE Iterate(After[m - 1], k)
    IN IF n > 0 /\ n = k THEN start ELSE After[NChunks(k - n)]

\* Mode::decrypt of CFB: out of step if it does not start on a block boundary.
Decrypted(d, n) == [x \in 1 .. n |-> IF d.bytes % Unit = 0 /\ d.src[d.pos + x].i = 0
                                     THEN d.src[d.pos + x].of[1] ELSE 0] \o <<>>
Consumed(d, n) == [d EXCEPT !.pos = @ + n, !.bytes = @ + n]

\* An error after some bytes is left to the next call.
Stopped(d, out) == [d |-> d, out |-> out, res |-> IF out = <<>> THEN "err" ELSE "ok"]

\* Mutant: the rest of the block is dropped.
CfbPartialForgets(d, out, k) ==
    LET m == Lesser(Left(d), Unit) n == Lesser(m, k - Len(out)) IN
    [d |-> Consumed(d, m), out |-> out \o Take(Decrypted(d, m), n), res |-> "ok"]

\* symmetric::Decryptor::read, step 3: a block of which only a part fits.
CfbPartial(d, out, k) ==
    LET m == Lesser(Left(d), Unit) n == Lesser(m, k - Len(out)) IN
    [d |-> [Consumed(d, m) EXCEPT !.buf = Drop(Decrypted(d, m), n)],
     out |-> out \o Take(Decrypted(d, m), n), res |-> "ok"]

\* symmetric::Decryptor::read
CfbRead(d0, k) ==
    LET n == Lesser(Len(d0.buf), k)
        out == Take(d0.buf, n)
        d == [d0 EXCEPT !.buf = Drop(@, n)]
        whole == ((k - n) \div Unit) * Unit
        a == Asked(d, whole)
        m == Lesser(Left(d), whole)
        e == Consumed(a.d, m)
        b == Asked(e, Unit)
        blocks == out \o Decrypted(d, m)
    IN IF n = k THEN [d |-> d, out |-> out, res |-> "ok"]
       ELSE IF ~a.ok THEN Stopped(a.d, out)
       ELSE IF m < whole \/ Len(blocks) = k THEN [d |-> e, out |-> blocks, res |-> "ok"]
       ELSE IF ~b.ok THEN Stopped(b.d, blocks)
       ELSE CfbPartial(b.d, blocks, k)

\* PacketParser::decrypt tries the session key on the first chunk, in a Decryptor
\* of its own that sees a bit more than that.
TryKey ==
    /\ phase = "try"
    /\ LET a == Asked(dec, ToRead)
           once == AeadRead(Opened(Take(dec.src, Lesser(Len(dec.src), ToRead)), "eof"), Unit)
           again == AeadRead(once.d, Unit - Len(once.out))
           good == a.ok /\ once.res # "err" /\ (once.out = <<>> \/ Len(once.out) = Unit \/ again.res # "err")
       IN /\ dec' = a.d
          /\ phase' = IF good THEN "read" ELSE "over"
          /\ end' = IF good THEN end ELSE "error"
    /\ UNCHANGED <<mode, written, lost, enc, intact, got>>

\* A reader asks for k bytes, until it is given none or an error.
Read(k) ==
    /\ phase = "read"
    /\ LET r == IF mode = "aead" THEN AeadRead(dec, k) ELSE CfbRead(dec, k) IN
       /\ dec' = r.d /\ got' = got \o r.out
       /\ end' = IF r.res = "err" THEN "error" ELSE IF r.out = <<>> THEN "eof" ELSE end
       /\ phase' = IF r.res = "err" \/ r.out = <<>> THEN "over" ELSE phase
    /\ UNCHANGED <<mode, written, lost, enc, intact>>

Over == phase = "over" /\ UNCHANGED vars

Init ==
    /\ mode \in Modes /\ phase = "write" /\ written = 0 /\ lost = FALSE
    /\ enc = Fresh /\ intact = FALSE /\ dec = Opened(<<>>, "eof") /\ got = <<>>
    /\ end = "none"

Next == \/ \E n \in 1 .. MaxPiece, takes \in Limits : Write(n, takes)
        \/ \E takes \in Limits : Finish(takes)
        \/ Arrive \/ TryKey \/ (\E k \in 1 .. MaxPiece : Read(k)) \/ Over

Spec == Init /\ [][Next]_vars

-----------------------------------------------------------------------------
(* Properties *)

\* The reader is given the bytes of the text in their order and without a gap,
\* whatever was lost, repeated or exchanged on the way, and however its requests lie
\* across blocks and chunks.
InOrder == got = Numbers(1, Len(got)) /\ Len(got) <= MaxText

\* The end of an AEAD stream is reported only after everything the sender has
\* written: not if a writer failed and the destructor put a final tag behind what
\* was left, nor if the stream breaks off between chunks or tags.  Only a stream of
\* which nothing has arrived is taken for an empty text.
EndIsAll ==
    mode = "aead" /\ end = "eof" /\ dec.src # <<>> => ~lost /\ Len(got) = written

\* What arrives as it was sent is accepted, wherever the last chunk ends: neither
\* tag is taken for data, nor data for a tag.
IntactIsAccepted == intact => end # "error" /\ (end = "eof" => Len(got) = written)

=============================================================================
