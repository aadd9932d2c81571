---------------------------- MODULE TextSignature ----------------------------
(***************************************************************************)
(* The Cleartext Signature Framework.  A text is written in pieces, hashed *)
(* by the signer on its way through a stack of filters, carried to the     *)
(* recipient, read in pieces of another size and hashed again.  The two    *)
(* digests have to agree, wherever the pieces are cut.                     *)
(*                                                                         *)
(* The stack is TrailingWSFilter, Signer, DashEscapeFilter (openpgp/src/   *)
(* serialize/stream.rs and stream/); the recipient undoes it in            *)
(* armor::Reader and Cookie::hash_update_csf.                              *)
(*                                                                         *)
(* A character is "x", "-", a blank, a carriage return "r", a newline "n",  *)
(* or "S" for a run of dashes with BEGIN PGP SIGNATURE, which would end the *)
(* text.  A digest is the sequence of what was hashed.                      *)
(***************************************************************************)
EXTENDS Integers, Sequences, SequencesExt

CONSTANTS MaxText,    \* bound on the length of the text
          MaxPiece    \* bound on the length of a piece that is written or read

ASSUME TextAssumption == MaxText \in Nat /\ MaxPiece \in Nat \ {0}

VARIABLES phase,     \* "write", "trim" in TrailingWSFilter::write_out, "carry",
                     \* "read", "done"
          closing,   \* the message is being finalized
          text,      \* the text that is written
          at,        \* how much of it has been written
          trim,      \* TrailingWSFilter::buffer
          sign,      \* the Signer and what is below it
          body,      \* the body of the literal data packet that is read
          verify     \* Cookie: what is hashed and hash_stash

vars == <<phase, closing, text, at, trim, sign, body, verify>>

Chars == {"x", "-", " ", "r", "n", "S"}
Texts == SeqOf(Chars, MaxText)

Ends(t, end) == Len(end) <= Len(t) /\ SubSeq(t, Len(t) - Len(end) + 1, Len(t)) = end
Drop(t, k) == SubSeq(t, k + 1, Len(t))
Take(t, k) == SubSeq(t, 1, k)

\* The characters at the positions that are wanted.
Pick(t, Wanted(_)) == LET is == SelectSeq([i \in 1 .. Len(t) |-> i], Wanted)
                      IN [k \in 1 .. Len(is) |-> t[is[k]]] \o <<>>

\* A line with its newline, and the lines of a text that has only whole ones.
HasLine(t) == \E i \in DOMAIN t : t[i] = "n"
FirstLine(t) == Take(t, CHOOSE i \in DOMAIN t :
                            t[i] = "n" /\ \A j \in 1 .. i - 1 : t[j] # "n")
StartsLine(t, i) == i = 1 \/ t[i - 1] = "n"

\* Without blanks at its end.
Trimmed(l) == Take(l, CHOOSE i \in 0 .. Len(l) :
                          /\ i > 0 => l[i] # " "
                          /\ \A j \in i + 1 .. Len(l) : l[j] = " ")

\* hash_update_text: line endings of any kind are hashed as one.
hash_update_text(t) ==
    LET once == Pick(t, LAMBDA i : ~(t[i] = "n" /\ i > 1 /\ t[i - 1] = "r"))
    IN [k \in 1 .. Len(once) |-> IF once[k] \in {"r", "n"} THEN "crlf" ELSE once[k]] \o <<>>

-----------------------------------------------------------------------------
(* The signer. *)

\* The line that `other` completes needs escaping.
Escapes(buffer, other) == (buffer \o other)[1] \in {"-", "S"}

\* DashEscapeFilter::write_out for a piece that is part of a line or ends it, which
\* is all TrailingWSFilter writes.
Escape(s, other) ==
    IF ~HasLine(other) THEN [s EXCEPT !.dash = @ \o other]
    ELSE [s EXCEPT !.dash = <<>>,
                   !.sent = @ \o (IF Escapes(s.dash, other) THEN <<"-", " ">> ELSE <<>>)
                              \o s.dash \o other]

\* How much of what is written may be the final newline, which is not signed.
Delayed(data) == IF Ends(data, <<"r", "n">>) THEN 2 ELSE IF Ends(data, <<"n">>) THEN 1 ELSE 0

\* Signer::write, with what it writes to.
SignerWrite(s, data) ==
    IF data = <<>> THEN s
    ELSE LET l == Len(data) - Delayed(data) IN
         [Escape(s, data) EXCEPT
            !.hash = @ \o hash_update_text(s.stash) \o hash_update_text(Take(data, l)),
            !.stash = Drop(data, l)]

\* TrailingWSFilter::write_out for a line: the newline is a write of its own.
Line(s, line) ==
    LET l == Trimmed(Take(line, Len(line) - 1)) IN
    IF Ends(l, <<"r">>)
    THEN SignerWrite(SignerWrite(s, Take(l, Len(l) - 1)), <<"r", "n">>)
    ELSE SignerWrite(SignerWrite(s, l), <<"n">>)

\* A write to the message.
Write(k) ==
    /\ phase = "write" /\ at + k <= Len(text) /\ at' = at + k
    /\ trim' = trim \o SubSeq(text, at + 1, at + k)
    /\ phase' = "trim"
    /\ UNCHANGED <<closing, text, sign, body, verify>>

\* One iteration of TrailingWSFilter::write_out.
TrimLine ==
    /\ phase = "trim" /\ HasLine(trim)
    /\ sign' = Line(sign, FirstLine(trim))
    /\ trim' = Drop(trim, Len(FirstLine(trim)))
    /\ UNCHANGED <<phase, closing, text, at, body, verify>>

\* What is left of it waits for the rest of its line.
TrimRest ==
    /\ phase = "trim" /\ ~HasLine(trim)
    /\ phase' = IF closing THEN "carry" ELSE "write"
    /\ UNCHANGED <<closing, text, at, trim, sign, body, verify>>

\* Message::finalize: the last line is completed.
Finalize ==
    /\ phase = "write" /\ at = Len(text)
    /\ closing' = TRUE
    /\ trim' = IF trim # <<>> THEN Append(trim, "n") ELSE trim
    /\ phase' = "trim"
    /\ UNCHANGED <<text, at, sign, body, verify>>

-----------------------------------------------------------------------------
(* The way to the recipient may change line endings and add trailing blanks to
   the lines of a message in clear text. *)

Endings(t, ending) ==
    FlattenSeq([i \in DOMAIN t |->
        IF t[i] = "n" /\ (i = 1 \/ t[i - 1] # "r") THEN ending ELSE <<t[i]>>] \o <<>>)

Carried(t) == {t, Endings(t, <<"r", "n">>), Endings(t, <<" ", "n">>)}

\* Position i is a blank with only blanks up to the next end of a line.
Newlines(t) == {j \in DOMAIN t : t[j] = "n"}
LineEnds(t) == Newlines(t) \cup {j \in DOMAIN t : t[j] = "r" /\ j + 1 \in Newlines(t)}
Trails(t, i, ends) ==
    t[i] = " " /\ \E j \in ends : i < j /\ \A k \in i + 1 .. j - 1 : t[k] = " "

\* Position i is part of the "- " in front of an escaped line.
EscapeAt(t, i) == \/ StartsLine(t, i) /\ t[i] = "-" /\ i < Len(t) /\ t[i + 1] = " "
                  \/ i > 1 /\ StartsLine(t, i - 1) /\ t[i - 1] = "-" /\ t[i] = " "

\* read_clearsigned_message: the lines up to what looks like the signatures, without
\* escapes and trailing blanks.
ReadText(t) ==
    Pick(t, LAMBDA i : /\ \A j \in 1 .. i : ~(StartsLine(t, j) /\ t[j] = "S")
                       /\ ~EscapeAt(t, i)
                       /\ ~Trails(t, i, LineEnds(t)))

\* The recipient opens the message.
Carry ==
    /\ phase = "carry" /\ phase' = "read"
    /\ \E t \in Carried(sign.sent) : body' = ReadText(t)
    /\ UNCHANGED <<closing, text, at, trim, sign, verify>>

-----------------------------------------------------------------------------
(* The verifier. *)

\* Mutant: a newline in two pieces is not put together.
JoinNot(stash, data) == FALSE
Joins(stash, data) == stash = <<"r">> /\ data[1] = "n"

\* The newline at the end of what is hashed, if there is one.
LastNewline(data) == IF Ends(data, <<"r", "n">>) THEN 2
                     ELSE IF Ends(data, <<"n">>) \/ Ends(data, <<"r">>) THEN 1 ELSE 0

\* Cookie::hash_update_csf
hash_update_csf(v, piece) ==
    LET joins == Joins(v.stash, piece)
        stash == IF joins THEN <<"r", "n">> ELSE v.stash
        data == IF joins THEN Drop(piece, 1) ELSE piece
        l == Len(data) - LastNewline(data)
    IN IF data = <<>> THEN [v EXCEPT !.stash = stash]
       ELSE [v EXCEPT !.hash = @ \o hash_update_text(stash)
                                 \o hash_update_text(Take(data, l)),
                      !.stash = Drop(data, l)]

\* A piece of the body is consumed.
Read(k) ==
    /\ phase = "read" /\ verify.at + k <= Len(body)
    /\ LET piece == SubSeq(body, verify.at + 1, verify.at + k) IN
       verify' = [hash_update_csf(verify, piece) EXCEPT !.at = @ + k]
    /\ UNCHANGED <<phase, closing, text, at, trim, sign, body>>

\* The signatures are verified.
Verify ==
    /\ phase = "read" /\ verify.at = Len(body) /\ phase' = "done"
    /\ UNCHANGED <<closing, text, at, trim, sign, body, verify>>

\* ... and that is all.
Verified == phase = "done" /\ UNCHANGED vars

Init ==
    /\ phase = "write" /\ closing = FALSE
    /\ text \in Texts /\ at = 0 /\ trim = <<>> /\ body = <<>>
    /\ sign = [hash |-> <<>>, stash |-> <<>>, dash |-> <<>>, sent |-> <<>>]
    /\ verify = [hash |-> <<>>, stash |-> <<>>, at |-> 0]

Trim == TrimLine \/ TrimRest
Reads == \E k \in 1 .. MaxPiece : Read(k)
Writes == \E k \in 1 .. MaxPiece : Write(k)
Next == Writes \/ Trim \/ Finalize \/ Carry \/ Reads \/ Verify \/ Verified

Spec == Init /\ [][Next]_vars

-----------------------------------------------------------------------------
(* Properties *)

\* The text as it is to be signed: whole lines without trailing blanks, and no final
\* newline.
Whole(t) == IF t = <<>> \/ Ends(t, <<"n">>) THEN t ELSE Append(t, "n")
Canonical(t) ==
    LET w == Whole(t)
    IN hash_update_text(Pick(w, LAMBDA i : ~Trails(w, i, Newlines(w))))
Signed(t) == IF t = <<>> THEN <<>> ELSE Front(Canonical(t))

\* A blank right before the carriage return of a line ending is kept by
\* TrailingWSFilter and trimmed by the recipient.
Regular(t) ==
    ~\E i \in 1 .. Len(t) - 1 :
        /\ t[i] = " " /\ t[i + 1] = "r"
        /\ \E j \in i + 2 .. Len(Whole(t)) : /\ Whole(t)[j] = "n"
                                          /\ \A k \in i + 2 .. j - 1 : t[k] = " "

\* However a text is cut into writes, and its newlines held back in case they are the
\* last, what is hashed is the canonical form of the whole.  The recipient computes
\* the same digest, although line endings, trailing blanks and escapes have changed
\* on the way and its reads cut the text elsewhere.
DigestsAgree ==
    phase = "done" /\ Regular(text) =>
        verify.hash = sign.hash /\ verify.hash = Signed(text)
=============================================================================
