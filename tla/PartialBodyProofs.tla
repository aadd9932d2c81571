------------------------- MODULE PartialBodyProofs -------------------------
(***************************************************************************)
(* Proofs about PartialBody: an invariant of the states in which nothing   *)
(* beyond the body was consumed, and a weaker one for those after that.    *)
(***************************************************************************)
EXTENDS PartialBody, SequenceTheorems, NaturalsInduction, WellFoundedInduction, TLAPS

Symbols == [k : {"byte", "full", "partial", "next"}, n : Nat]
IsLen(x) == x.k \in {"full", "partial"}

\* The n bytes after the first a.
Run(a, n) == Bytes(a + 1, a + n)

\* The number of the last byte before the length at i.
Base(s, i) == IF i = 1 THEN 0 ELSE s[i - 1].n

\* The length at i is followed by that many bytes, in order, and then by the
\* next length or the end; t is the number of bytes in all of s.
ChunkAt(s, t, i) ==
    /\ i + s[i].n <= Len(s)
    /\ Base(s, i) \in Nat /\ Base(s, i) + s[i].n <= t
    /\ \A j \in 1 .. s[i].n : s[i + j] = Byte(Base(s, i) + j)
    /\ i > 1 => s[i - 1].k = "byte"
    /\ i + s[i].n < Len(s) => IsLen(s[i + s[i].n + 1])
    /\ s[i].k = "partial" => s[i].n > 0
    /\ s[i].k = "full" => i + s[i].n = Len(s) /\ Base(s, i) + s[i].n = t

Chunked(s, t) ==
    /\ s \in Seq(Symbols) /\ t \in Nat
    /\ s # <<>> => IsLen(s[1])
    /\ \A i \in 1 .. Len(s) : IsLen(s[i]) => ChunkAt(s, t, i)

\* More chunks may follow.
Open(s, t) ==
    /\ \A i \in 1 .. Len(s) : s[i].k # "full"
    /\ IF s = <<>> THEN t = 0 ELSE s[Len(s)] = Byte(t)

\* The last chunk is there.
Closed(s) ==
    /\ s # <<>>
    /\ \A i \in 1 .. Len(s) : s[i].k = "partial" => i + s[i].n < Len(s)

\* The part of the state that belongs to the reader, before there is one.
Unread ==
    /\ pos = 0 /\ ~stash /\ hashed = <<>> /\ ~last /\ buf = <<>> /\ call = NoCall
    /\ ready = 0 /\ got = <<>> /\ ended = "none"

\* The bytes o has put out are t, b is held back, and c is at hand.
Split(o, t, b, c, n) ==
    /\ Chunked(o, t) /\ Len(b) \in Nat /\ Len(c) \in Nat /\ n = t + Len(b) + Len(c)
    /\ b = Run(t, Len(b)) /\ c = Run(t + Len(b), Len(c))

\* The bytes that have been put out.
Put == body - Len(buffer) - Len(other)

\* Before the reader.
WriteInv ==
    /\ Split(out, Put, buffer, other, body) /\ Unread
    /\ phase \in {"write", "emit"} => Open(out, Put)
    /\ phase # "emit" => other = <<>>
    /\ phase = "sent" => Closed(out) /\ Put = body

\* What arrived is all of the packet and what follows, or a part of it.
InputInv ==
    /\ Chunked(out, body) /\ Closed(out)
    /\ input \in Seq(Symbols)
    /\ \A i \in 1 .. Len(input) : i <= Len(out) => input[i] = out[i]
    /\ \/ Len(input) < Len(out)
       \/ input = out \o <<Tail_, Tail_>>

Fills == {"read", "header", "return", "fail"}
\* What was read from below and is not consumed.
Held == IF call.stage \in Fills THEN call.fill ELSE buf
Taken == Len(got) + Len(Held)
AtLast == kind = "limitor" \/ last

\* At p, after c bytes of the body, l more bytes follow.
InChunk(p, l, c) ==
    /\ p \in Nat \ {0} /\ l \in Nat /\ c \in Nat /\ p <= Len(input)
    /\ p + l <= Len(out) /\ c + l <= body
    /\ \A j \in 1 .. l : out[p + j] = Byte(c + j)
    /\ out[p].k = "byte" => out[p].n = c

\* The reader stands in a chunk of which `left` bytes are to come, and knows
\* whether it is the last one.
ChunkInv ==
    /\ InChunk(pos, left, Taken)
    /\ AtLast => pos + left = Len(out) /\ Taken + left = body
    /\ ~AtLast => pos + left < Len(out) /\ IsLen(out[pos + left + 1])

\* What the caller and the hash have, and what the reader keeps.
ContentInv ==
    /\ Len(got) \in Nat /\ Len(Held) \in Nat /\ hashed \in Seq(Symbols)
    /\ got = Run(0, Len(got)) /\ Held = Run(Len(got), Len(Held))
    /\ ~hash_headers => hashed = Run(0, Taken)

CallInv ==
    /\ call \in [op : Ops \cup {"none", "drop", "dropped", "eof"}, amount : Nat,
                 stage : Fills \cup {"none", "start"}, fill : Seq(Symbols)]
    /\ call.stage = "none" <=> call.op \in {"none", "dropped"}
    /\ call.op = "none" => call = NoCall
    /\ kind = "limitor" => buf = <<>> /\ call.stage \notin Fills
    /\ call.op = "eof" => call.amount = 1
    /\ call.op = "drop" => call.amount = BufSize
    /\ call.stage \in {"read", "header"} => Len(call.fill) <= call.amount
    /\ call.stage = "header" => left = 0 /\ ~last
    /\ call.stage \in {"header", "fail"} => Len(call.fill) < call.amount

\* What was shown is there.
ReadyInv ==
    /\ ready \in Nat
    /\ call.stage \in {"none", "start"} =>
         IF buf = <<>> THEN ready <= left /\ pos + ready <= Len(input) ELSE ready <= Len(buf)

\* All of the packet is there and can be read.
Intact == Len(input) = Len(out) + 2 /\ fate = "eof"
Empty == AtLast /\ left = 0

IntactInv ==
    Intact =>
        /\ ~stash /\ call.stage # "fail"
        /\ call.stage = "return" /\ Len(call.fill) < call.amount => Empty
        /\ call.op = "dropped" /\ ready < BufSize =>
             AtLast /\ IF buf = <<>> THEN ready = left ELSE ready = Len(buf) /\ left = 0
        /\ call.op = "eof" => Empty /\ Held = <<>>

ReadInv ==
    /\ ended = "none" /\ kind \in {"limitor", "partial"} /\ fate \in {"eof", "error"}
    /\ ChunkInv /\ ContentInv /\ CallInv /\ ReadyInv /\ IntactInv

DoneInv ==
    /\ call = NoCall /\ fate \in {"eof", "error"}
    /\ got = Run(0, Len(got)) /\ Len(got) \in Nat /\ Len(got) <= body
    /\ pos \in Nat /\ pos <= Len(out)
    /\ ended = "ok" => /\ pos = Len(out) /\ Len(got) = body /\ Len(input) = Len(out) + 2
                       /\ ~hash_headers => hashed = Run(0, body)
    /\ ended \in {"err", "leftover"} => ~Intact

Inv ==
    /\ threshold \in Thresholds /\ maxChunk \in MaxChunks /\ body \in Nat
    /\ phase \in {"write", "emit", "sent", "read", "done"}
    /\ stash \in BOOLEAN /\ last \in BOOLEAN /\ hash_headers \in BOOLEAN
    /\ phase \in {"write", "emit", "sent"} => WriteInv
    /\ phase \in {"read", "done"} => InputInv
    /\ phase = "read" => ReadInv
    /\ phase = "done" => DoneInv

\* The last chunk is read, with nothing buffered, and what was consumed without being
\* counted is where the reader stands too far.  The bytes themselves may be the next
\* packet's.
Counted ==
    /\ phase \in {"read", "done"} /\ kind = "partial" /\ last /\ buf = <<>>
    /\ body \in Nat /\ left \in Nat /\ pos \in Nat /\ over \in Nat
    /\ stash \in BOOLEAN /\ fate \in {"eof", "error"}
    /\ got \in Seq(Symbols) /\ input \in Seq(Symbols) /\ Len(out) \in Nat
    /\ Len(input) < Len(out) \/ Complete
    /\ pos <= Len(input) /\ pos + left = Len(out) + over /\ Len(got) + left = body
    /\ over > 0 => left < over /\ Complete
    /\ Intact => ~stash

CountedRead ==
    /\ ended = "none" /\ call.stage \in {"none", "start"} /\ call.amount \in Nat
    /\ call.op = "eof" => call.amount = 1
    /\ ready \in Nat /\ ready <= left /\ pos + ready <= Len(input)

CountedDone ==
    /\ call = NoCall
    /\ ended = "ok" => left = 0
    /\ ended \in {"err", "leftover"} /\ Intact => left > 0

\* Octets of the next packet were consumed.
Past == Counted /\ (phase = "read" => CountedRead) /\ (phase = "done" => CountedDone)

Whole == over \in Nat /\ (over = 0 => Inv) /\ (over > 0 => Past)
-----------------------------------------------------------------------------
(***************************************************************************)
(* Sequences of bytes.                                                     *)
(***************************************************************************)
LEMMA RunFacts ==
    ASSUME NEW a \in Nat, NEW n \in Nat
    PROVE  /\ Run(a, n) \in Seq(Symbols) /\ Len(Run(a, n)) = n
           /\ \A i \in 1 .. n : Run(a, n)[i] = Byte(a + i)
<1>1. \A i \in 1 .. n : (a + 1) + i - 1 = a + i /\ Byte(a + i) \in Symbols
  BY DEF Byte, Symbols
<1>2. (a + n) - (a + 1) + 1 = n
  OBVIOUS
<1>3. Run(a, n) = [i \in 1 .. n |-> Byte((a + 1) + i - 1)]
  BY <1>2 DEF Run, Bytes
<1>4. Run(a, n) \in [1 .. n -> Symbols] /\ \A i \in 1 .. n : Run(a, n)[i] = Byte(a + i)
  BY <1>1, <1>3
<1> QED
  BY <1>4

\* A sequence with these elements is that run.
LEMMA IsRun ==
    ASSUME NEW s \in Seq(Symbols), NEW a \in Nat, \A i \in 1 .. Len(s) : s[i] = Byte(a + i)
    PROVE  s = Run(a, Len(s))
<1> DEFINE n == Len(s)
           r == Run(a, n)
<1>1. n \in Nat
  OBVIOUS
<1> HIDE DEF n
<1>2. r \in Seq(Symbols) /\ Len(r) = n /\ \A i \in 1 .. n : r[i] = Byte(a + i)
  BY <1>1, RunFacts
<1> HIDE DEF r
<1>3. Len(s) = Len(r) /\ \A i \in 1 .. Len(s) : s[i] = r[i]
  BY <1>2 DEF n
<1>4. s = r
  BY <1>2, <1>3, SeqEqual
<1> QED
  BY <1>4 DEF r, n

LEMMA RunNone == Run(0, 0) = <<>> /\ \A a \in Nat : Run(a, 0) = <<>>
<1>1. \A a \in Nat : Run(a, 0) \in Seq(Symbols) /\ Len(Run(a, 0)) = 0
  BY RunFacts
<1> QED
  BY <1>1

LEMMA RunJoin ==
    ASSUME NEW a \in Nat, NEW m \in Nat, NEW n \in Nat
    PROVE  Run(a, m) \o Run(a + m, n) = Run(a, m + n)
<1> DEFINE b == a + m
           s == Run(a, m)
           t == Run(b, n)
           r == s \o t
<1>1. /\ s \in Seq(Symbols) /\ Len(s) = m
      /\ \A i \in 1 .. m : s[i] = Byte(a + i)
  BY RunFacts
<1>2. b \in Nat
  OBVIOUS
<1>3. /\ t \in Seq(Symbols) /\ Len(t) = n
      /\ \A i \in 1 .. n : t[i] = Byte(b + i)
  BY <1>2, RunFacts
<1> HIDE DEF s, t
<1>4. /\ r \in Seq(Symbols) /\ Len(r) = m + n
      /\ \A i \in 1 .. m + n : r[i] = IF i <= m THEN s[i] ELSE t[i - m]
  BY <1>1, <1>3, ConcatProperties
<1> HIDE DEF r
<1>5. \A i \in 1 .. Len(r) : r[i] = Byte(a + i)
  <2> SUFFICES ASSUME NEW i \in 1 .. m + n
               PROVE  r[i] = Byte(a + i)
    BY <1>4
  <2>1. CASE i <= m
    BY <1>1, <1>4, <2>1
  <2>2. CASE ~(i <= m)
    <3>1. i - m \in 1 .. n /\ b + (i - m) = a + i
      BY <2>2
    <3> QED
      BY <1>3, <1>4, <2>2, <3>1
  <2> QED
    BY <2>1, <2>2
<1>6. r = Run(a, m + n)
  BY <1>4, <1>5, IsRun
<1> QED
  BY <1>6 DEF r, s, t

LEMMA RunCut ==
    ASSUME NEW a \in Nat, NEW n \in Nat, NEW m \in Nat, m <= n
    PROVE  /\ SubSeq(Run(a, n), 1, m) = Run(a, m)
           /\ SubSeq(Run(a, n), m + 1, n) = Run(a + m, n - m)
<1> DEFINE s == Run(a, n)
           l == SubSeq(s, 1, m)
           r == SubSeq(s, m + 1, n)
<1>1. /\ s \in Seq(Symbols) /\ Len(s) = n
      /\ \A x \in 1 .. n : s[x] = Byte(a + x)
  BY RunFacts
<1> HIDE DEF s
<1>2. /\ l \in Seq(Symbols) /\ Len(l) = m
      /\ \A x \in 1 .. m : l[x] = s[x]
  <2>1. \A x \in 1 .. m : s[x] \in Symbols
    BY <1>1
  <2>2. /\ l \in Seq(Symbols) /\ Len(l) = IF 1 <= m THEN m - 1 + 1 ELSE 0
        /\ \A x \in 1 .. m - 1 + 1 : l[x] = s[1 + x - 1]
    BY <1>1, <2>1, SubSeqProperties
  <2>3. m - 1 + 1 = m /\ \A x \in 1 .. m : 1 + x - 1 = x
    OBVIOUS
  <2> QED
    BY <2>2, <2>3
<1>3. /\ r \in Seq(Symbols) /\ Len(r) = n - m
      /\ \A x \in 1 .. n - m : r[x] = s[m + x]
  <2>1. \A x \in m + 1 .. n : s[x] \in Symbols
    BY <1>1
  <2>2. /\ r \in Seq(Symbols) /\ Len(r) = IF m + 1 <= n THEN n - (m + 1) + 1 ELSE 0
        /\ \A x \in 1 .. n - (m + 1) + 1 : r[x] = s[(m + 1) + x - 1]
    BY <1>1, <2>1, SubSeqProperties
  <2>3. n - (m + 1) + 1 = n - m /\ \A x \in 1 .. n - m : (m + 1) + x - 1 = m + x
    OBVIOUS
  <2> QED
    BY <2>2, <2>3
<1> HIDE DEF l, r
<1>4. \A x \in 1 .. Len(l) : l[x] = Byte(a + x)
  BY <1>1, <1>2
<1>5. ASSUME NEW x \in 1 .. Len(r) PROVE r[x] = Byte((a + m) + x)
  <2>1. m + x \in 1 .. n /\ a + (m + x) = (a + m) + x
    BY <1>3
  <2> QED
    BY <1>1, <1>3, <2>1
<1>6. l = Run(a, Len(l))
  BY <1>2, <1>4, IsRun
<1>7. r = Run(a + m, Len(r))
  BY <1>3, <1>5, IsRun
<1> QED
  BY <1>2, <1>3, <1>6, <1>7 DEF l, r, s

\* A set of numbers has a least one.
LEMMA LeastNat ==
    ASSUME NEW T, T \subseteq Nat, T # {}
    PROVE  \E x \in T : \A y \in T : x <= y
<1>1. IsWellFoundedOn(OpToRel(<, Nat), Nat)
  BY NatLessThanWellFounded
<1>2. PICK x \in T : \A y \in T : ~ (<<y, x>> \in OpToRel(<, Nat))
  BY <1>1, WFMin
<1>3. \A y \in T : y \in Nat /\ x \in Nat /\ ~ (y < x)
  BY <1>2 DEF OpToRel
<1> QED
  BY <1>3

\* The greatest power of two that is at most x.
LEMMA PowerFacts ==
    ASSUME NEW x \in Nat \ {0}
    PROVE  Power(x) \in 1 .. x
<1> DEFINE S == {p \in Powers : p <= x}
           T == {x - p : p \in S}
<1>0. Powers \subseteq Nat \ {0} /\ 1 \in Powers
  BY PartialBodyAssumption
<1>a. \A p \in Powers : p \in Nat \ {0}
  BY <1>0
<1>1. 1 \in S /\ \A p \in S : p \in 1 .. x
  BY <1>0, <1>a
<1>2. T \subseteq Nat /\ T # {}
  BY <1>1
<1>3. PICK y \in T : \A z \in T : y <= z
  BY <1>2, LeastNat
<1>4. PICK p \in S : y = x - p
  OBVIOUS
<1>5. \A q \in S : p >= q
  <2> SUFFICES ASSUME NEW q \in S PROVE p >= q
    OBVIOUS
  <2>1. x - q \in T
    OBVIOUS
  <2>2. p \in Nat /\ q \in Nat
    BY <1>1
  <2> HIDE DEF S, T
  <2> QED
    BY <1>3, <1>4, <2>1, <2>2
<1>6. Max(S) \in S
  BY <1>4, <1>5 DEF Max
<1> QED
  BY <1>1, <1>6 DEF Power
-----------------------------------------------------------------------------
(***************************************************************************)
(* The writer.                                                             *)
(***************************************************************************)
WithChunk(s, t, h) == s \o (<<h>> \o Run(t, h.n))

LEMMA WithChunkFacts ==
    ASSUME NEW s \in Seq(Symbols), NEW t \in Nat, NEW h \in Symbols
    PROVE  LET r == WithChunk(s, t, h) IN
           /\ r \in Seq(Symbols) /\ Len(r) = Len(s) + 1 + h.n
           /\ \A i \in 1 .. Len(s) : r[i] = s[i]
           /\ r[Len(s) + 1] = h
           /\ \A j \in 1 .. h.n : r[Len(s) + 1 + j] = Byte(t + j)
<1> DEFINE n == h.n
           c == Run(t, n)
           d == <<h>> \o c
           r == s \o d
<1>1. n \in Nat
  BY DEF Symbols
<1>2. /\ c \in Seq(Symbols) /\ Len(c) = n
      /\ \A i \in 1 .. n : c[i] = Byte(t + i)
  BY <1>1, RunFacts
<1>3. <<h>> \in Seq(Symbols) /\ Len(<<h>>) = 1 /\ <<h>>[1] = h
  OBVIOUS
<1> HIDE DEF c
<1>4. /\ d \in Seq(Symbols) /\ Len(d) = 1 + n
      /\ d[1] = h /\ \A i \in 1 .. n : d[1 + i] = c[i]
  <2>1. /\ d \in Seq(Symbols) /\ Len(d) = Len(<<h>>) + Len(c)
        /\ \A i \in 1 .. Len(<<h>>) + Len(c) :
             d[i] = IF i <= Len(<<h>>) THEN <<h>>[i] ELSE c[i - Len(<<h>>)]
    BY <1>2, <1>3, ConcatProperties
  <2>2. \A i \in 1 .. n : 1 + i \in 1 .. 1 + n /\ ~(1 + i <= 1) /\ (1 + i) - 1 = i
    BY <1>1
  <2> QED
    BY <1>1, <1>2, <1>3, <2>1, <2>2
<1> HIDE DEF d
<1>5. /\ r \in Seq(Symbols) /\ Len(r) = Len(s) + 1 + n
      /\ \A i \in 1 .. Len(s) + 1 + n :
           r[i] = IF i <= Len(s) THEN s[i] ELSE d[i - Len(s)]
  <2>1. /\ r \in Seq(Symbols) /\ Len(r) = Len(s) + Len(d)
        /\ \A i \in 1 .. Len(s) + Len(d) :
             r[i] = IF i <= Len(s) THEN s[i] ELSE d[i - Len(s)]
    BY <1>4, ConcatProperties
  <2>2. Len(s) \in Nat
    OBVIOUS
  <2> QED
    BY <1>1, <1>4, <2>1, <2>2
<1> HIDE DEF r
<1>6. Len(s) \in Nat
  OBVIOUS
<1>7. r[Len(s) + 1] = h
  <2>1. Len(s) + 1 \in 1 .. Len(s) + 1 + n /\ ~(Len(s) + 1 <= Len(s)) /\ Len(s) + 1 - Len(s) = 1
    BY <1>1, <1>6
  <2> QED
    BY <1>4, <1>5, <2>1
<1>8. ASSUME NEW j \in 1 .. n PROVE r[Len(s) + 1 + j] = Byte(t + j)
  <2>1. /\ Len(s) + 1 + j \in 1 .. Len(s) + 1 + n /\ ~(Len(s) + 1 + j <= Len(s))
        /\ (Len(s) + 1 + j) - Len(s) = 1 + j
    BY <1>1, <1>6
  <2> QED
    BY <1>2, <1>4, <1>5, <2>1
<1>9. \A i \in 1 .. Len(s) : r[i] = s[i]
  BY <1>1, <1>5, <1>6
<1>10. r = WithChunk(s, t, h)
  BY DEF WithChunk, r, d, c
<1> QED
  BY <1>5, <1>7, <1>8, <1>9, <1>10

\* Another chunk.
LEMMA AddChunk ==
    ASSUME NEW s, NEW t, Chunked(s, t), Open(s, t), NEW h \in Symbols, IsLen(h),
           h.k = "partial" => h.n > 0
    PROVE  /\ Chunked(WithChunk(s, t, h), t + h.n)
           /\ h.k = "partial" => Open(WithChunk(s, t, h), t + h.n)
           /\ h.k = "full" => Closed(WithChunk(s, t, h))
<1> DEFINE r == WithChunk(s, t, h)
           n == h.n
           l == Len(s)
<1>1. s \in Seq(Symbols) /\ t \in Nat /\ n \in Nat /\ l \in Nat
  BY DEF Chunked, Symbols
<1>2. /\ r \in Seq(Symbols) /\ Len(r) = l + 1 + n
      /\ \A i \in 1 .. l : r[i] = s[i]
      /\ r[l + 1] = h
      /\ \A j \in 1 .. n : r[l + 1 + j] = Byte(t + j)
  BY <1>1, WithChunkFacts
<1> HIDE DEF r
<1>3. \A i \in 1 .. l : s[i] \in Symbols
  BY <1>1
<1>4. \A x : x \in Nat => Byte(x).k = "byte" /\ Byte(x).n = x /\ ~IsLen(Byte(x))
  BY DEF Byte, IsLen
<1>5. ASSUME NEW i \in 1 .. l, IsLen(s[i])
      PROVE  /\ ChunkAt(r, t + n, i) /\ s[i].k = "partial"
             /\ i + s[i].n < Len(r)
  <2>1. s[i].k = "partial" /\ s[i].n \in Nat
    BY <1>3, <1>5 DEF Open, IsLen, Symbols
  <2>2. /\ i + s[i].n <= l
        /\ Base(s, i) \in Nat /\ Base(s, i) + s[i].n <= t
        /\ \A j \in 1 .. s[i].n : s[i + j] = Byte(Base(s, i) + j)
        /\ i > 1 => s[i - 1].k = "byte"
        /\ i + s[i].n < l => IsLen(s[i + s[i].n + 1])
        /\ s[i].n > 0
    BY <1>5, <2>1 DEF Chunked, ChunkAt
  <2>3. r[i] = s[i] /\ Base(r, i) = Base(s, i) /\ (i > 1 => r[i - 1] = s[i - 1])
    BY <1>1, <1>2 DEF Base
  <2>4. \A j \in 1 .. s[i].n : r[i + j] = Byte(Base(s, i) + j)
    <3> SUFFICES ASSUME NEW j \in 1 .. s[i].n PROVE r[i + j] = Byte(Base(s, i) + j)
      OBVIOUS
    <3>1. i + j \in 1 .. l
      BY <1>1, <2>1, <2>2
    <3> QED
      BY <1>2, <2>2, <3>1
  <2>5. IsLen(r[i + s[i].n + 1])
    <3>1. CASE i + s[i].n < l
      <4>1. i + s[i].n + 1 \in 1 .. l
        BY <1>1, <2>1, <3>1
      <4> QED
        BY <1>2, <2>2, <3>1, <4>1
    <3>2. CASE i + s[i].n = l
      BY <1>2, <3>2
    <3> QED
      BY <1>1, <2>1, <2>2, <3>1, <3>2
  <2>6. i + s[i].n < Len(r) /\ Base(s, i) + s[i].n <= t + n
    <3>1. ASSUME NEW b \in Nat, NEW m \in Nat, b + m <= t, i + m <= l
          PROVE  i + m < l + 1 + n /\ b + m <= t + n
      BY <1>1, <3>1
    <3> QED
      BY <1>2, <2>1, <2>2, <3>1
  <2> QED
    BY <2>1, <2>2, <2>3, <2>4, <2>5, <2>6 DEF ChunkAt
<1>6. ChunkAt(r, t + n, l + 1)
  <2>1. Base(r, l + 1) = t /\ (l + 1 > 1 => r[l + 1 - 1].k = "byte")
    <3>1. CASE s = <<>>
      BY <1>1, <3>1 DEF Base, Open
    <3>2. CASE s # <<>>
      <4>1. l \in 1 .. l /\ l # 0 /\ (l + 1) - 1 = l
        BY <1>1, <3>2
      <4>2. r[l] = Byte(t)
        BY <1>2, <3>2, <4>1 DEF Open
      <4> QED
        BY <1>1, <1>4, <4>1, <4>2 DEF Base
    <3> QED
      BY <3>1, <3>2
  <2>2. h.k = "full" \/ h.k = "partial"
    BY DEF IsLen
  <2>3. ~(l + 1 + n < Len(r)) /\ l + 1 + n <= Len(r)
    BY <1>1, <1>2
  <2> QED
    BY <1>1, <1>2, <2>1, <2>2, <2>3 DEF ChunkAt
<1>7. ASSUME NEW i \in 1 .. Len(r)
      PROVE  i \in 1 .. l \/ i = l + 1 \/ \E j \in 1 .. n : i = l + 1 + j
  <2>1. CASE i > l + 1
    <3>1. i - (l + 1) \in 1 .. n /\ i = l + 1 + (i - (l + 1))
      BY <1>1, <1>2, <2>1
    <3> QED
      BY <3>1
  <2> QED
    BY <1>1, <1>2, <2>1
<1>8. ASSUME NEW i \in 1 .. Len(r), IsLen(r[i])
      PROVE  ChunkAt(r, t + n, i)
  <2>1. CASE i \in 1 .. l
    BY <1>2, <1>5, <1>8, <2>1
  <2>2. CASE i = l + 1
    BY <1>6, <2>2
  <2>3. ASSUME NEW j \in 1 .. n, i = l + 1 + j PROVE FALSE
    <3>1. r[i] = Byte(t + j) /\ t + j \in Nat
      BY <1>1, <1>2, <2>3
    <3> QED
      BY <1>4, <1>8, <3>1
  <2> QED
    BY <1>7, <2>1, <2>2, <2>3
<1>9. r # <<>> /\ IsLen(r[1])
  <2>1. CASE s = <<>>
    BY <1>1, <1>2, <2>1
  <2>2. CASE s # <<>>
    <3>1. 1 \in 1 .. l /\ IsLen(s[1])
      BY <1>1, <2>2 DEF Chunked
    <3> QED
      BY <1>1, <1>2, <3>1
  <2> QED
    BY <2>1, <2>2
<1>10. Chunked(r, t + n)
  BY <1>1, <1>2, <1>8, <1>9 DEF Chunked
<1>11. ASSUME h.k = "partial" PROVE Open(r, t + n)
  <2>1. r[Len(r)] = Byte(t + n)
    <3>1. n \in 1 .. n
      BY <1>1, <1>11
    <3> QED
      BY <1>2, <3>1
  <2>2. ASSUME NEW i \in 1 .. Len(r) PROVE r[i].k # "full"
    <3>1. CASE i \in 1 .. l
      BY <1>2, <3>1 DEF Open
    <3>2. CASE i = l + 1
      BY <1>2, <1>11, <3>2
    <3>3. ASSUME NEW j \in 1 .. n, i = l + 1 + j PROVE r[i].k # "full"
      <4>1. r[i] = Byte(t + j) /\ t + j \in Nat
        BY <1>1, <1>2, <3>3
      <4> QED
        BY <1>4, <4>1
    <3> QED
      BY <1>7, <3>1, <3>2, <3>3
  <2> QED
    BY <1>9, <2>1, <2>2 DEF Open
<1>12. ASSUME h.k = "full" PROVE Closed(r)
  <2>1. ASSUME NEW i \in 1 .. Len(r), r[i].k = "partial" PROVE i + r[i].n < Len(r)
    <3>1. CASE i \in 1 .. l
      <4>1. IsLen(s[i]) /\ r[i] = s[i]
        BY <1>2, <2>1, <3>1 DEF IsLen
      <4> QED
        BY <1>5, <3>1, <4>1
    <3>2. CASE i = l + 1
      BY <1>2, <1>12, <2>1, <3>2
    <3>3. ASSUME NEW j \in 1 .. n, i = l + 1 + j PROVE FALSE
      <4>1. r[i] = Byte(t + j) /\ t + j \in Nat
        BY <1>1, <1>2, <3>3
      <4> QED
        BY <1>4, <2>1, <4>1
    <3> QED
      BY <1>7, <3>1, <3>2, <3>3
  <2> QED
    BY <1>9, <2>1 DEF Closed
<1> QED
  BY <1>10, <1>11, <1>12 DEF r

LEMMA SplitFacts ==
    ASSUME NEW o, NEW t, NEW b, NEW c, NEW n, Split(o, t, b, c, n)
    PROVE  /\ b \in Seq(Symbols) /\ c \in Seq(Symbols) /\ t \in Nat
           /\ Len(b) \in Nat /\ Len(c) \in Nat /\ n = t + Len(b) + Len(c)
           /\ n - Len(b) - Len(c) = t
<1>1. t \in Nat /\ Len(b) \in Nat /\ Len(c) \in Nat /\ n = t + Len(b) + Len(c)
  BY DEF Split, Chunked
<1>2. b \in Seq(Symbols)
  BY <1>1, RunFacts DEF Split
<1>3. t + Len(b) \in Nat
  BY <1>1
<1>4. c \in Seq(Symbols)
  BY <1>1, <1>3, RunFacts DEF Split
<1> QED
  BY <1>1, <1>2, <1>4

\* The writer's invariant from its parts.
LEMMA WriteParts ==
    ASSUME Inv, phase \in {"write", "emit"}
    PROVE  /\ Split(out, Put, buffer, other, body) /\ Open(out, Put) /\ Unread
           /\ phase = "write" => other = <<>>
           /\ threshold \in Nat \ {0} /\ maxChunk \in Nat \ {0}
<1>1. WriteInv /\ body \in Nat
  BY DEF Inv
<1>2. threshold \in Nat \ {0} /\ maxChunk \in Nat \ {0}
  BY PartialBodyAssumption DEF Inv
<1> QED
  BY <1>1, <1>2 DEF WriteInv

LEMMA WriteFrom ==
    ASSUME Inv, phase \in {"write", "emit"}, threshold' = threshold, maxChunk' = maxChunk,
           UNCHANGED <<pos, stash, hashed, last, hash_headers, buf, call, ready, got, ended>>,
           NEW t \in Nat, Split(out', t, buffer', other', body'),
           \/ phase' = "write" /\ other' = <<>> /\ Open(out', t)
           \/ phase' = "emit" /\ Open(out', t)
           \/ phase' = "sent" /\ other' = <<>> /\ buffer' = <<>> /\ Closed(out')
    PROVE  Inv'
<1>0. /\ Len(buffer') \in Nat /\ Len(other') \in Nat
      /\ body' = t + Len(buffer') + Len(other') /\ body' - Len(buffer') - Len(other') = t
  BY SplitFacts
<1>1. Put' = t /\ body' \in Nat
  BY <1>0 DEF Put
<1>2. phase' = "sent" => t = body'
  BY <1>0
<1>3. Unread'
  BY WriteParts DEF Unread
<1>4. WriteInv'
  BY <1>1, <1>2, <1>3 DEF WriteInv
<1> QED
  BY <1>1, <1>4 DEF Inv

LEMMA WriteSteps ==
    ASSUME Inv, Write \/ Flush \/ EmitRest \/ Finalize
    PROVE  Inv'
<1> DEFINE t == Put
           b == Len(buffer)
           o == Len(other)
<1>0. phase \in {"write", "emit"}
  BY DEF Write, WriteOut, WriteBuffered, Flush, EmitRest, Finalize
<1>1. Split(out, t, buffer, other, body) /\ Open(out, t) /\ (phase = "write" => other = <<>>)
  BY <1>0, WriteParts
<1>2. /\ buffer \in Seq(Symbols) /\ other \in Seq(Symbols) /\ t \in Nat
      /\ b \in Nat /\ o \in Nat /\ body = t + b + o
  BY <1>1, SplitFacts
<1>3. Chunked(out, t) /\ buffer = Run(t, b) /\ other = Run(t + b, o)
  BY <1>1 DEF Split
<1>4. phase = "write" => o = 0
  BY <1>1
<1> HIDE DEF t, b, o
<1>5. body \in Nat /\ t + b \in Nat /\ (phase = "write" => body = t + b)
  BY <1>2, <1>4
<1>6. ASSUME NEW n \in 1 .. MaxBody, WriteOut(n) PROVE Inv'
  <2>1. /\ phase = "write" /\ body' = body + n /\ other' = Run(body, n)
        /\ phase' = "emit" /\ UNCHANGED <<threshold, maxChunk, buffer, out>>
        /\ UNCHANGED <<pos, stash, hashed, last, hash_headers, buf, call, ready, got, ended>>
    BY <1>6 DEF WriteOut, Grow, inner, reader, caller, Run
  <2>2. n \in Nat
    BY PartialBodyAssumption
  <2>3. Len(other') = n
    BY <1>5, <2>1, <2>2, RunFacts
  <2>4. Split(out', t, buffer', other', body')
    BY <1>2, <1>3, <1>5, <2>1, <2>2, <2>3 DEF Split, b
  <2> QED
    BY <1>0, <1>1, <1>2, <2>1, <2>4, WriteFrom
<1>7. ASSUME NEW n \in 1 .. MaxBody, WriteBuffered(n) PROVE Inv'
  <2>1. /\ phase = "write" /\ body' = body + n /\ buffer' = buffer \o Run(body, n)
        /\ phase' = "write" /\ UNCHANGED <<threshold, maxChunk, other, out>>
        /\ UNCHANGED <<pos, stash, hashed, last, hash_headers, buf, call, ready, got, ended>>
    BY <1>7 DEF WriteBuffered, Grow, inner, reader, caller, Run
  <2>2. n \in Nat /\ body = t + b
    BY <1>5, <2>1, PartialBodyAssumption
  <2>a. buffer' = Run(t, b) \o Run(t + b, n)
    BY <1>3, <2>1, <2>2
  <2>3. buffer' = Run(t, b + n)
    BY <1>2, <2>2, <2>a, RunJoin
  <2>4. b + n \in Nat
    BY <1>2, <2>2
  <2>5. Len(buffer') = b + n
    BY <1>2, <2>3, <2>4, RunFacts
  <2>6. other' = <<>> /\ Len(other') = 0 /\ t + (b + n) \in Nat /\ body' = t + (b + n) + 0
    BY <1>1, <1>2, <2>1, <2>2
  <2>7. other' = Run(t + (b + n), 0)
    BY <2>6, RunNone
  <2>8. Split(out', t, buffer', other', body')
    BY <1>3, <2>1, <2>3, <2>4, <2>5, <2>6, <2>7 DEF Split
  <2> QED
    BY <1>0, <1>1, <1>2, <2>1, <2>6, <2>8, WriteFrom
<1>8. CASE Flush
  <2>1. /\ phase = "write" /\ other' = <<>> /\ phase' = "emit"
        /\ UNCHANGED <<threshold, maxChunk, buffer, out, body>>
        /\ UNCHANGED <<pos, stash, hashed, last, hash_headers, buf, call, ready, got, ended>>
    BY <1>8 DEF Flush, inner, reader
  <2>2. other' = other
    BY <1>1, <2>1
  <2> QED
    BY <1>0, <1>1, <1>2, <2>1, <2>2, WriteFrom
<1>9. CASE EmitRest
  <2>1. /\ buffer' = buffer \o other /\ other' = <<>> /\ phase' = "write"
        /\ UNCHANGED <<threshold, maxChunk, out, body>>
        /\ UNCHANGED <<pos, stash, hashed, last, hash_headers, buf, call, ready, got, ended>>
    BY <1>9 DEF EmitRest, inner, reader, caller
  <2>2. buffer' = Run(t, b + o)
    BY <1>2, <1>3, <2>1, RunJoin
  <2>3. b + o \in Nat
    BY <1>2
  <2>4. Len(buffer') = b + o
    BY <1>2, <2>2, <2>3, RunFacts
  <2>5. Len(other') = 0 /\ t + (b + o) \in Nat /\ body' = t + (b + o) + 0
    BY <1>2, <2>1
  <2>6. other' = Run(t + (b + o), 0)
    BY <2>1, <2>5, RunNone
  <2>7. Split(out', t, buffer', other', body')
    BY <1>3, <2>1, <2>2, <2>3, <2>4, <2>5, <2>6 DEF Split
  <2> QED
    BY <1>0, <1>1, <1>2, <2>1, <2>7, WriteFrom
<1>10. CASE Finalize
  <2>1. /\ phase = "write" /\ out' = out \o <<FullLen(b)>> \o buffer /\ buffer' = <<>>
        /\ phase' = "sent" /\ UNCHANGED <<threshold, maxChunk, other, body>>
        /\ UNCHANGED <<pos, stash, hashed, last, hash_headers, buf, call, ready, got, ended>>
    BY <1>10 DEF Finalize, inner, reader, caller, b
  <2> DEFINE h == FullLen(b)
  <2>2. h \in Symbols /\ IsLen(h) /\ h.n = b /\ h.k = "full"
    BY <1>2 DEF FullLen, Symbols, IsLen
  <2>3. out \in Seq(Symbols) /\ <<h>> \in Seq(Symbols)
    BY <1>3, <2>2 DEF Chunked
  <2>4. out' = WithChunk(out, t, h)
    <3>1. out' = out \o (<<h>> \o buffer)
      BY <1>2, <2>1, <2>3, ConcatAssociative
    <3> QED
      BY <1>3, <2>2, <3>1 DEF WithChunk
  <2>5. Chunked(out', body) /\ Closed(out')
    BY <1>1, <1>3, <1>5, <2>1, <2>2, <2>4, AddChunk
  <2>6. other' = <<>> /\ Len(<<>>) = 0 /\ body = body + 0 + 0 /\ body + 0 = body
    BY <1>1, <1>5, <2>1
  <2>7. Split(out', body, buffer', other', body')
    BY <1>5, <2>1, <2>5, <2>6, RunNone DEF Split
  <2> QED
    BY <1>0, <1>5, <2>1, <2>5, <2>6, <2>7, WriteFrom
<1> QED
  BY <1>6, <1>7, <1>8, <1>9, <1>10 DEF Write

LEMMA EmitStep == ASSUME Inv, EmitChunk PROVE Inv'
<1> DEFINE t == Put
           b == Len(buffer)
           o == Len(other)
           x == Lesser(maxChunk, b + o)
           size == Power(x)
           l == Lesser(b, size)
           d == size - l
           h == PartialLen(size)
           u == SubSeq(buffer, 1, l)
           v == SubSeq(other, 1, d)
<1>0. /\ phase = "emit" /\ phase' = "emit" /\ b + o > threshold
      /\ out' = ((out \o <<h>>) \o u) \o v
      /\ buffer' = SubSeq(buffer, l + 1, b) /\ other' = SubSeq(other, d + 1, o)
      /\ UNCHANGED <<threshold, maxChunk, body>>
      /\ UNCHANGED <<pos, stash, hashed, last, hash_headers, buf, call, ready, got, ended>>
  BY DEF EmitChunk, inner, reader, caller
<1>1. /\ Split(out, t, buffer, other, body) /\ Open(out, t)
      /\ threshold \in Nat \ {0} /\ maxChunk \in Nat \ {0}
  BY <1>0, WriteParts
<1>2. /\ buffer \in Seq(Symbols) /\ other \in Seq(Symbols) /\ t \in Nat
      /\ b \in Nat /\ o \in Nat /\ body = t + b + o
  BY <1>1, SplitFacts
<1>3. Chunked(out, t) /\ buffer = Run(t, b) /\ other = Run(t + b, o)
  BY <1>1 DEF Split
<1> HIDE DEF t, b, o
<1>4. b + o > 0 /\ b + o \in Nat
  <2> HIDE DEF h, u, v, d, l
  <2> QED
    BY <1>0, <1>1, <1>2
<1>5. x \in 1 .. b + o
  BY <1>1, <1>2, <1>4 DEF Lesser
<1>6. size \in 1 .. x
  BY <1>2, <1>5, PowerFacts
<1>7. size \in 1 .. b + o
  BY <1>2, <1>5, <1>6
<1> HIDE DEF size
<1>8. /\ l \in Nat /\ l <= b /\ l <= size /\ d \in Nat /\ d <= o /\ l + d = size
      /\ l = b \/ d = 0
  BY <1>2, <1>7 DEF Lesser
<1> HIDE DEF l, d
<1>9. u = Run(t, l) /\ buffer' = Run(t + l, b - l)
  BY <1>0, <1>2, <1>3, <1>8, RunCut
<1>10. v = Run(t + b, d) /\ other' = Run(t + b + d, o - d)
  <2> DEFINE a == t + b
  <2>1. a \in Nat /\ other = Run(a, o)
    BY <1>2, <1>3
  <2> HIDE DEF a
  <2>2. v = Run(a, d) /\ other' = Run(a + d, o - d)
    BY <1>0, <1>2, <1>8, <2>1, RunCut
  <2> QED
    BY <2>2 DEF a
<1> HIDE DEF u, v
<1>11. u \o v = Run(t, size)
  <2>1. CASE l = b
    <3>1. Run(t, b) \o Run(t + b, d) = Run(t, b + d)
      BY <1>2, <1>8, RunJoin
    <3> QED
      BY <1>8, <1>9, <1>10, <2>1, <3>1
  <2>2. CASE d = 0
    <3>1. v = <<>> /\ u \in Seq(Symbols) /\ l = size
      BY <1>2, <1>8, <1>9, <1>10, <2>2, RunNone, RunFacts
    <3> QED
      BY <1>9, <3>1
  <2> QED
    BY <1>8, <2>1, <2>2
<1>12. h \in Symbols /\ IsLen(h) /\ h.n = size /\ h.k = "partial" /\ h.n > 0
  BY <1>2, <1>7 DEF PartialLen, Symbols, IsLen
<1> HIDE DEF h
<1>13. out' = WithChunk(out, t, h)
  <2>1. out \in Seq(Symbols) /\ <<h>> \in Seq(Symbols)
    BY <1>3, <1>12 DEF Chunked
  <2>2. u \in Seq(Symbols) /\ v \in Seq(Symbols) /\ out \o <<h>> \in Seq(Symbols)
    <3>1. t + b \in Nat
      BY <1>2
    <3> QED
      BY <1>2, <1>8, <1>9, <1>10, <2>1, <3>1, RunFacts
  <2>3. out' = (out \o <<h>>) \o (u \o v)
    BY <1>0, <2>2, ConcatAssociative
  <2>4. u \o v \in Seq(Symbols)
    BY <2>2, ConcatProperties
  <2>5. out' = out \o (<<h>> \o (u \o v))
    BY <2>1, <2>3, <2>4, ConcatAssociative
  <2> QED
    BY <1>11, <1>12, <2>5 DEF WithChunk
<1>14. Chunked(out', t + size) /\ Open(out', t + size)
  BY <1>1, <1>3, <1>12, <1>13, AddChunk
<1>15. /\ b - l \in Nat /\ o - d \in Nat /\ t + l \in Nat /\ t + b + d \in Nat /\ t + size \in Nat
       /\ body = (t + size) + (b - l) + (o - d)
  BY <1>2, <1>7, <1>8
<1>16. Len(buffer') = b - l /\ Len(other') = o - d
  BY <1>9, <1>10, <1>15, RunFacts
<1>17. buffer' = Run(t + size, b - l)
  <2>1. CASE l = b
    <3>1. b - l = 0
      BY <1>2, <2>1
    <3> QED
      BY <1>9, <1>15, <3>1, RunNone
  <2>2. CASE d = 0
    <3>1. l = size
      BY <1>7, <1>8, <2>2
    <3> QED
      BY <1>9, <3>1
  <2> QED
    BY <1>8, <2>1, <2>2
<1>18. t + b + d = t + size + (b - l)
  BY <1>2, <1>7, <1>8
<1>19. Split(out', t + size, buffer', other', body')
  BY <1>0, <1>10, <1>14, <1>15, <1>16, <1>17, <1>18 DEF Split
<1> QED
  BY <1>0, <1>1, <1>14, <1>15, <1>19, WriteFrom
-----------------------------------------------------------------------------
(***************************************************************************)
(* The reader.                                                             *)
(***************************************************************************)
LEMMA RunMore ==
    ASSUME NEW m \in Nat, NEW n \in Nat
    PROVE  Run(0, m) \o Run(m, n) = Run(0, m + n)
<1>1. 0 \in Nat /\ 0 + m = m
  OBVIOUS
<1>2. Run(0, m) \o Run(0 + m, n) = Run(0, m + n)
  BY <1>1, RunJoin
<1> QED
  BY <1>1, <1>2

\* The next n bytes of the chunk.
LEMMA TakeBytes ==
    ASSUME InputInv, NEW p, NEW l, NEW c, InChunk(p, l, c),
           NEW n \in Nat, n <= l, p + n <= Len(input)
    PROVE  InChunk(p + n, l - n, c + n) /\ SubSeq(input, p + 1, p + n) = Run(c, n)
<1>1. /\ p \in Nat \ {0} /\ l \in Nat /\ c \in Nat
      /\ p + l <= Len(out) /\ c + l <= body
      /\ \A j \in 1 .. l : out[p + j] = Byte(c + j)
      /\ out[p].k = "byte" => out[p].n = c
  BY DEF InChunk
<1>2. /\ input \in Seq(Symbols) /\ \A i \in 1 .. Len(input) : i <= Len(out) => input[i] = out[i]
      /\ out \in Seq(Symbols) /\ body \in Nat /\ Len(out) \in Nat /\ Len(input) \in Nat
  BY DEF InputInv, Chunked
<1>3. ASSUME NEW j \in 1 .. n PROVE input[p + j] = Byte(c + j) /\ input[p + j] \in Symbols
  <2>1. p + j \in 1 .. Len(input) /\ p + j <= Len(out) /\ j \in 1 .. l
    BY <1>1, <1>2
  <2> QED
    BY <1>1, <1>2, <2>1
<1> DEFINE r == SubSeq(input, p + 1, p + n)
<1>4. /\ r \in Seq(Symbols) /\ Len(r) = n
      /\ \A x \in 1 .. n : r[x] = input[p + x]
  <2>1. ASSUME NEW x \in p + 1 .. p + n PROVE input[x] \in Symbols
    BY <1>1, <1>2
  <2>2. p + 1 \in 1 .. Len(input) + 1 /\ p + n \in p + 1 - 1 .. Len(input)
    BY <1>1, <1>2
  <2>3. /\ r \in Seq(Symbols) /\ Len(r) = IF p + 1 <= p + n THEN (p + n) - (p + 1) + 1 ELSE 0
        /\ \A x \in 1 .. (p + n) - (p + 1) + 1 : r[x] = input[(p + 1) + x - 1]
    BY <1>1, <1>2, <2>1, <2>2, SubSeqProperties
  <2>4. (p + n) - (p + 1) + 1 = n /\ \A x \in 1 .. n : (p + 1) + x - 1 = p + x
    BY <1>1
  <2>5. (p + 1 <= p + n) <=> n # 0
    BY <1>1
  <2> QED
    BY <2>3, <2>4, <2>5
<1> HIDE DEF r
<1>5. r = Run(c, n)
  <2>1. \A x \in 1 .. Len(r) : r[x] = Byte(c + x)
    BY <1>3, <1>4
  <2> QED
    BY <1>1, <1>4, <2>1, IsRun
<1>6. ASSUME NEW j \in 1 .. l - n PROVE out[(p + n) + j] = Byte((c + n) + j)
  <2>1. n + j \in 1 .. l /\ p + (n + j) = (p + n) + j /\ c + (n + j) = (c + n) + j
    BY <1>1
  <2> QED
    BY <1>1, <2>1
<1>7. out[p + n].k = "byte" => out[p + n].n = c + n
  <2>1. CASE n = 0
    <3>1. p + n = p /\ c + n = c
      BY <1>1, <2>1
    <3> QED
      BY <1>1, <3>1
  <2>2. CASE n # 0
    <3>1. n \in 1 .. l
      BY <1>1, <2>2
    <3>2. out[p + n] = Byte(c + n)
      BY <1>1, <3>1
    <3>3. Byte(c + n).n = c + n
      BY DEF Byte
    <3> QED
      BY <3>2, <3>3
  <2> QED
    BY <2>1, <2>2
<1>8. /\ p + n \in Nat \ {0} /\ l - n \in Nat /\ c + n \in Nat
      /\ (p + n) + (l - n) <= Len(out) /\ (c + n) + (l - n) <= body
  BY <1>1, <1>2
<1> QED
  BY <1>5, <1>6, <1>7, <1>8 DEF InChunk, r

\* The next length.
LEMMA TakeLength ==
    ASSUME InputInv, NEW p, NEW c, InChunk(p, 0, c), p < Len(out), IsLen(out[p + 1]),
           p + 1 <= Len(input)
    PROVE  LET x == input[p + 1] IN
           /\ InChunk(p + 1, x.n, c) /\ x.k \in {"full", "partial"} /\ x = out[p + 1]
           /\ x.k = "full" => p + 1 + x.n = Len(out) /\ c + x.n = body
           /\ x.k = "partial" => p + 1 + x.n < Len(out) /\ IsLen(out[p + 1 + x.n + 1])
<1>1. /\ p \in Nat \ {0} /\ c \in Nat
      /\ out[p].k = "byte" => out[p].n = c
  BY DEF InChunk
<1>2. /\ input \in Seq(Symbols) /\ \A i \in 1 .. Len(input) : i <= Len(out) => input[i] = out[i]
      /\ out \in Seq(Symbols) /\ body \in Nat /\ Len(out) \in Nat /\ Len(input) \in Nat
      /\ \A i \in 1 .. Len(out) : out[i] \in Symbols
  <2>1. input \in Seq(Symbols) /\ out \in Seq(Symbols) /\ body \in Nat
    BY DEF InputInv, Chunked
  <2> QED
    BY <2>1 DEF InputInv
<1>a. \A i \in 1 .. Len(out) : IsLen(out[i]) => ChunkAt(out, body, i)
  BY DEF InputInv, Chunked
<1>b. \A i \in 1 .. Len(out) : out[i].k = "partial" => i + out[i].n < Len(out)
  BY DEF InputInv, Closed
<1> DEFINE i == p + 1
           x == out[i]
<1>3. i \in 1 .. Len(out) /\ i \in 1 .. Len(input) /\ i > 1 /\ i # 1 /\ i - 1 = p
  BY <1>1, <1>2
<1> HIDE DEF i
<1>4. input[i] = x /\ x \in Symbols /\ x.n \in Nat /\ x.k \in {"full", "partial"}
  BY <1>2, <1>3 DEF Symbols, IsLen, i
<1>5. ChunkAt(out, body, i)
  BY <1>a, <1>3 DEF i
<1>6. Base(out, i) = c
  BY <1>1, <1>3, <1>5 DEF ChunkAt, Base
<1>7. /\ i + x.n <= Len(out) /\ c + x.n <= body
      /\ \A j \in 1 .. x.n : out[i + j] = Byte(c + j)
      /\ i + x.n < Len(out) => IsLen(out[i + x.n + 1])
      /\ x.k = "full" => i + x.n = Len(out) /\ c + x.n = body
  BY <1>5, <1>6 DEF ChunkAt
<1>8. x.k # "byte"
  BY <1>4
<1>9. x.k = "partial" => i + x.n < Len(out)
  BY <1>b, <1>3
<1>10. i \in Nat \ {0} /\ i <= Len(input)
  BY <1>3, <1>2
<1>11. InChunk(i, x.n, c)
  BY <1>1, <1>4, <1>7, <1>8, <1>10 DEF InChunk
<1> QED
  BY <1>4, <1>7, <1>9, <1>11 DEF i

\* What a call of the reader below returns.
Answer(amount, r) ==
    /\ r.ok \in BOOLEAN /\ r.n \in Nat /\ r.n <= Rem /\ r.stash \in BOOLEAN
    /\ ~r.ok => r.n = 0
    /\ r.ok /\ r.n < amount => r.n = Rem
    /\ fate = "eof" /\ ~stash => ~r.stash

LEMMA ResFacts ==
    ASSUME NEW n
    PROVE  /\ ~Res(FALSE, n, FALSE).ok /\ Res(FALSE, n, FALSE).n = n /\ ~Res(FALSE, n, FALSE).stash
           /\ Res(TRUE, n, FALSE).ok /\ Res(TRUE, n, FALSE).n = n /\ ~Res(TRUE, n, FALSE).stash
           /\ Res(TRUE, n, TRUE).ok /\ Res(TRUE, n, TRUE).n = n /\ Res(TRUE, n, TRUE).stash
           /\ Res(FALSE, n, FALSE).ok \in BOOLEAN /\ Res(FALSE, n, FALSE).stash \in BOOLEAN
           /\ Res(TRUE, n, FALSE).ok \in BOOLEAN /\ Res(TRUE, n, FALSE).stash \in BOOLEAN
           /\ Res(TRUE, n, TRUE).ok \in BOOLEAN /\ Res(TRUE, n, TRUE).stash \in BOOLEAN
  BY DEF Res

\* The three forms of an answer.
LEMMA InnerForms ==
    ASSUME NEW amount \in Nat, Rem \in Nat, stash \in BOOLEAN
    PROVE  /\ \A r \in Inner(amount, FALSE) :
                \/ r = Res(FALSE, 0, FALSE) /\ (stash \/ fate = "error")
                \/ r = Res(TRUE, Rem, TRUE) /\ fate = "error" /\ amount > Rem
                \/ /\ r \in {Res(TRUE, amount, FALSE), Res(TRUE, Rem, FALSE)}
                   /\ amount > Rem => r = Res(TRUE, Rem, FALSE)
           /\ \A r \in Inner(amount, TRUE) :
                \/ r = Res(FALSE, 0, FALSE) /\ (stash \/ amount > Rem)
                \/ r \in {Res(TRUE, amount, FALSE), Res(TRUE, Rem, FALSE)} /\ amount <= Rem
<1> USE DEF Inner
<1>1. CASE stash
  BY <1>1
<1>2. CASE ~stash /\ amount > Rem
  <2>1. CASE fate = "error"
    BY <1>2, <2>1
  <2>2. CASE fate # "error"
    BY <1>2, <2>2
  <2> QED
    BY <2>1, <2>2
<1>3. CASE ~stash /\ ~(amount > Rem)
  <2>1. CASE amount = 0
    <3>1. Inner(amount, FALSE) = {Res(TRUE, 0, FALSE)} /\ Inner(amount, TRUE) = {Res(TRUE, 0, FALSE)}
      BY <1>3, <2>1
    <3>2. Res(TRUE, 0, FALSE) = Res(TRUE, amount, FALSE)
      BY <2>1
    <3>3. amount <= Rem
      BY <2>1
    <3> QED
      BY <1>3, <3>1, <3>2, <3>3, Zenon
  <2>2. CASE amount # 0
    <3>1. /\ Inner(amount, FALSE) = {Res(TRUE, n, FALSE) : n \in {amount, Rem}}
          /\ Inner(amount, TRUE) = {Res(TRUE, n, FALSE) : n \in {amount, Rem}}
      BY <1>3, <2>2
    <3>2. amount <= Rem
      BY <1>3
    <3> QED
      BY <1>3, <3>1, <3>2, Zenon
  <2> QED
    BY <2>1, <2>2
<1> QED
  BY <1>1, <1>2, <1>3

LEMMA InnerFacts ==
    ASSUME NEW amount \in Nat, Rem \in Nat, stash \in BOOLEAN
    PROVE  /\ \A r \in Inner(amount, FALSE) :
                Answer(amount, r) /\ (fate = "eof" /\ ~stash => r.ok)
           /\ \A r \in Inner(amount, TRUE) :
                /\ Answer(amount, r) /\ (r.ok => r.n >= amount)
                /\ fate = "eof" /\ ~stash /\ amount <= Rem => r.ok
<1>1. ASSUME NEW r, r = Res(FALSE, 0, FALSE)
      PROVE  Answer(amount, r) /\ ~r.ok
  <2>1. ~r.ok /\ r.n = 0 /\ ~r.stash /\ r.ok \in BOOLEAN /\ r.stash \in BOOLEAN
    BY <1>1, ResFacts, Zenon
  <2>2. r.n \in Nat /\ r.n <= Rem
    BY <2>1
  <2> QED
    BY <2>1, <2>2, Zenon DEF Answer
<1>2. ASSUME NEW r, r = Res(TRUE, Rem, TRUE), fate = "error"
      PROVE  Answer(amount, r)
  <2>1. /\ r.ok /\ r.n = Rem /\ r.stash /\ r.ok \in BOOLEAN /\ r.stash \in BOOLEAN
        /\ fate = "error"
    BY <1>2, ResFacts, Zenon
  <2>2. r.n \in Nat /\ r.n <= Rem /\ fate # "eof"
    BY <2>1
  <2> QED
    BY <2>1, <2>2, Zenon DEF Answer
<1>3. ASSUME NEW r, r = Res(TRUE, Rem, FALSE)
      PROVE  Answer(amount, r) /\ r.ok /\ (amount <= Rem => r.n >= amount)
  <2>1. r.ok /\ r.n = Rem /\ ~r.stash /\ r.ok \in BOOLEAN /\ r.stash \in BOOLEAN
    BY <1>3, ResFacts, Zenon
  <2>2. r.n \in Nat /\ r.n <= Rem /\ (amount <= Rem => r.n >= amount)
    BY <2>1
  <2> QED
    BY <2>1, <2>2, Zenon DEF Answer
<1>4. ASSUME NEW r, r = Res(TRUE, amount, FALSE), amount <= Rem
      PROVE  Answer(amount, r) /\ r.ok /\ r.n >= amount
  <2>1. /\ r.ok /\ r.n = amount /\ ~r.stash /\ r.ok \in BOOLEAN /\ r.stash \in BOOLEAN
        /\ amount <= Rem
    BY <1>4, ResFacts, Zenon
  <2>2. r.n \in Nat /\ r.n <= Rem /\ ~(r.n < amount) /\ r.n >= amount
    BY <2>1
  <2> QED
    BY <2>1, <2>2, Zenon DEF Answer
<1>5. ASSUME NEW r \in Inner(amount, FALSE)
      PROVE  Answer(amount, r) /\ (fate = "eof" /\ ~stash => r.ok)
  <2>1. \/ r = Res(FALSE, 0, FALSE) /\ (stash \/ fate = "error")
        \/ r = Res(TRUE, Rem, TRUE) /\ fate = "error" /\ amount > Rem
        \/ /\ r \in {Res(TRUE, amount, FALSE), Res(TRUE, Rem, FALSE)}
           /\ amount > Rem => r = Res(TRUE, Rem, FALSE)
    BY <1>5, InnerForms, Zenon
  <2>2. fate = "error" => fate # "eof"
    OBVIOUS
  <2>3. amount > Rem \/ amount <= Rem
    OBVIOUS
  <2> QED
    BY <1>1, <1>2, <1>3, <1>4, <2>1, <2>2, <2>3, Zenon
<1>6. ASSUME NEW r \in Inner(amount, TRUE)
      PROVE  /\ Answer(amount, r) /\ (r.ok => r.n >= amount)
             /\ fate = "eof" /\ ~stash /\ amount <= Rem => r.ok
  <2>1. \/ r = Res(FALSE, 0, FALSE) /\ (stash \/ amount > Rem)
        \/ r \in {Res(TRUE, amount, FALSE), Res(TRUE, Rem, FALSE)} /\ amount <= Rem
    BY <1>6, InnerForms, Zenon
  <2>2. amount > Rem => ~(amount <= Rem)
    OBVIOUS
  <2>3. CASE r = Res(FALSE, 0, FALSE) /\ (stash \/ amount > Rem)
    BY <1>1, <2>2, <2>3, Zenon
  <2>4. CASE r = Res(TRUE, amount, FALSE) /\ amount <= Rem
    BY <1>4, <2>4, Zenon
  <2>5. CASE r = Res(TRUE, Rem, FALSE) /\ amount <= Rem
    BY <1>3, <2>5, Zenon
  <2> QED
    BY <2>1, <2>3, <2>4, <2>5, Zenon
<1> QED
  BY <1>5, <1>6, Zenon

LEMMA OpenStep == ASSUME Inv, OpenBody PROVE Inv'
<1>0. /\ phase = "sent" /\ UNCHANGED <<threshold, maxChunk, body, out, buffer, other>>
      /\ UNCHANGED <<stash, hashed, last, buf, ready, got>>
      /\ fate' \in {"eof", "error"} /\ hash_headers' \in BOOLEAN
  BY DEF OpenBody, writer
<1>1. /\ Chunked(out, body) /\ Closed(out) /\ Unread /\ body \in Nat
  BY <1>0 DEF Inv, WriteInv, Split
<1>2. /\ out \in Seq(Symbols) /\ out # <<>> /\ Len(out) \in Nat \ {0}
      /\ \A i \in 1 .. Len(out) : out[i] \in Symbols
  BY <1>1 DEF Chunked, Closed
<1>3. PICK cut \in 0 .. Len(out) :
        input' = IF cut = Len(out) THEN out \o <<Tail_, Tail_>> ELSE SubSeq(out, 1, cut)
  BY DEF OpenBody
<1>4. InputInv'
  <2>1. CASE cut = Len(out)
    <3>1. Tail_ \in Symbols
      BY DEF Tail_, Symbols
    <3>2. <<Tail_, Tail_>> \in Seq(Symbols)
      BY <3>1
    <3>3. /\ input' \in Seq(Symbols) /\ Len(input') = Len(out) + 2
          /\ \A i \in 1 .. Len(out) + 2 : i <= Len(out) => input'[i] = out[i]
      BY <1>2, <1>3, <2>1, <3>2
    <3> QED
      BY <1>0, <1>1, <1>3, <2>1, <3>3 DEF InputInv
  <2>2. CASE cut # Len(out)
    <3>1. /\ input' = SubSeq(out, 1, cut) /\ cut \in Nat /\ cut < Len(out)
      BY <1>2, <1>3, <2>2
    <3>2. /\ input' \in Seq(Symbols) /\ Len(input') = cut
          /\ \A i \in 1 .. cut : input'[i] = out[i]
      <4>1. \A x \in 1 .. cut : out[x] \in Symbols
        BY <1>2, <3>1
      <4>2. /\ input' \in Seq(Symbols) /\ Len(input') = IF 1 <= cut THEN cut - 1 + 1 ELSE 0
            /\ \A x \in 1 .. cut - 1 + 1 : input'[x] = out[1 + x - 1]
        BY <1>2, <3>1, <4>1, SubSeqProperties
      <4>3. cut - 1 + 1 = cut /\ \A x \in 1 .. cut : 1 + x - 1 = x
        BY <3>1
      <4> QED
        BY <3>1, <4>2, <4>3
    <3> QED
      BY <1>0, <1>1, <3>1, <3>2 DEF InputInv
  <2> QED
    BY <2>1, <2>2
<1>5. /\ got' = <<>> /\ Len(got') = 0 /\ got' = Run(0, 0) /\ buf' = <<>> /\ hashed' = <<>>
      /\ ~stash' /\ ~last' /\ ready' = 0 /\ pos = 0 /\ call = NoCall /\ ended = "none"
  BY <1>0, <1>1, RunNone DEF Unread
<1>6. CASE input' = <<>>
  <2>1. /\ phase' = "done" /\ ended' = "err" /\ pos' = 0 /\ call' = NoCall
    BY <1>5, <1>6 DEF OpenBody
  <2>2. Len(input') = 0
    BY <1>6
  <2>3. DoneInv'
    BY <1>0, <1>1, <1>2, <1>5, <2>1, <2>2 DEF DoneInv, Intact
  <2> QED
    BY <1>0, <1>1, <1>4, <1>5, <2>1, <2>3 DEF Inv
<1>7. CASE input' # <<>>
  <2> DEFINE x == out[1]
  <2>1. Len(input') \in Nat \ {0} /\ input'[1] = x
    <3>1. /\ input' \in Seq(Symbols) /\ \A i \in 1 .. Len(input') : i <= Len(out) => input'[i] = out[i]
      BY <1>0, <1>4 DEF InputInv
    <3>2. Len(input') \in Nat \ {0}
      BY <1>7, <3>1
    <3> QED
      BY <1>2, <3>1, <3>2
  <2>2. /\ phase' = "read" /\ pos' = 1 /\ left' = x.n /\ UNCHANGED <<ended, call>>
        /\ kind' = IF x.k = "full" THEN "limitor" ELSE "partial"
    BY <1>7, <2>1 DEF OpenBody
  <2>3. IsLen(x) /\ ChunkAt(out, body, 1) /\ x \in Symbols
    BY <1>1, <1>2 DEF Chunked
  <2>4. /\ x.k \in {"full", "partial"} /\ x.n \in Nat /\ 1 + x.n <= Len(out) /\ x.n <= body
        /\ \A j \in 1 .. x.n : out[1 + j] = Byte(0 + j)
        /\ x.k = "full" => 1 + x.n = Len(out) /\ x.n = body
        /\ 1 + x.n < Len(out) => IsLen(out[1 + x.n + 1])
    BY <2>3 DEF ChunkAt, Base, IsLen, Symbols
  <2>5. x.k = "partial" => 1 + x.n < Len(out)
    BY <1>1, <1>2 DEF Closed
  <2>6. call' = NoCall /\ call'.stage = "none" /\ call'.op = "none" /\ call'.amount = 0
        /\ call'.fill = <<>>
    BY <1>5, <2>2 DEF NoCall
  <2>7. Held' = <<>> /\ Len(Held') = 0 /\ Taken' = 0 /\ Held' = Run(0, 0)
    BY <1>5, <2>6, RunNone DEF Held, Taken, Fills
  <2> HIDE DEF x
  <2>8. InChunk(pos, left, Taken)'
    <3>1. out'[1].k # "byte"
      BY <1>0, <2>4 DEF x
    <3> QED
      BY <1>0, <1>1, <2>1, <2>2, <2>4, <2>7, <3>1 DEF InChunk
  <2>9. AtLast' <=> x.k = "full"
    BY <1>5, <2>2 DEF AtLast
  <2>10. ChunkInv'
    BY <1>0, <1>1, <2>2, <2>4, <2>5, <2>7, <2>8, <2>9 DEF ChunkInv
  <2>11. ContentInv'
    BY <1>5, <2>7 DEF ContentInv
  <2>12. CallInv'
    <3>1. call' \in [op : Ops \cup {"none", "drop", "dropped", "eof"}, amount : Nat,
                     stage : Fills \cup {"none", "start"}, fill : Seq(Symbols)]
      BY <2>6 DEF NoCall
    <3> QED
      BY <1>5, <2>6, <3>1 DEF CallInv, Fills
  <2>13. ReadyInv'
    <3>1. pos' + ready' <= Len(input') /\ ready' <= left'
      BY <1>5, <2>1, <2>2, <2>4
    <3> QED
      BY <1>5, <2>6, <3>1 DEF ReadyInv, Consume
  <2>14. IntactInv'
    BY <1>5, <2>6 DEF IntactInv
  <2>15. ReadInv'
    BY <1>0, <1>5, <2>2, <2>4, <2>10, <2>11, <2>12, <2>13, <2>14 DEF ReadInv
  <2> QED
    BY <1>0, <1>1, <1>4, <1>5, <2>2, <2>15 DEF Inv
<1> QED
  BY <1>6, <1>7

\* What is known of a state in which the reader is at work.
LEMMA ReadFacts ==
    ASSUME Inv, phase = "read"
    PROVE  /\ InputInv /\ ChunkInv /\ ContentInv /\ CallInv /\ ReadyInv /\ IntactInv
           /\ pos \in Nat \ {0} /\ left \in Nat /\ Taken \in Nat /\ body \in Nat
           /\ Len(input) \in Nat /\ Len(out) \in Nat /\ Rem \in Nat
           /\ pos <= Len(input) /\ pos + left <= Len(out) /\ Taken + left <= body
           /\ InChunk(pos, left, Taken)
           /\ Len(got) \in Nat /\ Len(Held) \in Nat /\ Taken = Len(got) + Len(Held)
           /\ got \in Seq(Symbols) /\ Held \in Seq(Symbols) /\ hashed \in Seq(Symbols)
           /\ got = Run(0, Len(got)) /\ Held = Run(Len(got), Len(Held))
           /\ kind \in {"limitor", "partial"} /\ ended = "none"
           /\ ready \in Nat /\ call.amount \in Nat
           /\ Intact => Len(input) = Len(out) + 2
           /\ Rem = Len(input) - pos
<1>1. InputInv /\ ReadInv /\ body \in Nat
  BY DEF Inv
<1>2. ChunkInv /\ ContentInv /\ CallInv /\ ReadyInv /\ IntactInv
  BY <1>1 DEF ReadInv
<1>3. Len(input) \in Nat /\ Len(out) \in Nat
  BY <1>1 DEF InputInv, Chunked
<1>4. InChunk(pos, left, Taken)
  BY <1>2 DEF ChunkInv
<1>5. /\ pos \in Nat \ {0} /\ left \in Nat /\ Taken \in Nat
      /\ pos <= Len(input) /\ pos + left <= Len(out) /\ Taken + left <= body
  BY <1>4 DEF InChunk
<1>6. /\ Len(got) \in Nat /\ Len(Held) \in Nat /\ got = Run(0, Len(got))
      /\ Held = Run(Len(got), Len(Held)) /\ hashed \in Seq(Symbols)
  BY <1>2 DEF ContentInv
<1>7. got \in Seq(Symbols) /\ Held \in Seq(Symbols)
  BY <1>6, RunFacts
<1>8. Rem \in Nat /\ Rem = Len(input) - pos
  BY <1>3, <1>5 DEF Rem
<1>9. call.amount \in Nat /\ ready \in Nat
  BY <1>2 DEF CallInv, ReadyInv
<1> QED
  BY <1>1, <1>2, <1>3, <1>4, <1>5, <1>6, <1>7, <1>8, <1>9 DEF ReadInv, Taken, Intact

Frame == UNCHANGED <<threshold, maxChunk, buffer, other, body, out, input, fate, kind, hash_headers>>

LEMMA ReadFrom ==
    ASSUME Inv, phase = "read", Frame, phase' = "read", ended' = "none",
           stash' \in BOOLEAN, last' \in BOOLEAN,
           ChunkInv', ContentInv', CallInv', ReadyInv', IntactInv'
    PROVE  Inv'
<1>1. InputInv'
  BY DEF Inv, InputInv, Frame
<1>2. ReadInv'
  BY DEF Inv, ReadInv, Frame
<1> QED
  BY <1>1, <1>2 DEF Inv, Frame

LEMMA DoneFrom ==
    ASSUME Inv, phase = "read", Frame, phase' = "done",
           stash' \in BOOLEAN, last' \in BOOLEAN, DoneInv'
    PROVE  Inv'
<1>1. InputInv'
  BY DEF Inv, InputInv, Frame
<1> QED
  BY <1>1 DEF Inv, Frame

\* Nothing is taken.
LEMMA SameContent ==
    ASSUME Inv, phase = "read", Frame, UNCHANGED <<pos, left, last, hashed, got>>, Held' = Held
    PROVE  ChunkInv' /\ ContentInv' /\ Taken' = Taken
<1>1. Taken' = Taken
  BY DEF Taken
<1>2. AtLast' = AtLast
  BY DEF AtLast, Frame
<1>3. ChunkInv'
  BY <1>1, <1>2, ReadFacts DEF ChunkInv, InChunk, Frame
<1>4. ContentInv'
  BY <1>1, ReadFacts DEF ContentInv, Frame
<1> QED
  BY <1>1, <1>3, <1>4

\* n bytes are taken from what the reader keeps.
LEMMA TakeHeld ==
    ASSUME Inv, phase = "read", Frame, UNCHANGED <<pos, left, last, hashed>>,
           NEW n \in Nat, n <= Len(Held), got' = got \o SubSeq(Held, 1, n),
           Held' = SubSeq(Held, n + 1, Len(Held))
    PROVE  ChunkInv' /\ ContentInv' /\ Taken' = Taken /\ Len(Held') = Len(Held) - n
<1> DEFINE g == Len(got)
           h == Len(Held)
<1>1. /\ g \in Nat /\ h \in Nat /\ Taken = g + h /\ got = Run(0, g) /\ Held = Run(g, h)
  BY ReadFacts
<1> HIDE DEF g, h
<1>2. n <= h /\ got' = Run(0, g) \o SubSeq(Run(g, h), 1, n) /\ Held' = SubSeq(Run(g, h), n + 1, h)
  BY <1>1 DEF h
<1>3. SubSeq(Run(g, h), 1, n) = Run(g, n) /\ SubSeq(Run(g, h), n + 1, h) = Run(g + n, h - n)
  BY <1>1, <1>2, RunCut
<1>4. got' = Run(0, g + n) /\ Held' = Run(g + n, h - n)
  BY <1>1, <1>2, <1>3, RunMore
<1>5. g + n \in Nat /\ h - n \in Nat /\ (g + n) + (h - n) = g + h
  BY <1>1, <1>2
<1>6. Len(got') = g + n /\ Len(Held') = h - n
  BY <1>4, <1>5, RunFacts
<1>7. Taken' = Taken
  BY <1>1, <1>5, <1>6 DEF Taken
<1>8. AtLast' = AtLast
  BY DEF AtLast, Frame
<1>9. ChunkInv'
  BY <1>7, <1>8, ReadFacts DEF ChunkInv, InChunk, Frame
<1>10. ContentInv'
  BY <1>4, <1>5, <1>6, <1>7, ReadFacts DEF ContentInv, Frame
<1> QED
  BY <1>6, <1>7, <1>9, <1>10 DEF h

\* n bytes are taken from the chunk.
LEMMA MoveChunk ==
    ASSUME Inv, phase = "read", Frame, last' = last, NEW n \in Nat, n <= left,
           pos + n <= Len(input), pos' = pos + n, left' = left - n, Taken' = Taken + n,
           hashed' = hashed \o SubSeq(input, pos + 1, pos + n)
    PROVE  /\ ChunkInv' /\ hashed' \in Seq(Symbols) /\ (~hash_headers' => hashed' = Run(0, Taken'))
           /\ SubSeq(input, pos + 1, pos + n) = Run(Taken, n)
<1>0. /\ InputInv /\ InChunk(pos, left, Taken) /\ pos \in Nat /\ left \in Nat /\ Taken \in Nat
      /\ pos + n <= Len(input)
  BY ReadFacts
<1>1. InChunk(pos + n, left - n, Taken + n) /\ SubSeq(input, pos + 1, pos + n) = Run(Taken, n)
  BY <1>0, TakeBytes
<1>2. InChunk(pos, left, Taken)'
  BY <1>1 DEF InChunk, Frame
<1>3. AtLast' = AtLast
  BY DEF AtLast, Frame
<1>4. pos' + left' = pos + left /\ Taken' + left' = Taken + left
  BY <1>0
<1>5. ChunkInv'
  BY <1>2, <1>3, <1>4, ReadFacts DEF ChunkInv, Frame
<1>6. ~hash_headers => Run(0, Taken) \o Run(Taken, n) = Run(0, Taken + n)
  BY ReadFacts, RunMore
<1>7. ~hash_headers => hashed = Run(0, Taken)
  BY ReadFacts DEF ContentInv
<1>8. hashed' \in Seq(Symbols)
  <2>1. hashed \in Seq(Symbols) /\ Run(Taken, n) \in Seq(Symbols)
    BY <1>0, ReadFacts, RunFacts
  <2>2. hashed' = hashed \o Run(Taken, n)
    BY <1>1, Zenon
  <2>3. hashed \o Run(Taken, n) \in Seq(Symbols)
    BY <2>1, ConcatProperties
  <2> QED
    BY <2>2, <2>3, Zenon
<1> QED
  BY <1>1, <1>5, <1>6, <1>7, <1>8 DEF Frame

\* n bytes go to the caller straight from the chunk.
LEMMA TakeDirect ==
    ASSUME Inv, phase = "read", Frame, last' = last, NEW n \in Nat, n <= left,
           pos + n <= Len(input), Held = <<>>, Held' = <<>>,
           got' = got \o SubSeq(input, pos + 1, pos + n),
           pos' = pos + n, left' = left - n,
           hashed' = hashed \o SubSeq(input, pos + 1, pos + n)
    PROVE  ChunkInv' /\ ContentInv'
<1> DEFINE g == Len(got)
<1>1. /\ InputInv /\ InChunk(pos, left, Taken) /\ g \in Nat /\ got = Run(0, g)
      /\ Taken = g + Len(Held)
  BY ReadFacts
<1>2. Len(Held) = 0 /\ Len(Held') = 0
  OBVIOUS
<1>3. Taken = g
  BY <1>1, <1>2
<1>4. SubSeq(input, pos + 1, pos + n) = Run(g, n)
  BY <1>1, <1>3, TakeBytes
<1> HIDE DEF g
<1>a. Run(0, g) \o Run(g, n) = Run(0, g + n)
  BY <1>1, RunMore
<1>b. got' = Run(0, g) \o Run(g, n)
  BY <1>1, <1>4
<1>d. g + n \in Nat
  BY <1>1
<1>5. got' = Run(0, g + n) /\ g + n \in Nat
  BY <1>a, <1>b, <1>d, Zenon
<1>6. Len(got') = g + n
  BY <1>5, RunFacts
<1>c. Taken' = Len(got') + Len(Held')
  BY DEF Taken
<1>7. Taken' = Taken + n
  BY <1>2, <1>3, <1>5, <1>6, <1>c
<1>8. ChunkInv' /\ hashed' \in Seq(Symbols) /\ (~hash_headers' => hashed' = Run(0, Taken'))
  BY <1>7, MoveChunk
<1>9. Held' = Run(Len(got'), Len(Held'))
  BY <1>2, <1>5, <1>6, RunNone
<1> QED
  BY <1>2, <1>5, <1>6, <1>8, <1>9 DEF ContentInv

LEMMA CallFields ==
    /\ \A o, n : /\ Call(o, n).op = o /\ Call(o, n).amount = n
                 /\ Call(o, n).stage = "start" /\ Call(o, n).fill = <<>>
    /\ NoCall.op = "none" /\ NoCall.amount = 0 /\ NoCall.stage = "none" /\ NoCall.fill = <<>>
  BY DEF Call, NoCall

\* A call that begins, or none.
LEMMA NewCall ==
    ASSUME kind' = "limitor" => buf' = <<>>,
           \/ call' = NoCall
           \/ \E o \in Ops : \E n \in Nat : call' = Call(o, n)
           \/ call' = Call("drop", BufSize)
           \/ call' = Call("eof", 1)
           \/ call' = [NoCall EXCEPT !.op = "dropped"]
    PROVE  CallInv' /\ call'.stage \in {"none", "start"} /\ call'.stage \notin Fills /\ Held' = buf'
<1> DEFINE T == [op : Ops \cup {"none", "drop", "dropped", "eof"}, amount : Nat,
                 stage : Fills \cup {"none", "start"}, fill : Seq(Symbols)]
<1>1. CASE call' = NoCall
  <2>1. call' \in T
    BY <1>1 DEF NoCall
  <2> QED
    BY <1>1, <2>1, CallFields DEF CallInv, Fills, Held
<1>2. CASE \E o \in Ops : \E n \in Nat : call' = Call(o, n)
  <2>1. PICK o \in Ops : \E n \in Nat : call' = Call(o, n)
    BY <1>2
  <2>2. PICK n \in Nat : call' = Call(o, n)
    BY <2>1
  <2>3. call' \in T
    BY <2>2 DEF Call
  <2> QED
    BY <2>2, <2>3, CallFields DEF CallInv, Fills, Held, Ops
<1>3. CASE call' = Call("drop", BufSize)
  <2>1. call' \in T
    BY <1>3, PartialBodyAssumption DEF Call
  <2> QED
    BY <1>3, <2>1, CallFields DEF CallInv, Fills, Held
<1>4. CASE call' = Call("eof", 1)
  <2>1. call' \in T
    BY <1>4 DEF Call
  <2> QED
    BY <1>4, <2>1, CallFields DEF CallInv, Fills, Held
<1>5. CASE call' = [NoCall EXCEPT !.op = "dropped"]
  <2>1. /\ call' = [op |-> "dropped", amount |-> 0, stage |-> "none", fill |-> <<>>]
        /\ call'.op = "dropped" /\ call'.stage = "none"
    BY <1>5 DEF NoCall
  <2>2. call' \in T
    BY <2>1
  <2> QED
    BY <2>1, <2>2 DEF CallInv, Fills, Held
<1> QED
  BY <1>1, <1>2, <1>3, <1>4, <1>5

\* What the last call has shown is consumed.
LEMMA UsedFacts ==
    ASSUME Inv, phase = "read", Frame, last' = last, call.stage = "none", Held' = buf',
           NEW n \in Nat, n <= ready, Used(n)
    PROVE  /\ ChunkInv' /\ ContentInv' /\ stash' = stash
           /\ IF buf = <<>> THEN left' = left - n /\ pos' = pos + n /\ buf' = <<>>
              ELSE left' = left /\ pos' = pos /\ Len(buf') = Len(buf) - n
<1>1. Held = buf
  BY DEF Held, Fills
<1>2. /\ ready \in Nat /\ pos \in Nat /\ left \in Nat /\ Len(input) \in Nat /\ Len(Held) \in Nat
      /\ ReadyInv
  BY ReadFacts
<1>3. CASE buf = <<>>
  <2>1. ready <= left /\ pos + ready <= Len(input)
    BY <1>2, <1>3 DEF ReadyInv
  <2>2. n <= left /\ pos + n <= Len(input)
    BY <1>2, <2>1
  <2>3. /\ got' = got \o SubSeq(input, pos + 1, pos + n) /\ left' = left - n /\ pos' = pos + n
        /\ stash' = stash /\ hashed' = hashed \o SubSeq(input, pos + 1, pos + n) /\ buf' = buf
    BY <1>3 DEF Used, Took
  <2>4. ChunkInv' /\ ContentInv'
    BY <1>1, <1>3, <2>2, <2>3, TakeDirect
  <2> QED
    BY <1>3, <2>3, <2>4
<1>4. CASE buf # <<>>
  <2>1. ready <= Len(buf)
    BY <1>2, <1>4 DEF ReadyInv
  <2>2. n <= Len(Held)
    BY <1>1, <1>2, <2>1
  <2>3. /\ buf' = SubSeq(Held, n + 1, Len(Held)) /\ got' = got \o SubSeq(Held, 1, n)
        /\ UNCHANGED <<pos, stash, hashed, left>>
    BY <1>1, <1>4 DEF Used, inner
  <2>4. ChunkInv' /\ ContentInv' /\ Len(Held') = Len(Held) - n
    BY <2>2, <2>3, TakeHeld
  <2> QED
    BY <1>1, <1>4, <2>3, <2>4
<1> QED
  BY <1>3, <1>4

-----------------------------------------------------------------------------
(***************************************************************************)
(* Calls.                                                                  *)
(***************************************************************************)
LEMMA ConsumeStep == ASSUME Inv, NEW n, consume(n) PROVE Inv'
<1>1. /\ phase = "read" /\ phase' = "read" /\ call = NoCall /\ call' = NoCall /\ n \in 1 .. ready
      /\ Used(n) /\ ready' = ready - n /\ Frame /\ last' = last /\ ended' = ended
  BY DEF consume, Frame, writer, source
<1>2. call.stage = "none" /\ call'.stage = "none" /\ call'.op = "none"
  BY <1>1, CallFields
<1>3. Held' = buf'
  BY <1>2 DEF Held, Fills
<1>4. /\ ready \in Nat /\ left \in Nat /\ pos \in Nat /\ Len(input) \in Nat /\ pos <= Len(input)
      /\ ReadyInv /\ IntactInv /\ CallInv /\ ended = "none" /\ pos' \in Int
  <2>1. /\ ready \in Nat /\ left \in Nat /\ pos \in Nat /\ Len(input) \in Nat /\ pos <= Len(input)
        /\ ReadyInv /\ IntactInv /\ CallInv /\ ended = "none"
    BY <1>1, ReadFacts
  <2> QED
    BY <1>1, <2>1 DEF Used, Took, inner
<1>5. n \in Nat /\ n <= ready /\ ready' \in Nat
  BY <1>1, <1>4
<1>6. /\ ChunkInv' /\ ContentInv' /\ stash' = stash
      /\ IF buf = <<>> THEN left' = left - n /\ pos' = pos + n /\ buf' = <<>>
         ELSE left' = left /\ pos' = pos /\ Len(buf') = Len(buf) - n
  BY <1>1, <1>2, <1>3, <1>5, UsedFacts
<1>7. CallInv'
  <2>1. kind' = "limitor" => buf' = <<>>
    BY <1>1, <1>4, <1>6 DEF CallInv, Frame
  <2> QED
    BY <1>1, <2>1, NewCall
<1>8. ReadyInv'
  <2>1. input' = input
    BY <1>1 DEF Frame
  <2>2. CASE buf = <<>>
    <3>1. ready <= left /\ pos + ready <= Len(input)
      BY <1>2, <1>4, <2>2 DEF ReadyInv
    <3>2. ready' <= left' /\ pos' + ready' <= Len(input)
      BY <1>1, <1>4, <1>5, <1>6, <2>2, <3>1
    <3> QED
      BY <1>2, <1>5, <1>6, <2>1, <2>2, <3>2 DEF ReadyInv
  <2>3. CASE buf # <<>>
    <3>1. ready <= Len(buf)
      BY <1>2, <1>4, <2>3 DEF ReadyInv
    <3>2. Len(buf) \in Nat
      <4>1. Held = buf
        BY <1>2 DEF Held, Fills
      <4> QED
        BY <1>1, <4>1, ReadFacts
    <3>3. ready' <= Len(buf')
      BY <1>1, <1>4, <1>5, <1>6, <2>3, <3>1, <3>2
    <3>4. buf' = <<>> => ready' = 0
      <4>1. buf' = <<>> => Len(buf') = 0
        OBVIOUS
      <4> QED
        BY <1>5, <3>3, <4>1
    <3>5. ready' = 0 => ready' <= left' /\ pos' + ready' <= Len(input)
      BY <1>4, <1>6, <2>3
    <3> QED
      BY <1>2, <1>5, <2>1, <3>3, <3>4, <3>5 DEF ReadyInv
  <2> QED
    BY <2>2, <2>3
<1>9. IntactInv'
  <2>1. Intact' = Intact
    BY <1>1 DEF Intact, Frame
  <2> QED
    BY <1>2, <1>4, <1>6, <2>1 DEF IntactInv
<1> QED
  BY <1>1, <1>4, <1>6, <1>7, <1>8, <1>9, ReadFrom DEF Inv

LEMMA AskStep ==
    ASSUME Inv, NEW o \in Ops, NEW n \in Nat, Ask(o, n)
    PROVE  Inv'
<1>1. /\ phase = "read" /\ phase' = "read" /\ call = NoCall /\ call' = Call(o, n)
      /\ UNCHANGED <<pos, stash, hashed, left, last, buf, ready, got, ended>> /\ Frame
  BY DEF Ask, Frame, writer, source, inner, reader
<1>2. call.stage = "none" /\ call'.stage = "start" /\ call'.op = o /\ call'.amount = n
  BY <1>1, CallFields
<1>3. Held' = buf' /\ Held = buf
  BY <1>2 DEF Held, Fills
<1>4. /\ ReadyInv /\ IntactInv /\ CallInv /\ ended = "none"
  BY <1>1, ReadFacts
<1>5. ChunkInv' /\ ContentInv'
  BY <1>1, <1>3, SameContent
<1>6. CallInv'
  <2>1. kind' = "limitor" => buf' = <<>>
    BY <1>1, <1>4 DEF CallInv, Frame
  <2> QED
    BY <1>1, <2>1, NewCall
<1>7. ReadyInv'
  BY <1>1, <1>2, <1>4 DEF ReadyInv, Frame
<1>8. IntactInv'
  <2>1. Intact' = Intact
    BY <1>1 DEF Intact, Frame
  <2>2. o \notin {"dropped", "eof"}
    BY DEF Ops
  <2> QED
    BY <1>1, <1>2, <1>4, <2>1, <2>2 DEF IntactInv
<1> QED
  BY <1>1, <1>4, <1>5, <1>6, <1>7, <1>8, ReadFrom DEF Inv

LEMMA FinishStep == ASSUME Inv, Finish PROVE Inv'
<1>1. /\ phase = "read" /\ phase' = "read" /\ call = NoCall /\ call' = Call("drop", BufSize)
      /\ UNCHANGED <<pos, stash, hashed, left, last, buf, got, ended>> /\ Frame /\ ready' = 0
  BY DEF Finish, Frame, writer, source, inner, reader
<1>2. call.stage = "none" /\ call'.stage = "start" /\ call'.op = "drop"
  BY <1>1, CallFields
<1>3. Held' = buf' /\ Held = buf
  BY <1>2 DEF Held, Fills
<1>4. /\ IntactInv /\ CallInv /\ ended = "none" /\ left \in Nat /\ pos \in Nat /\ pos <= Len(input)
      /\ Len(Held) \in Nat
  BY <1>1, ReadFacts
<1>5. ChunkInv' /\ ContentInv'
  BY <1>1, <1>3, SameContent
<1>6. CallInv'
  <2>1. kind' = "limitor" => buf' = <<>>
    BY <1>1, <1>4 DEF CallInv, Frame
  <2> QED
    BY <1>1, <2>1, NewCall
<1>7. ReadyInv'
  <2>1. 0 <= left /\ pos + 0 <= Len(input) /\ 0 <= Len(buf)
    BY <1>3, <1>4
  <2> QED
    BY <1>1, <1>2, <2>1 DEF ReadyInv, Consume, Frame
<1>8. IntactInv'
  <2>1. Intact' = Intact
    BY <1>1 DEF Intact, Frame
  <2> QED
    BY <1>1, <1>2, <1>4, <2>1 DEF IntactInv
<1> QED
  BY <1>1, <1>4, <1>5, <1>6, <1>7, <1>8, ReadFrom DEF Inv

\* There is no call unless the reader is at work.
LEMMA CallsAreRead == ASSUME Inv, call # NoCall PROVE phase = "read"
  BY DEF Inv, WriteInv, Unread, DoneInv

LEMMA DroppedStep == ASSUME Inv, Dropped PROVE Inv'
<1>0. call.op = "dropped"
  BY DEF Dropped
<1>1. /\ phase = "read" /\ phase' = "read" /\ Used(ready) /\ ready' = 0
      /\ Frame /\ last' = last /\ ended' = ended
      /\ call' = IF ready < BufSize THEN Call("eof", 1) ELSE Call("drop", BufSize)
  <2>1. call # NoCall
    BY <1>0, CallFields
  <2> QED
    BY <2>1, CallsAreRead DEF Dropped, Frame, writer, source
<1>2. /\ ready \in Nat /\ left \in Nat /\ pos \in Nat /\ Len(input) \in Nat /\ pos <= Len(input)
      /\ ReadyInv /\ IntactInv /\ CallInv /\ ended = "none" /\ BufSize \in Nat
  BY <1>1, ReadFacts, PartialBodyAssumption
<1>3. call.stage = "none"
  BY <1>0, <1>2 DEF CallInv
<1>4. call'.stage = "start" /\ call'.op = IF ready < BufSize THEN "eof" ELSE "drop"
  BY <1>1, CallFields
<1>5. Held' = buf' /\ Held = buf
  BY <1>3, <1>4 DEF Held, Fills
<1>6. /\ ChunkInv' /\ ContentInv' /\ stash' = stash
      /\ IF buf = <<>> THEN left' = left - ready /\ pos' = pos + ready /\ buf' = <<>>
         ELSE left' = left /\ pos' = pos /\ Len(buf') = Len(buf) - ready
  BY <1>1, <1>2, <1>3, <1>5, UsedFacts
<1>7. CallInv'
  <2>1. kind' = "limitor" => buf' = <<>>
    BY <1>1, <1>2, <1>6 DEF CallInv, Frame
  <2> QED
    BY <1>1, <2>1, NewCall
<1>8. pos' \in Nat /\ left' \in Nat /\ pos' <= Len(input') /\ Len(buf') \in Nat
  BY <1>5, <1>6 DEF ChunkInv, InChunk, ContentInv
<1>9. ReadyInv'
  <2>1. 0 <= left' /\ pos' + 0 <= Len(input') /\ 0 <= Len(buf')
    BY <1>8
  <2>2. ~Consume'
    BY <1>4 DEF Consume
  <2> QED
    BY <1>1, <2>1, <2>2 DEF ReadyInv
<1>10. IntactInv'
  <2>1. Intact' = Intact /\ AtLast' = AtLast
    BY <1>1 DEF Intact, Frame, AtLast
  <2> SUFFICES ASSUME Intact
               PROVE  ~stash' /\ (call'.op = "eof" => Empty' /\ Held' = <<>>)
    BY <1>4, <2>1 DEF IntactInv
  <2>2. ~stash
    BY <1>2 DEF IntactInv
  <2>3. ASSUME call'.op = "eof" PROVE Empty' /\ Held' = <<>>
    <3>1. ready < BufSize
      BY <1>4, <2>3
    <3>2. AtLast /\ IF buf = <<>> THEN ready = left ELSE ready = Len(buf) /\ left = 0
      BY <1>0, <1>2, <3>1 DEF IntactInv
    <3>3. CASE buf = <<>>
      <4>1. left' = 0
        BY <1>2, <1>6, <3>2, <3>3
      <4> QED
        BY <1>5, <1>6, <2>1, <3>2, <3>3, <4>1 DEF Empty
    <3>4. CASE buf # <<>>
      <4>1. left' = 0 /\ Len(Held') = 0
        BY <1>2, <1>5, <1>6, <3>2, <3>4
      <4>2. Held' \in Seq(Symbols)
        <5>1. Len(got') \in Nat /\ Len(Held') \in Nat /\ Held' = Run(Len(got'), Len(Held'))
          BY <1>6 DEF ContentInv
        <5> QED
          BY <5>1, RunFacts
      <4>3. Held' = <<>>
        BY <4>1, <4>2
      <4> QED
        BY <2>1, <3>2, <4>1, <4>3 DEF Empty
    <3> QED
      BY <3>3, <3>4
  <2> QED
    BY <1>6, <2>2, <2>3
<1> QED
  BY <1>1, <1>2, <1>6, <1>7, <1>9, <1>10, ReadFrom DEF Inv

\* The caller has the control again.
LEMMA Returned ==
    ASSUME Inv, phase = "read", Frame, phase' = "read", ended' = ended, last' = last,
           stash' \in BOOLEAN, Intact => ~stash', ChunkInv', ContentInv',
           kind' = "limitor" => buf' = <<>>, ready' = 0, call' = NoCall
    PROVE  Inv'
<1>1. CallInv' /\ Held' = buf' /\ call'.stage = "none" /\ call'.op = "none"
  BY NewCall, CallFields
<1>2. pos' \in Nat /\ left' \in Nat /\ pos' <= Len(input') /\ Len(buf') \in Nat
  BY <1>1 DEF ChunkInv, InChunk, ContentInv
<1>3. ReadyInv'
  <2>1. 0 <= left' /\ pos' + 0 <= Len(input') /\ 0 <= Len(buf')
    BY <1>2
  <2> QED
    BY <1>1, <2>1 DEF ReadyInv
<1>4. Intact' = Intact
  BY DEF Intact, Frame
<1>5. IntactInv'
  BY <1>1, <1>4 DEF IntactInv
<1>6. ended = "none" /\ last \in BOOLEAN
  BY ReadFacts DEF Inv
<1> QED
  BY <1>1, <1>3, <1>5, <1>6, ReadFrom

\* The reader keeps what it has.
LEMMA KeptFacts ==
    ASSUME Inv, phase = "read", Frame, UNCHANGED <<pos, left, last, hashed, got>>,
           buf' = Held, call'.stage \notin Fills
    PROVE  /\ ChunkInv' /\ ContentInv' /\ Held' = Held /\ (kind' = "limitor" => buf' = <<>>)
<1>1. Held' = buf'
  BY DEF Held
<1>2. kind' = "limitor" => buf' = <<>>
  BY ReadFacts DEF CallInv, Held, Frame
<1> QED
  BY <1>1, <1>2, SameContent

\* The packet is left.
LEMMA LeftFacts ==
    ASSUME Inv, phase = "read", Frame, UNCHANGED <<pos, left, last, hashed, got>>,
           call' = NoCall, phase' = "done", stash' \in BOOLEAN,
           ended' \in {"ok", "err", "leftover"},
           ended' = "ok" => consummated /\ Held = <<>>,
           ended' # "ok" => ~Intact
    PROVE  Inv'
<1>1. /\ ChunkInv /\ InputInv /\ Len(got) \in Nat /\ Len(Held) \in Nat /\ Taken = Len(got) + Len(Held)
      /\ pos \in Nat /\ left \in Nat /\ body \in Nat /\ Len(out) \in Nat /\ Len(input) \in Nat
      /\ pos + left <= Len(out) /\ Taken + left <= body /\ pos <= Len(input)
      /\ got = Run(0, Len(got)) /\ ContentInv
      /\ kind \in {"limitor", "partial"}
  BY ReadFacts
<1>2. Len(got) <= body /\ pos <= Len(out)
  BY <1>1
<1>3. ASSUME ended' = "ok"
      PROVE  /\ pos = Len(out) /\ Len(got) = body /\ Len(input) = Len(out) + 2
             /\ ~hash_headers => hashed = Run(0, body)
  <2>1. left = 0 /\ AtLast /\ Held = <<>>
    BY <1>1, <1>3 DEF consummated, AtLast
  <2>2. Len(Held) = 0
    BY <2>1
  <2>3. pos + left = Len(out) /\ Taken + left = body
    BY <1>1, <2>1 DEF ChunkInv
  <2>4. pos = Len(out) /\ Len(got) = body /\ Taken = body
    BY <1>1, <2>1, <2>2, <2>3
  <2>5. ~(Len(input) < Len(out))
    BY <1>1, <2>4
  <2>6. Len(input) = Len(out) + 2
    <3>1. input = out \o <<Tail_, Tail_>> /\ out \in Seq(Symbols)
      BY <1>1, <2>5 DEF InputInv, Chunked
    <3>2. Tail_ \in Symbols
      BY DEF Tail_, Symbols
    <3>3. <<Tail_, Tail_>> \in Seq(Symbols) /\ Len(<<Tail_, Tail_>>) = 2
      BY <3>2
    <3> QED
      BY <3>1, <3>3
  <2>7. ~hash_headers => hashed = Run(0, body)
    BY <1>1, <2>4 DEF ContentInv
  <2> QED
    BY <2>4, <2>6, <2>7
<1>4. Intact' = Intact
  BY DEF Intact, Frame
<1>5. DoneInv'
  <2>1. fate' \in {"eof", "error"}
    BY DEF Inv, ReadInv, Frame
  <2> QED
    BY <1>1, <1>2, <1>3, <1>4, <2>1 DEF DoneInv, Frame
<1>6. last \in BOOLEAN
  BY DEF Inv
<1> QED
  BY <1>5, <1>6, DoneFrom

LEMMA FailsStep ==
    ASSUME Inv, phase = "read", Frame, UNCHANGED <<pos, left, last, hashed>>, Fails,
           buf' = Held, stash' \in BOOLEAN, Intact => ~stash' /\ call.op # "drop",
           call.op = "eof" => Held = <<>>
    PROVE  Inv'
<1>1. got' = got /\ ready' = 0
  BY DEF Fails
<1>2. CASE call.op = "eof"
  <2>1. phase' = "done" /\ call' = NoCall /\ ended' = IF consummated THEN "ok" ELSE "err"
    BY <1>2 DEF Fails, Leave
  <2>2. Intact => consummated
    BY <1>2, ReadFacts DEF IntactInv, Empty, consummated, AtLast
  <2> QED
    BY <1>1, <1>2, <2>1, <2>2, LeftFacts
<1>3. CASE call.op = "drop"
  <2>1. phase' = "done" /\ call' = NoCall /\ ended' = "err"
    BY <1>3 DEF Fails
  <2> QED
    BY <1>1, <1>3, <2>1, LeftFacts
<1>4. CASE call.op # "eof" /\ call.op # "drop"
  <2>1. phase' = phase /\ call' = NoCall /\ ended' = ended
    BY <1>4 DEF Fails
  <2>2. call'.stage \notin Fills
    BY <2>1, CallFields DEF Fills
  <2>3. ChunkInv' /\ ContentInv' /\ (kind' = "limitor" => buf' = <<>>)
    BY <1>1, <2>2, KeptFacts
  <2> QED
    BY <1>1, <2>1, <2>3, Returned
<1> QED
  BY <1>2, <1>3, <1>4

LEMMA ShowsStep ==
    ASSUME Inv, phase = "read", Frame, UNCHANGED <<pos, left, last, hashed>>,
           NEW seen, Shows(seen), Len(seen) \in Nat,
           buf' = Held, stash' \in BOOLEAN, Intact => ~stash' /\ call.op # "eof",
           IF Held = <<>> THEN Len(seen) <= left /\ pos + Len(seen) <= Len(input)
           ELSE Len(seen) <= Len(Held),
           Intact /\ call.op = "drop" /\ Len(seen) < BufSize =>
             AtLast /\ IF Held = <<>> THEN Len(seen) = left ELSE Len(seen) = Len(Held) /\ left = 0
    PROVE  Inv'
<1>1. got' = got /\ ready' = Len(seen)
  BY DEF Shows
<1>2. CASE call.op = "eof"
  <2>1. phase' = "done" /\ call' = NoCall /\ ended' = "leftover"
    BY <1>2 DEF Shows, Leave
  <2> QED
    BY <1>1, <1>2, <2>1, LeftFacts
<1>3. CASE call.op # "eof"
  <2>1. /\ phase' = phase /\ ended' = ended
        /\ call' = IF call.op = "drop" THEN [NoCall EXCEPT !.op = "dropped"] ELSE NoCall
    BY <1>3 DEF Shows
  <2>2. call'.stage = "none" /\ call'.op = IF call.op = "drop" THEN "dropped" ELSE "none"
    BY <2>1 DEF NoCall
  <2>3. /\ ChunkInv' /\ ContentInv' /\ (kind' = "limitor" => buf' = <<>>) /\ Held' = Held
    BY <1>1, <2>2, KeptFacts DEF Fills
  <2>4. CallInv'
    BY <2>1, <2>3, NewCall
  <2>5. ReadyInv'
    BY <1>1, <2>2 DEF ReadyInv, Frame
  <2>6. Intact' = Intact /\ AtLast' = AtLast
    BY DEF Intact, Frame, AtLast
  <2>7. IntactInv'
    BY <1>1, <2>2, <2>6 DEF IntactInv
  <2>8. ended = "none" /\ last \in BOOLEAN
    BY ReadFacts DEF Inv
  <2> QED
    BY <2>1, <2>3, <2>4, <2>5, <2>7, <2>8, ReadFrom
<1> QED
  BY <1>2, <1>3

LEMMA LesserFacts ==
    ASSUME NEW a \in Nat, NEW b \in Nat
    PROVE  /\ Lesser(a, b) \in Nat /\ Lesser(a, b) <= a /\ Lesser(a, b) <= b
           /\ Lesser(a, b) \in {a, b} /\ (a <= b => Lesser(a, b) = a) /\ (b <= a => Lesser(a, b) = b)
  BY DEF Lesser

\* What can be seen of the chunk.
LEMMA SeenFacts ==
    ASSUME Inv, phase = "read", NEW m \in Nat, m <= left, m <= Rem
    PROVE  /\ pos + m <= Len(input) /\ SubSeq(input, pos + 1, pos + m) = Run(Taken, m)
           /\ Len(SubSeq(input, pos + 1, pos + m)) = m
<1>1. /\ InputInv /\ InChunk(pos, left, Taken) /\ Taken \in Nat
      /\ Rem = Len(input) - pos /\ Len(input) \in Nat /\ pos \in Nat
  BY ReadFacts
<1>2. pos + m <= Len(input)
  BY <1>1
<1>3. SubSeq(input, pos + 1, pos + m) = Run(Taken, m)
  BY <1>1, <1>2, TakeBytes
<1> QED
  BY <1>1, <1>2, <1>3, RunFacts

\* Nothing is taken from below.
LEMMA TookNone ==
    ASSUME Inv, phase = "read", NEW s, Took(0, s)
    PROVE  pos' = pos /\ hashed' = hashed /\ stash' = s
<1>1. /\ pos' = pos + 0 /\ stash' = s /\ hashed' = hashed \o SubSeq(input, pos + 1, pos + 0)
  BY DEF Took
<1>2. pos \in Nat /\ hashed \in Seq(Symbols) /\ left \in Nat /\ Rem \in Nat /\ Taken \in Nat
  BY ReadFacts
<1>3. SubSeq(input, pos + 1, pos + 0) = Run(Taken, 0)
  BY <1>2, SeenFacts
<1>4. Run(Taken, 0) = <<>>
  BY <1>2, RunNone
<1>5. hashed \o <<>> = hashed
  BY <1>2
<1> QED
  BY <1>1, <1>2, <1>3, <1>4, <1>5

\* Calls that are passed on to the reader below.
LEMMA PassStep ==
    ASSUME Inv, phase = "read", call.stage = "start", Frame, last' = last, buf = <<>>, buf' = buf,
           NEW amount \in {call.amount, left}, amount <= call.amount,
           call.amount <= left => amount = call.amount,
           call.op = "data_consume_hard" => amount = call.amount,
           call.amount <= left \/ AtLast, over \in Nat, PassOn(amount), over' = over
    PROVE  Inv'
<1>1. /\ ready \in Nat /\ left \in Nat /\ pos \in Nat /\ Len(input) \in Nat /\ pos <= Len(input)
      /\ ReadyInv /\ IntactInv /\ CallInv /\ Rem \in Nat /\ Rem = Len(input) - pos
      /\ pos + left <= Len(out) /\ Len(out) \in Nat /\ call.amount \in Nat /\ amount \in Nat
      /\ BufSize \in Nat /\ stash \in BOOLEAN
      /\ Intact => Len(input) = Len(out) + 2 /\ fate = "eof" /\ ~stash
  BY ReadFacts, PartialBodyAssumption DEF IntactInv, Inv, Intact
<1>2. Held = <<>>
  BY DEF Held, Fills
<1> DEFINE hard == call.op = "data_consume_hard"
<1>4. PICK r \in Inner(amount, hard) :
        LET n == IF r.ok /\ Consume THEN Lesser(amount, r.n) ELSE 0
            m == Lesser(r.n, left)
            seen == SubSeq(input, pos + 1, pos + m)
            fails == ~r.ok \/ (Hard /\ m < call.amount)
            counted == IF Consume /\ ~fails THEN Lesser(call.amount, m) ELSE 0
        IN /\ Took(n, r.stash)
           /\ left' = left - counted /\ over' = over + (n - counted)
           /\ IF fails THEN Fails ELSE IF Consume THEN Returns(seen) ELSE Shows(seen)
  BY DEF PassOn
<1> DEFINE n == IF r.ok /\ Consume THEN Lesser(amount, r.n) ELSE 0
           m == Lesser(r.n, left)
           seen == SubSeq(input, pos + 1, pos + m)
           fails == ~r.ok \/ (Hard /\ m < call.amount)
           counted == IF Consume /\ ~fails THEN Lesser(call.amount, m) ELSE 0
<1>5. /\ Took(n, r.stash) /\ (fails => Fails)
      /\ left' = left - counted /\ over' = over + (n - counted)
      /\ ~fails /\ Consume => Returns(seen) /\ counted = Lesser(call.amount, m)
      /\ ~fails /\ ~Consume => Shows(seen)
      /\ ~(Consume /\ ~fails) => counted = 0
  BY <1>4
<1>6. /\ Answer(amount, r) /\ (hard /\ r.ok => r.n >= amount)
      /\ ~hard /\ fate = "eof" /\ ~stash => r.ok
  <2>1. CASE hard
    <3>1. hard = TRUE
      BY <2>1
    <3>2. r \in Inner(amount, TRUE)
      BY <3>1, Zenon
    <3> HIDE DEF hard
    <3> QED
      BY <1>1, <2>1, <3>2, InnerFacts, Zenon
  <2>2. CASE ~hard
    <3>1. hard = FALSE
      BY <2>2
    <3>2. r \in Inner(amount, FALSE)
      BY <3>1, Zenon
    <3> HIDE DEF hard
    <3> QED
      BY <1>1, <2>2, <3>2, InnerFacts, Zenon
  <2> QED
    BY <2>1, <2>2
<1>7. r.n \in Nat /\ r.n <= Rem
  BY <1>6, Zenon DEF Answer
<1>8. r.ok \in BOOLEAN /\ r.stash \in BOOLEAN /\ (Intact => ~r.stash)
  BY <1>1, <1>6, Zenon DEF Answer
<1>9. r.ok /\ r.n < amount => r.n = Rem
  BY <1>6, Zenon DEF Answer
<1>10. m \in Nat /\ m <= left /\ m <= r.n /\ m \in {r.n, left}
  BY <1>1, <1>7, LesserFacts
<1>11. Len(seen) = m /\ pos + m <= Len(input)
  <2>1. m <= Rem
    BY <1>1, <1>7, <1>10
  <2> HIDE DEF m
  <2> QED
    BY <1>10, <2>1, SeenFacts
<1>12. CASE Consume /\ r.ok
  <2>1. n = Lesser(amount, r.n)
    BY <1>12
  <2>2. n \in Nat /\ n <= amount /\ n <= r.n /\ n \in {amount, r.n}
    <3>1. amount \in Nat /\ r.n \in Nat
      BY <1>1, <1>7
    <3> HIDE DEF n
    <3> QED
      BY <2>1, <3>1, LesserFacts
  <2>e. counted \in Nat
    <3>1. call.amount \in Nat /\ m \in Nat
      BY <1>1, <1>10
    <3>2. Lesser(call.amount, m) \in Nat
      <4> HIDE DEF m
      <4> QED
        BY <3>1, LesserFacts
    <3> QED
      BY <3>2
  <2>b. counted = n
    <3>1. over' = over + (n - counted) /\ over' = over /\ over \in Nat
      BY <1>5
    <3> HIDE DEF n, counted
    <3> QED
      BY <2>2, <2>e, <3>1
  <2>3. ~fails
    <3>1. CASE hard
      <4>1. r.n >= amount /\ amount = call.amount
        BY <1>6, <1>12, <3>1
      <4>2. n = amount
        BY <1>1, <1>7, <2>1, <2>2, <4>1
      <4>3. fails => amount = 0
        BY <1>5, <2>b, <4>2
      <4>4. amount = 0 => ~(m < call.amount)
        BY <1>10, <4>1
      <4> QED
        BY <1>12, <4>3, <4>4
    <3>2. CASE ~hard
      <4>1. ~Hard
        BY <1>12, <3>2 DEF Hard, Consume
      <4> QED
        BY <1>12, <4>1
    <3> QED
      BY <3>1, <3>2
  <2> HIDE DEF n
  <2>4. Lesser(call.amount, m) = n
    BY <1>5, <1>12, <2>3, <2>b
  <2>a. n <= left /\ n <= Rem /\ m <= Rem /\ n <= m
    <3>1. call.amount \in Nat /\ m \in Nat
      BY <1>1, <1>10
    <3>2. n <= m
      <4> HIDE DEF m
      <4> QED
        BY <2>4, <3>1, LesserFacts
    <3> QED
      BY <1>1, <1>7, <1>10, <2>2, <3>2
  <2>6. Returns(seen) /\ left' = left - n /\ Took(n, r.stash)
    <3> HIDE DEF counted
    <3> QED
      BY <1>5, <1>12, <2>3, <2>b
  <2>7. /\ got' = got \o SubSeq(seen, 1, n) /\ ready' = 0 /\ call' = NoCall
        /\ ended' = ended /\ phase' = phase
    <3>1. Lesser(call.amount, Len(seen)) = n
      BY <1>11, <2>4
    <3> QED
      BY <2>6, <3>1 DEF Returns
  <2>8. SubSeq(seen, 1, n) = SubSeq(input, pos + 1, pos + n) /\ pos + n <= Len(input)
    <3>1. Taken \in Nat
      BY ReadFacts
    <3> HIDE DEF m
    <3>2. seen = Run(Taken, m)
      BY <1>10, <2>a, SeenFacts
    <3>3. SubSeq(input, pos + 1, pos + n) = Run(Taken, n) /\ pos + n <= Len(input)
      BY <2>2, <2>a, SeenFacts
    <3>4. SubSeq(Run(Taken, m), 1, n) = Run(Taken, n)
      BY <1>10, <2>2, <2>a, <3>1, RunCut
    <3> HIDE DEF seen
    <3> QED
      BY <3>2, <3>3, <3>4
  <2>9. /\ got' = got \o SubSeq(input, pos + 1, pos + n) /\ stash' = r.stash
        /\ pos' = pos + n /\ hashed' = hashed \o SubSeq(input, pos + 1, pos + n)
    BY <2>6, <2>7, <2>8 DEF Took
  <2>10. Held' = <<>>
    BY <2>7, CallFields DEF Held, Fills
  <2>11. ChunkInv' /\ ContentInv'
    BY <1>2, <2>2, <2>a, <2>6, <2>8, <2>9, <2>10, TakeDirect
  <2> HIDE DEF m, seen, fails, hard
  <2>12. stash' \in BOOLEAN /\ (Intact => ~stash')
    BY <1>8, <2>9, Zenon
  <2> QED
    BY <2>7, <2>11, <2>12, Returned
<1>13. CASE ~(Consume /\ r.ok)
  <2>1. n = 0
    BY <1>8, <1>13
  <2>2. Took(0, r.stash)
    BY <1>5, <2>1
  <2>3. pos' = pos /\ hashed' = hashed /\ stash' = r.stash
    BY <2>2, TookNone
  <2>4. stash' \in BOOLEAN /\ (Intact => ~stash') /\ buf' = Held
    BY <1>2, <1>8, <2>3, Zenon
  <2>5. CASE fails
    <3>1. Fails /\ left' = left
      BY <1>1, <1>5, <2>5
    <3>2. ASSUME Intact PROVE call.op # "drop"
      <4>1. SUFFICES ASSUME call.op = "drop" PROVE FALSE
        OBVIOUS
      <4>2. ~hard /\ ~Hard
        BY <4>1 DEF Hard
      <4>3. r.ok
        BY <1>1, <1>6, <3>2, <4>2, Zenon
      <4> QED
        BY <2>5, <4>2, <4>3, Zenon
    <3> HIDE DEF n, m, seen, fails, hard
    <3> QED
      BY <1>2, <2>3, <2>4, <3>1, <3>2, FailsStep
  <2>6. CASE ~fails
    <3>1. r.ok /\ ~Consume /\ ~(Hard /\ m < call.amount)
      BY <1>8, <1>13, <2>6
    <3>2. Shows(seen) /\ left' = left
      BY <1>1, <1>5, <2>6, <3>1
    <3>3. ASSUME Intact PROVE call.op # "eof"
      <4>1. SUFFICES ASSUME call.op = "eof" PROVE FALSE
        OBVIOUS
      <4>2. Hard /\ call.amount = 1 /\ left = 0
        BY <1>1, <3>3, <4>1 DEF Hard, CallInv, IntactInv, Empty
      <4>3. m < call.amount
        BY <1>1, <1>10, <4>2
      <4> QED
        BY <3>1, <4>2, <4>3
    <3>4. ASSUME Intact, call.op = "drop", m < BufSize
          PROVE  AtLast /\ m = left
      <4>1. call.amount = BufSize
        BY <1>1, <3>4 DEF CallInv
      <4>2. m # left => r.n < amount
        BY <1>1, <1>7, <1>10, <3>4, <4>1
      <4>3. Rem >= left + 2
        BY <1>1, <3>4
      <4>4. m = left
        BY <1>1, <1>7, <1>9, <1>10, <3>1, <4>2, <4>3
      <4> QED
        BY <1>1, <3>4, <4>1, <4>4
    <3> HIDE DEF n, m, seen, fails, hard
    <3>5. Len(seen) \in Nat /\ Len(seen) <= left /\ pos + Len(seen) <= Len(input)
      BY <1>10, <1>11
    <3>6. Intact /\ call.op = "drop" /\ Len(seen) < BufSize => AtLast /\ Len(seen) = left
      BY <1>11, <3>4
    <3> QED
      BY <1>2, <2>3, <2>4, <3>2, <3>3, <3>5, <3>6, ShowsStep
  <2> QED
    BY <2>5, <2>6
<1> QED
  BY <1>12, <1>13

\* A call of no more than is left counts all it consumes.
LEMMA PassCounts ==
    ASSUME Inv, phase = "read", over \in Nat, NEW amount \in Nat, amount <= left, amount <= call.amount,
           amount \in {call.amount, left},
           call.op = "data_consume_hard" => amount = call.amount, PassOn(amount)
    PROVE  over' = over
<1>1. left \in Nat /\ Rem \in Nat /\ call.amount \in Nat /\ stash \in BOOLEAN
  BY ReadFacts DEF Inv
<1> DEFINE hard == call.op = "data_consume_hard"
<1>2. PICK r \in Inner(amount, hard) :
        LET n == IF r.ok /\ Consume THEN Lesser(amount, r.n) ELSE 0
            m == Lesser(r.n, left)
            fails == ~r.ok \/ (Hard /\ m < call.amount)
            counted == IF Consume /\ ~fails THEN Lesser(call.amount, m) ELSE 0
        IN over' = over + (n - counted)
  BY DEF PassOn
<1>3. r.n \in Nat /\ (r.ok /\ hard => r.n >= amount)
  <2>1. CASE hard
    <3>1. r \in Inner(amount, TRUE)
      BY <2>1, Zenon
    <3> HIDE DEF hard
    <3> QED
      BY <1>1, <3>1, InnerFacts, Zenon DEF Answer
  <2>2. CASE ~hard
    <3>1. hard = FALSE
      BY <2>2
    <3>2. r \in Inner(amount, FALSE)
      BY <3>1, Zenon
    <3> HIDE DEF hard
    <3> QED
      BY <1>1, <2>2, <3>2, InnerFacts, Zenon DEF Answer
  <2> QED
    BY <2>1, <2>2
<1>4. Hard /\ Consume => hard
  BY DEF Hard, Consume
<1>5. CASE r.ok /\ Consume
  <2>1. Hard => ~(Lesser(r.n, left) < call.amount)
    BY <1>1, <1>3, <1>4, <1>5 DEF Lesser
  <2>2. over' = over + (Lesser(amount, r.n) - Lesser(call.amount, Lesser(r.n, left)))
    BY <1>2, <1>5, <2>1
  <2>3. Lesser(amount, r.n) = Lesser(call.amount, Lesser(r.n, left)) /\ Lesser(amount, r.n) \in Nat
    BY <1>1, <1>3 DEF Lesser
  <2> QED
    BY <2>2, <2>3
<1>6. CASE ~(r.ok /\ Consume)
  <2>1. over' = over + (0 - 0)
    BY <1>2, <1>6
  <2> QED
    BY <2>1
<1> QED
  BY <1>5, <1>6

LEMMA LimitorStep == ASSUME Inv, over \in Nat, LimitorCall PROVE Inv' /\ over' = over
<1>1. /\ phase = "read" /\ call.stage = "start" /\ kind = "limitor" /\ Frame /\ last' = last
      /\ buf' = buf
  BY DEF LimitorCall, Starts, Frame, writer
<1>2. CallInv /\ IntactInv /\ left \in Nat /\ call.amount \in Nat
  BY <1>1, ReadFacts
<1>3. buf = <<>> /\ Held = <<>> /\ AtLast
  BY <1>1, <1>2 DEF CallInv, Held, Fills, AtLast
<1>4. CASE call.op = "data_consume_hard" /\ call.amount > left
  <2>1. Fails /\ UNCHANGED <<pos, stash, hashed, left, over>>
    BY <1>4 DEF LimitorCall, inner
  <2>2. stash' \in BOOLEAN /\ (Intact => ~stash')
    BY <1>2, <2>1 DEF Inv, IntactInv
  <2> QED
    BY <1>1, <1>3, <1>4, <2>1, <2>2, FailsStep
<1>5. CASE ~(call.op = "data_consume_hard" /\ call.amount > left)
  <2> DEFINE a == Lesser(call.amount, left)
  <2>1. PassOn(a)
    BY <1>5 DEF LimitorCall
  <2>2. a \in {call.amount, left} /\ a <= call.amount /\ (call.amount <= left => a = call.amount)
    BY <1>2, LesserFacts
  <2>3. a \in Nat /\ a <= left /\ (call.op = "data_consume_hard" => a = call.amount)
    BY <1>2, <1>5, LesserFacts
  <2> HIDE DEF a
  <2>4. over' = over
    BY <1>1, <2>1, <2>2, <2>3, PassCounts
  <2> QED
    BY <1>1, <1>3, <2>1, <2>2, <2>3, <2>4, PassStep
<1> QED
  BY <1>4, <1>5

LEMMA DirectStep == ASSUME Inv, over \in Nat, DirectCall, over' = over PROVE Inv'
<1>1. /\ phase = "read" /\ call.stage = "start" /\ kind = "partial" /\ Frame /\ last' = last
      /\ buf = <<>> /\ buf' = buf /\ (call.amount <= left \/ AtLast) /\ PassOn(call.amount)
  BY DEF DirectCall, Starts, Frame, writer, AtLast
<1>2. call.amount \in Nat /\ call.amount <= call.amount
  BY <1>1, ReadFacts
<1> QED
  BY <1>1, <1>2, PassStep

\* The call goes on filling.
LEMMA FillFrom ==
    ASSUME Inv, phase = "read", Frame, phase' = "read", ended' = ended, kind = "partial",
           call.stage # "none", NEW s \in Fills, NEW f \in Seq(Symbols),
           call' = [call EXCEPT !.stage = s, !.fill = f],
           stash' \in BOOLEAN, last' \in BOOLEAN, ready' = ready, ChunkInv', ContentInv',
           s \in {"read", "header"} => Len(f) <= call.amount,
           s = "header" => left' = 0 /\ ~last',
           s \in {"header", "fail"} => Len(f) < call.amount,
           Intact => /\ ~stash' /\ s # "fail"
                     /\ s = "return" /\ Len(f) < call.amount => Empty'
                     /\ call.op = "eof" => Empty' /\ f = <<>>
    PROVE  Inv'
<1>1. CallInv /\ ended = "none" /\ ready \in Nat
  BY ReadFacts
<1>2. call \in [op : Ops \cup {"none", "drop", "dropped", "eof"}, amount : Nat,
                stage : Fills \cup {"none", "start"}, fill : Seq(Symbols)]
  BY <1>1 DEF CallInv
<1>3. /\ call'.op = call.op /\ call'.amount = call.amount /\ call'.stage = s /\ call'.fill = f
      /\ call' \in [op : Ops \cup {"none", "drop", "dropped", "eof"}, amount : Nat,
                    stage : Fills \cup {"none", "start"}, fill : Seq(Symbols)]
  BY <1>2
<1>4. call.op \notin {"none", "dropped"}
  BY <1>1 DEF CallInv
<1>5. s \notin {"none", "start"}
  BY DEF Fills
<1>6. kind' = "partial"
  BY DEF Frame
<1>7. CallInv'
  BY <1>1, <1>3, <1>4, <1>5, <1>6 DEF CallInv
<1>8. ReadyInv'
  BY <1>1, <1>3, <1>5 DEF ReadyInv
<1>9. Intact' = Intact
  BY DEF Intact, Frame
<1>10. Held' = f
  BY <1>3 DEF Held
<1>11. IntactInv'
  BY <1>3, <1>4, <1>9, <1>10 DEF IntactInv
<1> QED
  BY <1>1, <1>7, <1>8, <1>11, ReadFrom

LEMMA FillStartStep == ASSUME Inv, FillStart \/ Buffered PROVE Inv'
<1>1. /\ phase = "read" /\ phase' = "read" /\ call.stage = "start" /\ kind = "partial" /\ Frame
      /\ UNCHANGED <<pos, stash, hashed, left, last, buf, ready, got, ended>>
  BY DEF FillStart, Buffered, Starts, Frame, writer, source, inner, reader, caller
<1>2. /\ CallInv /\ IntactInv /\ left \in Nat /\ call.amount \in Nat /\ Held \in Seq(Symbols)
      /\ Len(Held) \in Nat
  BY <1>1, ReadFacts
<1>3. Held = buf
  BY <1>1 DEF Held, Fills
<1> DEFINE s == IF FillStart /\ ~(last /\ left = 0) THEN "read" ELSE "return"
<1>4. /\ call' = [call EXCEPT !.stage = s, !.fill = buf]
      /\ s = "read" => Len(buf) <= call.amount
      /\ s = "return" /\ Len(buf) < call.amount => last /\ left = 0
  <2>1. CASE FillStart
    <3>1. call' = [call EXCEPT !.stage = s, !.fill = buf]
      BY <2>1 DEF FillStart
    <3>2. Len(buf) <= call.amount
      <4>1. CASE buf = <<>>
        <5>1. Len(buf) = 0
          BY <4>1
        <5> QED
          BY <1>2, <5>1
      <4>2. CASE buf # <<>>
        <5>1. call.amount > Len(buf)
          BY <2>1, <4>2 DEF FillStart
        <5> QED
          BY <1>2, <1>3, <5>1
      <4> QED
        BY <4>1, <4>2
    <3> QED
      BY <2>1, <3>1, <3>2
  <2>2. CASE ~FillStart
    <3>1. Buffered
      BY <2>2
    <3>2. call' = [call EXCEPT !.stage = s, !.fill = buf] /\ call.amount <= Len(buf)
      BY <2>2, <3>1 DEF Buffered
    <3> QED
      BY <1>2, <1>3, <2>2, <3>2
  <2> QED
    BY <2>1, <2>2
<1>5. s \in {"read", "return"} /\ s \in Fills
  BY DEF Fills
<1> HIDE DEF s
<1>6. Held' = Held
  <2>1. call'.stage = s /\ call'.fill = buf
    BY <1>2, <1>4 DEF CallInv
  <2> QED
    BY <1>3, <1>5, <2>1 DEF Held
<1>7. ChunkInv' /\ ContentInv'
  BY <1>1, <1>6, SameContent
<1>8. stash' \in BOOLEAN /\ last' \in BOOLEAN /\ call.stage # "none"
  BY <1>1 DEF Inv
<1>9. AtLast' = AtLast /\ Empty' = Empty /\ (last /\ left = 0 => Empty)
  BY <1>1 DEF AtLast, Frame, Empty
<1>10. Intact => /\ ~stash' /\ s # "fail"
                 /\ s = "return" /\ Len(buf) < call.amount => Empty'
                 /\ call.op = "eof" => Empty' /\ buf = <<>>
  BY <1>1, <1>2, <1>3, <1>4, <1>5, <1>9 DEF IntactInv
<1>11. /\ s # "header" /\ s # "fail" /\ (s \in {"read", "header"} => Len(buf) <= call.amount)
       /\ buf \in Seq(Symbols)
  BY <1>2, <1>3, <1>4, <1>5
<1> QED
  BY <1>1, <1>4, <1>5, <1>7, <1>8, <1>10, <1>11, FillFrom

\* What is known while the buffer is filled.
LEMMA FillFacts ==
    ASSUME Inv, NEW s \in Fills, Filling(s)
    PROVE  /\ phase = "read" /\ call.stage = s /\ kind = "partial" /\ (AtLast <=> last)
           /\ CallInv /\ IntactInv /\ ChunkInv /\ InputInv /\ Held = call.fill
           /\ call.amount \in Nat /\ Len(call.fill) \in Nat /\ call.fill \in Seq(Symbols)
           /\ s \in {"read", "header"} => Len(call.fill) <= call.amount
           /\ s = "header" => left = 0 /\ ~last
           /\ s \in {"header", "fail"} => Len(call.fill) < call.amount
           /\ Intact => /\ ~stash /\ fate = "eof" /\ Len(input) = Len(out) + 2
                        /\ call.op = "eof" => AtLast /\ left = 0 /\ call.fill = <<>>
           /\ stash \in BOOLEAN /\ last \in BOOLEAN /\ ended = "none"
<1>1. phase = "read" /\ call.stage = s
  BY DEF Filling
<1>2. /\ CallInv /\ IntactInv /\ ChunkInv /\ InputInv /\ kind \in {"limitor", "partial"}
      /\ Held \in Seq(Symbols) /\ Len(Held) \in Nat /\ call.amount \in Nat /\ ended = "none"
  BY <1>1, ReadFacts
<1>3. Held = call.fill
  BY <1>1 DEF Held
<1>4. kind = "partial"
  BY <1>1, <1>2 DEF CallInv
<1> QED
  BY <1>1, <1>2, <1>3, <1>4 DEF CallInv, IntactInv, Intact, Empty, AtLast, Inv

LEMMA FillHeaderStep == ASSUME Inv, FillHeader PROVE Inv'
<1>1. Filling("header") /\ "header" \in Fills
  BY DEF FillHeader, Fills
<1>2. /\ phase = "read" /\ call.stage = "header" /\ kind = "partial" /\ (AtLast <=> last)
      /\ CallInv /\ IntactInv /\ ChunkInv /\ InputInv /\ Held = call.fill
      /\ call.amount \in Nat /\ Len(call.fill) \in Nat /\ call.fill \in Seq(Symbols)
      /\ Len(call.fill) < call.amount /\ left = 0 /\ ~last /\ ended = "none"
      /\ Intact => /\ ~stash /\ fate = "eof" /\ Len(input) = Len(out) + 2
                   /\ call.op = "eof" => AtLast /\ left = 0 /\ call.fill = <<>>
      /\ stash \in BOOLEAN
  BY <1>1, FillFacts
<1>3. /\ Frame /\ phase' = "read" /\ ended' = ended /\ UNCHANGED <<buf, ready, got>>
  BY <1>2 DEF FillHeader, Frame, writer, source, caller
<1>4. /\ pos \in Nat /\ Taken \in Nat /\ Rem \in Nat /\ Rem = Len(input) - pos
      /\ Len(input) \in Nat /\ Len(out) \in Nat /\ InChunk(pos, left, Taken)
      /\ hashed \in Seq(Symbols) /\ Len(got) \in Nat /\ Len(Held) \in Nat
      /\ got = Run(0, Len(got)) /\ Held = Run(Len(got), Len(Held)) /\ ContentInv
  BY <1>2, ReadFacts
<1>5. pos < Len(out) /\ IsLen(out[pos + 1])
  <2>1. pos + left < Len(out) /\ IsLen(out[pos + left + 1]) /\ pos + left = pos
    BY <1>2, <1>4 DEF ChunkInv
  <2> QED
    BY <2>1
<1>6. PICK r \in Inner(1, TRUE) :
        /\ stash' = r.stash
        /\ r.ok => LET x == input[pos + 1] IN
                   /\ pos' = pos + 1 /\ Header(x)
                   /\ left' = x.n /\ last' = (x.k = "full")
                   /\ call' = [call EXCEPT !.stage = "read"]
        /\ ~r.ok => /\ call' = [call EXCEPT !.stage = "fail"]
                    /\ UNCHANGED <<pos, hashed, left, last>>
  BY DEF FillHeader
<1>7. /\ Answer(1, r) /\ (r.ok => r.n >= 1) /\ (fate = "eof" /\ ~stash /\ 1 <= Rem => r.ok)
  <2>1. 1 \in Nat
    OBVIOUS
  <2> QED
    BY <1>2, <1>4, <2>1, InnerFacts, Zenon
<1>8. r.n \in Nat /\ r.n <= Rem
  BY <1>7, Zenon DEF Answer
<1>9. r.stash \in BOOLEAN /\ (Intact => ~r.stash /\ (1 <= Rem => r.ok)) /\ r.ok \in BOOLEAN
  BY <1>2, <1>7, Zenon DEF Answer
<1>10. Intact => 1 <= Rem
  BY <1>2, <1>4, <1>5
<1>11. stash' \in BOOLEAN /\ (Intact => ~stash' /\ r.ok)
  BY <1>6, <1>9, <1>10, Zenon
<1>12. [call EXCEPT !.stage = "read"] = [call EXCEPT !.stage = "read", !.fill = call.fill]
  BY <1>2 DEF CallInv
<1>13. [call EXCEPT !.stage = "fail"] = [call EXCEPT !.stage = "fail", !.fill = call.fill]
  BY <1>2 DEF CallInv
<1>14. CASE r.ok
  <2> DEFINE x == input[pos + 1]
  <2>1. pos' = pos + 1 /\ Header(x) /\ left' = x.n /\ last' = (x.k = "full")
        /\ call' = [call EXCEPT !.stage = "read", !.fill = call.fill]
    BY <1>6, <1>12, <1>14
  <2>2. pos + 1 <= Len(input) /\ left = 0
    BY <1>2, <1>4, <1>7, <1>8, <1>14
  <2>3. /\ InChunk(pos + 1, x.n, Taken) /\ x.k \in {"full", "partial"} /\ x = out[pos + 1]
        /\ x.k = "full" => pos + 1 + x.n = Len(out) /\ Taken + x.n = body
        /\ x.k = "partial" => pos + 1 + x.n < Len(out) /\ IsLen(out[pos + 1 + x.n + 1])
    <3>1. InChunk(pos, 0, Taken)
      BY <1>4, <2>2
    <3> QED
      BY <1>2, <1>5, <2>2, <3>1, TakeLength
  <2>4. x \in Symbols
    BY <1>2, <1>4, <2>2 DEF InputInv
  <2> HIDE DEF x
  <2>5. call'.stage = "read" /\ call'.fill = call.fill
    BY <1>2, <2>1 DEF CallInv
  <2>6. Held' = Held
    BY <1>2, <2>5 DEF Held, Fills
  <2>7. Taken' = Taken
    BY <1>3, <2>6 DEF Taken
  <2>8. last' \in BOOLEAN /\ (AtLast' <=> x.k = "full")
    BY <1>2, <1>3, <2>1 DEF AtLast, Frame
  <2>9. ChunkInv'
    <3>1. InChunk(pos, left, Taken)'
      BY <1>3, <2>1, <2>3, <2>7 DEF InChunk, Frame
    <3>2. AtLast' => pos' + left' = Len(out') /\ Taken' + left' = body'
      BY <1>3, <2>1, <2>3, <2>7, <2>8 DEF Frame
    <3>3. ~AtLast' => pos' + left' < Len(out') /\ IsLen(out'[pos' + left' + 1])
      BY <1>3, <2>1, <2>3, <2>7, <2>8 DEF Frame
    <3> QED
      BY <3>1, <3>2, <3>3 DEF ChunkInv
  <2>10. hashed' \in Seq(Symbols) /\ (~hash_headers => hashed' = hashed)
    BY <1>4, <2>1, <2>4 DEF Header
  <2>11. ContentInv'
    BY <1>3, <1>4, <2>6, <2>7, <2>10 DEF ContentInv, Frame
  <2>12. Intact => ~stash' /\ call.op # "eof"
    BY <1>2, <1>11
  <2>13. Len(call.fill) <= call.amount
    BY <1>2
  <2>14. "read" \in Fills /\ call.stage # "none"
    BY <1>2 DEF Fills
  <2> QED
    BY <1>2, <1>3, <1>11, <2>1, <2>8, <2>9, <2>11, <2>12, <2>13, <2>14, FillFrom
<1>15. CASE ~r.ok
  <2>1. /\ call' = [call EXCEPT !.stage = "fail", !.fill = call.fill]
        /\ UNCHANGED <<pos, hashed, left, last>>
    BY <1>6, <1>13, <1>15
  <2>2. call'.stage = "fail" /\ call'.fill = call.fill
    BY <1>2, <2>1 DEF CallInv
  <2>3. Held' = Held
    BY <1>2, <2>2 DEF Held, Fills
  <2>4. ChunkInv' /\ ContentInv'
    BY <1>2, <1>3, <2>1, <2>3, SameContent
  <2>5. ~Intact
    BY <1>11, <1>15, Zenon
  <2>6. "fail" \in Fills /\ call.stage # "none" /\ last' \in BOOLEAN
    BY <1>2, <2>1 DEF Fills, Inv
  <2> QED
    BY <1>2, <1>3, <1>11, <2>1, <2>4, <2>5, <2>6, FillFrom
<1> QED
  BY <1>9, <1>14, <1>15

LEMMA FillReadStep == ASSUME Inv, FillRead PROVE Inv'
<1>1. Filling("read") /\ "read" \in Fills
  BY DEF FillRead, Fills
<1>2. /\ phase = "read" /\ call.stage = "read" /\ kind = "partial" /\ (AtLast <=> last)
      /\ CallInv /\ IntactInv /\ ChunkInv /\ InputInv /\ Held = call.fill
      /\ call.amount \in Nat /\ Len(call.fill) \in Nat /\ call.fill \in Seq(Symbols)
      /\ Len(call.fill) <= call.amount /\ ended = "none"
      /\ Intact => /\ ~stash /\ fate = "eof" /\ Len(input) = Len(out) + 2
                   /\ call.op = "eof" => AtLast /\ left = 0 /\ call.fill = <<>>
      /\ stash \in BOOLEAN /\ last \in BOOLEAN
  BY <1>1, FillFacts
<1>3. /\ Frame /\ phase' = "read" /\ ended' = ended /\ UNCHANGED <<buf, ready, got, last>>
  BY <1>2 DEF FillRead, Frame, writer, source, caller
<1>4. /\ pos \in Nat /\ left \in Nat /\ Taken \in Nat /\ Rem \in Nat /\ Rem = Len(input) - pos
      /\ Len(input) \in Nat /\ Len(out) \in Nat /\ pos + left <= Len(out)
      /\ Len(got) \in Nat /\ got = Run(0, Len(got)) /\ Held = Run(Len(got), Len(Held))
      /\ Taken = Len(got) + Len(Held)
  BY <1>2, ReadFacts
<1> DEFINE want == call.amount - Len(call.fill)
<1>5. /\ want \in Nat /\ ToRead \in Nat /\ ToRead <= left /\ ToRead <= want
      /\ ToRead \in {left, want}
  <2>1. want \in Nat /\ left \in Nat
    BY <1>2, <1>4
  <2>2. ToRead = Lesser(left, want)
    BY DEF ToRead
  <2> HIDE DEF want
  <2> QED
    BY <2>1, <2>2, LesserFacts
<1>6. PICK r \in Inner(ToRead, FALSE) :
        LET did == Lesser(ToRead, r.n)
            fill == call.fill \o SubSeq(input, pos + 1, pos + did)
            done == did < ToRead \/ last \/ Len(fill) = call.amount
        IN IF ToRead = 0
           THEN call' = [call EXCEPT !.stage = IF Enough THEN "return" ELSE "header"]
                /\ UNCHANGED <<inner, left>>
           ELSE /\ Took(did, r.stash) /\ left' = left - did
                /\ call' = [call EXCEPT !.stage = IF ~r.ok THEN "fail"
                                                  ELSE IF done THEN "return"
                                                  ELSE "header",
                                        !.fill = fill]
  BY DEF FillRead
<1>7. Answer(ToRead, r) /\ (fate = "eof" /\ ~stash => r.ok)
  BY <1>2, <1>4, <1>5, InnerFacts, Zenon
<1>8. r.n \in Nat /\ r.n <= Rem
  BY <1>7, Zenon DEF Answer
<1>9. r.stash \in BOOLEAN /\ (Intact => ~r.stash /\ r.ok) /\ r.ok \in BOOLEAN
  BY <1>2, <1>7, Zenon DEF Answer
<1>10. (r.ok /\ r.n < ToRead => r.n = Rem) /\ (~r.ok => r.n = 0)
  BY <1>7, Zenon DEF Answer
<1>11. AtLast' <=> last
  BY <1>2, <1>3 DEF AtLast, Frame
<1>12. CASE ToRead = 0
  <2> DEFINE s == IF Enough THEN "return" ELSE "header"
  <2>1. call' = [call EXCEPT !.stage = s] /\ UNCHANGED <<pos, stash, hashed, left>>
    BY <1>6, <1>12 DEF inner
  <2>2. [call EXCEPT !.stage = s] = [call EXCEPT !.stage = s, !.fill = call.fill]
    BY <1>2 DEF CallInv
  <2>3. call' = [call EXCEPT !.stage = s, !.fill = call.fill] /\ s \in Fills /\ s \in {"return", "header"}
    BY <2>1, <2>2 DEF Fills
  <2>4. /\ s = "header" => left = 0 /\ ~last /\ Len(call.fill) < call.amount
        /\ s = "return" /\ Len(call.fill) < call.amount => last /\ left = 0
    BY <1>2, <1>4, <1>5, <1>12 DEF Enough
  <2> HIDE DEF s
  <2>5. call'.stage = s /\ call'.fill = call.fill
    BY <1>2, <2>3 DEF CallInv
  <2>6. Held' = Held
    BY <1>2, <2>3, <2>5 DEF Held
  <2>7. ChunkInv' /\ ContentInv'
    BY <1>2, <1>3, <2>1, <2>6, SameContent
  <2>8. Intact => /\ ~stash' /\ s # "fail"
                  /\ s = "return" /\ Len(call.fill) < call.amount => Empty'
                  /\ call.op = "eof" => Empty' /\ call.fill = <<>>
    BY <1>2, <1>11, <2>1, <2>3, <2>4 DEF Empty
  <2>9. stash' \in BOOLEAN /\ last' \in BOOLEAN /\ call.stage # "none"
    BY <1>2, <1>3, <2>1
  <2>10. /\ s = "header" => left' = 0 /\ ~last'
         /\ s \in {"header", "fail"} => Len(call.fill) < call.amount
         /\ s \in {"read", "header"} => Len(call.fill) <= call.amount
    BY <1>2, <1>3, <2>1, <2>3, <2>4
  <2> QED
    BY <1>2, <1>3, <2>3, <2>7, <2>8, <2>9, <2>10, FillFrom
<1>13. CASE ToRead # 0
  <2> DEFINE did == Lesser(ToRead, r.n)
             f == call.fill \o SubSeq(input, pos + 1, pos + did)
             done == did < ToRead \/ last \/ Len(f) = call.amount
             s == IF ~r.ok THEN "fail" ELSE IF done THEN "return" ELSE "header"
             h == Len(call.fill)
             g == Len(got)
  <2>1. /\ Took(did, r.stash) /\ left' = left - did
        /\ call' = [call EXCEPT !.stage = s, !.fill = f]
    BY <1>6, <1>13
  <2>a. ToRead \in Nat /\ r.n \in Nat
    BY <1>5, <1>8
  <2>2. did \in Nat /\ did <= ToRead /\ did <= r.n /\ did \in {ToRead, r.n}
    BY <2>a, LesserFacts
  <2> HIDE DEF did
  <2>3. did <= left /\ did <= Rem /\ did <= want
    BY <1>4, <1>5, <1>8, <2>2
  <2>4. SubSeq(input, pos + 1, pos + did) = Run(Taken, did) /\ pos + did <= Len(input)
    BY <1>2, <2>2, <2>3, SeenFacts
  <2>5. g \in Nat /\ h \in Nat /\ Taken = g + h /\ call.fill = Run(g, h) /\ got = Run(0, g)
    BY <1>2, <1>4
  <2> HIDE DEF g, h
  <2>6. f = Run(g, h + did)
    <3>1. f = Run(g, h) \o Run(g + h, did)
      BY <2>4, <2>5
    <3>2. Run(g, h) \o Run(g + h, did) = Run(g, h + did)
      BY <2>2, <2>5, RunJoin
    <3> HIDE DEF f
    <3> QED
      BY <3>1, <3>2, Zenon
  <2> HIDE DEF f
  <2>7. f \in Seq(Symbols) /\ Len(f) = h + did /\ Len(f) \in Nat
    <3>1. h + did \in Nat
      BY <2>2, <2>5
    <3> QED
      BY <2>5, <2>6, <3>1, RunFacts
  <2>8. s \in Fills /\ s \in {"fail", "return", "header"}
    BY DEF Fills
  <2>9. call'.stage = s /\ call'.fill = f
    BY <1>2, <2>1 DEF CallInv
  <2>10. s = "fail" <=> ~r.ok
    BY <1>9
  <2>11. s = "header" => r.ok /\ ~done
    BY <1>9
  <2>12. s = "return" => done
    BY <1>9
  <2> HIDE DEF s
  <2>13. Held' = f
    BY <2>8, <2>9 DEF Held
  <2>14. Taken' = Taken + did
    <3>1. Taken' = Len(got') + Len(Held')
      BY DEF Taken
    <3>2. Len(got') = g
      BY <1>3 DEF g
    <3>3. Len(Held') = h + did
      BY <2>7, <2>13
    <3> QED
      BY <2>2, <2>5, <3>1, <3>2, <3>3
  <2>15. /\ pos' = pos + did /\ stash' = r.stash
         /\ hashed' = hashed \o SubSeq(input, pos + 1, pos + did)
    BY <2>1 DEF Took
  <2>16. /\ ChunkInv' /\ hashed' \in Seq(Symbols) /\ (~hash_headers' => hashed' = Run(0, Taken'))
    BY <1>2, <1>3, <2>1, <2>2, <2>3, <2>4, <2>14, <2>15, MoveChunk
  <2>17. ContentInv'
    <3>1. Len(got') = g /\ got' = Run(0, g) /\ Len(Held') = h + did /\ Held' = Run(g, h + did)
      BY <1>3, <2>5, <2>6, <2>7, <2>13 DEF g
    <3>2. Len(got') \in Nat /\ Len(Held') \in Nat
      BY <2>2, <2>5, <3>1
    <3>3. got' = Run(0, Len(got')) /\ Held' = Run(Len(got'), Len(Held'))
      BY <3>1, Zenon
    <3> QED
      BY <2>16, <3>2, <3>3 DEF ContentInv
  <2>18. h < call.amount /\ h + did <= call.amount /\ call.amount \in Nat
    BY <1>2, <1>5, <1>13, <2>2, <2>3, <2>5 DEF h
  <2>19. s = "header" => left' = 0 /\ ~last /\ Len(f) < call.amount
    <3>1. SUFFICES ASSUME s = "header" PROVE left' = 0 /\ ~last /\ Len(f) < call.amount
      OBVIOUS
    <3>2. ~(did < ToRead) /\ ~last /\ Len(f) # call.amount
      BY <2>11, <3>1
    <3>3. Len(f) < call.amount
      BY <2>7, <2>18, <3>2
    <3>4. did = ToRead /\ ToRead # want
      BY <1>5, <2>2, <2>5, <2>7, <2>18, <3>2 DEF h
    <3> QED
      BY <1>4, <1>5, <2>1, <3>2, <3>3, <3>4
  <2>20. s = "fail" => Len(f) < call.amount
    BY <1>10, <2>2, <2>5, <2>7, <2>10, <2>18
  <2>21. ASSUME Intact
         PROVE  /\ ~stash' /\ s # "fail"
                /\ s = "return" /\ Len(f) < call.amount => Empty'
                /\ call.op # "eof"
    <3>1. ~stash' /\ r.ok
      BY <1>9, <2>15, <2>21, Zenon
    <3>2. s # "fail"
      BY <2>10, <3>1, Zenon
    <3>3. ~(did < ToRead)
      <4>1. Rem >= left + 2
        BY <1>2, <1>4, <2>21
      <4> QED
        BY <1>4, <1>5, <1>8, <1>10, <2>2, <3>1, <4>1
    <3>4. ASSUME s = "return", Len(f) < call.amount PROVE Empty'
      <4>1. last
        BY <2>7, <2>12, <2>18, <3>3, <3>4
      <4>2. did = left
        BY <1>5, <2>2, <2>5, <2>7, <2>18, <3>3, <3>4 DEF h
      <4>3. left' = 0
        BY <1>4, <2>1, <4>2
      <4> QED
        BY <1>11, <4>1, <4>3 DEF Empty
    <3>5. call.op # "eof"
      BY <1>2, <1>4, <1>5, <1>13, <2>21
    <3> QED
      BY <3>1, <3>2, <3>4, <3>5
  <2>22. stash' \in BOOLEAN /\ last' \in BOOLEAN /\ call.stage # "none"
    BY <1>2, <1>3, <1>9, <2>15
  <2>23. /\ s = "header" => left' = 0 /\ ~last'
         /\ s \in {"header", "fail"} => Len(f) < call.amount
         /\ s \in {"read", "header"} => Len(f) <= call.amount
    BY <1>3, <2>7, <2>8, <2>18, <2>19, <2>20
  <2> QED
    BY <1>2, <1>3, <2>1, <2>7, <2>8, <2>16, <2>17, <2>21, <2>22, <2>23, FillFrom
<1> QED
  BY <1>12, <1>13

LEMMA FillEndsStep == ASSUME Inv, FillEnds PROVE Inv'
<1>1. PICK s \in {"return", "fail"} : Filling(s)
  BY DEF FillEnds
<1>2. /\ phase = "read" /\ call.stage = s /\ kind = "partial"
      /\ CallInv /\ IntactInv /\ Held = call.fill
      /\ call.amount \in Nat /\ Len(Held) \in Nat /\ Held \in Seq(Symbols)
      /\ s = "fail" => Len(Held) < call.amount
      /\ Intact => /\ ~stash
                   /\ call.op = "eof" => AtLast /\ left = 0 /\ Held = <<>>
      /\ stash \in BOOLEAN /\ last \in BOOLEAN
  <2>1. s \in Fills
    BY DEF Fills
  <2> QED
    BY <1>1, <2>1, FillFacts
<1>3. Frame /\ UNCHANGED <<pos, stash, hashed, left, last>>
  BY DEF FillEnds, Frame, writer, source, inner
<1>4. /\ call.op = "eof" => call.amount = 1
      /\ call.op = "drop" => call.amount = BufSize
      /\ pos \in Nat /\ left \in Nat /\ pos <= Len(input)
  BY <1>2, ReadFacts DEF CallInv
<1>5. Intact => s # "fail" /\ (Len(Held) < call.amount => AtLast /\ left = 0)
  BY <1>2 DEF IntactInv, Empty
<1> DEFINE fails == call.stage = "fail" \/ (Hard /\ Len(Held) < call.amount)
<1>6. CASE fails
  <2>1. buf' = Held /\ Fails
    BY <1>2, <1>6 DEF FillEnds
  <2>2. Len(Held) < call.amount
    BY <1>2, <1>6
  <2>3. call.op = "eof" => Held = <<>>
    <3>1. call.op = "eof" => Len(Held) = 0
      BY <1>2, <1>4, <2>2
    <3> QED
      BY <1>2, <3>1
  <2>4. Intact => call.op # "drop"
    BY <1>2, <1>5, <1>6 DEF Hard
  <2> QED
    BY <1>2, <1>3, <2>1, <2>3, <2>4, FailsStep
<1>7. CASE ~fails /\ Consume
  <2> DEFINE n == Lesser(call.amount, Len(Held))
  <2>1. /\ buf' = SubSeq(Held, n + 1, Len(Held)) /\ got' = got \o SubSeq(Held, 1, n)
        /\ ready' = 0 /\ call' = NoCall /\ UNCHANGED <<ended, phase>>
    BY <1>2, <1>7 DEF FillEnds, Returns
  <2>2. n \in Nat /\ n <= Len(Held)
    BY <1>2, LesserFacts
  <2> HIDE DEF n
  <2>3. Held' = buf'
    BY <2>1, CallFields DEF Held, Fills
  <2>4. ChunkInv' /\ ContentInv'
    BY <1>2, <1>3, <2>1, <2>2, <2>3, TakeHeld
  <2>5. kind' # "limitor"
    BY <1>2, <1>3 DEF Frame
  <2> QED
    BY <1>2, <1>3, <2>1, <2>4, <2>5, Returned
<1>8. CASE ~fails /\ ~Consume
  <2>1. buf' = Held /\ Shows(Held)
    BY <1>2, <1>8 DEF FillEnds
  <2>2. Intact => call.op # "eof"
    <3>1. ASSUME Intact, call.op = "eof" PROVE FALSE
      <4>1. Len(Held) = 0 /\ call.amount = 1 /\ Hard
        BY <1>2, <1>4, <3>1 DEF Hard
      <4> QED
        BY <1>8, <4>1
    <3> QED
      BY <3>1
  <2>3. IF Held = <<>> THEN Len(Held) <= left /\ pos + Len(Held) <= Len(input)
        ELSE Len(Held) <= Len(Held)
    <3>1. Held = <<>> => Len(Held) = 0
      OBVIOUS
    <3> QED
      BY <1>2, <1>4, <3>1
  <2>4. Intact /\ call.op = "drop" /\ Len(Held) < BufSize =>
          AtLast /\ IF Held = <<>> THEN Len(Held) = left ELSE Len(Held) = Len(Held) /\ left = 0
    <3>1. Held = <<>> => Len(Held) = 0
      OBVIOUS
    <3> QED
      BY <1>4, <1>5, <3>1
  <2> QED
    BY <1>2, <1>3, <2>1, <2>2, <2>3, <2>4, ShowsStep
<1> QED
  BY <1>6, <1>7, <1>8

-----------------------------------------------------------------------------
(***************************************************************************)
(* The invariant, and what follows from it.                                *)
(***************************************************************************)
LEMMA InvInit == Init => Inv
<1> SUFFICES ASSUME Init PROVE Inv
  OBVIOUS
<1>a. /\ buffer = <<>> /\ other = <<>> /\ body = 0 /\ out = <<>> /\ phase = "write"
  BY DEF Init
<1>b. Len(buffer) = 0 /\ Len(other) = 0
  BY <1>a
<1>c. Put = 0
  <2>1. body = 0 /\ Put = body - Len(buffer) - Len(other)
    BY <1>a DEF Put
  <2>2. 0 - 0 - 0 = 0
    OBVIOUS
  <2> QED
    BY <1>b, <2>1, <2>2, Zenon
<1>1. /\ buffer = <<>> /\ other = <<>> /\ body = 0 /\ out = <<>> /\ phase = "write"
      /\ Len(buffer) = 0 /\ Len(other) = 0 /\ Put = 0
  BY <1>a, <1>b, <1>c
<1>2. Chunked(out, 0) /\ Open(out, 0)
  BY <1>1 DEF Chunked, Open
<1>3. Split(out, Put, buffer, other, body)
  <2>1. Run(0, 0) = <<>>
    BY RunNone
  <2> QED
    BY <1>1, <1>2, <2>1 DEF Split
<1>4. Unread
  BY DEF Init, Unread
<1>5. WriteInv
  BY <1>1, <1>2, <1>3, <1>4 DEF WriteInv
<1>6. /\ threshold \in Thresholds /\ maxChunk \in MaxChunks /\ ~stash /\ ~last /\ ~hash_headers
      /\ stash \in BOOLEAN /\ last \in BOOLEAN /\ hash_headers \in BOOLEAN
  BY DEF Init
<1>7. body \in Nat
  BY <1>1
<1> QED
  BY <1>1, <1>5, <1>6, <1>7 DEF Inv

LEMMA InvStutter == ASSUME Inv, UNCHANGED vars PROVE Inv'
<1>1. UNCHANGED <<threshold, maxChunk, buffer, other, body, out, phase, input, fate, pos, stash,
                  hashed, kind, hash_headers, left, last, buf, call, ready, got, calls, ended>>
  BY DEF vars, writer, source, inner, reader, caller
<1>2. WriteInv' = WriteInv
  BY <1>1 DEF WriteInv, Split, Put, Unread, Open, Chunked, ChunkAt, Closed
<1>3. InputInv' = InputInv
  BY <1>1 DEF InputInv, Chunked, ChunkAt, Closed
<1>4. Held' = Held /\ Taken' = Taken /\ AtLast' = AtLast /\ Intact' = Intact
  BY <1>1 DEF Held, Taken, AtLast, Intact
<1>5. ReadInv' = ReadInv
  BY <1>1, <1>4 DEF ReadInv, ChunkInv, InChunk, ContentInv, CallInv, ReadyInv,
     IntactInv, Empty
<1>6. DoneInv' = DoneInv
  BY <1>1, <1>4 DEF DoneInv
<1> QED
  BY <1>1, <1>2, <1>3, <1>5, <1>6 DEF Inv

LEMMA InvNext == ASSUME Inv, over \in Nat, [Next]_vars, over' = over PROVE Inv'
<1>1. CASE Write \/ Flush \/ EmitRest \/ Finalize
  BY <1>1, WriteSteps
<1>2. CASE EmitChunk
  BY <1>2, EmitStep
<1>3. CASE OpenBody
  BY <1>3, OpenStep
<1>4. CASE Reads
  <2>1. PICK n \in 0 .. MaxAmount : (\E op \in Ops : Ask(op, n)) \/ consume(n)
    BY <1>4 DEF Reads
  <2>2. n \in Nat
    BY PartialBodyAssumption
  <2>3. CASE \E op \in Ops : Ask(op, n)
    BY <2>2, <2>3, AskStep
  <2>4. CASE consume(n)
    BY <2>4, ConsumeStep
  <2> QED
    BY <2>1, <2>3, <2>4
<1>5. CASE Finish
  BY <1>5, FinishStep
<1>6. CASE Steps
  BY <1>6, LimitorStep, DirectStep, FillStartStep, FillReadStep, FillHeaderStep, FillEndsStep,
     DroppedStep DEF Steps
<1>7. CASE Done \/ UNCHANGED vars
  BY <1>7, InvStutter DEF Done
<1> QED
  BY <1>1, <1>2, <1>3, <1>4, <1>5, <1>6, <1>7 DEF Next

-----------------------------------------------------------------------------
(***************************************************************************)
(* Calls in the last chunk that are passed on as they are.                 *)
(***************************************************************************)

\* The reader below consumes n, of which k are counted, and shows m.
LEMMA DirectFacts ==
    ASSUME Counted, CountedRead, DirectCall
    PROVE  \E n \in Nat, m \in Nat, k \in Nat, s \in BOOLEAN :
             /\ k <= n /\ k <= m /\ k <= left /\ pos + n <= Len(input)
             /\ m <= left /\ pos + m <= Len(input)
             /\ n > k => left < n
             /\ Took(n, s) /\ (Intact => ~s) /\ left' = left - k /\ over' = over + (n - k)
             /\ \/ k = 0 /\ Fails /\ (Intact => call.op # "drop")
                \/ k = Lesser(call.amount, m) /\ Returns(SubSeq(input, pos + 1, pos + m))
                \/ k = 0 /\ n = 0 /\ Shows(SubSeq(input, pos + 1, pos + m)) /\ (call.op = "eof" => m >= 1)
<1>1. /\ left \in Nat /\ pos \in Nat /\ Len(input) \in Nat /\ pos <= Len(input)
      /\ stash \in BOOLEAN /\ call.amount \in Nat /\ Rem \in Nat /\ Rem = Len(input) - pos
      /\ call.op = "eof" => call.amount = 1
      /\ Intact => fate = "eof" /\ ~stash
  BY DEF Counted, CountedRead, Rem, Intact
<1> DEFINE hard == call.op = "data_consume_hard"
           amount == call.amount
<1>2. PassOn(amount)
  BY DEF DirectCall
<1>3. PICK r \in Inner(amount, hard) :
        LET n == IF r.ok /\ Consume THEN Lesser(amount, r.n) ELSE 0
            m == Lesser(r.n, left)
            seen == SubSeq(input, pos + 1, pos + m)
            fails == ~r.ok \/ (Hard /\ m < call.amount)
            counted == IF Consume /\ ~fails THEN Lesser(call.amount, m) ELSE 0
        IN /\ Took(n, r.stash)
           /\ left' = left - counted /\ over' = over + (n - counted)
           /\ IF fails THEN Fails ELSE IF Consume THEN Returns(seen) ELSE Shows(seen)
  BY <1>2 DEF PassOn
<1>4. /\ Answer(amount, r) /\ (hard /\ r.ok => r.n >= amount)
      /\ ~hard /\ fate = "eof" /\ ~stash => r.ok
  <2>1. amount \in Nat
    BY <1>1
  <2>2. CASE hard
    <3>1. r \in Inner(amount, TRUE)
      BY <2>2, Zenon
    <3> HIDE DEF hard, amount
    <3> QED
      BY <1>1, <2>1, <2>2, <3>1, InnerFacts, Zenon
  <2>3. CASE ~hard
    <3>1. hard = FALSE
      BY <2>3
    <3>2. r \in Inner(amount, FALSE)
      BY <3>1, Zenon
    <3> HIDE DEF hard, amount
    <3> QED
      BY <1>1, <2>1, <2>3, <3>2, InnerFacts, Zenon
  <2> QED
    BY <2>2, <2>3
<1>5. r.n \in Nat /\ r.n <= Rem
  BY <1>4, Zenon DEF Answer
<1>6. r.ok \in BOOLEAN /\ r.stash \in BOOLEAN /\ (Intact => ~r.stash)
  BY <1>1, <1>4, Zenon DEF Answer
<1> DEFINE n == IF r.ok /\ Consume THEN Lesser(amount, r.n) ELSE 0
           m == Lesser(r.n, left)
           seen == SubSeq(input, pos + 1, pos + m)
           fails == ~r.ok \/ (Hard /\ m < call.amount)
           k == IF Consume /\ ~fails THEN Lesser(call.amount, m) ELSE 0
<1>7. /\ Took(n, r.stash) /\ left' = left - k /\ over' = over + (n - k)
      /\ fails => Fails
      /\ ~fails /\ Consume => Returns(seen)
      /\ ~fails /\ ~Consume => Shows(seen)
  BY <1>3
<1>8. m \in Nat /\ m <= left /\ m <= r.n /\ pos + m <= Len(input)
  BY <1>1, <1>5 DEF Lesser
<1>9. Hard /\ Consume => hard
  BY DEF Hard, Consume
<1>10. /\ n \in Nat /\ k \in Nat /\ k <= n /\ k <= m /\ k <= left /\ pos + n <= Len(input)
       /\ n > k => left < n
  <2>1. CASE r.ok /\ Consume /\ ~fails
    <3>1. n = Lesser(amount, r.n) /\ k = Lesser(amount, Lesser(r.n, left))
      BY <2>1
    <3> HIDE DEF n, k, m, fails
    <3> QED
      BY <1>1, <1>5, <1>8, <3>1 DEF Lesser, m
  <2>2. CASE r.ok /\ Consume /\ fails
    <3>1. n = Lesser(amount, r.n) /\ k = 0 /\ m < amount /\ r.n >= amount
      BY <1>4, <1>9, <2>2
    <3>2. m = Lesser(r.n, left)
      OBVIOUS
    <3> HIDE DEF n, k, m, fails
    <3> QED
      BY <1>1, <1>5, <1>8, <3>1, <3>2 DEF Lesser
  <2>3. CASE ~(r.ok /\ Consume)
    <3>1. n = 0 /\ k = 0
      BY <2>3
    <3> HIDE DEF n, k, m, fails
    <3> QED
      BY <1>1, <1>8, <3>1
  <2> QED
    BY <2>1, <2>2, <2>3
<1>11. \/ k = 0 /\ Fails /\ (Intact => call.op # "drop")
       \/ k = Lesser(call.amount, m) /\ Returns(seen)
       \/ k = 0 /\ n = 0 /\ Shows(seen) /\ (call.op = "eof" => m >= 1)
  <2>1. CASE fails
    <3>1. k = 0 /\ Fails
      BY <1>7, <2>1
    <3>2. ASSUME Intact, call.op = "drop" PROVE FALSE
      <4>1. ~hard /\ ~Hard
        BY <3>2 DEF Hard
      <4>2. r.ok
        BY <1>1, <1>4, <3>2, <4>1, Zenon
      <4> QED
        BY <2>1, <4>1, <4>2, Zenon
    <3> HIDE DEF n, k, seen, m, fails
    <3> QED
      BY <3>1, <3>2
  <2>2. CASE ~fails /\ Consume
    <3>1. k = Lesser(call.amount, m) /\ Returns(seen)
      BY <1>7, <2>2
    <3> HIDE DEF n, k, seen, m, fails
    <3> QED
      BY <3>1
  <2>3. CASE ~fails /\ ~Consume
    <3>1. k = 0 /\ n = 0 /\ Shows(seen)
      BY <1>6, <1>7, <2>3
    <3>2. ASSUME call.op = "eof" PROVE m >= 1
      <4>1. Hard /\ call.amount = 1
        BY <1>1, <3>2 DEF Hard
      <4>2. ~(m < 1)
        BY <2>3, <4>1
      <4> HIDE DEF m
      <4> QED
        BY <1>8, <4>2
    <3> HIDE DEF n, k, seen, m, fails
    <3> QED
      BY <3>1, <3>2
  <2> QED
    BY <2>1, <2>2, <2>3
<1> DEFINE s == r.stash
<1>12. s \in BOOLEAN /\ (Intact => ~s) /\ Took(n, s)
  BY <1>6, <1>7
<1>13. left' = left - k /\ over' = over + (n - k)
  BY <1>7
<1> HIDE DEF n, m, k, s, seen, fails, hard, amount
<1>14. \/ k = 0 /\ Fails /\ (Intact => call.op # "drop")
       \/ k = Lesser(call.amount, m) /\ Returns(SubSeq(input, pos + 1, pos + m))
       \/ k = 0 /\ n = 0 /\ Shows(SubSeq(input, pos + 1, pos + m)) /\ (call.op = "eof" => m >= 1)
  BY <1>11 DEF seen
<1> QED
  BY <1>8, <1>10, <1>12, <1>13, <1>14

\* Taking from what follows is taking a part of it.
LEMMA PartLen ==
    ASSUME NEW s \in Seq(Symbols), NEW p \in Nat, NEW m \in Nat, p + m <= Len(s)
    PROVE  /\ SubSeq(s, p + 1, p + m) \in Seq(Symbols)
           /\ Len(SubSeq(s, p + 1, p + m)) = m
<1> DEFINE t == SubSeq(s, p + 1, p + m)
<1>1. \A x \in p + 1 .. p + m : s[x] \in Symbols
  OBVIOUS
<1>2. /\ t \in Seq(Symbols)
      /\ Len(t) = IF p + 1 <= p + m THEN (p + m) - (p + 1) + 1 ELSE 0
  BY <1>1, SubSeqProperties
<1>3. (p + m) - (p + 1) + 1 = m /\ (~(p + 1 <= p + m) => m = 0)
  OBVIOUS
<1> QED
  BY <1>2, <1>3

\* What a step leaves alone as long as the last chunk is read.
Kept == UNCHANGED <<body, out, input, fate, kind, last, buf>>

LEMMA CountedDirect ==
    ASSUME Counted, CountedRead, phase = "read", DirectCall
    PROVE  over' \in Nat /\ over' >= over /\ (over' > 0 => Past')
<1>1. PICK n \in Nat, m \in Nat, k \in Nat, s \in BOOLEAN :
             /\ k <= n /\ k <= m /\ k <= left /\ pos + n <= Len(input)
             /\ m <= left /\ pos + m <= Len(input)
             /\ n > k => left < n
             /\ Took(n, s) /\ (Intact => ~s) /\ left' = left - k /\ over' = over + (n - k)
             /\ \/ k = 0 /\ Fails /\ (Intact => call.op # "drop")
                \/ k = Lesser(call.amount, m) /\ Returns(SubSeq(input, pos + 1, pos + m))
                \/ k = 0 /\ n = 0 /\ Shows(SubSeq(input, pos + 1, pos + m)) /\ (call.op = "eof" => m >= 1)
  BY DirectFacts, Zenon
<1>2. Kept
  BY DEF DirectCall, writer, Kept
<1>3. /\ left \in Nat /\ pos \in Nat /\ over \in Nat /\ body \in Nat /\ Len(out) \in Nat
      /\ input \in Seq(Symbols) /\ got \in Seq(Symbols) /\ Len(input) \in Nat /\ Len(got) \in Nat
      /\ pos + left = Len(out) + over /\ Len(got) + left = body
      /\ over > 0 => left < over
  BY DEF Counted
<1>4. pos' = pos + n /\ stash' = s
  BY <1>1 DEF Took
<1>5. over' \in Nat /\ over' >= over
  BY <1>1, <1>3
<1>6. SUFFICES ASSUME over' > 0 PROVE Past'
  BY <1>5
<1>7. /\ left' \in Nat /\ pos' \in Nat /\ pos' <= Len(input) /\ pos' + left' = Len(out) + over'
      /\ left' < over'
  BY <1>1, <1>3, <1>4, <1>6
<1>8. Complete
  <2>1. over = 0 => pos + n > Len(out)
    BY <1>1, <1>3, <1>6
  <2>2. over = 0 => Len(input) > Len(out)
    BY <1>1, <1>3, <2>1
  <2>3. over = 0 \/ over > 0
    BY <1>3
  <2> QED
    BY <1>3, <2>2, <2>3 DEF Counted
<1>9. Complete' /\ Intact' = Intact
  BY <1>2, <1>8 DEF Complete, Intact, Kept
<1>10. ASSUME got' \in Seq(Symbols), Len(got') = Len(got) + k, phase' \in {"read", "done"}
       PROVE  Counted'
  <2>1. Len(got') + left' = body'
    <3>1. left' = left - k /\ body' = body
      BY <1>1, <1>2 DEF Kept
    <3>2. Len(got) \in Nat /\ left \in Nat /\ Len(got) + left = body
      BY <1>3
    <3>3. (Len(got) + k) + (left - k) = body
      BY <3>2
    <3> QED
      BY <1>10, <3>1, <3>3
  <2>2. Intact' => ~stash'
    BY <1>1, <1>4, <1>9, Zenon
  <2> QED
    BY <1>1, <1>2, <1>4, <1>5, <1>7, <1>9, <1>10, <2>1, <2>2 DEF Counted, Kept
<1> DEFINE seen == SubSeq(input, pos + 1, pos + m)
<1>11. seen \in Seq(Symbols) /\ Len(seen) = m
  BY <1>1, <1>3, PartLen
<1>12. ended = "none" /\ (call.op = "eof" => call.amount = 1)
  BY DEF CountedRead
<1>13. NoCall.op = "none" /\ NoCall.stage = "none" /\ NoCall.amount = 0
  BY DEF NoCall
<1>14. CASE k = 0 /\ Fails /\ (Intact => call.op # "drop")
  <2>1. got' = got /\ ready' = 0 /\ left' = left /\ call' = NoCall
    BY <1>1, <1>3, <1>14 DEF Fails, Leave
  <2>2. /\ call.op = "eof" => phase' = "done" /\ ended' = IF consummated THEN "ok" ELSE "err"
        /\ call.op = "drop" => phase' = "done" /\ ended' = "err"
        /\ call.op \notin {"eof", "drop"} => phase' = "read" /\ ended' = "none"
    BY <1>12, <1>14 DEF Fails, Leave
  <2>3. consummated <=> left = 0
    BY DEF consummated, Counted
  <2>4. Counted'
    BY <1>3, <1>10, <1>14, <2>1, <2>2
  <2>5. phase' = "read" => CountedRead'
    <3>1. phase' = "read" => ended' = "none"
      BY <2>2
    <3>2. 0 <= left' /\ pos' + 0 <= Len(input') /\ 0 \in Nat
      BY <1>2, <1>7 DEF Kept
    <3> QED
      BY <1>13, <2>1, <3>1, <3>2 DEF CountedRead
  <2>6. phase' = "done" => CountedDone'
    <3>1. call.op = "eof" => (ended' = "ok" /\ left = 0) \/ (ended' = "err" /\ left > 0)
      BY <1>3, <2>2, <2>3
    <3>2. phase' = "done" => call.op \in {"eof", "drop"}
      BY <2>2
    <3>3. ~Intact' \/ call.op # "drop"
      BY <1>9, <1>14
    <3> QED
      BY <2>1, <2>2, <3>1, <3>2, <3>3 DEF CountedDone
  <2> QED
    BY <2>4, <2>5, <2>6 DEF Past
<1>15. CASE k = Lesser(call.amount, m) /\ Returns(seen)
  <2>1. /\ got' = got \o SubSeq(seen, 1, k) /\ ready' = 0 /\ call' = NoCall
        /\ ended' = "none" /\ phase' = "read"
    BY <1>11, <1>12, <1>15 DEF Returns
  <2>2. SubSeq(seen, 1, k) \in Seq(Symbols) /\ Len(SubSeq(seen, 1, k)) = k
    <3> HIDE DEF seen
    <3>1. 0 + k <= Len(seen) /\ 0 \in Nat
      BY <1>1, <1>11
    <3>2. SubSeq(seen, 0 + 1, 0 + k) \in Seq(Symbols) /\ Len(SubSeq(seen, 0 + 1, 0 + k)) = k
      BY <1>11, <3>1, PartLen
    <3>3. 0 + 1 = 1 /\ 0 + k = k
      OBVIOUS
    <3> QED
      BY <3>2, <3>3
  <2>3. got' \in Seq(Symbols) /\ Len(got') = Len(got) + k
    <3> HIDE DEF seen
    <3> QED
      BY <1>3, <2>1, <2>2
  <2>4. Counted'
    BY <1>10, <2>1, <2>3
  <2>5. 0 <= left' /\ pos' + 0 <= Len(input') /\ 0 \in Nat
    BY <1>2, <1>7 DEF Kept
  <2>6. CountedRead'
    BY <1>13, <2>1, <2>5 DEF CountedRead
  <2> QED
    BY <2>1, <2>4, <2>6 DEF Past
<1>16. CASE k = 0 /\ n = 0 /\ Shows(seen) /\ (call.op = "eof" => m >= 1)
  <2>1. got' = got /\ ready' = m /\ left' = left /\ pos' = pos
    BY <1>1, <1>3, <1>4, <1>11, <1>16 DEF Shows
  <2>2. /\ call.op = "eof" => phase' = "done" /\ ended' = "leftover" /\ call' = NoCall
        /\ call.op # "eof" => /\ phase' = "read" /\ ended' = "none"
                              /\ call' \in {NoCall, [NoCall EXCEPT !.op = "dropped"]}
    BY <1>12, <1>16 DEF Shows, Leave
  <2>3. /\ [NoCall EXCEPT !.op = "dropped"].op = "dropped" /\ [NoCall EXCEPT !.op = "dropped"].stage = "none"
        /\ [NoCall EXCEPT !.op = "dropped"].amount = 0
    BY DEF NoCall
  <2>4. Counted'
    BY <1>3, <1>10, <1>16, <2>1, <2>2
  <2>5. phase' = "read" => CountedRead'
    <3>1. m <= left' /\ pos' + m <= Len(input') /\ m \in Nat
      BY <1>1, <1>2, <2>1 DEF Kept
    <3>2. phase' = "read" => ended' = "none" /\ call'.op # "eof" /\ call'.stage = "none" /\ call'.amount = 0
      BY <1>13, <2>2, <2>3
    <3> QED
      BY <2>1, <3>1, <3>2 DEF CountedRead
  <2>6. phase' = "done" => CountedDone'
    <3>1. phase' = "done" => call' = NoCall /\ ended' = "leftover" /\ m >= 1
      BY <1>16, <2>2
    <3>2. m >= 1 => left' > 0
      BY <1>1, <1>3, <2>1
    <3> QED
      BY <3>1, <3>2 DEF CountedDone
  <2> QED
    BY <2>2, <2>4, <2>5, <2>6 DEF Past
<1> QED
  BY <1>1, <1>14, <1>15, <1>16

\* Consuming what was shown.
LEMMA CountedUsed ==
    ASSUME Counted, phase' = phase, Kept, over' = over, NEW n \in Nat, n <= left, pos + n <= Len(input), Used(n)
    PROVE  Counted' /\ left' = left - n /\ pos' = pos + n
<1>1. /\ left \in Nat /\ pos \in Nat /\ over \in Nat /\ body \in Nat /\ Len(out) \in Nat
      /\ input \in Seq(Symbols) /\ got \in Seq(Symbols) /\ Len(input) \in Nat /\ Len(got) \in Nat
      /\ pos + left = Len(out) + over /\ Len(got) + left = body /\ buf = <<>>
      /\ over > 0 => left < over
  BY DEF Counted
<1> DEFINE t == SubSeq(input, pos + 1, pos + n)
<1>2. t \in Seq(Symbols) /\ Len(t) = n
  BY <1>1, PartLen
<1>3. got' = got \o t /\ left' = left - n /\ pos' = pos + n /\ stash' = stash
  BY <1>1 DEF Used, Took
<1> HIDE DEF t
<1>4. got' \in Seq(Symbols) /\ Len(got') = Len(got) + n
  BY <1>1, <1>2, <1>3
<1>5. /\ left' \in Nat /\ pos' \in Nat /\ pos' <= Len(input) /\ pos' + left' = Len(out) + over
      /\ over > 0 => left' < over
  <2>1. /\ left - n \in Nat /\ pos + n \in Nat /\ pos + n <= Len(input)
        /\ (pos + n) + (left - n) = pos + left
    BY <1>1
  <2>2. over > 0 => left - n < over
    BY <1>1
  <2> QED
    BY <1>1, <1>3, <2>1, <2>2
<1>7. Len(got') + left' = body
  <2>1. (Len(got) + n) + (left - n) = body
    BY <1>1
  <2> QED
    BY <1>3, <1>4, <2>1
<1>6. Complete' = Complete /\ Intact' = Intact
  BY DEF Complete, Intact, Kept
<1> QED
  BY <1>3, <1>4, <1>5, <1>6, <1>7 DEF Counted, Kept

\* Nothing but the call changes.
LEMMA CountedSame ==
    ASSUME Counted, UNCHANGED <<phase, over, pos, left, got, stash>>, Kept
    PROVE  Counted'
<1>1. Complete' = Complete /\ Intact' = Intact
  BY DEF Complete, Intact, Kept
<1> QED
  BY <1>1 DEF Counted, Kept

LEMMA PastNext ==
    ASSUME Past, over > 0, [Next]_vars
    PROVE  over' \in Nat /\ over' > 0 /\ Past'
<1>1. /\ Counted /\ phase \in {"read", "done"} /\ kind = "partial" /\ last /\ buf = <<>>
      /\ over \in Nat /\ pos \in Nat /\ left \in Nat /\ Len(input) \in Nat /\ pos <= Len(input)
      /\ phase = "read" => CountedRead
      /\ phase = "done" => call = NoCall
  BY DEF Past, Counted, CountedDone
<1>2. phase = "read" => call.stage \in {"none", "start"}
  BY <1>1 DEF CountedRead
<1>3. NoCall.op = "none" /\ NoCall.stage = "none"
  BY DEF NoCall
<1>4. \A o, n : Call(o, n).op = o /\ Call(o, n).amount = n /\ Call(o, n).stage = "start"
  BY DEF Call
<1>5. ~(Write \/ Flush \/ EmitChunk \/ EmitRest \/ Finalize \/ OpenBody)
  BY <1>1 DEF Write, WriteOut, WriteBuffered, Flush, EmitChunk, EmitRest, Finalize, OpenBody
<1>6. ~(LimitorCall \/ FillStart \/ Buffered)
  BY <1>1 DEF LimitorCall, FillStart, Buffered, Starts
<1>7. ~(FillRead \/ FillHeader \/ FillEnds)
  BY <1>2 DEF FillRead, FillHeader, FillEnds, Filling
<1>8. ASSUME NEW o \in Ops, NEW n \in Nat, Ask(o, n)
      PROVE  over' = over /\ Past'
  <2>1. /\ phase = "read" /\ phase' = "read" /\ call' = Call(o, n) /\ o # "eof"
        /\ UNCHANGED <<over, pos, left, got, stash, ready, ended>> /\ Kept
    BY <1>8 DEF Ask, Kept, writer, source, inner, reader, Ops
  <2>2. Counted'
    BY <1>1, <2>1, CountedSame
  <2>3. CountedRead'
    BY <1>1, <1>4, <2>1 DEF CountedRead, Kept
  <2> QED
    BY <2>1, <2>2, <2>3 DEF Past
<1>9. ASSUME NEW n, consume(n)
      PROVE  over' = over /\ Past'
  <2>1. /\ phase = "read" /\ phase' = "read" /\ call' = call /\ n \in 1 .. ready /\ Used(n)
        /\ ready' = ready - n /\ UNCHANGED <<over, ended>>
    BY <1>9 DEF consume, writer, source
  <2>2. ready \in Nat /\ ready <= left /\ pos + ready <= Len(input)
    BY <1>1, <2>1 DEF CountedRead
  <2>3. n \in Nat /\ n <= left /\ pos + n <= Len(input) /\ n <= ready
    BY <1>1, <2>1, <2>2
  <2>4. Kept
    BY <1>1, <1>9 DEF consume, writer, source, Kept, Used
  <2>5. Counted' /\ left' = left - n /\ pos' = pos + n
    BY <1>1, <2>1, <2>3, <2>4, CountedUsed
  <2>6. ready' \in Nat /\ ready' <= left' /\ pos' + ready' <= Len(input')
    BY <1>1, <2>1, <2>2, <2>3, <2>4, <2>5 DEF Kept
  <2>7. CountedRead'
    BY <1>1, <2>1, <2>6 DEF CountedRead
  <2> QED
    BY <2>1, <2>5, <2>7 DEF Past
<1>10. ASSUME Finish
       PROVE  over' = over /\ Past'
  <2>1. /\ phase = "read" /\ phase' = "read" /\ call' = Call("drop", BufSize) /\ ready' = 0
        /\ UNCHANGED <<over, pos, left, got, stash, ended>> /\ Kept
    BY <1>10 DEF Finish, Kept, writer, source, inner, reader
  <2>2. Counted'
    BY <1>1, <2>1, CountedSame
  <2>3. BufSize \in Nat /\ 0 \in Nat /\ 0 <= left' /\ pos' + 0 <= Len(input')
    BY <1>1, <2>1, PartialBodyAssumption DEF Kept
  <2>4. CountedRead'
    BY <1>1, <1>4, <2>1, <2>3 DEF CountedRead
  <2> QED
    BY <2>1, <2>2, <2>4 DEF Past
<1>11. ASSUME Dropped
       PROVE  over' = over /\ Past'
  <2>1. /\ call.op = "dropped" /\ phase' = phase /\ Used(ready) /\ ready' = 0
        /\ call' \in {Call("eof", 1), Call("drop", BufSize)} /\ UNCHANGED <<over, ended>>
    BY <1>11 DEF Dropped, writer, source
  <2>2. phase = "read"
    BY <1>1, <1>3, <2>1
  <2>3. ready \in Nat /\ ready <= left /\ pos + ready <= Len(input)
    BY <1>1, <2>2 DEF CountedRead
  <2>4. Kept
    BY <1>1, <1>11 DEF Dropped, writer, source, Kept, Used
  <2>5. Counted' /\ left' = left - ready /\ pos' = pos + ready
    BY <1>1, <2>1, <2>3, <2>4, CountedUsed
  <2>6. 0 \in Nat /\ 0 <= left' /\ pos' + 0 <= Len(input') /\ BufSize \in Nat /\ 1 \in Nat
    BY <1>1, <2>3, <2>4, <2>5, PartialBodyAssumption DEF Kept
  <2>7. /\ call'.op = "eof" => call'.amount = 1
        /\ call'.stage = "start" /\ call'.amount \in Nat
    <3>1. CASE call' = Call("eof", 1)
      BY <1>4, <2>6, <3>1
    <3>2. CASE call' = Call("drop", BufSize)
      BY <1>4, <2>6, <3>2
    <3> QED
      BY <2>1, <3>1, <3>2
  <2>8. CountedRead'
    BY <1>1, <2>1, <2>2, <2>6, <2>7 DEF CountedRead
  <2> QED
    BY <2>1, <2>2, <2>5, <2>8 DEF Past
<1>12. ASSUME DirectCall
       PROVE  over' \in Nat /\ over' >= over /\ (over' > 0 => Past')
  <2>1. phase = "read"
    BY <1>12 DEF DirectCall, Starts
  <2> QED
    BY <1>1, <1>12, <2>1, CountedDirect
<1>13. ASSUME UNCHANGED vars
       PROVE  over' = over /\ Past'
  <2>1. /\ UNCHANGED <<phase, over, pos, left, got, stash, call, ready, ended>> /\ Kept
    BY <1>13 DEF vars, writer, source, inner, reader, caller, Kept
  <2>2. Counted'
    BY <1>1, <2>1, CountedSame
  <2>3. Intact' = Intact
    BY <2>1 DEF Intact, Kept
  <2> QED
    BY <2>1, <2>2, <2>3 DEF Past, CountedRead, CountedDone, Kept
<1>14. CASE Reads
  <2>1. PICK n \in 0 .. MaxAmount : (\E op \in Ops : Ask(op, n)) \/ consume(n)
    BY <1>14 DEF Reads
  <2>2. n \in Nat
    BY PartialBodyAssumption
  <2>3. over' = over /\ Past'
    BY <1>8, <1>9, <2>1, <2>2
  <2> QED
    BY <1>1, <2>3
<1>15. CASE Finish \/ Dropped \/ Done \/ UNCHANGED vars
  BY <1>1, <1>10, <1>11, <1>13, <1>15 DEF Done
<1>16. CASE DirectCall
  BY <1>1, <1>12, <1>16
<1> QED
  BY <1>5, <1>6, <1>7, <1>14, <1>15, <1>16 DEF Next, Steps

\* Only a call that is passed on can overrun the body, and it does so in the last chunk.
LEMMA FirstOverrun ==
    ASSUME Inv, over = 0, [Next]_vars, over' # over
    PROVE  over' \in Nat /\ over' > 0 /\ Past'
<1>1. CASE DirectCall
  <2>1. /\ phase = "read" /\ call.stage = "start" /\ kind = "partial" /\ buf = <<>>
        /\ call.amount <= left \/ last
        /\ PassOn(call.amount)
    BY <1>1 DEF DirectCall, Starts
  <2>2. /\ pos \in Nat /\ left \in Nat /\ body \in Nat /\ Len(out) \in Nat /\ Len(got) \in Nat
        /\ InputInv /\ CallInv /\ ReadyInv /\ ChunkInv /\ IntactInv /\ got \in Seq(Symbols)
        /\ pos <= Len(input) /\ call.amount \in Nat /\ Taken = Len(got) + Len(Held) /\ ended = "none"
        /\ over \in Nat
    BY <2>1, ReadFacts
  <2>3. last
    <3>1. SUFFICES ASSUME ~last PROVE FALSE
      OBVIOUS
    <3>2. call.amount <= left /\ call.amount <= call.amount
      BY <2>1, <2>2, <3>1
    <3> QED
      BY <2>1, <2>2, <3>2, PassCounts
  <2>4. Held = <<>> /\ Taken = Len(got)
    <3>1. Held = <<>>
      BY <2>1 DEF Held, Fills
    <3>2. Len(Held) = 0
      BY <3>1
    <3> QED
      BY <2>2, <3>1, <3>2
  <2>5. pos + left = Len(out) + over /\ Len(got) + left = body
    <3>1. pos + left = Len(out) /\ Taken + left = body
      BY <2>2, <2>3 DEF ChunkInv, AtLast
    <3> QED
      BY <2>2, <2>4, <3>1
  <2>6. input \in Seq(Symbols) /\ (Len(input) < Len(out) \/ Complete)
    <3>1. /\ input \in Seq(Symbols) /\ out \in Seq(Symbols)
          /\ Len(input) < Len(out) \/ input = out \o <<Tail_, Tail_>>
      BY <2>2 DEF InputInv, Chunked
    <3>2. input = out \o <<Tail_, Tail_>> => Len(input) = Len(out) + 2
      BY <3>1
    <3> QED
      BY <3>1, <3>2 DEF Complete
  <2>7. stash \in BOOLEAN /\ fate \in {"eof", "error"} /\ (Intact => ~stash)
    BY <2>1, <2>2 DEF Inv, ReadInv, IntactInv
  <2>8. Counted
    BY <2>1, <2>2, <2>3, <2>5, <2>6, <2>7 DEF Counted
  <2>9. CountedRead
    BY <2>1, <2>2 DEF CountedRead, CallInv, ReadyInv
  <2>10. over' \in Nat /\ over' >= over /\ (over' > 0 => Past')
    BY <1>1, <2>1, <2>8, <2>9, CountedDirect
  <2> QED
    BY <2>10
<1>2. CASE ~DirectCall
  <2>1. LimitorCall => over' = over
    BY LimitorStep
  <2>2. UNCHANGED vars => over' = over
    BY DEF vars, source
  <2>3. Next /\ ~LimitorCall => over' = over
    <3>1. Write => over' = over
      BY DEF Write, WriteOut, WriteBuffered, source
    <3>2. Flush \/ EmitChunk \/ EmitRest \/ Finalize => over' = over
      BY DEF Flush, EmitChunk, EmitRest, Finalize, source
    <3>3. OpenBody => over' = over
      BY DEF OpenBody
    <3>4. Reads => over' = over
      BY DEF Reads, Ask, consume, source
    <3>5. Finish \/ FillStart \/ Buffered \/ FillRead \/ FillHeader \/ FillEnds \/ Dropped => over' = over
      BY DEF Finish, FillStart, Buffered, FillRead, FillHeader, FillEnds, Dropped, source
    <3> QED
      BY <1>2, <2>2, <3>1, <3>2, <3>3, <3>4, <3>5 DEF Next, Steps, Done
  <2> QED
    BY <2>1, <2>2, <2>3
<1> QED
  BY <1>1, <1>2

LEMMA WholeNext == ASSUME Whole, [Next]_vars PROVE Whole'
<1>1. over \in Nat /\ (over = 0 \/ over > 0)
  BY DEF Whole
<1>2. CASE over = 0 /\ over' = over
  <2>1. Inv'
    BY <1>1, <1>2, InvNext DEF Whole
  <2> QED
    BY <1>1, <1>2, <2>1 DEF Whole
<1>3. CASE over = 0 /\ over' # over
  <2>1. over' \in Nat /\ over' > 0 /\ Past'
    BY <1>3, FirstOverrun DEF Whole
  <2> QED
    BY <2>1 DEF Whole
<1>4. CASE over > 0
  <2>1. over' \in Nat /\ over' > 0 /\ Past'
    BY <1>4, PastNext DEF Whole
  <2> QED
    BY <2>1 DEF Whole
<1> QED
  BY <1>1, <1>2, <1>3, <1>4

\* In every reachable state, either nothing beyond the body was consumed, the chunks the
\* writer puts out hold the body in order, the reader knows where it stands in them and
\* keeps what it has not passed on; or the last chunk is being read without a buffer and
\* the reader stands too far by exactly what was consumed and not counted.
THEOREM WholeHolds == Spec => []Whole
<1>1. Init => Whole
  <2>1. Init => over = 0
    BY DEF Init
  <2> QED
    BY <2>1, InvInit DEF Whole
<1>2. Whole /\ [Next]_vars => Whole'
  BY WholeNext
<1> QED
  BY <1>1, <1>2, PTL DEF Spec

LEMMA BytesOfBody ==
    ASSUME NEW n \in Nat
    PROVE  Bytes(1, n) = Run(0, n)
<1>1. 0 + 1 = 1 /\ 0 + n = n
  OBVIOUS
<1> QED
  BY <1>1 DEF Run

LEMMA InvSafe ==
    ASSUME Inv, over = 0
    PROVE  InOrder /\ EndIsComplete /\ IntactIsAccepted /\ HashIsOfBody
<1>1. CASE phase \in {"write", "emit", "sent"}
  <2>1. WriteInv
    BY <1>1 DEF Inv
  <2>2. got = <<>> /\ pos = 0 /\ ended = "none" /\ body \in Nat /\ out \in Seq(Symbols)
    BY <2>1 DEF WriteInv, Unread, Split, Chunked, Inv
  <2>3. Len(got) = 0 /\ Len(out) \in Nat
    BY <2>2
  <2>4. got = Bytes(1, Len(got))
    BY <2>2, <2>3, BytesOfBody, RunNone
  <2>5. Len(got) <= body /\ ~(pos > Len(out)) /\ ~(over > 0)
    BY <2>2, <2>3
  <2> QED
    BY <2>2, <2>4, <2>5 DEF InOrder, EndIsComplete, IntactIsAccepted, HashIsOfBody
<1>2. CASE phase = "read"
  <2>1. /\ Len(got) \in Nat /\ got = Run(0, Len(got)) /\ Len(Held) \in Nat /\ left \in Nat
        /\ Taken = Len(got) + Len(Held) /\ Taken + left <= body /\ body \in Nat
        /\ pos \in Nat /\ pos + left <= Len(out) /\ Len(out) \in Nat /\ ended = "none"
    BY <1>2, ReadFacts
  <2>2. got = Bytes(1, Len(got))
    BY <2>1, BytesOfBody
  <2>3. Len(got) <= body /\ ~(pos > Len(out)) /\ ~(over > 0)
    BY <2>1
  <2> QED
    BY <2>1, <2>2, <2>3 DEF InOrder, EndIsComplete, IntactIsAccepted, HashIsOfBody
<1>3. CASE phase = "done"
  <2>1. InputInv /\ DoneInv /\ body \in Nat
    BY <1>3 DEF Inv
  <2>2. InOrder
    <3>1. Len(out) \in Nat
      BY <2>1 DEF InputInv, Chunked
    <3>2. /\ got = Bytes(1, Len(got)) /\ Len(got) <= body
          /\ ~(pos > Len(out)) /\ ~(over > 0)
      BY <2>1, <3>1, BytesOfBody DEF DoneInv
    <3> QED
      BY <3>2 DEF InOrder
  <2>3. IntactIsAccepted
    <3>1. ended \in {"err", "leftover"} => ~(Complete /\ fate = "eof")
      BY <2>1 DEF DoneInv, Intact, Complete
    <3>2. fate \in {"eof", "error"}
      BY <2>1 DEF DoneInv
    <3> QED
      BY <3>1, <3>2 DEF IntactIsAccepted
  <2>4. HashIsOfBody
    BY <2>1, BytesOfBody DEF DoneInv, HashIsOfBody
  <2>5. EndIsComplete
    <3>1. Len(out) \in Nat
      BY <2>1 DEF InputInv, Chunked
    <3>2. Len(out) = Len(out) + over
      BY <3>1
    <3> QED
      BY <2>1, <3>2 DEF DoneInv, EndIsComplete, Complete
  <2> QED
    BY <2>2, <2>3, <2>4, <2>5
<1> QED
  BY <1>1, <1>2, <1>3 DEF Inv

LEMMA PastSafe ==
    ASSUME Past, over > 0
    PROVE  InOrder /\ EndIsComplete /\ IntactIsAccepted /\ HashIsOfBody
<1>1. /\ Counted /\ over \in Nat /\ left \in Nat /\ pos \in Nat /\ Len(out) \in Nat /\ Len(got) \in Nat
      /\ body \in Nat /\ pos + left = Len(out) + over /\ Len(got) + left = body /\ left < over
      /\ Complete /\ kind = "partial" /\ last /\ buf = <<>> /\ fate \in {"eof", "error"}
      /\ phase \in {"read", "done"}
  BY DEF Past, Counted
<1>2. pos > Len(out) /\ Len(got) <= body /\ over # 0
  BY <1>1
<1>3. left = 0 => pos = Len(out) + over /\ Len(got) = body
  BY <1>1
<1>4. ended = "ok" => left = 0
  BY <1>1 DEF Past, CountedRead, CountedDone
<1>5. ended \in {"err", "leftover"} /\ fate = "eof" => left > 0
  BY <1>1 DEF Past, CountedRead, CountedDone, Intact, Complete
<1>6. InOrder
  BY <1>1, <1>2 DEF InOrder
<1>7. EndIsComplete
  BY <1>1, <1>3, <1>4 DEF EndIsComplete
<1>8. IntactIsAccepted
  BY <1>1, <1>5 DEF IntactIsAccepted
<1>9. HashIsOfBody
  BY <1>2 DEF HashIsOfBody
<1> QED
  BY <1>6, <1>7, <1>8, <1>9

LEMMA SafeFacts ==
    ASSUME Whole
    PROVE  InOrder /\ EndIsComplete /\ IntactIsAccepted /\ HashIsOfBody
<1>1. CASE over = 0
  BY <1>1, InvSafe DEF Whole
<1>2. CASE over > 0
  BY <1>2, PastSafe DEF Whole
<1> QED
  BY <1>1, <1>2 DEF Whole

\* Whatever its calls, a caller gets the bytes of the body in the order they were written,
\* no lengths of chunks and nothing beyond the body, for every size of the buffers, every
\* power of two the chunks are cut to and every place the input breaks off, until a
\* consuming call in the last of several chunks, with nothing buffered, asks for more than
\* is left and data_helper consumes octets of the next packet.
THEOREM InOrderHolds == Spec => []InOrder
  BY WholeHolds, SafeFacts, PTL

\* If the packet parser leaves a packet without error, the body was complete, all of it was
\* counted off, and the next packet is read from as many octets behind its beginning as
\* overrunning calls have consumed of it, none of them if there was no such call.
THEOREM EndIsCompleteHolds == Spec => []EndIsComplete
  BY WholeHolds, SafeFacts, PTL

\* A body that arrived complete is not taken for a truncated one, unless a data_consume_hard
\* failed after it had consumed past the end of the last chunk.
THEOREM IntactIsAcceptedHolds == Spec => []IntactIsAccepted
  BY WholeHolds, SafeFacts, PTL

\* What the HashedReader below has hashed when a literal data packet is left without error
\* is exactly its body, if nothing beyond it was consumed.
THEOREM HashIsOfBodyHolds == Spec => []HashIsOfBody
  BY WholeHolds, SafeFacts, PTL
=============================================================================
