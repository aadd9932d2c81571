---------------------------- MODULE KeyringProofs ----------------------------
(***************************************************************************)
(* MatchesInput and OkIsComplete of Keyring, for inputs, files and         *)
(* fingerprints without bound.                                             *)
(*                                                                         *)
(* The reference of MatchesInput looks at the whole input, and the parser  *)
(* has seen a part of it only.  The invariant therefore speaks of the      *)
(* first n items, which have been parsed, and of the position b where the  *)
(* packets begin that no result has been returned for: the results are the *)
(* ones expected before b, and what is expected before b does not change   *)
(* when the input grows.                                                   *)
(***************************************************************************)
EXTENDS Keyring, FiniteSetTheorems, WellFoundedInduction, TLAPS

\* f lists the numbers of S in their order, n of them.
Lists(f, n, S) ==
    /\ n \in Nat /\ f \in [1 .. n -> S] /\ S \subseteq Nat
    /\ \A x \in S : \E k \in 1 .. n : f[k] = x
    /\ \A j, k \in 1 .. n : j < k => f[j] < f[k]

\* What the input is said to hold, for any input h.
LostIn(h, i) == i + 1 \in DOMAIN h /\ h[i + 1].tag = "cut"
BreaksIn(h, i) == h[i].tag \in {"key", "ukey", "junk", "cut", "err", "end", "torn", "file"}
BelongsIn(h, s, i) ==
    /\ s < i /\ h[s].tag \in {"key", "ukey"} /\ h[i].tag = "body" /\ ~LostIn(h, i)
    /\ \A j \in s + 1 .. i - 1 : ~BreaksIn(h, j)
StrayIn(h, i) ==
    /\ h[i].tag \in {"body", "ukey", "junk"} /\ ~LostIn(h, i)
    /\ ~\E s \in DOMAIN h : BelongsIn(h, s, i)
HiddenIn(h, e) ==
    \E s \in 1 .. e - 1 :
        /\ StrayIn(h, s)
        /\ \A j \in s + 1 .. e - 1 :
              h[j].tag \in {"marker", "blob"} \/ LostIn(h, j) \/ BelongsIn(h, s, j)
ExpectedIn(h, rej, i) ==
    \/ h[i].tag = "key" /\ ~LostIn(h, i) /\ h[i].fpr \notin rej
    \/ StrayIn(h, i)
    \/ h[i].tag \in {"cut", "err"} /\ ~HiddenIn(h, i)

-----------------------------------------------------------------------------
(* The invariant. *)

PacketTags == {"key", "ukey", "body", "marker", "junk"}
Marks == {"blob", "cut", "end", "torn", "err", "file"}
Items == Packets \cup {Mark(t) : t \in Marks}
Results == [res : {"cert", "err", "none"}, of : Seq(Nat)]

TypeOK ==
    /\ cmd \in Commands /\ rejects \subseteq Fprs
    /\ source \in {"pp", "iter", "none"} /\ cur \in Nat /\ retry \in BOOLEAN
    /\ packets \in Seq(Nat) /\ queued \in BOOLEAN
    /\ hist \in Seq(Items) /\ out \in Seq(Results)
    /\ written \in Seq([fpr : Fprs, of : SUBSET Nat])
    /\ merged \in [Fprs -> SUBSET Nat]
    /\ files \in Nat /\ exit \in {"none", "ok", "failed"}

\* How much of the input has been through CertParser::parse.
Parsed(h, c) == IF c # 0 THEN c - 1 ELSE Len(h)

\* Where the part of the input begins that no result has been returned for.
Bound(h, c, ps, q) ==
    IF ps # <<>> THEN ps[1] ELSE IF q THEN Len(h) ELSE Parsed(h, c) + 1

\* The packet the PacketParser is at is the last of the input.
AtPacket(h, c, src) == c # 0 => src = "pp" /\ c = Len(h) /\ h[c] \in Packets

\* What is buffered, of the first n items of the input: a primary key with all
\* packets behind it, or one packet that cannot start a certificate.
Buffered(h, n, ps) ==
    /\ ps[1] \in 1 .. n /\ h[ps[1]].tag \in {"key", "ukey", "body", "junk"}
    /\ \A k \in DOMAIN ps : ps[k] \in 1 .. n
    /\ \A j, k \in DOMAIN ps : j < k => ps[j] < ps[k]
    /\ \A j \in ps[1] + 1 .. n : h[j].tag \in {"body", "marker", "blob"}
    /\ h[ps[1]].tag \in {"key", "ukey"} =>
          /\ \A j \in ps[1] + 1 .. n : h[j].tag = "body" => \E k \in DOMAIN ps : ps[k] = j
          /\ \A k \in DOMAIN ps : k # 1 => h[ps[k]].tag = "body"
    /\ h[ps[1]].tag \notin {"key", "ukey"} =>
          /\ Len(ps) = 1
          /\ \A j \in ps[1] + 1 .. n : h[j].tag # "body"

Shape ==
    /\ AtPacket(hist, cur, source)
    /\ packets # <<>> => source # "none" /\ Buffered(hist, Parsed(hist, cur), packets)
    /\ queued => /\ source = "none" /\ hist # <<>>
                 /\ hist[Len(hist)].tag \in {"cut", "err"}

\* q are the packets of a certificate among the first n items of the input, which
\* go on behind it.
Whole(h, n, q) ==
    /\ Lists(q, Len(q), {q[1]} \cup {j \in 1 .. n : BelongsIn(h, q[1], j)})
    /\ \E j \in q[1] + 1 .. n : BreaksIn(h, j)

\* r is the result that is expected for the packet it starts at, which is before b.
Right(h, rej, n, b, r) ==
    /\ r.of # <<>> /\ r.of[1] \in 1 .. n /\ r.of[1] < b
    /\ ExpectedIn(h, rej, r.of[1])
    /\ IF h[r.of[1]].tag = "key" THEN r = CertOf(r.of) /\ Whole(h, n, r.of)
       ELSE r = Err(r.of[1])

\* The first m results of o are what is expected up to b.
Listed(h, rej, n, b, o, m) ==
    /\ m \in 0 .. Len(o)
    /\ \A k \in 1 .. m : Right(h, rej, n, b, o[k])
    /\ \A j, k \in 1 .. m : j < k => o[j].of[1] < o[k].of[1]
    /\ \A i \in 1 .. n : i < b /\ ExpectedIn(h, rej, i) => \E k \in 1 .. m : o[k].of[1] = i

Settled(b, n, m) ==
    /\ Listed(hist, rejects, n, b, out, m)
    /\ \A k \in m + 1 .. Len(out) : out[k] = None
    /\ m < Len(out) => source = "none" /\ ~queued

\* A library user's loop over the parser.
Collected ==
    LET n == Parsed(hist, cur) IN
    /\ source # "none" => \A j \in DOMAIN hist : hist[j].tag \in PacketTags \cup {"blob"}
    /\ source # "none" /\ packets = <<>> => \A j \in 1 .. n : hist[j].tag \in {"marker", "blob"}
    /\ packets # <<>> /\ hist[packets[1]].tag # "key" => StrayIn(hist, packets[1])
    /\ queued => ~HiddenIn(hist, Len(hist))
    /\ \E m \in 0 .. Len(out) : Settled(Bound(hist, cur, packets, queued), n, m)

\* The certificates before b that a command wants, of the first n items.
Bad == {"cut", "err", "ukey", "junk"}
Clean(h, b, n) == \A i \in 1 .. n : i < b => h[i].tag \notin Bad
Wanted(h, rej, b, n) == {i \in 1 .. n : i < b /\ h[i].tag = "key" /\ h[i].fpr \notin rej}

\* They have been written, or merged.
Wrote(h, w, S) ==
    /\ \A k \in DOMAIN w : \A i \in w[k].of : i \in S /\ h[i].fpr = w[k].fpr
    /\ \A i \in S : \E k \in DOMAIN w : i \in w[k].of
Merged(h, g, S) == \A f \in Fprs : g[f] = {i \in S : h[i].fpr = f}

Handled(h, b, n, rej, c, w, g) ==
    /\ Clean(h, b, n)
    /\ c = "filter" => Wrote(h, w, Wanted(h, rej, b, n))
    /\ c = "merge" => Merged(h, g, Wanted(h, rej, b, n))

\* A command that still runs and will not fail for an error that is queued.
Commanded ==
    Handled(hist, Bound(hist, cur, packets, queued), Parsed(hist, cur), rejects, cmd,
            written, merged)

\* A command does not ask again once the parser is at its end.
Quiet == \A k \in DOMAIN out : out[k] # None

Inv ==
    /\ TypeOK /\ Shape
    /\ cmd = "merge" => rejects = {}
    /\ cmd # "collect" => Quiet
    /\ cmd = "collect" => Collected
    /\ cmd # "collect" /\ exit = "none" /\ ~queued => Commanded
    /\ OkIsComplete

-----------------------------------------------------------------------------
\* A set of numbers has a least one.
LEMMA LeastNat ==
    ASSUME NEW T, T \subseteq Nat, T # {}
    PROVE  \E x \in T : \A y \in T : x <= y
<1>1. IsWellFoundedOn(OpToRel(<, Nat), Nat)
  BY NatLessThanWellFounded
<1>2. PICK x \in T : \A y \in T : ~ (<<y, x>> \in OpToRel(<, Nat))
  BY <1>1, WFMin
<1>3. \A y \in T : y \in Nat /\ x \in Nat /\ ~ (y < x)
  BY <1>2 DEF OpToRel
<1> QED
  BY <1>3

\* Ascending lists a finite set of numbers.
LEMMA AscendingLists ==
    ASSUME NEW S, S \subseteq Nat, IsFiniteSet(S)
    PROVE  Lists(Ascending(S), Cardinality(S), S)
<1> DEFINE n == Cardinality(S)
           Below(x) == {y \in S : y < x}
           r == [x \in S |-> Cardinality(Below(x))]
<1>1. n \in Nat
  BY FS_CardinalityType
<1>2. ASSUME NEW x \in S PROVE r[x] \in 0 .. n - 1
  <2>1. IsFiniteSet(S \ {x}) /\ Cardinality(S \ {x}) = n - 1
    BY FS_RemoveElement
  <2>2. Below(x) \in SUBSET (S \ {x})
    BY <1>2
  <2>3. IsFiniteSet(Below(x)) /\ Cardinality(Below(x)) <= n - 1
    BY <2>1, <2>2, FS_Subset
  <2>4. Cardinality(Below(x)) \in Nat
    BY <2>3, FS_CardinalityType
  <2> QED
    BY <1>1, <2>3, <2>4
<1>3. ASSUME NEW x \in S, NEW z \in S, x < z PROVE r[x] < r[z]
  <2>1. Below(x) \in SUBSET Below(z) /\ Below(x) # Below(z)
    <3>1. x \in Nat /\ z \in Nat
      OBVIOUS
    <3>2. x \in Below(z) /\ x \notin Below(x)
      BY <1>3, <3>1
    <3>3. \A y \in Below(x) : y \in Below(z)
      BY <1>3, <3>1
    <3> QED
      BY <3>2, <3>3
  <2>2. IsFiniteSet(Below(z))
    BY FS_Subset
  <2>3. Cardinality(Below(x)) <= Cardinality(Below(z)) /\ Cardinality(Below(x)) # Cardinality(Below(z))
    BY <2>1, <2>2, FS_Subset
  <2> QED
    BY <1>2, <2>3
<1>4. r \in Injection(S, 0 .. n - 1)
  <2>1. ASSUME NEW x \in S, NEW z \in S, r[x] = r[z] PROVE x = z
    <3>1. x \in Nat /\ z \in Nat /\ r[x] \in Nat
      BY <1>2
    <3> QED
      BY <1>3, <2>1, <3>1
  <2>2. r \in [S -> 0 .. n - 1]
    BY <1>2
  <2> HIDE DEF r
  <2> QED
    BY <2>1, <2>2 DEF Injection, IsInjective
<1>5. IsFiniteSet(0 .. n - 1) /\ Cardinality(0 .. n - 1) = n
  <2>1. 0 \in Int /\ n - 1 \in Int
    BY <1>1
  <2>2. IsFiniteSet(0 .. n - 1) /\ Cardinality(0 .. n - 1) = IF 0 > n - 1 THEN 0 ELSE (n - 1) - 0 + 1
    BY <2>1, FS_Interval
  <2> HIDE DEF n
  <2> QED
    BY <1>1, <2>2
<1>6. r \in Surjection(S, 0 .. n - 1)
  BY <1>4, <1>5, FS_Injection
<1> DEFINE a == Ascending(S)
<1>7. a = [k \in 1 .. n |-> CHOOSE x \in S : Cardinality(Below(x)) = k - 1]
  BY DEF Ascending
<1> HIDE DEF a
<1>8. ASSUME NEW k \in 1 .. n PROVE a[k] \in S /\ r[a[k]] = k - 1
  <2>1. k - 1 \in 0 .. n - 1
    BY <1>1
  <2>2. PICK x \in S : r[x] = k - 1
    <3> HIDE DEF r
    <3> QED
      BY <1>6, <2>1 DEF Surjection
  <2>3. Cardinality(Below(x)) = k - 1
    BY <2>2
  <2>4. a[k] = CHOOSE z \in S : Cardinality(Below(z)) = k - 1
    BY <1>7
  <2> HIDE DEF r, Below
  <2>5. a[k] \in S /\ Cardinality(Below(a[k])) = k - 1
    BY <2>3, <2>4
  <2> QED
    BY <2>5 DEF r
<1> HIDE DEF r
<1>9. \A x \in S : \E k \in 1 .. n : a[k] = x
  <2> TAKE x \in S
  <2>1. r[x] + 1 \in 1 .. n
    BY <1>1, <1>2
  <2>2. a[r[x] + 1] \in S /\ r[a[r[x] + 1]] = (r[x] + 1) - 1
    BY <1>8, <2>1
  <2>3. r[a[r[x] + 1]] = r[x]
    BY <1>2, <2>2
  <2> QED
    BY <1>4, <2>1, <2>2, <2>3 DEF Injection, IsInjective
<1>10. ASSUME NEW j \in 1 .. n, NEW k \in 1 .. n, j < k PROVE a[j] < a[k]
  <2>1. a[j] \in S /\ a[k] \in S /\ r[a[j]] = j - 1 /\ r[a[k]] = k - 1
    BY <1>8
  <2>0. j \in Nat /\ k \in Nat
    BY <1>1
  <2>2. a[j] \in Nat /\ a[k] \in Nat /\ r[a[j]] < r[a[k]]
    <3>1. a[j] \in Nat /\ a[k] \in Nat
      BY <2>1
    <3>2. j - 1 < k - 1
      BY <1>10, <2>0
    <3> QED
      BY <2>1, <3>1, <3>2, Zenon
  <2>3. a[j] = a[k] \/ a[k] < a[j] \/ a[j] < a[k]
    BY <2>2
  <2>4. ~ (r[a[k]] < r[a[j]])
    BY <1>1, <1>10, <2>1
  <2> QED
    BY <1>3, <2>1, <2>2, <2>3, <2>4
<1>11. a \in [1 .. n -> S]
  BY <1>7, <1>8
<1> HIDE DEF n
<1>12. Lists(a, n, S)
  BY <1>1, <1>9, <1>10, <1>11 DEF Lists
<1> QED
  BY <1>12 DEF a, n

\* Two lists of the same numbers agree.
LEMMA ListsAgree ==
    ASSUME NEW f, NEW m, NEW g, NEW n, NEW S, Lists(f, m, S), Lists(g, n, S)
    PROVE  \A k \in 1 .. m : k <= n /\ f[k] = g[k]
<1> DEFINE Off == {k \in 1 .. m : ~ (k <= n /\ f[k] = g[k])}
<1>0. m \in Nat /\ n \in Nat
  BY DEF Lists
<1> SUFFICES ASSUME Off # {} PROVE FALSE
  OBVIOUS
<1>1. PICK k \in Off : \A y \in Off : k <= y
  <2>1. Off \subseteq Nat
    BY <1>0
  <2> HIDE DEF Off
  <2> QED
    BY <2>1, LeastNat
<1>2. \A j \in 1 .. m : j < k => j <= n /\ f[j] = g[j]
  BY <1>0, <1>1
<1>3. k \in 1 .. m /\ ~ (k <= n /\ f[k] = g[k])
  BY <1>1
<1> HIDE DEF Off
<1>4. PICK i \in 1 .. n : g[i] = f[k]
  BY <1>3 DEF Lists
<1>5. f[k] \in Nat
  BY <1>3 DEF Lists
<1>6. ~ (i < k)
  <2>1. ASSUME i < k PROVE FALSE
    <3>1. i \in 1 .. m
      BY <1>0, <1>3, <1>4, <2>1
    <3>2. f[i] = g[i]
      BY <1>2, <2>1, <3>1
    <3>3. f[i] < f[k]
      BY <1>3, <2>1, <3>1 DEF Lists
    <3> QED
      BY <1>4, <1>5, <3>2, <3>3
  <2> QED
    BY <2>1
<1>7. k \in 1 .. n
  BY <1>0, <1>3, <1>4, <1>6
<1>8. PICK l \in 1 .. m : f[l] = g[k]
  BY <1>7 DEF Lists
<1>9. f[l] \in Nat
  BY <1>8 DEF Lists
<1>10. ~ (l < k)
  <2>1. ASSUME l < k PROVE FALSE
    <3>1. l \in 1 .. n /\ f[l] = g[l]
      BY <1>0, <1>2, <1>7, <1>8, <2>1
    <3>2. g[l] < g[k]
      BY <1>7, <2>1, <3>1 DEF Lists
    <3> QED
      BY <1>8, <1>9, <3>1, <3>2
  <2> QED
    BY <2>1
<1>11. f[k] <= f[l]
  <2>1. k = l \/ k < l
    BY <1>0, <1>3, <1>8, <1>10
  <2>2. k < l => f[k] < f[l]
    BY <1>3, <1>8 DEF Lists
  <2> QED
    BY <1>5, <1>9, <2>1, <2>2
<1>12. g[k] <= g[i]
  <2>1. k = i \/ k < i
    BY <1>0, <1>3, <1>4, <1>6
  <2>2. k < i => g[k] < g[i]
    BY <1>4, <1>7 DEF Lists
  <2> QED
    BY <1>4, <1>5, <1>8, <1>9, <2>1, <2>2
<1>13. f[k] = g[k]
  BY <1>4, <1>5, <1>8, <1>9, <1>11, <1>12
<1> QED
  BY <1>3, <1>7, <1>13

\* There is one way to list a set in order.
LEMMA ListsOnce ==
    ASSUME NEW f, NEW m, NEW g, NEW n, NEW S, Lists(f, m, S), Lists(g, n, S)
    PROVE  m = n /\ f = g
<1>0. m \in Nat /\ n \in Nat /\ f \in [1 .. m -> S] /\ g \in [1 .. n -> S]
  BY DEF Lists
<1>1. \A k \in 1 .. m : k <= n /\ f[k] = g[k]
  BY ListsAgree
<1>2. \A k \in 1 .. n : k <= m /\ g[k] = f[k]
  BY ListsAgree
<1>3. m = n
  <2>1. m # 0 => m <= n
    BY <1>0, <1>1
  <2>2. n # 0 => n <= m
    BY <1>0, <1>2
  <2> QED
    BY <1>0, <2>1, <2>2
<1> QED
  BY <1>0, <1>1, <1>3
-----------------------------------------------------------------------------
(* More input changes nothing about what has been parsed. *)

\* h2 is h with more behind it, and the first n items of h have been parsed.
Grows(h, h2, n) ==
    /\ h \in Seq(Items) /\ h2 \in Seq(Items)
    /\ n \in 0 .. Len(h) /\ Len(h) <= Len(h2)
    /\ \A i \in 1 .. Len(h) : h2[i] = h[i]
    /\ n = Len(h) /\ n < Len(h2) => h2[n + 1].tag # "cut"

LEMMA SameItem ==
    ASSUME NEW h, NEW h2, NEW n, Grows(h, h2, n), NEW i \in 1 .. n
    PROVE  /\ h2[i] = h[i] /\ (LostIn(h2, i) <=> LostIn(h, i))
           /\ (BreaksIn(h2, i) <=> BreaksIn(h, i))
<1>1. n \in Nat /\ Len(h) \in Nat /\ Len(h2) \in Nat /\ i \in 1 .. Len(h)
  BY DEF Grows
<1>2. h2[i] = h[i]
  BY <1>1 DEF Grows
<1>3. CASE i + 1 <= Len(h)
  <2>1. h2[i + 1] = h[i + 1] /\ i + 1 \in 1 .. Len(h) /\ i + 1 \in 1 .. Len(h2)
    BY <1>1, <1>3 DEF Grows
  <2>2. DOMAIN h = 1 .. Len(h) /\ DOMAIN h2 = 1 .. Len(h2)
    BY DEF Grows
  <2> QED
    BY <1>2, <2>1, <2>2 DEF LostIn, BreaksIn
<1>4. CASE ~ (i + 1 <= Len(h))
  <2>1. i = n /\ n = Len(h)
    BY <1>1, <1>4 DEF Grows
  <2>2. DOMAIN h = 1 .. Len(h) /\ DOMAIN h2 = 1 .. Len(h2)
    BY DEF Grows
  <2>3. ~LostIn(h, i)
    BY <1>1, <2>1, <2>2 DEF LostIn
  <2>4. ~LostIn(h2, i)
    BY <1>1, <2>1, <2>2 DEF LostIn, Grows
  <2> QED
    BY <1>2, <2>3, <2>4 DEF BreaksIn
<1> QED
  BY <1>3, <1>4

LEMMA SameBelongs ==
    ASSUME NEW h, NEW h2, NEW n, Grows(h, h2, n), NEW s \in 1 .. n, NEW i \in 1 .. n
    PROVE  BelongsIn(h2, s, i) <=> BelongsIn(h, s, i)
<1>1. n \in Nat /\ s \in Nat /\ i \in Nat
  BY DEF Grows
<1>2. h2[s] = h[s] /\ h2[i] = h[i] /\ (LostIn(h2, i) <=> LostIn(h, i))
  BY SameItem
<1>3. \A j \in s + 1 .. i - 1 : j \in 1 .. n
  BY <1>1
<1>4. \A j \in s + 1 .. i - 1 : BreaksIn(h2, j) <=> BreaksIn(h, j)
  BY <1>3, SameItem
<1> QED
  BY <1>2, <1>4 DEF BelongsIn

LEMMA SameStray ==
    ASSUME NEW h, NEW h2, NEW n, Grows(h, h2, n), NEW i \in 1 .. n
    PROVE  StrayIn(h2, i) <=> StrayIn(h, i)
<1>1. n \in Nat /\ i \in Nat /\ n <= Len(h) /\ Len(h) <= Len(h2) /\ Len(h) \in Nat /\ Len(h2) \in Nat
  BY DEF Grows
<1>2. DOMAIN h = 1 .. Len(h) /\ DOMAIN h2 = 1 .. Len(h2)
  BY DEF Grows
<1>3. h2[i] = h[i] /\ (LostIn(h2, i) <=> LostIn(h, i))
  BY SameItem
<1>4. \A s \in DOMAIN h : BelongsIn(h, s, i) => s \in 1 .. n
  BY <1>1, <1>2 DEF BelongsIn
<1>5. \A s \in DOMAIN h2 : BelongsIn(h2, s, i) => s \in 1 .. n
  BY <1>1, <1>2 DEF BelongsIn
<1>6. \A s \in 1 .. n : BelongsIn(h2, s, i) <=> BelongsIn(h, s, i)
  BY SameBelongs
<1>7. \A s \in 1 .. n : s \in DOMAIN h /\ s \in DOMAIN h2
  BY <1>1, <1>2
<1> QED
  BY <1>3, <1>4, <1>5, <1>6, <1>7 DEF StrayIn

LEMMA SameHidden ==
    ASSUME NEW h, NEW h2, NEW n, Grows(h, h2, n), NEW e \in 1 .. n
    PROVE  HiddenIn(h2, e) <=> HiddenIn(h, e)
<1>1. n \in Nat /\ e \in Nat
  BY DEF Grows
<1>2. \A s \in 1 .. e - 1 : s \in 1 .. n
  BY <1>1
<1>3. \A s \in 1 .. e - 1 : StrayIn(h2, s) <=> StrayIn(h, s)
  BY <1>2, SameStray
<1>4. \A s \in 1 .. e - 1 : \A j \in s + 1 .. e - 1 : j \in 1 .. n
  BY <1>1
<1>5. \A s \in 1 .. e - 1 : \A j \in s + 1 .. e - 1 :
          /\ h2[j] = h[j] /\ (LostIn(h2, j) <=> LostIn(h, j))
          /\ (BelongsIn(h2, s, j) <=> BelongsIn(h, s, j))
  BY <1>2, <1>4, SameItem, SameBelongs
<1> QED
  BY <1>3, <1>5 DEF HiddenIn

LEMMA SameExpected ==
    ASSUME NEW h, NEW h2, NEW n, Grows(h, h2, n), NEW rej, NEW i \in 1 .. n
    PROVE  ExpectedIn(h2, rej, i) <=> ExpectedIn(h, rej, i)
<1>1. h2[i] = h[i] /\ (LostIn(h2, i) <=> LostIn(h, i))
  BY SameItem
<1>2. StrayIn(h2, i) <=> StrayIn(h, i)
  BY SameStray
<1>3. HiddenIn(h2, i) <=> HiddenIn(h, i)
  BY SameHidden
<1> QED
  BY <1>1, <1>2, <1>3 DEF ExpectedIn

\* A certificate that has been returned stays whole.
LEMMA SameWhole ==
    ASSUME NEW h, NEW h2, NEW n, Grows(h, h2, n), NEW n2, n2 \in n .. Len(h2),
           NEW q, q[1] \in 1 .. n, Whole(h, n, q)
    PROVE  Whole(h2, n2, q)
<1>1. n \in Nat /\ Len(h2) \in Nat /\ n2 \in Nat /\ n <= n2
  BY DEF Grows
<1> DEFINE s == q[1]
<1>2. s \in 1 .. n /\ s \in Nat
  BY <1>1
<1>3. PICK br \in s + 1 .. n : BreaksIn(h, br)
  BY DEF Whole
<1>4. br \in 1 .. n /\ br \in Nat
  BY <1>1, <1>2, <1>3
<1>5. BreaksIn(h2, br)
  BY <1>3, <1>4, SameItem
<1> HIDE DEF s
<1>6. \A j \in 1 .. n : BelongsIn(h2, s, j) <=> BelongsIn(h, s, j)
  BY <1>2, SameBelongs
<1>7. \A j \in 1 .. n2 : BelongsIn(h2, s, j) => j \in 1 .. n
  <2> TAKE j \in 1 .. n2
  <2>1. ASSUME BelongsIn(h2, s, j), ~ (j \in 1 .. n) PROVE FALSE
    <3>1. br \in s + 1 .. j - 1
      BY <1>1, <1>2, <1>3, <1>4, <2>1
    <3> QED
      BY <1>5, <2>1, <3>1 DEF BelongsIn
  <2> QED
    BY <2>1
<1>8. {j \in 1 .. n2 : BelongsIn(h2, s, j)} = {j \in 1 .. n : BelongsIn(h, s, j)}
  <2>1. \A j \in 1 .. n : j \in 1 .. n2
    BY <1>1
  <2> QED
    BY <1>6, <1>7, <2>1
<1>9. br \in s + 1 .. n2
  BY <1>1, <1>2, <1>3, <1>4
<1>10. Lists(q, Len(q), {s} \cup {j \in 1 .. n : BelongsIn(h, s, j)})
  BY DEF Whole, s
<1>11. Lists(q, Len(q), {s} \cup {j \in 1 .. n2 : BelongsIn(h2, s, j)})
  BY <1>8, <1>10
<1> QED
  BY <1>5, <1>9, <1>11 DEF Whole, s

LEMMA SameRight ==
    ASSUME NEW h, NEW h2, NEW n, Grows(h, h2, n), NEW n2, n2 \in n .. Len(h2),
           NEW rej, NEW b, NEW r, Right(h, rej, n, b, r)
    PROVE  Right(h2, rej, n2, b, r)
<1> DEFINE i == r.of[1]
<1>1. i \in 1 .. n /\ i < b /\ r.of # <<>> /\ ExpectedIn(h, rej, i)
  BY DEF Right
<1>2. n \in Nat /\ Len(h2) \in Nat /\ n2 \in Nat /\ n <= n2
  BY DEF Grows
<1>3. i \in 1 .. n2
  BY <1>1, <1>2
<1>4. ExpectedIn(h2, rej, i)
  BY <1>1, SameExpected
<1>5. h2[i] = h[i]
  BY <1>1, SameItem
<1>6. Whole(h, n, r.of) => Whole(h2, n2, r.of)
  BY <1>1, SameWhole
<1>7. IF h[i].tag = "key" THEN r = CertOf(r.of) /\ Whole(h, n, r.of) ELSE r = Err(i)
  BY DEF Right
<1>8. IF h2[i].tag = "key" THEN r = CertOf(r.of) /\ Whole(h2, n2, r.of) ELSE r = Err(i)
  BY <1>5, <1>6, <1>7
<1> QED
  BY <1>1, <1>3, <1>4, <1>8 DEF Right

LEMMA SameListed ==
    ASSUME NEW h, NEW h2, NEW n, Grows(h, h2, n), NEW n2, n2 \in n .. Len(h2),
           NEW rej, NEW b \in Int, b <= n + 1, NEW o, NEW m, Listed(h, rej, n, b, o, m)
    PROVE  Listed(h2, rej, n2, b, o, m)
<1>1. \A k \in 1 .. m : Right(h2, rej, n2, b, o[k])
  BY SameRight DEF Listed
<1>2. n \in Nat /\ Len(h2) \in Nat /\ n2 \in Nat /\ n <= n2
  BY DEF Grows
<1>3. ASSUME NEW i \in 1 .. n2, i < b, ExpectedIn(h2, rej, i)
      PROVE  \E k \in 1 .. m : o[k].of[1] = i
  <2>1. i \in 1 .. n
    BY <1>2, <1>3
  <2>2. ExpectedIn(h, rej, i)
    BY <1>3, <2>1, SameExpected
  <2> QED
    BY <1>3, <2>1, <2>2 DEF Listed
<1> QED
  BY <1>1, <1>3 DEF Listed

\* Nothing is expected between b and b2.
LEMMA ListedMore ==
    ASSUME NEW h, NEW rej, NEW n \in Nat, NEW b \in Int, NEW b2 \in Int, b <= b2,
           NEW o, NEW m, Listed(h, rej, n, b, o, m),
           \A i \in 1 .. n : b <= i /\ i < b2 => ~ExpectedIn(h, rej, i)
    PROVE  Listed(h, rej, n, b2, o, m)
<1>1. ASSUME NEW k \in 1 .. m PROVE Right(h, rej, n, b2, o[k])
  <2>1. Right(h, rej, n, b, o[k])
    BY DEF Listed
  <2>2. o[k].of[1] \in 1 .. n /\ o[k].of[1] < b
    BY <2>1 DEF Right
  <2>3. o[k].of[1] < b2
    BY <2>2
  <2> QED
    BY <2>1, <2>3 DEF Right
<1>2. ASSUME NEW i \in 1 .. n, i < b2, ExpectedIn(h, rej, i)
      PROVE  \E k \in 1 .. m : o[k].of[1] = i
  <2>1. i < b
    BY <1>2
  <2> QED
    BY <1>2, <2>1 DEF Listed
<1> QED
  BY <1>1, <1>2 DEF Listed

\* The one thing expected between b and b2 is returned.
LEMMA ListedAppend ==
    ASSUME NEW h, NEW rej, NEW n \in Nat, NEW b \in Int, NEW b2 \in Int, b <= b2,
           NEW o \in Seq(Results), Listed(h, rej, n, b, o, Len(o)),
           NEW r \in Results, Right(h, rej, n, b2, r), b <= r.of[1],
           \A i \in 1 .. n : b <= i /\ i < b2 /\ ExpectedIn(h, rej, i) => i = r.of[1]
    PROVE  Listed(h, rej, n, b2, Append(o, r), Len(o) + 1)
<1> DEFINE p == Append(o, r)
           m == Len(o) + 1
<1>1. Len(o) \in Nat /\ Len(p) = m /\ p \in Seq(Results)
  OBVIOUS
<1>2. p[m] = r /\ \A k \in 1 .. Len(o) : p[k] = o[k]
  OBVIOUS
<1> HIDE DEF p
<1>3. ASSUME NEW k \in 1 .. Len(o) PROVE Right(h, rej, n, b, p[k])
  BY <1>2 DEF Listed
<1>4. ASSUME NEW k \in 1 .. Len(o)
      PROVE  /\ Right(h, rej, n, b2, p[k])
             /\ p[k].of[1] \in 1 .. n /\ p[k].of[1] < b
  <2>1. p[k].of[1] \in 1 .. n /\ p[k].of[1] < b
    BY <1>3 DEF Right
  <2>2. p[k].of[1] < b2
    BY <2>1
  <2> QED
    BY <1>3, <2>1, <2>2 DEF Right
<1>5. ASSUME NEW k \in 1 .. m PROVE Right(h, rej, n, b2, p[k])
  <2>1. k \in 1 .. Len(o) \/ k = m
    BY <1>1
  <2> QED
    BY <1>2, <1>4, <2>1
<1>6. ASSUME NEW j \in 1 .. m, NEW k \in 1 .. m, j < k PROVE p[j].of[1] < p[k].of[1]
  <2>1. j \in 1 .. Len(o)
    BY <1>1, <1>6
  <2>2. CASE k = m
    <3>1. p[j].of[1] \in 1 .. n /\ p[j].of[1] < b
      BY <1>4, <2>1
    <3>2. r.of[1] \in 1 .. n
      BY DEF Right
    <3> QED
      BY <1>2, <2>2, <3>1, <3>2
  <2>3. CASE k # m
    <3>1. k \in 1 .. Len(o)
      BY <1>1, <2>3
    <3> QED
      BY <1>2, <1>6, <2>1, <3>1 DEF Listed
  <2> QED
    BY <2>2, <2>3
<1>7. ASSUME NEW i \in 1 .. n, i < b2, ExpectedIn(h, rej, i)
      PROVE  \E k \in 1 .. m : p[k].of[1] = i
  <2>1. CASE i < b
    <3>1. PICK k \in 1 .. Len(o) : o[k].of[1] = i
      BY <1>7, <2>1 DEF Listed
    <3>2. k \in 1 .. m
      BY <1>1
    <3> QED
      BY <1>2, <3>1, <3>2
  <2>2. CASE ~ (i < b)
    <3>1. i = r.of[1]
      BY <1>7, <2>2
    <3>2. m \in 1 .. m
      BY <1>1
    <3> QED
      BY <1>2, <3>1, <3>2
  <2> QED
    BY <2>1, <2>2
<1>8. m \in 0 .. Len(p)
  BY <1>1
<1> HIDE DEF m
<1>9. Listed(h, rej, n, b2, p, m)
  BY <1>5, <1>6, <1>7, <1>8 DEF Listed
<1> QED
  BY <1>9 DEF p, m

-----------------------------------------------------------------------------
(* What is buffered. *)

LEMMA BufferedGrows ==
    ASSUME NEW h, NEW h2, NEW n, Grows(h, h2, n), NEW ps, Buffered(h, n, ps)
    PROVE  Buffered(h2, n, ps)
<1>1. n \in Nat
  BY DEF Grows
<1>2. \A j \in 1 .. n : h2[j] = h[j]
  BY SameItem
<1>3. ps[1] \in 1 .. n /\ \A k \in DOMAIN ps : ps[k] \in 1 .. n
  BY DEF Buffered
<1>4. \A j \in ps[1] + 1 .. n : j \in 1 .. n
  BY <1>1, <1>3
<1>5. h2[ps[1]] = h[ps[1]] /\ (\A k \in DOMAIN ps : h2[ps[k]] = h[ps[k]])
          /\ \A j \in ps[1] + 1 .. n : h2[j] = h[j]
  BY <1>2, <1>3, <1>4
<1> QED
  BY <1>5, SMTT(30) DEF Buffered

\* The parsed part of the input does not end with something that is lost.
Kept(h, n) == /\ h \in Seq(Items) /\ n \in 0 .. Len(h)
              /\ n < Len(h) => h[n + 1].tag # "cut"

LEMMA BufferedKept ==
    ASSUME NEW h, NEW n, Kept(h, n), NEW ps, Buffered(h, n, ps), NEW j \in ps[1] .. n
    PROVE  ~LostIn(h, j)
<1>1. n \in Nat /\ Len(h) \in Nat /\ n <= Len(h) /\ DOMAIN h = 1 .. Len(h)
  BY DEF Kept
<1>2. ps[1] \in 1 .. n
  BY DEF Buffered
<1>3. CASE j = n
  BY <1>1, <1>2, <1>3 DEF LostIn, Kept
<1>4. CASE j # n
  <2>1. j + 1 \in ps[1] + 1 .. n
    BY <1>1, <1>2, <1>4
  <2>2. h[j + 1].tag \in {"body", "marker", "blob"}
    BY <2>1 DEF Buffered
  <2> QED
    BY <2>2 DEF LostIn
<1> QED
  BY <1>3, <1>4

LEMMA BufferedBelongs ==
    ASSUME NEW h, NEW n, Kept(h, n), NEW ps, Buffered(h, n, ps),
           h[ps[1]].tag \in {"key", "ukey"}, NEW j \in 1 .. n
    PROVE  BelongsIn(h, ps[1], j) <=> j > ps[1] /\ h[j].tag = "body"
<1>1. n \in Nat /\ ps[1] \in 1 .. n
  BY DEF Buffered, Kept
<1>2. ASSUME j > ps[1], h[j].tag = "body" PROVE BelongsIn(h, ps[1], j)
  <2>1. ~LostIn(h, j)
    <3>1. j \in ps[1] .. n
      BY <1>1, <1>2
    <3> QED
      BY <3>1, BufferedKept
  <2>2. ASSUME NEW l \in ps[1] + 1 .. j - 1 PROVE ~BreaksIn(h, l)
    <3>1. l \in ps[1] + 1 .. n
      BY <1>1, <1>2
    <3>2. h[l].tag \in {"body", "marker", "blob"}
      BY <3>1 DEF Buffered
    <3> QED
      BY <3>2 DEF BreaksIn
  <2> QED
    BY <1>1, <1>2, <2>1, <2>2 DEF BelongsIn
<1> QED
  BY <1>1, <1>2 DEF BelongsIn

\* Behind the first packet of the buffer nothing is expected.
LEMMA BufferedSilent ==
    ASSUME NEW h, NEW n, Kept(h, n), NEW ps, Buffered(h, n, ps), NEW rej,
           NEW j \in ps[1] + 1 .. n
    PROVE  ~ExpectedIn(h, rej, j) /\ h[j].tag \in {"body", "marker", "blob"} /\ ~StrayIn(h, j)
<1>1. n \in Nat /\ ps[1] \in 1 .. n /\ j \in 1 .. n /\ j > ps[1] /\ ps[1] \in DOMAIN h
  BY DEF Buffered, Kept
<1>2. h[j].tag \in {"body", "marker", "blob"}
  BY DEF Buffered
<1>3. ~StrayIn(h, j)
  <2>1. CASE h[j].tag = "body"
    <3>1. h[ps[1]].tag \in {"key", "ukey"}
      BY <2>1 DEF Buffered
    <3>2. BelongsIn(h, ps[1], j)
      BY <1>1, <2>1, <3>1, BufferedBelongs
    <3> QED
      BY <1>1, <3>2 DEF StrayIn
  <2>2. CASE h[j].tag # "body"
    BY <1>2, <2>2 DEF StrayIn
  <2> QED
    BY <2>1, <2>2
<1> QED
  BY <1>2, <1>3 DEF ExpectedIn

\* What is buffered is a whole certificate once nothing more belongs to it.
LEMMA BufferedWhole ==
    ASSUME NEW h, NEW n, Kept(h, n), NEW ps, ps \in Seq(Nat), ps # <<>>, Buffered(h, n, ps),
           h[ps[1]].tag \in {"key", "ukey"}, NEW n2 \in n .. Len(h),
           \A j \in n + 1 .. n2 : ~BelongsIn(h, ps[1], j),
           \E j \in n + 1 .. n2 : BreaksIn(h, j)
    PROVE  Whole(h, n2, ps)
<1> DEFINE s == ps[1]
           S == {s} \cup {j \in 1 .. n2 : BelongsIn(h, s, j)}
<1>1. n \in Nat /\ Len(h) \in Nat /\ n2 \in Nat /\ n <= n2 /\ s \in 1 .. n
  BY DEF Buffered, Kept
<1>2. DOMAIN ps = 1 .. Len(ps) /\ Len(ps) \in Nat /\ Len(ps) # 0
  OBVIOUS
<1>3. ASSUME NEW k \in 1 .. Len(ps) PROVE ps[k] \in S
  <2>1. CASE k = 1
    BY <2>1
  <2>2. CASE k # 1
    <3>1. ps[k] \in 1 .. n /\ h[ps[k]].tag = "body"
      BY <1>2, <2>2 DEF Buffered
    <3>2. 1 \in 1 .. Len(ps) /\ 1 < k
      BY <1>2, <2>2
    <3>3. ps[1] < ps[k]
      BY <1>2, <3>2 DEF Buffered
    <3>4. ps[k] > s
      BY <1>1, <3>1, <3>3
    <3>5. BelongsIn(h, s, ps[k])
      BY <3>1, <3>4, BufferedBelongs
    <3>6. ps[k] \in 1 .. n2
      BY <1>1, <3>1
    <3> QED
      BY <3>5, <3>6
  <2> QED
    BY <2>1, <2>2
<1>4. ASSUME NEW x \in S PROVE \E k \in 1 .. Len(ps) : ps[k] = x
  <2>1. CASE x = s
    BY <1>2, <2>1
  <2>2. CASE x # s
    <3>1. x \in 1 .. n2 /\ BelongsIn(h, s, x)
      BY <2>2
    <3>2. x \in 1 .. n
      BY <1>1, <3>1
    <3>3. x > s /\ h[x].tag = "body"
      BY <3>1, <3>2, BufferedBelongs
    <3>4. x \in s + 1 .. n
      BY <1>1, <3>2, <3>3
    <3> QED
      BY <1>2, <3>3, <3>4 DEF Buffered
  <2> QED
    BY <2>1, <2>2
<1>5. S \subseteq Nat
  BY <1>1
<1>6. \A j, k \in 1 .. Len(ps) : j < k => ps[j] < ps[k]
  BY <1>2 DEF Buffered
<1>7. ps \in [1 .. Len(ps) -> S]
  BY <1>2, <1>3
<1> HIDE DEF S
<1>8. Lists(ps, Len(ps), S)
  BY <1>2, <1>4, <1>5, <1>6, <1>7 DEF Lists
<1>9. PICK j \in n + 1 .. n2 : BreaksIn(h, j)
  OBVIOUS
<1>10. j \in s + 1 .. n2
  BY <1>1, <1>9
<1> QED
  BY <1>8, <1>9, <1>10 DEF Whole, S
-----------------------------------------------------------------------------
(* What the steps do, case by case. *)

ReturnsCert(ps) ==
    /\ out' = Append(out, CertOf(ps)) /\ exit' = exit /\ Take(ps)
    /\ UNCHANGED <<cmd, rejects, files>>
ReturnsErr(i) ==
    /\ out' = Append(out, Err(i)) /\ exit' = (IF cmd = "collect" THEN exit ELSE "failed")
    /\ UNCHANGED <<written, merged, cmd, rejects, files>>

LEMMA ReturnCert == ASSUME NEW ps, Return(CertOf(ps)) PROVE ReturnsCert(ps)
<1>1. CertOf(ps).res = "cert" /\ CertOf(ps).of = ps
  BY DEF CertOf
<1> QED
  BY <1>1 DEF Return, ReturnsCert

LEMMA ReturnErr == ASSUME NEW i, Return(Err(i)) PROVE ReturnsErr(i)
<1>1. Err(i).res = "err"
  BY DEF Err
<1> QED
  BY <1>1 DEF Return, ReturnsErr

\* The cases of Outcome.
IsCert == Tag(packets[1]) = "key" /\ ~(cmd = "collect" /\ hist[packets[1]].fpr \in rejects)
IsRejected == Tag(packets[1]) = "key" /\ cmd = "collect" /\ hist[packets[1]].fpr \in rejects
IsErr == Tag(packets[1]) # "key"

LEMMA OutcomeCases ==
    /\ IsCert \/ IsRejected \/ IsErr
    /\ IsCert <=> Outcome = "cert"
    /\ IsRejected <=> Outcome = "rejected"
    /\ IsErr <=> Outcome = "err"
  BY DEF IsCert, IsRejected, IsErr, Outcome

Delivers == \/ IsCert /\ ReturnsCert(packets)
            \/ IsRejected /\ Loop
            \/ IsErr /\ ReturnsErr(packets[1])

LEMMA DeliverCases == ASSUME Deliver PROVE Delivers
<1>1. CASE Outcome = "cert"
  <2>1. Return(CertOf(packets))
    BY <1>1 DEF Deliver
  <2> QED
    BY <1>1, <2>1, ReturnCert, OutcomeCases DEF Delivers
<1>2. CASE Outcome = "err"
  <2>1. Return(Err(packets[1]))
    BY <1>2 DEF Deliver
  <2> QED
    BY <1>2, <2>1, ReturnErr, OutcomeCases DEF Delivers
<1>3. CASE Outcome = "rejected"
  <2>1. Loop
    BY <1>3 DEF Deliver
  <2> QED
    BY <1>3, <2>1, OutcomeCases DEF Delivers
<1> QED
  BY <1>1, <1>2, <1>3, OutcomeCases

LEMMA ParseCases ==
    ASSUME NEW i, NEW t, Parse(i, t)
    PROVE  /\ source' = source
           /\ \/ t = "marker" /\ Loop /\ packets' = packets /\ queued' = queued
              \/ /\ t # "marker" /\ Finishes(t) /\ Delivers
                 /\ packets' = <<i>> /\ queued' = FALSE
              \/ /\ t # "marker" /\ ~Finishes(t) /\ Loop
                 /\ packets' = Append(packets, i) /\ queued' = queued
<1>1. CASE t = "marker"
  BY <1>1 DEF Parse
<1>2. CASE t # "marker" /\ Finishes(t)
  <2>1. Deliver /\ packets' = <<i>> /\ queued' = FALSE /\ source' = source
    BY <1>2 DEF Parse
  <2> QED
    BY <1>2, <2>1, DeliverCases
<1>3. CASE t # "marker" /\ ~Finishes(t)
  BY <1>3 DEF Parse
<1> QED
  BY <1>1, <1>2, <1>3

LEMMA ErrorCases ==
    ASSUME NEW i, SourceError(i)
    PROVE  /\ source' = "none" /\ packets' = <<>>
           /\ \/ packets = <<>> /\ ReturnsErr(i) /\ queued' = queued
              \/ packets # <<>> /\ IsCert /\ ReturnsCert(packets) /\ queued' = TRUE
              \/ packets # <<>> /\ IsRejected /\ ReturnsErr(i) /\ queued' = FALSE
              \/ packets # <<>> /\ IsErr /\ ReturnsErr(packets[1]) /\ queued' = FALSE
<1>1. source' = "none" /\ packets' = <<>>
  BY DEF SourceError
<1>2. CASE packets = <<>>
  BY <1>1, <1>2, ReturnErr DEF SourceError
<1>3. CASE packets # <<>> /\ Outcome = "cert"
  <2>1. Return(CertOf(packets)) /\ queued' = TRUE
    BY <1>3 DEF SourceError
  <2> QED
    BY <1>1, <1>3, <2>1, ReturnCert, OutcomeCases
<1>4. CASE packets # <<>> /\ Outcome = "rejected"
  <2>1. Return(Err(i)) /\ queued' = FALSE
    BY <1>4 DEF SourceError
  <2> QED
    BY <1>1, <1>4, <2>1, ReturnErr, OutcomeCases
<1>5. CASE packets # <<>> /\ Outcome = "err"
  <2>1. Return(Err(packets[1])) /\ queued' = FALSE
    BY <1>5 DEF SourceError
  <2> QED
    BY <1>1, <1>5, <2>1, ReturnErr, OutcomeCases
<1> QED
  BY <1>2, <1>3, <1>4, <1>5, OutcomeCases

LEMMA EndCases ==
    ASSUME SourceEnd
    PROVE  /\ source' = "none" /\ packets' = <<>>
           /\ \/ packets = <<>> /\ Loop /\ queued' = queued
              \/ packets # <<>> /\ Delivers /\ queued' = FALSE
<1>1. CASE packets = <<>>
  BY <1>1 DEF SourceEnd
<1>2. CASE packets # <<>>
  BY <1>2, DeliverCases DEF SourceEnd
<1> QED
  BY <1>1, <1>2
-----------------------------------------------------------------------------
(* The buffer as packets are parsed. *)

LEMMA BufferedSkip ==
    ASSUME NEW h, NEW n \in Nat, NEW n2 \in Nat, n <= n2, NEW ps, Buffered(h, n, ps),
           \A j \in n + 1 .. n2 : h[j].tag \in {"marker", "blob"}
    PROVE  Buffered(h, n2, ps)
<1>1. ps[1] \in 1 .. n /\ h[ps[1]].tag \in {"key", "ukey", "body", "junk"}
          /\ \A k \in DOMAIN ps : ps[k] \in 1 .. n
  BY DEF Buffered
<1>2. ps[1] \in 1 .. n2 /\ \A k \in DOMAIN ps : ps[k] \in 1 .. n2
  BY <1>1
<1>3. \A j \in ps[1] + 1 .. n2 : j \in ps[1] + 1 .. n \/ j \in n + 1 .. n2
  BY <1>1
<1>4. \A j \in ps[1] + 1 .. n2 : h[j].tag \in {"body", "marker", "blob"}
  BY <1>3 DEF Buffered
<1>5. \A j \in ps[1] + 1 .. n2 : h[j].tag = "body" => j \in ps[1] + 1 .. n
  BY <1>3
<1>6. \A j, k \in DOMAIN ps : j < k => ps[j] < ps[k]
  BY DEF Buffered
<1>7. h[ps[1]].tag \in {"key", "ukey"} =>
          /\ \A j \in ps[1] + 1 .. n2 : h[j].tag = "body" => \E k \in DOMAIN ps : ps[k] = j
          /\ \A k \in DOMAIN ps : k # 1 => h[ps[k]].tag = "body"
  BY <1>5 DEF Buffered
<1>8. h[ps[1]].tag \notin {"key", "ukey"} =>
          /\ Len(ps) = 1
          /\ \A j \in ps[1] + 1 .. n2 : h[j].tag # "body"
  BY <1>5 DEF Buffered
<1> QED
  BY <1>1, <1>2, <1>4, <1>6, <1>7, <1>8 DEF Buffered

LEMMA BufferedNew ==
    ASSUME NEW h, NEW i \in Nat, i # 0, NEW n2 \in Nat, i <= n2,
           h[i].tag \in {"key", "ukey", "body", "junk"},
           \A j \in i + 1 .. n2 : h[j].tag \in {"marker", "blob"}
    PROVE  Buffered(h, n2, <<i>>)
<1> DEFINE ps == <<i>>
<1>1. ps[1] = i /\ Len(ps) = 1 /\ DOMAIN ps = {1}
  OBVIOUS
<1>2. i \in 1 .. n2
  OBVIOUS
<1> HIDE DEF ps
<1>3. \A k \in DOMAIN ps : k = 1 /\ ps[k] = i
  BY <1>1
<1>4. Buffered(h, n2, ps)
  BY <1>1, <1>2, <1>3 DEF Buffered
<1> QED
  BY <1>4 DEF ps

LEMMA BufferedAppend ==
    ASSUME NEW h, NEW n \in Nat, NEW n2 \in Nat, n + 1 <= n2, NEW ps \in Seq(Nat), ps # <<>>,
           Buffered(h, n, ps), h[ps[1]].tag \in {"key", "ukey"}, h[n + 1].tag = "body",
           \A j \in n + 2 .. n2 : h[j].tag \in {"marker", "blob"}
    PROVE  Buffered(h, n2, Append(ps, n + 1))
<1> DEFINE qs == Append(ps, n + 1)
           l == Len(ps)
<1>1. /\ l \in Nat /\ l # 0 /\ DOMAIN ps = 1 .. l /\ DOMAIN qs = 1 .. l + 1
      /\ qs[1] = ps[1] /\ qs[l + 1] = n + 1
      /\ \A k \in 1 .. l : qs[k] = ps[k]
  OBVIOUS
<1>2. ps[1] \in 1 .. n /\ (\A k \in 1 .. l : ps[k] \in 1 .. n)
          /\ \A j, k \in 1 .. l : j < k => ps[j] < ps[k]
  BY <1>1 DEF Buffered
<1>3. \A k \in 1 .. l + 1 : k \in 1 .. l \/ k = l + 1
  BY <1>1
<1> HIDE DEF qs, l
<1>4. \A k \in DOMAIN qs : qs[k] \in 1 .. n2
  <2> TAKE k \in DOMAIN qs
  <2>1. CASE k \in 1 .. l
    BY <1>1, <1>2, <2>1
  <2>2. CASE k = l + 1
    BY <1>1, <2>2
  <2> QED
    BY <1>1, <1>3, <2>1, <2>2
<1>5. ASSUME NEW j \in DOMAIN qs, NEW k \in DOMAIN qs, j < k PROVE qs[j] < qs[k]
  <2>1. j \in 1 .. l
    BY <1>1, <1>5
  <2>2. CASE k \in 1 .. l
    BY <1>1, <1>2, <1>5, <2>1, <2>2
  <2>3. CASE k = l + 1
    <3>1. qs[j] \in 1 .. n /\ qs[k] = n + 1
      BY <1>1, <1>2, <2>1, <2>3
    <3> QED
      BY <3>1
  <2> QED
    BY <1>1, <1>3, <2>2, <2>3
<1>6. \A j \in ps[1] + 1 .. n2 : j \in ps[1] + 1 .. n \/ j = n + 1 \/ j \in n + 2 .. n2
  BY <1>2
<1>7. \A j \in ps[1] + 1 .. n2 : h[j].tag \in {"body", "marker", "blob"}
  BY <1>6 DEF Buffered
<1>8. ASSUME NEW j \in ps[1] + 1 .. n2, h[j].tag = "body" PROVE \E k \in DOMAIN qs : qs[k] = j
  <2>1. CASE j \in ps[1] + 1 .. n
    <3>1. PICK k \in 1 .. l : ps[k] = j
      BY <1>1, <1>8, <2>1 DEF Buffered
    <3>2. k \in DOMAIN qs /\ qs[k] = j
      BY <1>1, <3>1
    <3> QED
      BY <3>2
  <2>2. CASE j = n + 1
    <3>1. l + 1 \in DOMAIN qs
      BY <1>1
    <3> QED
      BY <1>1, <2>2, <3>1
  <2> QED
    BY <1>6, <1>8, <2>1, <2>2
<1>9. ASSUME NEW k \in DOMAIN qs, k # 1 PROVE h[qs[k]].tag = "body"
  <2>1. CASE k \in 1 .. l
    BY <1>1, <1>9, <2>1 DEF Buffered
  <2>2. CASE k = l + 1
    BY <1>1, <2>2
  <2> QED
    BY <1>1, <1>3, <2>1, <2>2
<1>10. ps[1] \in 1 .. n2
  BY <1>2
<1>11. Buffered(h, n2, qs)
  <2>1. h[qs[1]].tag \in {"key", "ukey"} /\ qs[1] \in 1 .. n2
    BY <1>1, <1>10
  <2>2. \A j \in qs[1] + 1 .. n2 : h[j].tag \in {"body", "marker", "blob"}
    BY <1>1, <1>7
  <2>3. \A j \in qs[1] + 1 .. n2 : h[j].tag = "body" => \E k \in DOMAIN qs : qs[k] = j
    BY <1>1, <1>8
  <2> QED
    BY <1>4, <1>5, <1>9, <2>1, <2>2, <2>3 DEF Buffered
<1> QED
  BY <1>11 DEF qs
-----------------------------------------------------------------------------
(* The ways in which the source is asked for more. *)

ParseForm(i, n, n2) ==
    /\ exit = "none" /\ source \in {"pp", "iter"}
    /\ n = Parsed(hist, cur) /\ i = n + 1 /\ n2 = Parsed(hist', cur')
    /\ Grows(hist, hist', n) /\ Kept(hist', n2) /\ n2 \in i .. Len(hist')
    /\ hist'[i].tag \in PacketTags
    /\ \A j \in i + 1 .. n2 : hist'[j].tag = "blob"
    /\ \A j \in DOMAIN hist' : j \in DOMAIN hist \/ hist'[j].tag \in PacketTags \cup {"blob"}
    /\ AtPacket(hist', cur', source)
    /\ cur' \in Nat /\ retry' \in BOOLEAN
    /\ Parse(i, hist'[i].tag)

ErrorForm(x, n) ==
    /\ exit = "none" /\ source \in {"pp", "iter"} /\ n = Parsed(hist, cur)
    /\ x \in Items /\ x.tag \in {"cut", "err"} /\ hist' = Append(hist, x)
    /\ x.tag = "cut" <=> cur # 0
    /\ cur' = 0 /\ retry' \in BOOLEAN
    /\ SourceError(Len(hist) + 1)

EndForm(x, n) ==
    /\ exit = "none" /\ source \in {"pp", "iter"} /\ n = Parsed(hist, cur)
    /\ x \in Items /\ x.tag \in {"end", "torn"} /\ hist' = Append(hist, x)
    /\ cur = 0 /\ cur' = 0 /\ retry' \in BOOLEAN
    /\ SourceEnd

LEMMA PacketFacts ==
    /\ \A p \in Packets : p.tag \in PacketTags /\ p \in Items
    /\ \A t \in Marks : Mark(t) \in Items /\ Mark(t).tag = t
<1>1. \A p \in Packets : p.tag \in PacketTags
  BY DEF Packets, Keys, Others, PacketTags
<1>2. \A t : Mark(t).tag = t
  BY DEF Mark
<1> QED
  BY <1>1, <1>2 DEF Items

LEMMA AppendFacts ==
    ASSUME NEW h \in Seq(Items), NEW x \in Items
    PROVE  /\ Append(h, x) \in Seq(Items) /\ Len(Append(h, x)) = Len(h) + 1 /\ Len(h) \in Nat
           /\ \A j \in 1 .. Len(h) : Append(h, x)[j] = h[j]
           /\ Append(h, x)[Len(h) + 1] = x
           /\ DOMAIN h = 1 .. Len(h) /\ DOMAIN Append(h, x) = 1 .. Len(h) + 1
  OBVIOUS

LEMMA ParsedFacts ==
    ASSUME TypeOK, Shape
    PROVE  /\ Parsed(hist, cur) \in 0 .. Len(hist) /\ Len(hist) \in Nat
           /\ DOMAIN hist = 1 .. Len(hist)
           /\ cur # 0 => cur = Len(hist) /\ Parsed(hist, cur) = Len(hist) - 1 /\ hist[cur] \in Packets
           /\ cur = 0 => Parsed(hist, cur) = Len(hist)
           /\ source # "pp" => cur = 0
  BY DEF TypeOK, Shape, Parsed, AtPacket

LEMMA PullPacketForm ==
    ASSUME TypeOK, Shape, PullPacket
    PROVE  ParseForm(cur, Parsed(hist, cur), Parsed(hist', cur'))
<1>1. PICK p \in Packets : hist' = Append(hist, p)
  BY DEF PullPacket, Add
<1> DEFINE h2 == Append(hist, p)
           n == Parsed(hist, cur)
<1>2. hist \in Seq(Items) /\ p \in Items /\ p.tag \in PacketTags
  BY PacketFacts DEF TypeOK
<1>3. /\ h2 \in Seq(Items) /\ Len(h2) = Len(hist) + 1 /\ Len(hist) \in Nat
      /\ \A j \in 1 .. Len(hist) : h2[j] = hist[j]
      /\ h2[Len(hist) + 1] = p
      /\ DOMAIN hist = 1 .. Len(hist) /\ DOMAIN h2 = 1 .. Len(hist) + 1
  BY <1>2, AppendFacts
<1>4. cur # 0 /\ cur' = Len(hist) + 1 /\ retry' = FALSE /\ Parse(cur, Tag(cur))
         /\ exit = "none" /\ source = "pp"
  BY DEF PullPacket, NoRetry, Running
<1>5. cur = Len(hist) /\ n = Len(hist) - 1 /\ hist[cur] \in Packets
  BY <1>4, ParsedFacts
<1>6. Parsed(hist', cur') = Len(hist)
  BY <1>3, <1>4 DEF Parsed
<1> HIDE DEF h2, n
<1>7. n \in Nat /\ cur \in 1 .. Len(hist) /\ cur = n + 1
  BY <1>3, <1>4, <1>5
<1>8. hist' = h2
  BY <1>1 DEF h2
<1>9. h2[cur] = hist[cur] /\ h2[cur].tag \in PacketTags /\ h2[cur].tag # "cut" /\ p.tag # "cut"
  BY <1>2, <1>3, <1>5, <1>7, PacketFacts DEF PacketTags
<1>10. Grows(hist, h2, n)
  <2>1. n \in 0 .. Len(hist) /\ n # Len(hist) /\ Len(hist) <= Len(h2)
    <3>1. Len(hist) \in Nat /\ Len(h2) = Len(hist) + 1 /\ n \in Nat /\ n = Len(hist) - 1
      BY <1>3, <1>5, <1>7
    <3> QED
      BY <3>1
  <2> QED
    BY <1>2, <1>3, <2>1 DEF Grows
<1>11. Kept(h2, Len(hist))
  BY <1>3, <1>9 DEF Kept
<1>12. AtPacket(h2, cur', source)
  BY <1>3, <1>4 DEF AtPacket
<1>13. \A j \in DOMAIN h2 : j \in DOMAIN hist \/ h2[j].tag \in PacketTags \cup {"blob"}
  BY <1>2, <1>3
<1>14. Parse(cur, h2[cur].tag)
  BY <1>4, <1>9 DEF Tag
<1>15. \A j \in cur + 1 .. Len(hist) : h2[j].tag = "blob"
  BY <1>3, <1>5
<1>16. Len(hist) \in cur .. Len(h2) /\ cur' \in Nat /\ retry' \in BOOLEAN
  <2>1. Len(hist) \in Len(hist) .. Len(hist) + 1 /\ Len(hist) + 1 \in Nat
    BY <1>3
  <2> QED
    BY <1>3, <1>4, <1>5, <2>1
<1>17. ParseForm(cur, n, Len(hist))
  <2>1. Len(hist) = Parsed(h2, cur')
    BY <1>6, <1>8
  <2> QED
    BY <1>4, <1>7, <1>8, <1>9, <1>10, <1>11, <1>12, <1>13, <1>14, <1>15, <1>16, <2>1 DEF ParseForm, n
<1> QED
  BY <1>6, <1>17 DEF n

LEMMA PullLastForm ==
    ASSUME TypeOK, Shape, PullLast
    PROVE  ParseForm(cur, Parsed(hist, cur), Parsed(hist', cur'))
<1> DEFINE p == Mark("blob")
           h2 == Append(hist, p)
           n == Parsed(hist, cur)
<1>1. hist' = h2
  BY DEF PullLast, Add
<1>2. hist \in Seq(Items) /\ p \in Items /\ p.tag = "blob"
  BY PacketFacts DEF TypeOK, Marks
<1> HIDE DEF p
<1>3. /\ h2 \in Seq(Items) /\ Len(h2) = Len(hist) + 1 /\ Len(hist) \in Nat
      /\ \A j \in 1 .. Len(hist) : h2[j] = hist[j]
      /\ h2[Len(hist) + 1] = p
      /\ DOMAIN hist = 1 .. Len(hist) /\ DOMAIN h2 = 1 .. Len(hist) + 1
  BY <1>2, AppendFacts
<1>4. cur # 0 /\ cur' = 0 /\ retry' = TRUE /\ Parse(cur, Tag(cur))
         /\ exit = "none" /\ source = "pp"
  BY DEF PullLast, Running
<1>5. cur = Len(hist) /\ n = Len(hist) - 1 /\ hist[cur] \in Packets
  BY <1>4, ParsedFacts
<1>6. Parsed(hist', cur') = Len(hist) + 1
  BY <1>1, <1>3, <1>4 DEF Parsed
<1> HIDE DEF h2, n
<1>7. n \in Nat /\ cur \in 1 .. Len(hist) /\ cur = n + 1
  BY <1>3, <1>4, <1>5
<1>9. h2[cur] = hist[cur] /\ h2[cur].tag \in PacketTags /\ h2[cur].tag # "cut" /\ p.tag # "cut"
  BY <1>2, <1>3, <1>5, <1>7, PacketFacts DEF PacketTags
<1>10. Grows(hist, h2, n)
  <2>1. n \in 0 .. Len(hist) /\ n # Len(hist) /\ Len(hist) <= Len(h2)
    <3>1. Len(hist) \in Nat /\ Len(h2) = Len(hist) + 1 /\ n \in Nat /\ n = Len(hist) - 1
      BY <1>3, <1>5, <1>7
    <3> QED
      BY <3>1
  <2> QED
    BY <1>2, <1>3, <2>1 DEF Grows
<1>11. Kept(h2, Len(hist) + 1)
  BY <1>3, <1>9 DEF Kept
<1>12. AtPacket(h2, cur', source)
  BY <1>4 DEF AtPacket
<1>13. \A j \in DOMAIN h2 : j \in DOMAIN hist \/ h2[j].tag \in PacketTags \cup {"blob"}
  BY <1>2, <1>3
<1>14. Parse(cur, h2[cur].tag)
  BY <1>4, <1>9 DEF Tag
<1>15. \A j \in cur + 1 .. Len(hist) + 1 : h2[j].tag = "blob"
  BY <1>2, <1>3, <1>5
<1>16. Len(hist) + 1 \in cur .. Len(h2) /\ cur' \in Nat /\ retry' \in BOOLEAN
  BY <1>3, <1>4, <1>5
<1>17. ParseForm(cur, n, Len(hist) + 1)
  <2>1. Len(hist) + 1 = Parsed(h2, cur')
    BY <1>1, <1>6
  <2> QED
    BY <1>1, <1>4, <1>7, <1>9, <1>10, <1>11, <1>12, <1>13, <1>14, <1>15, <1>16, <2>1 DEF ParseForm, n
<1> QED
  BY <1>6, <1>17 DEF n

LEMMA PullItemForm ==
    ASSUME TypeOK, Shape, PullItem
    PROVE  ParseForm(Len(hist) + 1, Parsed(hist, cur), Parsed(hist', cur'))
<1>1. PICK p \in Packets : hist' = Append(hist, p) /\ Parse(Len(hist) + 1, p.tag)
  BY DEF PullItem, Add
<1> DEFINE h2 == Append(hist, p)
           n == Parsed(hist, cur)
           i == Len(hist) + 1
<1>2. hist \in Seq(Items) /\ p \in Items /\ p.tag \in PacketTags
  BY PacketFacts DEF TypeOK
<1>3. /\ h2 \in Seq(Items) /\ Len(h2) = Len(hist) + 1 /\ Len(hist) \in Nat
      /\ \A j \in 1 .. Len(hist) : h2[j] = hist[j]
      /\ h2[Len(hist) + 1] = p
      /\ DOMAIN hist = 1 .. Len(hist) /\ DOMAIN h2 = 1 .. Len(hist) + 1
  BY <1>2, AppendFacts
<1>4. cur' = cur /\ retry' = retry /\ exit = "none" /\ source = "iter"
  BY DEF PullItem, Running
<1>5. cur = 0 /\ n = Len(hist) /\ retry \in BOOLEAN
  BY <1>4, ParsedFacts DEF TypeOK
<1>6. Parsed(hist', cur') = i
  BY <1>1, <1>3, <1>4, <1>5 DEF Parsed
<1> HIDE DEF h2, n
<1>7. n \in Nat /\ i = n + 1 /\ i \in Nat
  BY <1>3, <1>5
<1>8. hist' = h2
  BY <1>1 DEF h2
<1>9. h2[i] = p /\ p.tag # "cut"
  BY <1>2, <1>3 DEF PacketTags
<1>10. Grows(hist, h2, n)
  BY <1>2, <1>3, <1>5, <1>7, <1>9 DEF Grows
<1>11. Kept(h2, i)
  BY <1>3 DEF Kept
<1>12. AtPacket(h2, cur', source)
  BY <1>4, <1>5 DEF AtPacket
<1>13. \A j \in DOMAIN h2 : j \in DOMAIN hist \/ h2[j].tag \in PacketTags \cup {"blob"}
  BY <1>2, <1>3
<1>14. Parse(i, h2[i].tag)
  BY <1>1, <1>9
<1>15. \A j \in i + 1 .. i : h2[j].tag = "blob"
  BY <1>7
<1>16. i \in i .. Len(h2) /\ cur' \in Nat /\ retry' \in BOOLEAN
  BY <1>3, <1>4, <1>5, <1>7
<1>17. ParseForm(i, n, i)
  <2>1. i = Parsed(h2, cur')
    BY <1>6, <1>8
  <2> HIDE DEF i
  <2> QED
    BY <1>2, <1>4, <1>7, <1>8, <1>9, <1>10, <1>11, <1>12, <1>13, <1>14, <1>15, <1>16, <2>1 DEF ParseForm, n
<1> QED
  BY <1>6, <1>17 DEF n

LEMMA ErrorForms ==
    ASSUME TypeOK, Shape, PullError \/ BadNextBlob \/ PullItemError
    PROVE  \E x : ErrorForm(x, Parsed(hist, cur))
<1>1. Mark("cut") \in Items /\ Mark("err") \in Items /\ Mark("cut").tag = "cut" /\ Mark("err").tag = "err"
  BY PacketFacts DEF Marks
<1>2. CASE PullError
  BY <1>1, <1>2 DEF PullError, ErrorForm, Running, Add, NoRetry
<1>3. CASE BadNextBlob
  <2>1. cur' = 0 /\ cur = 0
    BY <1>3 DEF BadNextBlob
  <2> QED
    BY <1>1, <1>3, <2>1 DEF BadNextBlob, ErrorForm, Running, Add, NoRetry
<1>4. CASE PullItemError
  <2>1. cur' = 0 /\ cur = 0 /\ retry' \in BOOLEAN
    BY <1>4, ParsedFacts DEF PullItemError, Running, TypeOK
  <2> QED
    BY <1>1, <1>4, <2>1 DEF PullItemError, ErrorForm, Running, Add
<1> QED
  BY <1>2, <1>3, <1>4

LEMMA EndForms ==
    ASSUME TypeOK, Shape, NoNextBlob \/ PullItemEnd
    PROVE  \E x : EndForm(x, Parsed(hist, cur))
<1>1. /\ Mark("end") \in Items /\ Mark("end").tag = "end"
      /\ Mark("torn") \in Items /\ Mark("torn").tag = "torn"
  BY PacketFacts DEF Marks
<1>2. CASE NoNextBlob
  <2>1. cur' = 0 /\ cur = 0
    BY <1>2 DEF NoNextBlob
  <2> QED
    BY <1>1, <1>2, <2>1 DEF NoNextBlob, EndForm, Running, Add, NoRetry
<1>3. CASE PullItemEnd
  <2>1. cur' = 0 /\ cur = 0 /\ retry' \in BOOLEAN
    BY <1>3, ParsedFacts DEF PullItemEnd, Running, TypeOK
  <2> QED
    BY <1>1, <1>3, <2>1 DEF PullItemEnd, EndForm, Running, Add
<1> QED
  BY <1>2, <1>3
-----------------------------------------------------------------------------
(* Types, and the shape of the buffer. *)

LEMMA KeyItem == ASSUME NEW x \in Items, x.tag = "key" PROVE x.fpr \in Fprs /\ x \in Packets
<1>1. \A t \in Marks : Mark(t).tag # "key"
  BY PacketFacts DEF Marks
<1>2. x \in Packets
  BY <1>1 DEF Items
<1> QED
  BY <1>2 DEF Packets, Keys, Others

\* The variables of the caller.
CallerOK ==
    /\ cmd \in Commands /\ rejects \subseteq Fprs
    /\ out \in Seq(Results)
    /\ written \in Seq([fpr : Fprs, of : SUBSET Nat])
    /\ merged \in [Fprs -> SUBSET Nat]
    /\ files \in Nat /\ exit \in {"none", "ok", "failed"}

LEMMA CallerIsOK == ASSUME TypeOK PROVE CallerOK
  BY DEF TypeOK, CallerOK

LEMMA ErrResult == ASSUME NEW i \in Nat PROVE Err(i) \in Results /\ Err(i).of = <<i>> /\ Err(i).of[1] = i
  BY DEF Err, Results

LEMMA CertResult ==
    ASSUME NEW ps \in Seq(Nat) PROVE CertOf(ps) \in Results /\ CertOf(ps).of = ps
  BY DEF CertOf, Results

LEMMA LoopCaller == ASSUME CallerOK, Loop PROVE CallerOK'
  BY DEF CallerOK, Loop

LEMMA ErrCaller == ASSUME CallerOK, NEW i \in Nat, ReturnsErr(i) PROVE CallerOK'
<1>1. out' \in Seq(Results)
  BY ErrResult DEF CallerOK, ReturnsErr
<1>2. exit' \in {"none", "ok", "failed"}
  BY DEF CallerOK, ReturnsErr
<1> QED
  BY <1>1, <1>2 DEF CallerOK, ReturnsErr

LEMMA CertCaller ==
    ASSUME CallerOK, hist \in Seq(Items), NEW ps \in Seq(Nat), ps # <<>>, ps[1] \in DOMAIN hist,
           hist[ps[1]].tag = "key", ReturnsCert(ps)
    PROVE  CallerOK'
<1> DEFINE f == hist[ps[1]].fpr
           w == [fpr |-> f, of |-> {ps[1]}]
<1>1. f \in Fprs /\ ps[1] \in Nat
  BY KeyItem
<1>2. out' \in Seq(Results)
  BY CertResult DEF CallerOK, ReturnsCert
<1>3. w \in [fpr : Fprs, of : SUBSET Nat]
  BY <1>1
<1>4. written' = written \/ written' = Append(written, w)
  BY DEF ReturnsCert, Take
<1>5. merged' = merged \/ merged' = [merged EXCEPT ![f] = @ \cup {ps[1]}]
  BY DEF ReturnsCert, Take
<1> HIDE DEF f, w
<1>6. written' \in Seq([fpr : Fprs, of : SUBSET Nat])
  <2> DEFINE W == [fpr : Fprs, of : SUBSET Nat]
  <2>1. w \in W /\ written \in Seq(W)
    BY <1>3 DEF CallerOK
  <2> HIDE DEF W
  <2>2. Append(written, w) \in Seq(W)
    BY <2>1
  <2>3. written' \in Seq(W)
    BY <1>4, <2>1, <2>2
  <2> QED
    BY <2>3 DEF W
<1>7. merged' \in [Fprs -> SUBSET Nat]
  BY <1>1, <1>5 DEF CallerOK
<1> QED
  BY <1>2, <1>6, <1>7 DEF CallerOK, ReturnsCert

LEMMA DeliversCaller ==
    ASSUME CallerOK, hist \in Seq(Items), packets \in Seq(Nat), packets # <<>>,
           packets[1] \in DOMAIN hist, Delivers
    PROVE  CallerOK'
<1>1. packets[1] \in Nat
  OBVIOUS
<1>2. CASE IsCert /\ ReturnsCert(packets)
  <2>1. hist[packets[1]].tag = "key"
    BY <1>2 DEF IsCert, Tag
  <2> QED
    BY <1>2, <2>1, CertCaller
<1>3. CASE IsRejected /\ Loop
  BY <1>3, LoopCaller
<1>4. CASE IsErr /\ ReturnsErr(packets[1])
  BY <1>1, <1>4, ErrCaller
<1> QED
  BY <1>2, <1>3, <1>4 DEF Delivers

\* The buffer lies within the input.
LEMMA PacketsFacts ==
    ASSUME TypeOK, Shape, packets # <<>>
    PROVE  /\ Buffered(hist, Parsed(hist, cur), packets) /\ source # "none"
           /\ packets[1] \in 1 .. Parsed(hist, cur) /\ packets[1] \in DOMAIN hist
           /\ packets[1] \in Nat /\ packets \in Seq(Nat)
           /\ queued = FALSE
<1>1. Buffered(hist, Parsed(hist, cur), packets) /\ source # "none"
  BY DEF Shape
<1>2. packets[1] \in 1 .. Parsed(hist, cur)
  BY <1>1 DEF Buffered
<1>3. queued = FALSE
  BY <1>1 DEF Shape, TypeOK
<1> QED
  BY <1>1, <1>2, <1>3, ParsedFacts DEF TypeOK

LEMMA ParseTypeOK ==
    ASSUME TypeOK, Shape, NEW i, NEW n, NEW n2, ParseForm(i, n, n2)
    PROVE  TypeOK'
<1>1. CallerOK /\ i \in Nat /\ hist' \in Seq(Items) /\ cur' \in Nat /\ retry' \in BOOLEAN
  BY CallerIsOK, ParsedFacts DEF ParseForm, Grows
<1> DEFINE t == hist'[i].tag
<1>2. Parse(i, t)
  BY DEF ParseForm
<1> HIDE DEF t
<1>3. source' = source /\ source \in {"pp", "iter", "none"}
  BY <1>2, ParseCases DEF TypeOK
<1>4. CASE t = "marker" /\ Loop /\ packets' = packets /\ queued' = queued
  <2>1. CallerOK'
    BY <1>1, <1>4, LoopCaller
  <2> QED
    BY <1>1, <1>3, <1>4, <2>1 DEF TypeOK, CallerOK
<1>5. CASE t # "marker" /\ Finishes(t) /\ Delivers /\ packets' = <<i>> /\ queued' = FALSE
  <2>1. packets # <<>>
    BY <1>5 DEF Finishes
  <2>2. packets \in Seq(Nat) /\ packets[1] \in DOMAIN hist /\ hist \in Seq(Items)
    BY <2>1, PacketsFacts DEF TypeOK
  <2>3. CallerOK'
    BY <1>1, <1>5, <2>1, <2>2, DeliversCaller
  <2>4. packets' \in Seq(Nat)
    BY <1>1, <1>5
  <2> QED
    BY <1>1, <1>3, <1>5, <2>3, <2>4 DEF TypeOK, CallerOK
<1>6. CASE t # "marker" /\ ~Finishes(t) /\ Loop /\ packets' = Append(packets, i) /\ queued' = queued
  <2>1. CallerOK'
    BY <1>1, <1>6, LoopCaller
  <2>2. packets' \in Seq(Nat)
    BY <1>1, <1>6 DEF TypeOK
  <2> QED
    BY <1>1, <1>3, <1>6, <2>1, <2>2 DEF TypeOK, CallerOK
<1> QED
  BY <1>2, <1>4, <1>5, <1>6, ParseCases

\* What is buffered when a packet does not make it a certificate.
LEMMA NotFinished ==
    ASSUME TypeOK, Shape, packets # <<>>, NEW t \in PacketTags, t # "marker", ~Finishes(t)
    PROVE  t = "body" /\ hist[packets[1]].tag \in {"key", "ukey"}
<1>1. ~valid_start(t) /\ valid_packet(t)
         /\ ~(Len(packets) = 1 /\ ~valid_start(Tag(packets[1])))
  BY DEF Finishes
<1>2. t = "body"
  BY <1>1 DEF valid_start, valid_packet, PacketTags
<1>3. hist[packets[1]].tag \notin {"key", "ukey"} => Len(packets) = 1
  BY PacketsFacts DEF Buffered
<1> QED
  BY <1>1, <1>2, <1>3 DEF valid_start, Tag

LEMMA ParseShape ==
    ASSUME TypeOK, Shape, NEW i, NEW n, NEW n2, ParseForm(i, n, n2)
    PROVE  Shape'
<1> DEFINE t == hist'[i].tag
<1>1. /\ Parse(i, t) /\ t \in PacketTags /\ Grows(hist, hist', n) /\ i = n + 1
      /\ n = Parsed(hist, cur) /\ n2 = Parsed(hist', cur') /\ n2 \in i .. Len(hist')
      /\ \A j \in i + 1 .. n2 : hist'[j].tag = "blob"
      /\ AtPacket(hist', cur', source) /\ source # "none"
  BY DEF ParseForm
<1>2. n \in Nat /\ i \in Nat /\ i # 0 /\ n2 \in Nat /\ n <= n2 /\ i <= n2
  <2>1. n \in Nat /\ Len(hist') \in Nat
    BY <1>1 DEF Grows
  <2> QED
    BY <1>1, <2>1
<1> HIDE DEF t
<1>3. source' = source
  BY <1>1, ParseCases
<1>4. queued = FALSE
  BY <1>1 DEF Shape, TypeOK
<1>5. packets # <<>> => Buffered(hist', n, packets)
  BY <1>1, PacketsFacts, BufferedGrows
<1>6. SUFFICES ASSUME packets' # <<>> PROVE queued' = FALSE /\ Buffered(hist', n2, packets')
  <2>1. queued' = FALSE
    BY <1>1, <1>4, ParseCases
  <2> QED
    BY <1>1, <1>3, <1>6, <2>1 DEF Shape
<1>7. CASE t = "marker" /\ packets' = packets /\ queued' = queued
  <2>1. \A j \in n + 1 .. n2 : j = i \/ j \in i + 1 .. n2
    BY <1>1, <1>2
  <2>2. \A j \in n + 1 .. n2 : hist'[j].tag \in {"marker", "blob"}
    BY <1>1, <1>7, <2>1 DEF t
  <2> QED
    BY <1>2, <1>4, <1>5, <1>6, <1>7, <2>2, BufferedSkip
<1>8. ASSUME t # "marker" PROVE Buffered(hist', n2, <<i>>)
  <2>1. t \in {"key", "ukey", "body", "junk"}
    BY <1>1, <1>8 DEF PacketTags
  <2>2. \A j \in i + 1 .. n2 : hist'[j].tag \in {"marker", "blob"}
    BY <1>1
  <2> QED
    BY <1>2, <2>1, <2>2, BufferedNew DEF t
<1>9. CASE t # "marker" /\ packets' = <<i>> /\ queued' = FALSE
  BY <1>8, <1>9
<1>10. CASE t # "marker" /\ ~Finishes(t) /\ packets' = Append(packets, i) /\ queued' = queued
  <2>1. CASE packets = <<>>
    <3>1. packets' = <<i>>
      BY <1>10, <2>1
    <3> QED
      BY <1>4, <1>8, <1>10, <3>1
  <2>2. CASE packets # <<>>
    <3>1. t = "body" /\ hist[packets[1]].tag \in {"key", "ukey"}
      BY <1>1, <1>10, <2>2, NotFinished
    <3>2. packets \in Seq(Nat) /\ packets[1] \in 1 .. n
      BY <1>1, <2>2, PacketsFacts
    <3>3. hist'[packets[1]] = hist[packets[1]]
      BY <1>1, <3>2, SameItem
    <3>4. \A j \in n + 2 .. n2 : hist'[j].tag \in {"marker", "blob"}
      <4>1. n + 2 = i + 1
        BY <1>1, <1>2
      <4> QED
        BY <1>1, <4>1
    <3>5. hist'[n + 1].tag = "body"
      BY <1>1, <3>1 DEF t
    <3>6. n + 1 <= n2
      BY <1>1, <1>2
    <3>7. hist'[packets[1]].tag \in {"key", "ukey"}
      BY <3>1, <3>3
    <3>8. Buffered(hist', n2, Append(packets, n + 1))
      BY <1>2, <1>5, <2>2, <3>2, <3>4, <3>5, <3>6, <3>7, BufferedAppend
    <3> QED
      BY <1>1, <1>4, <1>10, <3>8
  <2> QED
    BY <2>1, <2>2
<1> QED
  BY <1>1, <1>7, <1>9, <1>10, ParseCases
LEMMA ErrorTypeShape ==
    ASSUME TypeOK, Shape, NEW x, NEW n, ErrorForm(x, n)
    PROVE  TypeOK' /\ Shape'
<1>1. /\ SourceError(Len(hist) + 1) /\ x \in Items /\ x.tag \in {"cut", "err"}
      /\ hist' = Append(hist, x) /\ cur' = 0 /\ retry' \in BOOLEAN
  BY DEF ErrorForm
<1>2. /\ hist' \in Seq(Items) /\ Len(hist') = Len(hist) + 1 /\ Len(hist) \in Nat
      /\ hist'[Len(hist')] = x /\ hist' # <<>>
  <2>1. hist \in Seq(Items)
    BY DEF TypeOK
  <2>2. /\ Append(hist, x) \in Seq(Items) /\ Len(Append(hist, x)) = Len(hist) + 1
        /\ Len(hist) \in Nat /\ Append(hist, x)[Len(hist) + 1] = x /\ Append(hist, x) # <<>>
    BY <1>1, <2>1
  <2> QED
    BY <1>1, <2>2
<1>3. source' = "none" /\ packets' = <<>> /\ queued' \in BOOLEAN
  BY <1>1, ErrorCases DEF TypeOK
<1>4. CallerOK /\ hist \in Seq(Items) /\ Len(hist) + 1 \in Nat
  BY <1>2, CallerIsOK DEF TypeOK
<1>5. CallerOK'
  <2>1. CASE ReturnsErr(Len(hist) + 1)
    BY <1>4, <2>1, ErrCaller
  <2>2. CASE packets # <<>> /\ IsCert /\ ReturnsCert(packets)
    <3>1. hist[packets[1]].tag = "key"
      BY <2>2 DEF IsCert, Tag
    <3> QED
      BY <1>4, <2>2, <3>1, PacketsFacts, CertCaller
  <2>3. CASE packets # <<>> /\ IsErr /\ ReturnsErr(packets[1])
    BY <1>4, <2>3, PacketsFacts, ErrCaller
  <2> QED
    BY <1>1, <2>1, <2>2, <2>3, ErrorCases
<1>6. TypeOK'
  <2>1. packets' \in Seq(Nat) /\ cur' \in Nat /\ source' \in {"pp", "iter", "none"}
    BY <1>1, <1>3
  <2> QED
    BY <1>1, <1>2, <1>3, <1>5, <2>1 DEF TypeOK, CallerOK
<1>7. Shape'
  BY <1>1, <1>2, <1>3 DEF Shape, AtPacket
<1> QED
  BY <1>6, <1>7

LEMMA EndTypeShape ==
    ASSUME TypeOK, Shape, NEW x, NEW n, EndForm(x, n)
    PROVE  TypeOK' /\ Shape' /\ queued' = FALSE
<1>1. /\ SourceEnd /\ x \in Items /\ source # "none"
      /\ hist' = Append(hist, x) /\ cur' = 0 /\ retry' \in BOOLEAN
  BY DEF EndForm
<1>2. hist' \in Seq(Items)
  BY <1>1 DEF TypeOK
<1>3. source' = "none" /\ packets' = <<>> /\ queued' = FALSE
  <2>1. queued = FALSE
    BY <1>1 DEF Shape, TypeOK
  <2> QED
    BY <1>1, <2>1, EndCases
<1>4. CallerOK /\ hist \in Seq(Items)
  BY CallerIsOK DEF TypeOK
<1>5. CallerOK'
  <2>1. CASE Loop
    BY <1>4, <2>1, LoopCaller
  <2>2. CASE packets # <<>> /\ Delivers
    BY <1>4, <2>2, PacketsFacts, DeliversCaller
  <2> QED
    BY <1>1, <2>1, <2>2, EndCases
<1>6. TypeOK'
  <2>1. packets' \in Seq(Nat) /\ cur' \in Nat /\ source' \in {"pp", "iter", "none"}
    BY <1>1, <1>3
  <2> QED
    BY <1>1, <1>2, <1>3, <1>5, <2>1 DEF TypeOK, CallerOK
<1>7. Shape'
  BY <1>1, <1>3 DEF Shape, AtPacket
<1> QED
  BY <1>3, <1>6, <1>7

-----------------------------------------------------------------------------
(* The library user: what is returned is what is expected. *)

LEMMA StrayNew ==
    ASSUME NEW h, NEW n2, Kept(h, n2), NEW i \in 1 .. n2,
           \A j \in i + 1 .. n2 : h[j].tag = "blob",
           h[i].tag \in {"ukey", "junk", "body"},
           h[i].tag = "body" => \A s \in 1 .. i - 1 : ~BelongsIn(h, s, i)
    PROVE  StrayIn(h, i)
<1>1. n2 \in Nat /\ Len(h) \in Nat /\ n2 <= Len(h) /\ DOMAIN h = 1 .. Len(h) /\ i \in Nat
  BY DEF Kept
<1>2. ~LostIn(h, i)
  <2>1. CASE i = n2
    BY <1>1, <2>1 DEF LostIn, Kept
  <2>2. CASE i # n2
    <3>1. i + 1 \in i + 1 .. n2
      BY <1>1, <2>2
    <3>2. h[i + 1].tag = "blob"
      BY <3>1
    <3> QED
      BY <3>2 DEF LostIn
  <2> QED
    BY <2>1, <2>2
<1>3. ASSUME NEW s \in DOMAIN h, BelongsIn(h, s, i) PROVE FALSE
  <2>1. s < i /\ h[i].tag = "body"
    BY <1>3 DEF BelongsIn
  <2>2. s \in 1 .. i - 1
    BY <1>1, <2>1
  <2> QED
    BY <1>3, <2>1, <2>2
<1> QED
  BY <1>2, <1>3 DEF StrayIn

\* Nothing owns a packet behind a stray one.
LEMMA NoOwner ==
    ASSUME NEW h, NEW n, Kept(h, n), NEW ps, Buffered(h, n, ps),
           h[ps[1]].tag \notin {"key", "ukey"}, StrayIn(h, ps[1]), NEW s \in 1 .. n
    PROVE  ~BelongsIn(h, s, n + 1)
<1> DEFINE p == ps[1]
<1>1. n \in Nat /\ Len(h) \in Nat /\ n <= Len(h) /\ DOMAIN h = 1 .. Len(h) /\ p \in 1 .. n
  BY DEF Kept, Buffered
<1>2. SUFFICES ASSUME BelongsIn(h, s, n + 1) PROVE FALSE
  OBVIOUS
<1>3. h[s].tag \in {"key", "ukey"} /\ \A j \in s + 1 .. n : ~BreaksIn(h, j)
  <2>1. (n + 1) - 1 = n
    BY <1>1
  <2> QED
    BY <1>2, <2>1 DEF BelongsIn
<1>4. CASE s < p
  <2>1. p \in s + 1 .. n
    BY <1>1, <1>4
  <2>2. h[p].tag = "body"
    <3>1. ~BreaksIn(h, p)
      BY <1>3, <2>1
    <3> QED
      BY <3>1 DEF BreaksIn, StrayIn
  <2>3. \A j \in s + 1 .. p - 1 : j \in s + 1 .. n
    BY <1>1
  <2>4. BelongsIn(h, s, p)
    BY <1>3, <1>4, <2>2, <2>3 DEF BelongsIn, StrayIn
  <2>5. s \in DOMAIN h
    BY <1>1
  <2> QED
    BY <2>4, <2>5 DEF StrayIn
<1>5. CASE s = p
  BY <1>3, <1>5
<1>6. CASE s > p
  <2>1. s \in p + 1 .. n
    BY <1>1, <1>6
  <2>2. h[s].tag \in {"body", "marker", "blob"}
    BY <2>1 DEF Buffered
  <2> QED
    BY <1>3, <2>2
<1> QED
  BY <1>1, <1>4, <1>5, <1>6

\* The buffered packets are returned, and then nothing is expected up to b2.
LEMMA GiveCert ==
    ASSUME NEW h, NEW n, Kept(h, n), NEW ps \in Seq(Nat), ps # <<>>, Buffered(h, n, ps),
           h[ps[1]].tag = "key", NEW rej, h[ps[1]].fpr \notin rej,
           NEW n2 \in n .. Len(h), NEW b2 \in n + 1 .. n2 + 1,
           \A j \in n + 1 .. n2 : ~BelongsIn(h, ps[1], j),
           \E j \in n + 1 .. n2 : BreaksIn(h, j),
           \A j \in n + 1 .. n2 : j < b2 => ~ExpectedIn(h, rej, j),
           NEW o \in Seq(Results), Listed(h, rej, n2, ps[1], o, Len(o))
    PROVE  Listed(h, rej, n2, b2, Append(o, CertOf(ps)), Len(o) + 1)
<1> DEFINE s == ps[1]
           r == CertOf(ps)
<1>1. n \in Nat /\ Len(h) \in Nat /\ n2 \in Nat /\ n <= n2 /\ s \in 1 .. n /\ b2 \in Int /\ s < b2 /\ s \in 1 .. n2
  BY DEF Buffered, Kept
<1>2. Whole(h, n2, ps)
  BY BufferedWhole
<1>3. r \in Results /\ r.of = ps
  BY CertResult
<1>4. ExpectedIn(h, rej, s)
  <2>1. s \in s .. n
    BY <1>1
  <2>2. ~LostIn(h, s)
    BY <2>1, BufferedKept
  <2> QED
    BY <2>2 DEF ExpectedIn
<1>5. Right(h, rej, n2, b2, r)
  BY <1>1, <1>2, <1>3, <1>4 DEF Right
<1>6. ASSUME NEW j \in 1 .. n2, s <= j, j < b2, ExpectedIn(h, rej, j) PROVE j = s
  <2>1. j = s \/ j \in s + 1 .. n \/ j \in n + 1 .. n2
    BY <1>1, <1>6
  <2>2. j \notin s + 1 .. n
    BY <1>6, BufferedSilent
  <2>3. j \notin n + 1 .. n2
    BY <1>6
  <2> QED
    BY <2>1, <2>2, <2>3
<1>7. s <= r.of[1] /\ s = r.of[1] /\ s <= b2 /\ s \in Int
  BY <1>1, <1>3
<1> HIDE DEF r
<1>8. \A j \in 1 .. n2 : s <= j /\ j < b2 /\ ExpectedIn(h, rej, j) => j = r.of[1]
  BY <1>6, <1>7
<1>9. Listed(h, rej, n2, s, o, Len(o))
  OBVIOUS
<1> HIDE DEF s
<1>10. Listed(h, rej, n2, b2, Append(o, r), Len(o) + 1)
  BY <1>1, <1>3, <1>5, <1>7, <1>8, <1>9, ListedAppend
<1> QED
  BY <1>10 DEF r

LEMMA GiveErr ==
    ASSUME NEW h, NEW n, Kept(h, n), NEW ps \in Seq(Nat), ps # <<>>, Buffered(h, n, ps),
           h[ps[1]].tag # "key", StrayIn(h, ps[1]), NEW rej,
           NEW n2 \in n .. Len(h), NEW b2 \in n + 1 .. n2 + 1,
           \A j \in n + 1 .. n2 : j < b2 => ~ExpectedIn(h, rej, j),
           NEW o \in Seq(Results), Listed(h, rej, n2, ps[1], o, Len(o))
    PROVE  Listed(h, rej, n2, b2, Append(o, Err(ps[1])), Len(o) + 1)
<1> DEFINE s == ps[1]
           r == Err(s)
<1>1. n \in Nat /\ Len(h) \in Nat /\ n2 \in Nat /\ n <= n2 /\ s \in 1 .. n /\ b2 \in Int /\ s < b2 /\ s \in 1 .. n2
  BY DEF Buffered, Kept
<1>3. r \in Results /\ r.of = <<s>> /\ r.of[1] = s /\ r.of # <<>>
  <2>1. s \in Nat
    BY <1>1
  <2> HIDE DEF s
  <2> QED
    BY <2>1, ErrResult
<1>4. ExpectedIn(h, rej, s)
  BY DEF ExpectedIn
<1> HIDE DEF r
<1>5. Right(h, rej, n2, b2, r)
  <2>1. r = Err(r.of[1]) /\ h[r.of[1]].tag # "key"
    BY <1>3 DEF r
  <2> QED
    BY <1>1, <1>3, <1>4, <2>1 DEF Right
<1>6. ASSUME NEW j \in 1 .. n2, s <= j, j < b2, ExpectedIn(h, rej, j) PROVE j = s
  <2>1. j = s \/ j \in s + 1 .. n \/ j \in n + 1 .. n2
    BY <1>1, <1>6
  <2>2. j \notin s + 1 .. n
    BY <1>6, BufferedSilent
  <2>3. j \notin n + 1 .. n2
    BY <1>6
  <2> QED
    BY <2>1, <2>2, <2>3
<1>7. s <= r.of[1] /\ s = r.of[1] /\ s <= b2 /\ s \in Int
  BY <1>1, <1>3
<1>8. \A j \in 1 .. n2 : s <= j /\ j < b2 /\ ExpectedIn(h, rej, j) => j = r.of[1]
  BY <1>6, <1>7
<1>9. Listed(h, rej, n2, s, o, Len(o))
  OBVIOUS
<1> HIDE DEF s
<1>10. Listed(h, rej, n2, b2, Append(o, r), Len(o) + 1)
  BY <1>1, <1>3, <1>5, <1>7, <1>8, <1>9, ListedAppend
<1> QED
  BY <1>10 DEF r, s

LEMMA GiveNothing ==
    ASSUME NEW h, NEW n, Kept(h, n), NEW ps \in Seq(Nat), ps # <<>>, Buffered(h, n, ps),
           h[ps[1]].tag = "key", NEW rej, h[ps[1]].fpr \in rej,
           NEW n2 \in n .. Len(h), NEW b2 \in n + 1 .. n2 + 1,
           \A j \in n + 1 .. n2 : j < b2 => ~ExpectedIn(h, rej, j),
           NEW o, NEW m, Listed(h, rej, n2, ps[1], o, m)
    PROVE  Listed(h, rej, n2, b2, o, m)
<1> DEFINE s == ps[1]
<1>1. n \in Nat /\ Len(h) \in Nat /\ n2 \in Nat /\ n <= n2 /\ s \in 1 .. n /\ b2 \in Int /\ s <= b2 /\ s \in Int
  BY DEF Buffered, Kept
<1>2. ~ExpectedIn(h, rej, s)
  BY DEF ExpectedIn, StrayIn
<1>3. ASSUME NEW j \in 1 .. n2, s <= j, j < b2 PROVE ~ExpectedIn(h, rej, j)
  <2>1. j = s \/ j \in s + 1 .. n \/ j \in n + 1 .. n2
    BY <1>1, <1>3
  <2>2. j \in s + 1 .. n => ~ExpectedIn(h, rej, j)
    BY BufferedSilent
  <2> QED
    BY <1>2, <1>3, <2>1, <2>2
<1>4. Listed(h, rej, n2, s, o, m)
  OBVIOUS
<1> HIDE DEF s
<1> QED
  BY <1>1, <1>3, <1>4, ListedMore

\* While there is a source, every result is one that is expected.
LEMMA OpenFacts ==
    ASSUME TypeOK, Shape, Collected, source # "none", NEW n, n = Parsed(hist, cur)
    PROVE  \E b \in Int :
              /\ b <= n + 1 /\ Listed(hist, rejects, n, b, out, Len(out))
              /\ packets = <<>> => b = n + 1
              /\ packets # <<>> => b = packets[1]
<1>1. n \in Nat /\ n \in 0 .. Len(hist) /\ Len(out) \in Nat /\ queued = FALSE
  BY ParsedFacts DEF TypeOK, Shape
<1> DEFINE b == Bound(hist, cur, packets, queued)
<1>2. PICK m \in 0 .. Len(out) : Settled(b, n, m)
  BY DEF Collected
<1>3. m = Len(out)
  BY <1>1, <1>2 DEF Settled
<1>4. Listed(hist, rejects, n, b, out, Len(out))
  BY <1>2, <1>3 DEF Settled
<1>5. packets = <<>> => b = n + 1
  BY <1>1 DEF Bound
<1>6. packets # <<>> => b = packets[1] /\ packets[1] \in 1 .. n
  BY PacketsFacts DEF Bound
<1> HIDE DEF b
<1>7. b \in Int /\ b <= n + 1
  BY <1>1, <1>5, <1>6
<1> QED
  BY <1>4, <1>5, <1>6, <1>7

\* What has to be shown of a step that leaves a source.
LEMMA CollectedOpen ==
    ASSUME NEW n2, n2 = Parsed(hist', cur'), source' # "none", queued' = FALSE,
           out' \in Seq(Results),
           \A j \in DOMAIN hist' : hist'[j].tag \in PacketTags \cup {"blob"},
           packets' = <<>> => \A j \in 1 .. n2 : hist'[j].tag \in {"marker", "blob"},
           packets' # <<>> /\ hist'[packets'[1]].tag # "key" => StrayIn(hist', packets'[1]),
           NEW b2, packets' = <<>> => b2 = n2 + 1, packets' # <<>> => b2 = packets'[1],
           Listed(hist', rejects', n2, b2, out', Len(out'))
    PROVE  Collected'
<1>1. b2 = Bound(hist', cur', packets', queued')
  BY DEF Bound
<1>2. Len(out') \in Nat /\ Len(out') \in 0 .. Len(out')
  OBVIOUS
<1>3. \A k \in Len(out') + 1 .. Len(out') : out'[k] = None
  BY <1>2
<1>4. ~(Len(out') < Len(out'))
  BY <1>2
<1>5. \E m \in 0 .. Len(out') :
          /\ Listed(hist', rejects', n2, Bound(hist', cur', packets', queued'), out', m)
          /\ \A k \in m + 1 .. Len(out') : out'[k] = None
          /\ m < Len(out') => source' = "none" /\ ~queued'
  BY <1>1, <1>2, <1>3, <1>4
<1> QED
  BY <1>5 DEF Collected, Settled

\* What has to be shown of a step that ends the source.
LEMMA CollectedDone ==
    ASSUME source' = "none", packets' = <<>>, cur' = 0, queued' \in BOOLEAN,
           out' \in Seq(Results), NEW n2, n2 = Len(hist'), n2 \in Nat,
           queued' => ~HiddenIn(hist', Len(hist')),
           NEW b2, queued' => b2 = n2, ~queued' => b2 = n2 + 1,
           Listed(hist', rejects', n2, b2, out', Len(out'))
    PROVE  Collected'
<1>1. b2 = Bound(hist', cur', packets', queued') /\ n2 = Parsed(hist', cur')
  BY DEF Bound, Parsed
<1>2. Len(out') \in Nat /\ Len(out') \in 0 .. Len(out')
  OBVIOUS
<1>3. \A k \in Len(out') + 1 .. Len(out') : out'[k] = None
  BY <1>2
<1>4. ~(Len(out') < Len(out'))
  BY <1>2
<1>5. \E m \in 0 .. Len(out') :
          /\ Listed(hist', rejects', n2, Bound(hist', cur', packets', queued'), out', m)
          /\ \A k \in m + 1 .. Len(out') : out'[k] = None
          /\ m < Len(out') => source' = "none" /\ ~queued'
  BY <1>1, <1>2, <1>3, <1>4
<1> QED
  BY <1>1, <1>5 DEF Collected, Settled

\* The buffered packets as a result, where IsCert, IsRejected and IsErr are about the
\* input h that has grown since.
LEMMA GiveDelivered ==
    ASSUME TypeOK, Shape, Collected, cmd = "collect", packets # <<>>, Delivers,
           NEW n, n = Parsed(hist, cur), Grows(hist, hist', n), Kept(hist', n),
           NEW n2 \in n .. Len(hist'), NEW b2 \in n + 1 .. n2 + 1,
           hist[packets[1]].tag = "key" =>
              /\ \A j \in n + 1 .. n2 : ~BelongsIn(hist', packets[1], j)
              /\ \E j \in n + 1 .. n2 : BreaksIn(hist', j),
           \A j \in n + 1 .. n2 : j < b2 => ~ExpectedIn(hist', rejects, j)
    PROVE  Listed(hist', rejects', n2, b2, out', Len(out')) /\ rejects' = rejects
<1> DEFINE ps == packets
<1>1. ps \in Seq(Nat) /\ ps # <<>> /\ ps[1] \in 1 .. n /\ Buffered(hist, n, ps) /\ source # "none"
  BY PacketsFacts
<1>2. Buffered(hist', n, ps) /\ hist'[ps[1]] = hist[ps[1]]
  BY <1>1, BufferedGrows, SameItem
<1>3. PICK b \in Int : b <= n + 1 /\ Listed(hist, rejects, n, b, out, Len(out)) /\ b = ps[1]
  BY <1>1, OpenFacts
<1>4. Listed(hist', rejects, n2, ps[1], out, Len(out))
  BY <1>3, SameListed
<1>5. rejects' = rejects
  BY DEF Delivers, ReturnsCert, ReturnsErr, Loop
<1>6. out \in Seq(Results) /\ Len(out) \in Nat
  BY DEF TypeOK
<1>7. CASE IsCert /\ ReturnsCert(packets)
  <2>1. hist'[ps[1]].tag = "key" /\ hist'[ps[1]].fpr \notin rejects
    BY <1>2, <1>7 DEF IsCert, Tag
  <2>2. Listed(hist', rejects, n2, b2, Append(out, CertOf(ps)), Len(out) + 1)
    BY <1>1, <1>2, <1>4, <1>6, <2>1, GiveCert
  <2>3. out' = Append(out, CertOf(ps)) /\ Len(out') = Len(out) + 1
    BY <1>6, <1>7 DEF ReturnsCert
  <2> QED
    BY <1>5, <2>2, <2>3
<1>8. CASE IsRejected /\ Loop
  <2>1. hist'[ps[1]].tag = "key" /\ hist'[ps[1]].fpr \in rejects
    BY <1>2, <1>8 DEF IsRejected, Tag
  <2>2. Listed(hist', rejects, n2, b2, out, Len(out))
    BY <1>1, <1>2, <1>4, <2>1, GiveNothing
  <2> QED
    BY <1>5, <1>8, <2>2 DEF Loop
<1>9. CASE IsErr /\ ReturnsErr(packets[1])
  <2>1. hist'[ps[1]].tag # "key" /\ StrayIn(hist, ps[1])
    BY <1>2, <1>9 DEF IsErr, Tag, Collected
  <2>2. StrayIn(hist', ps[1])
    BY <1>1, <2>1, SameStray
  <2>3. Listed(hist', rejects, n2, b2, Append(out, Err(ps[1])), Len(out) + 1)
    BY <1>1, <1>2, <1>4, <1>6, <2>1, <2>2, GiveErr
  <2>4. out' = Append(out, Err(ps[1])) /\ Len(out') = Len(out) + 1
    <3>1. ps[1] \in Nat
      BY <1>1
    <3>2. Err(ps[1]) \in Results
      BY <3>1, ErrResult
    <3> QED
      BY <1>6, <1>9, <3>2 DEF ReturnsErr
  <2> QED
    BY <1>5, <2>3, <2>4
<1> QED
  BY <1>7, <1>8, <1>9 DEF Delivers
LEMMA CollectParse ==
    ASSUME TypeOK, Shape, Collected, cmd = "collect", NEW i, NEW n, NEW n2, ParseForm(i, n, n2)
    PROVE  Collected'
<1> DEFINE t == hist'[i].tag
<1>1. /\ Parse(i, t) /\ t \in PacketTags /\ Grows(hist, hist', n) /\ i = n + 1
      /\ n = Parsed(hist, cur) /\ n2 = Parsed(hist', cur') /\ n2 \in i .. Len(hist')
      /\ \A j \in i + 1 .. n2 : hist'[j].tag = "blob"
      /\ Kept(hist', n2) /\ source # "none"
      /\ \A j \in DOMAIN hist' : j \in DOMAIN hist \/ hist'[j].tag \in PacketTags \cup {"blob"}
  BY DEF ParseForm
<1>2. /\ n \in Nat /\ i \in Nat /\ i # 0 /\ n2 \in Nat /\ n <= n2 /\ i <= n2
      /\ n2 <= Len(hist') /\ Len(hist') \in Nat
  <2>1. n \in Nat /\ Len(hist') \in Nat
    BY <1>1 DEF Grows
  <2> QED
    BY <1>1, <2>1
<1> HIDE DEF t
<1>3. source' = source /\ queued' = FALSE
  <2>1. queued = FALSE
    BY <1>1 DEF Shape, TypeOK
  <2> QED
    BY <1>1, <2>1, ParseCases
<1>4. \A j \in DOMAIN hist' : hist'[j].tag \in PacketTags \cup {"blob"}
  <2>1. \A j \in DOMAIN hist : hist'[j] = hist[j] /\ hist[j].tag \in PacketTags \cup {"blob"}
    BY <1>1, ParsedFacts DEF Grows, Collected
  <2> QED
    BY <1>1, <2>1
<1>5. TypeOK'
  BY ParseTypeOK
<1>6. out' \in Seq(Results)
  BY <1>5 DEF TypeOK
<1>7. Kept(hist', n)
  <2>1. t # "cut"
    BY <1>1 DEF PacketTags
  <2>2. hist'[n + 1].tag # "cut" /\ n \in 0 .. Len(hist')
    BY <1>1, <1>2, <2>1 DEF t
  <2> QED
    BY <1>1, <2>2 DEF Kept, Grows
<1>8. \A j \in n + 1 .. n2 : j = i \/ (j \in i + 1 .. n2 /\ hist'[j].tag = "blob")
  BY <1>1, <1>2
<1>9. PICK b \in Int : /\ b <= n + 1 /\ Listed(hist, rejects, n, b, out, Len(out))
                       /\ packets = <<>> => b = n + 1
                       /\ packets # <<>> => b = packets[1]
  BY <1>1, OpenFacts
<1>10. Listed(hist', rejects, n2, b, out, Len(out))
  <2>1. n2 \in n .. Len(hist')
    BY <1>2
  <2> QED
    BY <1>1, <1>9, <2>1, SameListed
<1>11. packets = <<>> => \A j \in 1 .. n : hist'[j].tag \in {"marker", "blob"}
  <2>1. packets = <<>> => \A j \in 1 .. n : hist[j].tag \in {"marker", "blob"}
    BY <1>1 DEF Collected
  <2>2. \A j \in 1 .. n : hist'[j] = hist[j]
    BY <1>1, SameItem
  <2> QED
    BY <2>1, <2>2
<1>12. packets # <<>> => /\ packets[1] \in 1 .. n /\ packets \in Seq(Nat)
                         /\ Buffered(hist', n, packets) /\ hist'[packets[1]] = hist[packets[1]]
                         /\ (StrayIn(hist', packets[1]) <=> StrayIn(hist, packets[1]))
  <2>1. SUFFICES ASSUME packets # <<>>
                 PROVE  /\ packets[1] \in 1 .. n /\ packets \in Seq(Nat)
                        /\ Buffered(hist', n, packets) /\ hist'[packets[1]] = hist[packets[1]]
                        /\ (StrayIn(hist', packets[1]) <=> StrayIn(hist, packets[1]))
    OBVIOUS
  <2>2. packets[1] \in 1 .. n /\ packets \in Seq(Nat) /\ Buffered(hist, n, packets)
    BY <1>1, <2>1, PacketsFacts
  <2>3. Buffered(hist', n, packets)
    BY <1>1, <2>2, BufferedGrows
  <2>4. hist'[packets[1]] = hist[packets[1]]
    BY <1>1, <2>2, SameItem
  <2>5. StrayIn(hist', packets[1]) <=> StrayIn(hist, packets[1])
    BY <1>1, <2>2, SameStray
  <2> QED
    BY <2>2, <2>3, <2>4, <2>5
<1>13. ASSUME packets # <<>>, hist[packets[1]].tag # "key" PROVE StrayIn(hist', packets[1])
  <2>1. StrayIn(hist, packets[1])
    BY <1>13 DEF Collected
  <2> QED
    BY <1>12, <1>13, <2>1
<1>14. CASE t = "marker" /\ Loop /\ packets' = packets
  <2>1. out' = out /\ rejects' = rejects
    BY <1>14 DEF Loop
  <2>2. \A j \in n + 1 .. n2 : hist'[j].tag \in {"marker", "blob"}
    BY <1>8, <1>14 DEF t
  <2>3. CASE packets = <<>>
    <3>1. \A j \in 1 .. n2 : j \in 1 .. n \/ j \in n + 1 .. n2
      BY <1>2
    <3>2. \A j \in 1 .. n2 : hist'[j].tag \in {"marker", "blob"}
      BY <1>11, <2>2, <2>3, <3>1
    <3>3. \A j \in 1 .. n2 : ~ExpectedIn(hist', rejects, j)
      BY <3>2 DEF ExpectedIn, StrayIn
    <3>4. n2 + 1 \in Int /\ b <= n2 + 1
      BY <1>2, <1>9
    <3>5. Listed(hist', rejects, n2, n2 + 1, out, Len(out))
      BY <1>2, <1>9, <1>10, <3>3, <3>4, ListedMore
    <3> QED
      BY <1>1, <1>3, <1>4, <1>6, <1>14, <2>1, <2>3, <3>2, <3>5, CollectedOpen
  <2>4. CASE packets # <<>>
    <3>1. Listed(hist', rejects', n2, packets'[1], out', Len(out'))
      BY <1>9, <1>10, <1>14, <2>1, <2>4
    <3>2. hist'[packets'[1]].tag # "key" => StrayIn(hist', packets'[1])
      BY <1>12, <1>13, <1>14, <2>4
    <3> QED
      BY <1>1, <1>3, <1>4, <1>6, <1>14, <2>4, <3>1, <3>2, CollectedOpen
  <2> QED
    BY <2>3, <2>4
\* The new packet, if it is not a key, is a stray one.
<1>15. ASSUME t # "marker", t # "key",
              t = "body" => \A s \in 1 .. n : ~BelongsIn(hist', s, i)
       PROVE  StrayIn(hist', i)
  <2>1. i \in 1 .. n2 /\ i - 1 = n
    BY <1>1, <1>2
  <2>2. hist'[i].tag \in {"ukey", "junk", "body"}
    BY <1>1, <1>15 DEF PacketTags, t
  <2>3. hist'[i].tag = "body" => \A s \in 1 .. i - 1 : ~BelongsIn(hist', s, i)
    BY <1>15, <2>1 DEF t
  <2> QED
    BY <1>1, <2>1, <2>2, <2>3, StrayNew
<1>16. CASE t # "marker" /\ Finishes(t) /\ Delivers /\ packets' = <<i>>
  <2>1. packets # <<>>
    BY <1>16 DEF Finishes
  <2>2. packets'[1] = i /\ packets' # <<>>
    BY <1>16
  <2>3. ASSUME hist[packets[1]].tag \in {"key", "ukey"}
        PROVE  t \in {"key", "ukey", "junk"}
    BY <1>16, <2>3 DEF Finishes, Tag, valid_start, valid_packet
  <2>4. ASSUME hist[packets[1]].tag = "key"
        PROVE  /\ \A j \in n + 1 .. n2 : ~BelongsIn(hist', packets[1], j)
               /\ \E j \in n + 1 .. n2 : BreaksIn(hist', j)
    <3>1. hist'[i].tag \in {"key", "ukey", "junk"}
      BY <2>3, <2>4 DEF t
    <3>2. \A j \in n + 1 .. n2 : hist'[j].tag # "body"
      BY <1>8, <3>1
    <3>3. i \in n + 1 .. n2 /\ BreaksIn(hist', i)
      BY <1>1, <1>2, <3>1 DEF BreaksIn
    <3> QED
      BY <3>2, <3>3 DEF BelongsIn
  <2>5. i \in n + 1 .. n2 + 1 /\ n2 \in n .. Len(hist')
    BY <1>1, <1>2
  <2>6. \A j \in n + 1 .. n2 : j < i => ~ExpectedIn(hist', rejects, j)
    BY <1>1, <1>2
  <2>7. Listed(hist', rejects', n2, i, out', Len(out')) /\ rejects' = rejects
    BY <1>1, <1>7, <1>16, <2>1, <2>4, <2>5, <2>6, GiveDelivered
  <2>8. t # "key" => StrayIn(hist', i)
    <3>1. ASSUME t = "body" PROVE \A s \in 1 .. n : ~BelongsIn(hist', s, i)
      <4>1. hist[packets[1]].tag \notin {"key", "ukey"}
        BY <2>3, <3>1
      <4>2. hist'[packets[1]].tag \notin {"key", "ukey"} /\ StrayIn(hist', packets[1])
        BY <1>12, <1>13, <2>1, <4>1
      <4>3. \A s \in 1 .. n : ~BelongsIn(hist', s, n + 1)
        BY <1>7, <1>12, <2>1, <4>2, NoOwner
      <4> QED
        BY <1>1, <4>3
    <3> QED
      BY <1>15, <1>16, <3>1
  <2>9. hist'[packets'[1]].tag # "key" => StrayIn(hist', packets'[1])
    BY <2>2, <2>8 DEF t
  <2> QED
    BY <1>1, <1>3, <1>4, <1>6, <2>2, <2>7, <2>9, CollectedOpen
<1>17. CASE t # "marker" /\ ~Finishes(t) /\ Loop /\ packets' = Append(packets, i)
  <2>1. out' = out /\ rejects' = rejects
    BY <1>17 DEF Loop
  <2>2. CASE packets = <<>>
    <3>1. packets' = <<i>> /\ packets'[1] = i /\ packets' # <<>>
      BY <1>17, <2>2
    <3>2. Listed(hist', rejects', n2, i, out', Len(out'))
      BY <1>1, <1>9, <1>10, <2>1, <2>2
    <3>3. \A s \in 1 .. n : ~BelongsIn(hist', s, i)
      BY <1>11, <2>2 DEF BelongsIn
    <3>4. hist'[packets'[1]].tag # "key" => StrayIn(hist', packets'[1])
      BY <1>15, <1>17, <3>1, <3>3 DEF t
    <3> QED
      BY <1>1, <1>3, <1>4, <1>6, <3>1, <3>2, <3>4, CollectedOpen
  <2>3. CASE packets # <<>>
    <3>1. packets'[1] = packets[1] /\ packets' # <<>>
      <4>1. Append(packets, i)[1] = packets[1] /\ Append(packets, i) # <<>>
        BY <1>2, <1>12, <2>3
      <4> QED
        BY <1>17, <4>1
    <3>2. Listed(hist', rejects', n2, packets'[1], out', Len(out'))
      BY <1>9, <1>10, <2>1, <2>3, <3>1
    <3>3. hist'[packets'[1]].tag # "key" => StrayIn(hist', packets'[1])
      BY <1>12, <1>13, <2>3, <3>1
    <3> QED
      BY <1>1, <1>3, <1>4, <1>6, <3>1, <3>2, <3>3, CollectedOpen
  <2> QED
    BY <2>2, <2>3
<1> QED
  BY <1>1, <1>14, <1>16, <1>17, ParseCases
LEMMA GiveSourceError ==
    ASSUME NEW h, NEW rej, NEW n2 \in Nat, n2 # 0, NEW b \in Int, b <= n2,
           NEW o \in Seq(Results), Listed(h, rej, n2, b, o, Len(o)),
           h[n2].tag \in {"cut", "err"}, ~HiddenIn(h, n2),
           \A j \in 1 .. n2 : b <= j /\ j < n2 => ~ExpectedIn(h, rej, j)
    PROVE  Listed(h, rej, n2, n2 + 1, Append(o, Err(n2)), Len(o) + 1)
<1> DEFINE r == Err(n2)
           b2 == n2 + 1
<1>1. r \in Results /\ r.of[1] = n2 /\ r.of # <<>>
  BY ErrResult
<1>2. ExpectedIn(h, rej, n2) /\ h[n2].tag # "key"
  BY DEF ExpectedIn
<1>3. n2 \in 1 .. n2 /\ n2 < b2 /\ b <= b2 /\ b2 \in Int
  OBVIOUS
<1> HIDE DEF r
<1>4. Right(h, rej, n2, b2, r)
  <2>1. r = Err(r.of[1])
    BY <1>1 DEF r
  <2> HIDE DEF b2
  <2> QED
    BY <1>1, <1>2, <1>3, <2>1 DEF Right
<1>5. ASSUME NEW j \in 1 .. n2, b <= j, j < b2, ExpectedIn(h, rej, j) PROVE j = r.of[1]
  <2>1. j < n2 \/ j = n2
    BY <1>5
  <2> QED
    BY <1>1, <1>5, <2>1
<1>6. b <= r.of[1]
  BY <1>1
<1> HIDE DEF b2
<1>7. Listed(h, rej, n2, b2, Append(o, r), Len(o) + 1)
  BY <1>1, <1>3, <1>4, <1>5, <1>6, ListedAppend
<1> QED
  BY <1>7 DEF r, b2

LEMMA CollectError ==
    ASSUME TypeOK, Shape, Collected, cmd = "collect", NEW x, NEW n, ErrorForm(x, n)
    PROVE  Collected'
<1> DEFINE l == Len(hist)
           n2 == Len(hist) + 1
<1>1. /\ SourceError(n2) /\ x \in Items /\ x.tag \in {"cut", "err"} /\ n = Parsed(hist, cur)
      /\ (x.tag = "cut" <=> cur # 0) /\ hist' = Append(hist, x) /\ cur' = 0 /\ source # "none"
  BY DEF ErrorForm
<1>2. /\ hist' \in Seq(Items) /\ Len(hist') = n2 /\ l \in Nat
      /\ \A j \in 1 .. l : hist'[j] = hist[j]
      /\ hist'[n2] = x
      /\ DOMAIN hist = 1 .. l /\ DOMAIN hist' = 1 .. n2
  BY <1>1, AppendFacts DEF TypeOK
<1>3. /\ n \in 0 .. l /\ n \in Nat
      /\ cur # 0 => n = l - 1 /\ hist[l] \in Packets /\ l # 0
      /\ cur = 0 => n = l
  <2>1. /\ n \in 0 .. l /\ l \in Nat
        /\ cur # 0 => cur = l /\ n = l - 1 /\ hist[cur] \in Packets
        /\ cur = 0 => n = l
    BY <1>1, ParsedFacts
  <2>2. cur # 0 => hist[l] \in Packets /\ l # 0
    BY <2>1
  <2>3. n \in Nat
    BY <2>1
  <2> QED
    BY <2>1, <2>2, <2>3
<1>4. n2 \in Nat /\ n2 # 0 /\ n2 \in n .. Len(hist') /\ n2 \in n + 1 .. n2 + 1 /\ n2 + 1 \in n + 1 .. n2 + 1
      /\ n2 \in n + 1 .. n2 /\ l = n2 - 1
  <2>1. l \in Nat /\ n \in 0 .. l /\ n2 = l + 1 /\ Len(hist') = n2
    BY <1>2, <1>3
  <2> HIDE DEF n2, l
  <2> QED
    BY <2>1
<1> HIDE DEF n2, l
<1>5. \A j \in n + 1 .. l : cur # 0 /\ j = l
  BY <1>2, <1>3
<1>6. \A j \in n + 1 .. l : hist'[j].tag \in PacketTags /\ LostIn(hist', j)
  <2> TAKE j \in n + 1 .. l
  <2>1. cur # 0 /\ j = l /\ hist[l] \in Packets /\ l \in 1 .. l
    BY <1>2, <1>3, <1>5
  <2>2. hist'[j] = hist[l] /\ hist'[j].tag \in PacketTags
    BY <1>2, <2>1, PacketFacts
  <2>3. j + 1 = n2 /\ hist'[n2].tag = "cut"
    BY <1>1, <1>2, <1>4, <2>1
  <2> QED
    BY <1>2, <1>4, <2>2, <2>3 DEF LostIn
<1>7. Grows(hist, hist', n) /\ Kept(hist', n)
  <2>1. hist'[n + 1].tag # "cut"
    <3>1. CASE cur = 0
      <4>1. n + 1 = n2
        BY <1>3, <1>4, <3>1
      <4> QED
        BY <1>1, <1>2, <3>1, <4>1
    <3>2. CASE cur # 0
      <4>1. n + 1 \in n + 1 .. l
        BY <1>2, <1>3, <3>2
      <4> QED
        BY <1>6, <4>1 DEF PacketTags
    <3> QED
      BY <3>1, <3>2
  <2>2. n \in 0 .. Len(hist') /\ n \in 0 .. Len(hist) /\ Len(hist) <= Len(hist')
    BY <1>2, <1>3, <1>4 DEF l
  <2> QED
    BY <1>2, <2>1, <2>2 DEF Grows, Kept, TypeOK, l
<1>8. \A j \in n + 1 .. n2 : j = n2 \/ j \in n + 1 .. l
  BY <1>3, <1>4
<1>9. \A j \in n + 1 .. l : ~ExpectedIn(hist', rejects, j) /\ ~StrayIn(hist', j)
  BY <1>6 DEF ExpectedIn, StrayIn, PacketTags
<1>10. TypeOK'
  BY ErrorTypeShape
<1>11. out' \in Seq(Results) /\ queued' \in BOOLEAN /\ out \in Seq(Results) /\ queued = FALSE
  BY <1>1, <1>10 DEF TypeOK, Shape
<1>12. source' = "none" /\ packets' = <<>>
  BY <1>1, ErrorCases
<1>13. PICK b \in Int : /\ b <= n + 1 /\ Listed(hist, rejects, n, b, out, Len(out))
                        /\ packets = <<>> => b = n + 1
                        /\ packets # <<>> => b = packets[1]
  BY <1>1, OpenFacts
<1>14. Listed(hist', rejects, n2, b, out, Len(out)) /\ b <= n2
  BY <1>3, <1>4, <1>7, <1>13, SameListed
<1>15. ASSUME NEW i \in Nat, ReturnsErr(i)
       PROVE  out' = Append(out, Err(i)) /\ Len(out') = Len(out) + 1 /\ rejects' = rejects
  <2>1. Err(i) \in Results
    BY ErrResult
  <2> QED
    BY <1>11, <1>15, <2>1 DEF ReturnsErr
<1>16. CASE packets = <<>> /\ ReturnsErr(n2) /\ queued' = queued
  <2>1. ASSUME NEW s \in 1 .. n2 - 1 PROVE ~StrayIn(hist', s)
    <3>1. s \in 1 .. n \/ s \in n + 1 .. l
      BY <1>3, <1>4
    <3>2. CASE s \in 1 .. n
      <4>1. hist[s].tag \in {"marker", "blob"}
        BY <1>1, <1>16, <3>2 DEF Collected
      <4>2. hist'[s] = hist[s]
        BY <1>7, <3>2, SameItem
      <4> QED
        BY <4>1, <4>2 DEF StrayIn
    <3> QED
      BY <1>9, <3>1, <3>2
  <2>2. ~HiddenIn(hist', n2)
    BY <2>1 DEF HiddenIn
  <2>3. \A j \in 1 .. n2 : b <= j /\ j < n2 => ~ExpectedIn(hist', rejects, j)
    <3>1. \A j \in 1 .. n2 : b <= j /\ j < n2 => j \in n + 1 .. l
      BY <1>3, <1>4, <1>13, <1>16
    <3> QED
      BY <1>9, <3>1
  <2>4. hist'[n2].tag \in {"cut", "err"}
    BY <1>1, <1>2
  <2>5. Listed(hist', rejects, n2, n2 + 1, Append(out, Err(n2)), Len(out) + 1)
    BY <1>4, <1>11, <1>14, <2>2, <2>3, <2>4, GiveSourceError
  <2>6. Listed(hist', rejects', n2, n2 + 1, out', Len(out')) /\ queued' = FALSE
    BY <1>4, <1>11, <1>15, <1>16, <2>5
  <2> QED
    BY <1>1, <1>2, <1>4, <1>11, <1>12, <2>6, CollectedDone
\* Of what is buffered.
<1>17. packets # <<>> => /\ packets[1] \in 1 .. n /\ packets \in Seq(Nat)
                         /\ Buffered(hist', n, packets) /\ hist'[packets[1]] = hist[packets[1]]
                         /\ (StrayIn(hist', packets[1]) <=> StrayIn(hist, packets[1]))
  <2>1. SUFFICES ASSUME packets # <<>>
                 PROVE  /\ packets[1] \in 1 .. n /\ packets \in Seq(Nat)
                        /\ Buffered(hist', n, packets) /\ hist'[packets[1]] = hist[packets[1]]
                        /\ (StrayIn(hist', packets[1]) <=> StrayIn(hist, packets[1]))
    OBVIOUS
  <2>2. packets[1] \in 1 .. n /\ packets \in Seq(Nat) /\ Buffered(hist, n, packets)
    BY <1>1, <2>1, PacketsFacts
  <2>3. Buffered(hist', n, packets)
    BY <1>7, <2>2, BufferedGrows
  <2>4. hist'[packets[1]] = hist[packets[1]]
    BY <1>7, <2>2, SameItem
  <2>5. StrayIn(hist', packets[1]) <=> StrayIn(hist, packets[1])
    BY <1>7, <2>2, SameStray
  <2> QED
    BY <2>2, <2>3, <2>4, <2>5
<1>18. ASSUME packets # <<>>, Tag(packets[1]) = "key" PROVE ~HiddenIn(hist', n2)
  <2> DEFINE p == packets[1]
  <2>1. hist'[p].tag = "key" /\ p \in 1 .. n /\ Buffered(hist', n, packets)
    BY <1>17, <1>18 DEF Tag
  <2>2. SUFFICES ASSUME NEW s \in 1 .. n2 - 1, StrayIn(hist', s),
                        \A j \in s + 1 .. n2 - 1 :
                           \/ hist'[j].tag \in {"marker", "blob"} \/ LostIn(hist', j)
                           \/ BelongsIn(hist', s, j)
                 PROVE  FALSE
    BY DEF HiddenIn
  <2>3. CASE s < p
    <3>1. p \in s + 1 .. n2 - 1 /\ p \in p .. n
      BY <1>3, <1>4, <2>1, <2>3
    <3>2. ~LostIn(hist', p)
      BY <1>7, <2>1, <3>1, BufferedKept
    <3>3. BelongsIn(hist', s, p)
      BY <2>1, <2>2, <3>1, <3>2
    <3> QED
      BY <2>1, <3>3 DEF BelongsIn
  <2>4. CASE s = p
    BY <2>1, <2>2, <2>4 DEF StrayIn
  <2>5. CASE s > p
    <3>1. s \in p + 1 .. n \/ s \in n + 1 .. l
      BY <1>3, <1>4, <2>1, <2>5
    <3>2. s \in p + 1 .. n => ~StrayIn(hist', s)
      BY <1>7, <2>1, BufferedSilent
    <3> QED
      BY <1>9, <2>2, <3>1, <3>2
  <2> QED
    BY <1>3, <2>1, <2>3, <2>4, <2>5
<1>19. ASSUME packets # <<>>, Tag(packets[1]) # "key"
       PROVE  HiddenIn(hist', n2) /\ StrayIn(hist', packets[1])
  <2> DEFINE p == packets[1]
  <2>1. hist'[p].tag # "key" /\ p \in 1 .. n /\ Buffered(hist', n, packets)
    BY <1>17, <1>19 DEF Tag
  <2>2. StrayIn(hist', p)
    BY <1>17, <1>19 DEF Tag, Collected
  <2>3. ASSUME NEW j \in p + 1 .. n2 - 1
        PROVE  \/ hist'[j].tag \in {"marker", "blob"} \/ LostIn(hist', j)
               \/ BelongsIn(hist', p, j)
    <3>1. j \in p + 1 .. n \/ j \in n + 1 .. l
      BY <1>3, <1>4, <2>1
    <3>2. CASE j \in p + 1 .. n /\ hist'[j].tag = "body"
      <4>1. hist'[p].tag \in {"key", "ukey"}
        BY <2>1, <3>2 DEF Buffered
      <4>2. j \in 1 .. n /\ j > p
        BY <1>3, <2>1, <3>2
      <4> QED
        BY <1>7, <2>1, <3>2, <4>1, <4>2, BufferedBelongs
    <3>3. CASE j \in p + 1 .. n /\ hist'[j].tag # "body"
      BY <2>1, <3>3 DEF Buffered
    <3> QED
      BY <1>6, <3>1, <3>2, <3>3
  <2>4. p \in 1 .. n2 - 1
    BY <1>3, <1>4, <2>1
  <2> QED
    BY <2>2, <2>3, <2>4 DEF HiddenIn
<1>20. ASSUME packets # <<>>
       PROVE  /\ \A j \in n + 1 .. n2 : ~BelongsIn(hist', packets[1], j)
              /\ \E j \in n + 1 .. n2 : BreaksIn(hist', j)
  <2>1. hist'[n2].tag \in {"cut", "err"}
    BY <1>1, <1>2
  <2>2. BreaksIn(hist', n2) /\ ~BelongsIn(hist', packets[1], n2)
    BY <2>1 DEF BreaksIn, BelongsIn
  <2>3. \A j \in n + 1 .. l : ~BelongsIn(hist', packets[1], j)
    BY <1>6 DEF BelongsIn
  <2> QED
    BY <1>4, <1>8, <2>2, <2>3
<1>21. \A j \in n + 1 .. n2 : j < n2 => ~ExpectedIn(hist', rejects, j)
  <2>1. \A j \in n + 1 .. n2 : j < n2 => j \in n + 1 .. l
    BY <1>3, <1>4
  <2> QED
    BY <1>9, <2>1
<1>22. CASE packets # <<>> /\ IsCert /\ ReturnsCert(packets) /\ queued' = TRUE
  <2>1. Delivers
    BY <1>22 DEF Delivers
  <2>2. Listed(hist', rejects', n2, n2, out', Len(out'))
    BY <1>1, <1>4, <1>7, <1>20, <1>21, <1>22, <2>1, GiveDelivered
  <2>3. ~HiddenIn(hist', Len(hist'))
    BY <1>2, <1>18, <1>22 DEF IsCert
  <2> QED
    BY <1>1, <1>2, <1>4, <1>11, <1>12, <1>22, <2>2, <2>3, CollectedDone
<1>23. CASE packets # <<>> /\ IsRejected /\ ReturnsErr(n2) /\ queued' = FALSE
  <2>1. hist'[packets[1]].tag = "key" /\ hist'[packets[1]].fpr \in rejects
    BY <1>17, <1>23 DEF IsRejected, Tag
  <2>2. Listed(hist', rejects, n2, packets[1], out, Len(out))
    BY <1>13, <1>14, <1>23
  <2>3. Listed(hist', rejects, n2, n2, out, Len(out))
    BY <1>4, <1>7, <1>17, <1>21, <1>23, <2>1, <2>2, GiveNothing
  <2>4. ~HiddenIn(hist', n2) /\ hist'[n2].tag \in {"cut", "err"}
    BY <1>1, <1>2, <1>18, <1>23 DEF IsRejected
  <2>5. \A j \in 1 .. n2 : n2 <= j /\ j < n2 => ~ExpectedIn(hist', rejects, j)
    BY <1>4
  <2>6. n2 \in Int /\ n2 <= n2
    BY <1>4
  <2>7. Listed(hist', rejects, n2, n2 + 1, Append(out, Err(n2)), Len(out) + 1)
    BY <1>4, <1>11, <2>3, <2>4, <2>5, <2>6, GiveSourceError
  <2>8. Listed(hist', rejects', n2, n2 + 1, out', Len(out'))
    BY <1>4, <1>15, <1>23, <2>7
  <2> QED
    BY <1>1, <1>2, <1>4, <1>11, <1>12, <1>23, <2>8, CollectedDone
<1>24. CASE packets # <<>> /\ IsErr /\ ReturnsErr(packets[1]) /\ queued' = FALSE
  <2>1. Delivers
    BY <1>24 DEF Delivers
  <2>2. HiddenIn(hist', n2) /\ hist'[n2].tag \in {"cut", "err"}
    BY <1>1, <1>2, <1>19, <1>24 DEF IsErr
  <2>3. ~ExpectedIn(hist', rejects, n2)
    BY <2>2 DEF ExpectedIn, StrayIn
  <2>4. \A j \in n + 1 .. n2 : j < n2 + 1 => ~ExpectedIn(hist', rejects, j)
    BY <1>8, <1>9, <2>3
  <2>5. Listed(hist', rejects', n2, n2 + 1, out', Len(out'))
    BY <1>1, <1>4, <1>7, <1>20, <1>24, <2>1, <2>4, GiveDelivered
  <2> QED
    BY <1>1, <1>2, <1>4, <1>11, <1>12, <1>24, <2>5, CollectedDone
<1> QED
  BY <1>1, <1>16, <1>22, <1>23, <1>24, ErrorCases
LEMMA CollectEnd ==
    ASSUME TypeOK, Shape, Collected, cmd = "collect", NEW x, NEW n, EndForm(x, n)
    PROVE  Collected'
<1> DEFINE n2 == Len(hist) + 1
<1>1. /\ SourceEnd /\ x \in Items /\ x.tag \in {"end", "torn"} /\ n = Parsed(hist, cur)
      /\ cur = 0 /\ hist' = Append(hist, x) /\ cur' = 0 /\ source # "none"
  BY DEF EndForm
<1>2. /\ hist' \in Seq(Items) /\ Len(hist') = n2 /\ Len(hist) \in Nat
      /\ \A j \in 1 .. Len(hist) : hist'[j] = hist[j]
      /\ hist'[n2] = x
      /\ DOMAIN hist = 1 .. Len(hist) /\ DOMAIN hist' = 1 .. n2
  BY <1>1, AppendFacts DEF TypeOK
<1>3. n = Len(hist) /\ n \in Nat /\ n2 = n + 1
  BY <1>1, <1>2, ParsedFacts
<1> HIDE DEF n2
<1>4. n2 \in Nat /\ n2 \in n .. Len(hist') /\ n2 + 1 \in n + 1 .. n2 + 1 /\ n2 \in n + 1 .. n2
         /\ \A j \in n + 1 .. n2 : j = n2
  BY <1>2, <1>3
<1>5. Grows(hist, hist', n) /\ Kept(hist', n)
  <2>1. hist'[n + 1].tag # "cut" /\ n \in 0 .. Len(hist) /\ n \in 0 .. Len(hist') /\ Len(hist) <= Len(hist')
    BY <1>1, <1>2, <1>3
  <2> QED
    BY <1>2, <2>1 DEF Grows, Kept, TypeOK
<1>6. ~ExpectedIn(hist', rejects, n2)
  BY <1>1, <1>2 DEF ExpectedIn, StrayIn
<1>7. TypeOK' /\ queued' = FALSE
  BY EndTypeShape
<1>8. out' \in Seq(Results) /\ source' = "none" /\ packets' = <<>>
  BY <1>1, <1>7, EndCases DEF TypeOK
<1>9. CASE packets = <<>> /\ Loop
  <2>1. PICK b \in Int : b <= n + 1 /\ Listed(hist, rejects, n, b, out, Len(out)) /\ b = n + 1
    BY <1>1, <1>9, OpenFacts
  <2>2. Listed(hist', rejects, n2, b, out, Len(out))
    BY <1>4, <1>5, <2>1, SameListed
  <2>3. \A j \in 1 .. n2 : b <= j /\ j < n2 + 1 => ~ExpectedIn(hist', rejects, j)
    <3>1. \A j \in 1 .. n2 : b <= j /\ j < n2 + 1 => j = n2
      BY <1>3, <1>4, <2>1
    <3> QED
      BY <1>6, <3>1
  <2>4. n2 + 1 \in Int /\ b <= n2 + 1
    BY <1>3, <2>1
  <2>5. Listed(hist', rejects, n2, n2 + 1, out, Len(out))
    BY <1>4, <2>2, <2>3, <2>4, ListedMore
  <2>6. out' = out /\ rejects' = rejects
    BY <1>9 DEF Loop
  <2> QED
    BY <1>1, <1>2, <1>4, <1>7, <1>8, <2>5, <2>6, CollectedDone
<1>10. CASE packets # <<>> /\ Delivers
  <2>1. \A j \in n + 1 .. n2 : ~BelongsIn(hist', packets[1], j)
    BY <1>1, <1>2, <1>4 DEF BelongsIn
  <2>2. BreaksIn(hist', n2)
    BY <1>1, <1>2 DEF BreaksIn
  <2>3. \A j \in n + 1 .. n2 : j < n2 + 1 => ~ExpectedIn(hist', rejects, j)
    BY <1>4, <1>6
  <2>4. Listed(hist', rejects', n2, n2 + 1, out', Len(out'))
    BY <1>1, <1>4, <1>5, <1>10, <2>1, <2>2, <2>3, GiveDelivered
  <2> QED
    BY <1>1, <1>2, <1>4, <1>7, <1>8, <2>4, CollectedDone
<1> QED
  BY <1>1, <1>9, <1>10, EndCases

\* Another blob: nothing is parsed yet.
LEMMA NextBlobFacts ==
    ASSUME TypeOK, Shape, NextBlob, NEW n, n = Parsed(hist, cur)
    PROVE  /\ Grows(hist, hist', n) /\ n = Parsed(hist', cur') /\ n = Len(hist) /\ n \in Nat
           /\ Len(hist') = n + 1 /\ hist'[n + 1].tag \in PacketTags
           /\ DOMAIN hist = 1 .. n /\ DOMAIN hist' = 1 .. n + 1
           /\ AtPacket(hist', cur', source) /\ cur' \in Nat /\ retry' \in BOOLEAN
           /\ source = "pp" /\ source' = source /\ packets' = packets /\ queued' = queued /\ Loop
<1>1. PICK p \in Packets : hist' = Append(hist, p)
  BY DEF NextBlob, Add
<1>2. p \in Items /\ p.tag \in PacketTags /\ p.tag # "cut"
  BY PacketFacts DEF PacketTags
<1>3. /\ hist' \in Seq(Items) /\ Len(hist') = Len(hist) + 1 /\ Len(hist) \in Nat
      /\ \A j \in 1 .. Len(hist) : hist'[j] = hist[j]
      /\ hist'[Len(hist) + 1] = p
      /\ DOMAIN hist = 1 .. Len(hist) /\ DOMAIN hist' = 1 .. Len(hist) + 1
  BY <1>1, <1>2, AppendFacts DEF TypeOK
<1>4. /\ cur = 0 /\ cur' = Len(hist) + 1 /\ retry' = FALSE /\ Loop
      /\ source = "pp" /\ source' = source /\ packets' = packets /\ queued' = queued
  BY DEF NextBlob, NoRetry, Running
<1>5. n = Len(hist)
  BY <1>4, ParsedFacts
<1>6. Parsed(hist', cur') = n
  BY <1>3, <1>4, <1>5 DEF Parsed
<1>7. Grows(hist, hist', n)
  <2>1. n \in 0 .. Len(hist) /\ Len(hist) <= Len(hist') /\ hist'[n + 1].tag # "cut"
    BY <1>2, <1>3, <1>5
  <2> QED
    BY <1>3, <2>1 DEF Grows, TypeOK
<1>8. AtPacket(hist', cur', source)
  BY <1>3, <1>4 DEF AtPacket
<1>9. cur' \in Nat /\ retry' \in BOOLEAN /\ n \in Nat /\ Len(hist') = n + 1
  <2>1. n \in Nat /\ Len(hist') = n + 1 /\ Len(hist) + 1 \in Nat
    BY <1>3, <1>5
  <2>2. cur' \in Nat
    BY <1>4, <2>1
  <2>3. retry' \in BOOLEAN
    BY <1>4
  <2> QED
    BY <2>1, <2>2, <2>3
<1>10. hist'[n + 1].tag \in PacketTags
  BY <1>2, <1>3, <1>5
<1>11. DOMAIN hist = 1 .. n /\ DOMAIN hist' = 1 .. n + 1
  BY <1>3, <1>5
<1> QED
  BY <1>4, <1>5, <1>6, <1>7, <1>8, <1>9, <1>10, <1>11

LEMMA NextBlobTypeShape == ASSUME TypeOK, Shape, NextBlob PROVE TypeOK' /\ Shape'
<1> DEFINE n == Parsed(hist, cur)
<1>1. /\ Grows(hist, hist', n) /\ n = Parsed(hist', cur')
      /\ AtPacket(hist', cur', source) /\ cur' \in Nat /\ retry' \in BOOLEAN
      /\ source = "pp" /\ source' = source /\ packets' = packets /\ queued' = queued /\ Loop
  BY NextBlobFacts
<1>2. CallerOK'
  BY <1>1, CallerIsOK, LoopCaller
<1>3. hist' \in Seq(Items)
  BY <1>1 DEF Grows
<1>4. TypeOK'
  BY <1>1, <1>2, <1>3 DEF TypeOK, CallerOK
<1>5. packets # <<>> => Buffered(hist', n, packets)
  BY <1>1, PacketsFacts, BufferedGrows
<1>6. queued = FALSE
  BY <1>1 DEF Shape, TypeOK
<1> HIDE DEF n
<1>7. Shape'
  BY <1>1, <1>5, <1>6 DEF Shape
<1> QED
  BY <1>4, <1>7

LEMMA CollectNextBlob ==
    ASSUME TypeOK, Shape, Collected, cmd = "collect", NextBlob
    PROVE  Collected'
<1> DEFINE n == Parsed(hist, cur)
<1>1. /\ Grows(hist, hist', n) /\ n = Parsed(hist', cur') /\ n \in Nat /\ n = Len(hist)
      /\ Len(hist') = n + 1 /\ hist'[n + 1].tag \in PacketTags
      /\ DOMAIN hist = 1 .. n /\ DOMAIN hist' = 1 .. n + 1
      /\ source = "pp" /\ source' = source /\ packets' = packets /\ queued' = queued /\ Loop
  BY NextBlobFacts
<1>2. queued' = FALSE /\ out' = out /\ rejects' = rejects /\ out \in Seq(Results)
  BY <1>1 DEF Shape, TypeOK, Loop
<1>3. \A j \in 1 .. n : hist'[j] = hist[j]
  BY <1>1, SameItem
<1>4. \A j \in DOMAIN hist' : hist'[j].tag \in PacketTags \cup {"blob"}
  <2>1. \A j \in 1 .. n : hist[j].tag \in PacketTags \cup {"blob"}
    BY <1>1 DEF Collected
  <2>2. \A j \in 1 .. n + 1 : j \in 1 .. n \/ j = n + 1
    BY <1>1
  <2> QED
    BY <1>1, <1>3, <2>1, <2>2
<1>5. packets = <<>> => \A j \in 1 .. n : hist'[j].tag \in {"marker", "blob"}
  BY <1>1, <1>3 DEF Collected
<1>6. packets # <<>> /\ hist'[packets[1]].tag # "key" => StrayIn(hist', packets[1])
  <2>1. SUFFICES ASSUME packets # <<>>, hist'[packets[1]].tag # "key" PROVE StrayIn(hist', packets[1])
    OBVIOUS
  <2>2. packets[1] \in 1 .. n
    BY <2>1, PacketsFacts
  <2>3. StrayIn(hist, packets[1])
    BY <1>3, <2>1, <2>2 DEF Collected
  <2> QED
    BY <1>1, <2>2, <2>3, SameStray
<1>7. PICK b \in Int : /\ b <= n + 1 /\ Listed(hist, rejects, n, b, out, Len(out))
                       /\ packets = <<>> => b = n + 1
                       /\ packets # <<>> => b = packets[1]
  BY <1>1, OpenFacts
<1>8. Listed(hist', rejects, n, b, out, Len(out))
  <2>1. n \in n .. Len(hist')
    BY <1>1
  <2> QED
    BY <1>1, <1>7, <2>1, SameListed
<1> HIDE DEF n
<1> QED
  BY <1>1, <1>2, <1>4, <1>5, <1>6, <1>7, <1>8, CollectedOpen

LEMMA QueuedTypeShape == ASSUME TypeOK, Shape, ReturnQueued PROVE TypeOK' /\ Shape'
<1>1. ReturnsErr(Len(hist)) /\ queued' = FALSE /\ UNCHANGED <<source, cur, retry, packets, hist>>
  BY ReturnErr DEF ReturnQueued
<1>2. Len(hist) \in Nat
  BY DEF TypeOK
<1>3. CallerOK'
  BY <1>1, <1>2, CallerIsOK, ErrCaller
<1> QED
  BY <1>1, <1>3 DEF TypeOK, CallerOK, Shape

LEMMA CollectQueued ==
    ASSUME TypeOK, Shape, Collected, cmd = "collect", ReturnQueued
    PROVE  Collected'
<1> DEFINE n2 == Len(hist)
<1>1. /\ ReturnsErr(n2) /\ queued' = FALSE /\ UNCHANGED <<source, cur, retry, packets, hist>>
      /\ queued /\ source = "none"
  BY ReturnErr DEF ReturnQueued, Running
<1>2. packets = <<>> /\ cur = 0 /\ hist # <<>> /\ hist[n2].tag \in {"cut", "err"} /\ ~HiddenIn(hist, n2)
  BY <1>1 DEF Shape, AtPacket, Collected
<1>3. n2 \in Nat /\ n2 # 0 /\ Parsed(hist, cur) = n2 /\ Bound(hist, cur, packets, queued) = n2
  BY <1>1, <1>2 DEF TypeOK, Parsed, Bound
<1>4. PICK m \in 0 .. Len(out) : Settled(n2, n2, m)
  BY <1>3 DEF Collected
<1>5. m = Len(out) /\ Len(out) \in Nat /\ out \in Seq(Results)
  BY <1>1, <1>4 DEF Settled, TypeOK
<1>6. Listed(hist, rejects, n2, n2, out, Len(out))
  BY <1>4, <1>5 DEF Settled
<1> HIDE DEF n2
<1>7. n2 \in Int /\ n2 <= n2 /\ \A j \in 1 .. n2 : n2 <= j /\ j < n2 => ~ExpectedIn(hist, rejects, j)
  BY <1>3
<1>8. Listed(hist, rejects, n2, n2 + 1, Append(out, Err(n2)), Len(out) + 1)
  BY <1>2, <1>3, <1>5, <1>6, <1>7, GiveSourceError
<1>9. out' = Append(out, Err(n2)) /\ Len(out') = Len(out) + 1 /\ rejects' = rejects /\ out' \in Seq(Results)
  <2>1. Err(n2) \in Results
    BY <1>3, ErrResult
  <2> QED
    BY <1>1, <1>5, <2>1 DEF ReturnsErr
<1>10. Listed(hist', rejects', n2, n2 + 1, out', Len(out'))
  BY <1>1, <1>8, <1>9
<1>11. source' = "none" /\ packets' = <<>> /\ cur' = 0 /\ n2 = Len(hist')
  BY <1>1, <1>2 DEF n2
<1> QED
  BY <1>1, <1>3, <1>9, <1>10, <1>11, CollectedDone

LEMMA CollectEndsTypeShape == ASSUME TypeOK, Shape, CollectEnds PROVE TypeOK' /\ Shape'
<1>1. None \in Results
  BY DEF None, Results
<1>2. out' \in Seq(Results)
  BY <1>1 DEF CollectEnds, TypeOK
<1>3. exit' \in {"none", "ok", "failed"}
  BY DEF CollectEnds, TypeOK
<1> QED
  BY <1>2, <1>3 DEF CollectEnds, TypeOK, Shape

LEMMA CollectNone ==
    ASSUME TypeOK, Shape, Collected, CollectEnds
    PROVE  Collected'
<1>1. /\ out' = Append(out, None) /\ source = "none" /\ ~queued
      /\ UNCHANGED <<cmd, rejects, source, cur, packets, queued, hist>>
  BY DEF CollectEnds, AtEnd, Running
<1> DEFINE n == Parsed(hist, cur)
           b == Bound(hist, cur, packets, queued)
<1>2. PICK m \in 0 .. Len(out) : Settled(b, n, m)
  BY DEF Collected
<1>3. None \in Results /\ out \in Seq(Results) /\ Len(out) \in Nat
  BY DEF None, Results, TypeOK
<1>4. /\ Len(out') = Len(out) + 1 /\ out'[Len(out) + 1] = None
      /\ \A k \in 1 .. Len(out) : out'[k] = out[k]
  <2>1. /\ Len(Append(out, None)) = Len(out) + 1 /\ Append(out, None)[Len(out) + 1] = None
        /\ \A k \in 1 .. Len(out) : Append(out, None)[k] = out[k]
    BY <1>3
  <2> QED
    BY <1>1, <2>1
<1>5. \A k \in 1 .. m : out'[k] = out[k]
  BY <1>2, <1>3, <1>4
<1>6. Listed(hist, rejects, n, b, out', m)
  <2>1. Listed(hist, rejects, n, b, out, m)
    BY <1>2 DEF Settled
  <2>2. m \in 0 .. Len(out')
    BY <1>2, <1>3, <1>4
  <2>3. \A k \in 1 .. m : Right(hist, rejects, n, b, out'[k])
    BY <1>5, <2>1 DEF Listed
  <2>4. \A j, k \in 1 .. m : j < k => out'[j].of[1] < out'[k].of[1]
    BY <1>5, <2>1 DEF Listed
  <2>5. \A i \in 1 .. n : i < b /\ ExpectedIn(hist, rejects, i) => \E k \in 1 .. m : out'[k].of[1] = i
    BY <1>5, <2>1 DEF Listed
  <2> HIDE DEF n, b
  <2> QED
    BY <2>2, <2>3, <2>4, <2>5 DEF Listed
<1>7. \A k \in m + 1 .. Len(out') : out'[k] = None
  <2>1. \A k \in m + 1 .. Len(out') : k = Len(out) + 1 \/ (k \in m + 1 .. Len(out) /\ k \in 1 .. Len(out))
    BY <1>2, <1>3, <1>4
  <2>2. \A k \in m + 1 .. Len(out) : out[k] = None
    BY <1>2 DEF Settled
  <2> QED
    BY <1>4, <2>1, <2>2
<1>8. m \in 0 .. Len(out')
  BY <1>2, <1>3, <1>4
<1> HIDE DEF n, b
<1>9. n = Parsed(hist', cur') /\ b = Bound(hist', cur', packets', queued')
  BY <1>1 DEF n, b
<1> QED
  BY <1>1, <1>8, <1>6, <1>7, <1>9 DEF Collected, Settled
-----------------------------------------------------------------------------
(* The commands. *)

LEMMA WantedGrows ==
    ASSUME NEW h, NEW h2, NEW n, Grows(h, h2, n), NEW n2 \in n .. Len(h2), NEW rej,
           NEW b \in Int, b <= n + 1
    PROVE  /\ Wanted(h2, rej, b, n2) = Wanted(h, rej, b, n)
           /\ Clean(h, b, n) => Clean(h2, b, n2)
           /\ \A i \in Wanted(h, rej, b, n) : h2[i] = h[i]
<1>1. n \in Nat /\ n2 \in Nat /\ n <= n2
  BY DEF Grows
<1>2. \A i \in 1 .. n2 : i < b => i \in 1 .. n
  BY <1>1
<1>3. \A i \in 1 .. n : h2[i] = h[i] /\ i \in 1 .. n2
  BY <1>1, SameItem
<1> QED
  BY <1>2, <1>3 DEF Wanted, Clean

LEMMA HandledGrows ==
    ASSUME NEW h, NEW h2, NEW n, Grows(h, h2, n), NEW n2 \in n .. Len(h2), NEW rej,
           NEW b \in Int, b <= n + 1, NEW c, NEW w, NEW g, Handled(h, b, n, rej, c, w, g)
    PROVE  Handled(h2, b, n2, rej, c, w, g)
<1> DEFINE S == Wanted(h, rej, b, n)
<1>1. Wanted(h2, rej, b, n2) = S /\ Clean(h2, b, n2) /\ \A i \in S : h2[i] = h[i]
  BY WantedGrows DEF Handled
<1>2. Wrote(h, w, S) => Wrote(h2, w, S)
  <2> HIDE DEF S
  <2> QED
    BY <1>1 DEF Wrote
<1>3. Merged(h, g, S) => Merged(h2, g, S)
  <2>1. \A f : {i \in S : h2[i].fpr = f} = {i \in S : h[i].fpr = f}
    BY <1>1
  <2> HIDE DEF S
  <2> QED
    BY <2>1 DEF Merged
<1> HIDE DEF S
<1>4. (c = "filter" => Wrote(h, w, S)) /\ (c = "merge" => Merged(h, g, S))
  BY DEF Handled, S
<1> QED
  BY <1>1, <1>2, <1>3, <1>4 DEF Handled

\* There is no certificate between b and b2.
LEMMA HandledMore ==
    ASSUME NEW h, NEW n \in Nat, NEW rej, NEW b \in Int, NEW b2 \in Int, b <= b2,
           NEW c, NEW w, NEW g, Handled(h, b, n, rej, c, w, g),
           \A i \in 1 .. n : b <= i /\ i < b2 => h[i].tag \notin Bad /\ h[i].tag # "key"
    PROVE  Handled(h, b2, n, rej, c, w, g)
<1>1. Wanted(h, rej, b2, n) = Wanted(h, rej, b, n)
  BY DEF Wanted
<1>2. Clean(h, b2, n)
  BY DEF Handled, Clean
<1> QED
  BY <1>1, <1>2 DEF Handled

\* The certificate at s is the only one between b and b2, and is not wanted.
LEMMA HandledSkip ==
    ASSUME NEW h, NEW n \in Nat, NEW rej, NEW s \in 1 .. n, NEW b2 \in Int, s < b2,
           NEW c, NEW w, NEW g, Handled(h, s, n, rej, c, w, g),
           \A i \in 1 .. n : s < i /\ i < b2 => h[i].tag \notin Bad /\ h[i].tag # "key",
           h[s].tag = "key", h[s].fpr \in rej
    PROVE  Handled(h, b2, n, rej, c, w, g)
<1>1. Wanted(h, rej, b2, n) = Wanted(h, rej, s, n)
  BY DEF Wanted
<1>2. Clean(h, b2, n)
  BY DEF Handled, Clean, Bad
<1> QED
  BY <1>1, <1>2 DEF Handled

LEMMA WantedOne ==
    ASSUME NEW h, NEW n \in Nat, NEW rej, NEW s \in 1 .. n, NEW b2 \in Int, s < b2,
           Clean(h, s, n),
           \A i \in 1 .. n : s < i /\ i < b2 => h[i].tag \notin Bad /\ h[i].tag # "key",
           h[s].tag = "key", h[s].fpr \notin rej
    PROVE  Wanted(h, rej, b2, n) = Wanted(h, rej, s, n) \cup {s} /\ Clean(h, b2, n)
<1>1. Wanted(h, rej, b2, n) = Wanted(h, rej, s, n) \cup {s}
  BY DEF Wanted
<1>2. Clean(h, b2, n)
  BY DEF Clean, Bad
<1> QED
  BY <1>1, <1>2

LEMMA WroteOne ==
    ASSUME NEW h, NEW W, NEW w \in Seq(W), NEW S, NEW s, NEW e \in W,
           e = [fpr |-> h[s].fpr, of |-> {s}], Wrote(h, w, S)
    PROVE  Wrote(h, Append(w, e), S \cup {s})
<1> DEFINE v == Append(w, e)
<1>1. /\ Len(w) \in Nat /\ DOMAIN w = 1 .. Len(w) /\ DOMAIN v = 1 .. Len(w) + 1
      /\ \A k \in 1 .. Len(w) : v[k] = w[k]
      /\ v[Len(w) + 1] = e
  OBVIOUS
<1>2. e.fpr = h[s].fpr /\ e.of = {s}
  OBVIOUS
<1>3. \A k \in DOMAIN v : (k \in DOMAIN w /\ v[k] = w[k]) \/ v[k] = e
  BY <1>1
<1>4. \A k \in DOMAIN w : k \in DOMAIN v /\ v[k] = w[k]
  BY <1>1
<1>5. Len(w) + 1 \in DOMAIN v
  BY <1>1
<1> HIDE DEF v
<1>6. \A k \in DOMAIN v : \A i \in v[k].of : i \in S \cup {s} /\ h[i].fpr = v[k].fpr
  BY <1>2, <1>3 DEF Wrote
<1>7. ASSUME NEW i \in S \cup {s} PROVE \E k \in DOMAIN v : i \in v[k].of
  <2>1. CASE i \in S
    <3>1. PICK k \in DOMAIN w : i \in w[k].of
      BY <2>1 DEF Wrote
    <3> QED
      BY <1>4, <3>1
  <2>2. CASE i = s
    BY <1>1, <1>2, <1>5, <2>2
  <2> QED
    BY <2>1, <2>2
<1>8. Wrote(h, v, S \cup {s})
  BY <1>6, <1>7 DEF Wrote
<1> QED
  BY <1>8 DEF v

LEMMA MergedOne ==
    ASSUME NEW h, NEW g \in [Fprs -> SUBSET Nat], NEW S, NEW s \in Nat, h[s].fpr \in Fprs,
           Merged(h, g, S)
    PROVE  Merged(h, [g EXCEPT ![h[s].fpr] = @ \cup {s}], S \cup {s})
<1> DEFINE e == h[s].fpr
           g2 == [g EXCEPT ![e] = @ \cup {s}]
<1>1. ASSUME NEW f \in Fprs PROVE g2[f] = {i \in S \cup {s} : h[i].fpr = f}
  <2>1. g[f] = {i \in S : h[i].fpr = f}
    BY DEF Merged
  <2>2. CASE f = e
    <3>1. g2[f] = g[f] \cup {s}
      BY <2>2
    <3> HIDE DEF g2
    <3> QED
      BY <2>1, <2>2, <3>1
  <2>3. CASE f # e
    <3>1. g2[f] = g[f]
      BY <2>3
    <3> HIDE DEF g2
    <3> QED
      BY <2>1, <2>3, <3>1
  <2> QED
    BY <2>2, <2>3
<1> QED
  BY <1>1 DEF Merged

\* The command takes the certificate that starts at s.
LEMMA HandledOne ==
    ASSUME CallerOK, NEW ps \in Seq(Nat), ps # <<>>, ReturnsCert(ps),
           cmd \in {"filter", "merge"}, cmd = "merge" => rejects = {},
           NEW h, h[ps[1]] = hist[ps[1]], h[ps[1]].tag = "key", h[ps[1]].fpr \in Fprs,
           NEW n \in Nat, ps[1] \in 1 .. n, NEW b2 \in Int, ps[1] < b2,
           Handled(h, ps[1], n, rejects, cmd, written, merged),
           \A i \in 1 .. n : ps[1] < i /\ i < b2 => h[i].tag \notin Bad /\ h[i].tag # "key"
    PROVE  Handled(h, b2, n, rejects', cmd', written', merged')
<1> DEFINE s == ps[1]
           f == h[s].fpr
           S == Wanted(h, rejects, s, n)
           W == [fpr : Fprs, of : SUBSET Nat]
           e == [fpr |-> f, of |-> {s}]
<1>1. /\ cmd' = cmd /\ rejects' = rejects
      /\ written' = (IF cmd = "filter" /\ f \notin rejects THEN Append(written, e) ELSE written)
      /\ merged' = (IF cmd = "merge" THEN [merged EXCEPT ![f] = @ \cup {s}] ELSE merged)
  BY DEF ReturnsCert, Take
<1>2. s \in Nat /\ e \in W /\ written \in Seq(W) /\ merged \in [Fprs -> SUBSET Nat]
  BY DEF CallerOK
<1>3. Clean(h, s, n)
  BY DEF Handled
<1> HIDE DEF W
<1>4. CASE f \in rejects
  <2>1. cmd = "filter" /\ written' = written /\ merged' = merged
    BY <1>1, <1>4
  <2>2. Handled(h, b2, n, rejects, cmd, written, merged)
    BY <1>4, HandledSkip
  <2> QED
    BY <1>1, <2>1, <2>2
<1>5. CASE f \notin rejects
  <2>1. Wanted(h, rejects, b2, n) = S \cup {s} /\ Clean(h, b2, n)
    BY <1>3, <1>5, WantedOne
  <2>2. CASE cmd = "filter"
    <3>1. Wrote(h, written, S)
      BY <2>2 DEF Handled
    <3>2. Wrote(h, Append(written, e), S \cup {s})
      <4> HIDE DEF S
      <4>1. e = [fpr |-> h[s].fpr, of |-> {s}]
        OBVIOUS
      <4> HIDE DEF e
      <4> QED
        BY <1>2, <3>1, <4>1, WroteOne
    <3>3. written' = Append(written, e)
      BY <1>1, <1>5, <2>2
    <3> HIDE DEF S, e, f, s
    <3>4. Wrote(h, written', Wanted(h, rejects', b2, n))
      BY <1>1, <2>1, <3>2, <3>3
    <3> QED
      BY <1>1, <2>1, <2>2, <3>4 DEF Handled
  <2>3. CASE cmd = "merge"
    <3>1. Merged(h, merged, S)
      BY <2>3 DEF Handled
    <3>2. Merged(h, [merged EXCEPT ![f] = @ \cup {s}], S \cup {s})
      <4> HIDE DEF S
      <4> QED
        BY <1>2, <3>1, MergedOne
    <3>3. merged' = [merged EXCEPT ![f] = @ \cup {s}]
      BY <1>1, <2>3
    <3> HIDE DEF S, e, f, s
    <3>4. Merged(h, merged', Wanted(h, rejects', b2, n))
      BY <1>1, <2>1, <3>2, <3>3
    <3> QED
      BY <1>1, <2>1, <2>3, <3>4 DEF Handled
  <2> QED
    BY <2>2, <2>3
<1> QED
  BY <1>4, <1>5

\* Where a running command stands.
LEMMA CommandFacts ==
    ASSUME TypeOK, Shape, Commanded, ~queued, NEW n, n = Parsed(hist, cur)
    PROVE  \E b \in Int :
              /\ b <= n + 1 /\ Handled(hist, b, n, rejects, cmd, written, merged)
              /\ packets = <<>> => b = n + 1
              /\ packets # <<>> => b = packets[1]
<1>1. n \in Nat
  BY ParsedFacts
<1> DEFINE b == Bound(hist, cur, packets, queued)
<1>2. Handled(hist, b, n, rejects, cmd, written, merged)
  BY DEF Commanded
<1>3. packets = <<>> => b = n + 1
  BY DEF Bound
<1>4. packets # <<>> => b = packets[1] /\ packets[1] \in 1 .. n
  BY PacketsFacts DEF Bound
<1> HIDE DEF b
<1>5. b \in Int /\ b <= n + 1
  BY <1>1, <1>3, <1>4
<1> QED
  BY <1>2, <1>3, <1>4, <1>5

LEMMA CommandedFrom ==
    ASSUME NEW n2, n2 = Parsed(hist', cur'), queued' = FALSE, NEW b2,
           packets' = <<>> => b2 = n2 + 1, packets' # <<>> => b2 = packets'[1],
           Handled(hist', b2, n2, rejects', cmd', written', merged')
    PROVE  Commanded'
<1>1. b2 = Bound(hist', cur', packets', queued')
  BY DEF Bound
<1> QED
  BY <1>1 DEF Commanded

IsCommand == cmd \in {"filter", "merge"} /\ (cmd = "merge" => rejects = {})

\* A certificate is delivered to a command.
LEMMA CommandDelivers ==
    ASSUME TypeOK, Shape, Commanded, IsCommand, packets # <<>>, Delivers, exit' = "none",
           NEW n, n = Parsed(hist, cur), Grows(hist, hist', n),
           NEW n2 \in n .. Len(hist'), NEW b2 \in n + 1 .. n2 + 1,
           \A j \in n + 1 .. n2 : j < b2 => hist'[j].tag \notin Bad /\ hist'[j].tag # "key"
    PROVE  Handled(hist', b2, n2, rejects', cmd', written', merged')
<1> DEFINE s == packets[1]
<1>1. packets \in Seq(Nat) /\ s \in 1 .. n /\ Buffered(hist, n, packets) /\ ~queued
  BY PacketsFacts
<1>2. IsCert /\ ReturnsCert(packets)
  BY DEF Delivers, IsRejected, IsCommand, ReturnsErr
<1>3. hist'[s] = hist[s] /\ hist[s].tag = "key" /\ Buffered(hist', n, packets)
  BY <1>1, <1>2, SameItem, BufferedGrows DEF IsCert, Tag
<1>4. hist[s].fpr \in Fprs
  <2>1. s \in 1 .. Len(hist)
    BY PacketsFacts
  <2>2. hist \in Seq(Items)
    BY DEF TypeOK
  <2> HIDE DEF s
  <2>3. hist[s] \in Items
    BY <2>1, <2>2
  <2> QED
    BY <1>3, <2>3, KeyItem
<1>5. PICK b \in Int : /\ b <= n + 1 /\ Handled(hist, b, n, rejects, cmd, written, merged)
                       /\ b = packets[1]
  BY <1>1, CommandFacts
<1>6. Handled(hist', s, n2, rejects, cmd, written, merged)
  BY <1>5, HandledGrows
<1>7. n \in Nat /\ n2 \in Nat /\ b2 \in Int /\ s < b2 /\ s \in 1 .. n2
  <2>1. n \in Nat /\ Len(hist') \in Nat
    BY DEF Grows
  <2> QED
    BY <1>1, <2>1
<1>8. ASSUME NEW i \in 1 .. n2, s < i, i < b2 PROVE hist'[i].tag \notin Bad /\ hist'[i].tag # "key"
  <2>1. i \in s + 1 .. n \/ i \in n + 1 .. n2
    BY <1>1, <1>7, <1>8
  <2>2. CASE i \in s + 1 .. n
    BY <1>3, <2>2 DEF Buffered, Bad
  <2> QED
    BY <1>8, <2>1, <2>2
<1>9. CallerOK
  BY CallerIsOK
<1>10. hist'[s].tag = "key" /\ hist'[s].fpr \in Fprs
  BY <1>3, <1>4
<1>11. cmd \in {"filter", "merge"} /\ (cmd = "merge" => rejects = {})
  BY DEF IsCommand
<1> QED
  BY <1>1, <1>2, <1>3, <1>6, <1>7, <1>8, <1>9, <1>10, <1>11, HandledOne

LEMMA CommandParse ==
    ASSUME TypeOK, Shape, Commanded, IsCommand, NEW i, NEW n, NEW n2, ParseForm(i, n, n2),
           exit' = "none"
    PROVE  Commanded'
<1> DEFINE t == hist'[i].tag
<1>1. /\ Parse(i, t) /\ t \in PacketTags /\ Grows(hist, hist', n) /\ i = n + 1
      /\ n = Parsed(hist, cur) /\ n2 = Parsed(hist', cur') /\ n2 \in i .. Len(hist')
      /\ \A j \in i + 1 .. n2 : hist'[j].tag = "blob"
      /\ source # "none"
  BY DEF ParseForm
<1>2. /\ n \in Nat /\ i \in Nat /\ i # 0 /\ n2 \in Nat /\ n <= n2 /\ i <= n2
      /\ n2 <= Len(hist') /\ Len(hist') \in Nat /\ n2 \in n .. Len(hist') /\ i \in n + 1 .. n2 + 1
  <2>1. n \in Nat /\ Len(hist') \in Nat
    BY <1>1 DEF Grows
  <2> QED
    BY <1>1, <2>1
<1> HIDE DEF t
<1>3. queued' = FALSE /\ ~queued
  <2>1. queued = FALSE
    BY <1>1 DEF Shape, TypeOK
  <2> QED
    BY <1>1, <2>1, ParseCases
<1>4. PICK b \in Int : /\ b <= n + 1 /\ Handled(hist, b, n, rejects, cmd, written, merged)
                       /\ packets = <<>> => b = n + 1
                       /\ packets # <<>> => b = packets[1]
  BY <1>1, <1>3, CommandFacts
<1>5. Handled(hist', b, n2, rejects, cmd, written, merged)
  BY <1>1, <1>2, <1>4, HandledGrows
<1>6. CASE t = "marker" /\ Loop /\ packets' = packets
  <2>1. UNCHANGED <<rejects, cmd, written, merged>>
    BY <1>6 DEF Loop
  <2>2. CASE packets = <<>>
    <3>1. \A j \in 1 .. n2 : b <= j /\ j < n2 + 1 => j = i \/ j \in i + 1 .. n2
      BY <1>1, <1>2, <1>4, <2>2
    <3>2. \A j \in 1 .. n2 : b <= j /\ j < n2 + 1 => hist'[j].tag \notin Bad /\ hist'[j].tag # "key"
      BY <1>1, <1>6, <3>1 DEF t, Bad
    <3>3. n2 + 1 \in Int /\ b <= n2 + 1
      BY <1>2, <1>4
    <3>4. Handled(hist', n2 + 1, n2, rejects, cmd, written, merged)
      BY <1>2, <1>5, <3>2, <3>3, HandledMore
    <3> QED
      BY <1>1, <1>3, <1>6, <2>1, <2>2, <3>4, CommandedFrom
  <2>3. CASE packets # <<>>
    BY <1>1, <1>3, <1>4, <1>5, <1>6, <2>1, <2>3, CommandedFrom
  <2> QED
    BY <2>2, <2>3
<1>7. CASE Finishes(t) /\ Delivers /\ packets' = <<i>>
  <2>1. packets # <<>> /\ packets'[1] = i /\ packets' # <<>>
    BY <1>7 DEF Finishes
  <2>2. \A j \in n + 1 .. n2 : j < i => hist'[j].tag \notin Bad /\ hist'[j].tag # "key"
    BY <1>1, <1>2
  <2>3. Handled(hist', i, n2, rejects', cmd', written', merged')
    BY <1>1, <1>2, <1>7, <2>1, <2>2, CommandDelivers
  <2> QED
    BY <1>1, <1>3, <2>1, <2>3, CommandedFrom
<1>8. CASE Loop /\ packets' = Append(packets, i)
  <2>1. UNCHANGED <<rejects, cmd, written, merged>>
    BY <1>8 DEF Loop
  <2>2. b = packets'[1] /\ packets' # <<>>
    <3>1. CASE packets = <<>>
      BY <1>1, <1>4, <1>8, <3>1
    <3>2. CASE packets # <<>>
      <4>1. packets \in Seq(Nat)
        BY DEF TypeOK
      <4>2. Append(packets, i)[1] = packets[1] /\ Append(packets, i) # <<>>
        BY <1>2, <3>2, <4>1
      <4> QED
        BY <1>4, <1>8, <3>2, <4>2
    <3> QED
      BY <3>1, <3>2
  <2>3. Handled(hist', b, n2, rejects', cmd', written', merged')
    BY <1>5, <2>1
  <2> QED
    BY <1>1, <1>3, <2>2, <2>3, CommandedFrom
<1> QED
  BY <1>1, <1>6, <1>7, <1>8, ParseCases

LEMMA CommandError ==
    ASSUME TypeOK, Shape, IsCommand, NEW x, NEW n, ErrorForm(x, n)
    PROVE  exit' = "failed" \/ (exit' = exit /\ queued' = TRUE)
<1>1. SourceError(Len(hist) + 1) /\ cmd # "collect"
  BY DEF ErrorForm, IsCommand
<1>2. ~IsRejected
  BY <1>1 DEF IsRejected
<1> QED
  BY <1>1, <1>2, ErrorCases DEF ReturnsErr, ReturnsCert

LEMMA CommandEnd ==
    ASSUME TypeOK, Shape, Commanded, IsCommand, NEW x, NEW n, EndForm(x, n), exit' = "none"
    PROVE  Commanded'
<1> DEFINE n2 == Len(hist) + 1
<1>1. /\ SourceEnd /\ x \in Items /\ x.tag \in {"end", "torn"} /\ n = Parsed(hist, cur)
      /\ cur = 0 /\ hist' = Append(hist, x) /\ cur' = 0 /\ source # "none"
  BY DEF EndForm
<1>2. /\ hist' \in Seq(Items) /\ Len(hist') = n2 /\ Len(hist) \in Nat
      /\ \A j \in 1 .. Len(hist) : hist'[j] = hist[j]
      /\ hist'[n2] = x
  BY <1>1, AppendFacts DEF TypeOK
<1>3. n = Len(hist) /\ n \in Nat /\ n2 = n + 1
  BY <1>1, <1>2, ParsedFacts
<1>4. Parsed(hist', cur') = n2
  BY <1>1, <1>2 DEF Parsed
<1> HIDE DEF n2
<1>5. n2 \in Nat /\ n2 \in n .. Len(hist') /\ n2 + 1 \in n + 1 .. n2 + 1 /\ n2 + 1 \in Int
         /\ \A j \in n + 1 .. n2 : j = n2
  BY <1>2, <1>3
<1>6. Grows(hist, hist', n)
  <2>1. hist'[n + 1].tag # "cut" /\ n \in 0 .. Len(hist) /\ Len(hist) <= Len(hist')
    BY <1>1, <1>2, <1>3
  <2> QED
    BY <1>2, <2>1 DEF Grows, TypeOK
<1>7. queued' = FALSE /\ packets' = <<>> /\ ~queued
  BY <1>1, EndTypeShape, EndCases DEF Shape
<1>8. hist'[n2].tag \notin Bad /\ hist'[n2].tag # "key"
  BY <1>1, <1>2 DEF Bad
<1>9. CASE packets = <<>> /\ Loop
  <2>1. PICK b \in Int : b <= n + 1 /\ Handled(hist, b, n, rejects, cmd, written, merged) /\ b = n + 1
    BY <1>1, <1>7, <1>9, CommandFacts
  <2>2. Handled(hist', b, n2, rejects, cmd, written, merged)
    BY <1>5, <1>6, <2>1, HandledGrows
  <2>3. \A j \in 1 .. n2 : b <= j /\ j < n2 + 1 => j = n2
    BY <1>3, <1>5, <2>1
  <2>4. b <= n2 + 1
    BY <1>3, <2>1
  <2>5. Handled(hist', n2 + 1, n2, rejects, cmd, written, merged)
    BY <1>5, <1>8, <2>2, <2>3, <2>4, HandledMore
  <2>6. UNCHANGED <<rejects, cmd, written, merged>>
    BY <1>9 DEF Loop
  <2> QED
    BY <1>4, <1>7, <2>5, <2>6, CommandedFrom
<1>10. CASE packets # <<>> /\ Delivers
  <2>1. \A j \in n + 1 .. n2 : j < n2 + 1 => hist'[j].tag \notin Bad /\ hist'[j].tag # "key"
    BY <1>5, <1>8
  <2>2. Handled(hist', n2 + 1, n2, rejects', cmd', written', merged')
    BY <1>1, <1>5, <1>6, <1>10, <2>1, CommandDelivers
  <2> QED
    BY <1>4, <1>7, <2>2, CommandedFrom
<1> QED
  BY <1>1, <1>9, <1>10, EndCases

LEMMA CommandNextBlob ==
    ASSUME TypeOK, Shape, Commanded, NextBlob PROVE Commanded'
<1> DEFINE n == Parsed(hist, cur)
<1>1. /\ Grows(hist, hist', n) /\ n = Parsed(hist', cur') /\ n \in Nat
      /\ Len(hist') = n + 1 /\ source = "pp" /\ packets' = packets /\ queued' = queued /\ Loop
  BY NextBlobFacts
<1>2. ~queued /\ queued' = FALSE
  BY <1>1 DEF Shape, TypeOK
<1>3. PICK b \in Int : /\ b <= n + 1 /\ Handled(hist, b, n, rejects, cmd, written, merged)
                       /\ packets = <<>> => b = n + 1
                       /\ packets # <<>> => b = packets[1]
  BY <1>2, CommandFacts
<1>4. n \in n .. Len(hist')
  BY <1>1
<1>5. Handled(hist', b, n, rejects, cmd, written, merged)
  BY <1>1, <1>3, <1>4, HandledGrows
<1>6. UNCHANGED <<rejects, cmd, written, merged>>
  BY <1>1 DEF Loop
<1> HIDE DEF n
<1> QED
  BY <1>1, <1>2, <1>3, <1>5, <1>6, CommandedFrom

\* CertParser::from_file, for a command.
LEMMA OpenFileFacts ==
    ASSUME TypeOK, Shape, OpenFile, NEW n, n = Len(hist)
    PROVE  /\ n \in Nat /\ cur = 0 /\ source = "none" /\ packets = <<>> /\ ~queued /\ exit = "none"
           /\ packets' = packets /\ queued' = queued /\ retry' = retry /\ files' = files + 1
           /\ UNCHANGED <<cmd, rejects, out, written, merged>>
           /\ Grows(hist, hist', n) /\ Len(hist') \in {n + 1, n + 2}
           /\ hist'[n + 1].tag = "file"
           /\ AtPacket(hist', cur', source')
           /\ source' \in {"pp", "none"} /\ cur' \in Nat /\ exit' \in {"none", "failed"}
           /\ exit' = "none" => Parsed(hist', cur') = n + 1
<1>1. /\ cur = 0 /\ source = "none" /\ packets = <<>> /\ ~queued /\ exit = "none"
      /\ packets' = packets /\ queued' = queued /\ retry' = retry /\ files' = files + 1
      /\ UNCHANGED <<cmd, rejects, out, written, merged>>
  BY DEF OpenFile, AtEnd, Running, Shape, AtPacket
<1>2. hist \in Seq(Items) /\ n \in Nat
  BY DEF TypeOK
<1>3. Mark("file") \in Items /\ Mark("file").tag = "file" /\ Mark("err") \in Items
  BY PacketFacts DEF Marks
<1>4. ASSUME NEW h, h \in Seq(Items), Len(h) >= n + 1, Len(h) \in Nat, h[n + 1] = Mark("file"),
             \A j \in 1 .. n : h[j] = hist[j]
      PROVE  Grows(hist, h, n) /\ h[n + 1].tag = "file"
  <2>1. h[n + 1].tag # "cut" /\ h[n + 1].tag = "file"
    BY <1>3, <1>4
  <2>2. n \in 0 .. Len(hist) /\ Len(hist) <= Len(h)
    BY <1>2, <1>4
  <2> QED
    BY <1>2, <1>4, <2>1, <2>2 DEF Grows
<1>5. ASSUME NEW p \in Items
      PROVE  LET h == hist \o <<Mark("file"), p>> IN
             /\ h \in Seq(Items) /\ Len(h) = n + 2 /\ h[n + 1] = Mark("file") /\ h[n + 2] = p
             /\ \A j \in 1 .. n : h[j] = hist[j]
  <2> DEFINE f == Mark("file")
  <2>1. f \in Items
    BY <1>3
  <2> HIDE DEF f
  <2>2. <<f, p>> \in Seq(Items) /\ Len(<<f, p>>) = 2 /\ <<f, p>>[1] = f /\ <<f, p>>[2] = p
    BY <1>5, <2>1
  <2> DEFINE h == hist \o <<f, p>>
  <2>3. h \in Seq(Items) /\ Len(h) = n + 2
    BY <1>2, <2>2
  <2>4. \A j \in 1 .. n + 2 : h[j] = IF j <= n THEN hist[j] ELSE <<f, p>>[j - n]
    BY <1>2, <2>2
  <2>5. n + 1 \in 1 .. n + 2 /\ n + 2 \in 1 .. n + 2 /\ (n + 1) - n = 1 /\ (n + 2) - n = 2
        /\ ~ (n + 1 <= n) /\ ~ (n + 2 <= n)
    BY <1>2
  <2>6. \A j \in 1 .. n : j \in 1 .. n + 2 /\ j <= n
    BY <1>2
  <2> HIDE DEF h
  <2>7. h[n + 1] = f /\ h[n + 2] = p /\ \A j \in 1 .. n : h[j] = hist[j]
    BY <2>2, <2>4, <2>5, <2>6
  <2> QED
    BY <2>3, <2>7 DEF h, f
<1>6. CASE \E p \in Packets : /\ hist' = hist \o <<Mark("file"), p>>
                              /\ source' = "pp" /\ cur' = Len(hist) + 2 /\ UNCHANGED exit
  <2>1. PICK p \in Packets : /\ hist' = hist \o <<Mark("file"), p>>
                             /\ source' = "pp" /\ cur' = Len(hist) + 2 /\ UNCHANGED exit
    BY <1>6
  <2>2. p \in Items
    BY PacketFacts
  <2>3. /\ hist' \in Seq(Items) /\ Len(hist') = n + 2 /\ hist'[n + 1] = Mark("file") /\ hist'[n + 2] = p
        /\ \A j \in 1 .. n : hist'[j] = hist[j]
    BY <1>5, <2>1, <2>2
  <2>4. cur' = n + 2 /\ n + 2 \in Nat /\ n + 2 >= n + 1 /\ n + 2 # 0 /\ (n + 2) - 1 = n + 1
    BY <1>2, <2>1
  <2>5. Grows(hist, hist', n) /\ hist'[n + 1].tag = "file"
    BY <1>4, <2>3, <2>4
  <2>6. AtPacket(hist', cur', source')
    BY <2>1, <2>3, <2>4 DEF AtPacket
  <2>7. Parsed(hist', cur') = n + 1
    BY <2>4 DEF Parsed
  <2> QED
    BY <1>1, <1>2, <2>1, <2>3, <2>4, <2>5, <2>6, <2>7
<1>7. CASE Add(Mark("file")) /\ UNCHANGED <<source, cur, exit>>
  <2>1. /\ hist' \in Seq(Items) /\ Len(hist') = n + 1 /\ hist'[n + 1] = Mark("file")
        /\ \A j \in 1 .. n : hist'[j] = hist[j]
    BY <1>2, <1>3, <1>7, AppendFacts DEF Add
  <2>2. Grows(hist, hist', n) /\ hist'[n + 1].tag = "file"
    <3>1. Len(hist') \in Nat /\ Len(hist') >= n + 1
      BY <1>2, <2>1
    <3> QED
      BY <1>4, <2>1, <3>1
  <2>3. AtPacket(hist', cur', source') /\ Parsed(hist', cur') = n + 1
    BY <1>1, <1>7, <2>1 DEF AtPacket, Parsed
  <2> QED
    BY <1>1, <1>2, <1>7, <2>1, <2>2, <2>3
<1>8. CASE /\ hist' = hist \o <<Mark("file"), Mark("err")>>
           /\ exit' = "failed" /\ UNCHANGED <<source, cur>>
  <2>1. /\ hist' \in Seq(Items) /\ Len(hist') = n + 2 /\ hist'[n + 1] = Mark("file")
        /\ \A j \in 1 .. n : hist'[j] = hist[j]
    BY <1>3, <1>5, <1>8
  <2>2. Grows(hist, hist', n) /\ hist'[n + 1].tag = "file"
    <3>1. Len(hist') \in Nat /\ Len(hist') >= n + 1
      BY <1>2, <2>1
    <3> QED
      BY <1>4, <2>1, <3>1
  <2>3. AtPacket(hist', cur', source')
    BY <1>1, <1>8 DEF AtPacket
  <2> QED
    BY <1>1, <1>2, <1>8, <2>1, <2>2, <2>3
<1> QED
  BY <1>6, <1>7, <1>8 DEF OpenFile

LEMMA OpenFileTypeShape == ASSUME TypeOK, Shape, OpenFile PROVE TypeOK' /\ Shape'
<1>1. /\ packets = <<>> /\ ~queued
      /\ packets' = packets /\ queued' = queued /\ retry' = retry /\ files' = files + 1
      /\ UNCHANGED <<cmd, rejects, out, written, merged>>
      /\ Grows(hist, hist', Len(hist)) /\ AtPacket(hist', cur', source')
      /\ source' \in {"pp", "none"} /\ cur' \in Nat /\ exit' \in {"none", "failed"}
  BY OpenFileFacts
<1>2. hist' \in Seq(Items)
  BY <1>1 DEF Grows
<1>3. files' \in Nat
  BY <1>1 DEF TypeOK
<1>4. TypeOK'
  BY <1>1, <1>2, <1>3 DEF TypeOK
<1>5. Shape'
  BY <1>1 DEF Shape
<1> QED
  BY <1>4, <1>5

LEMMA CommandOpenFile ==
    ASSUME TypeOK, Shape, Commanded, OpenFile, exit' = "none" PROVE Commanded'
<1> DEFINE n == Len(hist)
<1>1. /\ n \in Nat /\ cur = 0 /\ packets = <<>> /\ ~queued
      /\ packets' = packets /\ queued' = queued
      /\ UNCHANGED <<cmd, rejects, written, merged>>
      /\ Grows(hist, hist', n) /\ Len(hist') \in {n + 1, n + 2}
      /\ hist'[n + 1].tag = "file" /\ Parsed(hist', cur') = n + 1
  BY OpenFileFacts
<1>2. Parsed(hist, cur) = n
  BY <1>1, ParsedFacts
<1>3. PICK b \in Int : b <= n + 1 /\ Handled(hist, b, n, rejects, cmd, written, merged) /\ b = n + 1
  BY <1>1, <1>2, CommandFacts
<1> HIDE DEF n
<1>4. n + 1 \in n .. Len(hist') /\ n + 1 \in Nat /\ (n + 1) + 1 \in Int /\ b <= (n + 1) + 1
  BY <1>1, <1>3
<1>5. Handled(hist', b, n + 1, rejects, cmd, written, merged)
  BY <1>1, <1>3, <1>4, HandledGrows
<1>6. \A j \in 1 .. n + 1 : b <= j /\ j < (n + 1) + 1 => j = n + 1
  BY <1>1, <1>3
<1>7. \A j \in 1 .. n + 1 : b <= j /\ j < (n + 1) + 1 => hist'[j].tag \notin Bad /\ hist'[j].tag # "key"
  BY <1>1, <1>6 DEF Bad
<1>8. Handled(hist', (n + 1) + 1, n + 1, rejects, cmd, written, merged)
  BY <1>4, <1>5, <1>7, HandledMore
<1>9. queued' = FALSE
  BY <1>1 DEF TypeOK
<1> QED
  BY <1>1, <1>8, <1>9, CommandedFrom

\* What the merge command writes.
LEMMA MergedWritten ==
    ASSUME merged \in [Fprs -> SUBSET Nat], NEW h, NEW T, T \subseteq Nat, IsFiniteSet(T),
           \A i \in T : h[i].fpr \in Fprs, Merged(h, merged, T)
    PROVE  /\ MergedSeq \in Seq([fpr : Fprs, of : SUBSET Nat])
           /\ Wrote(h, MergedSeq, T)
           /\ \A j, k \in DOMAIN MergedSeq : j < k => MergedSeq[j].fpr < MergedSeq[k].fpr
<1> DEFINE F == {f \in Fprs : merged[f] # {}}
           W == [fpr : Fprs, of : SUBSET Nat]
           s == [i \in T |-> h[i].fpr]
           a == Ascending(F)
           n == Cardinality(F)
           w == MergedSeq
<1>1. \A f \in Fprs : merged[f] = {i \in T : h[i].fpr = f}
  BY DEF Merged
<1>2. F \subseteq Nat /\ F \subseteq Fprs
  BY KeyringAssumption
<1>3. s \in Surjection(T, F)
  <2>1. ASSUME NEW i \in T PROVE h[i].fpr \in F
    <3>1. h[i].fpr \in Fprs /\ i \in {j \in T : h[j].fpr = h[i].fpr}
      OBVIOUS
    <3> QED
      BY <1>1, <3>1
  <2>2. ASSUME NEW f \in F PROVE \E i \in T : h[i].fpr = f
    BY <1>1
  <2> HIDE DEF F
  <2> QED
    BY <2>1, <2>2 DEF Surjection
<1>4. IsFiniteSet(F)
  BY <1>3, FS_Surjection
<1>5. Lists(a, n, F)
  BY <1>2, <1>4, AscendingLists
<1>6. w = [k \in DOMAIN a |-> [fpr |-> a[k], of |-> merged[a[k]]]]
  BY DEF MergedSeq
<1> HIDE DEF a, w, n
<1>7. n \in Nat /\ DOMAIN a = 1 .. n /\ \A k \in 1 .. n : a[k] \in F /\ a[k] \in Fprs
  BY <1>2, <1>5 DEF Lists
<1>8. DOMAIN w = 1 .. n /\ \A k \in 1 .. n : w[k] = [fpr |-> a[k], of |-> merged[a[k]]]
  BY <1>6, <1>7
<1>9. \A k \in 1 .. n : w[k].fpr = a[k] /\ w[k].of = merged[a[k]] /\ w[k] \in W
  BY <1>7, <1>8
<1>10. w \in Seq(W)
  <2> HIDE DEF W
  <2>1. w \in [1 .. n -> W]
    BY <1>6, <1>7, <1>9
  <2> QED
    BY <1>7, <2>1
<1>11. Wrote(h, w, T)
  <2>1. ASSUME NEW k \in DOMAIN w, NEW i \in w[k].of PROVE i \in T /\ h[i].fpr = w[k].fpr
    BY <1>1, <1>7, <1>8, <1>9
  <2>2. ASSUME NEW i \in T PROVE \E k \in DOMAIN w : i \in w[k].of
    <3> DEFINE f == h[i].fpr
    <3>1. f \in Fprs /\ i \in merged[f]
      BY <1>1
    <3>2. f \in F
      BY <3>1
    <3>3. PICK k \in 1 .. n : a[k] = f
      BY <1>5, <3>2 DEF Lists
    <3> QED
      BY <1>8, <1>9, <3>1, <3>3
  <2> QED
    BY <2>1, <2>2 DEF Wrote
<1>12. \A j, k \in DOMAIN w : j < k => w[j].fpr < w[k].fpr
  BY <1>5, <1>8, <1>9 DEF Lists
<1> QED
  BY <1>10, <1>11, <1>12 DEF w, W

\* A command that succeeds.
LEMMA CommandEndsComplete ==
    ASSUME TypeOK, Shape, Commanded, IsCommand, CommandEnds
    PROVE  TypeOK' /\ Shape' /\ OkIsComplete'
<1> DEFINE n == Len(hist)
           T == Wanted(hist, rejects, n + 1, n)
           W == [fpr : Fprs, of : SUBSET Nat]
<1>1. /\ source = "none" /\ ~queued /\ packets = <<>> /\ exit' = "ok"
      /\ written' = (IF cmd = "merge" THEN MergedSeq ELSE written)
      /\ UNCHANGED <<cmd, rejects, source, cur, retry, packets, queued, hist, out, merged, files>>
  BY DEF CommandEnds, AtEnd, Running
<1>2. Parsed(hist, cur) = n /\ n \in Nat /\ DOMAIN hist = 1 .. n
  BY <1>1, ParsedFacts
<1>3. PICK b \in Int : Handled(hist, b, n, rejects, cmd, written, merged) /\ b = n + 1
  BY <1>1, <1>2, CommandFacts
<1>4. Clean(hist, n + 1, n)
  BY <1>3 DEF Handled
<1>5. \A i \in 1 .. n : i < n + 1
  BY <1>2
<1>6. T = {i \in DOMAIN hist : hist[i].tag = "key" /\ hist[i].fpr \notin rejects}
  BY <1>2, <1>5 DEF Wanted
<1>7. \A i \in DOMAIN hist : hist[i].tag \notin Bad
  BY <1>2, <1>4, <1>5 DEF Clean
<1>8. T \subseteq 1 .. n /\ T \subseteq Nat /\ IsFiniteSet(T)
  <2>1. T \subseteq 1 .. n
    BY <1>2, <1>6
  <2>2. 1 \in Int /\ n \in Int /\ 1 .. n \subseteq Nat
    BY <1>2
  <2> HIDE DEF T
  <2>3. IsFiniteSet(1 .. n)
    BY <2>2, FS_Interval
  <2> QED
    BY <2>1, <2>2, <2>3, FS_Subset
<1>9. \A i \in T : hist[i].fpr \in Fprs
  <2>1. ASSUME NEW i \in T PROVE hist[i] \in Items /\ hist[i].tag = "key"
    <3>1. i \in DOMAIN hist /\ hist[i].tag = "key"
      BY <1>6, <2>1
    <3>2. hist \in Seq(Items)
      BY DEF TypeOK
    <3> QED
      BY <3>1, <3>2
  <2> HIDE DEF T
  <2> QED
    BY <2>1, KeyItem
<1>10. merged \in [Fprs -> SUBSET Nat] /\ written \in Seq(W)
  BY DEF TypeOK
<1>11. /\ written' \in Seq(W) /\ Wrote(hist, written', T)
       /\ cmd = "merge" => \A j, k \in DOMAIN written' : j < k => written'[j].fpr < written'[k].fpr
  <2>1. CASE cmd = "filter"
    <3>1. Wrote(hist, written, T)
      BY <1>3, <2>1 DEF Handled
    <3> HIDE DEF T, W
    <3> QED
      BY <1>1, <1>10, <2>1, <3>1
  <2>2. CASE cmd = "merge"
    <3>1. Merged(hist, merged, T)
      BY <1>3, <2>2 DEF Handled
    <3> HIDE DEF T
    <3>2. /\ MergedSeq \in Seq(W) /\ Wrote(hist, MergedSeq, T)
          /\ \A j, k \in DOMAIN MergedSeq : j < k => MergedSeq[j].fpr < MergedSeq[k].fpr
      BY <1>8, <1>9, <1>10, <3>1, MergedWritten
    <3> HIDE DEF W
    <3> QED
      BY <1>1, <2>2, <3>2
  <2> QED
    BY <2>1, <2>2 DEF IsCommand
<1>12. TypeOK'
  <2>1. exit' \in {"none", "ok", "failed"}
    BY <1>1
  <2>2. written' \in Seq([fpr : Fprs, of : SUBSET Nat])
    BY <1>11
  <2> QED
    BY <1>1, <2>1, <2>2 DEF TypeOK
<1>13. Shape'
  BY <1>1 DEF Shape
<1>14. OkIsComplete'
  <2> HIDE DEF T, W, n
  <2>1. UNION {written'[k].of : k \in DOMAIN written'} = T
    BY <1>11 DEF Wrote
  <2>2. \A k \in DOMAIN written' : \A i \in written'[k].of : hist[i].fpr = written'[k].fpr
    BY <1>11 DEF Wrote
  <2> QED
    BY <1>1, <1>6, <1>7, <1>11, <2>1, <2>2 DEF OkIsComplete, Positions, Tag, Bad
<1> QED
  BY <1>12, <1>13, <1>14
-----------------------------------------------------------------------------
(* The invariant holds. *)

\* The caller changes nothing but by what it does with an answer, which is not None.
Answers ==
    /\ cmd' = cmd /\ rejects' = rejects /\ exit' \in {exit, "failed"}
    /\ out' = out \/ \E r \in Results : r # None /\ out' = Append(out, r)

LEMMA LoopAnswers == ASSUME Loop PROVE Answers
  BY DEF Loop, Answers

LEMMA ErrAnswers == ASSUME NEW i \in Nat, ReturnsErr(i) PROVE Answers
<1>1. Err(i) \in Results /\ Err(i) # None
  <2>1. Err(i).res # None.res
    BY DEF Err, None
  <2> QED
    BY <2>1, ErrResult
<1> QED
  BY <1>1 DEF ReturnsErr, Answers

LEMMA CertAnswers == ASSUME NEW ps \in Seq(Nat), ReturnsCert(ps) PROVE Answers
<1>1. CertOf(ps) \in Results /\ CertOf(ps) # None
  <2>1. CertOf(ps).res # None.res
    BY DEF CertOf, None
  <2> QED
    BY <2>1, CertResult
<1> QED
  BY <1>1 DEF ReturnsCert, Answers

LEMMA DeliversAnswers == ASSUME TypeOK, Shape, packets # <<>>, Delivers PROVE Answers
  BY PacketsFacts, LoopAnswers, ErrAnswers, CertAnswers DEF Delivers

LEMMA ParseAnswers ==
    ASSUME TypeOK, Shape, NEW i, NEW n, NEW n2, ParseForm(i, n, n2) PROVE Answers
<1>1. Parse(i, hist'[i].tag)
  BY DEF ParseForm
<1> QED
  BY <1>1, ParseCases, DeliversAnswers, LoopAnswers DEF Finishes

LEMMA ErrorAnswers ==
    ASSUME TypeOK, Shape, NEW x, NEW n, ErrorForm(x, n) PROVE Answers
<1>1. SourceError(Len(hist) + 1) /\ Len(hist) + 1 \in Nat
  BY DEF ErrorForm, TypeOK
<1>2. packets # <<>> => packets[1] \in Nat /\ packets \in Seq(Nat)
  BY PacketsFacts
<1> QED
  BY <1>1, <1>2, ErrorCases, ErrAnswers, CertAnswers

LEMMA EndAnswers ==
    ASSUME TypeOK, Shape, NEW x, NEW n, EndForm(x, n) PROVE Answers
<1>1. SourceEnd
  BY DEF EndForm
<1> QED
  BY <1>1, EndCases, LoopAnswers, DeliversAnswers

LEMMA AnswersQuiet == ASSUME TypeOK, Quiet, Answers PROVE Quiet'
<1>1. CASE out' = out
  BY <1>1 DEF Quiet
<1>2. CASE \E r \in Results : r # None /\ out' = Append(out, r)
  <2>1. PICK r \in Results : r # None /\ out' = Append(out, r)
    BY <1>2
  <2>2. out \in Seq(Results)
    BY DEF TypeOK
  <2>3. \A k \in DOMAIN Append(out, r) :
           (k \in DOMAIN out /\ Append(out, r)[k] = out[k]) \/ Append(out, r)[k] = r
    BY <2>2
  <2> QED
    BY <2>1, <2>3 DEF Quiet
<1> QED
  BY <1>1, <1>2 DEF Answers

\* Inv after a step that answers, from the parts that need a proof of their own.
LEMMA InvAnswers ==
    ASSUME Inv, exit = "none", Answers, TypeOK', Shape', cmd = "collect" => Collected',
           IsCommand /\ exit' = "none" /\ ~queued' => Commanded'
    PROVE  Inv'
<1>1. cmd' = cmd /\ rejects' = rejects /\ exit' \in {"none", "failed"}
  BY DEF Answers
<1>2. cmd # "collect" => Quiet'
  BY AnswersQuiet DEF Inv
<1>3. cmd # "collect" => IsCommand
  BY KeyringAssumption DEF Inv, TypeOK, IsCommand
<1>4. OkIsComplete'
  BY <1>1 DEF OkIsComplete
<1> QED
  BY <1>1, <1>2, <1>3, <1>4 DEF Inv

LEMMA InvParse == ASSUME Inv, PullPacket \/ PullLast \/ PullItem PROVE Inv'
<1>0. TypeOK /\ Shape
  BY DEF Inv
<1>1. \E i, n, n2 : ParseForm(i, n, n2)
  BY <1>0, PullPacketForm, PullLastForm, PullItemForm
<1>2. PICK i, n, n2 : ParseForm(i, n, n2)
  BY <1>1
<1>3. exit = "none" /\ ~queued
  BY <1>0, <1>2 DEF ParseForm, Shape
<1>4. Answers /\ TypeOK' /\ Shape'
  BY <1>0, <1>2, ParseAnswers, ParseTypeOK, ParseShape
<1>5. cmd = "collect" => Collected'
  BY <1>0, <1>2, CollectParse DEF Inv
<1>6. IsCommand /\ exit' = "none" => Commanded'
  <2>1. IsCommand => Commanded
    BY <1>3 DEF Inv, IsCommand
  <2> QED
    BY <1>0, <1>2, <2>1, CommandParse
<1> QED
  BY <1>3, <1>4, <1>5, <1>6, InvAnswers

LEMMA InvError == ASSUME Inv, PullError \/ BadNextBlob \/ PullItemError PROVE Inv'
<1>0. TypeOK /\ Shape
  BY DEF Inv
<1>1. PICK x : ErrorForm(x, Parsed(hist, cur))
  BY <1>0, ErrorForms
<1>2. exit = "none"
  BY <1>1 DEF ErrorForm
<1>3. Answers /\ TypeOK' /\ Shape'
  BY <1>0, <1>1, ErrorAnswers, ErrorTypeShape
<1>4. cmd = "collect" => Collected'
  BY <1>0, <1>1, CollectError DEF Inv
<1>5. IsCommand => ~ (exit' = "none" /\ ~queued')
  BY <1>0, <1>1, CommandError
<1> QED
  BY <1>2, <1>3, <1>4, <1>5, InvAnswers

LEMMA InvEnd == ASSUME Inv, NoNextBlob \/ PullItemEnd PROVE Inv'
<1>0. TypeOK /\ Shape
  BY DEF Inv
<1>1. PICK x : EndForm(x, Parsed(hist, cur))
  BY <1>0, EndForms
<1>2. exit = "none" /\ ~queued
  BY <1>0, <1>1 DEF EndForm, Shape
<1>3. Answers /\ TypeOK' /\ Shape'
  BY <1>0, <1>1, EndAnswers, EndTypeShape
<1>4. cmd = "collect" => Collected'
  BY <1>0, <1>1, CollectEnd DEF Inv
<1>5. IsCommand /\ exit' = "none" => Commanded'
  <2>1. IsCommand => Commanded
    BY <1>2 DEF Inv, IsCommand
  <2> QED
    BY <1>0, <1>1, <2>1, CommandEnd
<1> QED
  BY <1>2, <1>3, <1>4, <1>5, InvAnswers

LEMMA InvNextBlob == ASSUME Inv, NextBlob PROVE Inv'
<1>0. TypeOK /\ Shape
  BY DEF Inv
<1>1. exit = "none" /\ ~queued /\ Answers
  BY <1>0, LoopAnswers DEF NextBlob, Running, Shape
<1>2. IsCommand => Commanded
  BY <1>1 DEF Inv, IsCommand
<1>3. TypeOK' /\ Shape'
  BY <1>0, NextBlobTypeShape
<1>4. cmd = "collect" => Collected'
  BY <1>0, CollectNextBlob DEF Inv
<1>5. IsCommand => Commanded'
  BY <1>0, <1>2, CommandNextBlob
<1> QED
  BY <1>1, <1>3, <1>4, <1>5, InvAnswers

LEMMA InvQueued == ASSUME Inv, ReturnQueued PROVE Inv'
<1>0. TypeOK /\ Shape
  BY DEF Inv
<1>1. exit = "none" /\ ReturnsErr(Len(hist)) /\ Len(hist) \in Nat
  BY <1>0, ReturnErr DEF ReturnQueued, Running, TypeOK
<1>2. Answers
  BY <1>1, ErrAnswers
<1>3. IsCommand => exit' = "failed"
  BY <1>1 DEF IsCommand, ReturnsErr
<1>4. TypeOK' /\ Shape'
  BY <1>0, QueuedTypeShape
<1>5. cmd = "collect" => Collected'
  BY <1>0, CollectQueued DEF Inv
<1> QED
  BY <1>1, <1>2, <1>3, <1>4, <1>5, InvAnswers

LEMMA InvCollectEnds == ASSUME Inv, CollectEnds PROVE Inv'
<1>0. TypeOK /\ Shape /\ cmd = "collect" /\ cmd' = cmd
  BY DEF Inv, CollectEnds
<1>1. TypeOK' /\ Shape'
  BY <1>0, CollectEndsTypeShape
<1>2. Collected'
  BY <1>0, CollectNone DEF Inv
<1> QED
  BY <1>0, <1>1, <1>2 DEF Inv, OkIsComplete

LEMMA InvOpenFile == ASSUME Inv, OpenFile PROVE Inv'
<1>0. TypeOK /\ Shape
  BY DEF Inv
<1>1. /\ exit = "none" /\ ~queued /\ cmd # "collect" /\ out' = out
      /\ cmd' = cmd /\ rejects' = rejects /\ exit' \in {"none", "failed"}
  BY <1>0, OpenFileFacts DEF OpenFile
<1>2. Answers
  BY <1>1 DEF Answers
<1>3. TypeOK' /\ Shape'
  BY <1>0, OpenFileTypeShape
<1>4. exit' = "none" => Commanded'
  BY <1>0, <1>1, CommandOpenFile DEF Inv
<1> QED
  BY <1>1, <1>2, <1>3, <1>4, InvAnswers

LEMMA InvCommandEnds == ASSUME Inv, CommandEnds PROVE Inv'
<1>0. TypeOK /\ Shape
  BY DEF Inv
<1>1. /\ exit = "none" /\ ~queued /\ cmd # "collect" /\ out' = out
      /\ cmd' = cmd /\ rejects' = rejects /\ exit' = "ok"
  BY DEF CommandEnds, AtEnd, Running
<1>2. IsCommand
  BY <1>0, <1>1, KeyringAssumption DEF Inv, TypeOK, IsCommand
<1>3. TypeOK' /\ Shape' /\ OkIsComplete'
  BY <1>0, <1>1, <1>2, CommandEndsComplete DEF Inv
<1>4. Quiet'
  BY <1>1 DEF Inv, Quiet
<1> QED
  BY <1>1, <1>3, <1>4 DEF Inv

LEMMA InvStutters == ASSUME Inv, UNCHANGED vars PROVE Inv'
<1>1. TypeOK' /\ Shape'
  BY DEF Inv, TypeOK, Shape, vars
<1>2. Collected <=> Collected'
  BY DEF Collected, Settled, vars
<1>3. Commanded <=> Commanded'
  BY DEF Commanded, vars
<1>4. OkIsComplete' /\ (Quiet <=> Quiet')
  BY DEF Inv, OkIsComplete, Positions, Tag, Quiet, vars
<1> QED
  BY <1>1, <1>2, <1>3, <1>4 DEF Inv, vars
LEMMA InvInit == Init => Inv
<1> SUFFICES ASSUME Init PROVE Inv
  OBVIOUS
<1>1. /\ cmd \in Commands /\ rejects \subseteq Fprs /\ (cmd = "merge" => rejects = {})
      /\ retry = FALSE /\ packets = <<>> /\ queued = FALSE /\ out = <<>> /\ written = <<>>
      /\ merged = [f \in Fprs |-> {}] /\ files = 0 /\ exit = "none"
  BY DEF Init
<1>2. \/ source \in {"iter", "none"} /\ hist = <<>> /\ cur = 0
      \/ cmd = "collect" /\ source = "pp" /\ cur = 1 /\ \E p \in Packets : hist = <<p>>
  BY DEF Init
<1>3. /\ source \in {"pp", "iter", "none"} /\ cur \in Nat /\ hist \in Seq(Items)
      /\ Parsed(hist, cur) = 0 /\ AtPacket(hist, cur, source)
      /\ \A j \in DOMAIN hist : hist[j].tag \in PacketTags
  <2>1. CASE source \in {"iter", "none"} /\ hist = <<>> /\ cur = 0
    BY <2>1 DEF Parsed, AtPacket
  <2>2. CASE source = "pp" /\ cur = 1 /\ \E p \in Packets : hist = <<p>>
    <3>1. PICK p \in Packets : hist = <<p>>
      BY <2>2
    <3>2. p \in Items /\ p.tag \in PacketTags
      BY PacketFacts
    <3>3. <<p>> \in Seq(Items) /\ Len(<<p>>) = 1 /\ DOMAIN <<p>> = 1 .. 1 /\ <<p>>[1] = p
      BY <3>2
    <3>4. \A j \in 1 .. 1 : j = 1
      OBVIOUS
    <3>5. \A j \in DOMAIN hist : hist[j].tag \in PacketTags
      BY <3>1, <3>2, <3>3, <3>4
    <3> QED
      BY <2>2, <3>1, <3>3, <3>5 DEF Parsed, AtPacket
  <2> QED
    BY <1>2, <2>1, <2>2
<1>4. TypeOK
  <2>1. <<>> \in Seq([fpr : Fprs, of : SUBSET Nat]) /\ <<>> \in Seq(Results) /\ <<>> \in Seq(Nat)
    OBVIOUS
  <2> QED
    BY <1>1, <1>3, <2>1 DEF TypeOK
<1>5. Shape
  BY <1>1, <1>3 DEF Shape
<1>6. Bound(hist, cur, packets, queued) = 1
  BY <1>1, <1>3 DEF Bound
<1>7. cmd = "collect" => Collected
  <2>1. Len(out) = 0 /\ 0 \in 0 .. Len(out)
    BY <1>1
  <2>2. Settled(1, 0, 0)
    BY <2>1 DEF Settled, Listed
  <2> QED
    BY <1>1, <1>3, <1>6, <2>1, <2>2 DEF Collected
<1>8. Commanded
  <2>1. Wanted(hist, rejects, 1, 0) = {} /\ Clean(hist, 1, 0)
    BY DEF Wanted, Clean
  <2>2. Wrote(hist, written, {}) /\ Merged(hist, merged, {})
    BY <1>1 DEF Wrote, Merged
  <2> QED
    BY <1>3, <1>6, <2>1, <2>2 DEF Commanded, Handled
<1>9. Quiet /\ OkIsComplete
  BY <1>1 DEF Quiet, OkIsComplete
<1> QED
  BY <1>1, <1>4, <1>5, <1>7, <1>8, <1>9 DEF Inv

LEMMA InvNext == Inv /\ [Next]_vars => Inv'
<1> SUFFICES ASSUME Inv, [Next]_vars PROVE Inv'
  OBVIOUS
<1>1. CASE PullPacket \/ PullLast \/ PullItem
  BY <1>1, InvParse
<1>2. CASE PullError \/ BadNextBlob \/ PullItemError
  BY <1>2, InvError
<1>3. CASE NoNextBlob \/ PullItemEnd
  BY <1>3, InvEnd
<1>4. CASE NextBlob
  BY <1>4, InvNextBlob
<1>5. CASE ReturnQueued
  BY <1>5, InvQueued
<1>6. CASE CollectEnds
  BY <1>6, InvCollectEnds
<1>7. CASE OpenFile
  BY <1>7, InvOpenFile
<1>8. CASE CommandEnds
  BY <1>8, InvCommandEnds
<1>9. CASE Exited \/ UNCHANGED vars
  BY <1>9, InvStutters DEF Exited
<1> QED
  BY <1>1, <1>2, <1>3, <1>4, <1>5, <1>6, <1>7, <1>8, <1>9 DEF Next, FromParser, FromIter

\* The parser keeps to the inductive invariant, whoever drives it: what is buffered
\* is one certificate or one packet that starts none (Buffered), the results so far
\* are the ones expected for the input before the buffer, in its order (Collected),
\* and a command that still runs has met no error and has written or merged exactly
\* what it wants of that input (Commanded).
THEOREM InvHolds == Spec => []Inv
<1>1. Init => Inv
  BY InvInit
<1>2. Inv /\ [Next]_vars => Inv'
  BY InvNext
<1> QED
  BY <1>1, <1>2, PTL DEF Spec

\* A command of `sq keyring` that succeeds has written every certificate of every
\* input that its filter wants, and merge each fingerprint once and in order, for
\* inputs, files and fingerprints without bound.
THEOREM OkIsCompleteHolds == Spec => []OkIsComplete
<1>1. Inv => OkIsComplete
  BY DEF Inv
<1> QED
  BY <1>1, InvHolds, PTL

-----------------------------------------------------------------------------
(* What next() has returned when it returns None. *)

LEMMA SameReference ==
    /\ \A s, i : Belongs(s, i) <=> BelongsIn(hist, s, i)
    /\ \A i : Expected(i) <=> ExpectedIn(hist, rejects, i)
<1>1. \A i : (Lost(i) <=> LostIn(hist, i)) /\ (Breaks(i) <=> BreaksIn(hist, i))
  BY DEF Lost, LostIn, Breaks, BreaksIn, Positions, Tag
<1>2. \A s, i : Belongs(s, i) <=> BelongsIn(hist, s, i)
  BY <1>1 DEF Belongs, BelongsIn, valid_start, Tag
<1>3. \A i : Stray(i) <=> StrayIn(hist, i)
  BY <1>1, <1>2 DEF Stray, StrayIn, Positions, Tag
<1>4. \A i : Hidden(i) <=> HiddenIn(hist, i)
  BY <1>1, <1>2, <1>3 DEF Hidden, HiddenIn, Tag
<1> QED
  BY <1>1, <1>2, <1>3, <1>4 DEF Expected, ExpectedIn, Tag

LEMMA ListedIsReference ==
    ASSUME hist \in Seq(Items), out \in Seq(Results), NEW n, n = Len(hist), NEW m,
           Listed(hist, rejects, n, n + 1, out, m)
    PROVE  SubSeq(out, 1, m) = Reference
<1> DEFINE E == {i \in Positions : Expected(i)}
           c == Cardinality(E)
           at == Ascending(E)
           a == [k \in 1 .. m |-> out[k].of[1]]
           Pack(s) == {s} \cup {i \in Positions : Belongs(s, i)}
<1>1. /\ n \in Nat /\ Positions = 1 .. n /\ 1 .. n \subseteq Nat /\ m \in Nat /\ m <= Len(out)
      /\ Len(out) \in Nat /\ m \in 0 .. Len(out)
  BY DEF Listed, Positions
<1>2. \A S \in SUBSET (1 .. n) : S \subseteq Nat /\ IsFiniteSet(S)
  <2>1. IsFiniteSet(1 .. n)
    BY <1>1, FS_Interval
  <2> QED
    BY <1>1, <2>1, FS_Subset
<1>3. E \in SUBSET (1 .. n) /\ \A s \in 1 .. n : Pack(s) \in SUBSET (1 .. n)
  BY <1>1
<1>4. Lists(at, c, E)
  BY <1>2, <1>3, AscendingLists
<1>5. \A k \in 1 .. m : Right(hist, rejects, n, n + 1, out[k])
  BY DEF Listed
<1>6. \A k \in 1 .. m : a[k] = out[k].of[1] /\ a[k] \in 1 .. n /\ a[k] \in E
  <2>1. \A k \in 1 .. m : out[k].of[1] \in 1 .. n /\ ExpectedIn(hist, rejects, out[k].of[1])
    BY <1>5 DEF Right
  <2> QED
    BY <1>1, <2>1, SameReference
<1>7. Lists(a, m, E)
  <2>1. a \in [1 .. m -> E]
    BY <1>6
  <2>2. \A j, k \in 1 .. m : j < k => a[j] < a[k]
    BY DEF Listed
  <2>3. ASSUME NEW i \in E PROVE \E k \in 1 .. m : a[k] = i
    <3>1. i \in 1 .. n /\ ExpectedIn(hist, rejects, i)
      BY <1>1, SameReference
    <3>2. i < n + 1
      BY <1>1, <3>1
    <3>3. PICK k \in 1 .. m : out[k].of[1] = i
      BY <3>1, <3>2 DEF Listed
    <3> QED
      BY <3>3
  <2>4. E \subseteq Nat
    BY <1>1
  <2> HIDE DEF a, E
  <2> QED
    BY <1>1, <2>1, <2>2, <2>3, <2>4 DEF Lists
<1> HIDE DEF c, at
<1>8. m = c /\ a = at
  <2> HIDE DEF a, E
  <2> QED
    BY <1>4, <1>7, ListsOnce
<1>9. DOMAIN at = 1 .. m
  BY <1>8
<1>10. Reference = [k \in DOMAIN at |-> IF Tag(at[k]) = "key" THEN CertOf(Ascending(Pack(at[k])))
                                        ELSE Err(at[k])]
  BY DEF Reference, at
<1> HIDE DEF a, E
<1>11. ASSUME NEW k \in 1 .. m
       PROVE  out[k] = IF Tag(at[k]) = "key" THEN CertOf(Ascending(Pack(at[k]))) ELSE Err(at[k])
  <2> DEFINE r == out[k]
             s == at[k]
  <2>1. r.of[1] = s /\ s \in 1 .. n
    BY <1>6, <1>8
  <2>2. CASE Tag(s) = "key"
    <3>1. r = CertOf(r.of) /\ Whole(hist, n, r.of)
      BY <1>5, <2>1, <2>2 DEF Right, Tag
    <3>2. {r.of[1]} \cup {j \in 1 .. n : BelongsIn(hist, r.of[1], j)} = Pack(s)
      BY <1>1, <2>1, SameReference
    <3>3. Lists(r.of, Len(r.of), Pack(s))
      BY <3>1, <3>2 DEF Whole
    <3>4. Lists(Ascending(Pack(s)), Cardinality(Pack(s)), Pack(s))
      BY <1>2, <1>3, <2>1, AscendingLists
    <3>5. r.of = Ascending(Pack(s))
      <4> HIDE DEF Pack
      <4> QED
        BY <3>3, <3>4, ListsOnce
    <3> HIDE DEF r, s, Pack
    <3>6. r = CertOf(Ascending(Pack(s)))
      BY <3>1, <3>5
    <3> QED
      BY <2>2, <3>6 DEF r, s
  <2>3. CASE Tag(s) # "key"
    <3>1. r = Err(s)
      BY <1>5, <2>1, <2>3 DEF Right, Tag
    <3> QED
      BY <2>3, <3>1
  <2> QED
    BY <2>2, <2>3
<1> DEFINE q == SubSeq(out, 1, m)
<1>12. q \in Seq(Results) /\ Len(q) = m /\ \A k \in 1 .. m : q[k] = out[k]
  BY <1>1
<1>13. q = [k \in 1 .. m |-> q[k]]
  <2> HIDE DEF q
  <2> QED
    BY <1>1, <1>12
<1> HIDE DEF Pack, q
<1>14. q = Reference
  BY <1>9, <1>10, <1>11, <1>12, <1>13
<1> QED
  BY <1>14 DEF q

\* Whether the input holds more is of interest only behind an error.
Left ==
    cmd = "collect" /\ unread # 0 =>
        source = "none" /\ hist # <<>> /\ hist[Len(hist)].tag \in {"cut", "err"}

LEMMA LeftNext == ASSUME Inv, Left, [Next]_vars PROVE Left'
<1>1. TypeOK /\ Shape
  BY DEF Inv
<1>0. Deliver => cmd' = cmd
  BY DEF Deliver, Outcome, Return, Loop, CertOf, Err
<1>2. CASE PullPacket \/ PullLast \/ PullItem
  <2>1. source # "none" /\ \E i, t : Parse(i, t)
    BY <1>2 DEF PullPacket, PullLast, PullItem, Running
  <2>2. unread' = unread /\ cmd' = cmd
    BY <1>0, <2>1 DEF Parse, Loop
  <2> QED
    BY <2>1, <2>2 DEF Left
<1>3. CASE PullError \/ BadNextBlob \/ PullItemError
  <2>1. PICK x : ErrorForm(x, Parsed(hist, cur))
    BY <1>1, <1>3, ErrorForms
  <2>2. x.tag \in {"cut", "err"} /\ hist' = Append(hist, x) /\ source' = "none" /\ x \in Items
    BY <2>1 DEF ErrorForm, SourceError
  <2>3. Len(hist') = Len(hist) + 1 /\ hist'[Len(hist) + 1] = x /\ Len(hist) \in Nat
    BY <1>1, <2>2, AppendFacts DEF TypeOK
  <2>4. hist' # <<>> /\ hist'[Len(hist')] = x
    BY <2>3
  <2> QED
    BY <2>2, <2>4 DEF Left
<1>4. CASE NoNextBlob \/ PullItemEnd
  <2>1. unread' = unread /\ source # "none" /\ cmd' = cmd
    BY <1>0, <1>4 DEF NoNextBlob, PullItemEnd, SourceEnd, Running, Loop
  <2> QED
    BY <2>1 DEF Left
<1>5. CASE NextBlob
  BY <1>5 DEF NextBlob, Running, Loop, Left
<1>6. CASE ReturnQueued
  BY <1>6 DEF ReturnQueued, Return, Left
<1>7. CASE CollectEnds
  BY <1>7 DEF CollectEnds, Left
<1>8. CASE OpenFile
  BY <1>8 DEF OpenFile, Left
<1>9. CASE CommandEnds
  BY <1>9 DEF CommandEnds, Left
<1>10. CASE Exited \/ UNCHANGED vars
  BY <1>10 DEF Exited, vars, Left
<1> QED
  BY <1>2, <1>3, <1>4, <1>5, <1>6, <1>7, <1>8, <1>9, <1>10 DEF Next, FromParser, FromIter

LEMMA InvMatches == ASSUME Inv, Left PROVE MatchesInput
<1>0. ASSUME NEW k \in DOMAIN out, out[k] = None
      PROVE  unread # 0 => hist # <<>> /\ Tag(Len(hist)) \in {"cut", "err"}
  BY <1>0 DEF Inv, Quiet, Left, Tag
<1> SUFFICES ASSUME NEW k \in DOMAIN out, out[k] = None
             PROVE  \E n \in 0 .. k - 1 : /\ SubSeq(out, 1, n) = Reference
                                          /\ \A j \in n + 1 .. Len(out) : out[j] = None
  BY <1>0 DEF MatchesInput
<1>1. TypeOK /\ Shape /\ Collected
  BY DEF Inv, Quiet
<1>2. out \in Seq(Results) /\ Len(out) \in Nat /\ k \in 1 .. Len(out) /\ hist \in Seq(Items)
  BY <1>1 DEF TypeOK
<1>3. PICK m \in 0 .. Len(out) : Settled(Bound(hist, cur, packets, queued), Parsed(hist, cur), m)
  BY <1>1 DEF Collected
<1>4. k \notin 1 .. m
  <2>1. SUFFICES ASSUME k \in 1 .. m PROVE FALSE
    OBVIOUS
  <2>2. out[k].of # <<>>
    BY <1>3, <2>1 DEF Settled, Listed, Right
  <2> QED
    BY <2>2 DEF None
<1>5. m \in 0 .. k - 1 /\ m < Len(out)
  BY <1>2, <1>4
<1>6. source = "none" /\ queued = FALSE
  BY <1>1, <1>3, <1>5 DEF Settled, TypeOK
<1>7. packets = <<>> /\ cur = 0
  BY <1>1, <1>6 DEF Shape, AtPacket
<1>8. Parsed(hist, cur) = Len(hist) /\ Bound(hist, cur, packets, queued) = Len(hist) + 1
  BY <1>6, <1>7 DEF Parsed, Bound
<1>9. Listed(hist, rejects, Len(hist), Len(hist) + 1, out, m)
  BY <1>3, <1>8 DEF Settled
<1>10. SubSeq(out, 1, m) = Reference
  BY <1>2, <1>9, ListedIsReference
<1>11. \A j \in m + 1 .. Len(out) : out[j] = None
  BY <1>3 DEF Settled
<1> QED
  BY <1>5, <1>10, <1>11

\* When next() returns None it has returned exactly what the reference expects of
\* what was read, in its order, and None is final: CertParser makes up no packet,
\* loses an error of its source if and only if it is Hidden, and leaves input
\* unread only behind such an error, for an input of any length.
THEOREM MatchesInputHolds == Spec => []MatchesInput
<1>1. Init => Left
  BY DEF Init, Left
<1>2. Inv /\ Left /\ [Next]_vars => Left'
  BY LeftNext
<1>3. Inv /\ Left => MatchesInput
  BY InvMatches
<1> QED
  BY <1>1, <1>2, <1>3, InvHolds, PTL DEF Spec
=============================================================================
