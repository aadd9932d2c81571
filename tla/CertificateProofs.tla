-------------------------- MODULE CertificateProofs --------------------------
(***************************************************************************)
(* Proofs about Certificate, for any components, any table of signatures,  *)
(* any packet sequences on the network or from programs, and any number of *)
(* parties.                                                                *)
(*                                                                         *)
(* The invariant says what a copy looks like that canonicalize has left:   *)
(* every signature is settled, none is there twice, and of what the party  *)
(* was given nothing is lost but what merging drops.                       *)
(***************************************************************************)
EXTENDS Certificate, WellFoundedInduction, TLAPS

Own == {"self_signatures", "self_revocations", "attestations"}
Fields == Own \cup {"certifications", "other_revocations"}
Placed == [comp : Components, field : Fields, id : Ids, tagged : BOOLEAN]
Copies == [comps : SUBSET Components, secret : SUBSET Components,
           bad : SUBSET Entries, sigs : SUBSET Placed]

\* Whether q stands where canonicalize leaves it, on a component that is
\* known and on one that is not.
SettledKnown(q) ==
    /\ Stays(q)
    /\ q.field = "attestations" => Verifies(q.id, q.comp, "AttestationKey")
    /\ q.field \in Own => q.tagged
    /\ q.field \notin Own => q.field = split_sigs(q)
SettledUnknown(q, comps) == Homes(q, comps) = {} /\ q.field = split_sigs(q)

Settled(c) ==
    /\ Primary \in c.comps
    /\ \A q \in c.sigs : /\ q.comp \in c.comps
                         /\ Known(q.comp) => SettledKnown(q)
                         /\ ~Known(q.comp) => SettledUnknown(q, c.comps)
    /\ \A b \in c.bad : Homes(b, c.comps) = {}

\* No signature is there twice, except on several components or in vectors
\* of different kinds.
SingleSigs(S) ==
    \A q, r \in S : q.id = r.id /\ q.comp = r.comp /\ (q.field = r.field \/ ~Known(q.comp))
                       => q = r
SingleIds(S) == \A a, b \in S : a.id = b.id => a = b
Single(c) == SingleSigs(c.sigs) /\ SingleIds(c.bad)

\* A signature of the holder that came with its issuers and cannot be taken
\* for one over another component.
GenuineId(i) == Sig[i].looks = {Sig[i].on} /\ Sig[i].valid /\ Known(Sig[i].on)
Genuine(e)   == e.tagged /\ GenuineId(e.id)

\* A copy of such a signature that will be found when its component arrives.
Findable(c, i) ==
    \/ i \in IdsOf(c.bad)
    \/ \E q \in c.sigs : q.id = i /\ (Known(q.comp) => q.field \in Own)

\* What the party was given, as a set of entries, is in the copy.
Remembers(c, given) ==
    /\ \A e \in given : e.id \in IdsOf(c.sigs) \cup IdsOf(c.bad)
    /\ \A q \in c.sigs \cup c.bad : ~q.tagged => [id |-> q.id, tagged |-> FALSE] \in given
    /\ \A e \in given : Genuine(e) => Findable(c, e.id)

Inv ==
    /\ cert \in [Parties -> {NoCert} \cup Copies]
    /\ known \in [Parties -> SUBSET Entries]
    /\ dropped \in [Parties -> SUBSET Entries]
    /\ \A p \in Parties : cert[p] # NoCert =>
         Settled(cert[p]) /\ Single(cert[p]) /\ Remembers(cert[p], Due(p))
-----------------------------------------------------------------------------
(***************************************************************************)
(* Signatures and where they belong.                                       *)
(***************************************************************************)
LEMMA SigFacts ==
    ASSUME NEW i \in Ids
    PROVE  /\ Sig[i].typ \in Types /\ Sig[i].on \in Components /\ Sig[i].valid \in BOOLEAN
           /\ Sig[i].claims \in {"self", "other"} /\ Sig[i].looks \subseteq Components
           /\ Sig[i].time \in Nat /\ Sig[i].expires \in Nat
           /\ \A b \in Sig[i].backs : b.time \in Nat /\ b.expires \in Nat
           /\ Known(Sig[i].on) => Kind[Sig[i].on] \in KindsFor(Sig[i].typ)
           /\ Sig[i].valid => Sig[i].claims = "self"
<1>1. Sig[i] \in Signatures
  BY CertificateAssumption
<1>2. /\ Known(Sig[i].on) => Kind[Sig[i].on] \in KindsFor(Sig[i].typ)
      /\ Sig[i].valid => Sig[i].claims = "self"
  BY CertificateAssumption
<1>3. /\ Sig[i].typ \in Types /\ Sig[i].on \in Components /\ Sig[i].valid \in BOOLEAN
      /\ Sig[i].claims \in {"self", "other"} /\ Sig[i].looks \subseteq Components
      /\ Sig[i].time \in Nat /\ Sig[i].expires \in Nat
      /\ \A b \in Sig[i].backs : b.time \in Nat /\ b.expires \in Nat
  BY <1>1 DEF Signatures
<1> QED
  BY <1>2, <1>3

\* The type of a signature says to which vector of which component it belongs.
LEMMA TypeFits ==
    ASSUME NEW i \in Ids, NEW k \in Components
    PROVE  /\ Kind[k] \in KindsFor(Sig[i].typ) =>
                /\ Known(k)
                /\ IsRevocation(i) => Sig[i].typ = RevocationType(k)
                /\ ~IsRevocation(i) /\ Sig[i].typ # "AttestationKey"
                     => Sig[i].typ = BindingType(k)
           /\ Known(k) /\ Sig[i].typ = RevocationType(k) =>
                Kind[k] \in KindsFor(Sig[i].typ) /\ IsRevocation(i)
           /\ Known(k) /\ Sig[i].typ = BindingType(k) =>
                /\ Kind[k] \in KindsFor(Sig[i].typ) /\ ~IsRevocation(i)
                /\ Sig[i].typ # "AttestationKey"
<1>1. Kind[k] \in {"primary", "userid", "attribute", "subkey", "unknown"}
  BY CertificateAssumption
<1>2. Sig[i].typ \in {"DirectKey", "KeyRevocation", "Certification", "AttestationKey",
                      "CertificationRevocation", "SubkeyBinding", "SubkeyRevocation"}
  BY SigFacts DEF Types
<1> QED
  BY <1>1, <1>2 DEF Known, KindsFor, IsRevocation, RevocationType, BindingType

LEMMA FieldsOf ==
    ASSUME NEW e, e.id \in Ids, e.tagged \in BOOLEAN
    PROVE  /\ split_sigs(e) \in Fields \ {"attestations"}
           /\ FieldFor(e) \in Fields
           /\ FieldFor(e) \in Own => (IsSelfSig(e) \/ Sig[e.id].typ = "AttestationKey")
           /\ FieldFor(e) \notin Own =>
                e.tagged /\ Sig[e.id].claims = "other" /\ FieldFor(e) = split_sigs(e)
BY SigFacts DEF split_sigs, FieldFor, IsSelfSig, Fields, Own, IsRevocation

\* What a component takes as its own it takes into the vector where it stays.
LEMMA HomePlace ==
    ASSUME NEW e \in Entries, NEW comps \in SUBSET Components, NEW k \in Homes(e, comps),
           NEW x, x = Fixup(Place(e, k, FieldFor(e)))
    PROVE  /\ x \in Placed /\ x.comp = k /\ x.id = e.id /\ x.field = FieldFor(e)
           /\ k \in comps /\ Known(k) /\ SettledKnown(x)
           /\ e.tagged => x.tagged
<1>0. e.id \in Ids /\ e.tagged \in BOOLEAN
  BY DEF Entries
<1>1. /\ k \in Components /\ k \in comps /\ Kind[k] \in KindsFor(Sig[e.id].typ)
      /\ IF IsSelfSig(e) THEN Verifies(e.id, k, Sig[e.id].typ)
         ELSE Sig[e.id].typ # "AttestationKey" /\ k \in Sig[e.id].looks
  BY DEF Homes
<1>2. FieldFor(e) \in Fields
  BY <1>0, FieldsOf
<1>3. /\ FieldFor(e) \in Own => x = [comp |-> k, field |-> FieldFor(e), id |-> e.id, tagged |-> TRUE]
      /\ FieldFor(e) \notin Own =>
            x = [comp |-> k, field |-> FieldFor(e), id |-> e.id, tagged |-> e.tagged]
  BY DEF Fixup, Place, Own
<1>4. /\ x \in Placed /\ x.comp = k /\ x.id = e.id /\ x.field = FieldFor(e)
      /\ x.tagged <=> (FieldFor(e) \in Own \/ e.tagged)
  <2>1. CASE FieldFor(e) \in Own
    <3>1. x = [comp |-> k, field |-> FieldFor(e), id |-> e.id, tagged |-> TRUE]
      BY <1>3, <2>1
    <3>2. x \in Placed
      BY <1>0, <1>1, <1>2, <3>1 DEF Placed
    <3>3. x.comp = k /\ x.id = e.id /\ x.field = FieldFor(e) /\ x.tagged
      BY <3>1
    <3> QED
      BY <2>1, <3>2, <3>3
  <2>2. CASE FieldFor(e) \notin Own
    BY <1>0, <1>1, <1>2, <1>3, <2>2 DEF Placed
  <2> QED
    BY <2>1, <2>2
<1>5. Known(k) /\ (IsRevocation(e.id) => Sig[e.id].typ = RevocationType(k))
      /\ (~IsRevocation(e.id) /\ Sig[e.id].typ # "AttestationKey" => Sig[e.id].typ = BindingType(k))
  BY <1>0, <1>1, TypeFits
<1>6. CASE Sig[e.id].typ = "AttestationKey"
  <2>1. FieldFor(e) = "attestations"
    BY <1>6 DEF FieldFor, IsRevocation
  <2>2. Verifies(e.id, k, "AttestationKey")
    BY <1>1, <1>6
  <2> QED
    BY <1>1, <1>4, <1>5, <2>1, <2>2 DEF SettledKnown, Stays, Own
<1>7. CASE Sig[e.id].typ # "AttestationKey" /\ IsSelfSig(e)
  <2>1. FieldFor(e) = IF IsRevocation(e.id) THEN "self_revocations" ELSE "self_signatures"
    BY <1>7 DEF FieldFor
  <2>2. Stays(x)
    BY <1>1, <1>4, <1>5, <1>7, <2>1 DEF Stays
  <2> QED
    BY <1>1, <1>4, <1>5, <2>1, <2>2 DEF SettledKnown, Own
<1>8. CASE Sig[e.id].typ # "AttestationKey" /\ ~IsSelfSig(e)
  <2>1. FieldFor(e) = IF IsRevocation(e.id) THEN "other_revocations" ELSE "certifications"
    BY <1>8 DEF FieldFor
  <2>2. Stays(x)
    BY <1>1, <1>4, <1>8, <2>1 DEF Stays
  <2>3. x.field = split_sigs(x)
    BY <1>0, <1>4, <1>8, <2>1 DEF split_sigs, IsSelfSig, Own
  <2> QED
    BY <1>1, <1>4, <1>5, <2>1, <2>2, <2>3 DEF SettledKnown, Own
<1> QED
  BY <1>6, <1>7, <1>8

\* Homes looks at the signature only.
LEMMA HomesOf ==
    ASSUME NEW q, NEW r, q.id = r.id, q.tagged = r.tagged, NEW comps
    PROVE  Homes(q, comps) = Homes(r, comps) /\ split_sigs(q) = split_sigs(r)
           /\ FieldFor(q) = FieldFor(r)
BY DEF Homes, IsSelfSig, split_sigs, FieldFor

LEMMA FixupOf ==
    ASSUME NEW q \in Placed
    PROVE  /\ Fixup(q) \in Placed /\ Fixup(q).comp = q.comp /\ Fixup(q).id = q.id
           /\ Fixup(q).field = q.field
           /\ Fixup(q).tagged = IF q.field \in Own THEN TRUE ELSE q.tagged
           /\ Stays(Fixup(q)) <=> Stays(q)
<1>1. /\ Fixup(q) \in Placed /\ Fixup(q).comp = q.comp /\ Fixup(q).id = q.id
      /\ Fixup(q).field = q.field
      /\ Fixup(q).tagged = IF q.field \in Own THEN TRUE ELSE q.tagged
  BY DEF Fixup, Placed, Own
<1> QED
  BY <1>1 DEF Stays
-----------------------------------------------------------------------------
(***************************************************************************)
(* Vectors without duplicates.                                             *)
(***************************************************************************)
\* Of every signature of a vector one copy is left, and it has the issuers if
\* one of them had.
LEMMA DedupFacts ==
    ASSUME NEW S \in SUBSET Placed
    PROVE  /\ Dedup(S) \in SUBSET S
           /\ \A q \in S : \E d \in Dedup(S) :
                d.comp = q.comp /\ d.field = q.field /\ d.id = q.id /\ (q.tagged => d.tagged)
           /\ \A q, r \in Dedup(S) :
                q.comp = r.comp /\ q.field = r.field /\ q.id = r.id => q = r
<1>1. Dedup(S) \in SUBSET S
  BY DEF Dedup
<1> DEFINE Full(q) == [q EXCEPT !.tagged = TRUE]
<1>2. ASSUME NEW q \in Placed
      PROVE  /\ Full(q) \in Placed /\ Full(q).tagged
             /\ Full(q).comp = q.comp /\ Full(q).field = q.field /\ Full(q).id = q.id
  BY DEF Placed
<1>3. ASSUME NEW q \in Placed, NEW r \in Placed,
             q.comp = r.comp, q.field = r.field, q.id = r.id, q.tagged <=> r.tagged
      PROVE  q = r
  <2>1. q.tagged = r.tagged
    BY <1>3 DEF Placed
  <2> QED
    BY <1>3, <2>1 DEF Placed
<1>4. ASSUME NEW q \in S
      PROVE  \E d \in Dedup(S) :
               d.comp = q.comp /\ d.field = q.field /\ d.id = q.id /\ (q.tagged => d.tagged)
  <2>1. CASE q.tagged \/ Full(q) \notin S
    BY <2>1 DEF Dedup
  <2>2. CASE Full(q) \in S
    <3>1. Full(q) \in Dedup(S)
      BY <1>2, <2>2 DEF Dedup
    <3> QED
      BY <1>2, <3>1
  <2> QED
    BY <2>1, <2>2
<1>5. ASSUME NEW q \in Dedup(S), NEW r \in Dedup(S),
             q.comp = r.comp, q.field = r.field, q.id = r.id
      PROVE  q = r
  <2>0. q \in Placed /\ r \in Placed /\ q \in S /\ r \in S
    BY <1>1
  <2>1. CASE q.tagged <=> r.tagged
    BY <1>3, <1>5, <2>0, <2>1
  <2>2. CASE q.tagged /\ ~r.tagged
    <3>1. Full(r) = q
      BY <1>2, <1>3, <1>5, <2>0, <2>2
    <3> QED
      BY <2>0, <2>2, <3>1 DEF Dedup
  <2>3. CASE r.tagged /\ ~q.tagged
    <3>1. Full(q) = r
      BY <1>2, <1>3, <1>5, <2>0, <2>3
    <3> QED
      BY <2>0, <2>3, <3>1 DEF Dedup
  <2> QED
    BY <2>1, <2>2, <2>3
<1> QED
  BY <1>1, <1>4, <1>5

LEMMA DedupSame ==
    ASSUME NEW S \in SUBSET Placed, SingleSigs(S)
    PROVE  Dedup(S) = S
<1>1. ASSUME NEW q \in S PROVE q \in Dedup(S)
  <2> DEFINE full == [q EXCEPT !.tagged = TRUE]
  <2>1. q \in Placed /\ full.id = q.id /\ full.comp = q.comp /\ full.field = q.field /\ full.tagged
    BY DEF Placed
  <2>2. full \in S => full = q
    BY <2>1 DEF SingleSigs
  <2> QED
    BY <2>1, <2>2 DEF Dedup
<1> QED
  BY <1>1 DEF Dedup

LEMMA KeepFirstFacts ==
    ASSUME NEW S, NEW T
    PROVE  /\ KeepFirst(S, T) \in SUBSET (S \cup T) /\ S \subseteq KeepFirst(S, T)
           /\ \A e \in S \cup T : \E d \in KeepFirst(S, T) : d.id = e.id
           /\ SingleIds(S) /\ SingleIds(T) => SingleIds(KeepFirst(S, T))
BY DEF KeepFirst, IdsOf, SingleIds

LEMMA EntryFacts ==
    ASSUME NEW q \in Placed
    PROVE  EntryOf(q) \in Entries /\ EntryOf(q).id = q.id /\ EntryOf(q).tagged = q.tagged
<1>1. q.id \in Ids /\ q.tagged \in BOOLEAN
  BY DEF Placed
<1>2. EntryOf(q) = [id |-> q.id, tagged |-> q.tagged]
  BY DEF EntryOf
<1> QED
  BY <1>1, <1>2 DEF Entries
-----------------------------------------------------------------------------
(***************************************************************************)
(* The parts of canonicalize.                                              *)
(***************************************************************************)
First(raw)   == Dedup(raw.sigs)
Staying(raw) == {q \in First(raw) : Known(q.comp) /\ Stays(q)}
Leaving(raw) == {q \in First(raw) : Known(q.comp) /\ ~Stays(q)}
Foreign(raw) == {q \in First(raw) : ~Known(q.comp)}
Again(raw)   == raw.bad \cup {EntryOf(q) : q \in Leaving(raw) \cup Foreign(raw)}
Moved(raw)   ==
    UNION {{Place(e, k, FieldFor(e)) : k \in Homes(e, raw.comps)} : e \in Again(raw)}
Lost(raw)    == {q \in First(raw) \cup raw.bad : Homes(q, raw.comps) = {}}
NewBad(raw)  ==
    {EntryOf(q) : q \in {r \in Leaving(raw) \cap Lost(raw) :
        ~\E o \in Leaving(raw) \cap Lost(raw) : o.id = r.id /\ Before(o, r)}}
Pool(raw)    ==
    {Fixup(q) : q \in Staying(raw) \cup Moved(raw)}
    \cup {[q EXCEPT !.field = split_sigs(q)] : q \in Foreign(raw) \cap Lost(raw)}

LEMMA CanonicalParts ==
    ASSUME NEW raw \in Copies
    PROVE  canonicalize(raw) =
             [comps |-> raw.comps, secret |-> raw.secret,
              bad |-> KeepFirst(raw.bad \cap Lost(raw), NewBad(raw)), sigs |-> Dedup(Pool(raw))]
<1>1. canonicalize(raw) =
        [raw EXCEPT !.sigs = Dedup(Pool(raw)),
                    !.bad = KeepFirst(raw.bad \cap Lost(raw), NewBad(raw))]
  BY DEF canonicalize, First, Staying, Leaving, Foreign, Again, Moved, Lost, NewBad, Pool
<1> QED
  BY <1>1 DEF Copies

\* What canonicalize may start from.
RawOk(raw) ==
    /\ raw \in Copies
    /\ Primary \in raw.comps
    /\ \A q \in raw.sigs :
         /\ q.comp \in raw.comps
         /\ Known(q.comp) =>
              /\ q.field = "attestations" => Verifies(q.id, q.comp, "AttestationKey")
              /\ q.field \notin Own => q.field = split_sigs(q)
    /\ \A q, r \in raw.sigs :
         q.id = r.id /\ q.comp = r.comp /\ ~Known(q.comp) => q.field = r.field
    /\ SingleIds(raw.bad)

LEMMA FirstFacts ==
    ASSUME NEW raw, RawOk(raw)
    PROVE  /\ raw \in Copies /\ First(raw) \in SUBSET raw.sigs /\ First(raw) \in SUBSET Placed
           /\ \A q \in raw.sigs : \E d \in First(raw) :
                d.comp = q.comp /\ d.field = q.field /\ d.id = q.id /\ (q.tagged => d.tagged)
           /\ \A q, r \in First(raw) :
                q.comp = r.comp /\ q.field = r.field /\ q.id = r.id => q = r
           /\ raw.bad \in SUBSET Entries /\ raw.comps \in SUBSET Components
<1>1. raw \in Copies /\ raw.sigs \in SUBSET Placed /\ raw.bad \in SUBSET Entries
      /\ raw.comps \in SUBSET Components
  BY DEF RawOk, Copies
<1> QED
  BY <1>1, DedupFacts DEF First

LEMMA AgainFacts ==
    ASSUME NEW raw, RawOk(raw), NEW e \in Again(raw)
    PROVE  /\ e \in Entries
           /\ \E r \in raw.sigs \cup raw.bad : r.id = e.id /\ (~e.tagged => ~r.tagged)
<1>1. CASE e \in raw.bad
  BY <1>1, FirstFacts
<1>2. CASE e \notin raw.bad
  <2>1. PICK q \in First(raw) : e = EntryOf(q)
    BY <1>2 DEF Again, Leaving, Foreign
  <2>2. q \in Placed /\ q \in raw.sigs
    BY FirstFacts
  <2> QED
    BY <2>1, <2>2, EntryFacts
<1> QED
  BY <1>1, <1>2

\* Where the signatures of the result come from.
LEMMA PoolFrom ==
    ASSUME NEW raw, RawOk(raw), NEW x \in Pool(raw)
    PROVE  \/ \E q \in Staying(raw) : x = Fixup(q)
           \/ \E e \in Again(raw) : \E k \in Homes(e, raw.comps) :
                x = Fixup(Place(e, k, FieldFor(e)))
           \/ \E q \in Foreign(raw) \cap Lost(raw) : x = [q EXCEPT !.field = split_sigs(q)]
BY DEF Pool, Moved

LEMMA PoolHas ==
    ASSUME NEW raw
    PROVE  /\ \A q \in Staying(raw) : Fixup(q) \in Pool(raw)
           /\ \A e \in Again(raw) : \A k \in Homes(e, raw.comps) :
                Fixup(Place(e, k, FieldFor(e))) \in Pool(raw)
           /\ \A q \in Foreign(raw) \cap Lost(raw) : [q EXCEPT !.field = split_sigs(q)] \in Pool(raw)
<1>1. ASSUME NEW e \in Again(raw), NEW k \in Homes(e, raw.comps)
      PROVE  Place(e, k, FieldFor(e)) \in Moved(raw)
  BY DEF Moved
<1> QED
  BY <1>1 DEF Pool
LEMMA ForeignPlace ==
    ASSUME NEW raw, RawOk(raw), NEW q \in Foreign(raw) \cap Lost(raw),
           NEW x, x = [q EXCEPT !.field = split_sigs(q)]
    PROVE  /\ x \in Placed /\ x.comp = q.comp /\ x.id = q.id /\ x.field = split_sigs(q)
           /\ x.tagged = q.tagged /\ q \in First(raw) /\ q \in Placed /\ q \in raw.sigs
           /\ ~Known(x.comp) /\ x.comp \in raw.comps /\ SettledUnknown(x, raw.comps)
<1>1. q \in First(raw) /\ q \in Placed /\ q \in raw.sigs /\ ~Known(q.comp)
      /\ Homes(q, raw.comps) = {}
  BY FirstFacts DEF Foreign, Lost
<1>2. q.id \in Ids /\ q.tagged \in BOOLEAN
  BY <1>1 DEF Placed
<1>3. split_sigs(q) \in Fields
  BY <1>2, FieldsOf
<1>4. x \in Placed /\ x.comp = q.comp /\ x.id = q.id /\ x.field = split_sigs(q)
      /\ x.tagged = q.tagged
  BY <1>1, <1>3 DEF Placed
<1>5. q.comp \in raw.comps
  BY <1>1 DEF RawOk
<1>6. Homes(x, raw.comps) = {} /\ x.field = split_sigs(x)
  BY <1>1, <1>4, HomesOf
<1> QED
  BY <1>1, <1>4, <1>5, <1>6 DEF SettledUnknown

LEMMA StayPlace ==
    ASSUME NEW raw, RawOk(raw), NEW q \in Staying(raw), NEW x, x = Fixup(q)
    PROVE  /\ x \in Placed /\ x.comp = q.comp /\ x.id = q.id /\ x.field = q.field
           /\ q \in First(raw) /\ q \in Placed /\ q \in raw.sigs
           /\ q.tagged => x.tagged
           /\ Known(x.comp) /\ x.comp \in raw.comps /\ SettledKnown(x)
<1>1. q \in First(raw) /\ q \in Placed /\ q \in raw.sigs /\ Known(q.comp) /\ Stays(q)
  BY FirstFacts DEF Staying
<1>2. /\ x \in Placed /\ x.comp = q.comp /\ x.id = q.id /\ x.field = q.field
      /\ x.tagged = IF q.field \in Own THEN TRUE ELSE q.tagged
      /\ Stays(x) <=> Stays(q)
  BY <1>1, FixupOf
<1>3. q.comp \in raw.comps
      /\ (q.field = "attestations" => Verifies(q.id, q.comp, "AttestationKey"))
      /\ (q.field \notin Own => q.field = split_sigs(q))
  BY <1>1 DEF RawOk
<1>4. q.field \notin Own => split_sigs(x) = split_sigs(q)
  <2> SUFFICES ASSUME q.field \notin Own PROVE split_sigs(x) = split_sigs(q)
    OBVIOUS
  <2>1. x.tagged = q.tagged
    BY <1>2
  <2> QED
    BY <1>2, <2>1, HomesOf
<1>5. x.field \in Own => x.tagged
  BY <1>2
<1>6. x.field \notin Own => x.field = split_sigs(x)
  BY <1>2, <1>3, <1>4
<1>7. q.tagged => x.tagged
  BY <1>2
<1> QED
  BY <1>1, <1>2, <1>3, <1>5, <1>6, <1>7 DEF SettledKnown

LEMMA PoolSettled ==
    ASSUME NEW raw, RawOk(raw), NEW x \in Pool(raw)
    PROVE  /\ x \in Placed /\ x.comp \in raw.comps
           /\ Known(x.comp) => SettledKnown(x)
           /\ ~Known(x.comp) => SettledUnknown(x, raw.comps)
           /\ \E r \in raw.sigs \cup raw.bad : r.id = x.id /\ (~x.tagged => ~r.tagged)
<1>1. ASSUME NEW q \in Staying(raw), x = Fixup(q)
      PROVE  /\ x \in Placed /\ x.comp \in raw.comps /\ Known(x.comp) /\ SettledKnown(x)
             /\ q \in raw.sigs /\ q.id = x.id /\ (~x.tagged => ~q.tagged)
  BY <1>1, StayPlace
<1>2. ASSUME NEW e \in Again(raw), NEW k \in Homes(e, raw.comps),
             x = Fixup(Place(e, k, FieldFor(e)))
      PROVE  /\ x \in Placed /\ x.comp \in raw.comps /\ Known(x.comp) /\ SettledKnown(x)
             /\ \E r \in raw.sigs \cup raw.bad : r.id = x.id /\ (~x.tagged => ~r.tagged)
  <2>1. /\ e \in Entries
        /\ \E r \in raw.sigs \cup raw.bad : r.id = e.id /\ (~e.tagged => ~r.tagged)
    BY AgainFacts
  <2>2. /\ x \in Placed /\ x.comp \in raw.comps /\ Known(x.comp) /\ SettledKnown(x)
        /\ x.id = e.id /\ (e.tagged => x.tagged)
    BY <1>2, <2>1, FirstFacts, HomePlace
  <2> QED
    BY <2>1, <2>2
<1>3. ASSUME NEW q \in Foreign(raw) \cap Lost(raw), x = [q EXCEPT !.field = split_sigs(q)]
      PROVE  /\ x \in Placed /\ x.comp \in raw.comps /\ ~Known(x.comp)
             /\ SettledUnknown(x, raw.comps)
             /\ q \in raw.sigs /\ q.id = x.id /\ x.tagged = q.tagged
  BY <1>3, ForeignPlace
<1> QED
  BY <1>1, <1>2, <1>3, PoolFrom

LEMMA BadFrom ==
    ASSUME NEW raw, RawOk(raw), NEW b \in KeepFirst(raw.bad \cap Lost(raw), NewBad(raw))
    PROVE  /\ b \in Entries /\ Homes(b, raw.comps) = {}
           /\ \E r \in raw.sigs \cup raw.bad : r.id = b.id /\ (~b.tagged => ~r.tagged)
<1>1. CASE b \in raw.bad \cap Lost(raw)
  BY <1>1, FirstFacts DEF Lost
<1>2. CASE b \in NewBad(raw)
  <2>1. PICK q \in Leaving(raw) \cap Lost(raw) : b = EntryOf(q)
    BY <1>2 DEF NewBad
  <2>2. q \in Placed /\ q \in raw.sigs /\ Homes(q, raw.comps) = {}
    BY FirstFacts DEF Leaving, Lost
  <2>3. b \in Entries /\ b.id = q.id /\ b.tagged = q.tagged
    BY <2>1, <2>2, EntryFacts
  <2>4. Homes(b, raw.comps) = {}
    BY <2>2, <2>3, HomesOf
  <2> QED
    BY <2>2, <2>3, <2>4
<1> QED
  BY <1>1, <1>2, KeepFirstFacts
-----------------------------------------------------------------------------
(***************************************************************************)
(* The order of the vectors.                                               *)
(***************************************************************************)
LEMMA LeastNat ==
    ASSUME NEW T, T \subseteq Nat, T # {}
    PROVE  \E x \in T : \A y \in T : x <= y
<1>1. IsWellFoundedOn(OpToRel(<, Nat), Nat)
  BY NatLessThanWellFounded
<1>2. PICK x \in T : \A y \in T : ~ (<<y, x>> \in OpToRel(<, Nat))
  BY <1>1, WFMin
<1>3. \A y \in T : y \in Nat /\ x \in Nat /\ ~ (y < x)
  BY <1>2 DEF OpToRel
<1> QED
  BY <1>3

CompIx(k)  == CHOOSE n \in 0..Len(Order) : k = IF n = 0 THEN Primary ELSE Order[n]
FieldIx(f) == CHOOSE n \in 1..4 : f = CheckOrder[n]

LEMMA CompIxFacts ==
    ASSUME NEW k \in Components, NEW j \in Components
    PROVE  /\ CompIx(k) \in Nat
           /\ CompIx(k) = CompIx(j) => k = j
<1>0. Order \in Seq(Range(Order)) /\ Len(Order) \in Nat
  BY CertificateAssumption
<1>1. ASSUME NEW i \in Components
      PROVE  /\ CompIx(i) \in 0..Len(Order)
             /\ i = IF CompIx(i) = 0 THEN Primary ELSE Order[CompIx(i)]
  <2>1. \E n \in 0..Len(Order) : i = IF n = 0 THEN Primary ELSE Order[n]
    <3>1. CASE i = Primary
      BY <1>0, <3>1
    <3>2. CASE i \in Range(Order)
      <4>1. PICK n \in DOMAIN Order : i = Order[n]
        BY <3>2 DEF Range
      <4>2. n \in 0..Len(Order) /\ n # 0
        BY <1>0, <4>1
      <4> QED
        BY <4>1, <4>2
    <3> QED
      BY <3>1, <3>2 DEF Components
  <2> QED
    BY <2>1 DEF CompIx
<1> QED
  BY <1>0, <1>1

LEMMA FieldIxFacts ==
    ASSUME NEW f \in Fields \ {"attestations"}, NEW g \in Fields \ {"attestations"}
    PROVE  /\ FieldIx(f) \in 1..4
           /\ FieldIx(f) = FieldIx(g) => f = g
<1>1. ASSUME NEW h \in Fields \ {"attestations"}
      PROVE  FieldIx(h) \in 1..4 /\ h = CheckOrder[FieldIx(h)]
  <2>0. CheckOrder[1] = "self_signatures" /\ CheckOrder[2] = "self_revocations"
        /\ CheckOrder[3] = "certifications" /\ CheckOrder[4] = "other_revocations"
    BY DEF CheckOrder
  <2>1. \E n \in 1..4 : h = CheckOrder[n]
    BY <2>0 DEF Fields, Own
  <2> QED
    BY <2>1 DEF FieldIx
<1> QED
  BY <1>1

LEMMA BeforeIs ==
    ASSUME NEW q, NEW r
    PROVE  Before(q, r) <=>
             \/ CompIx(q.comp) < CompIx(r.comp)
             \/ CompIx(q.comp) = CompIx(r.comp) /\ FieldIx(q.field) < FieldIx(r.field)
BY DEF Before, CompIx, FieldIx

LEMMA LeavingFacts ==
    ASSUME NEW raw, RawOk(raw), NEW q \in Leaving(raw)
    PROVE  /\ q \in First(raw) /\ q \in Placed /\ q \in raw.sigs /\ q.comp \in Components
           /\ q.field \in Fields \ {"attestations"} /\ CompIx(q.comp) \in Nat
           /\ FieldIx(q.field) \in 1..4 /\ Known(q.comp) /\ ~Stays(q) /\ q.id \in Ids
<1>1. q \in First(raw) /\ q \in Placed /\ q \in raw.sigs /\ ~Stays(q) /\ Known(q.comp)
  BY FirstFacts DEF Leaving
<1>2. q.field # "attestations"
  BY <1>1 DEF Stays
<1>3. q.comp \in Components /\ q.field \in Fields /\ q.id \in Ids
  BY <1>1 DEF Placed
<1> QED
  BY <1>1, <1>2, <1>3, CompIxFacts, FieldIxFacts

\* Of the copies of a signature that fits nowhere the first one is kept.
LEMMA NewBadFacts ==
    ASSUME NEW raw, RawOk(raw)
    PROVE  /\ SingleIds(NewBad(raw))
           /\ \A q \in Leaving(raw) \cap Lost(raw) : q.id \in IdsOf(NewBad(raw))
<1> DEFINE L == Leaving(raw) \cap Lost(raw)
           min(r) == ~\E o \in L : o.id = r.id /\ Before(o, r)
<1>0. NewBad(raw) = {EntryOf(q) : q \in {r \in L : min(r)}}
  BY DEF NewBad
<1>1. ASSUME NEW q \in L, NEW r \in L, min(q), min(r), q.id = r.id
      PROVE  q = r
  <2>1. ~Before(q, r) /\ ~Before(r, q)
    BY <1>1
  <2>2. /\ CompIx(q.comp) \in Nat /\ FieldIx(q.field) \in 1..4
        /\ CompIx(r.comp) \in Nat /\ FieldIx(r.field) \in 1..4
        /\ q.comp \in Components /\ r.comp \in Components
        /\ q.field \in Fields \ {"attestations"} /\ r.field \in Fields \ {"attestations"}
        /\ q \in First(raw) /\ r \in First(raw)
    BY LeavingFacts
  <2>3. CompIx(q.comp) = CompIx(r.comp) /\ FieldIx(q.field) = FieldIx(r.field)
    BY <2>1, <2>2, BeforeIs
  <2>4. q.comp = r.comp /\ q.field = r.field
    BY <2>2, <2>3, CompIxFacts, FieldIxFacts
  <2> QED
    BY <1>1, <2>2, <2>4, FirstFacts
<1>2. ASSUME NEW q \in L
      PROVE  \E r \in L : min(r) /\ r.id = q.id
  <2> DEFINE M == {o \in L : o.id = q.id}
             rank(o) == 5 * CompIx(o.comp) + FieldIx(o.field)
             T == {rank(o) : o \in M}
  <2>1. \A o \in M : CompIx(o.comp) \in Nat /\ FieldIx(o.field) \in 1..4
    BY LeavingFacts
  <2>2. T \subseteq Nat /\ T # {}
    BY <2>1
  <2>3. PICK x \in T : \A y \in T : x <= y
    BY <2>2, LeastNat
  <2>4. PICK r \in M : x = rank(r)
    BY <2>3
  <2>5. ASSUME NEW o \in L, o.id = r.id, Before(o, r)
        PROVE  FALSE
    <3>1. o \in M /\ rank(r) <= rank(o)
      BY <2>3, <2>4, <2>5
    <3> QED
      BY <2>1, <2>4, <2>5, <3>1, BeforeIs
  <2> QED
    BY <2>4, <2>5
<1>3. \A q \in L : EntryOf(q).id = q.id
  BY LeavingFacts, EntryFacts
<1>4. SingleIds(NewBad(raw))
  BY <1>0, <1>1, <1>3 DEF SingleIds
<1>5. ASSUME NEW q \in L PROVE q.id \in IdsOf(NewBad(raw))
  BY <1>0, <1>2, <1>3 DEF IdsOf
<1> QED
  BY <1>4, <1>5
-----------------------------------------------------------------------------
(***************************************************************************)
(* What canonicalize returns.                                              *)
(***************************************************************************)
LEMMA PoolSingle ==
    ASSUME NEW raw, RawOk(raw)
    PROVE  SingleSigs(Dedup(Pool(raw)))
<1>1. Pool(raw) \in SUBSET Placed
  BY PoolSettled
<1>2. /\ Dedup(Pool(raw)) \subseteq Pool(raw)
      /\ \A q, r \in Dedup(Pool(raw)) :
           q.comp = r.comp /\ q.field = r.field /\ q.id = r.id => q = r
  BY <1>1, DedupFacts
<1>3. ASSUME NEW x \in Pool(raw), ~Known(x.comp)
      PROVE  \E q \in First(raw) : /\ q \in raw.sigs /\ q.comp = x.comp /\ q.id = x.id
                                   /\ x.field = split_sigs(q)
  <2>1. ASSUME NEW q \in Staying(raw), x = Fixup(q)
        PROVE  FALSE
    BY <1>3, <2>1, StayPlace
  <2>2. ASSUME NEW e \in Again(raw), NEW k \in Homes(e, raw.comps),
               x = Fixup(Place(e, k, FieldFor(e)))
        PROVE  FALSE
    BY <1>3, <2>2, AgainFacts, FirstFacts, HomePlace
  <2>3. PICK q \in Foreign(raw) \cap Lost(raw) : x = [q EXCEPT !.field = split_sigs(q)]
    BY <2>1, <2>2, PoolFrom
  <2> QED
    BY <2>3, ForeignPlace
<1>4. ASSUME NEW x \in Dedup(Pool(raw)), NEW y \in Dedup(Pool(raw)),
             x.id = y.id, x.comp = y.comp, x.field = y.field \/ ~Known(x.comp)
      PROVE  x = y
  <2>1. CASE x.field = y.field
    BY <1>2, <1>4, <2>1
  <2>2. CASE ~Known(x.comp)
    <3>1. PICK q \in First(raw) : /\ q \in raw.sigs /\ q.comp = x.comp /\ q.id = x.id
                                  /\ x.field = split_sigs(q)
      BY <1>2, <1>3, <2>2
    <3>2. PICK r \in First(raw) : /\ r \in raw.sigs /\ r.comp = y.comp /\ r.id = y.id
                                  /\ y.field = split_sigs(r)
      BY <1>2, <1>3, <1>4, <2>2
    <3>3. q.field = r.field
      BY <1>4, <2>2, <3>1, <3>2 DEF RawOk
    <3>4. q = r
      BY <1>4, <3>1, <3>2, <3>3, FirstFacts
    <3> QED
      BY <1>2, <1>4, <3>1, <3>2, <3>4
  <2> QED
    BY <1>4, <2>1, <2>2
<1> QED
  BY <1>4 DEF SingleSigs

\* The result of canonicalize is settled and without duplicates.
LEMMA CanonicalResult ==
    ASSUME NEW raw, RawOk(raw), NEW c, c = canonicalize(raw)
    PROVE  /\ c \in Copies /\ c.comps = raw.comps /\ c.secret = raw.secret
           /\ c.sigs = Dedup(Pool(raw))
           /\ c.bad = KeepFirst(raw.bad \cap Lost(raw), NewBad(raw))
           /\ Settled(c) /\ Single(c)
<1>1. raw \in Copies
  BY FirstFacts
<1>2. c = [comps |-> raw.comps, secret |-> raw.secret,
           bad |-> KeepFirst(raw.bad \cap Lost(raw), NewBad(raw)), sigs |-> Dedup(Pool(raw))]
  BY <1>1, CanonicalParts
<1>3. /\ c.comps = raw.comps /\ c.secret = raw.secret /\ c.sigs = Dedup(Pool(raw))
      /\ c.bad = KeepFirst(raw.bad \cap Lost(raw), NewBad(raw))
  BY <1>2
<1>4. Dedup(Pool(raw)) \subseteq Pool(raw)
  BY DEF Dedup
<1>5. \A b \in c.bad : b \in Entries /\ Homes(b, c.comps) = {}
  BY <1>3, BadFrom
<1>6. \A q \in c.sigs : /\ q \in Placed /\ q.comp \in c.comps
                        /\ Known(q.comp) => SettledKnown(q)
                        /\ ~Known(q.comp) => SettledUnknown(q, c.comps)
  BY <1>3, <1>4, PoolSettled
<1>7. c \in Copies
  <2>1. c.comps \in SUBSET Components /\ c.secret \in SUBSET Components
    BY <1>1, <1>3 DEF Copies
  <2>2. c.bad \in SUBSET Entries /\ c.sigs \in SUBSET Placed
    BY <1>5, <1>6
  <2> QED
    BY <1>2, <1>3, <2>1, <2>2 DEF Copies
<1>8. Settled(c)
  BY <1>3, <1>5, <1>6 DEF Settled, RawOk
<1>9. SingleIds(raw.bad \cap Lost(raw)) /\ SingleIds(NewBad(raw))
  BY NewBadFacts DEF RawOk, SingleIds
<1>10. Single(c)
  BY <1>3, <1>9, PoolSingle, KeepFirstFacts DEF Single
<1> QED
  BY <1>3, <1>7, <1>8, <1>10

\* It has every signature there was, and is without issuers only if the
\* signature was.
LEMMA CanonicalKeeps ==
    ASSUME NEW raw, RawOk(raw), NEW c, c = canonicalize(raw)
    PROVE  /\ \A q \in raw.sigs \cup raw.bad : q.id \in IdsOf(c.sigs) \cup IdsOf(c.bad)
           /\ \A x \in c.sigs \cup c.bad : ~x.tagged =>
                \E q \in raw.sigs \cup raw.bad : q.id = x.id /\ ~q.tagged
<1>1. /\ c.sigs = Dedup(Pool(raw))
      /\ c.bad = KeepFirst(raw.bad \cap Lost(raw), NewBad(raw))
      /\ Pool(raw) \in SUBSET Placed
  BY CanonicalResult, PoolSettled
<1>2. \A x \in Pool(raw) : x.id \in IdsOf(c.sigs)
  BY <1>1, DedupFacts DEF IdsOf
<1>3. \A e \in (raw.bad \cap Lost(raw)) \cup NewBad(raw) : e.id \in IdsOf(c.bad)
  BY <1>1, KeepFirstFacts DEF IdsOf
<1>4. ASSUME NEW e \in Again(raw), Homes(e, raw.comps) # {}
      PROVE  e.id \in IdsOf(c.sigs)
  <2>1. PICK k \in Homes(e, raw.comps) : TRUE
    BY <1>4
  <2> DEFINE x == Fixup(Place(e, k, FieldFor(e)))
  <2>2. x \in Pool(raw)
    BY PoolHas
  <2>3. x.id = e.id
    BY AgainFacts, FirstFacts, HomePlace
  <2> QED
    BY <1>2, <2>2, <2>3
<1>5. ASSUME NEW q \in raw.bad
      PROVE  q.id \in IdsOf(c.sigs) \cup IdsOf(c.bad)
  <2>1. CASE Homes(q, raw.comps) = {}
    BY <1>3, <2>1 DEF Lost
  <2>2. CASE Homes(q, raw.comps) # {}
    BY <1>4, <2>2 DEF Again
  <2> QED
    BY <2>1, <2>2
<1>6. ASSUME NEW d \in First(raw)
      PROVE  d.id \in IdsOf(c.sigs) \cup IdsOf(c.bad)
  <2>0. d \in Placed
    BY FirstFacts
  <2>1. CASE d \in Staying(raw)
    <3>1. Fixup(d) \in Pool(raw) /\ Fixup(d).id = d.id
      BY <2>1, PoolHas, StayPlace
    <3> QED
      BY <1>2, <3>1
  <2>2. CASE d \notin Staying(raw) /\ Homes(d, raw.comps) # {}
    <3>1. EntryOf(d) \in Again(raw)
      BY <2>2 DEF Again, Staying, Leaving, Foreign
    <3>2. EntryOf(d).id = d.id /\ EntryOf(d).tagged = d.tagged
      BY <2>0, EntryFacts
    <3>3. Homes(EntryOf(d), raw.comps) # {}
      BY <2>2, <3>2, HomesOf
    <3> QED
      BY <1>4, <3>1, <3>2, <3>3
  <2>3. CASE d \in Leaving(raw) \cap Lost(raw)
    <3>1. PICK e \in NewBad(raw) : e.id = d.id
      BY <2>3, NewBadFacts DEF IdsOf
    <3> QED
      BY <1>3, <3>1
  <2>4. CASE d \in Foreign(raw) \cap Lost(raw)
    <3> DEFINE x == [d EXCEPT !.field = split_sigs(d)]
    <3>1. x \in Pool(raw)
      BY <2>4, PoolHas
    <3>2. x.id = d.id
      BY <2>4, ForeignPlace
    <3> QED
      BY <1>2, <3>1, <3>2
  <2> QED
    BY <2>1, <2>2, <2>3, <2>4 DEF Staying, Leaving, Foreign, Lost
<1>7. ASSUME NEW q \in raw.sigs
      PROVE  q.id \in IdsOf(c.sigs) \cup IdsOf(c.bad)
  <2>1. PICK d \in First(raw) : d.id = q.id
    BY FirstFacts
  <2> QED
    BY <1>6, <2>1
<1>8. ASSUME NEW x \in c.sigs \cup c.bad, ~x.tagged
      PROVE  \E q \in raw.sigs \cup raw.bad : q.id = x.id /\ ~q.tagged
  <2>1. x \in Pool(raw) \/ x \in KeepFirst(raw.bad \cap Lost(raw), NewBad(raw))
    BY <1>1, DedupFacts
  <2>2. CASE x \in Pool(raw)
    <3>1. PICK r \in raw.sigs \cup raw.bad : r.id = x.id /\ (~x.tagged => ~r.tagged)
      BY <2>2, PoolSettled
    <3> QED
      BY <1>8, <3>1
  <2>3. CASE x \in KeepFirst(raw.bad \cap Lost(raw), NewBad(raw))
    <3>1. PICK r \in raw.sigs \cup raw.bad : r.id = x.id /\ (~x.tagged => ~r.tagged)
      BY <2>3, BadFrom
    <3> QED
      BY <1>8, <3>1
  <2> QED
    BY <2>1, <2>2, <2>3
<1> QED
  BY <1>5, <1>7, <1>8
\* What a signature of the holder has to look like to be found by canonicalize.
RawFindable(raw, i) ==
    \/ i \in IdsOf(raw.bad)
    \/ \E q \in raw.sigs : q.id = i /\ (q.comp = Sig[i].on => q.field \in Own)

LEMMA CanonicalFinds ==
    ASSUME NEW raw, RawOk(raw), NEW c, c = canonicalize(raw),
           NEW i \in Ids, GenuineId(i), RawFindable(raw, i)
    PROVE  Findable(c, i)
<1>1. /\ c.sigs = Dedup(Pool(raw))
      /\ c.bad = KeepFirst(raw.bad \cap Lost(raw), NewBad(raw))
      /\ Pool(raw) \in SUBSET Placed
  BY CanonicalResult, PoolSettled
<1>2. ASSUME NEW x \in Pool(raw), x.id = i, Known(x.comp) => x.field \in Own
      PROVE  Findable(c, i)
  <2>1. PICK d \in Dedup(Pool(raw)) : d.comp = x.comp /\ d.field = x.field /\ d.id = x.id
    BY <1>1, DedupFacts
  <2> QED
    BY <1>1, <1>2, <2>1 DEF Findable
<1>3. ASSUME NEW e \in (raw.bad \cap Lost(raw)) \cup NewBad(raw), e.id = i
      PROVE  Findable(c, i)
  BY <1>1, <1>3, KeepFirstFacts DEF IdsOf, Findable
<1>4. ASSUME NEW e \in Again(raw), Homes(e, raw.comps) # {}, e.id = i
      PROVE  Findable(c, i)
  <2>1. PICK k \in Homes(e, raw.comps) : TRUE
    BY <1>4
  <2> DEFINE x == Fixup(Place(e, k, FieldFor(e)))
  <2>2. x \in Pool(raw)
    BY PoolHas
  <2>3. e \in Entries
    BY AgainFacts
  <2>4. x.id = e.id /\ x.field = FieldFor(e)
    BY <2>3, FirstFacts, HomePlace
  <2>5. Sig[e.id].claims = "self"
    BY <1>4, SigFacts DEF GenuineId
  <2>6. e.id \in Ids /\ e.tagged \in BOOLEAN
    BY <2>3 DEF Entries
  <2>7. FieldFor(e) \in Own
    BY <2>5, <2>6, FieldsOf
  <2> HIDE DEF x
  <2> QED
    BY <1>2, <1>4, <2>2, <2>4, <2>7
<1>5. CASE i \in IdsOf(raw.bad)
  <2>1. PICK e \in raw.bad : e.id = i
    BY <1>5 DEF IdsOf
  <2>2. CASE Homes(e, raw.comps) = {}
    BY <1>3, <2>1, <2>2 DEF Lost
  <2>3. CASE Homes(e, raw.comps) # {}
    BY <1>4, <2>1, <2>3 DEF Again
  <2> QED
    BY <2>2, <2>3
<1>6. CASE \E q \in raw.sigs : q.id = i /\ (q.comp = Sig[i].on => q.field \in Own)
  <2>1. PICK q \in raw.sigs : q.id = i /\ (q.comp = Sig[i].on => q.field \in Own)
    BY <1>6
  <2>2. PICK d \in First(raw) : d.comp = q.comp /\ d.field = q.field /\ d.id = q.id
    BY FirstFacts
  <2>3. d \in Placed /\ d.id = i /\ (d.comp = Sig[i].on => d.field \in Own)
    BY <2>1, <2>2, FirstFacts
  <2>4. CASE d \in Staying(raw)
    <3>1. Stays(d)
      BY <2>4 DEF Staying
    <3>2. d.field \notin Own => d.comp = Sig[i].on
      BY <2>3, <3>1 DEF Stays, Own, GenuineId
    <3>3. Fixup(d) \in Pool(raw) /\ Fixup(d).id = i /\ Fixup(d).field = d.field
      BY <2>3, <2>4, PoolHas, StayPlace
    <3> QED
      BY <1>2, <2>3, <3>2, <3>3
  <2>5. CASE d \notin Staying(raw) /\ Homes(d, raw.comps) # {}
    <3>1. EntryOf(d) \in Again(raw)
      BY <2>5 DEF Again, Staying, Leaving, Foreign
    <3>2. EntryOf(d).id = d.id /\ EntryOf(d).tagged = d.tagged
      BY <2>3, EntryFacts
    <3>3. Homes(EntryOf(d), raw.comps) # {}
      BY <2>5, <3>2, HomesOf
    <3> QED
      BY <1>4, <2>3, <3>1, <3>2, <3>3
  <2>6. CASE d \in Leaving(raw) \cap Lost(raw)
    <3>1. PICK e \in NewBad(raw) : e.id = d.id
      BY <2>6, NewBadFacts DEF IdsOf
    <3> QED
      BY <1>3, <2>3, <3>1
  <2>7. CASE d \in Foreign(raw) \cap Lost(raw)
    <3> DEFINE x == [d EXCEPT !.field = split_sigs(d)]
    <3>1. x \in Pool(raw)
      BY <2>7, PoolHas
    <3>2. x.id = i /\ ~Known(x.comp)
      BY <2>3, <2>7, ForeignPlace
    <3> HIDE DEF x
    <3> QED
      BY <1>2, <3>1, <3>2
  <2> QED
    BY <2>2, <2>4, <2>5, <2>6, <2>7 DEF Staying, Leaving, Foreign, Lost
<1> QED
  BY <1>5, <1>6 DEF RawFindable
-----------------------------------------------------------------------------
(***************************************************************************)
(* Packet sequences.                                                       *)
(***************************************************************************)
Afters == [comp : Components, group : 1..7, id : Ids, tagged : BOOLEAN]
PacketSeqs == [comps : SUBSET Components, secret : SUBSET Components, last : Components,
               after : SUBSET Afters]
PsOk(ps) ==
    /\ ps \in PacketSeqs
    /\ Primary \in ps.comps /\ ps.last \in ps.comps
    /\ \A a \in ps.after : a.comp \in ps.comps
PsFindable(ps, i) == \E a \in ps.after : a.id = i /\ (a.tagged \/ a.comp # Sig[i].on)

\* What a packet does to the sequence it is added to, by AppendPacket or by
\* InsertPacket.
Adds(ins, ps, p, new) ==
    /\ PsOk(new)
    /\ IdsOf(ps.after) \subseteq IdsOf(new.after)
    /\ ~IsComponent(p) => p.id \in IdsOf(new.after)
    /\ \A a \in new.after : ~a.tagged =>
         \/ \E b \in ps.after : b.id = a.id /\ ~b.tagged
         \/ p = [id |-> a.id, tagged |-> FALSE]
    /\ \A i \in Ids :
         PsFindable(ps, i) /\ (ins = "insert" => p # [id |-> i, tagged |-> FALSE])
         => PsFindable(new, i)
    /\ \A i \in Ids : p = [id |-> i, tagged |-> TRUE] => PsFindable(new, i)

LEMMA PacketFacts ==
    ASSUME NEW p \in Packets
    PROVE  /\ IsComponent(p) => p.comp \in Components
           /\ ~IsComponent(p) => /\ p \in Entries /\ p.id \in Ids /\ p.tagged \in BOOLEAN
                                 /\ p = [id |-> p.id, tagged |-> p.tagged]
<1>1. CASE p \in [comp : Components, secret : BOOLEAN]
  BY <1>1 DEF IsComponent
<1>2. CASE p \in Entries
  <2>1. p.id \in Ids /\ p.tagged \in BOOLEAN /\ p = [id |-> p.id, tagged |-> p.tagged]
    BY <1>2 DEF Entries
  <2>2. ~IsComponent(p)
    BY <1>2 DEF Entries, IsComponent
  <2> QED
    BY <1>2, <2>1, <2>2
<1> QED
  BY <1>1, <1>2 DEF Packets

LEMMA AfterFacts ==
    ASSUME NEW e, e.id \in Ids, e.tagged \in BOOLEAN, NEW k \in Components, NEW g \in 1..7
    PROVE  /\ After(e, k, g) \in Afters /\ After(e, k, g).comp = k /\ After(e, k, g).id = e.id
           /\ After(e, k, g).tagged = e.tagged
BY DEF After, Afters

LEMMA AppendAdds ==
    ASSUME NEW ps, PsOk(ps), NEW p \in Packets, NEW new, new = AppendPacket(ps, p)
    PROVE  Adds("append", ps, p, new)
<1>0. /\ ps \in PacketSeqs /\ ps.comps \in SUBSET Components /\ ps.secret \in SUBSET Components
      /\ ps.last \in Components /\ ps.after \in SUBSET Afters
  BY DEF PsOk, PacketSeqs
<1>1. CASE IsComponent(p)
  <2>1. p.comp \in Components
    BY <1>1, PacketFacts
  <2> DEFINE s == IF p.secret THEN ps.secret \cup {p.comp} ELSE ps.secret
  <2>2. s \in SUBSET Components
    BY <1>0, <2>1
  <2>3. new = [ps EXCEPT !.comps = ps.comps \cup {p.comp}, !.last = p.comp, !.secret = s]
    BY <1>1 DEF AppendPacket
  <2> HIDE DEF s
  <2>4. /\ new \in PacketSeqs /\ new.comps = ps.comps \cup {p.comp} /\ new.last = p.comp
        /\ new.after = ps.after
    BY <1>0, <2>1, <2>2, <2>3 DEF PacketSeqs
  <2>5. PsOk(new)
    BY <2>4 DEF PsOk
  <2>6. \A i : p # [id |-> i, tagged |-> TRUE]
    BY <1>1 DEF IsComponent
  <2> QED
    BY <1>1, <2>4, <2>5, <2>6 DEF Adds, PsFindable
<1>2. CASE ~IsComponent(p)
  <2>1. p.id \in Ids /\ p.tagged \in BOOLEAN /\ p = [id |-> p.id, tagged |-> p.tagged]
    BY <1>2, PacketFacts
  <2> DEFINE x == After(p, ps.last, 7)
  <2>2. x \in Afters /\ x.comp = ps.last /\ x.id = p.id /\ x.tagged = p.tagged
    BY <1>0, <2>1, AfterFacts
  <2>3. new = [ps EXCEPT !.after = ps.after \cup {x}]
    BY <1>2 DEF AppendPacket
  <2> HIDE DEF x
  <2>4. /\ new \in PacketSeqs /\ new.comps = ps.comps /\ new.last = ps.last
        /\ new.after = ps.after \cup {x}
    BY <1>0, <2>2, <2>3 DEF PacketSeqs
  <2>5. PsOk(new)
    BY <2>2, <2>4 DEF PsOk
  <2>6. p.id \in IdsOf(new.after) /\ IdsOf(ps.after) \subseteq IdsOf(new.after)
    BY <2>2, <2>4 DEF IdsOf
  <2>7. ASSUME NEW a \in new.after, ~a.tagged
        PROVE  \/ \E b \in ps.after : b.id = a.id /\ ~b.tagged
               \/ p = [id |-> a.id, tagged |-> FALSE]
    <3>1. CASE a \in ps.after
      BY <2>7, <3>1
    <3>2. CASE a = x
      <4>1. p.tagged = FALSE /\ p.id = a.id
        BY <2>1, <2>2, <2>7, <3>2
      <4> QED
        BY <2>1, <4>1
    <3> QED
      BY <2>4, <3>1, <3>2
  <2>8. ASSUME NEW i \in Ids, p = [id |-> i, tagged |-> TRUE]
        PROVE  PsFindable(new, i)
    <3>1. p.id = i /\ p.tagged
      BY <2>8
    <3> QED
      BY <2>2, <2>4, <3>1 DEF PsFindable
  <2>9. \A i : PsFindable(ps, i) => PsFindable(new, i)
    BY <2>4 DEF PsFindable
  <2> QED
    BY <2>5, <2>6, <2>7, <2>8, <2>9 DEF Adds
<1> QED
  BY <1>1, <1>2
\* The first copy of a signature in a sequence.
Oldest(copies) ==
    CHOOSE a \in copies : \A o \in copies :
        \/ CompIx(a.comp) < CompIx(o.comp)
        \/ CompIx(a.comp) = CompIx(o.comp) /\ a.group <= o.group

LEMMA OldestFacts ==
    ASSUME NEW copies \in SUBSET Afters, copies # {}
    PROVE  Oldest(copies) \in copies
<1> DEFINE rank(a) == 8 * CompIx(a.comp) + a.group
           T == {rank(a) : a \in copies}
<1>1. \A a \in copies : CompIx(a.comp) \in Nat /\ a.group \in 1..7
  <2>1. \A a \in copies : a.comp \in Components /\ a.group \in 1..7
    BY DEF Afters
  <2> QED
    BY <2>1, CompIxFacts
<1>2. T \subseteq Nat /\ T # {}
  BY <1>1
<1>3. PICK x \in T : \A y \in T : x <= y
  BY <1>2, LeastNat
<1>4. PICK a \in copies : x = rank(a)
  BY <1>3
<1>5. \A o \in copies : \/ CompIx(a.comp) < CompIx(o.comp)
                        \/ CompIx(a.comp) = CompIx(o.comp) /\ a.group <= o.group
  <2>1. \A o \in copies : rank(a) <= rank(o)
    BY <1>3, <1>4
  <2> QED
    BY <1>1, <2>1
<1> QED
  BY <1>5 DEF Oldest

LEMMA InsertAdds ==
    ASSUME NEW ps, PsOk(ps), NEW p \in Packets, NEW new, new = InsertPacket(ps, p)
    PROVE  Adds("insert", ps, p, new)
<1>0. /\ ps \in PacketSeqs /\ ps.comps \in SUBSET Components /\ ps.secret \in SUBSET Components
      /\ ps.last \in Components /\ ps.after \in SUBSET Afters
  BY DEF PsOk, PacketSeqs
<1> DEFINE copies == {a \in ps.after : a.id = p.id}
           old    == Oldest(copies)
<1>1. new = CASE IsComponent(p) /\ p.comp \in ps.comps ->
                   [ps EXCEPT !.secret = IF p.secret THEN @ \cup {p.comp} ELSE @ \ {p.comp}]
              [] ~IsComponent(p) /\ copies # {} ->
                   [ps EXCEPT !.after = (@ \ {old}) \cup {[old EXCEPT !.tagged = p.tagged]}]
              [] OTHER -> AppendPacket(ps, p)
  BY DEF InsertPacket, Oldest, CompIx
<1>2. CASE IsComponent(p) /\ p.comp \in ps.comps
  <2>1. p.comp \in Components
    BY <1>2, PacketFacts
  <2> DEFINE s == IF p.secret THEN ps.secret \cup {p.comp} ELSE ps.secret \ {p.comp}
  <2>2. s \in SUBSET Components
    BY <1>0, <2>1
  <2>3. new = [ps EXCEPT !.secret = s]
    BY <1>1, <1>2
  <2> HIDE DEF s
  <2>4. /\ new \in PacketSeqs /\ new.comps = ps.comps /\ new.last = ps.last
        /\ new.after = ps.after
    BY <1>0, <2>2, <2>3 DEF PacketSeqs
  <2>5. PsOk(new)
    BY <2>4 DEF PsOk
  <2>6. \A i : p # [id |-> i, tagged |-> TRUE]
    BY <1>2 DEF IsComponent
  <2> QED
    BY <1>2, <2>4, <2>5, <2>6 DEF Adds, PsFindable
<1>3. CASE ~IsComponent(p) /\ copies # {}
  <2>1. p.id \in Ids /\ p.tagged \in BOOLEAN /\ p = [id |-> p.id, tagged |-> p.tagged]
    BY <1>3, PacketFacts
  <2>2. old \in copies
    BY <1>0, <1>3, OldestFacts
  <2> DEFINE x == [old EXCEPT !.tagged = p.tagged]
  <2>3. new = [ps EXCEPT !.after = (ps.after \ {old}) \cup {x}]
    BY <1>1, <1>3
  <2> HIDE DEF old
  <2>4. old \in ps.after /\ old \in Afters /\ old.id = p.id
    BY <1>0, <2>2
  <2>5. x \in Afters /\ x.comp = old.comp /\ x.id = old.id /\ x.tagged = p.tagged
    BY <2>1, <2>4 DEF Afters
  <2> HIDE DEF x
  <2>6. /\ new \in PacketSeqs /\ new.comps = ps.comps /\ new.last = ps.last
        /\ new.after = (ps.after \ {old}) \cup {x}
    BY <1>0, <2>3, <2>5 DEF PacketSeqs
  <2>7. PsOk(new)
    BY <2>4, <2>5, <2>6 DEF PsOk
  <2>8. p.id \in IdsOf(new.after)
    BY <2>4, <2>5, <2>6 DEF IdsOf
  <2>9. IdsOf(ps.after) \subseteq IdsOf(new.after)
    <3>1. ASSUME NEW a \in ps.after PROVE \E b \in new.after : b.id = a.id
      BY <2>4, <2>5, <2>6
    <3> QED
      BY <3>1 DEF IdsOf
  <2>10. ASSUME NEW a \in new.after, ~a.tagged
         PROVE  \/ \E b \in ps.after : b.id = a.id /\ ~b.tagged
                \/ p = [id |-> a.id, tagged |-> FALSE]
    <3>1. CASE a \in ps.after
      BY <2>10, <3>1
    <3>2. CASE a = x
      <4>1. p.tagged = FALSE /\ p.id = a.id
        BY <2>1, <2>4, <2>5, <2>10, <3>2
      <4> QED
        BY <2>1, <4>1
    <3> QED
      BY <2>6, <3>1, <3>2
  <2>11. ASSUME NEW i \in Ids, p = [id |-> i, tagged |-> TRUE]
         PROVE  PsFindable(new, i)
    <3>1. p.id = i /\ p.tagged
      BY <2>11
    <3> QED
      BY <2>4, <2>5, <2>6, <3>1 DEF PsFindable
  <2>12. ASSUME NEW i \in Ids, PsFindable(ps, i), p # [id |-> i, tagged |-> FALSE]
         PROVE  PsFindable(new, i)
    <3>1. PICK a \in ps.after : a.id = i /\ (a.tagged \/ a.comp # Sig[i].on)
      BY <2>12 DEF PsFindable
    <3>2. CASE a # old
      BY <2>6, <3>1, <3>2 DEF PsFindable
    <3>3. CASE a = old
      <4>1. p.id = i
        BY <2>4, <3>1, <3>3
      <4>2. p.tagged = TRUE
        BY <2>1, <2>12, <4>1
      <4>3. x.id = i /\ x.tagged
        BY <2>5, <3>1, <3>3, <4>2
      <4> QED
        BY <2>6, <4>3 DEF PsFindable
    <3> QED
      BY <3>2, <3>3
  <2> QED
    BY <2>7, <2>8, <2>9, <2>10, <2>11, <2>12 DEF Adds
<1>4. CASE ~(IsComponent(p) /\ p.comp \in ps.comps) /\ ~(~IsComponent(p) /\ copies # {})
  <2>1. new = AppendPacket(ps, p)
    BY <1>1, <1>4
  <2>2. Adds("append", ps, p, new)
    BY <2>1, AppendAdds
  <2> QED
    BY <2>2 DEF Adds
<1> QED
  BY <1>2, <1>3, <1>4
-----------------------------------------------------------------------------
(***************************************************************************)
(* FoldLeft, by its definition and the least-number principle.             *)
(***************************************************************************)
\* The greatest member.
LEMMA MaxOf ==
    ASSUME NEW n \in Nat, NEW s \in SUBSET (1..n), n \in s
    PROVE  Max(s) = n
<1> DEFINE P(x) == x \in s /\ \A y \in s : x >= y
<1>1. P(n)
  OBVIOUS
<1>2. \A x : P(x) => x = n
  OBVIOUS
<1>3. Max(s) = CHOOSE x \in s : \A y \in s : x >= y
  BY DEF Max
<1> QED
  BY <1>1, <1>2, <1>3

Adding(ins, ps, p) == IF ins = "insert" THEN InsertPacket(ps, p) ELSE AppendPacket(ps, p)

\* g is the function by which FoldLeft is defined.
IsFold(ins, g, b, u, n) ==
    g = [s \in SUBSET (1..n) |-> IF s = {} THEN b ELSE Adding(ins, g[s \ {Max(s)}], u[Max(s)])]

LEMMA FoldExists ==
    ASSUME NEW ins \in {"insert", "append"}, NEW b, NEW u, NEW n \in Nat
    PROVE  \E g : IsFold(ins, g, b, u, n)
<1> DEFINE T == {m \in Nat : ~ \E g : IsFold(ins, g, b, u, m)}
<1> SUFFICES ASSUME T # {} PROVE FALSE
  OBVIOUS
<1>1. PICK m \in T : \A k \in T : m <= k
  BY LeastNat
<1>2. m # 0
  <2> DEFINE g == [s \in SUBSET (1..0) |-> b]
  <2>1. \A s \in SUBSET (1..0) : s = {}
    OBVIOUS
  <2>2. IsFold(ins, g, b, u, 0)
    BY <2>1 DEF IsFold
  <2> QED
    BY <2>2
<1>3. m - 1 \in Nat /\ ~ (m <= m - 1)
  BY <1>2
<1>4. PICK f : IsFold(ins, f, b, u, m - 1)
  BY <1>1, <1>3
<1> DEFINE g == [s \in SUBSET (1..m) |-> IF m \in s THEN Adding(ins, f[s \ {m}], u[m]) ELSE f[s]]
<1>5. ASSUME NEW s \in SUBSET (1..m)
      PROVE  g[s] = IF s = {} THEN b ELSE Adding(ins, g[s \ {Max(s)}], u[Max(s)])
  <2>1. CASE m \in s
    <3>1. Max(s) = m
      BY <1>1, <2>1, MaxOf
    <3>2. s \ {m} \in SUBSET (1..m) /\ m \notin s \ {m}
      OBVIOUS
    <3>3. g[s \ {m}] = f[s \ {m}]
      BY <3>2
    <3>4. g[s] = Adding(ins, f[s \ {m}], u[m])
      BY <2>1
    <3> QED
      BY <2>1, <3>1, <3>3, <3>4
  <2>2. CASE m \notin s
    <3>1. s \in SUBSET (1..(m - 1))
      BY <1>3, <2>2
    <3>2. g[s] = f[s]
      BY <2>2
    <3>3. f[s] = IF s = {} THEN b ELSE Adding(ins, f[s \ {Max(s)}], u[Max(s)])
      BY <1>4, <3>1, Zenon DEF IsFold
    <3>4. m \notin s \ {Max(s)} /\ s \ {Max(s)} \in SUBSET (1..m)
      BY <2>2
    <3>5. g[s \ {Max(s)}] = f[s \ {Max(s)}]
      BY <3>4
    <3> QED
      BY <3>2, <3>3, <3>5
  <2> QED
    BY <2>1, <2>2
<1>6. IsFold(ins, g, b, u, m)
  <2> HIDE DEF g
  <2>1. g = [s \in SUBSET (1..m) |-> g[s]]
    BY DEF g
  <2>2. [s \in SUBSET (1..m) |-> g[s]]
         = [s \in SUBSET (1..m) |-> IF s = {} THEN b ELSE Adding(ins, g[s \ {Max(s)}], u[Max(s)])]
    BY <1>5, Zenon
  <2> QED
    BY <2>1, <2>2, Zenon DEF IsFold
<1> QED
  BY <1>1, <1>6

LEMMA FoldStep ==
    ASSUME NEW ins \in {"insert", "append"}, NEW b, NEW X, NEW u \in Seq(X)
    PROVE  \E h : /\ h[0] = b
                  /\ \A n \in 1..Len(u) : h[n] = Adding(ins, h[n - 1], u[n])
                  /\ ins = "insert" => FoldLeft(InsertPacket, b, u) = h[Len(u)]
                  /\ ins = "append" => FoldLeft(AppendPacket, b, u) = h[Len(u)]
<1>1. DOMAIN u = 1..Len(u) /\ Len(u) \in Nat
  OBVIOUS
<1> DEFINE it == CHOOSE g : IsFold(ins, g, b, u, Len(u))
<1>2. IsFold(ins, it, b, u, Len(u))
  <2>1. \E g : IsFold(ins, g, b, u, Len(u))
    BY <1>1, FoldExists
  <2> QED
    BY <2>1
<1>3. /\ ins = "insert" => FoldLeft(InsertPacket, b, u) = it[1..Len(u)]
      /\ ins = "append" => FoldLeft(AppendPacket, b, u) = it[1..Len(u)]
  <2>1. CASE ins = "insert"
    <3>1. \A g : IsFold(ins, g, b, u, Len(u)) <=>
            g = [s \in SUBSET (1..Len(u)) |->
                   IF s = {} THEN b ELSE InsertPacket(g[s \ {Max(s)}], u[Max(s)])]
      BY <2>1 DEF IsFold, Adding
    <3>2. it = CHOOSE g : g = [s \in SUBSET (1..Len(u)) |->
                   IF s = {} THEN b ELSE InsertPacket(g[s \ {Max(s)}], u[Max(s)])]
      BY <3>1
    <3> QED
      BY <1>1, <2>1, <3>2 DEF FoldLeft, MapThenFoldSet
  <2>2. CASE ins = "append"
    <3>1. \A g : IsFold(ins, g, b, u, Len(u)) <=>
            g = [s \in SUBSET (1..Len(u)) |->
                   IF s = {} THEN b ELSE AppendPacket(g[s \ {Max(s)}], u[Max(s)])]
      BY <2>2 DEF IsFold, Adding
    <3>2. it = CHOOSE g : g = [s \in SUBSET (1..Len(u)) |->
                   IF s = {} THEN b ELSE AppendPacket(g[s \ {Max(s)}], u[Max(s)])]
      BY <3>1
    <3> QED
      BY <1>1, <2>2, <3>2 DEF FoldLeft, MapThenFoldSet
  <2> QED
    BY <2>1, <2>2
<1> HIDE DEF it
<1> DEFINE h == [n \in 0..Len(u) |-> it[1..n]]
<1>4. ASSUME NEW s \in SUBSET (1..Len(u))
      PROVE  it[s] = IF s = {} THEN b ELSE Adding(ins, it[s \ {Max(s)}], u[Max(s)])
  BY <1>2, Zenon DEF IsFold
<1>5. h[0] = b
  <2>1. 1..0 = {}
    OBVIOUS
  <2>2. {} \in SUBSET (1..Len(u))
    OBVIOUS
  <2>3. it[{}] = b
    BY <1>4, <2>2
  <2> QED
    BY <1>1, <2>1, <2>3
<1>6. ASSUME NEW n \in 1..Len(u) PROVE h[n] = Adding(ins, h[n - 1], u[n])
  <2>0. n \in Nat /\ n - 1 \in 0..Len(u) /\ n \in 0..Len(u)
    BY <1>1
  <2>1. 1..n \in SUBSET (1..Len(u)) /\ n \in 1..n /\ 1..n # {}
    <3>1. \A m \in 1..n : m \in 1..Len(u)
      BY <1>1, <2>0
    <3>2. n \in 1..n
      BY <2>0
    <3> QED
      BY <3>1, <3>2
  <2>2. Max(1..n) = n
    BY <2>0, <2>1, MaxOf
  <2>3. (1..n) \ {n} = 1..(n - 1)
    BY <2>0
  <2>4. it[1..n] = Adding(ins, it[1..(n - 1)], u[n])
    BY <1>4, <2>1, <2>2, <2>3
  <2> QED
    BY <2>0, <2>4
<1>7. h[Len(u)] = it[1..Len(u)]
  BY <1>1
<1> HIDE DEF h
<1> QED
  BY <1>3, <1>5, <1>6, <1>7
\* What a whole sequence of packets does to the one it is added to.
AddsAll(ins, ps, u, new) ==
    /\ PsOk(new)
    /\ IdsOf(ps.after) \subseteq IdsOf(new.after)
    /\ \A e \in EntriesOf(u) : e.id \in IdsOf(new.after)
    /\ \A a \in new.after : ~a.tagged =>
         \/ \E b \in ps.after : b.id = a.id /\ ~b.tagged
         \/ [id |-> a.id, tagged |-> FALSE] \in EntriesOf(u)
    /\ \A i \in Ids :
         /\ ins = "insert" => [id |-> i, tagged |-> FALSE] \notin EntriesOf(u)
         /\ PsFindable(ps, i) \/ [id |-> i, tagged |-> TRUE] \in EntriesOf(u)
         => PsFindable(new, i)

LEMMA EntriesFacts ==
    ASSUME NEW u \in Seq(Packets)
    PROVE  \A e : e \in EntriesOf(u) <=> \E n \in 1..Len(u) : u[n] = e /\ ~IsComponent(e)
BY DEF EntriesOf, Range

LEMMA ChainAdds ==
    ASSUME NEW ins, NEW u \in Seq(Packets), NEW h, PsOk(h[0]),
           \A n \in 1..Len(u) : PsOk(h[n - 1]) => Adds(ins, h[n - 1], u[n], h[n])
    PROVE  AddsAll(ins, h[0], u, h[Len(u)])
<1> DEFINE Seen(e, n) == \E m \in 1..n : u[m] = e
           J(n) ==
             /\ PsOk(h[n])
             /\ IdsOf(h[0].after) \subseteq IdsOf(h[n].after)
             /\ \A m \in 1..n : ~IsComponent(u[m]) => u[m].id \in IdsOf(h[n].after)
             /\ \A a \in h[n].after : ~a.tagged =>
                  \/ \E b \in h[0].after : b.id = a.id /\ ~b.tagged
                  \/ Seen([id |-> a.id, tagged |-> FALSE], n)
             /\ \A i \in Ids :
                  /\ ins = "insert" => ~Seen([id |-> i, tagged |-> FALSE], Len(u))
                  /\ PsFindable(h[0], i) \/ Seen([id |-> i, tagged |-> TRUE], n)
                  => PsFindable(h[n], i)
<1>0. Len(u) \in Nat
  OBVIOUS
<1>1. J(0)
  OBVIOUS
<1>2. ASSUME NEW n \in 1..Len(u), J(n - 1) PROVE J(n)
  <2>0. n - 1 \in Nat /\ n \in 1..n /\ \A m \in 1..n : m = n \/ m \in 1..(n - 1)
    BY <1>0
  <2>1. PsOk(h[n - 1])
    BY <1>2
  <2>2. Adds(ins, h[n - 1], u[n], h[n])
    BY <2>1
  <2>3. PsOk(h[n]) /\ IdsOf(h[n - 1].after) \subseteq IdsOf(h[n].after)
        /\ (~IsComponent(u[n]) => u[n].id \in IdsOf(h[n].after))
    BY <2>2 DEF Adds
  <2>4. IdsOf(h[0].after) \subseteq IdsOf(h[n].after)
    BY <1>2, <2>3
  <2>5. \A m \in 1..n : ~IsComponent(u[m]) => u[m].id \in IdsOf(h[n].after)
    BY <1>2, <2>0, <2>3
  <2>6. ASSUME NEW e, Seen(e, n - 1) PROVE Seen(e, n)
    BY <1>0, <2>6
  <2>7. ASSUME NEW a \in h[n].after, ~a.tagged
        PROVE  \/ \E b \in h[0].after : b.id = a.id /\ ~b.tagged
               \/ Seen([id |-> a.id, tagged |-> FALSE], n)
    <3>1. CASE u[n] = [id |-> a.id, tagged |-> FALSE]
      BY <2>0, <3>1
    <3>2. CASE u[n] # [id |-> a.id, tagged |-> FALSE]
      <4>1. PICK b \in h[n - 1].after : b.id = a.id /\ ~b.tagged
        BY <2>2, <2>7, <3>2 DEF Adds
      <4>2. \/ \E o \in h[0].after : o.id = b.id /\ ~o.tagged
            \/ Seen([id |-> b.id, tagged |-> FALSE], n - 1)
        BY <1>2, <4>1
      <4> QED
        BY <2>6, <4>1, <4>2
    <3> QED
      BY <3>1, <3>2
  <2>8. ASSUME NEW i \in Ids, ins = "insert" => ~Seen([id |-> i, tagged |-> FALSE], Len(u)),
               PsFindable(h[0], i) \/ Seen([id |-> i, tagged |-> TRUE], n)
        PROVE  PsFindable(h[n], i)
    <3>1. ins = "insert" => u[n] # [id |-> i, tagged |-> FALSE]
      BY <2>8
    <3>2. CASE u[n] = [id |-> i, tagged |-> TRUE]
      BY <2>2, <3>2 DEF Adds
    <3>3. CASE u[n] # [id |-> i, tagged |-> TRUE]
      <4>1. PsFindable(h[0], i) \/ Seen([id |-> i, tagged |-> TRUE], n - 1)
        BY <2>0, <2>8, <3>3
      <4>2. PsFindable(h[n - 1], i)
        BY <1>2, <2>8, <4>1
      <4> QED
        BY <2>2, <3>1, <4>2 DEF Adds
    <3> QED
      BY <3>2, <3>3
  <2> QED
    BY <2>3, <2>4, <2>5, <2>7, <2>8
<1> HIDE DEF J
<1>3. \A n \in 0..Len(u) : J(n)
  <2> DEFINE T == {n \in 0..Len(u) : ~J(n)}
  <2> SUFFICES ASSUME T # {} PROVE FALSE
    OBVIOUS
  <2>1. T \subseteq Nat
    BY <1>0
  <2>2. PICK n \in T : \A k \in T : n <= k
    BY <2>1, LeastNat
  <2>3. n # 0
    BY <1>1, <2>2
  <2>4. n \in 1..Len(u) /\ n - 1 \in 0..Len(u) /\ ~ (n <= n - 1)
    BY <1>0, <2>2, <2>3
  <2>5. J(n - 1)
    BY <2>2, <2>4
  <2> QED
    BY <1>2, <2>2, <2>4, <2>5
<1>4. J(Len(u))
  BY <1>0, <1>3
<1>5. \A i : ~IsComponent([id |-> i, tagged |-> TRUE]) /\ ~IsComponent([id |-> i, tagged |-> FALSE])
  BY DEF IsComponent
<1>6. \A e : ~IsComponent(e) => (e \in EntriesOf(u) <=> Seen(e, Len(u)))
  BY EntriesFacts
<1>7. \A e \in EntriesOf(u) : \E m \in 1..Len(u) : u[m] = e /\ ~IsComponent(u[m])
  BY EntriesFacts
<1> HIDE DEF Seen
<1> QED
  BY <1>4, <1>5, <1>6, <1>7 DEF J, AddsAll
LEMMA FoldAppend ==
    ASSUME NEW u \in Seq(Packets), NEW ps, PsOk(ps)
    PROVE  AddsAll("append", ps, u, FoldLeft(AppendPacket, ps, u))
<1>1. PICK h : /\ h[0] = ps
               /\ \A n \in 1..Len(u) : h[n] = Adding("append", h[n - 1], u[n])
               /\ FoldLeft(AppendPacket, ps, u) = h[Len(u)]
  <2>1. "append" \in {"insert", "append"}
    OBVIOUS
  <2> QED
    BY <2>1, FoldStep
<1>2. \A n \in 1..Len(u) : PsOk(h[n - 1]) => Adds("append", h[n - 1], u[n], h[n])
  BY <1>1, AppendAdds DEF Adding
<1>3. AddsAll("append", h[0], u, h[Len(u)])
  BY <1>1, <1>2, ChainAdds
<1> QED
  BY <1>1, <1>3

LEMMA FoldInsert ==
    ASSUME NEW u \in Seq(Packets), NEW ps, PsOk(ps)
    PROVE  AddsAll("insert", ps, u, FoldLeft(InsertPacket, ps, u))
<1>1. PICK h : /\ h[0] = ps
               /\ \A n \in 1..Len(u) : h[n] = Adding("insert", h[n - 1], u[n])
               /\ FoldLeft(InsertPacket, ps, u) = h[Len(u)]
  <2>1. "insert" \in {"insert", "append"}
    OBVIOUS
  <2> QED
    BY <2>1, FoldStep
<1>2. \A n \in 1..Len(u) : PsOk(h[n - 1]) => Adds("insert", h[n - 1], u[n], h[n])
  BY <1>1, InsertAdds DEF Adding
<1>3. AddsAll("insert", h[0], u, h[Len(u)])
  BY <1>1, <1>2, ChainAdds
<1> QED
  BY <1>1, <1>3

\* Where the parser puts the signatures at first.
Parsed(a) == Place(a, a.comp, IF Known(a.comp) THEN split_sigs(a) ELSE "certifications")
RawOf(ps) == [comps |-> ps.comps, secret |-> ps.secret, bad |-> {},
              sigs |-> {Parsed(a) : a \in ps.after}]

LEMMA ParsedFacts ==
    ASSUME NEW a \in Afters
    PROVE  /\ Parsed(a) \in Placed /\ Parsed(a).comp = a.comp /\ Parsed(a).id = a.id
           /\ Parsed(a).tagged = a.tagged
           /\ Known(a.comp) => Parsed(a).field = split_sigs(a)
           /\ ~Known(a.comp) => Parsed(a).field = "certifications"
           /\ split_sigs(Parsed(a)) = split_sigs(a) /\ a.id \in Ids
           /\ split_sigs(a) \in Fields \ {"attestations"}
<1>1. a.id \in Ids /\ a.tagged \in BOOLEAN /\ a.comp \in Components
  BY DEF Afters
<1>2. split_sigs(a) \in Fields \ {"attestations"}
  BY <1>1, FieldsOf
<1> DEFINE f == IF Known(a.comp) THEN split_sigs(a) ELSE "certifications"
<1>3. f \in Fields
  BY <1>2 DEF Fields
<1>4. Parsed(a) = [comp |-> a.comp, field |-> f, id |-> a.id, tagged |-> a.tagged]
  BY DEF Parsed, Place
<1>5. (Known(a.comp) => f = split_sigs(a)) /\ (~Known(a.comp) => f = "certifications")
  OBVIOUS
<1> HIDE DEF f
<1>6. /\ Parsed(a) \in Placed /\ Parsed(a).comp = a.comp /\ Parsed(a).id = a.id
      /\ Parsed(a).tagged = a.tagged /\ Parsed(a).field = f
  BY <1>1, <1>3, <1>4 DEF Placed
<1>7. split_sigs(Parsed(a)) = split_sigs(a)
  BY <1>6, HomesOf
<1> QED
  BY <1>1, <1>2, <1>5, <1>6, <1>7

LEMMA ParseRaw ==
    ASSUME NEW ps, PsOk(ps)
    PROVE  /\ parse(ps) = canonicalize(RawOf(ps)) /\ RawOk(RawOf(ps))
           /\ IdsOf(RawOf(ps).sigs) = IdsOf(ps.after)
           /\ RawOf(ps).comps = ps.comps /\ RawOf(ps).secret = ps.secret
           /\ RawOf(ps).bad = {} /\ RawOf(ps).sigs = {Parsed(a) : a \in ps.after}
           /\ \A q \in RawOf(ps).sigs : ~q.tagged =>
                \E a \in ps.after : a.id = q.id /\ ~a.tagged
           /\ \A i \in Ids : GenuineId(i) /\ PsFindable(ps, i) => RawFindable(RawOf(ps), i)
<1>0. ps.comps \in SUBSET Components /\ ps.secret \in SUBSET Components
      /\ ps.after \in SUBSET Afters
  BY DEF PsOk, PacketSeqs
<1>1. parse(ps) = canonicalize(RawOf(ps))
  BY DEF parse, RawOf, Parsed
<1>2. /\ RawOf(ps).comps = ps.comps /\ RawOf(ps).bad = {} /\ RawOf(ps).secret = ps.secret
      /\ RawOf(ps).sigs = {Parsed(a) : a \in ps.after}
  BY DEF RawOf
<1>3. \A a \in ps.after :
           /\ Parsed(a) \in Placed /\ Parsed(a).comp = a.comp /\ Parsed(a).id = a.id
           /\ Parsed(a).tagged = a.tagged
           /\ Known(a.comp) => Parsed(a).field = split_sigs(a)
           /\ ~Known(a.comp) => Parsed(a).field = "certifications"
           /\ split_sigs(Parsed(a)) = split_sigs(a)
           /\ split_sigs(a) \in Fields \ {"attestations"}
  BY <1>0, ParsedFacts
<1>4. RawOf(ps) \in Copies
  <2>1. {Parsed(a) : a \in ps.after} \in SUBSET Placed
    BY <1>3
  <2> QED
    BY <1>0, <2>1 DEF RawOf, Copies
<1>5. RawOk(RawOf(ps))
  <2>1. ASSUME NEW q \in RawOf(ps).sigs
        PROVE  /\ q.comp \in ps.comps
               /\ Known(q.comp) => q.field # "attestations" /\ q.field = split_sigs(q)
               /\ ~Known(q.comp) => q.field = "certifications"
    <3>1. PICK a \in ps.after : q = Parsed(a)
      BY <1>2
    <3>2. a.comp \in ps.comps
      BY DEF PsOk
    <3> QED
      BY <1>3, <3>1, <3>2
  <2>2. SingleIds(RawOf(ps).bad)
    BY <1>2 DEF SingleIds
  <2> QED
    BY <1>2, <1>4, <2>1, <2>2 DEF RawOk, PsOk
<1>6. IdsOf(RawOf(ps).sigs) = IdsOf(ps.after)
  BY <1>2, <1>3 DEF IdsOf
<1>7. \A q \in RawOf(ps).sigs : ~q.tagged => \E a \in ps.after : a.id = q.id /\ ~a.tagged
  BY <1>2, <1>3
<1>8. ASSUME NEW i \in Ids, GenuineId(i), PsFindable(ps, i)
      PROVE  RawFindable(RawOf(ps), i)
  <2>1. PICK a \in ps.after : a.id = i /\ (a.tagged \/ a.comp # Sig[i].on)
    BY <1>8 DEF PsFindable
  <2>2. CASE a.comp # Sig[i].on
    BY <1>2, <1>3, <2>1, <2>2 DEF RawFindable
  <2>3. CASE a.comp = Sig[i].on /\ a.tagged
    <3>1. Sig[i].claims = "self" /\ Known(a.comp)
      BY <1>8, <2>3, SigFacts DEF GenuineId
    <3>2. split_sigs(a) \in Own
      BY <2>1, <2>3, <3>1 DEF split_sigs, Own
    <3> QED
      BY <1>2, <1>3, <2>1, <3>1, <3>2 DEF RawFindable
  <2> QED
    BY <2>1, <2>2, <2>3
<1> QED
  BY <1>1, <1>2, <1>5, <1>6, <1>7, <1>8
LEMMA LastFacts ==
    ASSUME NEW comps \in SUBSET Components, Primary \in comps
    PROVE  LastOf(comps) \in comps
<1> DEFINE there == {n \in DOMAIN Order : Order[n] \in comps}
<1>0. DOMAIN Order = 1..Len(Order) /\ Len(Order) \in Nat
  BY CertificateAssumption
<1>1. CASE there = {}
  BY <1>1 DEF LastOf
<1>2. CASE there # {}
  <2> DEFINE T == {Len(Order) - n : n \in there}
  <2>1. T \subseteq Nat /\ T # {}
    BY <1>0, <1>2
  <2>2. PICK x \in T : \A y \in T : x <= y
    BY <2>1, LeastNat
  <2>3. PICK m \in there : x = Len(Order) - m
    BY <2>2
  <2>4. \A n \in there : Len(Order) - m <= Len(Order) - n
    BY <2>2, <2>3
  <2>5. \A n \in there : m >= n
    BY <1>0, <2>4
  <2>6. Max(there) \in there
    BY <2>5 DEF Max
  <2>7. LastOf(comps) = Order[Max(there)]
    BY <1>2 DEF LastOf
  <2> QED
    BY <2>6, <2>7
<1> QED
  BY <1>1, <1>2

GroupOf(f) == CHOOSE g \in 1..5 : VectorOrder[g] = f

LEMMA GroupFacts ==
    ASSUME NEW f \in Fields
    PROVE  GroupOf(f) \in 1..7
<1>0. /\ VectorOrder[1] = "self_revocations" /\ VectorOrder[2] = "self_signatures"
      /\ VectorOrder[3] = "attestations" /\ VectorOrder[4] = "certifications"
      /\ VectorOrder[5] = "other_revocations"
  BY DEF VectorOrder
<1>1. \E g \in 1..5 : VectorOrder[g] = f
  BY <1>0 DEF Fields, Own
<1>2. GroupOf(f) \in 1..5
  BY <1>1 DEF GroupOf
<1> QED
  BY <1>2

LEMMA IntoPackets ==
    ASSUME NEW c \in Copies, Settled(c), NEW ps, ps = into_packets(c)
    PROVE  /\ PsOk(ps) /\ ps.comps = c.comps /\ ps.secret = c.secret
           /\ ps.after = {After(q, q.comp, GroupOf(q.field)) : q \in c.sigs}
                           \cup {After(e, LastOf(c.comps), 6) : e \in c.bad}
           /\ IdsOf(ps.after) = IdsOf(c.sigs) \cup IdsOf(c.bad)
           /\ \A a \in ps.after : \E q \in c.sigs \cup c.bad : q.id = a.id /\ a.tagged = q.tagged
           /\ \A i \in Ids : GenuineId(i) /\ Findable(c, i) => PsFindable(ps, i)
<1>0. /\ c.comps \in SUBSET Components /\ c.secret \in SUBSET Components
      /\ c.bad \in SUBSET Entries /\ c.sigs \in SUBSET Placed /\ Primary \in c.comps
  BY DEF Copies, Settled
<1> DEFINE last == LastOf(c.comps)
           sig(q) == After(q, q.comp, GroupOf(q.field))
           bad(e) == After(e, last, 6)
<1>1. last \in c.comps /\ last \in Components
  BY <1>0, LastFacts
<1>2. ASSUME NEW q \in c.sigs
      PROVE  /\ sig(q) \in Afters /\ sig(q).comp = q.comp /\ sig(q).id = q.id
             /\ sig(q).tagged = q.tagged /\ q.comp \in c.comps
  <2>1. q.comp \in Components /\ q.field \in Fields /\ q.id \in Ids /\ q.tagged \in BOOLEAN
    BY <1>0 DEF Placed
  <2>2. GroupOf(q.field) \in 1..7
    BY <2>1, GroupFacts
  <2>3. q.comp \in c.comps
    BY DEF Settled
  <2> QED
    BY <2>1, <2>2, <2>3, AfterFacts
<1>3. ASSUME NEW e \in c.bad
      PROVE  /\ bad(e) \in Afters /\ bad(e).comp = last /\ bad(e).id = e.id
             /\ bad(e).tagged = e.tagged
  <2>1. e.id \in Ids /\ e.tagged \in BOOLEAN
    BY <1>0 DEF Entries
  <2> QED
    BY <1>1, <2>1, AfterFacts
<1>4. ps = [comps |-> c.comps, secret |-> c.secret, last |-> last,
            after |-> {sig(q) : q \in c.sigs} \cup {bad(e) : e \in c.bad}]
  BY DEF into_packets, GroupOf
<1> HIDE DEF last, sig, bad
<1>5. /\ ps.comps = c.comps /\ ps.secret = c.secret /\ ps.last = last
      /\ ps.after = {sig(q) : q \in c.sigs} \cup {bad(e) : e \in c.bad}
  BY <1>4
<1>6. PsOk(ps)
  <2>1. {sig(q) : q \in c.sigs} \cup {bad(e) : e \in c.bad} \in SUBSET Afters
    BY <1>2, <1>3
  <2>2. ps \in PacketSeqs
    BY <1>0, <1>1, <1>4, <2>1 DEF PacketSeqs
  <2>3. \A a \in ps.after : a.comp \in ps.comps
    BY <1>1, <1>2, <1>3, <1>5
  <2> QED
    BY <1>0, <1>1, <1>5, <2>2, <2>3 DEF PsOk
<1>7. IdsOf(ps.after) = IdsOf(c.sigs) \cup IdsOf(c.bad)
  BY <1>2, <1>3, <1>5 DEF IdsOf
<1>8. \A a \in ps.after : \E q \in c.sigs \cup c.bad : q.id = a.id /\ a.tagged = q.tagged
  BY <1>2, <1>3, <1>5
<1>9. ASSUME NEW i \in Ids, GenuineId(i), Findable(c, i)
      PROVE  PsFindable(ps, i)
  <2>1. CASE i \in IdsOf(c.bad)
    <3>1. PICK e \in c.bad : e.id = i
      BY <2>1 DEF IdsOf
    <3>2. Homes(e, c.comps) = {}
      BY DEF Settled
    <3>3. Sig[i].on \notin c.comps
      <4>1. Sig[i].claims = "self" /\ Kind[Sig[i].on] \in KindsFor(Sig[i].typ)
        BY <1>9, SigFacts DEF GenuineId
      <4>2. Verifies(i, Sig[i].on, Sig[i].typ)
        BY <1>9 DEF Verifies, GenuineId
      <4>3. IsSelfSig(e)
        BY <3>1, <4>1 DEF IsSelfSig
      <4> QED
        BY <3>1, <3>2, <4>1, <4>2, <4>3 DEF Homes
    <3> QED
      BY <1>1, <1>3, <1>5, <3>1, <3>3 DEF PsFindable
  <2>2. CASE \E q \in c.sigs : q.id = i /\ (Known(q.comp) => q.field \in Own)
    <3>1. PICK q \in c.sigs : q.id = i /\ (Known(q.comp) => q.field \in Own)
      BY <2>2
    <3>2. CASE Known(q.comp)
      <4>1. q.tagged
        BY <3>1, <3>2 DEF Settled, SettledKnown
      <4> QED
        BY <1>2, <1>5, <3>1, <4>1 DEF PsFindable
    <3>3. CASE ~Known(q.comp)
      <4>1. q.comp # Sig[i].on
        BY <1>9, <3>3 DEF GenuineId
      <4> QED
        BY <1>2, <1>5, <3>1, <4>1 DEF PsFindable
    <3> QED
      BY <3>2, <3>3
  <2> QED
    BY <1>9, <2>1, <2>2 DEF Findable
<1> QED
  BY <1>5, <1>6, <1>7, <1>8, <1>9 DEF sig, bad, last
-----------------------------------------------------------------------------
(***************************************************************************)
(* The operations preserve the invariant.                                  *)
(***************************************************************************)
CopyOk(c, given) == c \in Copies /\ Settled(c) /\ Single(c) /\ Remembers(c, given)

LEMMA CanonicalCopy ==
    ASSUME NEW raw, RawOk(raw), NEW given \in SUBSET Entries,
           \A e \in given : e.id \in IdsOf(raw.sigs) \cup IdsOf(raw.bad),
           \A q \in raw.sigs \cup raw.bad : ~q.tagged => [id |-> q.id, tagged |-> FALSE] \in given,
           \A e \in given : Genuine(e) => RawFindable(raw, e.id)
    PROVE  CopyOk(canonicalize(raw), given)
<1> DEFINE c == canonicalize(raw)
<1>1. c \in Copies /\ Settled(c) /\ Single(c)
  BY CanonicalResult
<1>2. /\ \A q \in raw.sigs \cup raw.bad : q.id \in IdsOf(c.sigs) \cup IdsOf(c.bad)
      /\ \A x \in c.sigs \cup c.bad : ~x.tagged =>
           \E q \in raw.sigs \cup raw.bad : q.id = x.id /\ ~q.tagged
  BY CanonicalKeeps
<1>3. \A i \in Ids : GenuineId(i) /\ RawFindable(raw, i) => Findable(c, i)
  BY CanonicalFinds
<1> HIDE DEF c
<1>4. \A e \in given : e.id \in IdsOf(c.sigs) \cup IdsOf(c.bad)
  <2>1. \A i \in IdsOf(raw.sigs) \cup IdsOf(raw.bad) : i \in IdsOf(c.sigs) \cup IdsOf(c.bad)
    BY <1>2 DEF IdsOf
  <2> QED
    BY <2>1
<1>5. \A x \in c.sigs \cup c.bad : ~x.tagged => [id |-> x.id, tagged |-> FALSE] \in given
  <2> TAKE x \in c.sigs \cup c.bad
  <2> HAVE ~x.tagged
  <2>1. PICK q \in raw.sigs \cup raw.bad : q.id = x.id /\ ~q.tagged
    BY <1>2
  <2>2. [id |-> q.id, tagged |-> FALSE] \in given
    BY <2>1
  <2> QED
    BY <2>1, <2>2
<1>6. \A e \in given : Genuine(e) => Findable(c, e.id)
  BY <1>3 DEF Genuine, Entries
<1>7. CopyOk(c, given)
  BY <1>1, <1>4, <1>5, <1>6 DEF CopyOk, Remembers
<1> QED
  BY <1>7 DEF c

LEMMA ParseCopy ==
    ASSUME NEW ps, PsOk(ps), NEW given \in SUBSET Entries,
           \A e \in given : e.id \in IdsOf(ps.after),
           \A a \in ps.after : ~a.tagged => [id |-> a.id, tagged |-> FALSE] \in given,
           \A e \in given : Genuine(e) => PsFindable(ps, e.id)
    PROVE  CopyOk(parse(ps), given)
<1> DEFINE raw == RawOf(ps)
<1>1. /\ parse(ps) = canonicalize(raw) /\ RawOk(raw)
      /\ IdsOf(raw.sigs) = IdsOf(ps.after) /\ raw.bad = {}
      /\ \A q \in raw.sigs : ~q.tagged => \E a \in ps.after : a.id = q.id /\ ~a.tagged
      /\ \A i \in Ids : GenuineId(i) /\ PsFindable(ps, i) => RawFindable(raw, i)
  BY ParseRaw
<1> HIDE DEF raw
<1>2. \A e \in given : e.id \in IdsOf(raw.sigs) \cup IdsOf(raw.bad)
  BY <1>1
<1>3. \A q \in raw.sigs \cup raw.bad : ~q.tagged => [id |-> q.id, tagged |-> FALSE] \in given
  <2> TAKE q \in raw.sigs \cup raw.bad
  <2> HAVE ~q.tagged
  <2>1. PICK a \in ps.after : a.id = q.id /\ ~a.tagged
    BY <1>1
  <2>2. [id |-> a.id, tagged |-> FALSE] \in given
    BY <2>1
  <2> QED
    BY <2>1, <2>2
<1>4. \A e \in given : Genuine(e) => RawFindable(raw, e.id)
  BY <1>1 DEF Genuine, Entries
<1> QED
  BY <1>1, <1>2, <1>3, <1>4, CanonicalCopy

LEMMA EntriesTyped ==
    ASSUME NEW u \in Updates \cup Inserts
    PROVE  u \in Seq(Packets) /\ EntriesOf(u) \in SUBSET Entries
<1>1. u \in Seq(Packets)
  BY CertificateAssumption
<1>2. ASSUME NEW e \in EntriesOf(u) PROVE e \in Entries
  <2>1. PICK n \in 1..Len(u) : u[n] = e /\ ~IsComponent(e)
    BY <1>1, EntriesFacts
  <2>2. e \in Packets
    BY <1>1, <2>1
  <2> QED
    BY <2>1, <2>2, PacketFacts
<1> QED
  BY <1>1, <1>2

LEMMA GenuineEntry ==
    ASSUME NEW e \in Entries, Genuine(e)
    PROVE  e.id \in Ids /\ GenuineId(e.id) /\ e = [id |-> e.id, tagged |-> TRUE]
<1>1. e.id \in Ids /\ e.tagged \in BOOLEAN /\ e = [id |-> e.id, tagged |-> e.tagged]
  BY DEF Entries
<1>2. e.tagged /\ GenuineId(e.id)
  BY DEF Genuine
<1>3. e.tagged = TRUE
  BY <1>1, <1>2
<1> QED
  BY <1>1, <1>2, <1>3

LEMMA ParseStep ==
    ASSUME NEW u \in Updates
    PROVE  CopyOk(parse(FoldLeft(AppendPacket, OnlyPrimary, u)), EntriesOf(u))
<1>1. u \in Seq(Packets) /\ EntriesOf(u) \in SUBSET Entries
  BY EntriesTyped
<1>2. PsOk(OnlyPrimary) /\ OnlyPrimary.after = {}
  BY DEF OnlyPrimary, PsOk, PacketSeqs, Components
<1> DEFINE ps == FoldLeft(AppendPacket, OnlyPrimary, u)
<1>3. AddsAll("append", OnlyPrimary, u, ps)
  BY <1>1, <1>2, FoldAppend
<1> HIDE DEF ps
<1>4. PsOk(ps) /\ (\A e \in EntriesOf(u) : e.id \in IdsOf(ps.after))
      /\ (\A a \in ps.after : ~a.tagged => [id |-> a.id, tagged |-> FALSE] \in EntriesOf(u))
  BY <1>2, <1>3 DEF AddsAll
<1>5. \A e \in EntriesOf(u) : Genuine(e) => PsFindable(ps, e.id)
  <2> TAKE e \in EntriesOf(u)
  <2> HAVE Genuine(e)
  <2>1. e.id \in Ids /\ e = [id |-> e.id, tagged |-> TRUE]
    BY <1>1, GenuineEntry
  <2> QED
    BY <1>3, <2>1 DEF AddsAll
<1> QED
  BY <1>1, <1>4, <1>5, ParseCopy DEF ps
LEMMA InsertStep ==
    ASSUME NEW u \in Inserts, NEW given \in SUBSET Entries, NEW c, CopyOk(c, given)
    PROVE  CopyOk(parse(FoldLeft(InsertPacket, into_packets(c), u)),
                  {e \in given \cup EntriesOf(u) : ~Untagged(e, EntriesOf(u))})
<1>1. u \in Seq(Packets) /\ EntriesOf(u) \in SUBSET Entries
  BY EntriesTyped
<1>2. c \in Copies /\ Settled(c) /\ Remembers(c, given)
  BY DEF CopyOk
<1> DEFINE ps0 == into_packets(c)
           ps  == FoldLeft(InsertPacket, ps0, u)
           E   == EntriesOf(u)
           new == {e \in given \cup E : ~Untagged(e, E)}
<1>3. /\ PsOk(ps0)
      /\ IdsOf(ps0.after) = IdsOf(c.sigs) \cup IdsOf(c.bad)
      /\ \A a \in ps0.after : \E q \in c.sigs \cup c.bad : q.id = a.id /\ a.tagged = q.tagged
      /\ \A i \in Ids : GenuineId(i) /\ Findable(c, i) => PsFindable(ps0, i)
  BY <1>2, IntoPackets
<1>4. AddsAll("insert", ps0, u, ps)
  BY <1>1, <1>3, FoldInsert
<1> HIDE DEF ps0, ps
<1>5. new \in SUBSET Entries
  BY <1>1
<1>6. PsOk(ps)
  BY <1>4 DEF AddsAll
<1>7. \A e \in new : e.id \in IdsOf(ps.after)
  BY <1>2, <1>3, <1>4 DEF AddsAll, Remembers
<1>8. \A a \in ps.after : ~a.tagged => [id |-> a.id, tagged |-> FALSE] \in new
  <2> TAKE a \in ps.after
  <2> HAVE ~a.tagged
  <2> DEFINE e == [id |-> a.id, tagged |-> FALSE]
  <2>1. ~Untagged(e, E)
    BY DEF Untagged
  <2>2. CASE e \in E
    BY <2>1, <2>2
  <2>3. CASE e \notin E
    <3>1. PICK b \in ps0.after : b.id = a.id /\ ~b.tagged
      BY <1>4, <2>3 DEF AddsAll
    <3>2. PICK q \in c.sigs \cup c.bad : q.id = b.id /\ ~q.tagged
      BY <1>3, <3>1
    <3>3. [id |-> q.id, tagged |-> FALSE] \in given
      BY <1>2, <3>2 DEF Remembers
    <3>4. e \in given
      BY <3>1, <3>2, <3>3
    <3> QED
      BY <2>1, <3>4
  <2> QED
    BY <2>2, <2>3
<1>9. \A e \in new : Genuine(e) => PsFindable(ps, e.id)
  <2> TAKE e \in new
  <2> HAVE Genuine(e)
  <2>1. e.id \in Ids /\ GenuineId(e.id) /\ e = [id |-> e.id, tagged |-> TRUE]
    BY <1>5, GenuineEntry
  <2>2. [e EXCEPT !.tagged = FALSE] = [id |-> e.id, tagged |-> FALSE] /\ e.tagged
    <3> DEFINE x == [e EXCEPT !.tagged = FALSE]
    <3>1. x \in Entries /\ x.id = e.id /\ x.tagged = FALSE /\ e.tagged
      BY <1>5, <2>1 DEF Entries, Genuine
    <3> HIDE DEF x
    <3>2. x = [id |-> e.id, tagged |-> FALSE]
      BY <3>1 DEF Entries
    <3> QED
      BY <3>1, <3>2 DEF x
  <2>3. [id |-> e.id, tagged |-> FALSE] \notin E
    BY <2>2 DEF Untagged
  <2>4. e \in given => PsFindable(ps0, e.id)
    BY <1>2, <1>3, <2>1 DEF Remembers
  <2>5. PsFindable(ps0, e.id) \/ [id |-> e.id, tagged |-> TRUE] \in E
    BY <2>1, <2>4
  <2> QED
    BY <1>4, <2>1, <2>3, <2>5 DEF AddsAll
<1>10. CopyOk(parse(ps), new)
  BY <1>5, <1>6, <1>7, <1>8, <1>9, ParseCopy
<1> QED
  BY <1>10 DEF ps, ps0

\* What MergeInto hands to canonicalize.
Joined(c, o) ==
    [comps |-> c.comps \cup {k \in o.comps : Known(k)}, secret |-> c.secret \cup o.secret,
     bad |-> KeepFirst(c.bad, o.bad), sigs |-> c.sigs \cup {q \in o.sigs : Known(q.comp)}]

LEMMA JoinedRaw ==
    ASSUME NEW c \in Copies, Settled(c), Single(c), NEW o \in Copies, Settled(o), Single(o)
    PROVE  /\ MergeInto(c, o) = canonicalize(Joined(c, o)) /\ RawOk(Joined(c, o))
           /\ Joined(c, o).comps = c.comps \cup {k \in o.comps : Known(k)}
           /\ Joined(c, o).secret = c.secret \cup o.secret
           /\ Joined(c, o).bad = KeepFirst(c.bad, o.bad)
           /\ Joined(c, o).sigs = c.sigs \cup {q \in o.sigs : Known(q.comp)}
<1> DEFINE raw == Joined(c, o)
<1>0. /\ c.comps \in SUBSET Components /\ c.secret \in SUBSET Components
      /\ c.bad \in SUBSET Entries /\ c.sigs \in SUBSET Placed
      /\ o.comps \in SUBSET Components /\ o.secret \in SUBSET Components
      /\ o.bad \in SUBSET Entries /\ o.sigs \in SUBSET Placed
  BY DEF Copies
<1>1. MergeInto(c, o) = canonicalize(raw)
  BY DEF MergeInto, Joined
<1>2. /\ raw.comps = c.comps \cup {k \in o.comps : Known(k)}
      /\ raw.secret = c.secret \cup o.secret /\ raw.bad = KeepFirst(c.bad, o.bad)
      /\ raw.sigs = c.sigs \cup {q \in o.sigs : Known(q.comp)}
  BY DEF Joined
<1>3. KeepFirst(c.bad, o.bad) \in SUBSET Entries /\ SingleIds(KeepFirst(c.bad, o.bad))
  BY <1>0, KeepFirstFacts DEF Single
<1>4. raw \in Copies
  BY <1>0, <1>3 DEF Joined, Copies
<1>5. \A q \in raw.sigs :
         /\ q.comp \in raw.comps
         /\ Known(q.comp) =>
              /\ q.field = "attestations" => Verifies(q.id, q.comp, "AttestationKey")
              /\ q.field \notin Own => q.field = split_sigs(q)
  BY <1>2 DEF Settled, SettledKnown
<1>6. \A q, r \in raw.sigs :
         q.id = r.id /\ q.comp = r.comp /\ ~Known(q.comp) => q.field = r.field
  BY <1>2 DEF Single, SingleSigs
<1>7. Primary \in raw.comps
  BY <1>2 DEF Settled
<1>8. RawOk(raw)
  BY <1>2, <1>3, <1>4, <1>5, <1>6, <1>7 DEF RawOk
<1> QED
  BY <1>1, <1>2, <1>8

\* What the history takes over with a merge, and what it keeps without k.
Taken(theirs, o) == {e \in theirs : e.id \notin LeftBehind(o)}
Gone(c, k) == {q \in c.sigs : q.comp = k}
Kept(c, k) == (c.sigs \ Gone(c, k)) \cup c.bad
Rest(given, c, k) ==
    {e \in given : e.id \in IdsOf(Gone(c, k)) => ~e.tagged /\ e.id \in IdsOf(Kept(c, k))}
Without(c, k) == [c EXCEPT !.comps = c.comps \ {k}, !.secret = c.secret \ {k},
                           !.sigs = c.sigs \ Gone(c, k)]

LEMMA MergeStep ==
    ASSUME NEW given \in SUBSET Entries, NEW c, CopyOk(c, given),
           NEW theirs \in SUBSET Entries, NEW o, CopyOk(o, theirs), NEW new, new = MergeInto(c, o)
    PROVE  CopyOk(new, given \cup Taken(theirs, o))
<1> DEFINE raw == Joined(c, o)
           more == Taken(theirs, o)
<1>0. more = {e \in theirs : e.id \notin LeftBehind(o)}
  BY DEF Taken
<1> HIDE DEF more
<1> USE <1>0
<1>1. /\ c \in Copies /\ Settled(c) /\ Single(c) /\ Remembers(c, given)
      /\ o \in Copies /\ Settled(o) /\ Single(o) /\ Remembers(o, theirs)
  BY DEF CopyOk
<1>2. /\ new = canonicalize(raw) /\ RawOk(raw) /\ raw.bad = KeepFirst(c.bad, o.bad)
      /\ raw.sigs = c.sigs \cup {q \in o.sigs : Known(q.comp)}
  BY <1>1, JoinedRaw
<1> HIDE DEF raw
<1>3. /\ new \in Copies /\ Settled(new) /\ Single(new)
  BY <1>2, CanonicalResult
<1>4. /\ \A q \in raw.sigs \cup raw.bad : q.id \in IdsOf(new.sigs) \cup IdsOf(new.bad)
      /\ \A x \in new.sigs \cup new.bad : ~x.tagged =>
           \E q \in raw.sigs \cup raw.bad : q.id = x.id /\ ~q.tagged
  BY <1>2, CanonicalKeeps
<1>5. \A i \in Ids : GenuineId(i) /\ RawFindable(raw, i) => Findable(new, i)
  BY <1>2, CanonicalFinds
<1>6. /\ raw.bad \subseteq c.bad \cup o.bad
      /\ \A e \in c.bad \cup o.bad : e.id \in IdsOf(raw.bad)
  BY <1>2, KeepFirstFacts DEF IdsOf
<1>7. \A e \in raw.sigs : e.id \in IdsOf(new.sigs) \cup IdsOf(new.bad)
  BY <1>4
<1>8. \A i \in IdsOf(raw.bad) : i \in IdsOf(new.sigs) \cup IdsOf(new.bad)
  BY <1>4 DEF IdsOf
<1>9. ASSUME NEW e \in given \cup more
      PROVE  e.id \in IdsOf(new.sigs) \cup IdsOf(new.bad)
  <2>1. CASE e \in given
    <3>1. e.id \in IdsOf(c.sigs) \cup IdsOf(c.bad)
      BY <1>1, <2>1 DEF Remembers
    <3>2. \E q \in c.sigs \cup c.bad : q.id = e.id
      BY <3>1 DEF IdsOf
    <3> QED
      BY <1>2, <1>6, <1>7, <1>8, <3>2
  <2>2. CASE e \in more
    <3>1. e.id \in IdsOf(o.sigs) \cup IdsOf(o.bad)
      BY <1>1, <2>2 DEF Remembers
    <3>2. PICK q \in o.bad \cup {r \in o.sigs : Known(r.comp)} : q.id = e.id
      BY <2>2, <3>1 DEF IdsOf, LeftBehind
    <3>3. q \in raw.sigs \/ q \in o.bad
      BY <1>2, <3>2
    <3> QED
      BY <1>6, <1>7, <1>8, <3>2, <3>3
  <2> QED
    BY <2>1, <2>2
<1>10. ASSUME NEW x \in new.sigs \cup new.bad, ~x.tagged
       PROVE  [id |-> x.id, tagged |-> FALSE] \in given \cup more
  <2> DEFINE e == [id |-> x.id, tagged |-> FALSE]
  <2>1. PICK q \in raw.sigs \cup raw.bad : q.id = x.id /\ ~q.tagged
    BY <1>4, <1>10
  <2>2. q \in c.sigs \cup c.bad \/ q \in o.bad \cup {r \in o.sigs : Known(r.comp)}
    BY <1>2, <1>6
  <2>3. CASE q \in c.sigs \cup c.bad
    <3>1. [id |-> q.id, tagged |-> FALSE] \in given
      BY <1>1, <2>1, <2>3 DEF Remembers
    <3> QED
      BY <2>1, <3>1
  <2>4. CASE q \in o.bad \cup {r \in o.sigs : Known(r.comp)}
    <3>1. [id |-> q.id, tagged |-> FALSE] \in theirs
      BY <1>1, <2>1, <2>4 DEF Remembers
    <3>2. e \in theirs
      BY <2>1, <3>1
    <3>3. e.id \notin LeftBehind(o)
      BY <2>1, <2>4 DEF IdsOf, LeftBehind
    <3> HIDE DEF e
    <3>4. e \in more
      BY <3>2, <3>3
    <3> QED
      BY <3>4 DEF e
  <2> QED
    BY <2>2, <2>3, <2>4
<1>11. ASSUME NEW e \in given \cup more, Genuine(e)
       PROVE  Findable(new, e.id)
  <2>0. e \in Entries
    OBVIOUS
  <2>1. e.id \in Ids /\ GenuineId(e.id) /\ e.tagged
    BY <1>11, <2>0, GenuineEntry DEF Genuine
  <2>2. RawFindable(raw, e.id)
    <3>1. CASE e \in given
      <4>1. Findable(c, e.id)
        BY <1>1, <1>11, <3>1 DEF Remembers
      <4>2. CASE e.id \in IdsOf(c.bad)
        BY <1>6, <4>2 DEF RawFindable, IdsOf
      <4>3. CASE \E q \in c.sigs : q.id = e.id /\ (Known(q.comp) => q.field \in Own)
        BY <1>2, <2>1, <4>3 DEF RawFindable, GenuineId
      <4> QED
        BY <4>1, <4>2, <4>3 DEF Findable
    <3>2. CASE e \in more
      <4>1. Findable(o, e.id)
        BY <1>1, <1>11, <3>2 DEF Remembers
      <4>2. CASE e.id \in IdsOf(o.bad)
        BY <1>6, <4>2 DEF RawFindable, IdsOf
      <4>3. CASE \E q \in o.sigs : q.id = e.id /\ Known(q.comp) /\ q.field \in Own
        BY <1>2, <2>1, <4>3 DEF RawFindable, GenuineId
      <4>4. CASE e.id \notin IdsOf(o.bad) /\ \E q \in o.sigs : q.id = e.id /\ ~Known(q.comp)
        <5>1. PICK q \in o.sigs : q.id = e.id /\ ~Known(q.comp)
          BY <4>4
        <5>2. PICK r \in o.sigs : r.id = e.id /\ Known(r.comp)
          BY <3>2, <4>4, <5>1 DEF LeftBehind, IdsOf
        <5>3. r \in Placed /\ SettledKnown(r)
          BY <1>1, <5>2 DEF Copies, Settled
        <5>4. r.field \notin Own => r.comp \in Sig[e.id].looks
          BY <5>2, <5>3 DEF SettledKnown, Stays, Own
        <5>5. r.field \notin Own => Sig[e.id].on \in o.comps
          BY <1>1, <2>1, <5>2, <5>4 DEF GenuineId, Settled
        <5>6. Sig[e.id].claims = "self" /\ Kind[Sig[e.id].on] \in KindsFor(Sig[e.id].typ)
          BY <2>1, SigFacts DEF GenuineId
        <5>7. r.field \notin Own => Sig[e.id].on \in Homes(q, o.comps)
          BY <2>1, <5>1, <5>5, <5>6 DEF Homes, IsSelfSig, Verifies, GenuineId
        <5>8. r.field \in Own
          BY <1>1, <5>1, <5>7 DEF Settled, SettledUnknown
        <5> QED
          BY <4>3, <5>2, <5>8
      <4> QED
        BY <4>1, <4>2, <4>3, <4>4 DEF Findable
    <3> QED
      BY <2>1, <3>1, <3>2
  <2> QED
    BY <1>5, <2>1, <2>2
<1>12. CopyOk(new, given \cup more)
  BY <1>3, <1>9, <1>10, <1>11 DEF CopyOk, Remembers
<1> QED
  BY <1>12 DEF more

LEMMA RetainStep ==
    ASSUME NEW given \in SUBSET Entries, NEW c, CopyOk(c, given), NEW k \in c.comps, k # Primary
    PROVE  CopyOk(Without(c, k), Rest(given, c, k))
<1> DEFINE gone == Gone(c, k)
           kept == Kept(c, k)
           new  == Without(c, k)
           rest == Rest(given, c, k)
<1> USE DEF Gone, Kept, Without, Rest
<1>0. /\ c \in Copies /\ Settled(c) /\ Single(c) /\ Remembers(c, given)
      /\ c.comps \in SUBSET Components /\ c.secret \in SUBSET Components
      /\ c.bad \in SUBSET Entries /\ c.sigs \in SUBSET Placed
  BY DEF CopyOk, Copies
<1>1. /\ new \in Copies /\ new.comps = c.comps \ {k} /\ new.sigs = c.sigs \ gone
      /\ new.bad = c.bad
  BY <1>0 DEF Copies
<1>2. \A q : Homes(q, new.comps) \subseteq Homes(q, c.comps)
  BY <1>1 DEF Homes
<1>3. Settled(new)
  <2>1. \A q \in new.sigs : q \in c.sigs /\ q.comp # k
    BY <1>1
  <2>2. \A q \in new.sigs : /\ q.comp \in new.comps
                            /\ Known(q.comp) => SettledKnown(q)
                            /\ ~Known(q.comp) => SettledUnknown(q, new.comps)
    BY <1>0, <1>1, <1>2, <2>1 DEF Settled, SettledUnknown
  <2>3. \A b \in new.bad : Homes(b, new.comps) = {}
    BY <1>0, <1>1, <1>2 DEF Settled
  <2> QED
    BY <1>0, <1>1, <2>2, <2>3 DEF Settled
<1>4. Single(new)
  BY <1>0, <1>1 DEF Single, SingleSigs
<1>5. ASSUME NEW e \in rest PROVE e.id \in IdsOf(new.sigs) \cup IdsOf(new.bad)
  <2>1. e.id \in IdsOf(c.sigs) \cup IdsOf(c.bad)
    BY <1>0 DEF Remembers
  <2>2. CASE e.id \in IdsOf(gone)
    BY <1>1, <2>2 DEF IdsOf
  <2>3. CASE e.id \notin IdsOf(gone)
    BY <1>1, <2>1, <2>3 DEF IdsOf
  <2> QED
    BY <2>2, <2>3
<1>6. ASSUME NEW q \in new.sigs \cup new.bad, ~q.tagged
      PROVE  [id |-> q.id, tagged |-> FALSE] \in rest
  <2> DEFINE e == [id |-> q.id, tagged |-> FALSE]
  <2>1. e \in given
    BY <1>0, <1>1, <1>6 DEF Remembers
  <2>2. ~e.tagged /\ e.id = q.id
    OBVIOUS
  <2>3. e.id \in IdsOf(kept)
    BY <1>1, <2>2 DEF IdsOf
  <2> HIDE DEF e
  <2>4. e \in rest
    BY <2>1, <2>2, <2>3
  <2> QED
    BY <2>4 DEF e
<1>7. ASSUME NEW e \in rest, Genuine(e) PROVE Findable(new, e.id)
  <2>1. Findable(c, e.id)
    BY <1>0, <1>7 DEF Remembers
  <2>2. e.id \notin IdsOf(gone)
    BY <1>7 DEF Genuine
  <2>3. \A q \in c.sigs : q.id = e.id => q \in new.sigs
    BY <1>1, <2>2 DEF IdsOf
  <2> QED
    BY <1>1, <2>1, <2>3 DEF Findable
<1> HIDE DEF new, rest
<1>8. CopyOk(new, rest)
  BY <1>1, <1>3, <1>4, <1>5, <1>6, <1>7 DEF CopyOk, Remembers
<1> QED
  BY <1>8 DEF new, rest

LEMMA CopyFacts ==
    ASSUME Inv, NEW p \in Parties, cert[p] # NoCert
    PROVE  CopyOk(cert[p], Due(p)) /\ Due(p) \in SUBSET Entries
<1>1. known[p] \in SUBSET Entries
  BY DEF Inv
<1>2. Due(p) \in SUBSET Entries
  BY <1>1 DEF Due
<1> QED
  BY <1>2 DEF Inv, CopyOk

LEMMA PutCopy ==
    ASSUME Inv, NEW p \in Parties, NEW c, NEW given \in SUBSET Entries,
           NEW less \in SUBSET Entries, NEW due, due = given \ less, CopyOk(c, due),
           cert' = [cert EXCEPT ![p] = c], known' = [known EXCEPT ![p] = given],
           dropped' = [dropped EXCEPT ![p] = less]
    PROVE  Inv'
<1>1. /\ cert \in [Parties -> {NoCert} \cup Copies] /\ known \in [Parties -> SUBSET Entries]
      /\ dropped \in [Parties -> SUBSET Entries]
  BY DEF Inv
<1>2. c \in Copies /\ Settled(c) /\ Single(c) /\ Remembers(c, due)
  BY DEF CopyOk
<1>3. /\ cert' \in [Parties -> {NoCert} \cup Copies] /\ known' \in [Parties -> SUBSET Entries]
      /\ dropped' \in [Parties -> SUBSET Entries]
  BY <1>1, <1>2
<1>4. \A q \in Parties : /\ q # p => cert'[q] = cert[q] /\ Due(q)' = Due(q)
                         /\ q = p => cert'[q] = c /\ Due(q)' = due
  BY <1>1 DEF Due
<1>5. ASSUME NEW q \in Parties, cert'[q] # NoCert
      PROVE  Settled(cert'[q]) /\ Single(cert'[q]) /\ Remembers(cert'[q], Due(q)')
  <2>1. CASE q = p
    BY <1>2, <1>4, <2>1
  <2>2. CASE q # p
    BY <1>4, <1>5, <2>2 DEF Inv
  <2> QED
    BY <2>1, <2>2
<1> QED
  BY <1>3, <1>5 DEF Inv

LEMMA MergeWithStep ==
    ASSUME Inv, NEW p \in Parties, NEW q \in Parties, p # q, NEW other,
           MergeWith(p, q, other), other = cert[q] \/ other = Strip(cert[q])
    PROVE  Inv'
<1>1. /\ cert[p] # NoCert /\ cert[q] # NoCert
      /\ cert' = [cert EXCEPT ![p] = MergeInto(cert[p], other)]
      /\ known' = [known EXCEPT ![p] = known[p] \cup known[q]]
      /\ dropped' = [dropped EXCEPT ![p] =
            (known[p] \cup known[q])
            \ (Due(p) \cup {e \in Due(q) : e.id \notin LeftBehind(cert[q])})]
  BY DEF MergeWith
<1>2. CopyOk(cert[p], Due(p)) /\ Due(p) \in SUBSET Entries
  BY <1>1, CopyFacts
<1>3. CopyOk(cert[q], Due(q)) /\ Due(q) \in SUBSET Entries
  BY <1>1, CopyFacts
<1>4. CopyOk(other, Due(q)) /\ LeftBehind(other) = LeftBehind(cert[q])
  <2>1. CASE other = cert[q]
    BY <1>3, <2>1
  <2>2. CASE other = Strip(cert[q])
    <3>1. cert[q] \in Copies
      BY <1>3 DEF CopyOk
    <3>2. /\ other \in Copies /\ other.comps = cert[q].comps /\ other.bad = cert[q].bad
          /\ other.sigs = cert[q].sigs
      BY <2>2, <3>1 DEF Strip, Copies
    <3> QED
      BY <1>3, <3>2 DEF CopyOk, Settled, Single, Remembers, Findable, LeftBehind
  <2> QED
    BY <2>1, <2>2
<1> DEFINE new == MergeInto(cert[p], other)
           given == known[p] \cup known[q]
           due   == Due(p) \cup Taken(Due(q), other)
           less  == given \ due
<1>5. known' = [known EXCEPT ![p] = given] /\ dropped' = [dropped EXCEPT ![p] = less]
  BY <1>1, <1>4 DEF Taken
<1>6. given \in SUBSET Entries
  BY DEF Inv
<1>7. CopyOk(new, due)
  BY <1>2, <1>3, <1>4, MergeStep
<1>8. due = given \ less
  BY DEF Due, Taken
<1>9. cert' = [cert EXCEPT ![p] = new] /\ less \in SUBSET Entries
  BY <1>1, <1>6
<1> HIDE DEF new, given, due, less
<1> QED
  BY <1>5, <1>6, <1>7, <1>8, <1>9, PutCopy

LEMMA InvInit ==
    ASSUME Init
    PROVE  Inv
BY DEF Init, Inv

LEMMA InvNext ==
    ASSUME Inv, [Next]_vars
    PROVE  Inv'
<1>1. ASSUME NEW p \in Parties, Parse(p) PROVE Inv'
  <2>1. PICK u \in Updates :
          /\ cert' = [cert EXCEPT ![p] = parse(FoldLeft(AppendPacket, OnlyPrimary, u))]
          /\ known' = [known EXCEPT ![p] = EntriesOf(u)]
          /\ dropped' = [dropped EXCEPT ![p] = dropped[p] \ EntriesOf(u)]
    BY <1>1 DEF Parse
  <2>2. CopyOk(parse(FoldLeft(AppendPacket, OnlyPrimary, u)), EntriesOf(u))
    BY ParseStep
  <2>3. EntriesOf(u) \in SUBSET Entries
    BY EntriesTyped
  <2> DEFINE new == parse(FoldLeft(AppendPacket, OnlyPrimary, u))
             less == dropped[p] \ EntriesOf(u)
  <2>4. less \in SUBSET Entries /\ EntriesOf(u) = EntriesOf(u) \ less
    BY DEF Inv
  <2>5. /\ CopyOk(new, EntriesOf(u)) /\ cert' = [cert EXCEPT ![p] = new]
        /\ dropped' = [dropped EXCEPT ![p] = less]
    BY <2>1, <2>2
  <2> HIDE DEF new, less
  <2> QED
    BY <2>1, <2>3, <2>4, <2>5, PutCopy
<1>2. ASSUME NEW p \in Parties, InsertPackets(p) PROVE Inv'
  <2>1. PICK u \in Inserts :
          /\ cert' = [cert EXCEPT ![p] = parse(FoldLeft(InsertPacket, into_packets(cert[p]), u))]
          /\ known' = [known EXCEPT ![p] =
                         {e \in known[p] \cup EntriesOf(u) : ~Untagged(e, EntriesOf(u))}]
          /\ dropped' = [dropped EXCEPT ![p] = dropped[p] \ EntriesOf(u)]
    BY <1>2 DEF InsertPackets
  <2>2. CopyOk(cert[p], Due(p)) /\ Due(p) \in SUBSET Entries
    BY <1>2, CopyFacts DEF InsertPackets
  <2>3. EntriesOf(u) \in SUBSET Entries
    BY EntriesTyped
  <2> DEFINE new == parse(FoldLeft(InsertPacket, into_packets(cert[p]), u))
             due   == {e \in Due(p) \cup EntriesOf(u) : ~Untagged(e, EntriesOf(u))}
             given == {e \in known[p] \cup EntriesOf(u) : ~Untagged(e, EntriesOf(u))}
             less  == dropped[p] \ EntriesOf(u)
  <2>4. CopyOk(new, due)
    BY <2>2, InsertStep
  <2>5. given \in SUBSET Entries /\ less \in SUBSET Entries
    BY <2>3 DEF Inv
  <2>6. /\ cert' = [cert EXCEPT ![p] = new] /\ known' = [known EXCEPT ![p] = given]
        /\ dropped' = [dropped EXCEPT ![p] = less]
    BY <2>1
  <2>7. due = given \ less
    BY DEF Due
  <2> HIDE DEF new, given, less, due
  <2> QED
    BY <2>4, <2>5, <2>6, <2>7, PutCopy
<1>3. ASSUME NEW p \in Parties, Retain(p) PROVE Inv'
  <2>0. /\ cert \in [Parties -> {NoCert} \cup Copies] /\ known \in [Parties -> SUBSET Entries]
        /\ dropped \in [Parties -> SUBSET Entries]
    BY DEF Inv
  <2>1. PICK k \in {j \in cert[p].comps : Kind[j] \in {"userid", "attribute", "subkey"}} :
          LET gone == {q \in cert[p].sigs : q.comp = k}
              kept == (cert[p].sigs \ gone) \cup cert[p].bad
          IN  /\ cert' = [cert EXCEPT ![p].comps = @ \ {k}, ![p].secret = @ \ {k},
                                      ![p].sigs = @ \ gone]
              /\ known' = [known EXCEPT ![p] =
                            {e \in @ : e.id \in IdsOf(gone) => ~e.tagged /\ e.id \in IdsOf(kept)}]
              /\ UNCHANGED dropped
    BY <1>3 DEF Retain
  <2>2. cert[p] # NoCert /\ k \in cert[p].comps /\ Kind[k] \in {"userid", "attribute", "subkey"}
    BY <2>1 DEF NoCert
  <2>3. CopyOk(cert[p], Due(p)) /\ Due(p) \in SUBSET Entries
    BY <2>2, CopyFacts
  <2>4. k # Primary
    BY <2>2, CertificateAssumption DEF Components
  <2> DEFINE new   == Without(cert[p], k)
             given == Rest(known[p], cert[p], k)
             due   == Rest(Due(p), cert[p], k)
             less  == dropped[p]
  <2>5. CopyOk(new, due)
    BY <2>2, <2>3, <2>4, RetainStep
  <2>6. cert' = [cert EXCEPT ![p] = new]
    BY <2>0, <2>1 DEF Without, Gone
  <2>7. known' = [known EXCEPT ![p] = given]
    BY <2>0, <2>1 DEF Rest, Gone, Kept
  <2>8. given \in SUBSET Entries /\ less \in SUBSET Entries
    BY <2>0 DEF Rest
  <2>9. due = given \ less
    BY DEF Due, Rest
  <2>10. dropped' = [dropped EXCEPT ![p] = less]
    BY <2>0, <2>1
  <2> HIDE DEF new, given, due, less
  <2> QED
    BY <2>5, <2>6, <2>7, <2>8, <2>9, <2>10, PutCopy
<1>4. ASSUME NEW p \in Parties, NEW q \in Parties \ {p},
             MergePublic(p, q) \/ MergePublicAndSecret(p, q)
      PROVE  Inv'
  BY <1>4, MergeWithStep DEF MergePublic, MergePublicAndSecret
<1>5. CASE UNCHANGED vars
  BY <1>5 DEF vars, Inv, Due
<1> QED
  BY <1>1, <1>2, <1>3, <1>4, <1>5 DEF Next

\* Every copy a party holds is settled, has no signature twice and has what the
\* party was given.
THEOREM InvHolds == Spec => []Inv
<1>1. Init => Inv
  BY InvInit
<1>2. Inv /\ [Next]_vars => Inv'
  BY InvNext
<1> QED
  BY <1>1, <1>2, PTL DEF Spec
-----------------------------------------------------------------------------
(***************************************************************************)
(* The properties.                                                         *)
(***************************************************************************)
LEMMA HolderFacts ==
    ASSUME Inv, NEW p \in Holders
    PROVE  /\ p \in Parties /\ cert[p] \in Copies /\ Settled(cert[p]) /\ Single(cert[p])
           /\ Remembers(cert[p], Due(p)) /\ Due(p) \in SUBSET Entries
           /\ cert[p].sigs \in SUBSET Placed /\ cert[p].bad \in SUBSET Entries
           /\ cert[p].comps \in SUBSET Components
<1>1. p \in Parties /\ cert[p] # NoCert
  BY DEF Holders
<1>2. CopyOk(cert[p], Due(p)) /\ Due(p) \in SUBSET Entries
  BY <1>1, CopyFacts
<1> QED
  BY <1>1, <1>2 DEF CopyOk, Copies

\* What a copy counts as the holder's own signature over a component was made
\* by the primary key over that component with the type for it: check! and
\* check_one! decide by verifying, wherever the signature stood.
THEOREM OwnIsVerifiedHolds == Spec => []OwnIsVerified
<1>1. Inv => OwnIsVerified
  <2> SUFFICES ASSUME Inv, NEW p \in Holders, NEW k \in cert[p].comps, Known(k)
               PROVE  /\ \A e \in Vector(cert[p], k, "self_signatures") :
                           Verifies(e.id, k, BindingType(k))
                      /\ \A e \in Vector(cert[p], k, "self_revocations") :
                           Verifies(e.id, k, RevocationType(k))
                      /\ \A e \in Vector(cert[p], k, "attestations") :
                           Verifies(e.id, k, "AttestationKey")
    BY DEF OwnIsVerified
  <2>1. \A q \in cert[p].sigs : q.comp = k => SettledKnown(q)
    BY HolderFacts DEF Settled
  <2>2. \A q \in cert[p].sigs : q.comp = k /\ q.field = "self_signatures" =>
          Verifies(q.id, k, BindingType(k))
    BY <2>1 DEF SettledKnown, Stays
  <2>3. \A q \in cert[p].sigs : q.comp = k /\ q.field = "self_revocations" =>
          Verifies(q.id, k, RevocationType(k))
    BY <2>1 DEF SettledKnown, Stays
  <2>4. \A q \in cert[p].sigs : q.comp = k /\ q.field = "attestations" =>
          Verifies(q.id, k, "AttestationKey")
    BY <2>1 DEF SettledKnown
  <2> QED
    BY <2>2, <2>3, <2>4 DEF Vector
<1> QED
  BY <1>1, InvHolds, PTL

\* A settled signature of the holder is over its component, in the vector for
\* its type.
LEMMA OwnField ==
    ASSUME NEW q \in Placed, Known(q.comp), SettledKnown(q), q.field \in Own
    PROVE  /\ q.comp = Sig[q.id].on /\ Sig[q.id].valid /\ Sig[q.id].claims = "self"
           /\ \A e : e.id = q.id => q.field = FieldFor(e)
<1>1. q.id \in Ids /\ q.comp \in Components
  BY DEF Placed
<1>2. CASE q.field = "self_signatures"
  <2>1. Verifies(q.id, q.comp, BindingType(q.comp))
    BY <1>2 DEF SettledKnown, Stays
  <2>2. /\ Sig[q.id].typ = BindingType(q.comp) /\ Sig[q.id].on = q.comp /\ Sig[q.id].valid
        /\ Sig[q.id].claims = "self"
    BY <1>1, <2>1, SigFacts DEF Verifies
  <2>3. ~IsRevocation(q.id) /\ Sig[q.id].typ # "AttestationKey"
    BY <1>1, <2>2, TypeFits
  <2>4. \A e : e.id = q.id => FieldFor(e) = "self_signatures"
    BY <2>2, <2>3 DEF FieldFor, IsSelfSig
  <2> QED
    BY <1>2, <2>2, <2>4
<1>3. CASE q.field = "self_revocations"
  <2>1. Verifies(q.id, q.comp, RevocationType(q.comp))
    BY <1>3 DEF SettledKnown, Stays
  <2>2. /\ Sig[q.id].typ = RevocationType(q.comp) /\ Sig[q.id].on = q.comp /\ Sig[q.id].valid
        /\ Sig[q.id].claims = "self"
    BY <1>1, <2>1, SigFacts DEF Verifies
  <2>3. IsRevocation(q.id) /\ Sig[q.id].typ # "AttestationKey"
    BY <1>1, <2>2, TypeFits DEF IsRevocation
  <2>4. \A e : e.id = q.id => FieldFor(e) = "self_revocations"
    BY <2>2, <2>3 DEF FieldFor, IsSelfSig
  <2> QED
    BY <1>3, <2>2, <2>4
<1>4. CASE q.field = "attestations"
  <2>1. Verifies(q.id, q.comp, "AttestationKey")
    BY <1>4 DEF SettledKnown
  <2>2. /\ Sig[q.id].typ = "AttestationKey" /\ Sig[q.id].on = q.comp /\ Sig[q.id].valid
        /\ Sig[q.id].claims = "self"
    BY <1>1, <2>1, SigFacts DEF Verifies
  <2>3. \A e : e.id = q.id => FieldFor(e) = "attestations"
    BY <2>2 DEF FieldFor, IsRevocation
  <2> QED
    BY <1>4, <2>2, <2>3
<1> QED
  BY <1>2, <1>3, <1>4 DEF Own

\* A signature of the holder that was given is in its vector as soon as its
\* component is there.
LEMMA AtHome ==
    ASSUME NEW c \in Copies, Settled(c), NEW i \in Ids, Sig[i].valid, Known(Sig[i].on),
           Sig[i].on \in c.comps, Findable(c, i)
    PROVE  \E q \in c.sigs : q.id = i /\ q.comp = Sig[i].on /\ q.field \in Own
                             /\ \A e : e.id = i => q.field = FieldFor(e)
<1>1. c.sigs \in SUBSET Placed
  BY DEF Copies
<1>2. Sig[i].claims = "self" /\ Kind[Sig[i].on] \in KindsFor(Sig[i].typ)
  BY SigFacts
<1>3. ASSUME NEW e, e.id = i PROVE Sig[i].on \in Homes(e, c.comps)
  BY <1>2, <1>3 DEF Homes, IsSelfSig, Verifies
<1>4. i \notin IdsOf(c.bad)
  BY <1>3 DEF IdsOf, Settled
<1>5. PICK q \in c.sigs : q.id = i /\ (Known(q.comp) => q.field \in Own)
  BY <1>4 DEF Findable
<1>6. Known(q.comp) /\ SettledKnown(q)
  BY <1>3, <1>5 DEF Settled, SettledUnknown
<1>7. q \in Placed
  BY <1>1
<1> QED
  BY <1>5, <1>6, <1>7, OwnField

\* A hard revocation of a key that arrived with its issuers revokes the key at
\* every reference time, also before it was made, whatever else is in the
\* certificate: canonicalize puts it where _revocation_status finds it.
THEOREM HardIsFinalHolds == Spec => []HardIsFinal
<1>1. Inv => HardIsFinal
  <2> SUFFICES ASSUME Inv, NEW p \in Holders, NEW e \in Due(p), Plain(e),
                      Sig[e.id].claims = "self", Sig[e.id].valid, Sig[e.id].allowed,
                      Sig[e.id].hard, Sig[e.id].on \in cert[p].comps \cap Keys,
                      Sig[e.id].typ = RevocationType(Sig[e.id].on), NEW t \in Times
               PROVE  Status(cert[p], Sig[e.id].on, t) = "Revoked"
    BY DEF HardIsFinal
  <2> DEFINE k == Sig[e.id].on
             c == cert[p]
  <2>1. c \in Copies /\ Settled(c) /\ Remembers(c, Due(p)) /\ e \in Entries
    BY HolderFacts
  <2>2. e.id \in Ids /\ k \in Components
    BY <2>1, SigFacts DEF Entries
  <2>3. Kind[k] \in {"primary", "subkey"} /\ Known(k)
    BY DEF Keys, Known
  <2>4. Genuine(e)
    BY <2>3 DEF Genuine, GenuineId, Plain
  <2>5. Findable(c, e.id)
    BY <2>1, <2>4 DEF Remembers
  <2>6. PICK q \in c.sigs : q.id = e.id /\ q.comp = k /\ q.field = FieldFor(e)
    BY <2>1, <2>2, <2>3, <2>5, AtHome
  <2>7. FieldFor(e) = "self_revocations"
    <3>1. IsRevocation(e.id)
      BY <2>2, <2>3, TypeFits
    <3>2. Sig[e.id].typ # "AttestationKey"
      BY <3>1 DEF IsRevocation
    <3> QED
      BY <3>1, <3>2 DEF FieldFor, IsSelfSig
  <2>8. q \in Vector(c, k, "self_revocations")
    BY <2>6, <2>7 DEF Vector
  <2>9. \A T : Revokes(q.id, t, TRUE, T)
    BY <2>6 DEF Revokes
  <2>10. \A T : _revocation_status(c, k, t, TRUE, T) = "Revoked"
    BY <2>8, <2>9 DEF _revocation_status
  <2>11. Final(k) = TRUE
    BY <2>3 DEF Final
  <2> HIDE DEF k, c
  <2>12. Status(c, k, t) = "Revoked"
    BY <2>10, <2>11 DEF Status
  <2> QED
    BY <2>12 DEF k, c
<1> QED
  BY <1>1, InvHolds, PTL

\* The search of binding_signature finds the newest usable signature.
LEMMA NewestFound ==
    ASSUME NEW c \in Copies, NEW k, NEW t \in Nat, NEW j \in Searched(c, k, t), Usable(j, t)
    PROVE  \E i \in binding_signature(c, k, t) : Sig[i].time >= Sig[j].time
<1> DEFINE good == {i \in Searched(c, k, t) : Usable(i, t)}
           ages == {t - Sig[i].time : i \in good}
<1>1. \A i \in good : i \in Ids /\ Sig[i].time \in Nat /\ Sig[i].time <= t /\ Rank[i] \in Nat
  <2>1. \A i \in good : i \in Ids /\ Sig[i].time <= t
    BY DEF Searched, IdsOf, Vector, Copies, Placed
  <2> QED
    BY <2>1, SigFacts, CertificateAssumption
<1>2. ages \subseteq Nat /\ j \in good
  BY <1>1
<1>3. PICK a \in ages : \A y \in ages : a <= y
  BY <1>2, LeastNat
<1>4. PICK m \in good : a = t - Sig[m].time
  BY <1>3
<1>5. ASSUME NEW i \in good PROVE Sig[i].time <= Sig[m].time
  <2>1. t - Sig[i].time \in ages
    OBVIOUS
  <2>2. t - Sig[m].time <= t - Sig[i].time
    BY <1>3, <1>4, <2>1
  <2>3. Sig[i].time \in Nat /\ Sig[m].time \in Nat
    BY <1>1
  <2> QED
    BY <2>2, <2>3
<1> DEFINE ranks == {Rank[i] : i \in {n \in good : Sig[n].time = Sig[m].time}}
<1>6. ranks \subseteq Nat /\ ranks # {}
  BY <1>1, <1>4
<1>7. PICK r \in ranks : \A y \in ranks : r <= y
  BY <1>6, LeastNat
<1>8. PICK n \in good : Sig[n].time = Sig[m].time /\ r = Rank[n]
  BY <1>7
<1>9. ASSUME NEW i \in good \ {n} PROVE NewerFirst(n, i)
  <2>1. CASE Sig[i].time # Sig[m].time
    BY <1>1, <1>5, <1>8, <2>1 DEF NewerFirst
  <2>2. CASE Sig[i].time = Sig[m].time
    <3>1. Rank[n] <= Rank[i]
      BY <1>7, <1>8, <2>2
    <3>2. Rank[n] # Rank[i]
      BY <1>1, CertificateAssumption DEF IsInjective
    <3> QED
      BY <1>1, <1>8, <2>2, <3>1, <3>2 DEF NewerFirst
  <2> QED
    BY <2>1, <2>2
<1>10. n \in binding_signature(c, k, t)
  BY <1>9 DEF binding_signature
<1> QED
  BY <1>1, <1>2, <1>5, <1>8, <1>10

\* What binds a component at u and was made before t was in force at t, or a
\* newer signature was.
LEMMA BoundBefore ==
    ASSUME NEW c \in Copies, NEW k, NEW t \in Nat, NEW u \in Nat, t < u,
           NEW i \in binding_signature(c, k, u), ~MadeAfter(i, t)
    PROVE  \E j \in binding_signature(c, k, t) : Sig[j].time >= Sig[i].time
<1>1. i \in Searched(c, k, u) /\ Usable(i, u)
  BY DEF binding_signature
<1>2. i \in Ids
  BY <1>1 DEF Searched, IdsOf, Vector, Copies, Placed
<1>3. /\ Sig[i].time \in Nat /\ Sig[i].expires \in Nat
      /\ \A b \in Sig[i].backs : b.time \in Nat /\ b.expires \in Nat
  BY <1>2, SigFacts
<1>4. Sig[i].time <= t /\ \A b \in Sig[i].backs : b.time <= t
  BY <1>3 DEF MadeAfter
<1>5. i \in Searched(c, k, t)
  BY <1>1, <1>4 DEF Searched
<1>6. Alive(Sig[i], u) => Alive(Sig[i], t)
  BY <1>3, <1>4 DEF Alive
<1>7. \A b \in Sig[i].backs : Alive(b, u) => Alive(b, t)
  BY <1>3, <1>4 DEF Alive
<1>8. Usable(i, t)
  BY <1>1, <1>6, <1>7 DEF Usable
<1> QED
  BY <1>5, <1>8, NewestFound

\* The binding signatures of a component at one time are of one age.
LEMMA OneAge ==
    ASSUME NEW c \in Copies, NEW k, NEW t,
           NEW i \in binding_signature(c, k, t), NEW j \in binding_signature(c, k, t)
    PROVE  i \in Ids /\ j \in Ids /\ Sig[i].time = Sig[j].time
<1>1. i \in Ids /\ j \in Ids
  BY DEF binding_signature, Searched, IdsOf, Vector, Copies, Placed
<1>2. Sig[i].time \in Nat /\ Sig[j].time \in Nat
  BY <1>1, SigFacts
<1>3. i = j \/ (NewerFirst(i, j) /\ NewerFirst(j, i))
  BY DEF binding_signature
<1> QED
  BY <1>1, <1>2, <1>3 DEF NewerFirst

LEMMA PrimaryFrom ==
    ASSUME NEW c, NEW t, NEW a \in PrimaryUserID(c, t)
    PROVE  a.sig \in binding_signature(c, a.uid, t)
<1>1. PICK k \in c.comps : \E j \in binding_signature(c, k, t) :
          a = [uid |-> k, sig |-> j,
               revoked |-> _revocation_status(c, k, t, FALSE, {j}) = "Revoked"]
  BY DEF PrimaryUserID
<1> QED
  BY <1>1

\* What may override a revocation of the primary key.
LEMMA PrimaryOverrides ==
    ASSUME NEW c, NEW t
    PROVE  /\ \A i \in OverPrimary(c, t) : /\ Primary \notin WeakKeys
                                          /\ \/ i \in binding_signature(c, Primary, t)
                                             \/ \E a \in PrimaryUserID(c, t) : i = a.sig
           /\ Primary \notin WeakKeys =>
                /\ binding_signature(c, Primary, t) \subseteq OverPrimary(c, t)
                /\ \A a \in PrimaryUserID(c, t) : a.sig \in OverPrimary(c, t)
<1>1. CASE Primary \in WeakKeys
  BY <1>1 DEF OverPrimary, WithPolicy
<1>2. CASE Primary \notin WeakKeys
  <2>1. WithPolicy(c, t) = IF PrimaryUserID(c, t) = {} THEN binding_signature(c, Primary, t)
                           ELSE {a.sig : a \in PrimaryUserID(c, t)}
    BY <1>2 DEF WithPolicy, PrimaryBinding
  <2>2. \A i : i \in OverPrimary(c, t) <=>
          /\ WithPolicy(c, t) # {}
          /\ i \in WithPolicy(c, t) \/ i \in binding_signature(c, Primary, t)
    BY DEF OverPrimary
  <2> QED
    BY <1>2, <2>1, <2>2
<1> QED
  BY <1>1, <1>2

\* A revocation of a component that is in force at t and not at a later u has
\* expired, or is overridden at u by a newer self-signature of that component
\* that was made after t, or, for the primary key, by the binding of a user id
\* that was not the primary one at t.
THEOREM StaysRevokedHolds == Spec => []StaysRevoked
<1>1. Inv => StaysRevoked
  <2> SUFFICES ASSUME Inv, NEW p \in Holders, NEW k \in {j \in cert[p].comps : Known(j)},
                      NEW t \in Times, NEW u \in Times,
                      NEW e \in Vector(cert[p], k, "self_revocations"), t < u,
                      Revokes(e.id, t, Final(k), Overriding(cert[p], k, t)),
                      ~Revokes(e.id, u, Final(k), Overriding(cert[p], k, u)),
                      Alive(Sig[e.id], u)
               PROVE  \E i \in Overriding(cert[p], k, u) :
                        /\ Sig[i].time > Sig[e.id].time
                        /\ \/ MadeAfter(i, t)
                           \/ /\ k = Primary
                              /\ \E a \in PrimaryUserID(cert[p], u) :
                                   /\ a.sig = i
                                   /\ \A b \in PrimaryUserID(cert[p], t) : a.uid # b.uid
    BY DEF StaysRevoked
  <2> DEFINE c == cert[p]
             Changed(i) == \E a \in PrimaryUserID(c, u) :
                             a.sig = i /\ \A b \in PrimaryUserID(c, t) : a.uid # b.uid
  <2>1. c \in Copies /\ t \in Nat /\ u \in Nat
    BY HolderFacts, CertificateAssumption
  <2>2. e.id \in Ids /\ Sig[e.id].time \in Nat
    <3>1. e.id \in Ids
      BY <2>1 DEF Vector, Copies, Placed
    <3> QED
      BY <3>1, SigFacts
  <2>3. \A j \in Overriding(c, k, t) : Sig[j].time <= Sig[e.id].time
    BY DEF Revokes
  <2>4. PICK i \in Overriding(c, k, u) : ~(Sig[i].time <= Sig[e.id].time)
    BY DEF Revokes
  <2> HIDE DEF c
  <2>5. ASSUME NEW n, i \in binding_signature(c, n, u), ~MadeAfter(i, t)
        PROVE  \E j \in binding_signature(c, n, t) :
                 Sig[j].time \in Nat /\ ~(Sig[j].time <= Sig[e.id].time)
    <3>1. PICK j \in binding_signature(c, n, t) : Sig[j].time >= Sig[i].time
      BY <2>1, <2>5, BoundBefore
    <3>2. i \in Ids /\ j \in Ids
      BY <2>1, <2>5, <3>1, OneAge
    <3>3. Sig[i].time \in Nat /\ Sig[j].time \in Nat
      BY <3>2, SigFacts
    <3> QED
      BY <2>2, <2>4, <3>1, <3>3
  <2>6. i \in Ids
    <3>1. PICK n : i \in binding_signature(c, n, u)
      BY <2>4, PrimaryOverrides, PrimaryFrom DEF Overriding
    <3> QED
      BY <2>1, <3>1, OneAge
  <2>7. Sig[i].time > Sig[e.id].time
    <3>1. Sig[i].time \in Nat
      BY <2>6, SigFacts
    <3> QED
      BY <2>2, <2>4, <3>1
  <2>8. MadeAfter(i, t) \/ (k = Primary /\ Changed(i))
    <3> SUFFICES ASSUME ~MadeAfter(i, t) PROVE k = Primary /\ Changed(i)
      OBVIOUS
    <3>1. CASE k # Primary
      <4>1. \A s : Overriding(c, k, s) = binding_signature(c, k, s)
        BY <3>1 DEF Overriding
      <4> QED
        BY <2>3, <2>4, <2>5, <4>1
    <3>2. CASE k = Primary
      <4>1. \A s : Overriding(c, k, s) = OverPrimary(c, s)
        BY <3>2 DEF Overriding
      <4>2. Primary \notin WeakKeys
        BY <2>4, <4>1, PrimaryOverrides
      <4>3. binding_signature(c, Primary, t) \subseteq Overriding(c, k, t)
        BY <4>1, <4>2, PrimaryOverrides
      <4>4. i \notin binding_signature(c, Primary, u)
        BY <2>3, <2>5, <4>3
      <4>5. PICK a \in PrimaryUserID(c, u) : i = a.sig
        BY <2>4, <4>1, <4>4, PrimaryOverrides
      <4>6. ASSUME NEW b \in PrimaryUserID(c, t), a.uid = b.uid PROVE FALSE
        <5>1. i \in binding_signature(c, b.uid, u)
          BY <4>5, <4>6, PrimaryFrom
        <5>2. PICK j \in binding_signature(c, b.uid, t) :
                Sig[j].time \in Nat /\ ~(Sig[j].time <= Sig[e.id].time)
          BY <2>5, <5>1
        <5>3. b.sig \in binding_signature(c, b.uid, t)
          BY PrimaryFrom
        <5>4. Sig[b.sig].time = Sig[j].time
          BY <2>1, <5>2, <5>3, OneAge
        <5>5. b.sig \in Overriding(c, k, t)
          BY <4>1, <4>2, PrimaryOverrides
        <5> QED
          BY <2>3, <5>2, <5>4, <5>5
      <4> QED
        BY <3>2, <4>5, <4>6
    <3> QED
      BY <3>1, <3>2
  <2> QED
    BY <2>4, <2>7, <2>8 DEF c
<1> QED
  BY <1>1, InvHolds, PTL

\* A signature that was always seen with its issuers is in the one vector it
\* belongs to as soon as its component is there, in whatever order both
\* arrived, and of the signatures a merge loses exactly those that stand only on
\* unknown components of the certificate merged in.
THEOREM HasItsPlaceHolds == Spec => []HasItsPlace
<1>1. Inv => HasItsPlace
  <2> SUFFICES ASSUME Inv, NEW p \in Holders, NEW e \in Due(p)
               PROVE  /\ e.id \in IdsOf(cert[p].sigs) \cup IdsOf(cert[p].bad)
                      /\ /\ OnlyPlain(p, e.id) /\ Known(Sig[e.id].on)
                         /\ Sig[e.id].on \in cert[p].comps
                         /\ Sig[e.id].claims = "self" => Sig[e.id].valid
                         /\ Sig[e.id].typ = "AttestationKey" => Sig[e.id].claims = "self"
                         => Places(cert[p], e.id) = {<<Sig[e.id].on, FieldFor(e)>>}
    BY DEF HasItsPlace, Due
  <2> DEFINE c == cert[p]
             i == e.id
             on == Sig[e.id].on
  <2>0. /\ c \in Copies /\ Settled(c) /\ Remembers(c, Due(p)) /\ e \in Entries
        /\ c.sigs \in SUBSET Placed /\ c.bad \in SUBSET Entries
    BY HolderFacts
  <2>1. i \in IdsOf(c.sigs) \cup IdsOf(c.bad)
    BY <2>0 DEF Remembers
  <2>2. i \in Ids /\ e.tagged \in BOOLEAN
    BY <2>0 DEF Entries
  <2> SUFFICES ASSUME OnlyPlain(p, i), Known(on), on \in c.comps,
                      Sig[i].claims = "self" => Sig[i].valid,
                      Sig[i].typ = "AttestationKey" => Sig[i].claims = "self"
               PROVE  Places(c, i) = {<<on, FieldFor(e)>>}
    BY <2>1
  <2>3. e.tagged /\ Sig[i].looks = {on}
    BY DEF OnlyPlain, Plain
  <2>4. \A q \in c.sigs \cup c.bad : q.id = i => q.tagged
    <3> SUFFICES ASSUME NEW q \in c.sigs \cup c.bad, q.id = i, ~q.tagged PROVE FALSE
      OBVIOUS
    <3> DEFINE d == [id |-> q.id, tagged |-> FALSE]
    <3>1. d \in Due(p)
      BY <2>0 DEF Remembers
    <3>2. d.id = i /\ ~d.tagged
      OBVIOUS
    <3> HIDE DEF d
    <3> QED
      BY <3>1, <3>2 DEF OnlyPlain, Plain
  <2>5. Kind[on] \in KindsFor(Sig[i].typ)
    BY <2>2, SigFacts
  <2>6. ASSUME NEW q \in c.sigs, q.id = i, Known(q.comp)
        PROVE  q.comp = on /\ q.field = FieldFor(e)
    <3>0. q \in Placed /\ SettledKnown(q) /\ q.tagged
      BY <2>0, <2>4, <2>6 DEF Settled
    <3>1. CASE q.field \in Own
      BY <2>6, <3>0, <3>1, OwnField
    <3>2. CASE q.field \notin Own
      <4>1. Stays(q) /\ q.field = split_sigs(q)
        BY <3>0, <3>2 DEF SettledKnown
      <4>2. q.comp \in Sig[i].looks
        BY <2>6, <3>2, <4>1 DEF Stays, Own
      <4>3. Sig[i].claims # "self"
        BY <2>6, <3>0, <3>2, <4>1 DEF split_sigs, Own
      <4>4. q.field = IF IsRevocation(i) THEN "other_revocations" ELSE "certifications"
        BY <2>6, <4>1, <4>3 DEF split_sigs
      <4>5. FieldFor(e) = IF IsRevocation(i) THEN "other_revocations" ELSE "certifications"
        BY <2>3, <4>3 DEF FieldFor, IsSelfSig
      <4> QED
        BY <2>3, <4>2, <4>4, <4>5
    <3> QED
      BY <3>1, <3>2
  <2>7. \E q \in c.sigs : q.id = i /\ Known(q.comp)
    <3>1. ASSUME NEW q \in c.sigs \cup c.bad, q.id = i PROVE on \in Homes(q, c.comps)
      <4>1. CASE Sig[i].claims = "self"
        BY <2>5, <3>1, <4>1 DEF Homes, IsSelfSig, Verifies
      <4>2. CASE Sig[i].claims # "self"
        <5>1. ~IsSelfSig(q)
          BY <2>4, <3>1, <4>2 DEF IsSelfSig
        <5> QED
          BY <2>3, <2>5, <3>1, <4>2, <5>1 DEF Homes
      <4> QED
        BY <4>1, <4>2
    <3>2. i \notin IdsOf(c.bad)
      BY <2>0, <3>1 DEF IdsOf, Settled
    <3>3. PICK q \in c.sigs : q.id = i
      BY <2>1, <3>2 DEF IdsOf
    <3>4. Known(q.comp)
      BY <2>0, <3>1, <3>3 DEF Settled, SettledUnknown
    <3> QED
      BY <3>3, <3>4
  <2> QED
    BY <2>6, <2>7 DEF Places
<1> QED
  BY <1>1, InvHolds, PTL
-----------------------------------------------------------------------------
(***************************************************************************)
(* A copy is a fixed point.                                                *)
(***************************************************************************)
LEMMA SamePlaced ==
    ASSUME NEW q \in Placed, NEW r \in Placed,
           q.comp = r.comp, q.field = r.field, q.id = r.id, q.tagged <=> r.tagged
    PROVE  q = r
<1>1. q.tagged = r.tagged
  BY DEF Placed
<1> QED
  BY <1>1 DEF Placed

LEMMA SameCopy ==
    ASSUME NEW c \in Copies, NEW d \in Copies, c.comps = d.comps, c.secret = d.secret,
           c.bad = d.bad, c.sigs = d.sigs
    PROVE  c = d
BY DEF Copies

\* canonicalize leaves alone what it left.
LEMMA FixupSettled ==
    ASSUME NEW q \in Placed, SettledKnown(q)
    PROVE  Fixup(q) = q
<1>1. /\ Fixup(q) \in Placed /\ Fixup(q).comp = q.comp /\ Fixup(q).id = q.id
      /\ Fixup(q).field = q.field
      /\ Fixup(q).tagged = IF q.field \in Own THEN TRUE ELSE q.tagged
  BY FixupOf
<1>2. q.field \in Own => q.tagged
  BY DEF SettledKnown
<1>3. Fixup(q).tagged <=> q.tagged
  BY <1>1, <1>2
<1> QED
  BY <1>1, <1>3, SamePlaced

LEMMA MergeSelf ==
    ASSUME NEW c \in Copies, Settled(c), Single(c)
    PROVE  MergeInto(c, c) = c
<1> DEFINE raw == Joined(c, c)
<1>0. c.sigs \in SUBSET Placed /\ c.bad \in SUBSET Entries
  BY DEF Copies
<1>1. /\ MergeInto(c, c) = canonicalize(raw) /\ RawOk(raw)
      /\ raw.comps = c.comps /\ raw.secret = c.secret /\ raw.bad = c.bad /\ raw.sigs = c.sigs
  <2>1. /\ MergeInto(c, c) = canonicalize(raw) /\ RawOk(raw)
        /\ raw.comps = c.comps \cup {k \in c.comps : Known(k)}
        /\ raw.secret = c.secret \cup c.secret
        /\ raw.bad = KeepFirst(c.bad, c.bad)
        /\ raw.sigs = c.sigs \cup {q \in c.sigs : Known(q.comp)}
    BY JoinedRaw
  <2>2. KeepFirst(c.bad, c.bad) = c.bad
    BY DEF KeepFirst, IdsOf
  <2> HIDE DEF raw
  <2> QED
    BY <2>1, <2>2
<1> HIDE DEF raw
<1>2. First(raw) = c.sigs
  BY <1>0, <1>1, DedupSame DEF First, Single
<1>3. \A q \in c.sigs : /\ Known(q.comp) => SettledKnown(q) /\ Stays(q)
                        /\ ~Known(q.comp) => /\ Homes(q, raw.comps) = {}
                                             /\ q.field = split_sigs(q)
  BY <1>1 DEF Settled, SettledKnown, SettledUnknown
<1>4. Leaving(raw) = {}
  BY <1>2, <1>3 DEF Leaving
<1>5. \A e \in Again(raw) : Homes(e, raw.comps) = {}
  <2> TAKE e \in Again(raw)
  <2>1. CASE e \in c.bad
    BY <1>1, <2>1 DEF Settled
  <2>2. CASE e \notin c.bad
    <3>1. PICK q \in c.sigs : e = EntryOf(q) /\ ~Known(q.comp)
      BY <1>1, <1>2, <1>4, <2>2 DEF Again, Foreign
    <3>2. q \in Placed
      BY <1>0
    <3>3. e.id = q.id /\ e.tagged = q.tagged
      BY <3>1, <3>2, EntryFacts
    <3> QED
      BY <1>3, <3>1, <3>3, HomesOf
  <2> QED
    BY <2>1, <2>2
<1>6. ASSUME NEW q \in c.sigs, ~Known(q.comp)
      PROVE  [q EXCEPT !.field = split_sigs(q)] = q /\ q \in Foreign(raw) \cap Lost(raw)
  BY <1>0, <1>2, <1>3, <1>6 DEF Placed, Foreign, Lost
<1>7. ASSUME NEW q \in c.sigs, Known(q.comp)
      PROVE  Fixup(q) = q /\ q \in Staying(raw)
  BY <1>0, <1>2, <1>3, <1>7, FixupSettled DEF Staying
<1>8. ASSUME NEW x \in Pool(raw) PROVE x \in c.sigs
  <2>1. ASSUME NEW q \in Staying(raw), x = Fixup(q) PROVE x \in c.sigs
    BY <1>2, <1>7, <2>1 DEF Staying
  <2>2. ASSUME NEW q \in Foreign(raw) \cap Lost(raw), x = [q EXCEPT !.field = split_sigs(q)]
        PROVE  x \in c.sigs
    BY <1>2, <1>6, <2>2 DEF Foreign
  <2> QED
    BY <1>1, <1>5, <2>1, <2>2, PoolFrom
<1>9. ASSUME NEW q \in c.sigs PROVE q \in Pool(raw)
  <2>1. CASE Known(q.comp)
    BY <1>7, <2>1, PoolHas
  <2>2. CASE ~Known(q.comp)
    BY <1>6, <2>2, PoolHas
  <2> QED
    BY <2>1, <2>2
<1>10. Dedup(Pool(raw)) = c.sigs
  <2>1. Pool(raw) = c.sigs
    BY <1>8, <1>9
  <2> QED
    BY <1>0, <2>1, DedupSame DEF Single
<1>11. KeepFirst(raw.bad \cap Lost(raw), NewBad(raw)) = c.bad
  <2>1. NewBad(raw) = {}
    BY <1>4 DEF NewBad
  <2>2. raw.bad \cap Lost(raw) = c.bad
    BY <1>1 DEF Lost, Settled
  <2> QED
    BY <2>1, <2>2 DEF KeepFirst
<1>12. /\ canonicalize(raw) \in Copies /\ canonicalize(raw).comps = c.comps
       /\ canonicalize(raw).secret = c.secret /\ canonicalize(raw).sigs = c.sigs
       /\ canonicalize(raw).bad = c.bad
  BY <1>1, <1>10, <1>11, CanonicalResult
<1> QED
  BY <1>1, <1>12, SameCopy
\* A bad signature does not belong to any component that is there.
LEMMA BadAtHome ==
    ASSUME FitsWhereItLooks, NEW c \in Copies, Settled(c), NEW e \in c.bad, e.tagged,
           NEW k \in c.comps, Known(k)
    PROVE  /\ ~(Sig[e.id].on = k /\ Sig[e.id].valid)
           /\ Sig[e.id].claims = "other" => k \notin Sig[e.id].looks
<1>1. e.id \in Ids /\ Homes(e, c.comps) = {}
  BY DEF Copies, Entries, Settled
<1>2. ASSUME Sig[e.id].on = k, Sig[e.id].valid PROVE FALSE
  <2>1. Sig[e.id].claims = "self" /\ Kind[k] \in KindsFor(Sig[e.id].typ)
    BY <1>1, <1>2, SigFacts
  <2> QED
    BY <1>1, <1>2, <2>1 DEF Homes, IsSelfSig, Verifies
<1>3. ASSUME Sig[e.id].claims = "other", k \in Sig[e.id].looks PROVE FALSE
  <2>1. ~IsSelfSig(e) /\ Sig[e.id].typ # "AttestationKey" /\ Kind[k] \in KindsFor(Sig[e.id].typ)
    BY <1>1, <1>3 DEF IsSelfSig, FitsWhereItLooks
  <2> QED
    BY <1>1, <1>3, <2>1 DEF Homes
<1> QED
  BY <1>2, <1>3

\* A settled signature on a known component is parsed into its own vector,
\* except for an attestation.
LEMMA ParsedSettled ==
    ASSUME NEW q \in Placed, Known(q.comp), SettledKnown(q)
    PROVE  /\ q.field # "attestations" => split_sigs(q) = q.field
           /\ q.field = "attestations" =>
                split_sigs(q) = "self_signatures" /\ Sig[q.id].typ = "AttestationKey"
<1>0. q.id \in Ids /\ q.comp \in Components
  BY DEF Placed
<1>1. CASE q.field \notin Own
  BY <1>1 DEF SettledKnown, Own
<1>2. CASE q.field \in Own
  <2>1. q.tagged /\ Sig[q.id].claims = "self" /\ q.field = FieldFor(q)
    BY <1>2, OwnField DEF SettledKnown
  <2>2. q.field = "attestations" => Sig[q.id].typ = "AttestationKey"
    BY DEF SettledKnown, Verifies
  <2>3. FieldFor(q) = "attestations" \/ FieldFor(q) = split_sigs(q)
    BY <2>1 DEF FieldFor, split_sigs, IsSelfSig
  <2>4. Sig[q.id].typ = "AttestationKey" => split_sigs(q) = "self_signatures"
    BY <2>1 DEF split_sigs, IsRevocation
  <2> QED
    BY <2>1, <2>2, <2>3, <2>4
<1> QED
  BY <1>1, <1>2

\* The packets of c, read again, before they are sorted out.
Reread(q)       == Place(q, q.comp, IF Known(q.comp) THEN split_sigs(q) ELSE "certifications")
RereadBad(e, k) == Place(e, k, split_sigs(e))

LEMMA RereadFacts ==
    ASSUME NEW c \in Copies, Settled(c), NEW q \in c.sigs
    PROVE  /\ q \in Placed /\ Reread(q) \in Placed /\ Reread(q).comp = q.comp
           /\ Reread(q).id = q.id /\ Reread(q).tagged = q.tagged
           /\ Known(q.comp) => SettledKnown(q) /\ Reread(q).field = split_sigs(q)
           /\ ~Known(q.comp) => /\ SettledUnknown(q, c.comps)
                                /\ Reread(q).field = "certifications"
           /\ q.id \in Ids /\ q.comp \in c.comps /\ q.comp \in Components
           /\ q.tagged \in BOOLEAN
<1>0. /\ q \in Placed /\ q.id \in Ids /\ q.tagged \in BOOLEAN /\ q.comp \in Components
      /\ q.field \in Fields
  BY DEF Copies, Placed
<1> DEFINE f == IF Known(q.comp) THEN split_sigs(q) ELSE "certifications"
<1>1. f \in Fields
  BY <1>0, FieldsOf DEF Fields
<1>2. (Known(q.comp) => f = split_sigs(q)) /\ (~Known(q.comp) => f = "certifications")
  OBVIOUS
<1>3. Reread(q) = [comp |-> q.comp, field |-> f, id |-> q.id, tagged |-> q.tagged]
  BY DEF Reread, Place
<1> HIDE DEF f
<1>4. /\ Reread(q) \in Placed /\ Reread(q).comp = q.comp /\ Reread(q).id = q.id
      /\ Reread(q).tagged = q.tagged /\ Reread(q).field = f
  BY <1>0, <1>1, <1>3 DEF Placed
<1> QED
  BY <1>0, <1>2, <1>4 DEF Settled

LEMMA RereadBadFacts ==
    ASSUME NEW c \in Copies, NEW e \in c.bad, NEW k \in Components, NEW b, b = RereadBad(e, k)
    PROVE  /\ b \in Placed /\ b.comp = k /\ b.id = e.id /\ b.tagged = e.tagged
           /\ b.field = split_sigs(e) /\ split_sigs(b) = split_sigs(e)
           /\ e \in Entries /\ e.id \in Ids /\ e.tagged \in BOOLEAN
           /\ EntryOf(b) = e
<1>0. e \in Entries /\ e.id \in Ids /\ e.tagged \in BOOLEAN
  BY DEF Copies, Entries
<1>1. split_sigs(e) \in Fields
  BY <1>0, FieldsOf
<1>2. b = [comp |-> k, field |-> split_sigs(e), id |-> e.id, tagged |-> e.tagged]
  BY DEF RereadBad, Place
<1>3. /\ b \in Placed /\ b.comp = k /\ b.id = e.id /\ b.tagged = e.tagged
      /\ b.field = split_sigs(e)
  BY <1>0, <1>1, <1>2 DEF Placed
<1>4. split_sigs(b) = split_sigs(e)
  BY <1>3, HomesOf
<1>5. EntryOf(b) = [id |-> e.id, tagged |-> e.tagged]
  BY <1>3 DEF EntryOf
<1>6. e = [id |-> e.id, tagged |-> e.tagged]
  BY <1>0 DEF Entries
<1> QED
  BY <1>0, <1>3, <1>4, <1>5, <1>6

LEMMA RereadRaw ==
    ASSUME NEW c \in Copies, Settled(c), NEW k, k = LastOf(c.comps),
           \A e \in c.bad : Known(k), NEW raw, raw = RawOf(into_packets(c))
    PROVE  /\ parse(into_packets(c)) = canonicalize(raw) /\ RawOk(raw)
           /\ raw.comps = c.comps /\ raw.secret = c.secret /\ raw.bad = {}
           /\ raw.sigs = {Reread(q) : q \in c.sigs} \cup {RereadBad(e, k) : e \in c.bad}
           /\ k \in c.comps /\ k \in Components
<1> DEFINE ps == into_packets(c)
           sig(q) == After(q, q.comp, GroupOf(q.field))
           bad(e) == After(e, k, 6)
<1>1. /\ PsOk(ps) /\ ps.comps = c.comps /\ ps.secret = c.secret
      /\ ps.after = {sig(q) : q \in c.sigs} \cup {bad(e) : e \in c.bad}
  BY IntoPackets
<1>2. k \in c.comps /\ k \in Components
  BY LastFacts DEF Copies, Settled
<1>3. /\ parse(ps) = canonicalize(RawOf(ps)) /\ RawOk(RawOf(ps))
      /\ RawOf(ps).comps = ps.comps /\ RawOf(ps).secret = ps.secret
      /\ RawOf(ps).bad = {} /\ RawOf(ps).sigs = {Parsed(a) : a \in ps.after}
  BY <1>1, ParseRaw
<1>4. ASSUME NEW q \in c.sigs PROVE Parsed(sig(q)) = Reread(q)
  <2>1. q.id \in Ids /\ q.tagged \in BOOLEAN /\ q.comp \in Components /\ q.field \in Fields
    BY DEF Copies, Placed
  <2>2. GroupOf(q.field) \in 1..7
    BY <2>1, GroupFacts
  <2>3. sig(q).comp = q.comp /\ sig(q).id = q.id /\ sig(q).tagged = q.tagged
    BY <2>1, <2>2, AfterFacts
  <2>4. split_sigs(sig(q)) = split_sigs(q)
    BY <2>3, HomesOf
  <2> HIDE DEF sig
  <2> QED
    BY <2>3, <2>4 DEF Parsed, Reread, Place
<1>5. ASSUME NEW e \in c.bad PROVE Parsed(bad(e)) = RereadBad(e, k)
  <2>1. e.id \in Ids /\ e.tagged \in BOOLEAN
    BY DEF Copies, Entries
  <2>2. bad(e).comp = k /\ bad(e).id = e.id /\ bad(e).tagged = e.tagged
    BY <1>2, <2>1, AfterFacts
  <2>3. split_sigs(bad(e)) = split_sigs(e)
    BY <2>2, HomesOf
  <2> HIDE DEF bad
  <2> QED
    BY <2>2, <2>3 DEF Parsed, RereadBad, Place
<1> HIDE DEF sig, bad
<1>6. {Parsed(a) : a \in ps.after} = {Reread(q) : q \in c.sigs} \cup {RereadBad(e, k) : e \in c.bad}
  BY <1>1, <1>4, <1>5
<1> QED
  BY <1>1, <1>2, <1>3, <1>6
LEMMA RereadSingle ==
    ASSUME FitsWhereItLooks, NEW c \in Copies, Settled(c), Single(c), NEW k \in c.comps,
           k \in Components, \A e \in c.bad : Known(k) /\ e.tagged,
           NEW S, S = {Reread(q) : q \in c.sigs} \cup {RereadBad(e, k) : e \in c.bad}
    PROVE  SingleSigs(S) /\ S \in SUBSET Placed
<1>1. ASSUME NEW q \in c.sigs, NEW r \in c.sigs, q.id = r.id, q.comp = r.comp,
             Reread(q).field = Reread(r).field \/ ~Known(q.comp)
      PROVE  Reread(q) = Reread(r)
  <2>1. CASE ~Known(q.comp)
    BY <1>1, <2>1 DEF Single, SingleSigs
  <2>2. CASE Known(q.comp)
    <3>1. /\ q \in Placed /\ r \in Placed /\ SettledKnown(q) /\ SettledKnown(r)
          /\ split_sigs(q) = split_sigs(r) /\ q.id \in Ids /\ q.tagged \in BOOLEAN
      BY <1>1, <2>2, RereadFacts
    <3>2. q.field = r.field
      <4>1. CASE q.field \in Own /\ r.field \in Own
        BY <1>1, <2>2, <3>1, <4>1, OwnField
      <4>2. CASE q.field \notin Own \/ r.field \notin Own
        <5>1. \/ q.field \notin Own /\ r.field \in Own
              \/ r.field \notin Own /\ q.field \in Own
              => FALSE
          BY <1>1, <2>2, <3>1, ParsedSettled DEF Own
        <5>2. q.field \notin Own /\ r.field \notin Own
          BY <4>2, <5>1
        <5> QED
          BY <3>1, <5>2 DEF SettledKnown
      <4> QED
        BY <4>1, <4>2
    <3> QED
      BY <1>1, <3>2 DEF Single, SingleSigs
  <2> QED
    BY <2>1, <2>2
<1>2. ASSUME NEW q \in c.sigs, NEW e \in c.bad, q.id = e.id, q.comp = k,
             Reread(q).field = RereadBad(e, k).field
      PROVE  FALSE
  <2>0. Known(k) /\ e.tagged
    OBVIOUS
  <2>1. /\ q \in Placed /\ SettledKnown(q) /\ Reread(q).field = split_sigs(q)
        /\ RereadBad(e, k).field = split_sigs(e) /\ q.id \in Ids
    BY <1>2, <2>0, RereadFacts, RereadBadFacts
  <2>2. /\ ~(Sig[e.id].on = k /\ Sig[e.id].valid)
        /\ Sig[e.id].claims = "other" => k \notin Sig[e.id].looks
    BY <2>0, BadAtHome
  <2>3. q.field \notin Own
    BY <1>2, <2>0, <2>1, <2>2, OwnField
  <2>4. q.comp \in Sig[q.id].looks /\ q.field = split_sigs(q)
    BY <2>1, <2>3 DEF SettledKnown, Stays, Own
  <2>5. Sig[e.id].claims = "self"
    BY <1>2, <2>1, <2>2, <2>4, SigFacts
  <2>6. split_sigs(e) \in Own
    BY <2>0, <2>5 DEF split_sigs, Own
  <2> QED
    BY <1>2, <2>1, <2>3, <2>4, <2>6
<1>3. ASSUME NEW e \in c.bad, NEW d \in c.bad, e.id = d.id
      PROVE  RereadBad(e, k) = RereadBad(d, k)
  BY <1>3 DEF Single, SingleIds
<1>4. \A q \in c.sigs : /\ Reread(q) \in Placed /\ Reread(q).comp = q.comp
                        /\ Reread(q).id = q.id
  BY RereadFacts
<1>5. \A e \in c.bad : /\ RereadBad(e, k) \in Placed /\ RereadBad(e, k).comp = k
                       /\ RereadBad(e, k).id = e.id /\ Known(k)
  BY RereadBadFacts
<1>6. ASSUME NEW x \in S, NEW y \in S, x.id = y.id, x.comp = y.comp,
             x.field = y.field \/ ~Known(x.comp)
      PROVE  x = y
  <2>1. ASSUME NEW q \in c.sigs, NEW r \in c.sigs, x = Reread(q), y = Reread(r) PROVE x = y
    BY <1>1, <1>4, <1>6, <2>1
  <2>2. ASSUME NEW q \in c.sigs, NEW e \in c.bad, x = Reread(q), y = RereadBad(e, k)
        PROVE  FALSE
    BY <1>2, <1>4, <1>5, <1>6, <2>2
  <2>3. ASSUME NEW q \in c.sigs, NEW e \in c.bad, y = Reread(q), x = RereadBad(e, k)
        PROVE  FALSE
    BY <1>2, <1>4, <1>5, <1>6, <2>3
  <2>4. ASSUME NEW d \in c.bad, NEW e \in c.bad, x = RereadBad(d, k), y = RereadBad(e, k)
        PROVE  x = y
    BY <1>3, <1>5, <1>6, <2>4
  <2> QED
    BY <2>1, <2>2, <2>3, <2>4
<1> QED
  BY <1>4, <1>5, <1>6 DEF SingleSigs

LEMMA ReparseSame ==
    ASSUME FitsWhereItLooks, NEW c \in Copies, Settled(c), Single(c),
           \A e \in c.bad : Known(LastOf(c.comps)) /\ e.tagged
    PROVE  parse(into_packets(c)) = c
<1> DEFINE k == LastOf(c.comps)
           raw == RawOf(into_packets(c))
<1>0. c.sigs \in SUBSET Placed /\ c.bad \in SUBSET Entries
  BY DEF Copies
<1>1. /\ parse(into_packets(c)) = canonicalize(raw) /\ RawOk(raw)
      /\ raw.comps = c.comps /\ raw.secret = c.secret /\ raw.bad = {}
      /\ raw.sigs = {Reread(q) : q \in c.sigs} \cup {RereadBad(e, k) : e \in c.bad}
      /\ k \in c.comps /\ k \in Components
  BY RereadRaw
<1>2. \A e \in c.bad : Known(k) /\ e.tagged
  OBVIOUS
<1> HIDE DEF k, raw
<1>3. First(raw) = raw.sigs
  <2>1. SingleSigs(raw.sigs) /\ raw.sigs \in SUBSET Placed
    BY <1>1, <1>2, RereadSingle
  <2> QED
    BY <2>1, DedupSame DEF First
<1>4. ASSUME NEW q \in c.sigs, ~Known(q.comp)
      PROVE  /\ Reread(q) \in Foreign(raw) \cap Lost(raw)
             /\ [Reread(q) EXCEPT !.field = split_sigs(Reread(q))] = q
  <2>1. /\ q \in Placed /\ Reread(q) \in Placed /\ Reread(q).comp = q.comp
        /\ Reread(q).id = q.id /\ Reread(q).tagged = q.tagged
        /\ SettledUnknown(q, c.comps)
    BY <1>4, RereadFacts
  <2>2. /\ Homes(Reread(q), c.comps) = {} /\ split_sigs(Reread(q)) = q.field
    BY <2>1, HomesOf DEF SettledUnknown
  <2>3. Reread(q) \in First(raw)
    BY <1>1, <1>3
  <2> DEFINE x == [Reread(q) EXCEPT !.field = split_sigs(Reread(q))]
  <2>4. Reread(q) \in Foreign(raw) \cap Lost(raw)
    BY <1>1, <1>4, <2>1, <2>2, <2>3 DEF Foreign, Lost
  <2>5. /\ x \in Placed /\ x.comp = q.comp /\ x.id = q.id /\ x.field = q.field
        /\ x.tagged = q.tagged
    BY <1>1, <2>1, <2>2, <2>4, ForeignPlace
  <2> HIDE DEF x
  <2>6. x = q
    BY <2>1, <2>5, SamePlaced
  <2> QED
    BY <2>4, <2>6 DEF x
<1>5. ASSUME NEW q \in c.sigs, Known(q.comp), q.field # "attestations"
      PROVE  Reread(q) = q /\ q \in Staying(raw) /\ Fixup(q) = q
  <2>1. /\ q \in Placed /\ Reread(q) \in Placed /\ Reread(q).comp = q.comp
        /\ Reread(q).id = q.id /\ Reread(q).tagged = q.tagged
        /\ SettledKnown(q) /\ Reread(q).field = split_sigs(q)
    BY <1>5, RereadFacts
  <2>2. split_sigs(q) = q.field
    BY <1>5, <2>1, ParsedSettled
  <2>3. Reread(q) = q
    BY <2>1, <2>2, SamePlaced
  <2>4. q \in First(raw)
    BY <1>1, <1>3, <2>3
  <2>5. q \in Staying(raw)
    BY <1>5, <2>1, <2>4 DEF Staying, SettledKnown
  <2> QED
    BY <2>1, <2>3, <2>5, FixupSettled
<1>6. ASSUME NEW q \in c.sigs, Known(q.comp), q.field = "attestations"
      PROVE  /\ Reread(q) \in Leaving(raw) /\ EntryOf(Reread(q)) \in Again(raw)
             /\ Homes(EntryOf(Reread(q)), c.comps) = {q.comp}
             /\ Reread(q) \notin Lost(raw)
             /\ Fixup(Place(EntryOf(Reread(q)), q.comp, FieldFor(EntryOf(Reread(q))))) = q
  <2>1. /\ q \in Placed /\ Reread(q) \in Placed /\ Reread(q).comp = q.comp
        /\ Reread(q).id = q.id /\ Reread(q).tagged = q.tagged
        /\ SettledKnown(q) /\ Reread(q).field = split_sigs(q)
        /\ q.id \in Ids /\ q.comp \in c.comps /\ q.comp \in Components
    BY <1>6, RereadFacts
  <2>2. split_sigs(q) = "self_signatures" /\ Sig[q.id].typ = "AttestationKey"
    BY <1>6, <2>1, ParsedSettled
  <2>3. BindingType(q.comp) # "AttestationKey"
    BY DEF BindingType
  <2>4. ~Stays(Reread(q))
    BY <2>1, <2>2, <2>3 DEF Stays, Verifies
  <2>5. Reread(q) \in First(raw)
    BY <1>1, <1>3
  <2>6. Reread(q) \in Leaving(raw)
    BY <1>6, <2>1, <2>4, <2>5 DEF Leaving
  <2> DEFINE d == EntryOf(Reread(q))
  <2>7. d \in Again(raw) /\ d \in Entries /\ d.id = q.id /\ d.tagged = q.tagged
    BY <2>1, <2>6, EntryFacts DEF Again
  <2>8. /\ q.comp = Sig[q.id].on /\ Sig[q.id].valid /\ Sig[q.id].claims = "self"
        /\ q.tagged
    BY <1>6, <2>1, OwnField DEF Own, SettledKnown
  <2>9. Kind[q.comp] \in KindsFor(Sig[q.id].typ)
    BY <1>6, <2>1, <2>8, SigFacts
  <2>10. ASSUME NEW e, e.id = q.id PROVE Homes(e, c.comps) = {q.comp}
    BY <2>1, <2>8, <2>9, <2>10 DEF Homes, IsSelfSig, Verifies
  <2>11. Homes(d, c.comps) = {q.comp} /\ Homes(Reread(q), c.comps) = {q.comp}
    BY <2>1, <2>7, <2>10
  <2>12. Reread(q) \notin Lost(raw)
    BY <1>1, <2>11 DEF Lost
  <2>13. FieldFor(d) = "attestations"
    BY <2>2, <2>7 DEF FieldFor, IsRevocation
  <2> DEFINE x == Fixup(Place(d, q.comp, FieldFor(d)))
  <2>14. c.comps \in SUBSET Components
    BY DEF Copies
  <2>15. /\ x \in Placed /\ x.comp = q.comp /\ x.id = d.id /\ x.field = FieldFor(d)
         /\ d.tagged => x.tagged
    BY <2>7, <2>11, <2>14, HomePlace
  <2> HIDE DEF x, d
  <2>16. x = q
    BY <1>6, <2>1, <2>7, <2>8, <2>13, <2>15, SamePlaced
  <2> QED
    BY <2>6, <2>7, <2>11, <2>12, <2>16 DEF x, d
<1>7. ASSUME NEW e \in c.bad
      PROVE  /\ RereadBad(e, k) \in Leaving(raw) \cap Lost(raw) /\ EntryOf(RereadBad(e, k)) = e
             /\ Homes(e, c.comps) = {} /\ RereadBad(e, k).id = e.id
             /\ RereadBad(e, k).comp = k /\ Known(k)
  <2> DEFINE b == RereadBad(e, k)
  <2>1. /\ b \in Placed /\ b.comp = k /\ b.id = e.id /\ b.tagged = e.tagged
        /\ b.field = split_sigs(e) /\ EntryOf(b) = e /\ e.id \in Ids
    BY <1>1, RereadBadFacts
  <2>2. /\ ~(Sig[e.id].on = k /\ Sig[e.id].valid)
        /\ Sig[e.id].claims = "other" => k \notin Sig[e.id].looks
    BY <1>1, <1>2, BadAtHome DEF k
  <2>3. Sig[e.id].claims \in {"self", "other"} /\ e.tagged
    BY <1>2, <2>1, SigFacts
  <2> HIDE DEF b
  <2>4. ~Stays(b)
    <3>1. CASE Sig[e.id].claims = "self"
      BY <2>1, <2>2, <2>3, <3>1 DEF Stays, Verifies, split_sigs
    <3>2. CASE Sig[e.id].claims = "other"
      BY <2>1, <2>2, <2>3, <3>2 DEF Stays, split_sigs
    <3> QED
      BY <2>3, <3>1, <3>2
  <2>5. b \in First(raw)
    BY <1>1, <1>3 DEF b
  <2>6. Homes(e, c.comps) = {} /\ Homes(b, c.comps) = {}
    BY <2>1, HomesOf DEF Settled
  <2>7. b \in Leaving(raw) \cap Lost(raw)
    BY <1>1, <1>2, <2>1, <2>4, <2>5, <2>6 DEF Leaving, Lost
  <2> QED
    BY <1>2, <2>1, <2>6, <2>7 DEF b
<1>8. ASSUME NEW x \in First(raw)
      PROVE  \/ \E q \in c.sigs : x = Reread(q)
             \/ \E e \in c.bad : x = RereadBad(e, k)
  BY <1>1, <1>3
<1>9. ASSUME NEW x \in Pool(raw) PROVE x \in c.sigs
  <2>1. ASSUME NEW y \in Staying(raw), x = Fixup(y) PROVE x \in c.sigs
    <3>1. y \in First(raw) /\ Known(y.comp) /\ y \notin Leaving(raw)
      BY DEF Staying, Leaving
    <3>2. PICK q \in c.sigs : y = Reread(q)
      BY <1>7, <1>8, <3>1
    <3>3. Known(q.comp)
      BY <3>1, <3>2, RereadFacts
    <3>4. q.field # "attestations"
      BY <1>6, <3>1, <3>2, <3>3
    <3> QED
      BY <1>5, <2>1, <3>2, <3>3, <3>4
  <2>2. ASSUME NEW e \in Again(raw), NEW j \in Homes(e, raw.comps),
               x = Fixup(Place(e, j, FieldFor(e)))
        PROVE  x \in c.sigs
    <3>1. PICK y \in Leaving(raw) \cup Foreign(raw) : e = EntryOf(y)
      BY <1>1 DEF Again
    <3>2. y \in First(raw)
      BY <3>1 DEF Leaving, Foreign
    <3>3. CASE \E d \in c.bad : y = RereadBad(d, k)
      <4>1. PICK d \in c.bad : y = RereadBad(d, k)
        BY <3>3
      <4>2. e = d /\ Homes(d, c.comps) = {}
        BY <1>7, <3>1, <4>1
      <4> QED
        BY <1>1, <2>2, <4>2
    <3>4. CASE \E q \in c.sigs : y = Reread(q)
      <4>1. PICK q \in c.sigs : y = Reread(q)
        BY <3>4
      <4>2. CASE ~Known(q.comp)
        <5>1. Homes(y, raw.comps) = {}
          BY <1>4, <4>1, <4>2 DEF Lost
        <5>2. y \in Placed
          BY <4>1, RereadFacts
        <5>3. e.id = y.id /\ e.tagged = y.tagged
          BY <3>1, <5>2, EntryFacts
        <5>4. Homes(e, raw.comps) = {}
          BY <5>1, <5>3, HomesOf
        <5> QED
          BY <2>2, <5>4
      <4>3. CASE Known(q.comp) /\ q.field # "attestations"
        <5>1. y \in Staying(raw)
          BY <1>5, <4>1, <4>3
        <5>2. y \notin Leaving(raw) /\ y \notin Foreign(raw)
          BY <5>1 DEF Staying, Leaving, Foreign
        <5> QED
          BY <3>1, <5>2
      <4>4. CASE Known(q.comp) /\ q.field = "attestations"
        <5>1. /\ Homes(e, c.comps) = {q.comp}
              /\ Fixup(Place(e, q.comp, FieldFor(e))) = q
          BY <1>6, <3>1, <4>1, <4>4
        <5>2. j = q.comp
          BY <1>1, <2>2, <5>1
        <5> QED
          BY <2>2, <5>1, <5>2
      <4> QED
        BY <4>2, <4>3, <4>4
    <3> QED
      BY <1>8, <3>2, <3>3, <3>4
  <2>3. ASSUME NEW y \in Foreign(raw) \cap Lost(raw), x = [y EXCEPT !.field = split_sigs(y)]
        PROVE  x \in c.sigs
    <3>1. y \in First(raw) /\ ~Known(y.comp)
      BY DEF Foreign
    <3>2. PICK q \in c.sigs : y = Reread(q)
      BY <1>7, <1>8, <3>1
    <3>3. ~Known(q.comp)
      BY <3>1, <3>2, RereadFacts
    <3> QED
      BY <1>4, <2>3, <3>2, <3>3
  <2> QED
    BY <1>1, <2>1, <2>2, <2>3, PoolFrom
<1>10. ASSUME NEW q \in c.sigs PROVE q \in Pool(raw)
  <2>1. CASE ~Known(q.comp)
    BY <1>4, <2>1, PoolHas
  <2>2. CASE Known(q.comp) /\ q.field # "attestations"
    BY <1>5, <2>2, PoolHas
  <2>3. CASE Known(q.comp) /\ q.field = "attestations"
    <3> DEFINE d == EntryOf(Reread(q))
    <3>1. d \in Again(raw) /\ q.comp \in Homes(d, raw.comps)
          /\ Fixup(Place(d, q.comp, FieldFor(d))) = q
      BY <1>1, <1>6, <2>3
    <3> HIDE DEF d
    <3>2. Fixup(Place(d, q.comp, FieldFor(d))) \in Pool(raw)
      BY <3>1, PoolHas
    <3> QED
      BY <3>1, <3>2
  <2> QED
    BY <2>1, <2>2, <2>3
<1>11. Dedup(Pool(raw)) = c.sigs
  <2>1. Pool(raw) = c.sigs
    BY <1>9, <1>10
  <2> QED
    BY <1>0, <2>1, DedupSame DEF Single
<1>12. ASSUME NEW y \in Leaving(raw) \cap Lost(raw)
       PROVE  \E e \in c.bad : y = RereadBad(e, k)
  <2>1. y \in First(raw) /\ Known(y.comp) /\ y \notin Staying(raw)
    BY DEF Leaving, Staying
  <2>2. ASSUME NEW q \in c.sigs, y = Reread(q) PROVE FALSE
    <3>1. Known(q.comp)
      BY <2>1, <2>2, RereadFacts
    <3>2. CASE q.field = "attestations"
      BY <1>6, <2>2, <3>1, <3>2
    <3>3. CASE q.field # "attestations"
      BY <1>5, <2>1, <2>2, <3>1, <3>3
    <3> QED
      BY <3>2, <3>3
  <2> QED
    BY <1>8, <2>1, <2>2
<1>13. NewBad(raw) = c.bad
  <2>1. ASSUME NEW e \in NewBad(raw) PROVE e \in c.bad
    <3>1. PICK y \in Leaving(raw) \cap Lost(raw) : e = EntryOf(y)
      BY DEF NewBad
    <3> QED
      BY <1>7, <1>12, <3>1
  <2>2. ASSUME NEW e \in c.bad PROVE e \in NewBad(raw)
    <3> DEFINE b == RereadBad(e, k)
    <3>1. b \in Leaving(raw) \cap Lost(raw) /\ EntryOf(b) = e /\ b.id = e.id
      BY <1>7
    <3> HIDE DEF b
    <3>2. ASSUME NEW o \in Leaving(raw) \cap Lost(raw), o.id = b.id, Before(o, b)
          PROVE  FALSE
      <4>1. PICK d \in c.bad : o = RereadBad(d, k)
        BY <1>12
      <4>2. d.id = e.id
        BY <1>7, <3>1, <3>2, <4>1
      <4>3. d = e
        BY <4>2 DEF Single, SingleIds
      <4>4. o = b
        BY <4>1, <4>3 DEF b
      <4>5. CompIx(b.comp) \in Nat /\ FieldIx(b.field) \in 1..4
        BY <1>1, <3>1, LeavingFacts
      <4>6. ~Before(b, b)
        BY <4>5, BeforeIs
      <4> QED
        BY <3>2, <4>4, <4>6
    <3> QED
      BY <3>1, <3>2 DEF NewBad
  <2> QED
    BY <2>1, <2>2
<1>14. KeepFirst(raw.bad \cap Lost(raw), NewBad(raw)) = c.bad
  BY <1>1, <1>13 DEF KeepFirst, IdsOf
<1>15. /\ canonicalize(raw) \in Copies /\ canonicalize(raw).comps = c.comps
       /\ canonicalize(raw).secret = c.secret /\ canonicalize(raw).sigs = c.sigs
       /\ canonicalize(raw).bad = c.bad
  BY <1>1, <1>11, <1>14, CanonicalResult
<1> QED
  BY <1>1, <1>15, SameCopy

\* A copy is a fixed point: merging it with itself changes nothing, and writing
\* its packets and reading them again gives it back, if no digest prefix fits a
\* component of another kind.
THEOREM IsCanonicalHolds ==
    ASSUME FitsWhereItLooks
    PROVE  Spec => []IsCanonical
<1>1. Inv => IsCanonical
  <2> SUFFICES ASSUME Inv, NEW p \in Holders
               PROVE  /\ MergeInto(cert[p], cert[p]) = cert[p]
                      /\ cert[p].bad = {} \/ (Known(LastOf(cert[p].comps))
                                              /\ \A e \in cert[p].bad : e.tagged)
                           => parse(into_packets(cert[p])) = cert[p]
    BY DEF IsCanonical
  <2>1. cert[p] \in Copies /\ Settled(cert[p]) /\ Single(cert[p])
    BY HolderFacts
  <2> QED
    BY <2>1, MergeSelf, ReparseSame
<1> QED
  BY <1>1, InvHolds, PTL
=============================================================================
