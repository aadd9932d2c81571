----------------------------- MODULE Certificate -----------------------------
(* Certificates as several parties hold and exchange them: parsing, canonical *)
(* form, merging, inserting packets (cert.rs, cert/parser/mod.rs), and what   *)
(* the certificate then says: binding signatures, primary user id, revocation *)
(* status (cert/bundle.rs, cert/amalgamation*.rs).                            *)
(*                                                                            *)
(* A component is a name and a signature is an entry of the table Sig; what a *)
(* party holds of a signature is its id and whether issuer subpackets are     *)
(* still on it (they live in the unhashed area, which anybody may strip).     *)
(* Every vector of signatures is kept sorted and without duplicates by        *)
(* sort_and_dedup, so a set of entries is that vector.                        *)
EXTENDS Integers, FiniteSets, SequencesExt

CONSTANTS
    Parties,        \* who holds a copy of the certificate
    Primary,        \* the primary key
    Order,          \* every other component, in the order sort_and_dedup gives
    Kind,           \* component -> "primary", "userid", "attribute", "subkey", "unknown"
    Sig,            \* signature id -> what its hashed area and its MPIs say
    Rank,           \* signature id -> its place in the order of the MPIs
    WeakKeys,       \* the keys the policy rejects
    Updates,        \* packet sequences of whole certificates on the network
    Inserts,        \* packet sequences a program inserts
    Times,          \* reference times at which a certificate is evaluated
    MaxSteps        \* bound on the number of operations

Components == {Primary} \cup Range(Order)
Ids        == DOMAIN Sig
Types      == {"DirectKey", "KeyRevocation", "Certification", "AttestationKey",
               "CertificationRevocation", "SubkeyBinding", "SubkeyRevocation"}
Keys       == {c \in Components : Kind[c] \in {"primary", "subkey"}}

(* on: the component it was made over; valid: the primary key made it;        *)
(* claims: whom its issuer subpackets name; looks: the components whose hash  *)
(* starts with its digest prefix; expires = 0: never; hard: reason for        *)
(* revocation; main: the primary user id flag; allowed: policy.signature;     *)
(* backs: the embedded signatures of a binding for a signing subkey.          *)
Signatures ==
    [typ : Types, on : Components, valid : BOOLEAN, claims : {"self", "other"},
     looks : SUBSET Components, time : Nat, expires : Nat, hard : BOOLEAN,
     main : BOOLEAN, allowed : BOOLEAN, signing : BOOLEAN,
     backs : SUBSET [time : Nat, expires : Nat, allowed : BOOLEAN]]

Known(k) == Kind[k] # "unknown"

\* The components whose signatures have this type.
KindsFor(typ) ==
    CASE typ \in {"DirectKey", "KeyRevocation"}        -> {"primary"}
      [] typ \in {"SubkeyBinding", "SubkeyRevocation"} -> {"subkey"}
      [] OTHER                                         -> {"userid", "attribute"}

\* A packet is a component or a signature as it is held.
Entries == [id : Ids, tagged : BOOLEAN]
Packets == [comp : Components, secret : BOOLEAN] \cup Entries

ASSUME CertificateAssumption ==
    /\ Primary \notin Range(Order)
    /\ Order \in Seq(Range(Order)) /\ IsInjective(Order)
    /\ Kind \in [Components -> {"primary", "userid", "attribute", "subkey", "unknown"}]
    /\ \A k \in Components : Kind[k] = "primary" <=> k = Primary
    /\ \A i \in Ids : /\ Sig[i] \in Signatures
                      /\ Known(Sig[i].on) => Kind[Sig[i].on] \in KindsFor(Sig[i].typ)
                      /\ Sig[i].valid => Sig[i].claims = "self"
    /\ Rank \in [Ids -> Nat] /\ IsInjective(Rank)
    /\ \A u \in Updates \cup Inserts : u \in Seq(Packets)
    /\ Times \subseteq Nat
    /\ MaxSteps \in Nat

\* No digest prefix of a signature fits a component of another kind, and
\* attestations name their issuer.
FitsWhereItLooks ==
    \A i \in Ids : /\ \A k \in Sig[i].looks : Known(k) => Kind[k] \in KindsFor(Sig[i].typ)
                   /\ Sig[i].typ = "AttestationKey" => Sig[i].claims = "self"

VARIABLES
    cert,           \* party -> its copy, or NoCert
    known,          \* party -> history: the entries it was given so far
    dropped,        \* party -> history: those of them that merging dropped
    steps

vars == <<cert, known, dropped, steps>>

NoCert == [comps |-> {}]

--------------------------------------------------------------------------
(* The vectors of the bundles, together: each member says which entry is in *)
(* which vector of which component: self_signatures, certifications,        *)
(* attestations, self_revocations or other_revocations.                     *)
EntryOf(q)     == [id |-> q.id, tagged |-> q.tagged]
Place(e, k, f) == [comp |-> k, field |-> f, id |-> e.id, tagged |-> e.tagged]
IdsOf(S)       == {e.id : e \in S}
Vector(c, k, f) == {q \in c.sigs : q.comp = k /\ q.field = f}

\* ComponentBundle::sort_and_dedup, sig_merge: equal signatures of a vector
\* become one that has the issuers of both.
Dedup(S) == {q \in S : q.tagged \/ [q EXCEPT !.tagged = TRUE] \notin S}

\* Cert::sort_and_dedup on bad: of equal signatures the first one stays as it is.
KeepFirst(S, T) == S \cup {e \in T : e.id \notin IdsOf(S)}

IsRevocation(i) ==
    Sig[i].typ \in {"KeyRevocation", "SubkeyRevocation", "CertificationRevocation"}

\* parser::split_sigs: the field an entry goes to.  Without issuers an entry
\* is somebody else's.
split_sigs(e) ==
    IF e.tagged /\ Sig[e.id].claims = "self"
    THEN IF IsRevocation(e.id) THEN "self_revocations" ELSE "self_signatures"
    ELSE IF IsRevocation(e.id) THEN "other_revocations" ELSE "certifications"

--------------------------------------------------------------------------
(* Cert::canonicalize.                                                      *)

BindingType(k) ==
    CASE Kind[k] = "primary" -> "DirectKey"
      [] Kind[k] = "subkey"  -> "SubkeyBinding"
      [] OTHER               -> "Certification"
RevocationType(k) ==
    CASE Kind[k] = "primary" -> "KeyRevocation"
      [] Kind[k] = "subkey"  -> "SubkeyRevocation"
      [] OTHER               -> "CertificationRevocation"

\* Signature::verify_direct_key, verify_userid_binding, ...: the type is
\* checked, then the digest over the component with the primary key.
Verifies(i, k, typ) == Sig[i].typ = typ /\ Sig[i].on = k /\ Sig[i].valid

\* Mutant: of the holder's signatures only the type is checked.
StaysUnverified(q) ==
    CASE q.field = "self_signatures"  -> Sig[q.id].typ = BindingType(q.comp)
      [] q.field = "self_revocations" -> Sig[q.id].typ = RevocationType(q.comp)
      [] q.field = "attestations"     -> TRUE
      [] OTHER                        -> q.comp \in Sig[q.id].looks

\* check!, check_3rd_party!: does an entry stay where it is?  Attestations are
\* not looked at again.
Stays(q) ==
    CASE q.field = "self_signatures"  -> Verifies(q.id, q.comp, BindingType(q.comp))
      [] q.field = "self_revocations" -> Verifies(q.id, q.comp, RevocationType(q.comp))
      [] q.field = "attestations"     -> TRUE
      [] OTHER                        -> q.comp \in Sig[q.id].looks

\* The order in which canonicalize checks the vectors.
CheckOrder == <<"self_signatures", "self_revocations", "certifications", "other_revocations">>
Before(q, r) ==
    LET comp(x)  == CHOOSE n \in 0..Len(Order) : x.comp = IF n = 0 THEN Primary ELSE Order[n]
        field(x) == CHOOSE n \in 1..4 : x.field = CheckOrder[n]
    IN  comp(q) < comp(r) \/ (comp(q) = comp(r) /\ field(q) < field(r))

\* The second look at signatures that did not fit: one without issuers is
\* tried as a self-signature.
IsSelfSig(e) == ~e.tagged \/ Sig[e.id].claims = "self"

FieldFor(e) ==
    CASE Sig[e.id].typ = "AttestationKey" -> "attestations"
      [] IsRevocation(e.id) -> IF IsSelfSig(e) THEN "self_revocations" ELSE "other_revocations"
      [] OTHER              -> IF IsSelfSig(e) THEN "self_signatures" ELSE "certifications"

\* Mutant: the signatures of others are not looked at again.
HomesOwn(e, comps) ==
    {k \in comps : /\ Kind[k] \in KindsFor(Sig[e.id].typ)
                   /\ IsSelfSig(e) /\ Verifies(e.id, k, Sig[e.id].typ)}

\* check_one!, check_one_3rd_party!: the components that take the entry.
Homes(e, comps) ==
    {k \in comps :
        /\ Kind[k] \in KindsFor(Sig[e.id].typ)
        /\ IF IsSelfSig(e)
           THEN Verifies(e.id, k, Sig[e.id].typ)
           ELSE Sig[e.id].typ # "AttestationKey" /\ k \in Sig[e.id].looks}

\* Mutant: no issuers are added.
FixupNot(q) == q

\* add_missing_issuers in sig_fixup: what the primary key verified carries
\* its issuers from now on.
Fixup(q) ==
    IF q.field \in {"self_signatures", "self_revocations", "attestations"}
    THEN [q EXCEPT !.tagged = TRUE]
    ELSE q

canonicalize(raw) ==
    LET first    == Dedup(raw.sigs)
        stay     == {q \in first : Known(q.comp) /\ Stays(q)}
        left     == {q \in first : Known(q.comp) /\ ~Stays(q)}
        unknown  == {q \in first : ~Known(q.comp)}
        again    == raw.bad \cup {EntryOf(q) : q \in left \cup unknown}
        moved    == UNION {{Place(e, k, FieldFor(e)) : k \in Homes(e, raw.comps)} : e \in again}
        lost     == {q \in first \cup raw.bad : Homes(q, raw.comps) = {}}
        newBad   == {EntryOf(q) : q \in {r \in left \cap lost :
                       ~\E o \in left \cap lost : o.id = r.id /\ Before(o, r)}}
    IN  [raw EXCEPT
           !.sigs = Dedup({Fixup(q) : q \in stay \cup moved}
                          \cup {[q EXCEPT !.field = split_sigs(q)] : q \in unknown \cap lost}),
           !.bad  = KeepFirst(raw.bad \cap lost, newBad)]

--------------------------------------------------------------------------
(* Packets.  A certificate's packets are its components and the entries     *)
(* that follow each of them.  group orders the entries of a component: the  *)
(* five vectors as into_packets writes them, the bad signatures, what was   *)
(* appended.  last is the component the sequence ends with.                 *)

IsComponent(p) == "comp" \in DOMAIN p

VectorOrder == <<"self_revocations", "self_signatures", "attestations",
                 "certifications", "other_revocations">>
After(e, k, g) == [comp |-> k, group |-> g, id |-> e.id, tagged |-> e.tagged]

\* The sequence that is only a primary key.
OnlyPrimary == [comps |-> {Primary}, secret |-> {}, last |-> Primary, after |-> {}]

LastOf(comps) ==
    LET there == {n \in DOMAIN Order : Order[n] \in comps}
    IN  IF there = {} THEN Primary ELSE Order[Max(there)]

\* Cert::into_packets: the bad signatures come last.
into_packets(c) ==
    [comps |-> c.comps, secret |-> c.secret, last |-> LastOf(c.comps),
     after |-> {After(q, q.comp, CHOOSE g \in 1..5 : VectorOrder[g] = q.field) : q \in c.sigs}
               \cup {After(e, LastOf(c.comps), 6) : e \in c.bad}]

AppendPacket(ps, p) ==
    IF IsComponent(p)
    THEN [ps EXCEPT !.comps = @ \cup {p.comp}, !.last = p.comp,
                    !.secret = IF p.secret THEN @ \cup {p.comp} ELSE @]
    ELSE [ps EXCEPT !.after = @ \cup {After(p, ps.last, 7)}]

\* The loop of Cert::insert_packets: a known key takes over the secret of the
\* new packet, the first copy of a known signature the new unhashed area;
\* anything else is appended.
InsertPacket(ps, p) ==
    LET copies == {a \in ps.after : a.id = p.id}
        comp(a) == CHOOSE n \in 0..Len(Order) : a.comp = IF n = 0 THEN Primary ELSE Order[n]
        old    == CHOOSE a \in copies : \A o \in copies :
                     comp(a) < comp(o) \/ (comp(a) = comp(o) /\ a.group <= o.group)
    IN  CASE IsComponent(p) /\ p.comp \in ps.comps ->
               [ps EXCEPT !.secret = IF p.secret THEN @ \cup {p.comp} ELSE @ \ {p.comp}]
          [] ~IsComponent(p) /\ copies # {} ->
               [ps EXCEPT !.after = (@ \ {old}) \cup {[old EXCEPT !.tagged = p.tagged]}]
          [] OTHER -> AppendPacket(ps, p)

\* CertParser::cert on one certificate: every signature is first on the
\* certifications of the component before it, and is then split.  On unknown
\* components this is left to canonicalize.
parse(ps) ==
    canonicalize([comps |-> ps.comps, secret |-> ps.secret, bad |-> {},
                  sigs |-> {Place(a, a.comp, IF Known(a.comp) THEN split_sigs(a)
                                             ELSE "certifications") : a \in ps.after}])

--------------------------------------------------------------------------
(* Operations.                                                              *)

Init ==
    /\ cert = [p \in Parties |-> NoCert]
    /\ known = [p \in Parties |-> {}]
    /\ dropped = [p \in Parties |-> {}]
    /\ steps = 0

Step == steps < MaxSteps /\ steps' = steps + 1

\* The signatures of a packet sequence.
EntriesOf(u) == {p \in Range(u) : ~IsComponent(p)}

\* Cert::try_from on a sequence that came over the network.
Parse(p) ==
    /\ Step
    /\ cert[p] = NoCert
    /\ \E u \in Updates :
         /\ cert' = [cert EXCEPT ![p] = parse(FoldLeft(AppendPacket, OnlyPrimary, u))]
         /\ known' = [known EXCEPT ![p] = EntriesOf(u)]
         /\ dropped' = [dropped EXCEPT ![p] = @ \ EntriesOf(u)]

\* A copy without issuers replaces one that had them: the party has been given
\* the signature, but no longer its issuers.
Untagged(e, S) == e.tagged /\ [e EXCEPT !.tagged = FALSE] \in S

\* Cert::insert_packets.
InsertPackets(p) ==
    /\ Step
    /\ cert[p] # NoCert
    /\ \E u \in Inserts :
         /\ cert' = [cert EXCEPT ![p] = parse(FoldLeft(InsertPacket, into_packets(@), u))]
         /\ known' = [known EXCEPT ![p] =
                         {e \in @ \cup EntriesOf(u) : ~Untagged(e, EntriesOf(u))}]
         /\ dropped' = [dropped EXCEPT ![p] = @ \ EntriesOf(u)]

\* Cert::merge_public_and_secret: the unknown components of other are not
\* taken over.
MergeInto(c, other) ==
    canonicalize(
        [comps  |-> c.comps \cup {k \in other.comps : Known(k)},
         secret |-> c.secret \cup other.secret,
         bad    |-> KeepFirst(c.bad, other.bad),
         sigs   |-> c.sigs \cup {q \in other.sigs : Known(q.comp)}])

\* Cert::strip_secret_key_material.
Strip(c) == [c EXCEPT !.secret = {}]

\* The signatures that stand nowhere but on these unknown components.
LeftBehind(c) ==
    LET foreign == {q \in c.sigs : ~Known(q.comp)}
    IN  IdsOf(foreign) \ IdsOf(c.bad \cup (c.sigs \ foreign))

\* What a party was given and no merge dropped.
Due(p) == known[p] \ dropped[p]

MergeWith(p, q, other) ==
    /\ Step
    /\ cert[p] # NoCert /\ cert[q] # NoCert
    /\ cert' = [cert EXCEPT ![p] = MergeInto(@, other)]
    /\ known' = [known EXCEPT ![p] = @ \cup known[q]]
    /\ dropped' = [dropped EXCEPT ![p] =
                      (known[p] \cup known[q])
                      \ (Due(p) \cup {e \in Due(q) : e.id \notin LeftBehind(cert[q])})]

\* Cert::merge_public.
MergePublic(p, q) == MergeWith(p, q, Strip(cert[q]))

\* Cert::merge_public_and_secret.
MergePublicAndSecret(p, q) == MergeWith(p, q, cert[q])

\* Cert::retain_userids, retain_subkeys, retain_user_attributes with a
\* predicate that drops one component: its signatures go with it.
Retain(p) ==
    /\ Step
    /\ \E k \in {j \in cert[p].comps : Kind[j] \in {"userid", "attribute", "subkey"}} :
        LET gone == {q \in cert[p].sigs : q.comp = k}
            kept == (cert[p].sigs \ gone) \cup cert[p].bad
        IN  /\ cert' = [cert EXCEPT ![p].comps = @ \ {k}, ![p].secret = @ \ {k},
                                    ![p].sigs = @ \ gone]
            /\ known' = [known EXCEPT ![p] =
                            {e \in @ : e.id \in IdsOf(gone) => ~e.tagged /\ e.id \in IdsOf(kept)}]
            /\ UNCHANGED dropped

Next ==
    \E p \in Parties :
        \/ Parse(p)
        \/ InsertPackets(p)
        \/ Retain(p)
        \/ \E q \in Parties \ {p} : MergePublic(p, q) \/ MergePublicAndSecret(p, q)

Spec == Init /\ [][Next]_vars

--------------------------------------------------------------------------
(* What a certificate says.                                                 *)

\* Signature::signature_alive with no tolerance.
Alive(s, t) == s.time <= t /\ (s.expires = 0 \/ t < s.expires)

\* sig_cmp: newest first, the MPIs break ties.
NewerFirst(i, j) ==
    \/ Sig[i].time > Sig[j].time
    \/ Sig[i].time = Sig[j].time /\ Rank[i] < Rank[j]

\* The body of the loop of ComponentBundle::binding_signature.
Usable(i, t) ==
    /\ Alive(Sig[i], t) /\ Sig[i].allowed
    /\ Sig[i].typ = "SubkeyBinding" /\ Sig[i].signing
         => \E b \in Sig[i].backs : Alive(b, t) /\ b.allowed

\* ComponentBundle::binding_signature: the search starts at the newest signature
\* that is not from after t and goes on to older ones until one is usable.  The
\* result is the set of that one signature, or empty.
Searched(c, k, t) == {i \in IdsOf(Vector(c, k, "self_signatures")) : Sig[i].time <= t}
binding_signature(c, k, t) ==
    LET good == {i \in Searched(c, k, t) : Usable(i, t)}
    IN  {i \in good : \A j \in good \ {i} : NewerFirst(i, j)}

\* Mutant: a hard revocation counts only from its creation time on.
RevokesIfAlive(i, t, final, selfsigs) ==
    /\ Sig[i].allowed /\ Alive(Sig[i], t)
    /\ (final /\ Sig[i].hard) \/ \A s \in selfsigs : Sig[s].time <= Sig[i].time

\* Mutant: without a self-signature the reference time is its creation time.
RevokesFallback(i, t, final, selfsigs) ==
    /\ Sig[i].allowed
    /\ \/ final /\ Sig[i].hard
       \/ /\ Alive(Sig[i], t)
          /\ IF selfsigs = {} THEN t <= Sig[i].time
             ELSE \A s \in selfsigs : Sig[s].time <= Sig[i].time

\* ComponentBundle::_revocation_status, for the signatures that may override a
\* soft revocation.
Revokes(i, t, final, selfsigs) ==
    /\ Sig[i].allowed
    /\ \/ final /\ Sig[i].hard
       \/ Alive(Sig[i], t) /\ \A s \in selfsigs : Sig[s].time <= Sig[i].time

_revocation_status(c, k, t, final, selfsigs) ==
    IF \E e \in Vector(c, k, "self_revocations") : Revokes(e.id, t, final, selfsigs)
    THEN "Revoked"
    ELSE IF \E e \in Vector(c, k, "other_revocations") : Revokes(e.id, t, final, selfsigs)
    THEN "CouldBe" ELSE "NotAsFarAsWeKnow"

\* ValidComponentAmalgamation::primary over the user ids that are bound: not
\* revoked, then marked primary, then newest, then first by name.
Above(a, b) ==
    IF a.revoked # b.revoked THEN b.revoked
    ELSE IF Sig[a.sig].main # Sig[b.sig].main THEN Sig[a.sig].main
    ELSE IF Sig[a.sig].time # Sig[b.sig].time THEN Sig[a.sig].time > Sig[b.sig].time
    ELSE \E m, n \in DOMAIN Order : m < n /\ Order[m] = a.uid /\ Order[n] = b.uid
PrimaryUserID(c, t) ==
    LET bound == UNION {{[uid |-> u, sig |-> i,
                          revoked |-> _revocation_status(c, u, t, FALSE, {i}) = "Revoked"]
                             : i \in binding_signature(c, u, t)}
                        : u \in {k \in c.comps : Kind[k] = "userid"}}
    IN  {a \in bound : \A b \in bound \ {a} : Above(a, b)}

\* ErasedKeyAmalgamation::binding_signature of the primary key.
PrimaryBinding(c, t) ==
    LET primary == PrimaryUserID(c, t)
    IN  IF primary = {} THEN binding_signature(c, Primary, t) ELSE {u.sig : u \in primary}

\* Cert::with_policy: what binds the primary key, if the policy accepts the key.
WithPolicy(c, t) == IF Primary \in WeakKeys THEN {} ELSE PrimaryBinding(c, t)

\* Cert::revocation_status: the newer of the two signatures over the primary
\* key of a valid certificate may override a soft revocation.
OverPrimary(c, t) ==
    UNION {{i} \cup binding_signature(c, Primary, t) : i \in WithPolicy(c, t)}

\* The self-signatures that may override a soft revocation, and whether a hard
\* one is final: revocation_status of the certificate and of the bundles.
Overriding(c, k, t) == IF k = Primary THEN OverPrimary(c, t) ELSE binding_signature(c, k, t)
Final(k)            == Kind[k] \in {"primary", "subkey"}
Status(c, k, t)     == _revocation_status(c, k, t, Final(k), Overriding(c, k, t))

--------------------------------------------------------------------------
(* Properties.                                                              *)

Holders == {p \in Parties : cert[p] # NoCert}

\* Whatever was parsed, merged or inserted, and wherever the signatures stood:
\* what a copy counts as the holder's own signature over a component was made
\* by the primary key over that component, and with the type for it.
OwnIsVerified ==
    \A p \in Holders : \A k \in cert[p].comps : Known(k) =>
        /\ \A e \in Vector(cert[p], k, "self_signatures") : Verifies(e.id, k, BindingType(k))
        /\ \A e \in Vector(cert[p], k, "self_revocations") : Verifies(e.id, k, RevocationType(k))
        /\ \A e \in Vector(cert[p], k, "attestations") : Verifies(e.id, k, "AttestationKey")

Places(c, i) == {<<q.comp, q.field>> : q \in {r \in c.sigs : r.id = i /\ Known(r.comp)}}

\* A genuine signature with its issuers, of a digest prefix of its own.
Plain(e) == e.tagged /\ Sig[e.id].looks = {Sig[e.id].on}
OnlyPlain(p, i) == \A e \in Due(p) : e.id = i => Plain(e)

\* A signature of the holder or of somebody else that was always seen with its
\* issuers is in the one vector it belongs to as soon as its component is
\* there, in whatever order and after whichever component both arrived.  No
\* signature is lost by parsing, inserting, sorting or moving it, also if it
\* fits nowhere yet.  Merging loses exactly those, revocations too, that stand
\* only on unknown components of the certificate merged in, if the party has
\* not got them from elsewhere.
HasItsPlace ==
    \A p \in Holders : \A e \in known[p] : e \in dropped[p] \/
        LET s == Sig[e.id] IN
        /\ e.id \in IdsOf(cert[p].sigs) \cup IdsOf(cert[p].bad)
        /\ /\ OnlyPlain(p, e.id) /\ Known(s.on) /\ s.on \in cert[p].comps
           /\ s.claims = "self" => s.valid
           /\ s.typ = "AttestationKey" => s.claims = "self"
           => Places(cert[p], e.id) = {<<s.on, FieldFor(e)>>}

\* A hard revocation of a key that arrived with its issuers revokes the key at
\* every reference time, also before it was made, whatever else is in the
\* certificate, if no other component has its digest prefix, it was not left
\* on an unknown component by a merge, and no copy without its issuers was
\* inserted over it.
HardIsFinal ==
    \A p \in Holders : \A e \in Due(p) :
        LET s == Sig[e.id] IN
        /\ Plain(e) /\ s.claims = "self" /\ s.valid /\ s.allowed /\ s.hard
        /\ s.on \in cert[p].comps \cap Keys /\ s.typ = RevocationType(s.on)
        => \A t \in Times : Status(cert[p], s.on, t) = "Revoked"

\* A signature, or one embedded in it, from after t.
MadeAfter(i, t) == Sig[i].time > t \/ \E b \in Sig[i].backs : b.time > t

\* A revocation of a component that is in force at t and not at a later u has
\* expired, or is overridden at u by a newer self-signature of that component
\* that was made after t.  Waiting alone gives nothing back but this: if
\* another user id is the primary one at u, its binding overrides a revocation
\* of the primary key, also if it was there at t already.
StaysRevoked ==
    \A p \in Holders : \A k \in {j \in cert[p].comps : Known(j)} :
        LET c         == cert[p]
            Counts(i, t) == Revokes(i, t, Final(k), Overriding(c, k, t))
        IN  \A t, u \in Times : \A e \in Vector(c, k, "self_revocations") :
              /\ t < u
              /\ Counts(e.id, t) /\ ~Counts(e.id, u)
              /\ Alive(Sig[e.id], u)
              => \E i \in Overriding(c, k, u) :
                   /\ Sig[i].time > Sig[e.id].time
                   /\ \/ MadeAfter(i, t)
                      \/ /\ k = Primary
                         /\ \E a \in PrimaryUserID(c, u) :
                              a.sig = i /\ \A b \in PrimaryUserID(c, t) : a.uid # b.uid

\* A copy is a fixed point: merging it with itself changes nothing, and
\* writing its packets and reading them again gives it back.  Bad signatures
\* are written after the last component: an unknown one keeps them, and one
\* without issuers may now be where it belongs.
IsCanonical ==
    \A p \in Holders :
        /\ MergeInto(cert[p], cert[p]) = cert[p]
        /\ cert[p].bad = {} \/ (Known(LastOf(cert[p].comps)) /\ \A e \in cert[p].bad : e.tagged)
             => parse(into_packets(cert[p])) = cert[p]

=============================================================================
