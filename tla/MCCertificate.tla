---------------------------- MODULE MCCertificate ----------------------------
(* A certificate with two user ids, a user attribute, a subkey and a          *)
(* component of a future version, the signatures that made it and some that   *)
(* should not be there, and the packet sequences in which they travel.        *)
EXTENDS Certificate

MCOrder == <<"u1", "u2", "a1", "s1", "x1">>

MCKind == [pk |-> "primary", u1 |-> "userid", u2 |-> "userid", a1 |-> "attribute", s1 |-> "subkey",
           x1 |-> "unknown"]

Plainly(typ, on, time) ==
    [typ |-> typ, on |-> on, valid |-> TRUE, claims |-> "self", looks |-> {on},
     time |-> time, expires |-> 0, hard |-> FALSE, main |-> FALSE, allowed |-> TRUE,
     signing |-> FALSE, backs |-> {}]

MCSig ==
    [b1 |-> [Plainly("Certification", "u1", 1) EXCEPT !.expires = 4, !.main = TRUE],
     b2 |-> Plainly("Certification", "u2", 2),
     ab |-> Plainly("Certification", "a1", 2),
     b3 |-> Plainly("Certification", "u2", 3),
     d1 |-> Plainly("DirectKey", "pk", 3),
     ks |-> Plainly("KeyRevocation", "pk", 2),
     kh |-> [Plainly("KeyRevocation", "pk", 4) EXCEPT !.hard = TRUE],
     ur |-> [Plainly("CertificationRevocation", "u1", 2) EXCEPT !.hard = TRUE],
     sb |-> [Plainly("SubkeyBinding", "s1", 1) EXCEPT !.signing = TRUE,
                !.backs = {[time |-> 1, expires |-> 3, allowed |-> TRUE]}],
     sn |-> Plainly("SubkeyBinding", "s1", 3),
     sr |-> Plainly("SubkeyRevocation", "s1", 2),
     at |-> Plainly("AttestationKey", "u1", 2),
     tc |-> [Plainly("Certification", "u1", 2) EXCEPT !.valid = FALSE, !.claims = "other"],
     tr |-> [Plainly("KeyRevocation", "pk", 2) EXCEPT !.valid = FALSE, !.claims = "other"],
     cl |-> [Plainly("Certification", "u1", 3) EXCEPT !.valid = FALSE, !.claims = "other",
                !.looks = {"u1", "u2"}],
     fg |-> [Plainly("Certification", "u1", 3) EXCEPT !.valid = FALSE, !.looks = {}]]

MCRank == [b1 |-> 1, b2 |-> 2, d1 |-> 3, ks |-> 4, kh |-> 5, ur |-> 6, sb |-> 7, sn |-> 8,
           sr |-> 9, at |-> 10, tc |-> 11, tr |-> 12, cl |-> 13, fg |-> 14, ab |-> 15, b3 |-> 16]

C(c) == [comp |-> c, secret |-> FALSE]
K(c) == [comp |-> c, secret |-> TRUE]
S(i) == [id |-> i, tagged |-> TRUE]
T(i) == [id |-> i, tagged |-> FALSE]

MCUpdates ==
    {<<C("u1"), S("b1"), S("at"), C("s1"), S("sb")>>,
     <<K("pk"), C("u1"), S("b1"), C("u2"), S("b3"), K("s1"), S("sb")>>,
     <<S("ks"), S("tr"), S("d1"), C("u2"), S("b2"), S("ab"), S("sr"), C("a1")>>,
     <<C("u1"), S("tc"), S("ur"), S("fg"), C("s1"), S("sn"), S("at"), S("kh")>>,
     <<C("u2"), S("b1"), S("tc"), S("cl"), C("x1"), S("sr"), S("fg")>>,
     <<T("kh"), C("u1"), T("b1"), C("u2"), T("tc"), T("b2")>>}

MCInserts ==
    {<<S("kh")>>, <<T("ks")>>, <<C("x1"), S("tc"), S("b2")>>, <<C("u2"), T("sr"), T("ur")>>,
     <<K("s1"), S("sn")>>, <<C("pk")>>}

ASSUME FitsWhereItLooks

(* The two parties do the same things.                                        *)
Either == Permutations(Parties)
=============================================================================
