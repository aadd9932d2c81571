----------------------------- MODULE MCDsmKeys -----------------------------
(* Small instances of DsmKeys for TLC.                                     *)
EXTENDS DsmKeys, TLC

CONSTANTS p1, p2, p3, k1

NoFlags == [r \in Roles |-> {}]
Use(o, n) == [op |-> o, name |-> n, has |-> {}, flags |-> NoFlags,
              secret |-> {}, ec |-> FALSE, export |-> FALSE]
Generate(n, l, ec) == [op |-> "generate", name |-> n, has |-> l.has,
                       flags |-> l.flags, secret |-> {}, ec |-> ec, export |-> TRUE]
Import(n, l, sec) == [op |-> "import", name |-> n, has |-> l.has,
                      flags |-> l.flags, secret |-> sec, ec |-> FALSE,
                      export |-> TRUE]

\* A layout generate_key refuses.
Unsupported == [has |-> {"primary", "encryption"}, flags |-> C_S_E.flags]
\* Certificates made elsewhere: one whose primary also decrypts, and one with
\* an authentication subkey.
CES == [C_S_E EXCEPT !.flags["primary"] = {"C", "E"}]
C_A_E == [C_S_E EXCEPT !.flags["signing"] = {"A"}]

\* Two generators and a reader, all on one key name.
GenerateRace ==
    {[p \in Procs |-> CASE p = p1 -> Generate(k1, l1, ec)
                        [] p = p2 -> Generate(k1, l2, ec)
                        [] OTHER  -> Use(o, k1)] :
        l1 \in {CSE, C_S_E}, l2 \in {C_S_E, Unsupported},
        ec \in {TRUE}, o \in Readers}

\* An import, a generator and a reader on the same name.
ImportRace ==
    {[p \in Procs |-> CASE p = p1 -> Import(k1, l, sec)
                        [] p = p2 -> Generate(k1, CSE, FALSE)
                        [] OTHER  -> Use(o, k1)] :
        l \in {C_S_E, CES, C_A_E},
        sec \in {{}, {"primary", "encryption"}, Roles},
        o \in {"sign", "decrypt", "extractTsk"}}

\* Everything.
Races == GenerateRace \cup ImportRace
============================================================================
