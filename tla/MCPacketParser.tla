--------------------------- MODULE MCPacketParser ---------------------------
(***************************************************************************)
(* A reference definition of OpenPGP messages on the tree of packets that  *)
(* the caller of PacketParser has seen, against which the validator, which *)
(* sees a flat sequence of tokens, is compared.                            *)
(***************************************************************************)
EXTENDS PacketParser

\* s is a preorder listing of sibling packets at depth d and all below them.
RECURSIVE IsMessage(_, _), IsEncrypted(_, _)

\* The content of container c is a message: its packets, or if the caller did
\* not look into it, some data that may be one.
Content(c, inner, d) ==
    IF c.content = "opaque" THEN inner = <<>> ELSE IsMessage(inner, d + 1)

IsEncrypted(s, d) ==
    /\ s # <<>> /\ s[1].depth = d
    /\ LET c     == s[1]
           inner == Tail(s)
           below == \A i \in 1..Len(inner) : inner[i].depth > d
       IN  \/ c.tag \in {"PKESK", "SKESK"} /\ IsEncrypted(inner, d)
           \/ c.tag = "AED" /\ below /\ Content(c, inner, d)
           \/ /\ c.tag = "SEIP" /\ below
              /\ IF inner = <<>> THEN Content(c, inner, d)
                 ELSE /\ Last(inner).tag = "MDC" /\ Last(inner).depth = d + 1
                      /\ Content(c, Front(inner), d)

IsMessage(s, d) ==
    /\ s # <<>> /\ s[1].depth = d
    /\ LET c     == s[1]
           inner == Tail(s)
           below == \A i \in 1..Len(inner) : inner[i].depth > d
       IN  \/ c.tag = "Literal" /\ inner = <<>>
           \/ c.tag = "Signature" /\ IsMessage(inner, d)
           \/ /\ c.tag = "OnePassSig" /\ inner # <<>>
              /\ Last(inner).tag = "Signature" /\ Last(inner).depth = d
              /\ IsMessage(Front(inner), d)
           \/ c.tag = "CompressedData" /\ below /\ Content(c, inner, d)
           \/ IsEncrypted(s, d)

Visible == SelectSeq(nodes, LAMBDA n : n.tag # "Marker")

\* At the end of the stream is_message accepts exactly the packet trees that
\* are messages, although the validator is never told where a container ends
\* and marker packets change the depth behind its back.  A container that the
\* caller read to its end itself counts as empty, one it read in part or not at
\* all as opaque.
MessageIffTree ==
    mode = "eof" => (is_message <=> IsMessage(Visible, 0))
=============================================================================
