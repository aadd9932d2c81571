------------------------------ MODULE HoldBack ------------------------------
(***************************************************************************)
(* What the streaming Verifier and Decryptor promise their caller: of a    *)
(* message that has not been verified at least Hold bytes are kept back    *)
(* (all of it when it is shorter), a rejected message yields nothing more, *)
(* and the end of the stream is only reported for a verified message that  *)
(* has been handed out completely.                                         *)
(***************************************************************************)
EXTENDS Naturals

CONSTANT Hold     \* the bytes kept back

VARIABLES total,  \* length of the message body
          given,  \* bytes handed to the caller, in order
          status  \* "streaming", "verified", "rejected" or "ended"

hbVars == <<total, given, status>>

HBInit == total \in Nat /\ given = 0 /\ status = "streaming"

\* Hand out data that is not verified yet.
Stream == /\ status = "streaming"
          /\ given' \in Nat /\ given' > given /\ given' + Hold <= total
          /\ UNCHANGED <<total, status>>

\* The message is good; part of the rest may be handed out at once.
Accept == /\ status = "streaming"
          /\ status' = "verified"
          /\ given' \in given..total
          /\ UNCHANGED total

Deliver == /\ status = "verified"
           /\ given' \in given..total
           /\ UNCHANGED <<total, status>>

\* A bad message, a read error, or a reader that broke down.
Reject == /\ status = "streaming"
          /\ status' = "rejected"
          /\ UNCHANGED <<total, given>>

End == /\ status = "verified"
       /\ given = total
       /\ status' = "ended"
       /\ UNCHANGED <<total, given>>

HBNext == Stream \/ Accept \/ Deliver \/ Reject \/ End

HBSpec == HBInit /\ [][HBNext]_hbVars
=============================================================================
