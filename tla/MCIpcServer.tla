---------------------------- MODULE MCIpcServer ----------------------------
(* Instances of IpcServer for TLC.                                         *)
EXTENDS IpcServer, TLC

CONSTANTS a, b, d, p, q    \* the processes and the ports

(* One process of each policy, in a context with the default policy.       *)
Mixed == (a :> "robust") @@ (b :> "external") @@ (d :> "internal")
=============================================================================
