----------------------------- MODULE MCMPSCQueue -----------------------------
(* Addresses are fewer than values plus one, so that deleted nodes are     *)
(* allocated again while producers are still stopped inside Enqueue.       *)
EXTENDS MPSCQueue
=============================================================================
