--------------------------- MODULE MCPushDelivery ---------------------------
(***************************************************************************)
(* Instances of PushDelivery for TLC: the workers of a pool are            *)
(* interchangeable, and so are the jobs.                                   *)
(***************************************************************************)
EXTENDS PushDeliveryInv, TLC

WorkerSymmetry == Permutations(Masters) \cup Permutations(Senders)
AllSymmetry == WorkerSymmetry \cup Permutations(Jobs)
=============================================================================
