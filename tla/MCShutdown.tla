----------------------------- MODULE MCShutdown -----------------------------
(***************************************************************************)
(* Instances of Shutdown for TLC: the push lane with two masters, one      *)
(* sender and the outcome worker; a handler and the scheduler submit.      *)
(***************************************************************************)
EXTENDS Shutdown, TLC

CONSTANTS push, j1, j2, m1, m2, s1, o1

PushLane == [x \in Jobs \cup Workers |-> push]
Stage == m1 :> 1 @@ m2 :> 1 @@ s1 :> 2 @@ o1 :> 3
=============================================================================
