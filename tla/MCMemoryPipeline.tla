-------------------------- MODULE MCMemoryPipeline --------------------------
(***************************************************************************)
(* Instances of MemoryPipeline for TLC.                                    *)
(***************************************************************************)
EXTENDS MemoryPipeline

\* A channel without a buffer (asked for as -1) and one with room for one item.
Sizes == {-1, 1}
=============================================================================
