---------------------------- MODULE BoundedQueue ----------------------------
(***************************************************************************)
(* What a pipeline promises its users: a first-in first-out queue of       *)
(* bounded length in which every item stays until it is taken, and which   *)
(* accepts nothing after it was shut.  A queue without room can still hand *)
(* an item over directly.                                                  *)
(***************************************************************************)
EXTENDS Integers, Sequences

CONSTANTS Items

VARIABLES capacity, queue, shut

Init == capacity \in Nat /\ queue = <<>> /\ shut = FALSE

\* The last item may come in at the moment the queue shuts.
Put(i) ==
  /\ ~shut /\ Len(queue) < capacity
  /\ queue' = Append(queue, i)
  /\ shut' \in BOOLEAN
  /\ UNCHANGED capacity

Take ==
  /\ queue # <<>>
  /\ queue' = Tail(queue)
  /\ UNCHANGED <<capacity, shut>>

Shut ==
  /\ shut' = TRUE
  /\ UNCHANGED <<capacity, queue>>

Next == (\E i \in Items : Put(i)) \/ Take \/ Shut

Spec == Init /\ [][Next]_<<capacity, queue, shut>>
=============================================================================
