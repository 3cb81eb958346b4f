---------------------------- MODULE MCTimerHeap ----------------------------
(* TimerHeap with interchangeable owners.                                  *)
EXTENDS TimerHeap, TLC

Symmetry == Permutations(Owners)
=============================================================================
