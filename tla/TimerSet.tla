------------------------------ MODULE TimerSet ------------------------------
(***************************************************************************)
(* What the timer heap promises (include/ds/heap.h): a set of timers, at   *)
(* most one per owner, set, moved and dropped through the owner.  Keyspace *)
(* uses it in this form, as the deadline of each entry.                    *)
(***************************************************************************)
CONSTANTS Owners, Vals

VARIABLE timers   \* items [val |-> deadline, ref |-> owner]

Others(o) == {x \in timers : x.ref # o}

TimersInit == timers = {}

SetTimer(o, d) == timers' = Others(o) \cup {[val |-> d, ref |-> o]}
DropTimer(o) == timers' = Others(o)

TimersNext == \E o \in Owners : DropTimer(o) \/ \E d \in Vals : SetTimer(o, d)

TimersSpec == TimersInit /\ [][TimersNext]_timers
=============================================================================
