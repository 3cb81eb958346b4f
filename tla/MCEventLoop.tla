---------------------------- MODULE MCEventLoop ----------------------------
(* EventLoop on small instances.                                           *)
EXTENDS EventLoop, TLC

\* Connections are interchangeable, and so are keys.
Symmetry == Permutations(Clients) \cup Permutations(Keys)
=============================================================================
