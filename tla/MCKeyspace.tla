----------------------------- MODULE MCKeyspace -----------------------------
(* Keyspace and its refinement mapping, on small instances for TLC.        *)
EXTENDS KeyspaceStore, TLC

\* Arguments of ZQUERY: before, at and after the seek position.
MCOffsets == {-1, 0, 1}

\* Addresses are interchangeable: nothing orders them or tells them apart.
AddrSymmetry == Permutations(Addrs)
=============================================================================
