-------------------------- MODULE MCConnectionPool --------------------------
(***************************************************************************)
(* Class ConnectionPool for TLC: network threads that nest queries,       *)
(* with fewer connections than they may want together.                     *)
(***************************************************************************)
EXTENDS ConnectionPool, TLC

Symmetry == Permutations(Threads)
=============================================================================
