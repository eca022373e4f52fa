-------------------------- MODULE MCConnectionPool --------------------------
(* Instances of ConnectionPool for TLC. *)
EXTENDS ConnectionPool, TLC

\* Threads and connections are interchangeable: no definition tells one from
\* another, the order of the list is kept by the list itself.
PoolSymmetry == Permutations(Threads) \cup Permutations(Connections)
=============================================================================
