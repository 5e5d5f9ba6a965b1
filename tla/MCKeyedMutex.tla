---------------------------- MODULE MCKeyedMutex -----------------------------
(* KeyedMutex on small instances. *)
EXTENDS KeyedMutex, TLC

CONSTANTS k1, k2, k3

\* localeCompare() tells all the keys apart.
DistinctRanks == [k \in Keys |-> CASE k = k1 -> 1 [] k = k2 -> 2 [] k = k3 -> 3]

=============================================================================
