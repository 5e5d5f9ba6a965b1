----------------------------- MODULE LockService -----------------------------
(***************************************************************************)
(* What KeyedMutex promises to its callers (src/src/async/keyedMutex.ts):   *)
(* a caller obtains keys one after the other, each key is held by at most   *)
(* one caller at a time, and all the keys of a call are given back at once. *)
(***************************************************************************)

CONSTANTS
    Callers,    \* the asynchronous calls that may be in flight together
    Keys        \* the strings that are locked: paths, checksums, cache keys

VARIABLE
    holds       \* holds[c]: the keys caller c may rely on having for itself

Init == holds = [c \in Callers |-> {}]

Acquire(c, k) ==
    /\ \A d \in Callers : k \notin holds[d]
    /\ holds' = [holds EXCEPT ![c] = @ \cup {k}]

ReleaseAll(c) ==
    /\ holds[c] # {}
    /\ holds' = [holds EXCEPT ![c] = {}]

Next == \E c \in Callers : ReleaseAll(c) \/ \E k \in Keys : Acquire(c, k)

Spec == Init /\ [][Next]_holds

=============================================================================
