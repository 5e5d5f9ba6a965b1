------------------------- MODULE MCMappableSemaphore --------------------------
(* MappableSemaphore on small instances: calls sharing one semaphore. *)
EXTENDS MappableSemaphore

CONSTANTS m1, m2, m3

\* Three values of the first call, two of the second, none of the third.
TwoCalls == [t \in Tasks |-> IF t <= 3 THEN m1 ELSE m2]

=============================================================================
