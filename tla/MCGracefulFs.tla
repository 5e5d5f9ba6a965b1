----------------------------- MODULE MCGracefulFs -----------------------------
(* GracefulFs on a small instance. *)
EXTENDS GracefulFs

CONSTANTS o1, o2, r1, r2, s2

\* Two calls share the queue; the others are of one kind each.
MCMethodOf == [c \in Calls |->
    CASE c \in {o1, o2} -> "open" [] c = r1 -> "rename" [] c = r2 -> "read"
      [] c = s2 -> "readSync"]

=============================================================================
