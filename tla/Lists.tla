------------------------------- MODULE Lists --------------------------------
(***************************************************************************)
(* What the code does with arrays and maps, in the order in which          *)
(* JavaScript keeps them.                                                  *)
(***************************************************************************)
EXTENDS Naturals, Sequences, FiniteSets, SequencesExt

\* ArrayUtil.filterUniqueMapped(): the first with each key stays.
UniqueBy(s, Key(_)) ==
  FoldLeft(LAMBDA kept, x : IF \E k \in ToSet(kept) : Key(k) = Key(x)
                            THEN kept ELSE Append(kept, x), <<>>, s)

Flatten(s, Op(_)) == FoldLeft(LAMBDA all, x : all \o Op(x), <<>>, s)
Mapped(s, Op(_)) == Flatten(s, LAMBDA x : <<Op(x)>>)

\* A Map from keys to arrays, in the order in which the keys are first seen.
GroupBy(s, Key(_)) ==
  LET keys == UniqueBy(Mapped(s, Key), LAMBDA k : k)
  IN  Mapped(keys, LAMBDA k : SelectSeq(s, LAMBDA x : Key(x) = k))

\* Array.toSorted(): stable, so that what compares equal keeps its order.
SortedBy(s, Less(_, _)) ==
  FoldLeft(LAMBDA done, x :
             LET at == Cardinality({i \in DOMAIN done : ~ Less(x, done[i])})
             IN  InsertAt(done, at + 1, x), <<>>, s)

\* An option or the first of those there are.
FirstOf(s, Test(_)) == LET hits == SelectSeq(s, Test)
                       IN  IF hits = <<>> THEN <<>> ELSE <<Head(hits)>>

\* String.localeCompare() of texts given as sequences of ranks.
LexLess(a, b) ==
  \/ \E i \in 1..Len(a) :
       i <= Len(b) /\ a[i] < b[i] /\ \A j \in 1..(i - 1) : a[j] = b[j]
  \/ Len(a) < Len(b) /\ \A j \in 1..Len(a) : a[j] = b[j]
=============================================================================
