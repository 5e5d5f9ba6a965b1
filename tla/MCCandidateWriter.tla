-------------------------- MODULE MCCandidateWriter --------------------------
(* CandidateWriter on small instances. *)
EXTENDS CandidateWriter

CONSTANTS in1, dup1, ar1, ar2, out1, out2, zip1,
          a, b, u, c1, c2, c3, j1, j2, j3, j4, j5

From(p, x) == [path |-> p, payload |-> x]
File(p, x) == [path |-> p, payload |-> x, entry |-> FALSE]
Entry(p, x) == [path |-> p, payload |-> x, entry |-> TRUE]

\* Everybody wants in1.  c1 moves it to out1 and extracts b.  c2, of another DAT,
\* zips a and b.  c3 wants it at out1 as well, and where it is already.
MCCandidateOf == [j \in Jobs |->
    CASE j \in {j1, j2} -> c1 [] j = j3 -> c2 [] j \in {j4, j5} -> c3]
MCDatOf == [x \in Candidates |-> IF x = c2 THEN 2 ELSE 1]
MCStage == [j \in Jobs |-> CASE j = j3 -> 0 [] j = j2 -> 2 [] OTHER -> 1]
MCKind == [j \in Jobs |-> CASE j = j2 -> "extract" [] j = j3 -> "zip" [] OTHER -> "raw"]
MCNeeds == [j \in Jobs |->
    CASE j = j2 -> {From(ar1, b)}
      [] j = j3 -> {From(in1, a), From(ar1, b)}
      [] OTHER -> {From(in1, a)}]
MCOutput == [j \in Jobs |->
    CASE j \in {j1, j4} -> out1 [] j = j2 -> out2 [] j = j3 -> zip1 [] j = j5 -> in1]

MCIndex == {File(in1, a), File(dup1, a), Entry(ar1, b), Entry(ar2, b), Entry(ar2, u)}

\* There is already a file at out1, and it is wrong.
MCFirstFiles == [p \in Paths |->
    CASE p \in {in1, dup1} -> {a} [] p = ar1 -> {b} [] p = ar2 -> {b, u}
      [] p = out1 -> {} [] OTHER -> None]

MCOptions ==
    {[move |-> TRUE, test |-> TRUE, overwrite |-> "never"],
     [move |-> TRUE, test |-> FALSE, overwrite |-> "always"],
     [move |-> TRUE, test |-> TRUE, overwrite |-> "invalid"],
     [move |-> FALSE, test |-> TRUE, overwrite |-> "invalid"]}

\* The theorems of CandidateWriterProofs are about instances like this one.
ASSUME OutputsApart

=============================================================================
