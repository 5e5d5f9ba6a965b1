---------------------------- MODULE MCTorrentZip ----------------------------
(***************************************************************************)
(* 4 GiB is 150 bytes here, a little more than the two headers of an entry,*)
(* so that sizes and offsets fall short of it, hit it and pass it; 65,535  *)
(* entries are 3.  The names A and a differ only in case, and one name is  *)
(* none that code page 437 can encode.                                     *)
(***************************************************************************)
EXTENDS TorrentZip

MCNameLength == [n \in {"A", "a", "b", "JP"} |-> IF n = "JP" THEN 3 ELSE 1]
MCRank == [n \in {"A", "a", "b", "JP"} |-> IF n = "b" THEN 2 ELSE IF n = "JP" THEN 3 ELSE 1]
MCCp437Names == {"A", "a", "b"}

\* Well compressed, or not at all.
MCCompressions(size) == IF size = 0 THEN {3} ELSE {3, size + 1}

File(n, declared, actual) == [name |-> n, declared |-> declared, actual |-> actual]

\* As declared, or changed by a patch or a padding; 118 bytes end at 150.
Sizes == {<<0, 0>>, <<118, 118>>, <<148, 148>>, <<149, 149>>, <<150, 150>>, <<151, 151>>}
Changed == {<<10, 20>>, <<149, 150>>, <<10, 151>>, <<150, 20>>, <<151, 149>>}

Ones == {<<File(n, z[1], z[2])>> : n \in {"a", "JP"}, z \in Sizes \cup Changed}
Twos == {<<File(p[1], y[1], y[2]), File(p[2], z[1], z[2])>> :
           p \in {<<"a", "A">>, <<"b", "JP">>, <<"b", "a">>}, y \in Sizes, z \in Sizes}
        \cup {<<File("b", y[1], y[2]), File("a", z[1], z[2])>> : y \in Changed, z \in Changed}
Threes == {<<File("JP", x, x), File("b", y, y), File("A", z, z)>> :
             x \in {0, 118}, y \in {0, 149}, z \in {118, 150}}

MCInputs == Ones \cup Twos \cup Threes
=============================================================================
