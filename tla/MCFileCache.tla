----------------------------- MODULE MCFileCache ------------------------------
(* FileCache on a small instance. *)
EXTENDS FileCache, TLC

CONSTANTS crc32, sha1

\* The second content comes in the same second as the first, with the same size.
MCStampOf == [v \in Contents |-> IF v = 2 THEN 2 ELSE 1]
MCChecksumOrder == <<crc32, sha1>>
MCWants == {{}, {crc32}, {crc32, sha1}}
\* The second program knows the first content, nobody the second, all the third.
MCSince == [v \in Contents |-> CASE v = 0 -> 2 [] v = 1 -> 3 [] v = 2 -> 1]

MCSymmetry == Permutations(Calls)

=============================================================================
