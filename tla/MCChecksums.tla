---------------------------- MODULE MCChecksums ----------------------------
(***************************************************************************)
(* Two dumps with the same size and CRC32, and a disk.  Every pair of      *)
(* limits, and two of the files at a time: one of each format, some of     *)
(* them read by an earlier run, one zip with a table that is wrong.        *)
(***************************************************************************)
EXTENDS Checksums

MCCrcOf == [c \in {"a", "b", "d"} |-> IF c = "d" THEN "crcD" ELSE "crcAB"]

OptionSet(min, max, quick, patches, dir2dat, dat, excludeDisks) ==
  [min |-> min, max |-> max, quick |-> quick, patches |-> patches,
   dir2dat |-> dir2dat, dat |-> dat, excludeDisks |-> excludeDisks]
MCOptionSets ==
  {OptionSet(min, max, quick, patches, d[1], d[2], d[3]) :
     min \in Kinds, max \in Kinds, quick \in BOOLEAN, patches \in BOOLEAN,
     d \in {<<TRUE, FALSE, FALSE>>, <<TRUE, TRUE, FALSE>>, <<FALSE, FALSE, FALSE>>,
            <<FALSE, TRUE, FALSE>>, <<FALSE, TRUE, TRUE>>}}

Rom(content, kinds, sized) ==
  [content |-> content, sums |-> Calculated(content, kinds), sized |-> sized, disk |-> FALSE]
Disk == [Rom("d", {SHA1}, FALSE) EXCEPT !.disk = TRUE]

\* As of No-Intro, of a DAT without sizes, and of MAME; and no DAT.
MCDatSets ==
  {{}, {{Rom("a", {CRC32, MD5, SHA1}, TRUE)}},
   {{Rom("a", {CRC32, MD5}, FALSE)}, {Disk}},
   {{Rom("a", {CRC32, SHA1}, TRUE), Rom("b", {SHA256}, FALSE)}},
   {{Rom("a", {CRC32}, TRUE), Disk}}}

File(name, format, content, table, earlier) ==
  [name |-> name, format |-> format, content |-> content, table |-> table, earlier |-> earlier]
Crc(content) == Calculated(content, {CRC32})
WithCrc == Crc("a")
Wrong == [k \in {CRC32} |-> "crcD"]

Files ==
  {File(1, "plain", "a", <<>>, {}),
   File(2, "plain", "b", <<>>, {Kinds}),
   File(3, "zip", "b", WithCrc, {{CRC32, MD5}}),
   File(4, "zip", "a", Wrong, {{}}),
   File(5, "gz", "a", WithCrc, {}),
   File(6, "rar", "a", WithCrc, {{CRC32}}),
   File(7, "7z", "a", <<>>, {}),
   File(8, "7z", "b", WithCrc, {{SHA1}}),
   File(9, "tar", "b", <<>>, {{}}),
   File(10, "cso", "a", <<>>, {{MD5}}),
   File(11, "rvz", "a", <<>>, {{MD5, SHA1}}),
   File(12, "nkit", "a", WithCrc, {}),
   File(13, "chdraw", "d", Calculated("d", {SHA1}), {{CRC32}}),
   File(14, "chddata", "b", Calculated("b", {SHA1}), {}),
   File(15, "zip", "a", Wrong, {{MD5}})}

MCInputSets == {{f, g} : f \in Files, g \in {h \in Files : h.name \in {1, 2, 3, 13}}}
=============================================================================
