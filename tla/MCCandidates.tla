---------------------------- MODULE MCCandidates -----------------------------
(***************************************************************************)
(* Small disks, DATs and options for Candidates, in families: archives     *)
(* against names, headers and padding, output paths, several DATs and the  *)
(* output directory, discs.                                                *)
(***************************************************************************)
EXTENDS Candidates

MCHeaderOf == [H |-> [body |-> "A", headered |-> ".lnx", headerless |-> ".lyx"]]
MCPaddingsOf == [T |-> <<"P", "Q">>]
MCSignatures == [T |-> ".nds", A |-> ".nes", B |-> ".nes"]
MCTrimmable == {".nds"}
MCPowerOfTwo == {"A", "B", "C", "D"}
MCEmpty == "Z"
MCJunkNames == {".DS_Store"}
MCAlphabet == <<"", "-", "#", "in", "out", "old", "1", "a", "b", "c", "d", "A", "B", "C", "D", "E", "H", "K", "P", "Q", "T",
                "Z", ".bin", ".cue", ".lnx", ".nds", ".zip">>
MCRoots == <<"out">>
MCLettersOf == [n \in {"a", "ab", "ac", "b", "c", "d", "g", "h", "a d1", "a d2", "k", "1", "p", ""} |->
                 CASE n \in {"a", "ab", "ac", "a d1", "a d2"} -> "A" [] n = "b" -> "B" [] n = "1" -> "1" [] OTHER -> "C"]
MCNotLetters == {"1"}
MCConsoleOfDat == [c \in {"console"} |-> "DMG"]
MCConsoleOfExt == [e \in {".lnx"} |-> "Lynx"]
MCDiscTitles == [n \in {"a d1", "a d2"} |-> "a"]
MCPlaylistExts == {".cue", ".zip"}

(***************************************************************************)
(* Builders.                                                               *)
(***************************************************************************)
Name(n, e) == [dir |-> <<>>, name |-> n, ext |-> e]
At(d, n, e) == [dir |-> d, name |-> n, ext |-> e]
Rom(n, e, c) == [name |-> Name(n, e), content |-> c, disk |-> FALSE]
Disk(n, c) == [name |-> Name(n, ""), content |-> c, disk |-> TRUE]
Game(n, roms) == [name |-> Name(n, ""), roms |-> roms, disks |-> <<>>, regions |-> <<>>, languages |-> <<>>,
                  categories |-> <<>>, genre |-> <<>>, type |-> "Retail", discs |-> <<>>]
Dat(n, games) == [name |-> n, description |-> <<>>, dir |-> <<>>, games |-> games, mame |-> FALSE]
File(d, n, e, c) == [path |-> At(<<d>>, n, e), content |-> c, entries |-> <<>>, tz |-> "no", broken |-> FALSE]
Packed(d, n, type, tz, entries) ==
  [path |-> At(<<d>>, n, IF type = ".chdraw" THEN ".chd" ELSE type), content |-> "K", tz |-> tz, broken |-> FALSE,
   entries |-> Mapped(entries, LAMBDA e : [type |-> type, path |-> e.name, content |-> e.content])]
ZipFile(d, n, entries) == Packed(d, n, ".zip", "torrentzip", entries)

BaseOptions ==
  [commands |-> {"copy"}, inputs |-> {"in"}, output |-> <<>>, prefer |-> "file", preferNames |-> {}, quick |-> FALSE,
   checksumArchives |-> "never", headerGlob |-> {}, trim |-> [files |-> "auto", archives |-> FALSE, addPadding |-> FALSE, glob |-> {}],
   removeHeaders |-> {}, zipExclude |-> {}, zipFormat |-> "torrentzip", subdir |-> "multiple", fixExt |-> "never",
   letters |-> [on |-> FALSE, limit |-> 0, group |-> FALSE], flags |-> {}, playlist |-> "multiple"]
Run(disk, dats, options) == [disk |-> disk, dats |-> dats, options |-> options, patches |-> <<>>]

RA == Rom("a", ".bin", "A")
RB == Rom("b", ".bin", "B")
RC == Rom("c", ".bin", "C")
GA == Game("g", <<RA, RB>>)
GB == Game("h", <<RC>>)

(***************************************************************************)
(* Archives against names: a game of two files, and one of one.            *)
(***************************************************************************)
Misnamed == Rom("d", ".bin", "B")
ArchiveFiles ==
  {File("in", "a", ".bin", "A"), File("in", "b", ".bin", "B"), ZipFile("in", "g", <<RA, RB>>),
   ZipFile("in", "k", <<RA, RB, RC>>), Packed("in", "p", ".zip", "no", <<RA, Misnamed>>),
   Packed("in", "h", ".7z", "no", <<RC>>), ZipFile("out", "k", <<RA, RB>>), File("out", "c", ".bin", "C"),
   Packed("in", "b", ".nkit.iso", "no", <<RB>>), Packed("in", "c", ".gz", "no", <<RC>>)}
ArchiveDisks == {SetToSortSeq(s, PathLess) : s \in {t \in SUBSET ArchiveFiles : Cardinality(t) = 2}}
ArchiveOptions ==
  {[BaseOptions EXCEPT !.commands = c, !.flags = f] :
     c \in {{"copy", "clean", "report"}, {"copy", "extract", "report", "fixdat"}, {"move", "zip", "clean", "test"}},
     f \in {{}, {"allowExcess"}, {"allowIncomplete", "overwriteInvalid"}}}
ArchiveRuns == {Run(d, <<Dat("x", <<GA, GB>>)>>, o) : d \in ArchiveDisks, o \in ArchiveOptions}

(***************************************************************************)
(* Headers, padding and patches.                                           *)
(***************************************************************************)
RH == Rom("a", ".lnx", "H")
RPlain == Rom("a", ".lnx", "A")
HeaderDisks ==
  {<<File("in", "a", ".lnx", "H")>>, <<ZipFile("in", "a", <<RH>>)>>, <<Packed("in", "a", ".7z", "no", <<RH>>)>>,
   <<File("in", "a", ".lnx", "H"), File("in", "b", ".bin", "A")>>,
   <<File("in", "T", ".nds", "T")>>, <<File("in", "T", ".nds", "T"), ZipFile("out", "a", <<RPlain>>)>>,
   <<Packed("in", "a", ".zip", "rvzstd", <<RPlain>>)>>, <<Packed("in", "a", ".cso", "no", <<RPlain>>)>>}
HeaderDats ==
  {<<Dat("x", <<Game("a", <<r>>)>>)>> : r \in {RH, RPlain, Rom("a", ".nds", "P"), Rom("", "", "A"), Rom("c", ".bin", "Z"),
                                             Rom("a", ".nds", "T"), Rom("a", ".bin", "D")}}
HeaderOptions ==
  {[BaseOptions EXCEPT !.commands = c, !.removeHeaders = h, !.trim.addPadding = p] :
     c \in {{"copy"}, {"link"}, {"copy", "extract"}, {"copy", "zip"}}, h \in {{}, {"*"}}, p \in BOOLEAN}
Patches == <<[before |-> "A", after |-> "D", name |-> "k"]>>
HeaderRuns ==
  {Run(d, t, o) : d \in HeaderDisks, t \in HeaderDats, o \in HeaderOptions}
  \cup {[Run(d, t, o) EXCEPT !.patches = Patches] : d \in HeaderDisks, t \in HeaderDats,
          o \in {[p EXCEPT !.flags = f] : p \in {q \in HeaderOptions : q.removeHeaders = {}}, f \in {{}, {"patchOnly"}}}}
  \cup {Run(d, t, [BaseOptions EXCEPT !.commands = c, !.fixExt = x, !.trim.files = "always", !.trim.archives = TRUE, !.quick = q]) :
          d \in HeaderDisks, t \in HeaderDats, c \in {{"copy", "extract"}, {"report"}, {"copy", "test"}},
          x \in {"auto", "always"}, q \in BOOLEAN}

(***************************************************************************)
(* Output paths: tokens, letters, directories.                             *)
(***************************************************************************)
Regions == [Game("g", <<RA>>) EXCEPT !.regions = <<"EUR", "USA">>, !.languages = <<"EN", "FR">>]
TokenRuns ==
  {Run(<<File("in", "a", ".bin", "A"), File("in", "c", ".bin", "C")>>, <<Dat(n, <<Regions, GB>>)>>,
       [BaseOptions EXCEPT !.commands = c, !.output = o, !.flags = f]) :
     n \in {"x", "console"}, c \in {{"copy", "extract"}, {"copy", "zip", "dir2dat"}, {"report"}},
     o \in {<<>>, <<"{region}">>, <<"{language}">>, <<"{console}">>, <<"{datName}", "{inputDirname}">>},
     f \in {{}, {"zipDatName"}, {"dirMirror", "dirDatName"}}}

Letterless == {"a", "ab", "ac", "b", "1", "c"}
LetterGames(names) == Mapped(SetToSortSeq(names, LAMBDA a, b : RankOf(a) < RankOf(b) \/ (RankOf(a) = RankOf(b) /\ a = "ab" /\ b = "ac")),
                             LAMBDA n : Game(n, <<Rom(n, ".bin", "A")>>))
LetterRuns ==
  {Run(<<File("in", "a", ".bin", "A")>>, <<Dat("x", LetterGames(names))>>,
       [BaseOptions EXCEPT !.letters = [on |-> TRUE, limit |-> l, group |-> g]]) :
     names \in {n \in SUBSET Letterless : Cardinality(n) >= 3}, l \in 0..3, g \in BOOLEAN}

(***************************************************************************)
(* Two DATs, the output directory, playlists and conflicts.                *)
(***************************************************************************)
Disc(n, c, d) == Game(n, <<Rom(n, ".cue", c), Rom(n, ".bin", d)>>)
TwoDats ==
  {<<Dat("x", <<Game("a", <<RA>>)>>), Dat("y", <<Game("c", <<RC>>), Game("d", <<Rom("c", ".bin", "D")>>)>>)>>,
   <<Dat("x", <<Disc("a d1", "A", "B"), Disc("a d2", "C", "D")>>), Dat("y", <<Game("b", <<Rom("b", ".bin", "B")>>)>>)>>,
   <<Dat("x", <<[Game("a", <<RA>>) EXCEPT !.disks = <<Disk("d", "D")>>], Game("b", <<RB, Rom("a", ".bin", "C")>>)>>)>>,
   <<[Dat("x", <<Game("a", <<Rom("a", ".bin", "A"), Rom("a", ".bin", "B")>>)>>) EXCEPT !.mame = TRUE]>>}
Inputs == <<File("in", "a", ".bin", "A"), File("in", "b", ".bin", "B"), File("in", "c", ".bin", "C"), File("in", "d", ".bin", "D")>>
Outputs == <<File("out", "a", ".bin", "A"), File("out", "k", ".bin", "B"), File("out", ".DS_Store", "", "E")>>
DatRuns ==
  {Run(d, t, [BaseOptions EXCEPT !.commands = c, !.flags = f]) :
     d \in {Inputs, Inputs \o Outputs, SubSeq(Inputs, 1, 2) \o Outputs}, t \in TwoDats,
     c \in {{"copy", "playlist", "clean", "report"}, {"copy", "zip", "clean", "report", "fixdat"}, {"report", "dir2dat"}},
     f \in {{}, {"excludeDisks"}, {"allowIncomplete"}}}

(***************************************************************************)
(* Discs: CHDs, and the discs of one merged game.                          *)
(***************************************************************************)
Tracks == <<Rom("g", ".cue", "A"), Rom("g", ".bin", "B")>>
Merged == [Game("a", <<Rom("a d1", ".bin", "A"), Rom("a d2", ".bin", "B")>>) EXCEPT
             !.discs = <<Game("a d1", <<Rom("a d1", ".bin", "A")>>), Game("a d2", <<Rom("a d2", ".bin", "B")>>)>>]
DiscDisks ==
  {<<Packed("in", "g", ".chd", "no", <<Rom("g", ".cue", "E"), Rom("g", ".bin", "B")>>)>>,
   <<Packed("in", "g", ".chdraw", "no", <<Rom("g", "", "D")>>)>>,
   <<ZipFile("in", "a d1", <<Rom("a d1", ".bin", "A")>>), ZipFile("in", "a d2", <<Rom("a d2", ".bin", "B")>>)>>,
   <<Packed("in", "k", ".7z", "no", <<Rom("a d1", ".bin", "A"), Rom("a d2", ".bin", "B")>>)>>}
DiscRuns ==
  {Run(d, <<Dat("x", <<g>>)>>, [BaseOptions EXCEPT !.commands = c, !.prefer = p, !.quick = q]) :
     d \in DiscDisks, g \in {Game("g", Tracks), Merged, [Game("g", <<>>) EXCEPT !.disks = <<Disk("g", "D")>>]},
     c \in {{"copy"}, {"copy", "extract", "report"}, {"copy", "zip"}}, p \in {"file", "archive"}, q \in BOOLEAN}

(***************************************************************************)
(* A game of a ROM and a disk that are where they belong, in the output    *)
(* directory, beside a game that is written from the inputs.               *)
(***************************************************************************)
InItsPlace == {[f EXCEPT !.path.dir = <<"out", "g">>] :
                 f \in {File("out", "a", ".bin", "A"), Packed("out", "d", ".chdraw", "no", <<Rom("d", "", "D")>>)}}
MCDiskRuns ==
  {Run(<<File("in", "c", ".bin", "C")>> \o SetToSortSeq(InItsPlace, PathLess),
       <<Dat("x", <<[GA EXCEPT !.roms = <<RA>>, !.disks = <<Disk("d", "D")>>], GB>>)>>,
       [BaseOptions EXCEPT !.commands = c]) :
     c \in {{"copy", "clean", "report"}, {"copy", "extract", "clean"}, {"move", "zip", "clean"}}}

MCRuns == ArchiveRuns \cup HeaderRuns \cup TokenRuns \cup LetterRuns \cup DatRuns \cup DiscRuns \cup MCDiskRuns
=============================================================================
