------------------------ MODULE CandidateGeneration -------------------------
(***************************************************************************)
(* CandidateGenerator: for each game of a DAT, which files of the index    *)
(* are read for its ROMs and where they are written.  A candidate is       *)
(* [game, roms], each of the roms [rom, input, output]; an output is       *)
(* [path, entry, zipped, sum].  A DAT is [name, description, dir, games,   *)
(* mame].  A game without candidates is one that is not written.           *)
(***************************************************************************)
EXTENDS OutputPaths

MeaningfulEntryPaths == {".zip", ".tar", ".rar", ".7z", ".gz"}
CannotExtract == {".nkit.iso"}

GameRoms(o, game) == game.roms \o (IF Flagged(o, "excludeDisks") THEN <<>> ELSE game.disks)
RomHash(rom) == rom.content
HashCodes(roms) == Mapped(roms, RomHash)

\* The archive object that an entry or an ArchiveFile belongs to.
Archive(f) == <<f.path, f.type>>
EntryOf(f, archive) == IsEntry(f) /\ Archive(f) = archive
WantsSum(f, rom) == f.sum # Unknown /\ f.sum = rom.content
RawWriting(o, rom) == ShouldWrite(o) /\ ~ ShouldExtractRom(o, rom) /\ ~ ShouldZipRom(o, rom)
CanRemoveHeader(o, ext) == o.removeHeaders \cap {"*", ext} # {}

(***************************************************************************)
(* The files of each ROM: pairs [rom, files].                              *)
(***************************************************************************)
MatchingFiles(o, rom, index) ==
  LET found == FindFiles(index, rom.content)
  IN  IF found = <<>> /\ rom.content = Empty /\ ~ Command(o, "link") THEN <<ZeroSizeFile>> ELSE found

NamedRightly(o, game, rom, f) == GivesNames(o) => EntryPath(o, game, rom, f) = f.entry

\* A raw copy keeps the names within the archive, so they have to be right.
IsLegal(o, game, rom, f) ==
  IF RawWriting(o, rom)
  THEN (IsEntry(f) /\ rom.name.name # "" /\ f.type \in MeaningfulEntryPaths)
         => NamedRightly(o, game, rom, f)
  ELSE ~ (IsEntry(f) /\ ~ rom.disk /\ f.type \in CannotExtract)

FilteringThrows(o, dat, game, pair) ==
  RawWriting(o, pair.rom) /\ pair.rom.name.name # "" /\ \E f \in ToSet(pair.files) :
    /\ IsEntry(f) /\ f.type \in MeaningfulEntryPaths
    /\ OutputPath(o, dat, game, pair.rom, f, <<>>).path = Throws

(***************************************************************************)
(* One archive with every ROM.                                             *)
(***************************************************************************)
OnlyCueFilesMissing(game, found) ==
  LET exts == {r.name.ext : r \in ToSet(game.roms)}
  IN  /\ Len(game.roms) >= 2 /\ found # <<>>
      /\ exts = {".cue", ".bin"}
      /\ \A r \in ToSet(game.roms) : r.name.ext = ".cue" \/ \E q \in ToSet(found) : q.name = r.name

\* The archive's entries that no file of the game's stands for.
UnusedEntries(o, archive, files, index) ==
  LET used == {f.entry : f \in {g \in ToSet(files) : EntryOf(g, archive)}}
  IN  IF ShouldExtract(o) \/ Flagged(o, "allowExcess") THEN <<>>
      ELSE SelectSeq(GetFiles(index), LAMBDA f :
             EntryOf(f, archive) /\ ~ (f.type = ".chd" /\ f.entry.ext = ".cue") /\ f.entry \notin used)

HasEveryRom(o, game, gameRoms, archive, roms) ==
  \/ HashCodes(roms) = HashCodes(gameRoms)
  \/ /\ archive[2] = ".chd"
     /\ \A r \in ToSet(gameRoms) : ~ ShouldZipRom(o, r) /\ ~ ShouldExtractRom(o, r)
     /\ OnlyCueFilesMissing(game, roms)

\* Prefers what is not in the output directory, then the fewest files, then
\* CHDs, then the game's own name.
ArchiveKey(game, archive, index) ==
  LET at == FilesAt(index, archive[1])
  IN  <<Flag(~ \E f \in ToSet(at) : f.input), Len(at), Flag(archive[2] \notin {".chd", ".chdraw"}),
        Flag(archive[1].name # game.name.name)>>

EntryFor(archive, pair, index) ==
  LET entries == SelectSeq(pair.files, LAMBDA f : EntryOf(f, archive))
      named   == SelectSeq(entries, LAMBDA f : f.entry = pair.rom.name)
      cue     == SelectSeq(FilesAt(index, archive[1]), LAMBDA f : f.entry.ext = ".cue")
  IN  IF named # <<>> THEN <<Head(named)>>
      ELSE IF entries # <<>> THEN <<Head(entries)>>
      ELSE IF pair.rom.name.ext = ".cue" /\ archive[2] = ".chd" /\ cue # <<>> THEN <<Head(cue)>>
      ELSE <<>>

\* findArchiveFileWithEveryRomForGame(): no archive, or the one to use.
ArchiveWithEveryRom(o, game, gameRoms, pairs, index) ==
  LET all      == Flatten(pairs, LAMBDA p : p.files)
      archives == UniqueBy(Mapped(SelectSeq(all, IsEntry), Archive), LAMBDA a : a)
      RomsIn(a) == Mapped(SelectSeq(pairs, LAMBDA p : \E f \in ToSet(p.files) : EntryOf(f, a)), LAMBDA p : p.rom)
      usable   == SelectSeq(archives, LAMBDA a :
                    /\ HasEveryRom(o, game, gameRoms, a, RomsIn(a))
                    /\ UnusedEntries(o, a, all, index) = <<>>
                    /\ ShouldZip(o) => a[2] = ".zip")
      sorted   == SortedBy(usable, LAMBDA a, b :
                    LexLess(ArchiveKey(game, a, index), ArchiveKey(game, b, index)))
  IN  IF gameRoms = <<>> \/ (\A r \in ToSet(gameRoms) : ShouldExtractRom(o, r)) \/ sorted = <<>>
      THEN <<>> ELSE <<Head(sorted)>>

FirstFile(pair) == IF pair.files = <<>> THEN <<>> ELSE <<Head(pair.files)>>
SameRom(a, b) == a.name = b.name /\ RomHash(a) = RomHash(b)

\* Each disc of a merged game looks for an archive of its own.
DiscFile(o, game, pairs, pair, index) ==
  LET Of(disc)  == Flatten(disc.roms, LAMBDA r : FirstOf(pairs, LAMBDA p : SameRom(p.rom, r)))
      Chosen(disc) == ArchiveWithEveryRom(o, disc, disc.roms, Of(disc), index)
      files     == Flatten(SelectSeq(game.discs, LAMBDA d : \E r \in ToSet(d.roms) : SameRom(r, pair.rom)),
                           LAMBDA d : Flatten(Chosen(d), LAMBDA a : EntryFor(a, pair, index)))
  IN  IF files = <<>> THEN FirstFile(pair) ELSE <<Last(files)>>

\* findOptimalInputFileForGame(): the file of each pair, if any.
OptimalFiles(o, game, pairs, index) ==
  LET archive == ArchiveWithEveryRom(o, game, GameRoms(o, game), pairs, index)
  IN  IF IsMergedDiscGame(game) THEN Mapped(pairs, LAMBDA p : DiscFile(o, game, pairs, p, index))
      ELSE IF archive = <<>> THEN Mapped(pairs, FirstFile)
      ELSE Mapped(pairs, LAMBDA p : EntryFor(archive[1], p, index))

(***************************************************************************)
(* What is read and written for a ROM.                                     *)
(***************************************************************************)
WithoutUnwritable(o, f) ==
  IF ShouldWrite(o) THEN f
  ELSE LET g == WithoutFileHeader(f) IN IF g.pads = <<>> THEN g ELSE WithPaddings(g, <<>>)

\* Mutant: a header is always removed.
KeepingHeaderNever(o, rom, f) == f

KeepingHeader(o, rom, f) ==
  IF f.header /\ WantsSum(f, rom) /\ ~ CanRemoveHeader(o, f.entry.ext) THEN WithoutFileHeader(f) ELSE f

KeepingPadding(o, rom, f) ==
  LET wanted == SelectSeq(f.pads, LAMBDA p : p = rom.content)
  IN  IF f.pads = <<>> THEN f
      ELSE IF WantsSum(f, rom) \/ wanted = <<>> \/ ~ o.trim.addPadding THEN WithPaddings(f, <<>>)
      ELSE WithPaddings(f, <<Head(wanted)>>)

OutputSum(f) ==
  IF Len(f.pads) = 1 THEN f.pads[1] ELSE IF f.header THEN SumWithoutHeader(f) ELSE f.sum

OutputFileAt(o, rom, f, out) ==
  IF out.path = Throws THEN <<>>
  ELSE <<[path   |-> out.path, entry |-> out.entry, sum |-> OutputSum(f),
          zipped |-> \/ ShouldZipRom(o, rom) /\ ~ IsArchiveFile(f)
                     \/ ~ ShouldWrite(o) /\ IsEntry(f) /\ f.type = ".zip"]>>

\* getOutputFile()
OutputFile(o, dat, game, rom, f) == OutputFileAt(o, rom, f, OutputPath(o, dat, game, rom, f, <<>>))

InputAsOutput(f) == [path |-> f.path, entry |-> f.entry, sum |-> f.sum, zipped |-> FALSE]

FileToRead(o, rom, f) == KeepingPadding(o, rom, KeepingHeader(o, rom, WithoutUnwritable(o, f)))

WithOutput(o, dat, game, rom, f) ==
  IF f.header /\ ~ WantsSum(f, rom) /\ Command(o, "link") THEN <<>>
  ELSE Mapped(OutputFile(o, dat, game, rom, f), LAMBDA out : [rom |-> rom, input |-> f, output |-> out])

\* buildRomRomWithFilesPair()
RomWithFiles(o, dat, game, rom, file) ==
  IF ~ ShouldWrite(o) /\ ~ Command(o, "test")
  THEN <<[rom |-> rom, input |-> file, output |-> InputAsOutput(file)]>>
  ELSE WithOutput(o, dat, game, rom, FileToRead(o, rom, file))

(***************************************************************************)
(* Whole archives.                                                         *)
(***************************************************************************)
\* The condition on headers holds for the ROMs that want the header.
MayKeepArchive(o, game, rwf) ==
  LET f == rwf.input
  IN  /\ IsEntry(f)
      /\ ~ (f.header /\ SumWithoutHeader(f) # Unknown /\ SumWithoutHeader(f) # rwf.rom.content)
      /\ ~ \E p \in ToSet(f.pads) : p = rwf.rom.content
      /\ ~ ShouldExtractRom(o, rwf.rom)
      /\ ShouldZipRom(o, rwf.rom) => f.type = ".zip"
      /\ (rwf.rom.name.name # "" /\ f.type \in MeaningfulEntryPaths)
           => NamedRightly(o, game, rwf.rom, f)

StructureFits(o, f) ==
  /\ f.tz # "invalid" /\ f.tz # "no"
  /\ o.zipFormat = "torrentzip" => f.tz = "torrentzip"
  /\ o.zipFormat = "rvzstd" => f.tz = "rvzstd"

\* shouldGenerateArchiveFile()
ShouldGenerateArchiveFile(o, game, rwfs) ==
  /\ ~ Command(o, "dir2dat") /\ ~ Flagged(o, "zipDatName")
  /\ \A x \in ToSet(rwfs) : MayKeepArchive(o, game, x)
  /\ \/ IsMergedDiscGame(game) /\ Len(rwfs) > 1 /\ Cardinality({x.output.path : x \in ToSet(rwfs)}) > 1
     \/ /\ Cardinality({x.input.path : x \in ToSet(rwfs)}) = 1
        /\ (rwfs[1].input.type = ".zip" /\ \A x \in ToSet(rwfs) : ShouldZipRom(o, x.rom))
             => StructureFits(o, rwfs[1].input)

\* The new ArchiveFile has no checksum yet, and may be a candidate's input
\* whatever the entry said.
AsArchiveFile(f) == ArchiveFile(f, Unknown, TRUE)

\* buildRomsWithArchiveEntries()
WithArchiveFiles(o, game, rwfs) ==
  LET whole == ShouldGenerateArchiveFile(o, game, rwfs)
  IN  Flatten(rwfs, LAMBDA x :
        IF whole \/ x.rom.disk
        THEN <<IF IsEntry(x.input) THEN [x EXCEPT !.input = AsArchiveFile(@)] ELSE x>>
        ELSE IF IsEntry(x.input) /\ RawWriting(o, x.rom) THEN <<>> ELSE <<x>>)

(***************************************************************************)
(* The refusals, and the candidates.                                       *)
(***************************************************************************)
\* Two different inputs would be written to one file.
Conflicts(o, rwfs) ==
  ShouldWrite(o) /\ \E x, y \in ToSet(rwfs) :
    /\ ~ x.output.zipped /\ ~ y.output.zipped
    /\ x.output.path = y.output.path /\ Named(x.input) # Named(y.input)

\* The entry of the index that a file of the game stands for.
Rehydrated(x, index) ==
  LET found == SelectSeq(FindFiles(index, x.rom.content), LAMBDA f :
                 IsEntry(f) /\ (IsEntry(x.input) \/ IsArchiveFile(x.input)) /\ Archive(f) = Archive(x.input))
      named == SelectSeq(found, LAMBDA f : f.entry = x.rom.name)
  IN  IF named # <<>> THEN <<Head(named)>> ELSE IF found # <<>> THEN <<Head(found)>> ELSE <<>>

NeverExcess(o, game, rwfs, index) == FALSE   \* Mutant: excess files do not matter.

HasExcessFiles(o, game, rwfs, index) ==
  LET entries  == Flatten(rwfs, LAMBDA x : Rehydrated(x, index))
      archives == UniqueBy(Mapped(entries, Archive), LAMBDA a : a[1])
      onlyCue  == /\ Len(archives) = 1 /\ archives[1][2] = ".chd"
                  /\ OnlyCueFilesMissing(game, Mapped(rwfs, LAMBDA x : x.rom))
  IN  ~ onlyCue /\ \E a \in ToSet(archives) : UnusedEntries(o, a, entries, index) # <<>>

Explode(values) == IF values = <<>> THEN << <<>> >> ELSE Mapped(values, LAMBDA v : <<v>>)

\* Mutant: the first region only.
ExplodedGamesFirst(game) == <<game>>

\* One game per region, language and category.
ExplodedGames(game) ==
  Flatten(Explode(game.regions), LAMBDA r :
    Flatten(Explode(game.languages), LAMBDA l :
      Mapped(Explode(game.categories), LAMBDA c :
        [game EXCEPT !.regions = r, !.languages = l, !.categories = c])))

RwfHash(x) == <<x.rom.content, x.output.path, IF x.output.zipped THEN x.output.entry ELSE x.output.path>>
SameHash(c, d) ==
  \A h \in {RwfHash(x) : x \in ToSet(c.roms) \cup ToSet(d.roms)} :
    Len(SelectSeq(c.roms, LAMBDA x : RwfHash(x) = h)) = Len(SelectSeq(d.roms, LAMBDA x : RwfHash(x) = h))

\* generateWriteCandidates()
WriteCandidates(o, dat, game, rwfs) ==
  LET Candidate(g) == [game |-> g, roms |-> Flatten(rwfs, LAMBDA x :
                        Mapped(OutputFile(o, dat, g, x.rom, x.input), LAMBDA out : [x EXCEPT !.output = out]))]
  IN  FoldLeft(LAMBDA kept, c : IF \E k \in ToSet(kept) : SameHash(k, c) THEN kept ELSE Append(kept, c),
               <<>>, Mapped(ExplodedGames(game), Candidate))

\* The ROMs for which a file is chosen, with what is read and written.
WithFiles(o, dat, game, found, index) ==
  LET legal == Mapped(found, LAMBDA p : [p EXCEPT !.files = SelectSeq(@, LAMBDA f : IsLegal(o, game, p.rom, f))])
      files == OptimalFiles(o, game, legal, index)
  IN  Flatten([i \in DOMAIN found |-> i], LAMBDA i :
        Flatten(files[i], LAMBDA f : RomWithFiles(o, dat, game, found[i].rom, f)))

NothingFound(o, dat, game, found) ==
  \/ found # <<>> /\ \A p \in ToSet(found) : p.files = <<>>
  \/ \E p \in ToSet(found) : FilteringThrows(o, dat, game, p)

Incomplete(o, roms, rwfs) ==
  \/ roms # <<>> /\ rwfs = <<>>
  \/ Len(rwfs) < Len(roms) /\ ~ Flagged(o, "allowIncomplete")

IfWritable(o, dat, game, count, rwfs, index) ==
  IF \/ Len(rwfs) < count
     \/ Conflicts(o, rwfs)
     \/ /\ ~ ShouldZip(o) /\ ~ ShouldExtract(o) /\ ~ Flagged(o, "allowExcess")
        /\ HasExcessFiles(o, game, rwfs, index)
  THEN <<>> ELSE WriteCandidates(o, dat, game, rwfs)

IfComplete(o, dat, game, roms, rwfs, index) ==
  IF Incomplete(o, roms, rwfs) THEN <<>>
  ELSE IfWritable(o, dat, game, Len(rwfs), IF rwfs = <<>> THEN <<>> ELSE WithArchiveFiles(o, game, rwfs), index)

IfFound(o, dat, game, roms, found, index) ==
  IF NothingFound(o, dat, game, found) THEN <<>>
  ELSE IfComplete(o, dat, game, roms, WithFiles(o, dat, game, found, index), index)

\* buildCandidatesForGame()
CandidatesForGame(o, dat, game, index) ==
  LET roms == GameRoms(o, game)
  IN  IfFound(o, dat, game, roms, Mapped(roms, LAMBDA r : [rom |-> r, files |-> MatchingFiles(o, r, index)]), index)

\* CandidateGenerator.generate()
Generate(o, dat, index) ==
  IF GetFiles(index) = <<>> THEN <<>>
  ELSE Flatten(dat.games, LAMBDA g : CandidatesForGame(o, dat, g, index))
=============================================================================
