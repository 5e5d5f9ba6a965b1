---------------------------- MODULE OutputPaths -----------------------------
(***************************************************************************)
(* OutputFactory: where a ROM of a game goes.  The directory is made of    *)
(* --output with its tokens replaced, of the mirrored input directory, of  *)
(* the DAT's name and description and of a letter; the name is made of the *)
(* ROM's or of the game's.  A token that cannot be replaced throws.        *)
(***************************************************************************)
EXTENDS Scanning

CONSTANTS
  Roots,          \* --output up to its first token
  LettersOf,      \* names to their first letters
  NotLetters,     \* the letters with a digit
  ConsoleOfDat, ConsoleOfExt   \* the console tokens' value for a DAT, an extension

Tokens == {"{region}", "{language}", "{type}", "{genre}", "{category}", "{datName}",
           "{datDescription}", "{inputDirname}", "{outputBasename}", "{outputName}",
           "{outputExt}", "{console}"}

\* A TokenReplacementException, where a path or an output would be.
Throws == [dir |-> <<"!">>, name |-> "!", ext |-> ""]

ShouldZipRom(options, rom) == ~ rom.disk /\ ShouldZip(options) /\ rom.name.name \notin options.zipExclude
ShouldExtractRom(options, rom) == ~ rom.disk /\ ShouldExtract(options)
Flagged(options, f) == f \in options.flags

(***************************************************************************)
(* The name.                                                               *)
(***************************************************************************)
IsMergedDiscGame(game) == game.discs # <<>>

RomBasename(rom, f) ==
  IF rom.disk THEN [rom.name EXCEPT !.ext = ".chd"]
  ELSE IF f.header /\ rom.name.ext # "" THEN [rom.name EXCEPT !.ext = HeaderOf[f.content].headerless]
  ELSE rom.name

\* A raw copy of an archive has the name of its disc, not of all of them.
NameOfArchive(game, rom) ==
  LET disc == FirstOf(game.discs, LAMBDA g : \E r \in ToSet(g.roms) : r.name = rom.name)
  IN  IF disc = <<>> THEN game.name ELSE disc[1].name

OutputFileBasename(options, game, rom, f) ==
  IF ShouldZipRom(options, rom) THEN [game.name EXCEPT !.ext = ".zip"]
  ELSE IF ~ (IsEntry(f) \/ IsArchiveFile(f)) \/ ShouldExtract(options) \/ rom.disk
  THEN RomBasename(rom, f)
  ELSE [NameOfArchive(game, rom) EXCEPT !.ext = IF f.path.ext = "" THEN f.type ELSE f.path.ext]

HasMultipleFiles(options, game) ==
  Len(game.roms) + (IF Flagged(options, "excludeDisks") THEN 0 ELSE Len(game.disks)) > 1

Subdirectory(options, game, rom, f, basename) ==
  LET multiple == options.subdir = "multiple" /\ HasMultipleFiles(options, game)
  IN  IF rom.disk THEN ShouldZip(options) \/ options.subdir = "always" \/ multiple
      ELSE \/ multiple /\ ~ (game.name.dir # <<>> /\ rom.name.dir # <<>>)
                       /\ ~ IsExtensionArchive(basename) /\ ~ IsArchiveFile(f)
           \/ options.subdir = "always"
           \/ IsMergedDiscGame(game)

OutputName(options, game, rom, f) ==
  LET basename == OutputFileBasename(options, game, rom, f)
  IN  IF Subdirectory(options, game, rom, f, basename)
      THEN [basename EXCEPT !.dir = game.name.dir \o <<game.name.name>> \o @]
      ELSE basename

\* The game's own directories are not repeated within its zip.
EntryPath(options, game, rom, f) ==
  LET name == RomBasename(rom, f)
  IN  IF ShouldZipRom(options, rom) /\ game.name.dir # <<>> /\ IsPrefix(game.name.dir, name.dir)
      THEN [name EXCEPT !.dir = SubSeq(@, Len(game.name.dir) + 1, Len(@))]
      ELSE name

(***************************************************************************)
(* The letter: every name of the DAT decides together which directory one  *)
(* of them is in.                                                          *)
(***************************************************************************)
SubPath(name) == IF name.dir = <<>> THEN <<name.name, name.ext>> ELSE <<Head(name.dir)>>

Letters(options, name) ==
  LET l == LettersOf[IF name.dir = <<>> THEN name.name ELSE Head(name.dir)]
  IN  IF l \in NotLetters /\ ~ options.letters.group THEN "#" ELSE l

RankOfSubPath(s) == Mapped(s, RankOf)
SubPaths(names) ==
  SortedBy(UniqueBy(Mapped(names, SubPath), LAMBDA s : s),
           LAMBDA a, b : LexLess(RankOfSubPath(a), RankOfSubPath(b)))
NamesAt(names, subPaths) ==
  Flatten(subPaths, LAMBDA s : SelectSeq(names, LAMBDA n : SubPath(n) = s))

\* Mutant: a group is full when it is over the limit, not before.
PackedLettersLate(runs, limit) ==
  FoldLeft(LAMBDA groups, letter :
             IF groups # <<>> /\ (limit <= 0 \/ Len(Last(groups)) <= limit)
             THEN Append(Front(groups), Last(groups) \o letter)
             ELSE Append(groups, letter), <<>>, runs)

\* groupTuplesByLetter(): a letter is never split between two groups.
PackedLetters(runs, limit) ==
  FoldLeft(LAMBDA groups, letter :
             IF groups # <<>> /\ (limit <= 0 \/ Len(Last(groups)) + Len(letter) <= limit)
             THEN Append(Front(groups), Last(groups) \o letter)
             ELSE Append(groups, letter), <<>>, runs)

Ranges(byLetter, limit) ==
  LET sorted == SortedBy(byLetter, LAMBDA a, b : RankOf(a.letter) < RankOf(b.letter))
      runs   == Mapped(sorted, LAMBDA l : Mapped(SubPaths(l.names), LAMBDA s :
                  [letter |-> l.letter, names |-> NamesAt(l.names, <<s>>)]))
  IN  Mapped(PackedLetters(runs, limit), LAMBDA g :
        [letter |-> IF Head(g).letter = Last(g).letter THEN Head(g).letter
                    ELSE Head(g).letter \o "-" \o Last(g).letter,
         names  |-> Flatten(g, LAMBDA tuple : tuple.names)])

Chunk(s, i, size) == SubSeq(s, (i - 1) * size + 1, IF i * size < Len(s) THEN i * size ELSE Len(s))

SplitLetter(l, limit) ==
  LET subPaths == SubPaths(l.names)
  IN  IF Len(subPaths) <= limit THEN <<l>>
      ELSE Mapped([i \in 1..((Len(subPaths) + limit - 1) \div limit) |-> i], LAMBDA i :
             [letter |-> l.letter \o ToString(i), names |-> NamesAt(l.names, Chunk(subPaths, i, limit))])

ByLetter(options, names) ==
  Mapped(GroupBy(names, LAMBDA n : Letters(options, n)),
         LAMBDA g : [letter |-> Letters(options, Head(g)), names |-> g])

Ranged(byLetter, letters) == IF letters.group THEN Ranges(byLetter, letters.limit) ELSE byLetter
Split(ranged, limit) == IF limit = 0 THEN ranged ELSE Flatten(ranged, LAMBDA l : SplitLetter(l, limit))

\* getDirLetterParsed(): <<>> or the letter's directory.
DirLetter(options, name, names) ==
  LET all == UniqueBy(IF names = <<>> THEN <<name>> ELSE names, LAMBDA n : n)
  IN  IF ~ options.letters.on THEN <<>>
      ELSE Mapped(FirstOf(Split(Ranged(ByLetter(options, all), options.letters), options.letters.limit),
                          LAMBDA l : name \in ToSet(l.names)), LAMBDA l : l.letter)

(***************************************************************************)
(* The directory.                                                          *)
(***************************************************************************)
FirstOrLeft(s, token) == IF s = <<>> THEN <<token>> ELSE <<Head(s)>>

\* game and f are sequences: getDir() may be called without them.
Replaced(token, options, dat, game, f, name) ==
  CASE token = "{region}"   -> IF game = <<>> THEN <<token>> ELSE FirstOrLeft(game[1].regions, token)
    [] token = "{language}" -> IF game = <<>> THEN <<token>> ELSE FirstOrLeft(game[1].languages, token)
    [] token = "{category}" -> IF game = <<>> THEN <<token>> ELSE FirstOrLeft(game[1].categories, token)
    [] token = "{genre}"    -> IF game = <<>> THEN <<token>> ELSE FirstOrLeft(game[1].genre, token)
    [] token = "{type}"     -> IF game = <<>> THEN <<token>> ELSE <<game[1].type>>
    [] token = "{datName}"  -> <<dat.name>>
    [] token = "{datDescription}" -> FirstOrLeft(dat.description, token)
    [] token = "{inputDirname}"   -> IF f = <<>> THEN <<token>> ELSE f[1].path.dir
    [] token \in {"{outputBasename}", "{outputName}", "{outputExt}"} ->
         IF name = <<>> THEN IF options.fixExt = "never" THEN <<token>> ELSE <<"-">>
         ELSE IF token = "{outputExt}" THEN <<IF name[1].ext = "" THEN "-" ELSE name[1].ext>>
         ELSE <<name[1].name>>
    [] token = "{console}" ->
         IF name = <<>> THEN <<token>>
         ELSE IF dat.name \in DOMAIN ConsoleOfDat THEN <<ConsoleOfDat[dat.name]>>
         ELSE IF name[1].ext \in DOMAIN ConsoleOfExt THEN <<ConsoleOfExt[name[1].ext]>>
         ELSE <<token>>
    [] OTHER -> <<token>>

\* The input directory without its root; what is not below an input keeps it.
Mirrored(options, f) ==
  IF Flagged(options, "dirMirror") /\ f # <<>> /\ f[1].kind # "zero"
  THEN IF Head(f[1].path.dir) \in options.inputs THEN Tail(f[1].path.dir) ELSE f[1].path.dir
  ELSE <<>>

Dir(options, dat, game, f, name, names) ==
  Roots \o Flatten(options.output, LAMBDA t : Replaced(t, options, dat, game, f, name))
    \o Mirrored(options, f)
    \o (IF Flagged(options, "dirDatMirror") THEN dat.dir ELSE <<>>)
    \o (IF Flagged(options, "dirDatName") THEN <<dat.name>> ELSE <<>>)
    \o (IF Flagged(options, "dirDatDescription") THEN dat.description ELSE <<>>)
    \o (IF name = <<>> THEN <<>> ELSE DirLetter(options, name[1], names))

LeavesToken(dir) == \E t \in ToSet(dir) : t \in Tokens

\* The path below a directory, unless a token is left in it.
Below(dir, name) == IF LeavesToken(dir) THEN Throws ELSE [name EXCEPT !.dir = dir \o @]

Placed(options, dat, game, f, names, name) == Below(Dir(options, dat, <<game>>, <<f>>, <<name>>, names), name)
GivesNames(options) == ShouldWrite(options) \/ Command(options, "dir2dat") \/ Command(options, "fixdat")

\* OutputFactory.getPath(): [path, entry].
OutputPath(options, dat, game, rom, f, names) ==
  IF ~ GivesNames(options) THEN [path |-> f.path, entry |-> f.entry]
  ELSE [path  |-> Placed(options, dat, game, f, names, OutputName(options, game, rom, f)),
        entry |-> EntryPath(options, game, rom, f)]
=============================================================================
