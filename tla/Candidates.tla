---------------------------- MODULE Candidates -----------------------------
(***************************************************************************)
(* Igir.main() from the scan to the report.  All input files are scanned   *)
(* and indexed; then the DATs are processed side by side, and for each of  *)
(* them the candidates are generated, patched, given their extensions,     *)
(* hashed, given their final paths, validated and combined, and are then   *)
(* written and reported on; at last the output directories are cleaned.    *)
(* A token that cannot be replaced throws out of main().                   *)
(*                                                                         *)
(* The DATs share nothing but the index, which does not change, until      *)
(* their results are put together.                                         *)
(***************************************************************************)
EXTENDS CandidateGeneration

CONSTANTS
  Runs,           \* [disk, dats, options, patches]: what main() starts from
  DiscTitles,     \* names of discs to the name they have without the disc
  PlaylistExts    \* --playlist-extensions

VARIABLES
  run,            \* the run, one of Runs
  phase,          \* how far main() is
  index,          \* indexedRoms
  stage,          \* for each DAT, how far its processing is
  candidates,     \* for each DAT, its candidates
  excluded,       \* filesToExcludeFromCleaning, as paths
  outputDirs,     \* romOutputDirs
  written,        \* the output paths of CandidateWriter's results
  reports,        \* for each DAT, its playlists, dir2dat, fixdat and status
  cleaned,        \* the paths that were cleaned
  leftovers       \* the report's duplicate and unused files

vars == <<run, phase, index, stage, candidates, excluded, outputDirs, written,
          reports, cleaned, leftovers>>

AllRoms(cs) == UNION {ToSet(c.roms) : c \in ToSet(cs)}
ThrowsAnywhere(cs) == \E x \in AllRoms(cs) : x.output.path = Throws

(***************************************************************************)
(* CandidatePatchGenerator: one more candidate per patch that fits.        *)
(***************************************************************************)
InputSum(x) == IF IsArchiveFile(x.input) THEN x.input.inner[1].sum ELSE x.input.sum

\* An archive that is not copied whole after all is read entry by entry.
Unwrapped(x) ==
  IF IsArchiveFile(x.input)
  THEN LET e == x.input.inner[1]
       IN  [x EXCEPT !.input = e, !.output = [path |-> @.path, entry |-> e.entry, sum |-> e.sum, zipped |-> TRUE]]
  ELSE x

PatchedRom(x, patch, only) ==
  LET y     == Unwrapped(x)
      file  == [dir |-> <<>>, name |-> patch.name, ext |-> x.rom.name.ext]
      entry == IF only THEN file ELSE y.output.entry
      final == IF y.output.zipped THEN entry ELSE file
  IN  IF patch.before # x.rom.content THEN y
      ELSE [rom    |-> [name |-> [final EXCEPT !.dir = x.rom.name.dir], content |-> patch.after, disk |-> FALSE],
            input  |-> WithPatch(y.input, patch),
            output |-> [path   |-> [y.output.path EXCEPT !.name = patch.name, !.ext = IF y.output.zipped THEN ".zip" ELSE file.ext],
                        entry  |-> entry, sum |-> patch.after, zipped |-> y.output.zipped]]

PatchedCandidates(o, c, patches) ==
  LET fitting == Flatten(c.roms, LAMBDA x : SelectSeq(patches, LAMBDA p : p.before = InputSum(x)))
  IN  IF \E x \in ToSet(c.roms) : IsArchiveFile(x.input) /\ ~ ShouldZipRom(o, x.rom) THEN <<>>
      ELSE Mapped(fitting, LAMBDA p :
             [game |-> [c.game EXCEPT !.name.name = p.name],
              roms |-> Mapped(c.roms, LAMBDA x : PatchedRom(x, p, Len(c.roms) = 1))])

WithPatches(o, cs, patches) ==
  IF patches = <<>> THEN cs
  ELSE Flatten(cs, LAMBDA c : (IF Flagged(o, "patchOnly") THEN <<>> ELSE <<c>>) \o PatchedCandidates(o, c, patches))

(***************************************************************************)
(* CandidateExtensionCorrector.                                            *)
(***************************************************************************)
NeedsCorrecting(o, x) ==
  /\ x.input.kind # "zero"
  /\ \/ x.rom.name.name = ""
     \/ /\ ~ (IsEntry(x.input) /\ x.input.type \in {".chd", ".chdraw"})
        /\ o.fixExt = "always"

\* A ROM without a name gets its game's, and its number if there are others.
CorrectedRom(o, c, i) ==
  LET x     == c.roms[i]
      named == IF x.rom.name.name # "" THEN x.rom.name
               ELSE [c.game.name EXCEPT !.ext = ".rom", !.name = IF Len(c.roms) > 1 THEN @ \o " (File " \o ToString(i) \o ")" ELSE @]
      read  == IF IsArchiveFile(x.input) THEN Unknown ELSE x.input.content
  IN  [x EXCEPT !.rom.name = IF NeedsCorrecting(o, x) /\ read \in DOMAIN Signatures
                             THEN [named EXCEPT !.ext = Signatures[read]] ELSE named]

\* ROMs that hold the same are one, whatever their names.
CorrectedRoms(o, c) ==
  UniqueBy(Mapped([i \in DOMAIN c.roms |-> i], LAMBDA i : CorrectedRom(o, c, i)), LAMBDA x : RomHash(x.rom))

GoingTo(x, out) == [x EXCEPT !.output.path = out.path, !.output.entry = IF x.output.zipped THEN out.entry ELSE @]

WithRoms(o, dat, game, roms) ==
  [game |-> game, roms |-> Mapped(roms, LAMBDA x : GoingTo(x, OutputPath(o, dat, game, x.rom, x.input, <<>>)))]

CorrectedCandidate(o, dat, c) ==
  LET roms == CorrectedRoms(o, c)
  IN  WithRoms(o, dat, [c.game EXCEPT !.roms = Mapped(roms, LAMBDA x : x.rom)], roms)

Corrected(o, dat, cs) ==
  IF ~ \E x \in AllRoms(cs) : NeedsCorrecting(o, x) THEN cs
  ELSE Mapped(cs, LAMBDA c : CorrectedCandidate(o, dat, c))

(***************************************************************************)
(* CandidateArchiveFileHasher and CandidatePostProcessor.                  *)
(***************************************************************************)
ContentOf(disk, path) == (CHOOSE d \in ToSet(disk) : d.path = path).content

Hashed(r, cs) ==
  IF ~ Command(r.options, "test") /\ ~ Flagged(r.options, "overwriteInvalid") THEN cs
  ELSE Mapped(cs, LAMBDA c : [c EXCEPT !.roms = Mapped(@, LAMBDA x :
         IF ~ IsArchiveFile(x.input) \/ x.input.path = x.output.path THEN x
         ELSE LET whole == ContentOf(r.disk, x.input.path)
              IN  [x EXCEPT !.input = ArchiveFile(@.inner[1], whole, TRUE), !.output.sum = whole])])

\* Every name of the DAT takes part in finding the letter of one.
PostProcessed(o, dat, cs) ==
  LET names == Flatten(cs, LAMBDA c : Mapped(c.roms, LAMBDA x : OutputName(o, c.game, x.rom, x.input)))
  IN  Mapped(cs, LAMBDA c : [c EXCEPT !.roms = Mapped(@, LAMBDA x :
        [x EXCEPT !.output.path = OutputPath(o, dat, c.game, x.rom, x.input, names).path])])

(***************************************************************************)
(* CandidateValidator and CandidateCombiner.                               *)
(***************************************************************************)
Writing(cs, path) ==
  {i \in DOMAIN cs : \E x \in ToSet(cs[i].roms) : x.output.path = path}

IsConflicted(cs, path) ==
  LET games == Writing(cs, path)
  IN  /\ Cardinality(games) > 1
      /\ Cardinality({Named(x.input) : x \in AllRoms(Mapped(SetToSeq(games), LAMBDA i : cs[i]))}) > 1

Validated(o, cs) ==
  IF ShouldWrite(o) /\ \E path \in {x.output.path : x \in AllRoms(cs)} : IsConflicted(cs, path)
  THEN <<>> ELSE cs

CombinedGame(dat, cs) ==
  [name |-> [dir |-> <<>>, name |-> dat.name, ext |-> ""],
   roms |-> UniqueBy(Flatten(cs, LAMBDA c : Mapped(c.roms, LAMBDA x : x.rom)), LAMBDA r : r.name),
   disks |-> <<>>, regions |-> <<>>, languages |-> <<>>, categories |-> <<>>, genre |-> <<>>,
   type |-> "Retail", discs |-> <<>>]

CombinedRom(dat, game, x) ==
  IF ~ x.output.zipped THEN x
  ELSE [x EXCEPT !.output.path = [@ EXCEPT !.name = dat.name, !.ext = ".zip"],
                 !.output.entry = IF Len(game.roms) > 1 THEN [@ EXCEPT !.dir = game.name.dir \o <<game.name.name>> \o @] ELSE @]

CombinedCandidates(o, dat, cs) ==
  IF ~ Flagged(o, "zipDatName") \/ cs = <<>> THEN cs
  ELSE <<[game |-> CombinedGame(dat, cs),
          roms |-> Flatten(cs, LAMBDA c : Mapped(c.roms, LAMBDA x : CombinedRom(dat, c.game, x)))]>>

(***************************************************************************)
(* Igir.getCandidateOutputDirs().                                          *)
(***************************************************************************)
\* The output directory with its tokens alone.
OutputDir(o, dat, c, x) ==
  LET bare == [o EXCEPT !.zipExclude = {}, !.flags = {}, !.subdir = "none", !.letters.on = FALSE, !.fixExt = "auto"]
  IN  Dir(bare, dat, <<c.game>>, <<x.input>>, <<OutputName(bare, c.game, x.rom, x.input)>>, <<>>)

OutputDirsOf(o, dat, cs) ==
  UNION {{OutputDir(o, dat, c, x) : x \in ToSet(c.roms)} : c \in ToSet(cs)}

\* Mutant: nothing in the output directory is kept.
ExcludedNone(cs) == {}

\* Only the place where a file of the output directory belongs is kept.
ExcludedPaths(cs) == {x.output.path : x \in {y \in AllRoms(cs) : ~ y.input.input}}

CanWrite(c) == \A x \in ToSet(c.roms) : x.input.input

(***************************************************************************)
(* What is made of a DAT's candidates: playlists, a dir2dat, a fixdat, and *)
(* the status.                                                             *)
(***************************************************************************)
CommonDirectory(paths) ==
  LET first == (CHOOSE p \in paths : TRUE).dir
      n     == CHOOSE k \in 0..Len(first) :
                 /\ \A p \in paths : IsPrefix(SubSeq(first, 1, k), p.dir)
                 /\ k = Len(first) \/ \E p \in paths : ~ IsPrefix(SubSeq(first, 1, k + 1), p.dir)
  IN  SubSeq(first, 1, n)

\* maybeWritePlaylist(): a set with the playlist's path and files, or none.
Playlist(o, cs, name) ==
  LET files == {p \in {IF ShouldWrite(o) THEN x.output.path ELSE x.input.path : x \in AllRoms(cs)} : p.ext \in PlaylistExts}
  IN  IF files = {} \/ (o.playlist = "multiple" /\ Cardinality(files) < 2) THEN {}
      ELSE {[path |-> [dir |-> CommonDirectory(files) \o name.dir, name |-> name.name, ext |-> ".m3u"], files |-> files]}

Playlists(o, cs) ==
  LET own    == {c \in ToSet(cs) : Playlist(o, <<c>>, c.game.name) # {}}
      groups == GroupBy(SelectSeq(cs, LAMBDA c : c \notin own /\ c.game.name.name \in DOMAIN DiscTitles),
                        LAMBDA c : DiscTitles[c.game.name.name])
  IN  IF ~ Command(o, "playlist") THEN {}
      ELSE UNION ({Playlist(o, <<c>>, c.game.name) : c \in own}
                  \cup {Playlist(o, g, [g[1].game.name EXCEPT !.name = DiscTitles[@]]) : g \in ToSet(groups)})

\* The games that a dir2dat lists, with the ROMs they were found with.
Dir2Dat(o, cs) ==
  IF ~ Command(o, "dir2dat") THEN {}
  ELSE {[name |-> c.game.name, roms |-> Mapped(c.roms, LAMBDA x : x.rom)] : c \in {d \in ToSet(cs) : CanWrite(d)}}

\* The games with a ROM that no candidate has.
Fixdat(o, dat, cs) ==
  IF ~ Command(o, "fixdat") THEN {}
  ELSE {g.name : g \in {h \in ToSet(dat.games) : \E r \in ToSet(h.roms) : ~ \E x \in AllRoms(cs) : RomHash(x.rom) = RomHash(r)}}

\* Mutant: --exclude-disks is forgotten.
ExpectedFileCountAll(o, game) == Len(game.roms) + Len(game.disks)

ExpectedFileCount(o, game) == Len(game.roms) + (IF Flagged(o, "excludeDisks") THEN 0 ELSE Len(game.disks))

\* Game.hashCode() and Game.equals()
SameHashCode(g, h) ==
  /\ g.name = h.name
  /\ SortSeq(HashCodes(g.roms), LAMBDA a, b : RankOf(a) < RankOf(b)) = SortSeq(HashCodes(h.roms), LAMBDA a, b : RankOf(a) < RankOf(b))
SameGame(g, h) == g.name = h.name /\ Len(g.roms) = Len(h.roms)

GameCandidate(cs, game) == FirstOf(cs, LAMBDA c : SameHashCode(c.game, game))
IsIncomplete(o, cs, game) ==
  GameCandidate(cs, game) # <<>> /\ Len(GameCandidate(cs, game)[1].roms) # ExpectedFileCount(o, game)

IncompleteCandidates(o, dat, cs) ==
  Flatten(SelectSeq(dat.games, LAMBDA g : IsIncomplete(o, cs, g)), LAMBDA g : GameCandidate(cs, g))
FoundCandidates(o, dat, cs, patches) ==
  Flatten(SelectSeq(dat.games, LAMBDA g : ~ IsIncomplete(o, cs, g)), LAMBDA g : GameCandidate(cs, g))
    \o SelectSeq(cs, LAMBDA c : \E x \in ToSet(c.roms) : x.input.patch # <<>>)

GameStatus(o, dat, cs, patches, game) ==
  IF \/ ExpectedFileCount(o, game) = 0
     \/ \E c \in ToSet(FoundCandidates(o, dat, cs, patches)) : SameGame(c.game, game)
  THEN "FOUND"
  ELSE IF \E c \in ToSet(IncompleteCandidates(o, dat, cs)) : SameGame(c.game, game)
  THEN "INCOMPLETE" ELSE "MISSING"

StatusInputs(o, dat, cs, patches) ==
  {x.input : x \in AllRoms(FoundCandidates(o, dat, cs, patches) \o IncompleteCandidates(o, dat, cs))}

ReportOn(r, dat, cs) ==
  [playlists |-> Playlists(r.options, cs), dir2dat |-> Dir2Dat(r.options, cs),
   fixdat |-> Fixdat(r.options, dat, cs), inputs |-> StatusInputs(r.options, dat, cs, r.patches),
   statuses |-> {[name |-> g.name, status |-> GameStatus(r.options, dat, cs, r.patches, g)] : g \in ToSet(dat.games)}]

NoReport == [playlists |-> {}, dir2dat |-> {}, fixdat |-> {}, inputs |-> {}, statuses |-> {}]

(***************************************************************************)
(* The run.                                                                *)
(***************************************************************************)
Init ==
  /\ run \in Runs
  /\ phase = "scan"
  /\ index = <<>>
  /\ stage = [d \in DOMAIN run.dats |-> "waiting"]
  /\ candidates = [d \in DOMAIN run.dats |-> <<>>]
  /\ reports = [d \in DOMAIN run.dats |-> NoReport]
  /\ excluded = {} /\ outputDirs = {} /\ written = {} /\ cleaned = {} /\ leftovers = {}

ScanFiles ==
  /\ phase = "scan"
  /\ index' = ScannedIndex(run)
  /\ phase' = "dats"
  /\ UNCHANGED <<run, stage, candidates, excluded, outputDirs, written, reports, cleaned, leftovers>>

\* generateCandidates(), step by step.
Step(d, from, to) ==
  /\ phase = "dats" /\ stage[d] = from
  /\ stage' = [stage EXCEPT ![d] = to]
  /\ UNCHANGED <<run, phase, index, reports, cleaned, leftovers>>

GenerateDat(d) ==
  /\ Step(d, "waiting", "generated")
  /\ candidates' = [candidates EXCEPT ![d] = Generate(run.options, run.dats[d], index)]
  /\ UNCHANGED <<excluded, outputDirs, written>>

CorrectDat(d) ==
  /\ Step(d, "generated", "corrected")
  /\ candidates' = [candidates EXCEPT ![d] = Corrected(run.options, run.dats[d], WithPatches(run.options, @, run.patches))]
  /\ UNCHANGED <<excluded, outputDirs, written>>

PlaceDat(d) ==
  /\ ~ ThrowsAnywhere(candidates[d])
  /\ Step(d, "corrected", "placed")
  /\ candidates' = [candidates EXCEPT ![d] = PostProcessed(run.options, run.dats[d], Hashed(run, @))]
  /\ UNCHANGED <<excluded, outputDirs, written>>

ValidateDat(d) ==
  LET valid == Validated(run.options, candidates[d])
  IN  /\ ~ ThrowsAnywhere(candidates[d])
      /\ Step(d, "placed", IF valid = candidates[d] THEN "valid" ELSE "refused")
      /\ candidates' = [candidates EXCEPT ![d] = CombinedCandidates(run.options, run.dats[d], valid)]
      /\ UNCHANGED <<excluded, outputDirs, written>>

\* What main() takes from the candidates before they are written.
CollectOutputs(d) ==
  LET dirs == OutputDirsOf(run.options, run.dats[d], candidates[d])
  IN  /\ \E from \in {"valid", "refused"} : Step(d, from, "collected")
      /\ ~ \E dir \in dirs : LeavesToken(dir)
      /\ outputDirs' = outputDirs \cup dirs
      /\ excluded' = excluded \cup ExcludedPaths(candidates[d])
      /\ UNCHANGED <<candidates, written>>

\* A TokenReplacementException out of one of these steps.
Abort(d) ==
  /\ phase = "dats"
  /\ \/ stage[d] \in {"corrected", "placed"} /\ ThrowsAnywhere(candidates[d])
     \/ /\ stage[d] \in {"valid", "refused"}
        /\ \E dir \in OutputDirsOf(run.options, run.dats[d], candidates[d]) : LeavesToken(dir)
  /\ phase' = "aborted"
  /\ UNCHANGED <<run, index, stage, candidates, excluded, outputDirs, written, reports, cleaned, leftovers>>

WriteDat(d) ==
  LET wrote == {c \in ToSet(candidates[d]) : CanWrite(c)}
  IN  /\ Step(d, "collected", "written")
      /\ written' = written \cup (IF ShouldWrite(run.options) \/ Command(run.options, "test")
                                  THEN UNION {{x.output.path : x \in ToSet(c.roms)} : c \in wrote} ELSE {})
      /\ UNCHANGED <<candidates, excluded, outputDirs>>

FinishDat(d) ==
  LET made == ReportOn(run, run.dats[d], candidates[d])
  IN  /\ phase = "dats" /\ stage[d] = "written"
      /\ reports' = [reports EXCEPT ![d] = made]
      /\ excluded' = excluded \cup {p.path : p \in made.playlists}
      /\ stage' = [stage EXCEPT ![d] = "finished"]
      /\ UNCHANGED <<run, phase, index, candidates, outputDirs, written, cleaned, leftovers>>

Finished == phase = "dats" /\ \A d \in DOMAIN stage : stage[d] = "finished"

\* The playlists of this run are in the output directory by now.
OnDisk == {d.path : d \in ToSet(run.disk)} \cup UNION {{p.path : p \in reports[d].playlists} : d \in DOMAIN reports}

\* processOutputCleaner(), after the moved files are deleted (see Cleanup).  That
\* nothing is excluded cannot be when there is a directory to clean.
Clean ==
  /\ Finished
  /\ phase' = "report"
  /\ cleaned' = IF ShouldWrite(run.options) /\ Command(run.options, "clean")
                THEN {p \in OnDisk : (\E dir \in outputDirs : IsPrefix(dir, p.dir))
                                     /\ p \notin written \cup excluded /\ p.name \notin JunkNames}
                ELSE {}
  /\ UNCHANGED <<run, index, stage, candidates, excluded, outputDirs, written, reports, leftovers>>

\* ReportGenerator: the scanned files that no status names.
Report ==
  LET used   == UNION {reports[d].inputs : d \in DOMAIN reports}
      hashes == {f.sum : f \in used} \ {Unknown}
      unused == {f \in ToSet(GetFiles(index)) : f.path \notin {g.path : g \in used}}
  IN  /\ phase = "report"
      /\ phase' = "done"
      /\ leftovers' = IF ~ Command(run.options, "report") THEN {}
                      ELSE {[path |-> f.path, status |-> IF f.sum \in hashes THEN "DUPLICATE" ELSE "UNUSED"] : f \in unused}
      /\ UNCHANGED <<run, index, stage, candidates, excluded, outputDirs, written, reports, cleaned>>

Next ==
  \/ ScanFiles
  \/ \E d \in DOMAIN stage : GenerateDat(d)
  \/ \E d \in DOMAIN stage : CorrectDat(d)
  \/ \E d \in DOMAIN stage : PlaceDat(d)
  \/ \E d \in DOMAIN stage : ValidateDat(d)
  \/ \E d \in DOMAIN stage : CollectOutputs(d)
  \/ \E d \in DOMAIN stage : Abort(d)
  \/ \E d \in DOMAIN stage : WriteDat(d)
  \/ \E d \in DOMAIN stage : FinishDat(d)
  \/ Clean
  \/ Report

Spec == Init /\ [][Next]_vars

(***************************************************************************)
(* Properties.                                                             *)
(***************************************************************************)
\* The corrector gives ROMs of the DAT other names.
Renames(d) ==
  \/ run.options.fixExt = "always"
  \/ \E g \in ToSet(run.dats[d].games) : \E r \in ToSet(g.roms) : r.name.name = ""

\* What CandidateWriter makes of an input that is not copied as an archive.
Bytes(f) ==
  IF f.patch # <<>> THEN f.patch[1].after
  ELSE IF Len(f.pads) = 1 THEN f.pads[1]
  ELSE IF f.header THEN HeaderOf[f.content].body ELSE f.content

(***************************************************************************)
(* What is written for a ROM is what the DAT says it holds, whatever       *)
(* header, padding and patch were found.  Two options change this: without *)
(* --trim-add-padding a trimmed file stays trimmed, and --remove-headers   *)
(* takes a header off that the DAT wants.                                  *)
(***************************************************************************)
WrittenIsWanted ==
  \A d \in DOMAIN candidates : \A x \in AllRoms(candidates[d]) :
    (ShouldWrite(run.options) /\ ~ IsArchiveFile(x.input)) =>
      \/ Bytes(x.input) = x.rom.content
      \/ /\ ~ run.options.trim.addPadding
         /\ x.input.content \in DOMAIN PaddingsOf /\ x.rom.content \in ToSet(PaddingsOf[x.input.content])
      \/ /\ CanRemoveHeader(run.options, x.input.entry.ext)
         /\ x.input.header /\ x.input.content = x.rom.content

(***************************************************************************)
(* An archive that is copied as it is holds every ROM that it is copied    *)
(* for, under the ROM's name where names matter, and, when it is neither   *)
(* rewritten nor allowed to, nothing else.  Archives with a header on one  *)
(* of their files are left out, and so are the track sheets of CHDs.       *)
(***************************************************************************)
EntriesAt(path) == ToSet((CHOOSE d \in ToSet(run.disk) : d.path = path).entries)

RawCopiesAreTheSet ==
  \A d \in DOMAIN candidates : \A c \in ToSet(candidates[d]) : \A x \in ToSet(c.roms) :
    LET all  == {e \in EntriesAt(x.input.path) : e.type = x.input.type}
        mine == {y.rom : y \in {z \in ToSet(c.roms) : z.input.path = x.input.path}}
    IN  (/\ ShouldWrite(run.options) /\ IsArchiveFile(x.input) /\ ~ x.rom.disk
         /\ ~ \E e \in all : e.content \in DOMAIN HeaderOf \cup DOMAIN PaddingsOf
         /\ ~ \E e \in all : e.path.ext = ".cue") =>
          /\ \E e \in all : /\ e.content = x.rom.content
                            /\ (e.type \in MeaningfulEntryPaths /\ ~ Renames(d))
                                 => e.path = x.rom.name
          /\ (~ ShouldZip(run.options) /\ ~ Flagged(run.options, "allowExcess")) =>
               \A e \in all : \E r \in mine : r.content = e.content

(***************************************************************************)
(* After validation no two games of a DAT write one output path, unless    *)
(* all that they read is one file; and no game writes two inputs to one    *)
(* file that is not a zip.  (The corrector may make two names one: see     *)
(* the README.)                                                            *)
(***************************************************************************)
IsValidated(d) == stage[d] \in {"valid", "collected", "written", "finished"}

(***************************************************************************)
(* When files are extracted or zipped, a game whose ROMs all have a file   *)
(* that can be read is written, once for each region, language and         *)
(* category that the output path tells apart.                              *)
(***************************************************************************)
Readable(r) ==
  \E f \in ToSet(FindFiles(index, r.content)) : ~ (IsEntry(f) /\ f.type \in CannotExtract)

Combinations(game) ==
  {<<r, l, c>> : r \in ToSet(Explode(game.regions)), l \in ToSet(Explode(game.languages)), c \in ToSet(Explode(game.categories))}
Told(token, value) == IF token \in ToSet(run.options.output) THEN value ELSE <<>>
ToldApart(t) == <<Told("{region}", t[1]), Told("{language}", t[2]), Told("{category}", t[3])>>
OfGame(c) == <<c.game.regions, c.game.languages, c.game.categories>>

AvailableIsFound ==
  \A d \in DOMAIN candidates : stage[d] \in {"generated", "corrected", "placed", "valid"} =>
    \A g \in ToSet(run.dats[d].games) :
      (/\ ShouldExtract(run.options) \/ ShouldZip(run.options)
       /\ ~ Command(run.options, "link") /\ run.patches = <<>> /\ ~ Flagged(run.options, "zipDatName")
       /\ ~ Renames(d) /\ run.options.zipExclude = {} /\ g.disks = <<>>
       /\ g.roms # <<>> /\ \A r \in ToSet(g.roms) : Readable(r)
       /\ Cardinality({r.name : r \in ToSet(g.roms)}) = Len(g.roms)
       /\ ~ LeavesToken(Dir(run.options, run.dats[d], <<g>>, <<>>, <<g.name>>, <<>>))) =>
        \A t \in Combinations(g) : \E c \in ToSet(candidates[d]) :
          c.game.name = g.name /\ ToldApart(OfGame(c)) = ToldApart(t) /\ Len(c.roms) = Len(g.roms)

(***************************************************************************)
(* No letter directory has more sub-paths than --dir-letter-limit, and     *)
(* ranges of letters do not overlap: a letter is in two directories only   *)
(* when it is too much for one.                                            *)
(***************************************************************************)
NameBelow(x) == [x.output.path EXCEPT !.dir = SubSeq(@, Len(Roots) + 2, Len(@))]
LetterDir(x) == x.output.path.dir[Len(Roots) + 1]
LettersMatter(o) ==
  /\ o.letters.on /\ o.letters.limit > 0 /\ o.output = <<>>
  /\ o.flags \cap {"dirMirror", "dirDatMirror", "dirDatName", "dirDatDescription", "zipDatName"} = {}

LettersHold ==
  LettersMatter(run.options) => \A d \in {e \in DOMAIN candidates : IsValidated(e)} :
    LET below == {[name |-> NameBelow(x), at |-> LetterDir(x)] : x \in AllRoms(candidates[d])}
        TooMany(part) == Cardinality({SubPath(b.name) : b \in part}) > run.options.letters.limit
        Letter(b) == Letters(run.options, b.name)
    IN  \A b \in below :
          /\ ~ TooMany({c \in below : c.at = b.at})
          /\ \A c \in below : (Letter(c) = Letter(b) /\ c.at # b.at) =>
               TooMany({e \in below : Letter(e) = Letter(b)})

(***************************************************************************)
(* What a DAT's candidates write survives the cleaning; so does what lies  *)
(* where they would write a file that only the output directory has; and   *)
(* so do this run's playlists.                                             *)
(***************************************************************************)
WantedAreKept ==
  /\ \A d \in DOMAIN candidates : \A c \in ToSet(candidates[d]) : \A x \in ToSet(c.roms) :
       CanWrite(c) \/ ~ x.input.input => x.output.path \notin cleaned
  /\ \A d \in DOMAIN reports : \A p \in reports[d].playlists : p.path \notin cleaned

(***************************************************************************)
(* The same of every file that is where a DAT wants it: "Files in the      *)
(* output directory that matched to a DAT should be excluded from          *)
(* cleaning" (igir.ts).  An archive that stands for a disk may always be   *)
(* an input, the files beside it need not be: then nothing of the game is  *)
(* written, and the archive is not excluded.                               *)
(***************************************************************************)
MatchedAreKept ==
  \A d \in DOMAIN candidates : \A x \in AllRoms(candidates[d]) :
    x.input.path = x.output.path => x.output.path \notin cleaned

(***************************************************************************)
(* A game that the report calls FOUND has each of its ROMs in a candidate  *)
(* and is not in the fixdat; and unless the candidates were renamed or     *)
(* combined, a game with a whole candidate is FOUND.                       *)
(***************************************************************************)
StatusOf(d, game) == (CHOOSE s \in reports[d].statuses : s.name = game.name).status
HasAll(d, roms) == \A r \in ToSet(roms) : \E x \in AllRoms(candidates[d]) : x.rom.content = r.content

StatusIsTrue ==
  \A d \in DOMAIN reports : stage[d] = "finished" => \A g \in ToSet(run.dats[d].games) :
    /\ StatusOf(d, g) = "FOUND" => HasAll(d, GameRoms(run.options, g)) /\ g.name \notin reports[d].fixdat
    /\ (/\ ~ Renames(d)
        /\ \E c \in ToSet(candidates[d]) : c.game.name = g.name /\ Len(c.roms) = Len(GameRoms(run.options, g)))
         => StatusOf(d, g) = "FOUND"
=============================================================================
