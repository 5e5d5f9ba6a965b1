----------------------------- MODULE Scanning ------------------------------
(***************************************************************************)
(* From the disk to the index: ROMScanner lists the input files, and for   *)
(* some commands those of the output directory, and opens the archives;    *)
(* ROMHeaderProcessor and ROMTrimProcessor look for headers and for        *)
(* padding that was cut off; IndexedFiles and ROMIndexer make the map from *)
(* checksums to files, the best file first.                                *)
(*                                                                         *)
(* A path is [dir, name, ext], dir a sequence of names of which the first  *)
(* is "in" or "out".  A content stands for its bytes and for its checksum, *)
(* its size included.  A file on the disk has entries when it can be       *)
(* parsed as an archive, whatever its name.                                *)
(***************************************************************************)
EXTENDS Lists

CONSTANTS
  HeaderOf,       \* contents with a header: [body, headered, headerless]
  PaddingsOf,     \* trimmed contents: the contents with their padding added
  Signatures,     \* contents to the extension their first bytes stand for
  Trimmable,      \* the extensions with FileSignature.canBeTrimmed()
  PowerOfTwo,     \* contents with a size that is a power of two
  Empty,          \* the content of size 0
  JunkNames,      \* the names that isNotJunk() drops
  Alphabet        \* the names and extensions in localeCompare()'s order

ArchiveTypes == <<".zip", ".tar", ".rar", ".7z", ".cso", ".rvz", ".chd", ".chdraw", ".gz", ".nkit.iso">>
HeaderedExts == {h.headered : h \in {HeaderOf[c] : c \in DOMAIN HeaderOf}}
Unknown == "?"

(***************************************************************************)
(* Files as File, ArchiveEntry, ArchiveFile and ZeroSizeFile know them.    *)
(***************************************************************************)
Plain(path, content) ==
  [kind |-> "plain", path |-> path, type |-> "", entry |-> [path EXCEPT !.dir = <<>>],
   content |-> content, sum |-> content, inner |-> <<>>, header |-> FALSE,
   pads |-> <<>>, patch |-> <<>>, input |-> TRUE, tz |-> "no"]

Entry(path, e, tz) ==
  [Plain(path, e.content) EXCEPT !.kind = "entry", !.type = e.type, !.entry = e.path, !.tz = tz]

\* new ArchiveFile(entry, props): a file that knows one entry of it.
ArchiveFile(entry, whole, input) ==
  [Plain(entry.path, whole) EXCEPT !.kind = "archive", !.type = entry.type,
     !.inner = <<entry>>, !.input = input, !.tz = entry.tz]

ZeroSizeFile ==
  [Plain([dir |-> <<"null">>, name |-> "null", ext |-> ""], Empty) EXCEPT !.kind = "zero"]

IsEntry(f) == f.kind = "entry"
IsArchiveFile(f) == f.kind = "archive"

\* A file with a header can be found under its content without it, too.
SumWithoutHeader(f) == IF f.header THEN HeaderOf[f.content].body ELSE f.sum

\* entryOf() does not pass canBeCandidateInput on.
WithFileHeader(f) ==
  IF IsEntry(f) THEN [f EXCEPT !.header = TRUE, !.pads = <<>>, !.input = TRUE]
  ELSE [f EXCEPT !.header = TRUE, !.pads = <<>>]

WithoutFileHeader(f) == [f EXCEPT !.header = FALSE]
WithPaddings(f, pads) == [f EXCEPT !.header = @ /\ pads = <<>>, !.pads = pads]

\* A patch is [before, after, name]; it fits only the content it is made for.
WithPatch(f, patch) ==
  IF f.sum # patch.before THEN f
  ELSE [f EXCEPT !.header = FALSE, !.pads = <<>>, !.patch = <<patch>>]

\* File.toString(), as what tells two files apart and as a text to sort by.
Named(f) == IF IsEntry(f) THEN <<f.path, f.entry>> ELSE <<f.path>>
RankOf(text) == Cardinality({i \in DOMAIN Alphabet : \E j \in i..Len(Alphabet) : Alphabet[j] = text})
RanksOf(p) == Mapped(p.dir, RankOf) \o <<RankOf(p.name), RankOf(p.ext)>>
TextOf(f) == RanksOf(f.path) \o (IF IsEntry(f) THEN RanksOf(f.entry) ELSE <<>>)

IsExtensionArchive(path) == path.ext \in ToSet(ArchiveTypes)

(***************************************************************************)
(* Scanning.                                                               *)
(***************************************************************************)
Command(options, c) == c \in options.commands
ShouldWrite(options) == options.commands \cap {"copy", "move", "link", "extract", "zip"} # {}
ShouldZip(options) == Command(options, "zip")
ShouldExtract(options) == Command(options, "extract")

In(path, root) == path.dir[1] = root
PathLess(a, b) == LexLess(RanksOf(a.path), RanksOf(b.path))

\* A CHD is opened as the tracks of a disc (".chd") and as one raw image
\* (".chdraw"); with quick checksums only as the latter, and what an archive's
\* own table does not tell stays unknown.
EntriesOf(d, options) ==
  LET listed == SelectSeq(d.entries, LAMBDA e : options.quick => e.type # ".chd")
  IN  Mapped(listed, LAMBDA e : [Entry(d.path, e, d.tz) EXCEPT
        !.sum = IF options.quick /\ e.type \in {".cso", ".rvz"} THEN Unknown ELSE @])

\* Scanner.getFilesFromPath(): the whole archive comes after its entries.
FilesFromPath(d, checksumArchives, options) ==
  LET entries == EntriesOf(d, options)
      whole   == IF d.entries = <<>> \/ (checksumArchives /\ entries # <<>>)
                 THEN <<Plain(d.path, d.content)>> ELSE <<>>
  IN  IF d.broken THEN <<>>
      ELSE SelectSeq(entries \o whole, LAMBDA f :
             f.path.name \notin JunkNames /\ (IsEntry(f) => f.entry.name \notin JunkNames))

\* Igir.determineScanningChecksumArchives()
ShouldChecksumArchives(r) ==
  \/ r.options.checksumArchives = "always"
  \/ /\ r.options.checksumArchives = "auto"
     /\ \E d \in ToSet(r.dats) : d.mame /\ \E g \in ToSet(d.games) :
          \E rom \in ToSet(g.roms) : IsExtensionArchive(rom.name)

ShouldScanOutput(options) ==
  \E c \in {"playlist", "clean", "report"} : Command(options, c)

\* ROMScanner.scan()
Scan(r) ==
  LET o       == r.options
      inputs  == SelectSeq(r.disk, LAMBDA d : \E root \in o.inputs : In(d.path, root))
      outputs == IF ShouldScanOutput(o)
                 THEN SortedBy(SelectSeq(r.disk, LAMBDA d : In(d.path, "out") /\ d \notin ToSet(inputs)), PathLess)
                 ELSE <<>>
  IN  Flatten(inputs, LAMBDA d : FilesFromPath(d, ShouldChecksumArchives(r), o))
        \o Flatten(outputs, LAMBDA d :
             Mapped(FilesFromPath(d, ShouldChecksumArchives(r), o), LAMBDA f : [f EXCEPT !.input = FALSE]))

(***************************************************************************)
(* Headers and trimming.                                                   *)
(***************************************************************************)
HeaderNeedsProcessing(f, options) ==
  /\ ~ (IsEntry(f) /\ ~ ShouldZip(options) /\ ~ ShouldExtract(options))
  /\ f.content # Empty
  /\ f.entry.ext \in HeaderedExts \/ f.entry.name \in options.headerGlob

WithHeader(f, options) ==
  IF HeaderNeedsProcessing(f, options) /\ f.content \in DOMAIN HeaderOf THEN WithFileHeader(f) ELSE f

ReadForTrimming(f, options) == f.path.name \in options.trim.glob

TrimNeedsProcessing(f, options) ==
  \/ ReadForTrimming(f, options)
  \/ /\ options.trim.files # "never"
     /\ \/ ~ IsEntry(f) /\ options.trim.files = "always"
        \/ /\ (IsEntry(f) \/ IsExtensionArchive(f.path)) => options.trim.archives
           /\ f.content \notin PowerOfTwo \cup {Empty}

WithTrimming(f, options) ==
  IF /\ TrimNeedsProcessing(f, options)
     /\ \/ options.trim.files # "auto" \/ ReadForTrimming(f, options)
        \/ f.content \in DOMAIN Signatures /\ Signatures[f.content] \in Trimmable
     /\ f.content \in DOMAIN PaddingsOf
  THEN WithPaddings(f, PaddingsOf[f.content]) ELSE f

(***************************************************************************)
(* The index: a sequence of [sum, files].                                  *)
(***************************************************************************)
ArchivePriority(f) ==
  IF ~ IsEntry(f) THEN 0
  ELSE IF f.type \in {".gz", ".nkit.iso"} THEN 99
  ELSE IF f.type = ".chdraw" THEN 7
  ELSE CHOOSE i \in DOMAIN ArchiveTypes : ArchiveTypes[i] = f.type

Flag(b) == IF b THEN 1 ELSE 0

\* ROMIndexer.sortMap()
SortKey(f, options) ==
  <<Flag(~ f.input),
    Flag(IsEntry(f) # (options.prefer = "archive")),
    Flag(f.path.name \notin options.preferNames),
    ArchivePriority(f),
    Flag("overwrite" \in options.flags \/ "overwriteInvalid" \in options.flags) * Flag(In(f.path, "out"))>>
  \o TextOf(f)

Keys(f, sums) == Mapped(sums, LAMBDA s : [sum |-> s, file |-> f])
Keyed(pairs) ==
  Mapped(GroupBy(pairs, LAMBDA p : p.sum),
         LAMBDA g : [sum |-> g[1].sum, files |-> Mapped(g, LAMBDA p : p.file)])

Combined(first, second) ==
  first \o SelectSeq(second, LAMBDA k : ~ \E j \in ToSet(first) : j.sum = k.sum)

\* IndexedFiles.fromFiles(): a header or a padding is looked at only for
\* contents that no file has as it is.
FromFiles(files) ==
  LET raw        == Keyed(Flatten(files, LAMBDA f : Keys(f, <<f.sum>>)))
      headerless == Keyed(Flatten(SelectSeq(files, LAMBDA f : f.header), LAMBDA f : Keys(f, <<SumWithoutHeader(f)>>)))
      padded     == Keyed(Flatten(files, LAMBDA f : Keys(f, f.pads)))
  IN  Combined(Combined(raw, headerless), padded)

IndexOf(files, options) ==
  Mapped(FromFiles(files), LAMBDA k :
    [k EXCEPT !.files = SortedBy(@, LAMBDA a, b : LexLess(SortKey(a, options), SortKey(b, options)))])

\* Igir.processROMScanner()
ScannedIndex(r) ==
  LET o        == r.options
      headered == Mapped(Scan(r), LAMBDA f : WithHeader(f, o))
  IN  IndexOf(Mapped(headered, LAMBDA f : WithTrimming(f, o)), o)

GetFiles(index) == UniqueBy(Flatten(index, LAMBDA k : k.files), Named)
FilesAt(index, path) == SelectSeq(GetFiles(index), LAMBDA f : f.path = path)
FindFiles(index, sum) ==
  IF sum = Unknown THEN <<>>
  ELSE UniqueBy(Flatten(SelectSeq(index, LAMBDA k : k.sum = sum), LAMBDA k : k.files), Named)
=============================================================================
