----------------------------- MODULE TorrentZip -----------------------------
(***************************************************************************)
(* Zip.createArchive() and TZWriter: a TorrentZip (or RVZSTD) archive is   *)
(* written to a temporary file, entry by entry, and moved to its place     *)
(* when its directory is complete.  Each local header is written twice:    *)
(* first for its length, with the size the input file is said to have, and *)
(* then with the sizes and the checksum of the bytes that came, which a    *)
(* patch or a padding may have changed.  At the end the archive is tested, *)
(* as CandidateWriter.testZipContents() does it, and validated by          *)
(* TZValidator.                                                            *)
(***************************************************************************)
EXTENDS ZipFile, Functions

CONSTANTS
  Inputs,       \* the sequences of entries: name, declared size, actual size
  Formats,      \* "DEFLATE" for TorrentZip, "ZSTD" for RVZSTD
  Rank,         \* the order of the names in lower case
  Cp437Names,   \* the names that code page 437 can encode
  Compressions(_)  \* the sizes that so many bytes may be compressed to

VARIABLES
  entries,      \* what is to be written
  format,
  phase,        \* how far createArchive() is
  next,         \* the entry that is being written
  file,         \* the temporary file, if there is one
  filePosition,
  localFileHeaders,
  sizes,        \* what the transforms of the stream have counted
  output,       \* what is at the archive's path
  verdict,      \* what the test says of it
  previous      \* what was there at first (no code variable)

vars == <<entries, format, phase, next, file, filePosition, localFileHeaders,
          sizes, output, verdict, previous>>

Names == DOMAIN NameLength
Entries == [name : Names, declared : Nat, actual : Nat]

\* createArchive() is called with what there is to write, and what is compressed has
\* a byte at least.
ASSUME InputsAssumption ==
  /\ Inputs \subseteq Seq(Entries) \ {<<>>}
  /\ \A s \in Inputs : \A i \in DOMAIN s : Compressions(s[i].actual) \subseteq Nat \ {0}
ASSUME FormatsAssumption == Formats \subseteq {"DEFLATE", "ZSTD"}
ASSUME RankAssumption == Rank \in [Names -> Nat]
ASSUME CommentAssumption == MaxComment \in Nat /\ MaxComment >= 22

NoFile == [exists |-> FALSE, parts |-> EmptyFile]
Previous == [exists |-> TRUE, parts |-> EmptyFile]   \* somebody else's bytes
NoSizes == [usize |-> 0, csize |-> 0]

\* The order of tzFileNameComparator, by a sort that is stable: order[k] is the
\* index in s of what comes at k.
Sorts(order, s) ==
  \A k, l \in DOMAIN s : k < l =>
    \/ Rank[s[order[k]].name] < Rank[s[order[l]].name]
    \/ Rank[s[order[k]].name] = Rank[s[order[l]].name] /\ order[k] < order[l]

-----------------------------------------------------------------------------
(* The headers                                                             *)

\* Both sizes are clamped if one is.
LocalFileHeader(name, crc, csize, usize) ==
  LET deflated == format = "DEFLATE"
      clamped == csize >= Max32 \/ usize >= Max32
  IN [version |-> IF deflated \/ usize = 0 THEN 20 ELSE 63,
      utf8 |-> name \notin Cp437Names,
      method |-> IF deflated THEN "DEFLATE" ELSE IF usize = 0 THEN "STORE" ELSE "ZSTD",
      stamp |-> IF deflated THEN "1996-12-24" ELSE "none",
      crc |-> crc,
      csize |-> IF clamped THEN Max32 ELSE csize,
      usize |-> IF clamped THEN Max32 ELSE Or(usize, 0),
      name |-> name,
      zip64 |-> <<>>]

Zip64LocalFileHeader(name, position, crc, csize, usize) ==
  LET h == LocalFileHeader(name, crc, csize, usize)
  IN [h EXCEPT !.version = IF @ < 45 THEN 45 ELSE @,
               !.zip64 = <<Or(usize, 0), csize>>
                         \o (IF position >= Max32 THEN <<position>> ELSE <<>>)]

\* Mutant: the size that was counted decides, once it is known.
HeaderForActual(e, crc, csize, usize) ==
  IF (IF usize = Absent THEN e.declared ELSE usize) >= Max32
  THEN Zip64LocalFileHeader(e.name, filePosition, crc, csize, usize)
  ELSE LocalFileHeader(e.name, crc, csize, usize)

\* The header before the data is a zip64 one if the declared size says so.
HeaderFor(e, crc, csize, usize) ==
  IF e.declared >= Max32 THEN Zip64LocalFileHeader(e.name, filePosition, crc, csize, usize)
  ELSE LocalFileHeader(e.name, crc, csize, usize)

Clamp(n, most) == IF n < most THEN n ELSE most
IfBig(n) == IF n >= Max32 THEN <<n>> ELSE <<>>

CentralFileHeader(l) ==
  LET zip64 == IfBig(l.usize) \o IfBig(l.csize) \o IfBig(l.position)
  IN [version |-> IF zip64 # <<>> /\ l.raw.version < 45 THEN 45 ELSE l.raw.version,
      utf8 |-> l.raw.utf8,
      method |-> l.raw.method,
      stamp |-> l.raw.stamp,
      crc |-> l.crc,
      csize |-> Clamp(l.csize, Max32),
      usize |-> Clamp(l.usize, Max32),
      offset |-> Clamp(l.position, Max32),
      name |-> l.raw.name,
      zip64 |-> zip64]

CentralDirectory == [i \in DOMAIN localFileHeaders |-> CentralFileHeader(localFileHeaders[i])]

\* What crc32() makes of the directory: no two directories have the same.
Checksum(hs) == hs

-----------------------------------------------------------------------------
(* TZValidator                                                             *)

Zip64Version(h) == IF CentralInformation(h).present THEN 45 ELSE 20

CentralIsValid(h, isRvZstd) ==
  /\ h.method \in IF isRvZstd THEN {"ZSTD", "STORE"} ELSE {"DEFLATE"}
  /\ h.version = IF h.method = "ZSTD" THEN 63 ELSE Zip64Version(h)
  /\ h.utf8 => h.name \notin Cp437Names
  /\ h.stamp = IF h.method = "DEFLATE" THEN "1996-12-24" ELSE "none"
  /\ h.csize >= Max32 => CentralInformation(h).csize >= h.csize
  /\ h.usize >= Max32 => CentralInformation(h).usize >= h.usize
  /\ h.method = "STORE" => h.usize = 0

\* A size of the local header is the one of the directory: in full in the
\* extra field if both are clamped, or as it is.
SameSize(inLocal, resolved, inCentral, information) ==
  \/ /\ inLocal = Max32
     /\ resolved # Absent
     /\ resolved = IF resolved >= Max32 THEN information ELSE inCentral
  \/ inLocal < Max32 /\ inLocal = inCentral

LocalIsValid(l, h) ==
  LET fields == l.fields
      info == CentralInformation(h)
  IN /\ \/ fields.version = h.version
        \/ ~ l.information.present /\ info.present /\ h.version = 45
     /\ fields.utf8 = h.utf8
     /\ fields.method = h.method
     /\ fields.stamp = h.stamp
     /\ fields.crc = h.crc
     /\ SameSize(fields.csize, l.information.csize, h.csize, info.csize)
     /\ SameSize(fields.usize, l.information.usize, h.usize, info.usize)
     /\ fields.usize = Max32 <=> fields.csize = Max32
     /\ fields.name = h.name

\* Where each entry must begin, and the directory after the last: nothing
\* lies between them.
ExpectedOffsets(f, hs) ==
  LET at[i \in 0 .. Len(hs)] ==
        IF i = 0 THEN 0
        ELSE at[i - 1] + LocalHeader(f, hs[i]).length + LocalCsize(LocalHeader(f, hs[i]))
  IN at

DirectoryIsValid(r, hs, isRvZstd) ==
  /\ \A i \in DOMAIN hs : CentralIsValid(hs[i], isRvZstd)
  /\ \A i, j \in DOMAIN hs : i < j => Rank[hs[i].name] <= Rank[hs[j].name]
  /\ r.comment = [says |-> IF isRvZstd THEN "RVZSTD" ELSE "TORRENTZIPPED", crc |-> Checksum(hs)]

EntriesAreValid(f, hs, cdOffset) ==
  LET expected == ExpectedOffsets(f, hs)
  IN /\ \A i \in DOMAIN hs : /\ OffsetResolved(hs[i]) = expected[i - 1]
                             /\ LocalIsValid(LocalHeader(f, hs[i]), hs[i])
     /\ expected[Len(hs)] = cdOffset

Validation(f) ==
  LET hs == CentralHeaders(f)
      isRvZstd == \E i \in DOMAIN hs : hs[i].method # "DEFLATE"
  IN IF /\ IsReadable(f)
        /\ DirectoryIsValid(EndRecord(f), hs, isRvZstd)
        /\ \A i \in DOMAIN hs : Holds(f, OffsetResolved(hs[i]), "local")
        /\ EntriesAreValid(f, hs, EndRecord(f).cdOffset)
     THEN IF isRvZstd THEN "ZSTD" ELSE "DEFLATE"
     ELSE "INVALID"

\* CandidateWriter.testZipContents(): the entries by name, with checksums
\* of what they extract to and the sizes of the directory.
Listing(f) ==
  LET hs == CentralHeaders(f)
  IN {[name |-> hs[i].name, size |-> CentralUsize(hs[i]), content |-> Extracted(f, hs[i])] :
        i \in DOMAIN hs}

Expected ==
  {[name |-> entries[i].name, size |-> entries[i].actual,
    content |-> Content(entries[i].name, entries[i].actual)] : i \in DOMAIN entries}

Tested(f) ==
  IF ~ IsReadable(f) THEN "unreadable"
  ELSE IF Listing(f) # Expected THEN "wrong contents"
  ELSE IF Validation(f) # format THEN "not valid"
  ELSE "passed"

-----------------------------------------------------------------------------
(* Zip.createArchive()                                                     *)

Init ==
  /\ entries \in Inputs
  /\ format \in Formats
  /\ phase = "start"
  /\ next = 1
  /\ file = NoFile
  /\ filePosition = 0
  /\ localFileHeaders = <<>>
  /\ sizes = NoSizes
  /\ previous \in {NoFile, Previous}
  /\ output = previous
  /\ verdict = "none"

Open ==
  /\ phase = "start"
  /\ \E order \in [DOMAIN entries -> DOMAIN entries] :
       /\ Sorts(order, entries)
       /\ entries' = [k \in DOMAIN entries |-> entries[order[k]]]
  /\ file' = [exists |-> TRUE, parts |-> EmptyFile]
  /\ phase' = "entry"
  /\ UNCHANGED <<format, next, filePosition, localFileHeaders, sizes, output, verdict,
                 previous>>

Entry == entries[next]
Placeholder == HeaderFor(Entry, Empty, 0, Absent)

Write(at, part) == file' = [file EXCEPT !.parts = WriteAt(@, at, part)]

\* addStream(), first write: a header that has the length of the last one.
WritePlaceholder ==
  /\ phase = "entry" /\ next <= Len(entries)
  /\ Write(filePosition, Part("local", LocalHeaderLength(Placeholder), Placeholder))
  /\ phase' = "stream"
  /\ UNCHANGED <<entries, format, next, filePosition, localFileHeaders, sizes, output, verdict,
                 previous>>

Codec(e) == IF format = "DEFLATE" THEN "DEFLATE"
            ELSE IF e.declared = 0 THEN "STORE"
            ELSE "ZSTD"

\* addStream(), the pipeline: what is read is counted, compressed, counted
\* and written.
StreamData ==
  /\ phase = "stream"
  /\ \E csize \in IF Codec(Entry) = "STORE" THEN {Entry.actual} ELSE Compressions(Entry.actual) :
       /\ sizes' = [usize |-> Entry.actual, csize |-> csize]
       /\ Write(filePosition + LocalHeaderLength(Placeholder),
                Part("data", csize,
                     [codec |-> Codec(Entry), content |-> Content(Entry.name, Entry.actual)]))
  /\ phase' = "header"
  /\ UNCHANGED <<entries, format, next, filePosition, localFileHeaders, output, verdict,
                 previous>>

\* addStream(), the last write, and what is kept for the directory.
WriteHeader ==
  /\ phase = "header"
  /\ LET crc == Content(Entry.name, sizes.usize)
         h == HeaderFor(Entry, crc, sizes.csize, sizes.usize)
     IN /\ Write(filePosition, Part("local", LocalHeaderLength(h), h))
        /\ localFileHeaders' =
             Append(localFileHeaders,
                    [position |-> filePosition, crc |-> crc, csize |-> sizes.csize,
                     usize |-> sizes.usize, raw |-> h])
        /\ filePosition' = filePosition + LocalHeaderLength(h) + sizes.csize
  /\ next' = next + 1
  /\ phase' = "entry"
  /\ UNCHANGED <<entries, format, sizes, output, verdict, previous>>

DirectoryEnds ==
  LET to[i \in 0 .. Len(CentralDirectory)] ==
        IF i = 0 THEN 0 ELSE to[i - 1] + CentralHeaderLength(CentralDirectory[i])
  IN to
DirectoryLength == DirectoryEnds[Len(localFileHeaders)]

\* The directory's headers, one after the other from a position on.
DirectoryAt(from) ==
  LET to == DirectoryEnds
      hs == CentralDirectory
  IN [p \in {from + to[i - 1] : i \in DOMAIN hs} |->
        LET i == CHOOSE j \in DOMAIN hs : p = from + to[j - 1]
        IN Part("central", CentralHeaderLength(hs[i]), hs[i])]

\* finalize(): the directory, in one write.
WriteDirectory ==
  /\ phase = "entry" /\ next > Len(entries)
  /\ LET end == filePosition + DirectoryLength
     IN /\ file' = [file EXCEPT !.parts =
                      WriteParts(@, filePosition, end, DirectoryAt(filePosition))]
        /\ filePosition' = end
  /\ phase' = "directory"
  /\ UNCHANGED <<entries, format, next, localFileHeaders, sizes, output, verdict, previous>>

StartOfDirectory ==
  LET l == localFileHeaders[Len(localFileHeaders)]
  IN l.position + LocalHeaderLength(l.raw) + l.csize

\* Mutant: a count that fills its field needs no zip64 record.
IsZip64Beyond == \/ DirectoryLength >= Max32
                 \/ StartOfDirectory >= Max32
                 \/ Len(localFileHeaders) > MaxCount

IsZip64 == \/ DirectoryLength >= Max32
           \/ StartOfDirectory >= Max32
           \/ Len(localFileHeaders) >= MaxCount

Zip64Record == [count |-> Len(localFileHeaders), cdSize |-> DirectoryLength,
                cdOffset |-> StartOfDirectory]

\* finalize(): the zip64 record and its locator, in one write.
WriteZip64 ==
  /\ phase = "directory" /\ IsZip64
  /\ LET locatorAt == filePosition + Zip64RecordSize
         end == locatorAt + LocatorSize
     IN /\ file' = [file EXCEPT !.parts =
               WriteParts(@, filePosition, end,
                 [p \in {filePosition, locatorAt} |->
                    IF p = filePosition THEN Part("zip64", Zip64RecordSize, Zip64Record)
                    ELSE Part("locator", LocatorSize, filePosition)])]
        /\ filePosition' = end
  /\ phase' = "record"
  /\ UNCHANGED <<entries, format, next, localFileHeaders, sizes, output, verdict, previous>>

SkipZip64 ==
  /\ phase = "directory" /\ ~ IsZip64
  /\ phase' = "record"
  /\ UNCHANGED <<entries, format, next, file, filePosition, localFileHeaders, sizes,
                 output, verdict, previous>>

\* The end record, with the checksum of the directory in its comment.
RecordLength == RecordSize + (IF format = "DEFLATE" THEN 22 ELSE 15)
Record ==
  [count |-> Clamp(Len(localFileHeaders), MaxCount),
   cdSize |-> Clamp(DirectoryLength, Max32),
   cdOffset |-> Clamp(StartOfDirectory, Max32),
   comment |-> [says |-> IF format = "DEFLATE" THEN "TORRENTZIPPED" ELSE "RVZSTD",
                crc |-> Checksum(CentralDirectory)]]

\* finalize(): the end record.
WriteRecord ==
  /\ phase = "record"
  /\ Write(filePosition, Part("record", RecordLength, Record))
  /\ filePosition' = filePosition + RecordLength
  /\ phase' = "finalized"
  /\ UNCHANGED <<entries, format, next, localFileHeaders, sizes, output, verdict, previous>>

\* Mutant: the file is moved before its end record is written.
MoveUnfinished ==
  /\ phase \in {"record", "finalized", "removed"}
  /\ output' = file
  /\ file' = NoFile
  /\ phase' = "moved"
  /\ UNCHANGED <<entries, format, next, filePosition, localFileHeaders, sizes, verdict,
                 previous>>

\* FsUtil.mv(): rename(), at once or when it is tried again.  The temporary file
\* lies beside the archive, so that they share a drive.
Move ==
  /\ phase \in {"finalized", "removed"}
  /\ output' = file
  /\ file' = NoFile
  /\ phase' = "moved"
  /\ UNCHANGED <<entries, format, next, filePosition, localFileHeaders, sizes, verdict,
                 previous>>

\* rename() fails: mv() removes what it was to replace before it tries again.  If
\* nothing is there, or it cannot be removed, mv() throws the first error: Fail.
RemoveOutput ==
  /\ phase = "finalized" /\ output.exists
  /\ output' = NoFile
  /\ phase' = "removed"
  /\ UNCHANGED <<entries, format, next, file, filePosition, localFileHeaders, sizes, verdict,
                 previous>>

Writing == {"entry", "stream", "header", "directory", "record", "finalized", "removed"}

\* Reading an input, writing, or moving fails; moving a second time, for good.
Fail ==
  /\ phase \in Writing
  /\ phase' = "failed"
  /\ UNCHANGED <<entries, format, next, file, filePosition, localFileHeaders, sizes,
                 output, verdict, previous>>

\* The finally block.
RemoveTemp ==
  /\ phase = "failed"
  /\ file' = NoFile
  /\ phase' = "gaveUp"
  /\ UNCHANGED <<entries, format, next, filePosition, localFileHeaders, sizes, output, verdict,
                 previous>>

\* The process ends in the middle.
Crash ==
  /\ phase \in Writing \cup {"failed"}
  /\ phase' = "crashed"
  /\ UNCHANGED <<entries, format, next, file, filePosition, localFileHeaders, sizes,
                 output, verdict, previous>>

Test ==
  /\ phase = "moved"
  /\ verdict' = Tested(output.parts)
  /\ phase' = "tested"
  /\ UNCHANGED <<entries, format, next, file, filePosition, localFileHeaders, sizes, output,
                 previous>>

Next ==
  \/ Open
  \/ WritePlaceholder
  \/ StreamData
  \/ WriteHeader
  \/ WriteDirectory
  \/ WriteZip64
  \/ SkipZip64
  \/ WriteRecord
  \/ Move
  \/ RemoveOutput
  \/ Fail
  \/ RemoveTemp
  \/ Crash
  \/ Test

Spec == Init /\ [][Next]_vars

-----------------------------------------------------------------------------
(* Properties                                                              *)

Contents == {Empty} \cup [of : Names, size : Nat]
LocalHeaders ==
  [version : {20, 45, 63}, utf8 : BOOLEAN, method : {"DEFLATE", "STORE", "ZSTD"},
   stamp : {"1996-12-24", "none"}, crc : Contents, csize : Nat, usize : Nat,
   name : Names, zip64 : Seq(Nat)]
Kept == [position : Nat, crc : Contents, csize : Nat, usize : Nat, raw : LocalHeaders]
Phases == {"start"} \cup Writing \cup {"moved", "tested", "failed", "gaveUp", "crashed"}

\* Every variable has the type its declaration gives it.
TypeOK ==
  /\ entries \in Seq(Entries) \ {<<>>}
  /\ format \in {"DEFLATE", "ZSTD"}
  /\ phase \in Phases
  /\ next \in 1 .. Len(entries) + 1
  /\ filePosition \in Nat
  /\ localFileHeaders \in Seq(Kept)
  /\ sizes \in [usize : Nat, csize : Nat]
  /\ verdict \in {"none", "unreadable", "wrong contents", "not valid", "passed"}
  /\ previous \in {NoFile, Previous}

\* A whole file, whose directory lists all entries.
ListsAll(f) ==
  /\ f.exists /\ IsReadable(f.parts)
  /\ {h.name : h \in Range(CentralHeaders(f.parts))} = {e.name : e \in Range(entries)}

\* Whatever fails and whenever the process ends, at the archive's path is what was
\* there before or an archive that lists all entries.  If there is neither, because
\* mv() removed the one and could not yet move the other there, the temporary file
\* is that archive, until mv() has failed a second time and the finally block
\* removes it: no failure or crash before that loses both.
OutputIsWhole ==
  \/ output = previous
  \/ ListsAll(output)
  \/ output = NoFile /\ (ListsAll(file) \/ phase = "gaveUp")

\* The size was known before the data came, on either side of 4 GiB, and
\* compression has not carried the data over it.
SizesWereRight ==
  \A i \in DOMAIN localFileHeaders :
    LET l == localFileHeaders[i]
    IN entries[i].declared = l.usize /\ (l.usize >= Max32 \/ l.csize < Max32)

\* Then what is written, up to and beyond 4 GiB and 65,535 entries, has the
\* bytes and the names of its inputs, and this program's own validator
\* accepts it.
WrittenIsValid == phase = "tested" /\ SizesWereRight => verdict = "passed"

\* Whatever the sizes were: no archive that passes the validator extracts
\* to anything but what was put into it.
AcceptedIsSound ==
  phase = "tested" /\ Validation(output.parts) # "INVALID" => Listing(output.parts) = Expected
=============================================================================
