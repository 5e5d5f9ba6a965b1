----------------------------- MODULE Checksums -----------------------------
(***************************************************************************)
(* Which checksums files are known and matched by.  ArgumentsParser checks *)
(* the limits the user gives; Igir.determineScanningBitmask() chooses the  *)
(* kinds to calculate from the limits, the DATs and the patches; Scanner   *)
(* reads the files, each archive format with a table, a trailer or a       *)
(* header of its own to trust; DATGameInferrer makes DATs from files when  *)
(* there are none; IndexedFiles.findFiles() looks a ROM up by every        *)
(* checksum it has.                                                        *)
(*                                                                         *)
(* A kind of checksum is its rank.  What is known of a file or a ROM is a  *)
(* function from kinds to values, in which two contents may share a CRC32; *)
(* the size is a part of that value, as it is of the index's key.          *)
(***************************************************************************)
EXTENDS Naturals, FiniteSets, SequencesExt

CONSTANTS
  OptionSets,   \* records [min, max, quick, patches, dir2dat, dat, excludeDisks]
  DatSets,      \* sets of DATs that --dat can find; a DAT is a set of ROMs
  InputSets,    \* sets of files
  CrcOf,        \* contents to their CRC32s
  Junk          \* what is not a checksum although it stands for one

VARIABLES
  options, datFiles, todo,
  phase,        \* how far Igir.main() is
  dats, mask,
  scanned,      \* [file, sums] of the files read so far
  found         \* pairs of a ROM and a scanned file that matches it

vars == <<options, datFiles, todo, phase, dats, mask, scanned, found>>

CRC32 == 1
MD5 == 2
SHA1 == 3
SHA256 == 4
Kinds == CRC32..SHA256

SumOf(kind, content) == IF kind = CRC32 THEN CrcOf[content] ELSE content
Calculated(content, kinds) == [k \in kinds |-> SumOf(k, content)]

\* f where it is defined, and else g.
Over(f, g) == [k \in DOMAIN f \cup DOMAIN g |-> IF k \in DOMAIN f THEN f[k] ELSE g[k]]

(***************************************************************************)
(* What the constants are.  A table tells the CRC32, right or wrong; that  *)
(* of a CHD tells the SHA1, which nothing checks and which is taken to be  *)
(* right.  A ROM's content is what its checksums above CRC32 are of.       *)
(***************************************************************************)
Formats ==
  {"plain", "zip", "gz", "rar", "cso", "tar", "rvz", "7z", "chdraw", "chddata", "nkit"}
Contents == DOMAIN CrcOf

IsFile(f) ==
  /\ f.format \in Formats /\ f.content \in Contents /\ f.earlier \subseteq SUBSET Kinds
  /\ DOMAIN f.table \subseteq (IF f.format \in {"chdraw", "chddata"} THEN {SHA1} ELSE {CRC32})
  /\ SHA1 \in DOMAIN f.table => f.table[SHA1] = f.content

IsRom(rom) ==
  /\ DOMAIN rom = {"content", "sums", "sized", "disk"}
  /\ rom.content \in Contents /\ rom.sized \in BOOLEAN /\ rom.disk \in BOOLEAN
  /\ DOMAIN rom.sums \subseteq Kinds
  /\ \A k \in DOMAIN rom.sums \ {CRC32} : rom.sums[k] = rom.content

ASSUME OptionsAssumption ==
  OptionSets \subseteq [min: Kinds, max: Kinds, quick: BOOLEAN, patches: BOOLEAN,
                        dir2dat: BOOLEAN, dat: BOOLEAN, excludeDisks: BOOLEAN]
ASSUME FilesAssumption ==
  \A files \in InputSets : IsFiniteSet(files) /\ \A f \in files : IsFile(f)
ASSUME JunkAssumption == \A content \in Contents, kind \in Kinds : SumOf(kind, content) # Junk
ASSUME DatsAssumption == \A ds \in DatSets : \A dat \in ds : \A rom \in dat : IsRom(rom)

(***************************************************************************)
(* What getArchiveEntries() of each format hands to entryOf().  f.table is *)
(* what the archive says of its entry.                                     *)
(***************************************************************************)
ReadWhenNeeded(f, kinds, table) ==
  IF kinds \ {CRC32} = {} THEN table ELSE Over(Calculated(f.content, kinds), table)

ZipListed(f, kinds) == ReadWhenNeeded(f, kinds, f.table)
GzipListed(f, kinds) == ReadWhenNeeded(f, kinds, f.table)
RarListed(f, kinds) == ReadWhenNeeded(f, kinds, f.table)

\* maxcso is asked for the CRC32 of what it decompresses.
MaxcsoListed(f, kinds) ==
  ReadWhenNeeded(f, kinds, IF kinds = {} \/ CRC32 \in kinds THEN Calculated(f.content, {CRC32}) ELSE <<>>)

TarListed(f, kinds) == Calculated(f.content, kinds)
DolphinListed(f, kinds) == Calculated(f.content, kinds)
SevenZipListed(f, kinds) == f.table
NkitListed(f) == f.table

\* The header's SHA1 is of data and metadata; the rest cannot be calculated.
ChdRawListed(f, kinds) == Over(f.table, [k \in kinds |-> Junk])
ChdDataListed(f, kinds) == f.table

\* ArchiveEntry.entryOf(): one checksum too few, and all are calculated.
EntryOf(f, kinds, listed) ==
  IF kinds \subseteq DOMAIN listed THEN listed ELSE Over(Calculated(f.content, kinds), listed)

Read(f, kinds) ==
  CASE f.format = "plain"   -> Calculated(f.content, kinds)
    [] f.format = "zip"     -> EntryOf(f, kinds, ZipListed(f, kinds))
    [] f.format = "gz"      -> EntryOf(f, kinds, GzipListed(f, kinds))
    [] f.format = "rar"     -> EntryOf(f, kinds, RarListed(f, kinds))
    [] f.format = "cso"     -> EntryOf(f, kinds, MaxcsoListed(f, kinds))
    [] f.format = "tar"     -> EntryOf(f, kinds, TarListed(f, kinds))
    [] f.format = "rvz"     -> EntryOf(f, kinds, DolphinListed(f, kinds))
    [] f.format = "7z"      -> EntryOf(f, kinds, SevenZipListed(f, kinds))
    [] f.format = "chdraw"  -> EntryOf(f, kinds, ChdRawListed(f, kinds))
    [] f.format = "chddata" -> EntryOf(f, kinds, ChdDataListed(f, kinds))
    [] f.format = "nkit"    -> NkitListed(f)

\* The file cache answers with what an earlier run read, if that is enough;
\* f.earlier holds the set of kinds that run asked for, if there was one.
FromCache(f, kinds) ==
  LET cached == {Read(f, e) : e \in f.earlier}
      enough == {sums \in cached : kinds \subseteq DOMAIN sums}
  IN  CHOOSE sums \in (IF enough = {} THEN {Read(f, kinds)} ELSE enough) : TRUE

IsArchive(f) == f.format # "plain"

\* Scanner.getFilesFromPath(): quick, archives only tell what is in them.
KindsAsked(f) == IF options.quick /\ IsArchive(f) THEN {} ELSE mask

Known(sums) == {k \in DOMAIN sums : sums[k] # Junk}
Only(sums, kinds) == [k \in kinds \cap DOMAIN sums |-> sums[k]]

\* Mutant: what was not asked for stays.
ConstrainedNever(f, sums) == Only(sums, Known(sums))

\* Scanner.getFilesFromPaths(): no junk, and nothing that was not asked for.
Constrained(f, sums) ==
  Only(sums, IF options.quick /\ IsArchive(f) THEN Known(sums) ELSE Known(sums) \cap mask)

(***************************************************************************)
(* The choice of the kinds.                                                *)
(***************************************************************************)
Limits == options.min..options.max

\* A CRC32 without a size is of no use.
Sought(rom) == IF rom.sized THEN DOMAIN rom.sums ELSE DOMAIN rom.sums \ {CRC32}
Least(kinds) == {k \in kinds : \A j \in kinds : k <= j}

\* Mutant: a CRC32 counts without a size, too.
RequiredOfAny(dat) == UNION {Least(DOMAIN rom.sums) : rom \in {r \in dat : ~ r.disk}}

RequiredRomChecksums(dat) == UNION {Least(Sought(rom)) : rom \in {r \in dat : ~ r.disk}}
RequiredDiskChecksums(dat) == UNION {Least(Sought(rom)) : rom \in {r \in dat : r.disk}}

ForPatchesNothing == {}   \* Mutant: patches need no checksum.
ForPatches == IF options.patches THEN {CRC32} ELSE {}

ForDats ==
  (UNION {RequiredRomChecksums(dat) : dat \in dats})
    \cup (IF options.excludeDisks THEN {} ELSE UNION {RequiredDiskChecksums(dat) : dat \in dats})

ScanningBitmask ==
  {options.min} \cup ForPatches
    \cup (Limits \cap (IF options.dir2dat \/ dats = {} THEN Kinds ELSE ForDats))

(***************************************************************************)
(* DATs from files.                                                        *)
(***************************************************************************)
\* What is known together of the files that share a checksum; the last wins.
Combined(files, kind, value) ==
  LET alike   == {i \in DOMAIN files : kind \in DOMAIN files[i].sums /\ files[i].sums[kind] = value}
      tell(j) == {i \in alike : j \in DOMAIN files[i].sums}
      last(j) == CHOOSE i \in tell(j) : \A l \in tell(j) : l <= i
  IN  [j \in {k \in Kinds : tell(k) # {}} |-> files[last(j)].sums[j]]

\* What the files know that share s's checksum of a kind, in place of the sums:
\* withProps() takes what they do not know over, too.
With(s, files, kind, sums) ==
  IF kind \in DOMAIN s.sums THEN Combined(files, kind, s.sums[kind]) ELSE sums

\* Mutant: the CRC32 has the last word.
EnrichedDownwards(s, files) ==
  With(s, files, CRC32, With(s, files, MD5, With(s, files, SHA1, With(s, files, SHA256, s.sums))))

\* A higher kind has the last word.
Enriched(s, files) ==
  With(s, files, SHA256, With(s, files, SHA1, With(s, files, MD5, With(s, files, CRC32, s.sums))))

InferredRom(s, files) ==
  [content |-> s.file.content, sums |-> Enriched(s, files), sized |-> TRUE,
   disk |-> s.file.format = "chdraw", source |-> s]

\* IndexedFiles.findFiles()
Matches(rom, s) == \E k \in Sought(rom) \cap DOMAIN s.sums : rom.sums[k] = s.sums[k]

Wanted(dat) == {rom \in dat : ~ (rom.disk /\ options.excludeDisks)}

(***************************************************************************)
(* Igir.main()                                                             *)
(***************************************************************************)
Init ==
  /\ options \in OptionSets /\ todo \in InputSets
  /\ datFiles \in (IF options.dat THEN DatSets ELSE {{}})
  /\ phase = "parse" /\ dats = {} /\ mask = {}
  /\ scanned = {} /\ found = {}

LimitsAreLegal ==
  /\ options.quick => options.min = CRC32 /\ options.max = SHA1
  /\ options.min <= options.max

DatsAreLegal == ~ (options.dir2dat /\ options.dat)

Parse ==
  /\ phase = "parse"
  /\ phase' = IF LimitsAreLegal /\ DatsAreLegal THEN "dats" ELSE "refused"
  /\ UNCHANGED <<options, datFiles, todo, dats, mask, scanned, found>>

\* Igir.processDATScanner()
ScanDats ==
  /\ phase = "dats"
  /\ dats' = IF options.dir2dat \/ ~ options.dat THEN {} ELSE datFiles
  /\ phase' = IF options.dat /\ datFiles = {} THEN "refused" ELSE "choose"
  /\ UNCHANGED <<options, datFiles, todo, mask, scanned, found>>

DetermineBitmask ==
  /\ phase = "choose"
  /\ mask' = ScanningBitmask
  /\ phase' = "scan"
  /\ UNCHANGED <<options, datFiles, todo, dats, scanned, found>>

\* The files are read by the semaphore's threads, in any order.
ScanFile(f) ==
  /\ phase = "scan" /\ f \in todo
  /\ todo' = todo \ {f}
  /\ scanned' = scanned \cup {[file |-> f, sums |-> Constrained(f, FromCache(f, KindsAsked(f)))]}
  /\ UNCHANGED <<options, datFiles, phase, dats, mask, found>>

\* DATGameInferrer.infer(), the files in any order the index has them.
Infer ==
  /\ phase = "scan" /\ todo = {} /\ dats = {}
  /\ \E files \in SetToSeqs(scanned) : dats' = {{InferredRom(s, files) : s \in scanned}}
  /\ phase' = "match"
  /\ UNCHANGED <<options, datFiles, todo, mask, scanned, found>>

NothingToInfer ==
  /\ phase = "scan" /\ todo = {} /\ dats # {}
  /\ phase' = "match"
  /\ UNCHANGED <<options, datFiles, todo, dats, mask, scanned, found>>

Match ==
  /\ phase = "match"
  /\ found' = {m \in (UNION {Wanted(dat) : dat \in dats}) \X scanned : Matches(m[1], m[2])}
  /\ phase' = "done"
  /\ UNCHANGED <<options, datFiles, todo, dats, mask, scanned>>

Next ==
  \/ Parse \/ ScanDats \/ DetermineBitmask
  \/ \E f \in todo : ScanFile(f)
  \/ Infer \/ NothingToInfer \/ Match

Spec == Init /\ [][Next]_vars

(***************************************************************************)
(* Properties.                                                             *)
(***************************************************************************)
Done == phase = "done"

\* With a minimum above CRC32 no file is taken for another one with the same
\* CRC32, not even when an archive's table or an earlier run in the cache
\* says so, unless patches need the CRC32s (Igir.determineScanningBitmask(),
\* Scanner.getFilesFromPaths()).
MatchIsTrue ==
  Done /\ options.min > CRC32 /\ ~ options.patches =>
    \A m \in found : m[1].content = m[2].file.content

\* The kinds that a format can tell, of its own or by reading the file.
CanTell(f) ==
  IF f.format \in {"chdraw", "nkit"} THEN DOMAIN f.table
  ELSE IF ~ (IsArchive(f) /\ options.quick) THEN Kinds
  ELSE IF f.format \in {"cso", "tar", "rvz"} THEN {} ELSE DOMAIN f.table

True(sums, content) == \A k \in DOMAIN sums : sums[k] = SumOf(k, content)

\* A ROM whose dump is among the files is found, whatever holds it: its least
\* checksum is calculated for it when the limits allow it, the minimum is
\* always, and quick a table's checksum does.
UsableIsFound ==
  Done => \A rom \in UNION {Wanted(dat) : dat \in dats}, s \in scanned :
    LET calculated == (Least(Sought(rom)) \cap Limits) \cup (Sought(rom) \cap {options.min})
        usable     == IF options.quick /\ IsArchive(s.file) THEN Sought(rom) ELSE calculated
    IN  /\ rom.content = s.file.content
        /\ True(rom.sums, rom.content) /\ True(s.file.table, rom.content)
        /\ usable \cap CanTell(s.file) # {}
        => <<rom, s>> \in found

\* Whether the CRC32 known together with another checksum is the bytes': not
\* if the table is wrong and an earlier run only calculated others beside it.
Trusted(f) == True(f.table, f.content) \/ \A kinds \in f.earlier \ {{}} : CRC32 \in kinds

\* Patches are looked up by the CRC32 of the file a ROM is found in: it is
\* known, and is that of the file's bytes, whatever the limits and even if
\* the archive's table is wrong, unless the cache has it from a table
\* (Igir.determineScanningBitmask(), CandidatePatchGenerator).
PatchesFindTheirFiles ==
  Done /\ options.patches /\ ~ options.quick =>
    \A m \in found :
      /\ m[1].content = m[2].file.content /\ True(m[1].sums, m[1].content)
      /\ CRC32 \in CanTell(m[2].file) /\ Trusted(m[2].file)
      => CRC32 \in DOMAIN m[2].sums /\ m[2].sums[CRC32] = CrcOf[m[2].file.content]

\* A DAT made from files gives each ROM the checksums of its own bytes, all
\* that the limits ask for and no other, although files that share a CRC32
\* are taken together; a copy whose CRC32 the cache has from a wrong table
\* spoils it (DATGameInferrer.enrichLikeFiles(), dir2dat).
InferredAsAsked ==
  Done /\ ~ options.quick /\ ~ options.patches =>
    \A rom \in {r \in UNION dats : "source" \in DOMAIN r} :
      LET f == rom.source.file
      IN  /\ Limits \subseteq CanTell(f) /\ True(f.table, f.content)
          /\ \A s \in scanned : s.file.content = f.content => Trusted(s.file)
          => rom.sums = Calculated(f.content, Limits)
=============================================================================
