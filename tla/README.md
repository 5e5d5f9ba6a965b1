# Igir, specified in TLA+

Igir is a ROM collection manager. It scans input files, matches them against DATs
(lists of games and their ROMs), writes the matches to an output directory by copying,
moving, extracting, zipping or linking, and cleans up afterwards. This directory holds
TLA+ models of Igir from the scan to the report: the concurrent parts, in which order and
failure decide whether ROMs survive, and the rules, large case analyses that decide what is
written where and what is deleted. TLC configurations check the models on small instances,
and proofs for the TLA+ proof system (TLAPS) show the results that the rest relies on.

Paths below are relative to the repository, e.g. `src/src/igir.ts` is `src/igir.ts` of the
Igir package.

## 1. Inventory

Igir is one Node.js process. JavaScript runs one continuation at a time, so the unit of
atomicity is the stretch of code between two `await`s; everything that is asynchronous
interleaves at those points. Much of it is: DATs are processed several at a time, each of
them generates and writes many candidates at a time, each candidate writes many files at a
time, and all of them share two semaphores, three keyed mutexes and one cache file.

| component | source | state | operations | who uses it |
|---|---|---|---|---|
| Keyed mutex | `src/src/async/keyedMutex.ts` | a map of mutexes with use counts, an LRU order, a global mutex | `runExclusiveForKeys`, `runExclusiveForKey`, `runExclusiveGlobally` | Cache, CandidateWriterSemaphore, FileMoveMutex |
| Mappable semaphore | `src/src/async/mappableSemaphore.ts` | free slots, waiters, first error of each call | `map` | scanners (reader semaphore), CandidateWriter (writer semaphore) |
| Cache file | `src/src/cache/cache.ts` | values in memory, `hasChanged`, a flush timer, a save mutex, the file | `set`, `delete`, `saveWithTimeout`, `save`, `load`, `beforeExit` hook | FileCache |
| File cache | `src/src/cache/fileCache.ts` | checksums, signatures, headers and paddings of files, each with the file's size and mtime | `getOrCompute...` | FileFactory, ROMHeaderProcessor, ROMTrimProcessor, writer's tests |
| Candidate writer | `src/src/modules/candidates/candidateWriter.ts`, `src/src/async/candidateWriterSemaphore.ts`, `src/src/async/fileMoveMutex.ts` | slots, output locks, input locks, which input was moved where, what to delete | `write` | Igir.main(), once per DAT |
| File operations | `src/src/utils/fsUtil.ts` | the file system | `mv`, `copyFile`, `rm`, `mktemp`, walks | all |
| Graceful fs | `src/src/polyfill/gracefulFs.ts` | a queue of calls to retry and one timer | every patched `fs` call | all |
| Moved ROM deleter | `src/src/modules/cleaners/movedRomDeleter.ts` | none | `delete` | Igir.main(), after all DATs |
| Directory cleaner | `src/src/modules/cleaners/directoryCleaner.ts`, `inputSubdirectoriesDeleter.ts` | none | `clean`, `delete` | Igir.main(), last |
| Checksums | `src/src/igir.ts`, `src/src/modules/scanner.ts`, the archive formats in `src/src/models/files/archives/` | which kinds of checksum to calculate | `determineScanningBitmask`, `getFilesFromPaths`, `findFiles`, `infer` | Igir.main(), first |
| Scanning and indexing | `src/src/modules/roms/`, `src/src/models/indexedFiles.ts` | an index from checksums to files | `scan`, `index`, `getFiles`... | Igir.main(), first |
| DAT processing | `src/src/modules/dats/` | none (each stage makes a new DAT) | combine, infer parents, merge and split, merge discs, filter, prefer | Igir.main(), per DAT |
| Candidate generation | `src/src/modules/candidates/`, `utils/outputFactory.ts` | none (each stage makes new candidates) | `generate`, patch, correct extensions, hash, place, validate, combine | Igir.main(), per DAT |
| TorrentZip writer, zip reader and validator | `src/packages/torrentzip/`, `src/packages/zip/`, `src/src/models/files/archives/zip.ts` | the file under way, its position, the headers of its entries | `TZWriter.addStream`, `finalize`, `ZipReader.entries`, `TZValidator.validate` | candidate writer, scanner |
| Pipeline | `src/src/igir.ts`, `src/index.ts` | which DATs are done | the order of all the above, the reports, and the exits | - |
| Options, console | `src/src/modules/argumentsParser.ts`, `src/src/console/` | - | parsing, progress bars | - |

How they interact: `Igir.main()` scans and indexes; it then processes DATs, several at a
time; for each it generates candidates and calls `CandidateWriter.write()`, which runs one
callback per candidate under the **writer semaphore** (a MappableSemaphore shared by all
DATs); the callback takes the **output paths** of the candidate in a KeyedMutex shared by
all DATs, and every attempt at a file takes its **input paths** in another one, the
FileMoveMutex, which also knows where inputs have been moved to. When every DAT is written,
`MovedROMDeleter` deletes the inputs of what was moved, `DirectoryCleaner` deletes or trashes
what nobody wrote, and `Timer.cancelAll()` lets the event loop drain; the `beforeExit` hook
of the cache then saves it.

What is hard, and what makes each component correct:

* **Keyed mutex.** Mutexes are created on demand and evicted in LRU order, while callers hold
  a reference they took before an await. Correct: one holder per key in spite of it, no
  deadlock among callers of several keys, no unbounded growth, every caller served.
* **Mappable semaphore.** One callback fails while others of the same or of another call are
  running, granted or queued. Correct: slots conserved, no call short of results without a failure
  of another, every call settles.
* **Cache file.** Timers, changes during a save, saves that wait for saves, a cancel, the end
  of `main()`, the exit hook and a crash meet. Correct: no change forgotten, no old cache over
  a new one, everything saved on a clean exit.
* **Candidate writer and what deletes.** Many outputs want one input and one of them moves it;
  a move is a rename, or a removal and a rename, or a copy, a test and a removal; anything may
  fail and be tried again; then inputs are deleted. Correct: an input is found where it is
  said to be, an output reported as written is there and right, no ROM's last copy is lost.
* **File cache.** Files change while they are read, several callers want the same file with
  different checksums, and an older program may have filled the cache. Correct: no answer older
  than its question as far as size and time tell, none that lacks what was asked for.
* **Graceful fs.** Calls that fail for a passing reason are made again, many of them by one timer
  for a whole queue. Correct: nobody is left in the queue, nobody gives up too early or too late.
* **Cleaners.** Three modules delete from trees that may overlap, each from its own idea of what
  is needed; reading and deleting may fail. Correct: nothing written, excluded or still needed
  goes, a backup loses no more than the race for a name can cost, the loops end.
* **DAT processing.** Five modules group the games into families anew, each from what the one
  before has left of names, ids and `cloneof`. Correct: no game and no content of a set gets lost,
  nothing is stored twice, the preferred game is the best.
* **Candidates.** What is written for a ROM is decided five times in a row, for files with headers,
  missing padding and patches, alone or in archives that may be copied as they are. Correct: what
  is written is what the DAT wants, what is there is found, what belongs stays, the report is true.
* **Zip archives.** Offsets, sizes and counts move to zip64 fields at 4 GiB and 65,535 in four kinds
  of header, which must agree with one another, the reader and the validator. Correct: what is
  written is read back, and no failure or crash leaves neither the old archive nor a whole new one,
  as long as the code can help it.
* **Checksums.** Kinds to calculate follow from limits, DATs, patches and formats, and may come from
  tables and from the cache. Correct: nothing is matched by a checksum that is excluded, and
  everything that can be found is.

`PROJECT.json` lists every hazard at its line with the properties that watch it.

## 2. Modules

| module | what it is |
|---|---|
| `LockService` | abstract: what a keyed mutex promises its callers |
| `KeyedMutex` | `keyedMutex.ts`, implements `LockService` |
| `KeyedMutexProofs` | the theorems about `KeyedMutex` |
| `MappableSemaphore` | `mappableSemaphore.ts` |
| `CacheFile` | the half of `cache.ts` that keeps the file on disk, with `timer.ts` and the exits of `index.ts` |
| `CacheFileProofs` | the theorems about `CacheFile` |
| `CandidateWriter` | `candidateWriter.ts`, `candidateWriterSemaphore.ts`, `fileMoveMutex.ts`, `FsUtil.mv()` and `copyFile()`, `movedRomDeleter.ts` |
| `CandidateWriterProofs` | the theorems about `CandidateWriter` |
| `FileCache` | `fileCache.ts` over the lookups of `cache.ts` |
| `FileCacheProofs` | the theorems about `FileCache` |
| `GracefulFs` | `gracefulFs.ts`, with the end of the process |
| `ThrottlingProofs` | the theorems about `MappableSemaphore` and, as an instance `Fs` of it, `GracefulFs` |
| `Cleanup` | `movedRomDeleter.ts`, `inputSubdirectoriesDeleter.ts`, `directoryCleaner.ts`, in the order of `main()` |
| `CleanupProofs` | the theorems about `Cleanup` and, as an instance `Main` of it, `Candidates` |
| `Lists` | arrays and maps in JavaScript's order, used by the four modules below |
| `DatProcessing` | `datCombiner.ts` and the five stages of `processDAT()` |
| `Scanning` | from the disk to the index: `romScanner.ts`, `scanner.ts`, the header and trim processors, `romIndexer.ts`, `indexedFiles.ts` |
| `OutputPaths` | `outputFactory.ts`: where a ROM goes |
| `CandidateGeneration` | `candidateGenerator.ts`: extends the two above |
| `Candidates` | the other stages of candidates, the end of a DAT, the cleaning and the report, as `main()` composes them |
| `ZipFile` | the layout of a zip and `ZipReader` |
| `TorrentZip` | `TZWriter`, `TZValidator` and `Zip.createArchive()` over it |
| `TorrentZipProofs` | the theorems about `TorrentZip` |
| `Checksums` | the choice of checksums, what each format tells, and look-ups by them |
| `ChecksumsProofs` | the theorems about `Checksums` |
| `MC...` | small instances of the above for TLC, with their `.cfg` |

Mutants (operators whose comment begins with *Mutant*) are wrong variants of an operator of
the model, as a plausible bug in the code would make it; `PROJECT.json` names, for every
property, one that breaks it. They are used by no specification.

### 2.1 KeyedMutex

One action per stretch of code between two awaits. `RequestKnown` is the fast path of
`acquireMultiple()` (all mutexes exist: LRU touch, `pendingLocks`, first `acquire()`, all
synchronous); `RequestUnknown`, `CreateEntries`, `LeaveGlobal`, `StartAcquiring` are the slow
path, under `keyMutexesMutex`, with its evictions; `Acquired` is the loop body after each
`acquire()`; `ReleaseMultiple` is the `finally`. A mutex **object** is a key and a generation,
because after an eviction a second mutex for the same key may come to exist: if somebody still
used the first, both would be held. `releaseMultiple()` looks the mutex up again in the map, as
the code does, so releasing the wrong generation is a behaviour the model has. The LRU is the
pairs of an order rather than a sequence. The `catch` of `acquireMultiple()` is left out: it
needs a key mutex to be cancelled, and nothing cancels one. The async-mutex package is modelled
from its use: FIFO, handing over at release, the waiter continuing in a later step.

`Rank` is where `localeCompare()` puts a key. Two keys may have one rank: strings that are
different but canonically equivalent.

### 2.2 MappableSemaphore

A task is one value of one `map()` call; several calls share the semaphore, as several DATs do.
`Map` is the synchronous stretch in which all values ask for a slot, `Start` the continuation
of a granted one with the check of `firstError`, `Fail` the `catch` with its `cancel()`, which
rejects the waiters **of every call**, `Release` the `finally` of `runExclusive()`, `Finish`
what follows `allSettled()`.

### 2.3 CacheFile

The content of the cache is a version, the number of changes made to it. `Change` is a set or a
delete of something new and its `saveWithTimeout()`. A `Timer` whose callback runs is the
process that saves, the exit hook is one more. `BeginSave` is the synchronous beginning of
`save()`; `Prepare`, `WriteTemp`, `Rename`, `RenameFails`, `Discard` are its I/O (with
`FsUtil.mv()`, which removes the target and renames again after a failure); `CancelWaiters` is
`saveMutex.cancel()`; `Leave` hands the mutex on; `FinishTimer` is the `finally` of the timer's
callback, which forgets **whatever** timer is remembered at that time. `MainEnds` is
`Timer.cancelAll()`; `Crash` is any end other than `beforeExit`: SIGINT, `process.exit()`, an
unhandled rejection; `Restart` is `load()`.

### 2.4 CandidateWriter

A job is one `writeRawSingle()` (raw or extracted) or one `writeZip()`. A file holds a set of
payloads: that is all the properties can tell apart of its content. `Admit`, `LockOutputs`,
`Finish` are the semaphore and the output locks; `Start`, `Check`, `Verify` what precedes the
retry loop; `Attempt` takes the input locks and looks the input up in `movedFiles`; `Copy` is a
copy, an extraction or a zip through a temporary file; `Move`, `MoveUncovered`, `Cross`,
`RemoveSource` are the steps of `FsUtil.mv()`; `Test` the test of what was copied (what was
renamed is not tested, as in the code); `TryAgain` the end of an attempt. `StartDeleting`
computes what `MovedROMDeleter` deletes, `Delete` deletes one path or fails.

Both keyed mutexes are used here as `KeyedMutex` shows them to be: a call goes on when no
other has any of its keys. That acquisition of several keys is one step is justified by
`NoCircularWait` and `EveryCallIsServed` (it will get them all) and by `MutualExclusion`
(nobody else has them then). The order in which the semaphore admits candidates is left open,
which allows more than the code does. When `ENOSPC` is thrown the phase is `aborting`: nothing
is admitted any more, jobs of the same `Promise.all()` go on although the candidate's locks
are released, and nothing is deleted.

`OutputsApart` is a condition on the jobs that the code does not see to (section 5): only a file
that is where it should be is both input and output, and jobs with one output are of different
candidates and want the same plain file. The instance satisfies it, and the theorems that need it
name it.

### 2.5 FileCache

One file, whose contents are numbered in the order it has them, and a behaviour is about one of
the five kinds of lookup, as their keys never meet. What Igir finds out about a content is a
function of the content (and of what the program knows), so an entry says which content was
read, under which stamp (size and second of modification) and with which checksums. `Begin` is
what precedes the lookup (`stat()`, the keys); `Check` the look without the lock; `Lock` the
acquisition of all keys and the second look; `Read` and `Store` the computation; `Fail` an error
of it. Between any two of them the file may change (`Edit`). `Recompute...` are the
`shouldRecompute` callbacks. `Upgrade` ends the program and starts another one, with the cache
file or with the part of it that `loadFile()` leaves.

A header, signature or padding is looked up by the checksums the file had when it was scanned,
if it has any (`ByChecksum`); `KeySet` is the keys of a request, and `Requests` hold the content the
caller's `File` stands for.

### 2.6 GracefulFs

A call is flying (with the operating system), queued, or backing off. `FailForNow` is the error
path of the callback and promise wrappers, which do the same; `Process` is the queue's timer;
`CallSync` is a whole synchronous call, during which the minutes of the others may end.
`MinuteEnds` is all that is left of time: what the code asks is whether a call's 60 seconds are
over. `Exit` is Node ending when it waits for nothing: an attempt in flight and the timer of a
rename keep it, the unreferenced timer of the queue does not. It may happen or not, as the rest
of the program may have something under way.

### 2.7 Cleanup

A path is the sequence of its names, so that "under" is a prefix; `StartsWith` is the comparison of
texts that the code makes instead. A state of the disk is the files and directories that exist, and
the backup directory apart from them. `DeleteMovedRoms`/`DeleteMoved` are `MovedROMDeleter` with its
rules for duplicates, whole archives and the `.cue` entries of CHDs; `DeleteSubdirectories`,
`WalkDirectory`, `DeleteDirectory`, `WalkParents` are `InputSubdirectoriesDeleter`, one directory's
look and its deletion apart, as they are awaited one by one; `Clean`, `Recycle`, `DeleteLeftovers`,
`BackUp`, `NameInUse`, `NameIsFree`, `MoveToBackup`, `ClearBackupName`, `LeaveInPlace`,
`FindEmptyDirs` are `DirectoryCleaner`. The look for a free name and the move there are two steps,
between which other threads take theirs; `MoveToBackup` is a `rename()` that succeeds and replaces
what is there, `ClearBackupName` the `rm()` of `FsUtil.mv()` after one that fails, `LeaveInPlace`
the warning. `raced` remembers which files found one name free while another had not yet moved
there; no code variable has that, and no guard reads it. `MayFailToRead` is an error of `readdir()`,
which `FsUtil.walk()` answers with no files; a batch given to the trash may fail with any part of it
done. Nothing lies under a file (`TreeAssumption`), and a run moves whole archives or what was
scanned (`RunsAssumption`).

### 2.8 DatProcessing

Each of the seven stages is one action, since none of them awaits anything between reading and
making a DAT. A name is a record of what the code's regular expressions find in it. `Families`
is `DAT.generateGameNamesToParents()` and is asked for at every stage, as in the code, because
each stage makes a new DAT. `MergeThrows` is the `TypeError` of merging a family whose parent
is not in the DAT. `before` remembers what each stage was given; the code has no such variable.

### 2.9 Scanning, OutputPaths, CandidateGeneration, Candidates

A content stands for its bytes and for every checksum of them (what is known by which kind is
`Checksums`). `ScanFiles` is everything up to the index; then each DAT goes through `GenerateDat`,
`CorrectDat` (with the patches), `PlaceDat`, `ValidateDat` (with combining), `CollectOutputs`,
`WriteDat`, `FinishDat`, interleaved with the others. These are the awaited steps of
`processDAT()`; they are pure over the index, so that each is one action. `Abort` is a token
that cannot be replaced, which throws through `main()`. `Clean` and `Report` come when all DATs are
finished. Writing itself is `CandidateWriter`; here it succeeds.

`Scanning` has the files as the four classes of the code know them (`Plain`, `Entry`, `ArchiveFile`,
`ZeroSizeFile`), with what each copy of a file keeps and what it drops, and the order of the index.
`CandidateGeneration` decides which archive is copied whole and which file is used for which ROM;
`OutputPaths` makes the path from tokens, letters and flags.

### 2.10 ZipFile and TorrentZip

A file is a function from positions to parts of a given length; a write replaces what it overlaps,
so that a local header of another length than the placeholder would destroy data or leave a gap. A
header's fields are what the bytes hold: clamped, with the numbers of the zip64 extra field in
order. One action per `write()` of `TZWriter`: the placeholder, the data, the header, the whole
directory, the zip64 record with its locator, the end record. `FsUtil.mv()` is more than one step:
`Move` is a `rename()` that succeeds, the first or the second; `RemoveOutput` is the `rm()` of what
is at the archive's path, after a first one has failed; a second failure is `Fail`, after which
`RemoveTemp`, the `finally` block, removes the new archive too. `previous` remembers what was there
at first; no code variable has that, and no guard reads it. `Sorts` says what a stable sort by
`tzFileNameComparator` comes to. `Fail` may happen at each, `Crash` too, also between the steps of
`mv()`. `Test` reads the archive back as `ZipReader` does, compares contents, and asks
`TZValidator`. DEFLATE and ZSTD are any function from sizes to sizes.

### 2.11 Checksums

A kind of checksum is its rank; two contents may share a CRC32. `Parse` is what `ArgumentsParser`
refuses, `ScanDats` when DATs are required, `DetermineBitmask` the choice of kinds (with the
patches and the DATs' own), `ScanFile` a file, read through the cache of earlier runs: `...Listed`
is one operator per archive format. `Infer` is `DATGameInferrer` with `enrichLikeFiles()`, over
the files in any order, and `Match` is `IndexedFiles.findFiles()`. `Trusted` is about what the cache
does with a table whose CRC32 is wrong: entries that were read for other kinds keep it, and answer
when it is asked for later; `PatchesFindTheirFiles` and `InferredAsAsked` are about the other files.

## 3. Runs

`MC*.tla` define the instances; `PROJECT.json` lists the runs. Distinct states are for two
workers.

| run | instance | checks | result |
|---|---|---|---|
| `keyed_mutex` | 3 callers, 2 keys of different rank, `MaxSize` 1, 3 generations | mutual exclusion, no circular wait, every call served, implements `LockService` | holds, 13 343 states |
| `mappable_semaphore` | 3 calls, 5 values, 2 slots | slots conserved, losses need a failure, every call settles | holds, 13 054 states |
| `cache_file` | 3 timers, 3 changes, 1 restart | no change forgotten, disk only advances, every save returns | holds, 36 484 states |
| `candidate_writer` | 3 candidates of 2 DATs, 5 jobs, 7 paths, 4 option sets, 4 kinds of fault, 1 retry | sources there, outputs exclusive, no ROM lost, writing ends | holds, 146 501 states |
| `file_cache` | 2 calls, 3 contents of 2 stamps, 2 programs, 2 checksums, 5 kinds of lookup | answers current, answers sufficient, fetched once | holds, 300 919 states |
| `graceful_fs` | 2 queued calls, a rename, a read and a synchronous read, 2 attempts | no early giving up, every call answered | holds, 62 464 states |
| `cleanup` | 8 files in 8 directories, overlapping inputs and outputs, 3 writer threads, every mix of the options | protected survive, only what is theirs goes, backups keep, cleaning ends | holds, 424 618 states |
| `dat_processing` | 11 console DATs and an arcade DAT, up to 8 games, all merge modes, filters, preferences | families partition, sets complete, nothing stored twice, the best is kept | holds, 15 528 states |
| `candidates` | seven families of small disks, DATs and options | written is wanted, raw copies are the set, available is found, letters hold, wanted are kept, status is true | holds, 41 982 states |
| `candidates_disks` | a game of a ROM and a CHD that are where they belong, not among the inputs | `MatchedAreKept` | violated |
| `torrent_zip` | up to 3 entries, 4 GiB as 150 bytes, 65,535 entries as 3, both formats | output is whole, written is valid, accepted is sound | holds, 67 276 states |
| `checksums` | all pairs of limits, 5 kinds of DAT, 15 files of every format two at a time | matches are true, usable is found, patches find their files, inferred as asked | holds, 201 300 states |

### Why the bounds are enough

* `keyed_mutex`: with a limit of one mutex and two keys every creation of the second key must
  evict or outgrow; three callers are a holder, a waiter and one who makes the eviction happen;
  two generations are in use at most at a time per key, three leave one spare. Three keys were
  checked by hand as well (191 335 states). The safety properties are proved for all sizes.
* `mappable_semaphore`: two slots let one callback fail while another runs and a third is
  granted; three calls are one that fails, one that is disturbed, and one that comes later; one
  of them has fewer values than there are slots, so that the queue mixes calls.
* `cache_file`: three timers are one whose callback runs, one that was forgotten while armed
  (the `finally` of another clobbers it) and one that is remembered; three changes are one
  before, one during and one after a save; one restart reads what was left.
* `candidate_writer`: two candidates that share an output path, two that share an input, an
  archive with an input used by one candidate only, a candidate of two ROMs, a file that is
  in place, a wrong file at an output; two slots; two attempts. Each fault may happen at every
  step at which it can. Option sets: move with and without tests and overwriting, and copy.
  A larger instance (5 candidates, 6 jobs, 7 option sets) was checked by hand for the
  invariants: 8 159 868 states.

* `file_cache`: one call fills the cache while the other looks; the file changes once without
  changing its stamp and once with; the first content is recognised by the newer program only,
  the second by neither, the third by both, and programs come in any order; requests want no,
  one or both checksums, so that each entry may be less than, equal to or more than what is
  asked for. The two calls are interchangeable, and so symmetric.
* `graceful_fs`: two calls meet in the queue, one of each other kind; two attempts are one that
  is tried again and one that is the last.

* `cleanup`: one input whose name begins the other's, an output inside an input, a zip with two
  entries and a track sheet, a duplicate of a moved file, three stray files of one name for the
  backup, which has that name already, junk, a stray file that may be excluded. One directory may
  fail to be read at each walk, one path cannot be deleted, every move to the backup may fail once or
  twice. `WriterThreads` is 3, Igir's default: all three stray files may find one name free together,
  or two of them while the third comes late.
* `dat_processing`: every relation the code asks for occurs: families given by name, by id, missing,
  orphaned; a BIOS, a device, clones with ROMs of their parent's under their own name and others
  under the parent's, a game without its `romof`; two discs in two regions. Options are varied one
  or a few at a time, as the stages look at different ones.
* `candidates`: each family varies what one part of the rules decides on: archives against names,
  headers with padding and patches, output tokens, letters with limits, two DATs with the output
  directory scanned, discs. Any two files of ten make the disks of the first.
* `torrent_zip`: 150 is a little more than the two headers of an entry, so that sizes and offsets
  fall below the limit, on it and beyond it, alone and together; data before the last entry of
  three pushes its offset over; three entries fill the count.
* `checksums`: two contents with one CRC32, in two files, can be mistaken for each other; a cache has
  what an earlier run with other limits left; two zips have a table that is wrong, one with such a cache.

Deadlock is checked in the runs of the concurrent models that end: the end is an explicit
`Terminating` step, so that a state in which nothing can happen is an error unless everything is
over. In `file_cache` nothing ends: a call that is answered may ask again. The other models
(`cleanup` and those after it) are of a program that ends, or that throws: there
`CHECK_DEADLOCK` is off.

### Fairness, and why the code justifies it

Weak fairness of each continuation (`Continue(c)`, `StepOf(t)`, `Save(s)`, `Progress`, and
`Completes(c)`, `BackoffEnds(c)`, `Process`, `MinuteEnds(c)` while the process lives): the
event loop runs a promise's continuation once it is settled, I/O completes or fails, timers
fire and time passes. A
caller that asks for something need never ask again, so requests, changes, timers and the end
of `main()` are not fair. No strong fairness is assumed: the queues of the mutexes are FIFO and
are in the models, except in `CandidateWriter`, where fairness is of the system as a whole and
the liveness property is that the whole comes to an end. `Cleanup` is one sequence of awaits,
with some of them side by side, and its fairness too is of the whole.

### Disagreements

Where the code does something else than its docs, comments or names say. One is checked as a run:

* `candidates_disks` (`src/src/igir.ts:204`, the comment at line 201): a game's CHD that matched and
  is in its right place in the output directory is cleaned, when the game has a ROM there too that
  is not in a valid TorrentZip. The archive object that replaces the CHD's entry counts as an input
  again (`candidateGenerator.ts:877`), so that its path is not excluded, while the ROM beside it
  keeps the game from being written. `WantedAreKept` is what holds.

The others are behaviours of the models that the properties are worded around, found while
modelling; no run states what the docs say.

* Keyed mutex: `localeCompare()` is no total order on strings (canonically equivalent ones compare
  equal), so the sort of `keyedMutex.ts:57` does not rule out a circular wait as the comment at line
  52 says; with distinct ranks, as in the run, it does. `runExclusiveGlobally()` (line 34) keeps
  nobody out who has his mutexes already.
* Mappable semaphore: `cancel()` (`mappableSemaphore.ts:45`) reaches the waiters of other `map()`
  calls, which return without some values (comment at line 22). This follows only a failure
  (`LossNeedsFailure`), which ends the program.
* Cache file: a save that is cancelled because another has just saved (`cache.ts:363`) may be for a
  change that the other did not take. This only delays it (`NoChangeForgotten`).
* Candidate writer: one written ROM queues the inputs of its whole candidate for deletion
  (`candidateWriter.ts:859`), a skipped sibling's too, against `src/docs/commands.md:25`. A move across
  drives whose test fails is tried again, found to have been moved and not tested
  (`candidateWriter.ts:692`, `commands.md:28`). `NoRomLost` is what holds.
* Graceful fs: the queue's timer is `unref()`ed (`gracefulFs.ts:133`), so that Node may end with
  calls in the queue before their minute is over (line 74).
* Cleaners: the free name of a backup is looked for before an `await` and used after it
  (`directoryCleaner.ts:165`, `src/docs/output/cleaning.md:117`), so that with the default of three
  threads (`defaults.ts:31`) files of one name may choose one backup name, and all but one of them
  are lost. `BackupKeeps` is what holds, for any number of threads: nothing else is lost, one of
  them survives, and what was in the backup directory before stays. With `--clean-dry-run` the loop
  at line 87 never ends if there is an empty directory. A directory that cannot be read counts as
  empty and is deleted (`TakenForEmpty`), and so does one with nothing in it but names that
  `isNotJunk()` drops, even if Igir wrote them (`ProtectedSurvive` is about the other names).
  `inputSubdirectoriesDeleter.ts:93` compares paths as texts, and so may go up from `in2/x` to `in2`
  itself when `in` is an input as well.
* DAT processing: `--merge-roms merged` throws a `TypeError` for a family whose parent is not in the
  DAT (`MergeThrows`). Discs that were merged become families of their own
  (`datDiscMerger.ts:87`, `src/docs/dats/introduction.md:40`), and their CHDs are dropped.
  `datDiscMerger.ts:75` moves ROMs to subfolders only when two names collide, not one.
* Candidates: the condition on headers at `candidateGenerator.ts:722` is inverted; an archive
  with a headered ROM is copied as it is where the DAT wants a headerless one. The comment at line
  495 says that CHDs are not preferred; they are. `zip` copies a TorrentZip with
  excess entries as it is (`commands.md:79`). With `--zip-dat-name` every game is reported MISSING
  and every input UNUSED (`src/docs/output/reporting.md:9`). The extension corrector
  (`candidateExtensionCorrector.ts:114`) drops the second of two ROMs with one content. A scanned
  file of the output directory may be chosen as an input (`cleaning.md`). A token that
  cannot be replaced throws out of `main()` (`Abort`). A DAT that is refused still has its
  old files cleaned when another one writes to its directory.
* Checksums: `--input-checksum-min MD5` does not find a ROM with CRC32 and SHA1 only, although SHA1
  is allowed. With `--patch` files are matched by CRC32 below the minimum
  (`src/docs/roms/matching.md`, "but never lower"). A file found by a colliding CRC32 is used although
  the SHA1s differ. The docs say that `fixdat` requires `--dat`, nobody checks it. A RAR's CRC32 that
  begins with a zero is compared without it (`rar.ts:100`, line 121): the warning that the archive is
  invalid is wrong. `enrichLikeFiles()` is to give files alike all that is known of them together
(`datGameInferrer.ts:160`); but it goes kind by kind, and each kind replaces all four checksums, with
undefined where the files alike by that kind know none (line 188), so that a zip known by CRC32 and
MD5 and a copy known by CRC32 and SHA1 keep just what each had. `InferredAsAsked` is what holds.
* TorrentZip: a file declared just below 4 GiB and compressed to more, or a file that a patch or a
  padding makes larger than that, gets a local header without a zip64 field for a size that fills the
  short one; the program's own validator then says INVALID (`src/docs/misc/torrentzip.md:136`).
  `SizesWereRight` is the condition under which `WrittenIsValid` holds; `AcceptedIsSound` holds
  without it. The comment at `zip.ts:203` says that the temporary file is there because an input may be
  overwritten; but when `rename()` fails, `mv()` removes what it was to replace
  (`fsUtil.ts:423`), and when it fails again the `finally` block removes the temporary file, so that
  both are gone; a crash in between leaves the new archive under its temporary name.
  `OutputIsWhole` says that these are the only ways to have neither at the archive's path.

## 4. Proofs

Every theorem holds for all values of the constants that satisfy the named assumptions of the module
it is about. Four of them (`NoCircularWaitHolds`, `SourcesAreThere`, `NoRomIsLost`, `AcceptedSound`)
have a further hypothesis, which stands in the theorem (`ASSUME ... PROVE`) and is explained below;
the instances of the runs satisfy it. Nothing else is assumed. Each proof has the same plan: an
invariant `IInv` made of named parts, one lemma per action that says the action preserves it,
`NextInv`, which puts them together, and the theorems, which follow from `IInv`. The properties
themselves are seldom inductive; what `IInv` adds to them is said below.

### KeyedMutexProofs

`KeyedMutexProofs` proves, for any finite set of callers and keys, any set of generations, any
limits and any rank (also one with ties), from the named assumptions of `KeyedMutex` alone:

| theorem | statement |
|---|---|
| `TypeCorrect` | `Spec => []TypeOK`; `pendingLocks` never goes below zero |
| `EntriesOutliveUse` | `Spec => []EntryOutlivesUse`: the mutex a caller took is still the map's until it released it |
| `PendingLocksAreExact` | `Spec => []PendingLocksExact` |
| `MutualExclusionHolds` | `Spec => []MutualExclusion` |
| `NoCircularWaitHolds` | `Spec => []NoCircularWait`, if no two keys have one rank |
| `Implementation` | `Spec => ImplementsLockService`: the refinement of `LockService` |

None of the safety properties is inductive. `IInv` is: with the type invariant it says what is
known of a caller from the await at which it is suspended (`CallShape`), that it remembers
entries only for keys of its call (`EntriesAreUsed`, which is why `NewGeneration` finds a fresh
identity), that an acquired key's mutex is held by its caller (`HeldIsHolder`), that the count
of a key is the number of callers that still owe a decrement (`PendingLocksExact`), and that
the mutex of any key held or owed is still the map's (`EntryOutlivesUse`). The heart of the
proof is `UsedIsNotEvicted`: a key that is held has a holder, one that is owed has a positive
count, so `KeysToEvict` spares both. Mutual exclusion then follows: two callers that hold one
key hold the mutex the map has for it, and a mutex has one holder. One lemma per action shows
that the action preserves `IInv`; `WalkInv` and `BookkeepingInv` serve the actions that only move
a caller along.

`NoCircularWait` needs `WInv` besides, which keeps the mutexes and the callers in step: who holds a
mutex has acquired its key or waits for just that `acquire()` to return (`HolderWants`), and who is
queued on one waits for it, once, and does not hold it (`QueueWants`). A caller that waits for a
key then has only keys that rank lower, so that along a chain of waiting callers the ranks rise,
and a finite group of them has a last one (from the well-foundedness of finite sets under
inclusion, which serves where an induction would). With a tie of ranks the hypothesis fails, and so
may the code: two callers may sort the same two keys differently (see Disagreements).

### ThrottlingProofs

Of `MappableSemaphore`, for any finite set of values, any calls, and any number of slots:

| theorem | statement |
|---|---|
| `TypeCorrect` | `Spec => []TypeOK` |
| `SlotsAreConserved` | `Spec => []SlotsConserved` |
| `TheQueueIsFair` | `Spec => []QueueIsFair` |
| `LossesHaveAReason` | `Spec => []LossNeedsFailure` |

`SlotsConserved` is inductive only with `QueueIsFair`: `Release` keeps the sum because the head of
the queue is a task without a slot, and `Map` because the values it queues leave no slot free.
The counting is in `SeqsOfSet` and `FirstOnes`: the first `k` values of a call are `k` tasks, and
they had no slots before because a call is mapped once (`ProgressOK`). `ErrorsOK` says that a
remembered error belongs to a callback of its own call that did fail, and that nobody is
rejected without an error that some call remembers; with `ProgressOK`, by which the tasks of a
call that is over are settled, `LossNeedsFailure` follows.

Of `GracefulFs`, for any calls and any limit of attempts (`LimitsGiven` is that module's
`LimitsAssumption`, which an instance does not bring along):

| theorem | statement |
|---|---|
| `RetriesTypeCorrect` | `Fs!Spec => []Fs!TypeOK`: among others, the queue holds exactly the calls that wait in it, each once |
| `QueueIsAlwaysServed` | `Fs!Spec => []Fs!QueueIsServed` |
| `NobodyGivesUpEarly` | `Fs!Spec => []Fs!NoEarlyGivingUp` |
| `LimitsAreKept` | `Fs!Spec => []Fs!LimitIsKept` |

Here the properties together are inductive: a call with a limit counts no further because it has
not reached it, a timer that fires finds an entry, and that entry is a call that waits, once.
The work is in the queue: what `Append` and `Tail` do to the set of its entries and to their
being different.

### CacheFileProofs

For any set of timers and any bounds on changes and restarts:

| theorem | statement |
|---|---|
| `TypeCorrect` | `Spec => []TypeOK` |
| `ChangesAreNotForgotten` | `Spec => []NoChangeForgotten` |
| `CleanExitsSaveAll` | `Spec => []CleanExitSavesAll` |
| `TheDiskOnlyAdvances` | `Spec => DiskOnlyAdvances` |

Everything rests on `MutexOK`: who is past `BeginSave` holds the save mutex, so there is one such
saver. `FlagOK` says of it that its snapshot lies between the file and the memory, which is
`DiskOnlyAdvances` when it renames, and that while the flag is down it is all there is, so that
no change is forgotten between the lowering of the flag and the rename. `ExitOK` follows the exit:
after `main()` no timer is armed, so the hook's save is the only one; its snapshot is all there is,
and when it has returned the file has it or the attempt has failed.

### CandidateWriterProofs

For any candidates, jobs, paths, payloads and options, any number of slots and retries:

| theorem | statement |
|---|---|
| `TypeCorrect` | `Spec => []TypeOK` |
| `OutputsAreExclusive` | `Spec => []OutputsExclusive` |
| `SourcesAreThere` | `Spec => SourceIsThere`, if `OutputsApart` and `"crosscorrupt" \notin Faults` |
| `NoRomIsLost` | `Spec => []NoRomLost`, under the same conditions |

The invariant is built in four layers. `WInv` says who may be at work: a job in progress belongs
to a candidate that writes, and no two of those have an output in common (`CandidatesOK`).
`MoveInv` follows the moves: what the FileMoveMutex remembers is the work of a job that moves that
input to its output (`MovedOK`), how far a job is tells whether its input has been moved
(`StepsOK`), and one job has an input at a time (`LocksApart`). `SInv` says where the payloads
are: what was scanned is where the mutex says it is (`SourcesOK`), also between the removal of a
source and the end of its move, as the copy across drives was whole (`CrossedOK`). `IInv` adds what
`MovedROMDeleter` relies on: a candidate is queued for deletion only when something of it is written,
what was reported written or kept is there and right unless nobody tested it, and what is doomed has
all its payloads elsewhere.

The two hypotheses are what the code leaves open. Without `OutputsApart` an output may overwrite an
input that another job still needs (`candidateWriter.ts:731`, with `--overwrite`); and a copy across
drives that comes out wrong is not tested on the second attempt (line 692, see Disagreements).

### FileCacheProofs

For any calls, contents, programs and checksums, any stamps that never go back, and all five kinds
of lookup:

| theorem | statement |
|---|---|
| `TypeCorrect` | `Spec => []TypeOK` |
| `AnswersAreCurrent` | `Spec => []AnswerIsCurrent` |
| `AnswersSuffice` | `Spec => []AnswerSuffices` |
| `FetchesOnce` | `Spec => FetchedOnce` |

`CachedOK` says that an entry was read no earlier than its stamp tells (the stamp is taken first, so
that a change in between leaves an entry that is newer than it looks, never older); `CallOK`, that
a call's stamp is the one the file had when it began; `FetchesApart`, that calls with a key in
common do not fetch at the same time. `AnsweredOK` is what `FetchedOnce` rests on: a call that was
answered would be answered again without fetching, until its entries are replaced, and by checksums
whatever replaces them, as the first key in order decides.

### CleanupProofs

For any tree, any options, whatever cannot be read or deleted:

| theorem | statement |
|---|---|
| `TypeCorrect` | `Spec => []TypeOK` |
| `NothingElseGoes` | `Spec => []OnlyTheirOwn` |
| `ProtectedOnesSurvive` | `Spec => []ProtectedSurvive` |
| `BackupsKeep` | `Spec => []BackupKeeps`, for any number of threads |

`GoneOK` names the reason for which each missing file may be missing. It is inductive with `FoundOK`
and `BackupOK`, which are about the lists that one step makes and a later one deletes from: what
the walk found empty has no files when it is removed, except where the walk could not look; what is
handed to the trash lies in an output directory, was not written and is not excluded. For backups
`TargetsOK` adds that a name that was found free is free, or has the file of another thread that found it
free at the same time; `RacedOK`, that such files keep to that name and are in the backup under no
other; `KeptOK`, that what is cleaned is in the backup or has
been outlived by one of those. The step from one thread to the next is in `KeptStep`: what
replaces or removes a file of the backup is one of its rivals, and is there itself afterwards.

`ProtectedSurvive` takes what is written and excluded as given. That `main()` hands the cleaning what it
should is a theorem about `Candidates`, for any number of DATs side by side, any disk and options, and
whatever the candidates are:

| theorem | statement |
|---|---|
| `MatchedOnesAreKept` | `Main!Spec => []WantedAreKept` |

`KnownOK` says what each DAT has handed over by the stage it is in, `CleanedOK` that the cleaning comes
when all are finished, after which nothing changes what it looked at.

### TorrentZipProofs

| theorem | statement |
|---|---|
| `DirectoryNumbersAreRead` | for all sizes and offsets, and any limit in place of `0xFFFFFFFF`: what `CentralFileHeader` writes, clamped and in the extra field, is what `ZipReader` reads |
| `TypeCorrect` | `Spec => []TypeOK` |
| `OutputWhole` | `Spec => []OutputIsWhole` |
| `WrittenValid` | `Spec => []WrittenIsValid` |
| `AcceptedSound` | `Spec => []AcceptedIsSound`, if only empty files are declared empty |

They hold for any number of entries, any names, lengths, sizes and compression, and any limits in
place of `0xFFFFFFFF` and `0xFFFF`.

The extra field holds a number for each field that is full, in a fixed order, and the reader counts
the full fields before the one it wants. `ClampIsFull` says that a field is full exactly when its
number is in the extra field (`>=` in the writer meets `=` in the reader), `ListOfThree` what lies
where in three lists put together, and `NumbersAreFound` goes through the eight cases.

The invariant follows the file write by write. `KeptOK` says that the headers that are kept follow
one another without a gap and are those of the entries; `LayoutOK` that each lies where it says
with its data behind it, and that nothing else lies beyond the position but the entry under way. It
is preserved because the header that replaces the placeholder is as long as it (`HeaderLength`: the
length depends on the declared size and the position only, not on the sizes that were counted), so
that its write touches no data. `WholeTo` says what a finished file is: entries, directory, zip64
records if a field is full, end record, and no other signature of one behind it. `Lost` is the state in
which what was at the archive's path has been removed and the archive is not there: `LayoutOK`
says that the temporary file is whole then, until it is removed (`AfterLast`: no later step touches
what it is made of), and `OutputWhole` follows in three cases. From there on
the reader is followed: `RecordIsFound` (the window that begins a byte early still has the record),
`RecordIsRead` (the zip64 record is there when a field is full), `HeadersAreFound`,
`ExtractsToContent`. Positions are sums over the entries before; as induction over the entries
cannot be stated as such, those lemmas take the smallest index at which they would be wrong
(`Smallest`, from the well-foundedness of `<`).

`AcceptedSound` rests on `ValidIsRead`: a header before the data loses a size only when it is not a
zip64 one and a size is too big, and then the validator sees a clamped field without a number. Its
hypothesis `EmptyAsDeclared` is there because `addStream()` stores what is declared empty as it is
and names the method in the header by the size that was counted: an RVZSTD entry that was declared
empty and is not is stored, and labelled as zstd, which the validator does not look at. For
`WrittenValid` the hypothesis of the property, `SizesWereRight`, implies it. That
`Compressions` yields no empty result is assumed (`InputsAssumption`): DEFLATE and zstd have headers.

### ChecksumsProofs

For any options, DATs and files, whatever the tables of archives say and earlier runs left:

| theorem | statement |
|---|---|
| `Invariance` | `Spec => []IInv` |
| `MatchesAreTrue` | `Spec => []MatchIsTrue` |
| `UsableOnesAreFound` | `Spec => []UsableIsFound` |
| `PatchesFindThem` | `Spec => []PatchesFindTheirFiles` |
| `InferredOnesAreAsAsked` | `Spec => []InferredAsAsked` |

None of the properties says anything before the end. What is known of a file when it has been read
is `Answer`, for each of the eleven formats a case of `ReadAnswers`; what is left of that after the
cache and the constraints is `Told` (`ConstrainedIsTold`), the part of `IInv` on files. `MaskInv` is
the other part: the mask has the minimum, and within the limits the least checksum of every wanted
ROM (`LeastIsChosen`), or all of them when DATs are made from files. `MatchIsTrue` follows from the
mask having no CRC32: whatever is known then is of the bytes, also of an inferred ROM
(`EnrichedOwn`). For `InferredAsAsked` the kind that counts is the greatest within the limits: the
files that share it have one content, so that what they know together is of the bytes, whatever
CRC32s mixed before (`EnrichedAsAsked`).

### Proved, and in no run

Fifteen of the theorems are about invariants that no run lists, as they are shown for every instance
at once: `TypeOK` of eight modules and `IInv` of `ChecksumsProofs`, `EntryOutlivesUse` and
`PendingLocksExact`, `QueueIsFair`, `CleanExitSavesAll`, `QueueIsServed` and `LimitIsKept`.

### Only model-checked

Liveness (out of the prover's reach), everything about `DatProcessing`, and what `Candidates` says of
the contents of candidates: `WrittenIsWanted`, `RawCopiesAreTheSet`, `AvailableIsFound`, `LettersHold`,
`StatusIsTrue`. They are about what folds over sequences compute, with operators as parameters
(`Lists`): no theorem about such an operator can be cited, and what a fold computes needs induction
over the sequence.

## 5. Not modelled

* Writer: links, zero-size files, the read-only `test` command, the removal of duplicate jobs,
  whole archives moved as they are, the warnings about outputs written twice, outputs of
  different content at one path from conflicting DATs under `--overwrite`, an output directory
  that is the input directory other than for files in place.
* `cache.ts`: a backing file that does not parse.
* `fileCache.ts`: empty files, which are answered at once; reads that see half of a change; how a
  header or a checksum is found.
* `gracefulFs.ts`: how long a delay is. (The comments speak of exponential backoff; the queue's
  delay is `retryCount * 1.2` ms, cut to 10..100, which is linear.)
* Cleaners: links, and the text of paths other than for `StartsWith`. A failing `mkdir()` of the
  backup directory (`directoryCleaner.ts:174`), which skips that file's move, drops those that wait
  for a thread, and ends the cleaning. A backup directory on another drive: the move is then a copy
  and a removal, one step here, and a copy that fails may leave part of a file in the backup.
* DAT processing: how names are parsed, DATs whose `romof` or `cloneof` form a circle, different games
  of one name. The arcade DAT is run with its own families only, not with inferred ones.
* Candidates: runs without a DAT (`Checksums` has how ROMs are inferred), symlinks, and
  `candidateMergeSplitValidator.ts`, which only warns. An error of `FsUtil.size()` when an archive
  is to be copied as it is (`candidateGenerator.ts:884`). That an archive is named after the game is
  `includes()` in the code (line 504) and equality here.
* Zip: encrypted entries, data descriptors, extra data records, timestamps, zips of other programs;
  a `close()` or a removal of the temporary file that fails. In the instance only empty files are
  declared empty (see section 4 on `AcceptedSound`).
* Checksums: the names of inferred games, CHDs as `.cue`/`.bin` or `.gdi`, and headers and paddings,
  which `Scanning` has. `getFiles()` keeps one of files that print alike (`indexedFiles.ts:210`),
  and so one of the two entries of a CHD, with and without its metadata; `Infer` takes both.
* Command line, console, update check, DAT file parsing, the other archive formats, patch
  formats: parsing and output, without interaction between parts. Of `argumentsParser.ts` only
  the checks on checksums are modelled; options are fields of the models' option records.

## 6. Plan

What could be added: links and the `test` command in `CandidateWriter`; runs without a DAT in
`Candidates`; proofs about `DatProcessing` and the contents of candidates, for which the operators of
`Lists` would have to become functions over indices.
