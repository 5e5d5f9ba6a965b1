------------------------------ MODULE Cleanup ------------------------------
(***************************************************************************)
(* What main() does to the disk when every DAT is written, in this order:  *)
(* it deletes the input files that were moved (MovedROMDeleter), then the  *)
(* input directories this left empty (InputSubdirectoriesDeleter), and at  *)
(* last everything in the output directories that it does not know, with   *)
(* the directories that leaves empty (DirectoryCleaner).                   *)
(*                                                                         *)
(* A path is the sequence of its names.  The disk is a set of files and a  *)
(* set of directories; the backup directory, which lies apart, is a        *)
(* function from the names in it to the file each holds.  Reading a        *)
(* directory may fail, and so may deleting a path, for ever.               *)
(***************************************************************************)
EXTENDS Naturals, Sequences, FiniteSets, SequencesExt

CONSTANTS
  Files,          \* the files that exist before the run
  Directories,    \* the directories that exist before the run
  Junk,           \* the files with names that isNotJunk() drops
  NamePrefixes,   \* the pairs of names of which the first begins the second
  InputPaths,     \* --input: directories
  OutputDirs,     \* the output directories of all candidates
  Index,          \* the scanned input files: path, kind, archive, sum, cue
  Runs,        \* the settings and results of a run: see Init
  OldBackups,     \* the names that the backup directory has already
  WriterThreads, BatchSize,
  ReadsFail       \* may readdir() fail?

None == <<"none">>

Under(p, d) == IsPrefix(d, p)

\* Nothing lies under a file, and no path is None.
ASSUME TreeAssumption ==
  /\ Files \cap Directories = {}
  /\ None \notin Files
  /\ \A f \in Files, p \in Files \cup Directories : Under(p, f) => p = f

\* Only "move" moves: an archive as a whole, or what was scanned; and without
\* rewriting, only an archive as a whole or a plain file.
ASSUME RunsAssumption ==
  \A r \in Runs :
    /\ r.moved # {} => r.command = "move"
    /\ \A m \in r.moved : /\ m.kind = "archive" \/ m \in Index
                          /\ ~ r.rewrites => m.kind \in {"archive", "plain"}

VARIABLES
  run,        \* the options of this run and what it has written and moved
  files, dirs,\* what there is on the disk
  backup,     \* the backup directory
  phase,      \* how far main() is
  todo,       \* the paths that the phase has still to deal with
  found,      \* the paths a phase has found and will delete
  deleted,    \* the directories this round of walkAndDelete() deleted
  picking,    \* the names that the threads of backupFiles() try
  round,      \* the parity of the rounds of a loop
  misread,    \* the directories whose reading failed (no code variable)
  raced       \* the files that found a name free together with another file, each
              \* with that name (no code variable)

vars == <<run, files, dirs, backup, phase, todo, found, deleted, picking, round, misread,
          raced>>

Parent(p) == Front(p)
Known(ps) == {f \in ps : f \notin Junk}

\* parentDir.startsWith(inputPath) compares text: a longer name will do.
StartsWith(p, q) ==
  /\ Len(p) >= Len(q)
  /\ Front(q) = SubSeq(p, 1, Len(q) - 1)
  /\ \/ p[Len(q)] = Last(q)
     \/ <<Last(q), p[Len(q)]>> \in NamePrefixes

\* FsUtil.walk(): a directory that cannot be read counts as empty.
Walk(d, unread) ==
  {f \in Known(files) : Under(f, d) /\ ~ \E u \in unread : Under(f, u)}

MayFailToRead(ds) ==
  {{}} \cup (IF ReadsFail THEN {{u} : u \in {x \in dirs : \E d \in ds : Under(x, d)}} ELSE {})

\* Options.scanInputSubdirectories(), without the input paths themselves.
Subdirectories(unread) ==
  {d \in dirs : /\ \E i \in InputPaths : Under(d, i) /\ d # i
                /\ ~ \E u \in unread : Under(d, u) /\ d # u}

\* FsUtil.rm() of a path: all of it, but for what cannot be deleted.
Stays(p) == {p} \cup {x \in dirs \cup files : Under(p, x)}
Deletable(ps) ==
  LET stuck == UNION {Stays(x) : x \in run.undeletable \cap (files \cup dirs)}
  IN  {x \in files \cup dirs : x \notin stuck /\ \E p \in ps : Under(x, p)}

(***************************************************************************)
(* The moved ROMs.                                                         *)
(***************************************************************************)

FindFiles(f) == {g \in Index : g.sum = f.sum}

\* The moved inputs and their duplicates that may go with them.
MovedRoms ==
  UNION {LET duplicates == IF m.kind = "archive" THEN {m} ELSE FindFiles(m)
         IN  IF run.rewrites THEN duplicates
             ELSE IF m.kind = "archive"
             THEN {d \in duplicates : d.kind # "plain" /\ d.archive = m.archive}
             ELSE {d \in duplicates : d.kind = "plain"}
         : m \in run.moved}

FullyConsumed ==
  LET entriesOf(p) == {m \in MovedRoms : m.path = p}
      whole(p) == \E m \in MovedRoms : entriesOf(p) = {m} /\ m.kind # "entry"
      unmoved(p) == {e \in Index : /\ e.path = p /\ e.kind = "entry" /\ ~ e.cue
                                   /\ \A m \in entriesOf(p) : m.sum # e.sum}
  IN  {p \in {m.path : m \in MovedRoms} : whole(p) \/ unmoved(p) = {}}

ToDelete == {p \in FullyConsumed : p \notin run.written /\ p \in files}

\* A run is described by its options, what it moved and what it wrote; a file
\* that was moved as it is has already gone.
Init ==
  /\ run \in Runs
  /\ files = Files \ {m.path : m \in {n \in run.moved :
                                         ~ run.rewrites /\ n.path \notin run.written}}
  /\ dirs = Directories
  /\ backup = [b \in OldBackups |-> None]
  /\ phase = "moved"
  /\ todo = {} /\ found = {} /\ deleted = {} /\ misread = {} /\ raced = {}
  /\ picking = [f \in {} |-> 0]
  /\ round = 0

DeleteMovedRoms ==
  /\ phase = "moved"
  /\ IF run.command # "move" \/ run.moved = {}
     THEN phase' = "clean" /\ UNCHANGED todo
     ELSE phase' = "rm" /\ todo' = ToDelete
  /\ UNCHANGED <<run, files, dirs, backup, found, deleted, picking, round, misread, raced>>

DeleteMoved ==
  /\ phase = "rm"
  /\ files' = files \ Deletable(todo)
  /\ todo' = {}
  /\ phase' = "subdirectories"
  /\ UNCHANGED <<run, dirs, backup, found, deleted, picking, round, misread, raced>>

(***************************************************************************)
(* The empty input subdirectories.                                         *)
(***************************************************************************)

DeleteSubdirectories ==
  /\ phase = "subdirectories"
  /\ \E unread \in IF run.deleteDirs = "always" THEN MayFailToRead(InputPaths) ELSE {{}} :
       /\ CASE run.deleteDirs = "never"  -> todo' = {}
            [] run.deleteDirs = "always" -> todo' = Subdirectories(unread)
            [] run.deleteDirs = "auto"   -> todo' = {Parent(m.path) : m \in run.moved}
       /\ misread' = misread \cup unread
  /\ phase' = IF run.deleteDirs = "never" THEN "clean" ELSE "walk"
  /\ UNCHANGED <<run, files, dirs, backup, found, deleted, picking, round, raced>>

\* walkAndDelete() of one directory: first it looks ...
WalkDirectory(d) ==
  /\ phase = "walk" /\ d \in todo
  /\ \E unread \in MayFailToRead({d}) :
       /\ found' = IF Walk(d, unread) = {} THEN found \cup {d} ELSE found
       /\ misread' = misread \cup unread
  /\ todo' = todo \ {d}
  /\ UNCHANGED <<run, files, dirs, backup, phase, deleted, picking, round, raced>>

\* ... and then it deletes.  A directory that is not there counts as deleted.
DeleteDirectory(d) ==
  /\ phase = "walk" /\ d \in found
  /\ files' = files \ Deletable({d})
  /\ dirs' = dirs \ Deletable({d})
  /\ found' = found \ {d}
  /\ deleted' = IF d \in dirs' THEN deleted ELSE deleted \cup {d}
  /\ UNCHANGED <<run, backup, phase, todo, picking, round, misread, raced>>

ParentsOf(ds) ==
  {p \in {Parent(d) : d \in ds} : \E i \in InputPaths : StartsWith(p, i) /\ p # i}

WalkParents ==
  /\ phase = "walk" /\ todo = {}
  /\ found = {}
  /\ todo' = ParentsOf(deleted)
  /\ phase' = IF todo' = {} THEN "clean" ELSE "walk"
  /\ deleted' = {}
  /\ UNCHANGED <<run, files, dirs, backup, found, picking, round, misread, raced>>

(***************************************************************************)
(* The output directories.                                                 *)
(***************************************************************************)

\* Mutant: --clean-exclude is forgotten.
FilesToCleanUnasked(unread) ==
  {f \in UNION {Walk(d, unread) : d \in OutputDirs} : f \notin run.written}

FilesToClean(unread) ==
  {f \in UNION {Walk(d, unread) : d \in OutputDirs} : f \notin run.written /\ f \notin run.excluded}

\* Mutant: cleaning does not ask whether anything was written.
CleanAlways ==
  /\ phase = "clean"
  /\ todo' = IF run.clean /\ ~ run.dryRun THEN FilesToClean({}) ELSE {}
  /\ phase' = IF ~ run.clean THEN "done"
              ELSE IF run.dryRun THEN "empties"
              ELSE IF run.backup THEN "backup" ELSE "recycle"
  /\ found' = todo'
  /\ UNCHANGED <<run, files, dirs, backup, deleted, picking, round, misread, raced>>

Clean ==
  /\ phase = "clean"
  /\ \E unread \in MayFailToRead(OutputDirs) :
       LET clean == FilesToClean(unread)
           stops == ~ run.clean \/ OutputDirs = {} \/ run.written = {} \/ clean = {}
       IN  /\ todo' = IF stops \/ run.dryRun THEN {} ELSE clean
           /\ phase' = IF stops THEN "done"
                       ELSE IF run.dryRun THEN "empties"
                       ELSE IF run.backup THEN "backup" ELSE "recycle"
           /\ found' = todo'
  /\ UNCHANGED <<run, files, dirs, backup, deleted, picking, round, misread, raced>>

\* trashOrDelete(): trash() of a batch may fail with any part of it done.
Recycle ==
  /\ phase = "recycle" /\ todo # {}
  /\ \E batch \in SUBSET todo :
       /\ Cardinality(batch) = BatchSize \/ (batch = todo /\ Cardinality(todo) < BatchSize)
       /\ \E trashed \in SUBSET batch :
            /\ files' = files \ Deletable(trashed)
            /\ dirs' = dirs \ Deletable(trashed)
       /\ todo' = todo \ batch
  /\ UNCHANGED <<run, backup, phase, found, deleted, picking, round, misread, raced>>

\* What trash() has left over is deleted; an error is logged and passed over.
DeleteLeftovers ==
  /\ phase = "recycle" /\ todo = {}
  /\ files' = files \ Deletable(found)
  /\ dirs' = dirs \ Deletable(found)
  /\ found' = {}
  /\ phase' = "empties"
  /\ UNCHANGED <<run, backup, todo, deleted, picking, round, misread, raced>>

\* backupFiles(): a thread takes a file and looks whether its name is in use,
BackUp(f) ==
  /\ phase = "backup" /\ f \in todo
  /\ Cardinality(DOMAIN picking) < WriterThreads
  /\ picking' = [g \in DOMAIN picking \cup {f} |-> IF g = f THEN 0 ELSE picking[g]]
  /\ todo' = todo \ {f}
  /\ UNCHANGED <<run, files, dirs, backup, phase, found, deleted, round, misread, raced>>

BackupName(f) == <<Last(f), picking[f]>>

\* Mutant: one number is tried, and the next is taken without asking.
NameInUseOnce(f) ==
  /\ f \in DOMAIN picking /\ f \in found
  /\ BackupName(f) \in DOMAIN backup
  /\ picking' = [picking EXCEPT ![f] = @ + 1]
  /\ found' = found \ {f}
  /\ UNCHANGED <<run, files, dirs, backup, phase, todo, deleted, round, misread, raced>>

\* tries the next number while it is,
NameInUse(f) ==
  /\ f \in DOMAIN picking /\ f \in found
  /\ BackupName(f) \in DOMAIN backup
  /\ picking' = [picking EXCEPT ![f] = @ + 1]
  /\ UNCHANGED <<run, files, dirs, backup, phase, todo, found, deleted, round, misread, raced>>

\* The others that have found the name free that f tries, and not yet moved there.
Rivals(f) == {g \in DOMAIN picking \ (found \cup {f}) : BackupName(g) = BackupName(f)}

\* sees that it is not (the last exists() before it makes the directory),
NameIsFree(f) ==
  /\ f \in DOMAIN picking /\ f \in found
  /\ BackupName(f) \notin DOMAIN backup
  /\ found' = found \ {f}
  /\ raced' = IF Rivals(f) = {} THEN raced
              ELSE raced \cup {<<g, BackupName(f)>> : g \in Rivals(f) \cup {f}}
  /\ UNCHANGED <<run, files, dirs, backup, phase, todo, deleted, picking, round, misread>>

\* and moves the file there: rename() replaces whatever is there by now.
MoveToBackup(f) ==
  /\ f \in DOMAIN picking /\ f \notin found
  /\ f \in Deletable({f})
  /\ backup' = [b \in DOMAIN backup \cup {BackupName(f)} |->
                  IF b = BackupName(f) THEN f ELSE backup[b]]
  /\ files' = files \ {f}
  /\ picking' = [g \in DOMAIN picking \ {f} |-> picking[g]]
  /\ UNCHANGED <<run, dirs, phase, todo, found, deleted, round, misread, raced>>

\* When rename() fails, mv() removes what is there and tries again,
ClearBackupName(f) ==
  /\ f \in DOMAIN picking /\ f \notin found
  /\ BackupName(f) \in DOMAIN backup
  /\ backup' = [b \in DOMAIN backup \ {BackupName(f)} |-> backup[b]]
  /\ UNCHANGED <<run, files, dirs, phase, todo, found, deleted, picking, round, misread, raced>>

\* or, if nothing is there or that cannot be removed, gives the file up: a warning.
LeaveInPlace(f) ==
  /\ f \in DOMAIN picking /\ f \notin found
  /\ picking' = [g \in DOMAIN picking \ {f} |-> picking[g]]
  /\ UNCHANGED <<run, files, dirs, backup, phase, todo, found, deleted, round, misread, raced>>

BackedUp ==
  /\ phase = "backup" /\ todo = {} /\ DOMAIN picking = {}
  /\ phase' = "empties"
  /\ UNCHANGED <<run, files, dirs, backup, todo, found, deleted, picking, round, misread, raced>>

\* Mutant: a directory that does not exist counts as empty.
EmptyDirsOrNone ==
  {d \in Directories : /\ \E o \in OutputDirs : Under(d, o)
                       /\ ~ \E x \in Known(files) \cup dirs : x # d /\ Under(x, d)}

\* getEmptyDirs(): the directories, reached from an output directory, that
\* hold nothing but junk.
EmptyDirs ==
  {d \in dirs : /\ \E o \in OutputDirs : Under(d, o)
                /\ ~ \E x \in Known(files) \cup dirs : x # d /\ Under(x, d)}

\* The loop over empty directories; an error of readdir() ends it.
FindEmptyDirs ==
  /\ phase = "empties"
  /\ \/ /\ EmptyDirs = {}
        /\ phase' = "done"
        /\ UNCHANGED <<todo, found>>
     \/ /\ EmptyDirs # {}
        /\ todo' = IF run.dryRun THEN {} ELSE EmptyDirs
        /\ phase' = IF run.dryRun THEN "empties" ELSE "recycle"
        /\ found' = todo'
     \/ /\ ReadsFail
        /\ phase' = "done"
        /\ UNCHANGED <<todo, found>>
  /\ round' = 1 - round
  /\ UNCHANGED <<run, files, dirs, backup, deleted, picking, misread, raced>>

Next ==
  \/ DeleteMovedRoms \/ DeleteMoved
  \/ DeleteSubdirectories \/ WalkParents
  \/ \E d \in Directories : WalkDirectory(d) \/ DeleteDirectory(d)
  \/ Clean \/ Recycle \/ DeleteLeftovers \/ BackedUp \/ FindEmptyDirs
  \/ \E f \in Files : BackUp(f) \/ NameInUse(f) \/ NameIsFree(f)
                     \/ MoveToBackup(f) \/ ClearBackupName(f) \/ LeaveInPlace(f)

Spec == Init /\ [][Next]_vars

\* Every promise that is awaited settles.
FairSpec == Spec /\ WF_vars(Next)

(***************************************************************************)
(* Properties.                                                             *)
(***************************************************************************)

\* Every variable has the type its declaration gives it.
TypeOK ==
  /\ run \in Runs
  /\ files \subseteq Files /\ dirs \subseteq Directories
  /\ phase \in {"moved", "rm", "subdirectories", "walk", "clean", "backup", "recycle",
               "empties", "done"}
  /\ DOMAIN picking \subseteq Files /\ picking \in [DOMAIN picking -> Nat]
  /\ misread \subseteq Directories
  /\ round \in {0, 1}
  /\ \A e \in raced : e = <<e[1], e[2]>> /\ e[1] \in Known(Files)

Paths(records) == {r.path : r \in records}
\* walk() took what cannot be read for empty; rm() then deleted it.
TakenForEmpty(p) == \E u \in misread : Under(p, u)
MayBeCleaned(p) ==
  run.clean /\ ~ run.dryRun /\ run.written # {} /\ \E o \in OutputDirs : Under(p, o)

\* Whatever the three modules do to the same tree one after the other, no file
\* that was written, and no file excluded from cleaning that was not moved,
\* ever disappears, unless a directory above it could not be read, or its name
\* is one of those that isNotJunk() drops: a directory of such files is empty.
ProtectedSurvive ==
  \A p \in Known(Files) \cap (run.written \cup (run.excluded \ Paths(MovedRoms))) :
    p \in files \/ TakenForEmpty(p)

\* The golden rule of cleaning (docs/output/cleaning.md): a file disappears only
\* as an input that was moved, or in an output directory of a run that cleans,
\* is no dry run and has written something.
OnlyTheirOwn ==
  \A p \in Known(Files) \ files :
    \/ run.command = "move" /\ p \in Paths(MovedRoms)
    \/ MayBeCleaned(p)
    \/ TakenForEmpty(p)

Survives(f) == f \in files \/ \E b \in DOMAIN backup : backup[b] = f

\* With --clean-backup, however many threads back up and whatever moves fail,
\* nothing that is cleaned is lost, unless two threads found one name free at the
\* same time: then a file may be lost to another that did, and that one
\* survives.  What the backup directory had is left alone even then.
BackupKeeps ==
  run.backup =>
    /\ \A f \in Known(Files) \ Paths(MovedRoms) :
         \/ Survives(f) \/ TakenForEmpty(f)
         \/ \E e \in raced : e[1] # f /\ <<f, e[2]>> \in raced /\ Survives(e[1])
    /\ \A b \in OldBackups : b \in DOMAIN backup /\ backup[b] = None

\* Cleaning comes to an end when everything can be deleted and it deletes.
CleaningEnds == (run.undeletable = {} /\ ~ run.dryRun) => <>(phase = "done")

=============================================================================
