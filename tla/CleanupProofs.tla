---------------------------- MODULE CleanupProofs ----------------------------
(***************************************************************************)
(* Proofs about Cleanup for every tree, any options and any run, whatever  *)
(* cannot be read and whatever cannot be deleted: only what may go goes.   *)
(* And about Candidates, as Main, for any runs: main() hands the cleaning  *)
(* the paths of all that its DATs want to stay.                            *)
(***************************************************************************)
EXTENDS Cleanup, FiniteSetTheorems, TLAPS

\* Candidates, with its constants and variables.
CONSTANTS HeaderOf, PaddingsOf, Signatures, Trimmable, PowerOfTwo, Empty, JunkNames, Alphabet, Roots,
          LettersOf, NotLetters, ConsoleOfDat, ConsoleOfExt, DiscTitles, PlaylistExts, MainRuns
VARIABLES mainRun, mainPhase, index, stage, candidates, excluded, outputDirs, written, reports,
          cleaned, leftovers

Main == INSTANCE Candidates WITH Runs <- MainRuns, run <- mainRun, phase <- mainPhase

IsMoved(p) == run.command = "move" /\ p \in Paths(MovedRoms) /\ p \notin run.written
CleansOut == run.clean /\ ~ run.dryRun /\ run.written # {}
IsStray(p) == /\ \E o \in OutputDirs : Under(p, o)
              /\ p \notin run.written /\ p \notin run.excluded

\* What has gone was moved, or lay where nobody could look, or was cleaned.
GoneOK ==
  \A p \in Known(Files) \ files : IsMoved(p) \/ TakenForEmpty(p) \/ (CleansOut /\ IsStray(p))

\* What the steps so far have found for the next ones to delete.
FoundOK ==
  /\ phase \in {"moved", "rm", "subdirectories"} => found = {}
  /\ phase = "rm" => \A p \in todo : p \in Files /\ IsMoved(p)
  /\ phase = "walk" => \A d \in found : \A f \in Known(files) : Under(f, d) => TakenForEmpty(f)
  /\ phase \in {"backup", "recycle"} => CleansOut
  /\ phase = "empties" => CleansOut \/ run.dryRun
  /\ phase = "recycle" =>
       \A p \in todo \cup found : \A f \in Known(files) :
         Under(f, p) => IsStray(f) /\ ~ run.backup

\* The files that are being backed up.
BackupOK ==
  /\ phase = "backup" =>
       /\ run.backup /\ todo \subseteq found
       /\ todo \cap DOMAIN picking = {}
       /\ \A f \in todo \cup DOMAIN picking : f \in Known(files) /\ IsStray(f)
  /\ phase # "backup" => DOMAIN picking = {}

IInv == TypeOK /\ GoneOK /\ FoundOK /\ BackupOK

\* Whoever has found a name free finds an old backup nowhere, and another file there,
\* or another one that will come there, only if both have raced.
TargetsOK ==
  /\ \A f \in DOMAIN picking \ found :
       /\ BackupName(f) \notin OldBackups
       /\ BackupName(f) \in DOMAIN backup =>
            <<f, BackupName(f)>> \in raced /\ <<backup[BackupName(f)], BackupName(f)>> \in raced
  /\ \A f, g \in DOMAIN picking \ found :
       f # g /\ BackupName(f) = BackupName(g) => <<f, BackupName(f)>> \in raced

\* A file races once, and for the name that it then has.
RacedOK ==
  /\ phase \in {"moved", "rm", "subdirectories", "walk", "clean"} => raced = {}
  /\ \A e \in raced :
       /\ phase = "backup" => e[1] \notin todo
       /\ e[1] \in DOMAIN picking => e[1] \notin found /\ BackupName(e[1]) = e[2]
       /\ \A b \in DOMAIN backup : backup[b] = e[1] => b = e[2]
  /\ \A b \in DOMAIN backup : backup[b] \notin files

\* Another file that raced for a name with p is still there.
Outlived(p) == \E e \in raced : e[1] # p /\ <<p, e[2]>> \in raced /\ Survives(e[1])

OldOK == \A b \in OldBackups : b \in DOMAIN backup /\ backup[b] = None

KeptOK ==
  run.backup =>
    \A p \in Known(Files) \ files : IsMoved(p) \/ TakenForEmpty(p) \/ Survives(p) \/ Outlived(p)

BInv == IInv /\ TargetsOK /\ RacedOK /\ OldOK /\ KeptOK

-----------------------------------------------------------------------------
(* Only what may go goes.                                                    *)

\* What goes with a path lies under it, and nothing else lies under a file.
LEMMA DeletableLiesUnder ==
  ASSUME NEW ps, NEW x \in Deletable(ps)
  PROVE  x \in files \cup dirs /\ \E p \in ps : Under(x, p)
  BY DEF Deletable

LEMMA NothingUnderFiles ==
  ASSUME TypeOK, NEW ps, ps \subseteq Files, NEW x \in Deletable(ps)
  PROVE  x \in ps
<1>1. PICK p \in ps : Under(x, p)
  BY DeletableLiesUnder
<1>2. x \in Files \cup Directories
  BY DeletableLiesUnder DEF TypeOK
<1>3. QED
  BY <1>1, <1>2, TreeAssumption

LEMMA SameRunMoved ==
  ASSUME run' = run
  PROVE  MovedRoms' = MovedRoms
  BY DEF MovedRoms, FindFiles

\* A file that could go still can.
LEMMA ReasonsStay ==
  ASSUME run' = run, misread \subseteq misread', NEW p
  PROVE  /\ IsMoved(p) => IsMoved(p)'
         /\ TakenForEmpty(p) => TakenForEmpty(p)'
         /\ CleansOut => CleansOut'
         /\ IsStray(p) => IsStray(p)'
<1>1. IsMoved(p) => IsMoved(p)'
  BY SameRunMoved DEF IsMoved, Paths
<1>2. TakenForEmpty(p) => TakenForEmpty(p)'
  BY DEF TakenForEmpty
<1>3. (CleansOut => CleansOut') /\ (IsStray(p) => IsStray(p)')
  BY DEF CleansOut, IsStray
<1>4. QED
  BY <1>1, <1>2, <1>3

\* Files may go for a reason only.
LEMMA GoneStep ==
  ASSUME GoneOK, run' = run, misread \subseteq misread',
         \A p \in Known(files) \ files' :
            IsMoved(p) \/ TakenForEmpty(p) \/ (CleansOut /\ IsStray(p))
  PROVE  GoneOK'
<1>1. SUFFICES ASSUME NEW p \in Known(Files), p \notin files'
               PROVE  IsMoved(p)' \/ TakenForEmpty(p)' \/ (CleansOut' /\ IsStray(p)')
  BY DEF GoneOK, Known
<1>2. IsMoved(p) \/ TakenForEmpty(p) \/ (CleansOut /\ IsStray(p))
  BY <1>1 DEF GoneOK, Known
<1>3. QED
  BY <1>2, ReasonsStay

\* A file that is moved as it is belongs to what was moved.
LEMMA MovedAreMoved ==
  ASSUME run \in Runs, NEW m \in run.moved, ~ run.rewrites
  PROVE  run.command = "move" /\ m.path \in Paths(MovedRoms)
<1>1. /\ run.command = "move"
      /\ m.kind = "archive" \/ m \in Index
      /\ m.kind \in {"archive", "plain"}
  BY RunsAssumption
<1>2. m \in MovedRoms
  <2>1. CASE m.kind = "archive"
    <3>1. m \in {d \in {m} : d.kind # "plain" /\ d.archive = m.archive}
      BY <2>1
    <3>2. QED
      BY <2>1, <3>1 DEF MovedRoms
  <2>2. CASE m.kind = "plain"
    <3>1. m \in {d \in FindFiles(m) : d.kind = "plain"}
      BY <2>2, <1>1 DEF FindFiles
    <3>2. QED
      BY <2>2, <3>1 DEF MovedRoms
  <2>3. QED
    BY <2>1, <2>2, <1>1
<1>3. QED
  BY <1>1, <1>2 DEF Paths

LEMMA InitIInv == Init => IInv
<1> SUFFICES ASSUME Init PROVE IInv
  OBVIOUS
<1>1. /\ run \in Runs /\ phase = "moved" /\ found = {} /\ misread = {} /\ raced = {}
      /\ files = Files \ {m.path : m \in {n \in run.moved :
                                            ~ run.rewrites /\ n.path \notin run.written}}
      /\ dirs = Directories /\ round = 0 /\ picking = [f \in {} |-> 0]
  BY DEF Init
<1>2. TypeOK
  BY <1>1 DEF TypeOK
<1>3. GoneOK
  <2>1. ASSUME NEW p \in Known(Files), p \notin files PROVE IsMoved(p)
    <3>1. PICK m \in run.moved : ~ run.rewrites /\ m.path \notin run.written /\ m.path = p
      BY <1>1, <2>1 DEF Known
    <3>2. QED
      BY <1>1, <3>1, MovedAreMoved DEF IsMoved
  <2>2. QED
    BY <2>1 DEF GoneOK
<1>4. FoundOK /\ BackupOK
  BY <1>1 DEF FoundOK, BackupOK
<1>5. QED
  BY <1>2, <1>3, <1>4 DEF IInv

-----------------------------------------------------------------------------
(* The steps of the three modules.                                           *)

LEMMA DeleteMovedRomsIInv ==
  ASSUME IInv, DeleteMovedRoms
  PROVE  IInv'
<1>1. /\ TypeOK /\ GoneOK /\ FoundOK /\ BackupOK /\ phase = "moved" /\ found = {}
      /\ UNCHANGED <<run, files, dirs, backup, found, deleted, picking, round, misread, raced>>
      /\ \/ phase' = "clean"
         \/ run.command = "move" /\ phase' = "rm" /\ todo' = ToDelete
  BY DEF IInv, FoundOK, DeleteMovedRoms
<1>2. TypeOK'
  BY <1>1 DEF TypeOK
<1>3. GoneOK'
  BY <1>1, GoneStep DEF Known
<1>4. FoundOK'
  <2>1. \A p \in ToDelete : p \in Files /\ (run.command = "move" => IsMoved(p))
    BY <1>1 DEF ToDelete, FullyConsumed, IsMoved, Paths, TypeOK
  <2>2. \A p : IsMoved(p) => IsMoved(p)'
    BY <1>1, ReasonsStay
  <2>3. QED
    BY <1>1, <2>1, <2>2 DEF FoundOK
<1>5. BackupOK'
  BY <1>1 DEF BackupOK
<1>6. QED
  BY <1>2, <1>3, <1>4, <1>5 DEF IInv

LEMMA DeleteMovedIInv ==
  ASSUME IInv, DeleteMoved
  PROVE  IInv'
<1>1. /\ TypeOK /\ GoneOK /\ FoundOK /\ BackupOK /\ phase = "rm" /\ found = {}
      /\ \A p \in todo : p \in Files /\ IsMoved(p)
      /\ files' = files \ Deletable(todo) /\ phase' = "subdirectories"
      /\ UNCHANGED <<run, dirs, backup, found, deleted, picking, round, misread, raced>>
  BY DEF IInv, FoundOK, DeleteMoved
<1>2. TypeOK'
  BY <1>1 DEF TypeOK
<1>3. GoneOK'
  <2>1. ASSUME NEW p \in Deletable(todo) PROVE IsMoved(p)
    BY <1>1, <2>1, NothingUnderFiles
  <2>2. QED
    BY <1>1, <2>1, GoneStep DEF Known
<1>4. FoundOK' /\ BackupOK'
  BY <1>1 DEF FoundOK, BackupOK
<1>5. QED
  BY <1>2, <1>3, <1>4 DEF IInv

LEMMA DeleteSubdirectoriesIInv ==
  ASSUME IInv, DeleteSubdirectories
  PROVE  IInv'
<1>1. /\ TypeOK /\ GoneOK /\ FoundOK /\ BackupOK /\ phase = "subdirectories" /\ found = {}
      /\ phase' \in {"clean", "walk"}
      /\ UNCHANGED <<run, files, dirs, backup, found, deleted, picking, round, raced>>
  BY DEF IInv, FoundOK, DeleteSubdirectories
<1>2. misread \subseteq misread' /\ misread' \subseteq Directories
  BY <1>1 DEF DeleteSubdirectories, MayFailToRead, TypeOK
<1>3. TypeOK'
  BY <1>1, <1>2 DEF TypeOK
<1>4. GoneOK'
  BY <1>1, <1>2, GoneStep DEF Known
<1>5. FoundOK' /\ BackupOK'
  BY <1>1 DEF FoundOK, BackupOK
<1>6. QED
  BY <1>3, <1>4, <1>5 DEF IInv

LEMMA WalkDirectoryIInv ==
  ASSUME IInv, NEW d \in Directories, WalkDirectory(d)
  PROVE  IInv'
<1>1. /\ TypeOK /\ GoneOK /\ FoundOK /\ BackupOK /\ phase = "walk"
      /\ UNCHANGED <<run, files, dirs, backup, phase, deleted, picking, round, raced>>
  BY DEF IInv, WalkDirectory
<1>2. PICK unread \in MayFailToRead({d}) :
        /\ found' = IF Walk(d, unread) = {} THEN found \cup {d} ELSE found
        /\ misread' = misread \cup unread
  BY DEF WalkDirectory
<1>3. unread \subseteq Directories
  BY <1>1 DEF MayFailToRead, TypeOK
<1>4. TypeOK'
  BY <1>1, <1>2, <1>3 DEF TypeOK
<1>5. GoneOK'
  BY <1>1, <1>2, GoneStep DEF Known
<1>6. FoundOK'
  <2>1. ASSUME NEW e \in found', NEW f \in Known(files), Under(f, e)
        PROVE  TakenForEmpty(f)'
    <3>1. CASE e \in found
      BY <1>1, <1>2, <2>1, <3>1 DEF FoundOK, TakenForEmpty
    <3>2. CASE e = d /\ Walk(d, unread) = {}
      <4>1. \E u \in unread : Under(f, u)
        BY <2>1, <3>2 DEF Walk
      <4>2. QED
        BY <4>1, <1>2 DEF TakenForEmpty
    <3>3. QED
      BY <3>1, <3>2, <1>2, <2>1
  <2>2. QED
    BY <1>1, <2>1 DEF FoundOK, Known
<1>7. BackupOK'
  BY <1>1 DEF BackupOK
<1>8. QED
  BY <1>4, <1>5, <1>6, <1>7 DEF IInv

LEMMA DeleteDirectoryIInv ==
  ASSUME IInv, NEW d \in Directories, DeleteDirectory(d)
  PROVE  IInv'
<1>1. /\ TypeOK /\ GoneOK /\ FoundOK /\ BackupOK /\ phase = "walk" /\ d \in found
      /\ files' = files \ Deletable({d}) /\ dirs' = dirs \ Deletable({d})
      /\ found' = found \ {d}
      /\ UNCHANGED <<run, backup, phase, todo, picking, round, misread, raced>>
  BY DEF IInv, DeleteDirectory
<1>2. TypeOK'
  BY <1>1 DEF TypeOK
<1>3. GoneOK'
  <2>1. ASSUME NEW p \in Known(files), p \in Deletable({d}) PROVE TakenForEmpty(p)
    BY <1>1, <2>1, DeletableLiesUnder DEF FoundOK
  <2>2. QED
    BY <1>1, <2>1, GoneStep DEF Known
<1>4. FoundOK'
  BY <1>1 DEF FoundOK, Known, TakenForEmpty
<1>5. BackupOK'
  BY <1>1 DEF BackupOK
<1>6. QED
  BY <1>2, <1>3, <1>4, <1>5 DEF IInv

LEMMA WalkParentsIInv ==
  ASSUME IInv, WalkParents
  PROVE  IInv'
<1>1. /\ TypeOK /\ GoneOK /\ FoundOK /\ BackupOK /\ phase = "walk" /\ found = {}
      /\ phase' \in {"clean", "walk"}
      /\ UNCHANGED <<run, files, dirs, backup, found, picking, round, misread, raced>>
  BY DEF IInv, WalkParents
<1>2. TypeOK'
  BY <1>1 DEF TypeOK
<1>3. GoneOK'
  BY <1>1, GoneStep DEF Known
<1>4. FoundOK' /\ BackupOK'
  BY <1>1 DEF FoundOK, BackupOK
<1>5. QED
  BY <1>2, <1>3, <1>4 DEF IInv

LEMMA CleanIInv ==
  ASSUME IInv, Clean
  PROVE  IInv'
<1>1. /\ TypeOK /\ GoneOK /\ FoundOK /\ BackupOK /\ phase = "clean" /\ found' = todo'
      /\ UNCHANGED <<run, files, dirs, backup, deleted, picking, round, misread, raced>>
  BY DEF IInv, Clean
<1>2. PICK unread \in MayFailToRead(OutputDirs) :
        LET clean == FilesToClean(unread)
            stops == ~ run.clean \/ OutputDirs = {} \/ run.written = {} \/ clean = {}
        IN  /\ todo' = IF stops \/ run.dryRun THEN {} ELSE clean
            /\ phase' = IF stops THEN "done"
                        ELSE IF run.dryRun THEN "empties"
                        ELSE IF run.backup THEN "backup" ELSE "recycle"
  BY DEF Clean
<1>3. /\ todo' \subseteq FilesToClean(unread)
      /\ phase' \in {"done", "empties", "backup", "recycle"}
      /\ phase' \in {"backup", "recycle"} => CleansOut
      /\ phase' = "empties" => run.dryRun
      /\ phase' = "backup" => run.backup
      /\ phase' = "recycle" => ~ run.backup
  <2> DEFINE clean == FilesToClean(unread)
             stops == ~ run.clean \/ OutputDirs = {} \/ run.written = {} \/ clean = {}
  <2>1. /\ todo' = IF stops \/ run.dryRun THEN {} ELSE clean
        /\ phase' = IF stops THEN "done"
                    ELSE IF run.dryRun THEN "empties"
                    ELSE IF run.backup THEN "backup" ELSE "recycle"
    BY <1>2
  <2>2. stops \/ CleansOut \/ run.dryRun
    BY DEF CleansOut
  <2>3. todo' \subseteq FilesToClean(unread)
    BY <2>1
  <2> HIDE DEF stops, clean
  <2>4. QED
    BY <2>1, <2>2, <2>3
<1>4. \A f \in todo' : f \in Known(files) /\ IsStray(f)
  BY <1>3 DEF FilesToClean, Walk, IsStray
<1>5. TypeOK'
  BY <1>1, <1>3 DEF TypeOK
<1>6. GoneOK'
  BY <1>1, GoneStep DEF Known
<1>7. /\ \A f : IsStray(f) => IsStray(f)'
      /\ CleansOut => CleansOut'
  BY <1>1, ReasonsStay
<1>8. FoundOK'
  <2>1. ASSUME NEW p \in todo', NEW f \in Known(files), Under(f, p) PROVE IsStray(f)
    BY <1>1, <1>4, <2>1, TreeAssumption DEF Known, TypeOK
  <2>2. Known(files)' = Known(files)
    BY <1>1 DEF Known
  <2>3. QED
    BY <1>1, <1>3, <1>7, <2>1, <2>2 DEF FoundOK
<1>9. BackupOK'
  BY <1>1, <1>3, <1>4, <1>7 DEF BackupOK, Known, TypeOK
<1>10. QED
  BY <1>5, <1>6, <1>8, <1>9 DEF IInv

\* What is recycled was found to be in nobody's way.
LEMMA RecycledMayGo ==
  ASSUME IInv, phase = "recycle", NEW ps, ps \subseteq todo \cup found
  PROVE  \A p \in Known(files) : p \in Deletable(ps) => CleansOut /\ IsStray(p) /\ ~ run.backup
  BY DeletableLiesUnder DEF IInv, FoundOK

LEMMA RecycleIInv ==
  ASSUME IInv, Recycle
  PROVE  IInv'
<1>1. /\ TypeOK /\ GoneOK /\ FoundOK /\ BackupOK /\ phase = "recycle"
      /\ UNCHANGED <<run, backup, phase, found, deleted, picking, round, misread, raced>>
  BY DEF IInv, Recycle
<1>2. PICK batch \in SUBSET todo, trashed \in SUBSET todo :
        /\ files' = files \ Deletable(trashed) /\ dirs' = dirs \ Deletable(trashed)
        /\ todo' = todo \ batch
  BY DEF Recycle
<1>3. TypeOK'
  BY <1>1, <1>2 DEF TypeOK
<1>4. GoneOK'
  BY <1>1, <1>2, RecycledMayGo, GoneStep DEF Known
<1>5. FoundOK'
  BY <1>1, <1>2 DEF FoundOK, Known, IsStray, CleansOut
<1>6. BackupOK'
  BY <1>1 DEF BackupOK
<1>7. QED
  BY <1>3, <1>4, <1>5, <1>6 DEF IInv

LEMMA DeleteLeftoversIInv ==
  ASSUME IInv, DeleteLeftovers
  PROVE  IInv'
<1>1. /\ TypeOK /\ GoneOK /\ FoundOK /\ BackupOK /\ phase = "recycle" /\ phase' = "empties"
      /\ files' = files \ Deletable(found) /\ dirs' = dirs \ Deletable(found)
      /\ UNCHANGED <<run, backup, todo, deleted, picking, round, misread, raced>>
  BY DEF IInv, DeleteLeftovers
<1>2. TypeOK'
  BY <1>1 DEF TypeOK
<1>3. GoneOK'
  BY <1>1, RecycledMayGo, GoneStep DEF Known
<1>4. FoundOK' /\ BackupOK'
  BY <1>1 DEF FoundOK, CleansOut, BackupOK
<1>5. QED
  BY <1>2, <1>3, <1>4 DEF IInv

LEMMA FindEmptyDirsIInv ==
  ASSUME IInv, FindEmptyDirs
  PROVE  IInv'
<1>1. /\ TypeOK /\ GoneOK /\ FoundOK /\ BackupOK /\ phase = "empties"
      /\ CleansOut \/ run.dryRun
      /\ UNCHANGED <<run, files, dirs, backup, deleted, picking, misread, raced>>
      /\ round' = 1 - round
      /\ \/ phase' = "done"
         \/ phase' = "empties" /\ run.dryRun
         \/ ~ run.dryRun /\ phase' = "recycle" /\ todo' = EmptyDirs /\ found' = todo'
  BY DEF IInv, FoundOK, FindEmptyDirs
<1>2. TypeOK'
  BY <1>1 DEF TypeOK
<1>3. GoneOK'
  BY <1>1, GoneStep DEF Known
<1>4. \A d \in EmptyDirs : \A f \in Known(files) : ~ Under(f, d)
  BY <1>1, TreeAssumption DEF EmptyDirs, Known, TypeOK
<1>5. FoundOK'
  BY <1>1, <1>4 DEF FoundOK, CleansOut, Known
<1>6. BackupOK'
  BY <1>1 DEF BackupOK
<1>7. QED
  BY <1>2, <1>3, <1>5, <1>6 DEF IInv

\* The threads that back files up.
LEMMA BackUpIInv ==
  ASSUME IInv, NEW f \in Files, BackUp(f) \/ NameInUse(f) \/ NameIsFree(f)
  PROVE  IInv'
<1>1. /\ TypeOK /\ GoneOK /\ FoundOK /\ BackupOK
      /\ UNCHANGED <<run, files, dirs, backup, phase, deleted, round, misread>>
  BY DEF IInv, BackUp, NameInUse, NameIsFree
<1>2. phase = "backup"
  BY <1>1 DEF BackUp, NameInUse, NameIsFree, BackupOK
<1>3. GoneOK'
  BY <1>1, GoneStep DEF Known
<1>4. FoundOK'
  BY <1>1, <1>2 DEF FoundOK, CleansOut
<1>5. \A g : IsStray(g)' <=> IsStray(g)
  BY <1>1 DEF IsStray
<1>6. Known(files)' = Known(files) /\ Known(Files)' = Known(Files)
  BY <1>1 DEF Known
<1>7. CASE BackUp(f)
  <2>1. /\ DOMAIN picking' = DOMAIN picking \cup {f}
        /\ \A g \in DOMAIN picking' : picking'[g] \in Nat
        /\ picking' \in [DOMAIN picking' -> Nat]
    BY <1>1, <1>7 DEF BackUp, TypeOK
  <2>2. f \in todo /\ todo' = todo \ {f} /\ found' = found /\ raced' = raced
    BY <1>7 DEF BackUp
  <2>3. TypeOK'
    BY <1>1, <1>6, <2>1, <2>2 DEF TypeOK
  <2>4. BackupOK'
    BY <1>1, <1>2, <1>5, <1>6, <2>1, <2>2 DEF BackupOK
  <2>5. QED
    BY <1>3, <1>4, <2>3, <2>4 DEF IInv
<1>8. CASE NameInUse(f) \/ NameIsFree(f)
  <2>1. /\ DOMAIN picking' = DOMAIN picking /\ picking' \in [DOMAIN picking -> Nat]
        /\ f \in DOMAIN picking /\ todo' = todo
        /\ found \ {f} \subseteq found'
    BY <1>1, <1>8 DEF NameInUse, NameIsFree, TypeOK
  <2>2. \A e \in raced' : e = <<e[1], e[2]>> /\ e[1] \in Known(Files)
    <3>1. ASSUME NEW e \in raced', e \notin raced
          PROVE  e = <<e[1], e[2]>> /\ e[1] \in DOMAIN picking
      <4>1. PICK g \in Rivals(f) \cup {f} : e = <<g, BackupName(f)>>
        BY <1>8, <3>1 DEF NameInUse, NameIsFree
      <4>2. QED
        BY <2>1, <4>1 DEF Rivals
    <3>2. \A g \in DOMAIN picking : g \in Known(Files)
      BY <1>1, <1>2 DEF BackupOK, TypeOK, Known
    <3>3. QED
      BY <1>1, <3>1, <3>2 DEF TypeOK
  <2>3. TypeOK'
    BY <1>1, <1>6, <2>1, <2>2 DEF TypeOK
  <2>4. BackupOK'
    BY <1>1, <1>2, <1>5, <1>6, <2>1 DEF BackupOK
  <2>5. QED
    BY <1>3, <1>4, <2>3, <2>4 DEF IInv
<1>9. QED
  BY <1>7, <1>8

LEMMA MoveToBackupIInv ==
  ASSUME IInv, NEW f \in Files, MoveToBackup(f) \/ ClearBackupName(f) \/ LeaveInPlace(f)
  PROVE  IInv'
<1>1. /\ TypeOK /\ GoneOK /\ FoundOK /\ BackupOK /\ f \in DOMAIN picking
      /\ \/ /\ files' \in {files, files \ {f}}
            /\ picking' = [g \in DOMAIN picking \ {f} |-> picking[g]]
         \/ files' = files /\ picking' = picking
      /\ UNCHANGED <<run, dirs, phase, todo, found, deleted, round, misread, raced>>
  BY DEF IInv, MoveToBackup, ClearBackupName, LeaveInPlace
<1>2. phase = "backup" /\ CleansOut /\ IsStray(f)
  BY <1>1 DEF BackupOK, FoundOK
<1>3. /\ DOMAIN picking' \subseteq DOMAIN picking /\ picking' \in [DOMAIN picking' -> Nat]
      /\ \A g \in todo \cup DOMAIN picking' : g \in files => g \in files'
  BY <1>1, <1>2 DEF TypeOK, BackupOK
<1>4. TypeOK'
  BY <1>1, <1>3 DEF TypeOK, Known
<1>5. GoneOK'
  BY <1>1, <1>2, GoneStep DEF Known
<1>6. FoundOK'
  BY <1>1, <1>2 DEF FoundOK, CleansOut
<1>7. BackupOK'
  BY <1>1, <1>2, <1>3 DEF BackupOK, IsStray, Known
<1>8. QED
  BY <1>4, <1>5, <1>6, <1>7 DEF IInv

LEMMA NextIInv == IInv /\ [Next]_vars => IInv'
<1> SUFFICES ASSUME IInv, [Next]_vars PROVE IInv'
  OBVIOUS
<1>1. CASE DeleteMovedRoms \/ DeleteMoved \/ DeleteSubdirectories \/ WalkParents
  BY <1>1, DeleteMovedRomsIInv, DeleteMovedIInv, DeleteSubdirectoriesIInv, WalkParentsIInv
<1>2. CASE \E d \in Directories : WalkDirectory(d) \/ DeleteDirectory(d)
  BY <1>2, WalkDirectoryIInv, DeleteDirectoryIInv
<1>3. CASE Clean \/ Recycle \/ DeleteLeftovers \/ FindEmptyDirs
  BY <1>3, CleanIInv, RecycleIInv, DeleteLeftoversIInv, FindEmptyDirsIInv
<1>4. CASE \E f \in Files : \/ BackUp(f) \/ NameInUse(f) \/ NameIsFree(f)
                           \/ MoveToBackup(f) \/ ClearBackupName(f) \/ LeaveInPlace(f)
  BY <1>4, BackUpIInv, MoveToBackupIInv
<1>5. CASE BackedUp
  <2>1. /\ TypeOK /\ GoneOK /\ FoundOK /\ BackupOK
        /\ phase = "backup" /\ phase' = "empties" /\ DOMAIN picking = {}
        /\ UNCHANGED <<run, files, dirs, backup, todo, found, deleted, picking, round, misread, raced>>
    BY <1>5 DEF IInv, BackedUp
  <2>2. TypeOK' /\ FoundOK' /\ BackupOK'
    BY <2>1 DEF TypeOK, FoundOK, BackupOK, CleansOut
  <2>3. GoneOK'
    BY <2>1, GoneStep DEF Known
  <2>4. QED
    BY <2>2, <2>3 DEF IInv
<1>6. CASE UNCHANGED vars
  <2>1. /\ TypeOK /\ GoneOK /\ FoundOK /\ BackupOK
        /\ UNCHANGED <<run, files, dirs, backup, phase, todo, found, deleted, picking, round,
                       misread, raced>>
    BY <1>6 DEF IInv, vars
  <2>2. GoneOK'
    BY <2>1, GoneStep DEF Known
  <2>3. MovedRoms' = MovedRoms
    BY <2>1, SameRunMoved
  <2>4. TypeOK' /\ BackupOK'
    BY <2>1 DEF TypeOK, BackupOK, IsStray, Known
  <2>5. FoundOK'
    BY <2>1, <2>3 DEF FoundOK, CleansOut, IsMoved, IsStray, Paths, TakenForEmpty, Known
  <2>6. QED
    BY <2>2, <2>4, <2>5 DEF IInv
<1>7. QED
  BY <1>1, <1>2, <1>3, <1>4, <1>5, <1>6 DEF Next

LEMMA IInvHolds == Spec => []IInv
  BY InitIInv, NextIInv, PTL DEF Spec

\* Every variable has the type its declaration gives it.
THEOREM TypeCorrect == Spec => []TypeOK
<1>1. IInv => TypeOK
  BY DEF IInv
<1>2. QED
  BY <1>1, IInvHolds, PTL

\* The golden rule of cleaning: a file disappears only as an input that was moved, or in
\* an output directory of a run that cleans, is no dry run and has written something.
THEOREM NothingElseGoes == Spec => []OnlyTheirOwn
<1>1. IInv => OnlyTheirOwn
  BY DEF IInv, GoneOK, OnlyTheirOwn, MayBeCleaned, IsMoved, CleansOut, IsStray
<1>2. QED
  BY <1>1, IInvHolds, PTL

\* No file that was written, and none excluded from cleaning that was not moved, ever
\* disappears, whatever the three modules do to one tree, and in whichever order.
THEOREM ProtectedOnesSurvive == Spec => []ProtectedSurvive
<1>1. IInv => ProtectedSurvive
  BY DEF IInv, GoneOK, ProtectedSurvive, IsMoved, IsStray
<1>2. QED
  BY <1>1, IInvHolds, PTL

-----------------------------------------------------------------------------
(* Backups.                                                                  *)

\* The threads' steps, and those that do something with a name they found free.
Picks(f) == BackUp(f) \/ NameInUse(f) \/ NameIsFree(f)
Moves(f) == MoveToBackup(f) \/ ClearBackupName(f) \/ LeaveInPlace(f)

\* Nothing else deletes for good what a run with backups cleans.
LEMMA OthersRemove ==
  ASSUME IInv, [Next]_vars, ~ \E f \in Files : Picks(f) \/ Moves(f)
  PROVE  /\ UNCHANGED <<run, backup, picking, raced>> /\ misread \subseteq misread'
         /\ \A p \in Known(files) \ files' :
              /\ IsMoved(p) \/ TakenForEmpty(p) \/ ~ run.backup
              /\ phase \in {"rm", "walk"} \/ ~ run.backup
         /\ DOMAIN picking = {} \/ (found' = found /\ todo' = todo)
         /\ phase' \in {"moved", "rm", "subdirectories", "walk", "clean"} =>
              phase \in {"moved", "rm", "subdirectories", "walk", "clean"}
         /\ phase' = "backup" => (phase = "backup" /\ todo' = todo) \/ phase = "clean"
<1>1. CASE DeleteMovedRoms \/ DeleteSubdirectories \/ WalkParents
  <2>1. /\ UNCHANGED <<run, backup, picking, raced, files>> /\ misread \subseteq misread'
        /\ phase \in {"moved", "subdirectories", "walk"}
        /\ phase' \in {"clean", "rm", "walk"}
    BY <1>1 DEF DeleteMovedRoms, DeleteSubdirectories, WalkParents
  <2>2. QED
    BY <2>1 DEF IInv, BackupOK, Known
<1>2. CASE DeleteMoved
  <2>1. /\ files' = files \ Deletable(todo) /\ UNCHANGED <<run, misread, backup, picking, raced>>
        /\ \A p \in todo : p \in Files /\ IsMoved(p)
        /\ phase = "rm" /\ phase' = "subdirectories"
    BY <1>2 DEF DeleteMoved, IInv, FoundOK
  <2>2. \A p \in Deletable(todo) : IsMoved(p)
    BY <2>1, NothingUnderFiles DEF IInv
  <2>3. QED
    BY <2>1, <2>2 DEF Known, IInv, BackupOK
<1>3. ASSUME NEW d \in Directories, WalkDirectory(d)
      PROVE  /\ UNCHANGED <<run, backup, picking, raced, files, phase>>
             /\ misread \subseteq misread' /\ phase = "walk"
  BY <1>3 DEF WalkDirectory
<1>4. ASSUME NEW d \in Directories, DeleteDirectory(d)
      PROVE  /\ UNCHANGED <<run, backup, picking, raced, misread, phase>> /\ phase = "walk"
             /\ \A p \in Known(files) \ files' : TakenForEmpty(p)
  <2>1. /\ files' = files \ Deletable({d})
        /\ UNCHANGED <<run, backup, picking, raced, misread, phase>>
        /\ d \in found /\ phase = "walk"
    BY <1>4 DEF DeleteDirectory
  <2>2. QED
    BY <2>1, DeletableLiesUnder DEF IInv, FoundOK, Known
<1>5. CASE Recycle \/ DeleteLeftovers
  <2>1. PICK ps \in SUBSET (todo \cup found) : files' = files \ Deletable(ps)
    BY <1>5 DEF Recycle, DeleteLeftovers
  <2>2. /\ UNCHANGED <<run, misread, backup, picking, raced>> /\ phase = "recycle"
        /\ phase' \in {"recycle", "empties"}
    BY <1>5 DEF Recycle, DeleteLeftovers
  <2>3. \A p \in Known(files) \ files' : ~ run.backup
    BY <2>1, <2>2, RecycledMayGo DEF Known
  <2>4. QED
    BY <2>2, <2>3 DEF IInv, BackupOK
<1>6. CASE Clean \/ FindEmptyDirs \/ BackedUp
  <2>1. /\ UNCHANGED <<run, backup, picking, raced, files, misread>>
        /\ phase \in {"clean", "empties", "backup"}
        /\ phase' \in {"done", "empties", "backup", "recycle"}
        /\ phase' = "backup" => phase = "clean"
        /\ DOMAIN picking = {} \/ phase # "backup"
    BY <1>6 DEF Clean, FindEmptyDirs, BackedUp
  <2>2. QED
    BY <2>1 DEF IInv, BackupOK, Known
<1>7. CASE UNCHANGED vars
  BY <1>7 DEF vars, Known
<1>8. ASSUME NEW d \in Directories, WalkDirectory(d) \/ DeleteDirectory(d)
      PROVE  /\ UNCHANGED <<run, backup, picking, raced, phase>> /\ misread \subseteq misread'
             /\ phase = "walk" /\ DOMAIN picking = {}
             /\ \A p \in Known(files) \ files' : TakenForEmpty(p)
  BY <1>3, <1>4, <1>8 DEF IInv, BackupOK, Known
<1>9. QED
  BY <1>1, <1>2, <1>5, <1>6, <1>7, <1>8 DEF Next, Picks, Moves

LEMMA InitBInv == Init => BInv
<1> SUFFICES ASSUME Init PROVE BInv
  OBVIOUS
<1>1. IInv
  BY InitIInv
<1>2. /\ picking = [f \in {} |-> 0] /\ backup = [b \in OldBackups |-> None]
      /\ misread = {} /\ raced = {} /\ run \in Runs
      /\ files = Files \ {m.path : m \in {n \in run.moved :
                                            ~ run.rewrites /\ n.path \notin run.written}}
  BY DEF Init
<1>3. TargetsOK
  BY <1>2 DEF TargetsOK
<1>4. RacedOK /\ OldOK
  BY <1>2, TreeAssumption DEF RacedOK, OldOK
<1>5. ASSUME NEW p \in Known(Files), p \notin files PROVE IsMoved(p)
  <2>1. PICK m \in run.moved : ~ run.rewrites /\ m.path \notin run.written /\ m.path = p
    BY <1>2, <1>5 DEF Known
  <2>2. QED
    BY <1>2, <2>1, MovedAreMoved DEF IsMoved
<1>6. KeptOK
  BY <1>5 DEF KeptOK
<1>7. QED
  BY <1>1, <1>3, <1>4, <1>6 DEF BInv

\* Who survives goes on surviving unless its file goes, and who is outlived goes on
\* being so as long as the others survive.
LEMMA KeptStep ==
  ASSUME BInv, run' = run, misread \subseteq misread', raced \subseteq raced',
         files' \subseteq files, run.backup,
         \A p \in Known(Files) : Survives(p) /\ ~ Survives(p)' =>
            IsMoved(p) \/ TakenForEmpty(p) \/ Outlived(p)',
         \A e \in raced : Survives(e[1]) /\ ~ Survives(e[1])' =>
            \E g : g \notin Known(Files) \ files /\ <<g, e[2]>> \in raced /\ Survives(g)'
  PROVE  KeptOK'
<1>1. SUFFICES ASSUME NEW p \in Known(Files), p \notin files'
               PROVE  IsMoved(p)' \/ TakenForEmpty(p)' \/ Survives(p)' \/ Outlived(p)'
  BY DEF KeptOK, Known
<1>2. IsMoved(p) \/ TakenForEmpty(p) \/ Survives(p) \/ Outlived(p)
  BY <1>1 DEF BInv, KeptOK, Survives
<1>3. CASE IsMoved(p) \/ TakenForEmpty(p)
  BY <1>3, ReasonsStay
<1>4. CASE Survives(p)
  BY <1>1, <1>4, ReasonsStay
<1>5. CASE Outlived(p) /\ ~ Survives(p)
  <2>1. PICK e \in raced : e[1] # p /\ <<p, e[2]>> \in raced /\ Survives(e[1])
    BY <1>5 DEF Outlived
  <2>2. CASE Survives(e[1])'
    BY <2>1, <2>2 DEF Outlived
  <2>3. CASE ~ Survives(e[1])'
    <3>1. PICK g : g \notin Known(Files) \ files /\ <<g, e[2]>> \in raced /\ Survives(g)'
      BY <2>1, <2>3
    <3>2. g # p
      BY <1>1, <1>5, <3>1 DEF Survives
    <3>3. <<g, e[2]>>[1] = g /\ <<g, e[2]>>[2] = e[2] /\ <<p, e[2]>> \in raced'
      BY <2>1
    <3>4. \E x \in raced' : x[1] # p /\ <<p, x[2]>> \in raced' /\ Survives(x[1])'
      BY <3>1, <3>2, <3>3
    <3>5. QED
      BY <3>4 DEF Outlived
  <2>4. QED
    BY <2>2, <2>3
<1>6. QED
  BY <1>2, <1>3, <1>4, <1>5

\* The steps of main() keep what is backed up, and what has been lost in a race.
LEMMA OthersKeep ==
  ASSUME BInv, IInv', [Next]_vars, ~ \E f \in Files : Picks(f) \/ Moves(f)
  PROVE  BInv'
<1>1. /\ UNCHANGED <<run, backup, picking, raced>> /\ misread \subseteq misread'
      /\ \A p \in Known(files) \ files' :
              /\ IsMoved(p) \/ TakenForEmpty(p) \/ ~ run.backup
              /\ phase \in {"rm", "walk"} \/ ~ run.backup
      /\ DOMAIN picking = {} \/ (found' = found /\ todo' = todo)
      /\ phase' \in {"moved", "rm", "subdirectories", "walk", "clean"} =>
              phase \in {"moved", "rm", "subdirectories", "walk", "clean"}
      /\ phase' = "backup" => (phase = "backup" /\ todo' = todo) \/ phase = "clean"
  BY OthersRemove DEF BInv
<1>2. files' \subseteq files
  BY DEF Next, vars, Picks, Moves, DeleteMovedRoms, DeleteMoved, DeleteSubdirectories,
     WalkParents, WalkDirectory, DeleteDirectory, Clean, Recycle, DeleteLeftovers, BackedUp,
     FindEmptyDirs
<1>3. TypeOK /\ TargetsOK /\ RacedOK /\ OldOK
  BY DEF BInv, IInv
<1>4. TargetsOK' /\ OldOK'
  BY <1>1, <1>3 DEF TargetsOK, OldOK, BackupName
<1>5. RacedOK'
  <2>1. ASSUME NEW e \in raced
        PROVE  /\ phase' = "backup" => e[1] \notin todo'
               /\ e[1] \in DOMAIN picking => e[1] \notin found' /\ BackupName(e[1])' = e[2]
    BY <1>1, <1>3 DEF RacedOK, BackupName
  <2>2. QED
    BY <1>1, <1>2, <1>3, <2>1 DEF RacedOK
<1>6. ASSUME run.backup PROVE KeptOK'
  <2>1. ASSUME NEW p \in Known(Files), Survives(p), ~ Survives(p)'
        PROVE  (IsMoved(p) \/ TakenForEmpty(p)) /\ phase \in {"rm", "walk"}
    BY <1>1, <1>6, <2>1 DEF Survives, Known
  <2>2. ASSUME NEW e \in raced, Survives(e[1]), ~ Survives(e[1])' PROVE FALSE
    BY <1>3, <2>1, <2>2 DEF RacedOK, TypeOK
  <2>3. QED
    BY <1>1, <1>2, <1>6, <2>1, <2>2, KeptStep
<1>7. KeptOK'
  BY <1>1, <1>6 DEF KeptOK
<1>8. QED
  BY <1>4, <1>5, <1>7 DEF BInv

\* A thread begins, or tries the next number.
LEMMA TriedNames ==
  ASSUME BInv, IInv', NEW f \in Files, BackUp(f) \/ NameInUse(f)
  PROVE  BInv'
<1>1. /\ TypeOK /\ BackupOK /\ TargetsOK /\ RacedOK /\ OldOK /\ KeptOK
      /\ UNCHANGED <<run, files, backup, phase, found, misread, raced>>
  BY DEF BInv, IInv, BackUp, NameInUse
<1>2. /\ f \in found /\ f \in DOMAIN picking' /\ phase = "backup"
      /\ \A g \in DOMAIN picking' \ {f} : g \in DOMAIN picking /\ picking'[g] = picking[g]
      /\ todo' \subseteq todo
      /\ DOMAIN picking' \ found = DOMAIN picking \ found
      /\ f \in DOMAIN picking \/ f \in todo
  BY <1>1 DEF BackUp, NameInUse, BackupOK, TypeOK
<1>3. \A g \in DOMAIN picking \ found : BackupName(g)' = BackupName(g) /\ g \in DOMAIN picking'
  BY <1>2 DEF BackupName
<1>4. TargetsOK'
  BY <1>1, <1>2, <1>3 DEF TargetsOK
<1>5. RacedOK'
  <2>1. ASSUME NEW e \in raced
        PROVE  /\ e[1] \notin todo'
               /\ e[1] \in DOMAIN picking' => e[1] \notin found /\ BackupName(e[1])' = e[2]
    <3>1. e[1] # f
      BY <1>1, <1>2 DEF RacedOK
    <3>2. QED
      BY <1>1, <1>2, <3>1 DEF RacedOK, BackupName
  <2>2. QED
    BY <1>1, <1>2, <2>1 DEF RacedOK
<1>6. OldOK'
  BY <1>1 DEF OldOK
<1>7. KeptOK'
  BY <1>1, SameRunMoved DEF KeptOK, Known, IsMoved, TakenForEmpty, Survives, Outlived
<1>8. QED
  BY <1>4, <1>5, <1>6, <1>7 DEF BInv

\* Whoever finds a name free that others have found free has raced with all of them.
LEMMA FreeNames ==
  ASSUME BInv, IInv', NEW f \in Files, NameIsFree(f)
  PROVE  BInv'
<1>1. /\ TypeOK /\ BackupOK /\ TargetsOK /\ RacedOK /\ OldOK /\ KeptOK
      /\ UNCHANGED <<run, files, backup, phase, todo, picking, misread>>
      /\ f \in DOMAIN picking /\ f \in found /\ found' = found \ {f}
      /\ BackupName(f) \notin DOMAIN backup
  BY DEF BInv, IInv, NameIsFree
<1>2. /\ \A e \in raced' : e \in raced \/ \E g \in Rivals(f) \cup {f} : e = <<g, BackupName(f)>>
      /\ raced \subseteq raced'
      /\ Rivals(f) # {} => \A g \in Rivals(f) \cup {f} : <<g, BackupName(f)>> \in raced'
  BY DEF NameIsFree
<1>3. phase = "backup" /\ DOMAIN picking \cap todo = {} /\ DOMAIN picking \subseteq files
  BY <1>1 DEF BackupOK, Known
<1>4. \A g : BackupName(g)' = BackupName(g)
  BY <1>1 DEF BackupName
<1>5. TargetsOK'
  <2>1. ASSUME NEW g \in DOMAIN picking \ found'
        PROVE  /\ BackupName(g) \notin OldBackups
               /\ BackupName(g) \in DOMAIN backup =>
                    /\ <<g, BackupName(g)>> \in raced'
                    /\ <<backup[BackupName(g)], BackupName(g)>> \in raced'
    BY <1>1, <1>2, <2>1 DEF TargetsOK, OldOK
  <2>2. ASSUME NEW g \in DOMAIN picking \ found', NEW h \in DOMAIN picking \ found',
               g # h, BackupName(g) = BackupName(h)
        PROVE  <<g, BackupName(g)>> \in raced'
    <3>1. CASE g = f
      <4>1. h \in Rivals(f)
        BY <1>1, <2>2, <3>1 DEF Rivals
      <4>2. QED
        BY <1>2, <3>1, <4>1
    <3>2. CASE h = f
      <4>1. g \in Rivals(f)
        BY <1>1, <2>2, <3>2 DEF Rivals
      <4>2. QED
        BY <1>2, <2>2, <3>2, <4>1
    <3>3. CASE g # f /\ h # f
      BY <1>1, <1>2, <2>2, <3>3 DEF TargetsOK
    <3>4. QED
      BY <3>1, <3>2, <3>3
  <2>3. QED
    BY <1>1, <1>4, <2>1, <2>2 DEF TargetsOK
<1>6. RacedOK'
  <2>1. ASSUME NEW e \in raced'
        PROVE  /\ e[1] \notin todo
               /\ e[1] \in DOMAIN picking => e[1] \notin found' /\ BackupName(e[1]) = e[2]
               /\ \A b \in DOMAIN backup : backup[b] = e[1] => b = e[2]
    <3>1. CASE e \in raced
      BY <1>1, <1>3, <3>1 DEF RacedOK
    <3>2. ASSUME NEW g \in Rivals(f) \cup {f}, e = <<g, BackupName(f)>>
          PROVE  /\ e[1] \notin todo
                 /\ e[1] \in DOMAIN picking => e[1] \notin found' /\ BackupName(e[1]) = e[2]
                 /\ \A b \in DOMAIN backup : backup[b] = e[1] => b = e[2]
      <4>1. e[1] = g /\ e[2] = BackupName(f)
        BY <3>2
      <4>2. g \in DOMAIN picking \ found' /\ BackupName(g) = BackupName(f)
        BY <1>1, <3>2 DEF Rivals
      <4>3. QED
        BY <1>1, <1>3, <4>1, <4>2 DEF RacedOK
    <3>3. QED
      BY <1>2, <3>1, <3>2
  <2>2. QED
    BY <1>1, <1>3, <1>4, <2>1 DEF RacedOK
<1>7. OldOK'
  BY <1>1 DEF OldOK
<1>8. KeptOK'
  <2>1. \A p : Survives(p)' <=> Survives(p)
    BY <1>1 DEF Survives
  <2>2. CASE run.backup
    BY <1>1, <1>2, <2>1, <2>2, KeptStep
  <2>3. QED
    BY <1>1, <2>2 DEF KeptOK
<1>9. QED
  BY <1>5, <1>6, <1>7, <1>8 DEF BInv

\* What a move replaces, or removes before it tries again, raced with the file that moves,
\* and that one survives.
LEMMA MovedNames ==
  ASSUME BInv, IInv', NEW f \in Files, Moves(f)
  PROVE  BInv'
<1> DEFINE b == BackupName(f)
<1>1. /\ TypeOK /\ BackupOK /\ TargetsOK /\ RacedOK /\ OldOK /\ KeptOK
      /\ UNCHANGED <<run, phase, todo, found, misread, raced>>
      /\ f \in DOMAIN picking \ found /\ f \in DOMAIN picking
      /\ files' \in {files, files \ {f}}
      /\ picking' \in {picking, [g \in DOMAIN picking \ {f} |-> picking[g]]}
  BY DEF BInv, IInv, Moves, MoveToBackup, ClearBackupName, LeaveInPlace
<1>2. phase = "backup" /\ f \in Known(files) /\ DOMAIN picking \subseteq files
  BY <1>1 DEF BackupOK, Known
<1>3. /\ DOMAIN picking' \subseteq DOMAIN picking
      /\ \A g \in DOMAIN picking' : BackupName(g)' = BackupName(g)
  BY <1>1 DEF BackupName
<1>4. /\ \A c \in DOMAIN backup \ {b} : c \in DOMAIN backup' /\ backup'[c] = backup[c]
      /\ \A c \in DOMAIN backup' :
           \/ c \in DOMAIN backup /\ backup'[c] = backup[c]
           \/ /\ c = b /\ backup'[c] = f /\ f \notin files' /\ f \notin DOMAIN picking'
  BY <1>1 DEF Moves, MoveToBackup, ClearBackupName, LeaveInPlace
<1>5. b \notin OldBackups
  BY <1>1 DEF TargetsOK
<1>6. Survives(f)'
  <2>1. CASE MoveToBackup(f)
    BY <2>1 DEF MoveToBackup, Survives
  <2>2. CASE ClearBackupName(f) \/ LeaveInPlace(f)
    BY <1>2, <2>2 DEF ClearBackupName, LeaveInPlace, Survives, Known
  <2>3. QED
    BY <2>1, <2>2 DEF Moves
<1> HIDE DEF b
<1>7. b = BackupName(f)
  BY DEF b
<1>8. TargetsOK'
  <2>1. ASSUME NEW g \in DOMAIN picking' \ found
        PROVE  /\ BackupName(g) \notin OldBackups
               /\ BackupName(g) \in DOMAIN backup' =>
                    /\ <<g, BackupName(g)>> \in raced
                    /\ <<backup'[BackupName(g)], BackupName(g)>> \in raced
    <3>1. CASE BackupName(g) \in DOMAIN backup' /\ backup'[BackupName(g)] = f /\ f \notin DOMAIN picking'
               /\ BackupName(g) = b
      BY <1>1, <1>3, <1>7, <2>1, <3>1 DEF TargetsOK
    <3>2. QED
      BY <1>1, <1>3, <1>4, <2>1, <3>1 DEF TargetsOK
  <2>2. QED
    BY <1>1, <1>3, <2>1 DEF TargetsOK
<1>9. RacedOK'
  <2>1. ASSUME NEW e \in raced
        PROVE  /\ e[1] \in DOMAIN picking' => e[1] \notin found /\ BackupName(e[1])' = e[2]
               /\ \A c \in DOMAIN backup' : backup'[c] = e[1] => c = e[2]
    BY <1>1, <1>3, <1>4, <1>7, <2>1 DEF RacedOK
  <2>2. \A c \in DOMAIN backup' : backup'[c] \notin files'
    BY <1>1, <1>4 DEF RacedOK
  <2>3. QED
    BY <1>1, <1>2, <2>1, <2>2 DEF RacedOK
<1>10. OldOK'
  BY <1>1, <1>4, <1>5 DEF OldOK
<1>11. ASSUME NEW p, Survives(p), ~ Survives(p)'
       PROVE  p # f /\ b \in DOMAIN backup /\ backup[b] = p
  BY <1>1, <1>4, <1>6, <1>11 DEF Survives
<1>12. ASSUME b \in DOMAIN backup
       PROVE  <<f, b>> \in raced /\ <<backup[b], b>> \in raced
  BY <1>1, <1>7, <1>12 DEF TargetsOK
<1>13. KeptOK'
  <2>1. ASSUME NEW p, Survives(p), ~ Survives(p)' PROVE Outlived(p)'
    <3>1. p # f /\ <<f, b>> \in raced' /\ <<p, b>> \in raced'
      BY <1>1, <1>11, <1>12, <2>1
    <3>2. <<f, b>>[1] = f /\ <<f, b>>[2] = b
      OBVIOUS
    <3>3. \E x \in raced' : x[1] # p /\ <<p, x[2]>> \in raced' /\ Survives(x[1])'
      BY <1>6, <3>1, <3>2
    <3>4. QED
      BY <3>3 DEF Outlived
  <2>2. ASSUME NEW e \in raced, Survives(e[1]), ~ Survives(e[1])'
        PROVE  \E g : g \notin Known(Files) \ files /\ <<g, e[2]>> \in raced /\ Survives(g)'
    <3>1. b \in DOMAIN backup /\ backup[b] = e[1]
      BY <1>11, <2>2
    <3>2. e[2] = b
      BY <1>1, <3>1, <2>2 DEF RacedOK
    <3>3. f \notin Known(Files) \ files /\ <<f, e[2]>> \in raced /\ Survives(f)'
      BY <1>2, <1>6, <1>12, <3>1, <3>2 DEF Known
    <3>4. QED
      BY <3>3
  <2>3. CASE run.backup
    BY <1>1, <2>1, <2>2, <2>3, KeptStep
  <2>4. QED
    BY <1>1, <2>3 DEF KeptOK
<1>14. QED
  BY <1>8, <1>9, <1>10, <1>13 DEF BInv

LEMMA NextBInv == BInv /\ [Next]_vars => BInv'
<1> SUFFICES ASSUME BInv, [Next]_vars PROVE BInv'
  OBVIOUS
<1>1. IInv'
  BY NextIInv DEF BInv
<1>2. CASE \E f \in Files : Picks(f) \/ Moves(f)
  BY <1>1, <1>2, TriedNames, FreeNames, MovedNames DEF Picks
<1>3. QED
  BY <1>1, <1>2, OthersKeep

\* With --clean-backup, for any number of threads and whatever moves fail, nothing that is
\* cleaned is lost, unless two threads found one name free at the same time: then a file
\* may be lost to another that did, and that one survives.  What the backup directory had
\* is left alone even then.
THEOREM BackupsKeep == Spec => []BackupKeeps
<1>1. BInv => BackupKeeps
  BY DEF BInv, KeptOK, OldOK, BackupKeeps, Outlived, Survives, IsMoved
<1>2. QED
  BY <1>1, InitBInv, NextBInv, PTL DEF Spec

-----------------------------------------------------------------------------
(* What main() hands to the cleaning, whatever the candidates are.           *)

Outputs(c) == {x.output.path : x \in Main!ToSet(c.roms)}

\* The DATs of a run are those that it started with.
DatsOK ==
  /\ DOMAIN candidates = DOMAIN stage
  /\ DOMAIN reports = DOMAIN stage

\* What is excluded and what is written, once a DAT is so far.
KnownOK ==
  \A d \in DOMAIN stage :
    /\ stage[d] \in {"collected", "written", "finished"} => Main!ExcludedPaths(candidates[d]) \subseteq excluded
    /\ stage[d] \in {"written", "finished"} /\ Main!ShouldWrite(mainRun.options) =>
         \A c \in Main!ToSet(candidates[d]) : Main!CanWrite(c) => Outputs(c) \subseteq written
    /\ IF stage[d] = "finished" THEN \A p \in reports[d].playlists : p.path \in excluded
       ELSE reports[d].playlists = {}

\* The cleaning is the last to change anything that it looks at.
CleanedOK ==
  cleaned # {} =>
    /\ mainPhase \in {"report", "done"} /\ Main!ShouldWrite(mainRun.options)
    /\ \A d \in DOMAIN stage : stage[d] = "finished"
    /\ cleaned \cap (written \cup excluded) = {}

CInv == DatsOK /\ KnownOK /\ CleanedOK

LEMMA InitCInv == Main!Init => CInv
  BY DEF Main!Init, CInv, DatsOK, KnownOK, CleanedOK, Main!NoReport

LEMMA KeptByCInv == CInv => Main!WantedAreKept
<1> SUFFICES ASSUME CInv, cleaned # {} PROVE Main!WantedAreKept
  BY DEF Main!WantedAreKept
<1>1. ASSUME NEW d \in DOMAIN candidates, NEW c \in Main!ToSet(candidates[d]), NEW x \in Main!ToSet(c.roms),
             Main!CanWrite(c) \/ ~ x.input.input
      PROVE  x.output.path \notin cleaned
  <2>1. stage[d] = "finished" /\ Main!ShouldWrite(mainRun.options)
    BY <1>1 DEF CInv, DatsOK, CleanedOK
  <2>2. CASE Main!CanWrite(c)
    BY <1>1, <2>1, <2>2 DEF CInv, DatsOK, KnownOK, CleanedOK, Outputs
  <2>3. CASE ~ x.input.input
    <3>1. x \in Main!AllRoms(candidates[d])
      BY <1>1 DEF Main!AllRoms, Main!ToSet
    <3>2. x.output.path \in excluded
      BY <1>1, <2>1, <2>3, <3>1 DEF CInv, DatsOK, KnownOK, Main!ExcludedPaths
    <3>3. QED
      BY <3>2 DEF CInv, CleanedOK
  <2>4. QED
    BY <1>1, <2>2, <2>3
<1>2. ASSUME NEW d \in DOMAIN reports, NEW p \in reports[d].playlists
      PROVE  p.path \notin cleaned
  BY <1>2 DEF CInv, DatsOK, KnownOK, CleanedOK
<1>3. QED
  BY <1>1, <1>2 DEF Main!WantedAreKept

\* A step of one DAT before it is collected.
LEMMA EarlyStep ==
  ASSUME CInv, NEW d \in DOMAIN stage, stage[d] \in {"waiting", "generated", "corrected", "placed"},
         NEW to \in {"generated", "corrected", "placed", "valid", "refused"},
         stage' = [stage EXCEPT ![d] = to], NEW new, candidates' = [candidates EXCEPT ![d] = new],
         UNCHANGED <<mainRun, mainPhase, reports, excluded, written, cleaned>>
  PROVE  CInv'
<1>1. DatsOK'
  BY DEF CInv, DatsOK
<1>2. KnownOK'
  BY <1>1 DEF CInv, DatsOK, KnownOK
<1>3. CleanedOK'
  BY DEF CInv, CleanedOK
<1>4. QED
  BY <1>1, <1>2, <1>3 DEF CInv

LEMMA CollectOutputsCInv ==
  ASSUME CInv, NEW d \in DOMAIN stage, Main!CollectOutputs(d)
  PROVE  CInv'
<1>1. /\ stage[d] \in {"valid", "refused"} /\ stage' = [stage EXCEPT ![d] = "collected"]
      /\ excluded' = excluded \cup Main!ExcludedPaths(candidates[d])
      /\ UNCHANGED <<mainRun, mainPhase, candidates, reports, written, cleaned>>
  BY DEF Main!CollectOutputs, Main!Step
<1>2. DatsOK'
  BY <1>1 DEF CInv, DatsOK
<1>3. KnownOK'
  BY <1>1, <1>2 DEF CInv, DatsOK, KnownOK
<1>4. CleanedOK'
  BY <1>1 DEF CInv, CleanedOK
<1>5. QED
  BY <1>2, <1>3, <1>4 DEF CInv

LEMMA WriteDatCInv ==
  ASSUME CInv, NEW d \in DOMAIN stage, Main!WriteDat(d)
  PROVE  CInv'
<1>1. /\ stage[d] = "collected" /\ stage' = [stage EXCEPT ![d] = "written"]
      /\ written \subseteq written'
      /\ UNCHANGED <<mainRun, mainPhase, candidates, reports, excluded, cleaned>>
  BY DEF Main!WriteDat, Main!Step
<1>2. Main!ShouldWrite(mainRun.options) => \A c \in Main!ToSet(candidates[d]) : Main!CanWrite(c) => Outputs(c) \subseteq written'
  BY DEF Main!WriteDat, Outputs
<1>3. DatsOK'
  BY <1>1 DEF CInv, DatsOK
<1>4. KnownOK'
  BY <1>1, <1>2, <1>3 DEF CInv, DatsOK, KnownOK
<1>5. CleanedOK'
  BY <1>1 DEF CInv, CleanedOK
<1>6. QED
  BY <1>3, <1>4, <1>5 DEF CInv

LEMMA FinishDatCInv ==
  ASSUME CInv, NEW d \in DOMAIN stage, Main!FinishDat(d)
  PROVE  CInv'
<1>1. /\ mainPhase = "dats" /\ stage[d] = "written" /\ stage' = [stage EXCEPT ![d] = "finished"]
      /\ UNCHANGED <<mainRun, mainPhase, candidates, written, cleaned>>
  BY DEF Main!FinishDat
<1>2. PICK made : /\ reports' = [reports EXCEPT ![d] = made]
                  /\ excluded' = excluded \cup {p.path : p \in made.playlists}
  BY DEF Main!FinishDat
<1>3. DatsOK'
  BY <1>1, <1>2 DEF CInv, DatsOK
<1>4. KnownOK'
  BY <1>1, <1>2, <1>3 DEF CInv, DatsOK, KnownOK
<1>5. CleanedOK'
  BY <1>1 DEF CInv, CleanedOK
<1>6. QED
  BY <1>3, <1>4, <1>5 DEF CInv

LEMMA NextCInv ==
  ASSUME CInv, [Main!Next]_(Main!vars)
  PROVE  CInv'
<1>1. CASE Main!ScanFiles \/ Main!Report \/ (\E d \in DOMAIN stage : Main!Abort(d)) \/ UNCHANGED Main!vars
  <2>1. UNCHANGED <<mainRun, stage, candidates, reports, excluded, written, cleaned>>
    BY <1>1 DEF Main!ScanFiles, Main!Report, Main!Abort, Main!vars
  <2>2. cleaned # {} => mainPhase' \in {"report", "done"}
    BY <1>1 DEF Main!ScanFiles, Main!Report, Main!Abort, Main!vars, CInv, CleanedOK
  <2>3. QED
    BY <2>1, <2>2 DEF CInv, DatsOK, KnownOK, CleanedOK
<1>2. CASE \E d \in DOMAIN stage : Main!GenerateDat(d)
  BY <1>2, EarlyStep DEF Main!GenerateDat, Main!Step
<1>3. CASE \E d \in DOMAIN stage : Main!CorrectDat(d)
  BY <1>3, EarlyStep DEF Main!CorrectDat, Main!Step
<1>4. CASE \E d \in DOMAIN stage : Main!PlaceDat(d)
  BY <1>4, EarlyStep DEF Main!PlaceDat, Main!Step
<1>5. CASE \E d \in DOMAIN stage : Main!ValidateDat(d)
  BY <1>5, EarlyStep DEF Main!ValidateDat, Main!Step
<1>6. CASE Main!Clean
  <2>1. /\ UNCHANGED <<mainRun, stage, candidates, reports, excluded, written>>
        /\ mainPhase' = "report" /\ \A d \in DOMAIN stage : stage[d] = "finished"
        /\ cleaned' # {} => Main!ShouldWrite(mainRun.options)
        /\ cleaned' \cap (written \cup excluded) = {}
    BY <1>6 DEF Main!Clean, Main!Finished
  <2>2. QED
    BY <2>1 DEF CInv, DatsOK, KnownOK, CleanedOK
<1>7. QED
  BY <1>1, <1>2, <1>3, <1>4, <1>5, <1>6, CollectOutputsCInv, WriteDatCInv, FinishDatCInv DEF Main!Next

\* What is written for any DAT survives the cleaning, and so does what lies where a DAT
\* wants a file that only the output directory has, and every playlist: each DAT names
\* them before it is finished, and the cleaning waits until all DATs are.
THEOREM MatchedOnesAreKept == Main!Spec => []Main!WantedAreKept
<1>1. CInv /\ [Main!Next]_(Main!vars) => CInv'
  BY NextCInv
<1>2. QED
  BY <1>1, InitCInv, KeptByCInv, PTL DEF Main!Spec

=============================================================================
