---------------------------- MODULE CacheFileProofs ----------------------------
(* Theorems about CacheFile, for any finite set of timers and any bounds.      *)
EXTENDS CacheFile, TLAPS

InMutex == {"preparing", "writing", "replacing", "retrying", "replaced", "discarding", "leaving"}

\* saveMutex: who is inside holds it, who holds it is inside or about to be, and
\* the others that were not served wait, each once.
MutexOK ==
    /\ \A s \in Savers : saver[s] \in InMutex => saveHolder = s
    /\ saveHolder # None => saver[saveHolder] \in InMutex \cup {"waiting"}
    /\ \A i \in DOMAIN saveQueue :
          saver[saveQueue[i]] = "waiting" /\ saveQueue[i] # saveHolder
    /\ \A i, j \in DOMAIN saveQueue : saveQueue[i] = saveQueue[j] => i = j
    /\ saveQueue # <<>> => saveHolder # None

\* What is about to be written is not older than the file nor newer than the memory,
\* and is all there is while the flag is down.
FlagOK ==
    \A s \in Savers :
        Writing(s) =>
            /\ disk <= snapshot[s] /\ snapshot[s] <= changes
            /\ hasChanged \/ snapshot[s] = changes

DiskOK == Up => disk <= changes

\* When main() is over no timer is left to fire, and the save on exit is alone: it
\* takes all there is, and has it on disk when it is done.
ExitOK ==
    /\ phase \in {"running", "ending"} => saver[Exit] = "idle"
    /\ phase \in {"ending", "exiting"} => \A t \in Timers : timer[t] # "armed"
    /\ phase = "exiting" =>
          /\ \A t \in Timers : saver[t] = "idle"
          /\ Writing(Exit) => snapshot[Exit] = changes
          /\ saver[Exit] \in {"replaced", "leaving", "returned"} => disk = changes \/ ioFailed

IInv ==
    /\ TypeOK /\ MutexOK /\ FlagOK /\ DiskOK /\ ExitOK
    /\ NoChangeForgotten /\ CleanExitSavesAll

\* The empty queue is a queue of savers.
LEMMA EmptyQueue == <<>> \in Seq(Savers)
  OBVIOUS

USE DEF Savers, Up

\* The invariant holds at first.
LEMMA InitInv == Init => IInv
  <1> SUFFICES ASSUME Init PROVE IInv
    OBVIOUS
  <1>1. TypeOK
    <2>1. 0 \in 0..MaxChanges /\ 0 \in 0..MaxRestarts
      BY BoundsAssumption
    <2>2. /\ timer \in [Timers -> {"free", "armed", "fired"}]
          /\ saver \in [Savers -> SaverStates]
          /\ \A t \in Timers : timer[t] = "fired" <=> saver[t] # "idle"
      BY DEF Init, SaverStates
    <2>3. snapshot \in [Savers -> 0..MaxChanges] /\ asked \in [Savers -> 0..MaxChanges]
      BY <2>1 DEF Init
    <2>4. /\ phase \in Phases /\ changes \in 0..MaxChanges /\ hasChanged \in BOOLEAN
          /\ saveToFileTimeout \in Timers \cup {None} /\ saveHolder \in Savers \cup {None}
          /\ disk \in 0..MaxChanges /\ ioFailed \in BOOLEAN /\ restarts \in 0..MaxRestarts
      BY <2>1 DEF Init, Phases
    <2>5. saveQueue \in Seq(Savers)
      BY EmptyQueue DEF Init
    <2> QED
      BY <2>1, <2>2, <2>3, <2>4, <2>5 DEF TypeOK
  <1>2. MutexOK
    BY DEF Init, MutexOK, InMutex
  <1>3. FlagOK /\ DiskOK
    BY DEF Init, FlagOK, DiskOK, Writing
  <1>4. ExitOK /\ NoChangeForgotten /\ CleanExitSavesAll
    BY DEF Init, ExitOK, Writing, NoChangeForgotten, CleanExitSavesAll
  <1> QED
    BY <1>1, <1>2, <1>3, <1>4 DEF IInv

-----------------------------------------------------------------------------
(* The type, and the mutex.                                                  *)

\* A saver that is inside goes on inside.
LEMMA MutexWalk ==
  ASSUME TypeOK, MutexOK, NEW s \in Savers, NEW to \in InMutex,
         saver[s] \in InMutex, saver' = [saver EXCEPT ![s] = to], UNCHANGED mutexVars
  PROVE  MutexOK'
  <1>1. saver'[s] = to /\ \A r \in Savers \ {s} : saver'[r] = saver[r]
    BY DEF TypeOK
  <1>2. saveHolder = s
    BY DEF MutexOK
  <1>3. \A i \in DOMAIN saveQueue : saveQueue[i] \in Savers
    BY DEF TypeOK
  <1> QED
    BY <1>1, <1>2, <1>3 DEF MutexOK, mutexVars

\* An idle saver asks for the mutex.
LEMMA MutexCall ==
  ASSUME TypeOK, MutexOK, NEW s \in Savers, saver[s] = "idle", CallSave(s)
  PROVE  MutexOK' /\ saver' \in [Savers -> SaverStates] /\ asked' \in [Savers -> 0..MaxChanges]
         /\ saveHolder' \in Savers \cup {None} /\ saveQueue' \in Seq(Savers)
  <1>1. saver'[s] = "waiting" /\ \A r \in Savers \ {s} : saver'[r] = saver[r]
    BY DEF TypeOK, CallSave
  <1>2. saver' \in [Savers -> SaverStates] /\ asked' \in [Savers -> 0..MaxChanges]
    BY DEF TypeOK, CallSave, SaverStates
  <1>3. saveQueue \in Seq(Savers) /\ \A i \in DOMAIN saveQueue : saveQueue[i] \in Savers \ {s}
    BY DEF TypeOK, MutexOK
  <1>4. CASE saveHolder = None
    <2>1. saveHolder' = s /\ saveQueue' = saveQueue /\ saveQueue = <<>>
      BY <1>4 DEF CallSave, MutexOK
    <2>2. MutexOK'
      BY <2>1, <1>1, <1>4, TimersAssumption DEF MutexOK, InMutex
    <2> QED
      BY <2>1, <2>2, <1>2, <1>3
  <1>5. CASE saveHolder # None
    <2>1. saveHolder' = saveHolder /\ saveQueue' = Append(saveQueue, s)
      BY <1>5 DEF CallSave
    <2>2. /\ saveQueue' \in Seq(Savers) /\ Len(saveQueue') = Len(saveQueue) + 1
          /\ saveQueue'[Len(saveQueue) + 1] = s
          /\ \A i \in 1..Len(saveQueue) : saveQueue'[i] = saveQueue[i]
      BY <2>1, <1>3
    <2>3. saveHolder \in Savers \ {s}
      BY <1>5, TimersAssumption DEF TypeOK, MutexOK, InMutex
    <2>4. \A i \in DOMAIN saveQueue' : saver'[saveQueue'[i]] = "waiting" /\ saveQueue'[i] # saveHolder'
      BY <2>1, <2>2, <2>3, <1>1, <1>3 DEF MutexOK
    <2>5. \A i, j \in DOMAIN saveQueue' : saveQueue'[i] = saveQueue'[j] => i = j
      BY <2>2, <1>3 DEF MutexOK
    <2>6. /\ \A r \in Savers : saver'[r] \in InMutex => saveHolder' = r
          /\ saver'[saveHolder'] \in InMutex \cup {"waiting"}
      BY <2>1, <2>3, <1>1, <1>5 DEF MutexOK, InMutex
    <2>7. MutexOK'
      BY <2>1, <2>4, <2>5, <2>6, <1>5 DEF MutexOK
    <2> QED
      BY <2>1, <2>2, <2>7, <1>2 DEF TypeOK
  <1> QED
    BY <1>4, <1>5

\* The holder goes, and the first of the queue has the mutex.
LEMMA MutexLeave ==
  ASSUME TypeOK, MutexOK, NEW s \in Savers, Leave(s)
  PROVE  MutexOK' /\ saveHolder' \in Savers \cup {None} /\ saveQueue' \in Seq(Savers)
  <1>1. saver'[s] = "returned" /\ \A r \in Savers \ {s} : saver'[r] = saver[r]
    BY DEF TypeOK, Leave, Walk
  <1>2. saveHolder = s
    BY DEF MutexOK, Leave, Walk, InMutex
  <1>3. \A r \in Savers : saver'[r] \notin InMutex
    BY <1>1, <1>2 DEF MutexOK, InMutex
  <1>4. CASE saveQueue = <<>>
    BY <1>3, <1>4 DEF Leave, MutexOK
  <1>5. CASE saveQueue # <<>>
    <2>1. saveQueue \in Seq(Savers) /\ 1 \in DOMAIN saveQueue
      BY <1>5 DEF TypeOK
    <2>2. saveHolder' = saveQueue[1] /\ saveHolder' \in Savers
      BY <1>5, <2>1 DEF Leave
    <2>3. /\ saveQueue' \in Seq(Savers) /\ Len(saveQueue') = Len(saveQueue) - 1
          /\ \A i \in 1..Len(saveQueue') : saveQueue'[i] = saveQueue[i + 1]
      BY <1>5, <2>1 DEF Leave
    <2>4. \A i \in DOMAIN saveQueue : saver'[saveQueue[i]] = "waiting"
      BY <1>1, <1>2, <2>1 DEF MutexOK
    <2>5. ASSUME NEW i \in DOMAIN saveQueue'
          PROVE  saver'[saveQueue'[i]] = "waiting" /\ saveQueue'[i] # saveHolder'
      <3>1. i + 1 \in DOMAIN saveQueue /\ i + 1 # 1 /\ saveQueue'[i] = saveQueue[i + 1]
        BY <2>1, <2>3
      <3> QED
        BY <3>1, <2>1, <2>2, <2>4 DEF MutexOK
    <2>6. ASSUME NEW i \in DOMAIN saveQueue', NEW j \in DOMAIN saveQueue',
                 saveQueue'[i] = saveQueue'[j]
          PROVE  i = j
      <3>1. /\ i + 1 \in DOMAIN saveQueue /\ j + 1 \in DOMAIN saveQueue
            /\ saveQueue[i + 1] = saveQueue[j + 1]
        BY <2>1, <2>3, <2>6
      <3>2. i + 1 = j + 1
        BY <3>1 DEF MutexOK
      <3> QED
        BY <3>2, <2>3
    <2>7. saver'[saveHolder'] = "waiting" /\ saveHolder' # None
      BY <2>1, <2>2, <2>4, TimersAssumption
    <2> QED
      BY <2>2, <2>3, <2>5, <2>6, <2>7, <1>3 DEF MutexOK
  <1> QED
    BY <1>4, <1>5

\* The waiters go, the holder stays.
LEMMA MutexCancel ==
  ASSUME TypeOK, MutexOK, NEW s \in Savers, CancelWaiters(s)
  PROVE  /\ MutexOK' /\ saver' \in [Savers -> SaverStates]
         /\ saver'[s] = "leaving"
         /\ \A r \in Savers \ {s} :
               saver'[r] = saver[r] \/ (saver[r] = "waiting" /\ saver'[r] = "returned")
  <1>1. saveHolder = s
    BY DEF MutexOK, CancelWaiters, InMutex
  <1>2. saver' \in [Savers -> SaverStates] /\ saver'[s] = "leaving"
    BY DEF TypeOK, CancelWaiters, SaverStates
  <1>3. ASSUME NEW r \in Savers \ {s}
        PROVE  saver'[r] = saver[r] \/ (saver[r] = "waiting" /\ saver'[r] = "returned")
    BY DEF CancelWaiters, MutexOK
  <1>4. MutexOK'
    BY <1>1, <1>2, <1>3 DEF MutexOK, CancelWaiters, InMutex
  <1> QED
    BY <1>2, <1>3, <1>4

-----------------------------------------------------------------------------
(* The actions.                                                              *)

\* What follows from the rest of the invariant: all but the first saver inside
\* has nothing to write.
LEMMA OneWriter ==
  ASSUME MutexOK, NEW s \in Savers, saver[s] \in InMutex, NEW r \in Savers, Writing(r)
  PROVE  r = s
  BY DEF MutexOK, Writing, InMutex

\* The cache changes, and a timer is set if none is.
LEMMA ChangeInv ==
  ASSUME IInv, Change
  PROVE  IInv'
  <1>1. TypeOK'
    <2>1. changes' \in 0..MaxChanges
      BY BoundsAssumption DEF IInv, TypeOK, Change
    <2>2. /\ timer' \in [Timers -> {"free", "armed", "fired"}]
          /\ saveToFileTimeout' \in Timers \cup {None}
          /\ \A t \in Timers : timer'[t] = "fired" <=> timer[t] = "fired"
      BY DEF IInv, TypeOK, Change, timerVars
    <2> QED
      BY <2>1, <2>2 DEF IInv, TypeOK, Change, mutexVars, historyVars
  <1>2. MutexOK'
    BY DEF IInv, MutexOK, Change, mutexVars
  <1>3. FlagOK'
    BY DEF IInv, FlagOK, Writing, TypeOK, Change
  <1>4. NoChangeForgotten' /\ CleanExitSavesAll'
    BY DEF IInv, NoChangeForgotten, CleanExitSavesAll, Change
  <1>5. DiskOK'
    BY DEF IInv, DiskOK, Change, TypeOK
  <1>6. ExitOK'
    BY DEF IInv, ExitOK, Change
  <1> QED
    BY <1>1, <1>2, <1>3, <1>4, <1>5, <1>6 DEF IInv

\* The timer fires, and its callback asks for the mutex.
LEMMA FireInv ==
  ASSUME IInv, NEW t \in Timers, Fire(t)
  PROVE  IInv'
  <1>1. saver[t] = "idle" /\ phase = "running"
    BY DEF IInv, TypeOK, ExitOK, Fire
  <1>2. /\ MutexOK' /\ saver' \in [Savers -> SaverStates] /\ asked' \in [Savers -> 0..MaxChanges]
        /\ saveHolder' \in Savers \cup {None} /\ saveQueue' \in Seq(Savers)
    BY <1>1, MutexCall DEF IInv, Fire
  <1>3. saver'[t] = "waiting" /\ \A r \in Savers \ {t} : saver'[r] = saver[r]
    BY DEF IInv, TypeOK, Fire, CallSave
  <1>4. timer'[t] = "fired" /\ \A u \in Timers \ {t} : timer'[u] = timer[u]
    BY DEF IInv, TypeOK, Fire
  <1>5. TypeOK'
    BY <1>2, <1>3, <1>4 DEF IInv, TypeOK, Fire, memoryVars
  <1>6. \A s \in Savers : Writing(s)' <=> Writing(s)
    BY <1>1, <1>3 DEF Writing
  <1>7. FlagOK' /\ NoChangeForgotten' /\ CleanExitSavesAll' /\ DiskOK'
    BY <1>6 DEF IInv, FlagOK, NoChangeForgotten, CleanExitSavesAll, DiskOK, Fire, memoryVars
  <1>8. ExitOK'
    BY <1>1, <1>3, TimersAssumption DEF IInv, ExitOK, Fire
  <1> QED
    BY <1>2, <1>5, <1>7, <1>8 DEF IInv

\* A saver that has the mutex takes the flag down, or finds nothing to do.
LEMMA BeginSaveInv ==
  ASSUME IInv, NEW s \in Savers, BeginSave(s)
  PROVE  IInv'
  <1> USE DEF BeginSave
  <1>1. PICK to \in {"leaving", "preparing"} :
          /\ saver' = [saver EXCEPT ![s] = to]
          /\ hasChanged' = FALSE
          /\ to = "leaving" => ~hasChanged /\ snapshot' = snapshot
          /\ to = "preparing" => snapshot' = [snapshot EXCEPT ![s] = changes]
    BY DEF IInv, TypeOK
  <1>2. saver'[s] = to /\ \A r \in Savers \ {s} : saver'[r] = saver[r]
    BY <1>1 DEF IInv, TypeOK
  <1>3. \A r \in Savers \ {s} : saver[r] \notin InMutex /\ ~Writing(r) /\ ~Writing(r)'
    BY <1>2 DEF IInv, MutexOK, Writing, InMutex
  <1>4. TypeOK'
    <2>1. snapshot' \in [Savers -> 0..MaxChanges]
      BY <1>1 DEF IInv, TypeOK
    <2>2. saver' \in [Savers -> SaverStates]
      BY <1>1 DEF IInv, TypeOK, SaverStates
    <2>3. /\ timer' \in [Timers -> {"free", "armed", "fired"}]
          /\ \A t \in Timers : timer'[t] = "fired" <=> timer[t] = "fired"
      BY DEF IInv, TypeOK
    <2>4. \A t \in Timers : timer'[t] = "fired" <=> saver'[t] # "idle"
      BY <1>2, <2>3 DEF IInv, TypeOK
    <2> QED
      BY <1>1, <2>1, <2>2, <2>3, <2>4 DEF IInv, TypeOK, mutexVars, historyVars
  <1>5. MutexOK'
    <2>1. \A i \in DOMAIN saveQueue : saveQueue[i] \in Savers \ {s}
      BY DEF IInv, TypeOK, MutexOK
    <2> QED
      BY <1>2, <1>3, <2>1 DEF IInv, MutexOK, InMutex, mutexVars
  <1>6. ~hasChanged => disk = changes
    BY <1>3 DEF IInv, NoChangeForgotten, Writing
  <1>7. to = "preparing" => snapshot'[s] = changes
    BY <1>1 DEF IInv, TypeOK
  <1>8. FlagOK' /\ DiskOK'
    BY <1>2, <1>3, <1>7 DEF IInv, FlagOK, DiskOK, TypeOK, Writing, memoryVars
  <1>9. NoChangeForgotten'
    BY <1>1, <1>2, <1>6, <1>7 DEF NoChangeForgotten, Writing
  <1>10. CleanExitSavesAll'
    BY DEF IInv, CleanExitSavesAll
  <1>11. ExitOK'
    <2>1. phase \in {"running", "ending"} => s # Exit /\ saver'[Exit] = "idle"
      BY <1>2 DEF IInv, ExitOK
    <2>2. \A t \in Timers : timer'[t] = "armed" => timer[t] = "armed"
      BY DEF IInv, TypeOK
    <2>3. phase = "exiting" => s = Exit
      BY DEF IInv, ExitOK
    <2>4. ASSUME phase = "exiting"
          PROVE  /\ \A t \in Timers : saver'[t] = "idle"
                 /\ Writing(Exit)' => snapshot'[Exit] = changes
                 /\ saver'[Exit] \in {"replaced", "leaving", "returned"} => disk = changes
      BY <2>3, <2>4, <1>1, <1>2, <1>6, <1>7, TimersAssumption DEF IInv, ExitOK, Writing
    <2> QED
      BY <2>1, <2>2, <2>4 DEF IInv, ExitOK, historyVars
  <1> QED
    BY <1>4, <1>5, <1>8, <1>9, <1>10, <1>11 DEF IInv

\* The steps of a save that leave the file and the flag alone.
LEMMA QuietInv ==
  ASSUME IInv, NEW s \in Savers, Prepare(s) \/ WriteTemp(s)
  PROVE  IInv'
  <1>1. PICK to \in {"writing", "replacing", "discarding"} :
          Writing(s) /\ saver[s] \in InMutex /\ saver' = [saver EXCEPT ![s] = to]
    BY DEF Prepare, WriteTemp, Walk, Writing, InMutex
  <1>2. UNCHANGED <<phase, memoryVars, timerVars, mutexVars, snapshot, disk, historyVars, restarts>>
    BY DEF Prepare, WriteTemp
  <1>3. saver'[s] = to /\ \A r \in Savers \ {s} : saver'[r] = saver[r]
    BY <1>1 DEF IInv, TypeOK
  <1>4. MutexOK'
    BY <1>1, <1>2, MutexWalk DEF IInv, InMutex
  <1>5. saver' \in [Savers -> SaverStates]
    BY <1>1 DEF IInv, TypeOK, SaverStates
  <1>6. TypeOK'
    BY <1>1, <1>2, <1>3, <1>5
    DEF IInv, TypeOK, memoryVars, timerVars, mutexVars, historyVars, InMutex
  <1>7. \A r \in Savers : Writing(r)' <=> Writing(r)
    BY <1>1, <1>3 DEF Writing
  <1>8. FlagOK' /\ DiskOK' /\ NoChangeForgotten' /\ CleanExitSavesAll'
    BY <1>2, <1>7 DEF IInv, FlagOK, DiskOK, NoChangeForgotten, CleanExitSavesAll, memoryVars, historyVars
  <1>9. ExitOK'
    BY <1>1, <1>2, <1>3, <1>7 DEF IInv, ExitOK, memoryVars, timerVars, historyVars, InMutex
  <1> QED
    BY <1>4, <1>6, <1>8, <1>9 DEF IInv

\* The temporary file replaces the cache file.
LEMMA RenameInv ==
  ASSUME IInv, NEW s \in Savers, Rename(s)
  PROVE  IInv'
  <1>1. Writing(s) /\ saver[s] \in InMutex /\ saver' = [saver EXCEPT ![s] = "replaced"]
    BY DEF Rename, Walk, Writing, InMutex
  <1>2. saver'[s] = "replaced" /\ \A r \in Savers \ {s} : saver'[r] = saver[r]
    BY <1>1 DEF IInv, TypeOK
  <1>3. \A r \in Savers : ~Writing(r)'
    BY <1>1, <1>2, OneWriter DEF IInv, Writing
  <1>4. MutexOK'
    BY <1>1, MutexWalk DEF IInv, Rename, InMutex
  <1>5. saver' \in [Savers -> SaverStates] /\ disk' \in 0..MaxChanges
    BY <1>1 DEF IInv, TypeOK, SaverStates, Rename
  <1>6. TypeOK'
    BY <1>1, <1>2, <1>5 DEF IInv, TypeOK, memoryVars, timerVars, mutexVars, InMutex, Rename
  <1>7. FlagOK'
    BY <1>3 DEF FlagOK
  <1>8. snapshot[s] <= changes /\ (hasChanged \/ snapshot[s] = changes)
    BY <1>1 DEF IInv, FlagOK
  <1>9. DiskOK' /\ NoChangeForgotten'
    BY <1>8 DEF Rename, DiskOK, NoChangeForgotten, memoryVars
  <1>10. CleanExitSavesAll'
    BY DEF CleanExitSavesAll, Rename, Walk
  <1>11. ExitOK'
    BY <1>1, <1>2, <1>3 DEF IInv, ExitOK, Rename, memoryVars, timerVars, InMutex
  <1> QED
    BY <1>4, <1>6, <1>7, <1>9, <1>10, <1>11 DEF IInv

\* The rename fails, once or for good.
LEMMA RenameFailsInv ==
  ASSUME IInv, NEW s \in Savers, RenameFails(s)
  PROVE  IInv'
  <1>1. PICK to \in {"retrying", "discarding"} :
          /\ Writing(s) /\ saver[s] \in InMutex /\ saver' = [saver EXCEPT ![s] = to]
          /\ disk' \in {disk, 0}
    BY DEF RenameFails, Walk, Writing, InMutex
  <1>2. UNCHANGED <<phase, memoryVars, timerVars, mutexVars, snapshot, historyVars, restarts>> /\ Up
    BY DEF RenameFails, Walk
  <1>3. saver'[s] = to /\ \A r \in Savers \ {s} : saver'[r] = saver[r]
    BY <1>1 DEF IInv, TypeOK
  <1>4. MutexOK'
    BY <1>1, <1>2, MutexWalk DEF IInv, InMutex
  <1>5. saver' \in [Savers -> SaverStates] /\ disk' \in 0..MaxChanges /\ disk' <= disk
    BY <1>1, BoundsAssumption DEF IInv, TypeOK, SaverStates
  <1>6. TypeOK'
    BY <1>1, <1>2, <1>3, <1>5
    DEF IInv, TypeOK, memoryVars, timerVars, mutexVars, historyVars, InMutex
  <1>7. \A r \in Savers : Writing(r)' <=> Writing(r)
    BY <1>1, <1>3 DEF Writing
  <1>8. FlagOK' /\ DiskOK'
    BY <1>1, <1>2, <1>5, <1>7 DEF IInv, TypeOK, FlagOK, DiskOK, memoryVars
  <1>9. NoChangeForgotten' /\ CleanExitSavesAll'
    BY <1>1, <1>2, <1>7 DEF IInv, FlagOK, NoChangeForgotten, CleanExitSavesAll, memoryVars
  <1>10. ExitOK'
    <2>1. phase = "exiting" => s = Exit
      BY <1>1 DEF IInv, ExitOK, Writing
    <2> QED
      BY <1>1, <1>2, <1>3, <1>7, <2>1 DEF IInv, ExitOK, memoryVars, timerVars, InMutex
  <1> QED
    BY <1>4, <1>6, <1>8, <1>9, <1>10 DEF IInv

\* The temporary file is removed, and the flag raised again.
LEMMA DiscardInv ==
  ASSUME IInv, NEW s \in Savers, Discard(s)
  PROVE  IInv'
  <1>1. saver[s] \in InMutex /\ saver' = [saver EXCEPT ![s] = "leaving"] /\ saver[s] = "discarding"
    BY DEF Discard, Walk, InMutex
  <1>2. saver'[s] = "leaving" /\ \A r \in Savers \ {s} : saver'[r] = saver[r]
    BY <1>1 DEF IInv, TypeOK
  <1>3. MutexOK'
    BY <1>1, MutexWalk DEF IInv, Discard, InMutex
  <1>4. saver' \in [Savers -> SaverStates]
    BY <1>1 DEF IInv, TypeOK, SaverStates
  <1>5. TypeOK'
    BY <1>1, <1>2, <1>4 DEF IInv, TypeOK, timerVars, mutexVars, Discard
  <1>6. \A r \in Savers : Writing(r)' => Writing(r)
    BY <1>1, <1>2 DEF Writing
  <1>7. FlagOK' /\ DiskOK' /\ NoChangeForgotten' /\ CleanExitSavesAll'
    BY <1>6 DEF IInv, FlagOK, DiskOK, NoChangeForgotten, CleanExitSavesAll, Discard, Walk
  <1>8. ExitOK'
    BY <1>1, <1>2, <1>6 DEF IInv, ExitOK, Discard, timerVars
  <1> QED
    BY <1>3, <1>5, <1>7, <1>8 DEF IInv

\* The savers that wait are told not to.
LEMMA CancelWaitersInv ==
  ASSUME IInv, NEW s \in Savers, CancelWaiters(s)
  PROVE  IInv'
  <1>1. /\ MutexOK' /\ saver' \in [Savers -> SaverStates]
        /\ saver[s] = "replaced" /\ saver'[s] = "leaving"
        /\ \A r \in Savers \ {s} :
              saver'[r] = saver[r] \/ (saver[r] = "waiting" /\ saver'[r] = "returned")
    BY MutexCancel DEF IInv, CancelWaiters
  <1>2. saveQueue' \in Seq(Savers)
    BY DEF CancelWaiters
  <1>3. \A r \in Savers : (saver'[r] = "idle" <=> saver[r] = "idle") /\ (Writing(r)' <=> Writing(r))
    BY <1>1 DEF Writing
  <1>4. TypeOK'
    BY <1>1, <1>2, <1>3 DEF IInv, TypeOK, CancelWaiters, memoryVars, timerVars, historyVars
  <1>5. FlagOK' /\ DiskOK' /\ NoChangeForgotten' /\ CleanExitSavesAll'
    BY <1>3 DEF IInv, FlagOK, DiskOK, NoChangeForgotten, CleanExitSavesAll, CancelWaiters,
                memoryVars, historyVars
  <1>6. ExitOK'
    <2>1. phase = "exiting" => s = Exit
      BY <1>1 DEF IInv, ExitOK
    <2> QED
      BY <1>1, <1>3, <2>1 DEF IInv, ExitOK, CancelWaiters, memoryVars, timerVars, historyVars
  <1> QED
    BY <1>1, <1>4, <1>5, <1>6 DEF IInv

\* A saver hands the mutex on.
LEMMA LeaveInv ==
  ASSUME IInv, NEW s \in Savers, Leave(s)
  PROVE  IInv'
  <1>1. saver[s] = "leaving" /\ saver' = [saver EXCEPT ![s] = "returned"]
    BY DEF Leave, Walk
  <1>2. saver'[s] = "returned" /\ \A r \in Savers \ {s} : saver'[r] = saver[r]
    BY <1>1 DEF IInv, TypeOK
  <1>3. MutexOK' /\ saveHolder' \in Savers \cup {None} /\ saveQueue' \in Seq(Savers)
    BY MutexLeave DEF IInv
  <1>4. saver' \in [Savers -> SaverStates]
    BY <1>1 DEF IInv, TypeOK, SaverStates
  <1>5. TypeOK'
    BY <1>1, <1>2, <1>3, <1>4 DEF IInv, TypeOK, memoryVars, timerVars, historyVars, Leave
  <1>6. \A r \in Savers : Writing(r)' <=> Writing(r)
    BY <1>1, <1>2 DEF Writing
  <1>7. FlagOK' /\ DiskOK' /\ NoChangeForgotten' /\ CleanExitSavesAll'
    BY <1>6 DEF IInv, FlagOK, DiskOK, NoChangeForgotten, CleanExitSavesAll, Leave,
                memoryVars, historyVars
  <1>8. ExitOK'
    BY <1>1, <1>2, <1>6 DEF IInv, ExitOK, Leave, memoryVars, timerVars, historyVars
  <1> QED
    BY <1>3, <1>5, <1>7, <1>8 DEF IInv

\* The callback of a timer ends.
LEMMA FinishTimerInv ==
  ASSUME IInv, NEW t \in Timers, FinishTimer(t)
  PROVE  IInv'
  <1>1. saver[t] = "returned" /\ saver' = [saver EXCEPT ![t] = "idle"]
    BY DEF FinishTimer, Walk
  <1>2. saver'[t] = "idle" /\ \A r \in Savers \ {t} : saver'[r] = saver[r]
    BY <1>1 DEF IInv, TypeOK
  <1>3. timer'[t] = "free" /\ \A u \in Timers \ {t} : timer'[u] = timer[u]
    BY DEF IInv, TypeOK, FinishTimer
  <1>4. saver' \in [Savers -> SaverStates] /\ timer' \in [Timers -> {"free", "armed", "fired"}]
    BY <1>1 DEF IInv, TypeOK, SaverStates, FinishTimer
  <1>5. TypeOK'
    BY <1>2, <1>3, <1>4 DEF IInv, TypeOK, memoryVars, mutexVars, historyVars, FinishTimer
  <1>6. MutexOK'
    BY <1>1, <1>2, <1>5 DEF IInv, TypeOK, MutexOK, mutexVars, InMutex, FinishTimer
  <1>7. \A r \in Savers : Writing(r)' <=> Writing(r)
    BY <1>1, <1>2 DEF Writing
  <1>8. FlagOK' /\ DiskOK' /\ NoChangeForgotten' /\ CleanExitSavesAll'
    BY <1>7 DEF IInv, FlagOK, DiskOK, NoChangeForgotten, CleanExitSavesAll, FinishTimer,
                memoryVars, historyVars
  <1>9. ExitOK'
    BY <1>1, <1>2, <1>3, <1>7 DEF IInv, ExitOK, FinishTimer, memoryVars, historyVars
  <1> QED
    BY <1>5, <1>6, <1>8, <1>9 DEF IInv

\* main() returns and the timers are cancelled.
LEMMA MainEndsInv ==
  ASSUME IInv, MainEnds
  PROVE  IInv'
  <1>1. /\ timer' \in [Timers -> {"free", "armed", "fired"}]
        /\ \A t \in Timers : timer'[t] # "armed" /\ (timer'[t] = "fired" <=> timer[t] = "fired")
    BY DEF IInv, TypeOK, MainEnds
  <1>2. TypeOK'
    BY <1>1 DEF IInv, TypeOK, MainEnds, memoryVars, mutexVars, historyVars, Phases
  <1>3. MutexOK' /\ FlagOK' /\ DiskOK'
    BY DEF IInv, MutexOK, FlagOK, DiskOK, Writing, MainEnds, memoryVars, mutexVars
  <1>4. NoChangeForgotten' /\ CleanExitSavesAll'
    BY DEF IInv, NoChangeForgotten, CleanExitSavesAll, Writing, MainEnds, memoryVars
  <1>5. ExitOK'
    BY <1>1 DEF IInv, ExitOK, MainEnds
  <1> QED
    BY <1>2, <1>3, <1>4, <1>5 DEF IInv

\* The exit hook saves.
LEMMA BeforeExitInv ==
  ASSUME IInv, BeforeExit
  PROVE  IInv'
  <1>1. \A s \in Savers : saver[s] = "idle"
    BY DEF IInv, ExitOK, BeforeExit
  <1>2. /\ MutexOK' /\ saver' \in [Savers -> SaverStates] /\ asked' \in [Savers -> 0..MaxChanges]
        /\ saveHolder' \in Savers \cup {None} /\ saveQueue' \in Seq(Savers)
    BY <1>1, MutexCall DEF IInv, BeforeExit
  <1>3. saver'[Exit] = "waiting" /\ \A t \in Timers : saver'[t] = "idle"
    BY <1>1, TimersAssumption DEF IInv, TypeOK, BeforeExit, CallSave
  <1>4. TypeOK'
    BY <1>1, <1>2, <1>3 DEF IInv, TypeOK, BeforeExit, memoryVars, timerVars, Phases
  <1>5. \A s \in Savers : ~Writing(s) /\ ~Writing(s)'
    BY <1>1, <1>3 DEF Writing
  <1>6. FlagOK' /\ DiskOK' /\ NoChangeForgotten' /\ CleanExitSavesAll'
    BY <1>5 DEF IInv, FlagOK, DiskOK, NoChangeForgotten, CleanExitSavesAll, BeforeExit, memoryVars
  <1>7. ExitOK'
    BY <1>3, <1>5 DEF IInv, ExitOK, BeforeExit, timerVars
  <1> QED
    BY <1>2, <1>4, <1>6, <1>7 DEF IInv

\* The save of the exit hook has ended.
LEMMA ExitDoneInv ==
  ASSUME IInv, ExitDone
  PROVE  IInv'
  <1>1. saver[Exit] = "returned" /\ saver' = [saver EXCEPT ![Exit] = "idle"] /\ phase = "exiting"
    BY DEF IInv, ExitOK, ExitDone, Walk
  <1>2. saver'[Exit] = "idle" /\ \A r \in Savers \ {Exit} : saver'[r] = saver[r]
    BY <1>1 DEF IInv, TypeOK
  <1>3. saver' \in [Savers -> SaverStates]
    BY <1>1 DEF IInv, TypeOK, SaverStates
  <1>4. TypeOK'
    BY <1>2, <1>3, TimersAssumption
    DEF IInv, TypeOK, memoryVars, timerVars, mutexVars, historyVars, ExitDone, Phases
  <1>5. MutexOK'
    BY <1>1, <1>2, <1>4 DEF IInv, TypeOK, MutexOK, mutexVars, InMutex, ExitDone
  <1>6. \A r \in Savers : Writing(r)' <=> Writing(r)
    BY <1>1, <1>2 DEF Writing
  <1>7. FlagOK' /\ DiskOK' /\ NoChangeForgotten'
    BY <1>6 DEF IInv, FlagOK, DiskOK, NoChangeForgotten, ExitDone, memoryVars
  <1>8. CleanExitSavesAll' /\ ExitOK'
    BY <1>1 DEF IInv, ExitOK, CleanExitSavesAll, ExitDone, memoryVars, historyVars
  <1> QED
    BY <1>4, <1>5, <1>7, <1>8 DEF IInv

\* The process goes, and everything but the file with it.
LEMMA ForgetInv ==
  ASSUME IInv, Crash \/ Restart
  PROVE  IInv'
  <1>1. Forget /\ disk' = disk /\ phase' \in {"down", "running"} /\ changes' \in {0, disk}
    BY DEF Crash, Restart
  <1>2. \A s \in Savers : saver'[s] = "idle" /\ ~Writing(s)'
    BY <1>1 DEF Forget, Writing
  <1>3. TypeOK'
    <2>1. 0 \in 0..MaxChanges /\ changes' \in 0..MaxChanges /\ restarts' \in 0..MaxRestarts
      BY <1>1, BoundsAssumption DEF IInv, TypeOK, Crash, Restart
    <2>2. /\ timer' \in [Timers -> {"free", "armed", "fired"}]
          /\ saver' \in [Savers -> SaverStates]
          /\ \A t \in Timers : timer'[t] = "fired" <=> saver'[t] # "idle"
      BY <1>1 DEF Forget, SaverStates
    <2>3. snapshot' \in [Savers -> 0..MaxChanges] /\ asked' \in [Savers -> 0..MaxChanges]
      BY <1>1, <2>1 DEF Forget
    <2>4. /\ phase' \in Phases /\ hasChanged' \in BOOLEAN /\ disk' \in 0..MaxChanges
          /\ saveToFileTimeout' \in Timers \cup {None} /\ saveHolder' \in Savers \cup {None}
          /\ ioFailed' \in BOOLEAN
      BY <1>1 DEF Forget, Phases, IInv, TypeOK
    <2>5. saveQueue' \in Seq(Savers)
      BY <1>1, EmptyQueue DEF Forget
    <2> QED
      BY <2>1, <2>2, <2>3, <2>4, <2>5 DEF TypeOK
  <1>4. MutexOK'
    BY <1>1, <1>2 DEF MutexOK, Forget, InMutex
  <1>5. FlagOK'
    BY <1>2 DEF FlagOK
  <1>6. DiskOK' /\ NoChangeForgotten' /\ CleanExitSavesAll'
    BY <1>1 DEF DiskOK, NoChangeForgotten, CleanExitSavesAll, Crash, Restart, IInv, TypeOK
  <1>7. ExitOK'
    BY <1>1, <1>2 DEF ExitOK
  <1> QED
    BY <1>3, <1>4, <1>5, <1>6, <1>7 DEF IInv

\* Nothing changes.
LEMMA StutterInv ==
  ASSUME IInv, UNCHANGED vars
  PROVE  IInv'
  <1> USE DEF vars, memoryVars, timerVars, mutexVars, historyVars
  <1>1. TypeOK' /\ MutexOK'
    BY DEF IInv, TypeOK, MutexOK
  <1>2. FlagOK' /\ DiskOK' /\ NoChangeForgotten'
    BY DEF IInv, FlagOK, DiskOK, NoChangeForgotten, Writing
  <1>3. ExitOK' /\ CleanExitSavesAll'
    BY DEF IInv, ExitOK, CleanExitSavesAll, Writing
  <1> QED
    BY <1>1, <1>2, <1>3 DEF IInv

\* Every step preserves the invariant.
LEMMA NextInv == IInv /\ [Next]_vars => IInv'
  BY ChangeInv, FireInv, FinishTimerInv, BeginSaveInv, QuietInv, RenameInv, RenameFailsInv,
     DiscardInv, CancelWaitersInv, LeaveInv, MainEndsInv, BeforeExitInv, ExitDoneInv,
     ForgetInv, StutterInv
  DEF Next, Save, Terminating

\* The invariant holds always.
LEMMA Invariance == Spec => []IInv
  BY InitInv, NextInv, PTL DEF Spec

-----------------------------------------------------------------------------
(* The theorems.                                                             *)

\* Every state is well typed, and a timer's callback runs exactly while its timer
\* is spent.
THEOREM TypeCorrect == Spec => []TypeOK
  BY Invariance, PTL DEF IInv

\* While the file lacks a change the flag is up, or a save is on its way that
\* carries the change, whatever is saved, cancelled or fails.
THEOREM ChangesAreNotForgotten == Spec => []NoChangeForgotten
  BY Invariance, PTL DEF IInv

\* A run that ends by itself has everything it learnt in the cache file, unless its
\* last attempt to write it failed.
THEOREM CleanExitsSaveAll == Spec => []CleanExitSavesAll
  BY Invariance, PTL DEF IInv

\* Only Rename() writes the cache file, and only with what is not older; only a
\* failing mv() removes it.
LEMMA DiskStep == IInv /\ [Next]_vars => (disk' # disk => disk' > disk \/ disk' = 0)
  <1> SUFFICES ASSUME IInv, [Next]_vars, disk' # disk PROVE disk' > disk \/ disk' = 0
    OBVIOUS
  <1>1. \E s \in Savers : Rename(s) \/ RenameFails(s)
    BY DEF Next, Save, vars, Change, Fire, FinishTimer, BeginSave, Prepare, WriteTemp, Discard,
           CancelWaiters, Leave, MainEnds, BeforeExit, ExitDone, Crash, Restart, Terminating
  <1>2. ASSUME NEW s \in Savers, Rename(s) PROVE disk' > disk
    <2>1. disk <= snapshot[s] /\ disk' = snapshot[s]
      BY <1>2 DEF IInv, FlagOK, Writing, Rename, Walk
    <2> QED
      BY <2>1 DEF IInv, TypeOK
  <1>3. ASSUME NEW s \in Savers, RenameFails(s) PROVE disk' = 0
    BY <1>3 DEF RenameFails
  <1> QED
    BY <1>1, <1>2, <1>3

\* An older cache never replaces a newer one on disk, however saves, timers, exits
\* and crashes interleave.
THEOREM TheDiskOnlyAdvances == Spec => DiskOnlyAdvances
  <1>1. IInv /\ [Next]_vars => [disk' # disk => disk' > disk \/ disk' = 0]_vars
    BY DiskStep
  <1> QED
    BY <1>1, Invariance, PTL DEF Spec, DiskOnlyAdvances

=============================================================================
