------------------------------ MODULE CacheFile -------------------------------
(***************************************************************************)
(* The half of src/src/cache/cache.ts that keeps the cache on disk: the     *)
(* hasChanged flag, the flush timer, save(), the beforeExit save, load().   *)
(*                                                                          *)
(* What the cache holds is abstracted to a version: the number of changes   *)
(* made to it.  Version 0 is the empty cache, and also no file on disk.     *)
(* A timer whose callback runs is the process that saves; the beforeExit    *)
(* hook is one more.                                                        *)
(*                                                                          *)
(* The process may end at any step: a SIGINT and an error of main() call    *)
(* process.exit(), and a rejection inside a timer's callback (mkdir() or    *)
(* mktemp() failing before save() enters its try) is unhandled.             *)
(***************************************************************************)
EXTENDS Integers, Sequences, FiniteSets

CONSTANTS
    Timers,       \* identities for the Timer objects
    Exit,         \* the beforeExit hook
    None,
    MaxChanges,   \* bound: changes to the cache
    MaxRestarts   \* bound: times the program is started again

ASSUME TimersAssumption ==
    IsFiniteSet(Timers) /\ Exit \notin Timers /\ None \notin Timers \cup {Exit}
ASSUME BoundsAssumption == MaxChanges \in Nat /\ MaxRestarts \in Nat

Savers == Timers \cup {Exit}

VARIABLES
    phase,             \* running, ending (main() is over), exiting, exited, down
    changes,           \* the version in memory: keyValues
    hasChanged,
    saveToFileTimeout, \* the timer remembered, or None
    timer,             \* timer[t]: free, armed or fired
    saver,             \* where each call of save() is
    saveHolder,        \* who holds saveMutex
    saveQueue,         \* who waits for saveMutex
    snapshot,          \* snapshot[s]: the version in the json of s
    disk,              \* the version in the cache file
    asked,             \* history: the version in memory when s called save()
    ioFailed,          \* history: the last attempt to write the file failed
    restarts

memoryVars == <<changes, hasChanged>>
timerVars == <<saveToFileTimeout, timer>>
mutexVars == <<saveHolder, saveQueue>>
historyVars == <<asked, ioFailed>>
vars == <<phase, memoryVars, timerVars, saver, mutexVars, snapshot, disk,
          historyVars, restarts>>

Phases == {"running", "ending", "exiting", "exited", "down"}
Up == phase \in {"running", "ending", "exiting"}

SaverStates == {"idle", "waiting",
                "preparing",  \* directory, mktemp
                "writing",    \* the temp file, and its validation
                "replacing",  \* FsUtil.mv(): rename over the cache file
                "retrying",   \* FsUtil.mv(): the cache file is gone, rename again
                "replaced", "discarding", "leaving", "returned"}

Writing(s) == saver[s] \in {"preparing", "writing", "replacing", "retrying", "discarding"}

Init ==
    /\ phase = "running"
    /\ changes = 0
    /\ disk = 0
    /\ restarts = 0
    /\ hasChanged = FALSE
    /\ saveToFileTimeout = None
    /\ timer = [t \in Timers |-> "free"]
    /\ saver = [s \in Savers |-> "idle"]
    /\ saveHolder = None
    /\ saveQueue = <<>>
    /\ snapshot = [s \in Savers |-> 0]
    /\ asked = [s \in Savers |-> 0]
    /\ ioFailed = FALSE

-----------------------------------------------------------------------------

\* setUnsafe() with a new value, or deleteUnsafe(), and their saveWithTimeout().
Change ==
    /\ phase = "running"
    /\ changes < MaxChanges
    /\ changes' = changes + 1
    /\ hasChanged' = TRUE
    /\ \/ saveToFileTimeout # None /\ UNCHANGED timerVars
       \/ /\ saveToFileTimeout = None
          /\ \E t \in Timers :
                /\ timer[t] = "free"
                /\ saveToFileTimeout' = t
                /\ timer' = [timer EXCEPT ![t] = "armed"]
    /\ UNCHANGED <<phase, saver, mutexVars, snapshot, disk, historyVars, restarts>>

\* Mutant: save() without its mutex.
CallSaveUnlocked(s) ==
    /\ asked' = [asked EXCEPT ![s] = changes]
    /\ saver' = [saver EXCEPT ![s] = "waiting"]
    /\ saveHolder' = s
    /\ UNCHANGED saveQueue

\* saveMutex.runExclusive()
CallSave(s) ==
    /\ asked' = [asked EXCEPT ![s] = changes]
    /\ saver' = [saver EXCEPT ![s] = "waiting"]
    /\ \/ saveHolder = None /\ saveHolder' = s /\ UNCHANGED saveQueue
       \/ /\ saveHolder # None
          /\ saveQueue' = Append(saveQueue, s)
          /\ UNCHANGED saveHolder

Fire(t) ==
    /\ Up
    /\ timer[t] = "armed"
    /\ timer' = [timer EXCEPT ![t] = "fired"]
    /\ CallSave(t)
    /\ UNCHANGED <<phase, memoryVars, saveToFileTimeout, snapshot, disk, ioFailed, restarts>>

\* Inside saveMutex: cancel the timer that is remembered, return if there is
\* nothing new, take the json and reset the flag.
BeginSave(s) ==
    /\ Up
    /\ saver[s] = "waiting"
    /\ saveHolder = s
    /\ saveToFileTimeout' = None
    /\ timer' = [t \in Timers |->
         IF t = saveToFileTimeout /\ timer[t] = "armed" THEN "free" ELSE timer[t]]
    /\ \/ /\ ~hasChanged
          /\ saver' = [saver EXCEPT ![s] = "leaving"]
          /\ UNCHANGED <<snapshot, hasChanged>>
       \/ /\ hasChanged
          /\ snapshot' = [snapshot EXCEPT ![s] = changes]
          /\ hasChanged' = FALSE
          /\ saver' = [saver EXCEPT ![s] = "preparing"]
    /\ UNCHANGED <<phase, changes, mutexVars, disk, historyVars, restarts>>

Walk(s, from, to) ==
    /\ Up
    /\ saver[s] = from
    /\ saver' = [saver EXCEPT ![s] = to]

\* The temp file has a name.
Prepare(s) ==
    /\ Walk(s, "preparing", "writing")
    /\ UNCHANGED <<phase, memoryVars, timerVars, mutexVars, snapshot, disk, historyVars, restarts>>

\* The temp file is written and read back with as many keys as it should have,
\* or it is bad or an exception is thrown.
WriteTemp(s) ==
    /\ Walk(s, "writing", "replacing") \/ Walk(s, "writing", "discarding")
    /\ UNCHANGED <<phase, memoryVars, timerVars, mutexVars, snapshot, disk, historyVars, restarts>>

\* Mutant: the flag is reset after the I/O.
RenameResettingFlag(s) ==
    /\ Walk(s, "replacing", "replaced") \/ Walk(s, "retrying", "replaced")
    /\ disk' = snapshot[s]
    /\ hasChanged' = FALSE
    /\ ioFailed' = FALSE
    /\ UNCHANGED <<phase, changes, timerVars, mutexVars, snapshot, asked, restarts>>

\* FsUtil.mv(): the rename replaces the cache file at once.
Rename(s) ==
    /\ Walk(s, "replacing", "replaced") \/ Walk(s, "retrying", "replaced")
    /\ disk' = snapshot[s]
    /\ ioFailed' = FALSE
    /\ UNCHANGED <<phase, memoryVars, timerVars, mutexVars, snapshot, asked, restarts>>

\* FsUtil.mv(): a rename that fails removes the cache file and tries again; if
\* it cannot be removed, or is not there to be removed, mv() throws.
RenameFails(s) ==
    /\ \/ disk # 0 /\ Walk(s, "replacing", "retrying") /\ disk' = 0
       \/ Walk(s, "replacing", "discarding") /\ UNCHANGED disk
       \/ Walk(s, "retrying", "discarding") /\ UNCHANGED disk
    /\ UNCHANGED <<phase, memoryVars, timerVars, mutexVars, snapshot, historyVars, restarts>>

\* The file is bad: remove the temp file, remember there is something to save.
Discard(s) ==
    /\ Walk(s, "discarding", "leaving")
    /\ hasChanged' = TRUE
    /\ ioFailed' = TRUE
    /\ UNCHANGED <<phase, changes, timerVars, mutexVars, snapshot, disk, asked, restarts>>

\* saveMutex.cancel(): whoever waits is rejected with E_CANCELED, which save()
\* takes for success.
CancelWaiters(s) ==
    /\ Up
    /\ saver[s] = "replaced"
    /\ saver' = [r \in Savers |->
         IF r = s THEN "leaving"
         ELSE IF \E i \in DOMAIN saveQueue : saveQueue[i] = r THEN "returned"
         ELSE saver[r]]
    /\ saveQueue' = <<>>
    /\ UNCHANGED <<phase, memoryVars, timerVars, saveHolder, snapshot, disk, historyVars, restarts>>

\* Mutant: saveMutex is not handed on.
LeaveLocked(s) ==
    /\ Walk(s, "leaving", "returned")
    /\ UNCHANGED <<phase, memoryVars, timerVars, mutexVars, snapshot, disk, historyVars, restarts>>

\* runExclusive()'s finally hands saveMutex to the first waiter.
Leave(s) ==
    /\ Walk(s, "leaving", "returned")
    /\ IF saveQueue = <<>>
       THEN saveHolder' = None /\ UNCHANGED saveQueue
       ELSE saveHolder' = Head(saveQueue) /\ saveQueue' = Tail(saveQueue)
    /\ UNCHANGED <<phase, memoryVars, timerVars, snapshot, disk, historyVars, restarts>>

\* The finally of the timer's callback forgets WHATEVER timer is remembered.
FinishTimer(t) ==
    /\ Walk(t, "returned", "idle")
    /\ saveToFileTimeout' = None
    /\ timer' = [timer EXCEPT ![t] = "free"]
    /\ UNCHANGED <<phase, memoryVars, mutexVars, snapshot, disk, historyVars, restarts>>

-----------------------------------------------------------------------------

\* Igir.main() is over; its last act is Timer.cancelAll().
MainEnds ==
    /\ phase = "running"
    /\ phase' = "ending"
    /\ timer' = [t \in Timers |-> IF timer[t] = "armed" THEN "free" ELSE timer[t]]
    /\ UNCHANGED <<memoryVars, saveToFileTimeout, saver, mutexVars, snapshot, disk,
                   historyVars, restarts>>

\* The event loop has nothing left to do.
BeforeExit ==
    /\ phase = "ending"
    /\ \A t \in Timers : saver[t] = "idle"
    /\ phase' = "exiting"
    /\ CallSave(Exit)
    /\ UNCHANGED <<memoryVars, timerVars, snapshot, disk, ioFailed, restarts>>

ExitDone ==
    /\ Walk(Exit, "returned", "idle")
    /\ phase' = "exited"
    /\ UNCHANGED <<memoryVars, timerVars, mutexVars, snapshot, disk, historyVars, restarts>>

\* Memory, timers and saves in progress go with the process.
Forget ==
    /\ hasChanged' = FALSE
    /\ saveToFileTimeout' = None
    /\ timer' = [t \in Timers |-> "free"]
    /\ saver' = [s \in Savers |-> "idle"]
    /\ saveHolder' = None
    /\ saveQueue' = <<>>
    /\ snapshot' = [s \in Savers |-> 0]
    /\ asked' = [s \in Savers |-> 0]
    /\ ioFailed' = FALSE

Crash ==
    /\ Up
    /\ phase' = "down"
    /\ changes' = 0
    /\ Forget
    /\ UNCHANGED <<disk, restarts>>

\* The next run: load().
Restart ==
    /\ phase \in {"exited", "down"}
    /\ restarts < MaxRestarts
    /\ restarts' = restarts + 1
    /\ phase' = "running"
    /\ changes' = disk
    /\ Forget
    /\ UNCHANGED disk

Terminating == phase \in {"exited", "down"} /\ restarts = MaxRestarts /\ UNCHANGED vars

-----------------------------------------------------------------------------

Save(s) ==
    \/ BeginSave(s) \/ Prepare(s) \/ WriteTemp(s) \/ Rename(s) \/ RenameFails(s)
    \/ Discard(s) \/ CancelWaiters(s) \/ Leave(s)

Next ==
    \/ Change
    \/ \E t \in Timers : Fire(t) \/ FinishTimer(t)
    \/ \E s \in Savers : Save(s)
    \/ MainEnds \/ BeforeExit \/ ExitDone
    \/ Crash \/ Restart \/ Terminating

Fairness ==
    /\ \A s \in Savers : WF_vars(Save(s))
    /\ \A t \in Timers : WF_vars(FinishTimer(t))
    /\ WF_vars(ExitDone)

Spec == Init /\ [][Next]_vars

FairSpec == Spec /\ Fairness

-----------------------------------------------------------------------------
(* Properties                                                                *)

\* Every variable has its type, and a timer is spent exactly while its callback
\* runs.
TypeOK ==
    /\ phase \in Phases
    /\ changes \in 0..MaxChanges
    /\ hasChanged \in BOOLEAN
    /\ saveToFileTimeout \in Timers \cup {None}
    /\ timer \in [Timers -> {"free", "armed", "fired"}]
    /\ saver \in [Savers -> SaverStates]
    /\ saveHolder \in Savers \cup {None}
    /\ saveQueue \in Seq(Savers)
    /\ snapshot \in [Savers -> 0..MaxChanges]
    /\ disk \in 0..MaxChanges
    /\ asked \in [Savers -> 0..MaxChanges]
    /\ ioFailed \in BOOLEAN
    /\ restarts \in 0..MaxRestarts
    /\ \A t \in Timers : timer[t] = "fired" <=> saver[t] # "idle"

\* A change is never forgotten: while the file lacks it, the flag is up or a
\* save is on its way that carries it ("Reset before I/O so mid-save changes
\* re-set the flag").
NoChangeForgotten ==
    Up /\ disk # changes =>
        hasChanged \/ \E s \in Savers : Writing(s) /\ snapshot[s] = changes

\* An older cache never replaces a newer one, however saves, timers and exits
\* interleave; the only other thing that may happen to the file is that a
\* failing mv() removes it.
DiskOnlyAdvances == [][disk' # disk => disk' > disk \/ disk' = 0]_vars

\* A run that ends by itself leaves everything it learnt on disk, unless its
\* last attempt to write failed, whatever was saved, cancelled or half done
\* when main() was over.
CleanExitSavesAll == phase = "exited" => disk = changes \/ ioFailed

\* save() always comes back.
EverySaveReturns ==
    \A s \in Savers : saver[s] = "waiting" ~> (saver[s] \in {"returned", "idle"} \/ ~Up)

=============================================================================
