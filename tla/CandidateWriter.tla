--------------------------- MODULE CandidateWriter ---------------------------
(***************************************************************************)
(* Writing the candidates of all the DATs, and deleting what was moved:     *)
(* src/src/modules/candidates/candidateWriter.ts over                       *)
(* src/src/async/candidateWriterSemaphore.ts, src/src/async/fileMoveMutex.ts *)
(* and FsUtil.mv() of src/src/utils/fsUtil.ts, then                         *)
(* src/src/modules/cleaners/movedRomDeleter.ts.                             *)
(*                                                                          *)
(* A job is one writeRawSingle() or one writeZip() of a candidate.  What a  *)
(* file holds is a set of payloads: one for a plain file, one per entry for *)
(* an archive, none for a file that is truncated or wrong.                  *)
(*                                                                          *)
(* Both keyed mutexes are taken as KeyedMutex.tla shows them to be: a call  *)
(* goes on when it has all its keys.  Who has them follows from how far the *)
(* jobs and the candidates are, so no variable repeats it.  Writes of links, *)
(* of zero-size files, and the read-only test command are not modelled.     *)
(***************************************************************************)
EXTENDS Integers, FiniteSets

CONSTANTS
    Candidates, Jobs, Paths, Payloads, None,
    CandidateOf,    \* CandidateOf[j]: the candidate job j belongs to
    DatOf,          \* DatOf[c]: the DAT candidate c belongs to
    Stage,          \* Stage[j]: the zip comes first, then a stage per input file
    Kind,           \* Kind[j]: a plain file as it is, an extraction, a zip
    Needs,          \* Needs[j]: the inputs of j, as [path, payload]
    Output,         \* Output[j]: the path j writes
    Index,          \* the scanned input files, as [path, payload, entry]
    FirstFiles,     \* what is on disk when writing starts
    OptionChoices,  \* the options a run may have
    Faults,         \* what may go wrong: errors, wrong bytes, another drive...
    Threads,        \* the slots of the writer semaphore
    Retries         \* getWriteRetry()

Kinds == {"raw", "extract", "zip"}
FaultKinds == {"error",         \* an I/O error
               "nospace",       \* ENOSPC, which is thrown on
               "corrupt",       \* an extraction or a zip comes out wrong
               "crossdevice",   \* EXDEV: rename() does not cross drives
               "crosscorrupt"}  \* the copy across drives comes out wrong
Entries == [path : Paths, payload : Payloads]
\* What may be read, or is looked for when inputs are deleted.
Sources == (UNION {Needs[j] : j \in Jobs})
           \cup {[path |-> e.path, payload |-> e.payload] : e \in Index}
Options == [move : BOOLEAN, test : BOOLEAN, overwrite : {"never", "always", "invalid"}]

ASSUME JobsAssumption ==
    /\ CandidateOf \in [Jobs -> Candidates]
    /\ Stage \in [Jobs -> Nat]
    /\ Kind \in [Jobs -> Kinds]
    /\ Needs \in [Jobs -> SUBSET Entries]
    /\ Output \in [Jobs -> Paths]
    /\ \A j \in Jobs : Kind[j] # "zip" => \E n \in Entries : Needs[j] = {n}
ASSUME DisksAssumption ==
    /\ None \notin Paths
    /\ \A held \in SUBSET Payloads : held # None
    /\ FirstFiles \in [Paths -> {None} \cup SUBSET Payloads]
    /\ Index \subseteq [path : Paths, payload : Payloads, entry : BOOLEAN]
    /\ \A n \in Sources : FirstFiles[n.path] # None /\ n.payload \in FirstFiles[n.path]
    /\ \A e, f \in Index : e.path = f.path /\ ~e.entry => e = f  \* plain, or an archive
ASSUME BoundsAssumption ==
    /\ OptionChoices \subseteq Options
    /\ Faults \subseteq FaultKinds
    /\ Threads \in Nat \ {0}
    /\ Retries \in Nat

VARIABLES
    options,
    phase,       \* writing, aborting (a write threw), deleting
    files,       \* files[p]: what the file at p holds, or None
    moved,       \* FileMoveMutex.movedFiles
    candidate,   \* how far each candidate is
    job,         \* how far each job is
    tries,       \* the i of the retry loop
    queued,      \* the candidates in filesQueuedForDeletion
    doomed       \* the paths MovedROMDeleter has still to delete

writeVars == <<files, moved, job, tries, queued>>
vars == <<options, phase, writeVars, candidate, doomed>>

\* copyRawFile() and createArchive(); FsUtil.mv(): rename(), rename() again after
\* the target was removed, copying to another drive, removing the source.
Using == {"copying", "moving", "uncovered", "crossing", "crossed"}
Successes == {"written", "kept"}
Ends == {"written", "kept", "skipped", "failed", "threw"}

JobsOf(c) == {j \in Jobs : CandidateOf[j] = c}
OutputsOf(c) == {Output[j] : j \in JobsOf(c)}
Inputs(j) == {n.path : n \in Needs[j]}
Wanted(j) == {n.payload : n \in Needs[j]}
Input(j) == CHOOSE p \in Inputs(j) : TRUE
InPlace(j) == Kind[j] = "raw" /\ Input(j) = Output[j]

\* What the user has to see to (section 5 of the README): only a file that is where
\* it should be is both input and output, and only DATs that want the same file as
\* it is share an output.  write() drops duplicates within a DAT.
OutputsApart ==
    /\ \A j \in Jobs : Output[j] \in {n.path : n \in Sources} => InPlace(j)
    /\ \A j, k \in Jobs : j # k /\ Output[j] = Output[k] =>
          /\ Kind[j] = "raw" /\ Kind[k] = "raw"
          /\ Needs[j] = Needs[k]
          /\ CandidateOf[j] # CandidateOf[k]

\* Where the file that was at p is now: getMovedLocationUnsafe().
Location(p) == IF moved[p] = None THEN p ELSE moved[p]

\* The input files kept from being moved by the jobs in progress.
Locked == UNION {Inputs(j) : j \in {k \in Jobs :
    options.move /\ job[k] \in Using}}

Init ==
    /\ options \in OptionChoices
    /\ phase = "writing"
    /\ files = FirstFiles
    /\ moved = [p \in Paths |-> None]
    /\ candidate = [c \in Candidates |-> "waiting"]
    /\ job = [j \in Jobs |-> "new"]
    /\ tries = [j \in Jobs |-> 0]
    /\ queued = {}
    /\ doomed = {}

-----------------------------------------------------------------------------
(* Candidates: a slot of the semaphore, then the keys of all output paths.   *)

Admit(c) ==
    /\ phase = "writing"
    /\ candidate[c] = "waiting"
    /\ Cardinality({d \in Candidates : candidate[d] \in {"admitted", "writing"}}) < Threads
    /\ candidate' = [candidate EXCEPT ![c] = "admitted"]
    /\ UNCHANGED <<options, phase, writeVars, doomed>>

\* Mutant: the output paths are not locked.
LockNoOutputs(c) ==
    /\ candidate[c] = "admitted"
    /\ candidate' = [candidate EXCEPT ![c] = "writing"]
    /\ UNCHANGED <<options, phase, writeVars, doomed>>

LockOutputs(c) ==
    /\ candidate[c] = "admitted"
    /\ \A d \in Candidates \ {c} :
          candidate[d] = "writing" => OutputsOf(c) \cap OutputsOf(d) = {}
    /\ candidate' = [candidate EXCEPT ![c] = "writing"]
    /\ UNCHANGED <<options, phase, writeVars, doomed>>

\* Mutant: a failed write keeps the slot and the keys.
FinishWritten(c) ==
    /\ candidate[c] = "writing"
    /\ \A j \in JobsOf(c) : job[j] \in Ends \ {"failed"}
    /\ candidate' = [candidate EXCEPT ![c] = "done"]
    /\ UNCHANGED <<options, phase, writeVars, doomed>>

\* All jobs are over, or one threw: the keys and the slot are given back at once,
\* even if other jobs of its Promise.all() go on.
Finish(c) ==
    /\ candidate[c] = "writing"
    /\ \/ \A j \in JobsOf(c) : job[j] \in Ends
       \/ \E j \in JobsOf(c) : job[j] = "threw"
    /\ candidate' = [candidate EXCEPT ![c] = "done"]
    /\ UNCHANGED <<options, phase, writeVars, doomed>>

-----------------------------------------------------------------------------
(* How the steps of a job end.                                               *)

Becomes(j, state) == job' = [job EXCEPT ![j] = state] /\ UNCHANGED tries

\* enqueueFileDeletion(): the whole candidate, not the one input.
Enqueue(j) == queued' = IF options.move THEN queued \cup {CandidateOf[j]} ELSE queued

Succeed(j, state) == Becomes(j, state) /\ Enqueue(j)

\* The end of an iteration that did not succeed.
TryAgain(j) ==
    /\ \/ /\ tries[j] < Retries
          /\ job' = [job EXCEPT ![j] = "attempting"]
          /\ tries' = [tries EXCEPT ![j] = @ + 1]
       \/ tries[j] = Retries /\ Becomes(j, "failed")
    /\ UNCHANGED queued

\* COPIED: tested if the options say so.
Copied(j) ==
    \/ options.test /\ Becomes(j, "testing") /\ UNCHANGED queued
    \/ ~options.test /\ Succeed(j, "written")

\* ENOSPC of a raw write is thrown through the semaphore's map() and write(), and
\* ends the program: what waits is cancelled, and nothing is deleted.
Throw(j) ==
    /\ "nospace" \in Faults
    /\ Kind[j] # "zip"
    /\ Becomes(j, "threw")
    /\ phase' = "aborting"
    /\ UNCHANGED queued

-----------------------------------------------------------------------------
(* The steps of a job.                                                       *)

\* A candidate's stages follow each other; the jobs of one stage run together.
Ready(j) ==
    LET c == CandidateOf[j]
    IN  /\ job[j] = "new"
        /\ candidate[c] = "writing"
        /\ \A k \in JobsOf(c) :
              /\ job[k] # "threw"
              /\ Stage[k] < Stage[j] => job[k] \in Ends

\* A file that is where it should be is marked as moved there, unless an earlier
\* job took it away: then it is written like any other.
Start(j) ==
    /\ Ready(j)
    /\ \/ ~InPlace(j) /\ Becomes(j, "checking") /\ UNCHANGED moved
       \/ InPlace(j) /\ ~options.move /\ Becomes(j, "skipped") /\ UNCHANGED moved
       \/ /\ InPlace(j) /\ options.move /\ Input(j) \notin Locked
          /\ \/ /\ moved[Input(j)] = None
                /\ moved' = [moved EXCEPT ![Input(j)] = Input(j)]
                /\ Becomes(j, "skipped")
             \/ /\ moved[Input(j)] # None
                /\ Becomes(j, "checking")
                /\ UNCHANGED moved
    /\ UNCHANGED <<options, phase, files, candidate, queued, doomed>>

Check(j) ==
    /\ job[j] = "checking"
    /\ \/ files[Output[j]] = None /\ Becomes(j, "attempting")
       \/ /\ files[Output[j]] # None
          /\ Becomes(j, CASE options.overwrite = "never"   -> "skipped"
                          [] options.overwrite = "invalid" -> "verifying"
                          [] options.overwrite = "always"  -> "attempting")
    /\ UNCHANGED <<options, phase, files, moved, candidate, queued, doomed>>

\* --overwrite-invalid: testWrittenRaw(), testZipContents() of the existing file.
Verify(j) ==
    /\ job[j] = "verifying"
    /\ \/ files[Output[j]] = Wanted(j) /\ Succeed(j, "kept")
       \/ files[Output[j]] # Wanted(j) /\ Becomes(j, "attempting") /\ UNCHANGED queued
    /\ UNCHANGED <<options, phase, files, moved, candidate, doomed>>

\* Mutant: an input may be read or moved while another job moves it.
AttemptUnlocked(j) ==
    /\ job[j] = "attempting"
    /\ \/ /\ options.move /\ Kind[j] # "zip" /\ moved[Input(j)] = Output[j]
          /\ Succeed(j, "written")
       \/ /\ options.move /\ Kind[j] = "raw" /\ moved[Input(j)] = None
          /\ Becomes(j, "moving") /\ UNCHANGED queued
       \/ /\ \/ ~options.move
             \/ Kind[j] = "zip"
             \/ Kind[j] = "extract" /\ moved[Input(j)] = None
             \/ moved[Input(j)] \notin {None, Output[j]}
          /\ Becomes(j, "copying") /\ UNCHANGED queued
    /\ UNCHANGED <<options, phase, files, moved, candidate, doomed>>

\* Lock the inputs if they may be moved, look up where they are now, and move the
\* file or copy it.  One that was moved to this very output is there already.
Attempt(j) ==
    /\ job[j] = "attempting"
    /\ Inputs(j) \cap Locked = {}
    /\ \/ /\ options.move /\ Kind[j] # "zip" /\ moved[Input(j)] = Output[j]
          /\ Succeed(j, "written")
       \/ /\ options.move /\ Kind[j] = "raw" /\ moved[Input(j)] = None
          /\ Becomes(j, "moving") /\ UNCHANGED queued
       \/ /\ \/ ~options.move
             \/ Kind[j] = "zip"
             \/ Kind[j] = "extract" /\ moved[Input(j)] = None
             \/ moved[Input(j)] \notin {None, Output[j]}
          /\ Becomes(j, "copying") /\ UNCHANGED queued
    /\ UNCHANGED <<options, phase, files, moved, candidate, doomed>>

Readable(j) == \A p \in Inputs(j) : files[Location(p)] # None
Produced(j) == {n.payload : n \in {m \in Needs[j] : m.payload \in files[Location(m.path)]}}

\* copyRawFile() and createArchive(): into a temp file, which then replaces the
\* output.  FsUtil.mv() may remove the old output and fail all the same.
Copy(j) ==
    /\ job[j] = "copying"
    /\ \/ /\ Readable(j)
          /\ \/ files' = [files EXCEPT ![Output[j]] = Produced(j)]
             \/ "corrupt" \in Faults /\ files' = [files EXCEPT ![Output[j]] = {}]
          /\ Copied(j)
          /\ UNCHANGED phase
       \/ /\ "error" \in Faults \/ ~Readable(j)
          /\ files' \in {files, [files EXCEPT ![Output[j]] = None]}
          /\ TryAgain(j)
          /\ UNCHANGED phase
       \/ Throw(j) /\ UNCHANGED files
    /\ UNCHANGED <<options, moved, candidate, doomed>>

Renamed(j) ==
    /\ files[Input(j)] # None
    /\ files' = [files EXCEPT ![Output[j]] = files[Input(j)], ![Input(j)] = None]
    /\ moved' = [moved EXCEPT ![Input(j)] = Output[j]]
    /\ Succeed(j, "written")
    /\ UNCHANGED phase

\* EXDEV: copyFile() writes over the output as it goes.
CrossesDevice(j) ==
    /\ "crossdevice" \in Faults
    /\ files[Input(j)] # None
    /\ files' = [files EXCEPT ![Output[j]] = {}]
    /\ Becomes(j, "crossing")
    /\ UNCHANGED <<phase, moved, queued>>

\* Any other error of rename(): remove the output, if there is one, and rename again.
Move(j) ==
    /\ job[j] = "moving"
    /\ \/ Renamed(j)
       \/ CrossesDevice(j)
       \/ /\ "error" \in Faults \/ files[Input(j)] = None
          /\ UNCHANGED <<phase, moved>>
          /\ \/ /\ files[Output[j]] # None
                /\ files' = [files EXCEPT ![Output[j]] = None]
                /\ Becomes(j, "uncovered")
                /\ UNCHANGED queued
             \/ TryAgain(j) /\ UNCHANGED files
       \/ Throw(j) /\ UNCHANGED <<files, moved>>
    /\ UNCHANGED <<options, candidate, doomed>>

\* The second rename(): there is nothing left to remove, so an error is final.
MoveUncovered(j) ==
    /\ job[j] = "uncovered"
    /\ \/ Renamed(j)
       \/ CrossesDevice(j)
       \/ /\ "error" \in Faults \/ files[Input(j)] = None
          /\ TryAgain(j)
          /\ UNCHANGED <<phase, files, moved>>
       \/ Throw(j) /\ UNCHANGED <<files, moved>>
    /\ UNCHANGED <<options, candidate, doomed>>

\* copyFile() ends; an error leaves what it had written.
Cross(j) ==
    /\ job[j] = "crossing"
    /\ \/ /\ \/ files' = [files EXCEPT ![Output[j]] = files[Input(j)]]
             \/ "crosscorrupt" \in Faults /\ UNCHANGED files
          /\ Becomes(j, "crossed")
          /\ UNCHANGED <<phase, queued>>
       \/ "error" \in Faults /\ TryAgain(j) /\ UNCHANGED <<phase, files>>
       \/ Throw(j) /\ UNCHANGED files
    /\ UNCHANGED <<options, moved, candidate, doomed>>

\* rm() of the source; only then is the file known to have moved.
RemoveSource(j) ==
    /\ job[j] = "crossed"
    /\ \/ /\ files' = [files EXCEPT ![Input(j)] = None]
          /\ moved' = [moved EXCEPT ![Input(j)] = Output[j]]
          /\ Copied(j)
       \/ "error" \in Faults /\ TryAgain(j) /\ UNCHANGED <<files, moved>>
    /\ UNCHANGED <<options, phase, candidate, doomed>>

\* What was copied is tested; what was renamed is not.
Test(j) ==
    /\ job[j] = "testing"
    /\ \/ files[Output[j]] = Wanted(j) /\ Succeed(j, "written")
       \/ files[Output[j]] # Wanted(j) /\ TryAgain(j)
    /\ UNCHANGED <<options, phase, files, moved, candidate, doomed>>

-----------------------------------------------------------------------------
(* MovedROMDeleter, when every DAT has been written.                         *)

\* write() returns the queued candidates, without those whose inputs all were
\* outputs of the same DAT.
MovedCandidates ==
    LET OutputsOfDat(d) == UNION {OutputsOf(c) : c \in {e \in Candidates : DatOf[e] = d}}
    IN  {c \in queued : \E j \in JobsOf(c) : ~(Inputs(j) \subseteq OutputsOfDat(DatOf[c]))}

\* The scanned files with a moved payload.  A raw move vouches for plain
\* duplicates only, an extraction or a zip for any.
MovedEntries ==
    {e \in Index : \E c \in MovedCandidates : \E j \in JobsOf(c) :
        e.payload \in Wanted(j) /\ (Kind[j] = "raw" => ~e.entry)}

\* Mutant: an archive is deleted as soon as one entry was used.
PartlyConsumed(p) == \E e \in MovedEntries : e.path = p

\* filterOutPartiallyConsumedArchives()
FullyConsumed(p) ==
    /\ \E e \in MovedEntries : e.path = p
    /\ \A e \in Index : e.path = p /\ e.entry => e \in MovedEntries

\* filterOutWrittenFiles(), and those that exist.
ToDelete ==
    {p \in Paths : /\ FullyConsumed(p)
                   /\ files[p] # None
                   /\ \A c \in Candidates : p \notin OutputsOf(c)}

StartDeleting ==
    /\ phase = "writing"
    /\ \A c \in Candidates : candidate[c] = "done"
    /\ phase' = "deleting"
    /\ doomed' = ToDelete
    /\ UNCHANGED <<options, writeVars, candidate>>

Delete(p) ==
    /\ p \in doomed
    /\ doomed' = doomed \ {p}
    /\ \/ files' = [files EXCEPT ![p] = None]
       \/ "error" \in Faults /\ UNCHANGED files
    /\ UNCHANGED <<options, phase, moved, job, tries, queued, candidate>>

-----------------------------------------------------------------------------

StepOf(j) ==
    \/ Start(j) \/ Check(j) \/ Verify(j) \/ Attempt(j) \/ Copy(j) \/ Move(j)
    \/ MoveUncovered(j) \/ Cross(j) \/ RemoveSource(j) \/ Test(j)

Busy == \/ \E c \in Candidates : candidate[c] \in {"admitted", "writing"}
        \/ \E j \in Jobs : job[j] \notin Ends \cup {"new"}

\* Everything is deleted, or a write threw and the rest has come to an end.
Over ==
    \/ phase = "deleting" /\ doomed = {}
    \/ phase = "aborting" /\ ~Busy
Terminating == Over /\ UNCHANGED vars

Progress ==
    \/ \E c \in Candidates : Admit(c) \/ LockOutputs(c) \/ Finish(c)
    \/ \E j \in Jobs : StepOf(j)
    \/ StartDeleting
    \/ \E p \in Paths : Delete(p)

Next == Progress \/ Terminating

\* The event loop goes on as long as anything can: I/O completes, and both mutexes
\* serve their queues.
Fairness == WF_vars(Progress)

Spec == Init /\ [][Next]_vars

FairSpec == Spec /\ Fairness

-----------------------------------------------------------------------------
(* Properties                                                                *)

\* Every variable has the type its declaration gives it.
TypeOK ==
    /\ options \in Options
    /\ phase \in {"writing", "aborting", "deleting"}
    /\ files \in [Paths -> {None} \cup SUBSET Payloads]
    /\ moved \in [Paths -> Paths \cup {None}]
    /\ candidate \in [Candidates -> {"waiting", "admitted", "writing", "done"}]
    /\ job \in [Jobs -> {"new", "checking", "verifying", "attempting", "testing"}
                           \cup Using \cup Ends]
    /\ tries \in [Jobs -> 0..Retries]
    /\ queued \subseteq Candidates
    /\ doomed \subseteq Paths

\* FileMoveMutex: a job that reads or moves an input has it, with its payload, where
\* the mutex said it is, until the job itself is done with it; no other job, of
\* whichever candidate, moves it away meanwhile.
SourceIsThere ==
    [][\A j \in Jobs : job'[j] \in Using =>
          \A n \in Needs[j] :
              LET p == Location(n.path)
              IN  files'[p] # None /\ n.payload \in files'[p]]_vars

\* CandidateWriterSemaphore: two candidates never write one output path at the
\* same time, unless a write threw and the process is about to end.
OutputsExclusive ==
    phase # "aborting" =>
        \A j, k \in Jobs :
            /\ CandidateOf[j] # CandidateOf[k]
            /\ job[j] \notin Ends \cup {"new"}
            /\ job[k] \notin Ends \cup {"new"}
            => Output[j] # Output[k]

Stored(x) == \E p \in Paths : files[p] # None /\ x \in files[p]

\* Moving never destroys the last copy of a scanned payload, whatever fails and
\* whenever the process ends, but in two cases: its output was not tested and is
\* wrong, or another ROM of the same candidate was written.
NoRomLost ==
    \A e \in Index :
        \/ Stored(e.payload)
        \/ \E j \in Jobs :
              /\ e.payload \in Wanted(j)
              /\ \/ job[j] = "written" /\ files[Output[j]] = {} /\ ~options.test
                 \/ /\ phase = "deleting"
                    /\ job[j] \in {"failed", "skipped"}
                    /\ \E k \in JobsOf(CandidateOf[j]) : job[k] \in Successes

\* Every run of the writer comes to its end.
WritingEnds == <>Over

=============================================================================
