------------------------ MODULE CandidateWriterProofs -------------------------
(***************************************************************************)
(* Proofs about CandidateWriter for every number of candidates, jobs, paths *)
(* and payloads, any options and any number of slots and retries.           *)
(***************************************************************************)
EXTENDS CandidateWriter, TLAPS

JobStates == {"new", "checking", "verifying", "attempting", "testing"} \cup Using \cup Ends
InProgress(j) == job[j] \notin Ends \cup {"new"}

\* The candidates that write have no output in common; unless a write threw, only
\* their jobs are in progress, and a candidate is done when all its jobs are over.
CandidatesOK ==
    /\ \A c, d \in Candidates :
          c # d /\ candidate[c] = "writing" /\ candidate[d] = "writing"
          => OutputsOf(c) \cap OutputsOf(d) = {}
    /\ phase # "aborting" =>
          \A j \in Jobs :
             /\ InProgress(j) => candidate[CandidateOf[j]] = "writing"
             /\ candidate[CandidateOf[j]] = "done" => job[j] \in Ends
             /\ job[j] # "threw"
    /\ phase = "deleting" => \A c \in Candidates : candidate[c] = "done"
    /\ phase # "deleting" => doomed = {}

\* Only plain files are moved as they are, if the options say so.
MovesOK ==
    \A j \in Jobs : job[j] \in Using \ {"copying"} => Kind[j] = "raw" /\ options.move

-----------------------------------------------------------------------------
(* Types, and one writer for an output.                                      *)

\* A job that does not write a zip has one input.
LEMMA OneInput ==
    ASSUME NEW j \in Jobs, Kind[j] # "zip"
    PROVE  \E n \in Entries : /\ Needs[j] = {n} /\ Inputs(j) = {n.path}
                              /\ Input(j) = n.path /\ Wanted(j) = {n.payload}
<1>1. PICK n \in Entries : Needs[j] = {n}
  BY JobsAssumption
<1>2. Inputs(j) = {n.path} /\ Wanted(j) = {n.payload}
  BY <1>1 DEF Inputs, Wanted
<1>3. Input(j) = n.path
  BY <1>2 DEF Input
<1>4. QED
  BY <1>1, <1>2, <1>3

\* The constants' types, as the proofs use them.
LEMMA JobTypes ==
    ASSUME NEW j \in Jobs
    PROVE  /\ CandidateOf[j] \in Candidates /\ Output[j] \in Paths /\ Output[j] # None
           /\ Kind[j] \in Kinds
           /\ Needs[j] \in SUBSET Entries /\ Wanted(j) \in SUBSET Payloads
           /\ Kind[j] # "zip" => Input(j) \in Paths /\ Input(j) \in Inputs(j)
<1>1. /\ CandidateOf[j] \in Candidates /\ Output[j] \in Paths /\ Output[j] # None
      /\ Kind[j] \in Kinds /\ Needs[j] \in SUBSET Entries
  BY JobsAssumption, DisksAssumption
<1>2. Wanted(j) \in SUBSET Payloads
  BY <1>1 DEF Wanted, Entries
<1>3. Kind[j] # "zip" => Input(j) \in Paths /\ Input(j) \in Inputs(j)
  BY OneInput DEF Entries
<1>4. QED
  BY <1>1, <1>2, <1>3

\* What every step of a job does, and what none does.
StepShape(j) ==
    /\ job[j] \notin Ends
    /\ job'[j] \in JobStates \ {"new"}
    /\ job' = [job EXCEPT ![j] = job'[j]]
    /\ job'[j] \in Using \ {"copying"} => Kind[j] = "raw" /\ options.move
    /\ job[j] = "new" => candidate[CandidateOf[j]] = "writing"
    /\ tries' \in [Jobs -> 0..Retries]
    /\ job'[j] = "threw" => phase' = "aborting"
    /\ phase' # phase => phase' = "aborting"
    /\ UNCHANGED <<options, candidate, doomed>>
    /\ queued' = queued \/ /\ queued' = queued \cup {CandidateOf[j]}
                           /\ options.move /\ job'[j] \in Successes

LEMMA BecomesShape ==
    ASSUME TypeOK, NEW j \in Jobs, NEW s \in JobStates, Becomes(j, s)
    PROVE  /\ job'[j] = s /\ job' = [job EXCEPT ![j] = job'[j]]
           /\ tries' \in [Jobs -> 0..Retries]
  BY DEF TypeOK, Becomes

LEMMA SucceedShape ==
    ASSUME TypeOK, NEW j \in Jobs, NEW s \in Successes, Succeed(j, s)
    PROVE  /\ job'[j] = s /\ job' = [job EXCEPT ![j] = job'[j]]
           /\ tries' \in [Jobs -> 0..Retries]
           /\ queued' = queued \/ (queued' = queued \cup {CandidateOf[j]} /\ options.move)
<1>1. /\ job'[j] = s /\ job' = [job EXCEPT ![j] = job'[j]]
      /\ tries' \in [Jobs -> 0..Retries]
  BY BecomesShape DEF Succeed, Successes, JobStates, Ends
<1>2. queued' = queued \/ (queued' = queued \cup {CandidateOf[j]} /\ options.move)
  BY DEF Succeed, Enqueue
<1>3. QED
  BY <1>1, <1>2

LEMMA TryAgainShape ==
    ASSUME TypeOK, NEW j \in Jobs, TryAgain(j)
    PROVE  /\ job'[j] \in {"attempting", "failed"} /\ job' = [job EXCEPT ![j] = job'[j]]
           /\ tries' \in [Jobs -> 0..Retries] /\ queued' = queued
<1>1. /\ Retries \in Nat /\ tries \in [Jobs -> 0..Retries] /\ job \in [Jobs -> JobStates]
  BY BoundsAssumption DEF TypeOK, JobStates
<1>2. CASE /\ tries[j] < Retries
           /\ job' = [job EXCEPT ![j] = "attempting"]
           /\ tries' = [tries EXCEPT ![j] = @ + 1]
  <2>1. tries[j] \in 0..Retries /\ tries[j] + 1 \in 0..Retries
    BY <1>1, <1>2
  <2>2. tries' \in [Jobs -> 0..Retries]
    BY <1>1, <1>2, <2>1
  <2>3. QED
    BY <1>1, <1>2, <2>2 DEF TryAgain
<1>3. CASE Becomes(j, "failed")
  BY <1>1, <1>3 DEF TryAgain, Becomes
<1>4. QED
  BY <1>2, <1>3 DEF TryAgain

LEMMA CopiedShape ==
    ASSUME TypeOK, NEW j \in Jobs, Copied(j)
    PROVE  /\ job'[j] = IF options.test THEN "testing" ELSE "written"
           /\ job' = [job EXCEPT ![j] = job'[j]]
           /\ tries' \in [Jobs -> 0..Retries]
           /\ queued' = queued \/ /\ queued' = queued \cup {CandidateOf[j]}
                                  /\ options.move /\ job'[j] \in Successes
<1>1. CASE options.test /\ Becomes(j, "testing") /\ UNCHANGED queued
  BY <1>1, BecomesShape DEF JobStates
<1>2. CASE ~options.test /\ Succeed(j, "written")
  BY <1>2, SucceedShape DEF Successes
<1>3. QED
  BY <1>1, <1>2 DEF Copied

LEMMA ThrowShape ==
    ASSUME TypeOK, NEW j \in Jobs, Throw(j)
    PROVE  /\ job'[j] = "threw" /\ job' = [job EXCEPT ![j] = job'[j]]
           /\ tries' \in [Jobs -> 0..Retries]
           /\ phase' = "aborting" /\ queued' = queued
  BY BecomesShape DEF Throw, JobStates, Ends

\* The steps have that shape, and keep the types of the files.
LEMMA StepsHaveShape ==
    ASSUME TypeOK, MovesOK, NEW j \in Jobs, StepOf(j)
    PROVE  /\ StepShape(j)
           /\ files' \in [Paths -> {None} \cup SUBSET Payloads]
           /\ moved' \in [Paths -> Paths \cup {None}]
<1> DEFINE Typed == /\ files' \in [Paths -> {None} \cup SUBSET Payloads]
                    /\ moved' \in [Paths -> Paths \cup {None}]
<1> USE DEF StepShape, JobStates, Using, Ends, Successes
<1>1. /\ files \in [Paths -> {None} \cup SUBSET Payloads]
      /\ moved \in [Paths -> Paths \cup {None}]
      /\ Output[j] \in Paths /\ Kind[j] \in Kinds
      /\ Kind[j] # "zip" => Input(j) \in Paths
      /\ job[j] \in Using \ {"copying"} => Kind[j] = "raw" /\ options.move
  BY JobTypes DEF TypeOK, MovesOK
<1>2. ASSUME Start(j) PROVE StepShape(j) /\ Typed
  <2>1. job[j] = "new" /\ candidate[CandidateOf[j]] = "writing"
    BY <1>2 DEF Start, Ready
  <2>2. UNCHANGED <<options, phase, files, candidate, queued, doomed>>
    BY <1>2 DEF Start
  <2>3. CASE (Becomes(j, "checking") \/ Becomes(j, "skipped")) /\ UNCHANGED moved
    BY <2>1, <2>2, <2>3, <1>1, BecomesShape
  <2>4. CASE InPlace(j) /\ moved' = [moved EXCEPT ![Input(j)] = Input(j)] /\ Becomes(j, "skipped")
    <3>1. Input(j) \in Paths
      BY <2>4, <1>1 DEF InPlace
    <3>2. Typed
      BY <2>2, <2>4, <3>1, <1>1
    <3>3. QED
      BY <2>1, <2>2, <2>4, <3>2, BecomesShape
  <2>5. QED
    BY <2>3, <2>4, <1>2 DEF Start
<1>3. ASSUME Check(j) PROVE StepShape(j) /\ Typed
  <2>1. /\ job[j] = "checking"
        /\ UNCHANGED <<options, phase, files, moved, candidate, queued, doomed>>
    BY <1>3 DEF Check
  <2>2. options.overwrite \in {"never", "always", "invalid"}
    BY DEF TypeOK, Options
  <2>3. Becomes(j, "attempting") \/ Becomes(j, "skipped") \/ Becomes(j, "verifying")
    BY <1>3, <2>2 DEF Check
  <2>4. QED
    BY <2>1, <2>3, <1>1, BecomesShape
<1>4. ASSUME Verify(j) PROVE StepShape(j) /\ Typed
  <2>1. job[j] = "verifying" /\ UNCHANGED <<options, phase, files, moved, candidate, doomed>>
    BY <1>4 DEF Verify
  <2>2. CASE Succeed(j, "kept")
    BY <2>1, <2>2, <1>1, SucceedShape
  <2>3. CASE Becomes(j, "attempting") /\ UNCHANGED queued
    BY <2>1, <2>3, <1>1, BecomesShape
  <2>4. QED
    BY <2>2, <2>3, <1>4 DEF Verify
<1>5. ASSUME Attempt(j) PROVE StepShape(j) /\ Typed
  <2>1. job[j] = "attempting" /\ UNCHANGED <<options, phase, files, moved, candidate, doomed>>
    BY <1>5 DEF Attempt
  <2>2. CASE Succeed(j, "written")
    BY <2>1, <2>2, <1>1, SucceedShape
  <2>3. CASE /\ \/ Becomes(j, "copying")
                \/ Becomes(j, "moving") /\ Kind[j] = "raw" /\ options.move
             /\ UNCHANGED queued
    BY <2>1, <2>3, <1>1, BecomesShape
  <2>4. QED
    BY <2>2, <2>3, <1>5 DEF Attempt
<1>6. ASSUME Copy(j) PROVE StepShape(j) /\ Typed
  <2>1. job[j] = "copying" /\ UNCHANGED <<options, moved, candidate, doomed>>
    BY <1>6 DEF Copy
  <2>2. Produced(j) \in SUBSET Payloads
    BY JobTypes DEF Produced, Entries
  <2>3. files' \in [Paths -> {None} \cup SUBSET Payloads]
    BY <1>6, <2>2, <1>1 DEF Copy
  <2>4. CASE Copied(j) /\ UNCHANGED phase
    BY <2>1, <2>3, <2>4, <1>1, CopiedShape
  <2>5. CASE TryAgain(j) /\ UNCHANGED phase
    BY <2>1, <2>3, <2>5, <1>1, TryAgainShape
  <2>6. CASE Throw(j)
    BY <2>1, <2>3, <2>6, <1>1, ThrowShape
  <2>7. QED
    BY <2>4, <2>5, <2>6, <1>6 DEF Copy
<1>7. ASSUME job[j] \in Using \ {"copying"}, Renamed(j),
             UNCHANGED <<options, candidate, doomed>>
      PROVE  StepShape(j) /\ Typed
  <2>1. Input(j) \in Paths /\ files[Input(j)] \in {None} \cup SUBSET Payloads
    BY <1>1, <1>7
  <2>2. Typed
    BY <1>1, <1>7, <2>1 DEF Renamed
  <2>3. QED
    BY <1>7, <2>2, SucceedShape DEF Renamed
<1>8. ASSUME job[j] \in Using \ {"copying"}, CrossesDevice(j),
             UNCHANGED <<options, candidate, doomed>>
      PROVE  StepShape(j) /\ Typed
  <2>1. Typed
    BY <1>1, <1>8 DEF CrossesDevice
  <2>2. QED
    BY <1>1, <1>8, <2>1, BecomesShape DEF CrossesDevice
<1>9. ASSUME Move(j) PROVE StepShape(j) /\ Typed
  <2>1. job[j] = "moving" /\ UNCHANGED <<options, candidate, doomed>>
    BY <1>9 DEF Move
  <2>2. CASE Renamed(j)
    BY <2>1, <2>2, <1>7, <1>9
  <2>3. CASE CrossesDevice(j)
    BY <2>1, <2>3, <1>8
  <2>4. CASE /\ UNCHANGED <<phase, moved>>
             /\ files' = [files EXCEPT ![Output[j]] = None]
             /\ Becomes(j, "uncovered") /\ UNCHANGED queued
    <3>1. Typed
      BY <1>1, <2>4
    <3>2. QED
      BY <1>1, <2>1, <2>4, <3>1, BecomesShape
  <2>5. CASE UNCHANGED <<phase, moved>> /\ TryAgain(j) /\ UNCHANGED files
    BY <2>1, <2>5, <1>1, TryAgainShape
  <2>6. CASE Throw(j) /\ UNCHANGED <<files, moved>>
    BY <2>1, <2>6, <1>1, ThrowShape
  <2>7. QED
    BY <2>2, <2>3, <2>4, <2>5, <2>6, <1>9 DEF Move
<1>10. ASSUME MoveUncovered(j) PROVE StepShape(j) /\ Typed
  <2>1. job[j] = "uncovered" /\ UNCHANGED <<options, candidate, doomed>>
    BY <1>10 DEF MoveUncovered
  <2>2. CASE Renamed(j)
    BY <2>1, <2>2, <1>7, <1>10
  <2>3. CASE CrossesDevice(j)
    BY <2>1, <2>3, <1>8
  <2>4. CASE TryAgain(j) /\ UNCHANGED <<phase, files, moved>>
    BY <2>1, <2>4, <1>1, TryAgainShape
  <2>5. CASE Throw(j) /\ UNCHANGED <<files, moved>>
    BY <2>1, <2>5, <1>1, ThrowShape
  <2>6. QED
    BY <2>2, <2>3, <2>4, <2>5, <1>10 DEF MoveUncovered
<1>11. ASSUME Cross(j) PROVE StepShape(j) /\ Typed
  <2>1. job[j] = "crossing" /\ UNCHANGED <<options, moved, candidate, doomed>>
    BY <1>11 DEF Cross
  <2>2. files[Input(j)] \in {None} \cup SUBSET Payloads
    BY <1>1, <2>1
  <2>3. Typed
    BY <1>1, <1>11, <2>2 DEF Cross
  <2>4. CASE Becomes(j, "crossed") /\ UNCHANGED <<phase, queued>>
    BY <1>1, <2>1, <2>3, <2>4, BecomesShape
  <2>5. CASE TryAgain(j) /\ UNCHANGED <<phase, files>>
    BY <2>1, <2>3, <2>5, TryAgainShape
  <2>6. CASE Throw(j) /\ UNCHANGED files
    BY <2>1, <2>3, <2>6, ThrowShape
  <2>7. QED
    BY <2>4, <2>5, <2>6, <1>11 DEF Cross
<1>12. ASSUME RemoveSource(j) PROVE StepShape(j) /\ Typed
  <2>1. job[j] = "crossed" /\ UNCHANGED <<options, phase, candidate, doomed>>
    BY <1>12 DEF RemoveSource
  <2>2. Typed
    BY <1>1, <1>12 DEF RemoveSource
  <2>3. CASE Copied(j)
    BY <2>1, <2>2, <2>3, CopiedShape
  <2>4. CASE TryAgain(j) /\ UNCHANGED <<files, moved>>
    BY <2>1, <2>2, <2>4, TryAgainShape
  <2>5. QED
    BY <2>3, <2>4, <1>12 DEF RemoveSource
<1>13. ASSUME Test(j) PROVE StepShape(j) /\ Typed
  <2>1. job[j] = "testing" /\ UNCHANGED <<options, phase, files, moved, candidate, doomed>>
    BY <1>13 DEF Test
  <2>2. CASE Succeed(j, "written")
    BY <2>1, <2>2, <1>1, SucceedShape
  <2>3. CASE TryAgain(j)
    BY <2>1, <2>3, <1>1, TryAgainShape
  <2>4. QED
    BY <2>2, <2>3, <1>13 DEF Test
<1>14. QED
  BY <1>2, <1>3, <1>4, <1>5, <1>6, <1>9, <1>10, <1>11, <1>12, <1>13 DEF StepOf

\* The part of the invariant that holds whatever is written where.
WInv == TypeOK /\ MovesOK /\ CandidatesOK

LEMMA InitWInv == Init => WInv
<1> SUFFICES ASSUME Init PROVE WInv
  OBVIOUS
<1>1. TypeOK
  BY BoundsAssumption, DisksAssumption, JobsAssumption DEF Init, TypeOK
<1>2. MovesOK /\ CandidatesOK
  BY JobTypes DEF Init, MovesOK, CandidatesOK, InProgress, Using, Ends
<1>3. QED
  BY <1>1, <1>2 DEF WInv

LEMMA JobWInv ==
    ASSUME WInv, NEW j \in Jobs, StepOf(j)
    PROVE  WInv'
<1>1. /\ TypeOK /\ MovesOK /\ CandidatesOK /\ StepShape(j)
      /\ files' \in [Paths -> {None} \cup SUBSET Payloads]
      /\ moved' \in [Paths -> Paths \cup {None}]
  BY StepsHaveShape DEF WInv
<1>2. \A k \in Jobs \ {j} : job'[k] = job[k]
  BY <1>1 DEF TypeOK, StepShape
<1>3. CandidateOf[j] \in Candidates
  BY JobTypes
<1>4. TypeOK'
  <2>1. job' \in [Jobs -> JobStates] /\ queued' \subseteq Candidates
    BY <1>1, <1>3 DEF TypeOK, StepShape, JobStates
  <2>2. QED
    BY <1>1, <2>1 DEF TypeOK, StepShape, JobStates
<1>5. MovesOK'
  BY <1>1, <1>2 DEF MovesOK, StepShape
<1>6. CandidatesOK'
  <2>1. phase' # "aborting" => phase' = phase
    BY <1>1 DEF StepShape
  <2>2. UNCHANGED <<candidate, doomed, options>> /\ job[j] \notin Ends
    BY <1>1 DEF StepShape
  <2>3. ASSUME phase' # "aborting", NEW k \in Jobs
        PROVE  /\ InProgress(k)' => candidate[CandidateOf[k]] = "writing"
               /\ candidate[CandidateOf[k]] = "done" => job'[k] \in Ends
               /\ job'[k] # "threw"
    <3>1. phase # "aborting"
      BY <2>1, <2>3
    <3>2. CASE k = j
      BY <2>2, <2>3, <3>1, <3>2, <1>1 DEF CandidatesOK, InProgress, StepShape
    <3>3. CASE k # j
      BY <2>3, <3>1, <3>3, <1>1, <1>2 DEF CandidatesOK, InProgress
    <3>4. QED
      BY <3>2, <3>3
  <2>4. (phase = "deleting") = (phase' = "deleting")
    <3>1. CASE phase = "deleting"
      <4>1. candidate[CandidateOf[j]] = "done"
        BY <3>1, <1>1, <1>3 DEF CandidatesOK
      <4>2. job[j] \in Ends
        BY <3>1, <4>1, <1>1 DEF CandidatesOK
      <4>3. QED
        BY <4>2, <2>2
    <3>2. CASE phase # "deleting"
      BY <3>2, <1>1 DEF StepShape
    <3>3. QED
      BY <3>1, <3>2
  <2>5. QED
    BY <2>2, <2>3, <2>4, <1>1 DEF CandidatesOK, OutputsOf, JobsOf
<1>7. QED
  BY <1>4, <1>5, <1>6 DEF WInv

\* The files and the jobs have nothing to do with a candidate's coming and going.
LEMMA CandidateWInv ==
    ASSUME WInv, NEW c \in Candidates, Admit(c) \/ LockOutputs(c) \/ Finish(c)
    PROVE  WInv'
<1>1. /\ TypeOK /\ MovesOK /\ CandidatesOK
      /\ UNCHANGED <<options, phase, files, moved, job, tries, queued, doomed>>
  BY DEF WInv, Admit, LockOutputs, Finish, writeVars
<1>2. MovesOK'
  BY <1>1 DEF MovesOK
<1>3. \A d \in Candidates : OutputsOf(d)' = OutputsOf(d)
  BY DEF OutputsOf, JobsOf
<1>4. CASE Admit(c)
  <2>1. candidate[c] = "waiting" /\ candidate' = [candidate EXCEPT ![c] = "admitted"]
        /\ phase = "writing"
    BY <1>4 DEF Admit
  <2>2. TypeOK'
    BY <1>1, <2>1 DEF TypeOK
  <2>3. \A d \in Candidates : candidate'[d] = IF d = c THEN "admitted" ELSE candidate[d]
    BY <2>1, <1>1 DEF TypeOK
  <2>4. CandidatesOK'
    BY <1>1, <1>3, <2>1, <2>3, JobTypes DEF CandidatesOK, InProgress
  <2>5. QED
    BY <1>2, <2>2, <2>4 DEF WInv
<1>5. CASE LockOutputs(c)
  <2>1. /\ candidate[c] = "admitted" /\ candidate' = [candidate EXCEPT ![c] = "writing"]
        /\ \A d \in Candidates \ {c} :
              candidate[d] = "writing" => OutputsOf(c) \cap OutputsOf(d) = {}
    BY <1>5 DEF LockOutputs
  <2>2. TypeOK'
    BY <1>1, <2>1 DEF TypeOK
  <2>3. \A d \in Candidates : candidate'[d] = IF d = c THEN "writing" ELSE candidate[d]
    BY <2>1, <1>1 DEF TypeOK
  <2>4. phase # "deleting"
    BY <1>1, <2>1 DEF CandidatesOK
  <2>5. CandidatesOK'
    BY <1>1, <1>3, <2>1, <2>3, <2>4, JobTypes DEF CandidatesOK, InProgress
  <2>6. QED
    BY <1>2, <2>2, <2>5 DEF WInv
<1>6. CASE Finish(c)
  <2>1. /\ candidate[c] = "writing" /\ candidate' = [candidate EXCEPT ![c] = "done"]
        /\ \/ \A j \in JobsOf(c) : job[j] \in Ends
           \/ \E j \in JobsOf(c) : job[j] = "threw"
    BY <1>6 DEF Finish
  <2>2. TypeOK'
    BY <1>1, <2>1 DEF TypeOK
  <2>3. \A d \in Candidates : candidate'[d] = IF d = c THEN "done" ELSE candidate[d]
    BY <2>1, <1>1 DEF TypeOK
  <2>4. phase # "aborting" => \A j \in Jobs : CandidateOf[j] = c => job[j] \in Ends
    BY <1>1, <2>1 DEF CandidatesOK, JobsOf
  <2>5. CandidatesOK'
    BY <1>1, <1>3, <2>1, <2>3, <2>4, JobTypes DEF CandidatesOK, InProgress
  <2>6. QED
    BY <1>2, <2>2, <2>5 DEF WInv
<1>7. QED
  BY <1>4, <1>5, <1>6

LEMMA DeletingWInv ==
    ASSUME WInv, StartDeleting \/ (\E p \in Paths : Delete(p))
    PROVE  WInv'
<1>1. TypeOK /\ MovesOK /\ CandidatesOK
  BY DEF WInv
<1>2. CASE StartDeleting
  <2>1. /\ UNCHANGED <<options, files, moved, job, tries, queued, candidate>>
        /\ phase' = "deleting" /\ phase = "writing"
        /\ \A c \in Candidates : candidate[c] = "done"
    BY <1>2 DEF StartDeleting, writeVars
  <2>2. doomed' \subseteq Paths
    BY <1>2 DEF StartDeleting, ToDelete
  <2>3. TypeOK'
    BY <1>1, <2>1, <2>2 DEF TypeOK
  <2>4. MovesOK' /\ CandidatesOK'
    BY <1>1, <2>1 DEF MovesOK, CandidatesOK, InProgress, OutputsOf, JobsOf
  <2>5. QED
    BY <2>3, <2>4 DEF WInv
<1>3. ASSUME NEW p \in Paths, Delete(p) PROVE WInv'
  <2>1. /\ UNCHANGED <<options, phase, moved, job, tries, queued, candidate>>
        /\ doomed' = doomed \ {p} /\ p \in doomed
    BY <1>3 DEF Delete
  <2>2. files' \in [Paths -> {None} \cup SUBSET Payloads]
    BY <1>1, <1>3 DEF Delete, TypeOK
  <2>3. TypeOK'
    BY <1>1, <2>1, <2>2 DEF TypeOK
  <2>4. MovesOK' /\ CandidatesOK'
    BY <1>1, <2>1 DEF MovesOK, CandidatesOK, InProgress, OutputsOf, JobsOf
  <2>5. QED
    BY <2>3, <2>4 DEF WInv
<1>4. QED
  BY <1>2, <1>3

LEMMA NextWInv == WInv /\ [Next]_vars => WInv'
<1> SUFFICES ASSUME WInv, [Next]_vars PROVE WInv'
  OBVIOUS
<1>1. CASE \E c \in Candidates : Admit(c) \/ LockOutputs(c) \/ Finish(c)
  BY <1>1, CandidateWInv
<1>2. CASE \E j \in Jobs : StepOf(j)
  BY <1>2, JobWInv
<1>3. CASE StartDeleting \/ (\E p \in Paths : Delete(p))
  BY <1>3, DeletingWInv
<1>4. CASE UNCHANGED vars
  <2>1. /\ UNCHANGED <<options, phase, files, moved, job, tries, queued, candidate, doomed>>
        /\ TypeOK /\ MovesOK /\ CandidatesOK
    BY <1>4 DEF vars, writeVars, WInv
  <2>2. TypeOK' /\ MovesOK' /\ CandidatesOK'
    BY <2>1 DEF TypeOK, MovesOK, CandidatesOK, InProgress, OutputsOf, JobsOf
  <2>3. QED
    BY <2>2 DEF WInv
<1>5. QED
  BY <1>1, <1>2, <1>3, <1>4 DEF Next, Progress, Terminating

\* Candidates never write one output together.
LEMMA OneWriter ==
    ASSUME CandidatesOK, phase # "aborting", NEW j \in Jobs, NEW k \in Jobs,
           CandidateOf[j] # CandidateOf[k], InProgress(j), InProgress(k)
    PROVE  Output[j] # Output[k]
<1>1. candidate[CandidateOf[j]] = "writing" /\ candidate[CandidateOf[k]] = "writing"
  BY DEF CandidatesOK
<1>2. CandidateOf[j] \in Candidates /\ CandidateOf[k] \in Candidates
  BY JobTypes
<1>3. OutputsOf(CandidateOf[j]) \cap OutputsOf(CandidateOf[k]) = {}
  BY <1>1, <1>2 DEF CandidatesOK
<1>4. Output[j] \in OutputsOf(CandidateOf[j]) /\ Output[k] \in OutputsOf(CandidateOf[k])
  BY DEF OutputsOf, JobsOf
<1>5. QED
  BY <1>3, <1>4

LEMMA WInvHolds == Spec => []WInv
<1>1. QED
  BY InitWInv, NextWInv, PTL DEF Spec

\* Every variable has the type its declaration gives it.
THEOREM TypeCorrect == Spec => []TypeOK
<1>1. WInv => TypeOK
  BY DEF WInv
<1>2. QED
  BY <1>1, WInvHolds, PTL

\* CandidateWriterSemaphore: two candidates never write one output path at the same
\* time, whatever the DATs want, unless a write threw.
THEOREM OutputsAreExclusive == Spec => []OutputsExclusive
<1>1. WInv => OutputsExclusive
  BY OneWriter DEF WInv, OutputsExclusive, InProgress
<1>2. QED
  BY <1>1, WInvHolds, PTL

-----------------------------------------------------------------------------
(* Where the inputs are.                                                     *)

Holds(p, x) == files[p] # None /\ x \in files[p]

\* What the mutex says has moved is the input of a job that moves it to its output,
\* or has it there.
MovedOK ==
    \A p \in Paths : moved[p] # None =>
        /\ options.move
        /\ \E m \in Jobs : Kind[m] = "raw" /\ Input(m) = p /\ Output[m] = moved[p]

\* What is known of an input from how far its job is.
StepsOK ==
    \A k \in Jobs :
        /\ job[k] \in Using \ {"copying"} => moved[Input(k)] = None
        /\ job[k] \in {"copying", "testing", "written"} /\ Kind[k] = "raw" /\ options.move =>
              moved[Input(k)] # None
        /\ job[k] = "copying" /\ Kind[k] = "raw" /\ options.move =>
              moved[Input(k)] # Output[k]
        /\ InPlace(k) /\ job[k] \notin {"new", "skipped"} =>
              options.move /\ moved[Input(k)] # None
        /\ job[k] = "verifying" => options.overwrite = "invalid"

\* FileMoveMutex: one job has an input at a time.
LocksApart ==
    options.move =>
        \A j, k \in Jobs :
            j # k /\ job[j] \in Using /\ job[k] \in Using => Inputs(j) \cap Inputs(k) = {}

\* Everything that was scanned is where the mutex says it is.
SourcesOK ==
    phase # "deleting" => \A n \in Sources : Holds(Location(n.path), n.payload)

\* A copy across drives is whole before its source is removed.
CrossedOK ==
    \A k \in Jobs : job[k] = "crossed" =>
        \A n \in Sources : n.path = Input(k) => Holds(Output[k], n.payload)

MoveInv == WInv /\ MovedOK /\ StepsOK /\ LocksApart

\* A path that is an input is the output of nothing but jobs in place.
LEMMA OutputsAreNoInputs ==
    ASSUME OutputsApart, NEW k \in Jobs, NEW n \in Sources, Output[k] = n.path
    PROVE  InPlace(k) /\ Kind[k] = "raw" /\ Input(k) = n.path
  BY DEF OutputsApart, InPlace

\* Jobs with one output have one input.
LEMMA OneOutputOneInput ==
    ASSUME OutputsApart, NEW j \in Jobs, NEW k \in Jobs, j # k, Output[j] = Output[k]
    PROVE  /\ Kind[j] = "raw" /\ Kind[k] = "raw" /\ CandidateOf[j] # CandidateOf[k]
           /\ Inputs(j) = Inputs(k) /\ Input(j) = Input(k) /\ Wanted(j) = Wanted(k)
  BY DEF OutputsApart, Inputs, Input, Wanted

\* What was scanned lies somewhere, and what a job needs was scanned.
LEMMA SourcePaths ==
    ASSUME NEW n \in Sources
    PROVE  n.path \in Paths
<1>1. \A k \in Jobs : \A m \in Needs[k] : m.path \in Paths
  BY JobsAssumption DEF Entries
<1>2. CASE n \in UNION {Needs[k] : k \in Jobs}
  BY <1>1, <1>2
<1>3. CASE n \in {[path |-> e.path, payload |-> e.payload] : e \in Index}
  BY <1>3, DisksAssumption
<1>4. QED
  BY <1>2, <1>3 DEF Sources

LEMMA NeedsAreSources ==
    ASSUME NEW j \in Jobs
    PROVE  /\ Needs[j] \subseteq Sources
           /\ Kind[j] # "zip" => \E n \in Sources : n.path = Input(j)
<1>1. Needs[j] \subseteq Sources
  BY DEF Sources
<1>2. Kind[j] # "zip" => \E n \in Sources : n.path = Input(j)
  BY <1>1, OneInput
<1>3. QED
  BY <1>1, <1>2

\* A job that uses its inputs never writes where anybody's input is.
LEMMA NoInputIsWritten ==
    ASSUME OutputsApart, MoveInv, NEW k \in Jobs, job[k] \in Using, NEW n \in Sources
    PROVE  Output[k] # Location(n.path)
<1>1. SUFFICES ASSUME Output[k] = Location(n.path) PROVE FALSE
  OBVIOUS
<1>2. n.path \in Paths /\ Output[k] # None
  BY SourcePaths, JobTypes
<1>3. StepsOK /\ MovedOK /\ MovesOK
  BY DEF MoveInv, WInv
<1>4. CASE moved[n.path] = None
  <2>1. Output[k] = n.path
    BY <1>1, <1>4 DEF Location
  <2>2. InPlace(k) /\ Input(k) = n.path
    BY <2>1, OutputsAreNoInputs
  <2>3. job[k] \notin {"new", "skipped"}
    BY DEF Using
  <2>4. QED
    BY <2>2, <2>3, <1>3, <1>4 DEF StepsOK
<1>5. CASE moved[n.path] # None
  <2>1. Output[k] = moved[n.path]
    BY <1>1, <1>5 DEF Location
  <2>2. PICK m \in Jobs : Kind[m] = "raw" /\ Input(m) = n.path /\ Output[m] = moved[n.path]
    BY <1>2, <1>3, <1>5 DEF MovedOK
  <2>3. Kind[k] = "raw" /\ Input(k) = n.path /\ options.move
    BY <2>1, <2>2, <1>2, <1>3, <1>5, OneOutputOneInput DEF MovedOK
  <2>4. moved[Input(k)] = Output[k] /\ moved[Input(k)] # None
    BY <2>1, <2>3, <1>5
  <2>5. QED
    BY <2>3, <2>4, <1>3 DEF StepsOK
<1>6. QED
  BY <1>4, <1>5

\* A file is moved once, by a job that has it, and that is done with it then.
MovesAsItIs(j) ==
    /\ Kind[j] = "raw" /\ options.move /\ moved[Input(j)] = None
    /\ moved' = [moved EXCEPT ![Input(j)] = Output[j]]
    /\ \/ InPlace(j) /\ job[j] = "new" /\ Input(j) \notin Locked /\ files' = files
       \/ /\ job[j] \in {"moving", "uncovered"} /\ files[Input(j)] # None
          /\ files' = [files EXCEPT ![Output[j]] = files[Input(j)], ![Input(j)] = None]
       \/ job[j] = "crossed" /\ files' = [files EXCEPT ![Input(j)] = None]
    /\ job'[j] \notin Using

\* A step of a job moves its input, or writes its output, or touches no file.
LEMMA WhatStepsDo ==
    ASSUME TypeOK, MovesOK, StepsOK, NEW j \in Jobs, StepOf(j)
    PROVE  \/ moved' = moved /\ files' = files
           \/ /\ moved' = moved /\ job[j] \in Using
              /\ \A p \in Paths \ {Output[j]} : files'[p] = files[p]
           \/ MovesAsItIs(j)
<1> USE DEF Using, Ends, Successes
<1>1. job[j] \in Using \ {"copying"} =>
         Kind[j] = "raw" /\ options.move /\ moved[Input(j)] = None
  BY DEF MovesOK, StepsOK
<1>2. files \in [Paths -> {None} \cup SUBSET Payloads] /\ job \in [Jobs -> JobStates]
  BY DEF TypeOK, JobStates
<1>3. ASSUME Start(j), moved' # moved PROVE MovesAsItIs(j)
  <2>1. /\ job[j] = "new" /\ InPlace(j) /\ options.move /\ Input(j) \notin Locked
        /\ moved[Input(j)] = None /\ moved' = [moved EXCEPT ![Input(j)] = Input(j)]
        /\ Becomes(j, "skipped") /\ files' = files
    BY <1>3 DEF Start, Ready
  <2>2. job'[j] = "skipped"
    BY <2>1, <1>2 DEF Becomes
  <2>3. QED
    BY <2>1, <2>2 DEF MovesAsItIs, InPlace
<1>4. ASSUME job[j] \in {"moving", "uncovered"}, Renamed(j) PROVE MovesAsItIs(j)
  <2>1. job'[j] = "written"
    BY <1>4, <1>2 DEF Renamed, Succeed, Becomes
  <2>2. QED
    BY <2>1, <1>1, <1>4 DEF MovesAsItIs, Renamed
<1>5. ASSUME RemoveSource(j), moved' # moved \/ files' # files PROVE MovesAsItIs(j)
  <2>1. /\ job[j] = "crossed" /\ files' = [files EXCEPT ![Input(j)] = None]
        /\ moved' = [moved EXCEPT ![Input(j)] = Output[j]] /\ Copied(j)
    BY <1>5 DEF RemoveSource
  <2>2. job'[j] \in {"testing", "written"}
    BY <2>1, <1>2 DEF Copied, Succeed, Becomes
  <2>3. QED
    BY <2>1, <2>2, <1>1 DEF MovesAsItIs
<1>6. ASSUME Check(j) \/ Verify(j) \/ Attempt(j) \/ Test(j)
      PROVE  moved' = moved /\ files' = files
  BY <1>6 DEF Check, Verify, Attempt, Test
<1>7. ASSUME Copy(j) \/ Cross(j)
      PROVE  /\ moved' = moved /\ job[j] \in Using
             /\ \A p \in Paths \ {Output[j]} : files'[p] = files[p]
  BY <1>2, <1>7 DEF Copy, Cross
<1>8. ASSUME Move(j) \/ MoveUncovered(j), ~Renamed(j)
      PROVE  /\ moved' = moved /\ job[j] \in Using
             /\ \A p \in Paths \ {Output[j]} : files'[p] = files[p]
  BY <1>2, <1>8 DEF Move, MoveUncovered, CrossesDevice
<1>9. ASSUME Move(j) \/ MoveUncovered(j), Renamed(j) PROVE MovesAsItIs(j)
  BY <1>4, <1>9 DEF Move, MoveUncovered
<1>10. ASSUME Start(j) PROVE files' = files
  BY <1>10 DEF Start
<1>11. QED
  BY <1>3, <1>5, <1>6, <1>6, <1>7, <1>8, <1>9, <1>10 DEF StepOf

\* What is known of a job's input after a step of that job.
LEMMA OwnStep ==
    ASSUME TypeOK, MovesOK, StepsOK, NEW j \in Jobs, StepOf(j)
    PROVE  /\ job'[j] \in Using \ {"copying"} => moved'[Input(j)] = None
           /\ job'[j] \in {"copying", "testing", "written"} /\ Kind[j] = "raw" /\ options.move =>
                 moved'[Input(j)] # None
           /\ job'[j] = "copying" /\ Kind[j] = "raw" /\ options.move =>
                 moved'[Input(j)] # Output[j]
           /\ InPlace(j) /\ job'[j] \notin {"new", "skipped"} =>
                 options.move /\ moved'[Input(j)] # None
           /\ job'[j] = "verifying" => options.overwrite = "invalid"
<1> USE DEF Using, Ends, Successes
<1> DEFINE Known ==
             /\ job'[j] \in Using \ {"copying"} => moved'[Input(j)] = None
             /\ job'[j] \in {"copying", "testing", "written"} /\ Kind[j] = "raw" /\ options.move =>
                   moved'[Input(j)] # None
             /\ job'[j] = "copying" /\ Kind[j] = "raw" /\ options.move =>
                   moved'[Input(j)] # Output[j]
             /\ InPlace(j) /\ job'[j] \notin {"new", "skipped"} =>
                   options.move /\ moved'[Input(j)] # None
             /\ job'[j] = "verifying" => options.overwrite = "invalid"
<1>1. /\ job[j] \in Using \ {"copying"} => moved[Input(j)] = None
      /\ job[j] \in {"copying", "testing", "written"} /\ Kind[j] = "raw" /\ options.move =>
            moved[Input(j)] # None
      /\ InPlace(j) /\ job[j] \notin {"new", "skipped"} =>
            options.move /\ moved[Input(j)] # None
      /\ Output[j] \in Paths /\ Output[j] # None /\ None \notin Paths
      /\ Kind[j] # "zip" => Input(j) \in Paths
      /\ InPlace(j) => Kind[j] = "raw"
      /\ job \in [Jobs -> JobStates] /\ moved \in [Paths -> Paths \cup {None}]
  BY JobTypes, DisksAssumption DEF StepsOK, TypeOK, JobStates, InPlace
<1>2. ASSUME NEW s, Becomes(j, s) \/ Succeed(j, s)
      PROVE  job'[j] = s
  BY <1>1, <1>2 DEF Becomes, Succeed
<1>3. ASSUME TryAgain(j) PROVE job'[j] \in {"attempting", "failed"}
  BY <1>1, <1>3 DEF TryAgain, Becomes
<1>4. ASSUME Copied(j) PROVE job'[j] \in {"testing", "written"}
  BY <1>1, <1>4 DEF Copied, Succeed, Becomes
<1>5. ASSUME Throw(j) PROVE job'[j] = "threw"
  BY <1>1, <1>5 DEF Throw, Becomes
<1>6. CASE Start(j)
  <2>1. CASE ~InPlace(j) /\ Becomes(j, "checking")
    BY <2>1, <1>2
  <2>2. CASE Becomes(j, "skipped")
    BY <2>2, <1>2
  <2>3. CASE options.move /\ moved[Input(j)] # None /\ Becomes(j, "checking") /\ UNCHANGED moved
    BY <2>3, <1>2
  <2>4. QED
    BY <2>1, <2>2, <2>3, <1>6 DEF Start
<1>7. CASE Check(j)
  <2>1. /\ job'[j] \in {"skipped", "attempting", "verifying"}
        /\ job'[j] = "verifying" => options.overwrite = "invalid"
    <3>1. options.overwrite \in {"never", "always", "invalid"}
      BY DEF TypeOK, Options
    <3>2. QED
      BY <3>1, <1>2, <1>7 DEF Check
  <2>2. job[j] = "checking" /\ moved' = moved
    BY <1>7 DEF Check
  <2>3. QED
    BY <2>1, <2>2, <1>1
<1>8. CASE Verify(j)
  BY <1>1, <1>2, <1>8 DEF Verify
<1>9. CASE Attempt(j)
  <2>1. job[j] = "attempting" /\ moved' = moved
    BY <1>9 DEF Attempt
  <2>2. CASE /\ options.move /\ Kind[j] # "zip" /\ moved[Input(j)] = Output[j]
             /\ Succeed(j, "written")
    BY <2>1, <2>2, <1>1, <1>2
  <2>3. CASE options.move /\ Kind[j] = "raw" /\ moved[Input(j)] = None /\ Becomes(j, "moving")
    BY <2>1, <2>3, <1>1, <1>2
  <2>4. CASE /\ \/ ~options.move
                \/ Kind[j] = "zip"
                \/ Kind[j] = "extract" /\ moved[Input(j)] = None
                \/ moved[Input(j)] \notin {None, Output[j]}
             /\ Becomes(j, "copying")
    BY <2>1, <2>4, <1>1, <1>2
  <2>5. QED
    BY <2>2, <2>3, <2>4, <1>9 DEF Attempt
<1>10. CASE Copy(j)
  <2>1. job[j] = "copying" /\ moved' = moved
    BY <1>10 DEF Copy
  <2>2. job'[j] \in {"testing", "written", "attempting", "failed", "threw"}
    BY <1>3, <1>4, <1>5, <1>10 DEF Copy
  <2>3. QED
    BY <2>1, <2>2, <1>1
<1>11. ASSUME job[j] \in {"moving", "uncovered"}, Renamed(j) PROVE Known
  <2>1. job'[j] = "written" /\ moved' = [moved EXCEPT ![Input(j)] = Output[j]]
    BY <1>2, <1>11 DEF Renamed
  <2>2. moved'[Input(j)] = Output[j] /\ options.move
    BY <2>1, <1>1, <1>11 DEF MovesOK
  <2>3. QED
    BY <2>1, <2>2, <1>1
<1>12. ASSUME job[j] \in {"moving", "uncovered"}, CrossesDevice(j) PROVE Known
  BY <1>1, <1>2, <1>12 DEF CrossesDevice
<1>13. CASE Move(j)
  <2>1. job[j] = "moving"
    BY <1>13 DEF Move
  <2>2. CASE Renamed(j)
    BY <2>1, <2>2, <1>11
  <2>3. CASE CrossesDevice(j)
    BY <2>1, <2>3, <1>12
  <2>4. CASE UNCHANGED moved /\ (Becomes(j, "uncovered") \/ TryAgain(j) \/ Throw(j))
    BY <2>1, <2>4, <1>1, <1>2, <1>3, <1>5
  <2>5. QED
    BY <2>2, <2>3, <2>4, <1>13 DEF Move
<1>14. CASE MoveUncovered(j)
  <2>1. job[j] = "uncovered"
    BY <1>14 DEF MoveUncovered
  <2>2. CASE Renamed(j)
    BY <2>1, <2>2, <1>11
  <2>3. CASE CrossesDevice(j)
    BY <2>1, <2>3, <1>12
  <2>4. CASE UNCHANGED moved /\ (TryAgain(j) \/ Throw(j))
    BY <2>1, <2>4, <1>1, <1>3, <1>5
  <2>5. QED
    BY <2>2, <2>3, <2>4, <1>14 DEF MoveUncovered
<1>15. CASE Cross(j)
  <2>1. job[j] = "crossing" /\ moved' = moved
    BY <1>15 DEF Cross
  <2>2. job'[j] \in {"crossed", "attempting", "failed", "threw"}
    BY <1>2, <1>3, <1>5, <1>15 DEF Cross
  <2>3. QED
    BY <2>1, <2>2, <1>1
<1>16. CASE RemoveSource(j)
  <2>1. job[j] = "crossed" /\ options.move /\ Input(j) \in Paths
    BY <1>1, <1>16 DEF RemoveSource, MovesOK
  <2>2. CASE moved' = [moved EXCEPT ![Input(j)] = Output[j]] /\ Copied(j)
    <3>1. moved'[Input(j)] = Output[j]
      BY <2>1, <2>2, <1>1
    <3>2. QED
      BY <2>1, <2>2, <3>1, <1>1, <1>4
  <2>3. CASE TryAgain(j) /\ UNCHANGED <<files, moved>>
    BY <2>1, <2>3, <1>1, <1>3
  <2>4. QED
    BY <2>2, <2>3, <1>16 DEF RemoveSource
<1>17. CASE Test(j)
  <2>1. job[j] = "testing" /\ moved' = moved
    BY <1>17 DEF Test
  <2>2. job'[j] \in {"written", "attempting", "failed"}
    BY <1>2, <1>3, <1>17 DEF Test
  <2>3. QED
    BY <2>1, <2>2, <1>1
<1>18. QED
  BY <1>6, <1>7, <1>8, <1>9, <1>10, <1>13, <1>14, <1>15, <1>16, <1>17 DEF StepOf

\* A job comes to use its inputs when it attempts, and nobody else does.
LEMMA UsesWhenUnlocked ==
    ASSUME TypeOK, NEW j \in Jobs, StepOf(j), job[j] \notin Using, job'[j] \in Using
    PROVE  Inputs(j) \cap Locked = {}
<1> USE DEF Using, Ends, Successes
<1>1. job \in [Jobs -> JobStates]
  BY DEF TypeOK, JobStates
<1>2. ~Copy(j) /\ ~Move(j) /\ ~MoveUncovered(j) /\ ~Cross(j) /\ ~RemoveSource(j)
  BY DEF Copy, Move, MoveUncovered, Cross, RemoveSource
<1>3. ~Start(j) /\ ~Verify(j)
  BY <1>1 DEF Start, Verify, Becomes, Succeed
<1>4. ~Test(j)
  BY <1>1 DEF Test, Becomes, Succeed, TryAgain
<1>5. ~Check(j)
  <2>1. options.overwrite \in {"never", "always", "invalid"}
    BY DEF TypeOK, Options
  <2>2. QED
    BY <2>1, <1>1 DEF Check, Becomes
<1>6. QED
  BY <1>2, <1>3, <1>4, <1>5 DEF StepOf, Attempt

LEMMA JobMoveInv ==
    ASSUME MoveInv, NEW j \in Jobs, StepOf(j)
    PROVE  MoveInv'
<1>1. /\ TypeOK /\ MovesOK /\ StepsOK /\ MovedOK /\ LocksApart
      /\ StepShape(j) /\ UNCHANGED options
  BY StepsHaveShape DEF MoveInv, WInv, StepShape
<1>2. WInv'
  BY JobWInv DEF MoveInv
<1>3. \A k \in Jobs \ {j} : job'[k] = job[k]
  BY <1>1 DEF TypeOK, StepShape
<1>4. moved' = moved \/ MovesAsItIs(j)
  BY <1>1, WhatStepsDo
<1>5. ASSUME MovesAsItIs(j)
      PROVE  /\ Input(j) \in Paths /\ Input(j) \in Inputs(j)
             /\ moved'[Input(j)] = Output[j] /\ moved[Input(j)] = None
             /\ \A p \in Paths : p # Input(j) => moved'[p] = moved[p]
             /\ \A p \in Paths : moved[p] # None => moved'[p] = moved[p]
  BY <1>1, <1>5, JobTypes DEF MovesAsItIs, TypeOK
<1>6. MovedOK'
  <2>1. ASSUME NEW p \in Paths, moved'[p] # None
        PROVE  /\ options.move
               /\ \E m \in Jobs : Kind[m] = "raw" /\ Input(m) = p /\ Output[m] = moved'[p]
    <3>1. CASE moved'[p] = moved[p]
      BY <2>1, <3>1, <1>1 DEF MovedOK
    <3>2. CASE moved'[p] # moved[p]
      BY <3>2, <1>4, <1>5 DEF MovesAsItIs
    <3>3. QED
      BY <3>1, <3>2
  <2>2. QED
    BY <2>1, <1>1 DEF MovedOK
<1>7. \A k \in Jobs \ {j} : job[k] \in Using =>
         moved'[Input(k)] = moved[Input(k)] \/ Kind[k] = "zip"
  <2>1. SUFFICES ASSUME NEW k \in Jobs \ {j}, job[k] \in Using, Kind[k] # "zip", MovesAsItIs(j)
                 PROVE  moved'[Input(k)] = moved[Input(k)]
    BY <1>4
  <2>2. Input(k) \in Paths /\ Input(k) \in Inputs(k)
    BY <2>1, JobTypes
  <2>3. options.move /\ (Input(j) \notin Locked \/ job[j] \in Using)
    BY <2>1 DEF MovesAsItIs, Using
  <2>4. Inputs(k) \subseteq Locked
    BY <2>1, <2>3 DEF Locked
  <2>5. Input(k) # Input(j)
    BY <2>1, <2>2, <2>3, <2>4, <1>1, <1>5 DEF LocksApart
  <2>6. QED
    BY <2>1, <2>2, <2>5, <1>5
<1>8. StepsOK'
  <2>1. ASSUME NEW k \in Jobs
        PROVE  /\ job'[k] \in Using \ {"copying"} => moved'[Input(k)] = None
               /\ job'[k] \in {"copying", "testing", "written"} /\ Kind[k] = "raw"
                     /\ options.move => moved'[Input(k)] # None
               /\ job'[k] = "copying" /\ Kind[k] = "raw" /\ options.move =>
                     moved'[Input(k)] # Output[k]
               /\ InPlace(k) /\ job'[k] \notin {"new", "skipped"} =>
                     options.move /\ moved'[Input(k)] # None
               /\ job'[k] = "verifying" => options.overwrite = "invalid"
    <3>1. CASE k = j
      BY <3>1, <1>1, OwnStep
    <3>2. CASE k # j
      <4>1. job'[k] = job[k] /\ (Kind[k] # "zip" => Input(k) \in Paths)
        BY <3>2, <1>3, JobTypes
      <4>2. Kind[k] # "zip" /\ moved[Input(k)] # None => moved'[Input(k)] = moved[Input(k)]
        BY <4>1, <1>4, <1>5
      <4>3. job[k] \in Using /\ Kind[k] # "zip" => moved'[Input(k)] = moved[Input(k)]
        BY <3>2, <1>7
      <4>4. job[k] \in Using \ {"copying"} => Kind[k] = "raw"
        BY <1>1 DEF MovesOK
      <4>5. InPlace(k) => Kind[k] = "raw"
        BY DEF InPlace
      <4>6. QED
        BY <4>1, <4>2, <4>3, <4>4, <4>5, <1>1 DEF StepsOK, Using
    <3>3. QED
      BY <3>1, <3>2
  <2>2. QED
    BY <2>1, <1>1 DEF StepsOK, InPlace
<1>9. LocksApart'
  <2>1. SUFFICES ASSUME options.move, NEW a \in Jobs, NEW b \in Jobs, a # b,
                        job'[a] \in Using, job'[b] \in Using
                 PROVE  Inputs(a) \cap Inputs(b) = {}
    BY <1>1 DEF LocksApart, Inputs
  <2>2. ASSUME NEW k \in Jobs \ {j}, job[k] \in Using, job'[j] \in Using
        PROVE  Inputs(j) \cap Inputs(k) = {}
    <3>1. CASE job[j] \in Using
      BY <2>1, <2>2, <3>1, <1>1 DEF LocksApart
    <3>2. CASE job[j] \notin Using
      <4>1. Inputs(j) \cap Locked = {}
        BY <2>2, <3>2, <1>1, UsesWhenUnlocked
      <4>2. QED
        BY <2>1, <2>2, <4>1 DEF Locked
    <3>3. QED
      BY <3>1, <3>2
  <2>3. CASE a = j
    BY <2>1, <2>2, <2>3, <1>3
  <2>4. CASE b = j
    BY <2>1, <2>2, <2>4, <1>3
  <2>5. CASE a # j /\ b # j
    BY <2>1, <2>5, <1>1, <1>3 DEF LocksApart
  <2>6. QED
    BY <2>3, <2>4, <2>5
<1>10. QED
  BY <1>2, <1>6, <1>8, <1>9 DEF MoveInv

\* What steps do keeps everything that was scanned where the mutex says it is.
LEMMA JobSources ==
    ASSUME OutputsApart, MoveInv, SourcesOK, CrossedOK, NEW j \in Jobs, StepOf(j)
    PROVE  SourcesOK'
<1>1. /\ TypeOK /\ MovesOK /\ StepsOK /\ MovedOK /\ CandidatesOK /\ StepShape(j)
  BY StepsHaveShape DEF MoveInv, WInv
<1>2. SUFFICES ASSUME NEW n \in Sources
               PROVE  Holds(Location(n.path), n.payload)'
  BY DEF SourcesOK
<1>3. phase # "deleting"
  BY <1>1, JobTypes DEF CandidatesOK, StepShape
<1>4. Holds(Location(n.path), n.payload) /\ n.path \in Paths
  BY <1>3, SourcePaths DEF SourcesOK
<1>5. Location(n.path) \in Paths
  BY <1>1, <1>4 DEF Location, TypeOK
<1>6. CASE moved' = moved /\ files' = files
  BY <1>4, <1>6 DEF Holds, Location
<1>7. CASE moved' = moved /\ job[j] \in Using /\ \A p \in Paths \ {Output[j]} : files'[p] = files[p]
  <2>1. Location(n.path) # Output[j]
    BY <1>7, NoInputIsWritten
  <2>2. Location(n.path)' = Location(n.path)
    BY <1>7 DEF Location
  <2>3. files'[Location(n.path)] = files[Location(n.path)]
    BY <2>1, <1>5, <1>7
  <2>4. QED
    BY <2>2, <2>3, <1>4 DEF Holds
<1>8. CASE MovesAsItIs(j)
  <2>1. /\ Kind[j] = "raw" /\ moved[Input(j)] = None /\ Input(j) \in Paths
        /\ Output[j] \in Paths /\ Output[j] # None
        /\ moved' = [moved EXCEPT ![Input(j)] = Output[j]]
        /\ moved \in [Paths -> Paths \cup {None}]
        /\ files \in [Paths -> {None} \cup SUBSET Payloads]
    BY <1>1, <1>8, JobTypes DEF MovesAsItIs, TypeOK
  <2>2. moved'[Input(j)] = Output[j] /\ \A p \in Paths \ {Input(j)} : moved'[p] = moved[p]
    BY <2>1
  <2>3. CASE InPlace(j) /\ files' = files
    <3>1. Location(n.path)' = Location(n.path)
      BY <2>1, <2>2, <2>3, <1>4 DEF Location, InPlace
    <3>2. QED
      BY <3>1, <2>3, <1>4 DEF Holds
  <2>4. CASE /\ job[j] \in Using \ {"copying"}
             /\ Input(j) # n.path
             /\ \A p \in Paths \ {Output[j], Input(j)} : files'[p] = files[p]
    <3>1. Location(n.path)' = Location(n.path)
      BY <2>2, <2>4, <1>4 DEF Location
    <3>2. Location(n.path) # Output[j]
      BY <2>4, NoInputIsWritten
    <3>3. Location(n.path) # Input(j)
      <4>1. SUFFICES ASSUME moved[n.path] # None, moved[n.path] = Input(j) PROVE FALSE
        BY <2>4 DEF Location
      <4>2. PICK m \in Jobs : Kind[m] = "raw" /\ Input(m) = n.path /\ Output[m] = Input(j)
        BY <4>1, <1>1, <1>4 DEF MovedOK
      <4>3. PICK o \in Sources : o.path = Input(j)
        BY <2>1, NeedsAreSources
      <4>4. Input(m) = Input(j)
        BY <4>2, <4>3, OutputsAreNoInputs
      <4>5. QED
        BY <4>2, <4>4, <2>4
    <3>4. QED
      BY <3>1, <3>2, <3>3, <2>4, <1>4, <1>5 DEF Holds
  <2>5. CASE job[j] \in Using \ {"copying"} /\ Input(j) = n.path
    <3>1. Location(n.path) = Input(j) /\ Location(n.path)' = Output[j]
      BY <2>1, <2>2, <2>5 DEF Location
    <3>2. Output[j] # Input(j)
      BY <3>1, <2>5, NoInputIsWritten
    <3>3. CASE files' = [files EXCEPT ![Output[j]] = files[Input(j)], ![Input(j)] = None]
      <4>1. files'[Output[j]] = files[Input(j)]
        BY <3>2, <3>3, <2>1
      <4>2. QED
        BY <3>1, <4>1, <1>4 DEF Holds
    <3>4. CASE job[j] = "crossed" /\ files' = [files EXCEPT ![Input(j)] = None]
      <4>1. files'[Output[j]] = files[Output[j]]
        BY <3>2, <3>4, <2>1
      <4>2. Holds(Output[j], n.payload)
        BY <3>4, <2>5 DEF CrossedOK
      <4>3. QED
        BY <3>1, <4>1, <4>2 DEF Holds
    <3>5. QED
      BY <3>3, <3>4, <2>5, <1>8 DEF MovesAsItIs, Using
  <2>6. \/ InPlace(j) /\ files' = files
        \/ /\ job[j] \in Using \ {"copying"}
           /\ \A p \in Paths \ {Output[j], Input(j)} : files'[p] = files[p]
    BY <1>8, <2>1 DEF MovesAsItIs, Using
  <2>7. QED
    BY <2>3, <2>4, <2>5, <2>6
<1>9. QED
  BY <1>1, <1>6, <1>7, <1>8, WhatStepsDo

LEMMA JobCrossed ==
    ASSUME OutputsApart, "crosscorrupt" \notin Faults, MoveInv, SourcesOK, CrossedOK,
           NEW j \in Jobs, StepOf(j)
    PROVE  CrossedOK'
<1>1. /\ TypeOK /\ MovesOK /\ StepsOK /\ MovedOK /\ CandidatesOK /\ LocksApart /\ StepShape(j)
  BY StepsHaveShape DEF MoveInv, WInv
<1>2. SUFFICES ASSUME NEW k \in Jobs, job'[k] = "crossed",
                      NEW n \in Sources, n.path = Input(k)
               PROVE  Holds(Output[k], n.payload)'
  BY DEF CrossedOK, Input, Inputs
<1>3. phase # "deleting"
  BY <1>1, JobTypes DEF CandidatesOK, StepShape
<1>4. CASE k = j
  <2>1. Cross(j)
    <3> USE DEF Using, Ends, Successes
    <3>1. job \in [Jobs -> JobStates]
      BY <1>1 DEF TypeOK, JobStates
    <3>2. \A s : Becomes(j, s) \/ Succeed(j, s) => s = "crossed"
      BY <3>1, <1>2, <1>4 DEF Becomes, Succeed
    <3>3. ~TryAgain(j) /\ ~Copied(j) /\ ~Throw(j)
      BY <3>1, <1>2, <1>4 DEF TryAgain, Becomes, Copied, Succeed, Throw
    <3>4. ~Start(j) /\ ~Verify(j) /\ ~Attempt(j) /\ ~Copy(j) /\ ~RemoveSource(j) /\ ~Test(j)
      <4>1. ~Start(j) /\ ~Verify(j) /\ ~Attempt(j)
        BY <3>2 DEF Start, Verify, Attempt
      <4>2. ~Copy(j) /\ ~Test(j)
        BY <3>2, <3>3 DEF Copy, Test
      <4>3. ~RemoveSource(j)
        BY <3>2, <3>3 DEF RemoveSource
      <4>4. QED
        BY <4>1, <4>2, <4>3
    <3>5. ~Check(j)
      <4>1. options.overwrite \in {"never", "always", "invalid"}
        BY <1>1 DEF TypeOK, Options
      <4>2. QED
        BY <4>1, <3>2 DEF Check
    <3>6. ~Move(j) /\ ~MoveUncovered(j)
      BY <3>2, <3>3 DEF Move, MoveUncovered, Renamed, CrossesDevice
    <3>7. QED
      BY <3>4, <3>5, <3>6 DEF StepOf
  <2>2. job[j] = "crossing" /\ files' = [files EXCEPT ![Output[j]] = files[Input(j)]]
    <3>1. job \in [Jobs -> JobStates]
      BY <1>1 DEF TypeOK, JobStates
    <3>2. ~TryAgain(j) /\ ~Throw(j)
      BY <3>1, <1>2, <1>4 DEF TryAgain, Becomes, Throw
    <3>3. QED
      BY <2>1, <3>2 DEF Cross
  <2>3. moved[Input(j)] = None
    BY <2>2, <1>1 DEF StepsOK, Using
  <2>4. Holds(Input(j), n.payload)
    BY <2>3, <1>2, <1>3, <1>4 DEF SourcesOK, Location
  <2>5. files'[Output[j]] = files[Input(j)]
    BY <2>2, <1>1, JobTypes DEF TypeOK
  <2>6. QED
    BY <2>4, <2>5, <1>4 DEF Holds
<1>5. CASE k # j
  <2>1. job[k] = "crossed"
    BY <1>1, <1>2, <1>5 DEF TypeOK, StepShape
  <2>2. Holds(Output[k], n.payload)
    BY <2>1, <1>2 DEF CrossedOK
  <2>3. /\ Kind[k] = "raw" /\ options.move /\ moved[Input(k)] = None
        /\ Output[k] \in Paths /\ Input(k) \in Inputs(k)
    BY <2>1, <1>1, JobTypes DEF MovesOK, StepsOK, Using
  <2>4. job[j] \in Using => Output[j] # Output[k]
    <3>1. SUFFICES ASSUME job[j] \in Using, Output[j] = Output[k] PROVE FALSE
      OBVIOUS
    <3>2. Inputs(j) = Inputs(k)
      BY <3>1, <1>5, OneOutputOneInput
    <3>3. Inputs(j) \cap Inputs(k) = {}
      BY <3>1, <1>1, <1>5, <2>1, <2>3 DEF LocksApart, Using
    <3>4. QED
      BY <3>2, <3>3, <2>3
  <2>5. Kind[j] = "raw" => Input(j) # Output[k]
    <3>1. SUFFICES ASSUME Kind[j] = "raw", Input(j) = Output[k] PROVE FALSE
      OBVIOUS
    <3>2. PICK o \in Sources : o.path = Input(j)
      BY <3>1, NeedsAreSources
    <3>3. InPlace(k)
      BY <3>1, <3>2, OutputsAreNoInputs
    <3>4. QED
      BY <3>3, <2>1, <2>3, <1>1 DEF StepsOK
  <2>6. files'[Output[k]] = files[Output[k]]
    <3>1. CASE files' = files
      BY <3>1
    <3>2. CASE job[j] \in Using /\ \A p \in Paths \ {Output[j]} : files'[p] = files[p]
      BY <3>2, <2>3, <2>4
    <3>3. CASE MovesAsItIs(j)
      <4>1. Input(j) \in Paths /\ files \in [Paths -> {None} \cup SUBSET Payloads]
        BY <3>3, <1>1, JobTypes DEF MovesAsItIs, TypeOK
      <4>2. QED
        BY <4>1, <3>3, <2>3, <2>4, <2>5 DEF MovesAsItIs, Using
    <3>4. QED
      BY <3>1, <3>2, <3>3, <1>1, WhatStepsDo
  <2>7. QED
    BY <2>2, <2>6 DEF Holds
<1>6. QED
  BY <1>4, <1>5

\* The part of the invariant that shows the inputs to be where the mutex says.
SInv == MoveInv /\ SourcesOK /\ CrossedOK

LEMMA InitSInv == Init => SInv
<1> SUFFICES ASSUME Init PROVE SInv
  OBVIOUS
<1>1. /\ moved = [p \in Paths |-> None] /\ job = [j \in Jobs |-> "new"]
      /\ files = FirstFiles /\ phase = "writing"
  BY DEF Init
<1>2. MovedOK
  BY <1>1 DEF MovedOK
<1>3. StepsOK /\ LocksApart /\ CrossedOK
  BY <1>1 DEF StepsOK, LocksApart, CrossedOK, Using
<1>4. SourcesOK
  <2>1. ASSUME NEW n \in Sources PROVE Holds(Location(n.path), n.payload)
    <3>1. n.path \in Paths
      BY <2>1, SourcePaths
    <3>2. Location(n.path) = n.path
      BY <1>1, <3>1 DEF Location
    <3>3. QED
      BY <1>1, <2>1, <3>2, DisksAssumption DEF Holds
  <2>2. QED
    BY <2>1 DEF SourcesOK
<1>5. QED
  BY <1>2, <1>3, <1>4, InitWInv DEF SInv, MoveInv

\* No other step has to do with the inputs and the jobs, until inputs are deleted.
LEMMA OthersSInv ==
    ASSUME SInv, WInv', UNCHANGED <<options, moved, job>>,
           (files' = files /\ phase' = phase) \/ phase' = "deleting"
    PROVE  SInv'
<1>1. MovedOK /\ StepsOK /\ LocksApart /\ SourcesOK /\ CrossedOK
  BY DEF SInv, MoveInv
<1>2. MovedOK'
  BY <1>1 DEF MovedOK, Input, Inputs
<1>3. StepsOK'
  BY <1>1 DEF StepsOK, Input, Inputs, InPlace
<1>4. LocksApart'
  BY <1>1 DEF LocksApart, Inputs
<1>5. SourcesOK'
  BY <1>1 DEF SourcesOK, Holds, Location
<1>6. CrossedOK'
  <2>1. CASE files' = files
    BY <2>1, <1>1 DEF CrossedOK, Holds, Input, Inputs
  <2>2. CASE phase' = "deleting"
    <3>1. CandidatesOK'
      BY DEF WInv
    <3>2. \A k \in Jobs : job'[k] \in Ends
      BY <2>2, <3>1, JobTypes DEF CandidatesOK
    <3>3. QED
      BY <3>2 DEF CrossedOK, Ends
  <2>3. QED
    BY <2>1, <2>2
<1>7. QED
  BY <1>2, <1>3, <1>4, <1>5, <1>6 DEF SInv, MoveInv

\* What is not a step of a job, or of MovedROMDeleter, changes neither.
LEMMA OtherSteps ==
    ASSUME WInv, [Next]_vars, ~\E j \in Jobs : StepOf(j)
    PROVE  /\ UNCHANGED <<options, moved, job, tries, queued>>
           /\ (files' = files /\ phase' = phase) \/ phase' = "deleting"
<1>1. CASE \E c \in Candidates : Admit(c) \/ LockOutputs(c) \/ Finish(c)
  BY <1>1 DEF Admit, LockOutputs, Finish, writeVars
<1>2. CASE StartDeleting
  BY <1>2 DEF StartDeleting, writeVars
<1>3. ASSUME NEW p \in Paths, Delete(p)
      PROVE  UNCHANGED <<options, moved, job, tries, queued>> /\ phase' = "deleting"
  BY <1>3 DEF Delete, WInv, CandidatesOK
<1>4. CASE UNCHANGED vars
  BY <1>4 DEF vars, writeVars
<1>5. QED
  BY <1>1, <1>2, <1>3, <1>4 DEF Next, Progress, Terminating

LEMMA NextSInv ==
    ASSUME OutputsApart, "crosscorrupt" \notin Faults, SInv, [Next]_vars
    PROVE  SInv'
<1>1. WInv /\ WInv'
  BY NextWInv DEF SInv, MoveInv
<1>2. CASE \E j \in Jobs : StepOf(j)
  BY <1>2, JobMoveInv, JobSources, JobCrossed DEF SInv
<1>3. CASE ~\E j \in Jobs : StepOf(j)
  BY <1>1, <1>3, OtherSteps, OthersSInv
<1>4. QED
  BY <1>2, <1>3

\* A step leaves the inputs of the jobs that use them where they were.
LEMMA StepSources ==
    ASSUME OutputsApart, SInv, SInv', [Next]_vars,
           NEW k \in Jobs, job'[k] \in Using, NEW n \in Needs[k]
    PROVE  files'[Location(n.path)] # None /\ n.payload \in files'[Location(n.path)]
<1>1. /\ WInv /\ WInv' /\ TypeOK /\ MovesOK /\ StepsOK /\ LocksApart
      /\ CandidatesOK' /\ SourcesOK'
  BY DEF SInv, MoveInv, WInv
<1>2. n \in Sources /\ n.path \in Paths /\ n.path \in Inputs(k)
  BY NeedsAreSources, SourcePaths DEF Inputs
<1>3. phase' # "deleting"
  BY <1>1, JobTypes DEF CandidatesOK, Using, Ends
<1>4. Holds(Location(n.path), n.payload)'
  BY <1>1, <1>2, <1>3 DEF SourcesOK
<1>5. moved'[n.path] = moved[n.path]
  <2>1. CASE moved' = moved
    BY <2>1
  <2>2. ASSUME NEW j \in Jobs, StepOf(j), MovesAsItIs(j)
        PROVE  moved'[n.path] = moved[n.path]
    <3>1. /\ job'[j] \notin Using /\ options.move
          /\ Input(j) \in Paths /\ Input(j) \in Inputs(j)
          /\ moved' = [moved EXCEPT ![Input(j)] = Output[j]]
          /\ job[j] \in Using \/ Input(j) \notin Locked
      BY <2>2, JobTypes DEF MovesAsItIs, Using
    <3>2. k # j /\ job[k] = job'[k]
      BY <2>2, <3>1, <1>1, StepsHaveShape DEF StepShape, TypeOK
    <3>3. Inputs(k) \subseteq Locked
      BY <3>1, <3>2 DEF Locked
    <3>4. Input(j) # n.path
      BY <3>1, <3>2, <3>3, <1>1, <1>2 DEF LocksApart
    <3>5. QED
      BY <3>1, <3>4, <1>1, <1>2 DEF TypeOK
  <2>3. QED
    BY <2>1, <2>2, <1>1, WhatStepsDo, OtherSteps
<1>6. QED
  BY <1>4, <1>5 DEF Holds, Location

\* FileMoveMutex: a job that reads or moves an input has it, with its payload, where
\* the mutex said it is, until the job itself is done with it.  Nothing but a file in
\* its place may be both input and output, and a copy across drives must be whole.
THEOREM SourcesAreThere ==
    ASSUME OutputsApart, "crosscorrupt" \notin Faults
    PROVE  Spec => SourceIsThere
<1>1. SInv /\ [Next]_vars => SInv'
  BY NextSInv
<1>2. SInv /\ SInv' /\ [Next]_vars =>
         [\A j \in Jobs : job'[j] \in Using =>
             \A n \in Needs[j] :
                 LET p == Location(n.path)
                 IN  files'[p] # None /\ n.payload \in files'[p]]_vars
  BY StepSources
<1>3. QED
  BY <1>1, <1>2, InitSInv, PTL DEF Spec, SourceIsThere

-----------------------------------------------------------------------------
(* What was written, kept and deleted.                                       *)

Writing == {"attempting", "testing"} \cup Using

\* A candidate is only queued once something of it is written.
QueuedOK == \A c \in queued : options.move /\ \E k \in JobsOf(c) : job[k] \in Successes

\* What was extracted or zipped is as wanted, or was not tested.
WrittenOK ==
    \A j \in Jobs : job[j] = "written" /\ Kind[j] # "raw" =>
        files[Output[j]] = Wanted(j) \/ (files[Output[j]] = {} /\ ~options.test)

\* A file that was kept is as wanted, and nobody is about to write it.
KeptOK ==
    phase # "aborting" =>
        \A j \in Jobs : job[j] = "kept" =>
            /\ options.overwrite = "invalid"
            /\ files[Output[j]] = Wanted(j)
            /\ \A k \in Jobs : k # j /\ Output[k] = Output[j] => job[k] \notin Writing

\* What may be deleted: its payloads all moved, and nobody writes it.
Dooms(p) == FullyConsumed(p) /\ \A c \in Candidates : p \notin OutputsOf(c)

DeletedOK ==
    phase = "deleting" =>
        /\ \A p \in doomed : Dooms(p)
        /\ \A n \in Sources : Holds(Location(n.path), n.payload) \/ Dooms(Location(n.path))

IInv == SInv /\ QueuedOK /\ WrittenOK /\ KeptOK /\ DeletedOK

LEMMA InitIInv == Init => IInv
<1> SUFFICES ASSUME Init PROVE IInv
  OBVIOUS
<1>1. QueuedOK /\ WrittenOK /\ KeptOK /\ DeletedOK
  BY DEF Init, QueuedOK, WrittenOK, KeptOK, DeletedOK
<1>2. QED
  BY <1>1, InitSInv DEF IInv

\* An output is in no danger from the jobs that write elsewhere, unless it is an input
\* that is still in its place.
LEMMA OutputsStay ==
    ASSUME OutputsApart, MoveInv, NEW j \in Jobs, NEW k \in Jobs, StepOf(k),
           Output[j] # Output[k], Kind[j] # "raw" \/ job[j] \notin {"new", "skipped"}
    PROVE  files'[Output[j]] = files[Output[j]]
<1>1. /\ TypeOK /\ MovesOK /\ StepsOK /\ Output[j] \in Paths /\ Output[k] \in Paths
      /\ files \in [Paths -> {None} \cup SUBSET Payloads]
  BY JobTypes DEF MoveInv, WInv, TypeOK
<1>2. CASE MovesAsItIs(k)
  <2>1. Kind[k] = "raw" /\ moved[Input(k)] = None /\ Input(k) \in Paths
    BY <1>2, JobTypes DEF MovesAsItIs
  <2>2. Output[j] # Input(k)
    <3>1. SUFFICES ASSUME Output[j] = Input(k) PROVE FALSE
      OBVIOUS
    <3>2. PICK o \in Sources : o.path = Input(k)
      BY <2>1, NeedsAreSources
    <3>3. InPlace(j) /\ Kind[j] = "raw" /\ Input(j) = Input(k)
      BY <3>1, <3>2, OutputsAreNoInputs
    <3>4. QED
      BY <3>3, <2>1, <1>1 DEF StepsOK
  <2>3. QED
    BY <2>1, <2>2, <1>1, <1>2 DEF MovesAsItIs
<1>3. CASE files' = files
  BY <1>3
<1>4. CASE \A p \in Paths \ {Output[k]} : files'[p] = files[p]
  BY <1>4, <1>1
<1>5. QED
  BY <1>1, <1>2, <1>3, <1>4, WhatStepsDo

\* A job that reads all its inputs produces what is wanted.
LEMMA WholeProduce ==
    ASSUME SourcesOK, phase # "deleting", NEW j \in Jobs
    PROVE  Produced(j) = Wanted(j)
<1>1. \A n \in Needs[j] : n.payload \in files[Location(n.path)]
  BY NeedsAreSources DEF SourcesOK, Holds
<1>2. {m \in Needs[j] : m.payload \in files[Location(m.path)]} = Needs[j]
  BY <1>1
<1>3. QED
  BY <1>2 DEF Produced, Wanted

\* An extraction or a zip is written when it was produced or tested.
LEMMA HowWritten ==
    ASSUME OutputsApart, SInv, NEW j \in Jobs, StepOf(j),
           job'[j] = "written", Kind[j] # "raw"
    PROVE  files'[Output[j]] = Wanted(j) \/ (files'[Output[j]] = {} /\ ~options.test)
<1> USE DEF Using, Ends, Successes
<1>1. /\ TypeOK /\ MovesOK /\ StepsOK /\ MovedOK /\ SourcesOK /\ CandidatesOK
      /\ job \in [Jobs -> JobStates] /\ files \in [Paths -> {None} \cup SUBSET Payloads]
      /\ Output[j] \in Paths /\ StepShape(j)
  BY JobTypes, StepsHaveShape DEF SInv, MoveInv, WInv, TypeOK, JobStates
<1>2. ASSUME NEW s, Becomes(j, s) \/ Succeed(j, s) PROVE s = "written"
  BY <1>1, <1>2 DEF Becomes, Succeed
<1>3. ~TryAgain(j) /\ ~Throw(j)
  BY <1>1 DEF TryAgain, Becomes, Throw
<1>4. job[j] \notin Using \ {"copying"}
  BY <1>1 DEF MovesOK
<1>5. ~Move(j) /\ ~MoveUncovered(j) /\ ~Cross(j) /\ ~RemoveSource(j)
  BY <1>4 DEF Move, MoveUncovered, Cross, RemoveSource
<1>6. ~Start(j) /\ ~Verify(j)
  BY <1>2 DEF Start, Verify
<1>7. ~Check(j)
  <2>1. options.overwrite \in {"never", "always", "invalid"}
    BY <1>1 DEF TypeOK, Options
  <2>2. QED
    BY <2>1, <1>2 DEF Check
<1>8. ~Attempt(j)
  <2>1. SUFFICES ASSUME Attempt(j) PROVE FALSE
    OBVIOUS
  <2>2. options.move /\ Kind[j] # "zip" /\ moved[Input(j)] = Output[j]
    BY <2>1, <1>2 DEF Attempt
  <2>3. Input(j) \in Paths /\ moved[Input(j)] # None
    BY <2>2, JobTypes
  <2>4. PICK m \in Jobs : Kind[m] = "raw" /\ Output[m] = Output[j]
    BY <2>2, <2>3, <1>1 DEF MovedOK
  <2>5. QED
    BY <2>4, OneOutputOneInput
<1>9. CASE Copy(j)
  <2>1. /\ Copied(j)
        /\ \/ files' = [files EXCEPT ![Output[j]] = Produced(j)]
           \/ files' = [files EXCEPT ![Output[j]] = {}]
    BY <1>3, <1>9 DEF Copy
  <2>2. ~options.test
    BY <2>1, <1>2 DEF Copied
  <2>3. phase # "deleting"
    BY <1>1, JobTypes DEF CandidatesOK, StepShape
  <2>4. QED
    BY <2>1, <2>2, <2>3, <1>1, WholeProduce
<1>10. CASE Test(j)
  BY <1>3, <1>10 DEF Test
<1>11. QED
  BY <1>5, <1>6, <1>7, <1>8, <1>9, <1>10 DEF StepOf

\* A file is kept when it was found to be as wanted.
LEMMA HowKept ==
    ASSUME TypeOK, NEW j \in Jobs, StepOf(j), job'[j] = "kept"
    PROVE  /\ job[j] = "verifying" /\ files[Output[j]] = Wanted(j)
           /\ files' = files /\ phase' = phase
<1> USE DEF Using, Ends, Successes
<1>1. job \in [Jobs -> JobStates]
  BY DEF TypeOK, JobStates
<1>2. ASSUME NEW s, Becomes(j, s) \/ Succeed(j, s) PROVE s = "kept"
  BY <1>1, <1>2 DEF Becomes, Succeed
<1>3. ~TryAgain(j) /\ ~Throw(j) /\ ~Copied(j)
  BY <1>1 DEF TryAgain, Becomes, Throw, Copied, Succeed
<1>4. ~Start(j) /\ ~Attempt(j) /\ ~Test(j)
  BY <1>2, <1>3 DEF Start, Attempt, Test
<1>5. ~Check(j)
  <2>1. options.overwrite \in {"never", "always", "invalid"}
    BY DEF TypeOK, Options
  <2>2. QED
    BY <2>1, <1>2 DEF Check
<1>6. ~Move(j) /\ ~MoveUncovered(j)
  BY <1>2, <1>3 DEF Move, MoveUncovered, Renamed, CrossesDevice
<1>7. ~Copy(j) /\ ~Cross(j) /\ ~RemoveSource(j)
  BY <1>2, <1>3 DEF Copy, Cross, RemoveSource
<1>8. Verify(j)
  BY <1>4, <1>5, <1>6, <1>7 DEF StepOf
<1>9. QED
  BY <1>2, <1>8 DEF Verify

\* A job whose output was found to be as wanted does not come to write it.
LEMMA NotWrittenAgain ==
    ASSUME TypeOK, NEW k \in Jobs, StepOf(k), job[k] \notin Writing,
           options.overwrite = "invalid", files[Output[k]] = Wanted(k)
    PROVE  files' = files /\ job'[k] \notin Writing
<1> USE DEF Using, Ends, Successes, Writing
<1>1. job \in [Jobs -> JobStates] /\ files[Output[k]] # None
  BY JobTypes, DisksAssumption DEF TypeOK, JobStates
<1>2. Start(k) \/ Check(k) \/ Verify(k)
  BY DEF StepOf, Attempt, Copy, Move, MoveUncovered, Cross, RemoveSource, Test
<1>3. CASE Start(k)
  BY <1>1, <1>3 DEF Start, Becomes
<1>4. CASE Check(k)
  BY <1>1, <1>4 DEF Check, Becomes
<1>5. CASE Verify(k)
  BY <1>1, <1>5 DEF Verify, Becomes, Succeed
<1>6. QED
  BY <1>2, <1>3, <1>4, <1>5

LEMMA JobIInv ==
    ASSUME OutputsApart, "crosscorrupt" \notin Faults, IInv, NEW k \in Jobs, StepOf(k)
    PROVE  IInv'
<1>1. /\ TypeOK /\ StepsOK /\ MovedOK /\ CandidatesOK /\ MoveInv /\ SInv
      /\ QueuedOK /\ WrittenOK /\ KeptOK /\ DeletedOK
      /\ StepShape(k) /\ UNCHANGED options
  BY StepsHaveShape DEF IInv, SInv, MoveInv, WInv, StepShape
<1>2. SInv'
  BY JobMoveInv, JobSources, JobCrossed DEF IInv, SInv
<1>3. job'[k] \in JobStates /\ \A j \in Jobs \ {k} : job'[j] = job[j]
  BY <1>1 DEF TypeOK, StepShape
<1>4. phase # "deleting" /\ phase' # "deleting" /\ (phase' # "aborting" => phase # "aborting")
  BY <1>1, JobTypes DEF CandidatesOK, StepShape
<1>5. job[k] \notin Ends
  BY <1>1 DEF StepShape
<1>6. QueuedOK'
  <2>1. ASSUME NEW c \in queued' PROVE options.move /\ \E j \in JobsOf(c) : job'[j] \in Successes
    <3>1. CASE c \in queued
      <4>1. PICK j \in JobsOf(c) : job[j] \in Successes
        BY <3>1, <1>1 DEF QueuedOK
      <4>2. j # k /\ j \in Jobs
        BY <4>1, <1>5 DEF Successes, Ends, JobsOf
      <4>3. QED
        BY <4>1, <4>2, <3>1, <1>1, <1>3 DEF QueuedOK
    <3>2. CASE c \notin queued
      BY <2>1, <3>2, <1>1 DEF StepShape, JobsOf
    <3>3. QED
      BY <3>1, <3>2
  <2>2. QED
    BY <2>1, <1>1 DEF QueuedOK, JobsOf
<1>7. WrittenOK'
  <2>1. ASSUME NEW j \in Jobs, job'[j] = "written", Kind[j] # "raw"
        PROVE  files'[Output[j]] = Wanted(j) \/ (files'[Output[j]] = {} /\ ~options.test)
    <3>1. CASE j = k
      BY <2>1, <3>1, <1>1, HowWritten
    <3>2. CASE j # k
      <4>1. Output[j] # Output[k]
        BY <2>1, <3>2, OneOutputOneInput
      <4>2. files'[Output[j]] = files[Output[j]]
        BY <2>1, <4>1, <1>1, OutputsStay
      <4>3. QED
        BY <2>1, <3>2, <4>2, <1>1, <1>3 DEF WrittenOK
    <3>3. QED
      BY <3>1, <3>2
  <2>2. QED
    BY <2>1, <1>1 DEF WrittenOK, Wanted
<1>8. KeptOK'
  <2>1. ASSUME phase' # "aborting", NEW j \in Jobs, job'[j] = "kept"
        PROVE  /\ options.overwrite = "invalid"
               /\ files'[Output[j]] = Wanted(j)
               /\ \A l \in Jobs : l # j /\ Output[l] = Output[j] => job'[l] \notin Writing
    <3>1. CASE j = k
      <4>1. /\ job[j] = "verifying" /\ files[Output[j]] = Wanted(j)
            /\ files' = files /\ phase' = phase
        BY <2>1, <3>1, <1>1, HowKept
      <4>2. options.overwrite = "invalid"
        BY <4>1, <1>1 DEF StepsOK
      <4>3. ASSUME NEW l \in Jobs, l # j, Output[l] = Output[j], job'[l] \in Writing
            PROVE  FALSE
        <5>1. CandidateOf[j] # CandidateOf[l]
          BY <4>3, OneOutputOneInput
        <5>2. job[l] \in Writing
          BY <4>3, <3>1, <1>3
        <5>3. InProgress(j) /\ InProgress(l)
          BY <4>1, <5>2 DEF InProgress, Writing, Using, Ends
        <5>4. QED
          BY <2>1, <4>1, <4>3, <5>1, <5>3, <1>1, OneWriter
      <4>4. QED
        BY <4>1, <4>2, <4>3
    <3>2. CASE j # k
      <4>1. /\ job[j] = "kept" /\ options.overwrite = "invalid"
            /\ files[Output[j]] = Wanted(j)
            /\ \A l \in Jobs : l # j /\ Output[l] = Output[j] => job[l] \notin Writing
        BY <2>1, <3>2, <1>1, <1>3, <1>4 DEF KeptOK
      <4>2. CASE Output[j] # Output[k]
        <5>1. files'[Output[j]] = files[Output[j]]
          BY <4>1, <4>2, <1>1, OutputsStay
        <5>2. QED
          BY <4>1, <4>2, <5>1, <1>3
      <4>3. CASE Output[j] = Output[k]
        <5>1. Wanted(j) = Wanted(k) /\ job[k] \notin Writing
          BY <3>2, <4>1, <4>3, OneOutputOneInput
        <5>2. files' = files /\ job'[k] \notin Writing
          BY <4>1, <4>3, <5>1, <1>1, NotWrittenAgain
        <5>3. QED
          BY <4>1, <5>2, <1>3
      <4>4. QED
        BY <4>2, <4>3
    <3>3. QED
      BY <3>1, <3>2
  <2>2. QED
    BY <2>1, <1>1 DEF KeptOK, Wanted
<1>9. DeletedOK'
  BY <1>4 DEF DeletedOK
<1>10. QED
  BY <1>2, <1>6, <1>7, <1>8, <1>9 DEF IInv

\* What is doomed follows from what is queued.
LEMMA SameDooms ==
    ASSUME queued' = queued
    PROVE  \A p \in Paths : Dooms(p)' = Dooms(p)
<1>1. MovedCandidates' = MovedCandidates
  BY DEF MovedCandidates, OutputsOf, JobsOf, Inputs
<1>2. MovedEntries' = MovedEntries
  BY <1>1 DEF MovedEntries, JobsOf, Wanted
<1>3. QED
  BY <1>2 DEF Dooms, FullyConsumed, OutputsOf, JobsOf

\* The steps of no job keep the files until MovedROMDeleter deletes.
LEMMA OthersKeep ==
    ASSUME IInv, UNCHANGED <<options, job, queued>>, UNCHANGED phase \/ phase' = "deleting",
           phase # "aborting" \/ phase' = "aborting",
           \A j \in Jobs : files'[Output[j]] = files[Output[j]]
    PROVE  QueuedOK' /\ WrittenOK' /\ KeptOK'
<1>1. QueuedOK /\ WrittenOK /\ KeptOK
  BY DEF IInv
<1>2. QueuedOK'
  BY <1>1 DEF QueuedOK, JobsOf
<1>3. WrittenOK'
  BY <1>1 DEF WrittenOK, Wanted
<1>4. KeptOK'
  BY <1>1 DEF KeptOK, Wanted
<1>5. QED
  BY <1>2, <1>3, <1>4

LEMMA NextIInv ==
    ASSUME OutputsApart, "crosscorrupt" \notin Faults, IInv, [Next]_vars
    PROVE  IInv'
<1>1. /\ SInv /\ SInv' /\ TypeOK /\ MovedOK /\ CandidatesOK /\ SourcesOK /\ DeletedOK
  BY NextSInv DEF IInv, SInv, MoveInv, WInv
<1>2. CASE \E j \in Jobs : StepOf(j)
  BY <1>2, JobIInv
<1>3. CASE (\E c \in Candidates : Admit(c) \/ LockOutputs(c) \/ Finish(c)) \/ UNCHANGED vars
  <2>1. UNCHANGED <<options, phase, files, moved, job, queued, doomed>>
    BY <1>3 DEF Admit, LockOutputs, Finish, vars, writeVars
  <2>2. QueuedOK' /\ WrittenOK' /\ KeptOK'
    BY <2>1, OthersKeep
  <2>3. DeletedOK'
    <3>1. CASE phase = "deleting"
      <4>1. ASSUME NEW n \in Sources
            PROVE  Holds(Location(n.path), n.payload)' \/ Dooms(Location(n.path))'
        <5>1. Location(n.path) \in Paths /\ Location(n.path)' = Location(n.path)
          BY <4>1, <2>1, <1>1, SourcePaths DEF Location, TypeOK
        <5>2. Dooms(Location(n.path))' <=> Dooms(Location(n.path))
          BY <5>1, <2>1, SameDooms DEF Dooms, FullyConsumed, OutputsOf, JobsOf,
             MovedEntries, MovedCandidates, Inputs, Wanted
        <5>3. QED
          BY <3>1, <4>1, <5>1, <5>2, <2>1, <1>1 DEF DeletedOK, Holds
      <4>2. QED
        BY <3>1, <4>1, <2>1, <1>1, SameDooms DEF DeletedOK, TypeOK
    <3>2. CASE phase # "deleting"
      BY <3>2, <2>1 DEF DeletedOK
    <3>3. QED
      BY <3>1, <3>2
  <2>4. QED
    BY <2>2, <2>3, <1>1 DEF IInv
<1>4. CASE StartDeleting
  <2>1. /\ UNCHANGED <<options, files, moved, job, queued>>
        /\ phase = "writing" /\ phase' = "deleting" /\ doomed' = ToDelete
    BY <1>4 DEF StartDeleting, writeVars
  <2>2. QueuedOK' /\ WrittenOK' /\ KeptOK'
    BY <2>1, OthersKeep
  <2>3. \A p \in doomed' : Dooms(p)'
    BY <2>1, SameDooms DEF ToDelete, Dooms
  <2>4. \A n \in Sources : Holds(Location(n.path), n.payload)'
    BY <2>1, <1>1 DEF SourcesOK, Holds, Location
  <2>5. DeletedOK'
    BY <2>3, <2>4 DEF DeletedOK
  <2>6. QED
    BY <2>2, <2>5, <1>1 DEF IInv
<1>5. ASSUME NEW p \in Paths, Delete(p) PROVE IInv'
  <2>1. /\ UNCHANGED <<options, phase, moved, job, queued>>
        /\ p \in doomed /\ doomed' = doomed \ {p} /\ phase = "deleting"
        /\ \A q \in Paths \ {p} : files'[q] = files[q]
    BY <1>1, <1>5 DEF Delete, CandidatesOK, TypeOK
  <2>2. Dooms(p)
    BY <2>1, <1>1 DEF DeletedOK
  <2>3. \A j \in Jobs : files'[Output[j]] = files[Output[j]]
    BY <2>1, <2>2, JobTypes DEF Dooms, OutputsOf, JobsOf
  <2>4. QueuedOK' /\ WrittenOK' /\ KeptOK'
    BY <2>1, <2>3, OthersKeep
  <2>5. DeletedOK'
    <3>1. \A q \in doomed' : Dooms(q)'
      BY <2>1, <1>1, SameDooms DEF DeletedOK, TypeOK
    <3>2. ASSUME NEW n \in Sources
          PROVE  Holds(Location(n.path), n.payload)' \/ Dooms(Location(n.path))'
      <4>1. Location(n.path) \in Paths /\ Location(n.path)' = Location(n.path)
        BY <3>2, <2>1, <1>1, SourcePaths DEF Location, TypeOK
      <4>2. Dooms(Location(n.path))' <=> Dooms(Location(n.path))
        BY <4>1, <2>1, SameDooms DEF Dooms, FullyConsumed, OutputsOf, JobsOf,
           MovedEntries, MovedCandidates, Inputs, Wanted
      <4>3. CASE Location(n.path) = p
        BY <4>2, <4>3, <2>2
      <4>4. CASE Location(n.path) # p
        BY <3>2, <4>1, <4>2, <4>4, <2>1, <1>1 DEF DeletedOK, Holds
      <4>5. QED
        BY <4>3, <4>4
    <3>3. QED
      BY <3>1, <3>2 DEF DeletedOK
  <2>6. QED
    BY <2>4, <2>5, <1>1 DEF IInv
<1>6. QED
  BY <1>2, <1>3, <1>4, <1>5 DEF Next, Progress, Terminating

\* When a scanned file was deleted, a job of a queued candidate was to move what it held.
LEMMA DoomedWasQueued ==
    ASSUME IInv, NEW e \in Index, Dooms(Location(e.path))
    PROVE  \E j \in Jobs : e.payload \in Wanted(j) /\ CandidateOf[j] \in queued
<1>1. /\ MovedOK /\ e.path \in Paths
  BY DisksAssumption DEF IInv, SInv, MoveInv
<1>2. Location(e.path) = e.path
  <2>1. SUFFICES ASSUME moved[e.path] # None PROVE FALSE
    BY DEF Location
  <2>2. PICK m \in Jobs : Output[m] = moved[e.path]
    BY <2>1, <1>1 DEF MovedOK
  <2>3. CandidateOf[m] \in Candidates /\ Output[m] \in OutputsOf(CandidateOf[m])
    BY <2>2, JobTypes DEF OutputsOf, JobsOf
  <2>4. QED
    BY <2>1, <2>2, <2>3 DEF Dooms, Location
<1>3. e \in MovedEntries
  <2>1. /\ \E f \in MovedEntries : f.path = e.path
        /\ \A f \in Index : f.path = e.path /\ f.entry => f \in MovedEntries
    BY <1>2 DEF Dooms, FullyConsumed
  <2>2. CASE e.entry
    BY <2>1, <2>2
  <2>3. CASE ~e.entry
    <3>1. PICK f \in MovedEntries : f.path = e.path
      BY <2>1
    <3>2. f \in Index
      BY DEF MovedEntries
    <3>3. f = e
      BY <2>3, <3>1, <3>2, DisksAssumption
    <3>4. QED
      BY <3>3
  <2>4. QED
    BY <2>2, <2>3
<1>4. PICK c \in MovedCandidates : \E j \in JobsOf(c) : e.payload \in Wanted(j)
  BY <1>3 DEF MovedEntries
<1>5. c \in queued
  BY DEF MovedCandidates
<1>6. QED
  BY <1>4, <1>5 DEF JobsOf

\* The invariant has every scanned payload somewhere, or one of the two excuses.
LEMMA IInvNoRomLost == IInv => NoRomLost
<1> SUFFICES ASSUME IInv, NEW e \in Index
             PROVE  \/ Stored(e.payload)
                    \/ \E j \in Jobs :
                          /\ e.payload \in Wanted(j)
                          /\ \/ job[j] = "written" /\ files[Output[j]] = {} /\ ~options.test
                             \/ /\ phase = "deleting"
                                /\ job[j] \in {"failed", "skipped"}
                                /\ \E k \in JobsOf(CandidateOf[j]) : job[k] \in Successes
  BY DEF NoRomLost
<1>1. /\ TypeOK /\ StepsOK /\ MovedOK /\ CandidatesOK /\ SourcesOK
      /\ QueuedOK /\ WrittenOK /\ KeptOK /\ DeletedOK
  BY DEF IInv, SInv, MoveInv, WInv
<1>2. ASSUME NEW n \in Sources, Holds(Location(n.path), n.payload) PROVE Stored(n.payload)
  <2>1. Location(n.path) \in Paths
    BY <1>1, <1>2, SourcePaths DEF Location, TypeOK
  <2>2. QED
    BY <1>2, <2>1 DEF Holds, Stored
<1>3. PICK s \in Sources : s.path = e.path /\ s.payload = e.payload
  <2>1. [path |-> e.path, payload |-> e.payload] \in Sources
    BY DEF Sources
  <2>2. QED
    BY <2>1
<1>4. CASE Holds(Location(e.path), e.payload)
  BY <1>2, <1>3, <1>4
<1>5. CASE ~Holds(Location(e.path), e.payload)
  <2>1. phase = "deleting" /\ Dooms(Location(e.path))
    BY <1>1, <1>3, <1>5 DEF SourcesOK, DeletedOK
  <2>2. PICK j \in Jobs : e.payload \in Wanted(j) /\ CandidateOf[j] \in queued
    BY <2>1, DoomedWasQueued
  <2>3. options.move /\ \E k \in JobsOf(CandidateOf[j]) : job[k] \in Successes
    BY <2>2, <1>1 DEF QueuedOK
  <2>4. job[j] \in Ends /\ job[j] # "threw"
    BY <2>1, <1>1, JobTypes DEF CandidatesOK
  <2>5. /\ Output[j] \in Paths /\ Wanted(j) \in SUBSET Payloads /\ Wanted(j) # None
    BY JobTypes, DisksAssumption
  <2>6. CASE job[j] \in {"failed", "skipped"}
    BY <2>1, <2>2, <2>3, <2>6
  <2>7. CASE job[j] = "kept"
    <3>1. files[Output[j]] = Wanted(j)
      BY <2>1, <2>7, <1>1 DEF KeptOK
    <3>2. QED
      BY <3>1, <2>2, <2>5 DEF Stored
  <2>8. CASE job[j] = "written" /\ Kind[j] # "raw"
    <3>1. files[Output[j]] = Wanted(j) \/ (files[Output[j]] = {} /\ ~options.test)
      BY <2>8, <1>1 DEF WrittenOK
    <3>2. CASE files[Output[j]] = Wanted(j)
      BY <3>2, <2>2, <2>5 DEF Stored
    <3>3. CASE files[Output[j]] = {} /\ ~options.test
      BY <3>3, <2>2, <2>8
    <3>4. QED
      BY <3>1, <3>2, <3>3
  <2>9. CASE job[j] = "written" /\ Kind[j] = "raw"
    <3>1. PICK n \in Needs[j] : n.path = Input(j) /\ n.payload = e.payload
      <4>1. PICK n \in Entries : Needs[j] = {n} /\ Input(j) = n.path /\ Wanted(j) = {n.payload}
        BY <2>9, OneInput
      <4>2. QED
        BY <4>1, <2>2
    <3>2. n \in Sources /\ n.path \in Paths
      BY NeedsAreSources, SourcePaths
    <3>3. moved[n.path] # None
      BY <3>1, <2>3, <2>9, <1>1 DEF StepsOK
    <3>4. PICK m \in Jobs : Output[m] = moved[n.path]
      BY <3>2, <3>3, <1>1 DEF MovedOK
    <3>5. ~Dooms(Location(n.path))
      <4>1. CandidateOf[m] \in Candidates /\ Output[m] \in OutputsOf(CandidateOf[m])
        BY JobTypes DEF OutputsOf, JobsOf
      <4>2. QED
        BY <4>1, <3>3, <3>4 DEF Dooms, Location
    <3>6. Holds(Location(n.path), n.payload)
      BY <3>2, <3>5, <2>1, <1>1 DEF DeletedOK
    <3>7. QED
      BY <3>1, <3>2, <3>6, <1>2
  <2>10. QED
    BY <2>4, <2>6, <2>7, <2>8, <2>9 DEF Ends
<1>6. QED
  BY <1>4, <1>5

\* Moving never destroys the last copy of a scanned payload, whatever fails and whenever
\* the process ends, but in the two cases NoRomLost names.  Nothing but a file in its
\* place may be both input and output, and a copy across drives must be whole.
THEOREM NoRomIsLost ==
    ASSUME OutputsApart, "crosscorrupt" \notin Faults
    PROVE  Spec => []NoRomLost
<1>1. IInv /\ [Next]_vars => IInv'
  BY NextIInv
<1>2. QED
  BY <1>1, InitIInv, IInvNoRomLost, PTL DEF Spec

=============================================================================
