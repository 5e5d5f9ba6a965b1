-------------------------- MODULE MappableSemaphore ---------------------------
(***************************************************************************)
(* src/src/async/mappableSemaphore.ts: run a callback for every value of a  *)
(* list, at most `threads` callbacks at a time over everybody who shares    *)
(* the semaphore.  One semaphore serves all the reads of a run and one all  *)
(* its writes, and igir.ts processes several DATs at a time, so several     *)
(* map() calls are in flight together: a task is one value of one call.     *)
(*                                                                          *)
(* The semaphore of the async-mutex package is modelled from its use: first *)
(* in first out, a slot is taken when it is granted and the waiter's        *)
(* continuation runs later, cancel() rejects every waiter.                  *)
(***************************************************************************)
EXTENDS Integers, Sequences, FiniteSets, SequencesExt

CONSTANTS
    Maps,       \* the map() calls in flight
    Tasks,      \* all their values
    CallOf,     \* CallOf[t]: the call whose value t is
    Threads,    \* the slots of the semaphore
    None        \* no error

ASSUME TasksAssumption == IsFiniteSet(Tasks) /\ None \notin Tasks
ASSUME CallOfAssumption == CallOf \in [Tasks -> Maps]
ASSUME ThreadsAssumption == Threads \in Nat \ {0}

VARIABLES
    value,       \* getValue(): the free slots
    queue,       \* the tasks waiting for a slot
    task,        \* how far each task's promise has come
    firstError,  \* firstError[m]: the task whose error call m remembers
    call         \* how far each call has come

vars == <<value, queue, task, firstError, call>>

TaskStates == {"new",        \* map() not called yet
               "queued",     \* waiting for a slot
               "granted",    \* has a slot, its continuation has yet to run
               "running",    \* the callback is in progress
               "succeeded",  \* the callback returned, the slot is still taken
               "failed",     \* threw or was skipped, the slot is still taken
               "fulfilled", "rejected"}

CallStates == {"idle", "mapping", "returned", "threw"}

TasksOf(m) == {t \in Tasks : CallOf[t] = m}
Occupying == {t \in Tasks : task[t] \in {"granted", "running", "succeeded", "failed"}}
Settled(t) == task[t] \in {"fulfilled", "rejected"}

Init ==
    /\ value = Threads
    /\ queue = <<>>
    /\ task = [t \in Tasks |-> "new"]
    /\ firstError = [m \in Maps |-> None]
    /\ call = [m \in Maps |-> "idle"]

\* values.map(): every value asks for a slot in the same synchronous stretch.
\* The free slots go to the first values, the others queue in order.  A call
\* without values returns at once.
Map(m) ==
    /\ call[m] = "idle"
    /\ IF TasksOf(m) = {}
       THEN /\ call' = [call EXCEPT ![m] = "returned"]
            /\ UNCHANGED <<value, queue, task>>
       ELSE \E order \in SetToSeqs(TasksOf(m)) :
              LET free == IF queue = <<>> THEN value ELSE 0
                  taken == IF free < Len(order) THEN free ELSE Len(order)
              IN  /\ call' = [call EXCEPT ![m] = "mapping"]
                  /\ value' = value - taken
                  /\ task' = [t \in Tasks |->
                       IF CallOf[t] # m THEN task[t]
                       ELSE IF \E i \in 1..taken : order[i] = t THEN "granted"
                       ELSE "queued"]
                  /\ queue' = queue \o SubSeq(order, taken + 1, Len(order))
    /\ UNCHANGED firstError

\* The continuation of a granted task: the callback is skipped if a callback of
\* the same call has already failed.
Start(t) ==
    /\ task[t] = "granted"
    /\ task' = [task EXCEPT ![t] =
         IF firstError[CallOf[t]] = None THEN "running" ELSE "failed"]
    /\ UNCHANGED <<value, queue, firstError, call>>

Succeed(t) ==
    /\ task[t] = "running"
    /\ task' = [task EXCEPT ![t] = "succeeded"]
    /\ UNCHANGED <<value, queue, firstError, call>>

\* Mutant: the waiters are forgotten, and never told.
FailSilently(t) ==
    LET m == CallOf[t]
    IN  /\ task[t] = "running"
        /\ firstError' = [firstError EXCEPT ![m] = IF @ = None THEN t ELSE @]
        /\ task' = [task EXCEPT ![t] = "failed"]
        /\ queue' = <<>>
        /\ UNCHANGED <<value, call>>

\* The catch: remember the first error of the call, cancel() every waiter of the
\* semaphore, rethrow.
Fail(t) ==
    LET m == CallOf[t]
    IN  /\ task[t] = "running"
        /\ firstError' = [firstError EXCEPT ![m] = IF @ = None THEN t ELSE @]
        /\ task' = [u \in Tasks |->
             IF u = t THEN "failed"
             ELSE IF task[u] = "queued" THEN "rejected"
             ELSE task[u]]
        /\ queue' = <<>>
        /\ UNCHANGED <<value, call>>

\* Mutant: the slot is counted free and granted as well.
ReleaseAndGrant(t) ==
    LET settled == [task EXCEPT ![t] =
                      IF @ = "succeeded" THEN "fulfilled" ELSE "rejected"]
    IN  /\ task[t] \in {"succeeded", "failed"}
        /\ value' = value + 1
        /\ \/ queue = <<>> /\ task' = settled /\ UNCHANGED queue
           \/ /\ queue # <<>>
              /\ task' = [settled EXCEPT ![Head(queue)] = "granted"]
              /\ queue' = Tail(queue)
        /\ UNCHANGED <<firstError, call>>

\* runExclusive()'s finally: give the slot back, and grant it to the first waiter.
Release(t) ==
    LET settled == [task EXCEPT ![t] =
                      IF @ = "succeeded" THEN "fulfilled" ELSE "rejected"]
    IN  /\ task[t] \in {"succeeded", "failed"}
        /\ \/ /\ queue = <<>>
              /\ value' = value + 1
              /\ task' = settled
              /\ UNCHANGED queue
           \/ /\ queue # <<>>
              /\ task' = [settled EXCEPT ![Head(queue)] = "granted"]
              /\ queue' = Tail(queue)
              /\ UNCHANGED value
        /\ UNCHANGED <<firstError, call>>

\* Mutant: allSettled() swallows the errors, and nobody rethrows the first.
FinishQuietly(m) ==
    /\ call[m] = "mapping"
    /\ \A t \in TasksOf(m) : Settled(t)
    /\ call' = [call EXCEPT ![m] = "returned"]
    /\ UNCHANGED <<value, queue, task, firstError>>

\* allSettled() is settled: rethrow the first error, or return what was fulfilled.
Finish(m) ==
    /\ call[m] = "mapping"
    /\ \A t \in TasksOf(m) : Settled(t)
    /\ call' = [call EXCEPT ![m] =
         IF firstError[m] # None THEN "threw" ELSE "returned"]
    /\ UNCHANGED <<value, queue, task, firstError>>

\* What map() resolves to: the values whose callbacks were fulfilled.
Results(m) == {t \in TasksOf(m) : task[t] = "fulfilled"}

StepOf(t) == Start(t) \/ Succeed(t) \/ Fail(t) \/ Release(t)

\* Every call has settled: nothing more happens in the modelled stretch.
Terminating == (\A m \in Maps : call[m] \in {"returned", "threw"}) /\ UNCHANGED vars

Next ==
    \/ \E m \in Maps : Map(m) \/ Finish(m)
    \/ \E t \in Tasks : StepOf(t)
    \/ Terminating

Fairness ==
    /\ \A t \in Tasks : WF_vars(StepOf(t))
    /\ \A m \in Maps : WF_vars(Finish(m))

Spec == Init /\ [][Next]_vars

FairSpec == Spec /\ Fairness

-----------------------------------------------------------------------------
(* Properties                                                                *)

\* Every variable has its type; there are never more free slots than slots.
TypeOK ==
    /\ value \in 0..Threads
    /\ queue \in Seq(Tasks)
    /\ task \in [Tasks -> TaskStates]
    /\ firstError \in [Maps -> Tasks \cup {None}]
    /\ call \in [Maps -> CallStates]

\* Slots are neither lost nor made, whatever fails or is cancelled: those that
\* are free and those taken are always all of them (so openLocks() is right and
\* at most Threads callbacks run).
SlotsConserved == value + Cardinality(Occupying) = Threads

\* The queue holds exactly the waiting tasks, each once, and no slot stays free
\* while somebody waits.
QueueIsFair ==
    /\ {queue[i] : i \in DOMAIN queue} = {t \in Tasks : task[t] = "queued"}
    /\ \A i, j \in DOMAIN queue : i # j => queue[i] # queue[j]
    /\ queue # <<>> => value = 0

\* No call returns fewer results than it has values unless another call on the
\* semaphore failed and cancelled its waiters: its own errors it rethrows, the first
\* of them, and only when every value of the call has settled.
LossNeedsFailure ==
    \A m \in Maps :
        /\ call[m] = "returned" /\ Results(m) # TasksOf(m) =>
              \E n \in Maps \ {m} : firstError[n] # None
        /\ call[m] = "threw" =>
              firstError[m] \in TasksOf(m) /\ task[firstError[m]] = "rejected"

\* Every call settles, and every slot is given back.
EveryCallSettles ==
    \A m \in Maps : call[m] = "mapping" ~> call[m] \in {"returned", "threw"}

=============================================================================
