------------------------------ MODULE GracefulFs ------------------------------
(***************************************************************************)
(* src/src/polyfill/gracefulFs.ts: calls of node:fs that fail for a reason  *)
(* that may pass (EBUSY, EMFILE...) are made again, for up to a minute.     *)
(*                                                                          *)
(* Calls that open files wait in one queue for one timer, a rename waits    *)
(* for a timer of its own, the others are made again at once.  Time is what *)
(* the code asks of it: whether a call's minute is over.  How long a timer  *)
(* waits is left out (10 to 100 ms), and so is retryCount, which only       *)
(* decides on that.                                                         *)
(*                                                                          *)
(* The process is part of it, as the queue's timer is unref()ed: Node ends  *)
(* when nothing else is under way.                                          *)
(***************************************************************************)
EXTENDS Integers, Sequences, FiniteSets, Functions

CONSTANTS
    Calls,         \* the calls of patched functions
    MethodOf,      \* MethodOf[c]: the function, by the way it is wrapped
    MaxAttempts,   \* of read(), write()...; 10 in the code
    None

Methods == {"open", "rename", "read", "stat", "statSync", "readSync"}

ASSUME CallsAssumption == IsFiniteSet(Calls) /\ MethodOf \in [Calls -> Methods]
ASSUME LimitsAssumption ==
    /\ MaxAttempts \in Nat \ {0}
    /\ None \notin Nat

VARIABLES
    state,      \* how far each call is
    attempts,   \* transient failures of each call, counted where there is a limit
    late,       \* the calls whose RETRY_TIMEOUT_MS are over
    entries,    \* RetryQueue.entries
    timer,      \* is RetryQueue.timer set
    exited      \* has the process ended

vars == <<state, attempts, late, entries, timer, exited>>

\* flying: with the operating system; backing: setTimeout(attempt, backoff).
Waiting == {"flying", "queued", "backing"}
Settled == {"answered",   \* with a result, or an error that is there to stay
            "gaveup"}     \* with a transient error
States == {"new"} \cup Waiting \cup Settled

\* gracefulify(): what each function is wrapped with.
Queued(c) == MethodOf[c] = "open"
BacksOff(c) == MethodOf[c] = "rename"
Synchronous(c) == MethodOf[c] \in {"statSync", "readSync"}
Limit(c) == IF MethodOf[c] \in {"read", "readSync"} THEN MaxAttempts ELSE None

Init ==
    /\ state = [c \in Calls |-> "new"]
    /\ attempts = [c \in Calls |-> 0]
    /\ late = {}
    /\ entries = <<>>
    /\ timer = FALSE
    /\ exited = FALSE

-----------------------------------------------------------------------------
(* wrapCallbackMethod() and wrapPromiseMethod(), which do the same.          *)

Becomes(c, s) == state' = [state EXCEPT ![c] = s]

Start(c) ==
    /\ state[c] = "new"
    /\ ~Synchronous(c)
    /\ Becomes(c, "flying")
    /\ UNCHANGED <<attempts, late, entries, timer, exited>>

Answer(c) ==
    /\ state[c] = "flying"
    /\ Becomes(c, "answered")
    /\ UNCHANGED <<attempts, late, entries, timer, exited>>

ExceededEarlier(c, n) == c \in late \/ (Limit(c) # None /\ n + 1 >= Limit(c))

\* didExceedMaxAttempts
Exceeded(c, n) == c \in late \/ (Limit(c) # None /\ n >= Limit(c))

\* Mutant: nothing is scheduled.
EnqueueUnscheduled(c) ==
    /\ entries' = Append(entries, c)
    /\ timer' = timer
    /\ Becomes(c, "queued")

\* RetryQueue.enqueue()
Enqueue(c) ==
    /\ entries' = Append(entries, c)
    /\ timer' = TRUE
    /\ Becomes(c, "queued")

\* A transient error: give up, or wait for the next attempt.
FailForNow(c) ==
    /\ state[c] = "flying"
    /\ attempts' = [attempts EXCEPT ![c] = IF Limit(c) = None THEN 0 ELSE @ + 1]
    /\ \/ Exceeded(c, attempts'[c]) /\ Becomes(c, "gaveup") /\ UNCHANGED <<entries, timer>>
       \/ /\ ~Exceeded(c, attempts'[c])
          /\ \/ Queued(c) /\ Enqueue(c)
             \/ BacksOff(c) /\ Becomes(c, "backing") /\ UNCHANGED <<entries, timer>>
             \/ ~Queued(c) /\ ~BacksOff(c) /\ UNCHANGED <<state, entries, timer>>
    /\ UNCHANGED <<late, exited>>

BackoffEnds(c) ==
    /\ state[c] = "backing"
    /\ Becomes(c, "flying")
    /\ UNCHANGED <<attempts, late, entries, timer, exited>>

-----------------------------------------------------------------------------
(* RetryQueue.process(): the timer fires and serves one entry.               *)

Process ==
    /\ timer
    /\ entries' = Tail(entries)
    /\ Becomes(Head(entries), IF Head(entries) \in late THEN "gaveup" ELSE "flying")
    /\ timer' = (entries' # <<>>)
    /\ UNCHANGED <<attempts, late, exited>>

-----------------------------------------------------------------------------
(* wrapSyncMethod(): attempts follow each other in one stretch, in which the *)
(* minutes of other calls may end.                                           *)

CallSync(c) ==
    /\ state[c] = "new"
    /\ Synchronous(c)
    /\ \E passed \in SUBSET ({c} \cup {d \in Calls : state[d] \in Waiting}) :
          late' = late \cup passed
    /\ \E n \in IF Limit(c) = None THEN {0} ELSE 0..Limit(c) :
          /\ attempts' = [attempts EXCEPT ![c] = n]
          /\ \/ Limit(c) # n /\ Becomes(c, "answered")
             \/ (n > 0 \/ Limit(c) = None) /\ Exceeded(c, n)' /\ Becomes(c, "gaveup")
    /\ UNCHANGED <<entries, timer, exited>>

-----------------------------------------------------------------------------

\* A minute has passed since c was called.
MinuteEnds(c) ==
    /\ state[c] \in Waiting
    /\ late' = late \cup {c}
    /\ UNCHANGED <<state, attempts, entries, timer, exited>>

\* Nothing that Node waits for is under way: neither an attempt nor the timer of a
\* rename, and nothing else of the program, or else it goes on.
Exit ==
    /\ ~exited
    /\ \A c \in Calls : state[c] \notin {"flying", "backing"}
    /\ exited' = TRUE
    /\ UNCHANGED <<state, attempts, late, entries, timer>>

Terminating ==
    /\ exited \/ \A c \in Calls : state[c] \in Settled
    /\ UNCHANGED vars

Completes(c) == Answer(c) \/ FailForNow(c)

Next ==
    \/ /\ ~exited
       /\ \/ \E c \in Calls : Start(c) \/ Completes(c) \/ BackoffEnds(c)
                                \/ CallSync(c) \/ MinuteEnds(c)
          \/ Process
    \/ Exit
    \/ Terminating

Fairness ==
    /\ \A c \in Calls :
          /\ WF_vars(~exited /\ Completes(c))
          /\ WF_vars(~exited /\ BackoffEnds(c))
          /\ WF_vars(~exited /\ MinuteEnds(c))
    /\ WF_vars(~exited /\ Process)

Spec == Init /\ [][Next]_vars

FairSpec == Spec /\ Fairness

-----------------------------------------------------------------------------
(* Properties                                                                *)

\* Every variable has its type.  The queue holds the calls that wait in it, each
\* once: no attempt is made twice, none is lost.
TypeOK ==
    /\ state \in [Calls -> States]
    /\ attempts \in [Calls -> 0..MaxAttempts]
    /\ late \subseteq Calls
    /\ entries \in Seq(Calls)
    /\ timer \in BOOLEAN
    /\ exited \in BOOLEAN
    /\ Range(entries) = {c \in Calls : state[c] = "queued"}
    /\ IsInjective(entries)

\* The timer is set exactly while there is something in the queue, however
\* enqueue() and process() follow each other.
QueueIsServed == timer <=> entries # <<>>

\* "Retry for up to 60 seconds before giving up": a transient error is the answer
\* only when the minute is over, or after the most attempts the function allows.
NoEarlyGivingUp ==
    \A c \in Calls :
        state[c] = "gaveup" => c \in late \/ (Limit(c) # None /\ attempts[c] = Limit(c))

\* "Stop after this many attempts": a call with a limit that has failed that often
\* is not under way any more.
LimitIsKept ==
    \A c \in Calls :
        Limit(c) # None /\ attempts[c] >= Limit(c) => state[c] = "gaveup"

\* Every call is answered, even if it never stops failing, or else the process
\* has ended.
EveryCallIsAnswered ==
    \A c \in Calls : state[c] \in Waiting ~> state[c] \in Settled \/ exited

=============================================================================
