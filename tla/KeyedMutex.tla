----------------------------- MODULE KeyedMutex ------------------------------
(***************************************************************************)
(* src/src/async/keyedMutex.ts: one mutex per key, made on demand under a   *)
(* global mutex, forgotten again in least-recently-used order.              *)
(*                                                                          *)
(* JavaScript runs one continuation at a time, so every stretch of code     *)
(* between two awaits is one action.  A mutex object is named by its key    *)
(* and a generation: two generations of one key are two mutexes that do not *)
(* exclude each other.  The async-mutex package is modelled from its use:   *)
(* first in first out, and a release hands the mutex to the first waiter,   *)
(* whose continuation runs in a later step.                                 *)
(*                                                                          *)
(* A call with no keys returns at once, touches nothing and is left out.    *)
(* The catch of acquireMultiple is left out: it runs only when a key mutex  *)
(* is cancelled, and nothing cancels one.                                   *)
(***************************************************************************)
EXTENDS Integers, Sequences, FiniteSets, Functions

CONSTANTS
    Callers,      \* the asynchronous calls that may be in flight together
    Keys,         \* the strings to lock
    Generations,  \* identities for the mutex objects of one key
    Rank,         \* Rank[k]: where localeCompare() places key k
    MaxSize,      \* the constructor's maxSize; >= |Keys| stands for undefined
    MaxKeys,      \* bound: the most keys one call asks for
    None          \* no mutex, no holder

ASSUME CallersAssumption == IsFiniteSet(Callers) /\ None \notin Callers
ASSUME KeysAssumption == IsFiniteSet(Keys)
ASSUME GenerationsAssumption == Generations # {} /\ None \notin Generations
ASSUME RankAssumption == Rank \in [Keys -> Nat]
ASSUME LimitsAssumption == MaxSize \in Nat /\ MaxKeys \in Nat

VARIABLES
    keyMutexes,     \* the map: the generation of each key's mutex, or None
    lru,            \* pairs <<a, b>>: a comes before b in keyMutexesLru
    pendingLocks,   \* per key and generation: KeyMutexEntry.pendingLocks
    holder,         \* per key and generation: who holds the mutex
    waiting,        \* per key and generation: who is queued on the mutex
    globalHolder,   \* who holds keyMutexesMutex
    globalWaiting,  \* who is queued on keyMutexesMutex
    pc,             \* the await each caller is suspended at
    uniqueKeys,     \* the sorted, deduplicated keys of each caller's call
    entries,        \* the mutexes each caller took from the map
    next            \* nextToAcquire, counted from 1

mapVars == <<keyMutexes, lru, pendingLocks>>
mutexVars == <<holder, waiting>>
globalVars == <<globalHolder, globalWaiting>>
callVars == <<uniqueKeys, entries, next>>
vars == <<mapVars, mutexVars, globalVars, callVars, pc>>

PcStates == {"idle", "queued", "created", "entered", "acquiring", "critical",
             "queuedGlobally", "globally"}

\* Mutant: the keys stay in the caller's order.
UnsortedKeyLists ==
    {ks \in UNION {[1..n -> Keys] : n \in 1..MaxKeys} :
        \A i, j \in DOMAIN ks : i < j => ks[i] # ks[j]}

\* What toSorted() may leave: no duplicates, and ascending as far as
\* localeCompare() tells the keys apart (it keeps the caller's order on ties).
KeyLists ==
    {ks \in UNION {[1..n -> Keys] : n \in 1..MaxKeys} :
        \A i, j \in DOMAIN ks :
            i < j => ks[i] # ks[j] /\ Rank[ks[i]] <= Rank[ks[j]]}

NoEntries == [k \in Keys |-> None]

Init ==
    /\ keyMutexes = [k \in Keys |-> None]
    /\ lru = {}
    /\ pendingLocks = [k \in Keys |-> [g \in Generations |-> 0]]
    /\ holder = [k \in Keys |-> [g \in Generations |-> None]]
    /\ waiting = [k \in Keys |-> [g \in Generations |-> <<>>]]
    /\ globalHolder = None
    /\ globalWaiting = <<>>
    /\ pc = [c \in Callers |-> "idle"]
    /\ uniqueKeys = [c \in Callers |-> <<>>]
    /\ entries = [c \in Callers |-> NoEntries]
    /\ next = [c \in Callers |-> 1]

-----------------------------------------------------------------------------
(* The mutexes of the async-mutex package.                                   *)

\* Mutant: a mutex is granted although it is held.
GrantAlways(c, k, g) ==
    holder' = [holder EXCEPT ![k][g] = c] /\ UNCHANGED waiting

MutexAcquire(c, k, g) ==
    \/ /\ holder[k][g] = None
       /\ holder' = [holder EXCEPT ![k][g] = c]
       /\ UNCHANGED waiting
    \/ /\ holder[k][g] # None
       /\ waiting' = [waiting EXCEPT ![k][g] = Append(@, c)]
       /\ UNCHANGED holder

\* Who holds a released mutex, and who still waits for it.
Successor(w) == IF w = <<>> THEN None ELSE Head(w)
Remaining(w) == IF w = <<>> THEN <<>> ELSE Tail(w)

GlobalAcquire(c) ==
    \/ globalHolder = None /\ globalHolder' = c /\ UNCHANGED globalWaiting
    \/ /\ globalHolder # None
       /\ globalWaiting' = Append(globalWaiting, c)
       /\ UNCHANGED globalHolder

GlobalRelease ==
    /\ globalHolder' = Successor(globalWaiting)
    /\ globalWaiting' = Remaining(globalWaiting)

-----------------------------------------------------------------------------
(* The map and its least-recently-used order.                                *)

Present == {k \in Keys : keyMutexes[k] # None}

\* delete() and set() of each key in turn: the keys of ks become the newest.
Touch(ks, present) ==
    LET older == present \ Range(ks)
    IN  {p \in lru : p[1] \in older /\ p[2] \in older}
          \cup (older \X Range(ks))
          \cup {p \in Range(ks) \X Range(ks) :
                  \E i, j \in DOMAIN ks : i < j /\ p = <<ks[i], ks[j]>>}

\* new Mutex(): an identity nobody refers to any more.
NewGeneration(k) ==
    CHOOSE g \in Generations : \A c \in Callers : entries[c][k] # g

\* Mutants: one of the two reasons to spare a mutex is forgotten.
EvictableIfUnlocked(k) == holder[k][keyMutexes[k]] = None

Evictable(k) ==
    /\ holder[k][keyMutexes[k]] = None
    /\ pendingLocks[k][keyMutexes[k]] = 0

\* The oldest evictable keys, as many as the map is over its limit.
KeysToEvict(ks) ==
    LET excess == Cardinality(Present \cup Range(ks)) - MaxSize
        candidates == {k \in Present \ Range(ks) : Evictable(k)}
    IN  {k \in candidates :
            Cardinality({j \in candidates : <<j, k>> \in lru}) < excess}

-----------------------------------------------------------------------------
(* acquireMultiple() and releaseMultiple()                                   *)

\* Every key has a mutex: no global lock, and the first acquire() happens in
\* the same synchronous stretch.
RequestKnown(c, ks) ==
    /\ pc[c] = "idle"
    /\ Range(ks) \subseteq Present
    /\ lru' = Touch(ks, Present)
    /\ pendingLocks' =
         [k \in Keys |-> IF k \in Range(ks)
                         THEN [pendingLocks[k] EXCEPT ![keyMutexes[k]] = @ + 1]
                         ELSE pendingLocks[k]]
    /\ entries' = [entries EXCEPT ![c] =
         [k \in Keys |-> IF k \in Range(ks) THEN keyMutexes[k] ELSE None]]
    /\ uniqueKeys' = [uniqueKeys EXCEPT ![c] = ks]
    /\ MutexAcquire(c, ks[1], keyMutexes[ks[1]])
    /\ pc' = [pc EXCEPT ![c] = "acquiring"]
    /\ UNCHANGED <<keyMutexes, next, globalVars>>

\* Some key has none: queue on the global mutex.
RequestUnknown(c, ks) ==
    /\ pc[c] = "idle"
    /\ ~(Range(ks) \subseteq Present)
    /\ uniqueKeys' = [uniqueKeys EXCEPT ![c] = ks]
    /\ GlobalAcquire(c)
    /\ pc' = [pc EXCEPT ![c] = "queued"]
    /\ UNCHANGED <<mapVars, mutexVars, entries, next>>

\* The callback under the global mutex: create, evict, touch, take.
CreateEntries(c) ==
    LET ks == uniqueKeys[c]
        missing == Range(ks) \ Present
        evicted == KeysToEvict(ks)
        taken == [k \in Keys |-> IF k \in missing THEN NewGeneration(k)
                                                  ELSE keyMutexes[k]]
    IN  /\ pc[c] = "queued"
        /\ globalHolder = c
        /\ keyMutexes' = [k \in Keys |-> IF k \in evicted THEN None ELSE taken[k]]
        /\ lru' = Touch(ks, Present \ evicted)
        /\ holder' = [k \in Keys |->
             IF k \in missing THEN [holder[k] EXCEPT ![taken[k]] = None]
                              ELSE holder[k]]
        /\ waiting' = [k \in Keys |->
             IF k \in missing THEN [waiting[k] EXCEPT ![taken[k]] = <<>>]
                              ELSE waiting[k]]
        /\ pendingLocks' = [k \in Keys |->
             IF k \in Range(ks)
             THEN [pendingLocks[k] EXCEPT ![taken[k]] =
                      (IF k \in missing THEN 0 ELSE @) + 1]
             ELSE pendingLocks[k]]
        /\ entries' = [entries EXCEPT ![c] =
             [k \in Keys |-> IF k \in Range(ks) THEN taken[k] ELSE None]]
        /\ pc' = [pc EXCEPT ![c] = "created"]
        /\ UNCHANGED <<uniqueKeys, next, globalVars>>

\* Mutant: the global mutex is kept.
LeaveGlobalLocked(c) ==
    /\ pc[c] = "created"
    /\ pc' = [pc EXCEPT ![c] = "entered"]
    /\ UNCHANGED <<mapVars, mutexVars, globalVars, callVars>>

\* runExclusive() gives the global mutex back after its callback.
LeaveGlobal(c) ==
    /\ pc[c] = "created"
    /\ GlobalRelease
    /\ pc' = [pc EXCEPT ![c] = "entered"]
    /\ UNCHANGED <<mapVars, mutexVars, callVars>>

\* Back in acquireMultiple(): the first acquire() of the slow path.
StartAcquiring(c) ==
    /\ pc[c] = "entered"
    /\ MutexAcquire(c, uniqueKeys[c][1], entries[c][uniqueKeys[c][1]])
    /\ pc' = [pc EXCEPT ![c] = "acquiring"]
    /\ UNCHANGED <<mapVars, globalVars, callVars>>

\* The continuation of one acquire(): the entry is locked, so it is no longer
\* pending; ask for the next key, or run the caller's runnable.
Acquired(c) ==
    LET ks == uniqueKeys[c]
        k == ks[next[c]]
        g == entries[c][k]
    IN  /\ pc[c] = "acquiring"
        /\ holder[k][g] = c
        /\ pendingLocks' = [pendingLocks EXCEPT ![k][g] = @ - 1]
        /\ next' = [next EXCEPT ![c] = @ + 1]
        /\ \/ /\ next[c] < Len(ks)
              /\ MutexAcquire(c, ks[next[c] + 1], entries[c][ks[next[c] + 1]])
              /\ UNCHANGED pc
           \/ /\ next[c] = Len(ks)
              /\ pc' = [pc EXCEPT ![c] = "critical"]
              /\ UNCHANGED mutexVars
        /\ UNCHANGED <<keyMutexes, lru, globalVars, uniqueKeys, entries>>

\* releaseMultiple(), in the finally of runExclusiveForKeys(): whatever mutex
\* the map has for the key NOW is released.
ReleaseMultiple(c) ==
    LET released == Range(uniqueKeys[c]) \cap Present
    IN  /\ pc[c] = "critical"
        /\ holder' = [k \in Keys |->
             IF k \in released
             THEN [holder[k] EXCEPT ![keyMutexes[k]] =
                      Successor(waiting[k][keyMutexes[k]])]
             ELSE holder[k]]
        /\ waiting' = [k \in Keys |->
             IF k \in released
             THEN [waiting[k] EXCEPT ![keyMutexes[k]] = Remaining(@)]
             ELSE waiting[k]]
        /\ pc' = [pc EXCEPT ![c] = "idle"]
        /\ uniqueKeys' = [uniqueKeys EXCEPT ![c] = <<>>]
        /\ entries' = [entries EXCEPT ![c] = NoEntries]
        /\ next' = [next EXCEPT ![c] = 1]
        /\ UNCHANGED <<mapVars, globalVars>>

-----------------------------------------------------------------------------
(* runExclusiveGlobally()                                                    *)

RequestGlobally(c) ==
    /\ pc[c] = "idle"
    /\ GlobalAcquire(c)
    /\ pc' = [pc EXCEPT ![c] = "queuedGlobally"]
    /\ UNCHANGED <<mapVars, mutexVars, callVars>>

RunGlobally(c) ==
    /\ pc[c] = "queuedGlobally"
    /\ globalHolder = c
    /\ pc' = [pc EXCEPT ![c] = "globally"]
    /\ UNCHANGED <<mapVars, mutexVars, globalVars, callVars>>

FinishGlobally(c) ==
    /\ pc[c] = "globally"
    /\ GlobalRelease
    /\ pc' = [pc EXCEPT ![c] = "idle"]
    /\ UNCHANGED <<mapVars, mutexVars, callVars>>

-----------------------------------------------------------------------------

Request(c) ==
    \/ \E ks \in KeyLists : RequestKnown(c, ks) \/ RequestUnknown(c, ks)
    \/ RequestGlobally(c)

\* What the event loop owes a caller once its promise is settled, and the
\* runnable's own completion.
Continue(c) ==
    \/ CreateEntries(c) \/ LeaveGlobal(c) \/ StartAcquiring(c)
    \/ Acquired(c) \/ ReleaseMultiple(c)
    \/ RunGlobally(c) \/ FinishGlobally(c)

Next == \E c \in Callers : Request(c) \/ Continue(c)

Fairness == \A c \in Callers : WF_vars(Continue(c))

Spec == Init /\ [][Next]_vars

FairSpec == Spec /\ Fairness

-----------------------------------------------------------------------------
(* Properties                                                                *)

\* The keys a caller has acquired, and those it still owes a pendingLocks for.
Held(c) == {uniqueKeys[c][i] : i \in 1..(next[c] - 1)}
Owed(c) == IF pc[c] \in {"created", "entered", "acquiring"}
           THEN {uniqueKeys[c][i] : i \in next[c]..Len(uniqueKeys[c])}
           ELSE {}

\* Every variable has the type its declaration gives it; pendingLocks, in
\* particular, is never negative.
TypeOK ==
    /\ keyMutexes \in [Keys -> Generations \cup {None}]
    /\ lru \in SUBSET (Keys \X Keys)
    /\ pendingLocks \in [Keys -> [Generations -> Nat]]
    /\ holder \in [Keys -> [Generations -> Callers \cup {None}]]
    /\ waiting \in [Keys -> [Generations -> Seq(Callers)]]
    /\ globalHolder \in Callers \cup {None}
    /\ globalWaiting \in Seq(Callers)
    /\ pc \in [Callers -> PcStates]
    /\ uniqueKeys \in [Callers -> {<<>>} \cup KeyLists]
    /\ entries \in [Callers -> [Keys -> Generations \cup {None}]]
    /\ next \in [Callers -> 1..(MaxKeys + 1)]

\* No key is ever held by two calls (runExclusiveForKeys' promise), whatever
\* creations and evictions of mutexes happen in between.
MutualExclusion ==
    \A c, d \in Callers : c # d => Held(c) \cap Held(d) = {}

\* The reason for pendingLocks (KeyMutexEntry's comment): the mutex a call took
\* from the map is still the map's mutex until the call has released it, so
\* release(key) always finds the mutex that acquire(key) locked.
EntryOutlivesUse ==
    \A c \in Callers : \A k \in Held(c) \cup Owed(c) :
        /\ keyMutexes[k] # None
        /\ keyMutexes[k] = entries[c][k]

\* The counter is exact: were it ever too high, the key could never be evicted
\* again; were it too low, a mutex somebody is about to wait on could be.
PendingLocksExact ==
    \A k \in Present :
        pendingLocks[k][keyMutexes[k]] =
            Cardinality({c \in Callers : k \in Owed(c)})

\* acquireMultiple's comment: "no caller can hold a key greater than one it is
\* still waiting on, so no circular wait can form".
WaitsFor(c, d) ==
    /\ pc[c] = "acquiring"
    /\ holder[uniqueKeys[c][next[c]]][entries[c][uniqueKeys[c][next[c]]]] = d
NoCircularWait ==
    \A S \in (SUBSET Callers) \ {{}} :
        \E c \in S : \A d \in S : ~WaitsFor(c, d) \/ c = d

\* Every call that asked for keys, or for the whole map, gets its turn.
EveryCallIsServed ==
    \A c \in Callers :
        /\ pc[c] \in {"queued", "acquiring"} ~> pc[c] = "critical"
        /\ pc[c] = "queuedGlobally" ~> pc[c] = "globally"

Lock == INSTANCE LockService WITH holds <- [c \in Callers |-> Held(c)]

\* KeyedMutex does what LockService says, step by step.
ImplementsLockService == Lock!Spec

=============================================================================
