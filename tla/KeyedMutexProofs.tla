-------------------------- MODULE KeyedMutexProofs ---------------------------
(***************************************************************************)
(* Proofs about KeyedMutex for every set of callers and keys, every size    *)
(* limit and every collation order.                                         *)
(***************************************************************************)
EXTENDS KeyedMutex, FiniteSetTheorems, TLAPS

\* What is known of a caller from the await it is suspended at.
CallShape ==
    \A c \in Callers :
        /\ pc[c] \in {"idle", "queuedGlobally", "globally"} =>
              uniqueKeys[c] = <<>> /\ next[c] = 1
        /\ pc[c] \in {"queued", "created", "entered"} =>
              uniqueKeys[c] \in KeyLists /\ next[c] = 1
        /\ pc[c] = "acquiring" =>
              uniqueKeys[c] \in KeyLists /\ next[c] \in 1..Len(uniqueKeys[c])
        /\ pc[c] = "critical" =>
              uniqueKeys[c] \in KeyLists /\ next[c] = Len(uniqueKeys[c]) + 1

\* The callers whose pendingLocks on key k is outstanding.
Owers(k) == {c \in Callers : k \in Owed(c)}

\* An acquired key's mutex is held by the caller that acquired it.
HeldIsHolder ==
    \A c \in Callers : \A k \in Held(c) : holder[k][entries[c][k]] = c

\* Entries are remembered only for the keys of the call.
EntriesAreUsed ==
    \A c \in Callers : \A k \in Keys :
        entries[c][k] # None => k \in Held(c) \cup Owed(c)

\* The inductive invariant: a mutex that is held or pending is the map's.
IInv ==
    /\ TypeOK
    /\ CallShape
    /\ EntriesAreUsed
    /\ HeldIsHolder
    /\ EntryOutlivesUse
    /\ PendingLocksExact

\* What a list of keys is.
LEMMA KeyListShape ==
    ASSUME NEW ks \in KeyLists
    PROVE  /\ ks \in Seq(Keys)
           /\ Len(ks) \in 1..MaxKeys
           /\ DOMAIN ks = 1..Len(ks)
           /\ Range(ks) = {ks[i] : i \in 1..Len(ks)}
           /\ Range(ks) \subseteq Keys
           /\ \A i \in 1..Len(ks) : ks[i] \in Keys
           /\ \A i, j \in 1..Len(ks) : i # j => ks[i] # ks[j]
           /\ \A i, j \in 1..Len(ks) : i < j => Rank[ks[i]] <= Rank[ks[j]]
<1>1. PICK n \in 1..MaxKeys : ks \in [1..n -> Keys]
  BY DEF KeyLists
<1>2. n \in Nat /\ MaxKeys \in Nat
  BY LimitsAssumption
<1>3. ks \in Seq(Keys) /\ Len(ks) = n /\ DOMAIN ks = 1..n
  BY <1>1, <1>2
<1>4. \A i, j \in DOMAIN ks : i < j => ks[i] # ks[j] /\ Rank[ks[i]] <= Rank[ks[j]]
  BY DEF KeyLists
<1>5. \A i, j \in 1..n : i # j => ks[i] # ks[j]
  <2>1. SUFFICES ASSUME NEW i \in 1..n, NEW j \in 1..n, i # j
                 PROVE  ks[i] # ks[j]
    OBVIOUS
  <2>2. CASE i < j
    BY <2>2, <1>3, <1>4
  <2>3. CASE j < i
    BY <2>3, <1>3, <1>4
  <2>4. QED
    BY <2>1, <2>2, <2>3, <1>2
<1>6. Range(ks) = {ks[i] : i \in 1..n} /\ Range(ks) \subseteq Keys
  BY <1>1, <1>3 DEF Range
<1>7. QED
  BY <1>1, <1>2, <1>3, <1>4, <1>5, <1>6

\* The keys before a position of a list and those from it on.
LEMMA KeyListParts ==
    ASSUME NEW ks \in KeyLists, NEW n \in 1..Len(ks)
    PROVE  /\ {ks[i] : i \in 1..(n + 1 - 1)} = {ks[i] : i \in 1..(n - 1)} \cup {ks[n]}
           /\ {ks[i] : i \in (n + 1)..Len(ks)} = {ks[i] : i \in n..Len(ks)} \ {ks[n]}
           /\ ks[n] \in {ks[i] : i \in n..Len(ks)}
           /\ ks[n] \notin {ks[i] : i \in 1..(n - 1)}
           /\ {ks[i] : i \in 1..0} = {}
           /\ {ks[i] : i \in (Len(ks) + 1)..Len(ks)} = {}
<1>1. /\ Len(ks) \in Nat
      /\ \A i, j \in 1..Len(ks) : i # j => ks[i] # ks[j]
  BY KeyListShape, LimitsAssumption
<1>2. {ks[i] : i \in 1..(n + 1 - 1)} = {ks[i] : i \in 1..(n - 1)} \cup {ks[n]}
  BY <1>1
<1>3. {ks[i] : i \in (n + 1)..Len(ks)} = {ks[i] : i \in n..Len(ks)} \ {ks[n]}
  BY <1>1
<1>4. ks[n] \notin {ks[i] : i \in 1..(n - 1)}
  BY <1>1
<1>5. QED
  BY <1>1, <1>2, <1>3, <1>4

\* Acquiring a mutex: it goes to the caller if free; nobody loses one.
LEMMA MutexAcquireEffect ==
    ASSUME TypeOK, NEW c \in Callers, NEW k \in Keys, NEW g \in Generations,
           MutexAcquire(c, k, g)
    PROVE  /\ holder' \in [Keys -> [Generations -> Callers \cup {None}]]
           /\ waiting' \in [Keys -> [Generations -> Seq(Callers)]]
           /\ \A j \in Keys : \A h \in Generations :
                 holder[j][h] # None => holder'[j][h] = holder[j][h]
<1>1. CASE /\ holder[k][g] = None
           /\ holder' = [holder EXCEPT ![k][g] = c]
           /\ UNCHANGED waiting
  BY <1>1 DEF TypeOK
<1>2. CASE /\ holder[k][g] # None
           /\ waiting' = [waiting EXCEPT ![k][g] = Append(@, c)]
           /\ UNCHANGED holder
  <2>1. waiting[k][g] \in Seq(Callers)
    BY DEF TypeOK
  <2>2. Append(waiting[k][g], c) \in Seq(Callers)
    BY <2>1
  <2>3. QED
    BY <1>2, <2>2 DEF TypeOK
<1>3. QED
  BY <1>1, <1>2 DEF MutexAcquire

\* A queue's first member and the rest of it.
LEMMA QueueType ==
    ASSUME NEW w \in Seq(Callers)
    PROVE  /\ Successor(w) \in Callers \cup {None}
           /\ Remaining(w) \in Seq(Callers)
  BY DEF Successor, Remaining

\* The global mutex stays well typed.
LEMMA GlobalAcquireType ==
    ASSUME TypeOK, NEW c \in Callers, GlobalAcquire(c)
    PROVE  globalHolder' \in Callers \cup {None} /\ globalWaiting' \in Seq(Callers)
<1>1. globalWaiting \in Seq(Callers) /\ globalHolder \in Callers \cup {None}
  BY DEF TypeOK
<1>2. Append(globalWaiting, c) \in Seq(Callers)
  BY <1>1
<1>3. QED
  BY <1>1, <1>2 DEF GlobalAcquire

LEMMA GlobalReleaseType ==
    ASSUME TypeOK, GlobalRelease
    PROVE  globalHolder' \in Callers \cup {None} /\ globalWaiting' \in Seq(Callers)
  BY QueueType DEF TypeOK, GlobalRelease

\* The recency order only ever relates keys.
LEMMA TouchType ==
    ASSUME TypeOK, NEW ks \in KeyLists, NEW present \in SUBSET Keys
    PROVE  Touch(ks, present) \subseteq Keys \X Keys
<1>1. Range(ks) \subseteq Keys
  BY KeyListShape
<1>2. QED
  BY <1>1 DEF Touch, TypeOK

\* A caller that holds a key and one that holds or awaits it share its mutex,
\* so a key without a mutex is used by nobody.
LEMMA MissingIsUnused ==
    ASSUME IInv, NEW k \in Keys, keyMutexes[k] = None
    PROVE  /\ \A c \in Callers : k \notin Held(c) \cup Owed(c)
           /\ NewGeneration(k) \in Generations
<1>1. \A c \in Callers : k \notin Held(c) \cup Owed(c)
  BY DEF IInv, EntryOutlivesUse
<1>2. \A c \in Callers : entries[c][k] = None
  BY <1>1 DEF IInv, EntriesAreUsed
<1>3. \E g \in Generations : \A c \in Callers : entries[c][k] # g
  BY <1>2, GenerationsAssumption
<1>4. QED
  BY <1>1, <1>3 DEF NewGeneration

\* The sets counted by pendingLocks are finite.
LEMMA OwersFinite ==
    ASSUME NEW k
    PROVE  IsFiniteSet(Owers(k)) /\ Cardinality(Owers(k)) \in Nat
<1>1. Owers(k) \in SUBSET Callers
  BY DEF Owers
<1>2. QED
  BY <1>1, CallersAssumption, FS_Subset, FS_CardinalityType

-----------------------------------------------------------------------------
(* One lemma per action: it preserves the inductive invariant.               *)

\* What a step of caller c leaves alone.
LEMMA OthersUnchanged ==
    ASSUME NEW c \in Callers, NEW d \in Callers, d # c,
           pc'[d] = pc[d], uniqueKeys'[d] = uniqueKeys[d], next'[d] = next[d]
    PROVE  Held(d)' = Held(d) /\ Owed(d)' = Owed(d)
  BY DEF Held, Owed

\* The keys in use are keys, and each has a mutex of its own.
LEMMA UsedKeys ==
    ASSUME IInv, NEW c \in Callers, NEW k \in Held(c) \cup Owed(c)
    PROVE  /\ k \in Keys
           /\ entries[c][k] \in Generations
           /\ keyMutexes[k] \in Generations
<1>1. TypeOK /\ CallShape /\ EntryOutlivesUse
  BY DEF IInv
<1>2. uniqueKeys[c] # <<>> => uniqueKeys[c] \in KeyLists
  BY <1>1 DEF TypeOK
<1>3. k \in Keys
  <2>1. PICK i \in Int : /\ k = uniqueKeys[c][i]
                         /\ \/ i \in 1..(next[c] - 1)
                            \/ i \in next[c]..Len(uniqueKeys[c])
                               /\ pc[c] \in {"created", "entered", "acquiring"}
    <3>1. next[c] \in Int
      BY <1>1, LimitsAssumption DEF TypeOK
    <3>2. CASE k \in Held(c)
      BY <3>1, <3>2 DEF Held
    <3>3. CASE k \in Owed(c)
      <4>1. pc[c] \in {"created", "entered", "acquiring"}
        BY <3>3 DEF Owed
      <4>2. CASE uniqueKeys[c] = <<>>
        BY <4>1, <4>2, <1>1, KeyListShape, LimitsAssumption DEF CallShape
      <4>3. CASE uniqueKeys[c] \in KeyLists
        BY <4>1, <4>3, <3>1, <3>3, KeyListShape, LimitsAssumption DEF Owed
      <4>4. QED
        BY <1>2, <4>2, <4>3
    <3>4. QED
      BY <3>2, <3>3
  <2>2. pc[c] \in PcStates
    BY <1>1 DEF TypeOK
  <2>3. uniqueKeys[c] \in KeyLists /\ i \in 1..Len(uniqueKeys[c])
    BY <2>1, <2>2, <1>1, KeyListShape, LimitsAssumption DEF CallShape, PcStates
  <2>4. QED
    BY <2>1, <2>3, KeyListShape
<1>4. QED
  BY <1>1, <1>3 DEF EntryOutlivesUse, TypeOK

LEMMA RequestKnownInv ==
    ASSUME IInv, NEW c \in Callers, NEW ks \in KeyLists, RequestKnown(c, ks)
    PROVE  IInv'
<1> DEFINE K == Range(ks)
<1>1. /\ TypeOK /\ CallShape /\ EntriesAreUsed /\ HeldIsHolder
      /\ EntryOutlivesUse /\ PendingLocksExact
  BY DEF IInv
<1>2. /\ Len(ks) \in Nat /\ Len(ks) >= 1 /\ K \subseteq Keys /\ ks[1] \in Keys
      /\ 1 \in 1..Len(ks) /\ K = {ks[i] : i \in 1..Len(ks)}
  BY KeyListShape, LimitsAssumption
<1>3. /\ keyMutexes' = keyMutexes /\ next' = next /\ globalHolder' = globalHolder
      /\ globalWaiting' = globalWaiting
      /\ pc' = [pc EXCEPT ![c] = "acquiring"]
      /\ uniqueKeys' = [uniqueKeys EXCEPT ![c] = ks]
      /\ K \subseteq Present
      /\ next[c] = 1
  BY <1>1 DEF RequestKnown, globalVars, CallShape
<1>4. \A k \in K : keyMutexes[k] \in Generations
  BY <1>1, <1>2, <1>3 DEF Present, TypeOK
<1>5. /\ holder' \in [Keys -> [Generations -> Callers \cup {None}]]
      /\ waiting' \in [Keys -> [Generations -> Seq(Callers)]]
      /\ \A j \in Keys : \A h \in Generations :
            holder[j][h] # None => holder'[j][h] = holder[j][h]
  <2>1. MutexAcquire(c, ks[1], keyMutexes[ks[1]])
    BY DEF RequestKnown
  <2>2. keyMutexes[ks[1]] \in Generations
    BY <1>2, <1>4
  <2>3. QED
    BY <2>1, <2>2, <1>1, <1>2, MutexAcquireEffect
<1>6. /\ entries' \in [Callers -> [Keys -> Generations \cup {None}]]
      /\ \A k \in Keys : entries'[c][k] = IF k \in K THEN keyMutexes[k] ELSE None
      /\ \A d \in Callers \ {c} : entries'[d] = entries[d]
  BY <1>1, <1>4 DEF RequestKnown, TypeOK
<1>7. pendingLocks' \in [Keys -> [Generations -> Nat]]
  BY <1>1, <1>4 DEF RequestKnown, TypeOK
<1>8. TypeOK'
  <2>1. lru' \in SUBSET (Keys \X Keys)
    <3>1. Present \in SUBSET Keys
      BY DEF Present
    <3>2. QED
      BY <3>1, <1>1, TouchType DEF RequestKnown
  <2>2. pc' \in [Callers -> PcStates]
    BY <1>1, <1>3 DEF TypeOK, PcStates
  <2>3. uniqueKeys' \in [Callers -> {<<>>} \cup KeyLists]
    BY <1>1, <1>3 DEF TypeOK
  <2>4. QED
    BY <1>1, <1>3, <1>5, <1>6, <1>7, <2>1, <2>2, <2>3 DEF TypeOK
<1>9. /\ pc'[c] = "acquiring" /\ uniqueKeys'[c] = ks /\ next'[c] = 1
      /\ \A d \in Callers \ {c} : pc'[d] = pc[d] /\ uniqueKeys'[d] = uniqueKeys[d]
                                   /\ next'[d] = next[d]
  BY <1>1, <1>3 DEF TypeOK
<1>10. /\ Held(c)' = {} /\ Owed(c)' = K /\ Held(c) = {} /\ Owed(c) = {}
       /\ \A d \in Callers \ {c} : Held(d)' = Held(d) /\ Owed(d)' = Owed(d)
  <2>1. Held(c)' = {} /\ Owed(c)' = K
    BY <1>2, <1>9 DEF Held, Owed
  <2>2. Held(c) = {} /\ Owed(c) = {}
    BY <1>3 DEF Held, Owed, RequestKnown
  <2>3. QED
    BY <2>1, <2>2, <1>9, OthersUnchanged
<1>11. CallShape'
  BY <1>1, <1>2, <1>9 DEF CallShape
<1>12. EntriesAreUsed'
  BY <1>1, <1>6, <1>10 DEF EntriesAreUsed
<1>13. EntryOutlivesUse'
  <2>1. SUFFICES ASSUME NEW d \in Callers, NEW k \in Held(d)' \cup Owed(d)'
                 PROVE  keyMutexes[k] # None /\ keyMutexes[k] = entries'[d][k]
    BY <1>3 DEF EntryOutlivesUse
  <2>2. CASE d = c
    BY <2>1, <2>2, <1>2, <1>4, <1>6, <1>10, GenerationsAssumption
  <2>3. CASE d # c
    BY <2>1, <2>3, <1>1, <1>6, <1>10 DEF EntryOutlivesUse
  <2>4. QED
    BY <2>2, <2>3
<1>14. HeldIsHolder'
  <2>1. SUFFICES ASSUME NEW d \in Callers, NEW k \in Held(d)'
                 PROVE  holder'[k][entries'[d][k]] = d
    BY DEF HeldIsHolder
  <2>2. d # c /\ k \in Held(d)
    BY <1>10
  <2>3. holder[k][entries[d][k]] = d /\ entries'[d] = entries[d]
    BY <2>2, <1>1, <1>6 DEF HeldIsHolder
  <2>4. k \in Keys /\ entries[d][k] \in Generations
    BY <2>2, UsedKeys
  <2>5. QED
    BY <2>3, <2>4, <1>5, CallersAssumption
<1>15. PendingLocksExact'
  <2>1. SUFFICES ASSUME NEW k \in Keys, keyMutexes[k] # None
                 PROVE  pendingLocks'[k][keyMutexes[k]] = Cardinality(Owers(k)')
    BY <1>3 DEF PendingLocksExact, Present, Owers
  <2>2. /\ pendingLocks[k][keyMutexes[k]] = Cardinality(Owers(k))
        /\ keyMutexes[k] \in Generations
    BY <2>1, <1>1 DEF PendingLocksExact, Present, Owers, TypeOK
  <2>3. CASE k \in K
    <3>1. pendingLocks'[k][keyMutexes[k]] = pendingLocks[k][keyMutexes[k]] + 1
      BY <2>2, <2>3, <1>1 DEF RequestKnown, TypeOK
    <3>2. Owers(k)' = Owers(k) \cup {c} /\ c \notin Owers(k)
      BY <2>3, <1>10 DEF Owers
    <3>3. QED
      BY <3>1, <3>2, <2>2, OwersFinite, FS_AddElement
  <2>4. CASE k \notin K
    <3>1. pendingLocks'[k][keyMutexes[k]] = pendingLocks[k][keyMutexes[k]]
      BY <2>1, <2>4 DEF RequestKnown
    <3>2. Owers(k)' = Owers(k)
      BY <2>4, <1>10 DEF Owers
    <3>3. QED
      BY <3>1, <3>2, <2>2
  <2>5. QED
    BY <2>3, <2>4
<1>16. QED
  BY <1>8, <1>11, <1>12, <1>13, <1>14, <1>15 DEF IInv

\* A step that leaves the map, the mutexes and the keys in use alone.
LEMMA BookkeepingInv ==
    ASSUME IInv, TypeOK', CallShape',
           UNCHANGED <<keyMutexes, pendingLocks, holder, entries>>,
           \A d \in Callers : Held(d)' = Held(d) /\ Owed(d)' = Owed(d)
    PROVE  IInv'
<1>1. EntriesAreUsed' /\ HeldIsHolder' /\ EntryOutlivesUse'
  BY DEF IInv, EntriesAreUsed, HeldIsHolder, EntryOutlivesUse
<1>2. PendingLocksExact'
  <2>1. \A k : Owers(k)' = Owers(k)
    BY DEF Owers
  <2>2. QED
    BY <2>1 DEF IInv, PendingLocksExact, Present, Owers
<1>3. QED
  BY <1>1, <1>2 DEF IInv

LEMMA RequestUnknownInv ==
    ASSUME IInv, NEW c \in Callers, NEW ks \in KeyLists, RequestUnknown(c, ks)
    PROVE  IInv'
<1>1. /\ TypeOK /\ CallShape
      /\ UNCHANGED <<keyMutexes, lru, pendingLocks, holder, waiting, entries, next>>
      /\ pc' = [pc EXCEPT ![c] = "queued"]
      /\ uniqueKeys' = [uniqueKeys EXCEPT ![c] = ks]
      /\ pc[c] = "idle"
      /\ GlobalAcquire(c)
  BY DEF IInv, RequestUnknown, mapVars, mutexVars
<1>2. /\ pc'[c] = "queued" /\ uniqueKeys'[c] = ks /\ next'[c] = 1 /\ next[c] = 1
      /\ \A d \in Callers \ {c} : pc'[d] = pc[d] /\ uniqueKeys'[d] = uniqueKeys[d]
                                   /\ next'[d] = next[d]
  BY <1>1 DEF TypeOK, CallShape
<1>3. TypeOK'
  <2>1. globalHolder' \in Callers \cup {None} /\ globalWaiting' \in Seq(Callers)
    BY <1>1, GlobalAcquireType
  <2>2. pc' \in [Callers -> PcStates] /\ uniqueKeys' \in [Callers -> {<<>>} \cup KeyLists]
    BY <1>1 DEF TypeOK, PcStates
  <2>3. QED
    BY <1>1, <2>1, <2>2 DEF TypeOK
<1>4. CallShape'
  BY <1>1, <1>2 DEF CallShape
<1>5. \A d \in Callers : Held(d)' = Held(d) /\ Owed(d)' = Owed(d)
  <2>1. Held(c)' = {} /\ Held(c) = {} /\ Owed(c)' = {} /\ Owed(c) = {}
    BY <1>1, <1>2 DEF Held, Owed
  <2>2. QED
    BY <2>1, <1>2, OthersUnchanged
<1>6. QED
  BY <1>1, <1>3, <1>4, <1>5, BookkeepingInv

\* A step that only moves a caller between awaits where its keys count alike.
LEMMA WalkInv ==
    ASSUME IInv, NEW c \in Callers, NEW to \in PcStates,
           pc' = [pc EXCEPT ![c] = to],
           \/ /\ pc[c] \in {"idle", "queuedGlobally", "globally"}
              /\ to \in {"idle", "queuedGlobally", "globally"}
           \/ pc[c] = "created" /\ to = "entered",
           globalHolder' \in Callers \cup {None}, globalWaiting' \in Seq(Callers),
           UNCHANGED <<mapVars, mutexVars, callVars>>
    PROVE  IInv'
<1>1. /\ TypeOK /\ CallShape
      /\ UNCHANGED <<keyMutexes, lru, pendingLocks, holder, waiting,
                     uniqueKeys, entries, next>>
  BY DEF IInv, mapVars, mutexVars, callVars
<1>2. pc'[c] = to /\ \A d \in Callers \ {c} : pc'[d] = pc[d]
  BY <1>1 DEF TypeOK
<1>3. TypeOK'
  BY <1>1 DEF TypeOK
<1>4. CallShape'
  BY <1>1, <1>2 DEF CallShape
<1>5. \A d \in Callers : Held(d)' = Held(d) /\ Owed(d)' = Owed(d)
  BY <1>1, <1>2 DEF Held, Owed
<1>6. QED
  BY <1>1, <1>3, <1>4, <1>5, BookkeepingInv

LEMMA GlobalStepsInv ==
    ASSUME IInv, NEW c \in Callers,
           LeaveGlobal(c) \/ RequestGlobally(c) \/ RunGlobally(c) \/ FinishGlobally(c)
    PROVE  IInv'
<1>1. TypeOK
  BY DEF IInv
<1>2. CASE LeaveGlobal(c)
  <2>1. GlobalRelease /\ pc[c] = "created" /\ pc' = [pc EXCEPT ![c] = "entered"]
        /\ UNCHANGED <<mapVars, mutexVars, callVars>>
    BY <1>2 DEF LeaveGlobal
  <2>2. QED
    BY <2>1, <1>1, WalkInv, GlobalReleaseType DEF PcStates
<1>3. CASE RequestGlobally(c)
  <2>1. GlobalAcquire(c) /\ pc[c] = "idle" /\ pc' = [pc EXCEPT ![c] = "queuedGlobally"]
        /\ UNCHANGED <<mapVars, mutexVars, callVars>>
    BY <1>3 DEF RequestGlobally
  <2>2. QED
    BY <2>1, <1>1, WalkInv, GlobalAcquireType DEF PcStates
<1>4. CASE RunGlobally(c)
  <2>1. /\ pc[c] = "queuedGlobally" /\ pc' = [pc EXCEPT ![c] = "globally"]
        /\ UNCHANGED <<mapVars, mutexVars, callVars>>
        /\ globalHolder' = globalHolder /\ globalWaiting' = globalWaiting
    BY <1>4 DEF RunGlobally, globalVars
  <2>2. globalHolder' \in Callers \cup {None} /\ globalWaiting' \in Seq(Callers)
    BY <2>1, <1>1 DEF TypeOK
  <2>3. QED
    BY <2>1, <2>2, WalkInv DEF PcStates
<1>5. CASE FinishGlobally(c)
  <2>1. GlobalRelease /\ pc[c] = "globally" /\ pc' = [pc EXCEPT ![c] = "idle"]
        /\ UNCHANGED <<mapVars, mutexVars, callVars>>
    BY <1>5 DEF FinishGlobally
  <2>2. QED
    BY <2>1, <1>1, WalkInv, GlobalReleaseType DEF PcStates
<1>6. QED
  BY <1>2, <1>3, <1>4, <1>5

\* Handing a free mutex over, or queueing, disturbs nobody's claim.
LEMMA HolderKept ==
    ASSUME IInv,
           \A j \in Keys : \A h \in Generations :
              holder[j][h] # None => holder'[j][h] = holder[j][h],
           NEW d \in Callers, NEW k \in Held(d)
    PROVE  holder'[k][entries[d][k]] = d
<1>1. k \in Keys /\ entries[d][k] \in Generations
  BY UsedKeys
<1>2. holder[k][entries[d][k]] = d /\ d # None
  BY CallersAssumption DEF IInv, HeldIsHolder
<1>3. QED
  BY <1>1, <1>2

LEMMA StartAcquiringInv ==
    ASSUME IInv, NEW c \in Callers, StartAcquiring(c)
    PROVE  IInv'
<1> DEFINE ks == uniqueKeys[c]
<1>1. /\ TypeOK /\ CallShape
      /\ UNCHANGED <<keyMutexes, lru, pendingLocks, globalHolder, globalWaiting,
                     uniqueKeys, entries, next>>
      /\ pc' = [pc EXCEPT ![c] = "acquiring"]
      /\ pc[c] = "entered"
      /\ MutexAcquire(c, ks[1], entries[c][ks[1]])
  BY DEF IInv, StartAcquiring, mapVars, globalVars, callVars
<1>2. /\ pc'[c] = "acquiring" /\ next[c] = 1
      /\ \A d \in Callers \ {c} : pc'[d] = pc[d]
      /\ ks \in KeyLists
  BY <1>1 DEF TypeOK, CallShape
<1>3. /\ 1 \in 1..Len(ks) /\ ks[1] \in Owed(c)
  BY <1>1, <1>2, KeyListShape, LimitsAssumption DEF Owed
<1>4. /\ ks[1] \in Keys /\ entries[c][ks[1]] \in Generations
  BY <1>3, UsedKeys
<1>5. /\ holder' \in [Keys -> [Generations -> Callers \cup {None}]]
      /\ waiting' \in [Keys -> [Generations -> Seq(Callers)]]
      /\ \A j \in Keys : \A h \in Generations :
            holder[j][h] # None => holder'[j][h] = holder[j][h]
  BY <1>1, <1>4, MutexAcquireEffect
<1>6. TypeOK'
  BY <1>1, <1>5 DEF TypeOK, PcStates
<1>7. CallShape'
  BY <1>1, <1>2, <1>3 DEF CallShape
<1>8. \A d \in Callers : Held(d)' = Held(d) /\ Owed(d)' = Owed(d)
  BY <1>1, <1>2 DEF Held, Owed
<1>9. HeldIsHolder'
  BY <1>1, <1>5, <1>8, HolderKept DEF HeldIsHolder
<1>10. EntriesAreUsed' /\ EntryOutlivesUse'
  BY <1>1, <1>8 DEF IInv, EntriesAreUsed, EntryOutlivesUse
<1>11. PendingLocksExact'
  <2>1. \A k : Owers(k)' = Owers(k)
    BY <1>8 DEF Owers
  <2>2. QED
    BY <2>1, <1>1 DEF IInv, PendingLocksExact, Present, Owers
<1>12. QED
  BY <1>6, <1>7, <1>9, <1>10, <1>11 DEF IInv

LEMMA AcquiredInv ==
    ASSUME IInv, NEW c \in Callers, Acquired(c)
    PROVE  IInv'
<1> DEFINE ks == uniqueKeys[c]
           n == next[c]
           k == ks[n]
           g == entries[c][k]
<1>1. /\ TypeOK /\ CallShape /\ EntriesAreUsed /\ HeldIsHolder
      /\ EntryOutlivesUse /\ PendingLocksExact
  BY DEF IInv
<1>2. /\ UNCHANGED <<keyMutexes, lru, globalHolder, globalWaiting, uniqueKeys, entries>>
      /\ pc[c] = "acquiring"
      /\ holder[k][g] = c
      /\ pendingLocks' = [pendingLocks EXCEPT ![k][g] = @ - 1]
      /\ next' = [next EXCEPT ![c] = n + 1]
  BY DEF Acquired, globalVars
<1>3. /\ ks \in KeyLists /\ n \in 1..Len(ks) /\ Len(ks) \in 1..MaxKeys
      /\ n \in Int /\ Len(ks) \in Int /\ MaxKeys \in Nat
  BY <1>1, <1>2, KeyListShape, LimitsAssumption DEF CallShape
<1>4. /\ k \in Owed(c) /\ k \in Keys /\ g \in Generations /\ keyMutexes[k] = g
  <2>1. k \in Owed(c)
    BY <1>2, <1>3, KeyListParts DEF Owed
  <2>2. QED
    BY <2>1, <1>1, UsedKeys DEF EntryOutlivesUse
<1>5. \/ /\ n < Len(ks) /\ pc' = pc
         /\ MutexAcquire(c, ks[n + 1], entries[c][ks[n + 1]])
      \/ /\ n = Len(ks) /\ pc' = [pc EXCEPT ![c] = "critical"]
         /\ UNCHANGED <<holder, waiting>>
  BY DEF Acquired, mutexVars
<1>6. /\ holder' \in [Keys -> [Generations -> Callers \cup {None}]]
      /\ waiting' \in [Keys -> [Generations -> Seq(Callers)]]
      /\ \A j \in Keys : \A h \in Generations :
            holder[j][h] # None => holder'[j][h] = holder[j][h]
  <2>1. CASE n = Len(ks)
    BY <2>1, <1>1, <1>3, <1>5 DEF TypeOK
  <2>2. CASE n < Len(ks)
    <3>1. n + 1 \in n..Len(ks) /\ n + 1 \in Int
      BY <2>2, <1>3
    <3>2. ks[n + 1] \in Owed(c)
      BY <3>1, <1>2 DEF Owed
    <3>3. ks[n + 1] \in Keys /\ entries[c][ks[n + 1]] \in Generations
      BY <3>2, UsedKeys
    <3>4. QED
      BY <3>3, <2>2, <1>1, <1>3, <1>5, MutexAcquireEffect
  <2>3. QED
    BY <2>1, <2>2, <1>3
<1>7. /\ pc' \in [Callers -> PcStates]
      /\ pc'[c] = IF n = Len(ks) THEN "critical" ELSE "acquiring"
      /\ \A d \in Callers \ {c} : pc'[d] = pc[d]
  <2>1. pc \in [Callers -> PcStates] /\ {"acquiring", "critical"} \subseteq PcStates
    BY <1>1 DEF TypeOK, PcStates
  <2>2. CASE n < Len(ks) /\ pc' = pc
    BY <2>1, <2>2, <1>2, <1>3
  <2>3. CASE n = Len(ks) /\ pc' = [pc EXCEPT ![c] = "critical"]
    BY <2>1, <2>3, <1>2, <1>3
  <2>4. QED
    BY <2>2, <2>3, <1>5
<1>8. /\ next' \in [Callers -> 1..(MaxKeys + 1)] /\ next'[c] = n + 1
      /\ \A d \in Callers \ {c} : next'[d] = next[d]
  BY <1>1, <1>2, <1>3 DEF TypeOK
<1>9. TypeOK'
  <2>1. pendingLocks' \in [Keys -> [Generations -> Nat]]
    <3>1. pendingLocks[k][g] = Cardinality(Owers(k)) /\ c \in Owers(k)
      BY <1>1, <1>4, GenerationsAssumption DEF PendingLocksExact, Present, Owers
    <3>2. pendingLocks[k][g] \in Nat /\ pendingLocks[k][g] # 0
      BY <3>1, OwersFinite, FS_EmptySet
    <3>3. pendingLocks[k][g] - 1 \in Nat
      BY <3>2
    <3>4. QED
      BY <3>3, <1>1, <1>2, <1>4 DEF TypeOK
  <2>2. QED
    BY <2>1, <1>1, <1>2, <1>6, <1>7, <1>8 DEF TypeOK
<1>10. CallShape'
  <2>1. n < Len(ks) => n + 1 \in 1..Len(ks)
    BY <1>3
  <2>2. QED
    BY <2>1, <1>1, <1>2, <1>3, <1>7, <1>8 DEF CallShape
<1>11. /\ Held(c)' = Held(c) \cup {k} /\ Owed(c)' = Owed(c) \ {k}
       /\ \A d \in Callers \ {c} : Held(d)' = Held(d) /\ Owed(d)' = Owed(d)
  <2>1. Held(c)' = Held(c) \cup {k}
    BY <1>2, <1>3, <1>8, KeyListParts DEF Held
  <2>2. Owed(c)' = Owed(c) \ {k}
    <3>1. Owed(c) = {ks[i] : i \in n..Len(ks)}
      BY <1>2 DEF Owed
    <3>2. Owed(c)' = {ks[i] : i \in (n + 1)..Len(ks)}
      BY <1>2, <1>3, <1>7, <1>8 DEF Owed
    <3>3. QED
      BY <3>1, <3>2, <1>3, KeyListParts
  <2>3. \A d \in Callers \ {c} : Held(d)' = Held(d) /\ Owed(d)' = Owed(d)
    BY <1>2, <1>7, <1>8, OthersUnchanged
  <2>4. QED
    BY <2>1, <2>2, <2>3
<1>12. EntriesAreUsed' /\ EntryOutlivesUse'
  BY <1>1, <1>2, <1>4, <1>11 DEF EntriesAreUsed, EntryOutlivesUse
<1>13. HeldIsHolder'
  <2>1. holder'[k][g] = c
    BY <1>2, <1>4, <1>6, CallersAssumption
  <2>2. SUFFICES ASSUME NEW d \in Callers, NEW j \in Held(d)'
                 PROVE  holder'[j][entries[d][j]] = d
    BY <1>2 DEF HeldIsHolder
  <2>3. CASE j \in Held(d)
    BY <2>3, <1>6, HolderKept
  <2>4. CASE j \notin Held(d)
    <3>1. d = c /\ j = k
      BY <2>2, <2>4, <1>11
    <3>2. QED
      BY <3>1, <2>1
  <2>5. QED
    BY <2>3, <2>4
<1>14. PendingLocksExact'
  <2>1. SUFFICES ASSUME NEW j \in Keys, keyMutexes[j] # None
                 PROVE  pendingLocks'[j][keyMutexes[j]] = Cardinality(Owers(j)')
    BY <1>2 DEF PendingLocksExact, Present, Owers
  <2>2. /\ pendingLocks[j][keyMutexes[j]] = Cardinality(Owers(j))
        /\ keyMutexes[j] \in Generations
    BY <2>1, <1>1 DEF PendingLocksExact, Present, Owers, TypeOK
  <2>3. CASE j = k
    <3>1. pendingLocks'[j][keyMutexes[j]] = pendingLocks[j][keyMutexes[j]] - 1
      BY <2>3, <1>1, <1>2, <1>4 DEF TypeOK
    <3>2. Owers(j)' = Owers(j) \ {c} /\ c \in Owers(j)
      BY <2>3, <1>4, <1>11 DEF Owers
    <3>3. QED
      BY <3>1, <3>2, <2>2, OwersFinite, FS_RemoveElement
  <2>4. CASE j # k
    <3>1. pendingLocks'[j] = pendingLocks[j]
      BY <2>1, <2>4, <1>1, <1>2 DEF TypeOK
    <3>2. Owers(j)' = Owers(j)
      BY <2>4, <1>11 DEF Owers
    <3>3. QED
      BY <3>1, <3>2, <2>2
  <2>5. QED
    BY <2>3, <2>4
<1>15. QED
  BY <1>9, <1>10, <1>12, <1>13, <1>14 DEF IInv

LEMMA ReleaseMultipleInv ==
    ASSUME IInv, NEW c \in Callers, ReleaseMultiple(c)
    PROVE  IInv'
<1> DEFINE ks == uniqueKeys[c]
           released == Range(ks) \cap Present
<1>1. /\ TypeOK /\ CallShape /\ EntriesAreUsed /\ HeldIsHolder
      /\ EntryOutlivesUse /\ PendingLocksExact
  BY DEF IInv
<1>2. /\ UNCHANGED <<keyMutexes, lru, pendingLocks, globalHolder, globalWaiting>>
      /\ pc[c] = "critical"
      /\ pc' = [pc EXCEPT ![c] = "idle"]
      /\ uniqueKeys' = [uniqueKeys EXCEPT ![c] = <<>>]
      /\ entries' = [entries EXCEPT ![c] = NoEntries]
      /\ next' = [next EXCEPT ![c] = 1]
  BY DEF ReleaseMultiple, globalVars, mapVars
<1>3. /\ ks \in KeyLists /\ next[c] = Len(ks) + 1 /\ Len(ks) \in Int
      /\ Range(ks) = {ks[i] : i \in 1..Len(ks)} /\ MaxKeys \in Nat
  BY <1>1, <1>2, KeyListShape, LimitsAssumption DEF CallShape
<1>4. Held(c) = Range(ks) /\ Owed(c) = {}
  BY <1>2, <1>3 DEF Held, Owed
<1>5. \A k \in Keys : /\ holder'[k] = IF k \in released
                           THEN [holder[k] EXCEPT ![keyMutexes[k]] =
                                   Successor(waiting[k][keyMutexes[k]])]
                           ELSE holder[k]
                      /\ k \in released => keyMutexes[k] \in Generations
  BY <1>1 DEF ReleaseMultiple, Present, TypeOK
<1>6. /\ holder' \in [Keys -> [Generations -> Callers \cup {None}]]
      /\ waiting' \in [Keys -> [Generations -> Seq(Callers)]]
  <2>1. \A k \in Keys : \A h \in Generations :
            /\ Successor(waiting[k][h]) \in Callers \cup {None}
            /\ Remaining(waiting[k][h]) \in Seq(Callers)
    BY <1>1, QueueType DEF TypeOK
  <2>2. QED
    BY <2>1, <1>1, <1>5 DEF ReleaseMultiple, TypeOK
<1>7. /\ pc'[c] = "idle" /\ uniqueKeys'[c] = <<>> /\ next'[c] = 1
      /\ entries'[c] = NoEntries
      /\ \A d \in Callers \ {c} : pc'[d] = pc[d] /\ uniqueKeys'[d] = uniqueKeys[d]
                                   /\ next'[d] = next[d] /\ entries'[d] = entries[d]
  BY <1>1, <1>2 DEF TypeOK
<1>8. TypeOK'
  <2>1. NoEntries \in [Keys -> Generations \cup {None}]
    BY DEF NoEntries
  <2>2. "idle" \in PcStates
    BY DEF PcStates
  <2>3. QED
    BY <2>1, <2>2, <1>1, <1>2, <1>3, <1>6 DEF TypeOK
<1>9. CallShape'
  BY <1>1, <1>7 DEF CallShape
<1>10. /\ Held(c)' = {} /\ Owed(c)' = {}
       /\ \A d \in Callers \ {c} : Held(d)' = Held(d) /\ Owed(d)' = Owed(d)
  <2>1. Held(c)' = {} /\ Owed(c)' = {}
    BY <1>7 DEF Held, Owed
  <2>2. QED
    BY <2>1, <1>7, OthersUnchanged
<1>11. EntriesAreUsed' /\ EntryOutlivesUse'
  <2>1. EntriesAreUsed'
    BY <1>1, <1>7, <1>10 DEF EntriesAreUsed, NoEntries
  <2>2. EntryOutlivesUse'
    BY <1>1, <1>2, <1>7, <1>10 DEF EntryOutlivesUse
  <2>3. QED
    BY <2>1, <2>2
<1>12. HeldIsHolder'
  <2>1. SUFFICES ASSUME NEW d \in Callers, NEW k \in Held(d)'
                 PROVE  holder'[k][entries'[d][k]] = d
    BY DEF HeldIsHolder
  <2>2. d # c /\ k \in Held(d) /\ entries'[d] = entries[d]
    BY <2>1, <1>7, <1>10
  <2>3. /\ holder[k][entries[d][k]] = d /\ keyMutexes[k] = entries[d][k]
        /\ k \in Keys /\ entries[d][k] \in Generations
    BY <2>2, <1>1, UsedKeys DEF HeldIsHolder, EntryOutlivesUse
  <2>4. k \notin released
    <3>1. k \in released => holder[k][entries[c][k]] = c /\ keyMutexes[k] = entries[c][k]
      BY <1>1, <1>4 DEF HeldIsHolder, EntryOutlivesUse
    <3>2. QED
      BY <3>1, <2>2, <2>3
  <2>5. QED
    BY <2>2, <2>3, <2>4, <1>5
<1>13. PendingLocksExact'
  <2>1. \A k : Owers(k)' = Owers(k)
    BY <1>4, <1>10 DEF Owers
  <2>2. QED
    BY <2>1, <1>1, <1>2 DEF PendingLocksExact, Present, Owers
<1>14. QED
  BY <1>8, <1>9, <1>11, <1>12, <1>13 DEF IInv

\* Eviction spares every mutex that is held or pending: the lock is taken or
\* the counter is positive.
LEMMA UsedIsNotEvicted ==
    ASSUME IInv, NEW ks, NEW d \in Callers, NEW k \in Held(d) \cup Owed(d)
    PROVE  k \notin KeysToEvict(ks)
<1>1. /\ k \in Keys /\ entries[d][k] \in Generations
      /\ keyMutexes[k] = entries[d][k] /\ k \in Present
  BY UsedKeys DEF IInv, EntryOutlivesUse, Present
<1>2. CASE k \in Held(d)
  <2>1. holder[k][keyMutexes[k]] = d /\ d # None
    BY <1>1, <1>2, CallersAssumption DEF IInv, HeldIsHolder
  <2>2. QED
    BY <2>1 DEF KeysToEvict, Evictable
<1>3. CASE k \in Owed(d)
  <2>1. pendingLocks[k][keyMutexes[k]] = Cardinality(Owers(k)) /\ d \in Owers(k)
    BY <1>1, <1>3 DEF IInv, PendingLocksExact, Owers
  <2>2. Cardinality(Owers(k)) # 0
    BY <2>1, OwersFinite, FS_EmptySet
  <2>3. QED
    BY <2>1, <2>2 DEF KeysToEvict, Evictable
<1>4. QED
  BY <1>2, <1>3

LEMMA CreateEntriesInv ==
    ASSUME IInv, NEW c \in Callers, CreateEntries(c)
    PROVE  IInv'
<1> DEFINE K == Range(uniqueKeys[c])
           missing == K \ Present
           evicted == KeysToEvict(uniqueKeys[c])
           taken == [k \in Keys |-> IF k \in missing THEN NewGeneration(k)
                                                     ELSE keyMutexes[k]]
<1>1. /\ TypeOK /\ CallShape /\ EntriesAreUsed /\ HeldIsHolder
      /\ EntryOutlivesUse /\ PendingLocksExact
  BY DEF IInv
<1>2. /\ pc[c] = "queued"
      /\ keyMutexes' = [k \in Keys |-> IF k \in evicted THEN None ELSE taken[k]]
      /\ lru' = Touch(uniqueKeys[c], Present \ evicted)
      /\ holder' = [k \in Keys |->
            IF k \in missing THEN [holder[k] EXCEPT ![taken[k]] = None] ELSE holder[k]]
      /\ waiting' = [k \in Keys |->
            IF k \in missing THEN [waiting[k] EXCEPT ![taken[k]] = <<>>] ELSE waiting[k]]
      /\ pendingLocks' = [k \in Keys |->
            IF k \in K THEN [pendingLocks[k] EXCEPT ![taken[k]] =
                               (IF k \in missing THEN 0 ELSE @) + 1]
                       ELSE pendingLocks[k]]
      /\ entries' = [entries EXCEPT ![c] = [k \in Keys |-> IF k \in K THEN taken[k] ELSE None]]
      /\ pc' = [pc EXCEPT ![c] = "created"]
      /\ UNCHANGED <<uniqueKeys, next, globalHolder, globalWaiting>>
  BY DEF CreateEntries, globalVars
<1>3. /\ uniqueKeys[c] \in KeyLists /\ next[c] = 1 /\ K \subseteq Keys
      /\ K = {uniqueKeys[c][i] : i \in 1..Len(uniqueKeys[c])}
  BY <1>1, <1>2, KeyListShape DEF CallShape
<1>4. \A k \in Keys : /\ k \in K => taken[k] \in Generations
                      /\ taken[k] \in Generations \cup {None}
  <2>1. TAKE k \in Keys
  <2>2. CASE k \in missing
    BY <2>2, MissingIsUnused DEF Present
  <2>3. CASE k \notin missing
    BY <2>3, <1>1 DEF Present, TypeOK
  <2>4. QED
    BY <2>2, <2>3
<1>5. evicted \subseteq Present \ K
  BY DEF KeysToEvict
<1>6. /\ pc'[c] = "created"
      /\ \A k \in Keys : entries'[c][k] = IF k \in K THEN taken[k] ELSE None
      /\ \A d \in Callers \ {c} : pc'[d] = pc[d] /\ entries'[d] = entries[d]
  BY <1>1, <1>2 DEF TypeOK
<1>7. TypeOK'
  <2>1. keyMutexes' \in [Keys -> Generations \cup {None}]
    BY <1>2, <1>4
  <2>2. lru' \in SUBSET (Keys \X Keys)
    <3>1. Present \ evicted \in SUBSET Keys
      BY DEF Present
    <3>2. QED
      BY <3>1, <1>1, <1>2, <1>3, TouchType
  <2>3. holder' \in [Keys -> [Generations -> Callers \cup {None}]]
    BY <1>1, <1>2 DEF TypeOK
  <2>4. waiting' \in [Keys -> [Generations -> Seq(Callers)]]
    <3>1. <<>> \in Seq(Callers)
      OBVIOUS
    <3>2. QED
      BY <3>1, <1>1, <1>2 DEF TypeOK
  <2>5. pendingLocks' \in [Keys -> [Generations -> Nat]]
    <3>1. \A k \in Keys : \A g \in Generations : pendingLocks[k][g] \in Nat
      BY <1>1 DEF TypeOK
    <3>2. QED
      BY <3>1, <1>1, <1>2, <1>4 DEF TypeOK
  <2>6. entries' \in [Callers -> [Keys -> Generations \cup {None}]]
    BY <1>1, <1>2, <1>4 DEF TypeOK
  <2>7. pc' \in [Callers -> PcStates]
    BY <1>1, <1>2 DEF TypeOK, PcStates
  <2>8. QED
    BY <2>1, <2>2, <2>3, <2>4, <2>5, <2>6, <2>7, <1>1, <1>2 DEF TypeOK
<1>8. CallShape'
  BY <1>1, <1>2, <1>3, <1>6 DEF CallShape
<1>9. /\ Held(c)' = {} /\ Owed(c)' = K /\ Held(c) = {} /\ Owed(c) = {}
      /\ \A d \in Callers \ {c} : Held(d)' = Held(d) /\ Owed(d)' = Owed(d)
  <2>1. Held(c)' = {} /\ Held(c) = {} /\ Owed(c) = {}
    BY <1>2, <1>3 DEF Held, Owed
  <2>2. Owed(c)' = K
    BY <1>2, <1>3, <1>6 DEF Owed
  <2>3. QED
    BY <2>1, <2>2, <1>2, <1>6, OthersUnchanged
<1>10. \A d \in Callers : \A k \in Held(d) \cup Owed(d) :
          /\ k \in Keys /\ k \in Present /\ k \notin missing
          /\ keyMutexes'[k] = keyMutexes[k] /\ holder'[k] = holder[k]
  <2>1. TAKE d \in Callers
  <2>2. TAKE k \in Held(d) \cup Owed(d)
  <2>3. k \in Keys /\ keyMutexes[k] \in Generations
    BY UsedKeys
  <2>4. k \in Present /\ k \notin evicted
    BY <2>3, UsedIsNotEvicted, GenerationsAssumption DEF Present
  <2>5. QED
    BY <2>3, <2>4, <1>2
<1>11. EntriesAreUsed'
  BY <1>1, <1>6, <1>9 DEF EntriesAreUsed
<1>12. EntryOutlivesUse'
  <2>1. SUFFICES ASSUME NEW d \in Callers, NEW k \in Held(d)' \cup Owed(d)'
                 PROVE  keyMutexes'[k] # None /\ keyMutexes'[k] = entries'[d][k]
    BY DEF EntryOutlivesUse
  <2>2. CASE d = c
    <3>1. k \in K /\ k \in Keys
      BY <2>1, <2>2, <1>3, <1>9
    <3>2. k \notin evicted
      BY <3>1, <1>5
    <3>3. keyMutexes'[k] = taken[k]
      BY <3>1, <3>2, <1>2
    <3>4. taken[k] # None
      BY <3>1, <1>4, GenerationsAssumption
    <3>5. QED
      BY <3>1, <3>3, <3>4, <2>2, <1>6
  <2>3. CASE d # c
    BY <2>1, <2>3, <1>1, <1>6, <1>9, <1>10 DEF EntryOutlivesUse
  <2>4. QED
    BY <2>2, <2>3
<1>13. HeldIsHolder'
  BY <1>1, <1>6, <1>9, <1>10 DEF HeldIsHolder
<1>14. PendingLocksExact'
  <2>1. SUFFICES ASSUME NEW k \in Keys, keyMutexes'[k] # None
                 PROVE  pendingLocks'[k][keyMutexes'[k]] = Cardinality(Owers(k)')
    BY DEF PendingLocksExact, Present, Owers
  <2>2. keyMutexes'[k] = taken[k]
    BY <2>1, <1>2
  <2>3. CASE k \in K
    <3>1. Owers(k)' = Owers(k) \cup {c} /\ c \notin Owers(k)
      BY <2>3, <1>9 DEF Owers
    <3>2. taken[k] \in Generations
      BY <2>3, <1>4
    <3>3. CASE k \in missing
      <4>1. pendingLocks'[k][taken[k]] = 1
        BY <3>2, <3>3, <2>3, <1>1, <1>2 DEF TypeOK
      <4>2. Owers(k) = {}
        BY <3>3, MissingIsUnused DEF Present, Owers
      <4>3. QED
        BY <4>1, <4>2, <3>1, <2>2, FS_Singleton
    <3>4. CASE k \notin missing
      <4>1. taken[k] = keyMutexes[k] /\ k \in Present
        BY <3>4, <2>3
      <4>2. pendingLocks'[k][taken[k]] = pendingLocks[k][keyMutexes[k]] + 1
        BY <4>1, <3>2, <3>4, <2>3, <1>1, <1>2 DEF TypeOK
      <4>3. pendingLocks[k][keyMutexes[k]] = Cardinality(Owers(k))
        BY <4>1, <1>1 DEF PendingLocksExact, Owers
      <4>4. QED
        BY <4>2, <4>3, <3>1, <2>2, OwersFinite, FS_AddElement
    <3>5. QED
      BY <3>3, <3>4
  <2>4. CASE k \notin K
    <3>1. taken[k] = keyMutexes[k] /\ k \in Present
      BY <2>1, <2>2, <2>4 DEF Present
    <3>2. pendingLocks'[k] = pendingLocks[k]
      BY <2>4, <1>2
    <3>3. Owers(k)' = Owers(k)
      BY <2>4, <1>9 DEF Owers
    <3>4. QED
      BY <3>1, <3>2, <3>3, <2>2, <1>1 DEF PendingLocksExact, Owers
  <2>5. QED
    BY <2>3, <2>4
<1>15. QED
  BY <1>7, <1>8, <1>11, <1>12, <1>13, <1>14 DEF IInv

-----------------------------------------------------------------------------
(* The theorems.                                                             *)

LEMMA InitInv == Init => IInv
<1> SUFFICES ASSUME Init PROVE IInv
  OBVIOUS
<1>1. \A c \in Callers : Held(c) = {} /\ Owed(c) = {}
  BY DEF Init, Held, Owed
<1>2. TypeOK
  <2>1. 1 \in 1..(MaxKeys + 1) /\ "idle" \in PcStates
    BY LimitsAssumption DEF PcStates
  <2>2. <<>> \in Seq(Callers)
    OBVIOUS
  <2>3. QED
    BY <2>1, <2>2 DEF Init, TypeOK, NoEntries
<1>3. CallShape
  BY DEF Init, CallShape
<1>4. EntriesAreUsed
  BY DEF Init, EntriesAreUsed, NoEntries
<1>5. HeldIsHolder /\ EntryOutlivesUse
  BY <1>1 DEF HeldIsHolder, EntryOutlivesUse
<1>6. PendingLocksExact
  BY DEF Init, PendingLocksExact, Present
<1>7. QED
  BY <1>2, <1>3, <1>4, <1>5, <1>6 DEF IInv

LEMMA NextInv == IInv /\ [Next]_vars => IInv'
<1> SUFFICES ASSUME IInv, [Next]_vars PROVE IInv'
  OBVIOUS
<1>1. CASE UNCHANGED vars
  <2>1. UNCHANGED <<keyMutexes, lru, pendingLocks, holder, waiting, globalHolder,
                    globalWaiting, pc, uniqueKeys, entries, next>>
    BY <1>1 DEF vars, mapVars, mutexVars, globalVars, callVars
  <2>2. \A d \in Callers : Held(d)' = Held(d) /\ Owed(d)' = Owed(d)
    BY <2>1 DEF Held, Owed
  <2>3. TypeOK' /\ CallShape'
    BY <2>1 DEF IInv, TypeOK, CallShape
  <2>4. QED
    BY <2>1, <2>2, <2>3, BookkeepingInv
<1>2. ASSUME NEW c \in Callers, Request(c) PROVE IInv'
  BY <1>2, RequestKnownInv, RequestUnknownInv, GlobalStepsInv DEF Request
<1>3. ASSUME NEW c \in Callers, Continue(c) PROVE IInv'
  BY <1>3, CreateEntriesInv, StartAcquiringInv, AcquiredInv, ReleaseMultipleInv,
     GlobalStepsInv DEF Continue
<1>4. QED
  BY <1>1, <1>2, <1>3 DEF Next

LEMMA Invariance == Spec => []IInv
  BY InitInv, NextInv, PTL DEF Spec

\* The state of a keyed mutex is always well typed.
THEOREM TypeCorrect == Spec => []TypeOK
<1>1. IInv => TypeOK
  BY DEF IInv
<1>2. QED
  BY <1>1, Invariance, PTL

\* The mutex a call took from the map stays the map's until it is released, for
\* every maxSize: acquire(key) and release(key) always mean the same mutex.
THEOREM EntriesOutliveUse == Spec => []EntryOutlivesUse
<1>1. IInv => EntryOutlivesUse
  BY DEF IInv
<1>2. QED
  BY <1>1, Invariance, PTL

\* pendingLocks is exactly the number of calls that took the mutex and have not
\* acquired it yet.
THEOREM PendingLocksAreExact == Spec => []PendingLocksExact
<1>1. IInv => PendingLocksExact
  BY DEF IInv
<1>2. QED
  BY <1>1, Invariance, PTL

\* Two calls never hold one key together.
THEOREM MutualExclusionHolds == Spec => []MutualExclusion
<1>1. IInv => MutualExclusion
  <2>1. SUFFICES ASSUME IInv, NEW c \in Callers, NEW d \in Callers,
                        NEW k \in Held(c), k \in Held(d)
                 PROVE  c = d
    BY DEF MutualExclusion
  <2>2. holder[k][keyMutexes[k]] = c /\ holder[k][keyMutexes[k]] = d
    BY <2>1 DEF IInv, HeldIsHolder, EntryOutlivesUse
  <2>3. QED
    BY <2>2
<1>2. QED
  BY <1>1, Invariance, PTL

\* Every step of KeyedMutex is a step of LockService or leaves it alone.
THEOREM Implementation == Spec => ImplementsLockService
<1> DEFINE held == [c \in Callers |-> Held(c)]
<1>1. Init => Lock!Init
  BY DEF Init, Lock!Init, Held
<1>2. ASSUME IInv, [Next]_vars
      PROVE  [Lock!Next]_held
  <2> USE <1>2
  <2>1. ASSUME NEW c \in Callers, Acquired(c) PROVE Lock!Next
    <3> DEFINE ks == uniqueKeys[c]
               n == next[c]
               k == ks[n]
    <3>1. /\ ks \in KeyLists /\ n \in 1..Len(ks) /\ k \in Owed(c) /\ k \in Keys
          /\ pc[c] = "acquiring" /\ holder[k][entries[c][k]] = c
      <4>1. pc[c] = "acquiring" /\ holder[k][entries[c][k]] = c
        BY <2>1 DEF Acquired
      <4>2. ks \in KeyLists /\ n \in 1..Len(ks)
        BY <4>1 DEF IInv, CallShape
      <4>3. k \in Owed(c)
        BY <4>1, <4>2, KeyListParts DEF Owed
      <4>4. QED
        BY <4>1, <4>2, <4>3, UsedKeys
    <3>2. k \notin Held(c)
      BY <3>1, KeyListParts DEF Held
    <3>3. \A d \in Callers : k \notin Held(d)
      <4>1. SUFFICES ASSUME NEW d \in Callers, k \in Held(d), d # c PROVE FALSE
        BY <3>2
      <4>2. holder[k][entries[d][k]] = d /\ entries[d][k] = entries[c][k]
        BY <4>1, <3>1 DEF IInv, HeldIsHolder, EntryOutlivesUse
      <4>3. QED
        BY <4>1, <4>2, <3>1
    <3>4. /\ uniqueKeys' = uniqueKeys
          /\ next' = [next EXCEPT ![c] = n + 1]
          /\ next \in [Callers -> 1..(MaxKeys + 1)]
      BY <2>1 DEF Acquired, IInv, TypeOK
    <3>5. /\ Held(c)' = Held(c) \cup {k}
          /\ \A d \in Callers \ {c} : Held(d)' = Held(d)
      BY <3>1, <3>4, KeyListParts DEF Held
    <3>6. held' = [held EXCEPT ![c] = @ \cup {k}]
      BY <3>5
    <3>7. Lock!Acquire(c, k)
      BY <3>3, <3>6 DEF Lock!Acquire
    <3>8. QED
      BY <3>1, <3>7 DEF Lock!Next
  <2>2. ASSUME NEW c \in Callers, ReleaseMultiple(c) PROVE Lock!Next
    <3>1. /\ pc[c] = "critical" /\ uniqueKeys' = [uniqueKeys EXCEPT ![c] = <<>>]
          /\ next' = [next EXCEPT ![c] = 1]
      BY <2>2 DEF ReleaseMultiple
    <3>2. uniqueKeys[c] \in KeyLists /\ next[c] = Len(uniqueKeys[c]) + 1
      BY <3>1 DEF IInv, CallShape
    <3>3. 1 \in 1..(next[c] - 1)
      BY <3>2, KeyListShape, LimitsAssumption
    <3>4. Held(c) # {}
      BY <3>3 DEF Held
    <3>5. Held(c)' = {} /\ \A d \in Callers \ {c} : Held(d)' = Held(d)
      BY <3>1 DEF Held, IInv, TypeOK
    <3>6. Lock!ReleaseAll(c)
      BY <3>4, <3>5 DEF Lock!ReleaseAll
    <3>7. QED
      BY <3>6 DEF Lock!Next
  <2>3. ASSUME UNCHANGED <<uniqueKeys, next>> PROVE held' = held
    BY <2>3 DEF Held
  <2>4. ASSUME NEW c \in Callers, NEW ks \in KeyLists,
               RequestKnown(c, ks) \/ RequestUnknown(c, ks)
        PROVE  held' = held
    <3>1. /\ pc[c] = "idle" /\ uniqueKeys' = [uniqueKeys EXCEPT ![c] = ks]
          /\ next' = next
      BY <2>4 DEF RequestKnown, RequestUnknown
    <3>2. next[c] = 1 /\ uniqueKeys \in [Callers -> {<<>>} \cup KeyLists]
      BY <3>1 DEF IInv, CallShape, TypeOK
    <3>3. \A d \in Callers : Held(d)' = Held(d)
      BY <3>1, <3>2 DEF Held
    <3>4. QED
      BY <3>3
  <2>5. ASSUME NEW c \in Callers,
               \/ RequestGlobally(c) \/ CreateEntries(c) \/ LeaveGlobal(c)
               \/ StartAcquiring(c) \/ RunGlobally(c) \/ FinishGlobally(c)
        PROVE  held' = held
    <3>1. UNCHANGED <<uniqueKeys, next>>
      BY <2>5 DEF RequestGlobally, CreateEntries, LeaveGlobal, StartAcquiring,
                  RunGlobally, FinishGlobally, callVars
    <3>2. QED
      BY <3>1, <2>3
  <2>6. CASE UNCHANGED vars
    BY <2>3, <2>6 DEF vars, callVars
  <2>7. QED
    BY <2>1, <2>2, <2>4, <2>5, <2>6 DEF Next, Request, Continue
<1>3. QED
  BY <1>1, <1>2, Invariance, PTL DEF Spec, ImplementsLockService, Lock!Spec

-----------------------------------------------------------------------------
(* No circular wait.                                                         *)

\* The caller awaits the acquire() of key k, or has been granted it and not yet
\* gone on.
Wants(c, k) == pc[c] = "acquiring" /\ uniqueKeys[c][next[c]] = k

\* Who holds the mutex the map has for a key has acquired the key or is about to.
HolderWants ==
    \A k \in Present : \A c \in Callers :
        holder[k][keyMutexes[k]] = c => k \in Held(c) \/ Wants(c, k)

\* Who is queued on it wants the key, is queued once, and does not hold it.
QueueWants ==
    \A k \in Present : \A c \in Callers :
        LET w == waiting[k][keyMutexes[k]]
        IN  \A i \in DOMAIN w :
               w[i] = c => /\ Wants(c, k)
                           /\ holder[k][keyMutexes[k]] # c
                           /\ \A j \in DOMAIN w : i # j => w[j] # c

\* What keeps the mutexes and the callers' positions in step.
WInv == HolderWants /\ QueueWants

\* A caller wants one key at a time, and none before it has its mutexes.
LEMMA WantsOne ==
    ASSUME IInv, NEW c \in Callers, NEW k, Wants(c, k)
    PROVE  /\ k = uniqueKeys[c][next[c]]
           /\ k \in Owed(c) /\ k \notin Held(c)
           /\ k \in Keys /\ k \in Present
           /\ keyMutexes[k] = entries[c][k] /\ keyMutexes[k] \in Generations
<1>1. /\ pc[c] = "acquiring" /\ k = uniqueKeys[c][next[c]]
      /\ uniqueKeys[c] \in KeyLists /\ next[c] \in 1..Len(uniqueKeys[c])
  BY DEF Wants, IInv, CallShape
<1>2. k \in Owed(c) /\ k \notin Held(c)
  BY <1>1, KeyListParts DEF Owed, Held
<1>3. k \in Keys /\ keyMutexes[k] = entries[c][k] /\ keyMutexes[k] \in Generations
  BY <1>2, UsedKeys DEF IInv, EntryOutlivesUse
<1>4. QED
  BY <1>1, <1>2, <1>3, GenerationsAssumption DEF Present

\* A caller that is not queued asks for a key: it gets it or is queued once.
LEMMA AskingKeepsStep ==
    ASSUME IInv, WInv, NEW c \in Callers, NEW k \in Present,
           MutexAcquire(c, k, keyMutexes[k]), keyMutexes' = keyMutexes,
           Wants(c, k)',
           \A j \in Present : holder[j][keyMutexes[j]] = c => j # k /\ j \in Held(c)',
           \A j \in Present : \A i \in DOMAIN waiting[j][keyMutexes[j]] :
              waiting[j][keyMutexes[j]][i] # c,
           \A d \in Callers \ {c} :
              /\ Held(d)' = Held(d)
              /\ \A j \in Keys : Wants(d, j)' <=> Wants(d, j)
    PROVE  WInv'
<1> DEFINE g == keyMutexes[k]
<1>0. Present' = Present
  BY DEF Present
<1>1. /\ TypeOK /\ HolderWants /\ QueueWants
      /\ k \in Keys /\ g \in Generations /\ Present' = Present
      /\ c # None /\ \A j \in Present : j \in Keys /\ keyMutexes[j] \in Generations
      /\ \A j \in Keys, h \in Generations : waiting[j][h] \in Seq(Callers)
  BY CallersAssumption DEF IInv, WInv, Present, TypeOK
<1>2. CASE /\ holder[k][g] = None
           /\ holder' = [holder EXCEPT ![k][g] = c]
           /\ waiting' = waiting
  <2>1. HolderWants'
    <3>1. SUFFICES ASSUME NEW j \in Present, NEW d \in Callers,
                          holder'[j][keyMutexes[j]] = d
                   PROVE  j \in Held(d)' \/ Wants(d, j)'
      BY <1>1 DEF HolderWants
    <3>2. CASE j = k
      BY <3>1, <3>2, <1>1, <1>2 DEF TypeOK
    <3>3. CASE j # k
      <4>1. holder[j][keyMutexes[j]] = d
        BY <3>1, <3>3, <1>1, <1>2 DEF TypeOK
      <4>2. QED
        BY <4>1, <1>1 DEF HolderWants
    <3>4. QED
      BY <3>2, <3>3
  <2>2. QueueWants'
    <3>1. SUFFICES ASSUME NEW j \in Present, NEW d \in Callers,
                          NEW i \in DOMAIN waiting[j][keyMutexes[j]],
                          waiting[j][keyMutexes[j]][i] = d
                   PROVE  /\ Wants(d, j)'
                          /\ holder'[j][keyMutexes[j]] # d
                          /\ \A l \in DOMAIN waiting[j][keyMutexes[j]] :
                                i # l => waiting[j][keyMutexes[j]][l] # d
      BY <1>0, <1>2 DEF QueueWants
    <3>2. d # c
      BY <3>1
    <3>3. holder'[j][keyMutexes[j]] \in {holder[j][keyMutexes[j]], c}
      BY <1>1, <1>2 DEF TypeOK
    <3>4. QED
      BY <3>1, <3>2, <3>3, <1>1 DEF QueueWants
  <2>3. QED
    BY <2>1, <2>2 DEF WInv
<1>3. CASE /\ holder[k][g] # None
           /\ waiting' = [waiting EXCEPT ![k][g] = Append(@, c)]
           /\ holder' = holder
  <2>1. HolderWants'
    <3>1. SUFFICES ASSUME NEW j \in Present, NEW d \in Callers,
                          holder[j][keyMutexes[j]] = d
                   PROVE  j \in Held(d)' \/ Wants(d, j)'
      BY <1>1, <1>3 DEF HolderWants
    <3>2. QED
      BY <3>1, <1>1 DEF HolderWants
  <2>2. QueueWants'
    <3> DEFINE w == waiting[k][g]
               n == Len(w)
    <3>1. /\ w \in Seq(Callers) /\ n \in Nat /\ DOMAIN w = 1..n
          /\ waiting'[k][g] = Append(w, c)
          /\ DOMAIN Append(w, c) = 1..(n + 1)
          /\ Append(w, c)[n + 1] = c
          /\ \A i \in 1..n : Append(w, c)[i] = w[i]
      BY <1>1, <1>3 DEF TypeOK
    <3>2. \A j \in Present \ {k} : waiting'[j][keyMutexes[j]] = waiting[j][keyMutexes[j]]
      BY <1>1, <1>3 DEF TypeOK
    <3>3. SUFFICES ASSUME NEW j \in Present, NEW d \in Callers,
                          NEW i \in DOMAIN waiting'[j][keyMutexes[j]],
                          waiting'[j][keyMutexes[j]][i] = d
                   PROVE  /\ Wants(d, j)'
                          /\ holder[j][keyMutexes[j]] # d
                          /\ \A l \in DOMAIN waiting'[j][keyMutexes[j]] :
                                i # l => waiting'[j][keyMutexes[j]][l] # d
      BY <1>0, <1>3 DEF QueueWants
    <3>4. CASE j # k
      <4>1. waiting'[j][keyMutexes[j]] = waiting[j][keyMutexes[j]] /\ d # c
        BY <3>2, <3>3, <3>4, <1>1
      <4>2. QED
        BY <4>1, <3>3, <1>1 DEF QueueWants
    <3>5. CASE j = k
      <4> DEFINE v == waiting'[k][g]
      <4>1. /\ n \in Nat /\ DOMAIN v = 1..(n + 1) /\ v[n + 1] = c
            /\ \A l \in 1..n : v[l] = w[l]
        BY <3>1
      <4>2. i \in 1..(n + 1) /\ d = v[i]
        BY <4>1, <3>3, <3>5
      <4>3. \A l \in 1..n : w[l] # c
        BY <3>1
      <4> HIDE DEF v, w, n
      <4>4. CASE d = c
        <5>1. i = n + 1
          <6>1. i # n + 1 => i \in 1..n
            BY <4>1, <4>2
          <6>2. QED
            BY <6>1, <4>1, <4>2, <4>3, <4>4
        <5>2. \A l \in 1..(n + 1) : i # l => v[l] # c
          BY <5>1, <4>1, <4>3
        <5>3. Wants(c, k)' /\ holder[k][g] # c
          OBVIOUS
        <5>4. QED
          BY <5>2, <5>3, <4>1, <4>4, <3>5 DEF v
      <4>5. CASE d # c
        <5>1. i \in 1..n /\ w[i] = d
          BY <4>1, <4>2, <4>5
        <5>2. /\ Wants(d, k) /\ holder[k][g] # d
              /\ \A l \in 1..n : i # l => w[l] # d
          BY <5>1, <3>1 DEF WInv, QueueWants, w
        <5>3. Wants(d, k)'
          BY <5>2, <4>5, <1>1
        <5>4. \A l \in 1..(n + 1) : i # l => v[l] # d
          BY <5>2, <4>1, <4>5
        <5>5. QED
          BY <5>2, <5>3, <5>4, <4>1, <3>5 DEF v
      <4>6. QED
        BY <4>4, <4>5
    <3>6. QED
      BY <3>4, <3>5
  <2>3. QED
    BY <2>1, <2>2 DEF WInv
<1>4. QED
  BY <1>2, <1>3 DEF MutexAcquire

\* A caller that wants nothing holds the mutexes of what it has acquired, and is
\* queued nowhere.
LEMMA WantsNothing ==
    ASSUME IInv, WInv, NEW c \in Callers, pc[c] # "acquiring"
    PROVE  /\ \A j : ~Wants(c, j)
           /\ \A j \in Present : holder[j][keyMutexes[j]] = c => j \in Held(c)
           /\ \A j \in Present : \A i \in DOMAIN waiting[j][keyMutexes[j]] :
                 waiting[j][keyMutexes[j]][i] # c
  BY DEF WInv, HolderWants, QueueWants, Wants

LEMMA RequestKnownKeepsStep ==
    ASSUME IInv, WInv, NEW c \in Callers, NEW ks \in KeyLists, RequestKnown(c, ks)
    PROVE  WInv'
<1>1. /\ pc[c] = "idle" /\ next[c] = 1 /\ keyMutexes' = keyMutexes
      /\ MutexAcquire(c, ks[1], keyMutexes[ks[1]])
      /\ Range(ks) \subseteq Present
      /\ pc' = [pc EXCEPT ![c] = "acquiring"]
      /\ uniqueKeys' = [uniqueKeys EXCEPT ![c] = ks]
      /\ next' = next
  BY DEF RequestKnown, IInv, CallShape
<1>2. ks[1] \in Present
  BY <1>1, KeyListShape, LimitsAssumption
<1>3. Wants(c, ks[1])' /\ Held(c) = {}
  BY <1>1 DEF Wants, IInv, TypeOK, Held
<1>4. \A d \in Callers \ {c} : /\ Held(d)' = Held(d)
                               /\ \A j \in Keys : Wants(d, j)' <=> Wants(d, j)
  BY <1>1 DEF Held, Wants, IInv, TypeOK
<1>5. \A j \in Present : holder[j][keyMutexes[j]] # c
  BY <1>1, <1>3, WantsNothing
<1>6. QED
  BY <1>1, <1>2, <1>3, <1>4, <1>5, WantsNothing, AskingKeepsStep

LEMMA StartAcquiringKeepsStep ==
    ASSUME IInv, WInv, NEW c \in Callers, StartAcquiring(c)
    PROVE  WInv'
<1> DEFINE k == uniqueKeys[c][1]
<1>1. /\ pc[c] = "entered" /\ next[c] = 1 /\ keyMutexes' = keyMutexes
      /\ uniqueKeys[c] \in KeyLists
      /\ MutexAcquire(c, k, entries[c][k])
      /\ pc' = [pc EXCEPT ![c] = "acquiring"]
      /\ uniqueKeys' = uniqueKeys /\ next' = next
  BY DEF StartAcquiring, mapVars, callVars, IInv, CallShape
<1>2. k \in Owed(c)
  BY <1>1, KeyListShape, LimitsAssumption DEF Owed
<1>3. k \in Present /\ keyMutexes[k] = entries[c][k]
  BY <1>2, UsedKeys DEF IInv, EntryOutlivesUse, Present
<1>4. Wants(c, k)' /\ Held(c) = {}
  BY <1>1 DEF Wants, IInv, TypeOK, Held
<1>5. \A d \in Callers \ {c} : /\ Held(d)' = Held(d)
                               /\ \A j \in Keys : Wants(d, j)' <=> Wants(d, j)
  BY <1>1 DEF Held, Wants, IInv, TypeOK
<1>6. \A j \in Present : holder[j][keyMutexes[j]] # c
  BY <1>1, <1>4, WantsNothing
<1>7. QED
  BY <1>1, <1>3, <1>4, <1>5, <1>6, WantsNothing, AskingKeepsStep

LEMMA AcquiredKeepsStep ==
    ASSUME IInv, WInv, NEW c \in Callers, Acquired(c)
    PROVE  WInv'
<1> DEFINE ks == uniqueKeys[c]
           n == next[c]
           k == ks[n]
<1>1. /\ pc[c] = "acquiring" /\ holder[k][entries[c][k]] = c
      /\ next' = [next EXCEPT ![c] = n + 1]
      /\ UNCHANGED <<keyMutexes, uniqueKeys, entries>>
      /\ ks \in KeyLists /\ n \in 1..Len(ks) /\ Len(ks) \in Nat
  BY KeyListShape, LimitsAssumption DEF Acquired, IInv, CallShape
<1>2. Wants(c, k)
  BY <1>1 DEF Wants
<1>3. k \in Present /\ keyMutexes[k] = entries[c][k] /\ k \notin Held(c)
  BY <1>2, WantsOne
<1>4. Held(c)' = Held(c) \cup {k}
  BY <1>1, KeyListParts DEF Held, IInv, TypeOK
<1>5. \A j \in Present : holder[j][keyMutexes[j]] = c => j \in Held(c)'
  BY <1>4, WantsOne DEF WInv, HolderWants
<1>6. \A j \in Present : \A i \in DOMAIN waiting[j][keyMutexes[j]] :
         waiting[j][keyMutexes[j]][i] # c
  <2>1. SUFFICES ASSUME NEW j \in Present, NEW i \in DOMAIN waiting[j][keyMutexes[j]],
                        waiting[j][keyMutexes[j]][i] = c
                 PROVE  FALSE
    OBVIOUS
  <2>2. Wants(c, j) /\ holder[j][keyMutexes[j]] # c
    BY <2>1 DEF WInv, QueueWants
  <2>3. j = k
    BY <2>2, <1>2, WantsOne
  <2>4. QED
    BY <2>2, <2>3, <1>1, <1>3
<1>7. \A d \in Callers \ {c} : uniqueKeys'[d] = uniqueKeys[d] /\ next'[d] = next[d]
  BY <1>1 DEF IInv, TypeOK
<1>8. CASE /\ n < Len(ks)
           /\ MutexAcquire(c, ks[n + 1], entries[c][ks[n + 1]])
           /\ pc' = pc
  <2>1. PICK l : l = ks[n + 1]
    OBVIOUS
  <2>2. /\ n + 1 \in n..Len(ks) /\ n + 1 \in 1..Len(ks)
        /\ next'[c] = n + 1 /\ uniqueKeys'[c] = ks
    BY <1>1, <1>8 DEF IInv, TypeOK
  <2>3. l \in Owed(c)
    BY <2>1, <2>2, <1>1 DEF Owed
  <2>4. l \in Present /\ keyMutexes[l] = entries[c][l]
    BY <2>3, UsedKeys DEF IInv, EntryOutlivesUse, Present
  <2>5. Wants(c, l)'
    BY <2>1, <2>2, <1>1, <1>8 DEF Wants
  <2>6. l \notin Held(c)'
    BY <2>1, <2>2, <1>1, <1>4, KeyListParts, KeyListShape DEF Held
  <2>7. \A d \in Callers \ {c} : /\ Held(d)' = Held(d)
                                 /\ \A j \in Keys : Wants(d, j)' <=> Wants(d, j)
    BY <1>7, <1>8 DEF Held, Wants
  <2>8. QED
    BY <2>1, <2>4, <2>5, <2>6, <2>7, <1>1, <1>5, <1>6, <1>8, AskingKeepsStep
<1>9. CASE /\ pc' = [pc EXCEPT ![c] = "critical"]
           /\ UNCHANGED <<holder, waiting>>
  <2>0. Present' = Present /\ keyMutexes' = keyMutexes
    BY <1>1 DEF Present
  <2>1. \A d \in Callers \ {c} : /\ Held(d)' = Held(d)
                                 /\ \A j : Wants(d, j)' <=> Wants(d, j)
    BY <1>7, <1>9 DEF Held, Wants, IInv, TypeOK
  <2>2. HolderWants'
    BY <2>1, <1>1, <1>5, <1>9 DEF WInv, HolderWants, Present
  <2>3. QueueWants'
    <3>1. \A j \in Present : \A d \in Callers :
             \A i \in DOMAIN waiting[j][keyMutexes[j]] :
                waiting[j][keyMutexes[j]][i] = d => Wants(d, j)'
      BY <1>6, <2>1 DEF WInv, QueueWants
    <3>2. QED
      BY <3>1, <2>0, <1>9 DEF WInv, QueueWants
  <2>4. QED
    BY <2>2, <2>3 DEF WInv
<1>10. QED
  BY <1>8, <1>9 DEF Acquired, mutexVars

LEMMA ReleaseMultipleKeepsStep ==
    ASSUME IInv, WInv, NEW c \in Callers, ReleaseMultiple(c)
    PROVE  WInv'
<1> DEFINE released == Range(uniqueKeys[c]) \cap Present
           w(k) == waiting[k][keyMutexes[k]]
<1>1. /\ pc[c] = "critical" /\ keyMutexes' = keyMutexes /\ Present' = Present
      /\ pc' = [pc EXCEPT ![c] = "idle"]
      /\ uniqueKeys' = [uniqueKeys EXCEPT ![c] = <<>>]
      /\ next' = [next EXCEPT ![c] = 1]
      /\ uniqueKeys[c] \in KeyLists /\ next[c] = Len(uniqueKeys[c]) + 1
  BY DEF ReleaseMultiple, mapVars, IInv, CallShape, Present
<1>2. Held(c) = Range(uniqueKeys[c])
  BY <1>1, KeyListShape, LimitsAssumption DEF Held
<1>3. /\ \A d \in Callers \ {c} : /\ Held(d)' = Held(d)
                                  /\ \A j : Wants(d, j)' <=> Wants(d, j)
  BY <1>1 DEF Held, Wants, IInv, TypeOK
<1>4. \A k \in Present : /\ k \in Keys /\ keyMutexes[k] \in Generations
                         /\ w(k) \in Seq(Callers)
                         /\ k \in released <=> k \in Held(c)
  BY <1>2 DEF Present, IInv, TypeOK
<1>5. \A k \in Present :
         /\ holder'[k][keyMutexes[k]] =
              IF k \in released THEN Successor(w(k)) ELSE holder[k][keyMutexes[k]]
         /\ waiting'[k][keyMutexes[k]] = IF k \in released THEN Remaining(w(k)) ELSE w(k)
  BY <1>4 DEF ReleaseMultiple, IInv, TypeOK
<1>6. \A k \in Present : \A d \in Callers : \A i \in DOMAIN w(k) :
         w(k)[i] = d => /\ Wants(d, k)' /\ d # c
                        /\ holder[k][keyMutexes[k]] # d
                        /\ \A j \in DOMAIN w(k) : i # j => w(k)[j] # d
  BY <1>1, <1>3, WantsNothing DEF WInv, QueueWants
<1>7. HolderWants'
  <2>1. SUFFICES ASSUME NEW k \in Present, NEW d \in Callers,
                        holder'[k][keyMutexes[k]] = d
                 PROVE  k \in Held(d)' \/ Wants(d, k)'
    BY <1>1 DEF HolderWants
  <2>2. CASE k \in released
    <3>1. w(k) # <<>> /\ d = Head(w(k))
      BY <2>1, <2>2, <1>5, CallersAssumption DEF Successor
    <3>2. 1 \in DOMAIN w(k) /\ d = w(k)[1]
      BY <3>1, <1>4
    <3>3. QED
      BY <3>2, <1>6
  <2>3. CASE k \notin released
    <3>1. holder[k][keyMutexes[k]] = d
      BY <2>1, <2>3, <1>5
    <3>2. d # c
      BY <3>1, <2>3, <1>1, <1>4, WantsNothing
    <3>3. QED
      BY <3>1, <3>2, <1>3 DEF WInv, HolderWants
  <2>4. QED
    BY <2>2, <2>3
<1>8. QueueWants'
  <2>1. SUFFICES ASSUME NEW k \in Present, NEW d \in Callers,
                        NEW i \in DOMAIN waiting'[k][keyMutexes[k]],
                        waiting'[k][keyMutexes[k]][i] = d
                 PROVE  /\ Wants(d, k)'
                        /\ holder'[k][keyMutexes[k]] # d
                        /\ \A j \in DOMAIN waiting'[k][keyMutexes[k]] :
                              i # j => waiting'[k][keyMutexes[k]][j] # d
    BY <1>1 DEF QueueWants
  <2>2. CASE k \notin released
    BY <2>1, <2>2, <1>5, <1>6
  <2>3. CASE k \in released
    <3>1. w(k) # <<>>
      BY <2>1, <2>3, <1>5 DEF Remaining
    <3>2. /\ waiting'[k][keyMutexes[k]] = Tail(w(k))
          /\ holder'[k][keyMutexes[k]] = w(k)[1]
      BY <3>1, <2>3, <1>4, <1>5 DEF Remaining, Successor
    <3>3. /\ Len(w(k)) \in Nat /\ DOMAIN w(k) = 1..Len(w(k)) /\ 1 \in DOMAIN w(k)
          /\ DOMAIN Tail(w(k)) = 1..(Len(w(k)) - 1)
          /\ \A l \in 1..(Len(w(k)) - 1) : Tail(w(k))[l] = w(k)[l + 1]
      BY <3>1, <1>4
    <3>4. \A l \in DOMAIN Tail(w(k)) : l + 1 \in DOMAIN w(k) /\ l + 1 # 1 /\ l \in Int
      BY <3>3
    <3>5. w(k)[i + 1] = d /\ i + 1 \in DOMAIN w(k) /\ i + 1 # 1 /\ i \in Int
      BY <2>1, <3>2, <3>3, <3>4
    <3>6. /\ Wants(d, k)' /\ \A j \in DOMAIN w(k) : i + 1 # j => w(k)[j] # d
      BY <3>5, <1>6
    <3>7. holder'[k][keyMutexes[k]] # d
      BY <3>2, <3>3, <3>5, <3>6
    <3>8. ASSUME NEW j \in DOMAIN Tail(w(k)), i # j PROVE Tail(w(k))[j] # d
      <4>1. j + 1 \in DOMAIN w(k) /\ i + 1 # j + 1 /\ Tail(w(k))[j] = w(k)[j + 1]
        BY <3>3, <3>4, <3>5, <3>8
      <4>2. QED
        BY <4>1, <3>6
    <3>9. QED
      BY <3>2, <3>6, <3>7, <3>8
  <2>4. QED
    BY <2>2, <2>3
<1>9. QED
  BY <1>7, <1>8 DEF WInv

LEMMA CreateEntriesKeepsStep ==
    ASSUME IInv, WInv, NEW c \in Callers, CreateEntries(c)
    PROVE  WInv'
<1> DEFINE missing == Range(uniqueKeys[c]) \ Present
           taken == [k \in Keys |-> IF k \in missing THEN NewGeneration(k)
                                                     ELSE keyMutexes[k]]
<1>1. /\ pc[c] = "queued" /\ pc' = [pc EXCEPT ![c] = "created"]
      /\ UNCHANGED <<uniqueKeys, next>>
      /\ keyMutexes' = [k \in Keys |-> IF k \in KeysToEvict(uniqueKeys[c])
                                       THEN None ELSE taken[k]]
      /\ holder' = [k \in Keys |->
            IF k \in missing THEN [holder[k] EXCEPT ![taken[k]] = None] ELSE holder[k]]
      /\ waiting' = [k \in Keys |->
            IF k \in missing THEN [waiting[k] EXCEPT ![taken[k]] = <<>>] ELSE waiting[k]]
  BY DEF CreateEntries
<1>2. \A d \in Callers : /\ Held(d)' = Held(d)
                         /\ \A j : Wants(d, j)' <=> Wants(d, j)
  BY <1>1 DEF Held, Wants, IInv, TypeOK
<1>3. ASSUME NEW k \in Present'
      PROVE  \/ /\ k \in missing
                /\ holder'[k][keyMutexes'[k]] = None
                /\ waiting'[k][keyMutexes'[k]] = <<>>
             \/ /\ k \in Present /\ keyMutexes'[k] = keyMutexes[k]
                /\ holder'[k] = holder[k] /\ waiting'[k] = waiting[k]
  <2>1. k \in Keys /\ keyMutexes'[k] # None /\ keyMutexes'[k] = taken[k]
    BY <1>1, <1>3 DEF Present
  <2>2. CASE k \in missing
    <3>1. taken[k] \in Generations
      BY <2>1, <2>2, MissingIsUnused DEF Present
    <3>2. QED
      BY <2>1, <2>2, <3>1, <1>1 DEF IInv, TypeOK
  <2>3. CASE k \notin missing
    BY <2>1, <2>3, <1>1 DEF Present
  <2>4. QED
    BY <2>2, <2>3
<1>4. HolderWants'
  BY <1>2, <1>3, CallersAssumption DEF WInv, HolderWants
<1>5. QueueWants'
  <2>1. SUFFICES ASSUME NEW k \in Present', NEW d \in Callers,
                        NEW i \in DOMAIN waiting'[k][keyMutexes'[k]],
                        waiting'[k][keyMutexes'[k]][i] = d
                 PROVE  /\ Wants(d, k)'
                        /\ holder'[k][keyMutexes'[k]] # d
                        /\ \A j \in DOMAIN waiting'[k][keyMutexes'[k]] :
                              i # j => waiting'[k][keyMutexes'[k]][j] # d
    BY DEF QueueWants
  <2>2. DOMAIN <<>> = {}
    OBVIOUS
  <2>3. /\ k \in Present /\ keyMutexes'[k] = keyMutexes[k]
        /\ holder'[k] = holder[k] /\ waiting'[k] = waiting[k]
    BY <2>1, <2>2, <1>3
  <2>4. QED
    BY <2>1, <2>3, <1>2 DEF WInv, QueueWants
<1>6. QED
  BY <1>4, <1>5 DEF WInv

\* The other steps touch neither the mutexes nor who wants or holds them.
LEMMA RestKeepsStep ==
    ASSUME IInv, WInv, UNCHANGED <<keyMutexes, holder, waiting>>,
           \A d \in Callers : Held(d)' = Held(d) /\ \A j : Wants(d, j)' <=> Wants(d, j)
    PROVE  WInv'
<1>1. Present' = Present
  BY DEF Present
<1>2. HolderWants'
  BY <1>1 DEF WInv, HolderWants
<1>3. QueueWants'
  BY <1>1 DEF WInv, QueueWants
<1>4. QED
  BY <1>2, <1>3 DEF WInv

LEMMA StepKept ==
    IInv /\ WInv /\ [Next]_vars => WInv'
<1> SUFFICES ASSUME IInv, WInv, [Next]_vars PROVE WInv'
  OBVIOUS
<1>1. ASSUME NEW c \in Callers, NEW ks \in KeyLists, RequestUnknown(c, ks) PROVE WInv'
  <2>1. /\ pc[c] = "idle" /\ next[c] = 1 /\ next' = next
        /\ uniqueKeys' = [uniqueKeys EXCEPT ![c] = ks]
        /\ pc' = [pc EXCEPT ![c] = "queued"]
        /\ UNCHANGED <<keyMutexes, holder, waiting>>
    BY <1>1 DEF RequestUnknown, mapVars, mutexVars, IInv, CallShape
  <2>2. \A d \in Callers : Held(d)' = Held(d) /\ \A j : Wants(d, j)' <=> Wants(d, j)
    BY <2>1 DEF Held, Wants, IInv, TypeOK
  <2>3. QED
    BY <2>1, <2>2, RestKeepsStep
<1>2. ASSUME NEW c \in Callers,
             RequestGlobally(c) \/ LeaveGlobal(c) \/ RunGlobally(c) \/ FinishGlobally(c)
      PROVE  WInv'
  <2>1. /\ UNCHANGED <<keyMutexes, holder, waiting, uniqueKeys, next>>
        /\ pc[c] # "acquiring"
        /\ \E state \in PcStates \ {"acquiring"} : pc' = [pc EXCEPT ![c] = state]
    BY <1>2 DEF RequestGlobally, LeaveGlobal, RunGlobally, FinishGlobally,
                mapVars, mutexVars, callVars, PcStates
  <2>2. \A d \in Callers : Held(d)' = Held(d) /\ \A j : Wants(d, j)' <=> Wants(d, j)
    BY <2>1 DEF Held, Wants, IInv, TypeOK
  <2>3. QED
    BY <2>1, <2>2, RestKeepsStep
<1>3. CASE UNCHANGED vars
  <2>1. UNCHANGED <<keyMutexes, holder, waiting, uniqueKeys, next, pc>>
    BY <1>3 DEF vars, mapVars, mutexVars, callVars
  <2>2. \A d \in Callers : Held(d)' = Held(d) /\ \A j : Wants(d, j)' <=> Wants(d, j)
    BY <2>1 DEF Held, Wants
  <2>3. QED
    BY <2>1, <2>2, RestKeepsStep
<1>4. QED
  BY <1>1, <1>2, <1>3, RequestKnownKeepsStep, StartAcquiringKeepsStep,
     AcquiredKeepsStep, ReleaseMultipleKeepsStep, CreateEntriesKeepsStep
     DEF Next, Request, Continue

\* The set of callers in S that are farther up the order than c.
Above(S, c) ==
    {d \in S : Rank[uniqueKeys[d][next[d]]] > Rank[uniqueKeys[c][next[c]]]}

\* Where localeCompare() tells all keys apart, no callers wait for each other in
\* a circle: each waits for a key above all those it holds, so that one of the
\* highest in any group waits for nobody of the group.  (With ties of the order
\* two callers may sort the same keys differently, and wait for each other.)
THEOREM NoCircularWaitHolds ==
    ASSUME \A j, k \in Keys : j # k => Rank[j] # Rank[k]
    PROVE  Spec => []NoCircularWait
<1>1. IInv /\ WInv => NoCircularWait
  <2>1. SUFFICES ASSUME IInv, WInv, NEW S \in SUBSET Callers, S # {},
                        \A c \in S : \E d \in S : WaitsFor(c, d) /\ c # d
                 PROVE  FALSE
    BY DEF NoCircularWait
  <2>2. ASSUME NEW c \in S, NEW d \in S, WaitsFor(c, d), c # d
        PROVE  /\ Rank[uniqueKeys[c][next[c]]] \in Nat
               /\ Rank[uniqueKeys[d][next[d]]] \in Nat
               /\ Rank[uniqueKeys[c][next[c]]] < Rank[uniqueKeys[d][next[d]]]
    <3> DEFINE k == uniqueKeys[c][next[c]]
               l == uniqueKeys[d][next[d]]
    <3>1. Wants(c, k) /\ holder[k][entries[c][k]] = d
      BY <2>2 DEF WaitsFor, Wants
    <3>2. k \in Present /\ k \in Keys /\ holder[k][keyMutexes[k]] = d
      BY <2>1, <3>1, WantsOne
    <3>3. PICK e \in S : WaitsFor(d, e) /\ d # e
      BY <2>1
    <3>4. /\ Wants(d, l) /\ holder[l][entries[d][l]] = e
      BY <3>3 DEF WaitsFor, Wants
    <3>5. l \in Keys /\ keyMutexes[l] = entries[d][l]
      BY <2>1, <3>4, WantsOne
    <3>6. k # l
      BY <3>2, <3>3, <3>4, <3>5
    <3>7. k \in Held(d)
      BY <2>1, <3>2, <3>4, <3>6, WantsOne DEF WInv, HolderWants
    <3>8. /\ uniqueKeys[d] \in KeyLists /\ next[d] \in 1..Len(uniqueKeys[d])
      BY <2>1, <3>4 DEF Wants, IInv, CallShape
    <3>9. PICK i \in 1..(next[d] - 1) : k = uniqueKeys[d][i]
      BY <3>7 DEF Held
    <3>10. Len(uniqueKeys[d]) \in Nat /\ i \in 1..Len(uniqueKeys[d]) /\ i < next[d]
      BY <3>8, <3>9, KeyListShape, LimitsAssumption
    <3>11. Rank[k] <= Rank[l]
      BY <3>8, <3>9, <3>10, KeyListShape
    <3>12. Rank[k] \in Nat /\ Rank[l] \in Nat /\ Rank[k] # Rank[l]
      BY <3>2, <3>5, <3>6, RankAssumption
    <3>13. QED
      BY <3>11, <3>12
  <2>3. S \in SUBSET S /\ IsFiniteSet(S)
    BY CallersAssumption, FS_Subset
  <2>4. IsWellFoundedOn(StrictSubsetOrdering(S), SUBSET S)
    BY <2>3, FS_StrictSubsetOrderingWellFounded, FS_FiniteSubsetsOfFinite
  <2>5. /\ {Above(S, c) : c \in S} \subseteq SUBSET S
        /\ {Above(S, c) : c \in S} # {}
    BY <2>1 DEF Above
  <2>6. PICK A \in {Above(S, c) : c \in S} :
           \A B \in {Above(S, c) : c \in S} : <<B, A>> \notin StrictSubsetOrdering(S)
    BY <2>4, <2>5, WFMin
  <2>7. PICK c \in S : A = Above(S, c)
    BY <2>6
  <2>8. PICK d \in S : WaitsFor(c, d) /\ c # d
    BY <2>1
  <2>9. PICK e \in S : WaitsFor(d, e) /\ d # e
    BY <2>1
  <2>10. Rank[uniqueKeys[c][next[c]]] < Rank[uniqueKeys[d][next[d]]]
    BY <2>2, <2>8
  <2>11. \A f \in S : Rank[uniqueKeys[f][next[f]]] \in Nat
    BY <2>1, <2>2
  <2>12. /\ Above(S, d) \subseteq Above(S, c)
         /\ d \in Above(S, c) /\ d \notin Above(S, d)
    BY <2>10, <2>11 DEF Above
  <2>13. <<Above(S, d), A>> \in StrictSubsetOrdering(S)
    BY <2>5, <2>7, <2>12 DEF StrictSubsetOrdering
  <2>14. QED
    BY <2>6, <2>13
<1>2. Init => WInv
  BY DEF Init, WInv, HolderWants, QueueWants, Present
<1>3. QED
  BY <1>1, <1>2, InitInv, NextInv, StepKept, PTL DEF Spec

=============================================================================
