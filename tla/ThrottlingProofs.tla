--------------------------- MODULE ThrottlingProofs ---------------------------
(* Theorems about the two that keep a run within the limits of the system:    *)
(* MappableSemaphore, for any finite set of values, calls and slots, and      *)
(* GracefulFs, as Fs, for any calls and any limit of attempts.                *)
EXTENDS MappableSemaphore, FiniteSetTheorems, TLAPS

\* GracefulFs, with its constants and variables.
CONSTANTS Calls, MethodOf, MaxAttempts
VARIABLES state, attempts, late, entries, timer, exited

Fs == INSTANCE GracefulFs

\* Mapped tasks only move; those of a call that is over are settled.
ProgressOK ==
    /\ \A m \in Maps : call[m] = "idle" => \A t \in TasksOf(m) : task[t] = "new"
    /\ \A m \in Maps : call[m] \in {"returned", "threw"} => \A t \in TasksOf(m) : Settled(t)

\* The error a call remembers is that of a callback of its own, and nothing fails
\* or is cancelled without an error that somebody remembers.
ErrorsOK ==
    /\ \A m \in Maps : firstError[m] # None =>
          firstError[m] \in TasksOf(m) /\ task[firstError[m]] \in {"failed", "rejected"}
    /\ \A t \in Tasks : task[t] \in {"failed", "rejected"} =>
          \E n \in Maps : firstError[n] # None
    /\ \A m \in Maps : call[m] = "returned" => firstError[m] = None
    /\ \A m \in Maps : call[m] = "threw" => firstError[m] # None

IInv == TypeOK /\ SlotsConserved /\ QueueIsFair /\ ProgressOK /\ ErrorsOK

\* Only finitely many tasks have slots.
LEMMA OccupyingFinite == IsFiniteSet(Occupying) /\ Cardinality(Occupying) \in Nat
  BY TasksAssumption, FS_Subset, FS_CardinalityType DEF Occupying

\* SetToSeqs(S) are the sequences that hold every element of S once.
LEMMA SeqsOfSet ==
  ASSUME NEW S, IsFiniteSet(S), NEW order \in SetToSeqs(S)
  PROVE  /\ order \in Seq(S) /\ Len(order) = Cardinality(S) /\ Len(order) \in Nat
         /\ \A i, j \in 1..Len(order) : order[i] = order[j] => i = j
         /\ \A x \in S : \E i \in 1..Len(order) : order[i] = x
  <1> DEFINE n == Cardinality(S)
  <1>1. n \in Nat
    BY FS_CardinalityType
  <1>2. order \in [1..n -> S] /\ \A i, j \in 1..n : i # j => order[i] # order[j]
    BY DEF SetToSeqs
  <1>3. order \in Seq(S) /\ Len(order) = n
    BY <1>1, <1>2
  <1>4. order \in Injection(1..n, S)
    BY <1>2 DEF Injection, IsInjective
  <1>5. IsFiniteSet(1..n) /\ Cardinality(1..n) = n
    BY <1>1, FS_Interval
  <1>6. order \in Surjection(1..n, S)
    BY <1>4, <1>5, FS_Injection
  <1> QED
    BY <1>1, <1>2, <1>3, <1>6 DEF Surjection

\* The first k of different elements are k elements.
LEMMA FirstOnes ==
  ASSUME NEW S, NEW order \in Seq(S), NEW k \in 0..Len(order), NEW G,
         G = {order[i] : i \in 1..k},
         \A i, j \in 1..Len(order) : order[i] = order[j] => i = j
  PROVE  IsFiniteSet(G) /\ Cardinality(G) = k
  <1> DEFINE f == [i \in 1..k |-> order[i]]
  <1>1. k \in Nat /\ \A i \in 1..k : i \in 1..Len(order)
    OBVIOUS
  <1>2. f \in [1..k -> G] /\ \A i, j \in 1..k : f[i] = f[j] => i = j
    BY <1>1
  <1>3. f \in Surjection(1..k, G)
    BY <1>2 DEF Surjection
  <1>4. f \in Bijection(1..k, G)
    BY <1>2, <1>3 DEF Bijection, Injection, IsInjective
  <1>5. ExistsBijection(1..k, G)
    BY <1>4 DEF ExistsBijection
  <1>6. Cardinality(G) = k
    BY <1>1, <1>5, FS_CountingElements
  <1>7. IsFiniteSet(G)
    BY <1>1, <1>5, FS_NatBijection
  <1> QED
    BY <1>6, <1>7

\* The invariant holds at first.
LEMMA InitInv == Init => IInv
  <1> SUFFICES ASSUME Init PROVE IInv
    OBVIOUS
  <1>1. TypeOK
    <2>1. value \in 0..Threads /\ queue \in Seq(Tasks)
      BY ThreadsAssumption DEF Init
    <2> QED
      BY <2>1 DEF Init, TypeOK, TaskStates, CallStates
  <1>2. SlotsConserved
    <2>1. Occupying = {}
      BY DEF Init, Occupying
    <2> QED
      BY <2>1, FS_EmptySet, ThreadsAssumption DEF Init, SlotsConserved
  <1>3. QueueIsFair
    BY DEF Init, QueueIsFair
  <1>4. ProgressOK /\ ErrorsOK
    BY DEF Init, ProgressOK, ErrorsOK, TasksOf
  <1> QED
    BY <1>1, <1>2, <1>3, <1>4 DEF IInv

-----------------------------------------------------------------------------
(* The actions.                                                              *)

\* A call without values is over at once.
LEMMA MapNothing ==
  ASSUME IInv, NEW m \in Maps, Map(m), TasksOf(m) = {}
  PROVE  IInv'
  <1>1. call' = [call EXCEPT ![m] = "returned"] /\ UNCHANGED <<value, queue, task, firstError>>
    BY DEF Map
  <1>2. TypeOK'
    BY <1>1 DEF IInv, TypeOK, CallStates
  <1>3. SlotsConserved' /\ QueueIsFair'
    BY <1>1 DEF IInv, SlotsConserved, QueueIsFair, Occupying
  <1>4. call'[m] = "returned" /\ \A n \in Maps \ {m} : call'[n] = call[n]
    BY <1>1 DEF IInv, TypeOK
  <1>5. ProgressOK'
    BY <1>1, <1>4 DEF IInv, ProgressOK, TasksOf, Settled
  <1>6. firstError[m] = None
    BY DEF IInv, ErrorsOK
  <1>7. ErrorsOK'
    BY <1>1, <1>4, <1>6 DEF IInv, ErrorsOK, TasksOf
  <1> QED
    BY <1>2, <1>3, <1>5, <1>7 DEF IInv

\* The values of a call take the free slots, and the others queue in order.
LEMMA MapInv ==
  ASSUME IInv, NEW m \in Maps, Map(m), TasksOf(m) # {}
  PROVE  IInv'
  <1> DEFINE free == IF queue = <<>> THEN value ELSE 0
  <1>1. PICK order \in SetToSeqs(TasksOf(m)) :
          LET taken == IF free < Len(order) THEN free ELSE Len(order)
          IN  /\ value' = value - taken
              /\ task' = [t \in Tasks |->
                   IF CallOf[t] # m THEN task[t]
                   ELSE IF \E i \in 1..taken : order[i] = t THEN "granted"
                   ELSE "queued"]
              /\ queue' = queue \o SubSeq(order, taken + 1, Len(order))
    BY DEF Map
  <1> DEFINE taken == IF free < Len(order) THEN free ELSE Len(order)
             G == {order[i] : i \in 1..taken}
             rest == SubSeq(order, taken + 1, Len(order))
  <1>2. IsFiniteSet(TasksOf(m)) /\ TasksOf(m) \subseteq Tasks
    BY TasksAssumption, FS_Subset DEF TasksOf
  <1>3. /\ order \in Seq(TasksOf(m)) /\ Len(order) \in Nat
        /\ \A i, j \in 1..Len(order) : order[i] = order[j] => i = j
        /\ \A x \in TasksOf(m) : \E i \in 1..Len(order) : order[i] = x
    BY <1>2, SeqsOfSet
  <1>4. /\ taken \in Nat /\ taken \in 0..Len(order) /\ taken <= value /\ value \in 0..Threads
        /\ queue # <<>> => taken = 0 /\ value = 0
        /\ queue = <<>> /\ taken < Len(order) => taken = value
    BY <1>3, ThreadsAssumption DEF IInv, TypeOK, QueueIsFair
  <1>5. call' = [call EXCEPT ![m] = "mapping"] /\ call[m] = "idle" /\ firstError' = firstError
    BY DEF Map
  <1>6. /\ value' = value - taken
        /\ queue' = queue \o rest
        /\ \A t \in Tasks : task'[t] =
             IF CallOf[t] # m THEN task[t] ELSE IF t \in G THEN "granted" ELSE "queued"
    BY <1>1
  <1> HIDE DEF free, taken, G, rest
  <1>7. \A t \in TasksOf(m) : task[t] = "new" /\ CallOf[t] = m /\ t \in Tasks
    BY <1>5 DEF IInv, ProgressOK, TasksOf
  <1>8. G \subseteq TasksOf(m)
    <2>1. \A i \in 1..taken : i \in 1..Len(order)
      BY <1>3, <1>4
    <2>2. \A i \in 1..Len(order) : order[i] \in TasksOf(m)
      BY <1>3
    <2> QED
      BY <2>1, <2>2 DEF G
  <1>9. IsFiniteSet(G) /\ Cardinality(G) = taken
    <2>1. G = {order[i] : i \in 1..taken}
      BY DEF G
    <2> QED
      BY <2>1, <1>3, <1>4, FirstOnes
  <1>10. SlotsConserved' /\ value' \in 0..Threads
    <2>1. Occupying' = Occupying \cup G
      BY <1>6, <1>7, <1>8 DEF Occupying, TasksOf
    <2>2. Occupying \cap G = {}
      BY <1>7, <1>8 DEF Occupying
    <2>3. Cardinality(Occupying') = Cardinality(Occupying) + taken
      <3>1. Cardinality(Occupying \cup G) =
              Cardinality(Occupying) + Cardinality(G) - Cardinality(Occupying \cap G)
        BY <1>9, OccupyingFinite, FS_Union
      <3>2. Cardinality(Occupying \cap G) = 0
        BY <2>2, FS_EmptySet
      <3> QED
        BY <2>1, <3>1, <3>2, <1>4, <1>9, OccupyingFinite
    <2> QED
      BY <2>3, <1>4, <1>6, OccupyingFinite, ThreadsAssumption DEF IInv, SlotsConserved
  <1>11. /\ rest \in Seq(TasksOf(m)) /\ Len(rest) \in Nat /\ Len(rest) = Len(order) - taken
         /\ \A i \in 1..Len(rest) : rest[i] = order[taken + i] /\ taken + i \in 1..Len(order)
    <2>1. rest \in Seq(TasksOf(m))
      BY <1>3, <1>4 DEF rest
    <2>2. Len(rest) \in Nat /\ Len(rest) = Len(order) - taken
      BY <1>3, <1>4 DEF rest
    <2>3. \A i \in 1..Len(rest) : taken + i \in 1..Len(order)
      BY <2>2, <1>3, <1>4
    <2>4. \A i \in 1..Len(rest) : rest[i] = order[taken + i]
      BY <2>2, <1>3, <1>4 DEF rest
    <2> QED
      BY <2>1, <2>2, <2>3, <2>4
  <1>12. queue \in Seq(Tasks) /\ rest \in Seq(Tasks)
    BY <1>2, <1>11 DEF IInv, TypeOK
  <1>13. /\ queue' \in Seq(Tasks) /\ Len(queue') = Len(queue) + Len(rest)
         /\ \A i \in 1..Len(queue) : queue'[i] = queue[i]
         /\ \A i \in 1..Len(rest) : queue'[Len(queue) + i] = rest[i]
         /\ \A i \in 1..Len(queue') :
               i \in 1..Len(queue) \/ \E j \in 1..Len(rest) : i = Len(queue) + j
    <2>1. /\ queue' \in Seq(Tasks) /\ Len(queue') = Len(queue) + Len(rest)
          /\ \A i \in 1..Len(queue) : queue'[i] = queue[i]
      BY <1>6, <1>12
    <2>2. \A i \in 1..Len(rest) : queue'[Len(queue) + i] = rest[i]
      BY <1>6, <1>12
    <2>3. ASSUME NEW i \in 1..Len(queue'), i \notin 1..Len(queue)
          PROVE  \E j \in 1..Len(rest) : i = Len(queue) + j
      <3>1. i - Len(queue) \in 1..Len(rest) /\ i = Len(queue) + (i - Len(queue))
        BY <2>1, <2>3, <1>12
      <3> QED
        BY <3>1
    <2> QED
      BY <2>1, <2>2, <2>3
  <1>14. \A i \in 1..Len(rest) : rest[i] \in TasksOf(m) \ G
    <2>1. ASSUME NEW i \in 1..Len(rest)
          PROVE  rest[i] \in TasksOf(m) /\ rest[i] = order[taken + i]
      BY <1>11
    <2>2. ASSUME NEW i \in 1..Len(rest), NEW j \in 1..taken, order[taken + i] = order[j]
          PROVE  FALSE
      <3>1. taken + i \in 1..Len(order) /\ j \in 1..Len(order) /\ taken + i # j
        <4>1. taken + i \in 1..Len(order) /\ j \in 1..Len(order)
          BY <1>3, <1>4, <1>11
        <4>2. taken + i # j
          BY <1>4, <1>11
        <4> QED
          BY <4>1, <4>2
      <3> QED
        BY <2>2, <3>1, <1>3
    <2> QED
      BY <2>1, <2>2 DEF G
  <1>15. \A i \in 1..Len(queue) : queue[i] \in Tasks /\ task[queue[i]] = "queued" /\ CallOf[queue[i]] # m
    BY <1>7, <1>12 DEF IInv, QueueIsFair, TasksOf
  <1>16. QueueIsFair'
    <2>1. ASSUME NEW i \in DOMAIN queue'
          PROVE  queue'[i] \in Tasks /\ task'[queue'[i]] = "queued"
      <3>1. CASE i \in 1..Len(queue)
        BY <3>1, <1>6, <1>13, <1>15
      <3>2. CASE \E j \in 1..Len(rest) : i = Len(queue) + j
        BY <3>2, <1>6, <1>7, <1>13, <1>14
      <3> QED
        BY <2>1, <3>1, <3>2, <1>13
    <2>2. ASSUME NEW t \in Tasks, task'[t] = "queued"
          PROVE  \E i \in DOMAIN queue' : queue'[i] = t
      <3>1. CASE CallOf[t] # m
        <4>1. PICK i \in 1..Len(queue) : queue[i] = t
          <5>1. task[t] = "queued" /\ DOMAIN queue = 1..Len(queue)
            BY <2>2, <3>1, <1>6, <1>12
          <5> QED
            BY <5>1 DEF IInv, QueueIsFair
        <4> QED
          BY <4>1, <1>12, <1>13
      <3>2. CASE CallOf[t] = m
        <4>1. t \in TasksOf(m) /\ t \notin G
          BY <2>2, <3>2, <1>6 DEF TasksOf
        <4>2. PICK k \in 1..Len(order) : order[k] = t
          BY <4>1, <1>3
        <4>3. k - taken \in 1..Len(rest) /\ taken + (k - taken) = k
          <5>1. k > taken
            BY <4>1, <4>2, <1>4 DEF G
          <5> QED
            BY <4>2, <5>1, <1>3, <1>4, <1>11
        <4>4. rest[k - taken] = t
          BY <4>2, <4>3, <1>11
        <4>5. Len(queue) + (k - taken) \in DOMAIN queue' /\ queue'[Len(queue) + (k - taken)] = t
          BY <4>3, <4>4, <1>12, <1>13
        <4> QED
          BY <4>5
      <3> QED
        BY <3>1, <3>2
    <2>3. \A i \in 1..Len(queue), j \in 1..Len(rest) : queue'[i] # queue'[Len(queue) + j]
      BY <1>7, <1>13, <1>14, <1>15
    <2>4. ASSUME NEW i \in DOMAIN queue', NEW j \in DOMAIN queue', i # j, queue'[i] = queue'[j]
          PROVE  FALSE
      <3>1. i \in 1..Len(queue') /\ j \in 1..Len(queue')
        BY <1>13
      <3>2. CASE i \in 1..Len(queue) /\ j \in 1..Len(queue)
        BY <2>4, <3>2, <1>12, <1>13 DEF IInv, QueueIsFair
      <3>3. CASE i \in 1..Len(queue) /\ j \notin 1..Len(queue)
        BY <2>4, <3>1, <3>3, <1>13, <2>3
      <3>4. CASE i \notin 1..Len(queue) /\ j \in 1..Len(queue)
        BY <2>4, <3>1, <3>4, <1>13, <2>3
      <3>5. CASE i \notin 1..Len(queue) /\ j \notin 1..Len(queue)
        <4>1. PICK k \in 1..Len(rest), l \in 1..Len(rest) : i = Len(queue) + k /\ j = Len(queue) + l
          BY <3>1, <3>5, <1>13
        <4>2. order[taken + k] = order[taken + l]
          BY <2>4, <4>1, <1>11, <1>13
        <4>3. taken + k = taken + l
          BY <4>2, <1>3, <1>11
        <4> QED
          BY <2>4, <4>1, <4>3, <1>4
      <3> QED
        BY <3>2, <3>3, <3>4, <3>5
    <2>5. queue' # <<>> => value' = 0
      <3>1. CASE queue # <<>>
        BY <3>1, <1>4, <1>6
      <3>2. CASE queue = <<>>
        <4>1. queue' # <<>> => Len(rest) # 0
          BY <3>2, <1>12, <1>13
        <4> QED
          BY <4>1, <3>2, <1>3, <1>4, <1>6, <1>11
      <3> QED
        BY <3>1, <3>2
    <2>6. {queue[i] : i \in DOMAIN queue}' = {t \in Tasks : task[t] = "queued"}'
      BY <2>1, <2>2
    <2> QED
      BY <2>4, <2>5, <2>6 DEF QueueIsFair
  <1>17. TypeOK'
    <2>1. task' \in [Tasks -> TaskStates]
      BY <1>1, <1>6 DEF IInv, TypeOK, TaskStates
    <2> QED
      BY <2>1, <1>5, <1>10, <1>13 DEF IInv, TypeOK, CallStates
  <1>18. call'[m] = "mapping" /\ \A n \in Maps \ {m} : call'[n] = call[n]
    BY <1>5 DEF IInv, TypeOK
  <1>19. \A t \in Tasks : CallOf[t] # m => task'[t] = task[t]
    BY <1>6
  <1>20. ProgressOK'
    BY <1>18, <1>19 DEF IInv, ProgressOK, TasksOf, Settled
  <1>21. firstError[m] = None
    BY <1>7 DEF IInv, ErrorsOK
  <1>22. \A t \in Tasks : CallOf[t] = m => task'[t] \in {"granted", "queued"}
    BY <1>6
  <1>23. ErrorsOK'
    BY <1>5, <1>18, <1>19, <1>21, <1>22 DEF IInv, ErrorsOK, TasksOf
  <1> QED
    BY <1>10, <1>16, <1>17, <1>20, <1>23 DEF IInv

\* A task that has a slot goes on and keeps it; it fails if its call has an error.
LEMMA WalkInv ==
  ASSUME IInv, NEW t \in Tasks, NEW to \in {"running", "succeeded", "failed"},
         task[t] \in {"granted", "running"}, task' = [task EXCEPT ![t] = to],
         to = "failed" => firstError[CallOf[t]] # None,
         UNCHANGED <<value, queue, firstError, call>>
  PROVE  IInv'
  <1>1. task'[t] = to /\ \A u \in Tasks \ {t} : task'[u] = task[u]
    BY DEF IInv, TypeOK
  <1>2. CallOf[t] \in Maps
    BY CallOfAssumption
  <1>3. TypeOK'
    <2>1. task' \in [Tasks -> TaskStates]
      BY DEF IInv, TypeOK, TaskStates
    <2> QED
      BY <2>1 DEF IInv, TypeOK
  <1>4. SlotsConserved'
    <2>1. Occupying' = Occupying
      BY <1>1 DEF Occupying
    <2> QED
      BY <2>1 DEF IInv, SlotsConserved
  <1>5. QueueIsFair'
    <2>1. {u \in Tasks : task[u] = "queued"}' = {u \in Tasks : task[u] = "queued"}
      BY <1>1
    <2> QED
      BY <2>1 DEF IInv, QueueIsFair
  <1>6. ProgressOK'
    BY <1>1 DEF IInv, ProgressOK, TasksOf, Settled
  <1>7. ErrorsOK'
    <2>1. \A n \in Maps : firstError[n] # None =>
            firstError[n] \in TasksOf(n) \ {t} /\ task[firstError[n]] \in {"failed", "rejected"}
      BY DEF IInv, ErrorsOK
    <2>2. \A n \in Maps : firstError'[n] # None =>
            firstError'[n] \in TasksOf(n) /\ task'[firstError'[n]] \in {"failed", "rejected"}
      BY <2>1, <1>1 DEF TasksOf
    <2>3. \A u \in Tasks : task'[u] \in {"failed", "rejected"} =>
            \E n \in Maps : firstError'[n] # None
      BY <1>1, <1>2 DEF IInv, ErrorsOK
    <2> QED
      BY <2>2, <2>3 DEF IInv, ErrorsOK, TasksOf
  <1> QED
    BY <1>3, <1>4, <1>5, <1>6, <1>7 DEF IInv

\* A granted task runs its callback, or is skipped after an error of its call.
LEMMA StartInv == ASSUME IInv, NEW t \in Tasks, Start(t) PROVE IInv'
  <1>1. CASE firstError[CallOf[t]] = None
    BY <1>1, WalkInv DEF Start
  <1>2. CASE firstError[CallOf[t]] # None
    BY <1>2, WalkInv DEF Start
  <1> QED
    BY <1>1, <1>2

\* A callback returns.
LEMMA SucceedInv == ASSUME IInv, NEW t \in Tasks, Succeed(t) PROVE IInv'
  BY WalkInv DEF Succeed

\* An error empties the queue, and its own call remembers it or an earlier one.
LEMMA FailInv == ASSUME IInv, NEW t \in Tasks, Fail(t) PROVE IInv'
  <1> DEFINE m == CallOf[t]
  <1>1. m \in Maps /\ t \in TasksOf(m)
    BY CallOfAssumption DEF TasksOf
  <1>2. /\ task[t] = "running" /\ queue' = <<>> /\ UNCHANGED <<value, call>>
        /\ firstError' = [firstError EXCEPT ![m] = IF @ = None THEN t ELSE @]
        /\ task' = [u \in Tasks |-> IF u = t THEN "failed"
                       ELSE IF task[u] = "queued" THEN "rejected" ELSE task[u]]
    BY DEF Fail
  <1>3. /\ firstError'[m] = IF firstError[m] = None THEN t ELSE firstError[m]
        /\ \A n \in Maps \ {m} : firstError'[n] = firstError[n]
    BY <1>1, <1>2 DEF IInv, TypeOK
  <1>4. task'[t] = "failed" /\ \A u \in Tasks \ {t} :
          task'[u] = IF task[u] = "queued" THEN "rejected" ELSE task[u]
    BY <1>2
  <1> HIDE DEF m
  <1>5. TypeOK'
    <2>1. task' \in [Tasks -> TaskStates]
      BY <1>2 DEF IInv, TypeOK, TaskStates
    <2>2. firstError' \in [Maps -> Tasks \cup {None}]
      BY <1>2 DEF IInv, TypeOK
    <2>3. queue' \in Seq(Tasks)
      BY <1>2
    <2> QED
      BY <2>1, <2>2, <2>3, <1>2 DEF IInv, TypeOK
  <1>6. SlotsConserved'
    <2>1. Occupying' = Occupying
      BY <1>2, <1>4 DEF Occupying
    <2> QED
      BY <2>1, <1>2 DEF IInv, SlotsConserved
  <1>7. QueueIsFair'
    <2>1. {u \in Tasks : task[u] = "queued"}' = {}
      BY <1>4
    <2> QED
      BY <2>1, <1>2 DEF QueueIsFair
  <1>8. ProgressOK'
    BY <1>2, <1>4 DEF IInv, ProgressOK, TasksOf, Settled
  <1>9. call[m] \notin {"returned", "threw"}
    BY <1>1, <1>2 DEF IInv, ProgressOK, Settled
  <1>10. firstError'[m] # None
    BY <1>3, TasksAssumption
  <1>11. ErrorsOK'
    <2>1. ASSUME NEW n \in Maps, firstError'[n] # None
          PROVE  firstError'[n] \in TasksOf(n) /\ task'[firstError'[n]] \in {"failed", "rejected"}
      <3>1. CASE n = m /\ firstError[m] = None
        BY <3>1, <1>1, <1>3, <1>4
      <3>2. CASE n # m \/ firstError[m] # None
        <4>1. firstError'[n] = firstError[n] /\ firstError[n] # None
          BY <2>1, <3>2, <1>3
        <4>2. firstError[n] \in TasksOf(n) /\ task[firstError[n]] \in {"failed", "rejected"}
          BY <4>1 DEF IInv, ErrorsOK
        <4> QED
          BY <4>1, <4>2, <1>4 DEF TasksOf
      <3> QED
        BY <3>1, <3>2
    <2> QED
      BY <2>1, <1>1, <1>2, <1>3, <1>9, <1>10 DEF IInv, ErrorsOK, TasksOf
  <1> QED
    BY <1>5, <1>6, <1>7, <1>8, <1>11 DEF IInv

\* What a release does to everybody: t is settled, and h, if somebody waits, gets
\* its slot.
LEMMA ReleaseInv == ASSUME IInv, NEW t \in Tasks, Release(t) PROVE IInv'
  <1> DEFINE done == IF task[t] = "succeeded" THEN "fulfilled" ELSE "rejected"
             settled == [task EXCEPT ![t] = IF @ = "succeeded" THEN "fulfilled" ELSE "rejected"]
  <1>1. /\ task[t] \in {"succeeded", "failed"} /\ UNCHANGED <<firstError, call>>
        /\ \/ queue = <<>> /\ value' = value + 1 /\ task' = settled /\ queue' = queue
           \/ /\ queue # <<>> /\ queue' = Tail(queue) /\ value' = value
              /\ task' = [settled EXCEPT ![Head(queue)] = "granted"]
    BY DEF Release
  <1>2. t \in Occupying
    BY <1>1 DEF Occupying
  <1>3. Cardinality(Occupying \ {t}) = Cardinality(Occupying) - 1
    BY <1>2, OccupyingFinite, FS_RemoveElement
  <1>4. /\ queue \in Seq(Tasks) /\ DOMAIN queue = 1..Len(queue)
        /\ \A i \in 1..Len(queue) : queue[i] \in Tasks /\ task[queue[i]] = "queued"
        /\ \A u \in Tasks : task[u] = "queued" => \E i \in 1..Len(queue) : queue[i] = u
        /\ \A i, j \in 1..Len(queue) : i # j => queue[i] # queue[j]
    BY DEF IInv, TypeOK, QueueIsFair
  <1>5. /\ TypeOK' /\ SlotsConserved' /\ QueueIsFair' /\ task'[t] = done
        /\ \A u \in Tasks \ {t} : task'[u] = task[u] \/ (task[u] = "queued" /\ task'[u] = "granted")
    <2>1. CASE queue = <<>>
      <3>1. value' = value + 1 /\ queue' = <<>> /\ task' = settled
        BY <2>1, <1>1
      <3>2. task'[t] = done /\ \A u \in Tasks \ {t} : task'[u] = task[u]
        BY <3>1 DEF IInv, TypeOK
      <3>3. task' \in [Tasks -> TaskStates]
        BY <3>1 DEF IInv, TypeOK, TaskStates
      <3>4. Occupying' = Occupying \ {t}
        BY <3>2, <1>1 DEF Occupying
      <3>5. SlotsConserved' /\ value' \in 0..Threads
        <4>1. Cardinality(Occupying') = Cardinality(Occupying) - 1 /\ Cardinality(Occupying') \in Nat
          BY <3>4, <1>3, OccupyingFinite, FS_Subset, FS_CardinalityType
        <4>2. value \in 0..Threads /\ value + Cardinality(Occupying) = Threads
          BY DEF IInv, TypeOK, SlotsConserved
        <4> QED
          BY <4>1, <4>2, <3>1, OccupyingFinite, ThreadsAssumption DEF SlotsConserved
      <3>6. TypeOK'
        BY <3>1, <3>3, <3>5, <1>1, <1>4, <2>1 DEF IInv, TypeOK
      <3>7. QueueIsFair'
        <4>1. {u \in Tasks : task[u] = "queued"}' = {}
          BY <3>2, <1>1, <1>4, <2>1
        <4> QED
          BY <4>1, <3>1 DEF QueueIsFair
      <3> QED
        BY <3>2, <3>5, <3>6, <3>7
    <2>2. CASE queue # <<>>
      <3> DEFINE h == Head(queue)
      <3>1. value' = value /\ queue' = Tail(queue) /\ task' = [settled EXCEPT ![h] = "granted"]
        BY <2>2, <1>1
      <3>2. /\ Len(queue) \in Nat \ {0} /\ h = queue[1]
            /\ queue' \in Seq(Tasks) /\ Len(queue') = Len(queue) - 1 /\ DOMAIN queue' = 1..Len(queue')
            /\ \A i \in 1..Len(queue') : queue'[i] = queue[i + 1] /\ i + 1 \in 1..Len(queue) /\ i + 1 # 1
        BY <3>1, <2>2, <1>4
      <3>3. h \in Tasks \ {t} /\ task[h] = "queued" /\ h \notin Occupying
        <4>1. h \in Tasks /\ task[h] = "queued"
          BY <3>2, <1>4
        <4> QED
          BY <4>1, <1>1 DEF Occupying
      <3>4. /\ task'[t] = done /\ task'[h] = "granted"
            /\ \A u \in Tasks \ {t, h} : task'[u] = task[u]
            /\ task' \in [Tasks -> TaskStates]
        <4>1. settled \in [Tasks -> TaskStates] /\ settled[t] = done
              /\ \A u \in Tasks \ {t} : settled[u] = task[u]
          BY DEF IInv, TypeOK, TaskStates
        <4> HIDE DEF settled, h, done
        <4> QED
          BY <4>1, <3>1, <3>3 DEF TaskStates
      <3> HIDE DEF h, settled
      <3>5. Occupying' = (Occupying \ {t}) \cup {h}
        BY <3>3, <3>4, <1>1 DEF Occupying
      <3>6. Cardinality(Occupying') = Cardinality(Occupying)
        <4>1. IsFiniteSet(Occupying \ {t}) /\ h \notin Occupying \ {t}
          BY <3>3, OccupyingFinite, FS_Subset
        <4>2. Cardinality(Occupying') = Cardinality(Occupying \ {t}) + 1
          BY <4>1, <3>5, FS_AddElement
        <4> QED
          BY <4>2, <1>3, OccupyingFinite
      <3>7. TypeOK' /\ SlotsConserved'
        BY <3>1, <3>2, <3>4, <3>6, <1>1 DEF IInv, TypeOK, SlotsConserved
      <3>8. \A i \in 1..Len(queue') : queue'[i] \in Tasks /\ task'[queue'[i]] = "queued"
        BY <3>2, <3>4, <1>1, <1>4
      <3>9. ASSUME NEW u \in Tasks, task'[u] = "queued"
            PROVE  \E i \in 1..Len(queue') : queue'[i] = u
        <4>1. task[u] = "queued" /\ u # h
          BY <3>9, <3>4
        <4>2. PICK k \in 1..Len(queue) : queue[k] = u
          BY <4>1, <1>4
        <4>3. k # 1 /\ k - 1 \in 1..Len(queue') /\ (k - 1) + 1 = k
          BY <4>1, <4>2, <3>2
        <4>4. queue'[k - 1] = u
          BY <4>2, <4>3, <3>2
        <4> QED
          BY <4>3, <4>4
      <3>10. ASSUME NEW i \in 1..Len(queue'), NEW j \in 1..Len(queue'), i # j
             PROVE  queue'[i] # queue'[j]
        <4>1. /\ i + 1 \in 1..Len(queue) /\ queue'[i] = queue[i + 1]
              /\ j + 1 \in 1..Len(queue) /\ queue'[j] = queue[j + 1]
          BY <3>2
        <4>2. i + 1 # j + 1
          BY <3>2, <3>10
        <4> QED
          BY <4>1, <4>2, <1>4
      <3>11. value' = 0
        BY <3>1, <2>2 DEF IInv, QueueIsFair
      <3>12. QueueIsFair'
        <4>1. \A i \in DOMAIN queue' : queue'[i] \in Tasks /\ task'[queue'[i]] = "queued"
          BY <3>2, <3>8
        <4>2. \A u \in Tasks : task'[u] = "queued" => \E i \in DOMAIN queue' : queue'[i] = u
          BY <3>2, <3>9
        <4>3. {queue[i] : i \in DOMAIN queue}' = {u \in Tasks : task[u] = "queued"}'
          BY <4>1, <4>2
        <4> QED
          BY <4>3, <3>2, <3>10, <3>11 DEF QueueIsFair
      <3> QED
        BY <3>3, <3>4, <3>7, <3>12
    <2> QED
      BY <2>1, <2>2
  <1> HIDE DEF settled
  <1>6. ProgressOK'
    BY <1>1, <1>5 DEF IInv, ProgressOK, TasksOf, Settled
  <1>7. ErrorsOK'
    <2>1. \A n \in Maps : firstError'[n] # None =>
            firstError'[n] \in TasksOf(n) /\ task'[firstError'[n]] \in {"failed", "rejected"}
      BY <1>1, <1>5 DEF IInv, ErrorsOK, TasksOf
    <2>2. \A u \in Tasks : task'[u] \in {"failed", "rejected"} => task[u] \in {"failed", "rejected"}
      BY <1>1, <1>5
    <2> QED
      BY <2>1, <2>2, <1>1 DEF IInv, ErrorsOK, TasksOf
  <1> QED
    BY <1>5, <1>6, <1>7 DEF IInv

\* A call ends as its first error says.
LEMMA FinishInv == ASSUME IInv, NEW m \in Maps, Finish(m) PROVE IInv'
  <1>1. /\ UNCHANGED <<value, queue, task, firstError>> /\ call[m] = "mapping"
        /\ \A t \in TasksOf(m) : Settled(t)
        /\ call' = [call EXCEPT ![m] = IF firstError[m] # None THEN "threw" ELSE "returned"]
    BY DEF Finish
  <1>2. /\ call'[m] = IF firstError[m] # None THEN "threw" ELSE "returned"
        /\ \A n \in Maps \ {m} : call'[n] = call[n]
    BY <1>1 DEF IInv, TypeOK
  <1>3. TypeOK'
    BY <1>1 DEF IInv, TypeOK, CallStates
  <1>4. SlotsConserved' /\ QueueIsFair'
    BY <1>1 DEF IInv, SlotsConserved, QueueIsFair, Occupying
  <1>5. ProgressOK'
    BY <1>1, <1>2 DEF IInv, ProgressOK, TasksOf, Settled
  <1>6. ErrorsOK'
    BY <1>1, <1>2 DEF IInv, ErrorsOK, TasksOf
  <1> QED
    BY <1>3, <1>4, <1>5, <1>6 DEF IInv

\* Nothing changes.
LEMMA StutterInv == ASSUME IInv, UNCHANGED vars PROVE IInv'
  BY DEF vars, IInv, TypeOK, SlotsConserved, QueueIsFair, Occupying, ProgressOK, ErrorsOK,
         TasksOf, Settled

\* Every step preserves the invariant.
LEMMA NextInv == IInv /\ [Next]_vars => IInv'
  <1> SUFFICES ASSUME IInv, [Next]_vars PROVE IInv'
    OBVIOUS
  <1>1. ASSUME NEW m \in Maps, Map(m) PROVE IInv'
    BY <1>1, MapNothing, MapInv
  <1>2. ASSUME NEW m \in Maps, Finish(m) PROVE IInv'
    BY <1>2, FinishInv
  <1>3. ASSUME NEW t \in Tasks, StepOf(t) PROVE IInv'
    BY <1>3, StartInv, SucceedInv, FailInv, ReleaseInv DEF StepOf
  <1>4. CASE Terminating \/ UNCHANGED vars
    BY <1>4, StutterInv DEF Terminating
  <1> QED
    BY <1>1, <1>2, <1>3, <1>4 DEF Next

\* The invariant holds always.
LEMMA Invariance == Spec => []IInv
  BY InitInv, NextInv, PTL DEF Spec

-----------------------------------------------------------------------------
(* The theorems.                                                             *)

\* The variables keep their types; there are never more free slots than slots.
THEOREM TypeCorrect == Spec => []TypeOK
  <1>1. IInv => TypeOK
    BY DEF IInv
  <1> QED
    BY <1>1, Invariance, PTL

\* However callbacks fail and cancel each other's waiters, slots are neither lost
\* nor made.
THEOREM SlotsAreConserved == Spec => []SlotsConserved
  <1>1. IInv => SlotsConserved
    BY DEF IInv
  <1> QED
    BY <1>1, Invariance, PTL

\* The queue of the semaphore holds those who wait, and only while no slot is free.
THEOREM TheQueueIsFair == Spec => []QueueIsFair
  <1>1. IInv => QueueIsFair
    BY DEF IInv
  <1> QED
    BY <1>1, Invariance, PTL

\* A call that loses values rethrows an error of its own, or another call failed.
THEOREM LossesHaveAReason == Spec => []LossNeedsFailure
  <1>1. ASSUME IInv, NEW m \in Maps, call[m] = "returned", Results(m) # TasksOf(m)
        PROVE  \E n \in Maps \ {m} : firstError[n] # None
    <2>1. PICK t \in TasksOf(m) : task[t] = "rejected"
      BY <1>1 DEF IInv, ProgressOK, Results, Settled
    <2>2. PICK n \in Maps : firstError[n] # None
      BY <1>1, <2>1 DEF IInv, ErrorsOK, TasksOf
    <2>3. firstError[m] = None
      BY <1>1 DEF IInv, ErrorsOK
    <2> QED
      BY <2>2, <2>3
  <1>2. ASSUME IInv, NEW m \in Maps, call[m] = "threw"
        PROVE  firstError[m] \in TasksOf(m) /\ task[firstError[m]] = "rejected"
    BY <1>2 DEF IInv, ErrorsOK, ProgressOK, Settled
  <1>3. IInv => LossNeedsFailure
    BY <1>1, <1>2 DEF LossNeedsFailure
  <1> QED
    BY <1>3, Invariance, PTL


-----------------------------------------------------------------------------
(* GracefulFs                                                                 *)

\* LimitsAssumption of GracefulFs: an instance brings no facts along, so that it is
\* a hypothesis here.
LimitsGiven == MaxAttempts \in Nat \ {0} /\ None \notin Nat

\* The properties together are inductive: a call with a limit counts no further
\* because it has not yet reached it (LimitIsKept), the timer that fires finds an
\* entry (QueueIsServed), and that entry is a call that waits, once (TypeOK).
CallsIInv == Fs!TypeOK /\ Fs!QueueIsServed /\ Fs!NoEarlyGivingUp /\ Fs!LimitIsKept

\* What a call has come to, apart from the queue.
CallsOK == Fs!NoEarlyGivingUp /\ Fs!LimitIsKept

\* The queue holds the calls that wait in it, each once.
QueueOK ==
    /\ entries \in Seq(Calls)
    /\ Fs!Range(entries) = {c \in Calls : state[c] = "queued"}
    /\ Fs!IsInjective(entries)

\* The types of the variables other than the queue.
ScalarsOK ==
    /\ state \in [Calls -> Fs!States]
    /\ attempts \in [Calls -> 0..MaxAttempts]
    /\ late \subseteq Calls
    /\ timer \in BOOLEAN
    /\ exited \in BOOLEAN

\* The parts the actions are proved to preserve make up the invariant.
LEMMA Parts == CallsIInv <=> ScalarsOK /\ QueueOK /\ Fs!QueueIsServed /\ CallsOK
  BY DEF CallsIInv, Fs!TypeOK, ScalarsOK, QueueOK, CallsOK

\* The same of the next state.
LEMMA PartsNext == CallsIInv' <=> (ScalarsOK /\ QueueOK /\ Fs!QueueIsServed /\ CallsOK)'
  BY DEF CallsIInv, Fs!TypeOK, ScalarsOK, QueueOK, CallsOK

\* A limit is MaxAttempts or none, and a number tells which.
LEMMA LimitType ==
  ASSUME LimitsGiven, NEW c \in Calls
  PROVE  Fs!Limit(c) # None => Fs!Limit(c) = MaxAttempts /\ MaxAttempts \in Nat \ {0}
  BY DEF LimitsGiven, Fs!Limit

\* The invariant holds at first.
LEMMA CallsInitInv ==
  ASSUME LimitsGiven
  PROVE  Fs!Init => CallsIInv
  <1> SUFFICES ASSUME Fs!Init PROVE CallsIInv
    OBVIOUS
  <1>1. ScalarsOK
    <2>1. state \in [Calls -> Fs!States]
      BY DEF Fs!Init, Fs!States
    <2>2. attempts \in [Calls -> 0..MaxAttempts]
      <3>1. 0 \in 0..MaxAttempts
        BY DEF LimitsGiven
      <3> QED
        BY <3>1 DEF Fs!Init
    <2> QED
      BY <2>1, <2>2 DEF Fs!Init, ScalarsOK
  <1>2. QueueOK
    <2>1. entries = <<>> /\ state = [c \in Calls |-> "new"]
      BY DEF Fs!Init
    <2>2. Fs!Range(entries) = {} /\ Fs!IsInjective(entries)
      BY <2>1 DEF Fs!Range, Fs!IsInjective
    <2> QED
      BY <2>1, <2>2 DEF QueueOK
  <1>3. Fs!QueueIsServed
    BY DEF Fs!Init, Fs!QueueIsServed
  <1>4. CallsOK
    BY LimitType DEF Fs!Init, CallsOK, Fs!NoEarlyGivingUp, Fs!LimitIsKept
  <1> QED
    BY <1>1, <1>2, <1>3, <1>4, Parts

\* A call that is not in the queue moves to a state in which it is not in the
\* queue either.
LEMMA QueueUntouched ==
  ASSUME ScalarsOK, QueueOK, Fs!QueueIsServed, NEW c \in Calls, NEW s, s # "queued",
         state[c] # "queued", Fs!Becomes(c, s), UNCHANGED <<entries, timer>>
  PROVE  QueueOK' /\ Fs!QueueIsServed'
  <1>1. {d \in Calls : state[d] = "queued"}' = {d \in Calls : state[d] = "queued"}
    BY DEF ScalarsOK, Fs!Becomes
  <1> QED
    BY <1>1 DEF QueueOK, Fs!QueueIsServed

\* A call that was flying joins the queue.
LEMMA QueueGrows ==
  ASSUME ScalarsOK, QueueOK, NEW c \in Calls, state[c] = "flying", Fs!Enqueue(c)
  PROVE  QueueOK' /\ Fs!QueueIsServed'
  <1> USE DEF Fs!Enqueue
  <1>1. entries' \in Seq(Calls) /\ Len(entries') = Len(entries) + 1
    BY DEF QueueOK
  <1>2. \A i \in 1..Len(entries) : entries'[i] = entries[i] /\ entries[i] # c
    BY DEF QueueOK, Fs!Range
  <1>3. entries'[Len(entries) + 1] = c
    BY DEF QueueOK
  <1>4. Fs!IsInjective(entries)'
    BY <1>1, <1>2, <1>3 DEF QueueOK, Fs!IsInjective
  <1>5. Fs!Range(entries)' = Fs!Range(entries) \cup {c}
    BY <1>1, <1>2, <1>3 DEF QueueOK, Fs!Range
  <1>6. {d \in Calls : state[d] = "queued"}' = {d \in Calls : state[d] = "queued"} \cup {c}
    BY DEF ScalarsOK, Fs!Becomes
  <1> QED
    BY <1>1, <1>4, <1>5, <1>6 DEF QueueOK, Fs!QueueIsServed

\* The first of the queue leaves it.
LEMMA QueueShrinks ==
  ASSUME ScalarsOK, QueueOK, Fs!QueueIsServed, Fs!Process
  PROVE  /\ QueueOK' /\ Fs!QueueIsServed'
         /\ Head(entries) \in Calls /\ state[Head(entries)] = "queued"
  <1> DEFINE h == Head(entries)
  <1>1. entries # <<>> /\ entries \in Seq(Calls)
    BY DEF QueueOK, Fs!QueueIsServed, Fs!Process
  <1>2. h = entries[1] /\ 1 \in DOMAIN entries
    BY <1>1
  <1>3. h \in Calls /\ state[h] = "queued"
    BY <1>1, <1>2 DEF QueueOK, Fs!Range
  <1>4. entries' \in Seq(Calls) /\ Len(entries') = Len(entries) - 1
    BY <1>1 DEF Fs!Process
  <1>5. \A i \in 1..Len(entries') : entries'[i] = entries[i + 1] /\ entries[i + 1] # h
    BY <1>1, <1>2, <1>4 DEF Fs!Process, QueueOK, Fs!IsInjective
  <1>6. Fs!IsInjective(entries)'
    <2> SUFFICES ASSUME NEW i \in 1..Len(entries'), NEW j \in 1..Len(entries'),
                        entries'[i] = entries'[j]
                 PROVE  i = j
      BY <1>4 DEF Fs!IsInjective
    <2>1. i + 1 \in DOMAIN entries /\ j + 1 \in DOMAIN entries
      BY <1>1, <1>4
    <2>2. entries[i + 1] = entries[j + 1]
      BY <1>5
    <2>3. i + 1 = j + 1
      BY <2>1, <2>2 DEF QueueOK, Fs!IsInjective
    <2> QED
      BY <2>3
  <1>7. Fs!Range(entries)' = Fs!Range(entries) \ {h}
    <2>1. ASSUME NEW x \in Fs!Range(entries)' PROVE x \in Fs!Range(entries) \ {h}
      BY <2>1, <1>1, <1>4, <1>5 DEF Fs!Range
    <2>2. ASSUME NEW x \in Fs!Range(entries) \ {h} PROVE x \in Fs!Range(entries)'
      <3>1. PICK i \in 1..Len(entries) : entries[i] = x
        BY <1>1 DEF Fs!Range
      <3>2. i # 1 /\ i - 1 \in 1..Len(entries') /\ entries'[i - 1] = x
        BY <3>1, <1>1, <1>2, <1>4, <1>5
      <3> QED
        BY <3>2, <1>4 DEF Fs!Range
    <2> QED
      BY <2>1, <2>2
  <1>8. {d \in Calls : state[d] = "queued"}' = {d \in Calls : state[d] = "queued"} \ {h}
    BY <1>3 DEF ScalarsOK, Fs!Process, Fs!Becomes
  <1>9. Fs!QueueIsServed'
    BY DEF Fs!Process, Fs!QueueIsServed
  <1> QED
    BY <1>3, <1>4, <1>6, <1>7, <1>8, <1>9 DEF QueueOK

-----------------------------------------------------------------------------

\* A call moves, and nothing else happens: nothing is wrong with it if it is not
\* given up and did not have its limit's attempts.
LEMMA CallMoves ==
  ASSUME CallsIInv, NEW c \in Calls, NEW s \in Fs!States \ {"queued", "gaveup"},
         state[c] \notin {"queued", "gaveup"}, Fs!Becomes(c, s),
         UNCHANGED <<attempts, late, entries, timer, exited>>
  PROVE  CallsIInv'
  <1>1. QueueOK' /\ Fs!QueueIsServed'
    BY QueueUntouched, Parts
  <1>2. ScalarsOK'
    BY Parts DEF ScalarsOK, Fs!Becomes
  <1>3. \A d \in Calls \ {c} : state'[d] = state[d]
    BY Parts DEF ScalarsOK, Fs!Becomes
  <1>4. state'[c] = s
    BY Parts DEF ScalarsOK, Fs!Becomes
  <1>5. CallsOK'
    BY <1>3, <1>4, Parts DEF CallsOK, Fs!NoEarlyGivingUp, Fs!LimitIsKept, Fs!Limit
  <1> QED
    BY <1>1, <1>2, <1>5, PartsNext

\* An attempt fails for a passing reason.
LEMMA FailForNowInv ==
  ASSUME LimitsGiven, CallsIInv, NEW c \in Calls, Fs!FailForNow(c)
  PROVE  CallsIInv'
  <1>1. ScalarsOK /\ QueueOK /\ Fs!QueueIsServed /\ CallsOK
    BY Parts
  <1> DEFINE n == attempts'[c]
  <1>2. n = IF Fs!Limit(c) = None THEN 0 ELSE attempts[c] + 1
    BY <1>1 DEF Fs!FailForNow, ScalarsOK
  <1>3. Fs!Limit(c) # None => attempts[c] < Fs!Limit(c)
    BY <1>1, LimitType DEF Fs!FailForNow, CallsOK, Fs!LimitIsKept, ScalarsOK
  <1>4. n \in 0..MaxAttempts /\ (Fs!Limit(c) # None => n <= Fs!Limit(c))
    BY <1>1, <1>2, <1>3, LimitType DEF ScalarsOK, LimitsGiven
  <1>5. attempts' \in [Calls -> 0..MaxAttempts]
    BY <1>1, <1>4 DEF Fs!FailForNow, ScalarsOK
  <1>6. PICK s \in {"gaveup", "queued", "backing", "flying"} :
          /\ Fs!Becomes(c, s)
          /\ s = "gaveup" <=> Fs!Exceeded(c, n)
          /\ \/ s = "queued" /\ Fs!Enqueue(c)
             \/ s # "queued" /\ UNCHANGED <<entries, timer>>
    <2>1. state = [state EXCEPT ![c] = "flying"]
      BY <1>1 DEF Fs!FailForNow, ScalarsOK
    <2> QED
      BY <2>1 DEF Fs!FailForNow, Fs!Becomes, Fs!Enqueue
  <1>7. QueueOK' /\ Fs!QueueIsServed'
    BY <1>1, <1>6, QueueGrows, QueueUntouched DEF Fs!FailForNow
  <1>8. /\ state' \in [Calls -> Fs!States] /\ state'[c] = s
        /\ \A d \in Calls \ {c} : state'[d] = state[d] /\ attempts'[d] = attempts[d]
    BY <1>1, <1>6 DEF ScalarsOK, Fs!Becomes, Fs!States, Fs!Waiting, Fs!Settled, Fs!FailForNow
  <1>9. timer' \in BOOLEAN /\ late' = late /\ exited' = exited
    BY <1>1, <1>6 DEF Fs!Enqueue, Fs!FailForNow, ScalarsOK
  <1>10. ScalarsOK'
    BY <1>1, <1>5, <1>8, <1>9 DEF ScalarsOK
  <1>11. Fs!NoEarlyGivingUp'
    <2> SUFFICES ASSUME NEW d \in Calls, state'[d] = "gaveup"
                 PROVE  d \in late \/ (Fs!Limit(d) # None /\ attempts'[d] = Fs!Limit(d))
      BY <1>9 DEF Fs!NoEarlyGivingUp, Fs!Limit
    <2>1. CASE d # c
      BY <2>1, <1>1, <1>8 DEF CallsOK, Fs!NoEarlyGivingUp
    <2>2. CASE d = c
      BY <2>2, <1>4, <1>6, <1>8, LimitType DEF Fs!Exceeded
    <2> QED
      BY <2>1, <2>2
  <1>12. Fs!LimitIsKept'
    <2> SUFFICES ASSUME NEW d \in Calls, Fs!Limit(d) # None, attempts'[d] >= Fs!Limit(d)
                 PROVE  state'[d] = "gaveup"
      BY DEF Fs!LimitIsKept, Fs!Limit
    <2>1. CASE d # c
      BY <2>1, <1>1, <1>8 DEF CallsOK, Fs!LimitIsKept
    <2>2. CASE d = c
      BY <2>2, <1>6, <1>8 DEF Fs!Exceeded
    <2> QED
      BY <2>1, <2>2
  <1> QED
    BY <1>7, <1>10, <1>11, <1>12, PartsNext DEF CallsOK

\* A synchronous call is made from beginning to end.
LEMMA CallSyncInv ==
  ASSUME LimitsGiven, CallsIInv, NEW c \in Calls, Fs!CallSync(c)
  PROVE  CallsIInv'
  <1>1. ScalarsOK /\ QueueOK /\ Fs!QueueIsServed /\ CallsOK
    BY Parts
  <1>2. late \subseteq late' /\ late' \subseteq Calls
    BY <1>1 DEF Fs!CallSync, ScalarsOK
  <1>3. PICK n \in IF Fs!Limit(c) = None THEN {0} ELSE 0..Fs!Limit(c) :
          /\ attempts' = [attempts EXCEPT ![c] = n]
          /\ \/ Fs!Limit(c) # n /\ Fs!Becomes(c, "answered")
             \/ Fs!Exceeded(c, n)' /\ Fs!Becomes(c, "gaveup")
    BY DEF Fs!CallSync
  <1>4. PICK s \in {"answered", "gaveup"} :
          /\ Fs!Becomes(c, s)
          /\ s = "gaveup" => Fs!Exceeded(c, n)'
          /\ s = "answered" => Fs!Limit(c) # n
    BY <1>3
  <1>5. n \in 0..MaxAttempts /\ (Fs!Limit(c) # None => n \in 0..Fs!Limit(c))
    BY <1>3, LimitType DEF LimitsGiven
  <1>6. QueueOK' /\ Fs!QueueIsServed'
    BY <1>1, <1>4, QueueUntouched DEF Fs!CallSync
  <1>7. /\ state' \in [Calls -> Fs!States] /\ state'[c] = s /\ attempts'[c] = n
        /\ \A d \in Calls \ {c} : state'[d] = state[d] /\ attempts'[d] = attempts[d]
    BY <1>1, <1>3, <1>4 DEF ScalarsOK, Fs!Becomes, Fs!States, Fs!Settled
  <1>8. attempts' \in [Calls -> 0..MaxAttempts]
    BY <1>1, <1>3, <1>5 DEF ScalarsOK
  <1>9. ScalarsOK'
    BY <1>1, <1>2, <1>7, <1>8 DEF ScalarsOK, Fs!CallSync
  <1>10. Fs!NoEarlyGivingUp'
    <2> SUFFICES ASSUME NEW d \in Calls, state'[d] = "gaveup"
                 PROVE  d \in late' \/ (Fs!Limit(d) # None /\ attempts'[d] = Fs!Limit(d))
      BY DEF Fs!NoEarlyGivingUp, Fs!Limit
    <2>1. CASE d # c
      BY <2>1, <1>1, <1>2, <1>7 DEF CallsOK, Fs!NoEarlyGivingUp
    <2>2. CASE d = c
      <3>1. c \in late' \/ (Fs!Limit(c) # None /\ n >= Fs!Limit(c))
        BY <2>2, <1>4, <1>7 DEF Fs!Exceeded, Fs!Limit
      <3> QED
        BY <3>1, <2>2, <1>5, <1>7, LimitType
    <2> QED
      BY <2>1, <2>2
  <1>11. Fs!LimitIsKept'
    <2> SUFFICES ASSUME NEW d \in Calls, Fs!Limit(d) # None, attempts'[d] >= Fs!Limit(d)
                 PROVE  state'[d] = "gaveup"
      BY DEF Fs!LimitIsKept, Fs!Limit
    <2>1. CASE d # c
      BY <2>1, <1>1, <1>7 DEF CallsOK, Fs!LimitIsKept
    <2>2. CASE d = c
      BY <2>2, <1>4, <1>5, <1>7, LimitType
    <2> QED
      BY <2>1, <2>2
  <1> QED
    BY <1>6, <1>9, <1>10, <1>11, PartsNext DEF CallsOK

\* The timer of the queue fires.
LEMMA ProcessInv ==
  ASSUME CallsIInv, Fs!Process
  PROVE  CallsIInv'
  <1> DEFINE h == Head(entries)
  <1>1. ScalarsOK /\ QueueOK /\ Fs!QueueIsServed /\ CallsOK
    BY Parts
  <1>2. QueueOK' /\ Fs!QueueIsServed' /\ h \in Calls /\ state[h] = "queued"
    BY <1>1, QueueShrinks
  <1>3. /\ state' \in [Calls -> Fs!States]
        /\ state'[h] = IF h \in late THEN "gaveup" ELSE "flying"
        /\ \A d \in Calls \ {h} : state'[d] = state[d]
    BY <1>1, <1>2 DEF Fs!Process, ScalarsOK, Fs!Becomes, Fs!States, Fs!Waiting, Fs!Settled
  <1>4. ScalarsOK'
    BY <1>1, <1>3 DEF ScalarsOK, Fs!Process
  <1>5. CallsOK'
    BY <1>1, <1>2, <1>3 DEF Fs!Process, CallsOK, Fs!NoEarlyGivingUp, Fs!LimitIsKept, Fs!Limit
  <1> QED
    BY <1>2, <1>4, <1>5, PartsNext

\* Every step preserves the invariant.
LEMMA CallsNextInv ==
  ASSUME LimitsGiven
  PROVE  CallsIInv /\ [Fs!Next]_(Fs!vars) => CallsIInv'
  <1> SUFFICES ASSUME CallsIInv, [Fs!Next]_(Fs!vars) PROVE CallsIInv'
    OBVIOUS
  <1>1. ASSUME NEW c \in Calls, Fs!Start(c) PROVE CallsIInv'
    BY <1>1, CallMoves DEF Fs!Start, Fs!States, Fs!Waiting
  <1>2. ASSUME NEW c \in Calls, Fs!Answer(c) PROVE CallsIInv'
    BY <1>2, CallMoves DEF Fs!Answer, Fs!States, Fs!Settled
  <1>3. ASSUME NEW c \in Calls, Fs!BackoffEnds(c) PROVE CallsIInv'
    BY <1>3, CallMoves DEF Fs!BackoffEnds, Fs!States, Fs!Waiting
  <1>4. ASSUME NEW c \in Calls, Fs!FailForNow(c) PROVE CallsIInv'
    BY <1>4, FailForNowInv
  <1>5. ASSUME NEW c \in Calls, Fs!CallSync(c) PROVE CallsIInv'
    BY <1>5, CallSyncInv
  <1>6. ASSUME NEW c \in Calls, Fs!MinuteEnds(c) PROVE CallsIInv'
    <2>1. ScalarsOK' /\ QueueOK' /\ Fs!QueueIsServed'
      BY <1>6, Parts DEF Fs!MinuteEnds, ScalarsOK, QueueOK, Fs!QueueIsServed
    <2>2. CallsOK'
      BY <1>6, Parts DEF Fs!MinuteEnds, CallsOK, Fs!NoEarlyGivingUp, Fs!LimitIsKept, Fs!Limit
    <2> QED
      BY <2>1, <2>2, PartsNext
  <1>7. CASE Fs!Process
    BY <1>7, ProcessInv
  <1>8. CASE Fs!Exit \/ UNCHANGED Fs!vars
    <2>1. UNCHANGED <<state, attempts, late, entries, timer>> /\ exited' \in BOOLEAN
      BY <1>8, Parts DEF Fs!Exit, Fs!vars, ScalarsOK
    <2>2. ScalarsOK' /\ QueueOK' /\ Fs!QueueIsServed'
      BY <2>1, Parts DEF ScalarsOK, QueueOK, Fs!QueueIsServed
    <2>3. CallsOK'
      BY <2>1, Parts DEF CallsOK, Fs!NoEarlyGivingUp, Fs!LimitIsKept, Fs!Limit
    <2> QED
      BY <2>2, <2>3, PartsNext
  <1> QED
    BY <1>1, <1>2, <1>3, <1>4, <1>5, <1>6, <1>7, <1>8
    DEF Fs!Next, Fs!Completes, Fs!Terminating

-----------------------------------------------------------------------------

\* The invariant holds always.
LEMMA CallsInvariance ==
  ASSUME LimitsGiven PROVE Fs!Spec => []CallsIInv
  BY CallsInitInv, CallsNextInv, PTL DEF Fs!Spec

\* Every state is well typed, and the retry queue holds exactly the calls that
\* wait in it, each of them once.
THEOREM RetriesTypeCorrect ==
  ASSUME LimitsGiven PROVE Fs!Spec => []Fs!TypeOK
  BY CallsInvariance, PTL DEF CallsIInv

\* However enqueue() and process() follow each other, the queue's timer is set
\* exactly while there is something in it.
THEOREM QueueIsAlwaysServed ==
  ASSUME LimitsGiven PROVE Fs!Spec => []Fs!QueueIsServed
  BY CallsInvariance, PTL DEF CallsIInv

\* A transient error is answered only after the call's minute, or when it has
\* made the attempts its function allows.
THEOREM NobodyGivesUpEarly ==
  ASSUME LimitsGiven PROVE Fs!Spec => []Fs!NoEarlyGivingUp
  BY CallsInvariance, PTL DEF CallsIInv

\* No function with a limit makes an attempt more than it allows.
THEOREM LimitsAreKept ==
  ASSUME LimitsGiven PROVE Fs!Spec => []Fs!LimitIsKept
  BY CallsInvariance, PTL DEF CallsIInv

=============================================================================
