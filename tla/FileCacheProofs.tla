--------------------------- MODULE FileCacheProofs ----------------------------
(***************************************************************************)
(* Proofs about FileCache for every number of calls, contents, programs and *)
(* checksums, every order of the stamps that time allows, and every kind of *)
(* lookup.                                                                   *)
(***************************************************************************)
EXTENDS FileCache, FiniteSetTheorems, TLAPS

\* An entry was read no earlier than its stamp says, and carries one only under the
\* path; a padding's entry has the checksum that it is found under.
CachedOK ==
    \A k \in Keys : cached[k] # None =>
        /\ cached[k].stamp # None => cached[k].stamp <= StampOf[cached[k].of]
        /\ k # PathKey => cached[k].stamp = None
        /\ kind = "padding" => k # PathKey /\ k[1] \in cached[k].has

\* A call under way asks for something; it has a stamp if it looks for a path, the
\* one the file had when it began, and it reads the file after that.
CallOK ==
    \A c \in Calls :
        /\ started[c] <= content
        /\ pc[c] # "idle" => request[c] \in Requests
        /\ pc[c] # "idle" => (stats[c] = None <=> ByChecksum(request[c]) \/ kind = "padding")
        /\ stats[c] # None => stats[c] = StampOf[started[c]]
        /\ pc[c] = "read" => read[c] \in Contents /\ started[c] <= read[c]
        /\ pc[c] # "read" => read[c] = None

\* Calls that want the same keys fetch one after the other.
FetchesApart ==
    \A c, d \in Calls :
        c # d /\ pc[c] \in {"computing", "read"} /\ pc[d] \in {"computing", "read"}
        => KeySet(request[c]) \cap KeySet(request[d]) = {}

\* What the program that runs would find as well.
UpToDate(e) == IF e.found THEN Recognised(e.of) ELSE e.known = known

\* A call that was answered would be answered again without fetching, as long as its
\* entries are not replaced; by checksums, whatever replaces them.
AnsweredOK ==
    \A c \in Calls : pc[c] = "done" =>
        /\ stats[c] # None => \A e \in answer[c] : e.stamp = stats[c]
        /\ kind \in {"file", "archive"} => \A e \in answer[c] : request[c].want \subseteq e.has
        /\ kind \in {"name", "tz"} /\ stats[c] # None => \A e \in answer[c] : UpToDate(e)
        /\ kind = "name" /\ stats[c] = None =>
              /\ \E k \in KeySet(request[c]) : cached[k] # None
              /\ \A k \in KeySet(request[c]) :
                    cached[k] # None =>
                       \/ UpToDate(cached[k])
                       \/ \E l \in KeySet(request[c]) : cached[l] # None /\ Before(l, k)
        /\ kind = "padding" =>
              /\ answer[c] # {} => ByChecksum(request[c])
              /\ \A k \in KeySet(request[c]) \ {PathKey} : cached[k] # None

IInv ==
    /\ TypeOK
    /\ CachedOK
    /\ CallOK
    /\ FetchesApart
    /\ AnsweredOK
    /\ AnswerIsCurrent
    /\ AnswerSuffices

-----------------------------------------------------------------------------
(* What the operators of the model yield.                                    *)

\* The constants' types, as the proofs use them.
LEMMA ConstantTypes ==
    /\ Contents \subseteq Nat /\ 0 \in Contents /\ Scanned \subseteq Contents
    /\ Programs \subseteq Nat /\ 1 \in Programs
    /\ None \notin Contents /\ None \notin Stamps /\ None \notin Entries
    /\ \A v \in Contents : StampOf[v] \in Stamps /\ StampOf[v] \in Nat
    /\ \A v, w \in Contents : v <= w => StampOf[v] <= StampOf[w]
<1>1. /\ Contents \subseteq Nat /\ 0 \in Contents /\ Scanned \subseteq Contents
      /\ Programs \subseteq Nat /\ 1 \in Programs
  BY ContentsAssumption, ProgramsAssumption DEF Contents, Programs
<1>2. \A v \in Contents : StampOf[v] \in Stamps /\ StampOf[v] \in Nat
  BY ContentsAssumption DEF Stamps
<1>3. None \notin Contents /\ None \notin Stamps /\ None \notin Entries
  BY <1>1, <1>2, RequestsAssumption DEF Stamps
<1>4. ASSUME NEW v \in Contents, NEW w \in Contents, v <= w
      PROVE  StampOf[v] <= StampOf[w]
  <2>1. CASE v = w
    BY <2>1, <1>2
  <2>2. CASE v < w
    BY <2>2, ContentsAssumption
  <2>3. QED
    BY <2>1, <2>2, <1>1, <1>4
<1>5. QED
  BY <1>1, <1>2, <1>3, <1>4

\* What a request goes by.
LEMMA RequestShape ==
    ASSUME NEW r \in Requests
    PROVE  /\ r.want \in SUBSET Checksums /\ r.force \in BOOLEAN
           /\ r.of \in Scanned /\ r.of \in Contents
           /\ kind \in {"name", "padding"} => ~r.force
           /\ kind = "tz" => r.want = {}
  BY ConstantTypes, RequestsAssumption DEF Requests

\* The keys of a request.
LEMMA KeySetShape ==
    ASSUME NEW r \in Requests
    PROVE  /\ KeySet(r) \subseteq Keys /\ KeySet(r) # {}
           /\ ByChecksum(r) => PathKey \notin KeySet(r)
           /\ ~ByChecksum(r) => KeySet(r) = {PathKey}
           /\ \A k \in KeySet(r) : k # PathKey => k[1] \in r.want
           /\ ByChecksum(r) => \A x \in r.want : <<x, r.of>> \in KeySet(r)
<1>1. r.want \in SUBSET Checksums /\ r.of \in Scanned
  BY RequestShape
<1>2. PathKey \notin Checksums \X Scanned
  BY RequestsAssumption DEF PathKey
<1>3. CASE ByChecksum(r)
  <2>1. KeySet(r) = r.want \X {r.of} /\ r.want # {}
    BY <1>3 DEF KeySet, ByChecksum
  <2>2. r.want \X {r.of} \subseteq Checksums \X Scanned
    BY <1>1
  <2>3. \A x \in r.want : <<x, r.of>> \in KeySet(r)
    BY <2>1
  <2>4. \A k \in KeySet(r) : k[1] \in r.want
    BY <2>1
  <2>5. KeySet(r) # {}
    BY <2>1, <2>3
  <2>6. QED
    BY <2>1, <2>2, <2>3, <2>4, <2>5, <1>2, <1>3 DEF Keys
<1>4. CASE ~ByChecksum(r)
  BY <1>4 DEF KeySet, Keys
<1>5. QED
  BY <1>3, <1>4

\* What a lookup that does not fetch answers with.
LEMMA ServedShape ==
    ASSUME IInv, NEW c \in Calls, request[c] \in Requests
    PROVE  /\ Served(c) \in SUBSET Entries
           /\ \A e \in Served(c) :
                 /\ e # None
                 /\ \E k \in KeySet(request[c]) :
                       /\ cached[k] = e
                       /\ kind # "padding" =>
                             \A m \in KeySet(request[c]) : cached[m] # None => ~Before(m, k)
                 /\ kind # "padding" => ~ShouldRecompute(c, e)
           /\ kind = "padding" /\ Served(c) # {} =>
                 \A k \in KeySet(request[c]) : cached[k] \in Served(c)
<1>1. KeySet(request[c]) \subseteq Keys
  BY KeySetShape
<1>2. \A k \in KeySet(request[c]) : cached[k] \in Entries \cup {None}
  BY <1>1 DEF IInv, TypeOK
<1>3. CASE kind = "padding"
  <2>1. Served(c) = LET found == {cached[k] : k \in KeySet(request[c])}
                    IN  IF None \in found THEN {} ELSE found
    BY <1>3 DEF Served, AllOf
  <2>2. QED
    BY <2>1, <1>2, <1>3
<1>4. CASE kind # "padding"
  <2> DEFINE held == {k \in KeySet(request[c]) : cached[k] # None}
  <2>1. Served(c) = {cached[k] : k \in {l \in held :
                       (\A m \in held : ~Before(m, l)) /\ ~ShouldRecompute(c, cached[l])}}
    BY <1>4 DEF Served, AnyOf
  <2>2. QED
    BY <2>1, <1>2, <1>4
<1>5. QED
  BY <1>3, <1>4

\* A lookup is answered at once if it goes by path and the entry there will do.
LEMMA ServedByPath ==
    ASSUME NEW c \in Calls, KeySet(request[c]) = {PathKey}, cached[PathKey] # None,
           kind # "padding", ~ShouldRecompute(c, cached[PathKey])
    PROVE  Served(c) # {}
<1> DEFINE held == {k \in KeySet(request[c]) : cached[k] # None}
<1>1. held = {PathKey}
  OBVIOUS
<1>2. ~Before(PathKey, PathKey)
  <2>1. \A i \in DOMAIN ChecksumOrder : ChecksumOrder[i] \in Checksums
    BY DEF Checksums
  <2>2. PathKey[1] \notin Checksums
    BY RequestsAssumption DEF PathKey
  <2>3. QED
    BY <2>1, <2>2 DEF Before
<1>3. PathKey \in {l \in held : /\ \A m \in held : ~Before(m, l)
                                /\ ~ShouldRecompute(c, cached[l])}
  BY <1>1, <1>2
<1>4. QED
  BY <1>3 DEF Served, AnyOf

\* Of the keys of a file's checksums, one that is held comes first.
LEMMA SomethingIsFirst ==
    ASSUME NEW r \in Requests, ByChecksum(r),
           NEW held \in SUBSET KeySet(r), held # {}
    PROVE  \E k \in held : \A m \in held : ~Before(m, k)
<1> DEFINE n == Len(ChecksumOrder)
           P == {i \in 1..n : \E k \in held : k[1] = ChecksumOrder[i]}
           Up == {1..i : i \in P}
<1>1. n \in Nat /\ DOMAIN ChecksumOrder = 1..n
  BY RequestsAssumption
<1>2. \A k \in held : \E i \in 1..n : k[1] = ChecksumOrder[i]
  <2>1. \A k \in held : k[1] \in Checksums
    BY KeySetShape, RequestShape DEF ByChecksum
  <2>2. QED
    BY <2>1, <1>1 DEF Checksums
<1>3. P # {}
  BY <1>2
<1>4. IsFiniteSet(1..n)
  BY <1>1, FS_Interval
<1>5. IsWellFoundedOn(StrictSubsetOrdering(1..n), SUBSET (1..n))
  BY <1>4, FS_StrictSubsetOrderingWellFounded, FS_FiniteSubsetsOfFinite
<1>6. Up \subseteq SUBSET (1..n) /\ Up # {}
  BY <1>1, <1>3
<1>7. PICK A \in Up : \A B \in Up : <<B, A>> \notin StrictSubsetOrdering(1..n)
  BY <1>5, <1>6, WFMin
<1>8. PICK i \in P : A = 1..i
  BY <1>7
<1>9. \A j \in P : ~(j < i)
  <2>1. SUFFICES ASSUME NEW j \in P, j < i PROVE FALSE
    OBVIOUS
  <2>2. j \in Nat /\ i \in Nat /\ i \in 1..n /\ j \in 1..n
    BY <1>1
  <2>3. /\ 1..j \subseteq 1..i /\ i \in 1..i /\ i \notin 1..j
        /\ 1..j \in SUBSET (1..n) /\ 1..i \in SUBSET (1..n)
    BY <2>1, <2>2, <1>1
  <2>4. <<1..j, 1..i>> \in StrictSubsetOrdering(1..n)
    BY <2>3 DEF StrictSubsetOrdering
  <2>5. QED
    BY <2>4, <1>7, <1>8
<1>10. PICK k \in held : k[1] = ChecksumOrder[i]
  BY <1>8
<1>11. ASSUME NEW m \in held, Before(m, k) PROVE FALSE
  <2>1. PICK a, b \in DOMAIN ChecksumOrder :
           a < b /\ m[1] = ChecksumOrder[a] /\ k[1] = ChecksumOrder[b]
    BY <1>11 DEF Before
  <2>2. b = i
    BY <2>1, <1>1, <1>8, <1>10, RequestsAssumption
  <2>3. a \in P
    BY <2>1, <1>1, <1>11
  <2>4. QED
    BY <2>1, <2>2, <2>3, <1>9
<1>12. QED
  BY <1>10, <1>11

-----------------------------------------------------------------------------
(* One lemma per action: it preserves the inductive invariant.               *)

\* What is true of a call as long as nothing about it changes, but for the cache.
LEMMA StartOrRest ==
    ASSUME IInv, UNCHANGED <<kind, content, known, cached>>,
           CallOK', TypeOK', NEW c \in Calls, pc'[c] \notin {"done", "computing", "read"},
           \A d \in Calls \ {c} :
              /\ pc'[d] = pc[d] /\ request'[d] = request[d] /\ stats'[d] = stats[d]
              /\ started'[d] = started[d] /\ answer'[d] = answer[d]
    PROVE  IInv'
<1>1. CachedOK'
  BY DEF IInv, CachedOK
<1>2. /\ \A r : KeySet(r)' = KeySet(r)
      /\ \A e : UpToDate(e)' <=> UpToDate(e)
  BY DEF KeySet, ByChecksum, UpToDate, Recognised
<1>3. FetchesApart'
  BY <1>2 DEF IInv, FetchesApart
<1>4. AnsweredOK'
  <2>1. \A d \in Calls : pc'[d] = "done" =>
           /\ pc[d] = "done" /\ answer'[d] = answer[d] /\ stats'[d] = stats[d]
           /\ request'[d] = request[d]
    OBVIOUS
  <2>2. kind' = kind /\ cached' = cached
    OBVIOUS
  <2>3. \A d \in Calls : pc'[d] = "done" =>
           /\ KeySet(request[d])' = KeySet(request[d])
           /\ ByChecksum(request[d])' = ByChecksum(request[d])
    BY <2>1, <2>2 DEF KeySet, ByChecksum
  <2>4. QED
    BY <1>2, <2>1, <2>2, <2>3 DEF IInv, AnsweredOK
<1>5. AnswerIsCurrent' /\ AnswerSuffices'
  BY DEF IInv, AnswerIsCurrent, AnswerSuffices
<1>6. QED
  BY <1>1, <1>3, <1>4, <1>5 DEF IInv

LEMMA BeginInv ==
    ASSUME IInv, NEW c \in Calls, NEW r \in Requests, Begin(c, r)
    PROVE  IInv'
<1> DEFINE s == IF ~ByChecksum(r) /\ kind # "padding" THEN StampOf[content] ELSE None
<1>1. /\ UNCHANGED <<kind, content, known, cached, read>>
      /\ pc[c] \in Resting
      /\ pc' = [pc EXCEPT ![c] = "checking"]
      /\ request' = [request EXCEPT ![c] = r]
      /\ stats' = [stats EXCEPT ![c] = s]
      /\ started' = [started EXCEPT ![c] = IF stats'[c] = None THEN 0 ELSE content]
      /\ answer' = [answer EXCEPT ![c] = {}]
      /\ TypeOK /\ CallOK
  BY DEF Begin, IInv
<1>2. content \in Contents /\ content \in Nat /\ StampOf[content] # None
  BY <1>1, ConstantTypes DEF TypeOK
<1>3. s \in Stamps \cup {None} /\ stats'[c] = s
  BY <1>1, <1>2, ConstantTypes DEF TypeOK
<1>4. Requests' = Requests /\ \A q : ByChecksum(q)' = ByChecksum(q)
  BY <1>1 DEF Requests, ByChecksum
<1>5. TypeOK'
  BY <1>1, <1>2, <1>3, <1>4, ConstantTypes DEF TypeOK, PcStates
<1>6. CallOK'
  <2>1. SUFFICES ASSUME NEW d \in Calls
                 PROVE  /\ started'[d] <= content
                        /\ pc'[d] # "idle" => request'[d] \in Requests
                        /\ pc'[d] # "idle" => (stats'[d] = None <=>
                                        ByChecksum(request'[d]) \/ kind = "padding")
                        /\ stats'[d] # None => stats'[d] = StampOf[started'[d]]
                        /\ pc'[d] = "read" => read[d] \in Contents /\ started'[d] <= read[d]
                        /\ pc'[d] # "read" => read[d] = None
    BY <1>1, <1>4 DEF CallOK
  <2>2. CASE d = c
    <3>1. started'[d] = IF s = None THEN 0 ELSE content
      BY <2>2, <1>1, <1>3 DEF TypeOK
    <3>2. /\ pc'[d] = "checking" /\ request'[d] = r /\ stats'[d] = s
          /\ read[d] = None
      BY <2>2, <1>1 DEF TypeOK, CallOK, Resting
    <3>3. QED
      BY <3>1, <3>2, <1>2
  <2>3. CASE d # c
    <3>1. /\ started'[d] = started[d] /\ pc'[d] = pc[d] /\ request'[d] = request[d]
          /\ stats'[d] = stats[d]
      BY <2>3, <1>1 DEF TypeOK
    <3>2. QED
      BY <3>1, <1>1 DEF CallOK
  <2>4. QED
    BY <2>2, <2>3
<1>7. /\ pc'[c] = "checking"
      /\ \A d \in Calls \ {c} :
            /\ pc'[d] = pc[d] /\ request'[d] = request[d] /\ stats'[d] = stats[d]
            /\ started'[d] = started[d] /\ answer'[d] = answer[d]
  BY <1>1 DEF TypeOK, Resting
<1>8. QED
  BY <1>1, <1>5, <1>6, <1>7, StartOrRest

\* Two checksums of a file are looked up one before the other.
LEMMA OrderIsTotal ==
    ASSUME NEW r \in Requests, ByChecksum(r), NEW k \in KeySet(r), NEW l \in KeySet(r), k # l
    PROVE  Before(k, l) \/ Before(l, k)
<1>1. KeySet(r) = r.want \X {r.of} /\ r.want \subseteq Checksums
  BY RequestShape DEF KeySet
<1>2. k = <<k[1], r.of>> /\ l = <<l[1], r.of>> /\ k[1] \in Checksums /\ l[1] \in Checksums
  BY <1>1
<1>3. k[1] # l[1]
  BY <1>2
<1>4. /\ \A x \in Checksums : \E i \in DOMAIN ChecksumOrder : x = ChecksumOrder[i]
      /\ DOMAIN ChecksumOrder \subseteq Nat
  BY RequestsAssumption DEF Checksums
<1>5. PICK i, j \in DOMAIN ChecksumOrder : k[1] = ChecksumOrder[i] /\ l[1] = ChecksumOrder[j]
  BY <1>2, <1>4
<1>6. i < j \/ j < i
  BY <1>3, <1>4, <1>5
<1>7. QED
  BY <1>5, <1>6 DEF Before

\* An entry that a lookup is answered with, without fetching.
LEMMA ServedIsGood ==
    ASSUME IInv, NEW c \in Calls, pc[c] # "idle", NEW e \in Served(c)
    PROVE  /\ stats[c] # None => e.stamp = stats[c]
           /\ kind \in {"file", "archive", "tz"} => ~request[c].force
           /\ kind \in {"file", "archive"} => request[c].want \subseteq e.has
           /\ kind = "archive" => e.found
           /\ kind \in {"name", "tz"} => UpToDate(e)
           /\ stats[c] # None => e.stamp <= StampOf[e.of]
<1>1. /\ request[c] \in Requests /\ (stats[c] # None => kind # "padding")
      /\ kind \in AllKinds
  BY RequestsAssumption DEF IInv, CallOK, TypeOK
<1>2. PICK k \in KeySet(request[c]) : cached[k] = e /\ e # None
  BY <1>1, ServedShape
<1>3. kind # "padding" => ~ShouldRecompute(c, e)
  BY <1>1, ServedShape
<1> DEFINE Suits ==
             /\ stats[c] # None => e.stamp = stats[c]
             /\ kind \in {"file", "archive", "tz"} => ~request[c].force
             /\ kind \in {"file", "archive"} => request[c].want \subseteq e.has
             /\ kind = "archive" => e.found
             /\ kind \in {"name", "tz"} => UpToDate(e)
<1>4. ASSUME kind = "file" PROVE Suits
  BY <1>1, <1>3, <1>4 DEF ShouldRecompute, RecomputeFile, Changed
<1>5. ASSUME kind = "archive" PROVE Suits
  BY <1>1, <1>3, <1>5 DEF ShouldRecompute, RecomputeArchive, Changed
<1>6. ASSUME kind = "name" PROVE Suits
  BY <1>1, <1>3, <1>6 DEF ShouldRecompute, RecomputeName, Changed, UpToDate
<1>7. ASSUME kind = "tz" PROVE Suits
  BY <1>1, <1>3, <1>7
     DEF ShouldRecompute, RecomputeValidation, RecomputeName, Changed, UpToDate
<1>8. Suits
  BY <1>1, <1>4, <1>5, <1>6, <1>7 DEF AllKinds
<1>9. k \in Keys
  BY <1>1, <1>2, KeySetShape
<1>10. stats[c] # None => e.stamp <= StampOf[e.of]
  BY <1>2, <1>8, <1>9 DEF IInv, CachedOK
<1>11. QED
  BY <1>8, <1>10

\* An answer from the cache is as good as one that is fetched.
LEMMA ServedAnswers ==
    ASSUME IInv, NEW c \in Calls, pc[c] # "idle", Served(c) # {}
    PROVE  /\ stats[c] # None =>
                 \A e \in Served(c) :
                    e.of >= started[c] \/ (~request[c].force /\ StampOf[e.of] = stats[c])
           /\ kind = "name" /\ stats[c] = None =>
                 /\ \E k \in KeySet(request[c]) : cached[k] # None
                 /\ \A k \in KeySet(request[c]) :
                       cached[k] # None =>
                          \/ UpToDate(cached[k])
                          \/ \E l \in KeySet(request[c]) : cached[l] # None /\ Before(l, k)
           /\ kind = "padding" =>
                 /\ ByChecksum(request[c])
                 /\ \A k \in KeySet(request[c]) : cached[k] # None
           /\ kind \in {"file", "archive", "padding"} =>
                 request[c].want \subseteq UNION {e.has : e \in Served(c)}
<1>1. /\ request[c] \in Requests /\ started[c] \in Contents /\ kind \in AllKinds
      /\ stats[c] # None => stats[c] = StampOf[started[c]] /\ kind # "padding"
      /\ stats[c] = None <=> ByChecksum(request[c]) \/ kind = "padding"
  BY RequestsAssumption DEF IInv, CallOK, TypeOK
<1>2. ASSUME stats[c] # None, NEW e \in Served(c)
      PROVE  e.of >= started[c] \/ (~request[c].force /\ StampOf[e.of] = stats[c])
  <2>1. e \in Entries /\ e.of \in Contents
    BY <1>1, <1>2, ServedShape DEF Entries
  <2>2. ~request[c].force
    BY <1>1, <1>2, ServedIsGood, RequestShape DEF AllKinds
  <2>3. stats[c] = StampOf[started[c]] /\ stats[c] <= StampOf[e.of]
    BY <1>1, <1>2, ServedIsGood
  <2>4. CASE e.of >= started[c]
    BY <2>4
  <2>5. CASE ~(e.of >= started[c])
    <3>1. e.of \in Nat /\ started[c] \in Nat /\ StampOf[e.of] \in Nat /\ StampOf[started[c]] \in Nat
      BY <2>1, <1>1, ConstantTypes
    <3>2. StampOf[e.of] <= StampOf[started[c]]
      BY <3>1, <2>1, <2>5, <1>1, ConstantTypes
    <3>3. QED
      BY <3>1, <3>2, <2>2, <2>3
  <2>6. QED
    BY <2>4, <2>5
<1>3. ASSUME kind = "name", stats[c] = None
      PROVE  /\ \E k \in KeySet(request[c]) : cached[k] # None
             /\ \A k \in KeySet(request[c]) :
                   cached[k] # None =>
                      \/ UpToDate(cached[k])
                      \/ \E l \in KeySet(request[c]) : cached[l] # None /\ Before(l, k)
  <2>1. PICK e \in Served(c) : TRUE
    OBVIOUS
  <2>2. PICK k \in KeySet(request[c]) :
           /\ cached[k] = e /\ e # None
           /\ \A m \in KeySet(request[c]) : cached[m] # None => ~Before(m, k)
    BY <1>1, <1>3, ServedShape
  <2>3. UpToDate(e)
    BY <1>3, ServedIsGood
  <2>4. ByChecksum(request[c])
    BY <1>1, <1>3
  <2>5. \A l \in KeySet(request[c]) : l # k /\ cached[l] # None => Before(k, l)
    BY <2>2, <2>4, <1>1, OrderIsTotal
  <2>6. QED
    BY <2>2, <2>3, <2>5
<1>4. ASSUME kind = "padding"
      PROVE  /\ ByChecksum(request[c])
             /\ \A k \in KeySet(request[c]) : cached[k] # None
             /\ request[c].want \subseteq UNION {e.has : e \in Served(c)}
  <2>1. \A k \in KeySet(request[c]) : cached[k] \in Served(c) /\ cached[k] # None /\ k \in Keys
    BY <1>1, <1>4, ServedShape, KeySetShape
  <2>2. ByChecksum(request[c])
    BY <1>1, <1>4, <2>1, KeySetShape DEF IInv, CachedOK
  <2>3. ASSUME NEW x \in request[c].want
        PROVE  \E e \in Served(c) : x \in e.has
    <3>1. <<x, request[c].of>> \in KeySet(request[c])
      BY <1>1, <1>4, <2>3, KeySetShape DEF ByChecksum
    <3>2. x \in cached[<<x, request[c].of>>].has
      BY <3>1, <2>1, <1>4 DEF IInv, CachedOK
    <3>3. QED
      BY <3>1, <3>2, <2>1
  <2>4. QED
    BY <2>1, <2>2, <2>3
<1>5. ASSUME kind \in {"file", "archive"}
      PROVE  request[c].want \subseteq UNION {e.has : e \in Served(c)}
  BY <1>5, ServedIsGood
<1>6. QED
  BY <1>2, <1>3, <1>4, <1>5

LEMMA AnswerOrInv ==
    ASSUME IInv, NEW c \in Calls, pc[c] \in {"checking", "locking"},
           NEW state \in {"locking", "computing"}, AnswerOr(c, state),
           state = "computing" => Unlocked(c)
    PROVE  IInv'
<1>1. /\ UNCHANGED <<kind, content, known, cached, request, stats, started, read>>
      /\ answer' = [answer EXCEPT ![c] = Served(c)]
      /\ pc' = [pc EXCEPT ![c] = IF Served(c) # {} THEN "done" ELSE state]
      /\ TypeOK /\ CallOK /\ request[c] \in Requests
  BY DEF AnswerOr, IInv, CallOK
<1>2. /\ Requests' = Requests
      /\ \A r : KeySet(r)' = KeySet(r) /\ ByChecksum(r)' = ByChecksum(r)
      /\ \A e : UpToDate(e)' <=> UpToDate(e)
  BY <1>1 DEF Requests, KeySet, ByChecksum, UpToDate, Recognised
<1>3. /\ pc'[c] = IF Served(c) # {} THEN "done" ELSE state
      /\ answer'[c] = Served(c)
      /\ \A d \in Calls \ {c} : pc'[d] = pc[d] /\ answer'[d] = answer[d]
  BY <1>1 DEF TypeOK
<1>4. TypeOK'
  BY <1>1, <1>2, ServedShape DEF TypeOK, PcStates
<1>5. CachedOK'
  BY <1>1 DEF IInv, CachedOK
<1>6. CallOK'
  BY <1>1, <1>2, <1>3 DEF CallOK
<1>7. FetchesApart'
  <2>1. SUFFICES ASSUME NEW a \in Calls, NEW b \in Calls, a # b,
                        pc'[a] \in {"computing", "read"}, pc'[b] \in {"computing", "read"}
                 PROVE  KeySet(request[a]) \cap KeySet(request[b]) = {}
    BY <1>1, <1>2 DEF FetchesApart
  <2>2. CASE a = c
    BY <2>1, <2>2, <1>3 DEF Unlocked
  <2>3. CASE b = c
    BY <2>1, <2>3, <1>3 DEF Unlocked
  <2>4. CASE a # c /\ b # c
    BY <2>1, <2>4, <1>3 DEF IInv, FetchesApart
  <2>5. QED
    BY <2>2, <2>3, <2>4
<1>8. AnsweredOK'
  <2>1. SUFFICES ASSUME NEW d \in Calls, pc'[d] = "done"
                 PROVE  /\ stats[d] # None => \A e \in answer'[d] : e.stamp = stats[d]
                        /\ kind \in {"file", "archive"} =>
                              \A e \in answer'[d] : request[d].want \subseteq e.has
                        /\ kind \in {"name", "tz"} /\ stats[d] # None =>
                              \A e \in answer'[d] : UpToDate(e)
                        /\ kind = "name" /\ stats[d] = None =>
                              /\ \E k \in KeySet(request[d]) : cached[k] # None
                              /\ \A k \in KeySet(request[d]) :
                                    cached[k] # None =>
                                       \/ UpToDate(cached[k])
                                       \/ \E l \in KeySet(request[d]) :
                                             cached[l] # None /\ Before(l, k)
                        /\ kind = "padding" =>
                              /\ answer'[d] # {} => ByChecksum(request[d])
                              /\ \A k \in KeySet(request[d]) \ {PathKey} : cached[k] # None
    BY <1>1, <1>2 DEF AnsweredOK
  <2>2. CASE d = c
    BY <2>1, <2>2, <1>3, ServedIsGood, ServedAnswers
  <2>3. CASE d # c
    BY <2>1, <2>3, <1>3 DEF IInv, AnsweredOK
  <2>4. QED
    BY <2>2, <2>3
<1>9. AnswerIsCurrent'
  <2>1. SUFFICES ASSUME NEW d \in Calls, pc'[d] = "done", stats[d] # None,
                        NEW e \in answer'[d]
                 PROVE  e.of >= started[d] \/ (~request[d].force /\ StampOf[e.of] = stats[d])
    BY <1>1 DEF AnswerIsCurrent
  <2>2. CASE d = c
    BY <2>1, <2>2, <1>3, ServedAnswers
  <2>3. CASE d # c
    BY <2>1, <2>3, <1>3 DEF IInv, AnswerIsCurrent
  <2>4. QED
    BY <2>2, <2>3
<1>10. AnswerSuffices'
  <2>1. SUFFICES ASSUME NEW d \in Calls, pc'[d] = "done"
                 PROVE  /\ kind \in {"file", "archive", "padding"} =>
                              request[d].want \subseteq UNION {e.has : e \in answer'[d]}
                        /\ kind = "archive" /\ ~(request[d].want \subseteq Quick) =>
                              \A e \in answer'[d] : e.found
    BY <1>1 DEF AnswerSuffices
  <2>2. CASE d = c
    BY <2>1, <2>2, <1>3, ServedIsGood, ServedAnswers
  <2>3. CASE d # c
    BY <2>1, <2>3, <1>3 DEF IInv, AnswerSuffices
  <2>4. QED
    BY <2>2, <2>3
<1>11. QED
  BY <1>4, <1>5, <1>6, <1>7, <1>8, <1>9, <1>10 DEF IInv


LEMMA ReadInv ==
    ASSUME IInv, NEW c \in Calls, Read(c)
    PROVE  IInv'
<1>1. /\ UNCHANGED <<kind, content, known, cached, request, stats, started, answer>>
      /\ pc[c] = "computing"
      /\ pc' = [pc EXCEPT ![c] = "read"]
      /\ read' = [read EXCEPT ![c] = content]
      /\ TypeOK /\ CallOK
  BY DEF Read, IInv
<1>2. /\ Requests' = Requests
      /\ \A r : KeySet(r)' = KeySet(r) /\ ByChecksum(r)' = ByChecksum(r)
      /\ \A e : UpToDate(e)' <=> UpToDate(e)
  BY <1>1 DEF Requests, KeySet, ByChecksum, UpToDate, Recognised
<1>3. /\ pc'[c] = "read" /\ read'[c] = content
      /\ \A d \in Calls \ {c} : pc'[d] = pc[d] /\ read'[d] = read[d]
  BY <1>1 DEF TypeOK
<1>4. TypeOK'
  BY <1>1, <1>2 DEF TypeOK, PcStates
<1>5. CachedOK'
  BY <1>1 DEF IInv, CachedOK
<1>6. CallOK'
  <2>1. content \in Contents
    BY <1>1 DEF TypeOK
  <2>2. QED
    BY <2>1, <1>1, <1>2, <1>3 DEF CallOK
<1>7. FetchesApart'
  BY <1>1, <1>2, <1>3 DEF IInv, FetchesApart
<1>8. AnsweredOK'
  BY <1>1, <1>2, <1>3 DEF IInv, AnsweredOK
<1>9. AnswerIsCurrent' /\ AnswerSuffices'
  BY <1>1, <1>3 DEF IInv, AnswerIsCurrent, AnswerSuffices
<1>10. QED
  BY <1>4, <1>5, <1>6, <1>7, <1>8, <1>9 DEF IInv

\* What is remembered of a file that was read.
LEMMA ResultShape ==
    ASSUME IInv, NEW c \in Calls, pc[c] = "read",
           NEW has \in SUBSET Checksums, NEW found \in BOOLEAN
    PROVE  /\ Result(c, has, found) \in Entries
           /\ Result(c, has, found).stamp = stats[c]
           /\ Result(c, has, found).of = read[c]
           /\ Result(c, has, found).has = has
           /\ Result(c, has, found).found = found
           /\ kind \in {"name", "tz"} /\ (found => Recognised(read[c])) =>
                 UpToDate(Result(c, has, found))
<1>1. stats[c] \in Stamps \cup {None} /\ read[c] \in Contents /\ known \in Programs
  BY DEF IInv, CallOK, TypeOK
<1>2. QED
  BY <1>1 DEF Result, Entries, Version, UpToDate

\* The keys whose entries a fetch replaces.
Replaced(c) == KeySet(request[c]) \ (IF kind = "padding" THEN {PathKey} ELSE {})

\* Remembering what was read, an entry for each of those keys.
LEMMA StoreKeepsInv ==
    ASSUME IInv, NEW c \in Calls, pc[c] = "read",
           UNCHANGED <<kind, content, known, request, stats, started>>,
           pc' = [pc EXCEPT ![c] = "done"], read' = [read EXCEPT ![c] = None],
           cached' \in [Keys -> Entries \cup {None}],
           \A k \in Keys \ Replaced(c) : cached'[k] = cached[k],
           \A k \in Replaced(c) :
              /\ cached'[k] \in Entries
              /\ cached'[k].stamp = stats[c] /\ cached'[k].of = read[c]
              /\ kind \in {"file", "archive"} => cached'[k].has = request[c].want
              /\ kind = "padding" => cached'[k].has = {k[1]}
              /\ kind \in {"name", "tz"} => UpToDate(cached'[k])
              /\ kind = "archive" /\ ~(request[c].want \subseteq Quick) => cached'[k].found,
           answer' = [answer EXCEPT ![c] = {cached'[k] : k \in Replaced(c)}]
    PROVE  IInv'
<1> DEFINE S == Replaced(c)
<1>1. /\ TypeOK /\ CallOK /\ request[c] \in Requests /\ S \subseteq KeySet(request[c])
      /\ S \subseteq Keys
      /\ started[c] \in Contents /\ read[c] \in Contents /\ started[c] <= read[c]
      /\ stats[c] = None <=> ByChecksum(request[c]) \/ kind = "padding"
      /\ stats[c] # None => stats[c] = StampOf[started[c]]
  BY KeySetShape DEF IInv, CallOK, TypeOK, Replaced
<1>2. /\ Requests' = Requests
      /\ \A r : KeySet(r)' = KeySet(r) /\ ByChecksum(r)' = ByChecksum(r)
      /\ \A e : UpToDate(e)' <=> UpToDate(e)
  BY DEF Requests, KeySet, ByChecksum, UpToDate, Recognised
<1>3. /\ pc'[c] = "done" /\ read'[c] = None /\ answer'[c] = {cached'[k] : k \in S}
      /\ \A d \in Calls \ {c} : pc'[d] = pc[d] /\ read'[d] = read[d] /\ answer'[d] = answer[d]
  BY <1>1 DEF TypeOK
<1>4. /\ kind # "padding" => S = KeySet(request[c])
      /\ kind = "padding" => S = KeySet(request[c]) \ {PathKey}
  BY DEF Replaced
<1>5. \A k \in S : cached'[k] \in Entries /\ cached'[k] # None
  BY ConstantTypes
<1>6. TypeOK'
  <2>2. {cached'[k] : k \in S} \in SUBSET Entries
    BY <1>5
  <2>3. answer' \in [Calls -> SUBSET Entries]
    BY <2>2, <1>1 DEF TypeOK
  <2>4. QED
    BY <2>3, <1>1, <1>2 DEF TypeOK, PcStates
<1>7. CachedOK'
  <2>1. SUFFICES ASSUME NEW k \in Keys, cached'[k] # None
                 PROVE  /\ cached'[k].stamp # None =>
                              cached'[k].stamp <= StampOf[cached'[k].of]
                        /\ k # PathKey => cached'[k].stamp = None
                        /\ kind = "padding" => k # PathKey /\ k[1] \in cached'[k].has
    BY DEF CachedOK
  <2>2. CASE k \in S
    <3>2. stats[c] # None => stats[c] <= StampOf[read[c]]
      BY <1>1, ConstantTypes
    <3>3. k # PathKey => stats[c] = None
      BY <2>2, <1>1, KeySetShape
    <3>4. kind = "padding" => k # PathKey
      BY <2>2, <1>4
    <3>5. QED
      BY <2>2, <3>2, <3>3, <3>4
  <2>3. CASE k \notin S
    BY <2>1, <2>3 DEF IInv, CachedOK
  <2>4. QED
    BY <2>2, <2>3
<1>8. CallOK'
  BY <1>1, <1>2, <1>3 DEF CallOK
<1>9. FetchesApart'
  BY <1>2, <1>3 DEF IInv, FetchesApart
<1>10. AnsweredOK'
  <2>1. SUFFICES ASSUME NEW d \in Calls, pc'[d] = "done"
                 PROVE  /\ stats[d] # None => \A e \in answer'[d] : e.stamp = stats[d]
                        /\ kind \in {"file", "archive"} =>
                              \A e \in answer'[d] : request[d].want \subseteq e.has
                        /\ kind \in {"name", "tz"} /\ stats[d] # None =>
                              \A e \in answer'[d] : UpToDate(e)
                        /\ kind = "name" /\ stats[d] = None =>
                              /\ \E k \in KeySet(request[d]) : cached'[k] # None
                              /\ \A k \in KeySet(request[d]) :
                                    cached'[k] # None =>
                                       \/ UpToDate(cached'[k])
                                       \/ \E l \in KeySet(request[d]) :
                                             cached'[l] # None /\ Before(l, k)
                        /\ kind = "padding" =>
                              /\ answer'[d] # {} => ByChecksum(request[d])
                              /\ \A k \in KeySet(request[d]) \ {PathKey} : cached'[k] # None
    BY <1>2 DEF AnsweredOK
  <2>2. CASE d = c
    <3>1. /\ stats[c] # None => \A e \in answer'[c] : e.stamp = stats[c]
          /\ kind \in {"file", "archive"} =>
                \A e \in answer'[c] : request[c].want \subseteq e.has
          /\ kind \in {"name", "tz"} => \A e \in answer'[c] : UpToDate(e)
      BY <1>3
    <3>2. ASSUME kind # "padding"
          PROVE  KeySet(request[c]) = S /\ S # {}
      BY <3>2, <1>1, <1>4, KeySetShape
    <3>3. ASSUME kind = "padding"
          PROVE  /\ answer'[d] # {} => ByChecksum(request[d])
                 /\ \A k \in KeySet(request[d]) \ {PathKey} : cached'[k] # None
      BY <3>3, <2>2, <1>1, <1>3, <1>4, <1>5, KeySetShape
    <3>4. QED
      BY <2>2, <3>1, <3>2, <3>3, <1>5
  <2>3. CASE d # c
    <3>1. pc[d] = "done" /\ answer'[d] = answer[d] /\ request[d] \in Requests
      BY <2>1, <2>3, <1>1, <1>3 DEF CallOK
    <3>2. KeySet(request[d]) \subseteq Keys
      BY <3>1, KeySetShape
    <3>3. \A k \in KeySet(request[d]) : cached[k] # None => cached'[k] # None
      BY <3>2, <1>5
    <3>4. ASSUME kind = "name"
          PROVE  \A k \in KeySet(request[d]) : UpToDate(cached'[k]) \/ cached'[k] = cached[k]
      BY <3>4, <3>2
    <3>5. ASSUME kind = "name", stats[d] = None
          PROVE  /\ \E k \in KeySet(request[d]) : cached'[k] # None
                 /\ \A k \in KeySet(request[d]) :
                       cached'[k] # None =>
                          \/ UpToDate(cached'[k])
                          \/ \E l \in KeySet(request[d]) : cached'[l] # None /\ Before(l, k)
      <4>1. /\ \E k \in KeySet(request[d]) : cached[k] # None
            /\ \A k \in KeySet(request[d]) :
                  cached[k] # None =>
                     \/ UpToDate(cached[k])
                     \/ \E l \in KeySet(request[d]) : cached[l] # None /\ Before(l, k)
        BY <3>1, <3>5 DEF IInv, AnsweredOK
      <4>2. \E k \in KeySet(request[d]) : cached'[k] # None
        BY <4>1, <3>3
      <4>3. ASSUME NEW k \in KeySet(request[d]), cached'[k] # None, ~UpToDate(cached'[k])
            PROVE  \E l \in KeySet(request[d]) : cached'[l] # None /\ Before(l, k)
        <5>1. cached'[k] = cached[k]
          BY <4>3, <3>4, <3>5
        <5>2. PICK l \in KeySet(request[d]) : cached[l] # None /\ Before(l, k)
          BY <4>1, <4>3, <5>1
        <5>3. QED
          BY <5>2, <3>3
      <4>4. QED
        BY <4>2, <4>3
    <3>6. /\ stats[d] # None => \A e \in answer'[d] : e.stamp = stats[d]
          /\ kind \in {"file", "archive"} =>
                \A e \in answer'[d] : request[d].want \subseteq e.has
          /\ kind \in {"name", "tz"} /\ stats[d] # None =>
                \A e \in answer'[d] : UpToDate(e)
      BY <3>1 DEF IInv, AnsweredOK
    <3>7. kind = "padding" =>
             /\ answer'[d] # {} => ByChecksum(request[d])
             /\ \A k \in KeySet(request[d]) \ {PathKey} : cached'[k] # None
      BY <3>1, <3>3 DEF IInv, AnsweredOK
    <3>8. QED
      BY <3>5, <3>6, <3>7
  <2>4. QED
    BY <2>2, <2>3
<1>11. AnswerIsCurrent'
  <2>1. SUFFICES ASSUME NEW d \in Calls, pc'[d] = "done", stats[d] # None,
                        NEW e \in answer'[d]
                 PROVE  e.of >= started[d] \/ (~request[d].force /\ StampOf[e.of] = stats[d])
    BY DEF AnswerIsCurrent
  <2>2. CASE d = c
    <3>1. e.of = read[c]
      BY <2>1, <2>2, <1>3
    <3>2. started[c] \in Nat /\ read[c] \in Nat
      BY <1>1, ConstantTypes
    <3>3. QED
      BY <2>2, <3>1, <3>2, <1>1
  <2>3. CASE d # c
    BY <2>1, <2>3, <1>3 DEF IInv, AnswerIsCurrent
  <2>4. QED
    BY <2>2, <2>3
<1>12. AnswerSuffices'
  <2>1. SUFFICES ASSUME NEW d \in Calls, pc'[d] = "done"
                 PROVE  /\ kind \in {"file", "archive", "padding"} =>
                              request[d].want \subseteq UNION {e.has : e \in answer'[d]}
                        /\ kind = "archive" /\ ~(request[d].want \subseteq Quick) =>
                              \A e \in answer'[d] : e.found
    BY DEF AnswerSuffices
  <2>2. CASE d = c
    <3>1. kind = "archive" /\ ~(request[c].want \subseteq Quick) => \A e \in answer'[c] : e.found
      BY <1>3
    <3>2. ASSUME kind \in {"file", "archive"}
          PROVE  request[c].want \subseteq UNION {e.has : e \in answer'[c]}
      <4>1. PICK k \in S : TRUE
        BY <3>2, <1>1, <1>4, KeySetShape
      <4>2. cached'[k] \in answer'[c] /\ cached'[k].has = request[c].want
        BY <3>2, <1>3
      <4>3. QED
        BY <4>2
    <3>3. ASSUME kind = "padding", NEW x \in request[c].want
          PROVE  \E e \in answer'[c] : x \in e.has
      <4>1. ByChecksum(request[c])
        BY <3>3 DEF ByChecksum
      <4>2. <<x, request[c].of>> \in S
        BY <4>1, <3>3, <1>1, <1>4, KeySetShape
      <4>3. cached'[<<x, request[c].of>>] \in answer'[c] /\ x \in cached'[<<x, request[c].of>>].has
        BY <4>2, <3>3, <1>3
      <4>4. QED
        BY <4>3
    <3>4. QED
      BY <2>2, <3>1, <3>2, <3>3
  <2>3. CASE d # c
    BY <2>1, <2>3, <1>3 DEF IInv, AnswerSuffices
  <2>4. QED
    BY <2>2, <2>3
<1>13. QED
  BY <1>6, <1>7, <1>8, <1>9, <1>10, <1>11, <1>12 DEF IInv

LEMMA StoreInv ==
    ASSUME IInv, NEW c \in Calls, Store(c)
    PROVE  IInv'
<1>1. /\ pc[c] = "read"
      /\ UNCHANGED <<kind, content, known, request, stats, started>>
      /\ pc' = [pc EXCEPT ![c] = "done"] /\ read' = [read EXCEPT ![c] = None]
      /\ request[c] \in Requests
      /\ request[c].want \in SUBSET Checksums
  BY RequestShape DEF Store, IInv, CallOK
<1>2. CASE kind = "padding" /\ Paddings(c)
  <2> DEFINE S == KeySet(request[c]) \ {PathKey}
             f == [k \in S |-> Result(c, {k[1]}, TRUE)]
  <2>1. S = Replaced(c) /\ S \subseteq Keys /\ \A k \in S : {k[1]} \in SUBSET Checksums
    BY <1>1, <1>2, KeySetShape DEF Replaced
  <2>2. \A k \in S : f[k] = Result(c, {k[1]}, TRUE)
    OBVIOUS
  <2>3. \A k \in S :
           f[k] \in Entries /\ f[k].stamp = stats[c] /\ f[k].of = read[c] /\ f[k].has = {k[1]}
    BY <1>1, <2>1, <2>2, ResultShape
  <2>4. /\ cached' = [k \in Keys |-> IF k \in S THEN f[k] ELSE cached[k]]
        /\ answer' = [answer EXCEPT ![c] = {f[k] : k \in S}]
    BY <1>2 DEF Paddings
  <2> HIDE DEF S, f
  <2>5. /\ \A k \in S : cached'[k] = f[k]
        /\ \A k \in Keys \ S : cached'[k] = cached[k]
        /\ cached' \in [Keys -> Entries \cup {None}]
    BY <2>1, <2>3, <2>4 DEF IInv, TypeOK
  <2>6. {f[k] : k \in S} = {cached'[k] : k \in Replaced(c)}
    BY <2>1, <2>5
  <2>7. \A k \in Replaced(c) :
           /\ cached'[k] \in Entries
           /\ cached'[k].stamp = stats[c] /\ cached'[k].of = read[c]
           /\ kind \in {"file", "archive"} => cached'[k].has = request[c].want
           /\ kind = "padding" => cached'[k].has = {k[1]}
           /\ kind \in {"name", "tz"} => UpToDate(cached'[k])
           /\ kind = "archive" /\ ~(request[c].want \subseteq Quick) => cached'[k].found
    BY <1>2, <2>1, <2>3, <2>5
  <2>8. answer' = [answer EXCEPT ![c] = {cached'[k] : k \in Replaced(c)}]
    BY <2>4, <2>6
  <2>9. QED
    BY <1>1, <2>1, <2>5, <2>7, <2>8, StoreKeepsInv
<1>3. ASSUME kind # "padding", NEW found \in BOOLEAN,
             found => kind = "tz" \/ Found(c), kind # "tz" => found = Found(c),
             kind = "tz" /\ found => Found(c),
             Remember(c, Result(c, request[c].want, found))
      PROVE  IInv'
  <2>1. kind = "archive" => found = ~(request[c].want \subseteq Quick)
    BY <1>3 DEF Found
  <2>2. kind \in {"name", "tz"} /\ found => Recognised(read[c])
    BY <1>3 DEF Found
  <2> DEFINE e == Result(c, request[c].want, found)
  <2>3. /\ e \in Entries /\ e.stamp = stats[c] /\ e.of = read[c]
        /\ e.has = request[c].want /\ e.found = found
        /\ kind \in {"name", "tz"} => UpToDate(e)
        /\ kind = "archive" /\ ~(request[c].want \subseteq Quick) => e.found
    BY <1>1, <1>3, <2>1, <2>2, ResultShape
  <2>4. /\ Replaced(c) = KeySet(request[c])
        /\ KeySet(request[c]) # {} /\ KeySet(request[c]) \subseteq Keys
    BY <1>1, <1>3, KeySetShape DEF Replaced
  <2>5. /\ cached' = [k \in Keys |-> IF k \in KeySet(request[c]) THEN e ELSE cached[k]]
        /\ answer' = [answer EXCEPT ![c] = {e}]
    BY <1>3 DEF Remember
  <2> HIDE DEF e
  <2>6. /\ \A k \in Replaced(c) : cached'[k] = e
        /\ \A k \in Keys \ Replaced(c) : cached'[k] = cached[k]
        /\ cached' \in [Keys -> Entries \cup {None}]
    BY <2>3, <2>4, <2>5 DEF IInv, TypeOK
  <2>7. {cached'[k] : k \in Replaced(c)} = {e}
    BY <2>4, <2>6
  <2>8. \A k \in Replaced(c) :
           /\ cached'[k] \in Entries
           /\ cached'[k].stamp = stats[c] /\ cached'[k].of = read[c]
           /\ kind \in {"file", "archive"} => cached'[k].has = request[c].want
           /\ kind = "padding" => cached'[k].has = {k[1]}
           /\ kind \in {"name", "tz"} => UpToDate(cached'[k])
           /\ kind = "archive" /\ ~(request[c].want \subseteq Quick) => cached'[k].found
    BY <1>3, <2>3, <2>6
  <2>9. answer' = [answer EXCEPT ![c] = {cached'[k] : k \in Replaced(c)}]
    BY <2>5, <2>7
  <2>10. QED
    BY <1>1, <2>6, <2>8, <2>9, StoreKeepsInv
<1>4. Found(c) \in BOOLEAN
  <2>1. CASE kind = "archive"
    BY <2>1 DEF Found
  <2>2. CASE kind \in {"name", "tz"}
    BY <2>2 DEF Found, Recognised
  <2>3. CASE kind \notin {"archive", "name", "tz"}
    BY <2>3 DEF Found
  <2>4. QED
    BY <2>1, <2>2, <2>3
<1>5. CASE kind # "padding" /\ Remember(c, Result(c, request[c].want, Found(c)))
  BY <1>3, <1>4, <1>5
<1>6. CASE kind = "tz" /\ Remember(c, Result(c, request[c].want, FALSE))
  BY <1>3, <1>6
<1>7. QED
  BY <1>2, <1>5, <1>6 DEF Store

LEMMA FailInv ==
    ASSUME IInv, NEW c \in Calls, Fail(c)
    PROVE  IInv'
<1>1. /\ UNCHANGED <<kind, content, known, cached, read, answer>>
      /\ pc[c] = "computing"
      /\ pc' = [pc EXCEPT ![c] = "idle"]
      /\ request' = [request EXCEPT ![c] = NoRequest]
      /\ stats' = [stats EXCEPT ![c] = None]
      /\ started' = [started EXCEPT ![c] = 0]
      /\ TypeOK /\ CallOK
  BY DEF Fail, IInv
<1>2. Requests' = Requests /\ \A r : ByChecksum(r)' = ByChecksum(r)
  BY <1>1 DEF Requests, ByChecksum
<1>3. /\ pc'[c] = "idle" /\ stats'[c] = None /\ started'[c] = 0
      /\ \A d \in Calls \ {c} :
            /\ pc'[d] = pc[d] /\ request'[d] = request[d] /\ stats'[d] = stats[d]
            /\ started'[d] = started[d] /\ answer'[d] = answer[d]
  BY <1>1 DEF TypeOK
<1>4. TypeOK'
  BY <1>1, <1>2, ConstantTypes DEF TypeOK, PcStates
<1>5. CallOK'
  <2>1. content \in Nat
    BY <1>1, ConstantTypes DEF TypeOK
  <2>2. QED
    BY <2>1, <1>1, <1>2, <1>3 DEF CallOK
<1>6. QED
  BY <1>1, <1>3, <1>4, <1>5, StartOrRest

LEMMA EditInv ==
    ASSUME IInv, Edit
    PROVE  IInv'
<1>1. /\ UNCHANGED <<kind, known, cached, pc, request, stats, started, read, answer>>
      /\ content' = content + 1 /\ content' \in Contents
      /\ TypeOK /\ CallOK
  BY DEF Edit, callVars, IInv
<1>2. /\ Requests' = Requests
      /\ \A r : KeySet(r)' = KeySet(r) /\ ByChecksum(r)' = ByChecksum(r)
      /\ \A e : UpToDate(e)' <=> UpToDate(e)
  BY <1>1 DEF Requests, KeySet, ByChecksum, UpToDate, Recognised
<1>3. TypeOK'
  BY <1>1, <1>2 DEF TypeOK
<1>4. CallOK'
  <2>1. content \in Nat /\ \A c \in Calls : started[c] \in Nat
    BY <1>1, ConstantTypes DEF TypeOK
  <2>2. \A c \in Calls : started[c] <= content'
    BY <2>1, <1>1 DEF CallOK
  <2>3. QED
    BY <2>2, <1>1, <1>2 DEF CallOK
<1>5. CachedOK' /\ FetchesApart' /\ AnsweredOK' /\ AnswerIsCurrent' /\ AnswerSuffices'
  BY <1>1, <1>2
     DEF IInv, CachedOK, FetchesApart, AnsweredOK, AnswerIsCurrent, AnswerSuffices
<1>6. QED
  BY <1>3, <1>4, <1>5 DEF IInv

LEMMA UpgradeInv ==
    ASSUME IInv, Upgrade
    PROVE  IInv'
<1>1. /\ UNCHANGED <<kind, content, read>>
      /\ known' \in Programs
      /\ cached' \in {cached, Forgotten}
      /\ pc' = [c \in Calls |-> "idle"]
      /\ request' = [c \in Calls |-> NoRequest]
      /\ stats' = [c \in Calls |-> None]
      /\ started' = [c \in Calls |-> 0]
      /\ answer' = [c \in Calls |-> {}]
      /\ \A c \in Calls : pc[c] \in Resting
      /\ TypeOK /\ CallOK
  BY DEF Upgrade, IInv
<1>2. \A c \in Calls : pc'[c] = "idle" /\ stats'[c] = None /\ started'[c] = 0 /\ read'[c] = None
  BY <1>1 DEF CallOK, Resting
<1>3. TypeOK'
  BY <1>1, ConstantTypes DEF TypeOK, PcStates, Forgotten
<1>4. CachedOK'
  BY <1>1 DEF IInv, CachedOK, Forgotten
<1>5. CallOK'
  <2>1. content \in Nat
    BY <1>1, ConstantTypes DEF TypeOK
  <2>2. QED
    BY <2>1, <1>1, <1>2 DEF CallOK
<1>6. FetchesApart' /\ AnsweredOK' /\ AnswerIsCurrent' /\ AnswerSuffices'
  BY <1>2 DEF FetchesApart, AnsweredOK, AnswerIsCurrent, AnswerSuffices
<1>7. QED
  BY <1>3, <1>4, <1>5, <1>6 DEF IInv

LEMMA InitInv == Init => IInv
<1> SUFFICES ASSUME Init PROVE IInv
  OBVIOUS
<1>1. TypeOK
  BY ConstantTypes DEF Init, TypeOK, PcStates, Forgotten
<1>2. CallOK
  <2>1. \A c \in Calls : /\ pc[c] = "idle" /\ stats[c] = None /\ started[c] = 0
                         /\ read[c] = None
    BY DEF Init
  <2>2. content = 0 /\ 0 <= 0
    BY DEF Init
  <2>3. QED
    BY <2>1, <2>2 DEF CallOK
<1>3. CachedOK /\ FetchesApart /\ AnsweredOK /\ AnswerIsCurrent /\ AnswerSuffices
  BY DEF Init, CachedOK, FetchesApart, AnsweredOK, AnswerIsCurrent, AnswerSuffices, Forgotten
<1>4. QED
  BY <1>1, <1>2, <1>3 DEF IInv

LEMMA NextInv == IInv /\ [Next]_vars => IInv'
<1> SUFFICES ASSUME IInv, [Next]_vars PROVE IInv'
  OBVIOUS
<1>1. ASSUME NEW c \in Calls, NEW r \in Requests, Begin(c, r) PROVE IInv'
  BY <1>1, BeginInv
<1>2. ASSUME NEW c \in Calls, Check(c) PROVE IInv'
  BY <1>2, AnswerOrInv DEF Check
<1>3. ASSUME NEW c \in Calls, Lock(c) PROVE IInv'
  BY <1>3, AnswerOrInv DEF Lock
<1>4. ASSUME NEW c \in Calls, Read(c) PROVE IInv'
  BY <1>4, ReadInv
<1>5. ASSUME NEW c \in Calls, Store(c) PROVE IInv'
  BY <1>5, StoreInv
<1>6. ASSUME NEW c \in Calls, Fail(c) PROVE IInv'
  BY <1>6, FailInv
<1>7. CASE Edit
  BY <1>7, EditInv
<1>8. CASE Upgrade
  BY <1>8, UpgradeInv
<1>9. CASE UNCHANGED vars
  <2>1. UNCHANGED <<kind, content, known, cached, pc, request, stats, started, read, answer>>
    BY <1>9 DEF vars, callVars
  <2>2. /\ Requests' = Requests
        /\ \A r : KeySet(r)' = KeySet(r) /\ ByChecksum(r)' = ByChecksum(r)
        /\ \A e : UpToDate(e)' <=> UpToDate(e)
    BY <2>1 DEF Requests, KeySet, ByChecksum, UpToDate, Recognised
  <2>3. TypeOK' /\ CachedOK' /\ CallOK' /\ FetchesApart'
    BY <2>1, <2>2 DEF IInv, TypeOK, CachedOK, CallOK, FetchesApart
  <2>4. AnsweredOK' /\ AnswerIsCurrent' /\ AnswerSuffices'
    BY <2>1, <2>2 DEF IInv, AnsweredOK, AnswerIsCurrent, AnswerSuffices
  <2>5. QED
    BY <2>3, <2>4 DEF IInv
<1>10. QED
  BY <1>1, <1>2, <1>3, <1>4, <1>5, <1>6, <1>7, <1>8, <1>9 DEF Next

-----------------------------------------------------------------------------
(* The theorems.                                                             *)

\* The lookups, the upgrades and the changes of the file keep the inductive invariant.
THEOREM InductiveInvariant == Spec => []IInv
<1>1. QED
  BY InitInv, NextInv, PTL DEF Spec

\* Every variable has the type its declaration gives it.
THEOREM TypeCorrect == Spec => []TypeOK
<1>1. IInv => TypeOK
  BY DEF IInv
<1>2. QED
  BY <1>1, InductiveInvariant, PTL

\* A lookup by path tells what the file held since it was asked, or something of the
\* same size and second: fileCache.ts takes the stamp before it reads.
THEOREM AnswersAreCurrent == Spec => []AnswerIsCurrent
<1>1. IInv => AnswerIsCurrent
  BY DEF IInv
<1>2. QED
  BY <1>1, InductiveInvariant, PTL

\* An answer has every checksum that was asked for, whatever calls that asked for
\* fewer have put under the same key.
THEOREM AnswersSuffice == Spec => []AnswerSuffices
<1>1. IInv => AnswerSuffices
  BY DEF IInv
<1>2. QED
  BY <1>1, InductiveInvariant, PTL

-----------------------------------------------------------------------------
(* Fetching once.                                                            *)

\* A call starts to fetch in one way.
LEMMA OnlyLockFetches ==
    ASSUME IInv, [Next]_vars, NEW c \in Calls, pc[c] = "locking", pc'[c] = "computing"
    PROVE  Lock(c)
<1>1. pc \in [Calls -> PcStates]
  BY DEF IInv, TypeOK
<1>2. ASSUME NEW x \in Calls, NEW v, pc' = [pc EXCEPT ![x] = v], x # c \/ v # "computing"
      PROVE  FALSE
  BY <1>1, <1>2
<1>3. ASSUME NEW x \in Calls, NEW r \in Requests, Begin(x, r) PROVE FALSE
  BY <1>2, <1>3 DEF Begin
<1>4. ASSUME NEW x \in Calls, Check(x) PROVE FALSE
  BY <1>2, <1>4 DEF Check, AnswerOr
<1>5. ASSUME NEW x \in Calls, Lock(x) PROVE x = c
  BY <1>2, <1>5 DEF Lock, AnswerOr
<1>6. ASSUME NEW x \in Calls, Read(x) PROVE FALSE
  BY <1>2, <1>6 DEF Read
<1>7. ASSUME NEW x \in Calls, Store(x) PROVE FALSE
  BY <1>2, <1>7 DEF Store
<1>8. ASSUME NEW x \in Calls, Fail(x) PROVE FALSE
  BY <1>2, <1>8 DEF Fail
<1>9. ASSUME Edit PROVE FALSE
  BY <1>9 DEF Edit, callVars
<1>10. ASSUME Upgrade PROVE FALSE
  BY <1>10 DEF Upgrade
<1>11. ASSUME UNCHANGED vars PROVE FALSE
  BY <1>11 DEF vars, callVars
<1>12. QED
  BY <1>3, <1>4, <1>5, <1>6, <1>7, <1>8, <1>9, <1>10, <1>11 DEF Next

\* A call that asks what another was answered finds the other's entry.
LEMMA AnswersAreShared ==
    ASSUME IInv, NEW c \in Calls, NEW d \in Calls, pc[d] = "done", answer[d] # {},
           ~request[c].force, request[d] = request[c], stats[d] = stats[c],
           \A e \in answer[d] : /\ ~(kind = "archive" /\ ~e.found)
                                /\ \E k \in Keys : cached[k] = e
    PROVE  Served(c) # {}
<1>1. /\ request[d] \in Requests /\ request[c] \in Requests /\ kind \in AllKinds
      /\ stats[d] = None <=> ByChecksum(request[d]) \/ kind = "padding"
      /\ answer[d] \in SUBSET Entries
  BY RequestsAssumption DEF IInv, CallOK, TypeOK
<1>2. CASE stats[d] # None
  <2>1. KeySet(request[c]) = {PathKey} /\ kind # "padding"
    BY <1>1, <1>2, KeySetShape
  <2>2. PICK e \in answer[d] : e \in Entries /\ e # None
    BY <1>1, ConstantTypes
  <2>3. PICK k \in Keys : cached[k] = e
    OBVIOUS
  <2>4. e.stamp = stats[c] /\ e.stamp # None
    BY <1>2, <2>2 DEF IInv, AnsweredOK
  <2>5. k = PathKey
    BY <2>2, <2>3, <2>4 DEF IInv, CachedOK
  <2>6. ~Changed(c, e)
    BY <2>4 DEF Changed
  <2>7. ASSUME kind \in {"file", "archive"} PROVE ~ShouldRecompute(c, e)
    <3>1. request[c].want \subseteq e.has /\ (kind = "archive" => e.found)
      BY <2>7 DEF IInv, AnsweredOK
    <3>2. CASE kind = "file"
      BY <3>1, <3>2, <2>6 DEF ShouldRecompute, RecomputeFile
    <3>3. CASE kind = "archive"
      BY <3>1, <3>3, <2>6 DEF ShouldRecompute, RecomputeArchive
    <3>4. QED
      BY <3>2, <3>3, <2>7
  <2>8. ASSUME kind \in {"name", "tz"} PROVE ~ShouldRecompute(c, e)
    <3>1. UpToDate(e)
      BY <2>8, <1>2 DEF IInv, AnsweredOK
    <3>2. ~RecomputeName(c, e)
      BY <3>1, <2>6 DEF RecomputeName, UpToDate
    <3>3. QED
      BY <3>2, <2>8 DEF ShouldRecompute, RecomputeValidation
  <2>9. ~ShouldRecompute(c, e)
    BY <1>1, <2>1, <2>7, <2>8 DEF AllKinds
  <2>10. QED
    BY <2>1, <2>2, <2>3, <2>5, <2>9, ServedByPath
<1>3. CASE stats[d] = None /\ kind = "padding"
  <2>1. \A k \in KeySet(request[c]) : cached[k] # None
    BY <1>1, <1>3, KeySetShape DEF IInv, AnsweredOK
  <2>2. KeySet(request[c]) # {}
    BY <1>1, KeySetShape
  <2>3. QED
    BY <2>1, <2>2, <1>3 DEF Served, AllOf
<1>4. CASE stats[d] = None /\ kind # "padding"
  <2> DEFINE held == {k \in KeySet(request[c]) : cached[k] # None}
  <2>1. ByChecksum(request[c]) /\ kind = "name"
    BY <1>1, <1>4 DEF ByChecksum
  <2>2. /\ held # {}
        /\ \A k \in held : UpToDate(cached[k]) \/ \E l \in held : Before(l, k)
    BY <1>4, <2>1 DEF IInv, AnsweredOK
  <2>3. PICK k \in held : \A m \in held : ~Before(m, k)
    BY <1>1, <2>1, <2>2, SomethingIsFirst
  <2>4. UpToDate(cached[k])
    BY <2>2, <2>3
  <2>5. ~Changed(c, cached[k])
    BY <1>4 DEF Changed
  <2>6. ~ShouldRecompute(c, cached[k])
    BY <2>1, <2>4, <2>5 DEF ShouldRecompute, RecomputeName, UpToDate
  <2>7. QED
    BY <2>3, <2>6, <1>4 DEF Served, AnyOf
<1>5. QED
  BY <1>2, <1>3, <1>4

LEMMA NoSecondFetch ==
    ASSUME IInv, [Next]_vars, NEW c \in Calls, NEW d \in Calls, c # d,
           pc[c] = "locking", pc'[c] = "computing", ~request[c].force,
           request[d] = request[c], stats[d] = stats[c]
    PROVE  /\ pc[d] \notin {"computing", "read"}
           /\ pc[d] = "done" /\ answer[d] # {} =>
                 \E e \in answer[d] :
                    (kind = "archive" /\ ~e.found) \/ \A k \in Keys : cached[k] # e
<1>1. Lock(c)
  BY OnlyLockFetches
<1>2. pc[d] \notin {"computing", "read"}
  <2>1. request[c] \in Requests
    BY DEF IInv, CallOK
  <2>2. KeySet(request[c]) \cap KeySet(request[d]) # {}
    BY <2>1, KeySetShape
  <2>3. QED
    BY <1>1, <2>2 DEF Lock, Unlocked
<1>3. Served(c) = {}
  BY <1>1 DEF Lock, AnswerOr, IInv, TypeOK
<1>4. QED
  BY <1>2, <1>3, AnswersAreShared

\* A call never fetches what the same call fetches or has fetched: the lock of
\* cache.ts is held while it computes, and it looks again once it has it.
THEOREM FetchesOnce == Spec => FetchedOnce
<1>1. IInv /\ [Next]_vars =>
         [\A c, d \in Calls :
             /\ c # d
             /\ pc[c] = "locking" /\ pc'[c] = "computing" /\ ~request[c].force
             /\ request[d] = request[c] /\ stats[d] = stats[c]
             => /\ pc[d] \notin {"computing", "read"}
                /\ pc[d] = "done" /\ answer[d] # {} =>
                      \E e \in answer[d] :
                         (kind = "archive" /\ ~e.found) \/ \A k \in Keys : cached[k] # e]_vars
  BY NoSecondFetch
<1>2. QED
  BY <1>1, InductiveInvariant, PTL DEF Spec, FetchedOnce

=============================================================================
