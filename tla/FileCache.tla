------------------------------ MODULE FileCache -------------------------------
(***************************************************************************)
(* Remembering what files hold: src/src/cache/fileCache.ts over the lookups *)
(* of src/src/cache/cache.ts, for one file that changes while it is looked  *)
(* at, and a program that is upgraded from time to time.                    *)
(*                                                                          *)
(* The file's contents are numbered in the order in which it has them; its  *)
(* size and its modification time in seconds, all that the cache compares,  *)
(* are one stamp.  An entry remembers which content was read, and so stands *)
(* for whatever was found out about it.                                     *)
(*                                                                          *)
(* The five lookups use keys of their own, so a behaviour is about one of   *)
(* them.  The keyed mutex is taken as KeyedMutex.tla shows it to be.  Early *)
(* returns for empty files are left out, and so are reads that see half of  *)
(* a change.                                                                *)
(***************************************************************************)
EXTENDS Integers, Sequences

CONSTANTS
    Calls,          \* the lookups that may be in flight together
    Kinds,          \* file, archive, tz, name, padding
    LastContent,    \* bound: the file changes this often
    Scanned,        \* the contents a File was made of, 0 among them
    StampOf,        \* StampOf[v]: size and mtimeS of the file with content v
    ChecksumOrder,  \* the checksums, in the order of ChecksumBitmask
    Wants,          \* the sets of checksums asked for
    Quick,          \* a scan for no more than these may not see an archive's entries
    LastProgram,    \* bound: how many different programs there are
    Since,          \* Since[v]: the first program to recognise content v
    None

Contents == 0..LastContent
Programs == 1..LastProgram   \* each knows other headers, signatures, ...
Checksums == {ChecksumOrder[i] : i \in DOMAIN ChecksumOrder}
AllKinds == {"file", "archive", "tz", "name", "padding"}
Stamps == {StampOf[v] : v \in Contents}
Entries == [stamp : Stamps \cup {None}, of : Contents, has : SUBSET Checksums,
            found : BOOLEAN, known : Programs \cup {None}]

ASSUME ContentsAssumption ==
    /\ LastContent \in Nat
    /\ 0 \in Scanned /\ Scanned \subseteq Contents
    /\ StampOf \in [Contents -> Nat]
    /\ \A v, w \in Contents : v < w => StampOf[v] <= StampOf[w]
ASSUME ProgramsAssumption ==
    /\ LastProgram \in Nat \ {0}
    /\ Since \in [Contents -> Nat]
ASSUME RequestsAssumption ==
    /\ Kinds \subseteq AllKinds
    /\ Wants \subseteq SUBSET Checksums
    /\ Quick \subseteq Checksums
    /\ None \notin Nat \cup Entries
    /\ "path" \notin Checksums
    /\ ChecksumOrder \in Seq(Checksums)
    /\ \A i, j \in DOMAIN ChecksumOrder : ChecksumOrder[i] = ChecksumOrder[j] => i = j

VARIABLES
    kind,      \* the lookup this behaviour is about
    content,   \* what the file holds
    known,     \* which program runs
    cached,    \* keyValues: an entry per key, or None
    pc,        \* how far each call is
    request,   \* what each call asks for
    stats,     \* the stamp each call's stat() saw, or None
    started,   \* history: the content when stat() was called
    read,      \* the content the call has read, or None
    answer     \* the entries the call was answered with

callVars == <<pc, request, stats, started, read, answer>>
vars == <<kind, content, known, cached, callVars>>

PcStates == {"idle", "checking", "locking", "computing", "read", "done"}
Resting == {"idle", "done"}

\* force: CacheMode.IGNORE_CACHED_VALUE; of: the content the File stands for, where
\* that is what the lookup goes by.
Requests ==
    {r \in [want : Wants, force : BOOLEAN, of : Scanned] :
        /\ kind \in {"file", "archive", "tz"} => r.of = 0
        /\ kind \in {"name", "padding"} => ~r.force
        /\ kind = "tz" => r.want = {}}
PathKey == <<"path", 0>>
Keys == {PathKey} \cup (Checksums \X Scanned)

\* What a name or a padding is found under: the checksums of the file, or its path
\* if it has none.
ByChecksum(r) == kind \in {"name", "padding"} /\ r.want # {}
KeySet(r) == IF ByChecksum(r) THEN r.want \X {r.of} ELSE {PathKey}

\* The order in which the checksums of a file are looked up.
Before(k, l) ==
    \E i, j \in DOMAIN ChecksumOrder :
        i < j /\ k[1] = ChecksumOrder[i] /\ l[1] = ChecksumOrder[j]

Forgotten == [k \in Keys |-> None]
NoRequest == [want |-> {}, force |-> FALSE, of |-> 0]

Init ==
    /\ kind \in Kinds
    /\ content = 0
    /\ known = 1
    /\ cached = Forgotten
    /\ pc = [c \in Calls |-> "idle"]
    /\ request = [c \in Calls |-> NoRequest]
    /\ stats = [c \in Calls |-> None]
    /\ started = [c \in Calls |-> 0]
    /\ read = [c \in Calls |-> None]
    /\ answer = [c \in Calls |-> {}]

-----------------------------------------------------------------------------
(* shouldRecompute(): is an entry no answer to the request of c?             *)

Changed(c, e) == stats[c] # None /\ e.stamp # stats[c]
Recognised(v) == Since[v] <= known

RecomputeFile(c, e) ==
    request[c].force \/ Changed(c, e) \/ ~(request[c].want \subseteq e.has)

\* Mutant: no entries have all checksums.
RecomputeArchiveVacuously(c, e) ==
    \/ request[c].force
    \/ Changed(c, e)
    \/ e.found /\ ~(request[c].want \subseteq e.has)

\* An archive without entries is always looked at again.
RecomputeArchive(c, e) ==
    \/ request[c].force
    \/ Changed(c, e)
    \/ ~e.found
    \/ ~(request[c].want \subseteq e.has)

\* "Not found" holds as long as the program knows the same; a name, as long as
\* the program knows it.
RecomputeName(c, e) ==
    \/ Changed(c, e)
    \/ ~e.found /\ e.known # known
    \/ e.found /\ ~Recognised(e.of)

RecomputeValidation(c, e) == request[c].force \/ RecomputeName(c, e)

ShouldRecompute(c, e) ==
    CASE kind = "file"    -> RecomputeFile(c, e)
      [] kind = "archive" -> RecomputeArchive(c, e)
      [] kind = "name"    -> RecomputeName(c, e)
      [] kind = "tz"      -> RecomputeValidation(c, e)

-----------------------------------------------------------------------------
(* The lookups of Cache: what they can answer without computing.             *)

\* getOrCompute() and getOrComputeAnyKeys(): the first key that has an entry.
AnyOf(c) ==
    LET held == {k \in KeySet(request[c]) : cached[k] # None}
    IN  {cached[k] : k \in {l \in held :
            (\A m \in held : ~Before(m, l)) /\ ~ShouldRecompute(c, cached[l])}}

\* getOrComputeAllKeys(): every key has an entry.
AllOf(c) ==
    LET found == {cached[k] : k \in KeySet(request[c])}
    IN  IF None \in found THEN {} ELSE found

Served(c) == IF kind = "padding" THEN AllOf(c) ELSE AnyOf(c)

-----------------------------------------------------------------------------
(* A call.                                                                   *)

\* stat(), where the entry is not found by checksum.
Begin(c, r) ==
    /\ pc[c] \in Resting
    /\ r.of <= content
    /\ pc' = [pc EXCEPT ![c] = "checking"]
    /\ request' = [request EXCEPT ![c] = r]
    /\ stats' = [stats EXCEPT ![c] =
         IF ~ByChecksum(r) /\ kind # "padding" THEN StampOf[content] ELSE None]
    /\ started' = [started EXCEPT ![c] = IF stats'[c] = None THEN 0 ELSE content]
    /\ answer' = [answer EXCEPT ![c] = {}]
    /\ UNCHANGED <<kind, content, known, cached, read>>

AnswerOr(c, state) ==
    /\ answer' = [answer EXCEPT ![c] = Served(c)]
    /\ pc' = [pc EXCEPT ![c] = IF Served(c) # {} THEN "done" ELSE state]
    /\ UNCHANGED <<kind, content, known, cached, request, stats, started, read>>

\* The fast path, without a lock.
Check(c) == pc[c] = "checking" /\ AnswerOr(c, "locking")

Unlocked(c) ==
    \A d \in Calls \ {c} :
        pc[d] \in {"computing", "read"} => KeySet(request[c]) \cap KeySet(request[d]) = {}

\* Mutant: no second look under the lock.
LockBlindly(c) ==
    /\ pc[c] = "locking"
    /\ Unlocked(c)
    /\ pc' = [pc EXCEPT ![c] = "computing"]
    /\ UNCHANGED <<kind, content, known, cached, request, stats, started, read, answer>>

\* All keys are locked: look again, the call that had them may have the answer.
Lock(c) == pc[c] = "locking" /\ Unlocked(c) /\ AnswerOr(c, "computing")

Read(c) ==
    /\ pc[c] = "computing"
    /\ pc' = [pc EXCEPT ![c] = "read"]
    /\ read' = [read EXCEPT ![c] = content]
    /\ UNCHANGED <<kind, content, known, cached, request, stats, started, answer>>

Found(c) ==
    CASE kind = "archive"        -> ~(request[c].want \subseteq Quick)
      [] kind \in {"name", "tz"} -> Recognised(read[c])
      [] OTHER                   -> TRUE

\* CacheValue.version, where a result depends on what the program knows.
Version == IF kind \in {"name", "tz"} THEN known ELSE None

\* Mutant: the stamp of the file after it was read.
ResultRestat(c, has, found) ==
    [stamp |-> IF stats[c] = None THEN None ELSE StampOf[content],
     of |-> read[c], has |-> has, found |-> found, known |-> Version]

\* The entry: what was read, with the stamp the file had before.
Result(c, has, found) ==
    [stamp |-> stats[c], of |-> read[c], has |-> has, found |-> found, known |-> Version]

\* Each checksum's paddings under its own key; none under the path.
Paddings(c) ==
    LET results == [k \in KeySet(request[c]) \ {PathKey} |-> Result(c, {k[1]}, TRUE)]
    IN  /\ cached' = [k \in Keys |-> IF k \in DOMAIN results THEN results[k] ELSE cached[k]]
        /\ answer' = [answer EXCEPT ![c] = {results[k] : k \in DOMAIN results}]

\* One result under all the keys.
Remember(c, e) ==
    /\ cached' = [k \in Keys |-> IF k \in KeySet(request[c]) THEN e ELSE cached[k]]
    /\ answer' = [answer EXCEPT ![c] = {e}]

\* A validation that fails for whatever reason is INVALID, and is remembered.
Store(c) ==
    /\ pc[c] = "read"
    /\ pc' = [pc EXCEPT ![c] = "done"]
    /\ \/ kind = "padding" /\ Paddings(c)
       \/ kind # "padding" /\ Remember(c, Result(c, request[c].want, Found(c)))
       \/ kind = "tz" /\ Remember(c, Result(c, request[c].want, FALSE))
    /\ read' = [read EXCEPT ![c] = None]
    /\ UNCHANGED <<kind, content, known, request, stats, started>>

\* Anything else that fails leaves the cache alone and is thrown.
Fail(c) ==
    /\ pc[c] = "computing"
    /\ kind # "tz"
    /\ pc' = [pc EXCEPT ![c] = "idle"]
    /\ request' = [request EXCEPT ![c] = NoRequest]
    /\ stats' = [stats EXCEPT ![c] = None]
    /\ started' = [started EXCEPT ![c] = 0]
    /\ UNCHANGED <<kind, content, known, cached, read, answer>>

-----------------------------------------------------------------------------

\* Somebody, be it Igir's writer, changes the file.
Edit ==
    /\ content + 1 \in Contents
    /\ content' = content + 1
    /\ UNCHANGED <<kind, known, cached, callVars>>

\* Another program starts with the cache as it is on disk; loadFile() drops the
\* entries of older formats.
Upgrade ==
    /\ \A c \in Calls : pc[c] \in Resting
    /\ known' \in Programs \ {known}
    /\ cached' \in {cached, Forgotten}
    /\ pc' = [c \in Calls |-> "idle"]
    /\ request' = [c \in Calls |-> NoRequest]
    /\ stats' = [c \in Calls |-> None]
    /\ started' = [c \in Calls |-> 0]
    /\ answer' = [c \in Calls |-> {}]
    /\ UNCHANGED read
    /\ UNCHANGED <<kind, content>>

Next ==
    \/ \E c \in Calls :
          \/ \E r \in Requests : Begin(c, r)
          \/ Check(c) \/ Lock(c) \/ Read(c) \/ Store(c) \/ Fail(c)
    \/ Edit \/ Upgrade

Spec == Init /\ [][Next]_vars

-----------------------------------------------------------------------------
(* Properties                                                                *)

\* Every variable has the type its declaration gives it.
TypeOK ==
    /\ kind \in Kinds
    /\ content \in Contents
    /\ known \in Programs
    /\ cached \in [Keys -> Entries \cup {None}]
    /\ pc \in [Calls -> PcStates]
    /\ request \in [Calls -> Requests \cup {NoRequest}]
    /\ stats \in [Calls -> Stamps \cup {None}]
    /\ started \in [Calls -> Contents]
    /\ read \in [Calls -> Contents \cup {None}]
    /\ answer \in [Calls -> SUBSET Entries]

\* A lookup by path tells what the file held at some time since it was asked, or,
\* if it may use the cache, an earlier content that has the same size and second
\* of modification.  (The stamp is taken before the file is read, never after.)
AnswerIsCurrent ==
    \A c \in Calls :
        pc[c] = "done" /\ stats[c] # None =>
            \A e \in answer[c] :
                e.of >= started[c] \/ (~request[c].force /\ StampOf[e.of] = stats[c])

\* An answer has every checksum that was asked for, whatever other calls have put
\* in its place; an archive that a thorough scan sees the entries of has them.
AnswerSuffices ==
    \A c \in Calls :
        pc[c] = "done" =>
            /\ kind \in {"file", "archive", "padding"} =>
                  request[c].want \subseteq UNION {e.has : e \in answer[c]}
            /\ kind = "archive" /\ ~(request[c].want \subseteq Quick) =>
                  \A e \in answer[c] : e.found

\* "We're using the cache as a mutex here, so even if this function is called
\* multiple times concurrently, entries will only be fetched once": a call does
\* not fetch what the same call fetches or has fetched, unless it is told to,
\* another request has replaced it, or it was an archive without entries.
FetchedOnce ==
    [][\A c, d \in Calls :
          /\ c # d
          /\ pc[c] = "locking" /\ pc'[c] = "computing" /\ ~request[c].force
          /\ request[d] = request[c] /\ stats[d] = stats[c]
          => /\ pc[d] \notin {"computing", "read"}
             /\ pc[d] = "done" /\ answer[d] # {} =>
                   \E e \in answer[d] :
                      (kind = "archive" /\ ~e.found) \/ \A k \in Keys : cached[k] # e]_vars

=============================================================================
