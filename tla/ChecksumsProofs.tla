--------------------------- MODULE ChecksumsProofs ---------------------------
(***************************************************************************)
(* Theorems about Checksums, for any options, DATs and files, any tables of *)
(* archives and anything an earlier run left in the cache.  What reading a  *)
(* file gives is worked out format by format (ReadAnswers) and outlives the *)
(* cache and the constraints (ConstrainedIsTold): that is the invariant's   *)
(* part on files (ToldInv).  Its part on the mask (MaskInv) says that what  *)
(* a match needs was asked for.                                             *)
(***************************************************************************)
EXTENDS Checksums, FiniteSetTheorems, WellFoundedInduction, TLAPS

\* The kinds of checksum are four, of which CRC32 is the least.
LEMMA KindsAreFour == Kinds = {1, 2, 3, 4} /\ CRC32 \in Kinds
  BY DEF Kinds, CRC32, SHA256

\* Above CRC32, a checksum is of the file's bytes or stands for none.
Right(f, r) == \A k \in DOMAIN r \ {CRC32} : r[k] = f.content \/ r[k] = Junk

\* What reading f for the kinds promises: the kinds asked for and those of the table
\* are there, above CRC32 they are of the bytes, and the CRC32 is as well if the table
\* is true or if the bytes were read for it.
Answer(f, kinds, r) ==
  /\ DOMAIN r \subseteq Kinds
  /\ Right(f, r)
  /\ f.format # "nkit" => kinds \subseteq DOMAIN r
  /\ f.format \notin {"plain", "cso", "tar", "rvz"} => DOMAIN f.table \subseteq DOMAIN r
  /\ f.format \notin {"chdraw", "nkit"} => \A k \in DOMAIN r \ {CRC32} : r[k] = f.content
  /\ f.format \in {"chdraw", "nkit"} => \A k \in DOMAIN f.table : r[k] = f.table[k]
  /\ True(f.table, f.content) /\ CRC32 \in DOMAIN r
       => r[CRC32] = CrcOf[f.content] \/ (f.format = "chdraw" /\ r[CRC32] = Junk)
  /\ (CRC32 \in kinds \/ kinds = {}) /\ DOMAIN r \ {CRC32} # {} /\ CRC32 \in DOMAIN r
       => r[CRC32] = CrcOf[f.content] \/ (f.format = "chdraw" /\ r[CRC32] = Junk)

\* entryOf() calculates all the kinds asked for unless the table has them all.
Filled(f, kinds, table, r) ==
  /\ DOMAIN r = kinds \cup DOMAIN table
  /\ \A k \in DOMAIN r :
       r[k] = IF k \in kinds /\ ~ (kinds \subseteq DOMAIN table)
              THEN SumOf(k, f.content) ELSE table[k]

\* EntryOf() does what Filled says.
LEMMA EntryIs ==
  ASSUME NEW f, NEW kinds, NEW table, NEW r, r = EntryOf(f, kinds, table)
  PROVE  Filled(f, kinds, table, r)
<1>1. CASE kinds \subseteq DOMAIN table
  <2>1. r = table
    BY <1>1 DEF EntryOf
  <2> QED BY <1>1, <2>1 DEF Filled
<1>2. CASE ~ (kinds \subseteq DOMAIN table)
  <2>1. r = Over(Calculated(f.content, kinds), table)
    BY <1>2 DEF EntryOf
  <2> QED BY <1>2, <2>1 DEF Over, Calculated, Filled
<1> QED BY <1>1, <1>2

\* So it does with what a zip, a gzip or a RAR hands it.
LEMMA ReadWhenNeededIs ==
  ASSUME NEW f, NEW kinds, NEW table, DOMAIN table \subseteq {CRC32},
         NEW r, r = EntryOf(f, kinds, ReadWhenNeeded(f, kinds, table))
  PROVE  Filled(f, kinds, table, r)
<1>1. CASE kinds \ {CRC32} = {}
  <2>1. r = EntryOf(f, kinds, table)
    BY <1>1 DEF ReadWhenNeeded
  <2> QED BY <2>1, EntryIs
<1>2. CASE kinds \ {CRC32} # {}
  <2> DEFINE listed == Over(Calculated(f.content, kinds), table)
  <2>1. r = EntryOf(f, kinds, listed)
    BY <1>2 DEF ReadWhenNeeded
  <2>3. /\ DOMAIN listed = kinds \cup DOMAIN table
        /\ \A k \in DOMAIN listed :
             listed[k] = IF k \in kinds THEN SumOf(k, f.content) ELSE table[k]
    BY DEF Over, Calculated
  <2> HIDE DEF listed
  <2>4. r = listed
    BY <2>1, <2>3 DEF EntryOf
  <2>5. ~ (kinds \subseteq DOMAIN table)
    BY <1>2
  <2> QED BY <2>3, <2>4, <2>5 DEF Filled
<1> QED BY <1>1, <1>2

\* That is a promised answer for the formats with a table.
LEMMA FilledAnswers ==
  ASSUME NEW f, IsFile(f), f.format \in {"zip", "gz", "rar", "7z"}, NEW kinds \in SUBSET Kinds,
         NEW r, Filled(f, kinds, f.table, r)
  PROVE  Answer(f, kinds, r)
<1>1. DOMAIN f.table \subseteq {CRC32}
  BY DEF IsFile
<1>2. /\ DOMAIN r = kinds \cup DOMAIN f.table
      /\ \A k \in DOMAIN r : k # CRC32 => k \in kinds /\ r[k] = f.content
      /\ CRC32 \in DOMAIN r => r[CRC32] = CrcOf[f.content] \/ (CRC32 \in DOMAIN f.table /\ r[CRC32] = f.table[CRC32])
      /\ CRC32 \in kinds /\ ~ (kinds \subseteq DOMAIN f.table) => r[CRC32] = CrcOf[f.content]
  BY <1>1 DEF Filled, SumOf
<1>3. True(f.table, f.content) /\ CRC32 \in DOMAIN f.table => f.table[CRC32] = CrcOf[f.content]
  BY DEF True, SumOf
<1>4. (CRC32 \in kinds \/ kinds = {}) /\ DOMAIN r \ {CRC32} # {} /\ CRC32 \in DOMAIN r
        => r[CRC32] = CrcOf[f.content]
  BY <1>1, <1>2
<1> QED BY <1>1, <1>2, <1>3, <1>4, KindsAreFour DEF Answer, Right

\* Every format keeps the promise.
LEMMA ReadAnswers ==
  ASSUME NEW f, IsFile(f), NEW kinds \in SUBSET Kinds, NEW r, r = Read(f, kinds)
  PROVE  Answer(f, kinds, r)
<1>1. CASE f.format = "plain"
  BY <1>1, KindsAreFour DEF Read, Answer, Right, IsFile, Calculated, SumOf, True
<1>2. CASE f.format = "zip"
  <2>1. r = EntryOf(f, kinds, ReadWhenNeeded(f, kinds, f.table))
    BY <1>2 DEF Read, ZipListed
  <2>2. Filled(f, kinds, f.table, r)
    BY <1>2, <2>1, ReadWhenNeededIs DEF IsFile
  <2> QED BY <1>2, <2>2, FilledAnswers
<1>3. CASE f.format = "gz"
  <2>1. r = EntryOf(f, kinds, ReadWhenNeeded(f, kinds, f.table))
    BY <1>3 DEF Read, GzipListed
  <2>2. Filled(f, kinds, f.table, r)
    BY <1>3, <2>1, ReadWhenNeededIs DEF IsFile
  <2> QED BY <1>3, <2>2, FilledAnswers
<1>4. CASE f.format = "rar"
  <2>1. r = EntryOf(f, kinds, ReadWhenNeeded(f, kinds, f.table))
    BY <1>4 DEF Read, RarListed
  <2>2. Filled(f, kinds, f.table, r)
    BY <1>4, <2>1, ReadWhenNeededIs DEF IsFile
  <2> QED BY <1>4, <2>2, FilledAnswers
<1>5. CASE f.format = "cso"
  <2> DEFINE table == IF kinds = {} \/ CRC32 \in kinds THEN Calculated(f.content, {CRC32}) ELSE <<>>
  <2>1. r = EntryOf(f, kinds, ReadWhenNeeded(f, kinds, table))
    BY <1>5 DEF Read, MaxcsoListed
  <2>2. /\ DOMAIN table \subseteq {CRC32}
        /\ CRC32 \in DOMAIN table => table[CRC32] = CrcOf[f.content]
    BY DEF Calculated, SumOf
  <2> HIDE DEF table
  <2>3. /\ DOMAIN r = kinds \cup DOMAIN table
        /\ \A k \in DOMAIN r : k # CRC32 => r[k] = f.content
        /\ CRC32 \in DOMAIN r => r[CRC32] = CrcOf[f.content]
    <3>1. Filled(f, kinds, table, r)
      BY <2>1, <2>2, ReadWhenNeededIs
    <3> QED BY <2>2, <3>1 DEF Filled, SumOf
  <2> QED BY <1>5, <2>2, <2>3, KindsAreFour DEF Answer, Right
<1>6. CASE f.format = "tar"
  <2>1. r = EntryOf(f, kinds, TarListed(f, kinds))
    BY <1>6 DEF Read
  <2> QED BY <1>6, <2>1, KindsAreFour DEF Answer, Right, IsFile, Calculated, SumOf, True,
         EntryOf, TarListed, Over
<1>7. CASE f.format = "rvz"
  <2>1. r = EntryOf(f, kinds, DolphinListed(f, kinds))
    BY <1>7 DEF Read
  <2> QED BY <1>7, <2>1, KindsAreFour DEF Answer, Right, IsFile, Calculated, SumOf, True,
         EntryOf, DolphinListed, Over
<1>8. CASE f.format = "7z"
  <2>1. r = EntryOf(f, kinds, f.table)
    BY <1>8 DEF Read, SevenZipListed
  <2>2. Filled(f, kinds, f.table, r)
    BY <2>1, EntryIs
  <2> QED BY <1>8, <2>2, FilledAnswers
<1>9. CASE f.format = "chdraw"
  <2> DEFINE listed == ChdRawListed(f, kinds)
  <2>1. r = EntryOf(f, kinds, listed)
    BY <1>9 DEF Read
  <2>2. /\ DOMAIN listed = DOMAIN f.table \cup kinds
        /\ \A k \in DOMAIN listed : listed[k] = IF k \in DOMAIN f.table THEN f.table[k] ELSE Junk
    BY DEF ChdRawListed, Over
  <2> HIDE DEF listed
  <2>3. r = listed
    BY <2>1, <2>2 DEF EntryOf
  <2>4. DOMAIN f.table \subseteq {SHA1} /\ SHA1 # CRC32 /\ SHA1 \in Kinds
    BY <1>9, KindsAreFour DEF IsFile, SHA1, CRC32
  <2>5. SHA1 \in DOMAIN f.table => f.table[SHA1] = f.content
    BY DEF IsFile
  <2> QED BY <1>9, <2>2, <2>3, <2>4, <2>5, KindsAreFour DEF Answer, Right
<1>10. CASE f.format = "chddata"
  <2>1. r = EntryOf(f, kinds, f.table)
    BY <1>10 DEF Read, ChdDataListed
  <2>2. DOMAIN f.table \subseteq {SHA1} /\ SHA1 # CRC32 /\ SHA1 \in Kinds
    BY <1>10, KindsAreFour DEF IsFile, SHA1, CRC32
  <2>3. SHA1 \in DOMAIN f.table => f.table[SHA1] = f.content
    BY DEF IsFile
  <2>4. /\ DOMAIN r = kinds \cup DOMAIN f.table
        /\ \A k \in DOMAIN r : k # CRC32 => r[k] = f.content
        /\ CRC32 \in DOMAIN r => r[CRC32] = CrcOf[f.content]
    <3>1. Filled(f, kinds, f.table, r)
      BY <2>1, EntryIs
    <3> QED BY <2>2, <2>3, <3>1 DEF Filled, SumOf
  <2> QED BY <1>10, <2>2, <2>4, KindsAreFour DEF Answer, Right
<1>11. CASE f.format = "nkit"
  <2>1. r = NkitListed(f)
    BY <1>11 DEF Read
  <2> QED BY <1>11, <2>1, KindsAreFour DEF Answer, Right, IsFile, Calculated, SumOf, True,
         NkitListed, Over
<1> QED BY <1>1, <1>2, <1>3, <1>4, <1>5, <1>6, <1>7, <1>8, <1>9, <1>10, <1>11 DEF IsFile, Formats

\* An answer of the cache is one that an earlier run or this one was promised.
LEMMA FromCacheAnswers ==
  ASSUME NEW f, IsFile(f), NEW kinds \in SUBSET Kinds, NEW r, r = FromCache(f, kinds)
  PROVE  \E e \in f.earlier \cup {kinds} : Answer(f, e, r) /\ (e = kinds \/ kinds \subseteq DOMAIN r)
<1> DEFINE cached == {Read(f, e) : e \in f.earlier}
           enough == {sums \in cached : kinds \subseteq DOMAIN sums}
           answers == IF enough = {} THEN {Read(f, kinds)} ELSE enough
<1>1. r = CHOOSE sums \in answers : TRUE
  BY DEF FromCache
<1>2. answers # {}
  OBVIOUS
<1>3. r \in answers
  BY <1>1, <1>2
<1>4. CASE enough = {}
  <2>1. r = Read(f, kinds)
    BY <1>3, <1>4
  <2>2. Answer(f, kinds, r)
    BY <2>1, ReadAnswers
  <2> QED BY <2>2
<1>5. CASE enough # {}
  <2>1. PICK e \in f.earlier : r = Read(f, e) /\ kinds \subseteq DOMAIN r
    BY <1>3, <1>5
  <2>2. e \in SUBSET Kinds
    BY DEF IsFile
  <2>3. Answer(f, e, r)
    BY <2>1, <2>2, ReadAnswers
  <2> QED BY <2>1, <2>3
<1> QED BY <1>4, <1>5

\* Whether only the archive's table is looked at.
Quickly(f) == options.quick /\ IsArchive(f)

\* What is kept of a scanned file: no junk; above CRC32, checksums of the bytes; of the
\* kinds asked for those that the format can tell; and a CRC32 beside another checksum
\* that is of the bytes, if the file can be trusted.
Told(f, sums) ==
  /\ DOMAIN sums \subseteq Kinds
  /\ \A k \in DOMAIN sums \ {CRC32} : sums[k] = f.content
  /\ ~ Quickly(f) => DOMAIN sums \subseteq mask
  /\ True(f.table, f.content) =>
       \A k \in CanTell(f) :
         Quickly(f) \/ k \in mask => k \in DOMAIN sums /\ sums[k] = SumOf(k, f.content)
  /\ ~ Quickly(f) /\ Trusted(f) /\ CRC32 \in mask /\ DOMAIN sums \ {CRC32} # {} =>
       /\ CRC32 \in CanTell(f) => CRC32 \in DOMAIN sums
       /\ CRC32 \in DOMAIN sums => sums[CRC32] = CrcOf[f.content]

\* A checksum is not junk.
LEMMA SumsAreNotJunk ==
  ASSUME NEW f, IsFile(f)
  PROVE  /\ \A k \in Kinds : SumOf(k, f.content) # Junk
         /\ f.content # Junk /\ CrcOf[f.content] # Junk
<1>1. \A k \in Kinds : SumOf(k, f.content) # Junk
  BY JunkAssumption DEF IsFile
<1>2. {1, 2} \subseteq Kinds
  BY KindsAreFour
<1> QED BY <1>1, <1>2 DEF SumOf, CRC32

\* getFilesFromPaths() keeps just that of every file.
LEMMA ConstrainedIsTold ==
  ASSUME NEW f, IsFile(f), mask \in SUBSET Kinds,
         NEW sums, sums = Constrained(f, FromCache(f, KindsAsked(f)))
  PROVE  Told(f, sums)
<1> DEFINE r == FromCache(f, KindsAsked(f))
<1>1. KindsAsked(f) \in SUBSET Kinds
  BY DEF KindsAsked
<1>2. PICK e \in f.earlier \cup {KindsAsked(f)} :
        Answer(f, e, r) /\ (e = KindsAsked(f) \/ KindsAsked(f) \subseteq DOMAIN r)
  BY <1>1, FromCacheAnswers
<1>3. sums = Constrained(f, r)
  OBVIOUS
<1> HIDE DEF r
<1>4. /\ \A k \in DOMAIN sums : k \in DOMAIN r /\ sums[k] = r[k] /\ r[k] # Junk
      /\ \A k \in DOMAIN r : r[k] # Junk /\ (Quickly(f) \/ k \in mask) => k \in DOMAIN sums
  BY <1>3 DEF Constrained, Only, Known, Quickly
<1>5. ~ Quickly(f) => DOMAIN sums \subseteq mask
  BY <1>3 DEF Constrained, Only, Quickly
<1>6. DOMAIN sums \subseteq Kinds /\ \A k \in DOMAIN sums \ {CRC32} : sums[k] = f.content
  BY <1>2, <1>4 DEF Answer, Right
<1>7. ASSUME True(f.table, f.content), NEW k \in CanTell(f), Quickly(f) \/ k \in mask
      PROVE  k \in DOMAIN sums /\ sums[k] = SumOf(k, f.content)
  <2>1. CASE f.format \in {"chdraw", "nkit"}
    <3>1. k \in DOMAIN f.table
      BY <2>1 DEF CanTell
    <3>2. k \in DOMAIN r /\ r[k] = f.table[k]
      BY <1>2, <2>1, <3>1 DEF Answer
    <3>3. r[k] = SumOf(k, f.content)
      BY <1>7, <3>1, <3>2 DEF True
    <3>4. k \in Kinds
      BY <1>2, <3>2 DEF Answer
    <3> QED BY <1>4, <1>7, <3>2, <3>3, <3>4, SumsAreNotJunk
  <2>2. CASE f.format \notin {"chdraw", "nkit"}
    <3>1. k \in DOMAIN r
      <4>1. CASE Quickly(f)
        BY <1>2, <2>2, <4>1 DEF Answer, CanTell, Quickly, IsArchive
      <4>2. CASE ~ Quickly(f)
        BY <1>2, <1>7, <2>2, <4>2 DEF Answer, KindsAsked, Quickly
      <4> QED BY <4>1, <4>2
    <3>2. r[k] = SumOf(k, f.content)
      BY <1>2, <1>7, <2>2, <3>1 DEF Answer, SumOf
    <3>3. k \in Kinds
      BY <1>2, <3>1 DEF Answer
    <3> QED BY <1>4, <1>7, <3>1, <3>2, <3>3, SumsAreNotJunk
  <2> QED BY <2>1, <2>2
<1>8. ASSUME ~ Quickly(f), Trusted(f), CRC32 \in mask, DOMAIN sums \ {CRC32} # {}
      PROVE  /\ CRC32 \in CanTell(f) => CRC32 \in DOMAIN sums
             /\ CRC32 \in DOMAIN sums => sums[CRC32] = CrcOf[f.content]
  <2>1. DOMAIN r \ {CRC32} # {}
    BY <1>4, <1>8
  <2>2. CRC32 \in DOMAIN r => r[CRC32] = CrcOf[f.content] \/ (f.format = "chdraw" /\ r[CRC32] = Junk)
    <3>1. CASE True(f.table, f.content)
      BY <1>2, <1>8, <3>1 DEF Answer
    <3>2. CASE ~ True(f.table, f.content)
      <4>1. CRC32 \in e \/ e = {}
        BY <1>2, <1>8, <3>2 DEF Trusted, KindsAsked, Quickly
      <4> QED BY <1>2, <2>1, <4>1 DEF Answer
    <3> QED BY <3>1, <3>2
  <2>3. CRC32 \in DOMAIN sums => sums[CRC32] = CrcOf[f.content]
    BY <1>4, <2>2
  <2>4. ASSUME CRC32 \in CanTell(f)
        PROVE  CRC32 \in DOMAIN sums
    <3>1. CASE f.format \in {"chdraw", "nkit"}
      <4>1. CRC32 \in DOMAIN f.table
        BY <2>4, <3>1 DEF CanTell
      <4>2. f.format = "nkit"
        BY <3>1, <4>1 DEF IsFile, CRC32, SHA1
      <4>3. CRC32 \in DOMAIN r
        BY <1>2, <3>1, <4>1 DEF Answer
      <4>4. r[CRC32] # Junk
        BY <2>2, <4>2, <4>3, SumsAreNotJunk
      <4> QED BY <1>4, <1>8, <4>3, <4>4
    <3>2. CASE f.format \notin {"chdraw", "nkit"}
      <4>1. CRC32 \in DOMAIN r
        BY <1>2, <1>8, <3>2 DEF Answer, KindsAsked, Quickly
      <4>2. r[CRC32] # Junk
        BY <2>2, <3>2, <4>1, SumsAreNotJunk
      <4> QED BY <1>4, <1>8, <4>1, <4>2
    <3> QED BY <3>1, <3>2
  <2> QED BY <2>3, <2>4
<1> QED BY <1>5, <1>6, <1>7, <1>8 DEF Told

\* The list of a finite set has each of its members at an index of its own.
LEMMA ListIsOfAll ==
  ASSUME NEW S, IsFiniteSet(S), NEW files \in SetToSeqs(S)
  PROVE  /\ Cardinality(S) \in Nat /\ DOMAIN files = 1 .. Cardinality(S)
         /\ \A i \in DOMAIN files : files[i] \in S
         /\ \A s \in S : \E i \in DOMAIN files : files[i] = s
<1> DEFINE n == Cardinality(S)
<1>1. n \in Nat
  BY FS_CardinalityType
<1>2. /\ files \in [1 .. n -> S]
      /\ \A i, j \in 1 .. n : i # j => files[i] # files[j]
  BY DEF SetToSeqs
<1>3. Cardinality(1 .. n) = n
  <2> HIDE DEF n
  <2>1. 1 \in Int /\ n \in Int
    BY <1>1
  <2>2. Cardinality(1 .. n) = IF 1 > n THEN 0 ELSE n - 1 + 1
    BY <2>1, FS_Interval
  <2> QED BY <1>1, <2>2
<1>4. files \in Injection(1 .. n, S)
  BY <1>2 DEF Injection, IsInjective
<1>5. files \in Surjection(1 .. n, S)
  BY <1>3, <1>4, FS_Injection
<1> QED BY <1>1, <1>2, <1>5 DEF Surjection

\* A set of numbers with a bound has a greatest member.
LEMMA Largest ==
  ASSUME NEW n \in Nat, NEW T \in SUBSET (1 .. n), T # {}
  PROVE  \E x \in T : \A y \in T : y <= x
<1> DEFINE D == {n - x : x \in T}
<1>1. D \in SUBSET Nat /\ D # {}
  <2>1. \A x \in T : n - x \in Nat
    OBVIOUS
  <2> QED BY <2>1
<1>2. PICK d \in D : \A e \in D : <<e, d>> \notin OpToRel(<, Nat)
  BY <1>1, NatLessThanWellFounded, WFMin
<1>3. \A e \in D : ~ (e < d)
  BY <1>1, <1>2 DEF OpToRel
<1>4. PICK x \in T : d = n - x
  OBVIOUS
<1>5. ASSUME NEW y \in T PROVE y <= x
  <2>1. ~ (n - y < n - x)
    BY <1>3, <1>4
  <2> QED BY <2>1
<1> QED BY <1>5

\* A scanned file with a checksum of the kind that is the value.
Alike(s, kind, value) == kind \in DOMAIN s.sums /\ s.sums[kind] = value

\* Combined() has what some file alike tells, and all that any of them tells.
LEMMA CombinedIs ==
  ASSUME NEW S, IsFiniteSet(S), \A t \in S : DOMAIN t.sums \subseteq Kinds,
         NEW files \in SetToSeqs(S), NEW kind, NEW value, NEW c, c = Combined(files, kind, value)
  PROVE  /\ \A j \in DOMAIN c :
              \E t \in S : Alike(t, kind, value) /\ j \in DOMAIN t.sums /\ c[j] = t.sums[j]
         /\ \A t \in S : Alike(t, kind, value) => DOMAIN t.sums \subseteq DOMAIN c
<1> DEFINE alike == {i \in DOMAIN files : kind \in DOMAIN files[i].sums /\ files[i].sums[kind] = value}
           tell(j) == {i \in alike : j \in DOMAIN files[i].sums}
           last(j) == CHOOSE i \in tell(j) : \A l \in tell(j) : l <= i
<1>1. c = [j \in {k \in Kinds : tell(k) # {}} |-> files[last(j)].sums[j]]
  BY DEF Combined
<1>2. /\ Cardinality(S) \in Nat /\ DOMAIN files = 1 .. Cardinality(S)
      /\ \A i \in DOMAIN files : files[i] \in S
      /\ \A s \in S : \E i \in DOMAIN files : files[i] = s
  BY ListIsOfAll
<1>3. ASSUME NEW j \in DOMAIN c
      PROVE  \E t \in S : Alike(t, kind, value) /\ j \in DOMAIN t.sums /\ c[j] = t.sums[j]
  <2>1. tell(j) # {} /\ c[j] = files[last(j)].sums[j]
    BY <1>1, <1>3
  <2>2. tell(j) \in SUBSET (1 .. Cardinality(S))
    BY <1>2
  <2>3. \E i \in tell(j) : \A l \in tell(j) : l <= i
    <3> HIDE DEF tell
    <3> QED BY <1>2, <2>1, <2>2, Largest
  <2>4. last(j) \in tell(j)
    <3> HIDE DEF tell
    <3> QED BY <2>3
  <2>5. files[last(j)] \in S /\ Alike(files[last(j)], kind, value) /\ j \in DOMAIN files[last(j)].sums
    <3> HIDE DEF last
    <3> QED BY <1>2, <2>4 DEF Alike
  <2> HIDE DEF last
  <2> QED BY <2>1, <2>5
<1>4. ASSUME NEW t \in S, Alike(t, kind, value), NEW j \in DOMAIN t.sums
      PROVE  j \in DOMAIN c
  <2>1. PICK i \in DOMAIN files : files[i] = t
    BY <1>2
  <2>2. i \in tell(j)
    BY <1>4, <2>1 DEF Alike
  <2>3. j \in Kinds
    OBVIOUS
  <2> QED BY <1>1, <2>2, <2>3
<1> QED BY <1>3, <1>4

\* Checksums above CRC32 that are of the content.
Own(content, sums) ==
  DOMAIN sums \subseteq Kinds \ {CRC32} /\ \A k \in DOMAIN sums : sums[k] = content

\* Files without CRC32s are enriched with checksums of their own content: files alike
\* by a longer checksum are the same bytes.
LEMMA WithOwn ==
  ASSUME NEW S, IsFiniteSet(S), \A t \in S : Own(t.file.content, t.sums),
         NEW files \in SetToSeqs(S), NEW s \in S, NEW kind,
         NEW sums, Own(s.file.content, sums)
  PROVE  Own(s.file.content, With(s, files, kind, sums))
<1>1. CASE kind \notin DOMAIN s.sums
  BY <1>1 DEF With
<1>2. CASE kind \in DOMAIN s.sums
  <2> DEFINE c == Combined(files, kind, s.sums[kind])
  <2>1. With(s, files, kind, sums) = c
    BY <1>2 DEF With
  <2>2. \A t \in S : DOMAIN t.sums \subseteq Kinds
    BY DEF Own
  <2>3. \A j \in DOMAIN c :
          \E t \in S : Alike(t, kind, s.sums[kind]) /\ j \in DOMAIN t.sums /\ c[j] = t.sums[j]
    BY <2>2, CombinedIs
  <2> HIDE DEF c
  <2>4. Own(s.file.content, c)
    BY <1>2, <2>3 DEF Own, Alike
  <2> QED BY <2>1, <2>4
<1> QED BY <1>1, <1>2

\* So it is for all four kinds.
LEMMA EnrichedOwn ==
  ASSUME NEW S, IsFiniteSet(S), \A t \in S : Own(t.file.content, t.sums),
         NEW files \in SetToSeqs(S), NEW s \in S
  PROVE  Own(s.file.content, Enriched(s, files))
<1> DEFINE one == With(s, files, CRC32, s.sums)
           two == With(s, files, MD5, one)
           three == With(s, files, SHA1, two)
<1>1. Own(s.file.content, one)
  BY WithOwn
<1>2. Own(s.file.content, two)
  <2> HIDE DEF one
  <2> QED BY <1>1, WithOwn
<1>3. Own(s.file.content, three)
  <2> HIDE DEF two
  <2> QED BY <1>2, WithOwn
<1>4. Own(s.file.content, With(s, files, SHA256, three))
  <2> HIDE DEF three
  <2> QED BY <1>3, WithOwn
<1> QED BY <1>4 DEF Enriched

\* The kind whose bearers all tell the content's checksums has the last word.
LEMMA WithTopmost ==
  ASSUME NEW S, IsFiniteSet(S), NEW L \in SUBSET Kinds, \A t \in S : DOMAIN t.sums \subseteq L,
         NEW files \in SetToSeqs(S), NEW s \in S, DOMAIN s.sums = L, NEW kind \in L,
         NEW content,
         \A t \in S : Alike(t, kind, s.sums[kind]) =>
            \A j \in DOMAIN t.sums : t.sums[j] = SumOf(j, content),
         NEW sums
  PROVE  With(s, files, kind, sums) = Calculated(content, L)
<1> DEFINE c == Combined(files, kind, s.sums[kind])
<1>1. With(s, files, kind, sums) = c /\ c = [j \in DOMAIN c |-> c[j]]
  BY DEF With, Combined
<1>2. \A t \in S : DOMAIN t.sums \subseteq Kinds
  OBVIOUS
<1>3. /\ \A j \in DOMAIN c :
           \E t \in S : Alike(t, kind, s.sums[kind]) /\ j \in DOMAIN t.sums /\ c[j] = t.sums[j]
      /\ \A t \in S : Alike(t, kind, s.sums[kind]) => DOMAIN t.sums \subseteq DOMAIN c
  BY <1>2, CombinedIs
<1> HIDE DEF c
<1>4. Alike(s, kind, s.sums[kind])
  BY DEF Alike
<1>5. DOMAIN c = L
  BY <1>3, <1>4
<1>6. \A j \in L : c[j] = SumOf(j, content)
  BY <1>3, <1>5
<1> QED BY <1>1, <1>5, <1>6 DEF Calculated

\* A checksum that is not there adds nothing.
LEMMA WithNothing ==
  ASSUME NEW s, NEW files, NEW kind, kind \notin DOMAIN s.sums, NEW sums
  PROVE  With(s, files, kind, sums) = sums
  BY DEF With

\* When all kinds from lo to hi are known of s, and hi's bearers tell the truth, so does
\* the enriched ROM, whatever was said by CRC32 before.
LEMMA EnrichedAsAsked ==
  ASSUME NEW S, IsFiniteSet(S), NEW lo \in Kinds, NEW hi \in Kinds, lo <= hi,
         \A t \in S : DOMAIN t.sums \subseteq lo .. hi,
         NEW files \in SetToSeqs(S), NEW s \in S, DOMAIN s.sums = lo .. hi, NEW content,
         \A t \in S : Alike(t, hi, s.sums[hi]) =>
            \A j \in DOMAIN t.sums : t.sums[j] = SumOf(j, content)
  PROVE  Enriched(s, files) = Calculated(content, lo .. hi)
<1> DEFINE L == lo .. hi
           one == With(s, files, CRC32, s.sums)
           two == With(s, files, MD5, one)
           three == With(s, files, SHA1, two)
           four == With(s, files, SHA256, three)
<1>0. /\ CRC32 = 1 /\ MD5 = 2 /\ SHA1 = 3 /\ SHA256 = 4
      /\ lo \in {1, 2, 3, 4} /\ hi \in {1, 2, 3, 4}
  BY KindsAreFour DEF CRC32, MD5, SHA1, SHA256
<1>1. L \in SUBSET Kinds /\ hi \in L /\ \A k \in Kinds : k > hi => k \notin DOMAIN s.sums
  BY <1>0, KindsAreFour
<1>2. Enriched(s, files) = four
  BY DEF Enriched
<1>3. \A sums : With(s, files, hi, sums) = Calculated(content, L)
  <2>1. (\A t \in S : DOMAIN t.sums \subseteq L) /\ DOMAIN s.sums = L
    OBVIOUS
  <2> HIDE DEF L
  <2>2. ASSUME NEW sums
        PROVE  With(s, files, hi, sums) = Calculated(content, L)
    BY <1>1, <2>1, WithTopmost
  <2> QED BY <2>2
<1>4. CASE hi = SHA256
  <2> HIDE DEF three, L
  <2> QED BY <1>2, <1>3, <1>4 DEF L
<1>5. CASE hi = SHA1
  <2>1. three = Calculated(content, L)
    <3> HIDE DEF two, L
    <3> QED BY <1>3, <1>5
  <2>2. SHA256 \notin DOMAIN s.sums
    BY <1>0, <1>1, <1>5, KindsAreFour
  <2>3. four = three
    BY <2>2, WithNothing
  <2> QED BY <1>2, <2>1, <2>3
<1>6. CASE hi = MD5
  <2>1. two = Calculated(content, L)
    <3> HIDE DEF one, L
    <3> QED BY <1>3, <1>6
  <2>2. SHA256 \notin DOMAIN s.sums /\ SHA1 \notin DOMAIN s.sums
    BY <1>0, <1>1, <1>6, KindsAreFour
  <2>3. three = two
    BY <2>2, WithNothing
  <2>4. four = three
    BY <2>2, WithNothing
  <2> QED BY <1>2, <2>1, <2>3, <2>4
<1>7. CASE hi = CRC32
  <2>1. one = Calculated(content, L)
    BY <1>3, <1>7
  <2>2. SHA256 \notin DOMAIN s.sums /\ SHA1 \notin DOMAIN s.sums /\ MD5 \notin DOMAIN s.sums
    BY <1>0, <1>1, <1>7, KindsAreFour
  <2>3. two = one
    BY <2>2, WithNothing
  <2>4. three = two
    BY <2>2, WithNothing
  <2>5. four = three
    BY <2>2, WithNothing
  <2> QED BY <1>2, <2>1, <2>3, <2>4, <2>5
<1> QED BY <1>0, <1>4, <1>5, <1>6, <1>7

------------------------------------------------------------------------------
\* A ROM of a DAT made from the scanned files.
Inferred(rom) ==
  /\ Limits \subseteq mask
  /\ \E files \in SetToSeqs(scanned), s \in scanned : rom = InferredRom(s, files)

\* Where main() is, and what has been decided by then.
PhaseInv ==
  /\ phase \in {"parse", "dats", "choose", "scan", "match", "done", "refused"}
  /\ phase \notin {"parse", "refused"} => LimitsAreLegal /\ DatsAreLegal
  /\ phase \in {"parse", "dats"} => dats = {}
  /\ phase = "choose" => dats = {} \/ options.dat
  /\ phase \in {"parse", "dats", "choose"} => scanned = {}

\* The files read and to be read are of one input set.
FilesInv ==
  /\ IsFiniteSet(scanned)
  /\ \E files \in InputSets : todo \subseteq files /\ \A s \in scanned : s.file \in files

\* A DAT's ROMs are those that were given, or inferred once the files are read.
DatsInv ==
  /\ datFiles \in DatSets \cup {{}}
  /\ \A dat \in dats : \A rom \in dat :
       IsRom(rom) \/ (phase \in {"match", "done"} /\ Inferred(rom))

\* The mask has the minimum, the CRC32 for patches, and within the limits the least
\* checksum of every wanted ROM, or all of them when DATs are made from files.
MaskInv ==
  phase \in {"scan", "match", "done"} =>
    /\ mask \subseteq {options.min} \cup ForPatches \cup Limits
    /\ {options.min} \cup ForPatches \subseteq mask
    /\ dats = {} => Limits \subseteq mask
    /\ \A rom \in UNION {Wanted(dat) : dat \in dats} : Least(Sought(rom)) \cap Limits \subseteq mask

\* What is kept of each scanned file.
ToldInv == \A s \in scanned : Told(s.file, s.sums)

\* At the end, the matches are those of findFiles().
FoundInv ==
  phase = "done" =>
    found = {m \in (UNION {Wanted(dat) : dat \in dats}) \X scanned : Matches(m[1], m[2])}

\* The inductive invariant.
IInv ==
  /\ options \in OptionSets
  /\ PhaseInv /\ FilesInv /\ DatsInv /\ MaskInv /\ ToldInv /\ FoundInv

-----------------------------------------------------------------------------
(* The invariant                                                             *)

\* The options' types.
LEMMA OptionsAre ==
  ASSUME options \in OptionSets
  PROVE  /\ options.min \in Kinds /\ options.max \in Kinds
         /\ options.quick \in BOOLEAN /\ options.patches \in BOOLEAN /\ options.dir2dat \in BOOLEAN
         /\ options.dat \in BOOLEAN /\ options.excludeDisks \in BOOLEAN
  BY OptionsAssumption

\* The limits are kinds.
LEMMA LimitsAreKinds ==
  ASSUME options \in OptionSets PROVE Limits \subseteq Kinds
<1>1. options.min \in {1, 2, 3, 4} /\ options.max \in {1, 2, 3, 4}
  BY OptionsAre, KindsAreFour
<1>2. \A k \in Limits : k \in {1, 2, 3, 4}
  BY <1>1 DEF Limits
<1> QED BY <1>2, KindsAreFour

\* So is the mask.
LEMMA MaskIsOfKinds ==
  ASSUME IInv, phase \in {"scan", "match", "done"}
  PROVE  mask \in SUBSET Kinds
<1>1. options.min \in Kinds /\ options.max \in Kinds
  BY OptionsAre DEF IInv
<1>2. Limits \subseteq Kinds
  BY LimitsAreKinds DEF IInv
<1>3. ForPatches \subseteq Kinds
  BY KindsAreFour DEF ForPatches
<1> QED BY <1>1, <1>2, <1>3 DEF IInv, MaskInv

\* A scanned file is a file of the input.
LEMMA ScannedIsFile ==
  ASSUME FilesInv, NEW s \in scanned
  PROVE  IsFile(s.file)
  BY FilesAssumption DEF FilesInv

\* The invariant holds at first.
LEMMA InitInv == Init => IInv
<1> SUFFICES ASSUME Init PROVE IInv
  OBVIOUS
<1>1. PhaseInv /\ MaskInv /\ ToldInv /\ FoundInv
  BY DEF Init, PhaseInv, MaskInv, ToldInv, FoundInv
<1>2. FilesInv
  BY FS_EmptySet DEF Init, FilesInv
<1>3. DatsInv
  BY DEF Init, DatsInv
<1> QED BY <1>1, <1>2, <1>3 DEF Init, IInv

\* Parsing the options preserves it.
LEMMA ParseInv ==
  ASSUME IInv, Parse PROVE IInv'
<1>1. PhaseInv'
  BY DEF IInv, PhaseInv, Parse, LimitsAreLegal, DatsAreLegal
<1>2. FilesInv'
  BY DEF IInv, FilesInv, Parse
<1>3. DatsInv' /\ MaskInv' /\ FoundInv'
  BY DEF IInv, PhaseInv, DatsInv, MaskInv, FoundInv, Parse
<1>4. ToldInv'
  BY DEF IInv, PhaseInv, ToldInv, Parse
<1> QED BY <1>1, <1>2, <1>3, <1>4 DEF IInv, Parse

\* Scanning the DATs preserves it.
LEMMA ScanDatsInv ==
  ASSUME IInv, ScanDats PROVE IInv'
<1>1. PhaseInv'
  BY DEF IInv, PhaseInv, ScanDats, LimitsAreLegal, DatsAreLegal
<1>2. FilesInv'
  BY DEF IInv, FilesInv, ScanDats
<1>3. DatsInv'
  BY DatsAssumption DEF IInv, DatsInv, ScanDats
<1>4. ToldInv' /\ MaskInv' /\ FoundInv'
  BY DEF IInv, PhaseInv, ToldInv, MaskInv, FoundInv, ScanDats
<1> QED BY <1>1, <1>2, <1>3, <1>4 DEF IInv, ScanDats

\* The mask chosen from DATs has the least checksum of each wanted ROM.
LEMMA LeastIsChosen ==
  ASSUME options \in OptionSets, DatsAreLegal, dats # {} => options.dat,
         NEW rom \in UNION {Wanted(dat) : dat \in dats}
  PROVE  Least(Sought(rom)) \cap Limits \subseteq ScanningBitmask
<1>1. PICK dat \in dats : rom \in dat /\ ~ (rom.disk /\ options.excludeDisks)
  BY DEF Wanted
<1>2. ~ options.dir2dat /\ dats # {}
  BY <1>1 DEF DatsAreLegal
<1>3. CASE rom.disk
  <2>1. Least(Sought(rom)) \subseteq RequiredDiskChecksums(dat)
    BY <1>1, <1>3 DEF RequiredDiskChecksums
  <2>2. RequiredDiskChecksums(dat) \subseteq ForDats
    BY <1>1, <1>3 DEF ForDats
  <2> QED BY <1>2, <2>1, <2>2 DEF ScanningBitmask
<1>4. CASE ~ rom.disk
  <2>1. Least(Sought(rom)) \subseteq RequiredRomChecksums(dat)
    BY <1>1, <1>4 DEF RequiredRomChecksums
  <2>2. RequiredRomChecksums(dat) \subseteq ForDats
    BY <1>1 DEF ForDats
  <2> QED BY <1>2, <2>1, <2>2 DEF ScanningBitmask
<1> QED BY <1>3, <1>4

\* Choosing the mask preserves it.
LEMMA DetermineBitmaskInv ==
  ASSUME IInv, DetermineBitmask PROVE IInv'
<1>1. PhaseInv'
  BY DEF IInv, PhaseInv, DetermineBitmask, LimitsAreLegal, DatsAreLegal
<1>2. FilesInv' /\ DatsInv' /\ FoundInv'
  BY DEF IInv, FilesInv, DatsInv, FoundInv, DetermineBitmask
<1>3. ToldInv'
  BY DEF IInv, PhaseInv, ToldInv, DetermineBitmask
<1>4. MaskInv'
  <2>1. mask' = ScanningBitmask /\ options' = options /\ dats' = dats
    BY DEF DetermineBitmask
  <2>2. DatsAreLegal /\ (dats # {} => options.dat) /\ options \in OptionSets
    BY DEF IInv, PhaseInv, DetermineBitmask
  <2>3. \A rom \in UNION {Wanted(dat) : dat \in dats} :
          Least(Sought(rom)) \cap Limits \subseteq ScanningBitmask
    BY <2>2, LeastIsChosen
  <2>4. /\ ScanningBitmask \subseteq {options.min} \cup ForPatches \cup Limits
        /\ {options.min} \cup ForPatches \subseteq ScanningBitmask
    BY DEF ScanningBitmask
  <2>5. dats = {} => Limits \subseteq ScanningBitmask
    <3>1. Limits \subseteq Kinds
      BY <2>2, LimitsAreKinds
    <3> QED BY <3>1 DEF ScanningBitmask
  <2>6. ForPatches' = ForPatches /\ Limits' = Limits /\ options.min' = options.min
    BY <2>1 DEF ForPatches, Limits
  <2>7. {Wanted(dat) : dat \in dats}' = {Wanted(dat) : dat \in dats}
    BY <2>1 DEF Wanted
  <2> QED BY <2>1, <2>3, <2>4, <2>5, <2>6, <2>7 DEF MaskInv
<1> QED BY <1>1, <1>2, <1>3, <1>4 DEF IInv, DetermineBitmask

\* What is told of a file does not depend on the rest of the state.
LEMMA ToldStays ==
  ASSUME options' = options, mask' = mask, NEW f, NEW sums, Told(f, sums)
  PROVE  Told(f, sums)'
  BY DEF Told, Quickly, IsArchive, CanTell

\* Nor does what the mask has to be, without a change of the DATs.
LEMMA MaskStays ==
  ASSUME MaskInv, options' = options, mask' = mask, dats' = dats, phase \in {"scan", "match", "done"}
  PROVE  MaskInv'
  BY DEF MaskInv, ForPatches, Limits, Wanted

\* Reading a file preserves it.
LEMMA ScanFileInv ==
  ASSUME IInv, NEW f \in todo, ScanFile(f) PROVE IInv'
<1> DEFINE sums == Constrained(f, FromCache(f, KindsAsked(f)))
           s == [file |-> f, sums |-> sums]
<1>0. /\ phase = "scan" /\ scanned' = scanned \cup {s} /\ todo' = todo \ {f}
      /\ UNCHANGED <<options, datFiles, phase, dats, mask, found>>
  BY DEF ScanFile
<1>1. IsFile(f)
  BY FilesAssumption DEF IInv, FilesInv
<1>2. mask \in SUBSET Kinds
  BY <1>0, MaskIsOfKinds
<1>3. Told(f, sums)
  BY <1>1, <1>2, ConstrainedIsTold
<1>4. s.file = f /\ s.sums = sums
  OBVIOUS
<1> HIDE DEF sums, s
<1>5. PhaseInv'
  BY <1>0 DEF IInv, PhaseInv, LimitsAreLegal, DatsAreLegal
<1>6. FilesInv'
  <2>1. IsFiniteSet(scanned')
    BY <1>0, FS_AddElement DEF IInv, FilesInv
  <2>2. \E files \in InputSets : todo' \subseteq files /\ \A t \in scanned' : t.file \in files
    BY <1>0, <1>4 DEF IInv, FilesInv
  <2> QED BY <2>1, <2>2 DEF FilesInv
<1>7. DatsInv'
  BY <1>0 DEF IInv, DatsInv
<1>8. MaskInv'
  BY <1>0, MaskStays DEF IInv
<1>9. ToldInv'
  <2>1. ASSUME NEW t \in scanned' PROVE Told(t.file, t.sums)
    BY <1>0, <1>3, <1>4 DEF IInv, ToldInv
  <2>2. ASSUME NEW t \in scanned' PROVE Told(t.file, t.sums)'
    BY <1>0, <2>1, ToldStays
  <2> QED BY <2>2 DEF ToldInv
<1>10. FoundInv'
  BY <1>0 DEF FoundInv
<1> QED BY <1>0, <1>5, <1>6, <1>7, <1>8, <1>9, <1>10 DEF IInv

\* Making a DAT from files preserves it.
LEMMA InferInv ==
  ASSUME IInv, Infer PROVE IInv'
<1>0. /\ phase = "scan" /\ dats = {} /\ phase' = "match"
      /\ UNCHANGED <<options, datFiles, todo, mask, scanned, found>>
  BY DEF Infer
<1>1. PICK files \in SetToSeqs(scanned) : dats' = {{InferredRom(s, files) : s \in scanned}}
  BY DEF Infer
<1>2. Limits \subseteq mask
  BY <1>0 DEF IInv, MaskInv
<1>3. Limits' = Limits /\ ForPatches' = ForPatches
  BY <1>0 DEF Limits, ForPatches
<1>4. PhaseInv' /\ FilesInv' /\ FoundInv'
  BY <1>0 DEF IInv, PhaseInv, FilesInv, FoundInv, LimitsAreLegal, DatsAreLegal
<1>5. DatsInv'
  <2>1. ASSUME NEW dat \in dats', NEW rom \in dat
        PROVE  Inferred(rom)'
    <3>1. \E s \in scanned : rom = InferredRom(s, files)
      BY <1>1
    <3> QED BY <1>0, <1>2, <1>3, <3>1 DEF Inferred
  <2> QED BY <1>0, <2>1 DEF IInv, DatsInv
<1>6. MaskInv'
  BY <1>0, <1>2, <1>3 DEF IInv, MaskInv
<1>7. ToldInv'
  BY <1>0, ToldStays DEF IInv, ToldInv
<1> QED BY <1>0, <1>4, <1>5, <1>6, <1>7 DEF IInv

\* Going on with the DATs given preserves it.
LEMMA NothingToInferInv ==
  ASSUME IInv, NothingToInfer PROVE IInv'
<1>0. /\ phase = "scan" /\ phase' = "match"
      /\ UNCHANGED <<options, datFiles, todo, dats, mask, scanned, found>>
  BY DEF NothingToInfer
<1>1. PhaseInv' /\ FilesInv' /\ FoundInv'
  BY <1>0 DEF IInv, PhaseInv, FilesInv, FoundInv, LimitsAreLegal, DatsAreLegal
<1>2. DatsInv'
  BY <1>0 DEF IInv, DatsInv
<1>3. MaskInv'
  BY <1>0, MaskStays DEF IInv
<1>4. ToldInv'
  BY <1>0, ToldStays DEF IInv, ToldInv
<1> QED BY <1>0, <1>1, <1>2, <1>3, <1>4 DEF IInv

\* Matching preserves it.
LEMMA MatchInv ==
  ASSUME IInv, Match PROVE IInv'
<1>0. /\ phase = "match" /\ phase' = "done"
      /\ UNCHANGED <<options, datFiles, todo, dats, mask, scanned>>
      /\ found' = {m \in (UNION {Wanted(dat) : dat \in dats}) \X scanned : Matches(m[1], m[2])}
  BY DEF Match
<1>1. PhaseInv' /\ FilesInv'
  BY <1>0 DEF IInv, PhaseInv, FilesInv, LimitsAreLegal, DatsAreLegal
<1>2. DatsInv'
  BY <1>0 DEF IInv, DatsInv, Inferred, Limits
<1>3. MaskInv'
  BY <1>0, MaskStays DEF IInv
<1>4. ToldInv'
  BY <1>0, ToldStays DEF IInv, ToldInv
<1>5. FoundInv'
  BY <1>0 DEF FoundInv, Wanted
<1> QED BY <1>0, <1>1, <1>2, <1>3, <1>4, <1>5 DEF IInv

\* Every step preserves it.
LEMMA NextInv ==
  ASSUME IInv, [Next]_vars PROVE IInv'
<1>1. CASE Next
  BY <1>1, ParseInv, ScanDatsInv, DetermineBitmaskInv, ScanFileInv, InferInv,
     NothingToInferInv, MatchInv DEF Next
<1>2. CASE UNCHANGED vars
  <2>1. PhaseInv' /\ FilesInv' /\ FoundInv'
    BY <1>2 DEF IInv, PhaseInv, FilesInv, FoundInv, LimitsAreLegal, DatsAreLegal, Wanted, vars
  <2>2. DatsInv'
    BY <1>2 DEF IInv, DatsInv, Inferred, Limits, vars
  <2>3. MaskInv'
    BY <1>2 DEF IInv, MaskInv, ForPatches, Limits, Wanted, vars
  <2>4. ToldInv'
    BY <1>2, ToldStays DEF IInv, ToldInv, vars
  <2> QED BY <1>2, <2>1, <2>2, <2>3, <2>4 DEF IInv, vars
<1> QED BY <1>1, <1>2

\* In every state of main(), however the files are scanned and whatever the cache holds,
\* what is known of a file is what Told says and the mask is what MaskInv says.
THEOREM Invariance == Spec => []IInv
  BY InitInv, NextInv, PTL DEF Spec

\* The matches, at the end.
LEMMA FoundAre ==
  ASSUME IInv, Done, NEW rom, NEW s
  PROVE  <<rom, s>> \in found <=>
           rom \in UNION {Wanted(dat) : dat \in dats} /\ s \in scanned /\ Matches(rom, s)
  BY DEF IInv, FoundInv, Done

\* A match is of a wanted ROM and a scanned file.
LEMMA FoundPair ==
  ASSUME IInv, Done, NEW m \in found
  PROVE  /\ m[1] \in UNION {Wanted(dat) : dat \in dats}
         /\ m[2] \in scanned /\ Matches(m[1], m[2])
  BY DEF IInv, FoundInv, Done

\* A wanted ROM is a given one or an inferred one.
LEMMA RomIs ==
  ASSUME IInv, Done, NEW rom \in UNION {Wanted(dat) : dat \in dats}
  PROVE  IsRom(rom) \/ Inferred(rom)
  BY DEF IInv, DatsInv, Done, Wanted

\* MatchIsTrue follows from the invariant.
LEMMA MatchTrue ==
  ASSUME IInv PROVE MatchIsTrue
<1> SUFFICES ASSUME Done, options.min > CRC32, ~ options.patches, NEW m \in found
             PROVE  m[1].content = m[2].file.content
  BY DEF MatchIsTrue
<1> DEFINE rom == m[1]
           s == m[2]
<1>1. rom \in UNION {Wanted(dat) : dat \in dats} /\ s \in scanned /\ Matches(rom, s)
  BY FoundPair
<1>2. CRC32 \notin mask
  <2>1. mask \subseteq {options.min} \cup ForPatches \cup Limits
    BY DEF IInv, MaskInv, Done
  <2>2. options.min \in {1, 2, 3, 4} /\ options.max \in {1, 2, 3, 4}
    BY OptionsAre, KindsAreFour DEF IInv
  <2> QED BY <2>1, <2>2 DEF ForPatches, Limits, CRC32
<1>3. ~ options.quick
  <2>1. LimitsAreLegal
    BY DEF IInv, PhaseInv, Done
  <2> QED BY <2>1 DEF LimitsAreLegal, CRC32
<1>4. \A t \in scanned : Own(t.file.content, t.sums)
  <2>1. ASSUME NEW t \in scanned PROVE Own(t.file.content, t.sums)
    <3>1. Told(t.file, t.sums)
      BY DEF IInv, ToldInv
    <3>2. ~ Quickly(t.file)
      BY <1>3 DEF Quickly
    <3> QED BY <1>2, <3>1, <3>2 DEF Told, Own
  <2> QED BY <2>1
<1>5. PICK k \in Sought(rom) \cap DOMAIN s.sums : rom.sums[k] = s.sums[k]
  BY <1>1 DEF Matches
<1>6. k # CRC32 /\ s.sums[k] = s.file.content
  BY <1>1, <1>4, <1>5 DEF Own
<1>7. k \in DOMAIN rom.sums
  BY <1>5 DEF Sought
<1>8. CASE IsRom(rom)
  <2>1. rom.sums[k] = rom.content
    BY <1>6, <1>7, <1>8 DEF IsRom
  <2> QED BY <1>5, <1>6, <2>1
<1>9. CASE Inferred(rom)
  <2>1. PICK files \in SetToSeqs(scanned), t \in scanned : rom = InferredRom(t, files)
    BY <1>9 DEF Inferred
  <2>2. IsFiniteSet(scanned)
    BY DEF IInv, FilesInv
  <2>3. Own(t.file.content, Enriched(t, files))
    BY <1>4, <2>2, EnrichedOwn
  <2>4. rom.sums = Enriched(t, files) /\ rom.content = t.file.content
    BY <2>1 DEF InferredRom
  <2>5. rom.sums[k] = rom.content
    BY <1>7, <2>3, <2>4 DEF Own
  <2> QED BY <1>5, <1>6, <2>5
<1> QED BY <1>1, <1>8, <1>9, RomIs

\* What is known of a scanned file.
LEMMA ScannedIsTold ==
  ASSUME IInv, NEW s \in scanned
  PROVE  IsFile(s.file) /\ Told(s.file, s.sums)
  BY FilesAssumption DEF IInv, FilesInv, ToldInv

\* UsableIsFound follows from the invariant.
LEMMA UsableFound ==
  ASSUME IInv PROVE UsableIsFound
<1> SUFFICES ASSUME Done, NEW rom \in UNION {Wanted(dat) : dat \in dats}, NEW s \in scanned,
                    rom.content = s.file.content, True(rom.sums, rom.content),
                    True(s.file.table, rom.content),
                    NEW k \in IF options.quick /\ IsArchive(s.file) THEN Sought(rom)
                              ELSE (Least(Sought(rom)) \cap Limits) \cup (Sought(rom) \cap {options.min}),
                    k \in CanTell(s.file)
             PROVE  <<rom, s>> \in found
  BY DEF UsableIsFound
<1>1. Told(s.file, s.sums)
  BY ScannedIsTold
<1>2. k \in Sought(rom) /\ (Quickly(s.file) \/ k \in mask)
  <2>1. options.min \in mask /\ Least(Sought(rom)) \cap Limits \subseteq mask
    BY DEF IInv, MaskInv, Done
  <2> QED BY <2>1 DEF Quickly, Least
<1>3. k \in DOMAIN s.sums /\ s.sums[k] = SumOf(k, s.file.content)
  BY <1>1, <1>2 DEF Told
<1>4. k \in DOMAIN rom.sums
  BY <1>2 DEF Sought
<1>5. rom.sums[k] = SumOf(k, rom.content)
  BY <1>4 DEF True
<1>6. Matches(rom, s)
  BY <1>2, <1>3, <1>5 DEF Matches
<1> QED BY <1>6, FoundAre

\* PatchesFindTheirFiles follows from the invariant.
LEMMA PatchesFound ==
  ASSUME IInv PROVE PatchesFindTheirFiles
<1> SUFFICES ASSUME Done, options.patches, ~ options.quick, NEW m \in found,
                    m[1].content = m[2].file.content, True(m[1].sums, m[1].content),
                    CRC32 \in CanTell(m[2].file), Trusted(m[2].file)
             PROVE  CRC32 \in DOMAIN m[2].sums /\ m[2].sums[CRC32] = CrcOf[m[2].file.content]
  BY DEF PatchesFindTheirFiles
<1>1. m[2] \in scanned /\ Matches(m[1], m[2])
  BY FoundPair
<1>2. Told(m[2].file, m[2].sums) /\ ~ Quickly(m[2].file)
  BY <1>1, ScannedIsTold DEF Quickly
<1>3. PICK k \in Sought(m[1]) \cap DOMAIN m[2].sums : m[1].sums[k] = m[2].sums[k]
  BY <1>1 DEF Matches
<1>4. CASE k = CRC32
  <2>1. k \in DOMAIN m[1].sums
    BY <1>3 DEF Sought
  <2>2. m[1].sums[k] = CrcOf[m[2].file.content]
    BY <1>4, <2>1 DEF True, SumOf
  <2> QED BY <1>3, <1>4, <2>2
<1>5. CASE k # CRC32
  <2>1. CRC32 \in mask
    BY DEF IInv, MaskInv, Done, ForPatches
  <2>2. DOMAIN m[2].sums \ {CRC32} # {}
    BY <1>3, <1>5
  <2> QED BY <1>2, <2>1, <2>2 DEF Told
<1> QED BY <1>4, <1>5

\* InferredAsAsked follows from the invariant.
LEMMA InferredAsked ==
  ASSUME IInv PROVE InferredAsAsked
<1> SUFFICES ASSUME Done, ~ options.quick, ~ options.patches,
                    NEW rom \in UNION dats, "source" \in DOMAIN rom,
                    Limits \subseteq CanTell(rom.source.file),
                    True(rom.source.file.table, rom.source.file.content),
                    \A s \in scanned : s.file.content = rom.source.file.content => Trusted(s.file)
             PROVE  rom.sums = Calculated(rom.source.file.content, Limits)
  BY DEF InferredAsAsked
<1>1. Inferred(rom)
  BY DEF IInv, DatsInv, IsRom
<1>2. PICK files \in SetToSeqs(scanned), s \in scanned : rom = InferredRom(s, files)
  BY <1>1 DEF Inferred
<1>3. rom.sums = Enriched(s, files) /\ rom.source = s
  BY <1>2 DEF InferredRom
<1>4. IsFiniteSet(scanned)
  BY DEF IInv, FilesInv
<1>5. options.min \in Kinds /\ options.max \in Kinds
  BY OptionsAre DEF IInv
<1>6. options.min <= options.max
  BY DEF IInv, PhaseInv, Done, LimitsAreLegal
<1>7. mask = Limits
  <2>1. mask \subseteq {options.min} \cup ForPatches \cup Limits
    BY DEF IInv, MaskInv, Done
  <2>2. options.min \in Limits
    BY <1>5, <1>6, KindsAreFour DEF Limits
  <2> QED BY <1>1, <2>1, <2>2 DEF Inferred, ForPatches
<1>8. ASSUME NEW t \in scanned
      PROVE  Told(t.file, t.sums) /\ ~ Quickly(t.file)
  BY ScannedIsTold DEF Quickly
<1>9. \A t \in scanned : DOMAIN t.sums \subseteq Limits
  BY <1>7, <1>8 DEF Told
<1>10. DOMAIN s.sums = Limits /\ \A k \in Limits : s.sums[k] = SumOf(k, s.file.content)
  <2>1. \A k \in Limits : k \in DOMAIN s.sums /\ s.sums[k] = SumOf(k, s.file.content)
    BY <1>3, <1>7, <1>8 DEF Told
  <2> QED BY <1>9, <2>1
<1>11. options.max \in Limits
  BY <1>5, <1>6, KindsAreFour DEF Limits
<1>12. ASSUME NEW t \in scanned, Alike(t, options.max, s.sums[options.max]), NEW j \in DOMAIN t.sums
       PROVE  t.sums[j] = SumOf(j, s.file.content)
  <2>1. t.sums[options.max] = SumOf(options.max, s.file.content) /\ options.max \in DOMAIN t.sums
    BY <1>10, <1>11, <1>12 DEF Alike
  <2>2. CASE options.max = CRC32
    <3>1. j = CRC32
      BY <1>5, <1>9, <2>2, KindsAreFour DEF Limits, CRC32
    <3> QED BY <2>1, <2>2, <3>1
  <2>3. CASE options.max # CRC32
    <3>1. t.file.content = s.file.content
      BY <1>8, <2>1, <2>3 DEF Told, SumOf
    <3>2. CASE j # CRC32
      BY <1>8, <3>1, <3>2 DEF Told, SumOf
    <3>3. CASE j = CRC32
      <4>1. CRC32 \in mask
        BY <1>7, <1>9, <3>3
      <4>2. DOMAIN t.sums \ {CRC32} # {}
        BY <2>1, <2>3
      <4>3. Trusted(t.file)
        BY <1>3, <3>1
      <4> QED BY <1>8, <3>1, <3>3, <4>1, <4>2, <4>3 DEF Told, SumOf
    <3> QED BY <3>2, <3>3
  <2> QED BY <2>2, <2>3
<1>13. Enriched(s, files) = Calculated(s.file.content, Limits)
  <2>1. \A t \in scanned : Alike(t, options.max, s.sums[options.max]) =>
          \A j \in DOMAIN t.sums : t.sums[j] = SumOf(j, s.file.content)
    BY <1>12
  <2> QED BY <1>4, <1>5, <1>6, <1>9, <1>10, <2>1, EnrichedAsAsked DEF Limits
<1> QED BY <1>3, <1>13

\* With a minimum above CRC32 no file is taken for another with the same CRC32, for any
\* files, any tables and any cache (Igir.determineScanningBitmask(), findFiles()).
THEOREM MatchesAreTrue == Spec => []MatchIsTrue
  BY Invariance, MatchTrue, PTL

\* A ROM whose dump is scanned is found by findFiles() whenever one of its checksums is
\* calculated for it and its format can tell it.
THEOREM UsableOnesAreFound == Spec => []UsableIsFound
<1>1. IInv => UsableIsFound
  BY UsableFound
<1> QED BY <1>1, Invariance, PTL

\* The CRC32 that CandidatePatchGenerator looks a patch up by is known of every matched
\* file, and is that of its bytes, unless the cache has it from a wrong table.
THEOREM PatchesFindThem == Spec => []PatchesFindTheirFiles
<1>1. IInv => PatchesFindTheirFiles
  BY PatchesFound
<1> QED BY <1>1, Invariance, PTL

\* dir2dat gives each ROM all the checksums the limits ask for, no other, and those of
\* its own bytes, in whatever order DATGameInferrer combines files that share a CRC32.
THEOREM InferredOnesAreAsAsked == Spec => []InferredAsAsked
<1>1. IInv => InferredAsAsked
  BY InferredAsked
<1> QED BY <1>1, Invariance, PTL
=============================================================================
