-------------------------- MODULE TorrentZipProofs --------------------------
(***************************************************************************)
(* What TZWriter writes, ZipReader reads: the zip64 numbers of a header,   *)
(* on either side of 4 GiB and in every combination; then, write by write, *)
(* what lies where in the temporary file; and from there that the archive  *)
(* is whole, that it is valid when the sizes were known, and that nothing  *)
(* the validator accepts extracts to something else.                       *)
(***************************************************************************)
EXTENDS TorrentZip, SequenceTheorems, WellFoundedInduction, TLAPS

\* A number is in the extra field if, and only if, its own field is full.
LEMMA ClampIsFull ==
  ASSUME NEW n \in Nat
  PROVE /\ Clamp(n, Max32) = Max32 <=> n >= Max32
        /\ IfBig(n) \in Seq(Nat)
        /\ n < Max32 => Len(IfBig(n)) = 0
        /\ n >= Max32 => Len(IfBig(n)) = 1 /\ IfBig(n)[1] = n
BY Max32Assumption DEF Clamp, IfBig

LEMMA ListOfTwo ==
  ASSUME NEW s \in Seq(Nat), NEW t \in Seq(Nat)
  PROVE /\ s \o t \in Seq(Nat)
        /\ Len(s \o t) = Len(s) + Len(t)
        /\ \A i \in 1 .. Len(s) : (s \o t)[i] = s[i]
        /\ \A i \in 1 .. Len(t) : (s \o t)[Len(s) + i] = t[i]
PROOF
<1>1. Len(s) \in Nat /\ Len(t) \in Nat
  OBVIOUS
<1>2. /\ s \o t \in Seq(Nat)
      /\ Len(s \o t) = Len(s) + Len(t)
  BY ConcatProperties
<1>3. \A i \in 1 .. Len(s) + Len(t) :
        (s \o t)[i] = IF i <= Len(s) THEN s[i] ELSE t[i - Len(s)]
  BY ConcatProperties
<1>4. ASSUME NEW i \in 1 .. Len(s)
      PROVE (s \o t)[i] = s[i]
  BY <1>1, <1>3
<1>5. ASSUME NEW i \in 1 .. Len(t)
      PROVE (s \o t)[Len(s) + i] = t[i]
  <2>1. Len(s) + i \in 1 .. Len(s) + Len(t) /\ ~ (Len(s) + i <= Len(s)) /\ Len(s) + i - Len(s) = i
    BY <1>1
  <2> QED BY <2>1, <1>3
<1> QED BY <1>2, <1>4, <1>5

\* The extra field lists the numbers one after the other.
LEMMA ListOfThree ==
  ASSUME NEW r \in Seq(Nat), NEW s \in Seq(Nat), NEW t \in Seq(Nat)
  PROVE /\ r \o s \o t = <<>> <=> Len(r) + Len(s) + Len(t) = 0
        /\ Len(r) = 1 => (r \o s \o t)[1] = r[1]
        /\ Len(s) = 1 => (r \o s \o t)[Len(r) + 1] = s[1]
        /\ Len(t) = 1 => (r \o s \o t)[Len(r) + Len(s) + 1] = t[1]
PROOF
<1> DEFINE q == r \o s
           w == q \o t
<1>1. Len(r) \in Nat /\ Len(s) \in Nat /\ Len(t) \in Nat
  OBVIOUS
<1>2. /\ q \in Seq(Nat)
      /\ Len(q) = Len(r) + Len(s)
      /\ \A i \in 1 .. Len(r) : q[i] = r[i]
      /\ \A i \in 1 .. Len(s) : q[Len(r) + i] = s[i]
  BY ListOfTwo
<1> HIDE DEF q
<1>3. /\ w \in Seq(Nat)
      /\ Len(w) = Len(q) + Len(t)
      /\ \A i \in 1 .. Len(q) : w[i] = q[i]
      /\ \A i \in 1 .. Len(t) : w[Len(q) + i] = t[i]
  BY <1>2, ListOfTwo
<1> HIDE DEF w
<1>4. w = <<>> <=> Len(w) = 0
  BY <1>3
<1>5. Len(r) = 1 => w[1] = r[1]
  BY <1>1, <1>2, <1>3
<1>6. Len(s) = 1 => w[Len(r) + 1] = s[1]
  BY <1>1, <1>2, <1>3
<1>7. Len(t) = 1 => w[Len(r) + Len(s) + 1] = t[1]
  BY <1>1, <1>2, <1>3
<1> QED BY <1>2, <1>3, <1>4, <1>5, <1>6, <1>7 DEF q, w

\* What parseZip64ExtendedInformation() makes of the extra field that
\* centralDirectoryFileHeader() writes.
LEMMA NumbersAreFound ==
  ASSUME NEW u \in Nat, NEW c \in Nat, NEW p \in Nat
  PROVE LET z == IfBig(u) \o IfBig(c) \o IfBig(p)
            i == Zip64Information(z, Clamp(u, Max32), Clamp(c, Max32), Clamp(p, Max32))
        IN /\ i.usize = (IF u >= Max32 THEN u ELSE Absent)
           /\ i.csize = (IF c >= Max32 THEN c ELSE Absent)
           /\ i.offset = (IF p >= Max32 THEN p ELSE Absent)
PROOF
<1> DEFINE z == IfBig(u) \o IfBig(c) \o IfBig(p)
           before == Len(IfBig(u))
           both == Len(IfBig(u)) + Len(IfBig(c))
<1>1. /\ Clamp(u, Max32) = Max32 <=> u >= Max32
      /\ Clamp(c, Max32) = Max32 <=> c >= Max32
      /\ Clamp(p, Max32) = Max32 <=> p >= Max32
  BY ClampIsFull
<1>2. /\ IfBig(u) \in Seq(Nat) /\ IfBig(c) \in Seq(Nat) /\ IfBig(p) \in Seq(Nat)
      /\ Len(IfBig(u)) = (IF u >= Max32 THEN 1 ELSE 0)
      /\ Len(IfBig(c)) = (IF c >= Max32 THEN 1 ELSE 0)
      /\ Len(IfBig(p)) = (IF p >= Max32 THEN 1 ELSE 0)
      /\ u >= Max32 => IfBig(u)[1] = u
      /\ c >= Max32 => IfBig(c)[1] = c
      /\ p >= Max32 => IfBig(p)[1] = p
  BY ClampIsFull, Max32Assumption
<1>3. /\ before = (IF u >= Max32 THEN 1 ELSE 0)
      /\ both = (IF u >= Max32 THEN 1 ELSE 0) + (IF c >= Max32 THEN 1 ELSE 0)
  BY <1>2
<1>4. /\ z = <<>> <=> Len(IfBig(u)) + Len(IfBig(c)) + Len(IfBig(p)) = 0
      /\ u >= Max32 => z[1] = u
      /\ c >= Max32 => z[before + 1] = c
      /\ p >= Max32 => z[both + 1] = p
  <2>1. /\ z = <<>> <=> Len(IfBig(u)) + Len(IfBig(c)) + Len(IfBig(p)) = 0
        /\ Len(IfBig(u)) = 1 => z[1] = IfBig(u)[1]
        /\ Len(IfBig(c)) = 1 => z[before + 1] = IfBig(c)[1]
        /\ Len(IfBig(p)) = 1 => z[both + 1] = IfBig(p)[1]
    BY <1>2, ListOfThree
  <2> HIDE DEF z, before, both
  <2> QED BY <2>1, <1>2
<1>5. u >= Max32 \/ c >= Max32 \/ p >= Max32 => z # <<>>
  BY <1>2, <1>4
<1> HIDE DEF z, before, both
<1> DEFINE i == Zip64Information(z, Clamp(u, Max32), Clamp(c, Max32), Clamp(p, Max32))
<1>6. i.usize = (IF u >= Max32 THEN u ELSE Absent)
  BY <1>1, <1>4, <1>5 DEF Zip64Information
<1>7. i.csize = (IF c >= Max32 THEN c ELSE Absent)
  BY <1>1, <1>3, <1>4, <1>5 DEF Zip64Information
<1>8. i.offset = (IF p >= Max32 THEN p ELSE Absent)
  BY <1>1, <1>3, <1>4, <1>5 DEF Zip64Information
<1> QED BY <1>6, <1>7, <1>8 DEF z

\* ZipReader's OffsetResolved() and its siblings give back what TZWriter
\* kept of an entry.
THEOREM DirectoryNumbersAreRead ==
  ASSUME NEW l,
         l.usize \in Nat, l.csize \in Nat, l.position \in Nat
  PROVE /\ CentralUsize(CentralFileHeader(l)) = l.usize
        /\ OffsetResolved(CentralFileHeader(l)) = l.position
        /\ Or(CentralInformation(CentralFileHeader(l)).csize,
              CentralFileHeader(l).csize) = l.csize
PROOF
<1> DEFINE h == CentralFileHeader(l)
           i == CentralInformation(h)
<1>1. /\ h.zip64 = IfBig(l.usize) \o IfBig(l.csize) \o IfBig(l.position)
      /\ h.usize = Clamp(l.usize, Max32)
      /\ h.csize = Clamp(l.csize, Max32)
      /\ h.offset = Clamp(l.position, Max32)
  BY DEF CentralFileHeader
<1>2. /\ i.usize = (IF l.usize >= Max32 THEN l.usize ELSE Absent)
      /\ i.csize = (IF l.csize >= Max32 THEN l.csize ELSE Absent)
      /\ i.offset = (IF l.position >= Max32 THEN l.position ELSE Absent)
  <2>1. i = Zip64Information(IfBig(l.usize) \o IfBig(l.csize) \o IfBig(l.position),
                             Clamp(l.usize, Max32), Clamp(l.csize, Max32),
                             Clamp(l.position, Max32))
    BY <1>1 DEF CentralInformation
  <2> HIDE DEF h, i
  <2> QED BY <2>1, NumbersAreFound
<1>3. /\ h.usize = (IF l.usize >= Max32 THEN Max32 ELSE l.usize)
      /\ h.csize = (IF l.csize >= Max32 THEN Max32 ELSE l.csize)
      /\ h.offset = (IF l.position >= Max32 THEN Max32 ELSE l.position)
  BY <1>1, Max32Assumption DEF Clamp
<1> QED BY <1>2, <1>3, Max32Assumption DEF CentralUsize, OffsetResolved, Or, Absent

-----------------------------------------------------------------------------
(* What lies where in the file that is written.                            *)

DataAt(l) == l.position + LocalHeaderLength(l.raw)
EndOf(l) == DataAt(l) + l.csize
EndOfData == IF localFileHeaders = <<>> THEN 0
             ELSE EndOf(localFileHeaders[Len(localFileHeaders)])

\* An input is said to be empty exactly when it is: STORE and ZSTD are chosen by the size that is
\* said when the data comes, and by the size that was counted when the header is written.
EmptyAsDeclared ==
  \A s \in Inputs : \A i \in DOMAIN s : s[i].declared = 0 <=> s[i].actual = 0

\* The header before the data, and what is kept, of an entry.
RawOf(l, e) ==
  IF e.declared >= Max32 THEN Zip64LocalFileHeader(e.name, l.position, l.crc, l.csize, l.usize)
  ELSE LocalFileHeader(e.name, l.crc, l.csize, l.usize)
IsSizeOf(csize, e) == IF Codec(e) = "STORE" THEN csize = e.actual ELSE csize > 0
IsKeptOf(l, e) ==
  /\ l.usize = e.actual /\ l.crc = Content(e.name, e.actual)
  /\ IsSizeOf(l.csize, e)
  /\ l.raw = RawOf(l, e)

EntriesOK ==
  \A i \in DOMAIN entries :
    /\ EmptyAsDeclared => (entries[i].declared = 0 <=> entries[i].actual = 0)
    /\ Compressions(entries[i].actual) \subseteq Nat \ {0}

\* Entries follow one another, and each is kept as it was written.
InOrder ==
  \A i \in DOMAIN localFileHeaders :
    /\ i \in DOMAIN entries
    /\ IsKeptOf(localFileHeaders[i], entries[i])
    /\ localFileHeaders[i].position = IF i = 1 THEN 0 ELSE EndOf(localFileHeaders[i - 1])

\* What was at the archive's path has been removed, and the archive is not there.
Lost == phase \in {"removed", "failed", "gaveUp", "crashed"} /\ output # previous

KeptOK ==
  /\ InOrder
  /\ phase = "start" => localFileHeaders = <<>> /\ next = 1 /\ filePosition = 0
  /\ phase \in {"entry", "stream", "header"} =>
       /\ Len(localFileHeaders) = next - 1 /\ filePosition = EndOfData
       /\ \A i \in DOMAIN localFileHeaders : EndOf(localFileHeaders[i]) <= filePosition
  /\ phase \in {"stream", "header"} => next <= Len(entries)
  /\ phase = "header" =>
       sizes.usize = Entry.actual /\ IsSizeOf(sizes.csize, Entry)
  /\ phase \in {"directory", "record", "finalized", "moved", "tested"} \/ Lost =>
       /\ Len(localFileHeaders) = Len(entries)
       /\ \A i \in DOMAIN localFileHeaders : EndOf(localFileHeaders[i]) <= StartOfDirectory

\* A part that lies below a position.
Below(f, p, end) == p \in Nat /\ f[p].len \in Nat \ {0} /\ p + f[p].len <= end

LocalsIn(f) ==
  \A i \in DOMAIN localFileHeaders :
    LET l == localFileHeaders[i]
        e == entries[i]
    IN /\ l.position \in DOMAIN f
       /\ f[l.position] = Part("local", LocalHeaderLength(l.raw), l.raw)
       /\ l.csize > 0 =>
            /\ DataAt(l) \in DOMAIN f
            /\ f[DataAt(l)] = Part("data", l.csize,
                                   [codec |-> Codec(e), content |-> Content(e.name, e.actual)])

DirectoryIn(f) ==
  \A i \in DOMAIN localFileHeaders :
    LET p == StartOfDirectory + DirectoryEnds[i - 1]
        h == CentralDirectory[i]
    IN p \in DOMAIN f /\ f[p] = Part("central", CentralHeaderLength(h), h)

Zip64In(f, at) ==
  IsZip64 =>
    LET locatorAt == at - LocatorSize
        zip64At == locatorAt - Zip64RecordSize
    IN /\ locatorAt \in DOMAIN f
       /\ f[locatorAt] = Part("locator", LocatorSize, zip64At)
       /\ zip64At \in DOMAIN f
       /\ f[zip64At] = Part("zip64", Zip64RecordSize, Zip64Record)

\* A whole archive, with its end record at a position.
WholeTo(f, at) ==
  /\ LocalsIn(f) /\ DirectoryIn(f) /\ Zip64In(f, at)
  /\ at \in Nat /\ at \in DOMAIN f /\ f[at] = Part("record", RecordLength, Record)
  /\ \A p \in DOMAIN f \ {at} : Below(f, p, at) /\ f[p].kind # "record"

\* While it is written, nothing lies beyond the position but the entry under way.
LayoutOK ==
  /\ phase \in {"entry", "stream", "header", "directory", "record"} =>
       /\ LocalsIn(file.parts)
       /\ \A p \in DOMAIN file.parts :
            /\ file.parts[p].kind # "record"
            /\ \/ Below(file.parts, p, filePosition)
               \/ /\ phase \in {"stream", "header"}
                  /\ p = filePosition /\ file.parts[p].len = LocalHeaderLength(Placeholder)
               \/ /\ phase = "header"
                  /\ p = filePosition + LocalHeaderLength(Placeholder)
                  /\ sizes.csize > 0 /\ file.parts[p].len = sizes.csize
  /\ phase = "header" /\ sizes.csize > 0 =>
       LET p == filePosition + LocalHeaderLength(Placeholder)
       IN /\ p \in DOMAIN file.parts
          /\ file.parts[p] = Part("data", sizes.csize,
               [codec |-> Codec(Entry), content |-> Content(Entry.name, Entry.actual)])
  /\ phase = "directory" => filePosition = StartOfDirectory + DirectoryLength
  /\ phase \in {"directory", "record"} => DirectoryIn(file.parts)
  /\ phase = "record" => Zip64In(file.parts, filePosition)
  /\ phase = "finalized" \/ (Lost /\ phase # "gaveUp") =>
       \E at \in DOMAIN file.parts : WholeTo(file.parts, at)
  /\ phase \in Writing \cup {"failed", "crashed"} => file = [exists |-> TRUE, parts |-> file.parts]

\* At the archive's path is what was there, or a whole archive, or nothing in between.
OutputOK ==
  /\ IF phase \in {"moved", "tested"}
     THEN output.exists /\ \E at \in DOMAIN output.parts : WholeTo(output.parts, at)
     ELSE output = previous \/ (output = NoFile /\ Lost)
  /\ phase = "removed" => Lost

IInv == TypeOK /\ EntriesOK /\ KeptOK /\ LayoutOK /\ OutputOK

-----------------------------------------------------------------------------
(* The lengths of the headers.                                             *)

\* The extra field of a local header: two numbers, or three.
LEMMA LocalNumbers ==
  ASSUME NEW u \in Nat, NEW c \in Nat, NEW p \in Nat, NEW r \in {<<>>, <<p>>}
  PROVE /\ <<u, c>> \o r \in Seq(Nat) /\ <<u, c>> \o r # <<>>
        /\ Len(<<u, c>> \o r) = IF r = <<>> THEN 2 ELSE 3
        /\ (<<u, c>> \o r)[1] = u /\ (<<u, c>> \o r)[2] = c
PROOF
<1>1. <<u, c>> \in Seq(Nat) /\ Len(<<u, c>>) = 2 /\ <<u, c>>[1] = u /\ <<u, c>>[2] = c
  OBVIOUS
<1>2. r \in Seq(Nat) /\ Len(r) = (IF r = <<>> THEN 0 ELSE 1)
  <2>1. <<p>> \in Seq(Nat) /\ Len(<<p>>) = 1 /\ <<p>> # <<>>
    OBVIOUS
  <2>2. <<>> \in Seq(Nat) /\ Len(<<>>) = 0
    OBVIOUS
  <2>3. CASE r = <<>>
    BY <2>2, <2>3
  <2>4. CASE r = <<p>>
    BY <2>1, <2>4
  <2> QED BY <2>3, <2>4
<1> HIDE DEF Seq
<1>3. /\ <<u, c>> \o r \in Seq(Nat)
      /\ Len(<<u, c>> \o r) = 2 + Len(r)
      /\ \A i \in 1 .. 2 : (<<u, c>> \o r)[i] = <<u, c>>[i]
  BY <1>1, <1>2, ListOfTwo
<1>4. <<u, c>> \o r # <<>>
  BY <1>2, <1>3
<1> QED BY <1>1, <1>2, <1>3, <1>4

LEMMA ContentType ==
  ASSUME NEW n \in Names, NEW k \in Nat
  PROVE Content(n, k) \in Contents
BY DEF Content, Contents

LEMMA LocalHeaderType ==
  ASSUME format \in {"DEFLATE", "ZSTD"}, NEW n \in Names, NEW crc \in Contents,
         NEW c \in Nat, NEW u \in Nat
  PROVE LocalFileHeader(n, crc, c, u) \in LocalHeaders
PROOF
<1>1. Max32 \in Nat /\ <<>> \in Seq(Nat)
  BY Max32Assumption
<1>2. Or(u, 0) = u
  BY DEF Or, Absent
<1> QED BY <1>1, <1>2 DEF LocalFileHeader, LocalHeaders

LEMMA Zip64LocalHeaderType ==
  ASSUME format \in {"DEFLATE", "ZSTD"}, NEW n \in Names, NEW crc \in Contents,
         NEW c \in Nat, NEW u \in Nat, NEW p \in Nat
  PROVE Zip64LocalFileHeader(n, p, crc, c, u) \in LocalHeaders
PROOF
<1> DEFINE h == LocalFileHeader(n, crc, c, u)
           r == IF p >= Max32 THEN <<p>> ELSE <<>>
<1>1. h \in LocalHeaders
  BY LocalHeaderType
<1>2. Or(u, 0) = u
  BY DEF Or, Absent
<1>3. <<Or(u, 0), c>> \o r \in Seq(Nat)
  BY <1>2, LocalNumbers
<1>4. Zip64LocalFileHeader(n, p, crc, c, u)
        = [h EXCEPT !.version = IF @ < 45 THEN 45 ELSE @, !.zip64 = <<Or(u, 0), c>> \o r]
  BY DEF Zip64LocalFileHeader
<1> HIDE DEF h, r
<1> QED BY <1>1, <1>3, <1>4 DEF LocalHeaders

\* The length of a header depends on the name, the declared size and the position, so
\* that the placeholder and what replaces it are equally long.
LEMMA HeaderLength ==
  ASSUME NEW e \in Entries, NEW crc, NEW c \in Nat, NEW u \in Nat \cup {Absent},
         filePosition \in Nat
  PROVE LocalHeaderLength(HeaderFor(e, crc, c, u))
          = LocalHeaderSize + NameLength[e.name]
            + (IF e.declared < Max32 THEN 0 ELSE IF filePosition < Max32 THEN 20 ELSE 28)
PROOF
<1> DEFINE h == LocalFileHeader(e.name, crc, c, u)
           r == IF filePosition >= Max32 THEN <<filePosition>> ELSE <<>>
<1>1. e.name \in Names /\ e.declared \in Nat /\ Max32 \in Nat
  BY Max32Assumption DEF Entries
<1>2. h.name = e.name /\ h.zip64 = <<>>
  BY DEF LocalFileHeader
<1>3. CASE e.declared < Max32
  <2>1. HeaderFor(e, crc, c, u) = h
    BY <1>1, <1>3 DEF HeaderFor
  <2> HIDE DEF h
  <2>2. LocalHeaderLength(h) = LocalHeaderSize + NameLength[e.name] + 0
    BY <1>2 DEF LocalHeaderLength, ExtraLength
  <2> QED BY <1>3, <2>1, <2>2
<1>4. CASE e.declared >= Max32
  <2> DEFINE z == Zip64LocalFileHeader(e.name, filePosition, crc, c, u)
  <2>1. HeaderFor(e, crc, c, u) = z
    BY <1>4 DEF HeaderFor
  <2>2. z = [h EXCEPT !.version = IF @ < 45 THEN 45 ELSE @, !.zip64 = <<Or(u, 0), c>> \o r]
    BY DEF Zip64LocalFileHeader
  <2>3. DOMAIN h = {"version", "utf8", "method", "stamp", "crc", "csize", "usize", "name", "zip64"}
    BY DEF LocalFileHeader
  <2>4. Or(u, 0) \in Nat
    BY DEF Or, Absent
  <2>5. /\ <<Or(u, 0), c>> \o r # <<>>
        /\ Len(<<Or(u, 0), c>> \o r) = IF filePosition < Max32 THEN 2 ELSE 3
    BY <1>1, <2>4, LocalNumbers
  <2> HIDE DEF h, r, z
  <2>6. z.name = e.name /\ z.zip64 = <<Or(u, 0), c>> \o r
    BY <1>2, <2>2, <2>3
  <2>7. ExtraLength(z.zip64) = IF filePosition < Max32 THEN 20 ELSE 28
    BY <2>5, <2>6 DEF ExtraLength
  <2>8. LocalHeaderLength(z) = LocalHeaderSize + NameLength[e.name] + ExtraLength(z.zip64)
    BY <2>6 DEF LocalHeaderLength
  <2> QED BY <1>4, <1>1, <2>1, <2>7, <2>8
<1> QED BY <1>1, <1>3, <1>4

LEMMA LengthIsPositive ==
  ASSUME NEW h \in LocalHeaders
  PROVE LocalHeaderLength(h) \in Nat \ {0}
PROOF
<1>1. NameLength[h.name] \in Nat /\ h.zip64 \in Seq(Nat)
  BY NamesAssumption DEF LocalHeaders, Names
<1>2. ExtraLength(h.zip64) \in Nat
  BY <1>1 DEF ExtraLength
<1> QED BY <1>1, <1>2 DEF LocalHeaderLength, LocalHeaderSize

\* A header of the directory has what the local one has, and its own numbers.
LEMMA CentralHeaderShape ==
  ASSUME NEW l \in Kept
  PROVE LET h == CentralFileHeader(l)
            z == IfBig(l.usize) \o IfBig(l.csize) \o IfBig(l.position)
        IN /\ h.version = IF z # <<>> /\ l.raw.version < 45 THEN 45 ELSE l.raw.version
           /\ h.utf8 = l.raw.utf8 /\ h.method = l.raw.method /\ h.stamp = l.raw.stamp
           /\ h.crc = l.crc /\ h.name = l.raw.name
           /\ h.csize = Clamp(l.csize, Max32) /\ h.usize = Clamp(l.usize, Max32)
           /\ h.offset = Clamp(l.position, Max32)
           /\ h.zip64 = z /\ z \in Seq(Nat)
           /\ z = <<>> <=> l.usize < Max32 /\ l.csize < Max32 /\ l.position < Max32
           /\ CentralHeaderLength(h) \in Nat \ {0}
PROOF
<1> DEFINE h == CentralFileHeader(l)
           z == IfBig(l.usize) \o IfBig(l.csize) \o IfBig(l.position)
<1>1. l.usize \in Nat /\ l.csize \in Nat /\ l.position \in Nat /\ l.raw \in LocalHeaders
  BY DEF Kept
<1>2. /\ IfBig(l.usize) \in Seq(Nat) /\ IfBig(l.csize) \in Seq(Nat)
      /\ IfBig(l.position) \in Seq(Nat)
      /\ Len(IfBig(l.usize)) = (IF l.usize >= Max32 THEN 1 ELSE 0)
      /\ Len(IfBig(l.csize)) = (IF l.csize >= Max32 THEN 1 ELSE 0)
      /\ Len(IfBig(l.position)) = (IF l.position >= Max32 THEN 1 ELSE 0)
  <2>1. \A n \in Nat : IfBig(n) \in Seq(Nat) /\ Len(IfBig(n)) = (IF n >= Max32 THEN 1 ELSE 0)
    BY ClampIsFull, Max32Assumption
  <2> QED BY <1>1, <2>1
<1>3. z \in Seq(Nat)
  BY <1>2, ListOfTwo
<1>4. z = <<>> <=> l.usize < Max32 /\ l.csize < Max32 /\ l.position < Max32
  <2>1. z = <<>> <=> Len(IfBig(l.usize)) + Len(IfBig(l.csize)) + Len(IfBig(l.position)) = 0
    BY <1>2, ListOfThree
  <2> HIDE DEF z
  <2> QED BY <1>1, <1>2, <2>1, Max32Assumption
<1> HIDE DEF z
<1>5. h = [version |-> IF z # <<>> /\ l.raw.version < 45 THEN 45 ELSE l.raw.version,
           utf8 |-> l.raw.utf8, method |-> l.raw.method, stamp |-> l.raw.stamp,
           crc |-> l.crc, csize |-> Clamp(l.csize, Max32), usize |-> Clamp(l.usize, Max32),
           offset |-> Clamp(l.position, Max32), name |-> l.raw.name, zip64 |-> z]
  BY DEF CentralFileHeader, z
<1>6. NameLength[l.raw.name] \in Nat
  BY <1>1, NamesAssumption DEF LocalHeaders, Names
<1>7. ExtraLength(z) \in Nat
  BY <1>3 DEF ExtraLength
<1> HIDE DEF h
<1>8. CentralHeaderLength(h) \in Nat \ {0}
  BY <1>5, <1>6, <1>7 DEF CentralHeaderLength, CentralHeaderSize
<1> QED BY <1>3, <1>4, <1>5, <1>8 DEF h, z

-----------------------------------------------------------------------------
(* The directory's headers lie one after the other.                        *)

LEMMA Smallest ==
  ASSUME NEW T \in SUBSET Nat, T # {}
  PROVE \E x \in T : \A y \in T : x <= y
PROOF
<1>1. PICK x \in T : \A y \in T : <<y, x>> \notin OpToRel(<, Nat)
  BY NatLessThanWellFounded, WFMin
<1>2. \A y \in T : ~ (y < x)
  BY <1>1 DEF OpToRel
<1> QED BY <1>2

\* Where things of some lengths end that lie one after the other.
IsSums(f, len, n) ==
  /\ f \in [0 .. n -> Nat]
  /\ f[0] = 0
  /\ \A i \in 1 .. n : f[i] = f[i - 1] + len[i]

LEMMA SumsExist ==
  ASSUME NEW n \in Nat, NEW len \in [1 .. n -> Nat]
  PROVE \E f : IsSums(f, len, n)
PROOF
<1> DEFINE bad == {k \in 0 .. n : ~ \E f : IsSums(f, len, k)}
<1>1. SUFFICES ASSUME bad # {} PROVE FALSE
  OBVIOUS
<1>2. PICK k \in bad : \A j \in bad : k <= j
  <2>1. bad \in SUBSET Nat
    OBVIOUS
  <2> QED BY <1>1, <2>1, Smallest
<1>3. k # 0
  <2>1. IsSums([i \in 0 .. 0 |-> 0], len, 0)
    BY DEF IsSums
  <2> QED BY <1>2, <2>1
<1>4. k - 1 \in 0 .. n /\ k - 1 \notin bad
  BY <1>2, <1>3
<1>5. PICK g : IsSums(g, len, k - 1)
  BY <1>4
<1> DEFINE f == [i \in 0 .. k |-> IF i = k THEN g[k - 1] + len[k] ELSE g[i]]
<1>6. IsSums(f, len, k)
  <2>1. k \in 1 .. n /\ len[k] \in Nat /\ g \in [0 .. k - 1 -> Nat]
    BY <1>2, <1>3, <1>5 DEF IsSums
  <2>2. f \in [0 .. k -> Nat] /\ f[0] = 0
    BY <2>1, <1>5 DEF IsSums
  <2>3. ASSUME NEW i \in 1 .. k PROVE f[i] = f[i - 1] + len[i]
    BY <2>1, <1>5 DEF IsSums
  <2> QED BY <2>2, <2>3 DEF IsSums
<1> QED BY <1>2, <1>6

LEMMA SumsIncrease ==
  ASSUME NEW n \in Nat, NEW len \in [1 .. n -> Nat \ {0}], NEW f, IsSums(f, len, n),
         NEW i \in 0 .. n, NEW j \in 0 .. n, i < j
  PROVE f[i] + len[i + 1] <= f[j]
PROOF
<1> DEFINE bad == {k \in i + 1 .. n : ~ (f[i] + len[i + 1] <= f[k])}
<1>1. SUFFICES ASSUME bad # {} PROVE FALSE
  OBVIOUS
<1>2. PICK k \in bad : \A m \in bad : k <= m
  <2>1. bad \in SUBSET Nat
    OBVIOUS
  <2> QED BY <1>1, <2>1, Smallest
<1>3. k \in 1 .. n /\ k > i /\ ~ (f[i] + len[i + 1] <= f[k]) /\ f[k] = f[k - 1] + len[k]
  BY <1>2 DEF IsSums
<1>4. /\ f[i] \in Nat /\ f[k] \in Nat /\ f[k - 1] \in Nat
      /\ len[i + 1] \in Nat /\ len[k] \in Nat
  BY <1>3 DEF IsSums
<1>5. CASE k = i + 1
  BY <1>3, <1>4, <1>5
<1>6. CASE k # i + 1
  <2>1. k - 1 \in i + 1 .. n /\ k - 1 \notin bad
    BY <1>2, <1>3, <1>6
  <2> QED BY <2>1, <1>3, <1>4
<1> QED BY <1>5, <1>6

CentralLengths == [i \in 1 .. Len(localFileHeaders) |-> CentralHeaderLength(CentralDirectory[i])]

LEMMA CentralLengthsType ==
  ASSUME localFileHeaders \in Seq(Kept)
  PROVE /\ Len(localFileHeaders) \in Nat
        /\ DOMAIN localFileHeaders = 1 .. Len(localFileHeaders)
        /\ \A i \in 1 .. Len(localFileHeaders) :
             /\ localFileHeaders[i] \in Kept
             /\ CentralDirectory[i] = CentralFileHeader(localFileHeaders[i])
        /\ DOMAIN CentralDirectory = 1 .. Len(localFileHeaders)
        /\ Len(CentralDirectory) = Len(localFileHeaders)
        /\ CentralLengths \in [1 .. Len(localFileHeaders) -> Nat \ {0}]
PROOF
<1> DEFINE n == Len(localFileHeaders)
<1>1. /\ n \in Nat /\ DOMAIN localFileHeaders = 1 .. n
      /\ \A i \in 1 .. n : localFileHeaders[i] \in Kept
  OBVIOUS
<1>2. /\ DOMAIN CentralDirectory = 1 .. n
      /\ \A i \in 1 .. n : CentralDirectory[i] = CentralFileHeader(localFileHeaders[i])
  BY <1>1 DEF CentralDirectory
<1> DEFINE S == {CentralDirectory[i] : i \in 1 .. n}
<1>3. CentralDirectory \in [1 .. n -> S]
  BY <1>1 DEF CentralDirectory
<1>4. Len(CentralDirectory) = n
  <2> HIDE DEF n, S
  <2> QED BY <1>1, <1>3, SeqDef
<1>5. CentralLengths \in [1 .. n -> Nat \ {0}]
  BY <1>1, <1>2, CentralHeaderShape DEF CentralLengths
<1> QED BY <1>1, <1>2, <1>4, <1>5

LEMMA DirectoryEndsAreSums ==
  ASSUME localFileHeaders \in Seq(Kept)
  PROVE IsSums(DirectoryEnds, CentralLengths, Len(localFileHeaders))
PROOF
<1> DEFINE n == Len(localFileHeaders)
<1>1. /\ n \in Nat /\ Len(CentralDirectory) = n
      /\ CentralLengths \in [1 .. n -> Nat]
      /\ \A i \in 1 .. n : CentralHeaderLength(CentralDirectory[i]) = CentralLengths[i]
  BY CentralLengthsType DEF CentralLengths
<1>2. PICK f : IsSums(f, CentralLengths, n)
  BY <1>1, SumsExist
<1>3. f = [i \in 0 .. Len(CentralDirectory) |->
             IF i = 0 THEN 0 ELSE f[i - 1] + CentralHeaderLength(CentralDirectory[i])]
  BY <1>1, <1>2 DEF IsSums
<1>4. DirectoryEnds = [i \in 0 .. n |->
        IF i = 0 THEN 0 ELSE DirectoryEnds[i - 1] + CentralHeaderLength(CentralDirectory[i])]
  <2>1. DirectoryEnds = CHOOSE to : to = [i \in 0 .. Len(CentralDirectory) |->
             IF i = 0 THEN 0 ELSE to[i - 1] + CentralHeaderLength(CentralDirectory[i])]
    BY DEF DirectoryEnds
  <2> QED BY <1>1, <1>3, <2>1
<1> DEFINE bad == {k \in 0 .. n : DirectoryEnds[k] # f[k]}
<1>5. bad = {}
  <2>1. SUFFICES ASSUME bad # {} PROVE FALSE
    OBVIOUS
  <2>2. PICK k \in bad : \A j \in bad : k <= j
    <3>1. bad \in SUBSET Nat
      BY <1>1
    <3> QED BY <2>1, <3>1, Smallest
  <2>3. k # 0
    BY <1>2, <1>4, <2>2 DEF IsSums
  <2>4. k \in 1 .. n /\ DirectoryEnds[k - 1] = f[k - 1]
    BY <2>2, <2>3
  <2>5. DirectoryEnds[k] = f[k]
    BY <1>1, <1>2, <1>4, <2>4 DEF IsSums
  <2> QED BY <2>2, <2>5
<1>6. DirectoryEnds = f
  <2>1. DirectoryEnds = [i \in 0 .. n |-> DirectoryEnds[i]]
    BY <1>4
  <2>2. f = [i \in 0 .. n |-> f[i]]
    BY <1>2 DEF IsSums
  <2>3. \A i \in 0 .. n : DirectoryEnds[i] = f[i]
    BY <1>5
  <2> QED BY <2>1, <2>2, <2>3
<1> QED BY <1>2, <1>6

-----------------------------------------------------------------------------
(* Every step keeps what is written apart and in order.                    *)

\* What the types say of what is kept.
LEMMA KeptType ==
  ASSUME NEW l \in Kept
  PROVE /\ l.position \in Nat /\ l.csize \in Nat /\ l.usize \in Nat /\ l.crc \in Contents
        /\ l.raw \in LocalHeaders /\ LocalHeaderLength(l.raw) \in Nat \ {0}
        /\ DataAt(l) \in Nat /\ EndOf(l) \in Nat
        /\ l.position < DataAt(l) /\ DataAt(l) <= EndOf(l)
PROOF
<1>1. /\ l.position \in Nat /\ l.csize \in Nat /\ l.usize \in Nat /\ l.crc \in Contents
      /\ l.raw \in LocalHeaders
  BY DEF Kept
<1>2. LocalHeaderLength(l.raw) \in Nat \ {0}
  BY <1>1, LengthIsPositive
<1> QED BY <1>1, <1>2 DEF DataAt, EndOf

\* A write replaces nothing that lies before it.
LEMMA WritesBeyond ==
  ASSUME NEW f, NEW from \in Nat, NEW to \in Nat, NEW new,
         \A p \in DOMAIN f : p \in Nat /\ (p < from => p + f[p].len <= from),
         \A p \in DOMAIN new : p \in Nat /\ from <= p
  PROVE LET g == WriteParts(f, from, to, new)
        IN /\ \A p \in DOMAIN f : p < from => p \in DOMAIN g /\ g[p] = f[p]
           /\ \A p \in DOMAIN new : p \in DOMAIN g /\ g[p] = new[p]
           /\ \A p \in DOMAIN g : \/ p \in DOMAIN new
                                  \/ p \in DOMAIN f /\ g[p] = f[p]
                                     /\ (p + f[p].len <= from \/ to <= p)
BY DEF WriteParts

\* A write behind everything that is there.
LEMMA WritesBehind ==
  ASSUME NEW f, NEW from \in Nat, NEW to \in Nat, NEW new,
         \A p \in DOMAIN f : Below(f, p, from),
         \A p \in DOMAIN new : p \in Nat /\ from <= p
  PROVE LET g == WriteParts(f, from, to, new)
        IN /\ \A p \in DOMAIN f : p \in DOMAIN g /\ g[p] = f[p]
           /\ \A p \in DOMAIN new : p \in DOMAIN g /\ g[p] = new[p]
           /\ \A p \in DOMAIN g : p \in DOMAIN new \/ (p \in DOMAIN f /\ g[p] = f[p])
PROOF
<1> DEFINE g == WriteParts(f, from, to, new)
<1>1. \A p \in DOMAIN f : p \in Nat /\ p < from /\ p + f[p].len <= from
  BY DEF Below
<1>2. /\ \A p \in DOMAIN f : p < from => p \in DOMAIN g /\ g[p] = f[p]
      /\ \A p \in DOMAIN new : p \in DOMAIN g /\ g[p] = new[p]
      /\ \A p \in DOMAIN g : \/ p \in DOMAIN new
                             \/ p \in DOMAIN f /\ g[p] = f[p]
                                /\ (p + f[p].len <= from \/ to <= p)
  BY <1>1, WritesBeyond, SMTT(60)
<1> HIDE DEF g
<1>3. /\ \A p \in DOMAIN f : p \in DOMAIN g /\ g[p] = f[p]
      /\ \A p \in DOMAIN new : p \in DOMAIN g /\ g[p] = new[p]
      /\ \A p \in DOMAIN g : p \in DOMAIN new \/ (p \in DOMAIN f /\ g[p] = f[p])
  BY <1>1, <1>2
<1> QED BY <1>3 DEF g

\* What was written of the entries stays as long as nothing below its end is touched.
LEMMA LocalsStay ==
  ASSUME localFileHeaders \in Seq(Kept), NEW f, NEW g, NEW end \in Nat, LocalsIn(f),
         \A i \in DOMAIN localFileHeaders : EndOf(localFileHeaders[i]) <= end,
         \A p \in DOMAIN f : p < end => p \in DOMAIN g /\ g[p] = f[p]
  PROVE LocalsIn(g)
PROOF
<1> SUFFICES ASSUME NEW i \in DOMAIN localFileHeaders
             PROVE LET l == localFileHeaders[i]
                       e == entries[i]
                   IN /\ l.position \in DOMAIN g
                      /\ g[l.position] = Part("local", LocalHeaderLength(l.raw), l.raw)
                      /\ l.csize > 0 =>
                           /\ DataAt(l) \in DOMAIN g
                           /\ g[DataAt(l)] = Part("data", l.csize,
                                [codec |-> Codec(e), content |-> Content(e.name, e.actual)])
  BY DEF LocalsIn
<1> DEFINE l == localFileHeaders[i]
<1>1. l \in Kept
  OBVIOUS
<1>2. /\ l.position \in Nat /\ DataAt(l) \in Nat /\ EndOf(l) \in Nat /\ l.csize \in Nat
      /\ l.position < DataAt(l) /\ DataAt(l) <= EndOf(l) /\ EndOf(l) = DataAt(l) + l.csize
  BY <1>1, KeptType DEF EndOf
<1>3. l.position < end /\ (l.csize > 0 => DataAt(l) < end)
  BY <1>2
<1> QED BY <1>3 DEF LocalsIn

\* The directory is the same as long as what is kept is the same.
LEMMA SameDirectory ==
  ASSUME UNCHANGED <<entries, format, localFileHeaders>>
  PROVE /\ CentralDirectory' = CentralDirectory /\ DirectoryEnds' = DirectoryEnds
        /\ DirectoryLength' = DirectoryLength /\ StartOfDirectory' = StartOfDirectory
        /\ EndOfData' = EndOfData
        /\ (IsZip64 <=> IsZip64') /\ Zip64Record' = Zip64Record
        /\ Record' = Record /\ RecordLength' = RecordLength
PROOF
<1>1. CentralDirectory' = CentralDirectory
  BY DEF CentralDirectory
<1>2. DirectoryEnds' = DirectoryEnds
  BY <1>1 DEF DirectoryEnds
<1>3. DirectoryLength' = DirectoryLength /\ StartOfDirectory' = StartOfDirectory
  BY <1>2 DEF DirectoryLength, StartOfDirectory
<1>4. EndOfData' = EndOfData
  BY DEF EndOfData
<1> QED BY <1>1, <1>2, <1>3, <1>4 DEF IsZip64, Zip64Record, Record, RecordLength

\* Where the data ends the directory begins.
LEMMA DirectoryBegins ==
  ASSUME localFileHeaders \in Seq(Kept), localFileHeaders # <<>>
  PROVE /\ StartOfDirectory = EndOfData /\ StartOfDirectory \in Nat
        /\ DirectoryLength \in Nat
PROOF
<1> DEFINE n == Len(localFileHeaders)
<1>1. n \in Nat \ {0} /\ localFileHeaders[n] \in Kept
  OBVIOUS
<1>2. EndOf(localFileHeaders[n]) \in Nat
  BY <1>1, KeptType
<1>3. DirectoryEnds[n] \in Nat
  BY <1>1, DirectoryEndsAreSums DEF IsSums
<1> QED BY <1>2, <1>3 DEF StartOfDirectory, EndOfData, EndOf, DataAt, DirectoryLength

\* A step that changes neither what is to be written nor the archive's path.
LEMMA RestInv ==
  ASSUME IInv, UNCHANGED <<entries, format, localFileHeaders, output, previous>>,
         phase \notin {"moved", "tested", "gaveUp", "crashed"},
         phase' \notin {"moved", "tested", "removed"},
         phase \in {"removed", "failed"} => phase' \in {"failed", "gaveUp", "crashed"}
  PROVE /\ EntriesOK' /\ OutputOK' /\ InOrder'
        /\ EndOfData' = EndOfData
        /\ \A i \in DOMAIN localFileHeaders' :
             EndOf(localFileHeaders[i])' = EndOf(localFileHeaders[i])
        /\ \A e : Codec(e)' = Codec(e)
PROOF
<1>1. EntriesOK' /\ OutputOK' /\ EndOfData' = EndOfData
  BY DEF IInv, EntriesOK, OutputOK, Lost, EndOfData
<1>2. InOrder'
  <2>1. InOrder
    BY DEF IInv, KeptOK
  <2>2. \A n, crc, c, u : LocalFileHeader(n, crc, c, u)' = LocalFileHeader(n, crc, c, u)
    BY DEF LocalFileHeader
  <2>3. \A l, e : RawOf(l, e)' = RawOf(l, e)
    BY <2>2 DEF RawOf, Zip64LocalFileHeader
  <2>4. \A l, e : IsKeptOf(l, e) => IsKeptOf(l, e)'
    BY <2>3 DEF IsKeptOf, IsSizeOf, Codec
  <2> QED BY <2>1, <2>4 DEF InOrder
<1>3. /\ \A i \in DOMAIN localFileHeaders' :
           EndOf(localFileHeaders[i])' = EndOf(localFileHeaders[i])
      /\ \A e : Codec(e)' = Codec(e)
  BY DEF Codec
<1> QED BY <1>1, <1>2, <1>3

LEMMA InitInv == Init => IInv
PROOF
<1> SUFFICES ASSUME Init PROVE IInv
  OBVIOUS
<1>1. /\ entries \in Seq(Entries) \ {<<>>} /\ format \in {"DEFLATE", "ZSTD"} /\ phase = "start"
      /\ next = 1 /\ filePosition = 0 /\ localFileHeaders = <<>>
      /\ sizes = NoSizes /\ verdict = "none" /\ output = previous /\ previous \in {NoFile, Previous}
      /\ entries \in Inputs
  BY InputsAssumption, FormatsAssumption DEF Init
<1>2. TypeOK
  <2>1. next \in 1 .. Len(entries) + 1 /\ <<>> \in Seq(Kept)
    BY <1>1
  <2> QED BY <1>1, <2>1 DEF TypeOK, Phases, NoSizes
<1>3. EntriesOK
  BY <1>1, InputsAssumption DEF EntriesOK, EmptyAsDeclared
<1>4. KeptOK
  BY <1>1 DEF KeptOK, InOrder, Lost
<1>5. LayoutOK /\ OutputOK
  BY <1>1 DEF LayoutOK, OutputOK, Writing, Lost
<1> QED BY <1>2, <1>3, <1>4, <1>5 DEF IInv

LEMMA OpenInv == IInv /\ Open => IInv'
PROOF
<1> SUFFICES ASSUME IInv, Open PROVE IInv'
  OBVIOUS
<1> DEFINE n == Len(entries)
<1>1. PICK order \in [DOMAIN entries -> DOMAIN entries] :
        entries' = [k \in DOMAIN entries |-> entries[order[k]]]
  BY DEF Open
<1>2. n \in Nat \ {0} /\ DOMAIN entries = 1 .. n /\ \A k \in 1 .. n : entries[k] \in Entries
  <2>1. entries \in Seq(Entries) /\ entries # <<>>
    BY DEF IInv, TypeOK
  <2> QED BY <2>1
<1>3. entries' \in [1 .. n -> Entries]
  BY <1>1, <1>2
<1>4. entries' \in Seq(Entries) /\ Len(entries') = n /\ entries' # <<>>
  <2> HIDE DEF n
  <2> QED BY <1>2, <1>3, SeqDef
<1>5. /\ phase' = "entry" /\ file' = [exists |-> TRUE, parts |-> EmptyFile]
      /\ UNCHANGED <<format, next, filePosition, localFileHeaders, sizes, output, verdict, previous>>
      /\ localFileHeaders = <<>> /\ next = 1 /\ filePosition = 0
  BY DEF Open, IInv, KeptOK
<1>6. TypeOK'
  BY <1>2, <1>4, <1>5 DEF IInv, TypeOK, Phases, Writing
<1>7. EntriesOK'
  BY <1>1, <1>2, <1>3 DEF IInv, EntriesOK
<1>8. KeptOK'
  BY <1>5 DEF KeptOK, InOrder, EndOfData, Lost
<1>9. LayoutOK'
  BY <1>5 DEF LayoutOK, LocalsIn, EmptyFile, Lost
<1>10. OutputOK'
  BY <1>5 DEF IInv, OutputOK, Open, Lost
<1> QED BY <1>6, <1>7, <1>8, <1>9, <1>10 DEF IInv

\* The entry that is being written, and the length of its header.
LEMMA EntryType ==
  ASSUME IInv, next <= Len(entries)
  PROVE /\ Entry \in Entries /\ next \in DOMAIN entries
        /\ LocalHeaderLength(Placeholder) \in Nat \ {0}
        /\ \A crc : \A c \in Nat, u \in Nat :
             LocalHeaderLength(HeaderFor(Entry, crc, c, u)) = LocalHeaderLength(Placeholder)
PROOF
<1>1. entries \in Seq(Entries) /\ next \in 1 .. Len(entries) /\ filePosition \in Nat
  <2>1. entries \in Seq(Entries) /\ next \in 1 .. Len(entries) + 1 /\ filePosition \in Nat
    BY DEF IInv, TypeOK
  <2> QED BY <2>1
<1>2. Entry \in Entries /\ next \in DOMAIN entries
  BY <1>1 DEF Entry
<1>3. NameLength[Entry.name] \in Nat
  BY <1>2, NamesAssumption DEF Entries, Names
<1> DEFINE length == LocalHeaderSize + NameLength[Entry.name]
              + (IF Entry.declared < Max32 THEN 0 ELSE IF filePosition < Max32 THEN 20 ELSE 28)
<1>4. length \in Nat \ {0}
  BY <1>3 DEF LocalHeaderSize
<1>5. LocalHeaderLength(Placeholder) = length
  BY <1>1, <1>2, HeaderLength DEF Placeholder
<1>6. \A crc : \A c \in Nat, u \in Nat : LocalHeaderLength(HeaderFor(Entry, crc, c, u)) = length
  BY <1>1, <1>2, HeaderLength
<1> QED BY <1>2, <1>4, <1>5, <1>6

LEMMA WritePlaceholderInv == IInv /\ WritePlaceholder => IInv'
PROOF
<1> SUFFICES ASSUME IInv, WritePlaceholder PROVE IInv'
  OBVIOUS
<1> DEFINE f == file.parts
           len == LocalHeaderLength(Placeholder)
           new == [p \in {filePosition} |-> Part("local", len, Placeholder)]
           g == WriteParts(f, filePosition, filePosition + len, new)
<1>1. /\ phase = "entry" /\ phase' = "stream" /\ next <= Len(entries)
      /\ file' = [file EXCEPT !.parts = WriteAt(f, filePosition, Part("local", len, Placeholder))]
      /\ UNCHANGED <<entries, format, next, filePosition, localFileHeaders, sizes, output, verdict, previous>>
  BY DEF WritePlaceholder, Write
<1>2. len \in Nat \ {0} /\ filePosition \in Nat
  BY <1>1, EntryType DEF IInv, TypeOK
<1>3. file' = [file EXCEPT !.parts = g]
  BY <1>1, <1>2 DEF WriteAt, Part
<1>4. /\ LocalsIn(f) /\ file = [exists |-> TRUE, parts |-> f]
      /\ \A p \in DOMAIN f : f[p].kind # "record" /\ Below(f, p, filePosition)
  BY <1>1 DEF IInv, LayoutOK, Writing
<1>5. /\ \A p \in DOMAIN f : p < filePosition => p \in DOMAIN g /\ g[p] = f[p]
      /\ g[filePosition] = Part("local", len, Placeholder)
      /\ \A p \in DOMAIN g : p = filePosition \/ (p \in DOMAIN f /\ g[p] = f[p])
  <2>1. \A p \in DOMAIN f : p \in Nat /\ (p < filePosition => p + f[p].len <= filePosition)
    BY <1>4 DEF Below
  <2>2. \A p \in DOMAIN new : p \in Nat /\ filePosition <= p
    BY <1>2
  <2>3. filePosition + len \in Nat
    BY <1>2
  <2>4. new[filePosition] = Part("local", len, Placeholder) /\ DOMAIN new = {filePosition}
    OBVIOUS
  <2> HIDE DEF new, len, f
  <2>5. filePosition \in Nat
    BY <1>2
  <2> QED BY <2>1, <2>2, <2>3, <2>4, <2>5, WritesBeyond, SMTT(60)
<1> HIDE DEF g
<1>6. TypeOK'
  BY <1>1 DEF IInv, TypeOK, Phases, Writing
<1>7. EntriesOK' /\ OutputOK'
  BY <1>1, RestInv
<1>8. KeptOK'
  BY <1>1, RestInv DEF IInv, KeptOK, Lost
<1>9. file' = [exists |-> TRUE, parts |-> g]
  <2> HIDE DEF f
  <2> QED BY <1>3, <1>4
<1>10. LocalsIn(g)
  BY <1>1, <1>2, <1>4, <1>5, LocalsStay DEF IInv, TypeOK, KeptOK
<1>11. LocalsIn(file.parts)'
  BY <1>1, <1>9, <1>10 DEF LocalsIn, Codec
<1>12. Placeholder' = Placeholder
  BY <1>1 DEF Placeholder, Entry, HeaderFor, Zip64LocalFileHeader, LocalFileHeader
<1>13. ASSUME NEW p \in DOMAIN g
       PROVE /\ g[p].kind # "record"
             /\ Below(g, p, filePosition) \/ (p = filePosition /\ g[p].len = len)
  BY <1>4, <1>5 DEF Below, Part
<1>14. LayoutOK'
  <2>1. \A p \in DOMAIN file'.parts :
          /\ file'.parts[p].kind # "record"
          /\ \/ Below(file.parts, p, filePosition)'
             \/ p = filePosition' /\ file'.parts[p].len = LocalHeaderLength(Placeholder)'
    BY <1>1, <1>9, <1>12, <1>13 DEF Below
  <2>2. file' = [exists |-> TRUE, parts |-> file'.parts]
    BY <1>9
  <2> QED BY <1>1, <1>11, <2>1, <2>2 DEF LayoutOK, Lost
<1> QED BY <1>6, <1>7, <1>8, <1>14 DEF IInv

LEMMA StreamDataInv == IInv /\ StreamData => IInv'
PROOF
<1> SUFFICES ASSUME IInv, StreamData PROVE IInv'
  OBVIOUS
<1> DEFINE f == file.parts
           len == LocalHeaderLength(Placeholder)
           at == filePosition + len
           body == [codec |-> Codec(Entry), content |-> Content(Entry.name, Entry.actual)]
<1>1. PICK csize \in IF Codec(Entry) = "STORE" THEN {Entry.actual} ELSE Compressions(Entry.actual) :
        /\ sizes' = [usize |-> Entry.actual, csize |-> csize]
        /\ file' = [file EXCEPT !.parts = WriteAt(f, at, Part("data", csize, body))]
  BY DEF StreamData, Write
<1> DEFINE new == [p \in {at} |-> Part("data", csize, body)]
           g == IF csize = 0 THEN f ELSE WriteParts(f, at, at + csize, new)
<1>2. /\ phase = "stream" /\ phase' = "header" /\ next <= Len(entries)
      /\ UNCHANGED <<entries, format, next, filePosition, localFileHeaders, output, verdict, previous>>
  BY DEF StreamData, IInv, KeptOK
<1>3. /\ len \in Nat \ {0} /\ filePosition \in Nat
      /\ Entry \in Entries /\ next \in DOMAIN entries
  BY <1>2, EntryType DEF IInv, TypeOK
<1>4. csize \in Nat /\ IsSizeOf(csize, Entry)
  <2>1. Compressions(Entry.actual) \subseteq Nat \ {0} /\ Entry.actual \in Nat
    BY <1>3 DEF IInv, EntriesOK, Entry, Entries
  <2> QED BY <1>1, <2>1 DEF IsSizeOf
<1>5. file' = [file EXCEPT !.parts = g]
  BY <1>1, <1>4 DEF WriteAt, Part
<1>6. /\ LocalsIn(f) /\ file = [exists |-> TRUE, parts |-> f]
      /\ \A p \in DOMAIN f : /\ f[p].kind # "record"
                             /\ Below(f, p, filePosition) \/ (p = filePosition /\ f[p].len = len)
  BY <1>2 DEF IInv, LayoutOK, Writing
<1>7. /\ \A p \in DOMAIN f : p < at => p \in DOMAIN g /\ g[p] = f[p]
      /\ csize > 0 => at \in DOMAIN g /\ g[at] = Part("data", csize, body)
      /\ \A p \in DOMAIN g : \/ p = at /\ csize > 0
                             \/ p \in DOMAIN f /\ g[p] = f[p]
  <2>1. \A p \in DOMAIN f : p \in Nat /\ (p < at => p + f[p].len <= at)
    BY <1>3, <1>6 DEF Below
  <2>2. at \in Nat /\ at + csize \in Nat
    BY <1>3, <1>4
  <2>3. \A p \in DOMAIN new : p \in Nat /\ at <= p
    BY <2>2
  <2>4. new[at] = Part("data", csize, body) /\ DOMAIN new = {at}
    OBVIOUS
  <2>5. CASE csize = 0
    BY <2>5
  <2>6. CASE csize # 0
    <3>1. g = WriteParts(f, at, at + csize, new) /\ csize > 0
      BY <1>4, <2>6
    <3> HIDE DEF new, at, f, g, body
    <3> QED BY <2>1, <2>2, <2>3, <2>4, <3>1, WritesBeyond, SMTT(60)
  <2> QED BY <2>5, <2>6
<1> HIDE DEF g
<1>8. TypeOK'
  <2>1. sizes' \in [usize : Nat, csize : Nat]
    BY <1>1, <1>3, <1>4 DEF Entries
  <2> QED BY <1>2, <2>1 DEF IInv, TypeOK, Phases, Writing
<1>9. EntriesOK' /\ OutputOK'
  BY <1>2, RestInv
<1>10. Entry' = Entry /\ Placeholder' = Placeholder
  BY <1>2 DEF Placeholder, Entry, HeaderFor, Zip64LocalFileHeader, LocalFileHeader
<1>11. KeptOK'
  <2>1. sizes'.usize = Entry'.actual /\ IsSizeOf(sizes.csize, Entry)'
    BY <1>1, <1>2, <1>4, <1>10 DEF IsSizeOf, Codec
  <2> QED BY <1>2, <2>1, RestInv DEF IInv, KeptOK, Lost
<1>12. file' = [exists |-> TRUE, parts |-> g]
  <2> HIDE DEF f
  <2> QED BY <1>5, <1>6
<1>13. LocalsIn(g)
  <2>1. \A p \in DOMAIN f : p < filePosition => p \in DOMAIN g /\ g[p] = f[p]
    BY <1>3, <1>6, <1>7 DEF Below
  <2> QED BY <1>2, <1>3, <1>6, <2>1, LocalsStay DEF IInv, TypeOK, KeptOK
<1>14. LocalsIn(file.parts)'
  BY <1>2, <1>12, <1>13 DEF LocalsIn, Codec
<1>15. ASSUME NEW p \in DOMAIN g
       PROVE /\ g[p].kind # "record"
             /\ \/ Below(g, p, filePosition)
                \/ p = filePosition /\ g[p].len = len
                \/ p = at /\ csize > 0 /\ g[p].len = csize
  BY <1>6, <1>7 DEF Below, Part
<1>16. LayoutOK'
  <2>1. sizes'.csize = csize
    BY <1>1
  <2>2. \A p \in DOMAIN file'.parts :
          /\ file'.parts[p].kind # "record"
          /\ \/ Below(file.parts, p, filePosition)'
             \/ p = filePosition' /\ file'.parts[p].len = LocalHeaderLength(Placeholder)'
             \/ /\ p = filePosition' + LocalHeaderLength(Placeholder)'
                /\ sizes'.csize > 0 /\ file'.parts[p].len = sizes'.csize
    BY <1>2, <1>10, <1>12, <1>15, <2>1 DEF Below
  <2>3. file' = [exists |-> TRUE, parts |-> file'.parts]
    BY <1>12
  <2>4. sizes'.csize > 0 =>
          LET p == filePosition' + LocalHeaderLength(Placeholder)'
          IN /\ p \in DOMAIN file'.parts
             /\ file'.parts[p] = Part("data", sizes'.csize,
                  [codec |-> Codec(Entry)', content |-> Content(Entry'.name, Entry'.actual)])
    BY <1>2, <1>7, <1>10, <1>12, <2>1 DEF Codec
  <2> QED BY <1>2, <1>14, <2>2, <2>3, <2>4 DEF LayoutOK, Lost
<1> QED BY <1>8, <1>9, <1>11, <1>16 DEF IInv

LEMMA WriteHeaderInv == IInv /\ WriteHeader => IInv'
PROOF
<1> SUFFICES ASSUME IInv, WriteHeader PROVE IInv'
  OBVIOUS
<1> DEFINE f == file.parts
           n == Len(localFileHeaders)
           crc == Content(Entry.name, sizes.usize)
           h == HeaderFor(Entry, crc, sizes.csize, sizes.usize)
           len == LocalHeaderLength(h)
           kept == [position |-> filePosition, crc |-> crc, csize |-> sizes.csize,
                    usize |-> sizes.usize, raw |-> h]
           new == [p \in {filePosition} |-> Part("local", len, h)]
           g == WriteParts(f, filePosition, filePosition + len, new)
<1>1. /\ phase = "header" /\ phase' = "entry" /\ next' = next + 1
      /\ file' = [file EXCEPT !.parts = WriteAt(f, filePosition, Part("local", len, h))]
      /\ localFileHeaders' = Append(localFileHeaders, kept)
      /\ filePosition' = filePosition + len + sizes.csize
      /\ UNCHANGED <<entries, format, sizes, output, verdict, previous>>
  BY DEF WriteHeader, Write
<1>2. /\ next <= Len(entries) /\ n = next - 1 /\ next \in Nat
      /\ filePosition \in Nat /\ sizes.usize \in Nat /\ sizes.csize \in Nat
      /\ localFileHeaders \in Seq(Kept) /\ entries \in Seq(Entries) /\ n \in Nat
      /\ format \in {"DEFLATE", "ZSTD"}
      /\ sizes.usize = Entry.actual /\ IsSizeOf(sizes.csize, Entry)
  <2>1. /\ next \in 1 .. Len(entries) + 1 /\ filePosition \in Nat
        /\ localFileHeaders \in Seq(Kept) /\ entries \in Seq(Entries)
        /\ format \in {"DEFLATE", "ZSTD"} /\ sizes \in [usize : Nat, csize : Nat]
    BY DEF IInv, TypeOK
  <2>2. /\ next <= Len(entries) /\ n = next - 1
        /\ sizes.usize = Entry.actual /\ IsSizeOf(sizes.csize, Entry)
    BY <1>1 DEF IInv, KeptOK
  <2>3. sizes.usize \in Nat /\ sizes.csize \in Nat
    BY <2>1
  <2>4. next \in Nat /\ n \in Nat
    BY <2>1, <2>2
  <2> QED BY <2>1, <2>2, <2>3, <2>4
<1>3. /\ Entry \in Entries /\ next \in DOMAIN entries /\ Entry.name \in Names
      /\ Entry.declared \in Nat /\ Entry = entries[next]
  BY <1>2, EntryType DEF Entries, Entry
<1>4. len = LocalHeaderLength(Placeholder) /\ len \in Nat \ {0}
  <2>1. \A c : LocalHeaderLength(HeaderFor(Entry, c, sizes.csize, sizes.usize))
                = LocalHeaderLength(Placeholder)
    BY <1>2, EntryType
  <2>2. LocalHeaderLength(Placeholder) \in Nat \ {0}
    BY <1>2, EntryType
  <2> HIDE DEF crc
  <2> QED BY <2>1, <2>2
<1>5. crc \in Contents /\ h \in LocalHeaders /\ kept \in Kept
  <2>1. crc \in Contents
    BY <1>2, <1>3, ContentType
  <2>2. h \in LocalHeaders
    BY <1>2, <1>3, <2>1, LocalHeaderType, Zip64LocalHeaderType DEF HeaderFor
  <2> QED BY <1>2, <2>1, <2>2 DEF Kept
<1>6. EndOf(kept) = filePosition' /\ EndOf(kept) \in Nat /\ filePosition <= EndOf(kept)
  BY <1>1, <1>2, <1>4 DEF EndOf, DataAt
<1>7. IsKeptOf(kept, Entry)
  BY <1>2 DEF IsKeptOf, RawOf, HeaderFor
<1>8. file' = [file EXCEPT !.parts = g]
  BY <1>1, <1>4 DEF WriteAt, Part
<1>9. /\ LocalsIn(f) /\ file = [exists |-> TRUE, parts |-> f]
      /\ \A p \in DOMAIN f :
           /\ f[p].kind # "record"
           /\ \/ Below(f, p, filePosition)
              \/ p = filePosition /\ f[p].len = len
              \/ p = DataAt(kept) /\ sizes.csize > 0 /\ f[p].len = sizes.csize
      /\ sizes.csize > 0 =>
           /\ DataAt(kept) \in DOMAIN f
           /\ f[DataAt(kept)] = Part("data", sizes.csize,
                [codec |-> Codec(Entry), content |-> Content(Entry.name, Entry.actual)])
  <2>1. DataAt(kept) = filePosition + LocalHeaderLength(Placeholder)
    BY <1>4 DEF DataAt
  <2> HIDE DEF kept, len
  <2> QED BY <1>1, <1>4, <2>1 DEF IInv, LayoutOK, Writing
<1>10. /\ \A p \in DOMAIN f : p < filePosition \/ p = DataAt(kept) => p \in DOMAIN g /\ g[p] = f[p]
       /\ filePosition \in DOMAIN g /\ g[filePosition] = Part("local", len, h)
       /\ \A p \in DOMAIN g : \/ p = filePosition
                              \/ /\ p \in DOMAIN f /\ g[p] = f[p]
                                 /\ p + f[p].len <= filePosition \/ filePosition + len <= p
  <2>1. \A p \in DOMAIN f : p \in Nat /\ (p < filePosition => p + f[p].len <= filePosition)
    BY <1>2, <1>4, <1>9 DEF Below, DataAt
  <2>2. filePosition + len \in Nat /\ DataAt(kept) = filePosition + len
        /\ DataAt(kept) # filePosition
    BY <1>2, <1>4 DEF DataAt
  <2>3. \A p \in DOMAIN new : p \in Nat /\ filePosition <= p
    BY <1>2
  <2>4. new[filePosition] = Part("local", len, h) /\ DOMAIN new = {filePosition}
    OBVIOUS
  <2> HIDE DEF new, f, h, len, kept
  <2>5. ASSUME DataAt(kept) \in DOMAIN f
        PROVE DataAt(kept) \in DOMAIN g /\ g[DataAt(kept)] = f[DataAt(kept)]
    BY <2>2, <2>4, <2>5 DEF WriteParts
  <2>6. /\ \A p \in DOMAIN f : p < filePosition => p \in DOMAIN g /\ g[p] = f[p]
        /\ \A p \in DOMAIN new : p \in DOMAIN g /\ g[p] = new[p]
        /\ \A p \in DOMAIN g : \/ p \in DOMAIN new
                               \/ p \in DOMAIN f /\ g[p] = f[p]
                                  /\ (p + f[p].len <= filePosition \/ filePosition + len <= p)
    <3>1. filePosition \in Nat /\ filePosition + len \in Nat
      BY <1>2, <2>2
    <3> QED BY <2>1, <2>3, <3>1, WritesBeyond, SMTT(60)
  <2> HIDE DEF g
  <2>7. \A p \in DOMAIN f : p < filePosition \/ p = DataAt(kept) => p \in DOMAIN g /\ g[p] = f[p]
    BY <2>5, <2>6
  <2> QED BY <2>4, <2>6, <2>7
<1> HIDE DEF g, h, crc, new
<1>11. /\ localFileHeaders' \in Seq(Kept) /\ Len(localFileHeaders') = n + 1
       /\ \A i \in 1 .. n : localFileHeaders'[i] = localFileHeaders[i]
       /\ localFileHeaders'[n + 1] = kept
       /\ DOMAIN localFileHeaders = 1 .. n /\ DOMAIN localFileHeaders' = 1 .. n + 1
  <2> HIDE DEF kept
  <2>1. DOMAIN localFileHeaders = 1 .. n
    BY <1>2
  <2>2. Append(localFileHeaders, kept) \in Seq(Kept) /\ Len(Append(localFileHeaders, kept)) = n + 1
    BY <1>2, <1>5, AppendProperties
  <2>3. /\ \A i \in 1 .. n : Append(localFileHeaders, kept)[i] = localFileHeaders[i]
        /\ Append(localFileHeaders, kept)[n + 1] = kept
    BY <1>2, <1>5, AppendProperties
  <2>4. DOMAIN Append(localFileHeaders, kept) = 1 .. n + 1
    BY <1>2, <2>2
  <2> QED BY <1>1, <2>1, <2>2, <2>3, <2>4
<1>12. /\ \A i \in 1 .. n : EndOf(localFileHeaders[i]) <= filePosition
       /\ \A i \in 1 .. n : EndOf(localFileHeaders[i]) \in Nat
       /\ filePosition = EndOfData
       /\ EndOfData = IF n = 0 THEN 0 ELSE EndOf(localFileHeaders[n])
  <2>1. \A i \in 1 .. n : EndOf(localFileHeaders[i]) <= filePosition
    BY <1>1, <1>11 DEF IInv, KeptOK
  <2>2. \A i \in 1 .. n : EndOf(localFileHeaders[i]) \in Nat
    <3>1. \A i \in 1 .. n : localFileHeaders[i] \in Kept
      BY <1>2
    <3> QED BY <3>1, KeptType
  <2>3. filePosition = EndOfData
    BY <1>1 DEF IInv, KeptOK
  <2>4. localFileHeaders = <<>> <=> n = 0
    BY <1>2
  <2> QED BY <2>1, <2>2, <2>3, <2>4 DEF EndOfData
<1>13. TypeOK'
  <2>1. filePosition' \in Nat /\ next' \in 1 .. Len(entries) + 1
    BY <1>1, <1>2, <1>4
  <2> QED BY <1>1, <1>11, <2>1 DEF IInv, TypeOK, Phases, Writing
<1>14. EntriesOK' /\ OutputOK'
  BY <1>1 DEF IInv, EntriesOK, OutputOK, Lost
<1>15. /\ \A e : Codec(e)' = Codec(e)
       /\ \A l, e : IsKeptOf(l, e) => IsKeptOf(l, e)'
       /\ \A l : EndOf(l)' = EndOf(l) /\ DataAt(l)' = DataAt(l)
  <2>1. \A a, b, c, d : LocalFileHeader(a, b, c, d)' = LocalFileHeader(a, b, c, d)
    BY <1>1 DEF LocalFileHeader
  <2>2. \A l, e : RawOf(l, e)' = RawOf(l, e)
    BY <2>1 DEF RawOf, Zip64LocalFileHeader
  <2>3. \A e : Codec(e)' = Codec(e)
    BY <1>1 DEF Codec
  <2>4. \A l, e : IsKeptOf(l, e) => IsKeptOf(l, e)'
    BY <2>2, <2>3 DEF IsKeptOf, IsSizeOf
  <2>5. \A l : EndOf(l)' = EndOf(l) /\ DataAt(l)' = DataAt(l)
    OBVIOUS
  <2> QED BY <2>3, <2>4, <2>5
<1>16. InOrder'
  <2>1. InOrder
    BY DEF IInv, KeptOK
  <2>2. ASSUME NEW i \in DOMAIN localFileHeaders'
        PROVE /\ i \in DOMAIN entries'
              /\ IsKeptOf(localFileHeaders[i], entries[i])'
              /\ localFileHeaders'[i].position
                   = IF i = 1 THEN 0 ELSE EndOf(localFileHeaders'[i - 1])
    <3>1. CASE i \in 1 .. n
      <4>1. /\ i \in DOMAIN entries
            /\ IsKeptOf(localFileHeaders[i], entries[i])
            /\ localFileHeaders[i].position = IF i = 1 THEN 0 ELSE EndOf(localFileHeaders[i - 1])
        BY <1>11, <2>1, <3>1 DEF InOrder
      <4>2. /\ localFileHeaders'[i] = localFileHeaders[i]
            /\ i # 1 => localFileHeaders'[i - 1] = localFileHeaders[i - 1]
        BY <1>2, <1>11, <3>1
      <4> QED BY <1>1, <1>15, <4>1, <4>2
    <3>2. CASE i = n + 1
      <4>1. localFileHeaders'[i] = kept /\ i = next /\ kept.position = filePosition
        BY <1>2, <1>11, <3>2
      <4>2. IsKeptOf(localFileHeaders[i], entries[i])'
        BY <1>1, <1>3, <1>7, <1>15, <4>1
      <4>3. i # 1 => localFileHeaders'[i - 1] = localFileHeaders[n] /\ n # 0
        BY <1>2, <1>11, <3>2
      <4> QED BY <1>1, <1>2, <1>3, <1>12, <3>2, <4>1, <4>2, <4>3
    <3> QED BY <1>2, <1>11, <2>2, <3>1, <3>2
  <2> QED BY <1>15, <2>2 DEF InOrder
<1>17. KeptOK'
  <2>1. Len(localFileHeaders') = next' - 1
    BY <1>1, <1>2, <1>11
  <2>2. EndOfData' = filePosition'
    <3>1. localFileHeaders' # <<>>
      BY <1>2, <1>11
    <3>2. EndOfData' = EndOf(localFileHeaders'[n + 1])
      BY <1>11, <3>1 DEF EndOfData
    <3> QED BY <1>6, <1>11, <3>2
  <2>3. \A i \in DOMAIN localFileHeaders' : EndOf(localFileHeaders'[i]) <= filePosition'
    <3>1. filePosition \in Nat /\ filePosition' \in Nat /\ filePosition <= filePosition'
      BY <1>2, <1>6
    <3>2. \A i \in 1 .. n : EndOf(localFileHeaders'[i]) <= filePosition'
      BY <1>11, <1>12, <3>1
    <3>3. EndOf(localFileHeaders'[n + 1]) <= filePosition'
      BY <1>6, <1>11, <3>1
    <3> QED BY <1>2, <1>11, <3>2, <3>3
  <2> QED BY <1>1, <1>16, <2>1, <2>2, <2>3 DEF KeptOK, Lost
<1>18. file' = [exists |-> TRUE, parts |-> g]
  <2> HIDE DEF f
  <2> QED BY <1>8, <1>9
<1>19. LocalsIn(file.parts)'
  <2>1. LocalsIn(g)
    BY <1>2, <1>9, <1>10, <1>11, <1>12, LocalsStay
  <2>2. ASSUME NEW i \in DOMAIN localFileHeaders'
        PROVE LET l == localFileHeaders'[i]
                  e == entries[i]
              IN /\ l.position \in DOMAIN g
                 /\ g[l.position] = Part("local", LocalHeaderLength(l.raw), l.raw)
                 /\ l.csize > 0 =>
                      /\ DataAt(l) \in DOMAIN g
                      /\ g[DataAt(l)] = Part("data", l.csize,
                           [codec |-> Codec(e), content |-> Content(e.name, e.actual)])
    <3>1. CASE i \in 1 .. n
      BY <1>11, <2>1, <3>1 DEF LocalsIn
    <3>2. CASE i = n + 1
      <4>1. localFileHeaders'[i] = kept /\ entries[i] = Entry
        BY <1>2, <1>3, <1>11, <3>2
      <4>2. kept.position = filePosition /\ kept.csize = sizes.csize /\ kept.raw = h
            /\ LocalHeaderLength(h) = len
        OBVIOUS
      <4> HIDE DEF kept, len
      <4> QED BY <1>9, <1>10, <4>1, <4>2
    <3> QED BY <1>2, <1>11, <2>2, <3>1, <3>2
  <2> HIDE DEF kept, len
  <2> QED BY <1>1, <1>15, <1>18, <2>2 DEF LocalsIn
<1>20. LayoutOK'
  <2>1. ASSUME NEW p \in DOMAIN g
        PROVE Below(g, p, filePosition') /\ g[p].kind # "record"
    <3>1. filePosition' = filePosition + len + sizes.csize /\ filePosition' \in Nat
          /\ DataAt(kept) = filePosition + len
      BY <1>1, <1>2, <1>4 DEF DataAt
    <3> HIDE DEF kept, len, f
    <3>2. CASE p = filePosition
      BY <1>2, <1>4, <1>10, <3>1, <3>2 DEF Below, Part
    <3>3. CASE p # filePosition
      <4>1. p \in DOMAIN f /\ g[p] = f[p]
        BY <1>10, <3>3
      <4>2. CASE Below(f, p, filePosition)
        BY <1>2, <1>4, <1>9, <3>1, <4>1, <4>2 DEF Below
      <4>3. CASE p = DataAt(kept) /\ sizes.csize > 0 /\ f[p].len = sizes.csize
        BY <1>2, <1>4, <1>9, <3>1, <4>1, <4>3 DEF Below
      <4> QED BY <1>9, <3>3, <4>1, <4>2, <4>3
    <3> QED BY <3>2, <3>3
  <2>2. \A p \in DOMAIN file'.parts :
          Below(file.parts, p, filePosition)' /\ file'.parts[p].kind # "record"
    BY <1>18, <2>1 DEF Below
  <2>3. file' = [exists |-> TRUE, parts |-> file'.parts]
    BY <1>18
  <2> QED BY <1>1, <1>19, <2>2, <2>3 DEF LayoutOK, Lost
<1> QED BY <1>13, <1>14, <1>17, <1>20 DEF IInv

\* The headers of the directory lie one after the other, without a gap.
LEMMA DirectoryParts ==
  ASSUME localFileHeaders \in Seq(Kept), NEW from \in Nat
  PROVE LET d == DirectoryAt(from)
        IN /\ \A i \in DOMAIN localFileHeaders :
                /\ from + DirectoryEnds[i - 1] \in DOMAIN d
                /\ d[from + DirectoryEnds[i - 1]]
                     = Part("central", CentralHeaderLength(CentralDirectory[i]),
                            CentralDirectory[i])
           /\ \A p \in DOMAIN d :
                /\ p \in Nat /\ from <= p /\ d[p].kind = "central" /\ d[p].len \in Nat \ {0}
                /\ p + d[p].len <= from + DirectoryLength
PROOF
<1> DEFINE n == Len(localFileHeaders)
           to == DirectoryEnds
           hs == CentralDirectory
           d == DirectoryAt(from)
           header(i) == Part("central", CentralHeaderLength(hs[i]), hs[i])
<1>1. /\ n \in Nat /\ DOMAIN localFileHeaders = 1 .. n /\ DOMAIN hs = 1 .. n
      /\ CentralLengths \in [1 .. n -> Nat \ {0}]
      /\ \A i \in 1 .. n : CentralLengths[i] = CentralHeaderLength(hs[i])
  BY CentralLengthsType DEF CentralLengths
<1>2. IsSums(to, CentralLengths, n)
  BY DirectoryEndsAreSums
<1>3. /\ \A i \in 0 .. n : to[i] \in Nat
      /\ DirectoryLength = to[n] /\ to[0] = 0
      /\ \A i \in 1 .. n : to[i] = to[i - 1] + CentralLengths[i]
  BY <1>1, <1>2 DEF IsSums, DirectoryLength
<1> HIDE DEF to, hs, n
<1>4. \A i, j \in 0 .. n : i < j => to[i] + CentralLengths[i + 1] <= to[j]
  BY <1>1, <1>2, SumsIncrease
<1>5. \A i, j \in 1 .. n : i < j => to[i - 1] < to[j - 1]
  <2> SUFFICES ASSUME NEW i \in 1 .. n, NEW j \in 1 .. n, i < j PROVE to[i - 1] < to[j - 1]
    OBVIOUS
  <2>1. i - 1 \in 0 .. n /\ j - 1 \in 0 .. n /\ i - 1 < j - 1 /\ i - 1 + 1 = i
    BY <1>1
  <2>2. to[i - 1] + CentralLengths[i] <= to[j - 1]
    BY <1>4, <2>1
  <2>3. to[i - 1] \in Nat /\ to[j - 1] \in Nat /\ CentralLengths[i] \in Nat \ {0}
    BY <1>1, <1>3, <2>1
  <2> QED BY <2>2, <2>3
<1>6. /\ DOMAIN d = {from + to[i - 1] : i \in 1 .. n}
      /\ \A p \in DOMAIN d : d[p] = header(CHOOSE j \in 1 .. n : p = from + to[j - 1])
  BY <1>1 DEF DirectoryAt, to, hs
<1> HIDE DEF d, header
<1>7. ASSUME NEW i \in 1 .. n
      PROVE from + to[i - 1] \in DOMAIN d /\ d[from + to[i - 1]] = header(i)
  <2> DEFINE k == CHOOSE j \in 1 .. n : from + to[i - 1] = from + to[j - 1]
  <2>1. k \in 1 .. n /\ from + to[i - 1] = from + to[k - 1]
    OBVIOUS
  <2>2. from + to[i - 1] \in DOMAIN d /\ d[from + to[i - 1]] = header(k)
    BY <1>6
  <2> HIDE DEF k
  <2>3. to[i - 1] \in Nat /\ to[k - 1] \in Nat
    BY <1>1, <1>3, <2>1
  <2>4. ~ (i < k) /\ ~ (k < i)
    BY <1>5, <2>1, <2>3
  <2>5. k = i
    BY <1>1, <2>1, <2>4
  <2> QED BY <2>2, <2>5
<1>8. ASSUME NEW p \in DOMAIN d
      PROVE /\ p \in Nat /\ from <= p /\ d[p].kind = "central" /\ d[p].len \in Nat \ {0}
            /\ p + d[p].len <= from + DirectoryLength
  <2>1. PICK i \in 1 .. n : p = from + to[i - 1]
    BY <1>6
  <2>2. d[p].kind = "central" /\ d[p].len = CentralLengths[i]
    <3>1. d[p] = Part("central", CentralHeaderLength(hs[i]), hs[i])
      BY <1>7, <2>1 DEF header
    <3>2. CentralLengths[i] = CentralHeaderLength(hs[i])
      BY <1>1
    <3> QED BY <3>1, <3>2 DEF Part
  <2>3. /\ to[i - 1] \in Nat /\ to[i] \in Nat /\ to[n] \in Nat
        /\ CentralLengths[i] \in Nat \ {0} /\ to[i] = to[i - 1] + CentralLengths[i]
    BY <1>1, <1>3
  <2>4. to[i] <= to[n]
    <3>1. CASE i = n
      BY <2>3, <3>1
    <3>2. CASE i # n
      <4>1. i \in 0 .. n /\ n \in 0 .. n /\ i < n /\ i + 1 \in 1 .. n
        BY <1>1, <3>2
      <4>2. to[i] + CentralLengths[i + 1] <= to[n] /\ CentralLengths[i + 1] \in Nat
        BY <1>1, <1>4, <4>1
      <4> QED BY <2>3, <4>2
    <3> QED BY <3>1, <3>2
  <2>5. DirectoryLength = to[n]
    BY <1>3
  <2> DEFINE a == to[i - 1]
             b == to[i]
             c == to[n]
             l == CentralLengths[i]
  <2>6. /\ a \in Nat /\ b \in Nat /\ c \in Nat /\ l \in Nat \ {0} /\ b = a + l /\ b <= c
        /\ p = from + a /\ d[p].len = l /\ DirectoryLength = c
    BY <2>1, <2>2, <2>3, <2>4, <2>5
  <2> HIDE DEF a, b, c, l
  <2>7. from + a \in Nat /\ from <= from + a /\ from + a + l <= from + c
    BY <2>6
  <2> QED BY <2>2, <2>6, <2>7
<1> QED BY <1>1, <1>7, <1>8 DEF d, header, to, hs

\* Once all entries are written: what a later step leaves alone.
LEMMA DirectoryReady ==
  ASSUME IInv, \/ phase = "entry" /\ next > Len(entries)
               \/ phase \in {"directory", "record", "finalized", "moved", "tested"}
               \/ Lost
  PROVE /\ localFileHeaders \in Seq(Kept) /\ localFileHeaders # <<>>
        /\ Len(localFileHeaders) = Len(entries)
        /\ StartOfDirectory \in Nat /\ DirectoryLength \in Nat /\ filePosition \in Nat
        /\ StartOfDirectory = EndOfData
        /\ \A i \in DOMAIN localFileHeaders : EndOf(localFileHeaders[i]) <= StartOfDirectory
        /\ phase = "entry" => filePosition = StartOfDirectory
PROOF
<1>1. /\ localFileHeaders \in Seq(Kept) /\ filePosition \in Nat /\ entries \in Seq(Entries)
      /\ entries # <<>> /\ next \in 1 .. Len(entries) + 1
  BY DEF IInv, TypeOK
<1>2. Len(localFileHeaders) = Len(entries)
  <2>1. CASE phase = "entry" /\ next > Len(entries)
    <3>1. Len(localFileHeaders) = next - 1
      BY <2>1 DEF IInv, KeptOK
    <3>2. next = Len(entries) + 1
      BY <1>1, <2>1
    <3> QED BY <1>1, <3>1, <3>2
  <2>2. CASE phase \in {"directory", "record", "finalized", "moved", "tested"} \/ Lost
    BY <2>2 DEF IInv, KeptOK
  <2> QED BY <2>1, <2>2
<1>3. localFileHeaders # <<>>
  BY <1>1, <1>2
<1>4. StartOfDirectory = EndOfData /\ StartOfDirectory \in Nat /\ DirectoryLength \in Nat
  BY <1>1, <1>3, DirectoryBegins
<1>5. /\ \A i \in DOMAIN localFileHeaders : EndOf(localFileHeaders[i]) <= StartOfDirectory
      /\ phase = "entry" => filePosition = StartOfDirectory
  BY <1>4 DEF IInv, KeptOK
<1> QED BY <1>1, <1>2, <1>3, <1>4, <1>5

LEMMA WriteDirectoryInv == IInv /\ WriteDirectory => IInv'
PROOF
<1> SUFFICES ASSUME IInv, WriteDirectory PROVE IInv'
  OBVIOUS
<1> DEFINE f == file.parts
           d == DirectoryAt(filePosition)
           end == filePosition + DirectoryLength
           g == WriteParts(f, filePosition, end, d)
<1>1. /\ phase = "entry" /\ next > Len(entries) /\ phase' = "directory"
      /\ file' = [file EXCEPT !.parts = g] /\ filePosition' = end
      /\ UNCHANGED <<entries, format, next, localFileHeaders, sizes, output, verdict, previous>>
  BY DEF WriteDirectory
<1>2. /\ localFileHeaders \in Seq(Kept) /\ Len(localFileHeaders) = Len(entries)
      /\ filePosition \in Nat /\ DirectoryLength \in Nat /\ filePosition = StartOfDirectory
      /\ \A i \in DOMAIN localFileHeaders : EndOf(localFileHeaders[i]) <= filePosition
  BY <1>1, DirectoryReady
<1>3. /\ LocalsIn(f) /\ file = [exists |-> TRUE, parts |-> f]
      /\ \A p \in DOMAIN f : f[p].kind # "record" /\ Below(f, p, filePosition)
  BY <1>1 DEF IInv, LayoutOK, Writing
<1>4. /\ \A i \in DOMAIN localFileHeaders :
           /\ filePosition + DirectoryEnds[i - 1] \in DOMAIN d
           /\ d[filePosition + DirectoryEnds[i - 1]]
                = Part("central", CentralHeaderLength(CentralDirectory[i]), CentralDirectory[i])
      /\ \A p \in DOMAIN d :
           /\ p \in Nat /\ filePosition <= p /\ d[p].kind = "central" /\ d[p].len \in Nat \ {0}
           /\ p + d[p].len <= filePosition + DirectoryLength
  BY <1>2, DirectoryParts
<1> HIDE DEF d
<1>5. end \in Nat /\ filePosition <= end
  BY <1>2
<1>6. /\ \A p \in DOMAIN f : p < filePosition => p \in DOMAIN g /\ g[p] = f[p]
      /\ \A p \in DOMAIN d : p \in DOMAIN g /\ g[p] = d[p]
      /\ \A p \in DOMAIN g : p \in DOMAIN d \/ (p \in DOMAIN f /\ g[p] = f[p])
  <2>1. \A p \in DOMAIN f : Below(f, p, filePosition)
    BY <1>3
  <2>2. \A p \in DOMAIN d : p \in Nat /\ filePosition <= p
    BY <1>4
  <2>3. filePosition \in Nat /\ end \in Nat
    BY <1>2, <1>5
  <2> HIDE DEF f, end
  <2>4. /\ \A p \in DOMAIN f : p \in DOMAIN g /\ g[p] = f[p]
        /\ \A p \in DOMAIN d : p \in DOMAIN g /\ g[p] = d[p]
        /\ \A p \in DOMAIN g : p \in DOMAIN d \/ (p \in DOMAIN f /\ g[p] = f[p])
    BY <2>1, <2>2, <2>3, WritesBehind, ZenonT(60)
  <2> HIDE DEF g
  <2> QED BY <2>4
<1> HIDE DEF g
<1>7. TypeOK'
  BY <1>1, <1>5 DEF IInv, TypeOK, Phases, Writing
<1>8. EntriesOK' /\ OutputOK'
  BY <1>1, RestInv
<1>9. KeptOK'
  BY <1>1, <1>2, RestInv, SameDirectory DEF KeptOK
<1>10. file' = [exists |-> TRUE, parts |-> g]
  <2> HIDE DEF f
  <2> QED BY <1>1, <1>3
<1>11. LocalsIn(file.parts)'
  <2>1. LocalsIn(g)
    BY <1>2, <1>3, <1>6, LocalsStay
  <2> QED BY <1>1, <1>10, <2>1 DEF LocalsIn, Codec
<1>12. DirectoryIn(file.parts)'
  <2>1. \A i \in DOMAIN localFileHeaders :
          /\ StartOfDirectory + DirectoryEnds[i - 1] \in DOMAIN g
          /\ g[StartOfDirectory + DirectoryEnds[i - 1]]
               = Part("central", CentralHeaderLength(CentralDirectory[i]), CentralDirectory[i])
    BY <1>2, <1>4, <1>6
  <2> QED BY <1>1, <1>10, <2>1, SameDirectory DEF DirectoryIn
<1>13. \A p \in DOMAIN g : Below(g, p, end) /\ g[p].kind # "record"
  BY <1>2, <1>3, <1>4, <1>5, <1>6 DEF Below
<1>14. LayoutOK'
  <2>1. \A p \in DOMAIN file'.parts :
          Below(file.parts, p, filePosition)' /\ file'.parts[p].kind # "record"
    BY <1>1, <1>10, <1>13 DEF Below
  <2>2. file' = [exists |-> TRUE, parts |-> file'.parts]
    BY <1>10
  <2>3. filePosition' = StartOfDirectory' + DirectoryLength'
    BY <1>1, <1>2, SameDirectory
  <2> QED BY <1>1, <1>11, <1>12, <2>1, <2>2, <2>3 DEF LayoutOK, Lost
<1> QED BY <1>7, <1>8, <1>9, <1>14 DEF IInv

\* What lies in a file lies in one that has more parts.
LEMMA MorePartsKeep ==
  ASSUME NEW f, NEW g, \A p \in DOMAIN f : p \in DOMAIN g /\ g[p] = f[p]
  PROVE /\ LocalsIn(f) => LocalsIn(g)
        /\ DirectoryIn(f) => DirectoryIn(g)
        /\ \A at : Zip64In(f, at) => Zip64In(g, at)
BY DEF LocalsIn, DirectoryIn, Zip64In

LEMMA WriteZip64Inv == IInv /\ WriteZip64 => IInv'
PROOF
<1> SUFFICES ASSUME IInv, WriteZip64 PROVE IInv'
  OBVIOUS
<1> DEFINE f == file.parts
           locatorAt == filePosition + Zip64RecordSize
           end == locatorAt + LocatorSize
           new == [p \in {filePosition, locatorAt} |->
                     IF p = filePosition THEN Part("zip64", Zip64RecordSize, Zip64Record)
                     ELSE Part("locator", LocatorSize, filePosition)]
           g == WriteParts(f, filePosition, end, new)
<1>1. /\ phase = "directory" /\ phase' = "record"
      /\ file' = [file EXCEPT !.parts = g] /\ filePosition' = end
      /\ UNCHANGED <<entries, format, next, localFileHeaders, sizes, output, verdict, previous>>
  BY DEF WriteZip64
<1>2. /\ localFileHeaders \in Seq(Kept) /\ Len(localFileHeaders) = Len(entries)
      /\ filePosition \in Nat
      /\ \A i \in DOMAIN localFileHeaders : EndOf(localFileHeaders[i]) <= StartOfDirectory
  BY <1>1, DirectoryReady
<1>3. /\ LocalsIn(f) /\ DirectoryIn(f) /\ file = [exists |-> TRUE, parts |-> f]
      /\ \A p \in DOMAIN f : f[p].kind # "record" /\ Below(f, p, filePosition)
  BY <1>1 DEF IInv, LayoutOK, Writing
<1>4. /\ locatorAt = filePosition + 56 /\ end = filePosition + 76
      /\ locatorAt \in Nat /\ end \in Nat
  BY <1>2 DEF Zip64RecordSize, LocatorSize
<1>5. /\ new[filePosition] = Part("zip64", Zip64RecordSize, Zip64Record)
      /\ new[locatorAt] = Part("locator", LocatorSize, filePosition)
      /\ DOMAIN new = {filePosition, locatorAt}
  BY <1>2, <1>4
<1> HIDE DEF new, locatorAt, end, f
<1>6. /\ \A p \in DOMAIN f : p \in DOMAIN g /\ g[p] = f[p]
      /\ \A p \in DOMAIN new : p \in DOMAIN g /\ g[p] = new[p]
      /\ \A p \in DOMAIN g : p \in DOMAIN new \/ (p \in DOMAIN f /\ g[p] = f[p])
  <2>1. \A p \in DOMAIN f : Below(f, p, filePosition)
    BY <1>3
  <2>2. \A p \in DOMAIN new : p \in Nat /\ filePosition <= p
    BY <1>2, <1>4, <1>5
  <2>3. /\ \A p \in DOMAIN f : p \in DOMAIN g /\ g[p] = f[p]
        /\ \A p \in DOMAIN new : p \in DOMAIN g /\ g[p] = new[p]
        /\ \A p \in DOMAIN g : p \in DOMAIN new \/ (p \in DOMAIN f /\ g[p] = f[p])
    <3>1. filePosition \in Nat /\ end \in Nat
      BY <1>2, <1>4
    <3> QED BY <2>1, <2>2, <3>1, WritesBehind, ZenonT(60)
  <2> HIDE DEF g
  <2> QED BY <2>3
<1> HIDE DEF g
<1>7. TypeOK'
  BY <1>1, <1>4 DEF IInv, TypeOK, Phases, Writing
<1>8. EntriesOK' /\ OutputOK'
  BY <1>1, RestInv
<1>9. KeptOK'
  BY <1>1, <1>2, RestInv, SameDirectory DEF KeptOK
<1>10. file' = [exists |-> TRUE, parts |-> g]
  BY <1>1, <1>3
<1>11. LocalsIn(g) /\ DirectoryIn(g)
  BY <1>3, <1>6, MorePartsKeep
<1>12. Zip64In(g, end)
  <2>1. end - LocatorSize = locatorAt /\ locatorAt - Zip64RecordSize = filePosition
    BY <1>2, <1>4 DEF LocatorSize, Zip64RecordSize
  <2> QED BY <1>5, <1>6, <2>1 DEF Zip64In
<1>13. \A p \in DOMAIN g : Below(g, p, end) /\ g[p].kind # "record"
  <2> SUFFICES ASSUME NEW p \in DOMAIN g PROVE Below(g, p, end) /\ g[p].kind # "record"
    OBVIOUS
  <2>1. CASE p \in DOMAIN new
    <3>1. p = filePosition \/ p = locatorAt
      BY <1>5, <2>1
    <3>2. CASE p = filePosition
      <4>1. g[p].len = 56 /\ g[p].kind = "zip64"
        BY <1>5, <1>6, <2>1, <3>2 DEF Part, Zip64RecordSize
      <4> QED BY <1>2, <1>4, <3>2, <4>1 DEF Below
    <3>3. CASE p = locatorAt
      <4>1. g[p].len = 20 /\ g[p].kind = "locator"
        BY <1>5, <1>6, <2>1, <3>3 DEF Part, LocatorSize
      <4> QED BY <1>2, <1>4, <3>3, <4>1 DEF Below
    <3> QED BY <3>1, <3>2, <3>3
  <2>2. CASE p \notin DOMAIN new
    BY <1>2, <1>3, <1>4, <1>6, <2>2 DEF Below
  <2> QED BY <2>1, <2>2
<1>14. LayoutOK'
  <2>1. \A p \in DOMAIN file'.parts :
          Below(file.parts, p, filePosition)' /\ file'.parts[p].kind # "record"
    BY <1>1, <1>10, <1>13 DEF Below
  <2>2. file' = [exists |-> TRUE, parts |-> file'.parts] /\ file'.parts = g
    BY <1>10
  <2>3. LocalsIn(file.parts)'
    BY <1>1, <1>11, <2>2 DEF LocalsIn, Codec
  <2>4. DirectoryIn(file.parts)'
    BY <1>1, <1>11, <2>2, SameDirectory DEF DirectoryIn
  <2>5. Zip64In(file.parts, filePosition)'
    BY <1>1, <1>12, <2>2, SameDirectory DEF Zip64In
  <2> QED BY <1>1, <2>1, <2>2, <2>3, <2>4, <2>5 DEF LayoutOK, Lost
<1> QED BY <1>7, <1>8, <1>9, <1>14 DEF IInv

LEMMA SkipZip64Inv == IInv /\ SkipZip64 => IInv'
PROOF
<1> SUFFICES ASSUME IInv, SkipZip64 PROVE IInv'
  OBVIOUS
<1>1. /\ phase = "directory" /\ phase' = "record" /\ ~ IsZip64
      /\ UNCHANGED <<entries, format, next, file, filePosition, localFileHeaders, sizes, output,
                     verdict, previous>>
  BY DEF SkipZip64
<1>2. /\ Len(localFileHeaders) = Len(entries)
      /\ \A i \in DOMAIN localFileHeaders : EndOf(localFileHeaders[i]) <= StartOfDirectory
  BY <1>1, DirectoryReady
<1>3. TypeOK'
  BY <1>1 DEF IInv, TypeOK, Phases, Writing
<1>4. EntriesOK' /\ OutputOK'
  BY <1>1, RestInv
<1>5. KeptOK'
  BY <1>1, <1>2, RestInv, SameDirectory DEF KeptOK
<1>6. LayoutOK'
  <2>1. /\ LocalsIn(file.parts) /\ DirectoryIn(file.parts)
        /\ file = [exists |-> TRUE, parts |-> file.parts]
        /\ \A p \in DOMAIN file.parts :
             file.parts[p].kind # "record" /\ Below(file.parts, p, filePosition)
    BY <1>1 DEF IInv, LayoutOK, Writing
  <2>2. LocalsIn(file.parts)'
    BY <1>1, <2>1 DEF LocalsIn, Codec
  <2>3. DirectoryIn(file.parts)'
    BY <1>1, <2>1, SameDirectory DEF DirectoryIn
  <2>4. Zip64In(file.parts, filePosition)'
    BY <1>1, SameDirectory DEF Zip64In
  <2>5. \A p \in DOMAIN file'.parts :
          Below(file.parts, p, filePosition)' /\ file'.parts[p].kind # "record"
    BY <1>1, <2>1 DEF Below
  <2>6. file' = [exists |-> TRUE, parts |-> file'.parts]
    BY <1>1, <2>1
  <2> QED BY <1>1, <2>2, <2>3, <2>4, <2>5, <2>6 DEF LayoutOK, Lost
<1> QED BY <1>3, <1>4, <1>5, <1>6 DEF IInv

LEMMA WriteRecordInv == IInv /\ WriteRecord => IInv'
PROOF
<1> SUFFICES ASSUME IInv, WriteRecord PROVE IInv'
  OBVIOUS
<1> DEFINE f == file.parts
           at == filePosition
           end == at + RecordLength
           new == [p \in {at} |-> Part("record", RecordLength, Record)]
           g == WriteParts(f, at, end, new)
<1>1. /\ phase = "record" /\ phase' = "finalized" /\ filePosition' = end
      /\ file' = [file EXCEPT !.parts = WriteAt(f, at, Part("record", RecordLength, Record))]
      /\ UNCHANGED <<entries, format, next, localFileHeaders, sizes, output, verdict, previous>>
  BY DEF WriteRecord, Write
<1>2. /\ localFileHeaders \in Seq(Kept) /\ Len(localFileHeaders) = Len(entries) /\ at \in Nat
      /\ \A i \in DOMAIN localFileHeaders : EndOf(localFileHeaders[i]) <= StartOfDirectory
  BY <1>1, DirectoryReady
<1>3. RecordLength \in Nat \ {0}
  BY DEF RecordLength, RecordSize
<1>4. file' = [file EXCEPT !.parts = g]
  BY <1>1, <1>3 DEF WriteAt, Part
<1>5. /\ LocalsIn(f) /\ DirectoryIn(f) /\ Zip64In(f, at)
      /\ file = [exists |-> TRUE, parts |-> f]
      /\ \A p \in DOMAIN f : f[p].kind # "record" /\ Below(f, p, at)
  BY <1>1 DEF IInv, LayoutOK, Writing
<1>6. new[at] = Part("record", RecordLength, Record) /\ DOMAIN new = {at} /\ end \in Nat
  BY <1>2, <1>3
<1> HIDE DEF new, end, f, at
<1>7. /\ \A p \in DOMAIN f : p \in DOMAIN g /\ g[p] = f[p]
      /\ at \in DOMAIN g /\ g[at] = Part("record", RecordLength, Record)
      /\ \A p \in DOMAIN g : p = at \/ (p \in DOMAIN f /\ g[p] = f[p])
  <2>1. \A p \in DOMAIN f : Below(f, p, at)
    BY <1>5
  <2>2. \A p \in DOMAIN new : p \in Nat /\ at <= p
    BY <1>2, <1>6
  <2>3. /\ \A p \in DOMAIN f : p \in DOMAIN g /\ g[p] = f[p]
        /\ \A p \in DOMAIN new : p \in DOMAIN g /\ g[p] = new[p]
        /\ \A p \in DOMAIN g : p \in DOMAIN new \/ (p \in DOMAIN f /\ g[p] = f[p])
    <3>1. at \in Nat /\ end \in Nat
      BY <1>2, <1>6
    <3> QED BY <2>1, <2>2, <3>1, WritesBehind, ZenonT(60)
  <2> HIDE DEF g
  <2> QED BY <1>6, <2>3
<1> HIDE DEF g
<1>8. TypeOK'
  BY <1>1, <1>6 DEF IInv, TypeOK, Phases, Writing
<1>9. EntriesOK' /\ OutputOK'
  BY <1>1, RestInv
<1>10. KeptOK'
  BY <1>1, <1>2, RestInv, SameDirectory DEF KeptOK
<1>11. file' = [exists |-> TRUE, parts |-> g]
  BY <1>4, <1>5
<1>12. WholeTo(g, at)
  <2>1. LocalsIn(g) /\ DirectoryIn(g) /\ Zip64In(g, at)
    BY <1>5, <1>7, MorePartsKeep
  <2>2. \A p \in DOMAIN g \ {at} : Below(g, p, at) /\ g[p].kind # "record"
    BY <1>5, <1>7 DEF Below
  <2> QED BY <1>2, <1>7, <2>1, <2>2 DEF WholeTo
<1>13. \E q \in DOMAIN file'.parts : WholeTo(file.parts, q)'
  <2> DEFINE h == file'.parts
  <2>1. h = g
    BY <1>11
  <2>2. /\ LocalsIn(file.parts)' <=> LocalsIn(g)
        /\ DirectoryIn(file.parts)' <=> DirectoryIn(g)
    BY <1>1, <2>1, SameDirectory DEF LocalsIn, DirectoryIn, Codec
  <2>3. \A q : Zip64In(file.parts, q)' <=> Zip64In(g, q)
    BY <2>1, <1>1, SameDirectory DEF Zip64In
  <2>4. \A q : WholeTo(file.parts, q)' <=> WholeTo(g, q)
    BY <1>1, <2>1, <2>2, <2>3, SameDirectory DEF WholeTo, Below
  <2> QED BY <1>7, <1>12, <2>1, <2>4
<1>14. LayoutOK'
  <2>1. file' = [exists |-> TRUE, parts |-> file'.parts]
    BY <1>11
  <2>2. (phase = "finalized" => \E q \in DOMAIN file.parts : WholeTo(file.parts, q))'
    BY <1>13
  <2> QED BY <1>1, <2>1, <2>2 DEF LayoutOK
<1> QED BY <1>8, <1>9, <1>10, <1>14 DEF IInv

\* A step after the last byte: the archive, and what it is made of, stay as they are.
LEMMA AfterLast ==
  ASSUME IInv, phase = "finalized" \/ Lost,
         UNCHANGED <<entries, format, next, filePosition, localFileHeaders, sizes>>
  PROVE /\ Len(localFileHeaders') = Len(entries')
        /\ \A i \in DOMAIN localFileHeaders' : EndOf(localFileHeaders[i])' <= StartOfDirectory'
        /\ InOrder'
        /\ \A f, at : WholeTo(f, at) => WholeTo(f, at)'
PROOF
<1>1. /\ Len(localFileHeaders) = Len(entries)
      /\ \A i \in DOMAIN localFileHeaders : EndOf(localFileHeaders[i]) <= StartOfDirectory
  BY DirectoryReady
<1>2. /\ InOrder'
      /\ \A i \in DOMAIN localFileHeaders :
           EndOf(localFileHeaders[i])' = EndOf(localFileHeaders[i])
  <2>1. InOrder
    BY DEF IInv, KeptOK
  <2>2. \A n, crc, c, u : LocalFileHeader(n, crc, c, u)' = LocalFileHeader(n, crc, c, u)
    BY DEF LocalFileHeader
  <2>3. \A l, e : RawOf(l, e)' = RawOf(l, e)
    BY <2>2 DEF RawOf, Zip64LocalFileHeader
  <2>4. \A l, e : IsKeptOf(l, e) => IsKeptOf(l, e)'
    BY <2>3 DEF IsKeptOf, IsSizeOf, Codec
  <2> QED BY <2>1, <2>4 DEF InOrder
<1>3. \A f, at : WholeTo(f, at) => WholeTo(f, at)'
  <2>1. \A f : (LocalsIn(f)' <=> LocalsIn(f)) /\ (DirectoryIn(f)' <=> DirectoryIn(f))
    BY SameDirectory DEF LocalsIn, DirectoryIn, Codec
  <2>2. \A f, at : Zip64In(f, at)' <=> Zip64In(f, at)
    BY SameDirectory DEF Zip64In
  <2> QED BY <2>1, <2>2, SameDirectory DEF WholeTo, Below
<1> QED BY <1>1, <1>2, <1>3, SameDirectory

LEMMA MoveInv == IInv /\ Move => IInv'
PROOF
<1> SUFFICES ASSUME IInv, Move PROVE IInv'
  OBVIOUS
<1>1. /\ phase \in {"finalized", "removed"} /\ phase' = "moved" /\ output' = file
      /\ UNCHANGED <<entries, format, next, filePosition, localFileHeaders, sizes, verdict, previous>>
  BY DEF Move
<1>2. phase = "finalized" \/ (Lost /\ phase # "gaveUp")
  BY <1>1 DEF IInv, OutputOK
<1>3. PICK at \in DOMAIN file.parts : WholeTo(file.parts, at)
  BY <1>2 DEF IInv, LayoutOK
<1>4. file.exists
  <2>1. file = [exists |-> TRUE, parts |-> file.parts]
    BY <1>1 DEF IInv, LayoutOK, Writing
  <2> QED BY <2>1
<1>5. TypeOK' /\ EntriesOK'
  BY <1>1 DEF IInv, TypeOK, Phases, Writing, EntriesOK
<1>6. KeptOK'
  BY <1>1, <1>2, AfterLast DEF KeptOK, Lost
<1>7. LayoutOK'
  BY <1>1 DEF LayoutOK, Writing, Lost
<1>8. OutputOK'
  <2>1. /\ LocalsIn(output.parts)' <=> LocalsIn(file.parts)
        /\ DirectoryIn(output.parts)' <=> DirectoryIn(file.parts)
    BY <1>1, SameDirectory DEF LocalsIn, DirectoryIn, Codec
  <2>2. Zip64In(output.parts, at)' <=> Zip64In(file.parts, at)
    BY <1>1, SameDirectory DEF Zip64In
  <2>3. WholeTo(output.parts, at)'
    BY <1>1, <1>3, <2>1, <2>2, SameDirectory DEF WholeTo, Below
  <2> QED BY <1>1, <1>3, <1>4, <2>3 DEF OutputOK
<1> QED BY <1>5, <1>6, <1>7, <1>8 DEF IInv

\* What was there is removed before the archive can be moved there: the temporary file is whole.
LEMMA RemoveOutputInv == IInv /\ RemoveOutput => IInv'
PROOF
<1> SUFFICES ASSUME IInv, RemoveOutput PROVE IInv'
  OBVIOUS
<1>1. /\ phase = "finalized" /\ phase' = "removed" /\ output.exists /\ output' = NoFile
      /\ UNCHANGED <<entries, format, next, file, filePosition, localFileHeaders, sizes, verdict,
                     previous>>
  BY DEF RemoveOutput
<1>2. output = previous
  BY <1>1 DEF IInv, OutputOK, Lost
<1>3. NoFile # previous
  BY <1>1, <1>2 DEF NoFile
<1>4. PICK at \in DOMAIN file.parts : WholeTo(file.parts, at)
  BY <1>1 DEF IInv, LayoutOK
<1>5. TypeOK' /\ EntriesOK'
  BY <1>1 DEF IInv, TypeOK, Phases, Writing, EntriesOK
<1>6. KeptOK'
  BY <1>1, AfterLast DEF KeptOK, Lost
<1>7. LayoutOK'
  <2>1. (\E q \in DOMAIN file.parts : WholeTo(file.parts, q))'
    BY <1>1, <1>4, AfterLast
  <2>2. file = [exists |-> TRUE, parts |-> file.parts]
    BY <1>1 DEF IInv, LayoutOK, Writing
  <2> QED BY <1>1, <2>1, <2>2 DEF LayoutOK
<1>8. OutputOK'
  BY <1>1, <1>3 DEF OutputOK, Lost
<1> QED BY <1>5, <1>6, <1>7, <1>8 DEF IInv

\* The steps that write nothing: a failure, what follows it, and the end of the process.
LEMMA EndInv == IInv /\ (Fail \/ RemoveTemp \/ Crash) => IInv'
PROOF
<1> SUFFICES ASSUME IInv, Fail \/ RemoveTemp \/ Crash PROVE IInv'
  OBVIOUS
<1>1. /\ phase \in Writing \cup {"failed"} /\ phase' \in {"failed", "gaveUp", "crashed"}
      /\ phase = "failed" => phase' \in {"gaveUp", "crashed"}
      /\ phase' # "gaveUp" => file' = file
      /\ UNCHANGED <<entries, format, next, filePosition, localFileHeaders, sizes, output, verdict,
                     previous>>
  BY DEF Fail, RemoveTemp, Crash, Writing
<1>2. TypeOK'
  BY <1>1 DEF IInv, TypeOK, Phases
<1>3. EntriesOK' /\ OutputOK' /\ InOrder'
  BY <1>1, RestInv DEF Writing
<1>4. Lost' => Lost
  BY <1>1 DEF IInv, OutputOK, Lost, Writing
<1>5. KeptOK'
  <2>1. Lost => /\ Len(localFileHeaders') = Len(entries')
                /\ \A i \in DOMAIN localFileHeaders' :
                     EndOf(localFileHeaders[i])' <= StartOfDirectory'
    BY <1>1, AfterLast
  <2> QED BY <1>1, <1>3, <1>4, <2>1 DEF KeptOK
<1>6. LayoutOK'
  <2>1. ASSUME Lost', phase' # "gaveUp"
        PROVE (\E q \in DOMAIN file.parts : WholeTo(file.parts, q))'
    <3>1. Lost /\ phase # "gaveUp"
      BY <1>1, <1>4, <2>1 DEF Writing
    <3>2. PICK at \in DOMAIN file.parts : WholeTo(file.parts, at)
      BY <3>1 DEF IInv, LayoutOK
    <3> QED BY <1>1, <2>1, <3>1, <3>2, AfterLast
  <2>2. phase' # "gaveUp" => file' = [exists |-> TRUE, parts |-> file'.parts]
    BY <1>1 DEF IInv, LayoutOK
  <2> QED BY <1>1, <2>1, <2>2 DEF LayoutOK, Writing
<1> QED BY <1>2, <1>3, <1>5, <1>6 DEF IInv

\* What is the same afterwards for a step that moves nothing.
LEMMA SameInv ==
  ASSUME IInv, UNCHANGED <<entries, format, next, file, filePosition, localFileHeaders, sizes,
                           output, previous>>,
         phase' = phase \/ (phase = "moved" /\ phase' = "tested"),
         verdict' \in {"none", "unreadable", "wrong contents", "not valid", "passed"}
  PROVE IInv'
PROOF
<1>1. /\ \A f : LocalsIn(f)' <=> LocalsIn(f)
      /\ \A f : DirectoryIn(f)' <=> DirectoryIn(f)
      /\ \A f, at : Zip64In(f, at)' <=> Zip64In(f, at)
      /\ \A f, at : WholeTo(f, at)' <=> WholeTo(f, at)
      /\ Placeholder' = Placeholder /\ Entry' = Entry
  <2>1. /\ \A f : LocalsIn(f)' <=> LocalsIn(f)
        /\ \A f : DirectoryIn(f)' <=> DirectoryIn(f)
    BY SameDirectory DEF LocalsIn, DirectoryIn, Codec
  <2>2. \A f, at : Zip64In(f, at)' <=> Zip64In(f, at)
    BY SameDirectory DEF Zip64In
  <2>3. \A f, at : WholeTo(f, at)' <=> WholeTo(f, at)
    BY <2>1, <2>2, SameDirectory DEF WholeTo, Below
  <2>4. Placeholder' = Placeholder /\ Entry' = Entry
    <3>1. Entry' = Entry
      BY DEF Entry
    <3>2. \A n, crc, c, u : LocalFileHeader(n, crc, c, u)' = LocalFileHeader(n, crc, c, u)
      BY DEF LocalFileHeader
    <3> QED BY <3>1, <3>2 DEF Placeholder, HeaderFor, Zip64LocalFileHeader
  <2> QED BY <2>1, <2>2, <2>3, <2>4
<1>2. TypeOK' /\ EntriesOK'
  BY DEF IInv, TypeOK, Phases, EntriesOK
<1>3. InOrder'
  <2>1. InOrder
    BY DEF IInv, KeptOK
  <2>2. \A n, crc, c, u : LocalFileHeader(n, crc, c, u)' = LocalFileHeader(n, crc, c, u)
    BY DEF LocalFileHeader
  <2>3. \A l, e : RawOf(l, e)' = RawOf(l, e)
    BY <2>2 DEF RawOf, Zip64LocalFileHeader
  <2>4. \A l, e : IsKeptOf(l, e) => IsKeptOf(l, e)'
    BY <2>3 DEF IsKeptOf, IsSizeOf, Codec
  <2> QED BY <2>1, <2>4 DEF InOrder
<1>4. KeptOK'
  <2>1. Codec(Entry)' = Codec(Entry)
    BY <1>1 DEF Codec
  <2> QED BY <1>1, <1>3, <2>1, SameDirectory DEF IInv, KeptOK, IsSizeOf, Lost
<1>5. LayoutOK'
  BY <1>1, SameDirectory DEF IInv, LayoutOK, Below, Codec, Writing, Lost
<1>6. OutputOK'
  BY <1>1 DEF IInv, OutputOK, Lost
<1> QED BY <1>2, <1>3, <1>4, <1>5, <1>6 DEF IInv

LEMMA NextInv == IInv /\ [Next]_vars => IInv'
PROOF
<1> SUFFICES ASSUME IInv, [Next]_vars PROVE IInv'
  OBVIOUS
<1>1. CASE Test
  <2>1. Tested(output.parts) \in {"unreadable", "wrong contents", "not valid", "passed"}
    BY DEF Tested
  <2> QED BY <1>1, <2>1, SameInv DEF Test
<1>2. CASE UNCHANGED vars
  <2>1. verdict \in {"none", "unreadable", "wrong contents", "not valid", "passed"}
    BY DEF IInv, TypeOK
  <2> QED BY <1>2, <2>1, SameInv DEF vars
<1> QED BY <1>1, <1>2, OpenInv, WritePlaceholderInv, StreamDataInv, WriteHeaderInv,
           WriteDirectoryInv, WriteZip64Inv, SkipZip64Inv, WriteRecordInv, MoveInv,
           RemoveOutputInv, EndInv DEF Next

\* Every variable has its type.
THEOREM TypeCorrect == Spec => []TypeOK
PROOF
<1>1. IInv => TypeOK
  BY DEF IInv
<1> QED BY <1>1, InitInv, NextInv, PTL DEF Spec

-----------------------------------------------------------------------------
(* What ZipReader finds in a whole archive.                                *)

\* A field of the end record is full exactly when there is more to say.
LEMMA RecordFields ==
  ASSUME NEW n \in Nat, NEW most \in Nat
  PROVE Clamp(n, most) = most <=> n >= most
BY DEF Clamp

LEMMA RecordIsFound ==
  ASSUME NEW f, NEW at, WholeTo(f, at)
  PROVE RecordsInWindow(f) = {at}
PROOF
<1>1. /\ at \in Nat /\ at \in DOMAIN f /\ f[at].kind = "record" /\ f[at].len = RecordLength
      /\ \A p \in DOMAIN f \ {at} : Below(f, p, at) /\ f[p].kind # "record"
  BY DEF WholeTo, Part
<1>2. RecordLength \in Nat /\ RecordLength <= RecordSize + 22 /\ RecordLength > RecordSize
  BY DEF RecordLength, RecordSize
<1>3. SizeOf(f) = at + RecordLength
  <2> DEFINE last == CHOOSE p \in DOMAIN f : \A q \in DOMAIN f : q <= p
  <2>1. \A q \in DOMAIN f : q \in Nat /\ q <= at
    BY <1>1 DEF Below
  <2>2. last \in DOMAIN f /\ \A q \in DOMAIN f : q <= last
    BY <1>1, <2>1
  <2>3. last = at
    <3> HIDE DEF last
    <3> QED BY <1>1, <2>1, <2>2
  <2>4. SizeOf(f) = last + f[last].len
    BY <1>1 DEF SizeOf
  <2> QED BY <1>1, <2>3, <2>4
<1> DEFINE size == SizeOf(f)
           most == RecordSize + MaxComment
           from == IF size - 1 - most > 0 THEN size - 1 - most ELSE 0
           bytes == IF most < size THEN most ELSE size
<1>4. from <= at /\ at + 4 <= from + bytes
  <2> HIDE DEF size
  <2>1. size = at + RecordLength /\ most = 22 + MaxComment
    BY <1>3 DEF size, RecordSize
  <2>2. RecordLength <= 44 /\ RecordLength > 22
    BY <1>2 DEF RecordSize
  <2> HIDE DEF most
  <2> QED BY <1>1, <1>2, <2>1, <2>2, CommentAssumption
<1>5. RecordsInWindow(f)
        = {p \in DOMAIN f : f[p].kind = "record" /\ from <= p /\ p + 4 <= from + bytes}
  BY DEF RecordsInWindow
<1> HIDE DEF from, bytes
<1> QED BY <1>1, <1>4, <1>5

\* The numbers of the end record, or of the zip64 one, are those of the directory.
LEMMA RecordIsRead ==
  ASSUME IInv, phase \in {"moved", "tested"} \/ Lost, NEW f, NEW at, WholeTo(f, at)
  PROVE /\ HasRecord(f)
        /\ EndRecord(f).count = Len(localFileHeaders)
        /\ EndRecord(f).cdOffset = StartOfDirectory
        /\ EndRecord(f).comment = Record.comment
PROOF
<1> DEFINE q == CHOOSE p \in RecordsInWindow(f) : \A o \in RecordsInWindow(f) : o <= p
           n == Len(localFileHeaders)
<1>1. RecordsInWindow(f) = {at} /\ at \in Nat /\ f[at].body = Record
  BY RecordIsFound DEF WholeTo, Part
<1>2. q = at
  BY <1>1
<1>3. /\ localFileHeaders \in Seq(Kept) /\ n \in Nat \ {0}
      /\ StartOfDirectory \in Nat /\ DirectoryLength \in Nat
  <2>1. /\ localFileHeaders \in Seq(Kept) /\ localFileHeaders # <<>>
        /\ StartOfDirectory \in Nat /\ DirectoryLength \in Nat
    BY DirectoryReady
  <2> QED BY <2>1
<1>4. /\ Record.count = MaxCount <=> n >= MaxCount
      /\ Record.cdSize = Max32 <=> DirectoryLength >= Max32
      /\ Record.cdOffset = Max32 <=> StartOfDirectory >= Max32
      /\ n < MaxCount => Record.count = n
      /\ StartOfDirectory < Max32 => Record.cdOffset = StartOfDirectory
  BY <1>3, Max32Assumption, MaxCountAssumption DEF Record, Clamp
<1>5. IsFull(Record) <=> IsZip64
  BY <1>4 DEF IsFull, IsZip64
<1>6. IsZip64 => /\ Holds(f, at - LocatorSize, "locator")
                 /\ f[at - LocatorSize].body = at - LocatorSize - Zip64RecordSize
                 /\ Holds(f, at - LocatorSize - Zip64RecordSize, "zip64")
                 /\ f[at - LocatorSize - Zip64RecordSize].body = Zip64Record
  BY DEF WholeTo, Zip64In, Holds, Part
<1>7. Holds(f, 0, "local")
  <2>1. 1 \in DOMAIN localFileHeaders
    BY <1>3
  <2>2. localFileHeaders[1].position = 0
    BY <2>1 DEF IInv, KeptOK, InOrder
  <2>3. LET l == localFileHeaders[1]
        IN l.position \in DOMAIN f /\ f[l.position] = Part("local", LocalHeaderLength(l.raw), l.raw)
    BY <2>1 DEF WholeTo, LocalsIn
  <2> QED BY <2>2, <2>3 DEF Holds, Part
<1> HIDE DEF q, n
<1>8. HasRecord(f)
  BY <1>1, <1>2, <1>5, <1>6, <1>7 DEF HasRecord, q
<1> DEFINE z == IF IsFull(Record) THEN f[f[at - LocatorSize].body].body ELSE Record
<1>9. EndRecord(f) = [count |-> IF Record.count = MaxCount THEN z.count ELSE Record.count,
                      cdOffset |-> IF Record.cdOffset = Max32 THEN z.cdOffset ELSE Record.cdOffset,
                      comment |-> Record.comment]
  BY <1>1, <1>2 DEF EndRecord, q
<1>10. IsZip64 => z.count = n /\ z.cdOffset = StartOfDirectory
  BY <1>5, <1>6 DEF Zip64Record, n
<1> HIDE DEF z
<1>11. Record.count = MaxCount => IsZip64
  BY <1>4 DEF IsZip64, n
<1>12. Record.cdOffset = Max32 => IsZip64
  BY <1>4 DEF IsZip64
<1>13. /\ EndRecord(f).count = n /\ EndRecord(f).cdOffset = StartOfDirectory
  BY <1>3, <1>4, <1>9, <1>10, <1>11, <1>12, Max32Assumption, MaxCountAssumption
<1> QED BY <1>8, <1>9, <1>13 DEF n

\* The headers are read where they were written, one after the other.
LEMMA HeadersAreFound ==
  ASSUME IInv, phase \in {"moved", "tested"} \/ Lost, NEW f, NEW at, WholeTo(f, at)
  PROVE /\ IsReadable(f)
        /\ CentralHeaders(f) = CentralDirectory
PROOF
<1> DEFINE n == Len(localFileHeaders)
           r == EndRecord(f)
           Step(a, i) == IF i = 1 THEN r.cdOffset
                          ELSE IF Holds(f, a[i - 1], "central") THEN a[i - 1] + f[a[i - 1]].len
                          ELSE Absent
           a == CHOOSE a : a = [i \in 1 .. r.count |-> Step(a, i)]
           g == [i \in 1 .. n |-> StartOfDirectory + DirectoryEnds[i - 1]]
<1>1. HasRecord(f) /\ r.count = n /\ r.cdOffset = StartOfDirectory
  BY RecordIsRead
<1>2. /\ localFileHeaders \in Seq(Kept) /\ n \in Nat /\ StartOfDirectory \in Nat
  <2>1. localFileHeaders \in Seq(Kept) /\ StartOfDirectory \in Nat
    BY DirectoryReady
  <2> QED BY <2>1
<1>3. /\ DOMAIN localFileHeaders = 1 .. n /\ DOMAIN CentralDirectory = 1 .. n
      /\ CentralDirectory = [i \in 1 .. n |-> CentralDirectory[i]]
      /\ CentralLengths \in [1 .. n -> Nat \ {0}]
      /\ \A i \in 1 .. n : CentralLengths[i] = CentralHeaderLength(CentralDirectory[i])
  BY <1>2, CentralLengthsType DEF CentralLengths, CentralDirectory
<1>4. /\ \A i \in 0 .. n : DirectoryEnds[i] \in Nat
      /\ DirectoryEnds[0] = 0
      /\ \A i \in 1 .. n : DirectoryEnds[i] = DirectoryEnds[i - 1] + CentralLengths[i]
  BY <1>2, DirectoryEndsAreSums DEF IsSums
<1>5. \A i \in 1 .. n : /\ Holds(f, g[i], "central")
                        /\ f[g[i]].len = CentralLengths[i] /\ f[g[i]].body = CentralDirectory[i]
  <2> SUFFICES ASSUME NEW i \in 1 .. n
               PROVE /\ Holds(f, g[i], "central")
                     /\ f[g[i]].len = CentralLengths[i] /\ f[g[i]].body = CentralDirectory[i]
    OBVIOUS
  <2>1. LET p == StartOfDirectory + DirectoryEnds[i - 1]
            h == CentralDirectory[i]
        IN p \in DOMAIN f /\ f[p] = Part("central", CentralHeaderLength(h), h)
    BY <1>3 DEF WholeTo, DirectoryIn
  <2>2. g[i] = StartOfDirectory + DirectoryEnds[i - 1]
    OBVIOUS
  <2> HIDE DEF g
  <2>3. CentralLengths[i] = CentralHeaderLength(CentralDirectory[i])
    BY <1>3
  <2> QED BY <2>1, <2>2, <2>3 DEF Holds, Part
<1> HIDE DEF r, n
<1>6. g = [i \in 1 .. r.count |-> Step(g, i)]
  <2> SUFFICES ASSUME NEW i \in 1 .. n PROVE g[i] = Step(g, i)
    BY <1>1
  <2>1. CASE i = 1
    BY <1>1, <1>2, <1>4, <2>1
  <2>2. CASE i # 1
    <3>1. i - 1 \in 1 .. n /\ i - 1 \in 0 .. n /\ i - 2 \in 0 .. n /\ i - 1 - 1 = i - 2
      BY <1>2, <2>2
    <3>2. g[i - 1] = StartOfDirectory + DirectoryEnds[i - 2]
      BY <3>1
    <3>3. g[i] = StartOfDirectory + DirectoryEnds[i - 1]
      OBVIOUS
    <3>4. DirectoryEnds[i - 1] = DirectoryEnds[i - 2] + CentralLengths[i - 1]
      BY <1>4, <3>1
    <3>5. /\ DirectoryEnds[i - 1] \in Nat /\ DirectoryEnds[i - 2] \in Nat
          /\ CentralLengths[i - 1] \in Nat
      BY <1>3, <1>4, <3>1
    <3>6. Holds(f, g[i - 1], "central") /\ f[g[i - 1]].len = CentralLengths[i - 1]
      BY <1>5, <3>1
    <3> HIDE DEF g
    <3>7. g[i] = g[i - 1] + f[g[i - 1]].len
      BY <1>2, <3>2, <3>3, <3>4, <3>5, <3>6
    <3> QED BY <2>2, <3>6, <3>7
  <2> QED BY <2>1, <2>2
<1>7. a = [i \in 1 .. r.count |-> Step(a, i)]
  BY <1>6
<1> HIDE DEF a
<1>8. a = g
  <2> DEFINE bad == {k \in 1 .. n : a[k] # g[k]}
  <2> HIDE DEF g
  <2>1. SUFFICES ASSUME bad # {} PROVE FALSE
    <3>1. bad = {}
      BY <2>1
    <3>2. \A k \in 1 .. n : a[k] = g[k]
      BY <3>1
    <3>3. DOMAIN a = 1 .. n /\ DOMAIN g = 1 .. n
      BY <1>1, <1>6, <1>7
    <3>4. a = [k \in 1 .. n |-> a[k]] /\ g = [k \in 1 .. n |-> g[k]]
      BY <1>1, <1>6, <1>7
    <3> QED BY <3>2, <3>4
  <2>2. PICK k \in bad : \A j \in bad : k <= j
    <3>1. bad \in SUBSET Nat
      BY <1>2
    <3> QED BY <2>1, <3>1, Smallest
  <2>3. a[k] = Step(a, k) /\ g[k] = Step(g, k)
    BY <1>1, <1>6, <1>7, <2>2
  <2>4. k # 1 => a[k - 1] = g[k - 1]
    <3>1. k # 1 => k - 1 \in 1 .. n /\ ~ (k <= k - 1)
      BY <1>2, <2>2
    <3> QED BY <2>2, <3>1
  <2> QED BY <2>2, <2>3, <2>4
<1>9. HeaderPositions(f, r) = g
  <2>1. HeaderPositions(f, r) = [i \in 1 .. r.count |-> a[i]]
    BY DEF HeaderPositions, a
  <2> QED BY <1>1, <1>8, <2>1
<1>10. IsReadable(f)
  BY <1>1, <1>5, <1>9 DEF IsReadable, r
<1>11. CentralHeaders(f) = [i \in 1 .. r.count |-> f[HeaderPositions(f, r)[i]].body]
  BY DEF CentralHeaders, r
<1> HIDE DEF g
<1>12. CentralHeaders(f) = CentralDirectory
  BY <1>1, <1>3, <1>5, <1>9, <1>11
<1> QED BY <1>10, <1>12

\* A whole archive lists all entries.
LEMMA WholeListsAll ==
  ASSUME IInv, phase \in {"moved", "tested"} \/ Lost, NEW g, g.exists,
         NEW at, WholeTo(g.parts, at)
  PROVE ListsAll(g)
PROOF
<1>1. IsReadable(g.parts) /\ CentralHeaders(g.parts) = CentralDirectory
  BY HeadersAreFound
<1>2. /\ localFileHeaders \in Seq(Kept) /\ entries \in Seq(Entries)
      /\ Len(localFileHeaders) = Len(entries)
  BY DirectoryReady DEF IInv, TypeOK
<1>3. /\ DOMAIN localFileHeaders = DOMAIN entries
      /\ DOMAIN CentralDirectory = DOMAIN entries
  BY <1>2 DEF CentralDirectory
<1>4. \A i \in DOMAIN entries : CentralDirectory[i].name = entries[i].name
  <2> SUFFICES ASSUME NEW i \in DOMAIN entries
               PROVE CentralDirectory[i].name = entries[i].name
    OBVIOUS
  <2>1. localFileHeaders[i] \in Kept /\ IsKeptOf(localFileHeaders[i], entries[i])
    BY <1>2, <1>3 DEF IInv, KeptOK, InOrder
  <2>2. localFileHeaders[i].raw.name = entries[i].name
    BY <2>1 DEF IsKeptOf, RawOf, Zip64LocalFileHeader, LocalFileHeader
  <2> QED BY <1>3, <2>1, <2>2, CentralHeaderShape DEF CentralDirectory
<1>5. {h.name : h \in Range(CentralDirectory)} = {e.name : e \in Range(entries)}
  BY <1>3, <1>4 DEF Range
<1> QED BY <1>1, <1>5 DEF ListsAll

\* Whatever fails, rename() and what mv() tries then included, and whenever the process ends:
\* at the archive's path is what was there or an archive that lists all entries, or the
\* temporary file is that archive, or mv() has failed for good after it removed what was there.
THEOREM OutputWhole == Spec => []OutputIsWhole
PROOF
<1>1. ASSUME IInv PROVE OutputIsWhole
  <2>1. CASE phase \in {"moved", "tested"}
    <3>1. output.exists /\ \E at \in DOMAIN output.parts : WholeTo(output.parts, at)
      BY <1>1, <2>1 DEF IInv, OutputOK
    <3> QED BY <1>1, <2>1, <3>1, WholeListsAll DEF OutputIsWhole
  <2>2. CASE phase \notin {"moved", "tested"} /\ output # previous /\ phase # "gaveUp"
    <3>1. output = NoFile /\ Lost
      BY <1>1, <2>2 DEF IInv, OutputOK
    <3>2. \E at \in DOMAIN file.parts : WholeTo(file.parts, at)
      BY <1>1, <2>2, <3>1 DEF IInv, LayoutOK
    <3>3. file.exists
      <4>1. file = [exists |-> TRUE, parts |-> file.parts]
        BY <1>1, <2>2, <3>1 DEF IInv, LayoutOK, Lost, Writing
      <4> QED BY <4>1
    <3> QED BY <1>1, <3>1, <3>2, <3>3, WholeListsAll DEF OutputIsWhole
  <2>3. CASE phase \notin {"moved", "tested"} /\ (output = previous \/ phase = "gaveUp")
    BY <1>1, <2>3 DEF IInv, OutputOK, OutputIsWhole
  <2> QED BY <2>1, <2>2, <2>3
<1> QED BY <1>1, InitInv, NextInv, PTL DEF Spec

-----------------------------------------------------------------------------
(* What is read of an entry.                                               *)

InfoOf(h, p) == Zip64Information(h.zip64, h.usize, h.csize, p)

\* The numbers of a local header, as they are read: they are lost only if one of them is too
\* big and the declared size was not.
LEMMA LocalNumbersAreRead ==
  ASSUME format \in {"DEFLATE", "ZSTD"}, NEW e \in Entries, NEW l \in Kept, IsKeptOf(l, e), NEW p
  PROVE LET h == l.raw
            i == InfoOf(l.raw, p)
            clamped == l.csize >= Max32 \/ l.usize >= Max32
        IN /\ i.present <=> e.declared >= Max32
           /\ clamped => h.csize = Max32 /\ h.usize = Max32
           /\ ~ clamped => /\ h.csize = l.csize /\ h.usize = l.usize
                           /\ i.csize = Absent /\ i.usize = Absent
           /\ clamped /\ e.declared >= Max32 => i.csize = l.csize /\ i.usize = l.usize
           /\ clamped /\ e.declared < Max32 => i.csize = Absent /\ i.usize = Absent
PROOF
<1> DEFINE h == LocalFileHeader(e.name, l.crc, l.csize, l.usize)
           clamped == l.csize >= Max32 \/ l.usize >= Max32
           r == IF l.position >= Max32 THEN <<l.position>> ELSE <<>>
           z == IF e.declared >= Max32 THEN <<l.usize, l.csize>> \o r ELSE <<>>
           i == InfoOf(l.raw, p)
<1>1. /\ l.csize \in Nat /\ l.usize \in Nat /\ l.position \in Nat /\ e.declared \in Nat
      /\ Max32 \in Nat
  BY KeptType, Max32Assumption DEF Entries
<1>2. Or(l.usize, 0) = l.usize
  BY <1>1 DEF Or, Absent
<1>3. /\ h.csize = (IF clamped THEN Max32 ELSE l.csize)
      /\ h.usize = (IF clamped THEN Max32 ELSE l.usize)
      /\ h.zip64 = <<>>
      /\ DOMAIN h = {"version", "utf8", "method", "stamp", "crc", "csize", "usize", "name", "zip64"}
  BY <1>2 DEF LocalFileHeader
<1>4. /\ l.raw.csize = h.csize /\ l.raw.usize = h.usize
      /\ l.raw.zip64 = z
  <2>1. CASE e.declared < Max32
    <3>1. l.raw = h
      BY <1>1, <2>1 DEF IsKeptOf, RawOf
    <3> QED BY <1>1, <1>3, <2>1, <3>1
  <2>2. CASE e.declared >= Max32
    <3>1. l.raw = [h EXCEPT !.version = IF @ < 45 THEN 45 ELSE @,
                            !.zip64 = <<l.usize, l.csize>> \o r]
      BY <1>2, <2>2 DEF IsKeptOf, RawOf, Zip64LocalFileHeader
    <3> HIDE DEF h, r
    <3> QED BY <1>3, <2>2, <3>1
  <2> QED BY <1>1, <2>1, <2>2
<1>5. e.declared >= Max32 => z # <<>> /\ z[1] = l.usize /\ z[2] = l.csize
  <2>1. r \in {<<>>, <<l.position>>}
    OBVIOUS
  <2> HIDE DEF r
  <2> QED BY <1>1, <2>1, LocalNumbers
<1>6. e.declared < Max32 => z = <<>>
  BY <1>1
<1> HIDE DEF h, z
<1>7. i.present <=> e.declared >= Max32
  <2>1. i.present = (z # <<>>)
    BY <1>4, Zenon DEF InfoOf, Zip64Information
  <2>2. z # <<>> <=> e.declared >= Max32
    BY <1>1, <1>5, <1>6
  <2> HIDE DEF i
  <2> QED BY <2>1, <2>2, Zenon
<1>8. ~ clamped => i.csize = Absent /\ i.usize = Absent
  BY <1>1, <1>3, <1>4 DEF InfoOf, Zip64Information
<1>9. clamped /\ e.declared >= Max32 => i.csize = l.csize /\ i.usize = l.usize
  BY <1>1, <1>3, <1>4, <1>5 DEF InfoOf, Zip64Information
<1>10. clamped /\ e.declared < Max32 => i.csize = Absent /\ i.usize = Absent
  BY <1>1, <1>3, <1>4, <1>6 DEF InfoOf, Zip64Information
<1> QED BY <1>3, <1>4, <1>7, <1>8, <1>9, <1>10

\* A whole archive, an entry of it, and what its header in the directory says.
LEMMA EntryIsThere ==
  ASSUME IInv, phase \in {"moved", "tested"}, NEW f, NEW at, WholeTo(f, at),
         NEW i \in DOMAIN CentralDirectory
  PROVE LET l == localFileHeaders[i]
            h == CentralDirectory[i]
        IN /\ i \in DOMAIN localFileHeaders /\ i \in DOMAIN entries
           /\ l \in Kept /\ entries[i] \in Entries /\ IsKeptOf(l, entries[i])
           /\ h = CentralFileHeader(l)
           /\ OffsetResolved(h) = l.position /\ CentralUsize(h) = l.usize
           /\ Holds(f, l.position, "local")
           /\ LocalHeader(f, h).fields = l.raw
           /\ LocalHeader(f, h).information = InfoOf(l.raw, l.position)
           /\ LocalHeader(f, h).length = LocalHeaderLength(l.raw)
           /\ LocalHeader(f, h).dataAt = DataAt(l)
           /\ l.csize > 0 =>
                /\ Holds(f, DataAt(l), "data") /\ f[DataAt(l)].len = l.csize
                /\ f[DataAt(l)].body = [codec |-> Codec(entries[i]),
                                        content |-> Content(entries[i].name, entries[i].actual)]
PROOF
<1> DEFINE l == localFileHeaders[i]
           h == CentralDirectory[i]
<1>1. /\ localFileHeaders \in Seq(Kept) /\ i \in DOMAIN localFileHeaders
      /\ h = CentralFileHeader(l) /\ entries \in Seq(Entries)
  BY DirectoryReady DEF CentralDirectory, IInv, TypeOK
<1>2. i \in DOMAIN entries /\ IsKeptOf(l, entries[i])
  BY <1>1 DEF IInv, KeptOK, InOrder
<1>3. l \in Kept /\ entries[i] \in Entries
  BY <1>1, <1>2
<1>4. l.usize \in Nat /\ l.csize \in Nat /\ l.position \in Nat
  BY <1>3, KeptType
<1>5. OffsetResolved(h) = l.position /\ CentralUsize(h) = l.usize
  BY <1>1, <1>4, DirectoryNumbersAreRead
<1>6. /\ l.position \in DOMAIN f
      /\ f[l.position] = Part("local", LocalHeaderLength(l.raw), l.raw)
      /\ l.csize > 0 =>
           /\ DataAt(l) \in DOMAIN f
           /\ f[DataAt(l)] = Part("data", l.csize,
                [codec |-> Codec(entries[i]),
                 content |-> Content(entries[i].name, entries[i].actual)])
  BY <1>1 DEF WholeTo, LocalsIn
<1> HIDE DEF l, h
<1>7. /\ LocalHeader(f, h).fields = l.raw
      /\ LocalHeader(f, h).information = InfoOf(l.raw, l.position)
      /\ LocalHeader(f, h).length = LocalHeaderLength(l.raw)
      /\ LocalHeader(f, h).dataAt = l.position + LocalHeaderLength(l.raw)
  BY <1>5, <1>6 DEF LocalHeader, InfoOf, Part
<1> QED BY <1>1, <1>2, <1>3, <1>5, <1>6, <1>7 DEF l, h, Holds, Part, DataAt

\* The sizes before the data, as they are read, are those of the data.
SizesAreRead(f, i) ==
  LET l == localFileHeaders[i]
      r == LocalHeader(f, CentralDirectory[i])
  IN LocalCsize(r) = l.csize /\ LocalUsize(r) = l.usize

\* Then the entry extracts to what was put into it, if it was said to be empty exactly when it is.
LEMMA ExtractsToContent ==
  ASSUME IInv, phase \in {"moved", "tested"}, NEW f, NEW at, WholeTo(f, at),
         NEW i \in DOMAIN CentralDirectory, SizesAreRead(f, i),
         entries[i].declared = 0 <=> entries[i].actual = 0
  PROVE Extracted(f, CentralDirectory[i]) = Content(entries[i].name, entries[i].actual)
PROOF
<1> DEFINE l == localFileHeaders[i]
           h == CentralDirectory[i]
           e == entries[i]
           r == LocalHeader(f, h)
           d == f[r.dataAt]
<1>1. /\ l \in Kept /\ e \in Entries /\ IsKeptOf(l, e) /\ i \in DOMAIN entries
      /\ OffsetResolved(h) = l.position /\ Holds(f, l.position, "local")
      /\ r.fields = l.raw /\ r.dataAt = DataAt(l)
      /\ l.csize > 0 =>
           /\ Holds(f, DataAt(l), "data") /\ f[DataAt(l)].len = l.csize
           /\ f[DataAt(l)].body = [codec |-> Codec(e), content |-> Content(e.name, e.actual)]
  BY EntryIsThere
<1>2. LocalCsize(r) = l.csize /\ LocalUsize(r) = l.usize
  BY DEF SizesAreRead
<1>3. /\ e.declared = 0 <=> e.actual = 0
      /\ format \in {"DEFLATE", "ZSTD"}
  BY DEF IInv, TypeOK
<1> HIDE DEF l, h, e, r
<1>4. /\ l.usize = e.actual /\ (l.csize = 0 <=> Codec(e) = "STORE") /\ l.raw = RawOf(l, e)
      /\ l.csize \in Nat /\ e.actual \in Nat
  BY <1>1, <1>3, KeptType DEF IsKeptOf, IsSizeOf, Codec, Entries
<1>5. l.raw.method = Codec(e)
  <2>1. l.raw.method = LocalFileHeader(e.name, l.crc, l.csize, l.usize).method
    BY <1>4 DEF RawOf, Zip64LocalFileHeader, LocalFileHeader
  <2> QED BY <1>3, <1>4, <2>1 DEF LocalFileHeader, Codec
<1>6. CASE l.csize = 0
  <2>1. r.fields.method = "STORE" /\ e.actual = 0
    BY <1>1, <1>3, <1>4, <1>5, <1>6 DEF Codec
  <2>2. Extracted(f, h) = Empty
    BY <1>1, <1>2, <1>6, <2>1 DEF Extracted, r
  <2> QED BY <2>1, <2>2 DEF Content, e, h
<1>7. CASE l.csize # 0
  <2>1. /\ Holds(f, r.dataAt, "data") /\ d.len = LocalCsize(r)
        /\ d.body.codec = r.fields.method /\ d.body.content = Content(e.name, e.actual)
    BY <1>1, <1>2, <1>4, <1>5, <1>7
  <2>2. d.body.content.size <= LocalUsize(r)
    <3>1. Content(e.name, e.actual).size = e.actual
      BY DEF Content, Empty
    <3> QED BY <1>2, <1>4, <2>1, <3>1
  <2>3. LocalCsize(r) # 0
    BY <1>2, <1>7
  <2>4. Extracted(f, h) = d.body.content
    BY <1>1, <2>1, <2>2, <2>3 DEF Extracted, r
  <2> QED BY <2>1, <2>4 DEF e, h
<1> QED BY <1>6, <1>7

\* The validator refuses a header before the data that has lost a size.
LEMMA ValidIsRead ==
  ASSUME IInv, phase \in {"moved", "tested"}, NEW f, NEW at, WholeTo(f, at),
         NEW i \in DOMAIN CentralDirectory,
         LocalIsValid(LocalHeader(f, CentralDirectory[i]), CentralDirectory[i])
  PROVE SizesAreRead(f, i)
PROOF
<1> DEFINE l == localFileHeaders[i]
           h == CentralDirectory[i]
           r == LocalHeader(f, h)
           info == InfoOf(l.raw, l.position)
           clamped == l.csize >= Max32 \/ l.usize >= Max32
<1>1. /\ l \in Kept /\ entries[i] \in Entries /\ IsKeptOf(l, entries[i])
      /\ r.fields = l.raw /\ r.information = info /\ format \in {"DEFLATE", "ZSTD"}
  BY EntryIsThere DEF IInv, TypeOK
<1>2. l.csize \in Nat /\ l.usize \in Nat /\ Max32 \in Nat /\ entries[i].declared \in Nat
  BY <1>1, KeptType, Max32Assumption DEF Entries
<1>3. /\ clamped => l.raw.csize = Max32
      /\ ~ clamped => /\ l.raw.csize = l.csize /\ l.raw.usize = l.usize
                      /\ info.csize = Absent /\ info.usize = Absent
      /\ clamped /\ entries[i].declared >= Max32 => info.csize = l.csize /\ info.usize = l.usize
      /\ clamped /\ entries[i].declared < Max32 => info.csize = Absent
  BY <1>1, LocalNumbersAreRead
<1>4. SameSize(l.raw.csize, info.csize, h.csize, CentralInformation(h).csize)
  BY <1>1 DEF LocalIsValid
<1> HIDE DEF l, h, info, r
<1>5. CASE clamped
  <2>1. info.csize # Absent
    BY <1>2, <1>3, <1>4, <1>5 DEF SameSize
  <2>2. info.csize = l.csize /\ info.usize = l.usize
    BY <1>2, <1>3, <1>5, <2>1
  <2>3. LocalCsize(r) = l.csize /\ LocalUsize(r) = l.usize
    BY <1>1, <1>2, <2>2 DEF LocalCsize, LocalUsize, Or, Absent
  <2> QED BY <2>3 DEF SizesAreRead, l, r, h
<1>6. CASE ~ clamped
  <2>1. LocalCsize(r) = l.csize /\ LocalUsize(r) = l.usize
    BY <1>1, <1>3, <1>6 DEF LocalCsize, LocalUsize, Or
  <2> QED BY <2>1 DEF SizesAreRead, l, r, h
<1> QED BY <1>5, <1>6

\* When all sizes are read, the archive lists and extracts to what was to be written.
LEMMA ListsWhatWasWritten ==
  ASSUME IInv, phase \in {"moved", "tested"}, NEW f, NEW at, WholeTo(f, at),
         \A i \in DOMAIN CentralDirectory :
           SizesAreRead(f, i) /\ (entries[i].declared = 0 <=> entries[i].actual = 0)
  PROVE Listing(f) = Expected
PROOF
<1> DEFINE hs == CentralDirectory
           of(i) == [name |-> hs[i].name, size |-> CentralUsize(hs[i]),
                     content |-> Extracted(f, hs[i])]
           from(i) == [name |-> entries[i].name, size |-> entries[i].actual,
                       content |-> Content(entries[i].name, entries[i].actual)]
<1>1. CentralHeaders(f) = hs
  BY HeadersAreFound
<1>2. DOMAIN hs = DOMAIN entries
  <2>1. localFileHeaders \in Seq(Kept) /\ Len(localFileHeaders) = Len(entries)
    BY DirectoryReady
  <2>2. entries \in Seq(Entries)
    BY DEF IInv, TypeOK
  <2>3. DOMAIN localFileHeaders = DOMAIN entries
    BY <2>1, <2>2
  <2> QED BY <2>3 DEF CentralDirectory
<1>3. \A i \in DOMAIN hs : of(i) = from(i)
  <2> SUFFICES ASSUME NEW i \in DOMAIN hs PROVE of(i) = from(i)
    OBVIOUS
  <2> DEFINE l == localFileHeaders[i]
  <2>1. /\ l \in Kept /\ IsKeptOf(l, entries[i])
        /\ hs[i] = CentralFileHeader(l) /\ CentralUsize(hs[i]) = l.usize
    BY EntryIsThere
  <2>2. Extracted(f, hs[i]) = Content(entries[i].name, entries[i].actual)
    BY ExtractsToContent
  <2>3. hs[i].name = l.raw.name /\ l.raw.name = entries[i].name /\ l.usize = entries[i].actual
    <3> HIDE DEF l, hs
    <3>1. hs[i].name = l.raw.name
      BY <2>1, CentralHeaderShape
    <3>2. l.raw = RawOf(l, entries[i]) /\ l.usize = entries[i].actual
      BY <2>1 DEF IsKeptOf
    <3>3. RawOf(l, entries[i]).name = entries[i].name
      BY DEF RawOf, Zip64LocalFileHeader, LocalFileHeader
    <3> QED BY <3>1, <3>2, <3>3
  <2> QED BY <2>1, <2>2, <2>3
<1>4. Listing(f) = {of(i) : i \in DOMAIN hs}
  BY <1>1 DEF Listing
<1>5. Expected = {from(i) : i \in DOMAIN entries}
  BY DEF Expected
<1> HIDE DEF hs, of, from
<1> QED BY <1>2, <1>3, <1>4, <1>5

\* No archive that this program's validator accepts extracts to anything but what was put
\* into it, whatever the sizes were said to be, if what was said to be empty was.
THEOREM AcceptedSound ==
  ASSUME EmptyAsDeclared
  PROVE Spec => []AcceptedIsSound
PROOF
<1>1. ASSUME IInv PROVE AcceptedIsSound
  <2> SUFFICES ASSUME phase = "tested", Validation(output.parts) # "INVALID"
               PROVE Listing(output.parts) = Expected
    BY DEF AcceptedIsSound
  <2> DEFINE f == output.parts
  <2>1. PICK at : WholeTo(f, at)
    BY <1>1 DEF IInv, OutputOK
  <2>2. CentralHeaders(f) = CentralDirectory
    BY <1>1, <2>1, HeadersAreFound
  <2>3. EntriesAreValid(f, CentralDirectory, EndRecord(f).cdOffset)
    BY <2>2 DEF Validation
  <2>4. \A i \in DOMAIN CentralDirectory :
          LocalIsValid(LocalHeader(f, CentralDirectory[i]), CentralDirectory[i])
    BY <2>3 DEF EntriesAreValid
  <2> HIDE DEF f
  <2>5. \A i \in DOMAIN CentralDirectory : SizesAreRead(f, i)
    BY <1>1, <2>1, <2>4, ValidIsRead
  <2>6. \A i \in DOMAIN CentralDirectory : entries[i].declared = 0 <=> entries[i].actual = 0
    BY <1>1, <2>1, EntryIsThere DEF IInv, EntriesOK
  <2>7. Listing(f) = Expected
    BY <1>1, <2>1, <2>5, <2>6, ListsWhatWasWritten
  <2> QED BY <2>7 DEF f
<1> QED BY <1>1, InitInv, NextInv, PTL DEF Spec

-----------------------------------------------------------------------------
(* What is written when the sizes were known is valid.                     *)

\* The fields of the header before the data, and of the one in the directory, when the size
\* was known and compression has not carried the data over 4 GiB.
LEMMA RightHeaders ==
  ASSUME format \in {"DEFLATE", "ZSTD"}, NEW e \in Entries, NEW l \in Kept, IsKeptOf(l, e),
         e.declared = l.usize, l.usize >= Max32 \/ l.csize < Max32, NEW r,
         r.fields = l.raw, r.information = InfoOf(l.raw, l.position)
  PROVE /\ CentralIsValid(CentralFileHeader(l), format # "DEFLATE")
        /\ LocalIsValid(r, CentralFileHeader(l))
        /\ CentralFileHeader(l).method # "DEFLATE" <=> format # "DEFLATE"
        /\ CentralFileHeader(l).name = e.name
        /\ LocalCsize(r) = l.csize /\ LocalUsize(r) = l.usize
PROOF
<1> DEFINE h == CentralFileHeader(l)
           info == CentralInformation(h)
           li == InfoOf(l.raw, l.position)
           big == l.usize >= Max32
           v == IF format = "DEFLATE" \/ l.usize = 0 THEN 20 ELSE 63
           z == IfBig(l.usize) \o IfBig(l.csize) \o IfBig(l.position)
<1>1. /\ l.csize \in Nat /\ l.usize \in Nat /\ l.position \in Nat /\ Max32 \in Nat \ {0}
      /\ l.csize >= Max32 \/ l.usize >= Max32 <=> big
  BY KeptType, Max32Assumption
\* The header before the data.
<1>2. /\ l.raw.utf8 = (e.name \notin Cp437Names)
      /\ l.raw.method = (IF format = "DEFLATE" THEN "DEFLATE"
                         ELSE IF l.usize = 0 THEN "STORE" ELSE "ZSTD")
      /\ l.raw.stamp = (IF format = "DEFLATE" THEN "1996-12-24" ELSE "none")
      /\ l.raw.crc = l.crc /\ l.raw.name = e.name
      /\ l.raw.version = IF big /\ v < 45 THEN 45 ELSE v
  <2> DEFINE s == LocalFileHeader(e.name, l.crc, l.csize, l.usize)
  <2>1. /\ s.utf8 = (e.name \notin Cp437Names)
        /\ s.method = (IF format = "DEFLATE" THEN "DEFLATE"
                       ELSE IF l.usize = 0 THEN "STORE" ELSE "ZSTD")
        /\ s.stamp = (IF format = "DEFLATE" THEN "1996-12-24" ELSE "none")
        /\ s.crc = l.crc /\ s.name = e.name /\ s.version = v
        /\ DOMAIN s = {"version", "utf8", "method", "stamp", "crc", "csize", "usize", "name",
                       "zip64"}
    BY DEF LocalFileHeader
  <2>2. CASE big
    <3>1. l.raw = [s EXCEPT !.version = IF @ < 45 THEN 45 ELSE @,
                            !.zip64 = <<Or(l.usize, 0), l.csize>>
                                      \o (IF l.position >= Max32 THEN <<l.position>> ELSE <<>>)]
      BY <2>2 DEF IsKeptOf, RawOf, Zip64LocalFileHeader
    <3> HIDE DEF s, v
    <3> QED BY <2>1, <2>2, <3>1
  <2>3. CASE ~ big
    <3>1. l.raw = s
      BY <2>3 DEF IsKeptOf, RawOf
    <3> HIDE DEF s, v
    <3> QED BY <2>1, <2>3, <3>1
  <2> QED BY <2>2, <2>3
<1>3. /\ li.present <=> big
      /\ big => /\ l.raw.csize = Max32 /\ l.raw.usize = Max32
                /\ li.csize = l.csize /\ li.usize = l.usize
      /\ ~ big => /\ l.raw.csize = l.csize /\ l.raw.usize = l.usize
                  /\ li.csize = Absent /\ li.usize = Absent
  BY <1>1, LocalNumbersAreRead
\* The header in the directory.
<1>4. /\ h.version = IF z # <<>> /\ l.raw.version < 45 THEN 45 ELSE l.raw.version
      /\ h.utf8 = l.raw.utf8 /\ h.method = l.raw.method /\ h.stamp = l.raw.stamp
      /\ h.crc = l.crc /\ h.name = l.raw.name
      /\ h.csize = Clamp(l.csize, Max32) /\ h.usize = Clamp(l.usize, Max32)
      /\ h.offset = Clamp(l.position, Max32) /\ h.zip64 = z
      /\ z = <<>> <=> l.usize < Max32 /\ l.csize < Max32 /\ l.position < Max32
  BY CentralHeaderShape
<1>5. /\ info.usize = (IF l.usize >= Max32 THEN l.usize ELSE Absent)
      /\ info.csize = (IF l.csize >= Max32 THEN l.csize ELSE Absent)
      /\ info.present = (z # <<>>)
  <2>1. info = Zip64Information(z, Clamp(l.usize, Max32), Clamp(l.csize, Max32),
                               Clamp(l.position, Max32))
    BY <1>4 DEF CentralInformation
  <2>2. /\ info.usize = (IF l.usize >= Max32 THEN l.usize ELSE Absent)
        /\ info.csize = (IF l.csize >= Max32 THEN l.csize ELSE Absent)
    BY <1>1, <2>1, NumbersAreFound
  <2>3. info.present = (z # <<>>)
    <3> HIDE DEF info, z, h
    <3> QED BY <2>1, Zenon DEF Zip64Information
  <2> QED BY <2>2, <2>3
<1>6. /\ h.csize = (IF l.csize >= Max32 THEN Max32 ELSE l.csize)
      /\ h.usize = (IF l.usize >= Max32 THEN Max32 ELSE l.usize)
  BY <1>1, <1>4 DEF Clamp
<1>7. big => z # <<>>
  BY <1>1, <1>4
<1> HIDE DEF h, info, li, z
<1>8. Zip64Version(h) = IF z # <<>> THEN 45 ELSE 20
  BY <1>5 DEF Zip64Version, info
<1>9. CentralIsValid(h, format # "DEFLATE")
  <2>1. h.method \in IF format # "DEFLATE" THEN {"ZSTD", "STORE"} ELSE {"DEFLATE"}
    BY <1>2, <1>4
  <2>2. h.version = IF h.method = "ZSTD" THEN 63 ELSE Zip64Version(h)
    BY <1>2, <1>4, <1>7, <1>8
  <2>3. h.utf8 => h.name \notin Cp437Names
    BY <1>2, <1>4, Zenon
  <2>4. h.stamp = IF h.method = "DEFLATE" THEN "1996-12-24" ELSE "none"
    BY <1>2, <1>4
  <2>5. /\ h.csize >= Max32 => info.csize >= h.csize
        /\ h.usize >= Max32 => info.usize >= h.usize
    BY <1>1, <1>5, <1>6
  <2>6. h.method = "STORE" => h.usize = 0
    BY <1>1, <1>2, <1>4, <1>6
  <2> QED BY <2>1, <2>2, <2>3, <2>4, <2>5, <2>6 DEF CentralIsValid, info
<1>10. LocalIsValid(r, h)
  <2>1. l.raw.version = h.version \/ (~ li.present /\ info.present /\ h.version = 45)
    <3>1. CASE z = <<>> \/ l.raw.version >= 45
      BY <1>2, <1>4, <3>1
    <3>2. CASE z # <<>> /\ l.raw.version < 45
      <4>1. ~ big /\ h.version = 45
        BY <1>2, <1>4, <3>2
      <4>2. info.present
        BY <1>5, <3>2, Zenon
      <4> QED BY <1>3, <4>1, <4>2
    <3> QED BY <1>2, <3>1, <3>2
  <2>2. /\ l.raw.utf8 = h.utf8 /\ l.raw.method = h.method /\ l.raw.stamp = h.stamp
        /\ l.raw.crc = h.crc /\ l.raw.name = h.name
    BY <1>2, <1>4
  <2>3. /\ SameSize(l.raw.csize, li.csize, h.csize, info.csize)
        /\ SameSize(l.raw.usize, li.usize, h.usize, info.usize)
    BY <1>1, <1>3, <1>5, <1>6 DEF SameSize, Absent
  <2>4. l.raw.usize = Max32 <=> l.raw.csize = Max32
    BY <1>1, <1>3
  <2>5. r.fields = l.raw /\ r.information = li
    BY DEF li
  <2> QED BY <2>1, <2>2, <2>3, <2>4, <2>5 DEF LocalIsValid, info
<1>11. h.method # "DEFLATE" <=> format # "DEFLATE"
  BY <1>2, <1>4
<1>12. LocalCsize(r) = l.csize /\ LocalUsize(r) = l.usize
  BY <1>1, <1>3 DEF LocalCsize, LocalUsize, Or, Absent, li
<1> QED BY <1>2, <1>4, <1>9, <1>10, <1>11, <1>12 DEF h

\* Where the validator expects each entry, it is.
LEMMA OffsetsAreExpected ==
  ASSUME IInv, phase \in {"moved", "tested"}, NEW f, NEW at, WholeTo(f, at),
         \A i \in DOMAIN CentralDirectory : SizesAreRead(f, i)
  PROVE LET expected == ExpectedOffsets(f, CentralDirectory)
        IN /\ \A i \in DOMAIN CentralDirectory : expected[i - 1] = localFileHeaders[i].position
           /\ expected[Len(CentralDirectory)] = StartOfDirectory
PROOF
<1> DEFINE n == Len(localFileHeaders)
           hs == CentralDirectory
           Step(a, i) == IF i = 0 THEN 0
                         ELSE a[i - 1] + LocalHeader(f, hs[i]).length
                              + LocalCsize(LocalHeader(f, hs[i]))
           a == CHOOSE a : a = [i \in 0 .. Len(hs) |-> Step(a, i)]
           g == [i \in 0 .. n |-> IF i = 0 THEN 0 ELSE EndOf(localFileHeaders[i])]
<1>1. /\ localFileHeaders \in Seq(Kept) /\ n \in Nat \ {0} /\ Len(hs) = n
      /\ DOMAIN hs = 1 .. n /\ DOMAIN localFileHeaders = 1 .. n
  <2>1. localFileHeaders \in Seq(Kept) /\ localFileHeaders # <<>>
    BY DirectoryReady
  <2>2. n \in Nat \ {0}
    BY <2>1
  <2> QED BY <2>1, <2>2, CentralLengthsType
<1>2. \A i \in 1 .. n :
        /\ localFileHeaders[i] \in Kept
        /\ localFileHeaders[i].position = IF i = 1 THEN 0 ELSE EndOf(localFileHeaders[i - 1])
  BY <1>1 DEF IInv, KeptOK, InOrder
<1>3. \A i \in 1 .. n : localFileHeaders[i].position = g[i - 1]
  BY <1>1, <1>2
<1>4. \A i \in 1 .. n :
        LET r == LocalHeader(f, hs[i])
            l == localFileHeaders[i]
        IN r.length = LocalHeaderLength(l.raw) /\ LocalCsize(r) = l.csize
  BY <1>1, EntryIsThere DEF SizesAreRead
<1>5. g = [i \in 0 .. Len(hs) |-> Step(g, i)]
  <2> SUFFICES ASSUME NEW i \in 0 .. n PROVE g[i] = Step(g, i)
    BY <1>1
  <2>1. CASE i = 0
    BY <2>1
  <2>2. CASE i # 0
    <3> DEFINE l == localFileHeaders[i]
    <3>1. i \in 1 .. n /\ g[i] = EndOf(l)
      BY <2>2
    <3>2. EndOf(l) = l.position + LocalHeaderLength(l.raw) + l.csize
      BY DEF EndOf, DataAt
    <3>3. /\ l.position = g[i - 1] /\ LocalHeader(f, hs[i]).length = LocalHeaderLength(l.raw)
          /\ LocalCsize(LocalHeader(f, hs[i])) = l.csize
      BY <1>3, <1>4, <3>1
    <3> HIDE DEF g, l, hs
    <3> QED BY <2>2, <3>1, <3>2, <3>3
  <2> QED BY <2>1, <2>2
<1>6. a = [i \in 0 .. Len(hs) |-> Step(a, i)]
  BY <1>5
<1> HIDE DEF a
<1>7. \A k \in 0 .. n : a[k] = g[k]
  <2> DEFINE bad == {k \in 0 .. n : a[k] # g[k]}
  <2> HIDE DEF g, hs
  <2>1. SUFFICES ASSUME bad # {} PROVE FALSE
    BY <1>1
  <2>2. PICK k \in bad : \A j \in bad : k <= j
    <3>1. bad \in SUBSET Nat
      BY <1>1
    <3> QED BY <2>1, <3>1, Smallest
  <2>3. a[k] = Step(a, k) /\ g[k] = Step(g, k)
    BY <1>1, <1>5, <1>6, <2>2
  <2>4. k # 0 => a[k - 1] = g[k - 1]
    <3>1. k # 0 => k - 1 \in 0 .. n /\ ~ (k <= k - 1)
      BY <1>1, <2>2
    <3> QED BY <2>2, <3>1
  <2> QED BY <2>2, <2>3, <2>4
<1>8. ExpectedOffsets(f, hs) = a
  BY DEF ExpectedOffsets, a
<1>9. g[n] = StartOfDirectory
  BY <1>1 DEF EndOf, DataAt, StartOfDirectory
<1>10. \A i \in 1 .. n : i - 1 \in 0 .. n
  BY <1>1
<1> HIDE DEF g
<1> QED BY <1>1, <1>3, <1>7, <1>8, <1>9, <1>10

\* Entries are in the order of their names once the temporary file is open, and the verdict
\* is the one of the archive.
ReportOK ==
  /\ phase # "start" =>
       \A i, j \in DOMAIN entries : i < j => Rank[entries[i].name] <= Rank[entries[j].name]
  /\ phase = "tested" => verdict = Tested(output.parts)

LEMMA ReportInv == IInv /\ ReportOK /\ [Next]_vars => ReportOK'
PROOF
<1> SUFFICES ASSUME IInv, ReportOK, [Next]_vars PROVE ReportOK'
  OBVIOUS
<1>1. CASE Open
  <2>1. PICK order \in [DOMAIN entries -> DOMAIN entries] :
          /\ Sorts(order, entries)
          /\ entries' = [k \in DOMAIN entries |-> entries[order[k]]]
    BY <1>1 DEF Open
  <2>2. \A k \in DOMAIN entries : Rank[entries[order[k]].name] \in Nat
    <3>1. \A i \in DOMAIN entries : entries[i] \in Entries
      <4>1. entries \in Seq(Entries)
        BY DEF IInv, TypeOK
      <4> QED BY <4>1
    <3> QED BY <3>1, RankAssumption DEF Entries, Names
  <2>3. \A i, j \in DOMAIN entries' :
          i < j => Rank[entries'[i].name] <= Rank[entries'[j].name]
    BY <2>1, <2>2 DEF Sorts
  <2>4. phase' # "tested"
    BY <1>1 DEF Open
  <2> QED BY <2>3, <2>4 DEF ReportOK
<1>2. CASE ~ Open
  <2>1. entries' = entries /\ (phase' # "start" => phase # "start")
    BY <1>2 DEF Next, vars, WritePlaceholder, StreamData, WriteHeader, WriteDirectory,
                WriteZip64, SkipZip64, WriteRecord, Move, RemoveOutput,
                Fail, RemoveTemp, Crash, Test, Writing
  <2>2. phase' = "tested" => /\ UNCHANGED <<entries, format, output, previous>>
                             /\ verdict' = Tested(output.parts)
    BY <1>2 DEF ReportOK, Next, vars, WritePlaceholder, StreamData, WriteHeader, WriteDirectory,
                WriteZip64, SkipZip64, WriteRecord, Move, RemoveOutput,
                Fail, RemoveTemp, Crash, Test
  <2>3. phase' = "tested" => Tested(output.parts)' = Tested(output.parts)
    <3> SUFFICES ASSUME UNCHANGED <<entries, format, output, previous>>
                 PROVE Tested(output.parts)' = Tested(output.parts)
      BY <2>2
    <3>1. Expected' = Expected
      BY DEF Expected
    <3> QED BY <3>1 DEF Tested
  <2> QED BY <2>1, <2>2, <2>3 DEF ReportOK
<1> QED BY <1>1, <1>2

LEMMA WrittenIsAccepted ==
  ASSUME IInv, ReportOK, phase = "tested", SizesWereRight
  PROVE verdict = "passed"
PROOF
<1> DEFINE f == output.parts
           hs == CentralDirectory
           rv == format # "DEFLATE"
<1>1. PICK at : WholeTo(f, at)
  BY DEF IInv, OutputOK
<1> HIDE DEF f
<1>2. IsReadable(f) /\ CentralHeaders(f) = hs
  BY <1>1, HeadersAreFound
<1>3. /\ EndRecord(f).cdOffset = StartOfDirectory
      /\ EndRecord(f).comment = Record.comment
  BY <1>1, RecordIsRead
<1>4. /\ localFileHeaders \in Seq(Kept) /\ localFileHeaders # <<>>
      /\ format \in {"DEFLATE", "ZSTD"}
  BY DirectoryReady DEF IInv, TypeOK
<1>5. DOMAIN hs = 1 .. Len(localFileHeaders) /\ DOMAIN hs # {}
  <2>1. Len(localFileHeaders) \in Nat \ {0}
    BY <1>4
  <2> QED BY <1>4, <2>1, CentralLengthsType
<1>6. ASSUME NEW i \in DOMAIN hs
      PROVE /\ CentralIsValid(hs[i], rv) /\ LocalIsValid(LocalHeader(f, hs[i]), hs[i])
            /\ hs[i].method # "DEFLATE" <=> rv
            /\ i \in DOMAIN entries /\ hs[i].name = entries[i].name
            /\ SizesAreRead(f, i) /\ (entries[i].declared = 0 <=> entries[i].actual = 0)
            /\ OffsetResolved(hs[i]) = localFileHeaders[i].position
            /\ Holds(f, OffsetResolved(hs[i]), "local")
  <2> DEFINE l == localFileHeaders[i]
             e == entries[i]
             r == LocalHeader(f, hs[i])
  <2>1. /\ i \in DOMAIN localFileHeaders /\ i \in DOMAIN entries
        /\ l \in Kept /\ e \in Entries /\ IsKeptOf(l, e) /\ hs[i] = CentralFileHeader(l)
        /\ OffsetResolved(hs[i]) = l.position /\ Holds(f, l.position, "local")
        /\ r.fields = l.raw /\ r.information = InfoOf(l.raw, l.position)
    BY <1>1, EntryIsThere
  <2>2. e.declared = l.usize /\ (l.usize >= Max32 \/ l.csize < Max32)
    BY <2>1 DEF SizesWereRight
  <2> HIDE DEF l, e, r
  <2>3. /\ CentralIsValid(CentralFileHeader(l), rv) /\ LocalIsValid(r, CentralFileHeader(l))
        /\ CentralFileHeader(l).method # "DEFLATE" <=> rv
        /\ CentralFileHeader(l).name = e.name
        /\ LocalCsize(r) = l.csize /\ LocalUsize(r) = l.usize
    BY <1>4, <2>1, <2>2, RightHeaders
  <2>4. e.declared = 0 <=> e.actual = 0
    BY <2>1, <2>2 DEF IsKeptOf
  <2> QED BY <2>1, <2>3, <2>4 DEF SizesAreRead, l, e, r
<1>7. DirectoryIsValid(EndRecord(f), hs, rv)
  <2>1. \A i \in DOMAIN hs : CentralIsValid(hs[i], rv)
    BY <1>6
  <2>2. \A i, j \in DOMAIN hs : i < j => Rank[hs[i].name] <= Rank[hs[j].name]
    BY <1>6 DEF ReportOK
  <2>3. EndRecord(f).comment = [says |-> IF rv THEN "RVZSTD" ELSE "TORRENTZIPPED",
                                crc |-> Checksum(hs)]
    BY <1>3 DEF Record
  <2> QED BY <2>1, <2>2, <2>3 DEF DirectoryIsValid
<1>8. EntriesAreValid(f, hs, EndRecord(f).cdOffset)
  <2>1. \A i \in DOMAIN hs : SizesAreRead(f, i)
    BY <1>6
  <2>2. LET expected == ExpectedOffsets(f, hs)
        IN /\ \A i \in DOMAIN hs : expected[i - 1] = localFileHeaders[i].position
           /\ expected[Len(hs)] = StartOfDirectory
    BY <1>1, <2>1, OffsetsAreExpected
  <2> QED BY <1>3, <1>6, <2>2 DEF EntriesAreValid
<1>9. (\E i \in DOMAIN hs : hs[i].method # "DEFLATE") <=> rv
  BY <1>5, <1>6
<1>10. Validation(f) = format
  <2> DEFINE isRvZstd == \E i \in DOMAIN hs : hs[i].method # "DEFLATE"
  <2>1. Validation(f)
          = IF /\ IsReadable(f)
               /\ DirectoryIsValid(EndRecord(f), hs, isRvZstd)
               /\ \A i \in DOMAIN hs : Holds(f, OffsetResolved(hs[i]), "local")
               /\ EntriesAreValid(f, hs, EndRecord(f).cdOffset)
            THEN IF isRvZstd THEN "ZSTD" ELSE "DEFLATE"
            ELSE "INVALID"
    BY <1>2 DEF Validation
  <2> HIDE DEF hs
  <2>2. isRvZstd = rv
    BY <1>9
  <2> HIDE DEF isRvZstd
  <2>3. Validation(f) = IF rv THEN "ZSTD" ELSE "DEFLATE"
    BY <1>2, <1>6, <1>7, <1>8, <2>1, <2>2
  <2> QED BY <1>4, <2>3
<1>11. Listing(f) = Expected
  <2>1. \A i \in DOMAIN CentralDirectory :
          SizesAreRead(f, i) /\ (entries[i].declared = 0 <=> entries[i].actual = 0)
    BY <1>6
  <2> QED BY <1>1, <2>1, ListsWhatWasWritten
<1>12. Tested(f) = "passed"
  BY <1>2, <1>10, <1>11 DEF Tested
<1> QED BY <1>12 DEF ReportOK, f

\* When the sizes were known before the data came, and compression has not carried the data
\* over 4 GiB, the archive passes the test: its entries have the bytes of the inputs and the
\* validator accepts it, on either side of 4 GiB and of 65,535 entries.
THEOREM WrittenValid == Spec => []WrittenIsValid
PROOF
<1>1. Init => IInv /\ ReportOK
  BY InitInv DEF Init, ReportOK
<1>2. IInv /\ ReportOK /\ [Next]_vars => (IInv /\ ReportOK)'
  BY NextInv, ReportInv
<1>3. IInv /\ ReportOK => WrittenIsValid
  BY WrittenIsAccepted DEF WrittenIsValid
<1> QED BY <1>1, <1>2, <1>3, PTL DEF Spec
=============================================================================
