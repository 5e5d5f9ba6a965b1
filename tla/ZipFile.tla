------------------------------ MODULE ZipFile ------------------------------
(***************************************************************************)
(* A zip file as the parts that lie in it, and ZipReader, which finds its  *)
(* way through them: from the end of central directory record (and the     *)
(* zip64 one) to the central directory, and from there to the entries.     *)
(*                                                                         *)
(* A file is a function from the positions where parts begin to the parts. *)
(* A part has its length and the fields of its header as the bytes hold    *)
(* them: a number too big for a field of 32 bits is Max32 there, and the   *)
(* whole number is in the zip64 extra field, a sequence of numbers.  What  *)
(* this program's writer always leaves 0 or empty (numbers of disks,       *)
(* comments, attributes, flags for encryption and data descriptors) is not *)
(* in the fields.                                                          *)
(***************************************************************************)
EXTENDS Integers, Sequences, FiniteSets

CONSTANTS
  Max32,      \* 0xFFFFFFFF
  MaxCount,   \* 0xFFFF, as the number of entries
  MaxComment, \* 0xFFFF, as the length of a comment
  NameLength  \* the bytes of each name an entry may have

ASSUME Max32Assumption == Max32 \in Nat \ {0}
ASSUME MaxCountAssumption == MaxCount \in Nat \ {0}
ASSUME NamesAssumption == NameLength \in [DOMAIN NameLength -> Nat]

Absent == -1    \* undefined, for a number

LocalHeaderSize == 30
CentralHeaderSize == 46
Zip64RecordSize == 56
LocatorSize == 20
RecordSize == 22

ExtraLength(zip64) == IF zip64 = <<>> THEN 0 ELSE 4 + 8 * Len(zip64)
LocalHeaderLength(h) == LocalHeaderSize + NameLength[h.name] + ExtraLength(h.zip64)
CentralHeaderLength(h) == CentralHeaderSize + NameLength[h.name] + ExtraLength(h.zip64)

-----------------------------------------------------------------------------
(* Bytes.  A write replaces the parts it touches.                          *)

EmptyFile == [p \in {} |-> 0]

Part(kind, len, body) == [kind |-> kind, len |-> len, body |-> body]

\* One write, from a position to another, of the parts that are new.
WriteParts(f, from, to, new) ==
  LET kept == {p \in DOMAIN f : p + f[p].len <= from \/ to <= p}
  IN [p \in kept \cup DOMAIN new |-> IF p \in DOMAIN new THEN new[p] ELSE f[p]]

WriteAt(f, at, part) ==
  IF part.len = 0 THEN f ELSE WriteParts(f, at, at + part.len, [p \in {at} |-> part])

SizeOf(f) == IF DOMAIN f = {} THEN 0
             ELSE LET last == CHOOSE p \in DOMAIN f : \A q \in DOMAIN f : q <= p
                  IN last + f[last].len

Holds(f, p, kind) == p \in DOMAIN f /\ f[p].kind = kind

-----------------------------------------------------------------------------
(* ZipReader                                                               *)

\* Numbers are taken from the extra field in a fixed order, and only those
\* whose field of 32 bits is full.
Zip64Information(zip64, usize, csize, offset) ==
  LET u == IF usize = Max32 THEN 1 ELSE 0
      c == IF csize = Max32 THEN 1 ELSE 0
  IN [present |-> zip64 # <<>>,
      usize |-> IF zip64 # <<>> /\ usize = Max32 THEN zip64[1] ELSE Absent,
      csize |-> IF zip64 # <<>> /\ csize = Max32 THEN zip64[u + 1] ELSE Absent,
      offset |-> IF zip64 # <<>> /\ offset = Max32 THEN zip64[u + c + 1] ELSE Absent]

Or(a, b) == IF a # Absent THEN a ELSE b

CentralInformation(h) == Zip64Information(h.zip64, h.usize, h.csize, h.offset)
OffsetResolved(h) == Or(CentralInformation(h).offset, h.offset)
CentralUsize(h) == Or(CentralInformation(h).usize, h.usize)

\* The last signature of the record in the last 22 + 0xFFFF bytes; the
\* window begins one byte early and so ends one byte before the end.
RecordsInWindow(f) ==
  LET size == SizeOf(f)
      most == RecordSize + MaxComment
      from == IF size - 1 - most > 0 THEN size - 1 - most ELSE 0
      bytes == IF most < size THEN most ELSE size
  IN {p \in DOMAIN f : /\ f[p].kind = "record"
                       /\ from <= p /\ p + 4 <= from + bytes}

IsFull(r) == \/ r.count = MaxCount
             \/ r.cdSize = Max32
             \/ r.cdOffset = Max32

\* The zip64 records are read only if a field is full, and then must be there.
HasRecord(f) ==
  /\ \/ Holds(f, 0, "local")
     \/ Holds(f, 0, "record")
  /\ RecordsInWindow(f) # {}
  /\ LET p == CHOOSE q \in RecordsInWindow(f) : \A o \in RecordsInWindow(f) : o <= q
     IN IsFull(f[p].body) =>
          /\ Holds(f, p - LocatorSize, "locator")
          /\ Holds(f, f[p - LocatorSize].body, "zip64")

EndRecord(f) ==
  LET p == CHOOSE q \in RecordsInWindow(f) : \A o \in RecordsInWindow(f) : o <= q
      r == f[p].body
      z == IF IsFull(r) THEN f[f[p - LocatorSize].body].body ELSE r
  IN [count |-> IF r.count = MaxCount THEN z.count ELSE r.count,
      cdOffset |-> IF r.cdOffset = Max32 THEN z.cdOffset ELSE r.cdOffset,
      comment |-> r.comment]

\* The headers lie one after the other, from the offset on.
HeaderPositions(f, r) ==
  LET at[i \in 1 .. r.count] ==
        IF i = 1 THEN r.cdOffset
        ELSE IF Holds(f, at[i - 1], "central") THEN at[i - 1] + f[at[i - 1]].len ELSE Absent
  IN [i \in 1 .. r.count |-> at[i]]

IsReadable(f) ==
  /\ HasRecord(f)
  /\ \A i \in 1 .. EndRecord(f).count : Holds(f, HeaderPositions(f, EndRecord(f))[i], "central")

CentralHeaders(f) ==
  LET r == EndRecord(f)
      at == HeaderPositions(f, r)
  IN [i \in 1 .. r.count |-> f[at[i]].body]

\* The header before an entry's data: its signature is not looked at.
LocalHeader(f, h) ==
  LET p == OffsetResolved(h)
      b == f[p].body
  IN [fields |-> b,
      information |-> Zip64Information(b.zip64, b.usize, b.csize, p),
      length |-> f[p].len,
      dataAt |-> p + f[p].len]

LocalCsize(l) == Or(l.information.csize, l.fields.csize)
LocalUsize(l) == Or(l.information.usize, l.fields.usize)

(***************************************************************************)
(* Contents.  Every entry has bytes of its own, unless it has none; Broken *)
(* stands for an error, and for bytes that are nobody's.                   *)
(***************************************************************************)
Empty == [of |-> "", size |-> 0]
Broken == [of |-> "broken", size |-> 0]
Content(name, size) == IF size = 0 THEN Empty ELSE [of |-> name, size |-> size]

\* compressedStream() takes the bytes that the local header tells; inflating
\* stops at the end of the deflated data, zstd takes all or fails; more
\* bytes than the header promised are an error.
Extracted(f, h) ==
  LET l == LocalHeader(f, h)
      d == f[l.dataAt]
  IN IF ~ Holds(f, OffsetResolved(h), "local") THEN Broken
     ELSE IF LocalCsize(l) = 0 /\ l.fields.method = "STORE" THEN Empty
     ELSE IF /\ Holds(f, l.dataAt, "data")
             /\ d.body.codec = l.fields.method
             /\ \/ d.len = LocalCsize(l)
                \/ d.len < LocalCsize(l) /\ l.fields.method = "DEFLATE"
             /\ l.fields.method # "STORE" => d.body.content.size <= LocalUsize(l)
          THEN d.body.content
     ELSE Broken
=============================================================================
