----------------------------- MODULE UploadProofs -----------------------------
(*****************************************************************************)
(* Proofs about Upload for any set of uploaders, any files and any bound:    *)
(* the objects tile each file whichever runs made them, no line is missing   *)
(* or twice, the cache is never ahead of the bucket, and only what the       *)
(* bucket confirmed is deleted.                                              *)
(*****************************************************************************)
EXTENDS Upload, SequenceTheorems, FunctionTheorems, FiniteSetTheorems,
        NaturalsInduction, WellFoundedInduction, TLAPS

Byte == (0..MaxLines) \X {1, 2}
Object == [start : Nat, end : Nat, lines : SUBSET Nat]
Item == [file : Files, at : Nat, size : Nat, data : Seq(Byte)]
Measured == [file : Files, size : Nat]
Mark == Nat \union {NoEntry}

LEMMA MarkIs == NoEntry \in Mark /\ NoEntry < 0 /\ Nat \subseteq Mark /\ Mark \subseteq Int
BY DEF Mark, NoEntry

UploadTypes ==
    /\ today \in 1..MaxDay /\ made \in 0..MaxLines /\ faults \in 0..MaxFaults
    /\ local \in [Files -> Seq(Byte)]
    /\ bucket \in [Files -> SUBSET Object]
    /\ cache \in [Files -> Mark]
    /\ pc \in [Uploaders -> {"idle", "plan", "ship"}]
    /\ todo \in [Uploaders -> SUBSET Files]
    /\ pending \in [Uploaders -> Seq(Item)]
    /\ confirmed \in [Uploaders -> Seq(Measured)]
    /\ ends \in [Uploaders -> [Files -> Mark]]
    /\ recording \in [Uploaders -> BOOLEAN]

\* Bytes as they get into a file while m lines are made: a line begins on a
\* fresh line, and once.
Proper(c, m) ==
    /\ \A k \in 1..Len(c) : c[k][2] = 1 => c[k][1] \in 1..m /\ (k = 1 \/ EndsLine(c[k - 1]))
    /\ \A j, k \in 1..Len(c) : c[j][2] = 1 /\ c[k][2] = 1 /\ c[j][1] = c[k][1] => j = k

\* Objects that cover the first e bytes of a file, each of them once.
Laid(objects, e) ==
    /\ objects = {} => e = 0
    /\ objects # {} => \E o \in objects : o.end = e /\ \A p \in objects : p.start <= o.start
    /\ \A o \in objects : o.start < o.end /\ o.end <= e
    /\ \A o \in objects : o.start = 0 \/ \E p \in objects : p.end = o.start
    /\ \A o, p \in objects : o # p => p.end <= o.start \/ o.end <= p.start
    /\ \A k \in 1..e : \E o \in objects : o.start < k /\ k <= o.end

\* The objects are cut from c at the ends of lines.
CutFrom(objects, c) ==
    \A o \in objects :
        /\ o.end <= Len(c)
        /\ EndsLine(c[o.end])
        /\ o.lines = ReadableLines(SubSeq(c, o.start + 1, o.end))

\* What a run has still to send of a file goes on from an object, up to the end
\* of a line.
GoesOn(item, objects, c) ==
    /\ item.at < item.size
    /\ item.at = 0 \/ \E o \in objects : o.end = item.at
    /\ item.size <= Len(c)
    /\ EndsLine(c[item.size])
    /\ item.data = <<>> \/ item.data = SubSeq(c, 1, item.size)

ToSend(f) == {item \in UNION {ToSet(pending[u]) : u \in Uploaders} : item.file = f}

\* c is what the file holds, or held until it was deleted: the objects are cut
\* from it, and what the runs have still to send.
IsContent(f, c) ==
    /\ Proper(c, made)
    /\ local[f] = c \/ (local[f] = <<>> /\ DayOf(f) < today)
    /\ CutFrom(bucket[f], c)
    /\ \A item \in ToSend(f) : GoesOn(item, bucket[f], c)

Confirmed(f) == {m \in UNION {ToSet(confirmed[u]) : u \in Uploaders} : m.file = f}

\* Nobody takes more of the file for uploaded than the objects cover.
Marked(f) ==
    /\ cache[f] <= UploadedEnd(f)
    /\ \A u \in Uploaders : ends[u][f] <= UploadedEnd(f)
    /\ \A m \in Confirmed(f) : m.size <= UploadedEnd(f)

FileInv(f) ==
    /\ Laid(bucket[f], UploadedEnd(f))
    /\ \E c \in Seq(Byte) : IsContent(f, c)
    /\ Marked(f)

UploadIInv == UploadTypes /\ \A f \in Files : FileInv(f)

-----------------------------------------------------------------------------
(* Numbers and sequences. *)

LEMMA MinIsLeast ==
    ASSUME NEW S \in SUBSET Nat, S # {}
    PROVE  Min(S) \in S /\ \A x \in S : Min(S) <= x
<1>. DEFINE R == OpToRel(<, Nat)
<1>1. \A ss \in Nat \X Nat : ss \in R <=> ss[1] < ss[2]
    BY DEF OpToRel
<1>2. IsWellFoundedOn(R, Nat)
    BY NatLessThanWellFounded
<1>. HIDE DEF R
<1>3. PICK x \in S : \A y \in S : ~(<<y, x>> \in R)
    BY <1>2, WFMin
<1>4. \A y \in S : <<y, x>> \in Nat \X Nat /\ ~(y < x)
    BY <1>1, <1>3
<1>5. \A y \in S : x <= y
    <2>. SUFFICES ASSUME NEW y \in S PROVE x <= y
        OBVIOUS
    <2>1. y \in Nat /\ x \in Nat /\ ~(y < x)
        BY <1>4
    <2>. QED
        BY <2>1
<1>6. \E z \in S : \A y \in S : z <= y
    BY <1>5
<1>. QED
    BY <1>6 DEF Min

LEMMA MaxIsGreatest ==
    ASSUME NEW S \in SUBSET Nat, S # {}, NEW b \in Nat, \A x \in S : x <= b
    PROVE  Max(S) \in S /\ \A x \in S : x <= Max(S)
<1>. DEFINE T == {b - x : x \in S}
<1>1. T \in SUBSET Nat /\ T # {}
    <2>1. \A x \in S : x \in Nat /\ x <= b
        OBVIOUS
    <2>2. \A x \in S : b - x \in Nat
        BY <2>1
    <2>. QED
        BY <2>2
<1>2. Min(T) \in T /\ \A m \in T : Min(T) <= m
    BY <1>1, MinIsLeast
<1>. DEFINE n == Min(T)
<1>3. PICK x \in S : n = b - x
    BY <1>2
<1>4. \A y \in S : y <= x
    <2>. SUFFICES ASSUME NEW y \in S PROVE y <= x
        OBVIOUS
    <2>1. n <= b - y /\ x \in Nat /\ y \in Nat
        BY <1>2
    <2>2. b - x <= b - y
        BY <2>1, <1>3
    <2>. HIDE DEF n, T
    <2>. QED
        BY <2>1, <2>2
<1>5. \A y \in S : x >= y
    BY <1>4
<1>6. \E z \in S : \A y \in S : z >= y
    BY <1>5
<1>7. Max(S) \in S /\ \A y \in S : Max(S) >= y
    BY <1>6 DEF Max
<1>. QED
    BY <1>7

\* Bytes of b that c still has at the same place.
Continues(c, b) == Len(b) <= Len(c) /\ \A k \in 1..Len(b) : c[k] = b[k]

LEMMA BytesIn ==
    ASSUME NEW c \in Seq(Byte)
    PROVE  /\ Len(c) \in Nat /\ DOMAIN c = 1..Len(c)
           /\ \A k \in 1..Len(c) : c[k][1] \in 0..MaxLines /\ c[k][2] \in {1, 2}
BY LenProperties, ElementOfSeq DEF Byte

LEMMA RangeOfBytes ==
    ASSUME NEW c \in Seq(Byte), NEW a \in Nat, NEW b \in Nat, a <= b, b <= Len(c)
    PROVE  LET s == SubSeq(c, a + 1, b)
           IN  s \in Seq(Byte) /\ Len(s) = b - a /\ \A k \in 1..b - a : s[k] = c[a + k]
<1>1. Len(c) \in Nat /\ \A i \in 1..Len(c) : c[i] \in Byte
    BY LenProperties, ElementOfSeq
<1>2. \A i \in a + 1..b : c[i] \in Byte
    BY <1>1
<1>3. a + 1 \in Int /\ b \in Int
    OBVIOUS
<1>4. /\ SubSeq(c, a + 1, b) \in Seq(Byte)
      /\ Len(SubSeq(c, a + 1, b)) = IF a + 1 <= b THEN b - (a + 1) + 1 ELSE 0
      /\ \A i \in 1..b - (a + 1) + 1 : SubSeq(c, a + 1, b)[i] = c[a + 1 + i - 1]
    BY <1>2, <1>3, SubSeqProperties
<1>5. b - (a + 1) + 1 = b - a /\ \A i \in 1..b - a : a + 1 + i - 1 = a + i
    OBVIOUS
<1>. QED
    BY <1>4, <1>5

LEMMA StartOfBytes ==
    ASSUME NEW c \in Seq(Byte), NEW b \in Nat, b <= Len(c)
    PROVE  /\ SubSeq(c, 1, b) \in Seq(Byte) /\ Len(SubSeq(c, 1, b)) = b
           /\ \A k \in 1..b : SubSeq(c, 1, b)[k] = c[k]
<1>1. LET s == SubSeq(c, 0 + 1, b)
      IN  s \in Seq(Byte) /\ Len(s) = b - 0 /\ \A k \in 1..b - 0 : s[k] = c[0 + k]
    BY RangeOfBytes, 0 \in Nat, 0 <= b
<1>. QED
    BY <1>1

\* What lies below the length of b is the same in all that continues it.
LEMMA SameRange ==
    ASSUME NEW b \in Seq(Byte), NEW c \in Seq(Byte), Continues(c, b),
           NEW x \in Nat, NEW y \in Nat, x <= y, y <= Len(b)
    PROVE  SubSeq(c, x + 1, y) = SubSeq(b, x + 1, y)
<1>1. Len(b) \in Nat /\ Len(c) \in Nat /\ Len(b) <= Len(c)
    BY LenProperties DEF Continues
<1>. DEFINE s == SubSeq(c, x + 1, y)
            t == SubSeq(b, x + 1, y)
<1>2. s \in Seq(Byte) /\ Len(s) = y - x /\ \A k \in 1..y - x : s[k] = c[x + k]
    BY <1>1, RangeOfBytes
<1>3. t \in Seq(Byte) /\ Len(t) = y - x /\ \A k \in 1..y - x : t[k] = b[x + k]
    BY RangeOfBytes
<1>4. \A k \in 1..y - x : x + k \in 1..Len(b)
    BY <1>1
<1>5. \A k \in 1..Len(s) : s[k] = t[k]
    BY <1>2, <1>3, <1>4 DEF Continues
<1>. QED
    BY <1>2, <1>3, <1>5, SeqEqual

LEMMA SameStartOfBytes ==
    ASSUME NEW b \in Seq(Byte), NEW c \in Seq(Byte), Continues(c, b),
           NEW y \in Nat, y <= Len(b)
    PROVE  SubSeq(c, 1, y) = SubSeq(b, 1, y)
<1>1. SubSeq(c, 0 + 1, y) = SubSeq(b, 0 + 1, y)
    BY SameRange, 0 \in Nat, 0 <= y
<1>. QED
    BY <1>1

-----------------------------------------------------------------------------
(* Lines. *)

\* Where the last line of some bytes ends.
LEMMA LastLineEnds ==
    ASSUME NEW b \in Seq(Byte)
    PROVE  LET m == Max({0} \union {k \in 1..Len(b) : EndsLine(b[k])})
           IN  m \in 0..Len(b) /\ (m # 0 => EndsLine(b[m]))
<1>. DEFINE S == {0} \union {k \in 1..Len(b) : EndsLine(b[k])}
<1>1. Len(b) \in Nat
    BY LenProperties
<1>2. S \in SUBSET Nat /\ S # {} /\ \A x \in S : x <= Len(b)
    BY <1>1
<1>3. Max(S) \in S
    BY <1>1, <1>2, MaxIsGreatest
<1>. QED
    BY <1>1, <1>3

\* A chunk of whole lines is some of them, and whole ones.
LEMMA ChunkEndsALine ==
    ASSUME NEW d \in Seq(Byte), NEW at \in Nat, at < Len(d), EndsLine(d[Len(d)])
    PROVE  /\ ChunkEnd(d, at) \in at + 1..Len(d)
           /\ EndsLine(d[ChunkEnd(d, at)])
<1>. DEFINE limit == Min({at + MaxChunk, Len(d)})
            lineEnds == {k \in at + 1..Len(d) : EndsLine(d[k])}
            within == {k \in lineEnds : k <= limit}
<1>1. Len(d) \in Nat /\ MaxChunk \in Nat
    BY LenProperties, UploadBoundsAssumption
<1>2. Len(d) \in lineEnds /\ lineEnds \in SUBSET Nat
    BY <1>1
<1>3. CASE limit = Len(d)
    BY <1>1, <1>3 DEF ChunkEnd
<1>4. CASE limit # Len(d) /\ \E k \in lineEnds : k <= limit
    <2>1. within # {} /\ within \in SUBSET Nat /\ \A x \in within : x <= Len(d)
        BY <1>1, <1>2, <1>4
    <2>2. Max(within) \in within
        BY <2>1, <1>1, MaxIsGreatest
    <2>3. ChunkEnd(d, at) = Max(within)
        BY <1>4 DEF ChunkEnd
    <2>. QED
        BY <2>2, <2>3
<1>5. CASE limit # Len(d) /\ ~\E k \in lineEnds : k <= limit
    <2>1. Min(lineEnds) \in lineEnds
        BY <1>2, MinIsLeast
    <2>2. ChunkEnd(d, at) = Min(lineEnds)
        BY <1>5 DEF ChunkEnd
    <2>. QED
        BY <2>1, <2>2
<1>. QED
    BY <1>3, <1>4, <1>5

\* One more line makes proper bytes longer.
LEMMA AppendLineKeeps ==
    ASSUME NEW c \in Seq(Byte), NEW m \in Nat, m < MaxLines, Proper(c, m)
    PROVE  /\ AppendLine(c, m + 1) \in Seq(Byte)
           /\ Continues(AppendLine(c, m + 1), c)
           /\ Proper(AppendLine(c, m + 1), m + 1)
<1>. DEFINE d == IF c # <<>> /\ ~EndsLine(Last(c)) THEN Append(c, Newline) ELSE c
            l == LineBytes(m + 1)
            r == AppendLine(c, m + 1)
<1>0. Len(c) \in Nat /\ MaxLines \in Nat
    BY LenProperties, UploadBoundsAssumption
<1>1. Newline \in Byte /\ Newline[2] = 2
    BY <1>0 DEF Newline, Byte
<1>2. /\ d \in Seq(Byte) /\ Continues(d, c)
      /\ Len(d) \in Nat /\ Len(c) <= Len(d)
      /\ \A k \in Len(c) + 1..Len(d) : d[k][2] = 2
      /\ d # <<>> => d[Len(d)][2] = 2
    <2>1. CASE c # <<>> /\ ~EndsLine(Last(c))
        <3>1. d = Append(c, Newline)
            BY <2>1
        <3>2. /\ d \in Seq(Byte) /\ Len(d) = Len(c) + 1
              /\ \A i \in 1..Len(c) : d[i] = c[i]
              /\ d[Len(c) + 1] = Newline
            BY <3>1, <1>1, AppendProperties
        <3>. QED
            BY <3>2, <1>0, <1>1 DEF Continues
    <2>2. CASE ~(c # <<>> /\ ~EndsLine(Last(c)))
        <3>1. d = c
            BY <2>2
        <3>2. c # <<>> => Last(c)[2] = 2
            BY <2>2 DEF EndsLine
        <3>3. c # <<>> => c[Len(c)][2] = 2
            BY <3>2 DEF Last
        <3>. QED
            BY <3>1, <3>3, <1>0 DEF Continues
    <2>. QED
        BY <2>1, <2>2
<1>3. /\ l \in Seq(Byte) /\ Len(l) = 2 /\ l[1] = <<m + 1, 1>> /\ l[2] = <<m + 1, 2>>
    BY <1>0 DEF LineBytes, Byte
<1>4. r = d \o l
    BY DEF AppendLine
<1>. HIDE DEF d, l, r
<1>5. /\ r \in Seq(Byte) /\ Len(r) = Len(d) + 2
      /\ \A i \in 1..Len(d) : r[i] = d[i]
      /\ r[Len(d) + 1] = <<m + 1, 1>> /\ r[Len(d) + 2] = <<m + 1, 2>>
    <2>1. /\ r \in Seq(Byte) /\ Len(r) = Len(d) + Len(l)
          /\ \A i \in 1..Len(d) + Len(l) : r[i] = IF i <= Len(d) THEN d[i] ELSE l[i - Len(d)]
        BY <1>2, <1>3, <1>4, ConcatProperties
    <2>2. /\ Len(d) + 1 \in 1..Len(d) + Len(l) /\ ~(Len(d) + 1 <= Len(d))
          /\ Len(d) + 2 \in 1..Len(d) + Len(l) /\ ~(Len(d) + 2 <= Len(d))
          /\ Len(d) + 1 - Len(d) = 1 /\ Len(d) + 2 - Len(d) = 2
        BY <1>2, <1>3
    <2>3. r[Len(d) + 1] = l[1] /\ r[Len(d) + 2] = l[2]
        BY <2>1, <2>2
    <2>. QED
        BY <2>1, <2>3, <1>2, <1>3
<1>6. /\ Continues(r, c)
      /\ \A k \in 1..Len(c) : r[k] = c[k]
    BY <1>2, <1>5, <1>0 DEF Continues
\* where a line begins in r: where it did in c, or after d
<1>7. \A k \in 1..Len(r) : r[k][2] = 1 => k \in 1..Len(c) \/ (k = Len(d) + 1 /\ r[k][1] = m + 1)
    <2>. SUFFICES ASSUME NEW k \in 1..Len(r), r[k][2] = 1, k \notin 1..Len(c)
                  PROVE  k = Len(d) + 1 /\ r[k][1] = m + 1
        OBVIOUS
    <2>1. k \in Len(c) + 1..Len(d) \/ k = Len(d) + 1 \/ k = Len(d) + 2
        BY <1>0, <1>2, <1>5
    <2>2. k \notin Len(c) + 1..Len(d)
        <3>. SUFFICES ASSUME k \in Len(c) + 1..Len(d) PROVE FALSE
            OBVIOUS
        <3>1. k \in 1..Len(d)
            BY <1>0
        <3>2. r[k] = d[k] /\ d[k][2] = 2
            BY <1>2, <1>5, <3>1
        <3>. QED
            BY <3>2
    <2>3. k # Len(d) + 2
        BY <1>5
    <2>. QED
        BY <2>1, <2>2, <2>3, <1>5
<1>8. ASSUME NEW k \in 1..Len(r), r[k][2] = 1
      PROVE  r[k][1] \in 1..m + 1 /\ (k = 1 \/ EndsLine(r[k - 1]))
    <2>1. CASE k \in 1..Len(c)
        <3>1. r[k] = c[k]
            BY <1>6, <2>1
        <3>2. c[k][1] \in 1..m /\ (k = 1 \/ EndsLine(c[k - 1]))
            BY <3>1, <2>1, <1>8 DEF Proper
        <3>3. k = 1 \/ r[k - 1] = c[k - 1]
            BY <1>6, <2>1, <1>0
        <3>. QED
            BY <3>1, <3>2, <3>3
    <2>2. CASE k = Len(d) + 1 /\ r[k][1] = m + 1
        <3>1. Len(d) = 0 \/ (d # <<>> /\ r[Len(d)] = d[Len(d)])
            BY <1>2, <1>5, EmptySeq
        <3>2. k - 1 = Len(d)
            BY <2>2, <1>2
        <3>. QED
            BY <2>2, <3>1, <3>2, <1>2 DEF EndsLine
    <2>. QED
        BY <2>1, <2>2, <1>7, <1>8
<1>9. ASSUME NEW j \in 1..Len(r), NEW k \in 1..Len(r), r[j][2] = 1, r[k][2] = 1, r[j][1] = r[k][1]
      PROVE  j = k
    <2>0. \A i \in 1..Len(c) : r[i][2] = 1 => r[i][1] \in 1..m
        BY <1>6 DEF Proper
    <2>1. CASE j \in 1..Len(c) /\ k \in 1..Len(c)
        <3>1. r[j] = c[j] /\ r[k] = c[k]
            BY <1>6, <2>1
        <3>. QED
            BY <3>1, <2>1, <1>9 DEF Proper
    <2>2. CASE j \notin 1..Len(c) /\ k \notin 1..Len(c)
        BY <1>7, <1>9, <2>2
    <2>3. CASE j \in 1..Len(c) /\ k \notin 1..Len(c)
        <3>1. r[j][1] \in 1..m /\ r[k][1] = m + 1
            BY <2>0, <2>3, <1>7, <1>9
        <3>. QED
            BY <3>1, <1>9
    <2>4. CASE k \in 1..Len(c) /\ j \notin 1..Len(c)
        <3>1. r[k][1] \in 1..m /\ r[j][1] = m + 1
            BY <2>0, <2>4, <1>7, <1>9
        <3>. QED
            BY <3>1, <1>9
    <2>. QED
        BY <2>1, <2>2, <2>3, <2>4
<1>10. Proper(r, m + 1)
    BY <1>8, <1>9 DEF Proper
<1>. QED
    BY <1>5, <1>6, <1>10 DEF r

LEMMA ProperLater ==
    ASSUME NEW c \in Seq(Byte), NEW m \in Nat, NEW n \in Nat, m <= n, Proper(c, m)
    PROVE  Proper(c, n)
<1>1. Len(c) \in Nat
    BY LenProperties
<1>2. \A x \in 1..m : x \in 1..n
    OBVIOUS
<1>. QED
    BY <1>1, <1>2 DEF Proper

LEMMA ProperStart ==
    ASSUME NEW c \in Seq(Byte), NEW m \in Nat, NEW k \in Nat, k <= Len(c), Proper(c, m)
    PROVE  Proper(SubSeq(c, 1, k), m)
<1>. DEFINE d == SubSeq(c, 1, k)
<1>1. Len(c) \in Nat
    BY LenProperties
<1>2. Len(d) = k /\ \A i \in 1..k : d[i] = c[i]
    BY StartOfBytes
<1>. HIDE DEF d
<1>3. \A i \in 1..k : i \in 1..Len(c) /\ (i = 1 \/ i - 1 \in 1..k)
    BY <1>1
<1>4. ASSUME NEW i \in 1..Len(d), d[i][2] = 1
      PROVE  d[i][1] \in 1..m /\ (i = 1 \/ EndsLine(d[i - 1]))
    <2>1. i \in 1..Len(c) /\ d[i] = c[i] /\ (i = 1 \/ d[i - 1] = c[i - 1])
        BY <1>2, <1>3
    <2>. QED
        BY <2>1, <1>4 DEF Proper
<1>5. ASSUME NEW i \in 1..Len(d), NEW j \in 1..Len(d), d[i][2] = 1, d[j][2] = 1, d[i][1] = d[j][1]
      PROVE  i = j
    <2>1. i \in 1..Len(c) /\ d[i] = c[i] /\ j \in 1..Len(c) /\ d[j] = c[j]
        BY <1>2, <1>3
    <2>. QED
        BY <2>1, <1>5 DEF Proper
<1>. QED
    BY <1>4, <1>5 DEF Proper, d

\* A line of a range of c is at its place in c, and all of it is in the range.
LEMMA LineOfRange ==
    ASSUME NEW c \in Seq(Byte), NEW x \in Nat, NEW y \in Nat, x <= y, y <= Len(c),
           NEW i \in ReadableLines(SubSeq(c, x + 1, y))
    PROVE  \E k \in x + 1..y - 1 : c[k] = <<i, 1>> /\ c[k + 1] = <<i, 2>>
<1>. DEFINE s == SubSeq(c, x + 1, y)
<1>1. s \in Seq(Byte) /\ Len(s) = y - x /\ \A k \in 1..y - x : s[k] = c[x + k]
    BY RangeOfBytes
<1>. HIDE DEF s
<1>2. i \in ReadableLines(s)
    BY DEF s
<1>3. PICK k \in 1..Len(s) - 1 : i = s[k][1] /\ s[k][2] = 1 /\ s[k + 1] = <<s[k][1], 2>>
    BY <1>2 DEF ReadableLines, WholeAt
<1>4. /\ k \in 1..y - x /\ k + 1 \in 1..y - x
      /\ x + k \in x + 1..y - 1 /\ x + (k + 1) = x + k + 1
    BY <1>1, <1>3
<1>5. s[k] = c[x + k] /\ s[k + 1] = c[x + k + 1]
    BY <1>1, <1>4, SMTT(30)
<1>6. c[x + k + 1] = <<i, 2>>
    BY <1>3, <1>5
<1>7. c[x + k] = <<i, 1>>
    <2>1. x + k \in 1..Len(c)
        BY <1>4, LenProperties
    <2>2. c[x + k] \in Byte
        BY <2>1, ElementOfSeq
    <2>3. c[x + k] = <<c[x + k][1], c[x + k][2]>>
        BY <2>2 DEF Byte
    <2>. QED
        BY <2>3, <1>3, <1>5
<1>. QED
    BY <1>4, <1>6, <1>7

\* Ranges that do not overlap have no line in common.
LEMMA ApartMeansDisjoint ==
    ASSUME NEW c \in Seq(Byte), NEW m \in Nat, Proper(c, m),
           NEW x \in Nat, NEW y \in Nat, x <= y, y <= Len(c),
           NEW v \in Nat, NEW w \in Nat, v <= w, w <= Len(c),
           y <= v \/ w <= x
    PROVE  ReadableLines(SubSeq(c, x + 1, y)) \intersect ReadableLines(SubSeq(c, v + 1, w)) = {}
<1>. SUFFICES ASSUME NEW i \in ReadableLines(SubSeq(c, x + 1, y)),
                     i \in ReadableLines(SubSeq(c, v + 1, w))
              PROVE  FALSE
    OBVIOUS
<1>1. PICK j \in x + 1..y - 1 : c[j] = <<i, 1>>
    BY LineOfRange, ZenonT(60)
<1>2. PICK k \in v + 1..w - 1 : c[k] = <<i, 1>>
    BY LineOfRange, ZenonT(60)
<1>3. j \in 1..Len(c) /\ k \in 1..Len(c) /\ j # k
    BY <1>1, <1>2, LenProperties
<1>4. c[j][2] = 1 /\ c[k][2] = 1 /\ c[j][1] = c[k][1]
    BY <1>1, <1>2
<1>. QED
    BY <1>3, <1>4 DEF Proper

\* The lines of proper bytes are lines made so far.
LEMMA LinesAreMade ==
    ASSUME NEW c \in Seq(Byte), NEW m \in Nat, Proper(c, m),
           NEW x \in Nat, NEW y \in Nat, x <= y, y <= Len(c)
    PROVE  ReadableLines(SubSeq(c, x + 1, y)) \subseteq 1..m
<1>. SUFFICES ASSUME NEW i \in ReadableLines(SubSeq(c, x + 1, y)) PROVE i \in 1..m
    OBVIOUS
<1>1. PICK k \in x + 1..y - 1 : c[k] = <<i, 1>>
    BY LineOfRange
<1>2. k \in 1..Len(c)
    BY <1>1, LenProperties
<1>3. c[k][2] = 1 /\ c[k][1] = i
    BY <1>1
<1>. QED
    BY <1>2, <1>3 DEF Proper

\* A whole line of proper bytes is a readable line of each range that ends at
\* the end of a line and holds the line's first byte.
LEMMA LineIsRead ==
    ASSUME NEW c \in Seq(Byte), NEW m \in Nat, Proper(c, m),
           NEW x \in Nat, NEW y \in Nat, y <= Len(c), EndsLine(c[y]),
           NEW k \in x + 1..y,
           c[k][2] = 1, c[k + 1] = <<c[k][1], 2>>
    PROVE  c[k][1] \in ReadableLines(SubSeq(c, x + 1, y))
<1>. DEFINE s == SubSeq(c, x + 1, y)
            j == k - x
<1>1. s \in Seq(Byte) /\ Len(s) = y - x /\ \A n \in 1..y - x : s[n] = c[x + n]
    BY RangeOfBytes
<1>2. Len(c) \in Nat
    BY LenProperties
<1>3. k # y
    BY DEF EndsLine
<1>4. j \in 1..Len(s) - 1 /\ j \in 1..y - x /\ j + 1 \in 1..y - x /\ (j = 1 \/ j - 1 \in 1..y - x)
    BY <1>1, <1>3
<1>5. x + j = k /\ x + (j + 1) = k + 1 /\ x + (j - 1) = k - 1
    OBVIOUS
<1>. HIDE DEF s, j
<1>6. s[j] = c[k] /\ s[j + 1] = c[k + 1] /\ (j = 1 \/ s[j - 1] = c[k - 1])
    BY <1>1, <1>4, <1>5
<1>7. j = 1 \/ EndsLine(s[j - 1])
    <2>1. k \in 1..Len(c)
        BY <1>2
    <2>2. k = 1 \/ EndsLine(c[k - 1])
        BY <2>1 DEF Proper
    <2>3. k = 1 => j = 1
        BY <1>4, <1>5
    <2>. QED
        BY <2>2, <2>3, <1>6
<1>8. j \in WholeAt(s)
    BY <1>4, <1>6 DEF WholeAt
<1>9. j \in {n \in WholeAt(s) : n = 1 \/ EndsLine(s[n - 1])}
    BY <1>7, <1>8
<1>10. s[j][1] \in ReadableLines(s)
    BY <1>9 DEF ReadableLines
<1>. QED
    BY <1>6, <1>10 DEF s

-----------------------------------------------------------------------------
(* Objects. *)

\* Objects are laid up to the end of the one that starts last.
LEMMA LaidUpTo ==
    ASSUME NEW objects \in SUBSET Object, NEW e \in Nat, Laid(objects, e)
    PROVE  e = IF objects = {} THEN 0
               ELSE (CHOOSE o \in objects : \A p \in objects : p.start <= o.start).end
<1>1. CASE objects = {}
    BY <1>1 DEF Laid
<1>2. CASE objects # {}
    <2>1. PICK t \in objects : t.end = e /\ \A p \in objects : p.start <= t.start
        BY <1>2 DEF Laid
    <2>. DEFINE o == CHOOSE o \in objects : \A p \in objects : p.start <= o.start
    <2>2. o \in objects /\ \A p \in objects : p.start <= o.start
        BY <2>1
    <2>. HIDE DEF o
    <2>3. /\ o.start \in Nat /\ o.end \in Nat /\ t.start \in Nat /\ t.end \in Nat
          /\ o.start <= t.start /\ t.start <= o.start
        BY <2>1, <2>2 DEF Object
    <2>4. o.start < o.end /\ t.start < t.end
        BY <2>1, <2>2 DEF Laid
    <2>5. ~(o.end <= t.start \/ t.end <= o.start)
        BY <2>3, <2>4
    <2>6. o = t
        BY <2>1, <2>2, <2>5 DEF Laid
    <2>7. o.end = e
        BY <2>1, <2>6
    <2>. QED
        BY <2>7, <1>2 DEF o
<1>. QED
    BY <1>1, <1>2

\* A key that nobody has taken, at the end of an object, is where the objects end.
LEMMA FreeIsTheEnd ==
    ASSUME NEW objects \in SUBSET Object, NEW e \in Nat, Laid(objects, e), NEW at \in Nat,
           at = 0 \/ \E p \in objects : p.end = at,
           \A o \in objects : o.start # at
    PROVE  at = e
<1>0. \A o \in objects : o.start \in Nat /\ o.end \in Nat /\ o.start < o.end /\ o.end <= e
    BY DEF Laid, Object
<1>1. at <= e
    BY <1>0
<1>2. ASSUME at < e PROVE FALSE
    <2>1. at + 1 \in 1..e
        BY <1>2
    <2>2. PICK o \in objects : o.start < at + 1 /\ at + 1 <= o.end
        BY <2>1 DEF Laid
    <2>3. o.start < at /\ at < o.end
        BY <2>2, <1>0
    <2>4. PICK p \in objects : p.end = at
        BY <2>3, <1>0
    <2>5. o # p
        BY <2>3, <2>4, <1>0
    <2>6. p.end <= o.start \/ o.end <= p.start
        BY <2>5 DEF Laid
    <2>. QED
        BY <2>3, <2>4, <2>6, <1>0
<1>. QED
    BY <1>1, <1>2

\* An object that starts there is laid on.
LEMMA LaidOn ==
    ASSUME NEW objects \in SUBSET Object, NEW e \in Nat, Laid(objects, e),
           NEW n \in Object, n.start = e, n.start < n.end
    PROVE  Laid(objects \union {n}, n.end)
<1>. DEFINE all == objects \union {n}
<1>0. /\ \A o \in objects : o.start \in Nat /\ o.end \in Nat /\ o.start < o.end /\ o.end <= e
      /\ n.start \in Nat /\ n.end \in Nat
    BY DEF Laid, Object
<1>1. n.end = n.end /\ \A p \in all : p.start <= n.start
    BY <1>0
<1>2. \A o \in all : o.start < o.end /\ o.end <= n.end
    BY <1>0
<1>3. \A o \in all : o.start = 0 \/ \E p \in all : p.end = o.start
    <2>1. \A o \in objects : o.start = 0 \/ \E p \in all : p.end = o.start
        BY DEF Laid
    <2>2. n.start = 0 \/ \E p \in objects : p.end = n.start
        <3>1. objects = {} => e = 0
            BY DEF Laid
        <3>2. objects # {} => \E p \in objects : p.end = e
            BY DEF Laid
        <3>. QED
            BY <3>1, <3>2
    <2>. QED
        BY <2>1, <2>2
<1>4. \A o, p \in all : o # p => p.end <= o.start \/ o.end <= p.start
    <2>1. \A o, p \in objects : o # p => p.end <= o.start \/ o.end <= p.start
        BY DEF Laid
    <2>2. \A o \in objects : o.end <= n.start
        BY <1>0
    <2>. QED
        BY <2>1, <2>2
<1>5. \A k \in 1..n.end : \E o \in all : o.start < k /\ k <= o.end
    <2>. SUFFICES ASSUME NEW k \in 1..n.end PROVE \E o \in all : o.start < k /\ k <= o.end
        OBVIOUS
    <2>1. CASE k <= e
        <3>1. k \in 1..e
            BY <2>1
        <3>. QED
            BY <3>1 DEF Laid
    <2>2. CASE e < k
        <3>1. n.start < k /\ k <= n.end
            BY <2>2, <1>0
        <3>. QED
            BY <3>1
    <2>. QED
        BY <2>1, <2>2
<1>6. n \in all /\ all # {}
    OBVIOUS
<1>. HIDE DEF all
<1>7. Laid(all, n.end)
    BY <1>1, <1>2, <1>3, <1>4, <1>5, <1>6 DEF Laid
<1>. QED
    BY <1>7 DEF all

\* What the objects cover of proper bytes is in one of them.
LEMMA CoveredIsHeld ==
    ASSUME NEW objects \in SUBSET Object, NEW e \in Nat, Laid(objects, e),
           NEW c \in Seq(Byte), NEW m \in Nat, Proper(c, m), CutFrom(objects, c),
           NEW n \in Nat, n <= e, e <= Len(c)
    PROVE  WholeLines(SubSeq(c, 1, n)) \subseteq UNION {o.lines : o \in objects}
<1>. DEFINE s == SubSeq(c, 1, n)
<1>1. Len(c) \in Nat /\ s \in Seq(Byte) /\ Len(s) = n /\ \A k \in 1..n : s[k] = c[k]
    BY StartOfBytes, LenProperties
<1>. HIDE DEF s
<1>. SUFFICES ASSUME NEW i \in WholeLines(s) PROVE \E o \in objects : i \in o.lines
    BY DEF s
<1>2. PICK k \in 1..Len(s) - 1 : i = s[k][1] /\ s[k][2] = 1 /\ s[k + 1] = <<s[k][1], 2>>
    BY DEF WholeLines, WholeAt
<1>3. k \in 1..n /\ k + 1 \in 1..n /\ k \in 1..e
    BY <1>1, <1>2
<1>4. c[k][1] = i /\ c[k][2] = 1 /\ c[k + 1] = <<c[k][1], 2>>
    BY <1>1, <1>2, <1>3
<1>5. PICK o \in objects : o.start < k /\ k <= o.end
    BY <1>3 DEF Laid
<1>6. /\ o.start \in Nat /\ o.end \in Nat
      /\ o.end <= Len(c) /\ EndsLine(c[o.end])
      /\ o.lines = ReadableLines(SubSeq(c, o.start + 1, o.end))
    BY DEF CutFrom, Object
<1>7. k \in o.start + 1..o.end
    BY <1>5, <1>6
<1>8. c[k][1] \in ReadableLines(SubSeq(c, o.start + 1, o.end))
    BY <1>4, <1>6, <1>7, LineIsRead
<1>. QED
    BY <1>4, <1>6, <1>8

-----------------------------------------------------------------------------
(* What is to be sent and what is confirmed, as sets. *)

LEMMA ToSetOfSeq ==
    ASSUME NEW S, NEW s \in Seq(S)
    PROVE  /\ ToSet(s) \subseteq S
           /\ s # <<>> => Head(s) \in ToSet(s) /\ Tail(s) \in Seq(S) /\ ToSet(Tail(s)) \subseteq ToSet(s)
           /\ ToSet(<<>>) = {}
           /\ \A x \in S : /\ Append(s, x) \in Seq(S)
                           /\ ToSet(Append(s, x)) \subseteq ToSet(s) \union {x}
<1>1. Len(s) \in Nat /\ DOMAIN s = 1..Len(s) /\ \A i \in 1..Len(s) : s[i] \in S
    BY LenProperties, ElementOfSeq
<1>2. ToSet(s) \subseteq S
    BY <1>1 DEF ToSet
<1>3. ASSUME s # <<>>
      PROVE  Head(s) \in ToSet(s) /\ Tail(s) \in Seq(S) /\ ToSet(Tail(s)) \subseteq ToSet(s)
    <2>1. Head(s) = s[1] /\ 1 \in 1..Len(s)
        BY <1>3, <1>1, EmptySeq
    <2>2. Tail(s) \in Seq(S) /\ Len(Tail(s)) = Len(s) - 1
        BY <1>3, HeadTailProperties
    <2>3. \A i \in 1..Len(Tail(s)) : Tail(s)[i] = s[i + 1] /\ i + 1 \in 1..Len(s)
        BY <1>3, <1>1, <2>2
    <2>4. DOMAIN Tail(s) = 1..Len(Tail(s))
        BY <2>2, LenProperties
    <2>. QED
        BY <1>1, <2>1, <2>2, <2>3, <2>4 DEF ToSet
<1>4. ToSet(<<>>) = {}
    BY DEF ToSet
<1>5. ASSUME NEW x \in S
      PROVE  Append(s, x) \in Seq(S) /\ ToSet(Append(s, x)) \subseteq ToSet(s) \union {x}
    <2>1. /\ Append(s, x) \in Seq(S) /\ Len(Append(s, x)) = Len(s) + 1
          /\ \A i \in 1..Len(s) : Append(s, x)[i] = s[i]
          /\ Append(s, x)[Len(s) + 1] = x
        BY AppendProperties
    <2>2. DOMAIN Append(s, x) = 1..Len(s) + 1
        BY <2>1, LenProperties
    <2>3. \A i \in 1..Len(s) + 1 : i \in 1..Len(s) \/ i = Len(s) + 1
        BY <1>1
    <2>. QED
        BY <1>1, <2>1, <2>2, <2>3 DEF ToSet
<1>. QED
    BY <1>2, <1>3, <1>4, <1>5

LEMMA ToSetOfPush ==
    ASSUME NEW S, NEW s \in Seq(S), NEW x \in S
    PROVE  <<x>> \o s \in Seq(S) /\ ToSet(<<x>> \o s) \subseteq ToSet(s) \union {x}
<1>0. Len(s) \in Nat /\ DOMAIN s = 1..Len(s) /\ \A i \in 1..Len(s) : s[i] \in S
    BY LenProperties, ElementOfSeq
<1>1. <<x>> \in Seq(S) /\ Len(<<x>>) = 1 /\ <<x>>[1] = x
    OBVIOUS
<1>2. /\ <<x>> \o s \in Seq(S)
      /\ Len(<<x>> \o s) = 1 + Len(s)
      /\ \A i \in 1..1 + Len(s) : (<<x>> \o s)[i] = IF i <= 1 THEN <<x>>[i] ELSE s[i - 1]
    BY <1>1, ConcatProperties
<1>3. DOMAIN (<<x>> \o s) = 1..1 + Len(s)
    BY <1>2, LenProperties
<1>4. \A i \in 1..1 + Len(s) : i = 1 \/ (i - 1 \in 1..Len(s) /\ ~(i <= 1))
    BY <1>0
<1>5. \A i \in 1..1 + Len(s) : (<<x>> \o s)[i] = x \/ \E k \in 1..Len(s) : (<<x>> \o s)[i] = s[k]
    BY <1>1, <1>2, <1>4
<1>. QED
    BY <1>0, <1>2, <1>3, <1>5 DEF ToSet

LEMMA SetsTyped ==
    ASSUME UploadTypes, NEW f \in Files
    PROVE  ToSend(f) \subseteq Item /\ Confirmed(f) \subseteq Measured
<1>1. \A u \in Uploaders : pending[u] \in Seq(Item) /\ confirmed[u] \in Seq(Measured)
    BY DEF UploadTypes
<1>2. \A u \in Uploaders : ToSet(pending[u]) \subseteq Item /\ ToSet(confirmed[u]) \subseteq Measured
    BY <1>1, ToSetOfSeq
<1>. QED
    BY <1>2 DEF ToSend, Confirmed

LEMMA ToSendStep ==
    ASSUME NEW X, \A v \in Uploaders : ToSet(pending'[v]) \subseteq ToSet(pending[v]) \union X,
           NEW f \in Files
    PROVE  ToSend(f)' \subseteq ToSend(f) \union {x \in X : x.file = f}
BY DEF ToSend

LEMMA ConfirmedStep ==
    ASSUME NEW X, \A v \in Uploaders : ToSet(confirmed'[v]) \subseteq ToSet(confirmed[v]) \union X,
           NEW f \in Files
    PROVE  Confirmed(f)' \subseteq Confirmed(f) \union {x \in X : x.file = f}
BY DEF Confirmed

-----------------------------------------------------------------------------
(* What keeps the invariant of a file. *)

LEMMA EndIsNat ==
    ASSUME UploadIInv, NEW f \in Files
    PROVE  /\ UploadedEnd(f) \in Nat
           /\ bucket[f] \in SUBSET Object
           /\ Laid(bucket[f], UploadedEnd(f))
           /\ \A o \in bucket[f] : o.end <= UploadedEnd(f)
           /\ UploadedEnd(f) = 0 \/ \E o \in bucket[f] : o.end = UploadedEnd(f)
<1>1. bucket[f] \in SUBSET Object /\ Laid(bucket[f], UploadedEnd(f))
    BY DEF UploadIInv, UploadTypes, FileInv
<1>2. UploadedEnd(f) = 0 \/ \E o \in bucket[f] : o.end = UploadedEnd(f)
    BY <1>1 DEF Laid
<1>. QED
    BY <1>1, <1>2 DEF Laid, Object

\* The end is a number again where the objects are laid again.
LEMMA EndTyped ==
    ASSUME NEW f \in Files, bucket' \in [Files -> SUBSET Object], Laid(bucket[f], UploadedEnd(f))'
    PROVE  UploadedEnd(f)' \in Nat
<1>1. bucket'[f] \in SUBSET Object
    OBVIOUS
<1>2. CASE bucket'[f] = {}
    BY <1>2 DEF UploadedEnd
<1>3. CASE bucket'[f] # {}
    <2>1. \E o \in bucket'[f] : o.end = UploadedEnd(f)'
        BY <1>3 DEF Laid
    <2>. QED
        BY <1>1, <2>1 DEF Object
<1>. QED
    BY <1>2, <1>3

LEMMA SameEnd ==
    ASSUME NEW f \in Files, bucket'[f] = bucket[f]
    PROVE  UploadedEnd(f)' = UploadedEnd(f)
BY DEF UploadedEnd

\* The file's bytes, objects and marks of the next state are as they are, or fewer.
LEMMA FileQuiet ==
    ASSUME UploadIInv, NEW f \in Files,
           made' = made, today' = today, local'[f] = local[f], bucket'[f] = bucket[f],
           ToSend(f)' \subseteq ToSend(f),
           cache'[f] <= UploadedEnd(f),
           \A u \in Uploaders : ends'[u][f] <= UploadedEnd(f),
           \A m \in Confirmed(f)' : m.size <= UploadedEnd(f)
    PROVE  FileInv(f)'
<1>1. UploadedEnd(f)' = UploadedEnd(f)
    BY SameEnd
<1>2. FileInv(f)
    BY DEF UploadIInv
<1>3. PICK c \in Seq(Byte) : IsContent(f, c)
    BY <1>2 DEF FileInv
<1>4. IsContent(f, c)'
    BY <1>3 DEF IsContent
<1>5. Laid(bucket[f], UploadedEnd(f))'
    BY <1>1, <1>2 DEF FileInv
<1>6. Marked(f)'
    BY <1>1 DEF Marked
<1>. QED
    BY <1>4, <1>5, <1>6 DEF FileInv

LEMMA CutFromLonger ==
    ASSUME NEW b \in Seq(Byte), NEW c \in Seq(Byte), Continues(c, b),
           NEW objects \in SUBSET Object, \A o \in objects : o.start < o.end,
           CutFrom(objects, b)
    PROVE  CutFrom(objects, c)
<1>. SUFFICES ASSUME NEW o \in objects
              PROVE  /\ o.end <= Len(c) /\ EndsLine(c[o.end])
                     /\ o.lines = ReadableLines(SubSeq(c, o.start + 1, o.end))
    BY DEF CutFrom
<1>1. /\ o.start \in Nat /\ o.end \in Nat /\ o.start <= o.end
      /\ o.end \in 1..Len(b) /\ o.end <= Len(b)
    BY LenProperties DEF CutFrom, Object
<1>2. c[o.end] = b[o.end] /\ o.end <= Len(c)
    BY <1>1, LenProperties DEF Continues
<1>3. SubSeq(c, o.start + 1, o.end) = SubSeq(b, o.start + 1, o.end)
    BY <1>1, SameRange
<1>4. EndsLine(b[o.end]) /\ o.lines = ReadableLines(SubSeq(b, o.start + 1, o.end))
    BY DEF CutFrom
<1>. QED
    BY <1>2, <1>3, <1>4

LEMMA GoesOnLonger ==
    ASSUME NEW b \in Seq(Byte), NEW c \in Seq(Byte), Continues(c, b),
           NEW objects, NEW item \in Item, GoesOn(item, objects, b)
    PROVE  GoesOn(item, objects, c)
<1>1. item.at \in Nat /\ item.size \in Nat /\ item.size \in 1..Len(b)
    BY LenProperties DEF GoesOn, Item
<1>2. c[item.size] = b[item.size] /\ item.size <= Len(c)
    BY <1>1, LenProperties DEF Continues
<1>3. SubSeq(c, 1, item.size) = SubSeq(b, 1, item.size)
    BY <1>1, SameStartOfBytes
<1>. QED
    BY <1>2, <1>3 DEF GoesOn

\* A line is written or none is, and nothing new is to be sent or confirmed.
LEMMA WriteKeeps ==
    ASSUME UploadIInv, NEW stream, Write(stream) \/ UNCHANGED <<local, made>>,
           today' = today, bucket' = bucket,
           \A f \in Files :
               /\ ToSend(f)' \subseteq ToSend(f)
               /\ cache'[f] <= UploadedEnd(f)
               /\ \A u \in Uploaders : ends'[u][f] <= UploadedEnd(f)
               /\ \A m \in Confirmed(f)' : m.size <= UploadedEnd(f)
    PROVE  /\ local' \in [Files -> Seq(Byte)] /\ made' \in 0..MaxLines
           /\ \A f \in Files : FileInv(f)'
<1>0. /\ local \in [Files -> Seq(Byte)] /\ made \in 0..MaxLines /\ today \in 1..MaxDay
      /\ MaxLines \in Nat /\ MaxDay \in Nat
    BY UploadBoundsAssumption DEF UploadIInv, UploadTypes
<1>1. CASE UNCHANGED <<local, made>>
    <2>1. \A f \in Files : FileInv(f)'
        BY <1>1, FileQuiet
    <2>. QED
        BY <1>0, <1>1, <2>1
<1>2. CASE made < MaxLines /\ Write(stream)
    <2>. DEFINE g == <<stream, today>>
    <2>1. made' = made + 1 /\ local' = [local EXCEPT ![g] = AppendLine(local[g], made + 1)]
        BY <1>2 DEF Write
    <2>2. made \in Nat /\ made' \in 0..MaxLines
        BY <1>0, <1>2, <2>1
    <2>3. DayOf(g) = today
        BY DEF DayOf
    <2>. HIDE DEF g
    <2>4. ASSUME NEW f \in Files
          PROVE  local'[f] \in Seq(Byte) /\ FileInv(f)'
        <3>1. UploadedEnd(f)' = UploadedEnd(f)
            BY SameEnd
        <3>2. PICK c \in Seq(Byte) : IsContent(f, c)
            BY DEF UploadIInv, FileInv
        <3>3. /\ bucket[f] \in SUBSET Object /\ \A o \in bucket[f] : o.start < o.end
              /\ ToSend(f) \subseteq Item
            BY EndIsNat, SetsTyped DEF UploadIInv, Laid
        <3>4. CASE f = g
            <4>1. local[f] = c
                BY <3>2, <2>3, <3>4, <1>0 DEF IsContent
            <4>2. Proper(c, made)
                BY <3>2 DEF IsContent
            <4>. PICK d \in Seq(Byte) : d = AppendLine(c, made + 1)
                BY <1>2, <2>2, <4>2, AppendLineKeeps
            <4>3. Continues(d, c) /\ Proper(d, made + 1)
                BY <1>2, <2>2, <4>2, AppendLineKeeps
            <4>4. local'[f] = d
                BY <2>1, <3>4, <4>1, <1>0
            <4>5. CutFrom(bucket[f], d)
                BY <3>2, <3>3, <4>3, CutFromLonger DEF IsContent
            <4>6. \A item \in ToSend(f) : GoesOn(item, bucket[f], d)
                BY <3>2, <3>3, <4>3, GoesOnLonger DEF IsContent
            <4>7. IsContent(f, d)'
                BY <2>1, <4>3, <4>4, <4>5, <4>6 DEF IsContent
            <4>8. Laid(bucket[f], UploadedEnd(f))' /\ Marked(f)'
                BY <3>1, EndIsNat DEF Marked
            <4>. QED
                BY <4>3, <4>4, <4>7, <4>8 DEF FileInv
        <3>5. CASE f # g
            <4>1. local'[f] = local[f] /\ local[f] \in Seq(Byte)
                BY <2>1, <3>5, <1>0
            <4>2. Proper(c, made + 1)
                <5>1. Proper(c, made) /\ made + 1 \in Nat /\ made <= made + 1
                    BY <3>2, <2>2 DEF IsContent
                <5>. QED
                    BY <5>1, <2>2, ProperLater
            <4>3. IsContent(f, c)'
                BY <2>1, <3>2, <4>1, <4>2 DEF IsContent
            <4>4. Laid(bucket[f], UploadedEnd(f))' /\ Marked(f)'
                BY <3>1, EndIsNat DEF Marked
            <4>. QED
                BY <4>1, <4>3, <4>4 DEF FileInv
        <3>. QED
            BY <3>4, <3>5
    <2>5. local' = [f \in Files |-> local'[f]]
        BY <2>1, <1>0
    <2>6. local' \in [Files -> Seq(Byte)]
        BY <2>4, <2>5
    <2>. QED
        BY <2>2, <2>4, <2>6
<1>3. CASE ~(made < MaxLines) /\ Write(stream)
    <2>1. UNCHANGED <<local, made>>
        BY <1>3 DEF Write
    <2>. QED
        BY <1>1, <2>1
<1>. QED
    BY <1>1, <1>2, <1>3

-----------------------------------------------------------------------------
(* What is put. *)

\* What a run puts of a file is cut from its content at the ends of lines.
LEMMA NextIsCut ==
    ASSUME UploadIInv, NEW f \in Files, NEW item \in ToSend(f), CanOpen(item),
           NEW c \in Seq(Byte), IsContent(f, c)
    PROVE  /\ item \in Item /\ item.file = f /\ Len(c) \in Nat
           /\ DataOf(item) = SubSeq(c, 1, item.size)
           /\ DataOf(item) \in Seq(Byte) /\ DataOf(item) # <<>>
           /\ EndOfNext(item) \in item.at + 1..item.size
           /\ item.size <= Len(c)
           /\ EndsLine(c[EndOfNext(item)])
           /\ NextObject(item).start = item.at
           /\ NextObject(item).end = EndOfNext(item)
           /\ NextObject(item) \in Object
           /\ NextObject(item).lines = ReadableLines(SubSeq(c, item.at + 1, EndOfNext(item)))
<1>. DEFINE d == SubSeq(c, 1, item.size)
            e == EndOfNext(item)
<1>1. item \in Item /\ item.file = f /\ GoesOn(item, bucket[f], c)
    BY SetsTyped DEF UploadIInv, IsContent, ToSend
<1>2. item.at \in Nat /\ item.size \in Nat /\ Len(c) \in Nat /\ item.at < item.size /\ item.size <= Len(c)
    BY <1>1, LenProperties DEF Item, GoesOn
<1>3. d \in Seq(Byte) /\ Len(d) = item.size /\ \A k \in 1..item.size : d[k] = c[k]
    BY <1>2, StartOfBytes
<1>4. DataOf(item) = d
    <2>1. CASE item.data = <<>>
        <3>1. local[f] # <<>>
            BY <1>1, <2>1 DEF CanOpen, Unopened
        <3>2. local[f] = c
            BY <3>1 DEF IsContent
        <3>. QED
            BY <2>1, <3>2, <1>1 DEF DataOf, Unopened
    <2>2. CASE item.data # <<>>
        <3>1. item.data = d
            BY <1>1, <2>2 DEF GoesOn
        <3>. QED
            BY <2>2, <3>1 DEF DataOf, Unopened
    <2>. QED
        BY <2>1, <2>2
<1>5. EndsLine(d[Len(d)])
    BY <1>1, <1>2, <1>3 DEF GoesOn
<1>6. e = ChunkEnd(d, item.at)
    BY <1>4 DEF EndOfNext
<1>. HIDE DEF d, e
<1>7. e \in item.at + 1..Len(d) /\ EndsLine(d[e])
    BY <1>2, <1>3, <1>5, <1>6, ChunkEndsALine
<1>8. /\ e \in item.at + 1..item.size /\ EndsLine(c[e])
      /\ e \in Nat /\ e <= Len(c) /\ e <= Len(d) /\ item.at <= e /\ d # <<>>
    <2>1. e \in 1..item.size
        BY <1>2, <1>3, <1>7
    <2>2. d[e] = c[e]
        BY <2>1, <1>3
    <2>. QED
        BY <1>2, <1>3, <1>7, <2>1, <2>2, EmptySeq
<1>9. Continues(c, d)
    BY <1>2, <1>3 DEF Continues
<1>10. SubSeq(c, item.at + 1, e) = SubSeq(d, item.at + 1, e)
    BY <1>2, <1>3, <1>8, <1>9, SameRange, ZenonT(60)
<1>11. /\ NextObject(item).start = item.at /\ NextObject(item).end = e
       /\ NextObject(item).lines = ReadableLines(SubSeq(c, item.at + 1, e))
       /\ NextObject(item) = [start |-> item.at, end |-> e,
                              lines |-> ReadableLines(SubSeq(c, item.at + 1, e))]
    BY <1>4, <1>10 DEF NextObject, EndOffset, e
<1>12. ReadableLines(SubSeq(c, item.at + 1, e)) \subseteq 1..made
    <2>1. made \in Nat /\ Proper(c, made)
        BY UploadBoundsAssumption DEF UploadIInv, UploadTypes, IsContent
    <2>. QED
        BY <2>1, <1>2, <1>8, LinesAreMade
<1>13. made \in Nat
    BY UploadBoundsAssumption DEF UploadIInv, UploadTypes
<1>14. ReadableLines(SubSeq(c, item.at + 1, e)) \in SUBSET Nat
    BY <1>12, <1>13
<1>15. NextObject(item) \in Object
    BY <1>2, <1>8, <1>11, <1>14 DEF Object
<1>. QED
    BY <1>1, <1>2, <1>3, <1>4, <1>8, <1>11, <1>15 DEF d, e

\* The next object is laid where the objects end.
LEMMA Lands ==
    ASSUME UploadIInv, NEW f \in Files, NEW item \in ToSend(f), CanOpen(item), Taken(item) = {},
           bucket' = [bucket EXCEPT ![item.file] = @ \union {NextObject(item)}]
    PROVE  /\ bucket' \in [Files -> SUBSET Object]
           /\ UploadedEnd(f)' = EndOfNext(item)
           /\ \E o \in bucket'[f] : o.end = EndOfNext(item)
           /\ \A g \in Files :
                  /\ bucket[g] \subseteq bucket'[g]
                  /\ UploadedEnd(g) <= UploadedEnd(g)'
                  /\ Laid(bucket[g], UploadedEnd(g))'
                  /\ \A c \in Seq(Byte) : IsContent(g, c) => CutFrom(bucket'[g], c)
<1>0. bucket \in [Files -> SUBSET Object]
    BY DEF UploadIInv, UploadTypes
<1>1. PICK c \in Seq(Byte) : IsContent(f, c)
    BY DEF UploadIInv, FileInv
<1>2. item \in Item /\ item.file = f /\ GoesOn(item, bucket[f], c)
    BY <1>1, SetsTyped DEF UploadIInv, IsContent, ToSend
<1>3. PICK n \in Object : n = NextObject(item)
    BY <1>1, NextIsCut
<1>4. n.start = item.at /\ n.end = EndOfNext(item) /\ n.end \in item.at + 1..item.size
    BY <1>1, <1>3, NextIsCut
<1>5. item.at \in Nat /\ item.size \in Nat
    BY <1>2 DEF Item
<1>6. bucket'[f] = bucket[f] \union {n} /\ \A g \in Files : g # f => bucket'[g] = bucket[g]
    BY <1>0, <1>2, <1>3
<1>7. item.at = UploadedEnd(f)
    <2>1. \A o \in bucket[f] : o.start # item.at
        BY <1>2 DEF Taken
    <2>2. item.at = 0 \/ \E p \in bucket[f] : p.end = item.at
        BY <1>2 DEF GoesOn
    <2>. QED
        BY <2>1, <2>2, <1>5, EndIsNat, FreeIsTheEnd
<1>8. Laid(bucket'[f], n.end)
    <2>1. UploadedEnd(f) \in Nat /\ bucket[f] \in SUBSET Object /\ Laid(bucket[f], UploadedEnd(f))
        BY EndIsNat
    <2>2. n.start = UploadedEnd(f) /\ n.start < n.end
        BY <1>4, <1>5, <1>7
    <2>3. Laid(bucket[f] \union {n}, n.end)
        BY <2>1, <2>2, LaidOn
    <2>. QED
        BY <2>3, <1>6
<1>9. bucket'[f] \in SUBSET Object /\ n.end \in Nat
    BY <1>0, <1>6 DEF Object
<1>10. UploadedEnd(f)' = n.end
    BY <1>8, <1>9, LaidUpTo DEF UploadedEnd
<1>11. bucket' \in [Files -> SUBSET Object]
    <2>1. \A g \in Files : bucket'[g] \in SUBSET Object
        BY <1>0, <1>6, <1>9
    <2>2. bucket' = [g \in Files |-> bucket'[g]]
        BY <1>0
    <2>. QED
        BY <2>1, <2>2
<1>12. ASSUME NEW g \in Files
       PROVE  /\ bucket[g] \subseteq bucket'[g]
              /\ UploadedEnd(g) <= UploadedEnd(g)'
              /\ Laid(bucket[g], UploadedEnd(g))'
              /\ \A d \in Seq(Byte) : IsContent(g, d) => CutFrom(bucket'[g], d)
    <2>1. CASE g = f
        <3>1. UploadedEnd(f) <= n.end
            BY <1>4, <1>5, <1>7
        <3>2. ASSUME NEW d \in Seq(Byte), IsContent(f, d) PROVE CutFrom(bucket'[f], d)
            <4>1. CutFrom(bucket[f], d)
                BY <3>2 DEF IsContent
            <4>2. /\ n.lines = ReadableLines(SubSeq(d, item.at + 1, EndOfNext(item)))
                  /\ EndOfNext(item) \in item.at + 1..item.size
                  /\ item.size <= Len(d) /\ Len(d) \in Nat
                  /\ EndsLine(d[EndOfNext(item)])
                BY <3>2, <1>3, NextIsCut
            <4>3. n.end <= Len(d)
                BY <4>2, <1>4, <1>5
            <4>4. n.lines = ReadableLines(SubSeq(d, n.start + 1, n.end)) /\ EndsLine(d[n.end])
                BY <4>2, <1>4
            <4>. QED
                BY <4>1, <4>3, <4>4, <1>6 DEF CutFrom
        <3>3. Laid(bucket[g], UploadedEnd(g))'
            BY <1>8, <1>10, <2>1
        <3>4. UploadedEnd(g) <= UploadedEnd(g)'
            BY <1>10, <3>1, <2>1
        <3>. QED
            BY <3>2, <3>3, <3>4, <1>6, <2>1
    <2>2. CASE g # f
        <3>1. bucket'[g] = bucket[g]
            BY <1>6, <2>2
        <3>2. UploadedEnd(g)' = UploadedEnd(g)
            BY <3>1, SameEnd
        <3>3. UploadedEnd(g) \in Nat /\ Laid(bucket[g], UploadedEnd(g))
            BY EndIsNat
        <3>4. Laid(bucket[g], UploadedEnd(g))'
            BY <3>1, <3>2, <3>3
        <3>5. UploadedEnd(g) <= UploadedEnd(g)'
            BY <3>2, <3>3
        <3>6. \A d \in Seq(Byte) : IsContent(g, d) => CutFrom(bucket'[g], d)
            BY <3>1 DEF IsContent
        <3>. QED
            BY <3>1, <3>4, <3>5, <3>6
    <2>. QED
        BY <2>1, <2>2
<1>13. n \in bucket'[f]
    BY <1>6
<1>. QED
    BY <1>4, <1>10, <1>11, <1>12, <1>13

\* What is to be sent afterwards goes on from an object, and what is taken for
\* uploaded is covered.
LEMMA FilesStep ==
    ASSUME UploadIInv, made' = made, today' = today, local' = local, cache' = cache,
           \A g \in Files :
               /\ bucket[g] \subseteq bucket'[g]
               /\ UploadedEnd(g)' \in Nat
               /\ UploadedEnd(g) <= UploadedEnd(g)'
               /\ Laid(bucket[g], UploadedEnd(g))'
               /\ \A c \in Seq(Byte) : IsContent(g, c) =>
                      /\ CutFrom(bucket'[g], c)
                      /\ \A x \in ToSend(g)' : x \in ToSend(g) \/ GoesOn(x, bucket'[g], c)
               /\ \A u \in Uploaders : ends'[u][g] = ends[u][g] \/ ends'[u][g] <= UploadedEnd(g)'
               /\ \A m \in Confirmed(g)' : m \in Confirmed(g) \/ m.size <= UploadedEnd(g)'
    PROVE  \A g \in Files : FileInv(g)'
<1>. SUFFICES ASSUME NEW g \in Files PROVE FileInv(g)'
    OBVIOUS
<1>0. UploadedEnd(g) \in Nat /\ UploadedEnd(g)' \in Nat /\ UploadedEnd(g) <= UploadedEnd(g)'
    BY EndIsNat
<1>1. PICK c \in Seq(Byte) : IsContent(g, c)
    BY DEF UploadIInv, FileInv
<1>2. IsContent(g, c)'
    <2>1. \A x \in ToSend(g) : GoesOn(x, bucket'[g], c)
        BY <1>1 DEF IsContent, GoesOn
    <2>2. \A x \in ToSend(g)' : GoesOn(x, bucket'[g], c)
        BY <1>1, <2>1
    <2>3. CutFrom(bucket'[g], c)
        BY <1>1
    <2>. QED
        BY <1>1, <2>2, <2>3 DEF IsContent
<1>3. Marked(g)'
    <2>0. Marked(g)
        BY DEF UploadIInv, FileInv
    <2>1. cache'[g] <= UploadedEnd(g)'
        <3>1. cache[g] \in Int /\ cache[g] <= UploadedEnd(g)
            BY <2>0, MarkIs DEF Marked, UploadIInv, UploadTypes
        <3>. QED
            BY <3>1, <1>0
    <2>2. ASSUME NEW u \in Uploaders PROVE ends'[u][g] <= UploadedEnd(g)'
        <3>1. ends[u][g] \in Int /\ ends[u][g] <= UploadedEnd(g)
            BY <2>0, MarkIs DEF Marked, UploadIInv, UploadTypes
        <3>2. ends[u][g] <= UploadedEnd(g)'
            BY <3>1, <1>0
        <3>. QED
            BY <3>2
    <2>3. ASSUME NEW m \in Confirmed(g)' PROVE m.size <= UploadedEnd(g)'
        <3>1. CASE m \in Confirmed(g)
            <4>1. m.size \in Nat /\ m.size <= UploadedEnd(g)
                BY <2>0, <3>1, SetsTyped DEF Marked, UploadIInv, Measured
            <4>. QED
                BY <4>1, <1>0
        <3>. QED
            BY <3>1
    <2>. QED
        BY <2>1, <2>2, <2>3 DEF Marked
<1>. QED
    BY <1>1, <1>2, <1>3 DEF FileInv

-----------------------------------------------------------------------------
(* What a step does to the queues of a run. *)

LEMMA MarksNow ==
    ASSUME UploadIInv, NEW f \in Files
    PROVE  /\ UploadedEnd(f) \in Nat /\ NoEntry <= UploadedEnd(f)
           /\ cache[f] <= UploadedEnd(f)
           /\ \A u \in Uploaders : ends[u][f] <= UploadedEnd(f)
           /\ \A m \in Confirmed(f) : m.size <= UploadedEnd(f)
BY EndIsNat, MarkIs DEF UploadIInv, FileInv, Marked, NoEntry

LEMMA PendingShrinks ==
    ASSUME UploadTypes, NEW u \in Uploaders,
           \/ pending' = pending
           \/ pending' = [pending EXCEPT ![u] = <<>>]
           \/ pending[u] # <<>> /\ pending' = [pending EXCEPT ![u] = Tail(@)]
    PROVE  /\ pending' \in [Uploaders -> Seq(Item)]
           /\ \A f \in Files : ToSend(f)' \subseteq ToSend(f)
<1>1. pending \in [Uploaders -> Seq(Item)] /\ \A v \in Uploaders : pending[v] \in Seq(Item)
    BY DEF UploadTypes
<1>2. <<>> \in Seq(Item) /\ ToSet(<<>>) \subseteq ToSet(pending[u])
    BY <1>1, ToSetOfSeq, EmptySeq
<1>3. pending[u] # <<>> => Tail(pending[u]) \in Seq(Item) /\ ToSet(Tail(pending[u])) \subseteq ToSet(pending[u])
    BY <1>1, ToSetOfSeq
<1>4. pending' \in [Uploaders -> Seq(Item)]
    BY <1>1, <1>2, <1>3
<1>5. \A v \in Uploaders : ToSet(pending'[v]) \subseteq ToSet(pending[v]) \union {}
    BY <1>1, <1>2, <1>3
<1>6. \A f \in Files : ToSend(f)' \subseteq ToSend(f) \union {x \in {} : x.file = f}
    BY <1>5, ToSendStep
<1>. QED
    BY <1>4, <1>6

LEMMA ConfirmedShrinks ==
    ASSUME UploadTypes, NEW u \in Uploaders, confirmed[u] # <<>>,
           confirmed' = [confirmed EXCEPT ![u] = Tail(@)]
    PROVE  /\ confirmed' \in [Uploaders -> Seq(Measured)]
           /\ \A f \in Files : Confirmed(f)' \subseteq Confirmed(f)
<1>1. confirmed \in [Uploaders -> Seq(Measured)] /\ confirmed[u] \in Seq(Measured)
    BY DEF UploadTypes
<1>2. Tail(confirmed[u]) \in Seq(Measured) /\ ToSet(Tail(confirmed[u])) \subseteq ToSet(confirmed[u])
    BY <1>1, ToSetOfSeq
<1>3. \A v \in Uploaders : ToSet(confirmed'[v]) \subseteq ToSet(confirmed[v]) \union {}
    BY <1>1, <1>2
<1>4. \A f \in Files : Confirmed(f)' \subseteq Confirmed(f) \union {x \in {} : x.file = f}
    BY <1>3, ConfirmedStep
<1>. QED
    BY <1>1, <1>2, <1>4

LEMMA ConfirmAdds ==
    ASSUME UploadTypes, NEW u \in Uploaders, NEW f \in Files, NEW size \in Nat,
           Confirm(u, f, size)
    PROVE  /\ confirmed' \in [Uploaders -> Seq(Measured)]
           /\ ends' \in [Uploaders -> [Files -> Mark]]
           /\ \A g \in Files :
                  /\ \A m \in Confirmed(g)' : m \in Confirmed(g) \/ (g = f /\ m.size = size)
                  /\ \A v \in Uploaders : ends'[v][g] = ends[v][g] \/ (g = f /\ ends'[v][g] = size)
<1>. DEFINE new == [file |-> f, size |-> size]
<1>1. /\ confirmed \in [Uploaders -> Seq(Measured)] /\ confirmed[u] \in Seq(Measured)
      /\ ends \in [Uploaders -> [Files -> Mark]]
    BY DEF UploadTypes
<1>2. new \in Measured
    BY DEF Measured
<1>3. /\ confirmed' = [confirmed EXCEPT ![u] = Append(confirmed[u], new)]
      /\ ends' = [ends EXCEPT ![u][f] = size]
    BY DEF Confirm
<1>4. new.file = f /\ new.size = size
    OBVIOUS
<1>. HIDE DEF new
<1>5. /\ Append(confirmed[u], new) \in Seq(Measured)
      /\ ToSet(Append(confirmed[u], new)) \subseteq ToSet(confirmed[u]) \union {new}
    BY <1>1, <1>2, ToSetOfSeq
<1>6. confirmed' \in [Uploaders -> Seq(Measured)]
    BY <1>1, <1>3, <1>5
<1>7. \A v \in Uploaders : ToSet(confirmed'[v]) \subseteq ToSet(confirmed[v]) \union {new}
    BY <1>1, <1>3, <1>5
<1>8. \A g \in Files : Confirmed(g)' \subseteq Confirmed(g) \union {x \in {new} : x.file = g}
    BY <1>7, ConfirmedStep
<1>9. ends' \in [Uploaders -> [Files -> Mark]]
    BY <1>1, <1>3, MarkIs
<1>10. \A g \in Files : \A v \in Uploaders :
           ends'[v][g] = ends[v][g] \/ (g = f /\ ends'[v][g] = size)
    BY <1>1, <1>3
<1>. QED
    BY <1>4, <1>6, <1>8, <1>9, <1>10

LEMMA EndedForgets ==
    ASSUME UploadTypes, NEW us \in SUBSET Uploaders, Ended(us)
    PROVE  /\ pc' \in [Uploaders -> {"idle", "plan", "ship"}]
           /\ todo' \in [Uploaders -> SUBSET Files]
           /\ pending' \in [Uploaders -> Seq(Item)]
           /\ confirmed' \in [Uploaders -> Seq(Measured)]
           /\ ends' \in [Uploaders -> [Files -> Mark]]
           /\ recording' \in [Uploaders -> BOOLEAN]
           /\ \A f \in Files :
                  /\ ToSend(f)' \subseteq ToSend(f)
                  /\ us = Uploaders => ToSend(f)' = {}
                  /\ Confirmed(f)' \subseteq Confirmed(f)
                  /\ \A u \in Uploaders : ends'[u][f] \in {ends[u][f], NoEntry}
<1>0. UploadTypes
    OBVIOUS
<1>1. /\ pc' \in [Uploaders -> {"idle", "plan", "ship"}]
      /\ todo' \in [Uploaders -> SUBSET Files]
      /\ recording' \in [Uploaders -> BOOLEAN]
    <2>1. pc' \in [Uploaders -> {"idle", "plan", "ship"}]
        BY <1>0 DEF UploadTypes, Ended
    <2>2. todo' \in [Uploaders -> SUBSET Files]
        BY <1>0 DEF UploadTypes, Ended
    <2>3. recording' \in [Uploaders -> BOOLEAN]
        BY <1>0, Zenon DEF UploadTypes, Ended
    <2>. QED
        BY <2>1, <2>2, <2>3
<1>2. /\ pending' = [u \in Uploaders |-> IF u \in us THEN <<>> ELSE pending[u]]
      /\ confirmed' = [u \in Uploaders |-> IF u \in us THEN <<>> ELSE confirmed[u]]
      /\ ends' = [u \in Uploaders |-> IF u \in us THEN [f \in Files |-> NoEntry] ELSE ends[u]]
    BY DEF Ended
<1>3. \A u \in Uploaders : /\ pending[u] \in Seq(Item) /\ confirmed[u] \in Seq(Measured)
                           /\ ends[u] \in [Files -> Mark]
    BY DEF UploadTypes
<1>4. /\ <<>> \in Seq(Item) /\ <<>> \in Seq(Measured)
      /\ [f \in Files |-> NoEntry] \in [Files -> Mark] /\ ToSet(<<>>) = {}
    BY EmptySeq, MarkIs DEF ToSet
<1>5. /\ pending' \in [Uploaders -> Seq(Item)]
      /\ confirmed' \in [Uploaders -> Seq(Measured)]
      /\ ends' \in [Uploaders -> [Files -> Mark]]
    BY <1>2, <1>3, <1>4
<1>6. \A v \in Uploaders : /\ ToSet(pending'[v]) \subseteq ToSet(pending[v]) \union {}
                           /\ ToSet(confirmed'[v]) \subseteq ToSet(confirmed[v]) \union {}
                           /\ v \in us => ToSet(pending'[v]) = {}
    BY <1>2, <1>4
<1>7. \A f \in Files : /\ ToSend(f)' \subseteq ToSend(f) \union {x \in {} : x.file = f}
                       /\ Confirmed(f)' \subseteq Confirmed(f) \union {x \in {} : x.file = f}
    BY <1>6, ToSendStep, ConfirmedStep
<1>8. \A f \in Files : us = Uploaders => ToSend(f)' = {}
    BY <1>6 DEF ToSend
<1>9. \A f \in Files : \A u \in Uploaders : ends'[u][f] \in {ends[u][f], NoEntry}
    BY <1>2
<1>. QED
    BY <1>1, <1>5, <1>7, <1>8, <1>9

-----------------------------------------------------------------------------
(* The record files, and what goes wrong around a run. *)

LEMMA SameQueues ==
    ASSUME NEW f \in Files
    PROVE  /\ pending' = pending => ToSend(f)' = ToSend(f)
           /\ confirmed' = confirmed => Confirmed(f)' = Confirmed(f)
BY DEF ToSend, Confirmed

LEMMA RecordInv ==
    ASSUME UploadIInv, NEW g \in Files, Record(g)
    PROVE  UploadIInv'
<1>1. Write(StreamOf(g)) /\ today' = today /\ UNCHANGED <<bucket, cache, faults, pc, process>>
    BY DEF Record
<1>2. \A f \in Files :
          /\ ToSend(f)' \subseteq ToSend(f)
          /\ cache'[f] <= UploadedEnd(f)
          /\ \A u \in Uploaders : ends'[u][f] <= UploadedEnd(f)
          /\ \A m \in Confirmed(f)' : m.size <= UploadedEnd(f)
    BY <1>1, MarksNow, SameQueues DEF process
<1>3. /\ local' \in [Files -> Seq(Byte)] /\ made' \in 0..MaxLines
      /\ \A f \in Files : FileInv(f)'
    BY <1>1, <1>2, WriteKeeps
<1>4. UploadTypes'
    BY <1>1, <1>3 DEF UploadIInv, UploadTypes, process
<1>. QED
    BY <1>3, <1>4 DEF UploadIInv

LEMMA MidnightInv ==
    ASSUME UploadIInv, Midnight
    PROVE  UploadIInv'
<1>1. /\ today' = today + 1 /\ today < MaxDay
      /\ UNCHANGED <<made, local, cache, bucket, faults, pc, todo, pending, confirmed, ends, recording>>
    BY DEF Midnight, disk, process
<1>2. UploadTypes'
    <2>1. today' \in 1..MaxDay
        BY <1>1, UploadBoundsAssumption DEF UploadIInv, UploadTypes
    <2>. QED
        BY <1>1, <2>1 DEF UploadIInv, UploadTypes
<1>3. ASSUME NEW f \in Files PROVE FileInv(f)'
    <2>1. UploadedEnd(f)' = UploadedEnd(f)
        BY <1>1, SameEnd
    <2>2. PICK c \in Seq(Byte) : IsContent(f, c)
        BY DEF UploadIInv, FileInv
    <2>3. DayOf(f) < today => DayOf(f) < today'
        BY <1>1, FilesAssumption, UploadBoundsAssumption DEF UploadIInv, UploadTypes
    <2>4. ToSend(f)' = ToSend(f) /\ Confirmed(f)' = Confirmed(f)
        BY <1>1, SameQueues
    <2>5. IsContent(f, c)'
        BY <1>1, <2>2, <2>3, <2>4 DEF IsContent
    <2>6. Marked(f)' /\ Laid(bucket[f], UploadedEnd(f))'
        BY <1>1, <2>1, <2>4, MarksNow, EndIsNat DEF Marked
    <2>. QED
        BY <2>5, <2>6 DEF FileInv
<1>. QED
    BY <1>2, <1>3 DEF UploadIInv

LEMMA FaultTyped ==
    ASSUME UploadTypes, Fault
    PROVE  faults' \in 0..MaxFaults
BY UploadBoundsAssumption DEF UploadTypes, Fault

LEMMA KilledInv ==
    ASSUME UploadIInv, NEW u \in Uploaders, Killed(u)
    PROVE  UploadIInv'
<1>1. Ended({u}) /\ Fault /\ UNCHANGED <<today, made, local, cache, bucket>>
    BY DEF Killed, disk
<1>2. UploadTypes'
    BY <1>1, EndedForgets, FaultTyped DEF UploadIInv, UploadTypes
<1>3. ASSUME NEW f \in Files PROVE FileInv(f)'
    <2>1. /\ ToSend(f)' \subseteq ToSend(f) /\ Confirmed(f)' \subseteq Confirmed(f)
          /\ \A v \in Uploaders : ends'[v][f] \in {ends[v][f], NoEntry}
        BY <1>1, EndedForgets DEF UploadIInv
    <2>2. /\ cache'[f] <= UploadedEnd(f)
          /\ \A v \in Uploaders : ends'[v][f] <= UploadedEnd(f)
          /\ \A m \in Confirmed(f)' : m.size <= UploadedEnd(f)
        BY <1>1, <2>1, MarksNow
    <2>. QED
        BY <1>1, <2>1, <2>2, FileQuiet
<1>. QED
    BY <1>2, <1>3 DEF UploadIInv

LEMMA PowerCutInv ==
    ASSUME UploadIInv, PowerCut
    PROVE  UploadIInv'
<1>0. local \in [Files -> Seq(Byte)] /\ made \in Nat
    BY UploadBoundsAssumption DEF UploadIInv, UploadTypes
<1>1. PICK g \in Files : \E k \in UploadedEnd(g)..Len(local[g]) :
          local' = [local EXCEPT ![g] = SubSeq(@, 1, k)]
    BY DEF PowerCut
<1>. PICK k \in UploadedEnd(g)..Len(local[g]) : local' = [local EXCEPT ![g] = SubSeq(@, 1, k)]
    BY <1>1
<1>2. /\ Ended(Uploaders) /\ Fault /\ cache' \in {cache, [f \in Files |-> NoEntry]}
      /\ UNCHANGED <<today, made, bucket>>
    BY DEF PowerCut
<1>3. /\ UploadedEnd(g) \in Nat /\ k \in Nat /\ UploadedEnd(g) <= k /\ k <= Len(local[g])
      /\ Len(local[g]) \in Nat
    BY <1>0, EndIsNat, LenProperties
<1>4. local[g] \in Seq(Byte) /\ SubSeq(local[g], 1, k) \in Seq(Byte)
    BY <1>0, <1>3, StartOfBytes
<1>5. local' \in [Files -> Seq(Byte)]
    BY <1>0, <1>4
<1>6. UploadTypes'
    <2>1. cache' \in [Files -> Mark]
        BY <1>2, MarkIs DEF UploadIInv, UploadTypes
    <2>. QED
        BY <1>2, <1>5, <2>1, EndedForgets, FaultTyped DEF UploadIInv, UploadTypes
<1>7. ASSUME NEW f \in Files PROVE FileInv(f)'
    <2>1. /\ ToSend(f)' = {} /\ Confirmed(f)' \subseteq Confirmed(f)
          /\ \A v \in Uploaders : ends'[v][f] \in {ends[v][f], NoEntry}
        BY <1>2, EndedForgets DEF UploadIInv
    <2>2. /\ cache'[f] <= UploadedEnd(f)
          /\ \A v \in Uploaders : ends'[v][f] <= UploadedEnd(f)
          /\ \A m \in Confirmed(f)' : m.size <= UploadedEnd(f)
        BY <1>2, <2>1, MarksNow
    <2>3. CASE local'[f] = local[f]
        BY <1>2, <2>1, <2>2, <2>3, FileQuiet
    <2>4. CASE local'[f] # local[f]
        <3>1. f = g /\ local'[f] = SubSeq(local[f], 1, k)
            BY <1>0, <2>4
        <3>2. PICK c \in Seq(Byte) : IsContent(f, c)
            BY DEF UploadIInv, FileInv
        <3>3. local[f] # <<>>
            <4>. SUFFICES ASSUME local[f] = <<>> PROVE FALSE
                OBVIOUS
            <4>1. k = 0
                BY <1>3, <3>1, EmptySeq
            <4>2. SubSeq(local[f], 1, k) = <<>>
                BY <4>1, SubSeqEmpty
            <4>. QED
                BY <2>4, <3>1, <4>2
        <3>4. local[f] = c
            BY <3>2, <3>3 DEF IsContent
        <3>. PICK d \in Seq(Byte) : d = SubSeq(c, 1, k)
            BY <1>4, <3>1, <3>4
        <3>5. Len(d) = k /\ \A i \in 1..k : d[i] = c[i]
            BY <1>3, <3>1, <3>4, StartOfBytes
        <3>6. Proper(d, made)
            BY <1>0, <1>3, <3>1, <3>2, <3>4, ProperStart DEF IsContent
        <3>7. CutFrom(bucket[f], d)
            <4>1. Continues(c, d)
                BY <1>3, <3>1, <3>4, <3>5 DEF Continues
            <4>. SUFFICES ASSUME NEW o \in bucket[f]
                          PROVE  /\ o.end <= Len(d) /\ EndsLine(d[o.end])
                                 /\ o.lines = ReadableLines(SubSeq(d, o.start + 1, o.end))
                BY DEF CutFrom
            <4>2. /\ o.start \in Nat /\ o.end \in Nat /\ o.start < o.end /\ o.end <= UploadedEnd(f)
                BY EndIsNat DEF Laid, Object
            <4>3. /\ EndsLine(c[o.end])
                  /\ o.lines = ReadableLines(SubSeq(c, o.start + 1, o.end))
                BY <3>2 DEF IsContent, CutFrom
            <4>4. o.start <= o.end /\ o.end <= Len(d) /\ o.end \in 1..k
                BY <4>2, <3>1, <3>5, <1>3
            <4>5. SubSeq(c, o.start + 1, o.end) = SubSeq(d, o.start + 1, o.end)
                BY <4>1, <4>2, <4>4, SameRange
            <4>6. d[o.end] = c[o.end]
                BY <3>5, <4>4
            <4>. QED
                BY <4>3, <4>4, <4>5, <4>6
        <3>8. local'[f] = d
            BY <3>1, <3>4
        <3>9. IsContent(f, d)'
            BY <1>2, <2>1, <3>6, <3>7, <3>8 DEF IsContent
        <3>10. UploadedEnd(f)' = UploadedEnd(f)
            BY <1>2, SameEnd
        <3>11. Marked(f)' /\ Laid(bucket[f], UploadedEnd(f))'
            BY <1>2, <2>2, <3>10, EndIsNat DEF Marked
        <3>. QED
            BY <3>9, <3>11 DEF FileInv
    <2>. QED
        BY <2>3, <2>4
<1>. QED
    BY <1>6, <1>7 DEF UploadIInv

-----------------------------------------------------------------------------
(* A run: plan. *)

LEMMA FirstIsOne ==
    ASSUME NEW files \in SUBSET Files, files # {}
    PROVE  FirstOf(files) \in files
<1>. DEFINE at == {i \in DOMAIN FileOrder : FileOrder[i] \in files}
<1>1. DOMAIN FileOrder = 1..Len(FileOrder) /\ Len(FileOrder) \in Nat
    BY UploadBoundsAssumption, LenProperties
<1>2. at \in SUBSET Nat
    BY <1>1
<1>3. at # {}
    BY DEF Files, ToSet
<1>4. Min(at) \in at
    BY <1>2, <1>3, MinIsLeast
<1>. QED
    BY <1>4 DEF FirstOf

LEMMA StartInv ==
    ASSUME UploadIInv, NEW u \in Uploaders, Start(u)
    PROVE  UploadIInv'
<1>1. /\ pc' = [pc EXCEPT ![u] = "plan"]
      /\ todo' = [todo EXCEPT ![u] = {f \in Files : local[f] # <<>>}]
      /\ ends' = [ends EXCEPT ![u] = cache]
      /\ UNCHANGED <<today, made, local, cache, bucket, faults, pending, confirmed, recording>>
    BY DEF Start, disk
<1>2. UploadTypes'
    <2>1. pc' \in [Uploaders -> {"idle", "plan", "ship"}]
        BY <1>1 DEF UploadIInv, UploadTypes
    <2>2. todo' \in [Uploaders -> SUBSET Files]
        BY <1>1 DEF UploadIInv, UploadTypes
    <2>3. ends' \in [Uploaders -> [Files -> Mark]]
        BY <1>1 DEF UploadIInv, UploadTypes
    <2>. QED
        BY <1>1, <2>1, <2>2, <2>3 DEF UploadIInv, UploadTypes
<1>3. ASSUME NEW f \in Files PROVE FileInv(f)'
    <2>1. ToSend(f)' = ToSend(f) /\ Confirmed(f)' = Confirmed(f)
        BY <1>1, SameQueues
    <2>2. \A v \in Uploaders : ends'[v][f] \in {ends[v][f], cache[f]}
        BY <1>1 DEF UploadIInv, UploadTypes
    <2>3. /\ cache'[f] <= UploadedEnd(f)
          /\ \A v \in Uploaders : ends'[v][f] <= UploadedEnd(f)
          /\ \A m \in Confirmed(f)' : m.size <= UploadedEnd(f)
        BY <1>1, <2>1, <2>2, MarksNow
    <2>. QED
        BY <1>1, <2>1, <2>3, FileQuiet
<1>. QED
    BY <1>2, <1>3 DEF UploadIInv

LEMMA PlanInv ==
    ASSUME UploadIInv, NEW u \in Uploaders, Plan(u)
    PROVE  UploadIInv'
<1>0. UploadTypes
    BY DEF UploadIInv
<1>1. PICK f \in Files : f = FirstOf(todo[u])
    BY <1>0, FirstIsOne DEF Plan, Planning, UploadTypes
<1>2. PICK size \in Nat : size = CompleteSize(f)
    <2>1. local[f] \in Seq(Byte) /\ Len(local[f]) \in Nat
        BY <1>0, LenProperties DEF UploadTypes
    <2>2. CompleteSize(f) \in 0..Len(local[f])
        BY <2>1, LastLineEnds DEF CompleteSize
    <2>. QED
        BY <2>1, <2>2
<1>3. /\ todo' = [todo EXCEPT ![u] = @ \ {f}]
      /\ UNCHANGED <<today, made, local, cache, bucket, faults, pc, recording>>
    BY <1>1 DEF Plan, disk
<1>4. todo' \in [Uploaders -> SUBSET Files]
    BY <1>0, <1>3 DEF UploadTypes
<1>. PICK new \in Item : new = [file |-> f, at |-> UploadedEnd(f), size |-> size, data |-> <<>>]
    BY EndIsNat, EmptySeq DEF Item
<1>5. \/ UNCHANGED <<pending, confirmed, ends>>
      \/ UploadedEnd(f) = size /\ Confirm(u, f, size) /\ UNCHANGED pending
      \/ /\ UploadedEnd(f) < size
         /\ pending' = [pending EXCEPT ![u] = Append(@, new)]
         /\ UNCHANGED <<confirmed, ends>>
    BY <1>1, <1>2 DEF Plan
<1>6. \A g \in Files : UploadedEnd(g)' = UploadedEnd(g) /\ bucket'[g] = bucket[g]
    BY <1>3, SameEnd
<1>7. \A g \in Files :
          /\ bucket[g] \subseteq bucket'[g]
          /\ UploadedEnd(g)' \in Nat /\ UploadedEnd(g) <= UploadedEnd(g)'
          /\ Laid(bucket[g], UploadedEnd(g))'
          /\ \A c \in Seq(Byte) : IsContent(g, c) => CutFrom(bucket'[g], c)
    BY <1>6, EndIsNat DEF IsContent
<1>8. CASE UNCHANGED <<pending, confirmed, ends>>
    <2>1. \A g \in Files : ToSend(g)' = ToSend(g) /\ Confirmed(g)' = Confirmed(g)
        BY <1>8, SameQueues
    <2>2. \A g \in Files : FileInv(g)'
        BY <1>3, <1>7, <1>8, <2>1, FilesStep
    <2>3. UploadTypes'
        BY <1>0, <1>3, <1>4, <1>8 DEF UploadTypes
    <2>. QED
        BY <2>2, <2>3 DEF UploadIInv
<1>9. CASE UploadedEnd(f) = size /\ Confirm(u, f, size) /\ UNCHANGED pending
    <2>1. /\ confirmed' \in [Uploaders -> Seq(Measured)]
          /\ ends' \in [Uploaders -> [Files -> Mark]]
          /\ \A g \in Files :
                 /\ \A m \in Confirmed(g)' : m \in Confirmed(g) \/ (g = f /\ m.size = size)
                 /\ \A v \in Uploaders : ends'[v][g] = ends[v][g] \/ (g = f /\ ends'[v][g] = size)
        BY <1>0, <1>9, ConfirmAdds
    <2>2. \A g \in Files : ToSend(g)' = ToSend(g)
        BY <1>9, SameQueues
    <2>3. UploadedEnd(f)' = size /\ size <= size
        BY <1>6, <1>9
    <2>4. \A g \in Files :
              /\ \A m \in Confirmed(g)' : m \in Confirmed(g) \/ m.size <= UploadedEnd(g)'
              /\ \A v \in Uploaders : ends'[v][g] = ends[v][g] \/ ends'[v][g] <= UploadedEnd(g)'
        BY <2>1, <2>3
    <2>5. \A g \in Files : FileInv(g)'
        BY <1>3, <1>7, <2>2, <2>4, FilesStep
    <2>6. UploadTypes'
        BY <1>0, <1>3, <1>4, <1>9, <2>1 DEF UploadTypes
    <2>. QED
        BY <2>5, <2>6 DEF UploadIInv
<1>10. CASE /\ UploadedEnd(f) < size
            /\ pending' = [pending EXCEPT ![u] = Append(@, new)]
            /\ UNCHANGED <<confirmed, ends>>
    <2>1. new.file = f /\ new.at = UploadedEnd(f) /\ new.size = size /\ new.data = <<>>
        OBVIOUS
    <2>2. pending[u] \in Seq(Item) /\ pending \in [Uploaders -> Seq(Item)]
        BY <1>0 DEF UploadTypes
    <2>3. pending' = [pending EXCEPT ![u] = Append(pending[u], new)]
        BY <1>10
    <2>4. /\ Append(pending[u], new) \in Seq(Item)
          /\ ToSet(Append(pending[u], new)) \subseteq ToSet(pending[u]) \union {new}
        <3>1. \A x \in Item : /\ Append(pending[u], x) \in Seq(Item)
                              /\ ToSet(Append(pending[u], x)) \subseteq ToSet(pending[u]) \union {x}
            BY <2>2, ToSetOfSeq
        <3>. QED
            BY <3>1
    <2>5. pending' \in [Uploaders -> Seq(Item)]
        BY <2>2, <2>3, <2>4
    <2>6. \A v \in Uploaders : ToSet(pending'[v]) \subseteq ToSet(pending[v]) \union {new}
        BY <2>2, <2>3, <2>4
    <2>7. \A g \in Files : ToSend(g)' \subseteq ToSend(g) \union {x \in {new} : x.file = g}
        BY <2>6, ToSendStep
    <2>8. ASSUME NEW c \in Seq(Byte), IsContent(f, c)
          PROVE  GoesOn(new, bucket'[f], c)
        <3>0. UploadedEnd(f) \in Nat
            BY EndIsNat
        <3>1. local[f] \in Seq(Byte) /\ Len(local[f]) \in Nat
            BY <1>0, LenProperties DEF UploadTypes
        <3>2. size \in 0..Len(local[f]) /\ (size # 0 => EndsLine(local[f][size]))
            BY <1>2, <3>1, LastLineEnds DEF CompleteSize
        <3>3. size # 0 /\ Len(local[f]) # 0
            BY <1>10, <3>0, <3>1, <3>2
        <3>4. local[f] = c
            <4>1. local[f] # <<>>
                BY <3>3
            <4>. QED
                BY <2>8, <4>1 DEF IsContent
        <3>5. UploadedEnd(f) = 0 \/ \E o \in bucket'[f] : o.end = UploadedEnd(f)
            BY <1>6, EndIsNat
        <3>6. size <= Len(c) /\ EndsLine(c[size])
            BY <3>1, <3>2, <3>3, <3>4
        <3>. QED
            BY <1>10, <2>1, <3>5, <3>6 DEF GoesOn
    <2>9. \A g \in Files : \A c \in Seq(Byte) : IsContent(g, c) =>
              \A x \in ToSend(g)' : x \in ToSend(g) \/ GoesOn(x, bucket'[g], c)
        BY <2>1, <2>7, <2>8
    <2>10. \A g \in Files : Confirmed(g)' = Confirmed(g)
        BY <1>10, SameQueues
    <2>11. \A g \in Files : FileInv(g)'
        BY <1>3, <1>7, <1>10, <2>9, <2>10, FilesStep
    <2>12. UploadTypes'
        BY <1>0, <1>3, <1>4, <1>10, <2>5 DEF UploadTypes
    <2>. QED
        BY <2>11, <2>12 DEF UploadIInv
<1>. QED
    BY <1>5, <1>8, <1>9, <1>10

\* Steps that only leave some of the files out.
LEMMA LeaveOut ==
    ASSUME UploadIInv, NEW u \in Uploaders,
           UNCHANGED <<today, made, local, cache, bucket, pc, confirmed, ends, recording>>,
           faults' \in 0..MaxFaults,
           todo' \in [Uploaders -> SUBSET Files],
           \/ pending' = pending
           \/ pending' = [pending EXCEPT ![u] = <<>>]
           \/ pending[u] # <<>> /\ pending' = [pending EXCEPT ![u] = Tail(@)]
    PROVE  UploadIInv'
<1>1. pending' \in [Uploaders -> Seq(Item)] /\ \A f \in Files : ToSend(f)' \subseteq ToSend(f)
    BY PendingShrinks DEF UploadIInv
<1>2. UploadTypes'
    BY <1>1 DEF UploadIInv, UploadTypes
<1>3. ASSUME NEW f \in Files PROVE FileInv(f)'
    <2>1. Confirmed(f)' = Confirmed(f)
        BY SameQueues
    <2>2. /\ cache'[f] <= UploadedEnd(f)
          /\ \A v \in Uploaders : ends'[v][f] <= UploadedEnd(f)
          /\ \A m \in Confirmed(f)' : m.size <= UploadedEnd(f)
        BY <2>1, MarksNow
    <2>. QED
        BY <1>1, <2>2, FileQuiet
<1>. QED
    BY <1>2, <1>3 DEF UploadIInv

LEMMA PlanStopsInv ==
    ASSUME UploadIInv, NEW u \in Uploaders, PlanFails(u) \/ PlanOffline(u)
    PROVE  UploadIInv'
<1>1. Fault /\ UNCHANGED <<today, made, local, cache, bucket, pc, confirmed, ends, recording>>
    BY DEF PlanFails, PlanOffline, disk
<1>2. faults' \in 0..MaxFaults
    BY <1>1, FaultTyped DEF UploadIInv
<1>3. todo' \in [Uploaders -> SUBSET Files]
    <2>1. todo \in [Uploaders -> SUBSET Files]
        BY DEF UploadIInv, UploadTypes
    <2>2. \/ todo' = [todo EXCEPT ![u] = @ \ {FirstOf(@)}]
          \/ todo' = [todo EXCEPT ![u] = {}]
        BY DEF PlanFails, PlanOffline
    <2>. QED
        BY <2>1, <2>2
<1>4. pending' = pending \/ pending' = [pending EXCEPT ![u] = <<>>]
    BY DEF PlanFails, PlanOffline
<1>. QED
    BY <1>1, <1>2, <1>3, <1>4, LeaveOut

LEMMA PlanDoneInv ==
    ASSUME UploadIInv, NEW u \in Uploaders, PlanDone(u)
    PROVE  UploadIInv'
<1>1. /\ pc' = [pc EXCEPT ![u] = "ship"]
      /\ UNCHANGED <<today, bucket, cache, faults, todo, pending, confirmed, ends>>
    BY DEF PlanDone
<1>2. Write("events") \/ UNCHANGED <<local, made>>
    BY DEF PlanDone
<1>3. recording' \in [Uploaders -> BOOLEAN]
    <2>1. recording' = [recording EXCEPT ![u] = ShipsRecords(u)]
        BY DEF PlanDone
    <2>2. recording \in [Uploaders -> BOOLEAN]
        BY DEF UploadIInv, UploadTypes
    <2>3. ShipsRecords(u) \in BOOLEAN
        BY DEF ShipsRecords
    <2>. QED
        BY <2>1, <2>2, <2>3, Zenon
<1>4. \A f \in Files :
          /\ ToSend(f)' \subseteq ToSend(f)
          /\ cache'[f] <= UploadedEnd(f)
          /\ \A v \in Uploaders : ends'[v][f] <= UploadedEnd(f)
          /\ \A m \in Confirmed(f)' : m.size <= UploadedEnd(f)
    BY <1>1, MarksNow, SameQueues
<1>5. /\ local' \in [Files -> Seq(Byte)] /\ made' \in 0..MaxLines
      /\ \A f \in Files : FileInv(f)'
    BY <1>1, <1>2, <1>4, WriteKeeps
<1>6. pc' \in [Uploaders -> {"idle", "plan", "ship"}]
    BY <1>1 DEF UploadIInv, UploadTypes
<1>7. UploadTypes'
    BY <1>1, <1>3, <1>5, <1>6 DEF UploadIInv, UploadTypes
<1>. QED
    BY <1>5, <1>7 DEF UploadIInv

-----------------------------------------------------------------------------
(* A run: ship. *)

LEMMA HeadIsToSend ==
    ASSUME UploadTypes, NEW u \in Uploaders, Shipping(u)
    PROVE  /\ Head(pending[u]) \in Item
           /\ Head(pending[u]).file \in Files
           /\ Head(pending[u]) \in ToSend(Head(pending[u]).file)
<1>1. pending[u] \in Seq(Item) /\ pending[u] # <<>>
    BY DEF UploadTypes, Shipping
<1>2. Head(pending[u]) \in ToSet(pending[u]) /\ ToSet(pending[u]) \subseteq Item
    BY <1>1, ToSetOfSeq
<1>3. Head(pending[u]).file \in Files
    BY <1>2 DEF Item
<1>. QED
    BY <1>2, <1>3 DEF ToSend

\* A chunk is there: the file's next one comes, or the file is confirmed.
LEMMA SentKeeps ==
    ASSUME UploadIInv, NEW u \in Uploaders, NEW f \in Files, NEW item \in ToSend(f),
           Shipping(u), item = Head(pending[u]), CanOpen(item), Sent(u, item),
           UNCHANGED <<today, made, local, cache, pc, todo, recording>>,
           faults' \in 0..MaxFaults,
           bucket' \in [Files -> SUBSET Object],
           EndOfNext(item) <= UploadedEnd(f)',
           \E o \in bucket'[f] : o.end = EndOfNext(item),
           \A g \in Files :
               /\ bucket[g] \subseteq bucket'[g]
               /\ UploadedEnd(g)' \in Nat
               /\ UploadedEnd(g) <= UploadedEnd(g)'
               /\ Laid(bucket[g], UploadedEnd(g))'
               /\ \A c \in Seq(Byte) : IsContent(g, c) => CutFrom(bucket'[g], c)
    PROVE  UploadIInv'
<1>0. UploadTypes
    BY DEF UploadIInv
<1>1. PICK c \in Seq(Byte) : IsContent(f, c)
    BY DEF UploadIInv, FileInv
<1>2. /\ item \in Item /\ item.file = f /\ Len(c) \in Nat
      /\ DataOf(item) = SubSeq(c, 1, item.size) /\ DataOf(item) \in Seq(Byte)
      /\ EndOfNext(item) \in item.at + 1..item.size
    BY <1>1, NextIsCut
<1>3. item.at \in Nat /\ item.size \in Nat /\ EndOfNext(item) \in Nat /\ EndOfNext(item) <= item.size
    <2>1. item.at \in Nat /\ item.size \in Nat
        BY <1>2 DEF Item
    <2>. QED
        BY <1>2, <2>1
<1>4. pending \in [Uploaders -> Seq(Item)] /\ pending[u] \in Seq(Item) /\ pending[u] # <<>>
    BY <1>0 DEF UploadTypes, Shipping
<1>5. CASE EndOfNext(item) = item.size
    <2>1. pending' = [pending EXCEPT ![u] = Tail(@)] /\ Confirm(u, f, item.size)
        BY <1>2, <1>5 DEF Sent
    <2>2. pending' \in [Uploaders -> Seq(Item)] /\ \A g \in Files : ToSend(g)' \subseteq ToSend(g)
        BY <1>0, <1>4, <2>1, PendingShrinks
    <2>3. /\ confirmed' \in [Uploaders -> Seq(Measured)]
          /\ ends' \in [Uploaders -> [Files -> Mark]]
          /\ \A g \in Files :
                 /\ \A m \in Confirmed(g)' : m \in Confirmed(g) \/ (g = f /\ m.size = item.size)
                 /\ \A v \in Uploaders : ends'[v][g] = ends[v][g] \/ (g = f /\ ends'[v][g] = item.size)
        BY <1>0, <1>3, <2>1, ConfirmAdds, SMTT(30)
    <2>4. \A g \in Files :
              /\ \A m \in Confirmed(g)' : m \in Confirmed(g) \/ m.size <= UploadedEnd(g)'
              /\ \A v \in Uploaders : ends'[v][g] = ends[v][g] \/ ends'[v][g] <= UploadedEnd(g)'
        BY <1>5, <2>3
    <2>5. \A g \in Files : FileInv(g)'
        BY <2>2, <2>4, FilesStep
    <2>6. UploadTypes'
        BY <1>0, <2>2, <2>3 DEF UploadTypes
    <2>. QED
        BY <2>5, <2>6 DEF UploadIInv
<1>6. CASE EndOfNext(item) # item.size
    <2>0. \A s \in Seq(Item) : \A x \in Item :
              <<x>> \o s \in Seq(Item) /\ ToSet(<<x>> \o s) \subseteq ToSet(s) \union {x}
        BY ToSetOfPush
    <2>. PICK next \in Item : next = [item EXCEPT !.at = EndOfNext(item), !.data = DataOf(item)]
        BY <1>2, <1>3 DEF Item
    <2>1. /\ next.file = f /\ next.at = EndOfNext(item) /\ next.size = item.size
          /\ next.data = SubSeq(c, 1, item.size)
        BY <1>2 DEF Item
    <2>. PICK rest \in Seq(Item) : rest = Tail(pending[u])
        BY <1>4, ToSetOfSeq, ZenonT(60)
    <2>2. /\ pending' = [pending EXCEPT ![u] = <<next>> \o rest]
          /\ UNCHANGED <<confirmed, ends>>
        BY <1>6 DEF Sent
    <2>3. ToSet(rest) \subseteq ToSet(pending[u])
        BY <1>4, ToSetOfSeq
    <2>4. /\ <<next>> \o rest \in Seq(Item)
          /\ ToSet(<<next>> \o rest) \subseteq ToSet(rest) \union {next}
        BY <2>0, ZenonT(60)
    <2>5. pending' \in [Uploaders -> Seq(Item)]
        BY <1>4, <2>2, <2>4
    <2>6. \A v \in Uploaders : ToSet(pending'[v]) \subseteq ToSet(pending[v]) \union {next}
        <3>. SUFFICES ASSUME NEW v \in Uploaders
                      PROVE  ToSet(pending'[v]) \subseteq ToSet(pending[v]) \union {next}
            OBVIOUS
        <3>1. CASE v = u
            <4>1. pending'[v] = <<next>> \o rest
                BY <1>4, <2>2, <3>1, Zenon
            <4>2. ToSet(pending'[v]) \subseteq ToSet(rest) \union {next}
                BY <2>4, <4>1, Zenon
            <4>. QED
                BY <2>3, <3>1, <4>2
        <3>2. CASE v # u
            BY <1>4, <2>2, <3>2
        <3>. QED
            BY <3>1, <3>2
    <2>7. \A g \in Files : ToSend(g)' \subseteq ToSend(g) \union {x \in {next} : x.file = g}
        BY <2>6, ToSendStep
    <2>8. ASSUME NEW d \in Seq(Byte), IsContent(f, d)
          PROVE  GoesOn(next, bucket'[f], d)
        <3>1. /\ DataOf(item) = SubSeq(d, 1, item.size) /\ item.size <= Len(d)
              /\ DataOf(item) = SubSeq(c, 1, item.size)
            BY <1>2, <2>8, NextIsCut, SMTT(30)
        <3>2. GoesOn(item, bucket[f], d)
            BY <2>8 DEF IsContent
        <3>3. next.at < next.size
            BY <1>3, <1>6, <2>1
        <3>. QED
            BY <2>1, <3>1, <3>2, <3>3 DEF GoesOn
    <2>9. \A g \in Files : \A d \in Seq(Byte) : IsContent(g, d) =>
              \A x \in ToSend(g)' : x \in ToSend(g) \/ GoesOn(x, bucket'[g], d)
        <3>. SUFFICES ASSUME NEW g \in Files, NEW d \in Seq(Byte), IsContent(g, d),
                             NEW x \in ToSend(g)', x \notin ToSend(g)
                      PROVE  GoesOn(x, bucket'[g], d)
            OBVIOUS
        <3>1. x = next /\ g = f
            BY <2>1, <2>7
        <3>. QED
            BY <2>8, <3>1
    <2>10. \A g \in Files : Confirmed(g)' = Confirmed(g)
        BY <2>2, SameQueues
    <2>11. \A g \in Files : FileInv(g)'
        BY <2>2, <2>9, <2>10, FilesStep
    <2>12. UploadTypes'
        BY <1>0, <2>2, <2>5 DEF UploadTypes
    <2>. QED
        BY <2>11, <2>12 DEF UploadIInv
<1>. QED
    BY <1>5, <1>6

LEMMA PutLandsInv ==
    ASSUME UploadIInv, NEW u \in Uploaders, PutLands(u)
    PROVE  UploadIInv'
<1>0. UploadTypes
    BY DEF UploadIInv
<1>1. /\ Shipping(u)
      /\ UNCHANGED <<today, made, local, cache, faults, pc, todo, recording>>
    BY DEF PutLands, disk
<1>2. PICK f \in Files : \E item \in ToSend(f) : item = Head(pending[u])
    BY <1>0, <1>1, HeadIsToSend
<1>3. PICK item \in ToSend(f) : item = Head(pending[u])
    BY <1>2
<1>4. /\ CanOpen(item) /\ Taken(item) = {} /\ Sent(u, item)
      /\ bucket' = [bucket EXCEPT ![item.file] = @ \union {NextObject(item)}]
    BY <1>3 DEF PutLands
<1>5. /\ bucket' \in [Files -> SUBSET Object]
      /\ UploadedEnd(f)' = EndOfNext(item)
      /\ \E o \in bucket'[f] : o.end = EndOfNext(item)
      /\ \A g \in Files :
             /\ bucket[g] \subseteq bucket'[g]
             /\ UploadedEnd(g) <= UploadedEnd(g)'
             /\ Laid(bucket[g], UploadedEnd(g))'
             /\ \A c \in Seq(Byte) : IsContent(g, c) => CutFrom(bucket'[g], c)
    BY <1>4, Lands
<1>6. \A g \in Files : UploadedEnd(g)' \in Nat
    BY <1>5, EndTyped
<1>7. EndOfNext(item) <= UploadedEnd(f)' /\ faults' \in 0..MaxFaults
    BY <1>0, <1>1, <1>5, <1>6 DEF UploadTypes
<1>. QED
    BY <1>1, <1>3, <1>4, <1>5, <1>6, <1>7, SentKeeps

LEMMA PutRefusedInv ==
    ASSUME UploadIInv, NEW u \in Uploaders, PutRefused(u)
    PROVE  UploadIInv'
<1>0. UploadTypes
    BY DEF UploadIInv
<1>1. /\ Shipping(u)
      /\ UNCHANGED <<today, made, local, cache, bucket, faults, pc, todo, recording>>
    BY DEF PutRefused, disk
<1>2. PICK f \in Files : \E item \in ToSend(f) : item = Head(pending[u])
    BY <1>0, <1>1, HeadIsToSend
<1>3. PICK item \in ToSend(f) : item = Head(pending[u])
    BY <1>2
<1>4. /\ CanOpen(item) /\ item.file = f
      /\ IF \E o \in Taken(item) : SameObject(o, item) THEN Sent(u, item) ELSE GiveUp(u, item)
    BY <1>3 DEF PutRefused, ToSend
<1>5. faults' \in 0..MaxFaults /\ bucket' \in [Files -> SUBSET Object]
    BY <1>0, <1>1 DEF UploadTypes
<1>6. CASE \E o \in Taken(item) : SameObject(o, item)
    <2>1. PICK o \in bucket[f] : o.end = EndOfNext(item)
        BY <1>4, <1>6 DEF Taken, SameObject, EndOffset
    <2>2. \A g \in Files : UploadedEnd(g)' = UploadedEnd(g) /\ bucket'[g] = bucket[g]
        BY <1>1, SameEnd
    <2>3. \A g \in Files :
              /\ bucket[g] \subseteq bucket'[g]
              /\ UploadedEnd(g)' \in Nat
              /\ UploadedEnd(g) <= UploadedEnd(g)'
              /\ Laid(bucket[g], UploadedEnd(g))'
              /\ \A c \in Seq(Byte) : IsContent(g, c) => CutFrom(bucket'[g], c)
        BY <2>2, EndIsNat DEF IsContent
    <2>4. EndOfNext(item) <= UploadedEnd(f)' /\ \E p \in bucket'[f] : p.end = EndOfNext(item)
        BY <2>1, <2>2, EndIsNat
    <2>5. Sent(u, item)
        BY <1>4, <1>6
    <2>. QED
        BY <1>1, <1>3, <1>4, <1>5, <2>3, <2>4, <2>5, SentKeeps
<1>7. CASE ~\E o \in Taken(item) : SameObject(o, item)
    <2>1. pending' = [pending EXCEPT ![u] = Tail(@)] /\ UNCHANGED <<confirmed, ends>>
        BY <1>4, <1>7 DEF GiveUp
    <2>2. pending[u] # <<>> /\ todo' \in [Uploaders -> SUBSET Files]
        BY <1>0, <1>1 DEF Shipping, UploadTypes
    <2>. QED
        BY <1>1, <1>5, <2>1, <2>2, LeaveOut
<1>. QED
    BY <1>6, <1>7

\* The PUT failed, and has made the object or has not.
LEMMA PutStopsInv ==
    ASSUME UploadIInv, NEW u \in Uploaders, PutFails(u) \/ PutOffline(u)
    PROVE  UploadIInv'
<1>0. UploadTypes
    BY DEF UploadIInv
<1>1. /\ Shipping(u)
      /\ UNCHANGED <<today, made, local, cache, pc, todo, confirmed, ends, recording>>
    BY DEF PutFails, PutOffline, GiveUp, disk
<1>2. PICK f \in Files : \E item \in ToSend(f) : item = Head(pending[u])
    BY <1>0, <1>1, HeadIsToSend
<1>3. PICK item \in ToSend(f) : item = Head(pending[u])
    BY <1>2
<1>4. /\ MayLand(item)
      /\ Fault \/ UNCHANGED faults
      /\ \/ pending' = [pending EXCEPT ![u] = Tail(@)]
         \/ pending' = [pending EXCEPT ![u] = <<>>]
    BY <1>3 DEF PutFails, PutOffline, GiveUp
<1>5. faults' \in 0..MaxFaults /\ todo' \in [Uploaders -> SUBSET Files]
    <2>1. faults' \in 0..MaxFaults
        BY <1>0, <1>4, FaultTyped DEF UploadTypes
    <2>. QED
        BY <1>0, <1>1, <2>1 DEF UploadTypes
<1>6. pending[u] # <<>>
    BY <1>1 DEF Shipping
<1>7. CASE UNCHANGED bucket
    BY <1>1, <1>4, <1>5, <1>6, <1>7, LeaveOut
<1>8. CASE /\ CanOpen(item) /\ Taken(item) = {}
           /\ bucket' = [bucket EXCEPT ![item.file] = @ \union {NextObject(item)}]
    <2>1. /\ bucket' \in [Files -> SUBSET Object]
          /\ \A g \in Files :
                 /\ bucket[g] \subseteq bucket'[g]
                 /\ UploadedEnd(g) <= UploadedEnd(g)'
                 /\ Laid(bucket[g], UploadedEnd(g))'
                 /\ \A c \in Seq(Byte) : IsContent(g, c) => CutFrom(bucket'[g], c)
        BY <1>8, Lands
    <2>2. \A g \in Files : UploadedEnd(g)' \in Nat
        BY <2>1, EndTyped
    <2>3. pending' \in [Uploaders -> Seq(Item)] /\ \A g \in Files : ToSend(g)' \subseteq ToSend(g)
        BY <1>0, <1>4, <1>6, PendingShrinks
    <2>4. \A g \in Files : Confirmed(g)' = Confirmed(g)
        BY <1>1, SameQueues
    <2>5. \A g \in Files : FileInv(g)'
        BY <1>1, <2>1, <2>2, <2>3, <2>4, FilesStep
    <2>6. UploadTypes'
        BY <1>0, <1>1, <1>5, <2>1, <2>3 DEF UploadTypes
    <2>. QED
        BY <2>5, <2>6 DEF UploadIInv
<1>. QED
    BY <1>4, <1>7, <1>8 DEF MayLand

-----------------------------------------------------------------------------
(* A run: prune, and its end. *)

LEMMA PruneInv ==
    ASSUME UploadIInv, NEW u \in Uploaders, Prune(u)
    PROVE  UploadIInv'
<1>0. UploadTypes
    BY DEF UploadIInv
<1>1. /\ confirmed[u] # <<>> /\ confirmed' = [confirmed EXCEPT ![u] = Tail(@)]
      /\ UNCHANGED <<today, made, bucket, cache, faults, pc, todo, pending, ends, recording>>
    BY DEF Prune, Pruning
<1>2. \A f \in Files : Confirmed(f)' \subseteq Confirmed(f)
    BY <1>0, <1>1, ConfirmedShrinks
<1>3. confirmed' \in [Uploaders -> Seq(Measured)]
    BY <1>0, <1>1, ConfirmedShrinks
<1>4. PICK g : /\ g = Head(confirmed[u]).file
               /\ \/ UNCHANGED local
                  \/ DayOf(g) < today /\ local' = [local EXCEPT ![g] = <<>>]
    BY DEF Prune, PruneReason
<1>5. local \in [Files -> Seq(Byte)] /\ <<>> \in Seq(Byte)
    BY <1>0, EmptySeq DEF UploadTypes
<1>6. local' \in [Files -> Seq(Byte)]
    BY <1>4, <1>5
<1>7. ASSUME NEW f \in Files PROVE FileInv(f)'
    <2>1. ToSend(f)' = ToSend(f)
        BY <1>1, SameQueues
    <2>2. /\ cache'[f] <= UploadedEnd(f)
          /\ \A v \in Uploaders : ends'[v][f] <= UploadedEnd(f)
          /\ \A m \in Confirmed(f)' : m.size <= UploadedEnd(f)
        BY <1>1, <1>2, MarksNow
    <2>3. CASE local'[f] = local[f]
        BY <1>1, <2>1, <2>2, <2>3, FileQuiet
    <2>4. CASE local'[f] # local[f]
        <3>1. local'[f] = <<>> /\ DayOf(f) < today
            BY <1>4, <1>5, <2>4
        <3>2. PICK c \in Seq(Byte) : IsContent(f, c)
            BY DEF UploadIInv, FileInv
        <3>3. IsContent(f, c)'
            BY <1>1, <2>1, <3>1, <3>2 DEF IsContent
        <3>4. UploadedEnd(f)' = UploadedEnd(f)
            BY <1>1, SameEnd
        <3>5. Marked(f)' /\ Laid(bucket[f], UploadedEnd(f))'
            BY <1>1, <2>2, <3>4, EndIsNat DEF Marked
        <3>. QED
            BY <3>3, <3>5 DEF FileInv
    <2>. QED
        BY <2>3, <2>4
<1>8. UploadTypes'
    BY <1>0, <1>1, <1>3, <1>6 DEF UploadTypes
<1>. QED
    BY <1>7, <1>8 DEF UploadIInv

LEMMA PruneRaisesInv ==
    ASSUME UploadIInv, NEW u \in Uploaders, PruneRaises(u)
    PROVE  UploadIInv'
<1>1. Ended({u}) /\ UNCHANGED <<today, made, local, cache, bucket, faults>>
    BY DEF PruneRaises, disk
<1>2. UploadTypes'
    BY <1>1, EndedForgets DEF UploadIInv, UploadTypes
<1>3. ASSUME NEW f \in Files PROVE FileInv(f)'
    <2>1. /\ ToSend(f)' \subseteq ToSend(f) /\ Confirmed(f)' \subseteq Confirmed(f)
          /\ \A v \in Uploaders : ends'[v][f] \in {ends[v][f], NoEntry}
        BY <1>1, EndedForgets DEF UploadIInv
    <2>2. /\ cache'[f] <= UploadedEnd(f)
          /\ \A v \in Uploaders : ends'[v][f] <= UploadedEnd(f)
          /\ \A m \in Confirmed(f)' : m.size <= UploadedEnd(f)
        BY <1>1, <2>1, MarksNow
    <2>. QED
        BY <1>1, <2>1, <2>2, FileQuiet
<1>. QED
    BY <1>2, <1>3 DEF UploadIInv

LEMMA FinishInv ==
    ASSUME UploadIInv, NEW u \in Uploaders, Finish(u)
    PROVE  UploadIInv'
<1>0. UploadTypes
    BY DEF UploadIInv
<1>1. /\ Ended({u}) /\ UNCHANGED <<today, bucket, faults>>
      /\ Write("events") \/ UNCHANGED <<local, made>>
      /\ \/ cache' = [f \in Files |-> IF local[f] # <<>> THEN ends[u][f] ELSE NoEntry]
         \/ UNCHANGED cache
    BY DEF Finish
<1>2. cache' \in [Files -> Mark]
    <2>1. cache \in [Files -> Mark] /\ \A f \in Files : ends[u][f] \in Mark
        BY <1>0 DEF UploadTypes
    <2>. QED
        BY <1>1, <2>1, MarkIs
<1>3. ASSUME NEW f \in Files
      PROVE  /\ ToSend(f)' \subseteq ToSend(f)
             /\ cache'[f] <= UploadedEnd(f)
             /\ \A v \in Uploaders : ends'[v][f] <= UploadedEnd(f)
             /\ \A m \in Confirmed(f)' : m.size <= UploadedEnd(f)
    <2>1. /\ ToSend(f)' \subseteq ToSend(f) /\ Confirmed(f)' \subseteq Confirmed(f)
          /\ \A v \in Uploaders : ends'[v][f] \in {ends[v][f], NoEntry}
        BY <1>0, <1>1, EndedForgets
    <2>2. cache'[f] \in {cache[f], ends[u][f], NoEntry}
        BY <1>1
    <2>. QED
        BY <2>1, <2>2, MarksNow
<1>4. /\ local' \in [Files -> Seq(Byte)] /\ made' \in 0..MaxLines
      /\ \A f \in Files : FileInv(f)'
    BY <1>1, <1>3, WriteKeeps
<1>5. UploadTypes'
    BY <1>0, <1>1, <1>2, <1>4, EndedForgets DEF UploadTypes
<1>. QED
    BY <1>4, <1>5 DEF UploadIInv

-----------------------------------------------------------------------------
(* The invariant, and what follows from it. *)

LEMMA UploadInitInv ==
    ASSUME Init
    PROVE  UploadIInv
<1>1. UploadTypes
    <2>1. /\ <<>> \in Seq(Byte) /\ <<>> \in Seq(Item) /\ <<>> \in Seq(Measured)
          /\ MaxDay \in Nat \ {0} /\ MaxLines \in Nat /\ MaxFaults \in Nat
        BY EmptySeq, UploadBoundsAssumption
    <2>2. today \in 1..MaxDay /\ made \in 0..MaxLines /\ faults \in 0..MaxFaults
        BY <2>1 DEF Init
    <2>3. recording \in [Uploaders -> BOOLEAN]
        BY Zenon DEF Init
    <2>4. /\ local \in [Files -> Seq(Byte)]
          /\ bucket \in [Files -> SUBSET Object]
          /\ cache \in [Files -> Mark]
          /\ pc \in [Uploaders -> {"idle", "plan", "ship"}]
          /\ todo \in [Uploaders -> SUBSET Files]
        BY <2>1, MarkIs DEF Init
    <2>5. /\ pending \in [Uploaders -> Seq(Item)]
          /\ confirmed \in [Uploaders -> Seq(Measured)]
          /\ ends \in [Uploaders -> [Files -> Mark]]
        BY <2>1, MarkIs DEF Init
    <2>. QED
        BY <2>2, <2>3, <2>4, <2>5 DEF UploadTypes
<1>2. ASSUME NEW f \in Files PROVE FileInv(f)
    <2>1. bucket[f] = {} /\ local[f] = <<>> /\ made = 0 /\ cache[f] = NoEntry
        BY DEF Init
    <2>2. UploadedEnd(f) = 0
        BY <2>1 DEF UploadedEnd
    <2>3. Laid(bucket[f], UploadedEnd(f))
        BY <2>1, <2>2 DEF Laid
    <2>4. ToSend(f) = {} /\ Confirmed(f) = {}
        <3>1. \A u \in Uploaders : pending[u] = <<>> /\ confirmed[u] = <<>>
            BY DEF Init
        <3>2. ToSet(<<>>) = {}
            BY DEF ToSet
        <3>. QED
            BY <3>1, <3>2 DEF ToSend, Confirmed
    <2>5. <<>> \in Seq(Byte) /\ Len(<<>>) = 0 /\ Proper(<<>>, 0)
        BY EmptySeq DEF Proper
    <2>6. IsContent(f, <<>>)
        BY <2>1, <2>4, <2>5 DEF IsContent, CutFrom
    <2>7. Marked(f)
        <3>1. \A u \in Uploaders : ends[u][f] = NoEntry
            BY DEF Init
        <3>. QED
            BY <2>1, <2>2, <2>4, <3>1, MarkIs DEF Marked
    <2>. QED
        BY <2>3, <2>5, <2>6, <2>7 DEF FileInv
<1>. QED
    BY <1>1, <1>2 DEF UploadIInv

LEMMA UploadStutterInv ==
    ASSUME UploadIInv, UNCHANGED vars
    PROVE  UploadIInv'
<1>1. UNCHANGED <<today, made, local, cache, bucket, faults, pc, todo, pending, confirmed,
                  ends, recording>>
    BY DEF vars, disk, process
<1>2. UploadTypes'
    BY <1>1 DEF UploadIInv, UploadTypes
<1>3. ASSUME NEW f \in Files PROVE FileInv(f)'
    <2>1. ToSend(f)' = ToSend(f) /\ Confirmed(f)' = Confirmed(f)
        BY <1>1, SameQueues
    <2>. QED
        BY <1>1, <2>1, MarksNow, FileQuiet
<1>. QED
    BY <1>2, <1>3 DEF UploadIInv

LEMMA UploadStepInv ==
    ASSUME UploadIInv, [Next]_vars
    PROVE  UploadIInv'
<1>1. ASSUME NEW f \in Files, Record(f) PROVE UploadIInv'
    BY <1>1, RecordInv
<1>2. CASE Midnight
    BY <1>2, MidnightInv
<1>3. CASE PowerCut
    BY <1>3, PowerCutInv
<1>4. ASSUME NEW u \in Uploaders, Run(u) PROVE UploadIInv'
    <2>1. CASE Start(u)
        BY <2>1, StartInv
    <2>2. CASE Plan(u)
        BY <2>2, PlanInv
    <2>3. CASE PlanFails(u) \/ PlanOffline(u)
        BY <2>3, PlanStopsInv
    <2>4. CASE PlanDone(u)
        BY <2>4, PlanDoneInv
    <2>5. CASE PutLands(u)
        BY <2>5, PutLandsInv
    <2>6. CASE PutRefused(u)
        BY <2>6, PutRefusedInv
    <2>7. CASE PutFails(u) \/ PutOffline(u)
        BY <2>7, PutStopsInv
    <2>8. CASE Prune(u)
        BY <2>8, PruneInv
    <2>9. CASE PruneRaises(u)
        BY <2>9, PruneRaisesInv
    <2>10. CASE Finish(u)
        BY <2>10, FinishInv
    <2>. QED
        BY <1>4, <2>1, <2>2, <2>3, <2>4, <2>5, <2>6, <2>7, <2>8, <2>9, <2>10 DEF Run
<1>5. ASSUME NEW u \in Uploaders, Killed(u) PROVE UploadIInv'
    BY <1>5, KilledInv
<1>6. CASE UNCHANGED vars
    BY <1>6, UploadStutterInv
<1>. QED
    BY <1>1, <1>2, <1>3, <1>4, <1>5, <1>6 DEF Next

\* What the invariant rests on, in every state: the objects of a file tile the
\* bytes it holds or held, and what is still to be sent goes on from them.
THEOREM UploadInvariant == Spec => []UploadIInv
BY UploadInitInv, UploadStepInv, PTL DEF Spec

LEMMA UploadTypesFollow ==
    ASSUME UploadIInv
    PROVE  TypeOK
<1>0. UploadTypes
    BY DEF UploadIInv
<1>1. ASSUME NEW f \in Files
      PROVE  /\ \A k \in DOMAIN local[f] : local[f][k] \in (0..MaxLines) \X {1, 2}
             /\ \A o \in bucket[f] : o.start \in 0..o.end - 1 /\ o.lines \subseteq 1..made
             /\ cache[f] \in Nat \union {NoEntry}
    <2>1. \A k \in DOMAIN local[f] : local[f][k] \in (0..MaxLines) \X {1, 2}
        BY <1>0, LenProperties, ElementOfSeq DEF UploadTypes, Byte
    <2>2. PICK c \in Seq(Byte) : IsContent(f, c)
        BY DEF UploadIInv, FileInv
    <2>3. ASSUME NEW o \in bucket[f]
          PROVE  o.start \in 0..o.end - 1 /\ o.lines \subseteq 1..made
        <3>1. o.start \in Nat /\ o.end \in Nat /\ o.start < o.end
            BY EndIsNat DEF Laid, Object
        <3>2. /\ o.end <= Len(c) /\ o.lines = ReadableLines(SubSeq(c, o.start + 1, o.end))
              /\ Proper(c, made)
            BY <2>2 DEF IsContent, CutFrom
        <3>3. made \in Nat /\ o.start <= o.end
            BY <1>0, <3>1, UploadBoundsAssumption DEF UploadTypes
        <3>4. ReadableLines(SubSeq(c, o.start + 1, o.end)) \subseteq 1..made
            BY <3>1, <3>2, <3>3, LinesAreMade
        <3>. QED
            BY <3>1, <3>2, <3>4
    <2>. QED
        BY <1>0, <2>1, <2>3 DEF UploadTypes, Mark
<1>2. ASSUME NEW u \in Uploaders, NEW i \in DOMAIN pending[u]
      PROVE  /\ pending[u][i].file \in Files
             /\ pending[u][i].at < pending[u][i].size
             /\ \/ Unopened(pending[u][i])
                \/ EndsLine(pending[u][i].data[pending[u][i].at])
                \/ pending[u][i].at = 0
    <2>1. pending[u] \in Seq(Item)
        BY <1>0 DEF UploadTypes
    <2>2. PICK item \in Item : item = pending[u][i]
        BY <2>1, LenProperties, ElementOfSeq
    <2>3. item.file \in Files /\ item.at \in Nat /\ item.size \in Nat
        BY DEF Item
    <2>4. item \in ToSend(item.file)
        BY <2>2 DEF ToSend, ToSet
    <2>5. PICK c \in Seq(Byte) : IsContent(item.file, c)
        BY <2>3 DEF UploadIInv, FileInv
    <2>6. GoesOn(item, bucket[item.file], c)
        BY <2>4, <2>5 DEF IsContent
    <2>7. ASSUME item.at # 0, item.data # <<>> PROVE EndsLine(item.data[item.at])
        <3>1. item.data = SubSeq(c, 1, item.size) /\ item.size <= Len(c)
            BY <2>6, <2>7 DEF GoesOn
        <3>2. PICK o \in bucket[item.file] : o.end = item.at
            BY <2>6, <2>7 DEF GoesOn
        <3>3. EndsLine(c[item.at])
            BY <2>5, <3>2 DEF IsContent, CutFrom
        <3>4. item.at \in 1..item.size
            BY <2>3, <2>6, <2>7 DEF GoesOn
        <3>5. item.data[item.at] = c[item.at]
            BY <2>3, <3>1, <3>4, StartOfBytes
        <3>. QED
            BY <3>3, <3>5
    <2>8. Unopened(item) \/ EndsLine(item.data[item.at]) \/ item.at = 0
        BY <2>7 DEF Unopened
    <2>9. item.at < item.size
        BY <2>6 DEF GoesOn
    <2>. QED
        BY <2>2, <2>3, <2>8, <2>9
<1>3. ASSUME NEW u \in Uploaders, NEW i \in DOMAIN confirmed[u]
      PROVE  confirmed[u][i].file \in Files
    <2>1. confirmed[u] \in Seq(Measured)
        BY <1>0 DEF UploadTypes
    <2>2. confirmed[u][i] \in Measured
        BY <2>1, LenProperties, ElementOfSeq
    <2>. QED
        BY <2>2 DEF Measured
<1>4. \A u \in Uploaders : pc[u] \in {"idle", "plan", "ship"} /\ todo[u] \subseteq Files
    BY <1>0 DEF UploadTypes
<1>5. \A u \in Uploaders : recording[u] \in BOOLEAN
    BY <1>0, Zenon DEF UploadTypes
<1>6. today \in 1..MaxDay /\ made \in 0..MaxLines /\ faults \in 0..MaxFaults
    BY <1>0 DEF UploadTypes
<1>. QED
    BY <1>1, <1>2, <1>3, <1>4, <1>5, <1>6, Zenon DEF TypeOK

\* Every variable has its type, and a chunk begins where a line does, whatever
\* was cut and sent before it (_chunks, ship).
THEOREM UploadTypeCorrect == Spec => []TypeOK
BY UploadInvariant, UploadTypesFollow, PTL

LEMMA NoGapNoDuplicateFollows ==
    ASSUME UploadIInv
    PROVE  NoGapNoDuplicate
<1>1. Tiled
    <2>. SUFFICES ASSUME NEW f \in Files, NEW o \in bucket[f]
                  PROVE  /\ o.start = 0 \/ \E p \in bucket[f] : p.end = o.start
                         /\ \A p \in bucket[f] \ {o} : p.end <= o.start \/ o.end <= p.start
        BY DEF Tiled
    <2>. QED
        BY EndIsNat DEF Laid
<1>2. ASSUME NEW f \in Files
      PROVE  WholeLines(SubSeq(local[f], 1, UploadedEnd(f))) \subseteq HeldLines(f)
             \/ UploadedEnd(f) > CompleteSize(f)
    <2>1. PICK c \in Seq(Byte) : IsContent(f, c)
        BY DEF UploadIInv, FileInv
    <2>2. CASE local[f] = c
        <3>1. UploadedEnd(f) \in Nat /\ UploadedEnd(f) <= Len(c) /\ UploadedEnd(f) <= UploadedEnd(f)
            BY <2>1, EndIsNat, LenProperties DEF IsContent, CutFrom
        <3>2. made \in Nat /\ Proper(c, made) /\ CutFrom(bucket[f], c)
            BY <2>1, UploadBoundsAssumption DEF UploadIInv, UploadTypes, IsContent
        <3>3. WholeLines(SubSeq(c, 1, UploadedEnd(f))) \subseteq UNION {o.lines : o \in bucket[f]}
            BY <3>1, <3>2, EndIsNat, CoveredIsHeld
        <3>. QED
            BY <2>2, <3>3 DEF HeldLines
    <2>3. CASE local[f] = <<>>
        <3>1. CompleteSize(f) = 0
            <4>1. Len(local[f]) = 0 /\ local[f] \in Seq(Byte)
                BY <2>3, EmptySeq
            <4>2. CompleteSize(f) \in 0..Len(local[f])
                BY <4>1, LastLineEnds DEF CompleteSize
            <4>. QED
                BY <4>1, <4>2
        <3>2. CASE UploadedEnd(f) = 0
            <4>1. SubSeq(local[f], 1, UploadedEnd(f)) = <<>>
                BY <3>2, SubSeqEmpty
            <4>2. WholeLines(<<>>) = {}
                BY EmptySeq DEF WholeLines, WholeAt
            <4>. QED
                BY <4>1, <4>2
        <3>3. CASE UploadedEnd(f) # 0
            BY <3>1, <3>3, EndIsNat
        <3>. QED
            BY <3>2, <3>3
    <2>. QED
        BY <2>1, <2>2, <2>3 DEF IsContent
<1>3. ASSUME NEW f \in Files, NEW o \in bucket[f], NEW p \in bucket[f], o # p
      PROVE  o.lines \intersect p.lines = {}
    <2>1. PICK c \in Seq(Byte) : IsContent(f, c)
        BY DEF UploadIInv, FileInv
    <2>2. made \in Nat /\ Proper(c, made) /\ CutFrom(bucket[f], c)
        BY <2>1, UploadBoundsAssumption DEF UploadIInv, UploadTypes, IsContent
    <2>3. /\ o.start \in Nat /\ o.end \in Nat /\ o.start < o.end
          /\ p.start \in Nat /\ p.end \in Nat /\ p.start < p.end
          /\ p.end <= o.start \/ o.end <= p.start
        BY <1>3, EndIsNat DEF Laid, Object
    <2>4. o.start <= o.end /\ p.start <= p.end
        BY <2>3
    <2>5. /\ o.end <= Len(c) /\ o.lines = ReadableLines(SubSeq(c, o.start + 1, o.end))
          /\ p.end <= Len(c) /\ p.lines = ReadableLines(SubSeq(c, p.start + 1, p.end))
        BY <2>2 DEF CutFrom
    <2>6. o.end <= p.start \/ p.end <= o.start
        BY <2>3
    <2>7. ReadableLines(SubSeq(c, o.start + 1, o.end))
              \intersect ReadableLines(SubSeq(c, p.start + 1, p.end)) = {}
        BY <2>2, <2>3, <2>4, <2>5, <2>6, ApartMeansDisjoint
    <2>. QED
        BY <2>5, <2>7
<1>4. ASSUME NEW f \in Files, UploadedEnd(f) <= CompleteSize(f)
      PROVE  WholeLines(SubSeq(local[f], 1, UploadedEnd(f))) \subseteq HeldLines(f)
    <2>1. CompleteSize(f) \in Nat /\ UploadedEnd(f) \in Nat
        <3>1. local[f] \in Seq(Byte) /\ Len(local[f]) \in Nat
            BY LenProperties DEF UploadIInv, UploadTypes
        <3>2. CompleteSize(f) \in 0..Len(local[f])
            BY <3>1, LastLineEnds DEF CompleteSize
        <3>. QED
            BY <3>1, <3>2, EndIsNat
    <2>2. ~(UploadedEnd(f) > CompleteSize(f))
        BY <1>4, <2>1
    <2>. QED
        BY <1>2, <2>2
<1>. QED
    BY <1>1, <1>3, <1>4 DEF NoGapNoDuplicate

\* "cannot cause a gap or a duplicate" (sync.py's module comment): whatever runs
\* overlap, are killed or lose their answers, the objects tile the file, and every
\* line of what they cover is in exactly one of them.
THEOREM NoGapNoDuplicateCorrect == Spec => []NoGapNoDuplicate
BY UploadInvariant, NoGapNoDuplicateFollows, PTL

LEMMA CacheNeverAheadFollows ==
    ASSUME UploadIInv
    PROVE  CacheNeverAhead
BY MarksNow DEF CacheNeverAhead

\* A wrong entry of the cache "can only cost an extra listing, never a gap"
\* (cache.py's module comment): no run and no file takes more for uploaded than
\* the bucket holds.
THEOREM CacheNeverAheadCorrect == Spec => []CacheNeverAhead
BY UploadInvariant, CacheNeverAheadFollows, PTL

LEMMA DeletesConfirmed ==
    ASSUME UploadIInv, NEW u \in Uploaders, NEW f \in Files, Deletes(u, f)
    PROVE  WholeLines(SubSeq(local[f], 1, Head(confirmed[u]).size)) \subseteq HeldLines(f)
<1>1. confirmed[u] # <<>> /\ Head(confirmed[u]).file = f /\ local[f] # <<>>
    BY DEF Deletes, Pruning
<1>2. confirmed[u] \in Seq(Measured)
    BY DEF UploadIInv, UploadTypes
<1>3. PICK m \in Measured : m = Head(confirmed[u]) /\ m \in ToSet(confirmed[u])
    BY <1>1, <1>2, ToSetOfSeq
<1>4. m \in Confirmed(f)
    BY <1>1, <1>3 DEF Confirmed
<1>5. m.size \in Nat /\ m.size <= UploadedEnd(f)
    BY <1>4, MarksNow DEF Measured
<1>6. PICK c \in Seq(Byte) : IsContent(f, c)
    BY DEF UploadIInv, FileInv
<1>7. local[f] = c
    BY <1>1, <1>6 DEF IsContent
<1>8. UploadedEnd(f) <= Len(c)
    BY <1>6, EndIsNat, LenProperties DEF IsContent, CutFrom
<1>9. made \in Nat /\ Proper(c, made) /\ CutFrom(bucket[f], c)
    BY <1>6, UploadBoundsAssumption DEF UploadIInv, UploadTypes, IsContent
<1>10. WholeLines(SubSeq(c, 1, m.size)) \subseteq UNION {o.lines : o \in bucket[f]}
    BY <1>5, <1>8, <1>9, EndIsNat, CoveredIsHeld
<1>. QED
    BY <1>3, <1>7, <1>10 DEF HeldLines

\* A file is deleted only when the bucket holds every line of what the run measured
\* (prune), although other runs and the recorder go on meanwhile.
THEOREM DeletedWasConfirmedCorrect == Spec => DeletedWasConfirmed
<1>1. UploadIInv /\ [Next]_vars =>
          [\A u \in Uploaders, f \in Files : Deletes(u, f) =>
               WholeLines(SubSeq(local[f], 1, Head(confirmed[u]).size)) \subseteq HeldLines(f)]_vars
    BY DeletesConfirmed
<1>. QED
    BY <1>1, UploadInvariant, PTL DEF Spec, DeletedWasConfirmed
===============================================================================
