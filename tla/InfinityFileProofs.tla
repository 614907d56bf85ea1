------------------------ MODULE InfinityFileProofs ------------------------
(***************************************************************************)
(* InfinityFile implements a flat file until an access clashes with its     *)
(* cache, for every part size, every set of byte arrays no longer than a    *)
(* part, every set of positions, and any order of flushes and evictions.    *)
(***************************************************************************)
EXTENDS InfinityFile, SequenceTheorems, TLAPS

-----------------------------------------------------------------------------
(* Division by the part size.                                               *)

(* A position is its part's number times the part size plus its offset.     *)
LEMMA DivMod ==
  ASSUME NEW P \in Nat \ {0}, NEW k \in Nat
  PROVE  /\ k \div P \in Nat
         /\ k % P \in 0..(P - 1)
         /\ k = P * (k \div P) + (k % P)
  OBVIOUS

(* Part numbers are at least a part apart.                                  *)
LEMMA MulMono ==
  ASSUME NEW P \in Nat \ {0}, NEW a \in Nat, NEW b \in Nat, a < b
  PROVE  P * a + P <= P * b
  OBVIOUS

(* A part number and an offset below the part size determine the position,  *)
(* and the position determines them.                                        *)
LEMMA DivUnique ==
  ASSUME NEW P \in Nat \ {0}, NEW q \in Nat, NEW r \in 0..(P - 1)
  PROVE  /\ (P * q + r) \div P = q
         /\ (P * q + r) % P = r
<1> DEFINE k == P * q + r
<1>1. k \in Nat
  OBVIOUS
<1>2. /\ k = P * (k \div P) + (k % P)
      /\ k \div P \in Nat
      /\ k % P \in 0..(P - 1)
  BY <1>1, DivMod
<1>3. CASE k \div P < q
  BY <1>1, <1>2, <1>3, MulMono
<1>4. CASE k \div P > q
  BY <1>1, <1>2, <1>4, MulMono
<1>5. CASE k \div P = q
  BY <1>1, <1>2, <1>5
<1> QED
  BY <1>1, <1>2, <1>3, <1>4, <1>5

(* The same of PartOf and OffsetIn.                                         *)
LEMMA Division ==
  \A k \in Nat : /\ PartOf(k) \in Nat
                  /\ OffsetIn(k) \in 0..(PartSize - 1)
                  /\ k = PartSize * PartOf(k) + OffsetIn(k)
  BY InfinityFileAssumption, DivMod DEF InfinityFileAssumption, PartOf, OffsetIn

LEMMA PositionIn ==
  \A q \in Nat, r \in 0..(PartSize - 1), k \in Nat :
     k = PartSize * q + r => PartOf(k) = q /\ OffsetIn(k) = r
  BY InfinityFileAssumption, DivUnique DEF InfinityFileAssumption, PartOf, OffsetIn

(* An access no longer than a part that ends, by the code's correction, in  *)
(* the part it starts in, fits into that part; and a position lies in the   *)
(* accessed range exactly when it is in that part at an offset of the range.*)
LEMMA OnePart ==
  ASSUME NEW start \in Nat, NEW n \in 0..PartSize,
         PartOf(start) = EndFileIndex(start + n)
  PROVE  /\ OffsetIn(start) + n <= PartSize
         /\ start - PartOf(start) * PartSize = OffsetIn(start)
         /\ PartOf(start + n) \in {PartOf(start), PartOf(start) + 1}
         /\ \A k \in Nat : /\ PartOf(k) = PartOf(start)
                                => k - start = OffsetIn(k) - OffsetIn(start)
                           /\ (start <= k /\ k < start + n)
                                => PartOf(k) = PartOf(start)
<1> DEFINE P == PartSize
           f == PartOf(start)
           o == OffsetIn(start)
           e == start + n
<1> P \in Nat \ {0}
  BY InfinityFileAssumption DEF InfinityFileAssumption
<1>1. start = P * f + o /\ f \in Nat /\ o \in 0..(P - 1)
  BY Division
<1> e \in Nat
  OBVIOUS
<1>2. e = P * PartOf(e) + OffsetIn(e) /\ PartOf(e) \in Nat /\ OffsetIn(e) \in 0..(P - 1)
  BY Division
<1>3. o + n <= P /\ PartOf(e) \in {f, f + 1}
  <2>1. CASE e # 0 /\ OffsetIn(e) = 0
    <3>1. PartOf(e) = f + 1
      BY <2>1, <1>1, <1>2 DEF EndFileIndex
    <3> HIDE DEF f, o, e
    <3>2. e = P * f + P
      BY <3>1, <1>1, <1>2, <2>1
    <3> QED
      BY <3>1, <3>2, <1>1 DEF e
  <2>2. CASE ~(e # 0 /\ OffsetIn(e) = 0)
    <3>1. PartOf(e) = f
      BY <2>2, <1>1, <1>2 DEF EndFileIndex
    <3> QED
      BY <3>1, <1>1, <1>2
  <2> QED
    BY <2>1, <2>2
<1>4. start - f * P = o
  BY <1>1
<1>5. ASSUME NEW k \in Nat
      PROVE  /\ PartOf(k) = f => k - start = OffsetIn(k) - o
             /\ (start <= k /\ k < e) => PartOf(k) = f
  <2>1. k = P * PartOf(k) + OffsetIn(k) /\ PartOf(k) \in Nat /\ OffsetIn(k) \in 0..(P - 1)
    BY Division
  <2>2. PartOf(k) = f => k - start = OffsetIn(k) - o
    BY <2>1, <1>1
  <2>3. ASSUME start <= k, k < e
        PROVE  PartOf(k) = f
    <3> DEFINE r == o + (k - start)
    <3>1. k = P * f + r /\ r \in 0..(P - 1)
      BY <2>3, <1>1, <1>3
    <3> HIDE DEF r, f, o
    <3> QED
      BY <3>1, <1>1, PositionIn
  <2> QED
    BY <2>2, <2>3
<1> QED
  BY <1>3, <1>4, <1>5

(* An access that the code splits runs to the end of its first part and on  *)
(* from the start of the next one; one without bytes at a boundary touches  *)
(* nothing.                                                                 *)
LEMMA TwoParts ==
  ASSUME NEW start \in Nat, NEW n \in 0..PartSize,
         PartOf(start) # EndFileIndex(start + n)
  PROVE  /\ n = 0 => /\ OffsetIn(start) = 0
                     /\ OffsetIn(start + n) = 0
                     /\ PartOf(start + n) = PartOf(start)
         /\ n # 0 => /\ PartOf(start + n) = PartOf(start) + 1
                     /\ EndFileIndex(start + n) = PartOf(start + n)
                     /\ OffsetIn(start + n) \in 1..(n - 1)
                     /\ OffsetIn(start) + (n - OffsetIn(start + n)) = PartSize
         /\ \A k \in Nat :
              /\ PartOf(k) = PartOf(start)
                   => k - start = OffsetIn(k) - OffsetIn(start)
              /\ PartOf(k) = PartOf(start) + 1
                   => k - start = OffsetIn(k) + PartSize - OffsetIn(start)
              /\ (start <= k /\ k < start + n)
                   => PartOf(k) \in {PartOf(start), PartOf(start) + 1}
<1> DEFINE P == PartSize
           f == PartOf(start)
           o == OffsetIn(start)
           e == start + n
           s == PartOf(e)
           t == OffsetIn(e)
<1> P \in Nat \ {0}
  BY InfinityFileAssumption DEF InfinityFileAssumption
<1> e \in Nat
  OBVIOUS
<1>1. start = P * f + o /\ f \in Nat /\ o \in 0..(P - 1)
  BY Division
<1>2. e = P * s + t /\ s \in Nat /\ t \in 0..(P - 1)
  BY Division
<1>3. P * (f + 1) = P * f + P /\ P * (f + 2) = P * f + P + P
  BY <1>1
<1>4. f # EndFileIndex(e)
  OBVIOUS
<1>5. EndFileIndex(e) = IF e # 0 /\ t = 0 THEN s - 1 ELSE s
  BY DEF EndFileIndex
<1> HIDE DEF f, o, s, t
<1>6. s \in {f, f + 1}
  <2>1. ~(s < f)
    BY <1>1, <1>2, MulMono
  <2>2. ~(f + 1 < s)
    <3> SUFFICES ASSUME f + 1 < s PROVE FALSE
      OBVIOUS
    <3>1. P * (f + 1) + P <= P * s
      BY <1>1, <1>2, MulMono
    <3> QED
      BY <3>1, <1>1, <1>2, <1>3
  <2> QED
    BY <2>1, <2>2, <1>1, <1>2
<1>7. ASSUME n = 0
      PROVE  o = 0 /\ t = 0 /\ s = f
  BY <1>7, <1>1, <1>2, <1>4, <1>5 DEF s, t, f, o
<1>8. ASSUME n # 0
      PROVE  s = f + 1 /\ EndFileIndex(e) = s /\ t \in 1..(n - 1) /\ o + (n - t) = P
  <2>1. s = f + 1
    <3> SUFFICES ASSUME s = f PROVE FALSE
      BY <1>6
    <3>1. t = o + n
      BY <1>1, <1>2, <1>8
    <3> QED
      BY <3>1, <1>1, <1>4, <1>5, <1>8
  <2>2. t # 0
    BY <2>1, <1>1, <1>4, <1>5, <1>8
  <2>3. o + n = P + t
    BY <2>1, <1>1, <1>2, <1>3
  <2> QED
    BY <2>1, <2>2, <2>3, <1>1, <1>2, <1>5, <1>8
<1>9. ASSUME NEW k \in Nat
      PROVE  /\ PartOf(k) = f => k - start = OffsetIn(k) - o
             /\ PartOf(k) = f + 1 => k - start = OffsetIn(k) + P - o
             /\ (start <= k /\ k < e) => PartOf(k) \in {f, f + 1}
  <2>1. k = P * PartOf(k) + OffsetIn(k) /\ PartOf(k) \in Nat /\ OffsetIn(k) \in 0..(P - 1)
    BY Division
  <2>2. ASSUME PartOf(k) = f
        PROVE  k - start = OffsetIn(k) - o
    <3> DEFINE r == OffsetIn(k)
    <3>1. k = P * f + r /\ r \in 0..(P - 1)
      BY <2>1, <2>2
    <3> HIDE DEF r
    <3>2. k - start = r - o
      BY <3>1, <1>1
    <3> QED
      BY <3>2 DEF r
  <2>3. ASSUME PartOf(k) = f + 1
        PROVE  k - start = OffsetIn(k) + P - o
    <3> DEFINE r == OffsetIn(k)
    <3>1. k = P * (f + 1) + r /\ r \in 0..(P - 1)
      BY <2>1, <2>3
    <3> HIDE DEF r
    <3>2. k - start = r + P - o
      BY <3>1, <1>1, <1>3
    <3> QED
      BY <3>2 DEF r
  <2>4. ASSUME start <= k, k < e
        PROVE  PartOf(k) \in {f, f + 1}
    <3> DEFINE q == PartOf(k)
    <3>1. q \in Nat /\ k = P * q + OffsetIn(k)
      BY <2>1
    <3> HIDE DEF q
    <3>2. ~(q < f)
      BY <2>1, <2>4, <3>1, <1>1, MulMono
    <3>3. ~(f + 1 < q)
      <4> SUFFICES ASSUME f + 1 < q PROVE FALSE
        OBVIOUS
      <4>1. P * (f + 1) + P <= P * q
        BY <1>1, <3>1, MulMono
      <4> QED
        BY <4>1, <1>1, <1>3, <2>1, <2>4, <3>1
    <3>4. q \in {f, f + 1}
      BY <3>1, <3>2, <3>3, <1>1
    <3> QED
      BY <3>4 DEF q
  <2> QED
    BY <2>2, <2>3, <2>4
<1> QED
  BY <1>7, <1>8, <1>9 DEF f, o, s, t

-----------------------------------------------------------------------------
(* RandomAccessFile.                                                        *)

(* A write leaves a sequence of bytes that has the data at its offset and   *)
(* the old bytes elsewhere.                                                 *)
LEMMA WriteAtBytes ==
  ASSUME NEW part \in Seq(Byte), NEW offset \in Nat, NEW data \in Seq(Byte)
  PROVE  LET new == WriteAt(part, offset, data)
         IN  /\ new \in Seq(Byte)
             /\ Len(new) >= Len(part)
             /\ data # <<>> => Len(new) >= offset + Len(data)
             /\ \A m \in Nat : (Len(part) <= m /\ offset + Len(data) <= m) => Len(new) <= m
             /\ \A i \in 1..Len(new) :
                   /\ (offset < i /\ i <= offset + Len(data)) => new[i] = data[i - offset]
                   /\ (~(offset < i /\ i <= offset + Len(data)) /\ i <= Len(part))
                         => new[i] = part[i]
<1> DEFINE n == IF offset + Len(data) > Len(part) /\ data # <<>>
                  THEN offset + Len(data) ELSE Len(part)
           F(i) == IF offset < i /\ i <= offset + Len(data) THEN data[i - offset]
                   ELSE IF i <= Len(part) THEN part[i] ELSE 0
<1>1. n \in Nat
  OBVIOUS
<1>2. \A i \in 1..n : F(i) \in Byte
  <2> SUFFICES ASSUME NEW i \in 1..n PROVE F(i) \in Byte
    OBVIOUS
  <2>1. CASE offset < i /\ i <= offset + Len(data)
    <3>1. i - offset \in 1..Len(data)
      BY <2>1, <1>1
    <3> QED
      BY <2>1, <3>1
  <2>2. CASE ~(offset < i /\ i <= offset + Len(data))
    BY <2>2, <1>1, InfinityFileAssumption DEF InfinityFileAssumption
  <2> QED
    BY <2>1, <2>2
<1>3. WriteAt(part, offset, data) = [i \in 1..n |-> F(i)]
  BY DEF WriteAt
<1> HIDE DEF F
<1>4. /\ [i \in 1..n |-> F(i)] \in Seq(Byte)
      /\ Len([i \in 1..n |-> F(i)]) = n
  BY <1>1, <1>2
<1>5. n >= Len(part) /\ (data # <<>> => n >= offset + Len(data))
  OBVIOUS
<1> QED
  BY <1>1, <1>3, <1>4, <1>5 DEF F

(* A read returns that many bytes, and those of the part that are there.    *)
LEMMA ReadAtBytes ==
  ASSUME NEW part \in Seq(Byte), NEW offset \in Nat, NEW length \in Nat
  PROVE  LET got == ReadAt(part, offset, length)
         IN  /\ got \in Seq(Byte)
             /\ Len(got) = length
             /\ \A i \in 1..length : offset + i <= Len(part) => got[i] = part[offset + i]
  BY InfinityFileAssumption DEF ReadAt, InfinityFileAssumption

(* getPartFile keeps the parts there are and makes the wanted one exist.    *)
LEMMA OpenedParts ==
  ASSUME NEW parts \in Seq(Seq(Byte)), NEW index \in 0..Len(parts)
  PROVE  LET new == Opened(parts, index)
         IN  /\ new \in Seq(Seq(Byte))
             /\ index < Len(new)
             /\ Len(parts) <= Len(new)
             /\ \A i \in 1..Len(parts) : new[i] = parts[i]
             /\ \A i \in 1..Len(new) : i > Len(parts) => Len(new[i]) = 0
<1>1. <<>> \in Seq(Byte)
  OBVIOUS
<1>2. CASE index = Len(parts)
  <2>1. Opened(parts, index) = Append(parts, <<>>)
    BY <1>2 DEF Opened
  <2>2. Len(<<>>) = 0
    OBVIOUS
  <2> QED
    BY <1>1, <1>2, <2>1, <2>2
<1>3. CASE index # Len(parts)
  BY <1>3 DEF Opened
<1> QED
  BY <1>2, <1>3

(* So does opening a part and then an earlier one or the next one.          *)
LEMMA OpenedTwice ==
  ASSUME NEW parts \in Seq(Seq(Byte)), NEW f \in 0..Len(parts), NEW s \in 0..(f + 1)
  PROVE  LET new == Opened(Opened(parts, f), s)
         IN  /\ new \in Seq(Seq(Byte))
             /\ f < Len(new) /\ s < Len(new)
             /\ Len(parts) <= Len(new)
             /\ \A i \in 1..Len(parts) : new[i] = parts[i]
             /\ \A i \in 1..Len(new) : i > Len(parts) => Len(new[i]) = 0
<1> DEFINE one == Opened(parts, f)
           new == Opened(one, s)
<1>1. /\ one \in Seq(Seq(Byte))
      /\ f < Len(one)
      /\ Len(parts) <= Len(one)
      /\ \A i \in 1..Len(parts) : one[i] = parts[i]
      /\ \A i \in 1..Len(one) : i > Len(parts) => Len(one[i]) = 0
  BY OpenedParts
<1> HIDE DEF one
<1>2. s \in 0..Len(one)
  BY <1>1
<1>3. /\ new \in Seq(Seq(Byte))
      /\ s < Len(new)
      /\ Len(one) <= Len(new)
      /\ \A i \in 1..Len(one) : new[i] = one[i]
      /\ \A i \in 1..Len(new) : i > Len(one) => Len(new[i]) = 0
  BY <1>1, <1>2, OpenedParts
<1> HIDE DEF new
<1>4. Len(parts) \in Nat /\ Len(one) \in Nat /\ Len(new) \in Nat
  BY <1>1, <1>3
<1>5. f < Len(new) /\ Len(parts) <= Len(new)
  BY <1>1, <1>3, <1>4
<1>6. \A i \in 1..Len(parts) : new[i] = parts[i]
  BY <1>1, <1>3, <1>4
<1>7. \A i \in 1..Len(new) : i > Len(parts) => Len(new[i]) = 0
  <2> SUFFICES ASSUME NEW i \in 1..Len(new), i > Len(parts)
               PROVE  Len(new[i]) = 0
    OBVIOUS
  <2>1. CASE i <= Len(one)
    <3>1. i \in 1..Len(one)
      BY <2>1, <1>4
    <3>2. new[i] = one[i]
      BY <3>1, <1>3
    <3>3. Len(one[i]) = 0
      BY <3>1, <1>1
    <3> QED
      BY <3>2, <3>3
  <2>2. CASE i > Len(one)
    BY <2>2, <1>3
  <2> QED
    BY <2>1, <2>2, <1>4
<1> QED
  BY <1>3, <1>5, <1>6, <1>7 DEF new, one

-----------------------------------------------------------------------------
(* The cache over the parts.                                                *)

(* Parts are no longer than partSize.                                       *)
PartsType(d) ==
    /\ d \in Seq(Seq(Byte))
    /\ \A i \in 1..Len(d) : Len(d[i]) <= PartSize

(* Cells hold bytes and lie in parts that exist.                            *)
CellsType(c, d) ==
    \A cell \in DOMAIN c :
        /\ cell \in Nat \X Nat
        /\ c[cell] \in [data : Seq(Byte), queued : BOOLEAN]
        /\ cell[1] < Len(d)
        /\ cell[2] + Len(c[cell].data) <= PartSize

(* What waits to be written meets nothing else that is cached.              *)
Apart(c) ==
    \A cell, other \in DOMAIN c :
        cell # other /\ c[cell].queued =>
            ~Meets(cell, Len(c[cell].data), other, Len(c[other].data))

(* What does not wait is on disk.                                           *)
Clean(c, d) ==
    \A cell \in DOMAIN c : ~c[cell].queued =>
        \A j \in 1..Len(c[cell].data) :
            c[cell].data[j] = OnDisk(d, cell[1], cell[2] + j - 1)

Good(c, d) == Apart(c) /\ Clean(c, d)

(* The byte at an offset is on disk or waits to be written.                 *)
Held(c, d, part, offset) ==
    offset < Len(d[part + 1]) \/ Waiting(c, part, offset) # {}

(* The offsets of a cell.                                                   *)
Reaches(cell, length, part, offset) ==
    cell[1] = part /\ cell[2] <= offset /\ offset < cell[2] + length

(* Two cells that reach an offset meet.                                     *)
LEMMA ReachMeets ==
  ASSUME NEW cell \in Nat \X Nat, NEW other \in Nat \X Nat, NEW n \in Nat, NEW m \in Nat,
         NEW part \in Nat, NEW offset \in Nat,
         Reaches(cell, n, part, offset), Reaches(other, m, part, offset)
  PROVE  Meets(cell, n, other, m) /\ Meets(other, m, cell, n)
<1>1. cell[2] \in Nat /\ other[2] \in Nat
  OBVIOUS
<1> QED
  BY <1>1 DEF Reaches, Meets

(* The parts of CellsType that are used most.                               *)
LEMMA CellFacts ==
  ASSUME NEW c, NEW d, CellsType(c, d), NEW cell \in DOMAIN c
  PROVE  /\ cell \in Nat \X Nat /\ cell[1] \in Nat /\ cell[2] \in Nat
         /\ c[cell].data \in Seq(Byte) /\ Len(c[cell].data) \in Nat
         /\ c[cell].queued \in BOOLEAN
BY DEF CellsType

(* No other cached cell reaches what a waiting cell does.                   *)
LEMMA OneWaits ==
  ASSUME NEW c, NEW d, CellsType(c, d), Apart(c),
         NEW part \in Nat, NEW offset \in Nat,
         NEW cell \in Waiting(c, part, offset), NEW other \in DOMAIN c,
         Reaches(other, Len(c[other].data), part, offset)
  PROVE  other = cell
<1> SUFFICES ASSUME other # cell PROVE FALSE
  OBVIOUS
<1>1. cell \in DOMAIN c /\ c[cell].queued
  BY DEF Waiting
<1>2. Reaches(cell, Len(c[cell].data), part, offset)
  BY DEF Waiting, Reaches
<1>3. Meets(cell, Len(c[cell].data), other, Len(c[other].data))
  BY <1>1, <1>2, CellFacts, ReachMeets
<1> QED
  BY <1>1, <1>3 DEF Apart

(* A cached byte is the byte of the file, where nothing clashes.            *)
LEMMA CachedByte ==
  ASSUME NEW c, NEW d, CellsType(c, d), Good(c, d),
         NEW cell \in DOMAIN c, NEW j \in 1..Len(c[cell].data)
  PROVE  ByteAt(c, d, cell[1], cell[2] + j - 1) = c[cell].data[j]
<1>10. PICK part : part = cell[1]
  OBVIOUS
<1>11. PICK offset : offset = cell[2] + j - 1
  OBVIOUS
<1>1. /\ cell[2] \in Nat /\ Len(c[cell].data) \in Nat /\ c[cell].queued \in BOOLEAN
      /\ part \in Nat
  BY <1>10, CellFacts
<1>2. offset \in Nat /\ offset - cell[2] + 1 = j /\ offset < cell[2] + Len(c[cell].data)
      /\ cell[2] <= offset
  BY <1>1, <1>11
<1>3. Reaches(cell, Len(c[cell].data), part, offset)
  BY <1>2, <1>10 DEF Reaches
<1>4. \A x \in Waiting(c, part, offset) : x = cell
  BY <1>1, <1>2, <1>3, OneWaits DEF Good
<1>5. CASE c[cell].queued
  <2>1. Waiting(c, part, offset) = {cell}
    BY <1>2, <1>3, <1>4, <1>5 DEF Waiting, Reaches
  <2> QED
    BY <1>2, <1>10, <1>11, <2>1 DEF ByteAt
<1>6. CASE ~c[cell].queued
  <2>1. Waiting(c, part, offset) = {}
    BY <1>4, <1>6 DEF Waiting
  <2>2. c[cell].data[j] = OnDisk(d, part, offset)
    BY <1>6, <1>10, <1>11 DEF Good, Clean
  <2> QED
    BY <1>10, <1>11, <2>1, <2>2 DEF ByteAt
<1> QED
  BY <1>1, <1>5, <1>6

(* The byte at an offset is a byte.                                         *)
LEMMA ByteType ==
  ASSUME NEW c, NEW d, CellsType(c, d), PartsType(d),
         NEW part \in Nat, part < Len(d), NEW offset \in Nat
  PROVE  ByteAt(c, d, part, offset) \in Byte
<1>1. CASE Waiting(c, part, offset) = {}
  <2>1. Len(d) \in Nat /\ part + 1 \in 1..Len(d)
    BY DEF PartsType
  <2>2. d[part + 1] \in Seq(Byte)
    BY <2>1 DEF PartsType
  <2>3. CASE offset < Len(d[part + 1])
    <3>1. offset + 1 \in 1..Len(d[part + 1])
      BY <2>2, <2>3
    <3>2. d[part + 1][offset + 1] \in Byte
      BY <2>2, <3>1
    <3> QED
      BY <1>1, <2>3, <3>2 DEF ByteAt, OnDisk
  <2>4. CASE ~(offset < Len(d[part + 1]))
    BY <1>1, <2>4, InfinityFileAssumption DEF ByteAt, OnDisk, InfinityFileAssumption
  <2> QED
    BY <2>3, <2>4
<1>2. CASE Waiting(c, part, offset) # {}
  <2>1. PICK cell : /\ cell = CHOOSE x \in Waiting(c, part, offset) : TRUE
                    /\ cell \in Waiting(c, part, offset)
    BY <1>2
  <2>2. /\ cell \in DOMAIN c /\ cell[2] <= offset
        /\ offset < cell[2] + Len(c[cell].data)
    BY <2>1 DEF Waiting
  <2>3. c[cell].data \in Seq(Byte) /\ cell[2] \in Nat /\ Len(c[cell].data) \in Nat
    BY <2>2, CellFacts
  <2>4. offset - cell[2] + 1 \in 1..Len(c[cell].data)
    BY <2>2, <2>3
  <2>5. c[cell].data[offset - cell[2] + 1] \in Byte
    BY <2>3, <2>4
  <2> QED
    BY <1>2, <2>1, <2>5 DEF ByteAt
<1> QED
  BY <1>1, <1>2
-----------------------------------------------------------------------------
(* What a write, a read, a flush and an opened part do to bytes and cells.  *)

(* A write makes or replaces one cell.                                      *)
LEMMA PutTypes ==
  ASSUME NEW c, NEW d, CellsType(c, d), NEW cell \in Nat \X Nat, cell[1] < Len(d),
         NEW data \in Seq(Byte), cell[2] + Len(data) <= PartSize
  PROVE  CellsType(Put(c, cell, data), d)
BY DEF CellsType, Put, Stored

(* A write that does not clash changes the bytes it writes and no others.   *)
LEMMA PutGood ==
  ASSUME NEW c, NEW d, CellsType(c, d), Good(c, d),
         NEW cell \in Nat \X Nat, cell[1] < Len(d),
         NEW data \in Seq(Byte), cell[2] + Len(data) <= PartSize,
         ~PutClashes(c, cell, data)
  PROVE  LET new == Put(c, cell, data)
         IN  /\ Good(new, d)
             /\ \A part, offset \in Nat :
                   /\ ByteAt(new, d, part, offset) =
                        IF Reaches(cell, Len(data), part, offset)
                        THEN data[offset - cell[2] + 1] ELSE ByteAt(c, d, part, offset)
                   /\ Held(c, d, part, offset) \/ Reaches(cell, Len(data), part, offset)
                        => Held(new, d, part, offset)
<1>1. CASE data = <<>>
  <2>1. Put(c, cell, data) = c
    BY <1>1 DEF Put
  <2>2. \A part, offset \in Nat : ~Reaches(cell, Len(data), part, offset)
    BY <1>1 DEF Reaches
  <2> QED
    BY <2>1, <2>2
<1>2. CASE data # <<>>
  <2>10. PICK new : new = Put(c, cell, data)
    OBVIOUS
  <2>11. PICK n : n = Len(data)
    OBVIOUS
  <2>0. n \in Nat /\ cell[1] \in Nat /\ cell[2] \in Nat
    BY <2>11
  <2>1. /\ DOMAIN new = DOMAIN c \cup {cell}
        /\ new[cell] = [data |-> data, queued |-> TRUE]
        /\ \A x \in DOMAIN c : x # cell => new[x] = c[x]
    BY <1>2, <2>10 DEF Put, Stored
  <2>2. CellsType(new, d)
    BY <2>10, PutTypes
  <2>3. \A other \in DOMAIN c : other # cell =>
           /\ ~Meets(cell, n, other, Len(c[other].data))
           /\ ~Meets(other, Len(c[other].data), cell, n)
    BY <1>2, <2>11 DEF PutClashes, Meets
  <2>4. cell \in DOMAIN c /\ c[cell].queued => Len(c[cell].data) <= n
    <3> SUFFICES ASSUME cell \in DOMAIN c, c[cell].queued PROVE Len(c[cell].data) <= n
      OBVIOUS
    <3>1. ~(n < Len(c[cell].data))
      BY <1>2, <2>11 DEF PutClashes
    <3>2. Len(c[cell].data) \in Nat
      BY CellFacts
    <3> QED
      BY <3>1, <3>2, <2>0
  <2>5. Apart(new)
    <3> SUFFICES ASSUME NEW x \in DOMAIN new, NEW other \in DOMAIN new,
                        x # other, new[x].queued
                 PROVE  ~Meets(x, Len(new[x].data), other, Len(new[other].data))
      BY DEF Apart
    <3>1. CASE x = cell
      BY <3>1, <2>1, <2>3, <2>11
    <3>2. CASE x # cell /\ other = cell
      BY <3>2, <2>1, <2>3, <2>11
    <3>3. CASE x # cell /\ other # cell
      BY <3>3, <2>1 DEF Good, Apart
    <3> QED
      BY <3>1, <3>2, <3>3
  <2>6. Clean(new, d)
    BY <2>1 DEF Good, Clean
  <2>7. ASSUME NEW part \in Nat, NEW offset \in Nat
        PROVE  /\ ByteAt(new, d, part, offset) =
                    IF Reaches(cell, Len(data), part, offset)
                    THEN data[offset - cell[2] + 1] ELSE ByteAt(c, d, part, offset)
               /\ Held(c, d, part, offset) \/ Reaches(cell, Len(data), part, offset)
                    => Held(new, d, part, offset)
    <3>1. CASE Reaches(cell, n, part, offset)
      <4>1. cell \in Waiting(new, part, offset)
        BY <3>1, <2>1, <2>11 DEF Reaches, Waiting
      <4>2. offset - cell[2] + 1 \in 1..Len(new[cell].data)
        BY <3>1, <2>0, <2>1, <2>11 DEF Reaches
      <4>10. PICK j : j = offset - cell[2] + 1
        OBVIOUS
      <4>3. /\ cell[1] = part /\ cell[2] + j - 1 = offset
            /\ j \in 1..Len(new[cell].data) /\ cell \in DOMAIN new
        BY <3>1, <4>2, <4>10, <2>0, <2>1 DEF Reaches
      <4>4. ByteAt(new, d, cell[1], cell[2] + j - 1) = new[cell].data[j]
        BY <2>2, <2>5, <2>6, <4>3, CachedByte DEF Good
      <4>5. ByteAt(new, d, part, offset) = data[offset - cell[2] + 1]
        BY <4>3, <4>4, <4>10, <2>1
      <4>6. Held(new, d, part, offset)
        BY <4>1 DEF Held
      <4> QED
        BY <3>1, <4>5, <4>6, <2>11
    <3>2. CASE ~Reaches(cell, n, part, offset)
      <4>1. cell \notin Waiting(new, part, offset)
        BY <3>2, <2>1, <2>11 DEF Reaches, Waiting
      <4>2. cell \notin Waiting(c, part, offset)
        <5> SUFFICES ASSUME cell \in Waiting(c, part, offset) PROVE FALSE
          OBVIOUS
        <5>1. /\ cell \in DOMAIN c /\ c[cell].queued /\ cell[1] = part
              /\ cell[2] <= offset /\ offset < cell[2] + Len(c[cell].data)
          BY DEF Waiting
        <5>2. Len(c[cell].data) \in Nat /\ Len(c[cell].data) <= n
          BY <5>1, <2>4, CellFacts
        <5> QED
          BY <5>1, <5>2, <2>0, <3>2 DEF Reaches
      <4>3. Waiting(new, part, offset) = Waiting(c, part, offset)
        BY <4>1, <4>2, <2>1 DEF Waiting
      <4>4. \A x \in Waiting(c, part, offset) : new[x] = c[x]
        BY <4>2, <2>1 DEF Waiting
      <4>5. ByteAt(new, d, part, offset) = ByteAt(c, d, part, offset)
        <5>1. CASE Waiting(c, part, offset) = {}
          BY <4>3, <5>1 DEF ByteAt
        <5>2. CASE Waiting(c, part, offset) # {}
          <6>1. (CHOOSE x \in Waiting(c, part, offset) : TRUE) \in Waiting(c, part, offset)
            BY <5>2
          <6> QED
            BY <4>3, <4>4, <5>2, <6>1 DEF ByteAt
        <5> QED
          BY <5>1, <5>2
      <4>6. Held(c, d, part, offset) => Held(new, d, part, offset)
        BY <4>3 DEF Held
      <4> QED
        BY <3>2, <4>5, <4>6, <2>11
    <3> QED
      BY <3>1, <3>2
  <2> QED
    BY <2>5, <2>6, <2>7, <2>10 DEF Good
<1> QED
  BY <1>1, <1>2

(* A read answers bytes, and caches them.                                   *)
LEMMA GetTypes ==
  ASSUME NEW c, NEW d, CellsType(c, d), PartsType(d),
         NEW cell \in Nat \X Nat, cell[1] < Len(d),
         NEW length \in Nat, cell[2] + length <= PartSize
  PROVE  /\ Got(c, d, cell, length) \in Seq(Byte)
         /\ Len(Got(c, d, cell, length)) = length
         /\ CellsType(AfterGet(c, d, cell, length), d)
<1>1. CASE cell \in DOMAIN c
  <2>1. c[cell].data \in Seq(Byte)
    BY <1>1, CellFacts
  <2>2. /\ ReadAt(c[cell].data, 0, length) \in Seq(Byte)
        /\ Len(ReadAt(c[cell].data, 0, length)) = length
    <3>1. 0 \in Nat
      OBVIOUS
    <3> QED
      BY <2>1, <3>1, ReadAtBytes
  <2> QED
    BY <1>1, <2>2 DEF Got, AfterGet
<1>2. CASE cell \notin DOMAIN c
  <2>1. cell[1] \in Nat /\ cell[2] \in Nat /\ Len(d) \in Nat /\ cell[1] + 1 \in 1..Len(d)
    BY DEF PartsType
  <2>2. d[cell[1] + 1] \in Seq(Byte)
    BY <2>1 DEF PartsType
  <2>10. PICK got : got = ReadAt(d[cell[1] + 1], cell[2], length)
    OBVIOUS
  <2>3. got \in Seq(Byte) /\ Len(got) = length
    BY <2>1, <2>2, <2>10, ReadAtBytes
  <2>4. Got(c, d, cell, length) = got /\ AfterGet(c, d, cell, length) = Stored(c, cell, got, FALSE)
    BY <1>2, <2>10 DEF Got, AfterGet
  <2>5. CellsType(Stored(c, cell, got, FALSE), d)
    BY <2>3 DEF Stored, CellsType
  <2> QED
    BY <2>3, <2>4, <2>5
<1> QED
  BY <1>1, <1>2

(* A read of a cell, and what it returns and leaves.                        *)
Reading(c, d, cell, length) ==
    /\ CellsType(c, d) /\ PartsType(d)
    /\ cell \in Nat \X Nat /\ cell[1] < Len(d)
    /\ length \in Nat /\ cell[2] + length <= PartSize

SeenWell(c, d, cell, length, new, got) ==
    /\ Good(new, d)
    /\ \A part, offset \in Nat :
          /\ ByteAt(new, d, part, offset) = ByteAt(c, d, part, offset)
          /\ Held(c, d, part, offset) => Held(new, d, part, offset)
    /\ \A i \in 1..length : got[i] = ByteAt(c, d, cell[1], cell[2] + i - 1)

(* What a read returns is as long as was asked, and the cache stays right.  *)
LEMMA ReadTypes ==
  ASSUME NEW c, NEW d, NEW cell, NEW length, Reading(c, d, cell, length)
  PROVE  /\ Got(c, d, cell, length) \in Seq(Byte)
         /\ Len(Got(c, d, cell, length)) = length
         /\ CellsType(AfterGet(c, d, cell, length), d)
<1>1. /\ CellsType(c, d) /\ PartsType(d)
      /\ cell \in Nat \X Nat /\ cell[1] < Len(d)
      /\ length \in Nat /\ cell[2] + length <= PartSize
  BY DEF Reading
<1> QED
  BY <1>1, GetTypes

(* A read that does not clash answers the bytes of the file and leaves them.*)
LEMMA GetGood ==
  ASSUME NEW c, NEW d, NEW cell, NEW length, Reading(c, d, cell, length),
         Good(c, d), ~GetClashes(c, cell, length)
  PROVE  SeenWell(c, d, cell, length, AfterGet(c, d, cell, length), Got(c, d, cell, length))
<1>20. /\ CellsType(c, d) /\ PartsType(d) /\ Good(c, d)
       /\ cell \in Nat \X Nat /\ cell[1] < Len(d)
       /\ length \in Nat /\ cell[2] + length <= PartSize
       /\ ~GetClashes(c, cell, length)
  BY DEF Reading
<1> USE <1>20
<1> SUFFICES LET new == AfterGet(c, d, cell, length)
             IN  /\ Good(new, d)
                 /\ \A part, offset \in Nat :
                       /\ ByteAt(new, d, part, offset) = ByteAt(c, d, part, offset)
                       /\ Held(c, d, part, offset) => Held(new, d, part, offset)
                 /\ \A i \in 1..length :
                       Got(c, d, cell, length)[i] = ByteAt(c, d, cell[1], cell[2] + i - 1)
  BY DEF SeenWell
<1>0. cell[1] \in Nat /\ cell[2] \in Nat
  OBVIOUS
<1>1. CASE cell \in DOMAIN c
  <2>1. AfterGet(c, d, cell, length) = c
    BY <1>1 DEF AfterGet
  <2>2. Len(c[cell].data) \in Nat /\ c[cell].data \in Seq(Byte)
    BY <1>1, CellFacts
  <2>3. length <= Len(c[cell].data)
    BY <1>1, <2>2 DEF GetClashes
  <2>4. ASSUME NEW i \in 1..length
        PROVE  Got(c, d, cell, length)[i] = ByteAt(c, d, cell[1], cell[2] + i - 1)
    <3>1. i \in 1..Len(c[cell].data) /\ 0 + i = i
      BY <2>2, <2>3
    <3>2. Got(c, d, cell, length)[i] = c[cell].data[i]
      BY <1>1, <2>2, <3>1 DEF Got, ReadAt
    <3> QED
      BY <1>1, <3>1, <3>2, CachedByte
  <2> QED
    BY <2>1, <2>4
<1>2. CASE cell \notin DOMAIN c
  <2>10. PICK got : got = ReadAt(d[cell[1] + 1], cell[2], length)
    OBVIOUS
  <2>11. PICK new : new = AfterGet(c, d, cell, length)
    OBVIOUS
  <2>1. /\ DOMAIN new = DOMAIN c \cup {cell}
        /\ new[cell] = [data |-> got, queued |-> FALSE]
        /\ \A x \in DOMAIN c : new[x] = c[x]
        /\ Got(c, d, cell, length) = got
    BY <1>2, <2>10, <2>11 DEF AfterGet, Stored, Got
  <2>2. got \in Seq(Byte) /\ Len(got) = length
    BY <2>1, GetTypes
  <2>3. \A other \in DOMAIN c : c[other].queued =>
           /\ other # cell
           /\ ~Meets(cell, length, other, Len(c[other].data))
           /\ ~Meets(other, Len(c[other].data), cell, length)
    BY <1>2 DEF GetClashes, Meets
  <2>4. \A i \in 1..length : got[i] = OnDisk(d, cell[1], cell[2] + i - 1)
    <3> TAKE i \in 1..length
    <3>1. Len(d) \in Nat /\ cell[1] + 1 \in 1..Len(d)
      BY <1>0 DEF PartsType
    <3>2. Len(d[cell[1] + 1]) \in Nat
      BY <3>1 DEF PartsType
    <3>3. /\ cell[2] + i <= Len(d[cell[1] + 1]) <=> cell[2] + i - 1 < Len(d[cell[1] + 1])
          /\ cell[2] + i - 1 + 1 = cell[2] + i
      BY <1>0, <3>2
    <3> QED
      BY <2>10, <3>3 DEF ReadAt, OnDisk
  <2>5. Apart(new)
    <3> SUFFICES ASSUME NEW x \in DOMAIN new, NEW other \in DOMAIN new,
                        x # other, new[x].queued
                 PROVE  ~Meets(x, Len(new[x].data), other, Len(new[other].data))
      BY DEF Apart
    <3>1. x # cell /\ x \in DOMAIN c /\ c[x].queued /\ new[x] = c[x]
      BY <2>1
    <3>2. CASE other = cell
      BY <3>1, <3>2, <2>1, <2>2, <2>3
    <3>3. CASE other # cell
      BY <3>1, <3>3, <2>1 DEF Good, Apart
    <3> QED
      BY <3>2, <3>3
  <2>6. Clean(new, d)
    <3> SUFFICES ASSUME NEW x \in DOMAIN new, ~new[x].queued, NEW j \in 1..Len(new[x].data)
                 PROVE  new[x].data[j] = OnDisk(d, x[1], x[2] + j - 1)
      BY DEF Clean
    <3>1. CASE x = cell
      BY <3>1, <2>1, <2>2, <2>4
    <3>2. CASE x # cell
      BY <3>2, <2>1 DEF Good, Clean
    <3> QED
      BY <3>1, <3>2
  <2>7. \A part, offset \in Nat :
           /\ Waiting(new, part, offset) = Waiting(c, part, offset)
           /\ \A x \in Waiting(c, part, offset) : new[x] = c[x]
    BY <1>2, <2>1 DEF Waiting
  <2>8. ASSUME NEW part \in Nat, NEW offset \in Nat
        PROVE  /\ ByteAt(new, d, part, offset) = ByteAt(c, d, part, offset)
               /\ Held(c, d, part, offset) => Held(new, d, part, offset)
    <3>1. CASE Waiting(c, part, offset) = {}
      BY <2>7, <3>1 DEF ByteAt, Held
    <3>2. CASE Waiting(c, part, offset) # {}
      <4>1. (CHOOSE x \in Waiting(c, part, offset) : TRUE) \in Waiting(c, part, offset)
        BY <3>2
      <4>2. Waiting(new, part, offset) = Waiting(c, part, offset)
        BY <2>7
      <4>3. \A x \in Waiting(c, part, offset) : new[x] = c[x]
        BY <2>7
      <4>4. ByteAt(new, d, part, offset) = ByteAt(c, d, part, offset)
        BY <4>1, <4>2, <4>3, <3>2 DEF ByteAt
      <4>5. Held(c, d, part, offset) => Held(new, d, part, offset)
        BY <4>2 DEF Held
      <4> QED
        BY <4>4, <4>5
    <3> QED
      BY <3>1, <3>2
  <2>9. ASSUME NEW i \in 1..length
        PROVE  got[i] = ByteAt(c, d, cell[1], cell[2] + i - 1)
    <3>10. PICK offset : offset = cell[2] + i - 1
      OBVIOUS
    <3>1. offset \in Nat /\ cell[2] <= offset /\ offset < cell[2] + length
      BY <1>0, <3>10
    <3>2. Reaches(cell, length, cell[1], offset)
      BY <3>1 DEF Reaches
    <3>3. Waiting(c, cell[1], offset) = {}
      <4> SUFFICES ASSUME NEW x \in Waiting(c, cell[1], offset) PROVE FALSE
        OBVIOUS
      <4>1. x \in DOMAIN c /\ c[x].queued /\ Reaches(x, Len(c[x].data), cell[1], offset)
        BY DEF Waiting, Reaches
      <4>2. x \in Nat \X Nat /\ Len(c[x].data) \in Nat
        BY <4>1, CellFacts
      <4>3. Meets(cell, length, x, Len(c[x].data))
        BY <1>0, <3>1, <3>2, <4>1, <4>2, ReachMeets
      <4> QED
        BY <2>3, <4>1, <4>3
    <3> QED
      BY <2>4, <3>3, <3>10 DEF ByteAt
  <2> QED
    BY <2>1, <2>5, <2>6, <2>8, <2>9, <2>11 DEF Good
<1> QED
  BY <1>1, <1>2

(* What is on disk after a cell is written there.                           *)
LEMMA SavedDisk ==
  ASSUME NEW d, PartsType(d), NEW cell \in Nat \X Nat, cell[1] < Len(d),
         NEW data \in Seq(Byte), cell[2] + Len(data) <= PartSize
  PROVE  LET new == [d EXCEPT ![cell[1] + 1] = WriteAt(@, cell[2], data)]
         IN  /\ PartsType(new) /\ Len(new) = Len(d)
             /\ \A part, offset \in Nat : part < Len(d) =>
                   /\ OnDisk(new, part, offset) =
                        IF Reaches(cell, Len(data), part, offset)
                        THEN data[offset - cell[2] + 1] ELSE OnDisk(d, part, offset)
                   /\ offset < Len(d[part + 1]) \/ Reaches(cell, Len(data), part, offset)
                        => offset < Len(new[part + 1])
<1>10. PICK n : n = Len(data)
  OBVIOUS
<1>11. PICK index : index = cell[1] + 1
  OBVIOUS
<1>12. PICK old : old = d[index]
  OBVIOUS
<1>13. PICK bytes : bytes = WriteAt(old, cell[2], data)
  OBVIOUS
<1>14. PICK new : new = [d EXCEPT ![cell[1] + 1] = WriteAt(@, cell[2], data)]
  OBVIOUS
<1>1. /\ n \in Nat /\ cell[1] \in Nat /\ cell[2] \in Nat /\ Len(d) \in Nat
      /\ index \in 1..Len(d) /\ PartSize \in Nat /\ cell[2] + n <= PartSize
  BY <1>10, <1>11, InfinityFileAssumption DEF PartsType, InfinityFileAssumption
<1>2. old \in Seq(Byte) /\ Len(old) \in Nat /\ Len(old) <= PartSize
  BY <1>1, <1>12 DEF PartsType
<1>3. /\ bytes \in Seq(Byte) /\ Len(bytes) \in Nat /\ Len(bytes) >= Len(old)
      /\ Len(bytes) <= PartSize
      /\ data # <<>> => Len(bytes) >= cell[2] + n
  <2>1. /\ bytes \in Seq(Byte)
        /\ Len(bytes) >= Len(old)
        /\ data # <<>> => Len(bytes) >= cell[2] + Len(data)
        /\ \A m \in Nat : (Len(old) <= m /\ cell[2] + Len(data) <= m) => Len(bytes) <= m
    BY <1>1, <1>2, <1>13, WriteAtBytes
  <2> QED
    BY <2>1, <1>1, <1>2, <1>10
<1>4. \A offset \in Nat :
         (IF offset < Len(bytes) THEN bytes[offset + 1] ELSE 0) =
            IF cell[2] <= offset /\ offset < cell[2] + n THEN data[offset - cell[2] + 1]
            ELSE IF offset < Len(old) THEN old[offset + 1] ELSE 0
  <2> TAKE offset \in Nat
  <2>1. CASE offset < Len(bytes)
    <3>1. offset + 1 \in 1..Len(bytes)
      BY <2>1, <1>3
    <3>2. bytes[offset + 1] =
             IF cell[2] < offset + 1 /\ offset + 1 <= cell[2] + Len(data)
             THEN data[offset + 1 - cell[2]]
             ELSE IF offset + 1 <= Len(old) THEN old[offset + 1] ELSE 0
      <4>1. PICK k : k = offset + 1
        OBVIOUS
      <4>2. bytes[k] = IF cell[2] < k /\ k <= cell[2] + Len(data) THEN data[k - cell[2]]
                       ELSE IF k <= Len(old) THEN old[k] ELSE 0
        <5>1. PICK m : m = IF cell[2] + Len(data) > Len(old) /\ data # <<>>
                           THEN cell[2] + Len(data) ELSE Len(old)
          OBVIOUS
        <5>2. bytes = [i \in 1..m |->
                         IF cell[2] < i /\ i <= cell[2] + Len(data) THEN data[i - cell[2]]
                         ELSE IF i <= Len(old) THEN old[i] ELSE 0]
          BY <1>13, <5>1 DEF WriteAt
        <5>3. m \in Nat
          BY <1>1, <1>2, <1>10, <5>1
        <5>4. k \in 1..m
          BY <5>2, <5>3, <3>1, <4>1
        <5> QED
          BY <5>2, <5>4
      <4> QED
        BY <4>1, <4>2
    <3>3. /\ cell[2] < offset + 1 <=> cell[2] <= offset
          /\ offset + 1 <= cell[2] + Len(data) <=> offset < cell[2] + n
          /\ offset + 1 <= Len(old) <=> offset < Len(old)
          /\ offset + 1 - cell[2] = offset - cell[2] + 1
      BY <1>1, <1>2, <1>10
    <3> QED
      BY <2>1, <3>2, <3>3
  <2>2. CASE ~(offset < Len(bytes))
    <3>1. ~(offset < Len(old))
      BY <2>2, <1>2, <1>3
    <3>2. ~(cell[2] <= offset /\ offset < cell[2] + n)
      <4>1. CASE data # <<>>
        BY <4>1, <2>2, <1>1, <1>3
      <4>2. CASE data = <<>>
        <5>1. n = 0
          BY <4>2, <1>10
        <5> QED
          BY <5>1, <1>1
      <4> QED
        BY <4>1, <4>2
    <3> QED
      BY <2>2, <3>1, <3>2
  <2> QED
    BY <2>1, <2>2
<1>5. /\ new[index] = bytes /\ Len(new) = Len(d) /\ new \in Seq(Seq(Byte))
      /\ \A i \in 1..Len(d) : i # index => new[i] = d[i]
  BY <1>1, <1>3, <1>11, <1>12, <1>13, <1>14 DEF PartsType
<1>6. PartsType(new)
  <2>1. \A i \in 1..Len(new) : Len(new[i]) <= PartSize
    BY <1>1, <1>3, <1>5 DEF PartsType
  <2> QED
    BY <1>5, <2>1 DEF PartsType
<1>7. ASSUME NEW part \in Nat, NEW offset \in Nat, part < Len(d)
      PROVE  /\ OnDisk(new, part, offset) =
                  IF Reaches(cell, n, part, offset)
                  THEN data[offset - cell[2] + 1] ELSE OnDisk(d, part, offset)
             /\ offset < Len(d[part + 1]) \/ Reaches(cell, n, part, offset)
                  => offset < Len(new[part + 1])
  <2>1. CASE part = cell[1]
    <3>1. part + 1 = index /\ new[part + 1] = bytes /\ d[part + 1] = old
      BY <2>1, <1>5, <1>11, <1>12
    <3>2. Reaches(cell, n, part, offset) <=> cell[2] <= offset /\ offset < cell[2] + n
      BY <2>1 DEF Reaches
    <3>3. OnDisk(new, part, offset) = IF offset < Len(bytes) THEN bytes[offset + 1] ELSE 0
      BY <3>1 DEF OnDisk
    <3>4. OnDisk(d, part, offset) = IF offset < Len(old) THEN old[offset + 1] ELSE 0
      BY <3>1 DEF OnDisk
    <3>5. OnDisk(new, part, offset) =
             IF Reaches(cell, n, part, offset)
             THEN data[offset - cell[2] + 1] ELSE OnDisk(d, part, offset)
      BY <1>4, <3>2, <3>3, <3>4
    <3>6. offset < Len(old) => offset < Len(bytes)
      BY <1>2, <1>3
    <3>7. Reaches(cell, n, part, offset) => offset < Len(bytes)
      <4> SUFFICES ASSUME cell[2] <= offset, offset < cell[2] + n
                   PROVE  offset < Len(bytes)
        BY <3>2
      <4>1. data # <<>>
        <5>1. data = <<>> => n = 0
          BY <1>10
        <5> QED
          BY <5>1, <1>1
      <4> QED
        BY <4>1, <1>1, <1>3
    <3> QED
      BY <3>1, <3>5, <3>6, <3>7
  <2>2. CASE part # cell[1]
    <3>1. part + 1 \in 1..Len(d) /\ part + 1 # index
      BY <2>2, <1>1, <1>7, <1>11
    <3>2. new[part + 1] = d[part + 1]
      BY <3>1, <1>5
    <3>3. ~Reaches(cell, n, part, offset)
      BY <2>2 DEF Reaches
    <3> QED
      BY <3>2, <3>3 DEF OnDisk
  <2> QED
    BY <2>1, <2>2
<1> QED
  BY <1>5, <1>6, <1>7, <1>10, <1>14

(* A waiting cell that is written to disk, and stays cached or not, leaves  *)
(* the bytes of the file as they are.                                       *)
LEMMA SavedGood ==
  ASSUME NEW c, NEW d, CellsType(c, d), PartsType(d), Good(c, d),
         NEW cell \in DOMAIN c, c[cell].queued,
         NEW new, DOMAIN new \subseteq DOMAIN c, DOMAIN c \ {cell} \subseteq DOMAIN new,
         \A x \in DOMAIN new : x # cell => new[x] = c[x],
         cell \in DOMAIN new => new[cell].data = c[cell].data /\ ~new[cell].queued,
         NEW saved, saved = [d EXCEPT ![cell[1] + 1] = WriteAt(@, cell[2], c[cell].data)]
  PROVE  /\ Good(new, saved)
         /\ \A part, offset \in Nat : part < Len(d) =>
               /\ ByteAt(new, saved, part, offset) = ByteAt(c, d, part, offset)
               /\ Held(c, d, part, offset) => Held(new, saved, part, offset)
<1>10. PICK data : data = c[cell].data
  OBVIOUS
<1>11. PICK n : n = Len(data)
  OBVIOUS
<1>1. /\ cell \in Nat \X Nat /\ cell[1] \in Nat /\ cell[2] \in Nat /\ cell[1] < Len(d)
      /\ data \in Seq(Byte) /\ n \in Nat /\ cell[2] + n <= PartSize
  BY <1>10, <1>11, CellFacts DEF CellsType
<1>2. \A part, offset \in Nat : part < Len(d) =>
         /\ OnDisk(saved, part, offset) =
              IF Reaches(cell, n, part, offset)
              THEN data[offset - cell[2] + 1] ELSE OnDisk(d, part, offset)
         /\ offset < Len(d[part + 1]) \/ Reaches(cell, n, part, offset)
              => offset < Len(saved[part + 1])
  <2>1. saved = [d EXCEPT ![cell[1] + 1] = WriteAt(@, cell[2], data)]
    BY <1>10
  <2>2. \A part, offset \in Nat : part < Len(d) =>
           LET disk2 == [d EXCEPT ![cell[1] + 1] = WriteAt(@, cell[2], data)]
           IN  /\ OnDisk(disk2, part, offset) =
                    IF Reaches(cell, Len(data), part, offset)
                    THEN data[offset - cell[2] + 1] ELSE OnDisk(d, part, offset)
               /\ offset < Len(d[part + 1]) \/ Reaches(cell, Len(data), part, offset)
                    => offset < Len(disk2[part + 1])
    BY <1>1, <1>11, SavedDisk
  <2> QED
    BY <2>1, <2>2, <1>11
<1>3. Apart(new)
  <2> SUFFICES ASSUME NEW x \in DOMAIN new, NEW other \in DOMAIN new,
                      x # other, new[x].queued
               PROVE  ~Meets(x, Len(new[x].data), other, Len(new[other].data))
    BY DEF Apart
  <2>1. x # cell /\ new[x] = c[x] /\ x \in DOMAIN c /\ other \in DOMAIN c
    OBVIOUS
  <2>2. new[other].data = c[other].data
    OBVIOUS
  <2> QED
    BY <2>1, <2>2 DEF Good, Apart
<1>4. Clean(new, saved)
  <2> SUFFICES ASSUME NEW x \in DOMAIN new, ~new[x].queued, NEW j \in 1..Len(new[x].data)
               PROVE  new[x].data[j] = OnDisk(saved, x[1], x[2] + j - 1)
    BY DEF Clean
  <2>1. /\ x \in Nat \X Nat /\ x[1] \in Nat /\ x[2] \in Nat /\ x[1] < Len(d)
        /\ new[x].data = c[x].data /\ Len(c[x].data) \in Nat
    BY CellFacts DEF CellsType
  <2>10. PICK offset : offset = x[2] + j - 1
    OBVIOUS
  <2>2. /\ offset \in Nat /\ x[2] <= offset /\ offset < x[2] + Len(c[x].data)
        /\ offset - x[2] + 1 = j
    BY <2>1, <2>10
  <2>3. CASE x = cell
    <3>1. Reaches(cell, n, x[1], offset)
      BY <2>2, <2>3, <1>10, <1>11 DEF Reaches
    <3>2. OnDisk(saved, x[1], offset) = data[offset - cell[2] + 1]
      BY <1>2, <2>1, <2>2, <3>1
    <3> QED
      BY <2>1, <2>2, <2>3, <2>10, <3>2, <1>10
  <2>4. CASE x # cell
    <3>1. ~Reaches(cell, n, x[1], offset)
      <4> SUFFICES ASSUME Reaches(cell, n, x[1], offset) PROVE FALSE
        OBVIOUS
      <4>1. Reaches(x, Len(c[x].data), x[1], offset)
        BY <2>2 DEF Reaches
      <4>2. Meets(cell, n, x, Len(c[x].data))
        BY <1>1, <2>1, <2>2, <4>1, ReachMeets
      <4>3. Meets(cell, Len(c[cell].data), x, Len(c[x].data))
        BY <4>2, <1>10, <1>11
      <4>4. x \in DOMAIN c /\ cell # x
        BY <2>4
      <4>5. Apart(c)
        BY DEF Good
      <4>6. \A other \in DOMAIN c : cell # other =>
               ~Meets(cell, Len(c[cell].data), other, Len(c[other].data))
        BY <4>5 DEF Apart
      <4> QED
        BY <4>3, <4>4, <4>6
    <3>2. OnDisk(saved, x[1], offset) = OnDisk(d, x[1], offset)
      <4>1. \A part, o \in Nat : part < Len(d) /\ ~Reaches(cell, n, part, o) =>
               OnDisk(saved, part, o) = OnDisk(d, part, o)
        BY <1>2
      <4>2. x[1] \in Nat /\ offset \in Nat /\ x[1] < Len(d)
        BY <2>1, <2>2
      <4> QED
        BY <3>1, <4>1, <4>2
    <3>3. c[x].data[j] = OnDisk(d, x[1], offset)
      BY <2>1, <2>4, <2>10 DEF Good, Clean
    <3> QED
      BY <2>1, <2>10, <3>2, <3>3
  <2> QED
    BY <2>3, <2>4
<1>5. ASSUME NEW part \in Nat, NEW offset \in Nat, part < Len(d)
      PROVE  /\ ByteAt(new, saved, part, offset) = ByteAt(c, d, part, offset)
             /\ Held(c, d, part, offset) => Held(new, saved, part, offset)
  <2>1. CASE Reaches(cell, n, part, offset)
    <3>1. cell \in Waiting(c, part, offset)
      BY <2>1, <1>10, <1>11 DEF Waiting, Reaches
    <3>2. Waiting(c, part, offset) = {cell}
      <4>1. \A x \in Waiting(c, part, offset) :
               x \in DOMAIN c /\ Reaches(x, Len(c[x].data), part, offset)
        BY DEF Waiting, Reaches
      <4>2. \A x \in Waiting(c, part, offset) : x = cell
        BY <3>1, <4>1, OneWaits DEF Good
      <4> QED
        BY <3>1, <4>2
    <3>3. Waiting(new, part, offset) = {}
      <4>1. \A x \in Waiting(new, part, offset) :
               x # cell /\ x \in Waiting(c, part, offset)
        BY DEF Waiting
      <4> QED
        BY <3>2, <4>1
    <3>4. ByteAt(c, d, part, offset) = data[offset - cell[2] + 1]
      BY <3>2, <1>10 DEF ByteAt
    <3>5. ByteAt(new, saved, part, offset) = OnDisk(saved, part, offset)
      BY <3>3 DEF ByteAt
    <3>6. OnDisk(saved, part, offset) = data[offset - cell[2] + 1]
      BY <1>2, <1>5, <2>1
    <3>7. Held(new, saved, part, offset)
      BY <1>2, <1>5, <2>1 DEF Held
    <3> QED
      BY <3>4, <3>5, <3>6, <3>7
  <2>2. CASE ~Reaches(cell, n, part, offset)
    <3>1. cell \notin Waiting(c, part, offset)
      BY <2>2, <1>10, <1>11 DEF Waiting, Reaches
    <3>2. cell \notin Waiting(new, part, offset)
      BY DEF Waiting
    <3>3. Waiting(new, part, offset) = Waiting(c, part, offset)
      BY <3>1, <3>2 DEF Waiting
    <3>4. \A x \in Waiting(c, part, offset) : new[x] = c[x]
      BY <3>1 DEF Waiting
    <3>5. OnDisk(saved, part, offset) = OnDisk(d, part, offset)
      BY <1>2, <1>5, <2>2
    <3>6. ByteAt(new, saved, part, offset) = ByteAt(c, d, part, offset)
      <4>1. CASE Waiting(c, part, offset) = {}
        BY <3>3, <3>5, <4>1 DEF ByteAt
      <4>2. CASE Waiting(c, part, offset) # {}
        <5>1. (CHOOSE x \in Waiting(c, part, offset) : TRUE) \in Waiting(c, part, offset)
          BY <4>2
        <5> QED
          BY <3>3, <3>4, <4>2, <5>1 DEF ByteAt
      <4> QED
        BY <4>1, <4>2
    <3>7. Held(c, d, part, offset) => Held(new, saved, part, offset)
      BY <1>2, <1>5, <3>3 DEF Held
    <3> QED
      BY <3>6, <3>7
  <2> QED
    BY <2>1, <2>2
<1> QED
  BY <1>3, <1>4, <1>5 DEF Good

(* An access that opens parts f and s of d, and what it leaves: parts and   *)
(* cells that are still right, with the same bytes.                         *)
Opening(c, d, f, s) ==
    CellsType(c, d) /\ PartsType(d) /\ f \in 0..Len(d) /\ s \in 0..(f + 1)

OpenedWell(c, d, f, s, new) ==
    /\ PartsType(new) /\ CellsType(c, new)
    /\ f < Len(new) /\ s < Len(new) /\ Len(d) <= Len(new) /\ Len(new) \in Nat
    /\ Good(c, d) => Good(c, new)
    /\ \A part, offset \in Nat : part < Len(d) =>
          /\ ByteAt(c, new, part, offset) = ByteAt(c, d, part, offset)
          /\ Held(c, d, part, offset) => Held(c, new, part, offset)

(* Opening parts leaves bytes and cells as they are.                        *)
LEMMA OpenedGood ==
  ASSUME NEW c, NEW d, NEW f, NEW s, Opening(c, d, f, s)
  PROVE  OpenedWell(c, d, f, s, Opened(Opened(d, f), s))
<1>10. PICK new : new = Opened(Opened(d, f), s)
  OBVIOUS
<1>11. CellsType(c, d) /\ PartsType(d) /\ f \in 0..Len(d) /\ s \in 0..(f + 1)
  BY DEF Opening
<1>1. /\ new \in Seq(Seq(Byte))
      /\ f < Len(new) /\ s < Len(new) /\ Len(d) <= Len(new)
      /\ \A i \in 1..Len(d) : new[i] = d[i]
      /\ \A i \in 1..Len(new) : i > Len(d) => Len(new[i]) = 0
  BY <1>10, <1>11, OpenedTwice DEF PartsType
<1>2. Len(d) \in Nat /\ Len(new) \in Nat /\ PartSize \in Nat
  BY <1>1, <1>11, InfinityFileAssumption DEF PartsType, InfinityFileAssumption
<1>3. PartsType(new)
  <2>1. \A i \in 1..Len(d) : Len(d[i]) <= PartSize
    BY <1>11 DEF PartsType
  <2>2. \A i \in 1..Len(new) : Len(new[i]) <= PartSize
    <3> TAKE i \in 1..Len(new)
    <3>1. CASE i > Len(d)
      BY <1>1, <1>2, <3>1
    <3>2. CASE ~(i > Len(d))
      <4>1. i \in 1..Len(d)
        BY <1>2, <3>2
      <4> QED
        BY <1>1, <2>1, <4>1
    <3> QED
      BY <3>1, <3>2
  <2> QED
    BY <1>1, <2>2 DEF PartsType
<1>4. CellsType(c, new)
  <2>1. \A cell \in DOMAIN c : cell[1] \in Nat /\ cell[1] < Len(d)
    BY <1>11, CellFacts DEF CellsType
  <2>2. \A cell \in DOMAIN c : cell[1] < Len(new)
    BY <1>1, <1>2, <2>1
  <2> QED
    BY <1>11, <2>2 DEF CellsType
<1>5. \A part \in Nat : part < Len(d) => new[part + 1] = d[part + 1]
  BY <1>1, <1>2
<1>6. \A part, offset \in Nat : part < Len(d) => OnDisk(new, part, offset) = OnDisk(d, part, offset)
  BY <1>5 DEF OnDisk
<1>7. Good(c, d) => Clean(c, new)
  <2> SUFFICES ASSUME Good(c, d), NEW x \in DOMAIN c, ~c[x].queued,
                      NEW j \in 1..Len(c[x].data)
               PROVE  c[x].data[j] = OnDisk(new, x[1], x[2] + j - 1)
    BY DEF Clean
  <2>1. x[1] \in Nat /\ x[2] \in Nat /\ x[1] < Len(d) /\ Len(c[x].data) \in Nat
    BY <1>11, CellFacts DEF CellsType
  <2>2. x[2] + j - 1 \in Nat
    BY <2>1
  <2> QED
    BY <1>6, <2>1, <2>2 DEF Good, Clean
<1>8. \A part, offset \in Nat : part < Len(d) =>
         /\ ByteAt(c, new, part, offset) = ByteAt(c, d, part, offset)
         /\ Held(c, d, part, offset) => Held(c, new, part, offset)
  BY <1>5, <1>6 DEF ByteAt, Held
<1> QED
  BY <1>1, <1>2, <1>3, <1>4, <1>7, <1>8, <1>10 DEF Good, OpenedWell

-----------------------------------------------------------------------------
(* Accesses and positions.                                                  *)

(* Calls have their type.                                                   *)
LEMMA CallTypes ==
  \A op \in {"open", "add", "write", "read"}, p \in Nat, n \in Nat,
     bs \in Seq(Byte) \cup {Null} :
        Call(op, p, n, bs) \in [op : {"open", "add", "write", "read"}, position : Nat,
                                length : Nat, bytes : Seq(Byte) \cup {Null}]
  BY DEF Call

(* The two cells of an access reach its positions, each in its turn, and no *)
(* others.                                                                  *)
LEMMA TwoCells ==
  ASSUME NEW start \in Nat, NEW n \in 0..PartSize,
         NEW size, size = InFirstPart(start, n),
         NEW first, first = <<PartOf(start), OffsetIn(start)>>,
         NEW second, second = <<PartOf(start + n), 0>>
  PROVE  /\ size \in 0..n
         /\ first \in Nat \X Nat /\ first[2] + size <= PartSize
         /\ second \in Nat \X Nat /\ second[2] + (n - size) <= PartSize
         /\ second[1] \in {first[1], first[1] + 1}
         /\ PartOf(start) # EndFileIndex(start + n) /\ n # 0 =>
               EndFileIndex(start + n) = second[1]
         /\ PartOf(start) = EndFileIndex(start + n) => size = n
         /\ \A k \in Nat :
               LET head == Reaches(first, size, PartOf(k), OffsetIn(k))
                   rest == Reaches(second, n - size, PartOf(k), OffsetIn(k))
               IN  /\ (start <= k /\ k < start + n) <=> head \/ rest
                   /\ head => k - start = OffsetIn(k) - first[2]
                   /\ rest => k - start = OffsetIn(k) + size
<1>10. PICK f : f = PartOf(start)
  OBVIOUS
<1>11. PICK o : o = OffsetIn(start)
  OBVIOUS
<1>12. PICK s : s = PartOf(start + n)
  OBVIOUS
<1>13. PICK t : t = OffsetIn(start + n)
  OBVIOUS
<1>1. /\ PartSize \in Nat \ {0} /\ n \in Nat /\ n <= PartSize /\ start + n \in Nat
      /\ f \in Nat /\ o \in 0..(PartSize - 1) /\ s \in Nat /\ t \in 0..(PartSize - 1)
  <2>1. PartSize \in Nat \ {0} /\ start + n \in Nat
    BY InfinityFileAssumption DEF InfinityFileAssumption
  <2> QED
    BY <2>1, <1>10, <1>11, <1>12, <1>13, Division
<1>2. /\ first[1] = f /\ first[2] = o /\ second[1] = s /\ second[2] = 0
      /\ first \in Nat \X Nat /\ second \in Nat \X Nat
  BY <1>1, <1>10, <1>11, <1>12
<1>3. \A k \in Nat : PartOf(k) \in Nat /\ OffsetIn(k) \in Nat /\ OffsetIn(k) < PartSize
  <2> TAKE k \in Nat
  <2>1. PartOf(k) \in Nat /\ OffsetIn(k) \in 0..(PartSize - 1)
    BY Division
  <2>2. PartSize \in Nat
    BY <1>1
  <2> QED
    BY <2>1, <2>2
<1>4. CASE PartOf(start) = EndFileIndex(start + n)
  <2>1. size = n
    BY <1>4 DEF InFirstPart
  <2>2. /\ o + n <= PartSize /\ s \in {f, f + 1}
        /\ \A k \in Nat : /\ PartOf(k) = f => k - start = OffsetIn(k) - o
                          /\ (start <= k /\ k < start + n) => PartOf(k) = f
    BY <1>4, <1>10, <1>11, <1>12, OnePart
  <2>3. ASSUME NEW k \in Nat
        PROVE  LET head == Reaches(first, size, PartOf(k), OffsetIn(k))
                   rest == Reaches(second, n - size, PartOf(k), OffsetIn(k))
               IN  /\ (start <= k /\ k < start + n) <=> head \/ rest
                   /\ head => k - start = OffsetIn(k) - first[2]
                   /\ rest => k - start = OffsetIn(k) + size
    <3>1. ~Reaches(second, n - size, PartOf(k), OffsetIn(k))
      BY <1>1, <1>2, <1>3, <2>1 DEF Reaches
    <3>2. Reaches(first, size, PartOf(k), OffsetIn(k)) <=>
             PartOf(k) = f /\ o <= OffsetIn(k) /\ OffsetIn(k) < o + n
      BY <1>2, <2>1 DEF Reaches
    <3>3. /\ PartOf(k) = f => k - start = OffsetIn(k) - o
          /\ (start <= k /\ k < start + n) => PartOf(k) = f
      BY <2>2
    <3>4. OffsetIn(k) \in Nat
      BY <1>3
    <3>5. PartOf(k) = f =>
             ((start <= k /\ k < start + n) <=> (o <= OffsetIn(k) /\ OffsetIn(k) < o + n))
      BY <1>1, <3>3, <3>4
    <3> QED
      BY <1>2, <3>1, <3>2, <3>3, <3>5
  <2> QED
    BY <1>1, <1>2, <1>4, <2>1, <2>2, <2>3
<1>5. CASE PartOf(start) # EndFileIndex(start + n)
  <2>1. size = n - t
    BY <1>5, <1>13 DEF InFirstPart
  <2>2. /\ n = 0 => o = 0 /\ t = 0 /\ s = f
        /\ n # 0 => /\ s = f + 1 /\ EndFileIndex(start + n) = s
                    /\ t \in 1..(n - 1) /\ o + (n - t) = PartSize
    BY <1>5, <1>10, <1>11, <1>12, <1>13, TwoParts
  <2>3. \A k \in Nat :
          /\ PartOf(k) = f => k - start = OffsetIn(k) - o
          /\ PartOf(k) = f + 1 => k - start = OffsetIn(k) + PartSize - o
          /\ (start <= k /\ k < start + n) => PartOf(k) \in {f, f + 1}
    BY <1>5, <1>10, <1>11, TwoParts
  <2>4. CASE n = 0
    <3>1. size = 0 /\ s = f /\ o = 0
      BY <2>1, <2>2, <2>4
    <3>2. \A k \in Nat : /\ ~Reaches(first, size, PartOf(k), OffsetIn(k))
                         /\ ~Reaches(second, n - size, PartOf(k), OffsetIn(k))
      BY <1>1, <1>2, <1>3, <2>4, <3>1 DEF Reaches
    <3> QED
      BY <1>1, <1>2, <1>5, <2>4, <3>1, <3>2
  <2>5. CASE n # 0
    <3>1. /\ s = f + 1 /\ EndFileIndex(start + n) = s
          /\ t \in 1..(n - 1) /\ o + size = PartSize
      BY <2>1, <2>2, <2>5
    <3>2. size \in 0..n /\ n - size = t
      BY <1>1, <2>1, <3>1
    <3>3. ASSUME NEW k \in Nat
          PROVE  LET head == Reaches(first, size, PartOf(k), OffsetIn(k))
                     rest == Reaches(second, n - size, PartOf(k), OffsetIn(k))
                 IN  /\ (start <= k /\ k < start + n) <=> head \/ rest
                     /\ head => k - start = OffsetIn(k) - first[2]
                     /\ rest => k - start = OffsetIn(k) + size
      <4>1. /\ Reaches(first, size, PartOf(k), OffsetIn(k)) <=>
                 PartOf(k) = f /\ o <= OffsetIn(k) /\ OffsetIn(k) < o + size
            /\ Reaches(second, n - size, PartOf(k), OffsetIn(k)) <=>
                 PartOf(k) = f + 1 /\ 0 <= OffsetIn(k) /\ OffsetIn(k) < 0 + t
        BY <1>2, <3>1, <3>2 DEF Reaches
      <4>2. OffsetIn(k) \in Nat /\ OffsetIn(k) < PartSize
        BY <1>3
      <4>3. /\ PartOf(k) = f => k - start = OffsetIn(k) - o
            /\ PartOf(k) = f + 1 => k - start = OffsetIn(k) + PartSize - o
            /\ (start <= k /\ k < start + n) => PartOf(k) \in {f, f + 1}
        BY <2>3
      <4>4. PartOf(k) = f + 1 => k - start = OffsetIn(k) + size
        BY <1>1, <3>1, <3>2, <4>2, <4>3
      <4>5. PartOf(k) = f =>
               ((start <= k /\ k < start + n) <=> (o <= OffsetIn(k) /\ OffsetIn(k) < o + size))
        BY <1>1, <3>1, <3>2, <4>2, <4>3
      <4>6. PartOf(k) = f + 1 =>
               ((start <= k /\ k < start + n) <=> (0 <= OffsetIn(k) /\ OffsetIn(k) < 0 + t))
        BY <1>1, <3>1, <3>2, <4>2, <4>4
      <4> QED
        BY <1>2, <4>1, <4>3, <4>4, <4>5, <4>6
    <3>4. second[2] + (n - size) <= PartSize /\ first[2] + size <= PartSize
      BY <1>1, <1>2, <3>1, <3>2
    <3> QED
      BY <1>2, <1>5, <2>5, <3>1, <3>2, <3>3, <3>4
  <2> QED
    BY <2>4, <2>5
<1> QED
  BY <1>4, <1>5

-----------------------------------------------------------------------------
(* The inductive invariant, and what each step does to the flat file.       *)

PartsExist(size, d) == \A k \in 0..(size - 1) : PartOf(k) < Len(d)

AllHeld(size, c, d) == \A k \in 0..(size - 1) : Held(c, d, PartOf(k), OffsetIn(k))

IInv ==
    /\ TypeOK
    /\ PartsType(disk) /\ CellsType(cache, disk)
    /\ PartsExist(sumFilesSize, disk)
    /\ ~rough => Good(cache, disk) /\ AllHeld(sumFilesSize, cache, disk)

(* The byte of the file at a position.                                      *)
At(k) == ByteAt(cache, disk, PartOf(k), OffsetIn(k))

(* The part of any position up to the end exists or is the next to create.  *)
LEMMA PartInReach ==
  ASSUME sumFilesSize \in Nat, disk \in Seq(Seq(Byte)), PartsExist(sumFilesSize, disk),
         NEW start \in 0..sumFilesSize
  PROVE  PartOf(start) \in 0..Len(disk)
<1> PartSize \in Nat \ {0} /\ sumFilesSize \in Nat /\ Len(disk) \in Nat
  BY InfinityFileAssumption DEF InfinityFileAssumption
<1> start \in Nat
  OBVIOUS
<1>1. CASE start = 0
  <2>1. PartOf(0) = 0
    BY PositionIn
  <2> QED
    BY <1>1, <2>1
<1>2. CASE start # 0
  <2> DEFINE a == PartOf(start - 1)
             b == PartOf(start)
  <2> start - 1 \in 0..(sumFilesSize - 1) /\ start - 1 \in Nat
    BY <1>2
  <2>1. a < Len(disk)
    BY <1>2 DEF PartsExist
  <2>2. start - 1 = PartSize * a + OffsetIn(start - 1) /\ a \in Nat
        /\ OffsetIn(start - 1) \in 0..(PartSize - 1)
    BY Division
  <2>3. start = PartSize * b + OffsetIn(start) /\ b \in Nat /\ OffsetIn(start) \in 0..(PartSize - 1)
    BY Division
  <2> HIDE DEF a, b
  <2>4. ~(a + 1 < b)
    <3> SUFFICES ASSUME a + 1 < b PROVE FALSE
      OBVIOUS
    <3>1. PartSize * (a + 1) + PartSize <= PartSize * b
      BY <2>2, <2>3, MulMono
    <3>2. PartSize * (a + 1) = PartSize * a + PartSize
      BY <2>2
    <3> DEFINE c == PartSize * (a + 1)
               d == PartSize * a
               g == PartSize * b
    <3>3. c \in Nat /\ d \in Nat /\ g \in Nat
      BY <2>2, <2>3
    <3>4. /\ start - 1 = d + OffsetIn(start - 1) /\ start = g + OffsetIn(start)
          /\ c + PartSize <= g /\ c = d + PartSize
          /\ OffsetIn(start) \in 0..(PartSize - 1)
          /\ OffsetIn(start - 1) \in 0..(PartSize - 1)
      BY <2>2, <2>3, <3>1, <3>2
    <3> HIDE DEF c, d, g
    <3> QED
      BY <3>3, <3>4
  <2>5. b \in 0..Len(disk)
    BY <2>1, <2>2, <2>3, <2>4
  <2> QED
    BY <2>5 DEF b
<1> QED
  BY <1>1, <1>2

(* The flat file that parts and cache stand for is a sequence of bytes.     *)
LEMMA FlatBytesType ==
  ASSUME IInv
  PROVE  /\ FlatBytes \in Seq(Byte)
         /\ Len(FlatBytes) = sumFilesSize
         /\ sumFilesSize \in Nat
         /\ \A k \in 1..sumFilesSize : FlatBytes[k] = At(k - 1)
<1>1. sumFilesSize \in Nat
  BY DEF IInv, TypeOK
<1>2. ASSUME NEW k \in 1..sumFilesSize
      PROVE  At(k - 1) \in Byte
  <2>1. k - 1 \in Nat /\ k - 1 \in 0..(sumFilesSize - 1)
    BY <1>1
  <2>2. PartOf(k - 1) \in Nat /\ OffsetIn(k - 1) \in Nat
    <3>1. OffsetIn(k - 1) \in 0..(PartSize - 1) /\ PartSize \in Nat
      BY <2>1, Division, InfinityFileAssumption DEF InfinityFileAssumption
    <3> QED
      BY <2>1, <3>1, Division
  <2>3. PartOf(k - 1) < Len(disk)
    BY <2>1 DEF IInv, PartsExist
  <2> QED
    BY <2>2, <2>3, ByteType DEF IInv, At
<1>3. FlatBytes = [k \in 1..sumFilesSize |-> At(k - 1)]
  BY DEF FlatBytes, At
<1> QED
  BY <1>1, <1>2, <1>3

(* What a write leaves, and when it does not clash, what it makes of the    *)
(* bytes of the file.                                                       *)
LEMMA WriteKeeps ==
  ASSUME IInv, NEW start \in 0..sumFilesSize, NEW data \in Seq(Byte),
         Len(data) <= PartSize, write(start, data)
  PROVE  /\ sumFilesSize' = SizeAfter(start, data) /\ rough' \in BOOLEAN
         /\ PartsType(disk') /\ CellsType(cache', disk')
         /\ PartsExist(sumFilesSize', disk')
         /\ ~rough' =>
               /\ ~rough /\ Good(cache', disk')
               /\ \A k \in Nat : k < sumFilesSize \/ (start <= k /\ k < start + Len(data)) =>
                     /\ At(k)' = IF start <= k /\ k < start + Len(data)
                                 THEN data[k - start + 1] ELSE At(k)
                     /\ Held(cache', disk', PartOf(k), OffsetIn(k))
<1>10. PICK n : n = Len(data)
  OBVIOUS
<1>11. PICK size : size = InFirstPart(start, n)
  OBVIOUS
<1>12. PICK first : first = <<PartOf(start), OffsetIn(start)>>
  OBVIOUS
<1>13. PICK second : second = <<PartOf(start + n), 0>>
  OBVIOUS
<1>14. PICK head : head = SubSeq(data, 1, size)
  OBVIOUS
<1>15. PICK rest : rest = SubSeq(data, size + 1, n)
  OBVIOUS
<1>16. PICK mid : mid = Put(cache, first, head)
  OBVIOUS
<1>1. /\ PartSize \in Nat /\ n \in 0..PartSize /\ n \in Nat /\ start \in Nat
      /\ sumFilesSize \in Nat /\ start <= sumFilesSize /\ start + n \in Nat
      /\ rough \in BOOLEAN
  BY <1>10, InfinityFileAssumption DEF InfinityFileAssumption, IInv, TypeOK
<1>2. /\ disk' = Opened(Opened(disk, PartOf(start)), PartOf(start + n))
      /\ cache' = Put(mid, second, rest)
      /\ rough' = (rough \/ PutClashes(cache, first, head) \/ PutClashes(mid, second, rest))
      /\ sumFilesSize' = SizeAfter(start, data)
  <2>1. ~(start > sumFilesSize)
    BY <1>1
  <2>2. first[1] = PartOf(start) /\ second[1] = PartOf(start + n)
    BY <1>12, <1>13
  <2>3. size = InFirstPart(start, Len(data)) /\ rest = SubSeq(data, size + 1, Len(data))
        /\ second = <<PartOf(start + Len(data)), 0>>
    BY <1>10, <1>11, <1>13, <1>15
  <2> QED
    BY <1>12, <1>14, <1>16, <2>1, <2>2, <2>3 DEF write
<1>3. /\ size \in 0..n
      /\ first \in Nat \X Nat /\ first[2] + size <= PartSize
      /\ second \in Nat \X Nat /\ second[2] + (n - size) <= PartSize
      /\ second[1] \in {first[1], first[1] + 1}
  BY <1>1, <1>11, <1>12, <1>13, TwoCells
<1>4. \A k \in Nat :
         /\ (start <= k /\ k < start + n) <=>
               \/ Reaches(first, size, PartOf(k), OffsetIn(k))
               \/ Reaches(second, n - size, PartOf(k), OffsetIn(k))
         /\ Reaches(first, size, PartOf(k), OffsetIn(k)) => k - start = OffsetIn(k) - first[2]
         /\ Reaches(second, n - size, PartOf(k), OffsetIn(k)) => k - start = OffsetIn(k) + size
  BY <1>1, <1>11, <1>12, <1>13, TwoCells
<1>5. /\ head \in Seq(Byte) /\ Len(head) = size
      /\ rest \in Seq(Byte) /\ Len(rest) = n - size
      /\ \A i \in 1..size : head[i] = data[i]
      /\ \A i \in 1..(n - size) : rest[i] = data[size + i]
  <2>1. size \in Nat /\ size <= n /\ n - size \in Nat
    BY <1>1, <1>3
  <2>2. \A i \in 1..n : data[i] \in Byte
    BY <1>10
  <2>3. /\ SubSeq(data, 1, size) \in Seq(Byte)
        /\ Len(SubSeq(data, 1, size)) = size
        /\ \A i \in 1..size : SubSeq(data, 1, size)[i] = data[i]
    <3>1. \A i \in 1..size : data[i] \in Byte
      BY <1>1, <2>1, <2>2
    <3>2. /\ SubSeq(data, 1, size) \in Seq(Byte)
          /\ Len(SubSeq(data, 1, size)) = IF 1 <= size THEN size - 1 + 1 ELSE 0
          /\ \A i \in 1..(size - 1 + 1) : SubSeq(data, 1, size)[i] = data[1 + i - 1]
      <4>1. size \in Int /\ 1 \in Int
        BY <2>1
      <4> QED
        BY <3>1, <4>1, SubSeqProperties
    <3>3. \A i \in 1..size : i \in 1..(size - 1 + 1) /\ 1 + i - 1 = i
      BY <2>1
    <3>4. (IF 1 <= size THEN size - 1 + 1 ELSE 0) = size
      BY <2>1
    <3> QED
      BY <3>2, <3>3, <3>4
  <2>4. /\ SubSeq(data, size + 1, n) \in Seq(Byte)
        /\ Len(SubSeq(data, size + 1, n)) = n - size
        /\ \A i \in 1..(n - size) : SubSeq(data, size + 1, n)[i] = data[size + i]
    <3>1. \A i \in (size + 1)..n : data[i] \in Byte
      BY <1>1, <2>1, <2>2
    <3>2. /\ SubSeq(data, size + 1, n) \in Seq(Byte)
          /\ Len(SubSeq(data, size + 1, n)) =
                IF size + 1 <= n THEN n - (size + 1) + 1 ELSE 0
          /\ \A i \in 1..(n - (size + 1) + 1) :
                SubSeq(data, size + 1, n)[i] = data[(size + 1) + i - 1]
      <4>1. size + 1 \in Int /\ n \in Int
        BY <1>1, <2>1
      <4> QED
        BY <3>1, <4>1, SubSeqProperties
    <3>3. \A i \in 1..(n - size) :
             i \in 1..(n - (size + 1) + 1) /\ (size + 1) + i - 1 = size + i
      BY <1>1, <2>1
    <3>4. (IF size + 1 <= n THEN n - (size + 1) + 1 ELSE 0) = n - size
      BY <1>1, <2>1
    <3> QED
      BY <3>2, <3>3, <3>4
  <2> QED
    BY <1>14, <1>15, <2>3, <2>4
<1>6. PartOf(start) \in 0..Len(disk) /\ PartOf(start) \in Nat /\ Len(disk) \in Nat
  <2>1. disk \in Seq(Seq(Byte)) /\ PartsExist(sumFilesSize, disk)
    BY DEF IInv, TypeOK
  <2>2. PartOf(start) \in 0..Len(disk)
    BY <1>1, <2>1, PartInReach
  <2> QED
    BY <2>1, <2>2
<1>7. PartOf(start + n) \in 0..(PartOf(start) + 1)
  <2>1. first[1] = PartOf(start) /\ second[1] = PartOf(start + n)
    BY <1>12, <1>13
  <2> QED
    BY <1>3, <1>6, <2>1
<1>8. /\ PartsType(disk') /\ CellsType(cache, disk')
      /\ first[1] < Len(disk') /\ second[1] < Len(disk')
      /\ Len(disk) <= Len(disk') /\ Len(disk') \in Nat
      /\ Good(cache, disk) => Good(cache, disk')
      /\ \A part, offset \in Nat : part < Len(disk) =>
            /\ ByteAt(cache, disk', part, offset) = ByteAt(cache, disk, part, offset)
            /\ Held(cache, disk, part, offset) => Held(cache, disk', part, offset)
  <2>1. first[1] = PartOf(start) /\ second[1] = PartOf(start + n)
    BY <1>12, <1>13
  <2>2. CellsType(cache, disk) /\ PartsType(disk)
    BY DEF IInv
  <2>10. PICK f : f = PartOf(start)
    OBVIOUS
  <2>11. PICK s : s = PartOf(start + n)
    OBVIOUS
  <2>12. PICK new : new = disk'
    OBVIOUS
  <2>3. f \in 0..Len(disk) /\ s \in 0..(f + 1) /\ new = Opened(Opened(disk, f), s)
    BY <1>2, <1>6, <1>7, <2>10, <2>11, <2>12
  <2>4. Opening(cache, disk, f, s)
    BY <2>2, <2>3 DEF Opening
  <2>5. OpenedWell(cache, disk, f, s, new)
    BY <2>3, <2>4, OpenedGood
  <2> QED
    BY <2>1, <2>5, <2>10, <2>11, <2>12 DEF OpenedWell
<1>9. CellsType(mid, disk')
  BY <1>3, <1>5, <1>8, <1>16, PutTypes
<1>20. CellsType(cache', disk')
  BY <1>2, <1>3, <1>5, <1>8, <1>9, PutTypes
<1>21. PartsExist(sumFilesSize', disk')
  <2> SUFFICES ASSUME NEW k \in 0..(sumFilesSize' - 1) PROVE PartOf(k) < Len(disk')
    BY DEF PartsExist
  <2>1. k \in Nat /\ (k < sumFilesSize \/ (start <= k /\ k < start + n))
    BY <1>1, <1>2, <1>10 DEF SizeAfter
  <2>2. PartOf(k) \in Nat
    BY <2>1, Division
  <2>3. CASE k < sumFilesSize
    <3>1. PartOf(k) < Len(disk)
      BY <1>1, <2>1, <2>3 DEF IInv, PartsExist
    <3> QED
      BY <1>6, <1>8, <2>2, <3>1
  <2>4. CASE start <= k /\ k < start + n
    BY <1>4, <1>8, <2>1, <2>4 DEF Reaches
  <2> QED
    BY <2>1, <2>3, <2>4
<1>22. ASSUME ~rough'
       PROVE  /\ ~rough /\ Good(cache', disk')
              /\ \A k \in Nat : k < sumFilesSize \/ (start <= k /\ k < start + n) =>
                    /\ At(k)' = IF start <= k /\ k < start + n
                                THEN data[k - start + 1] ELSE At(k)
                    /\ Held(cache', disk', PartOf(k), OffsetIn(k))
  <2>1. /\ ~rough /\ ~PutClashes(cache, first, head) /\ ~PutClashes(mid, second, rest)
    BY <1>2, <1>22
  <2>2. Good(cache, disk') /\ AllHeld(sumFilesSize, cache, disk)
    BY <2>1, <1>8 DEF IInv
  <2>3. /\ Good(mid, disk')
        /\ \A part, offset \in Nat :
              /\ ByteAt(mid, disk', part, offset) =
                   IF Reaches(first, size, part, offset)
                   THEN head[offset - first[2] + 1] ELSE ByteAt(cache, disk', part, offset)
              /\ Held(cache, disk', part, offset) \/ Reaches(first, size, part, offset)
                   => Held(mid, disk', part, offset)
    <3>1. /\ Good(Put(cache, first, head), disk')
          /\ \A part, offset \in Nat :
              /\ ByteAt(Put(cache, first, head), disk', part, offset) =
                   IF Reaches(first, Len(head), part, offset)
                   THEN head[offset - first[2] + 1] ELSE ByteAt(cache, disk', part, offset)
              /\ Held(cache, disk', part, offset) \/ Reaches(first, Len(head), part, offset)
                   => Held(Put(cache, first, head), disk', part, offset)
      BY <1>3, <1>5, <1>8, <2>1, <2>2, PutGood
    <3> QED
      BY <1>5, <1>16, <3>1
  <2>4. /\ Good(cache', disk')
        /\ \A part, offset \in Nat :
              /\ ByteAt(cache', disk', part, offset) =
                   IF Reaches(second, n - size, part, offset)
                   THEN rest[offset - second[2] + 1] ELSE ByteAt(mid, disk', part, offset)
              /\ Held(mid, disk', part, offset) \/ Reaches(second, n - size, part, offset)
                   => Held(cache', disk', part, offset)
    <3>1. /\ Good(Put(mid, second, rest), disk')
          /\ \A part, offset \in Nat :
              /\ ByteAt(Put(mid, second, rest), disk', part, offset) =
                   IF Reaches(second, Len(rest), part, offset)
                   THEN rest[offset - second[2] + 1] ELSE ByteAt(mid, disk', part, offset)
              /\ Held(mid, disk', part, offset) \/ Reaches(second, Len(rest), part, offset)
                   => Held(Put(mid, second, rest), disk', part, offset)
      BY <1>3, <1>5, <1>8, <1>9, <2>1, <2>3, PutGood
    <3> QED
      BY <1>2, <1>5, <3>1
  <2>5. ASSUME NEW k \in Nat, k < sumFilesSize \/ (start <= k /\ k < start + n)
        PROVE  /\ At(k)' = IF start <= k /\ k < start + n
                           THEN data[k - start + 1] ELSE At(k)
               /\ Held(cache', disk', PartOf(k), OffsetIn(k))
    <3>10. PICK part : part = PartOf(k)
      OBVIOUS
    <3>11. PICK offset : offset = OffsetIn(k)
      OBVIOUS
    <3>1. part \in Nat /\ offset \in Nat
      <4>1. offset \in 0..(PartSize - 1) /\ part \in Nat
        BY <3>10, <3>11, Division
      <4> QED
        BY <1>1, <4>1
    <3>2. At(k)' = ByteAt(cache', disk', part, offset)
      BY <3>10, <3>11 DEF At
    <3>3. At(k) = ByteAt(cache, disk, part, offset)
      BY <3>10, <3>11 DEF At
    <3>4. /\ (start <= k /\ k < start + n) <=>
               \/ Reaches(first, size, part, offset)
               \/ Reaches(second, n - size, part, offset)
          /\ Reaches(first, size, part, offset) => k - start = offset - first[2]
          /\ Reaches(second, n - size, part, offset) => k - start = offset + size
      BY <1>4, <3>10, <3>11
    <3>5. CASE Reaches(second, n - size, part, offset)
      <4>1. ByteAt(cache', disk', part, offset) = rest[offset - second[2] + 1]
        BY <2>4, <3>1, <3>5
      <4>2. second[2] = 0 /\ offset + 1 \in 1..(n - size) /\ offset - second[2] + 1 = offset + 1
        BY <1>1, <1>3, <1>13, <3>1, <3>5 DEF Reaches
      <4>3. rest[offset + 1] = data[size + (offset + 1)]
        BY <1>5, <4>2
      <4>4. size + (offset + 1) = k - start + 1
        BY <1>1, <1>3, <3>1, <3>4, <3>5
      <4>5. Held(cache', disk', part, offset)
        BY <2>4, <3>1, <3>5
      <4> QED
        BY <3>2, <3>4, <3>5, <3>10, <3>11, <4>1, <4>2, <4>3, <4>4, <4>5
    <3>6. CASE Reaches(first, size, part, offset) /\ ~Reaches(second, n - size, part, offset)
      <4>1. ByteAt(cache', disk', part, offset) = head[offset - first[2] + 1]
        BY <2>3, <2>4, <3>1, <3>6
      <4>2. first[2] \in Nat /\ offset - first[2] + 1 \in 1..size
        BY <1>1, <1>3, <3>1, <3>6 DEF Reaches
      <4>3. head[offset - first[2] + 1] = data[offset - first[2] + 1]
        BY <1>5, <4>2
      <4>4. offset - first[2] + 1 = k - start + 1
        BY <3>4, <3>6
      <4>5. Held(cache', disk', part, offset)
        BY <2>3, <2>4, <3>1, <3>6
      <4> QED
        BY <3>2, <3>4, <3>6, <3>10, <3>11, <4>1, <4>3, <4>4, <4>5
    <3>7. CASE /\ ~Reaches(first, size, part, offset)
               /\ ~Reaches(second, n - size, part, offset)
      <4>1. ~(start <= k /\ k < start + n) /\ k < sumFilesSize
        BY <2>5, <3>4, <3>7
      <4>2. k \in 0..(sumFilesSize - 1)
        BY <1>1, <4>1
      <4>3. part < Len(disk)
        BY <3>10, <4>2 DEF IInv, PartsExist
      <4>4. Held(cache, disk, part, offset)
        BY <2>2, <3>10, <3>11, <4>2 DEF AllHeld
      <4>5. ByteAt(cache', disk', part, offset) = ByteAt(cache, disk, part, offset)
        <5>1. ByteAt(cache', disk', part, offset) = ByteAt(mid, disk', part, offset)
          BY <2>4, <3>1, <3>7
        <5>2. ByteAt(mid, disk', part, offset) = ByteAt(cache, disk', part, offset)
          BY <2>3, <3>1, <3>7
        <5>3. ByteAt(cache, disk', part, offset) = ByteAt(cache, disk, part, offset)
          BY <1>8, <3>1, <4>3
        <5> QED
          BY <5>1, <5>2, <5>3
      <4>6. Held(cache', disk', part, offset)
        BY <1>8, <2>3, <2>4, <3>1, <4>3, <4>4
      <4> QED
        BY <3>2, <3>3, <3>10, <3>11, <4>1, <4>5, <4>6
    <3> QED
      BY <3>5, <3>6, <3>7
  <2> QED
    BY <2>1, <2>4, <2>5
<1>23. rough' \in BOOLEAN
  BY <1>1, <1>2
<1> QED
  BY <1>2, <1>8, <1>10, <1>20, <1>21, <1>22, <1>23

(* To the flat file a write is an append at the end and an overwrite        *)
(* anywhere else, unless it clashes.                                        *)
LEMMA WriteStep ==
  ASSUME IInv, NEW start \in Nat, NEW data \in Data, write(start, data)
  PROVE  /\ sumFilesSize' \in Nat /\ rough' \in BOOLEAN
         /\ PartsType(disk') /\ CellsType(cache', disk')
         /\ PartsExist(sumFilesSize', disk')
         /\ ~rough' =>
               /\ ~rough /\ Good(cache', disk') /\ AllHeld(sumFilesSize', cache', disk')
               /\ FlatBytes' = IF start = Len(FlatBytes) THEN FlatBytes \o data
                               ELSE Flat!Overwritten(start, data)
<1>10. PICK n : n = Len(data)
  OBVIOUS
<1>1. /\ sumFilesSize \in Nat /\ data \in Seq(Byte) /\ n \in Nat /\ n <= PartSize
      /\ PartSize \in Nat
  BY <1>10, InfinityFileAssumption DEF IInv, TypeOK, InfinityFileAssumption
<1>2. /\ FlatBytes \in Seq(Byte)
      /\ Len(FlatBytes) = sumFilesSize
      /\ \A k \in 1..sumFilesSize : FlatBytes[k] = At(k - 1)
  BY FlatBytesType
<1>3. CASE start > sumFilesSize
  <2>1. UNCHANGED <<sumFilesSize, disk, cache, rough>>
    BY <1>3 DEF write
  <2>2. FlatBytes' = FlatBytes
    BY <2>1 DEF FlatBytes
  <2>3. Flat!Overwritten(start, data) = FlatBytes
    <3>1. \A k \in 1..sumFilesSize : ~(start < k)
      BY <1>1, <1>3
    <3> QED
      BY <1>2, <3>1 DEF Flat!Overwritten
  <2>4. start # Len(FlatBytes)
    BY <1>1, <1>2, <1>3
  <2>5. /\ sumFilesSize' = sumFilesSize /\ disk' = disk /\ cache' = cache /\ rough' = rough
    BY <2>1
  <2> QED
    BY <1>1, <2>2, <2>3, <2>4, <2>5 DEF IInv, TypeOK
<1>4. CASE start <= sumFilesSize
  <2>10. PICK size : size = IF start = sumFilesSize THEN sumFilesSize + n ELSE sumFilesSize
    OBVIOUS
  <2>1. start \in 0..sumFilesSize
    BY <1>1, <1>4
  <2>2. /\ sumFilesSize' = size /\ size \in Nat /\ rough' \in BOOLEAN
        /\ PartsType(disk') /\ CellsType(cache', disk')
        /\ PartsExist(sumFilesSize', disk')
        /\ ~rough' =>
               /\ ~rough /\ Good(cache', disk')
               /\ \A k \in Nat : k < sumFilesSize \/ (start <= k /\ k < start + n) =>
                     /\ At(k)' = IF start <= k /\ k < start + n
                                 THEN data[k - start + 1] ELSE At(k)
                     /\ Held(cache', disk', PartOf(k), OffsetIn(k))
    <3>1. Len(data) <= PartSize
      BY <1>1, <1>10
    <3>2. /\ sumFilesSize' = SizeAfter(start, data) /\ rough' \in BOOLEAN
          /\ PartsType(disk') /\ CellsType(cache', disk')
          /\ PartsExist(sumFilesSize', disk')
          /\ ~rough' =>
               /\ ~rough /\ Good(cache', disk')
               /\ \A k \in Nat : k < sumFilesSize \/ (start <= k /\ k < start + Len(data)) =>
                     /\ At(k)' = IF start <= k /\ k < start + Len(data)
                                 THEN data[k - start + 1] ELSE At(k)
                     /\ Held(cache', disk', PartOf(k), OffsetIn(k))
      BY <1>1, <2>1, <3>1, WriteKeeps
    <3>3. SizeAfter(start, data) = size
      BY <1>10, <2>10 DEF SizeAfter
    <3>4. size \in Nat
      BY <1>1, <2>10
    <3> QED
      BY <1>10, <3>2, <3>3, <3>4
  <2>3. ASSUME ~rough'
        PROVE  /\ AllHeld(sumFilesSize', cache', disk')
               /\ FlatBytes' = IF start = Len(FlatBytes) THEN FlatBytes \o data
                               ELSE Flat!Overwritten(start, data)
    <3>1. \A k \in 0..(size - 1) : k \in Nat /\ (k < sumFilesSize \/ (start <= k /\ k < start + n))
      BY <1>1, <2>10
    <3>2. AllHeld(sumFilesSize', cache', disk')
      BY <2>2, <2>3, <3>1 DEF AllHeld
    <3>3. FlatBytes' = [k \in 1..size |-> At(k - 1)']
      BY <2>2 DEF FlatBytes, At
    <3>4. \A k \in 1..size : At(k - 1)' = IF start < k /\ k <= start + n
                                           THEN data[k - start] ELSE At(k - 1)
      <4> TAKE k \in 1..size
      <4>10. PICK j : j = k - 1
        OBVIOUS
      <4>1. j \in 0..(size - 1) /\ k \in Nat
        BY <2>2, <4>10
      <4>2. /\ start <= j <=> start < k
            /\ j < start + n <=> k <= start + n
            /\ j - start + 1 = k - start
        BY <1>1, <4>1, <4>10
      <4>3. At(j)' = IF start <= j /\ j < start + n THEN data[j - start + 1] ELSE At(j)
        BY <2>2, <2>3, <3>1, <4>1
      <4> QED
        BY <4>2, <4>3, <4>10
    <3>5. CASE start = sumFilesSize
      <4>1. size = sumFilesSize + n
        BY <2>10, <3>5
      <4>10. PICK c : c = FlatBytes \o data
        OBVIOUS
      <4>2. /\ c \in Seq(Byte)
            /\ Len(c) = size
            /\ \A k \in 1..size : c[k] = IF k <= sumFilesSize THEN FlatBytes[k]
                                          ELSE data[k - sumFilesSize]
        <5>1. FlatBytes \in Seq(Byte) /\ data \in Seq(Byte)
          BY <1>1, <1>2
        <5>2. /\ c \in Seq(Byte)
              /\ Len(c) = Len(FlatBytes) + Len(data)
              /\ \A k \in 1..(Len(FlatBytes) + Len(data)) :
                    c[k] = IF k <= Len(FlatBytes) THEN FlatBytes[k]
                           ELSE data[k - Len(FlatBytes)]
          BY <4>10, <5>1, ConcatProperties
        <5> QED
          BY <1>2, <1>10, <4>1, <5>2
      <4>3. \A k \in 1..size : At(k - 1)' = IF k <= sumFilesSize THEN FlatBytes[k]
                                             ELSE data[k - sumFilesSize]
        <5> TAKE k \in 1..size
        <5>1. CASE k <= sumFilesSize
          <6>1. k \in 1..sumFilesSize /\ ~(start < k)
            BY <1>1, <3>5, <5>1, <4>1
          <6> QED
            BY <1>2, <3>4, <5>1, <6>1
        <5>2. CASE ~(k <= sumFilesSize)
          <6>1. start < k /\ k <= start + n
            BY <1>1, <3>5, <4>1, <5>2
          <6> QED
            BY <3>4, <3>5, <5>2, <6>1
        <5> QED
          BY <5>1, <5>2
      <4>4. c = [k \in 1..size |-> c[k]]
        BY <4>2
      <4>5. FlatBytes' = FlatBytes \o data
        <5>1. \A k \in 1..size : At(k - 1)' = c[k]
          BY <4>2, <4>3
        <5>2. [k \in 1..size |-> At(k - 1)'] = [k \in 1..size |-> c[k]]
          BY <5>1
        <5> QED
          BY <3>3, <4>4, <4>10, <5>2
      <4> QED
        BY <1>2, <3>2, <3>5, <4>5
    <3>6. CASE start # sumFilesSize
      <4>1. size = sumFilesSize
        BY <2>10, <3>6
      <4>2. Flat!Overwritten(start, data) =
              [k \in 1..sumFilesSize |-> IF start < k /\ k <= start + n THEN data[k - start]
                                         ELSE FlatBytes[k]]
        BY <1>2, <1>10 DEF Flat!Overwritten
      <4>3. \A k \in 1..sumFilesSize : FlatBytes[k] = At(k - 1)
        BY <1>2
      <4>4. FlatBytes' = Flat!Overwritten(start, data)
        BY <3>3, <3>4, <4>1, <4>2, <4>3
      <4> QED
        BY <1>2, <3>2, <3>6, <4>4
    <3> QED
      BY <3>5, <3>6
  <2> QED
    BY <2>2, <2>3
<1> QED
  BY <1>1, <1>3, <1>4

-----------------------------------------------------------------------------
(* Reads, flushes and evictions.                                            *)

(* Every byte of the parts there were is what it was, and as well kept.     *)
SameBytes(c, d, new, saved) ==
    \A part, offset \in Nat : part < Len(d) =>
        /\ ByteAt(new, saved, part, offset) = ByteAt(c, d, part, offset)
        /\ Held(c, d, part, offset) => Held(new, saved, part, offset)

(* Then the flat file is what it was.                                       *)
LEMMA BytesStay ==
  ASSUME IInv, ~rough, sumFilesSize' = sumFilesSize,
         SameBytes(cache, disk, cache', disk')
  PROVE  FlatBytes' = FlatBytes /\ AllHeld(sumFilesSize', cache', disk')
<1>1. sumFilesSize \in Nat /\ PartsExist(sumFilesSize, disk)
      /\ AllHeld(sumFilesSize, cache, disk)
  BY DEF IInv, TypeOK
<1>2. ASSUME NEW k \in 0..(sumFilesSize - 1)
      PROVE  /\ At(k)' = At(k)
             /\ Held(cache', disk', PartOf(k), OffsetIn(k))
  <2>10. PICK part : part = PartOf(k)
    OBVIOUS
  <2>11. PICK offset : offset = OffsetIn(k)
    OBVIOUS
  <2>1. k \in Nat
    BY <1>1
  <2>2. part \in Nat /\ offset \in Nat
    <3>1. offset \in 0..(PartSize - 1) /\ part \in Nat /\ PartSize \in Nat
      BY <2>1, <2>10, <2>11, Division, InfinityFileAssumption DEF InfinityFileAssumption
    <3> QED
      BY <3>1
  <2>3. part < Len(disk)
    BY <1>1, <2>10 DEF PartsExist
  <2>4. Held(cache, disk, part, offset)
    BY <1>1, <2>10, <2>11 DEF AllHeld
  <2>5. /\ ByteAt(cache', disk', part, offset) = ByteAt(cache, disk, part, offset)
        /\ Held(cache', disk', part, offset)
    BY <2>2, <2>3, <2>4 DEF SameBytes
  <2> QED
    BY <2>5, <2>10, <2>11 DEF At
<1>3. AllHeld(sumFilesSize', cache', disk')
  BY <1>2 DEF AllHeld
<1>4. \A k \in 1..sumFilesSize : At(k - 1)' = At(k - 1)
  <2> TAKE k \in 1..sumFilesSize
  <2>10. PICK j : j = k - 1
    OBVIOUS
  <2>1. j \in 0..(sumFilesSize - 1)
    BY <1>1, <2>10
  <2> QED
    BY <1>2, <2>1, <2>10
<1>5. /\ FlatBytes = [k \in 1..sumFilesSize |-> At(k - 1)]
      /\ FlatBytes' = [k \in 1..sumFilesSize |-> At(k - 1)']
  BY DEF FlatBytes, At
<1>6. [k \in 1..sumFilesSize |-> At(k - 1)'] = [k \in 1..sumFilesSize |-> At(k - 1)]
  BY <1>4
<1> QED
  BY <1>3, <1>5, <1>6

(* What was read byte by byte is what the flat file has there.              *)
LEMMA WantedBytes ==
  ASSUME IInv, NEW start \in Nat, NEW length \in Nat, start + length <= sumFilesSize,
         NEW got \in Seq(Byte), Len(got) = length,
         \A i \in 1..length : got[i] = At(start + i - 1)
  PROVE  got = SubSeq(FlatBytes, start + 1, start + length)
<1>1. /\ FlatBytes \in Seq(Byte) /\ Len(FlatBytes) = sumFilesSize /\ sumFilesSize \in Nat
      /\ \A k \in 1..sumFilesSize : FlatBytes[k] = At(k - 1)
  BY FlatBytesType
<1>10. PICK m : m = start + 1
  OBVIOUS
<1>11. PICK l : l = start + length
  OBVIOUS
<1>12. PICK flat : flat = FlatBytes
  OBVIOUS
<1>13. PICK wanted : wanted = SubSeq(flat, m, l)
  OBVIOUS
<1>2. m \in Int /\ l \in Int /\ \A i \in m..l : i \in 1..sumFilesSize
  BY <1>1, <1>10, <1>11
<1>3. \A i \in m..l : flat[i] \in Byte
  <2>1. \A i \in 1..sumFilesSize : flat[i] \in Byte
    BY <1>1, <1>12
  <2> QED
    BY <1>2, <2>1
<1>4. /\ wanted \in Seq(Byte)
      /\ Len(wanted) = IF m <= l THEN l - m + 1 ELSE 0
      /\ \A i \in 1..(l - m + 1) : wanted[i] = flat[m + i - 1]
  BY <1>2, <1>3, <1>13, SubSeqProperties
<1>5. /\ l - m + 1 = length /\ (IF m <= l THEN l - m + 1 ELSE 0) = length
      /\ \A i \in 1..length : m + i - 1 \in 1..sumFilesSize /\ (m + i - 1) - 1 = start + i - 1
  BY <1>1, <1>10, <1>11
<1>6. \A i \in 1..length : wanted[i] = got[i]
  <2> TAKE i \in 1..length
  <2>10. PICK j : j = m + i - 1
    OBVIOUS
  <2>1. j \in 1..sumFilesSize /\ j - 1 = start + i - 1
    BY <1>5, <2>10
  <2>2. wanted[i] = flat[j]
    BY <1>4, <1>5, <2>10
  <2>3. flat[j] = At(j - 1)
    BY <1>1, <1>12, <2>1
  <2> QED
    BY <2>1, <2>2, <2>3
<1>7. got = wanted
  BY <1>4, <1>5, <1>6, SeqEqual
<1> QED
  BY <1>7, <1>10, <1>11, <1>12, <1>13

(* What a read leaves and returns.                                          *)
ReadWell(start, length) ==
    /\ sumFilesSize' = sumFilesSize /\ rough' \in BOOLEAN
    /\ start + length <= sumFilesSize
    /\ PartsType(disk') /\ CellsType(cache', disk') /\ PartsExist(sumFilesSize', disk')
    /\ \E bytes \in Seq(Byte) : last' = Call("read", start, length, bytes)
    /\ ~rough' =>
          /\ ~rough /\ Good(cache', disk') /\ AllHeld(sumFilesSize', cache', disk')
          /\ FlatBytes' = FlatBytes
          /\ last' = Call("read", start, length, SubSeq(FlatBytes, start + 1, start + length))

(* Parts that were opened hold the file's positions still.                  *)
LEMMA OpenedExist ==
  ASSUME IInv, NEW f, NEW s, NEW parts, OpenedWell(cache, disk, f, s, parts)
  PROVE  PartsExist(sumFilesSize, parts)
<1> SUFFICES ASSUME NEW k \in 0..(sumFilesSize - 1) PROVE PartOf(k) < Len(parts)
  BY DEF PartsExist
<1>1. PartOf(k) < Len(disk) /\ Len(disk) <= Len(parts) /\ Len(parts) \in Nat
  BY DEF IInv, PartsExist, OpenedWell
<1>2. Len(disk) \in Nat /\ PartOf(k) \in Nat
  <2>1. k \in Nat
    BY DEF IInv, TypeOK
  <2> QED
    BY <2>1, Division DEF IInv, PartsType
<1> QED
  BY <1>1, <1>2

(* A read inside one part returns the bytes of the flat file.               *)
LEMMA ReadOneStep ==
  ASSUME IInv, NEW start \in Nat, NEW length \in 0..PartSize, ReadOnePart(start, length)
  PROVE  ReadWell(start, length)
<1>10. PICK f : f = PartOf(start)
  OBVIOUS
<1>11. PICK o : o = OffsetIn(start)
  OBVIOUS
<1>12. PICK cell : cell = <<f, o>>
  OBVIOUS
<1>13. PICK parts : parts = disk'
  OBVIOUS
<1>14. PICK got : got = Got(cache, parts, cell, length)
  OBVIOUS
<1>15. PICK new : new = AfterGet(cache, parts, cell, length)
  OBVIOUS
<1>1. /\ sumFilesSize \in Nat /\ length \in Nat /\ PartSize \in Nat /\ rough \in BOOLEAN
      /\ disk \in Seq(Seq(Byte)) /\ PartsType(disk) /\ CellsType(cache, disk)
      /\ PartsExist(sumFilesSize, disk)
  BY InfinityFileAssumption DEF IInv, TypeOK, InfinityFileAssumption
<1>2. /\ start + length <= sumFilesSize
      /\ f = EndFileIndex(start + length)
      /\ parts = Opened(disk, f)
      /\ cache' = new
      /\ rough' = (rough \/ GetClashes(cache, cell, length))
      /\ last' = Call("read", start, length, got)
      /\ sumFilesSize' = sumFilesSize
  BY <1>10, <1>11, <1>12, <1>13, <1>14, <1>15 DEF ReadOnePart
<1>3. f \in Nat /\ o \in 0..(PartSize - 1) /\ o \in Nat
  BY <1>1, <1>10, <1>11, Division
<1>4. /\ o + length <= PartSize
      /\ \A k \in Nat : /\ PartOf(k) = f => k - start = OffsetIn(k) - o
                        /\ (start <= k /\ k < start + length) => PartOf(k) = f
  BY <1>2, <1>10, <1>11, OnePart
<1>5. f \in 0..Len(disk)
  <2>1. start \in 0..sumFilesSize
    BY <1>1, <1>2
  <2> QED
    BY <1>1, <1>10, <2>1, PartInReach
<1>6. parts = Opened(Opened(disk, f), f)
  <2>1. Len(Append(disk, <<>>)) = Len(disk) + 1 /\ Len(disk) \in Nat
    BY <1>1
  <2> QED
    BY <1>2, <1>5, <2>1 DEF Opened
<1>7. OpenedWell(cache, disk, f, f, parts)
  <2>1. f \in 0..(f + 1)
    BY <1>3
  <2>2. Opening(cache, disk, f, f)
    BY <1>1, <1>5, <2>1 DEF Opening
  <2> QED
    BY <1>6, <2>2, OpenedGood
<1>8. PartsType(parts) /\ CellsType(cache, parts) /\ f < Len(parts)
  BY <1>7 DEF OpenedWell
<1>9. cell \in Nat \X Nat /\ cell[1] = f /\ cell[2] = o
  BY <1>3, <1>12
<1>24. Reading(cache, parts, cell, length)
  BY <1>1, <1>4, <1>8, <1>9 DEF Reading
<1>20. /\ got \in Seq(Byte) /\ Len(got) = length
       /\ CellsType(new, parts)
  BY <1>14, <1>15, <1>24, ReadTypes
<1>21. PartsExist(sumFilesSize, parts)
  BY <1>7, OpenedExist
<1>22. ASSUME ~rough'
       PROVE  /\ ~rough /\ Good(cache', disk') /\ AllHeld(sumFilesSize', cache', disk')
              /\ FlatBytes' = FlatBytes
              /\ last' = Call("read", start, length, SubSeq(FlatBytes, start + 1, start + length))
  <2>1. ~rough /\ ~GetClashes(cache, cell, length)
    BY <1>2, <1>22
  <2>2. Good(cache, parts)
    BY <1>7, <2>1 DEF IInv, OpenedWell
  <2>3. /\ Good(new, parts)
        /\ \A part, offset \in Nat :
              /\ ByteAt(new, parts, part, offset) = ByteAt(cache, parts, part, offset)
              /\ Held(cache, parts, part, offset) => Held(new, parts, part, offset)
        /\ \A i \in 1..length : got[i] = ByteAt(cache, parts, cell[1], cell[2] + i - 1)
    BY <1>14, <1>15, <1>24, <2>1, <2>2, GetGood DEF SeenWell
  <2>4. \A part, offset \in Nat : part < Len(disk) =>
              /\ ByteAt(cache, parts, part, offset) = ByteAt(cache, disk, part, offset)
              /\ Held(cache, disk, part, offset) => Held(cache, parts, part, offset)
    BY <1>7 DEF OpenedWell
  <2>5. SameBytes(cache, disk, cache', disk')
    BY <1>2, <1>13, <2>3, <2>4 DEF SameBytes
  <2>6. FlatBytes' = FlatBytes /\ AllHeld(sumFilesSize', cache', disk')
    BY <1>2, <2>1, <2>5, BytesStay
  <2>7. \A i \in 1..length : got[i] = At(start + i - 1)
    <3> TAKE i \in 1..length
    <3>10. PICK k : k = start + i - 1
      OBVIOUS
    <3>11. PICK offset : offset = o + i - 1
      OBVIOUS
    <3>1. /\ k \in Nat /\ k \in 0..(sumFilesSize - 1)
          /\ start <= k /\ k < start + length /\ k - start = i - 1
      BY <1>1, <1>2, <3>10
    <3>2. PartOf(k) = f /\ k - start = OffsetIn(k) - o
      BY <1>4, <3>1
    <3>3. OffsetIn(k) \in Nat
      <4>1. OffsetIn(k) \in 0..(PartSize - 1)
        BY <3>1, Division
      <4> QED
        BY <1>1, <4>1
    <3>4. OffsetIn(k) = offset
      BY <1>3, <3>1, <3>2, <3>3, <3>11
    <3>5. f < Len(disk)
      BY <1>1, <3>1, <3>2 DEF PartsExist
    <3>6. got[i] = ByteAt(cache, parts, f, offset)
      BY <1>9, <2>3, <3>11
    <3>7. ByteAt(cache, parts, f, offset) = ByteAt(cache, disk, f, offset)
      BY <1>3, <2>4, <3>3, <3>4, <3>5
    <3> QED
      BY <3>2, <3>4, <3>6, <3>7, <3>10 DEF At
  <2>8. got = SubSeq(FlatBytes, start + 1, start + length)
    BY <1>1, <1>2, <1>20, <2>7, WantedBytes
  <2> QED
    BY <1>2, <1>13, <2>1, <2>3, <2>6, <2>8
<1>23. rough' \in BOOLEAN
  BY <1>1, <1>2
<1> QED
  BY <1>2, <1>8, <1>13, <1>20, <1>21, <1>22, <1>23 DEF ReadWell

(* A read over two parts, one after the other, returns the same bytes.      *)
LEMMA ReadTwoStep ==
  ASSUME IInv, NEW start \in Nat, NEW length \in 0..PartSize, ReadTwoParts(start, length)
  PROVE  ReadWell(start, length)
<1>10. PICK f : f = PartOf(start)
  OBVIOUS
<1>11. PICK o : o = OffsetIn(start)
  OBVIOUS
<1>12. PICK s : s = EndFileIndex(start + length)
  OBVIOUS
<1>13. PICK t : t = OffsetIn(start + length)
  OBVIOUS
<1>14. PICK size : size = InFirstPart(start, length)
  OBVIOUS
<1>15. PICK first : first = <<f, o>>
  OBVIOUS
<1>16. PICK second : second = <<s, 0>>
  OBVIOUS
<1>17. PICK parts : parts = disk'
  OBVIOUS
<1>18. PICK then : then = AfterGet(cache, parts, first, size)
  OBVIOUS
<1>19. PICK new : new = AfterGet(then, parts, second, length - size)
  OBVIOUS
<1>20. PICK head : head = Got(cache, parts, first, size)
  OBVIOUS
<1>21. PICK rest : rest = Got(then, parts, second, length - size)
  OBVIOUS
<1>1. /\ sumFilesSize \in Nat /\ length \in Nat /\ PartSize \in Nat /\ rough \in BOOLEAN
      /\ disk \in Seq(Seq(Byte)) /\ PartsType(disk) /\ CellsType(cache, disk)
      /\ PartsExist(sumFilesSize, disk)
  BY InfinityFileAssumption DEF IInv, TypeOK, InfinityFileAssumption
<1>2. /\ start + length <= sumFilesSize
      /\ f # s
      /\ parts = Opened(Opened(disk, f), s)
      /\ cache' = new
      /\ rough' = (rough \/ GetClashes(cache, first, size)
                         \/ GetClashes(then, second, length - size))
      /\ last' = Call("read", start, length, head \o rest)
      /\ sumFilesSize' = sumFilesSize
  <2>1. first[1] = f /\ second[1] = s
    BY <1>15, <1>16
  <2>2. first = <<PartOf(start), OffsetIn(start)>>
        /\ second = <<EndFileIndex(start + length), 0>>
    BY <1>10, <1>11, <1>12, <1>15, <1>16
  <2> QED
    BY <1>14, <1>17, <1>18, <1>19, <1>20, <1>21, <2>1, <2>2 DEF ReadTwoParts
<1>3. f \in Nat /\ o \in 0..(PartSize - 1) /\ o \in Nat /\ t \in 0..(PartSize - 1) /\ t \in Nat
  <2>1. start + length \in Nat
    BY <1>1
  <2>2. f \in Nat /\ o \in 0..(PartSize - 1) /\ t \in 0..(PartSize - 1)
    BY <2>1, <1>10, <1>11, <1>13, Division
  <2> QED
    BY <1>1, <2>2
<1>4. /\ length = 0 => t = 0 /\ o = 0 /\ PartOf(start + length) = f
      /\ length # 0 => s = f + 1 /\ t \in 1..(length - 1) /\ o + (length - t) = PartSize
      /\ \A k \in Nat :
           /\ PartOf(k) = f => k - start = OffsetIn(k) - o
           /\ PartOf(k) = f + 1 => k - start = OffsetIn(k) + PartSize - o
           /\ (start <= k /\ k < start + length) => PartOf(k) \in {f, f + 1}
  BY <1>2, <1>10, <1>11, <1>12, <1>13, TwoParts
<1>5. s \in 0..(f + 1)
  <2>1. CASE length # 0
    BY <1>3, <1>4, <2>1
  <2>2. CASE length = 0
    <3>1. s = IF start + length # 0 /\ t = 0 THEN f - 1 ELSE f
      BY <1>4, <1>12, <1>13, <2>2 DEF EndFileIndex
    <3>2. start = PartSize * f + o
      BY <1>10, <1>11, Division
    <3>3. f = 0 => start = 0
      BY <1>1, <1>4, <2>2, <3>2
    <3> QED
      BY <1>1, <1>3, <2>2, <3>1, <3>3
  <2> QED
    BY <2>1, <2>2
<1>6. f \in 0..Len(disk)
  <2>1. start \in 0..sumFilesSize
    BY <1>1, <1>2
  <2> QED
    BY <1>1, <1>10, <2>1, PartInReach
<1>7. OpenedWell(cache, disk, f, s, parts)
  <2>1. Opening(cache, disk, f, s)
    BY <1>1, <1>5, <1>6 DEF Opening
  <2> QED
    BY <1>2, <2>1, OpenedGood
<1>8. PartsType(parts) /\ CellsType(cache, parts) /\ f < Len(parts) /\ s < Len(parts)
  BY <1>7 DEF OpenedWell
<1>9. /\ first \in Nat \X Nat /\ first[1] = f /\ first[2] = o
      /\ second \in Nat \X Nat /\ second[1] = s /\ second[2] = 0
  BY <1>3, <1>5, <1>15, <1>16
<1>22. /\ size = length - t /\ size \in 0..length /\ size \in Nat /\ length - size = t
       /\ o + size <= PartSize
       /\ 0 + (length - size) <= PartSize /\ length - size \in Nat
  <2>1. size = length - t
    BY <1>2, <1>10, <1>12, <1>13, <1>14 DEF InFirstPart
  <2> QED
    BY <1>1, <1>3, <1>4, <2>1
<1>30. Reading(cache, parts, first, size)
  BY <1>8, <1>9, <1>22 DEF Reading
<1>23. head \in Seq(Byte) /\ Len(head) = size /\ CellsType(then, parts)
  BY <1>18, <1>20, <1>30, ReadTypes
<1>31. Reading(then, parts, second, length - size)
  BY <1>8, <1>9, <1>22, <1>23 DEF Reading
<1>24. rest \in Seq(Byte) /\ Len(rest) = length - size /\ CellsType(new, parts)
  BY <1>19, <1>21, <1>31, ReadTypes
<1>25. PICK got : got = head \o rest
  OBVIOUS
<1>26. /\ got \in Seq(Byte) /\ Len(got) = length
       /\ \A i \in 1..length : got[i] = IF i <= size THEN head[i] ELSE rest[i - size]
  <2>1. /\ got \in Seq(Byte)
        /\ Len(got) = Len(head) + Len(rest)
        /\ \A i \in 1..(Len(head) + Len(rest)) :
              got[i] = IF i <= Len(head) THEN head[i] ELSE rest[i - Len(head)]
    BY <1>23, <1>24, <1>25, ConcatProperties
  <2>2. Len(head) + Len(rest) = length /\ Len(head) = size
    BY <1>1, <1>22, <1>23, <1>24
  <2> QED
    BY <2>1, <2>2
<1>27. PartsExist(sumFilesSize, parts)
  BY <1>7, OpenedExist
<1>28. ASSUME ~rough'
       PROVE  /\ ~rough /\ Good(cache', disk') /\ AllHeld(sumFilesSize', cache', disk')
              /\ FlatBytes' = FlatBytes
              /\ last' = Call("read", start, length, SubSeq(FlatBytes, start + 1, start + length))
  <2>1. ~rough /\ ~GetClashes(cache, first, size) /\ ~GetClashes(then, second, length - size)
    BY <1>2, <1>28
  <2>2. Good(cache, parts)
    BY <1>7, <2>1 DEF IInv, OpenedWell
  <2>3. /\ Good(then, parts)
        /\ \A part, offset \in Nat :
              /\ ByteAt(then, parts, part, offset) = ByteAt(cache, parts, part, offset)
              /\ Held(cache, parts, part, offset) => Held(then, parts, part, offset)
        /\ \A i \in 1..size : head[i] = ByteAt(cache, parts, f, o + i - 1)
    <3>2. /\ Good(then, parts)
          /\ \A part, offset \in Nat :
              /\ ByteAt(then, parts, part, offset) = ByteAt(cache, parts, part, offset)
              /\ Held(cache, parts, part, offset) => Held(then, parts, part, offset)
          /\ \A i \in 1..size : head[i] = ByteAt(cache, parts, first[1], first[2] + i - 1)
      BY <1>18, <1>20, <1>30, <2>1, <2>2, GetGood DEF SeenWell
    <3> QED
      BY <1>9, <3>2
  <2>4. /\ Good(new, parts)
        /\ \A part, offset \in Nat :
              /\ ByteAt(new, parts, part, offset) = ByteAt(then, parts, part, offset)
              /\ Held(then, parts, part, offset) => Held(new, parts, part, offset)
        /\ \A i \in 1..(length - size) : rest[i] = ByteAt(then, parts, s, 0 + i - 1)
    <3>2. /\ Good(new, parts)
          /\ \A part, offset \in Nat :
              /\ ByteAt(new, parts, part, offset) = ByteAt(then, parts, part, offset)
              /\ Held(then, parts, part, offset) => Held(new, parts, part, offset)
          /\ \A i \in 1..(length - size) :
                rest[i] = ByteAt(then, parts, second[1], second[2] + i - 1)
      BY <1>19, <1>21, <1>31, <2>1, <2>3, GetGood DEF SeenWell
    <3> QED
      BY <1>9, <3>2
  <2>5. \A part, offset \in Nat : part < Len(disk) =>
              /\ ByteAt(cache, parts, part, offset) = ByteAt(cache, disk, part, offset)
              /\ Held(cache, disk, part, offset) => Held(cache, parts, part, offset)
    BY <1>7 DEF OpenedWell
  <2>6. SameBytes(cache, disk, cache', disk')
    <3>1. ASSUME NEW part \in Nat, NEW offset \in Nat, part < Len(disk)
          PROVE  /\ ByteAt(new, parts, part, offset) = ByteAt(cache, disk, part, offset)
                 /\ Held(cache, disk, part, offset) => Held(new, parts, part, offset)
      <4>1. /\ ByteAt(new, parts, part, offset) = ByteAt(then, parts, part, offset)
            /\ Held(then, parts, part, offset) => Held(new, parts, part, offset)
        BY <2>4
      <4>2. /\ ByteAt(then, parts, part, offset) = ByteAt(cache, parts, part, offset)
            /\ Held(cache, parts, part, offset) => Held(then, parts, part, offset)
        BY <2>3
      <4>3. /\ ByteAt(cache, parts, part, offset) = ByteAt(cache, disk, part, offset)
            /\ Held(cache, disk, part, offset) => Held(cache, parts, part, offset)
        BY <2>5, <3>1
      <4> QED
        BY <4>1, <4>2, <4>3
    <3>2. SameBytes(cache, disk, new, parts)
      BY <3>1 DEF SameBytes
    <3> QED
      BY <1>2, <1>17, <3>2
  <2>7. FlatBytes' = FlatBytes /\ AllHeld(sumFilesSize', cache', disk')
    BY <1>2, <2>1, <2>6, BytesStay
  <2>8. \A i \in 1..length : got[i] = At(start + i - 1)
    <3> TAKE i \in 1..length
    <3>10. PICK k : k = start + i - 1
      OBVIOUS
    <3>11. PICK part : part = PartOf(k)
      OBVIOUS
    <3>12. PICK offset : offset = OffsetIn(k)
      OBVIOUS
    <3>1. /\ k \in Nat /\ k \in 0..(sumFilesSize - 1) /\ i \in Nat
          /\ start <= k /\ k < start + length /\ k - start = i - 1
      BY <1>1, <1>2, <3>10
    <3>2. length # 0
      BY <1>1
    <3>3. /\ s = f + 1 /\ o + size = PartSize
          /\ part \in {f, f + 1}
          /\ part = f => k - start = offset - o
          /\ part = f + 1 => k - start = offset + PartSize - o
      BY <1>4, <1>22, <3>1, <3>2, <3>11, <3>12
    <3>4. offset \in 0..(PartSize - 1)
      BY <3>1, <3>12, Division
    <3>5. part < Len(disk)
      BY <1>1, <3>1, <3>11 DEF PartsExist
    <3>6. part \in Nat /\ offset \in Nat
      BY <1>1, <1>3, <3>3, <3>4
    <3>7. ByteAt(cache, parts, part, offset) = At(k)
      <4>1. ByteAt(cache, parts, part, offset) = ByteAt(cache, disk, part, offset)
        BY <2>5, <3>5, <3>6
      <4> QED
        BY <4>1, <3>11, <3>12 DEF At
    <3>8. CASE part = f
      <4>1. o + i - 1 = offset /\ i <= size /\ i \in 1..size
        BY <1>1, <1>3, <1>22, <3>1, <3>3, <3>4, <3>8
      <4>2. got[i] = head[i]
        BY <1>26, <4>1
      <4>3. head[i] = ByteAt(cache, parts, f, o + i - 1)
        BY <2>3, <4>1
      <4> QED
        BY <3>7, <3>8, <3>10, <4>1, <4>2, <4>3
    <3>9. CASE part = f + 1
      <4>10. PICK j : j = i - size
        OBVIOUS
      <4>1. ~(i <= size) /\ j \in 1..(length - size) /\ 0 + j - 1 = offset
        BY <1>1, <1>3, <1>22, <3>1, <3>3, <3>4, <3>9, <4>10
      <4>2. got[i] = rest[j]
        BY <1>26, <4>1, <4>10
      <4>3. rest[j] = ByteAt(then, parts, s, 0 + j - 1)
        BY <2>4, <4>1
      <4>4. ByteAt(then, parts, part, offset) = ByteAt(cache, parts, part, offset)
        BY <2>3, <3>6
      <4> QED
        BY <3>3, <3>7, <3>9, <3>10, <4>1, <4>2, <4>3, <4>4
    <3> QED
      BY <3>3, <3>8, <3>9
  <2>9. got = SubSeq(FlatBytes, start + 1, start + length)
    BY <1>1, <1>2, <1>26, <2>8, WantedBytes
  <2> QED
    BY <1>2, <1>17, <1>25, <2>1, <2>4, <2>7, <2>9
<1>29. rough' \in BOOLEAN
  BY <1>1, <1>2
<1> QED
  BY <1>2, <1>8, <1>17, <1>24, <1>25, <1>26, <1>27, <1>28, <1>29 DEF ReadWell

(* A cell that is written to disk, and forgotten or not, leaves the flat    *)
(* file as it is.                                                           *)
LEMMA SavedStep ==
  ASSUME IInv, NEW cell \in DOMAIN cache, cache[cell].queued,
         NEW new, DOMAIN new \subseteq DOMAIN cache, DOMAIN cache \ {cell} \subseteq DOMAIN new,
         \A x \in DOMAIN new : x # cell => new[x] = cache[x],
         cell \in DOMAIN new => new[cell] = [data |-> cache[cell].data, queued |-> FALSE],
         cache' = new, disk' = Saved(cell), UNCHANGED <<sumFilesSize, last, rough>>
  PROVE  IInv' /\ [Flat!Next]_(Flat!flatVars)
<1>10. PICK c : c = cache
  OBVIOUS
<1>11. PICK d : d = disk
  OBVIOUS
<1>12. PICK saved : saved = disk'
  OBVIOUS
<1>13. PICK data : data = c[cell].data
  OBVIOUS
<1>1. /\ PartsType(d) /\ CellsType(c, d) /\ cell \in DOMAIN c /\ c[cell].queued
      /\ saved = [d EXCEPT ![cell[1] + 1] = WriteAt(@, cell[2], data)]
      /\ TypeOK /\ PartsExist(sumFilesSize, d)
      /\ ~rough => Good(c, d)
  BY <1>10, <1>11, <1>12, <1>13 DEF IInv, Saved
<1>2. /\ cell \in Nat \X Nat /\ cell[1] < Len(d)
      /\ data \in Seq(Byte) /\ cell[2] + Len(data) <= PartSize
  BY <1>1, <1>13, CellFacts DEF CellsType
<1>3. /\ PartsType(saved) /\ Len(saved) = Len(d)
  <2>1. saved = [d EXCEPT ![cell[1] + 1] = WriteAt(@, cell[2], data)]
    BY <1>1
  <2>2. PartsType(d)
    BY <1>1
  <2>3. LET new2 == [d EXCEPT ![cell[1] + 1] = WriteAt(@, cell[2], data)]
        IN  PartsType(new2) /\ Len(new2) = Len(d)
    BY <1>2, <2>2, SavedDisk
  <2> QED
    BY <2>1, <2>3
<1>4. CellsType(new, saved)
  <2> SUFFICES ASSUME NEW x \in DOMAIN new
               PROVE  /\ x \in Nat \X Nat
                      /\ new[x] \in [data : Seq(Byte), queued : BOOLEAN]
                      /\ x[1] < Len(saved)
                      /\ x[2] + Len(new[x].data) <= PartSize
    BY DEF CellsType
  <2>1. x \in DOMAIN c
    BY <1>10
  <2>2. /\ x \in Nat \X Nat
        /\ c[x] \in [data : Seq(Byte), queued : BOOLEAN]
        /\ x[1] < Len(saved)
        /\ x[2] + Len(c[x].data) <= PartSize
    BY <1>1, <1>3, <2>1 DEF CellsType
  <2>3. CASE x # cell
    BY <1>10, <2>2, <2>3
  <2>4. CASE x = cell
    <3>1. new[x] = [data |-> data, queued |-> FALSE]
      BY <1>10, <1>13, <2>4
    <3> QED
      BY <1>2, <1>3, <2>2, <2>4, <3>1
  <2> QED
    BY <2>3, <2>4
<1>5. PartsExist(sumFilesSize', disk')
  BY <1>1, <1>3, <1>11, <1>12 DEF PartsExist
<1>6. ASSUME ~rough
      PROVE  /\ Good(cache', disk') /\ AllHeld(sumFilesSize', cache', disk')
             /\ FlatBytes' = FlatBytes
  <2>1. Good(c, d)
    BY <1>1, <1>6
  <2>2. /\ DOMAIN new \subseteq DOMAIN c /\ DOMAIN c \ {cell} \subseteq DOMAIN new
        /\ \A x \in DOMAIN new : x # cell => new[x] = c[x]
        /\ cell \in DOMAIN new => new[cell].data = c[cell].data /\ ~new[cell].queued
        /\ saved = [d EXCEPT ![cell[1] + 1] = WriteAt(@, cell[2], c[cell].data)]
    BY <1>1, <1>10, <1>13
  <2>3. /\ Good(new, saved)
        /\ \A part, offset \in Nat : part < Len(d) =>
              /\ ByteAt(new, saved, part, offset) = ByteAt(c, d, part, offset)
              /\ Held(c, d, part, offset) => Held(new, saved, part, offset)
    BY <1>1, <2>1, <2>2, SavedGood
  <2>4. SameBytes(cache, disk, cache', disk')
    BY <1>10, <1>11, <1>12, <2>3 DEF SameBytes
  <2>5. FlatBytes' = FlatBytes /\ AllHeld(sumFilesSize', cache', disk')
    BY <1>6, <2>4, BytesStay
  <2> QED
    BY <1>12, <2>3, <2>5
<1>7. /\ sumFilesSize' = sumFilesSize /\ last' = last /\ rough' = rough /\ rough \in BOOLEAN
  BY DEF IInv, TypeOK
<1>8. TypeOK'
  <2>1. disk' \in Seq(Seq(Byte))
    BY <1>3, <1>12 DEF PartsType
  <2>2. \A x \in DOMAIN cache' :
           x \in Nat \X Nat /\ cache'[x] \in [data : Seq(Byte), queued : BOOLEAN]
    BY <1>4 DEF CellsType
  <2> QED
    BY <1>1, <1>7, <2>1, <2>2 DEF TypeOK
<1>9. IInv'
  BY <1>3, <1>4, <1>5, <1>6, <1>7, <1>8, <1>12 DEF IInv
<1>20. CASE ~rough
  <2>1. FlatBytes' = FlatBytes
    BY <1>6, <1>20
  <2> QED
    BY <1>7, <1>9, <2>1 DEF Flat!flatVars
<1>21. CASE rough
  <2>1. rough' = TRUE
    BY <1>7, <1>21
  <2>2. Flat!Next
    BY <2>1 DEF Flat!Next, Flat!End
  <2> QED
    BY <1>9, <2>2
<1> QED
  BY <1>20, <1>21

(* Data has its type.                                                       *)
LEMMA DataTypes ==
  \A data \in Data : data \in Seq(Byte) /\ Len(data) \in Nat
  BY InfinityFileAssumption DEF InfinityFileAssumption

(* A file opened for the first time is right.                               *)
LEMMA InitIInv == Init => IInv
<1> SUFFICES ASSUME Init PROVE IInv
  OBVIOUS
<1>1. /\ sumFilesSize = 0 /\ disk = <<>> /\ DOMAIN cache = {} /\ rough = FALSE
      /\ last = Call("open", 0, 0, Null)
  BY DEF Init
<1>5. <<>> \in Seq(Seq(Byte))
  OBVIOUS
<1>2. TypeOK
  <2>1. disk \in Seq(Seq(Byte)) /\ sumFilesSize \in Nat /\ rough \in BOOLEAN
    BY <1>1, <1>5
  <2>2. \A cell \in DOMAIN cache : /\ cell \in Nat \X Nat
                                    /\ cache[cell] \in [data : Seq(Byte), queued : BOOLEAN]
    BY <1>1
  <2>3. last \in [op : {"open", "add", "write", "read"}, position : Nat,
                  length : Nat, bytes : Seq(Byte) \cup {Null}]
    <3>1. Call("open", 0, 0, Null)
             \in [op : {"open", "add", "write", "read"}, position : Nat,
                 length : Nat, bytes : Seq(Byte) \cup {Null}]
      BY CallTypes
    <3> QED
      BY <1>1, <3>1
  <2> QED
    BY <2>1, <2>2, <2>3 DEF TypeOK
<1>3. PartsType(disk) /\ CellsType(cache, disk) /\ PartsExist(sumFilesSize, disk)
  BY <1>1 DEF PartsType, CellsType, PartsExist
<1>4. Good(cache, disk) /\ AllHeld(sumFilesSize, cache, disk)
  BY <1>1 DEF Good, Apart, Clean, AllHeld
<1> QED
  BY <1>2, <1>3, <1>4 DEF IInv

(* The type invariant after a step that is told by its parts.               *)
LEMMA TypesStay ==
  ASSUME sumFilesSize' \in Nat, rough' \in BOOLEAN,
         PartsType(disk'), CellsType(cache', disk'), PartsExist(sumFilesSize', disk'),
         NEW op \in {"add", "write", "read"}, NEW p \in Nat, NEW n \in Nat,
         NEW bytes \in Seq(Byte) \cup {Null}, last' = Call(op, p, n, bytes),
         ~rough' => Good(cache', disk') /\ AllHeld(sumFilesSize', cache', disk')
  PROVE  IInv'
<1>1. disk' \in Seq(Seq(Byte))
  BY DEF PartsType
<1>2. \A x \in DOMAIN cache' :
         x \in Nat \X Nat /\ cache'[x] \in [data : Seq(Byte), queued : BOOLEAN]
  BY DEF CellsType
<1>3. last' \in [op : {"open", "add", "write", "read"}, position : Nat,
                 length : Nat, bytes : Seq(Byte) \cup {Null}]
  BY CallTypes
<1>4. TypeOK'
  BY <1>1, <1>2, <1>3 DEF TypeOK
<1> QED
  BY <1>4 DEF IInv

(* Every step keeps the invariant and is a step of the flat file.           *)
LEMMA StepIInv == IInv /\ [Next]_vars => IInv' /\ [Flat!Next]_(Flat!flatVars)
<1> SUFFICES ASSUME IInv, [Next]_vars
             PROVE  IInv' /\ [Flat!Next]_(Flat!flatVars)
  OBVIOUS
<1>1. Len(FlatBytes) = sumFilesSize /\ sumFilesSize \in Nat
  BY FlatBytesType
<1>2. ASSUME rough' = TRUE
      PROVE  Flat!Next
  BY <1>2 DEF Flat!Next, Flat!End
<1>3. ASSUME NEW data \in Data, Add(data)
      PROVE  IInv' /\ [Flat!Next]_(Flat!flatVars)
  <2>1. write(sumFilesSize, data) /\ last' = Call("add", sumFilesSize, Len(data), data)
    BY <1>3 DEF Add
  <2>2. /\ sumFilesSize' \in Nat /\ rough' \in BOOLEAN
        /\ PartsType(disk') /\ CellsType(cache', disk')
        /\ PartsExist(sumFilesSize', disk')
        /\ ~rough' =>
               /\ ~rough /\ Good(cache', disk') /\ AllHeld(sumFilesSize', cache', disk')
               /\ FlatBytes' = IF sumFilesSize = Len(FlatBytes) THEN FlatBytes \o data
                               ELSE Flat!Overwritten(sumFilesSize, data)
    BY <1>1, <2>1, WriteStep
  <2>3. IInv'
    <3>1. data \in Seq(Byte) /\ Len(data) \in Nat
      BY DataTypes
    <3>2. "add" \in {"add", "write", "read"} /\ data \in Seq(Byte) \cup {Null}
      BY <3>1
    <3> QED
      BY <1>1, <2>1, <2>2, <3>1, <3>2, TypesStay
  <2>4. CASE rough'
    BY <1>2, <2>2, <2>3, <2>4
  <2>5. CASE ~rough'
    <3>1. FlatBytes' = FlatBytes \o data /\ rough' = rough
      BY <1>1, <2>2, <2>5 DEF IInv, TypeOK
    <3>2. Flat!Add(data)
      BY <1>1, <2>1, <3>1 DEF Flat!Add, Flat!Call, Call
    <3> QED
      BY <2>3, <3>2 DEF Flat!Next
  <2> QED
    BY <2>4, <2>5
<1>4. ASSUME NEW start \in Starts, NEW data \in Data, Write(start, data)
      PROVE  IInv' /\ [Flat!Next]_(Flat!flatVars)
  <2>1. write(start, data) /\ start \in Nat /\ last' = Call("write", start, Len(data), data)
    BY <1>4, InfinityFileAssumption DEF Write, InfinityFileAssumption
  <2>2. /\ sumFilesSize' \in Nat /\ rough' \in BOOLEAN
        /\ PartsType(disk') /\ CellsType(cache', disk')
        /\ PartsExist(sumFilesSize', disk')
        /\ ~rough' =>
               /\ ~rough /\ Good(cache', disk') /\ AllHeld(sumFilesSize', cache', disk')
               /\ FlatBytes' = IF start = Len(FlatBytes) THEN FlatBytes \o data
                               ELSE Flat!Overwritten(start, data)
    BY <2>1, WriteStep
  <2>3. IInv'
    <3>1. data \in Seq(Byte) /\ Len(data) \in Nat
      BY DataTypes
    <3>2. "write" \in {"add", "write", "read"} /\ data \in Seq(Byte) \cup {Null}
      BY <3>1
    <3> QED
      BY <2>1, <2>2, <3>1, <3>2, TypesStay
  <2>4. CASE rough'
    BY <1>2, <2>2, <2>3, <2>4
  <2>5. CASE ~rough'
    <3>1. rough' = rough
          /\ FlatBytes' = IF start = Len(FlatBytes) THEN FlatBytes \o data
                          ELSE Flat!Overwritten(start, data)
      BY <2>2, <2>5 DEF IInv, TypeOK
    <3>2. Flat!Write(start, data)
      BY <2>1, <3>1 DEF Flat!Write, Flat!Call, Call
    <3> QED
      BY <2>3, <3>2 DEF Flat!Next
  <2> QED
    BY <2>4, <2>5
<1>5. ASSUME NEW start \in Starts, NEW length \in Lengths
      PROVE  /\ start \in Nat /\ length \in 0..PartSize /\ length \in Nat
             /\ Flat!Read(start, length) => Flat!Next
  BY InfinityFileAssumption DEF InfinityFileAssumption, Flat!Next
<1>6. ASSUME NEW start \in Starts, NEW length \in Lengths, ReadNull(start, length)
      PROVE  IInv' /\ [Flat!Next]_(Flat!flatVars)
  <2>1. /\ start + length > sumFilesSize /\ last' = Call("read", start, length, Null)
        /\ sumFilesSize' = sumFilesSize /\ disk' = disk /\ cache' = cache /\ rough' = rough
    BY <1>6 DEF ReadNull
  <2>2. FlatBytes' = FlatBytes
    BY <2>1 DEF FlatBytes
  <2>3. Flat!Read(start, length)
    BY <1>1, <2>1, <2>2 DEF Flat!Read, Flat!Call, Call
  <2>4. /\ sumFilesSize' \in Nat /\ rough' \in BOOLEAN
        /\ PartsType(disk') /\ CellsType(cache', disk') /\ PartsExist(sumFilesSize', disk')
        /\ ~rough' => Good(cache', disk') /\ AllHeld(sumFilesSize', cache', disk')
    BY <2>1 DEF IInv, TypeOK
  <2>5. IInv'
    <3>1. "read" \in {"add", "write", "read"} /\ Null \in Seq(Byte) \cup {Null}
      OBVIOUS
    <3> QED
      BY <1>5, <2>1, <2>4, <3>1, TypesStay
  <2> QED
    BY <1>5, <2>3, <2>5
<1>7. ASSUME NEW start \in Starts, NEW length \in Lengths, ReadWell(start, length)
      PROVE  IInv' /\ [Flat!Next]_(Flat!flatVars)
  <2>1. PICK bytes \in Seq(Byte) : last' = Call("read", start, length, bytes)
    BY <1>7 DEF ReadWell
  <2>2. /\ sumFilesSize' = sumFilesSize /\ rough' \in BOOLEAN /\ start + length <= sumFilesSize
        /\ PartsType(disk') /\ CellsType(cache', disk') /\ PartsExist(sumFilesSize', disk')
        /\ ~rough' =>
              /\ ~rough /\ Good(cache', disk') /\ AllHeld(sumFilesSize', cache', disk')
              /\ FlatBytes' = FlatBytes
              /\ last' = Call("read", start, length,
                              SubSeq(FlatBytes, start + 1, start + length))
    BY <1>7 DEF ReadWell
  <2>3. IInv'
    <3>1. "read" \in {"add", "write", "read"} /\ bytes \in Seq(Byte) \cup {Null}
      OBVIOUS
    <3> QED
      BY <1>1, <1>5, <2>1, <2>2, <3>1, TypesStay
  <2>4. CASE rough'
    BY <1>2, <2>2, <2>3, <2>4
  <2>5. CASE ~rough'
    <3>1. rough' = rough
      BY <2>2, <2>5 DEF IInv, TypeOK
    <3>2. ~(start + length > Len(FlatBytes))
      BY <1>1, <1>5, <2>2
    <3>3. Flat!Read(start, length)
      BY <2>2, <2>5, <3>1, <3>2 DEF Flat!Read, Flat!Call, Call
    <3> QED
      BY <1>5, <2>3, <3>3
  <2> QED
    BY <2>4, <2>5
<1>8. ASSUME NEW start \in Starts, NEW length \in Lengths, ReadOnePart(start, length)
      PROVE  IInv' /\ [Flat!Next]_(Flat!flatVars)
  <2>1. ReadWell(start, length)
    BY <1>5, <1>8, ReadOneStep
  <2> QED
    BY <1>7, <2>1
<1>9. ASSUME NEW start \in Starts, NEW length \in Lengths, ReadTwoParts(start, length)
      PROVE  IInv' /\ [Flat!Next]_(Flat!flatVars)
  <2>1. ReadWell(start, length)
    BY <1>5, <1>9, ReadTwoStep
  <2> QED
    BY <1>7, <2>1
<1>10. ASSUME NEW cell \in DOMAIN cache, Flush(cell)
       PROVE  IInv' /\ [Flat!Next]_(Flat!flatVars)
  <2>10. PICK new : new = [cache EXCEPT ![cell].queued = FALSE]
    OBVIOUS
  <2>1. /\ cache[cell].queued /\ disk' = Saved(cell) /\ cache' = new
        /\ UNCHANGED <<sumFilesSize, last, rough>>
    BY <1>10, <2>10 DEF Flush
  <2>2. cache[cell] \in [data : Seq(Byte), queued : BOOLEAN]
    BY DEF IInv, TypeOK
  <2>3. /\ DOMAIN new = DOMAIN cache
        /\ \A x \in DOMAIN new : x # cell => new[x] = cache[x]
        /\ new[cell] = [data |-> cache[cell].data, queued |-> FALSE]
    BY <2>2, <2>10
  <2>4. DOMAIN new \subseteq DOMAIN cache /\ DOMAIN cache \ {cell} \subseteq DOMAIN new
    BY <2>3
  <2> QED
    BY <2>1, <2>3, <2>4, SavedStep
<1>11. ASSUME NEW cell \in DOMAIN cache, Evict(cell)
       PROVE  IInv' /\ [Flat!Next]_(Flat!flatVars)
  <2>10. PICK new : new = [x \in DOMAIN cache \ {cell} |-> cache[x]]
    OBVIOUS
  <2>1. /\ cache[cell].queued /\ disk' = Saved(cell) /\ cache' = new
        /\ UNCHANGED <<sumFilesSize, last, rough>>
    BY <1>11, <2>10 DEF Evict
  <2>2. /\ DOMAIN new = DOMAIN cache \ {cell}
        /\ \A x \in DOMAIN new : new[x] = cache[x]
    BY <2>10
  <2>3. /\ DOMAIN new \subseteq DOMAIN cache /\ DOMAIN cache \ {cell} \subseteq DOMAIN new
        /\ \A x \in DOMAIN new : x # cell => new[x] = cache[x]
        /\ cell \notin DOMAIN new
    BY <2>2
  <2> QED
    BY <2>1, <2>3, SavedStep
<1>12. CASE UNCHANGED vars
  <2>1. /\ sumFilesSize' = sumFilesSize /\ disk' = disk /\ cache' = cache /\ last' = last
        /\ rough' = rough
    BY <1>12 DEF vars
  <2>2. FlatBytes' = FlatBytes
    BY <2>1 DEF FlatBytes
  <2>3. TypeOK'
    BY <2>1 DEF IInv, TypeOK
  <2>4. IInv'
    BY <2>1, <2>3 DEF IInv
  <2> QED
    BY <2>1, <2>2, <2>4 DEF Flat!flatVars
<1> QED
  BY <1>3, <1>4, <1>6, <1>8, <1>9, <1>10, <1>11, <1>12 DEF Next

(* Every position of the file is in a part that exists, on disk or waiting. *)
LEMMA IInvCovers == IInv => PartsCoverFile
<1> SUFFICES ASSUME IInv PROVE PartsCoverFile
  OBVIOUS
<1>1. \A k \in 0..(sumFilesSize - 1) : PartOf(k) < Len(disk)
  BY DEF IInv, PartsExist
<1>2. \A k \in 0..(sumFilesSize - 1) :
         rough \/ OffsetIn(k) < Len(disk[PartOf(k) + 1])
               \/ Waiting(cache, PartOf(k), OffsetIn(k)) # {}
  BY DEF IInv, AllHeld, Held
<1>3. \A i \in 1..Len(disk) : Len(disk[i]) <= PartSize
  BY DEF IInv, PartsType
<1>4. \A cell \in DOMAIN cache : cell[2] + Len(cache[cell].data) <= PartSize
  BY DEF IInv, CellsType
<1> QED
  BY <1>1, <1>2, <1>3, <1>4 DEF PartsCoverFile

(* Type correctness of the file's state, for every part size.               *)
THEOREM TypeCorrect == Spec => []TypeOK
<1>1. Init => IInv
  BY InitIInv
<1>2. IInv /\ [Next]_vars => IInv'
  BY StepIInv
<1>3. IInv => TypeOK
  BY DEF IInv
<1> QED
  BY <1>1, <1>2, <1>3, PTL DEF Spec

(* No access ever reaches past the parts that exist, no part outgrows       *)
(* partSize, and until a clash every byte is on disk or waits to be written *)
(* (InfinityFile.getPartFile, read, write).                                 *)
THEOREM PartsAlwaysCoverFile == Spec => []PartsCoverFile
<1>1. Init => IInv
  BY InitIInv
<1>2. IInv /\ [Next]_vars => IInv'
  BY StepIInv
<1>3. IInv => PartsCoverFile
  BY IInvCovers
<1> QED
  BY <1>1, <1>2, <1>3, PTL DEF Spec

(* Splitting a file into parts and keeping accesses in a cache by their     *)
(* offsets is invisible until an access clashes with the cache:             *)
(* InfinityFile's write, add and read implement one flat array of bytes.    *)
THEOREM ImplementsFlatFile == Spec => FlatFileUntilRough
<1>1. Init => IInv
  BY InitIInv
<1>2. Init => Flat!Init
  BY DEF Init, Flat!Init, FlatBytes, Flat!Call, Call
<1>3. IInv /\ [Next]_vars => IInv' /\ [Flat!Next]_(Flat!flatVars)
  BY StepIInv
<1> QED
  BY <1>1, <1>2, <1>3, PTL DEF Spec, FlatFileUntilRough, Flat!Spec
=============================================================================
