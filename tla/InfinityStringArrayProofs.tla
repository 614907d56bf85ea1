---------------------- MODULE InfinityStringArrayProofs ----------------------
(***************************************************************************)
(* InfinityStringArray keeps its elements apart and implements an array,    *)
(* for every set of byte sequences no longer than 2^30 and files of any     *)
(* size, as long as one thread uses it.                                     *)
(***************************************************************************)
EXTENDS InfinityStringArray, SequenceTheorems, WellFoundedInduction, TLAPS

-----------------------------------------------------------------------------
(* The lengths of sectors.                                                  *)

(* Every nonempty set of natural numbers has a least element.               *)
LEMMA LeastNat ==
  ASSUME NEW S, S \subseteq Nat, S # {}
  PROVE  \E m \in S : \A n \in S : m <= n
<1>1. PICK m \in S : \A n \in S : ~(<<n, m>> \in OpToRel(<, Nat))
  BY NatLessThanWellFounded, WFMin, Zenon
<1>2. \A n \in S : ~(n < m)
  BY <1>1 DEF OpToRel
<1> QED
  BY <1>2

(* The values the doubling of the length goes through are positive.         *)
LEMMA Powers == \A k \in 0..30 : 2^k \in Nat /\ 2^k >= 1
<1> DEFINE P(k) == 2^k \in Nat /\ 2^k >= 1
<1>1. /\ P(0) /\ P(1) /\ P(2) /\ P(3) /\ P(4) /\ P(5) /\ P(6) /\ P(7)
      /\ P(8) /\ P(9) /\ P(10) /\ P(11) /\ P(12) /\ P(13) /\ P(14) /\ P(15)
      /\ P(16) /\ P(17) /\ P(18) /\ P(19) /\ P(20) /\ P(21) /\ P(22) /\ P(23)
      /\ P(24) /\ P(25) /\ P(26) /\ P(27) /\ P(28) /\ P(29) /\ P(30)
  BY SMT
<1> HIDE DEF P
<1> SUFFICES ASSUME NEW k \in 0..30 PROVE P(k)
  BY DEF P
<1>2. k \in {0, 1, 2, 3, 4, 5, 6, 7, 8, 9, 10, 11, 12, 13, 14, 15, 16, 17,
             18, 19, 20, 21, 22, 23, 24, 25, 26, 27, 28, 29, 30}
  BY SMT
<1> QED
  BY <1>1, <1>2, ZenonT(60)

(* The lengths an element can have.                                         *)
MaxLength == 2^30

(* That length is a positive number.                                        *)
LEMMA MaxLengthNat == MaxLength \in Nat /\ MaxLength >= 1
  BY Powers DEF MaxLength

(* A sector has at least one byte and room for its element.                 *)
LEMMA SectorLength ==
  ASSUME NEW n \in 0..MaxLength
  PROVE  /\ getSectorLength(n) \in Nat
         /\ getSectorLength(n) >= 1
         /\ getSectorLength(n) >= n
<1> DEFINE powers == {2^k : k \in 0..30}
           fits == {s \in powers : s >= n}
<1>1. powers \subseteq Nat /\ \A s \in powers : s >= 1
  BY Powers
<1>2. MaxLength \in powers
  BY SMT DEF MaxLength
<1> HIDE DEF powers
<1>3. MaxLength \in fits /\ fits \subseteq Nat
  <2>1. MaxLength >= n
    BY MaxLengthNat
  <2> QED
    BY <1>1, <1>2, <2>1
<1>4. PICK m \in fits : \A s \in fits : m <= s
  BY <1>3, LeastNat, Zenon
<1>5. /\ m \in powers
      /\ m >= n /\ \A t \in powers : t >= n => m <= t
  BY <1>4
<1>6. getSectorLength(n) = CHOOSE s \in powers : /\ s >= n
                                                  /\ \A t \in powers : t >= n => s <= t
  BY DEF getSectorLength, powers
<1>7. getSectorLength(n) \in powers /\ getSectorLength(n) >= n
  BY <1>5, <1>6, Zenon
<1> QED
  BY <1>1, <1>7

-----------------------------------------------------------------------------
(* Pieces of files and sectors.                                             *)

(* The bytes of a piece.                                                    *)
LEMMA PieceBytes ==
  ASSUME NEW v \in Seq(Nat), NEW c \in Nat, NEW l \in Nat, c + l <= Len(v)
  PROVE  /\ SubSeq(v, c + 1, c + l) \in Seq(Nat)
         /\ Len(SubSeq(v, c + 1, c + l)) = l
         /\ \A i \in 1..l : SubSeq(v, c + 1, c + l)[i] = v[c + i]
<1> DEFINE x == SubSeq(v, c + 1, c + l)
<1>1. \A i \in (c + 1)..(c + l) : v[i] \in Nat
  BY LenProperties
<1>2. c + 1 \in Int /\ c + l \in Int
  OBVIOUS
<1>3. /\ x \in Seq(Nat)
      /\ Len(x) = IF c + 1 <= c + l THEN c + l - (c + 1) + 1 ELSE 0
      /\ \A i \in 1..(c + l - (c + 1) + 1) : x[i] = v[c + 1 + i - 1]
  BY <1>1, <1>2, SubSeqProperties
<1> HIDE DEF x
<1>4. \A i \in 1..l : i \in 1..(c + l - (c + 1) + 1) /\ c + 1 + i - 1 = c + i
  OBVIOUS
<1>5. Len(x) = l
  <2>1. c + 1 <= c + l => l >= 1 /\ c + l - (c + 1) + 1 = l
    OBVIOUS
  <2>2. ~(c + 1 <= c + l) => l = 0
    OBVIOUS
  <2> QED
    BY <1>3, <2>1, <2>2
<1> QED
  BY <1>3, <1>4, <1>5 DEF x

(* The l bytes of s after the first a are those of u after the first b.     *)
SameBytes(s, a, u, b, l) ==
  /\ s \in Seq(Nat) /\ u \in Seq(Nat)
  /\ a \in Nat /\ b \in Nat /\ l \in Nat
  /\ a + l <= Len(s) /\ b + l <= Len(u)
  /\ \A k \in 1..l : s[a + k] = u[b + k]

(* Equal bytes are equal pieces, wherever they are.                         *)
LEMMA SamePiece ==
  ASSUME NEW s, NEW u, NEW a, NEW b, NEW l, SameBytes(s, a, u, b, l)
  PROVE  /\ SubSeq(s, a + 1, a + l) \in Seq(Nat)
         /\ SubSeq(s, a + 1, a + l) = SubSeq(u, b + 1, b + l)
<1>1. /\ s \in Seq(Nat) /\ u \in Seq(Nat) /\ a \in Nat /\ b \in Nat /\ l \in Nat
      /\ a + l <= Len(s) /\ b + l <= Len(u)
      /\ \A k \in 1..l : s[a + k] = u[b + k]
  BY DEF SameBytes
<1> DEFINE x == SubSeq(s, a + 1, a + l)
           y == SubSeq(u, b + 1, b + l)
<1>3. x \in Seq(Nat) /\ Len(x) = l /\ \A i \in 1..l : x[i] = s[a + i]
  BY <1>1, PieceBytes
<1>4. y \in Seq(Nat) /\ Len(y) = l /\ \A i \in 1..l : y[i] = u[b + i]
  BY <1>1, PieceBytes
<1> HIDE DEF x, y
<1>5. x = y
  BY <1>1, <1>3, <1>4, SeqEqual
<1> QED
  BY <1>3, <1>5 DEF x, y

(* The first l bytes, and the l bytes after the first a.                     *)
Prefix(u, l) == SubSeq(u, 1, l)
After(s, a, l) == SubSeq(s, a + 1, a + l)

(* u begins with the l bytes of s after the first a.                        *)
Begins(u, s, a, l) ==
  /\ s \in Seq(Nat) /\ u \in Seq(Nat)
  /\ a \in Nat /\ l \in Nat
  /\ a + l <= Len(s) /\ l <= Len(u)
  /\ \A k \in 1..l : s[a + k] = u[k]

(* A piece equals the beginning it has the bytes of.                        *)
LEMMA SamePrefix ==
  ASSUME NEW u, NEW s, NEW a, NEW l, Begins(u, s, a, l)
  PROVE  After(s, a, l) = Prefix(u, l)
<1>1. /\ s \in Seq(Nat) /\ u \in Seq(Nat) /\ a \in Nat /\ l \in Nat
      /\ a + l <= Len(s) /\ l <= Len(u)
      /\ \A k \in 1..l : s[a + k] = u[k]
  BY DEF Begins
<1> DEFINE x == SubSeq(s, a + 1, a + l)
           y == SubSeq(u, 1, l)
<1>2. x \in Seq(Nat) /\ Len(x) = l /\ \A i \in 1..l : x[i] = s[a + i]
  BY <1>1, PieceBytes
<1>3. y \in Seq(Nat) /\ Len(y) = l /\ \A i \in 1..l : y[i] = u[i]
  <2>1. 1 \in Int /\ l \in Int /\ \A i \in 1..l : u[i] \in Nat
    <3>1. Len(u) \in Nat /\ \A i \in 1..Len(u) : u[i] \in Nat
      BY <1>1, LenProperties, ElementOfSeq
    <3> QED
      BY <1>1, <3>1
  <2>2. /\ y \in Seq(Nat)
        /\ Len(y) = IF 1 <= l THEN l - 1 + 1 ELSE 0
        /\ \A i \in 1..(l - 1 + 1) : y[i] = u[1 + i - 1]
    BY <2>1, SubSeqProperties
  <2> HIDE DEF y
  <2>3. Len(y) = l /\ \A i \in 1..l : i \in 1..(l - 1 + 1) /\ 1 + i - 1 = i
    BY <1>1, <2>2
  <2> QED
    BY <2>2, <2>3
<1> HIDE DEF x, y
<1>4. x = y
  BY <1>1, <1>2, <1>3, SeqEqual
<1> QED
  BY <1>4 DEF x, y, After, Prefix

(* A sector begins with the bytes of its element.                           *)
LEMMA SectorBytes ==
  ASSUME NEW data \in Seq(Nat), NEW n \in Nat, Len(data) <= n
  PROVE  /\ Sector(n, data) \in Seq(Nat)
         /\ Len(Sector(n, data)) = n
         /\ SubSeq(Sector(n, data), 1, Len(data)) = data
<1> DEFINE s == Sector(n, data)
           l == Len(data)
<1>1. \A k \in 1..n : (IF k <= l THEN data[k] ELSE 0) \in Nat
  BY LenProperties
<1>2. s \in Seq(Nat) /\ Len(s) = n /\ \A k \in 1..l : s[k] = data[k]
  BY <1>1 DEF Sector
<1> HIDE DEF s
<1>3. l \in Nat
  BY LenProperties
<1>4. SubSeq(s, 1, l) = SubSeq(data, 1, l)
  <2>1. Begins(data, s, 0, l)
    BY <1>2, <1>3 DEF Begins
  <2>2. After(s, 0, l) = Prefix(data, l)
    BY <2>1, SamePrefix
  <2> QED
    BY <1>3, <2>2 DEF After, Prefix
<1>5. SubSeq(data, 1, l) = data
  BY SubSeqFull
<1> QED
  BY <1>2, <1>3, <1>4, <1>5 DEF s

(* What a write inside a file, or at its end, does to it.                   *)
LEMMA WrittenBytes ==
  ASSUME file \in Seq(Nat), NEW sector \in Seq(Nat), NEW start \in Nat,
         Len(sector) >= 1,
         start = Len(file) \/ start + Len(sector) <= Len(file)
  PROVE  /\ Written(start, sector) \in Seq(Nat)
         /\ Len(Written(start, sector)) =
               IF start = Len(file) THEN Len(file) + Len(sector) ELSE Len(file)
         /\ \A k \in 1..Len(file) : k <= start \/ start + Len(sector) < k
                                    => Written(start, sector)[k] = file[k]
         /\ \A k \in 1..Len(sector) : Written(start, sector)[start + k] = sector[k]
<1> DEFINE w == Written(start, sector)
           m == Len(file)
           n == Len(sector)
<1>1. m \in Nat /\ n \in Nat
  BY LenProperties
<1>2. CASE start = m
  <2>1. w = file \o sector
    BY <1>2 DEF Written
  <2>2. /\ w \in Seq(Nat) /\ Len(w) = m + n
        /\ \A i \in 1..(m + n) : w[i] = IF i <= m THEN file[i] ELSE sector[i - m]
    BY <2>1, ConcatProperties
  <2> HIDE DEF w
  <2>3. ASSUME NEW k \in 1..n PROVE w[start + k] = sector[k]
    <3> DEFINE i == start + k
    <3>1. i \in 1..(m + n) /\ ~(i <= m) /\ i - m = k
      BY <1>1, <1>2
    <3> HIDE DEF i, m, n
    <3>2. w[i] = sector[i - m]
      BY <2>2, <3>1
    <3> QED
      BY <3>1, <3>2 DEF i
  <2> QED
    BY <1>1, <1>2, <2>2, <2>3 DEF w
<1>3. CASE start # m
  <2> DEFINE e(k) == IF start < k /\ k <= start + n THEN sector[k - start] ELSE file[k]
  <2>1. w = [k \in 1..m |-> e(k)]
    BY <1>3 DEF Written
  <2>2. \A k \in 1..m : e(k) \in Nat
    <3>1. ASSUME NEW k \in 1..m, start < k, k <= start + n PROVE sector[k - start] \in Nat
      <4>1. k - start \in 1..n
        BY <1>1, <3>1
      <4> QED
        BY <4>1, ElementOfSeq
    <3>2. \A k \in 1..m : file[k] \in Nat
      BY ElementOfSeq
    <3> QED
      BY <3>1, <3>2
  <2>3. w \in Seq(Nat) /\ Len(w) = m
    <3> HIDE DEF e
    <3> QED
      BY <1>1, <2>1, <2>2
  <2>4. ASSUME NEW k \in 1..n PROVE w[start + k] = sector[k]
    <3>1. start + k \in 1..m /\ start < start + k /\ start + k <= start + n /\ start + k - start = k
      BY <1>1, <1>3
    <3> QED
      BY <2>1, <3>1
  <2>5. ASSUME NEW k \in 1..m, k <= start \/ start + n < k PROVE w[k] = file[k]
    BY <1>1, <2>1, <2>5
  <2> HIDE DEF w
  <2> QED
    BY <1>3, <2>3, <2>4, <2>5 DEF w
<1> QED
  BY <1>2, <1>3

-----------------------------------------------------------------------------
(* The inductive invariant, for the one thread t.                           *)

CellType == [start : Nat, length : 0..MaxLength]

Pc == {"idle", "fileSize", "fileAdd", "metaSize", "metaAdd", "setMeta", "writeSector", "read"}

Locals == [pc : Pc, index : Nat \cup {Null}, cell : CellType,
           sector : Seq(Nat), size : Nat \cup {Null}]

CallType == [op : {"open", "add", "set", "get"}, index : Nat \cup {Null},
             bytes : Seq(Nat) \cup {Null}]

Typed ==
  /\ file \in Seq(Nat)
  /\ meta \in Seq(CellType)
  /\ thread \in [Thread -> Locals]
  /\ last \in CallType

(* n bytes from start on are in the data file, and none of them is of the   *)
(* sector of an element, but perhaps the one at i.                          *)
Owns(start, n, i) ==
  /\ start + n <= Len(file)
  /\ \A j \in 1..Len(meta) :
        j - 1 # i => \/ start + n <= meta[j].start
                     \/ meta[j].start + getSectorLength(meta[j].length) <= start

(* Every element owns its sector, which ends before the file does.          *)
CellsPlaced ==
  \A i \in 1..Len(meta) : Owns(meta[i].start, getSectorLength(meta[i].length), i - 1)

(* The bytes a cell names.                                                  *)
Piece(cell) == SubSeq(file, cell.start + 1, cell.start + cell.length)

(* What the thread carries: a sector with room for its element, the size it *)
(* has read, and from FileAdd on a place for it that nobody else has.       *)
Carries(t) ==
  LET pc     == thread[t].pc
      index  == thread[t].index
      cell   == thread[t].cell
      sector == thread[t].sector
      size   == thread[t].size
  IN  /\ index # Null => index + 1 \in 1..Len(meta)
      /\ pc \in {"fileSize", "fileAdd", "metaSize", "metaAdd", "setMeta", "writeSector"}
            => getSectorLength(cell.length) <= Len(sector)
      /\ pc \in {"fileSize", "fileAdd", "metaSize", "metaAdd", "setMeta"} => Stored(t) \in Data
      /\ pc = "fileAdd" => size = Len(file)
      /\ pc = "metaAdd" => size = Len(meta)
      /\ pc \in {"metaSize", "metaAdd"} => index = Null
      /\ pc \in {"setMeta", "writeSector", "read"} => index # Null
      /\ pc \in {"metaSize", "metaAdd", "setMeta", "writeSector"}
            => Owns(cell.start, Len(sector), index)
      /\ pc \in {"metaSize", "metaAdd"} \/ (pc = "setMeta" /\ size # Null)
            => Piece(cell) = Stored(t)
      /\ pc \in {"writeSector", "read"} => cell = meta[index + 1]

(* The inductive invariant.                                                 *)
IInv(t) == Typed /\ CellsPlaced /\ Carries(t)

-----------------------------------------------------------------------------
(* Facts every step needs.                                                  *)

(* An element is a sequence of bytes that is not too long.                  *)
LEMMA DataFacts ==
  \A data \in Data : data \in Seq(Nat) /\ Len(data) \in 0..MaxLength
<1> SUFFICES ASSUME NEW data \in Data
             PROVE  data \in Seq(Nat) /\ Len(data) \in 0..MaxLength
  OBVIOUS
<1>1. data \in Seq(Nat) /\ Len(data) <= MaxLength
  BY InfinityStringArrayAssumption DEF InfinityStringArrayAssumption, MaxLength
<1>2. Len(data) \in Nat
  BY <1>1, LenProperties
<1> QED
  BY <1>1, <1>2, MaxLengthNat

(* Null is no number and no element.                                        *)
LEMMA NullFacts == Null \notin Nat /\ Null \notin Seq(Nat)
  BY InfinityStringArrayAssumption DEF InfinityStringArrayAssumption

(* An idle thread has nothing in its locals.                                *)
LEMMA IdleFacts ==
  /\ Idle \in Locals
  /\ Idle.pc = "idle" /\ Idle.index = Null /\ Idle.size = Null
  /\ Idle.cell = Cell(0, 0)
<1>1. <<>> \in Seq(Nat)
  OBVIOUS
<1>2. Cell(0, 0) \in CellType
  BY MaxLengthNat DEF Cell, CellType
<1>3. /\ Idle.pc = "idle" /\ Idle.index = Null /\ Idle.size = Null
      /\ Idle.cell = Cell(0, 0)
  BY DEF Idle
<1>4. Idle \in Locals
  BY <1>1, <1>2 DEF Idle, Locals, Pc
<1> QED
  BY <1>3, <1>4

(* The thread's locals are what Go says.                                    *)
LEMMA Gone ==
  ASSUME NEW t, Thread = {t}, thread \in [Thread -> Locals],
         NEW new \in Locals, Go(t, new)
  PROVE  thread' \in [Thread -> Locals] /\ thread'[t] = new
  BY DEF Go

(* The array, element by element.                                           *)
ElementAt(t, i) ==
  IF thread[t].pc = "writeSector" /\ thread[t].index = i - 1
  THEN SubSeq(thread[t].sector, 1, meta[i].length)
  ELSE Piece(meta[i])

(* With one thread, nobody else is writing: the array is that of its        *)
(* elements.                                                                *)
LEMMA ElementsAre ==
  ASSUME NEW t, Thread = {t}
  PROVE  /\ Elements = [i \in 1..Len(meta) |-> ElementAt(t, i)]
         /\ Elements' = [i \in 1..Len(meta') |-> ElementAt(t, i)']
<1> DEFINE W(i) == {u \in Thread : At(u, "writeSector") /\ thread[u].index = i - 1}
<1>1. \A i : W(i) = IF thread[t].pc = "writeSector" /\ thread[t].index = i - 1 THEN {t} ELSE {}
  BY DEF At
<1>2. \A i : W(i)' = IF thread'[t].pc = "writeSector" /\ thread'[t].index = i - 1 THEN {t} ELSE {}
  BY DEF At
<1>4. Elements = [i \in 1..Len(meta) |-> ElementAt(t, i)]
  <2>1. Elements = [i \in 1..Len(meta) |->
                      IF W(i) # {} THEN SubSeq(thread[CHOOSE u \in W(i) : TRUE].sector, 1, meta[i].length)
                      ELSE Piece(meta[i])]
    BY DEF Elements, Piece
  <2> HIDE DEF W
  <2>2. \A i \in 1..Len(meta) :
           (IF W(i) # {} THEN SubSeq(thread[CHOOSE u \in W(i) : TRUE].sector, 1, meta[i].length)
            ELSE Piece(meta[i])) = ElementAt(t, i)
    <3> SUFFICES ASSUME NEW i
                 PROVE  (IF W(i) # {} THEN SubSeq(thread[CHOOSE u \in W(i) : TRUE].sector, 1, meta[i].length)
                         ELSE Piece(meta[i])) = ElementAt(t, i)
      OBVIOUS
    <3>1. CASE W(i) = {}
      BY <3>1, <1>1 DEF ElementAt
    <3>2. CASE W(i) # {}
      <4>1. W(i) = {t} /\ thread[t].pc = "writeSector" /\ thread[t].index = i - 1
        BY <3>2, <1>1
      <4>2. (CHOOSE u \in W(i) : TRUE) \in W(i)
        BY <3>2, Zenon
      <4>3. (CHOOSE u \in W(i) : TRUE) = t
        BY <4>1, <4>2
      <4> QED
        BY <4>1, <4>3 DEF ElementAt
    <3> QED
      BY <3>1, <3>2
  <2> QED
    BY <2>1, <2>2
<1>5. Elements' = [i \in 1..Len(meta') |-> ElementAt(t, i)']
  <2>1. Elements' = [i \in 1..Len(meta') |->
                      IF W(i)' # {} THEN SubSeq(thread'[CHOOSE u \in W(i)' : TRUE].sector, 1, meta'[i].length)
                      ELSE Piece(meta[i])']
    BY DEF Elements, Piece
  <2> HIDE DEF W
  <2>2. \A i \in 1..Len(meta') :
           (IF W(i)' # {} THEN SubSeq(thread'[CHOOSE u \in W(i)' : TRUE].sector, 1, meta'[i].length)
            ELSE Piece(meta[i])') = ElementAt(t, i)'
    <3> SUFFICES ASSUME NEW i
                 PROVE  (IF W(i)' # {} THEN SubSeq(thread'[CHOOSE u \in W(i)' : TRUE].sector, 1, meta'[i].length)
                         ELSE Piece(meta[i])') = ElementAt(t, i)'
      OBVIOUS
    <3>1. CASE W(i)' = {}
      BY <3>1, <1>2 DEF ElementAt
    <3>2. CASE W(i)' # {}
      <4>1. W(i)' = {t} /\ thread'[t].pc = "writeSector" /\ thread'[t].index = i - 1
        BY <3>2, <1>2
      <4>2. (CHOOSE u \in W(i)' : TRUE) \in W(i)'
        BY <3>2, Zenon
      <4>3. (CHOOSE u \in W(i)' : TRUE) = t
        BY <4>1, <4>2
      <4> QED
        BY <4>1, <4>3 DEF ElementAt
    <3> QED
      BY <3>1, <3>2
  <2> QED
    BY <2>1, <2>2
<1> QED
  BY <1>4, <1>5

(* A step that leaves files and calls alone, and neither begins nor ends    *)
(* the writing of a sector, leaves the array alone.                         *)
LEMMA StepAside ==
  ASSUME NEW t, Thread = {t}, IInv(t), NEW new \in Locals, Go(t, new),
         UNCHANGED <<file, meta, last>>,
         thread[t].pc # "writeSector", new.pc # "writeSector"
  PROVE  /\ Typed' /\ CellsPlaced' /\ thread'[t] = new
         /\ Elements' = Elements
<1>1. thread' \in [Thread -> Locals] /\ thread'[t] = new
  BY Gone DEF IInv, Typed
<1>2. Typed'
  BY <1>1 DEF IInv, Typed
<1>3. CellsPlaced'
  BY DEF IInv, CellsPlaced, Owns
<1>4. \A i \in 1..Len(meta) : ElementAt(t, i)' = ElementAt(t, i)
  BY <1>1 DEF ElementAt, Piece
<1>5. Elements' = Elements
  BY <1>4, ElementsAre
<1> QED
  BY <1>1, <1>2, <1>3, <1>5

-----------------------------------------------------------------------------
(* Every action keeps the invariant, and is a step of the array or leaves   *)
(* it as it is.                                                             *)

(* The cell and the sector an element is stored with.                       *)
LEMMA Storing ==
  ASSUME NEW data \in Data, NEW n \in Nat, n >= getSectorLength(Len(data)),
         NEW start \in Nat
  PROVE  /\ Cell(start, Len(data)) \in CellType
         /\ Cell(start, Len(data)).start = start
         /\ Cell(start, Len(data)).length = Len(data)
         /\ Sector(n, data) \in Seq(Nat)
         /\ Len(Sector(n, data)) = n
         /\ SubSeq(Sector(n, data), 1, Len(data)) = data
<1>1. data \in Seq(Nat) /\ Len(data) \in 0..MaxLength
  BY DataFacts
<1>2. n >= Len(data)
  BY <1>1, SectorLength
<1>3. /\ Sector(n, data) \in Seq(Nat) /\ Len(Sector(n, data)) = n
      /\ SubSeq(Sector(n, data), 1, Len(data)) = data
  BY <1>1, <1>2, SectorBytes
<1> QED
  BY <1>1, <1>3 DEF Cell, CellType

(* AddNode and AddBytes begin with an element and its sector.               *)
LEMMA AddStep ==
  ASSUME NEW t, Thread = {t}, IInv(t), At(t, "idle"), NEW data \in Data,
         Go(t, [Idle EXCEPT !.pc = "fileSize", !.cell = Cell(0, Len(data)),
                            !.sector = Sector(getSectorLength(Len(data)), data)]),
         UNCHANGED <<file, meta, last>>
  PROVE  IInv(t)' /\ Elements' = Elements
<1> DEFINE n == getSectorLength(Len(data))
           new == [Idle EXCEPT !.pc = "fileSize", !.cell = Cell(0, Len(data)),
                               !.sector = Sector(n, data)]
<1>1. n \in Nat
  BY DataFacts, SectorLength
<1>3. Go(t, new)
  OBVIOUS
<1> HIDE DEF new
<1>4. /\ new \in Locals
      /\ new.pc = "fileSize" /\ new.index = Null
      /\ Len(new.sector) = n
      /\ getSectorLength(new.cell.length) <= n
      /\ SubSeq(new.sector, 1, new.cell.length) = data
  <2> DEFINE cell == Cell(0, Len(data))
             sector == Sector(n, data)
  <2>1. /\ cell \in CellType /\ cell.length = Len(data)
        /\ sector \in Seq(Nat) /\ Len(sector) = n
        /\ SubSeq(sector, 1, Len(data)) = data
    BY <1>1, Storing
  <2>2. new = [Idle EXCEPT !.pc = "fileSize", !.cell = cell, !.sector = sector]
    BY DEF new
  <2> HIDE DEF cell, sector
  <2>3. /\ new.pc = "fileSize" /\ new.index = Null
        /\ new.cell = cell /\ new.sector = sector
    BY <2>2 DEF Idle
  <2>4. new \in Locals
    BY <2>1, <2>2 DEF Idle, Locals, Pc
  <2> HIDE DEF n
  <2>5. getSectorLength(new.cell.length) <= n
    BY <1>1, <2>1, <2>3 DEF n
  <2> QED
    BY <2>1, <2>3, <2>4, <2>5
<1>5. Typed' /\ CellsPlaced' /\ thread'[t] = new /\ Elements' = Elements
  BY <1>3, <1>4, StepAside DEF At
<1>6. Carries(t)'
  BY <1>4, <1>5 DEF Carries, Stored
<1> QED
  BY <1>5, <1>6 DEF IInv

(* AddNode and AddBytes only begin, and leave the array alone.              *)
LEMMA AddNodeStep ==
  ASSUME NEW t, Thread = {t}, IInv(t), NEW data \in Data, AddNode(t, data)
  PROVE  IInv(t)' /\ [Cells!Next]_(Cells!arrayVars)
  BY AddStep DEF AddNode, Cells!arrayVars

(* The bytes a client adds are an element like any other.                   *)
LEMMA AddBytesStep ==
  ASSUME NEW t, Thread = {t}, IInv(t), NEW data \in Strings, AddBytes(t, data)
  PROVE  IInv(t)' /\ [Cells!Next]_(Cells!arrayVars)
<1>1. data \in Data /\ data # <<>>
  BY InfinityStringArrayAssumption DEF InfinityStringArrayAssumption
<1>2. Go(t, [Idle EXCEPT !.pc = "fileSize", !.cell = Cell(0, Len(data)),
                         !.sector = Sector(getSectorLength(Len(data)), data)])
  BY <1>1 DEF AddBytes
<1> QED
  BY <1>1, <1>2, AddStep DEF AddBytes, Cells!arrayVars

(* SetBytes begins to move an element, or to overwrite it.                  *)
LEMMA SetBytesStep ==
  ASSUME NEW t, Thread = {t}, IInv(t), NEW i \in 0..(Len(meta) - 1), NEW data \in Data,
         SetBytes(t, i, data)
  PROVE  IInv(t)' /\ [Cells!Next]_(Cells!arrayVars)
<1> DEFINE cell == meta[i + 1]
           old == getSectorLength(cell.length)
           new == getSectorLength(Len(data))
           pc == IF new > old THEN "fileSize" ELSE "setMeta"
           n == IF new > old THEN new ELSE old
           l == [Idle EXCEPT !.pc = pc, !.index = i,
                             !.cell = Cell(cell.start, Len(data)), !.sector = Sector(n, data)]
<1>1. i + 1 \in 1..Len(meta) /\ (i + 1) - 1 = i /\ i \in Nat
  <2>1. Len(meta) \in Nat
    BY LenProperties DEF IInv, Typed
  <2> QED
    BY <2>1
<1>2. cell \in CellType
  BY <1>1, ElementOfSeq DEF IInv, Typed
<1>3. old \in Nat /\ new \in Nat
  BY <1>2, DataFacts, SectorLength DEF CellType
<1>4. Go(t, l) /\ At(t, "idle") /\ UNCHANGED <<file, meta, last>>
  BY DEF SetBytes
<1>5. /\ n \in Nat /\ n >= new /\ pc \in Pc
      /\ pc = "fileSize" \/ (pc = "setMeta" /\ n = old)
  BY <1>3 DEF Pc
<1> HIDE DEF n, pc, new
<1>6. /\ l \in Locals
      /\ l.pc = pc /\ l.index = i /\ l.size = Null
      /\ l.cell.start = cell.start
      /\ Len(l.sector) = n
      /\ getSectorLength(l.cell.length) <= n
      /\ SubSeq(l.sector, 1, l.cell.length) = data
  <2>1. cell.start \in Nat
    BY <1>2 DEF CellType
  <2> DEFINE c == Cell(cell.start, Len(data))
             sector == Sector(n, data)
  <2>2. /\ c \in CellType /\ c.length = Len(data) /\ c.start = cell.start
        /\ sector \in Seq(Nat) /\ Len(sector) = n
        /\ SubSeq(sector, 1, Len(data)) = data
    <3>1. n >= getSectorLength(Len(data))
      BY <1>5 DEF new
    <3> QED
      BY <1>5, <2>1, <3>1, Storing
  <2>3. l = [Idle EXCEPT !.pc = pc, !.index = i, !.cell = c, !.sector = sector]
    BY DEF l
  <2> HIDE DEF c, sector
  <2>4. /\ l.pc = pc /\ l.index = i /\ l.size = Null
        /\ l.cell = c /\ l.sector = sector
    BY <2>3 DEF Idle
  <2>5. l \in Locals
    BY <1>1, <1>5, <2>2, <2>3 DEF Idle, Locals
  <2> HIDE DEF l
  <2>6. getSectorLength(l.cell.length) <= n
    BY <1>3, <1>5, <2>2, <2>4 DEF new
  <2> QED
    BY <2>2, <2>4, <2>5, <2>6
<1> HIDE DEF l
<1>7. Typed' /\ CellsPlaced' /\ thread'[t] = l /\ Elements' = Elements
  BY <1>4, <1>5, <1>6, StepAside DEF At
<1>8. Owns(cell.start, old, i)
  BY <1>1 DEF IInv, CellsPlaced
<1>9. pc = "setMeta" => Owns(thread[t].cell.start, Len(thread[t].sector), thread[t].index)'
  BY <1>4, <1>5, <1>6, <1>7, <1>8 DEF Owns
<1>10. i # Null
  BY <1>1, NullFacts
<1> HIDE DEF cell, old
<1>11. Carries(t)'
  BY <1>1, <1>4, <1>5, <1>6, <1>7, <1>9, <1>10 DEF Carries, Stored
<1> QED
  BY <1>4, <1>7, <1>11 DEF IInv, Cells!arrayVars

(* FileSize, MetaSize and GetMeta only read.                                *)
LEMMA FileSizeStep ==
  ASSUME NEW t, Thread = {t}, IInv(t), FileSize(t)
  PROVE  IInv(t)' /\ [Cells!Next]_(Cells!arrayVars)
<1> DEFINE l == [thread[t] EXCEPT !.pc = "fileAdd", !.size = Len(file)]
<1>1. thread[t] \in Locals /\ Len(file) \in Nat
  BY LenProperties DEF IInv, Typed
<1>2. /\ l \in Locals /\ l.pc = "fileAdd" /\ l.size = Len(file)
      /\ l.index = thread[t].index /\ l.cell = thread[t].cell /\ l.sector = thread[t].sector
  BY <1>1 DEF Locals, Pc
<1>3. Go(t, l) /\ thread[t].pc = "fileSize" /\ UNCHANGED <<file, meta, last>>
  BY DEF FileSize, At
<1> HIDE DEF l
<1>4. Typed' /\ CellsPlaced' /\ thread'[t] = l /\ Elements' = Elements
  BY <1>2, <1>3, StepAside
<1>5. Carries(t)'
  BY <1>2, <1>3, <1>4 DEF IInv, Carries, Stored
<1> QED
  BY <1>3, <1>4, <1>5 DEF IInv, Cells!arrayVars

(* MetaSize reads the number of elements.                                   *)
LEMMA MetaSizeStep ==
  ASSUME NEW t, Thread = {t}, IInv(t), MetaSize(t)
  PROVE  IInv(t)' /\ [Cells!Next]_(Cells!arrayVars)
<1> DEFINE l == [thread[t] EXCEPT !.pc = "metaAdd", !.size = Len(meta)]
<1>1. thread[t] \in Locals /\ Len(meta) \in Nat
  BY LenProperties DEF IInv, Typed
<1>2. /\ l \in Locals /\ l.pc = "metaAdd" /\ l.size = Len(meta)
      /\ l.index = thread[t].index /\ l.cell = thread[t].cell /\ l.sector = thread[t].sector
  BY <1>1 DEF Locals, Pc
<1>3. Go(t, l) /\ thread[t].pc = "metaSize" /\ UNCHANGED <<file, meta, last>>
  BY DEF MetaSize, At
<1> HIDE DEF l
<1>4. Typed' /\ CellsPlaced' /\ thread'[t] = l /\ Elements' = Elements
  BY <1>2, <1>3, StepAside
<1>5. Carries(t)'
  BY <1>2, <1>3, <1>4 DEF IInv, Carries, Stored, Owns, Piece
<1> QED
  BY <1>3, <1>4, <1>5 DEF IInv, Cells!arrayVars

(* GetMeta reads the cell of its element.                                   *)
LEMMA GetMetaStep ==
  ASSUME NEW t, Thread = {t}, IInv(t), NEW i \in 0..(Len(meta) - 1), GetMeta(t, i)
  PROVE  IInv(t)' /\ [Cells!Next]_(Cells!arrayVars)
<1> DEFINE cell == meta[i + 1]
           l == [Idle EXCEPT !.pc = "read", !.index = i, !.cell = cell]
<1>1. i + 1 \in 1..Len(meta) /\ i \in Nat /\ i # Null
  <2>1. Len(meta) \in Nat
    BY LenProperties DEF IInv, Typed
  <2> QED
    BY <2>1, NullFacts
<1>2. cell \in CellType
  BY <1>1, ElementOfSeq DEF IInv, Typed
<1>3. Go(t, l) /\ thread[t].pc = "idle" /\ UNCHANGED <<file, meta, last>>
  BY DEF GetMeta, At
<1> HIDE DEF cell
<1>4. l.pc = "read" /\ l.index = i /\ l.cell = cell
  BY DEF Idle
<1>5. l \in Locals
  BY <1>1, <1>2, IdleFacts DEF Locals, Pc
<1> HIDE DEF l
<1>6. Typed' /\ CellsPlaced' /\ thread'[t] = l /\ Elements' = Elements
  BY <1>3, <1>4, <1>5, StepAside
<1>7. Carries(t)'
  <2>1. thread'[t].cell = meta'[thread'[t].index + 1]
    BY <1>3, <1>4, <1>6 DEF cell
  <2> QED
    BY <1>1, <1>3, <1>4, <1>6, <2>1 DEF Carries
<1> QED
  BY <1>3, <1>6, <1>7 DEF IInv, Cells!arrayVars

(* An element's bytes lie in the file.                                      *)
LEMMA CellFacts ==
  ASSUME Typed, CellsPlaced, NEW i \in 1..Len(meta)
  PROVE  /\ meta[i].start \in Nat /\ meta[i].length \in 0..MaxLength
         /\ getSectorLength(meta[i].length) \in Nat
         /\ getSectorLength(meta[i].length) >= 1
         /\ meta[i].length <= getSectorLength(meta[i].length)
         /\ meta[i].start + getSectorLength(meta[i].length) <= Len(file)
         /\ meta[i].start + meta[i].length <= Len(file)
<1>1. Len(file) \in Nat
  BY LenProperties DEF Typed
<1>2. meta[i] \in CellType
  BY ElementOfSeq DEF Typed
<1>3. meta[i].start \in Nat /\ meta[i].length \in 0..MaxLength
  BY <1>2 DEF CellType
<1>4. /\ getSectorLength(meta[i].length) \in Nat
      /\ getSectorLength(meta[i].length) >= 1
      /\ meta[i].length <= getSectorLength(meta[i].length)
  BY <1>3, SectorLength
<1>5. meta[i].start + getSectorLength(meta[i].length) <= Len(file)
  BY DEF CellsPlaced, Owns
<1> QED
  BY <1>1, <1>3, <1>4, <1>5, MaxLengthNat

(* What a thread that stores an element has.                                *)
LEMMA StoringFacts ==
  ASSUME NEW t, Thread = {t}, IInv(t),
         thread[t].pc \in {"fileSize", "fileAdd", "metaSize", "metaAdd", "setMeta", "writeSector"}
  PROVE  LET cell == thread[t].cell
             sector == thread[t].sector
         IN  /\ thread[t] \in Locals
             /\ cell \in CellType
             /\ cell.start \in Nat /\ cell.length \in 0..MaxLength
             /\ sector \in Seq(Nat) /\ Len(sector) \in Nat
             /\ getSectorLength(cell.length) \in Nat
             /\ getSectorLength(cell.length) >= 1
             /\ cell.length <= getSectorLength(cell.length)
             /\ getSectorLength(cell.length) <= Len(sector)
<1> DEFINE cell == thread[t].cell
           sector == thread[t].sector
<1>1. thread[t] \in Locals
  BY DEF IInv, Typed
<1>2. cell \in CellType /\ sector \in Seq(Nat)
  BY <1>1 DEF Locals
<1>3. cell.start \in Nat /\ cell.length \in 0..MaxLength /\ Len(sector) \in Nat
  BY <1>2, LenProperties DEF CellType
<1>4. /\ getSectorLength(cell.length) \in Nat
      /\ getSectorLength(cell.length) >= 1
      /\ cell.length <= getSectorLength(cell.length)
  BY <1>3, SectorLength
<1>5. getSectorLength(cell.length) <= Len(sector)
  BY DEF IInv, Carries
<1> QED
  BY <1>1, <1>2, <1>3, <1>4, <1>5

(* FileAdd puts the sector behind everything else.                          *)
LEMMA FileAddStep ==
  ASSUME NEW t, Thread = {t}, IInv(t), FileAdd(t)
  PROVE  IInv(t)' /\ [Cells!Next]_(Cells!arrayVars)
<1> DEFINE cell == thread[t].cell
           sector == thread[t].sector
           index == thread[t].index
           m == Len(file)
           n == Len(sector)
           l == [thread[t] EXCEPT !.pc = IF index = Null THEN "metaSize" ELSE "setMeta",
                                  !.cell.start = m]
<1>1. /\ thread[t].pc = "fileAdd" /\ thread[t].size = m
      /\ file' = Written(m, sector) /\ Go(t, l) /\ meta' = meta /\ last' = last
  BY DEF FileAdd, At, IInv, Carries
<1>2. /\ thread[t] \in Locals
      /\ cell \in CellType
      /\ cell.length \in 0..MaxLength
      /\ sector \in Seq(Nat) /\ n \in Nat /\ n >= 1
      /\ getSectorLength(cell.length) <= n
      /\ cell.length \in Nat /\ cell.length <= n
  BY <1>1, StoringFacts, MaxLengthNat
<1>3. file \in Seq(Nat) /\ m \in Nat
  BY LenProperties DEF IInv, Typed
<1>4. /\ file' \in Seq(Nat) /\ Len(file') = m + n
      /\ \A k \in 1..m : file'[k] = file[k]
      /\ \A k \in 1..n : file'[m + k] = sector[k]
  <2>1. \A k \in 1..m : k <= m
    BY <1>3
  <2> QED
    BY <1>1, <1>2, <1>3, <2>1, WrittenBytes
<1>5. /\ l \in Locals
      /\ l.pc = IF index = Null THEN "metaSize" ELSE "setMeta"
      /\ l.index = index /\ l.sector = sector
      /\ l.cell.start = m /\ l.cell.length = cell.length
  BY <1>2, <1>3 DEF Locals, CellType, Pc
<1> HIDE DEF l, m, n
<1>6. thread' \in [Thread -> Locals] /\ thread'[t] = l
  BY <1>1, <1>5, Gone DEF IInv, Typed
<1>7. Typed'
  BY <1>1, <1>4, <1>6 DEF IInv, Typed
<1>8. \A i \in 1..Len(meta) :
         /\ meta[i].start \in Nat /\ meta[i].length \in Nat
         /\ getSectorLength(meta[i].length) \in Nat
         /\ meta[i].start + getSectorLength(meta[i].length) <= m
         /\ meta[i].start + meta[i].length <= m
  BY CellFacts, MaxLengthNat DEF IInv, m
<1>9. CellsPlaced'
  <2> SUFFICES ASSUME NEW i \in 1..Len(meta)
               PROVE  Owns(meta[i].start, getSectorLength(meta[i].length), i - 1)'
    BY <1>1 DEF CellsPlaced
  <2>1. Owns(meta[i].start, getSectorLength(meta[i].length), i - 1)
    BY DEF IInv, CellsPlaced
  <2> DEFINE a == meta[i].start
             s == getSectorLength(meta[i].length)
  <2>2. a + s <= m /\ a \in Nat /\ s \in Nat
    BY <1>8
  <2> HIDE DEF a, s
  <2>3. a + s <= Len(file')
    BY <1>2, <1>3, <1>4, <2>2
  <2> QED
    BY <1>1, <2>1, <2>3 DEF Owns, a, s
<1>10. \A i \in 1..Len(meta) : Piece(meta[i])' = Piece(meta[i])
  <2> SUFFICES ASSUME NEW i \in 1..Len(meta)
               PROVE  Piece(meta[i])' = Piece(meta[i])
    OBVIOUS
  <2> DEFINE a == meta[i].start
             len == meta[i].length
  <2>1. a \in Nat /\ len \in Nat /\ a + len <= m
    BY <1>8
  <2> HIDE DEF a, len
  <2>2. a + len <= Len(file') /\ \A k \in 1..len : file'[a + k] = file[a + k]
    <3>1. \A k \in 1..len : a + k \in 1..m
      BY <1>3, <2>1
    <3>2. a + len <= Len(file')
      BY <1>2, <1>3, <1>4, <2>1
    <3> QED
      BY <1>4, <3>1, <3>2
  <2>3. SubSeq(file', a + 1, a + len) = SubSeq(file, a + 1, a + len)
    <3>1. a + len <= Len(file)
      BY <2>1 DEF m
    <3>2. SameBytes(file', a, file, a, len)
      BY <1>3, <1>4, <2>1, <2>2, <3>1 DEF SameBytes
    <3> QED
      BY <3>2, SamePiece
  <2> QED
    BY <1>1, <2>3 DEF Piece, a, len
<1>11. Elements' = Elements
  <2>0. thread[t].pc # "writeSector" /\ thread'[t].pc # "writeSector"
    BY <1>1, <1>5, <1>6
  <2>1. \A i \in 1..Len(meta) : ElementAt(t, i)' = ElementAt(t, i)
    BY <1>10, <2>0 DEF ElementAt
  <2> QED
    BY <1>1, <2>1, ElementsAre
<1>12. SubSeq(file', m + 1, m + cell.length) = SubSeq(sector, 1, cell.length)
  <2> DEFINE len == cell.length
  <2>0. len \in Nat /\ len <= n
    BY <1>2
  <2> HIDE DEF len
  <2>1. /\ len \in Nat /\ m + len <= Len(file') /\ len <= Len(sector)
        /\ \A k \in 1..len : file'[m + k] = sector[k]
    <3>1. n = Len(sector)
      BY DEF n
    <3>2. \A k \in 1..len : k \in 1..n
      BY <1>2, <2>0
    <3>3. m \in Nat /\ n \in Nat /\ Len(file') = m + n
      BY <1>2, <1>3, <1>4
    <3>4. m + len <= Len(file')
      BY <2>0, <3>3
    <3> HIDE DEF sector
    <3>5. \A k \in 1..len : file'[m + k] = sector[k]
      BY <1>4, <3>2
    <3> QED
      BY <2>0, <3>1, <3>4, <3>5
  <2>2. Begins(sector, file', m, len)
    BY <1>2, <1>3, <1>4, <2>1 DEF Begins
  <2>3. After(file', m, len) = Prefix(sector, len)
    BY <2>2, SamePrefix
  <2> QED
    BY <2>3 DEF len, After, Prefix
<1>13. Owns(thread[t].cell.start, Len(thread[t].sector), thread[t].index)'
  <2>1. thread'[t].cell.start = m /\ Len(thread'[t].sector) = n
    BY <1>5, <1>6 DEF n
  <2>2. m + n <= Len(file')
    BY <1>2, <1>3, <1>4
  <2>3. \A j \in 1..Len(meta') : meta'[j].start + getSectorLength(meta'[j].length) <= m
    BY <1>1, <1>8
  <2> QED
    BY <2>1, <2>2, <2>3 DEF Owns
<1>14. Piece(thread[t].cell)' = Stored(t)' /\ Stored(t)' = Stored(t)
  BY <1>5, <1>6, <1>12 DEF Piece, Stored
<1>15. Carries(t)'
  BY <1>1, <1>2, <1>5, <1>6, <1>13, <1>14 DEF IInv, Carries
<1> QED
  BY <1>1, <1>7, <1>9, <1>11, <1>15 DEF IInv, Cells!arrayVars

(* WriteSector overwrites the element's own bytes.                          *)
LEMMA WriteSectorStep ==
  ASSUME NEW t, Thread = {t}, IInv(t), WriteSector(t)
  PROVE  IInv(t)' /\ [Cells!Next]_(Cells!arrayVars)
<1> DEFINE cell == thread[t].cell
           sector == thread[t].sector
           index == thread[t].index
           start == thread[t].cell.start
           m == Len(file)
           n == Len(sector)
<1>1. /\ thread[t].pc = "writeSector"
      /\ file' = Written(start, sector) /\ Go(t, Idle) /\ meta' = meta /\ last' = last
      /\ index # Null /\ index + 1 \in 1..Len(meta) /\ cell = meta[index + 1]
      /\ Owns(start, n, index)
  BY DEF WriteSector, At, IInv, Carries
<1>2. /\ thread[t] \in Locals
      /\ start \in Nat
      /\ sector \in Seq(Nat) /\ n \in Nat /\ n >= 1
      /\ cell.length \in Nat /\ cell.length <= n
  <2>1. /\ thread[t] \in Locals
        /\ cell.start \in Nat /\ cell.length \in 0..MaxLength
        /\ sector \in Seq(Nat) /\ Len(sector) \in Nat
        /\ getSectorLength(cell.length) \in Nat
        /\ getSectorLength(cell.length) >= 1
        /\ cell.length <= getSectorLength(cell.length)
        /\ getSectorLength(cell.length) <= Len(sector)
    BY <1>1, StoringFacts
  <2> HIDE DEF cell, sector
  <2>2. Len(sector) >= 1 /\ cell.length \in Nat /\ cell.length <= Len(sector)
    BY <2>1, MaxLengthNat
  <2> QED
    BY <2>1, <2>2 DEF cell
<1>3. file \in Seq(Nat) /\ m \in Nat
  BY LenProperties DEF IInv, Typed
<1>4. index \in Nat
  BY <1>1, <1>2 DEF Locals
<1>5. start + n <= m /\ start # m
  BY <1>1, <1>2, <1>3 DEF Owns
<1>6. /\ file' \in Seq(Nat) /\ Len(file') = m
      /\ \A k \in 1..m : k <= start \/ start + n < k => file'[k] = file[k]
      /\ \A k \in 1..n : file'[start + k] = sector[k]
  BY <1>1, <1>2, <1>3, <1>5, WrittenBytes
<1> HIDE DEF m, n, start
<1>7. thread' \in [Thread -> Locals] /\ thread'[t] = Idle
  BY <1>1, IdleFacts, Gone DEF IInv, Typed
<1>8. Typed'
  BY <1>1, <1>6, <1>7 DEF IInv, Typed
<1>9. CellsPlaced'
  BY <1>1, <1>6 DEF IInv, CellsPlaced, Owns, m
<1>10. ASSUME NEW i \in 1..Len(meta), i # index + 1
       PROVE  Piece(meta[i])' = Piece(meta[i])
  <2> DEFINE a == meta[i].start
             len == meta[i].length
             s == getSectorLength(len)
  <2>1. a \in Nat /\ len \in Nat /\ s \in Nat /\ len <= s /\ a + s <= m
    BY CellFacts, MaxLengthNat DEF IInv, m
  <2>2. i - 1 # index
    BY <1>4, <1>10
  <2>3. start + n <= a \/ a + s <= start
    BY <1>1, <2>2 DEF Owns
  <2> HIDE DEF a, s, len
  <2>4. a + len <= m /\ a + len <= Len(file')
    BY <1>3, <1>6, <2>1
  <2>5. ASSUME NEW k \in 1..len PROVE file'[a + k] = file[a + k]
    <3>1. a + k \in 1..m /\ (a + k <= start \/ start + n < a + k)
      BY <1>2, <1>3, <2>1, <2>3
    <3> QED
      BY <1>6, <3>1
  <2>6. SubSeq(file', a + 1, a + len) = SubSeq(file, a + 1, a + len)
    <3>1. a + len <= Len(file)
      BY <2>4 DEF m
    <3>2. SameBytes(file', a, file, a, len)
      BY <1>3, <1>6, <2>1, <2>4, <2>5, <3>1 DEF SameBytes
    <3> QED
      BY <3>2, SamePiece
  <2> QED
    BY <1>1, <2>6 DEF Piece, a, len
<1>11. SubSeq(file', start + 1, start + cell.length) = SubSeq(sector, 1, cell.length)
  <2> DEFINE len == cell.length
  <2>0. len \in Nat /\ len <= n
    BY <1>2
  <2> HIDE DEF len
  <2>1. /\ len \in Nat /\ start + len <= Len(file') /\ len <= Len(sector)
        /\ \A k \in 1..len : file'[start + k] = sector[k]
    <3>1. n = Len(sector)
      BY DEF n
    <3>2. \A k \in 1..len : k \in 1..n
      BY <1>2, <2>0
    <3> HIDE DEF sector
    <3> QED
      BY <1>2, <1>3, <1>5, <1>6, <2>0, <3>1, <3>2
  <2>2. Begins(sector, file', start, len)
    BY <1>2, <1>6, <2>1 DEF Begins
  <2>3. After(file', start, len) = Prefix(sector, len)
    BY <2>2, SamePrefix
  <2> QED
    BY <2>3 DEF len, After, Prefix
<1>12. Elements' = Elements
  <2>1. ASSUME NEW i \in 1..Len(meta) PROVE ElementAt(t, i)' = ElementAt(t, i)
    <3>1. ElementAt(t, i)' = Piece(meta[i])'
      BY <1>7, IdleFacts DEF ElementAt
    <3>2. CASE i = index + 1
      <4>1. index = i - 1 /\ meta[i] = cell
        BY <1>1, <1>4, <3>2
      <4>2. ElementAt(t, i) = SubSeq(sector, 1, cell.length)
        BY <1>1, <4>1 DEF ElementAt
      <4>3. Piece(meta[i])' = SubSeq(file', start + 1, start + cell.length)
        BY <1>1, <4>1 DEF Piece, start
      <4> QED
        BY <1>11, <3>1, <4>2, <4>3
    <3>3. CASE i # index + 1
      <4>1. index # i - 1
        BY <1>4, <3>3
      <4> QED
        BY <1>10, <3>1, <3>3, <4>1 DEF ElementAt
    <3> QED
      BY <3>2, <3>3
  <2> QED
    BY <1>1, <2>1, ElementsAre
<1>13. Carries(t)'
  BY <1>7, IdleFacts DEF Carries
<1> QED
  BY <1>1, <1>8, <1>9, <1>12, <1>13 DEF IInv, Cells!arrayVars

(* A cell whose bytes nobody else owns can take any place in meta.          *)
CanTake(k, cell, n) ==
  /\ cell \in CellType /\ n \in Nat
  /\ getSectorLength(cell.length) <= n
  /\ cell.start + n <= Len(file)
  /\ \A j \in 1..Len(meta) :
        j # k => \/ cell.start + n <= meta[j].start
                 \/ meta[j].start + getSectorLength(meta[j].length) <= cell.start

(* Cells stay apart when such a cell is put at k.                           *)
LEMMA Placing ==
  ASSUME Typed, CellsPlaced, NEW cell, NEW n, NEW k, CanTake(k, cell, n),
         file' = file, k \in 1..Len(meta'), meta'[k] = cell,
         \A j \in 1..Len(meta') : j # k => j \in 1..Len(meta) /\ meta'[j] = meta[j]
  PROVE  CellsPlaced'
<1> DEFINE start(j) == meta'[j].start
           end(j) == meta'[j].start + getSectorLength(meta'[j].length)
<1>1. /\ Len(file) \in Nat /\ n \in Nat
      /\ start(k) \in Nat /\ getSectorLength(meta'[k].length) \in Nat
      /\ end(k) <= start(k) + n /\ start(k) + n <= Len(file)
  <2>1. Len(file) \in Nat
    BY LenProperties DEF Typed
  <2>2. cell.start \in Nat /\ cell.length \in 0..MaxLength
    BY DEF CanTake, CellType
  <2>3. getSectorLength(cell.length) \in Nat
    BY <2>2, SectorLength
  <2> QED
    BY <2>1, <2>2, <2>3 DEF CanTake
<1>2. ASSUME NEW j \in 1..Len(meta'), j # k
      PROVE  /\ start(j) \in Nat /\ end(j) \in Nat /\ end(j) <= Len(file)
             /\ start(k) + n <= start(j) \/ end(j) <= start(k)
  <2>1. j \in 1..Len(meta) /\ meta'[j] = meta[j]
    BY <1>2
  <2>2. /\ meta[j].start \in Nat
        /\ getSectorLength(meta[j].length) \in Nat
        /\ meta[j].start + getSectorLength(meta[j].length) <= Len(file)
    BY <2>1, CellFacts
  <2> QED
    BY <1>2, <2>1, <2>2 DEF CanTake
<1>3. ASSUME NEW i \in 1..Len(meta'), NEW j \in 1..Len(meta'), i # k, j # k, i # j
      PROVE  end(i) <= start(j) \/ end(j) <= start(i)
  <2>1. i \in 1..Len(meta) /\ meta'[i] = meta[i] /\ j \in 1..Len(meta) /\ meta'[j] = meta[j]
    BY <1>3
  <2>2. Owns(meta[i].start, getSectorLength(meta[i].length), i - 1)
    BY <2>1 DEF CellsPlaced
  <2>3. j - 1 # i - 1
    BY <1>3
  <2> QED
    BY <2>1, <2>2, <2>3 DEF Owns
<1>4. ASSUME NEW i \in 1..Len(meta')
      PROVE  end(i) <= Len(file) /\ \A j \in 1..Len(meta') : j # i => end(i) <= start(j) \/ end(j) <= start(i)
  <2> HIDE DEF start, end
  <2>1. CASE i = k
    <3>1. end(k) <= Len(file)
      BY <1>1 DEF start, end
    <3>2. ASSUME NEW j \in 1..Len(meta'), j # k PROVE end(k) <= start(j) \/ end(j) <= start(k)
      <4>1. end(k) \in Nat
        BY <1>1 DEF start, end
      <4> QED
        BY <1>1, <1>2, <3>2, <4>1
    <3> QED
      BY <2>1, <3>1, <3>2
  <2>2. CASE i # k
    <3>1. end(i) <= Len(file)
      BY <1>2, <2>2
    <3>2. ASSUME NEW j \in 1..Len(meta'), j # i PROVE end(i) <= start(j) \/ end(j) <= start(i)
      <4>1. CASE j = k
        <5>1. end(k) \in Nat
          BY <1>1 DEF start, end
        <5> QED
          BY <1>1, <1>2, <2>2, <4>1, <5>1
      <4>2. CASE j # k
        BY <1>3, <2>2, <3>2, <4>2
      <4> QED
        BY <4>1, <4>2
    <3> QED
      BY <3>1, <3>2
  <2> QED
    BY <2>1, <2>2
<1>5. ASSUME NEW i \in 1..Len(meta')
      PROVE  Owns(meta[i].start, getSectorLength(meta[i].length), i - 1)'
  <2>1. \A j \in 1..Len(meta') : j - 1 # i - 1 => j # i
    OBVIOUS
  <2> QED
    BY <1>4, <2>1 DEF Owns
<1> QED
  BY <1>5 DEF CellsPlaced

(* Calls have their type.                                                   *)
LEMMA CallTypes ==
  \A op \in {"open", "add", "set", "get"}, i \in Nat \cup {Null}, bs \in Seq(Nat) \cup {Null} :
     Call(op, i, bs) \in CallType
  BY DEF Call, CallType

(* MetaAdd makes the element one of the array.                              *)
LEMMA MetaAddStep ==
  ASSUME NEW t, Thread = {t}, IInv(t), MetaAdd(t)
  PROVE  IInv(t)' /\ [Cells!Next]_(Cells!arrayVars)
<1> DEFINE cell == thread[t].cell
           sector == thread[t].sector
           m == Len(meta)
           n == Len(sector)
           k == m + 1
           data == Stored(t)
<1>1. /\ thread[t].pc = "metaAdd" /\ thread[t].index = Null
      /\ meta' = Append(meta, cell) /\ Go(t, Idle) /\ file' = file
      /\ last' = Call("add", m, data)
      /\ data \in Data /\ Owns(cell.start, n, Null) /\ Piece(cell) = data
  BY DEF MetaAdd, At, IInv, Carries
<1>2. /\ cell \in CellType /\ cell.length \in Nat
      /\ n \in Nat /\ getSectorLength(cell.length) <= n
  BY <1>1, StoringFacts, MaxLengthNat
<1>3. /\ meta \in Seq(CellType) /\ m \in Nat
      /\ meta' \in Seq(CellType) /\ Len(meta') = k
      /\ \A j \in 1..m : meta'[j] = meta[j]
      /\ meta'[k] = cell
  BY <1>1, <1>2, AppendProperties, LenProperties DEF IInv, Typed
<1>4. thread' \in [Thread -> Locals] /\ thread'[t] = Idle
  BY <1>1, IdleFacts, Gone DEF IInv, Typed
<1>5. Typed'
  <2>1. data \in Seq(Nat)
    BY <1>1, DataFacts
  <2>2. last' \in CallType
    BY <1>1, <1>3, <2>1, CallTypes
  <2> QED
    BY <1>1, <1>3, <1>4, <2>2 DEF IInv, Typed
<1> HIDE DEF m, n, cell
<1>6. CanTake(k, cell, n)
  <2>1. ASSUME NEW j \in 1..m
        PROVE  \/ cell.start + n <= meta[j].start
               \/ meta[j].start + getSectorLength(meta[j].length) <= cell.start
    <3>1. j - 1 # Null
      BY NullFacts
    <3> QED
      BY <1>1, <3>1 DEF Owns, m
  <2>2. cell.start + n <= Len(file)
    BY <1>1 DEF Owns
  <2> QED
    BY <1>2, <2>1, <2>2 DEF CanTake, m
<1>7. CellsPlaced'
  <2>1. k \in 1..Len(meta') /\ \A j \in 1..Len(meta') : j # k => j \in 1..m /\ meta'[j] = meta[j]
    BY <1>3
  <2> HIDE DEF k
  <2> QED
    BY <1>1, <1>3, <1>6, <2>1, Placing DEF IInv, m
<1>8. Cells!Add(data)
  <2>1. Elements = [i \in 1..m |-> ElementAt(t, i)] /\ Len(Elements) = m
    <3>1. Elements = [i \in 1..Len(meta) |-> ElementAt(t, i)]
      BY ElementsAre
    <3> QED
      BY <1>3, <3>1 DEF m
  <2>2. Elements' = [i \in 1..k |-> ElementAt(t, i)']
    BY <1>3, ElementsAre
  <2>3. \A i \in 1..m : ElementAt(t, i)' = ElementAt(t, i)
    BY <1>1, <1>3, <1>4, IdleFacts DEF ElementAt, Piece
  <2>4. ASSUME NEW i, i = k PROVE ElementAt(t, i)' = data
    <3>1. meta'[i] = cell
      BY <1>3, <2>4
    <3>2. Piece(meta[i])' = Piece(cell)
      BY <1>1, <3>1 DEF Piece
    <3>3. ElementAt(t, i)' = Piece(meta[i])'
      BY <1>4, IdleFacts DEF ElementAt
    <3> QED
      BY <1>1, <3>2, <3>3
  <2>5. Elements' = [i \in 1..(m + 1) |-> IF i <= m THEN Elements[i] ELSE data]
    <3>1. ASSUME NEW i \in 1..k
          PROVE  ElementAt(t, i)' = IF i <= m THEN Elements[i] ELSE data
      <4>1. i \in 1..m \/ (i = k /\ ~(i <= m))
        BY <1>3
      <4>2. CASE i \in 1..m
        <5>1. ElementAt(t, i)' = Elements[i] /\ i <= m
          BY <1>3, <2>1, <2>3, <4>2
        <5> QED
          BY <5>1
      <4>3. CASE i = k /\ ~(i <= m)
        BY <2>4, <4>3
      <4> QED
        BY <4>1, <4>2, <4>3
    <3> QED
      BY <2>2, <3>1
  <2>6. Elements' = Append(Elements, data)
    <3> HIDE DEF data
    <3> QED
      BY <1>3, <2>1, <2>5
  <2>7. last' = Cells!Call("add", Len(Elements), data)
    BY <1>1, <2>1 DEF Call, Cells!Call, m
  <2> QED
    BY <2>6, <2>7 DEF Cells!Add
<1>9. Carries(t)'
  BY <1>4, IdleFacts DEF Carries
<1> QED
  BY <1>1, <1>5, <1>7, <1>8, <1>9 DEF IInv, Cells!Next

(* SetMeta gives an element its new place, or its new length.               *)
LEMMA SetMetaStep ==
  ASSUME NEW t, Thread = {t}, IInv(t), SetMeta(t)
  PROVE  IInv(t)' /\ [Cells!Next]_(Cells!arrayVars)
<1> DEFINE cell == thread[t].cell
           sector == thread[t].sector
           index == thread[t].index
           m == Len(meta)
           n == Len(sector)
           k == index + 1
           data == Stored(t)
           l == IF thread[t].size # Null THEN Idle ELSE [thread[t] EXCEPT !.pc = "writeSector"]
<1>1. /\ thread[t].pc = "setMeta" /\ index # Null /\ k \in 1..m
      /\ meta' = [meta EXCEPT ![k] = cell] /\ Go(t, l) /\ file' = file
      /\ last' = Call("set", index, data)
      /\ data \in Data /\ Owns(cell.start, n, index)
      /\ thread[t].size # Null => Piece(cell) = data
  BY DEF SetMeta, At, IInv, Carries
<1>2. /\ thread[t] \in Locals
      /\ cell \in CellType /\ cell.length \in Nat
      /\ n \in Nat /\ getSectorLength(cell.length) <= n
  BY <1>1, StoringFacts, MaxLengthNat
<1>3. index \in Nat
  BY <1>1, <1>2 DEF Locals
<1>4. /\ meta \in Seq(CellType) /\ m \in Nat
      /\ meta' \in Seq(CellType) /\ Len(meta') = m
      /\ \A j \in 1..m : meta'[j] = IF j = k THEN cell ELSE meta[j]
  <2>1. meta \in Seq(CellType)
    BY DEF IInv, Typed
  <2> HIDE DEF cell, k
  <2> QED
    BY <1>1, <1>2, <2>1, ExceptSeq, LenProperties
<1>5. l \in Locals
  BY <1>2, IdleFacts DEF Locals, Pc
<1>6. \/ thread[t].size # Null /\ l = Idle
      \/ /\ thread[t].size = Null /\ l.pc = "writeSector"
         /\ l.index = index /\ l.cell = cell /\ l.sector = sector /\ l.size = Null
  BY <1>2 DEF Locals
<1> HIDE DEF l
<1>7. thread' \in [Thread -> Locals] /\ thread'[t] = l
  BY <1>1, <1>5, Gone DEF IInv, Typed
<1>8. Typed'
  <2>1. data \in Seq(Nat)
    BY <1>1, DataFacts
  <2>2. last' \in CallType
    BY <1>1, <1>3, <2>1, CallTypes
  <2> QED
    BY <1>1, <1>4, <1>7, <2>2 DEF IInv, Typed
<1> HIDE DEF m, n, cell
<1>9. CanTake(k, cell, n)
  <2>1. ASSUME NEW j \in 1..m, j # k
        PROVE  \/ cell.start + n <= meta[j].start
               \/ meta[j].start + getSectorLength(meta[j].length) <= cell.start
    <3>1. j - 1 # index
      BY <1>3, <2>1
    <3> QED
      BY <1>1, <3>1 DEF Owns, m
  <2>2. cell.start + n <= Len(file)
    BY <1>1 DEF Owns
  <2> QED
    BY <1>2, <2>1, <2>2 DEF CanTake, m
<1>10. CellsPlaced'
  <2>1. /\ k \in 1..Len(meta') /\ meta'[k] = cell
        /\ \A j \in 1..Len(meta') : j # k => j \in 1..m /\ meta'[j] = meta[j]
    BY <1>1, <1>4
  <2> HIDE DEF k
  <2> QED
    BY <1>1, <1>9, <2>1, Placing DEF IInv, m
<1>11. Cells!Set(index, data)
  <2>1. Elements = [i \in 1..m |-> ElementAt(t, i)]
    BY ElementsAre DEF m
  <2>2. Elements' = [i \in 1..m |-> ElementAt(t, i)']
    BY <1>4, ElementsAre
  <2>3. ASSUME NEW i \in 1..m, i # k
        PROVE  ElementAt(t, i)' = ElementAt(t, i)
    <3>1. index # i - 1
      BY <1>3, <2>3
    <3>2. ~(l.pc = "writeSector" /\ l.index = i - 1)
      BY <1>6, <3>1, IdleFacts
    <3>3. Piece(meta[i])' = Piece(meta[i])
      BY <1>1, <1>4, <2>3 DEF Piece
    <3> QED
      BY <1>1, <1>7, <3>2, <3>3 DEF ElementAt
  <2>4. ASSUME NEW i, i = k PROVE ElementAt(t, i)' = data
    <3>1. meta'[i] = cell /\ index = i - 1
      BY <1>1, <1>3, <1>4, <2>4
    <3>2. CASE thread[t].size # Null
      <4>1. Piece(meta[i])' = data
        BY <1>1, <3>1, <3>2 DEF Piece
      <4> QED
        BY <1>6, <1>7, <3>2, <4>1, IdleFacts DEF ElementAt
    <3>3. CASE thread[t].size = Null
      <4>1. thread'[t].pc = "writeSector" /\ thread'[t].index = i - 1 /\ thread'[t].sector = sector
        BY <1>6, <1>7, <3>1, <3>3
      <4>2. data = SubSeq(sector, 1, cell.length)
        BY DEF Stored, cell
      <4> QED
        BY <3>1, <4>1, <4>2 DEF ElementAt
    <3> QED
      BY <3>2, <3>3
  <2>5. Elements' = [Elements EXCEPT ![k] = data]
    <3>1. ASSUME NEW i \in 1..m
          PROVE  ElementAt(t, i)' = IF i = k THEN data ELSE ElementAt(t, i)
      BY <2>3, <2>4
    <3> HIDE DEF k, data
    <3> QED
      BY <2>1, <2>2, <3>1
  <2>6. last' = Cells!Call("set", index, data)
    BY <1>1 DEF Call, Cells!Call
  <2> QED
    BY <2>5, <2>6 DEF Cells!Set
<1>12. Cells!Next
  <2>1. index \in 0..(Len(Elements) - 1)
    <3>1. Len(Elements) = m
      <4>1. Elements = [i \in 1..m |-> ElementAt(t, i)]
        BY ElementsAre DEF m
      <4> QED
        BY <1>4, <4>1
    <3> QED
      BY <1>1, <1>3, <1>4, <3>1
  <2> HIDE DEF index, data
  <2> QED
    BY <1>1, <1>11, <2>1 DEF Cells!Next
<1>13. Carries(t)'
  <2>1. CASE l = Idle
    BY <1>7, <2>1, IdleFacts DEF Carries
  <2>2. CASE thread[t].size = Null /\ l.pc = "writeSector"
    <3>1. /\ l.index = index /\ l.cell = cell /\ l.sector = sector
      BY <1>6, <2>2, IdleFacts
    <3>2. Owns(thread[t].cell.start, Len(thread[t].sector), thread[t].index)'
      <4>1. Owns(cell.start, Len(sector), index)
        BY <1>1 DEF n
      <4>2. \A j \in 1..m : j - 1 # index => meta'[j] = meta[j]
        BY <1>3, <1>4
      <4>3. Len(meta') = Len(meta) /\ Len(meta) = m
        BY <1>4 DEF m
      <4> QED
        BY <1>1, <1>7, <3>1, <4>1, <4>2, <4>3 DEF Owns
    <3>3. thread'[t].cell = meta'[thread'[t].index + 1] /\ thread'[t].index + 1 \in 1..Len(meta')
      BY <1>1, <1>4, <1>7, <3>1
    <3>4. getSectorLength(thread'[t].cell.length) <= Len(thread'[t].sector)
      BY <1>2, <1>7, <3>1 DEF n
    <3> QED
      BY <1>1, <1>7, <2>2, <3>1, <3>2, <3>3, <3>4 DEF Carries
  <2> QED
    BY <1>6, <2>1, <2>2
<1> QED
  BY <1>8, <1>10, <1>12, <1>13 DEF IInv

(* Read returns the element.                                                *)
LEMMA ReadStep ==
  ASSUME NEW t, Thread = {t}, IInv(t), Read(t)
  PROVE  IInv(t)' /\ [Cells!Next]_(Cells!arrayVars)
<1> DEFINE cell == thread[t].cell
           index == thread[t].index
           k == index + 1
           a == cell.start
           len == cell.length
<1>1. /\ thread[t].pc = "read" /\ index # Null /\ k \in 1..Len(meta) /\ cell = meta[k]
      /\ Go(t, Idle) /\ file' = file /\ meta' = meta
      /\ last' = Call("get", index, IF a + len > Len(file) THEN Null
                                    ELSE SubSeq(file, a + 1, a + len))
  BY DEF Read, At, IInv, Carries
<1>2. a \in Nat /\ len \in Nat /\ a + len <= Len(file)
  BY <1>1, CellFacts, MaxLengthNat DEF IInv
<1>3. thread[t] \in Locals /\ file \in Seq(Nat) /\ Len(file) \in Nat /\ Len(meta) \in Nat
  BY LenProperties DEF IInv, Typed
<1>4. index \in Nat
  BY <1>1, <1>3 DEF Locals
<1>5. last' = Call("get", index, Piece(cell)) /\ Piece(cell) \in Seq(Nat)
  <2>1. Piece(cell) = SubSeq(file, a + 1, a + len)
    BY DEF Piece
  <2> HIDE DEF a, len
  <2>2. SubSeq(file, a + 1, a + len) \in Seq(Nat)
    BY <1>2, <1>3, PieceBytes
  <2>3. ~(a + len > Len(file))
    BY <1>2, <1>3
  <2> QED
    BY <1>1, <2>1, <2>2, <2>3
<1>6. thread' \in [Thread -> Locals] /\ thread'[t] = Idle
  BY <1>1, IdleFacts, Gone DEF IInv, Typed
<1>7. Typed'
  <2>1. last' \in CallType
    BY <1>4, <1>5, CallTypes
  <2> QED
    BY <1>1, <1>6, <2>1 DEF IInv, Typed
<1>8. CellsPlaced'
  BY <1>1 DEF IInv, CellsPlaced, Owns
<1>9. Carries(t)'
  BY <1>6, IdleFacts DEF Carries
<1>10. Elements' = Elements
  <2>1. thread'[t].pc # "writeSector" /\ thread[t].pc # "writeSector"
    BY <1>1, <1>6, IdleFacts
  <2>2. \A i \in 1..Len(meta) : ElementAt(t, i)' = ElementAt(t, i)
    BY <1>1, <2>1 DEF ElementAt, Piece
  <2> QED
    BY <1>1, <2>2, ElementsAre
<1>11. Cells!Next
  <2>1. Elements = [i \in 1..Len(meta) |-> ElementAt(t, i)]
    BY ElementsAre
  <2>2. Len(Elements) = Len(meta) /\ Elements[k] = ElementAt(t, k)
    BY <1>1, <1>3, <2>1
  <2>3. ElementAt(t, k) = Piece(cell)
    BY <1>1 DEF ElementAt
  <2>4. last' = Cells!Call("get", index, Elements[k])
    BY <1>5, <2>2, <2>3 DEF Call, Cells!Call
  <2>5. index \in 0..(Len(Elements) - 1)
    BY <1>1, <1>3, <1>4, <2>2
  <2>6. Cells!Get(index)
    BY <1>10, <2>4 DEF Cells!Get
  <2> HIDE DEF index
  <2> QED
    BY <2>5, <2>6 DEF Cells!Next
<1> QED
  BY <1>7, <1>8, <1>9, <1>11 DEF IInv

-----------------------------------------------------------------------------
(* The theorems.                                                            *)

(* The empty array satisfies the invariant.                                 *)
LEMMA InitIInv ==
  ASSUME NEW t, Thread = {t}, Init
  PROVE  IInv(t) /\ Cells!Init
<1>1. file \in Seq(Nat) /\ meta \in Seq(CellType) /\ Len(meta) = 0
  BY DEF Init
<1>2. thread \in [Thread -> Locals] /\ thread[t] = Idle
  BY IdleFacts DEF Init
<1>3. last \in CallType
  BY CallTypes DEF Init
<1>4. CellsPlaced
  BY <1>1 DEF CellsPlaced
<1>5. Carries(t)
  BY <1>2, IdleFacts DEF Carries
<1>6. Cells!Init
  <2>1. Elements = [i \in 1..0 |-> ElementAt(t, i)]
    BY <1>1, ElementsAre
  <2>2. Elements \in [1..0 -> Nat]
    BY <2>1
  <2>3. Elements \in Seq(Nat) /\ Len(Elements) = 0
    BY <2>2
  <2>4. Elements = <<>>
    BY <2>3, EmptySeq
  <2> QED
    BY <2>4 DEF Init, Call, Cells!Init, Cells!Call
<1> QED
  BY <1>1, <1>2, <1>3, <1>4, <1>5, <1>6 DEF IInv, Typed

(* Every step keeps the invariant and is a step of the array.               *)
LEMMA StepIInv ==
  ASSUME NEW t, Thread = {t}, IInv(t), [Next]_vars
  PROVE  IInv(t)' /\ [Cells!Next]_(Cells!arrayVars)
<1>1. CASE UNCHANGED vars
  <2>1. file' = file /\ meta' = meta /\ thread' = thread /\ last' = last
    BY <1>1 DEF vars
  <2>2. \A i \in 1..Len(meta) : ElementAt(t, i)' = ElementAt(t, i)
    BY <2>1 DEF ElementAt, Piece
  <2>3. Elements' = Elements
    BY <2>1, <2>2, ElementsAre
  <2>4. Typed' /\ CellsPlaced'
    BY <2>1 DEF IInv, Typed, CellsPlaced, Owns
  <2>5. Carries(t)'
    BY <2>1 DEF IInv, Carries, Owns, Piece, Stored
  <2> QED
    BY <2>1, <2>3, <2>4, <2>5 DEF IInv, Cells!arrayVars
<1>2. CASE Next
  <2>1. CASE \E data \in Data : AddNode(t, data)
    BY <2>1, AddNodeStep
  <2>2. CASE \E data \in Strings : AddBytes(t, data)
    BY <2>2, AddBytesStep
  <2>3. CASE \E i \in 0..(Len(meta) - 1), data \in Data : SetBytes(t, i, data)
    BY <2>3, SetBytesStep
  <2>4. CASE \E i \in 0..(Len(meta) - 1) : GetMeta(t, i)
    BY <2>4, GetMetaStep
  <2>5. CASE FileSize(t)
    BY <2>5, FileSizeStep
  <2>6. CASE FileAdd(t)
    BY <2>6, FileAddStep
  <2>7. CASE MetaSize(t)
    BY <2>7, MetaSizeStep
  <2>8. CASE MetaAdd(t)
    BY <2>8, MetaAddStep
  <2>9. CASE SetMeta(t)
    BY <2>9, SetMetaStep
  <2>10. CASE WriteSector(t)
    BY <2>10, WriteSectorStep
  <2>11. CASE Read(t)
    BY <2>11, ReadStep
  <2> QED
    BY <1>2, <2>1, <2>2, <2>3, <2>4, <2>5, <2>6, <2>7, <2>8, <2>9, <2>10, <2>11 DEF Next
<1> QED
  BY <1>1, <1>2

(* The invariant contains the types.                                        *)
LEMMA InvTypeOK ==
  ASSUME NEW t, Thread = {t}, IInv(t)
  PROVE  TypeOK
<1>1. CellType \subseteq [start : Nat, length : Nat]
  BY MaxLengthNat DEF CellType
<1>2. meta \in Seq([start : Nat, length : Nat])
  BY <1>1, SeqMonotonic DEF IInv, Typed
<1>3. /\ thread[t].index \in Nat \cup {Null}
      /\ thread[t].cell \in [start : Nat, length : Nat]
      /\ thread[t].sector \in Seq(Nat)
      /\ thread[t].size \in Nat \cup {Null}
  BY <1>1 DEF IInv, Typed, Locals
<1> QED
  BY <1>2, <1>3 DEF IInv, Typed, TypeOK, CallType

(* Elements that own their sectors do not share bytes.                      *)
LEMMA InvSectorsApart ==
  ASSUME NEW t, Thread = {t}, IInv(t)
  PROVE  SectorsApart
<1>1. \A i \in 1..Len(meta) :
         /\ meta[i].start \in Nat
         /\ getSectorLength(meta[i].length) \in Nat
         /\ meta[i].start + getSectorLength(meta[i].length) <= Len(file)
  BY CellFacts DEF IInv
<1>2. Len(file) \in Nat
  BY LenProperties DEF IInv, Typed
<1>3. \A i \in 1..Len(meta) : SectorOf(meta[i]) \subseteq 1..Len(file)
  BY <1>1, <1>2 DEF SectorOf
<1>4. ASSUME NEW i \in 1..Len(meta), NEW j \in 1..Len(meta), i # j
      PROVE  SectorOf(meta[i]) \cap SectorOf(meta[j]) = {}
  <2>1. j - 1 # i - 1
    BY <1>4
  <2>2. \/ meta[i].start + getSectorLength(meta[i].length) <= meta[j].start
        \/ meta[j].start + getSectorLength(meta[j].length) <= meta[i].start
    BY <2>1 DEF IInv, CellsPlaced, Owns
  <2> DEFINE a == meta[i].start
             b == meta[j].start
             n == getSectorLength(meta[i].length)
             o == getSectorLength(meta[j].length)
  <2>3. a \in Nat /\ b \in Nat /\ n \in Nat /\ o \in Nat /\ (a + n <= b \/ b + o <= a)
    BY <1>1, <2>2
  <2>4. SectorOf(meta[i]) = (a + 1)..(a + n) /\ SectorOf(meta[j]) = (b + 1)..(b + o)
    BY DEF SectorOf
  <2> HIDE DEF a, b, n, o
  <2> QED
    BY <2>3, <2>4
<1> QED
  BY <1>3, <1>4 DEF SectorsApart

(* The state keeps its types, for one thread.                               *)
THEOREM TypeCorrect ==
  ASSUME NEW t, Thread = {t}
  PROVE  Spec => []TypeOK
<1>1. Init => IInv(t)
  BY InitIInv
<1>2. IInv(t) /\ [Next]_vars => IInv(t)'
  BY StepIInv
<1>3. IInv(t) => TypeOK
  BY InvTypeOK
<1> QED
  BY <1>1, <1>2, <1>3, PTL DEF Spec

(* No element can overwrite another, however elements grow, shrink and move *)
(* (InfinityStringArray.setBytes computes a sector from the present length, *)
(* not from the one the sector was made for).                               *)
THEOREM SectorsAlwaysApart ==
  ASSUME NEW t, Thread = {t}
  PROVE  Spec => []SectorsApart
<1>1. Init => IInv(t)
  BY InitIInv
<1>2. IInv(t) /\ [Next]_vars => IInv(t)'
  BY StepIInv
<1>3. IInv(t) => SectorsApart
  BY InvSectorsApart
<1> QED
  BY <1>1, <1>2, <1>3, PTL DEF Spec

(* The two files implement an array: a get returns what was set last.       *)
THEOREM ImplementsCellArray ==
  ASSUME NEW t, Thread = {t}
  PROVE  Spec => CellArraySpec
<1>1. Init => IInv(t) /\ Cells!Init
  BY InitIInv
<1>2. IInv(t) /\ [Next]_vars => IInv(t)' /\ [Cells!Next]_(Cells!arrayVars)
  BY StepIInv
<1> QED
  BY <1>1, <1>2, PTL DEF Spec, CellArraySpec, Cells!Spec
=============================================================================
