---------------------------- MODULE RestartProofs ---------------------------
(***************************************************************************)
(* A store that is stopped and killed and started again loses nothing it   *)
(* had written, for any number of writes, stops and kills, as long as none *)
(* of what Restart calls rough happens: a write to a place that is still   *)
(* queued, a stop before the queue is empty, a use of a store that was     *)
(* stopped, a kill while the settings are rewritten.                       *)
(***************************************************************************)
EXTENDS Restart, SequenceTheorems, TLAPS

(* Zeros are a block of element 0; places and cells count from 1.          *)
Blocks == [id : Nat, version : Nat]
Data   == {"node", "data"}
Cells  == [file : Data, at : Nat \ {0}]
Places == [file : File, at : Nat \ {0}]

(* What a file can hold.                                                   *)
Contents(file) == IF file = "meta" THEN Cells \union {Zeros} ELSE Blocks

(* A write of the list of what is still to do.                             *)
Writes == {w \in [place : Places, block : Cells \union Blocks] :
              w.block \in Contents(w.place.file)}

IsFiles(d) ==
    /\ d = [f \in File |-> d[f]]
    /\ \A f \in File : d[f] \in Seq(Contents(f))

FilesTyped == IsFiles(disk) /\ IsFiles(memory) /\ IsFiles(former)

SettingsTyped ==
    /\ settings \subseteq File /\ entries \subseteq File
    /\ saving \in BOOLEAN /\ rough \in BOOLEAN
    /\ mode = "down" => ~saving

QueuesTyped ==
    /\ queue \in Seq(Places) /\ todo \in Seq(Writes) /\ old \in Seq(Writes)
    /\ mode # "up" => todo = <<>>
    /\ \A i, j \in 1..Len(queue) : queue[i] = queue[j] => i = j

CountsTyped ==
    /\ count \in [versions : Nat, crashes : Nat, stops : Nat]
    /\ \A id \in DOMAIN kept : kept[id] \in Nat

Typed == FilesTyped /\ SettingsTyped /\ QueuesTyped /\ CountsTyped

(* A place has something on disk or in memory.                             *)
Has(d, place) == place.at \in DOMAIN d[place.file]
On(d, place)  == d[place.file][place.at]

(* A cell of an element is there and leads to a block of the element.      *)
Leads(d, id) ==
    LET cell == d["meta"][id]
    IN  cell \in Cells /\ Has(d, cell) /\ On(d, cell).id = id

(* The files that a start finds, or found.                                 *)
Listed == IF mode = "down" THEN settings ELSE entries

(* The settings file has what the running store has, until it is deleted,  *)
(* and a file that is not listed is empty.                                 *)
SettingsTrue ==
    /\ mode # "down" => settings = (IF saving THEN {} ELSE entries)
    /\ \A f \in File \ Listed : disk[f] = <<>> /\ (mode # "down" => memory[f] = <<>>)

(* What differs between disk and memory is queued: the queue of the cache  *)
(* is all that a flush has to write.                                       *)
QueueReaches ==
    mode # "down" =>
      \A f \in File :
         /\ Len(disk[f]) <= Len(memory[f])
         /\ \A i \in 1..Len(memory[f]) :
               \/ \E j \in 1..Len(queue) : queue[j] = Cell(f, i)
               \/ i \in 1..Len(disk[f]) /\ disk[f][i] = memory[f][i]

(* A queued place is next to what its file has, or follows a place that is *)
(* queued earlier: files grow without holes.                               *)
NoGaps ==
    \A i \in 1..Len(queue) :
       \/ queue[i].at <= Len(disk[queue[i].file]) + 1
       \/ \E j \in 1..(i - 1) : queue[j] = Cell(queue[i].file, queue[i].at - 1)

MemoryLeads == \A id \in 1..Len(memory["meta"]) : Leads(memory, id)
DiskLeads   == \A id \in 1..Len(disk["meta"]) : Leads(disk, id)

(* A queued cell's block is on disk or queued before the cell.             *)
BlocksFirst ==
    \A i \in 1..Len(queue) :
       queue[i].file = "meta" =>
         LET cell == memory["meta"][queue[i].at]
         IN  Has(disk, cell) \/ \E j \in 1..(i - 1) : queue[j] = cell

(* A block that is overwritten stays a block of its element.               *)
SameIds ==
    mode # "down" =>
      \A f \in Data : \A i \in 1..Len(disk[f]) : disk[f][i].id = memory[f][i].id

Now(id) == Block(id, count.versions)

(* The states an operation can be in: before each of its two writes.       *)
BlockAndCell(f, id) ==
    /\ id \in 1..(Len(memory["meta"]) + 1)
    /\ todo = << WriteOf(f, Len(memory[f]) + 1, Now(id)),
                 WriteOf("meta", id, Cell(f, Len(memory[f]) + 1)) >>

CellLeft(f, id, at) ==
    /\ id \in 1..(Len(memory["meta"]) + 1)
    /\ todo = << WriteOf("meta", id, Cell(f, at)) >>
    /\ at \in 1..Len(memory[f]) /\ memory[f][at] = Now(id)
    /\ at \in 1..Len(disk[f]) => disk[f][at] = Now(id)

CellAndBlock(id) ==
    /\ id \in 1..Len(memory["meta"])
    /\ memory["meta"][id].file = "node"
    /\ todo = << WriteOf("meta", id, memory["meta"][id]),
                 WriteOf("node", memory["meta"][id].at, Now(id)) >>

BlockLeft(id) ==
    /\ id \in 1..Len(memory["meta"])
    /\ memory["meta"][id].file = "node"
    /\ todo = << WriteOf("node", memory["meta"][id].at, Now(id)) >>

Doing ==
    \/ todo = <<>>
    \/ \E f \in Data : \E id \in Nat :
          BlockAndCell(f, id) \/ \E at \in Nat : CellLeft(f, id, at)
    \/ \E id \in Nat : CellAndBlock(id) \/ BlockLeft(id)

(* Nothing is left of an earlier process, and a stop has written all.      *)
Quiet ==
    /\ old = <<>>
    /\ mode = "stopping" => queue = <<>>

(* Versions are counted up.                                                *)
VersionsPast ==
    /\ \A f \in Data : \A i \in 1..Len(disk[f]) : disk[f][i].version <= count.versions
    /\ \A f \in Data : \A i \in 1..Len(memory[f]) : memory[f][i].version <= count.versions
    /\ \A id \in DOMAIN kept : kept[id] <= count.versions

(* What was kept is no later than any block of the element that the disk   *)
(* has now or after the next writes.                                       *)
KeptOnDisk ==
    \A id \in DOMAIN kept :
       id \in 1..Len(disk["meta"]) /\ kept[id] <= On(disk, disk["meta"][id]).version

KeptInMemory ==
    mode # "down" =>
      \A id \in DOMAIN kept :
         LET cell == memory["meta"][id]
         IN  /\ id \in 1..Len(memory["meta"])
             /\ kept[id] <= On(memory, cell).version
             /\ Has(disk, cell) => kept[id] <= On(disk, cell).version

KeptInQueue ==
    \A i \in 1..Len(queue) :
       queue[i].file # "meta" =>
         LET block == On(memory, queue[i])
         IN  block.id \in DOMAIN kept => kept[block.id] <= block.version

(* The order of the writes, which makes the disk a store at any time.      *)
Ordered == Quiet /\ SettingsTrue /\ QueueReaches /\ NoGaps /\ BlocksFirst /\ SameIds /\ Doing
Good ==
    /\ Ordered
    /\ MemoryLeads /\ DiskLeads
    /\ VersionsPast /\ KeptOnDisk /\ KeptInMemory /\ KeptInQueue

Types == Typed /\ TypeOK

(* The inductive invariant.  Types are kept whatever happens, the order of *)
(* the writes until something rough does.                                  *)
IInv == Types /\ (~rough => Good)

-----------------------------------------------------------------------------
(* Cells and blocks are told apart by what they have.                      *)
LEMMA Kinds ==
  /\ \A c \in Cells : IsCell(c)
  /\ \A b \in Blocks : ~IsCell(b)
  /\ Zeros \in Blocks
  /\ \A c \in Contents("meta") : IsCell(c) => c \in Cells
<1>1. \A c \in Cells : IsCell(c)
  BY DEF Cells, IsCell
<1>2. \A b \in Blocks : ~IsCell(b)
  BY DEF Blocks, IsCell
<1>3. Zeros \in Blocks
  BY DEF Zeros, Blocks
<1> QED
  BY <1>1, <1>2, <1>3 DEF Contents

(* What Stored makes of a file.                                            *)
StoresIn(new, file, at, block) ==
    /\ Len(new) = IF at > Len(file) THEN at ELSE Len(file)
    /\ new[at] = block
    /\ \A i \in 1..Len(file) : i # at => new[i] = file[i]

(* A block that is stored changes no other block of its file.              *)
LEMMA StoredFacts ==
  ASSUME NEW S, Zeros \in S, NEW file \in Seq(S), NEW at \in Nat \ {0}, NEW block \in S
  PROVE  /\ Stored(file, at, block) \in Seq(S)
         /\ StoresIn(Stored(file, at, block), file, at, block)
<1> DEFINE n == IF at > Len(file) THEN at ELSE Len(file)
           new == [i \in 1..n |->
                      IF i = at THEN block ELSE IF i <= Len(file) THEN file[i] ELSE Zeros]
<1>1. Stored(file, at, block) = new
  BY DEF Stored
<1>2. n \in Nat /\ \A i \in 1..n : new[i] \in S
  OBVIOUS
<1>3. new \in Seq(S) /\ Len(new) = n
  BY <1>2
<1>4. at \in 1..n /\ \A i \in 1..Len(file) : i \in 1..n
  OBVIOUS
<1>5. new[at] = block /\ \A i \in 1..Len(file) : i # at => new[i] = file[i]
  BY <1>4
<1> QED
  BY <1>1, <1>3, <1>5 DEF StoresIn

(* What storing a block does to the files.                                 *)
Puts(new, d, place, block) ==
    /\ IsFiles(new)
    /\ \A f \in File : f # place.file => new[f] = d[f]
    /\ StoresIn(new[place.file], d[place.file], place.at, block)

(* And no other file.                                                      *)
LEMMA PutFacts ==
  ASSUME NEW d, IsFiles(d), NEW place \in Places, NEW block \in Contents(place.file)
  PROVE  Puts([d EXCEPT ![place.file] = Stored(@, place.at, block)], d, place, block)
<1> DEFINE f == place.file
           at == place.at
           file == Stored(d[f], at, block)
           new == [d EXCEPT ![place.file] = Stored(@, place.at, block)]
<1>1. f \in File /\ at \in Nat \ {0}
  BY DEF Places
<1>2. Zeros \in Contents(f)
  BY Kinds, <1>1 DEF Contents
<1>3. file \in Seq(Contents(f)) /\ StoresIn(file, d[f], at, block)
  BY <1>1, <1>2, StoredFacts DEF IsFiles
<1> HIDE DEF file
<1>4. new = [d EXCEPT ![f] = file]
  BY DEF file
<1>5. new[f] = file /\ \A g \in File : g # f => new[g] = d[g]
  BY <1>1, <1>4 DEF IsFiles
<1>6. new = [g \in File |-> new[g]]
  BY <1>1, <1>4 DEF IsFiles
<1> HIDE DEF new
<1>7. IsFiles(new)
  BY <1>1, <1>3, <1>5, <1>6 DEF IsFiles
<1> QED
  BY <1>3, <1>5, <1>7 DEF Puts, new

(* The queue w is queue without the place e.                               *)
Leaves(w, q, e) ==
    /\ w \in Seq(Places)
    /\ \A i \in 1..Len(w) : w[i] # e /\ \E j \in 1..Len(q) : w[i] = q[j]
    /\ \A i, j \in 1..Len(w) : w[i] = w[j] => i = j

(* Removing a place from a queue without duplicates.                       *)
LEMMA RemoveFacts ==
  ASSUME NEW q \in Seq(Places), NEW e,
         \A i, j \in 1..Len(q) : q[i] = q[j] => i = j
  PROVE  /\ Leaves(RemoveFirst(q, e), q, e)
         /\ ~Contains(q, e) => RemoveFirst(q, e) = q
<1> DEFINE I == {i \in 1..Len(q) : q[i] = e}
<1>1. CASE I = {}
  <2>1. RemoveFirst(q, e) = q
    BY <1>1 DEF RemoveFirst
  <2> QED
    BY <1>1, <2>1 DEF Leaves
<1>2. CASE I # {}
  <2>1. PICK k \in 1..Len(q) : q[k] = e
    BY <1>2
  <2>2. I = {k}
    BY <2>1
  <2>3. Min(I) = k
    <3> HIDE DEF I
    <3> QED
      BY <2>1, <2>2 DEF Min
  <2> DEFINE m == Min(I)
             w == SubSeq(q, 1, k - 1) \o SubSeq(q, k + 1, Len(q))
  <2>4. RemoveFirst(q, e) = SubSeq(q, 1, m - 1) \o SubSeq(q, m + 1, Len(q))
    BY <1>2 DEF RemoveFirst, RemoveAt, SelectInSeq
  <2>5. RemoveFirst(q, e) = w
    BY <2>3, <2>4
  <2>6. /\ w \in Seq(Places) /\ Len(w) = Len(q) - 1
        /\ \A i \in 1..(Len(q) - 1) : w[i] = q[IF i < k THEN i ELSE i + 1]
    <3> DEFINE a == SubSeq(q, 1, k - 1)
               b == SubSeq(q, k + 1, Len(q))
    <3>1. a \in Seq(Places) /\ Len(a) = k - 1 /\ \A i \in 1..(k - 1) : a[i] = q[i]
      BY <2>1
    <3>2. /\ b \in Seq(Places) /\ Len(b) = Len(q) - k
          /\ \A i \in 1..(Len(q) - k) : b[i] = q[k + i]
      BY <2>1
    <3>3. w = a \o b
      OBVIOUS
    <3> HIDE DEF a, b, w
    <3>4. w \in Seq(Places) /\ Len(w) = Len(q) - 1
      <4>1. w \in Seq(Places) /\ Len(w) = Len(a) + Len(b)
        BY ZenonT(60), <3>1, <3>2, <3>3, ConcatProperties
      <4>2. Len(q) \in Nat /\ k \in Nat
        BY <2>1
      <4> QED
        BY <3>1, <3>2, <4>1, <4>2
    <3>5. ASSUME NEW i \in 1..(Len(q) - 1)
          PROVE  w[i] = q[IF i < k THEN i ELSE i + 1]
      <4>1. CASE i < k
        <5>1. i \in 1..(k - 1) /\ w[i] = a[i]
          BY <2>1, <3>1, <3>2, <3>3, <4>1
        <5> QED
          BY <3>1, <4>1, <5>1
      <4>2. CASE ~(i < k)
        <5>1. w[i] = b[i - (k - 1)] /\ i - (k - 1) \in 1..(Len(q) - k)
          BY <2>1, <3>1, <3>2, <3>3, <4>2
        <5>2. k + (i - (k - 1)) = i + 1
          BY <2>1
        <5> QED
          BY <3>2, <4>2, <5>1, <5>2
      <4> QED
        BY <4>1, <4>2
    <3> QED
      BY <3>4, <3>5
  <2> HIDE DEF w
  <2>7. \A i \in 1..(Len(q) - 1) : /\ (IF i < k THEN i ELSE i + 1) \in 1..Len(q)
                                    /\ (IF i < k THEN i ELSE i + 1) # k
    BY <2>1
  <2>8. \A i \in 1..Len(w) : w[i] # e /\ \E j \in 1..Len(q) : w[i] = q[j]
    BY <2>1, <2>6, <2>7
  <2>9. ASSUME NEW i \in 1..(Len(q) - 1), NEW j \in 1..(Len(q) - 1), w[i] = w[j]
        PROVE  i = j
    <3>1. (IF i < k THEN i ELSE i + 1) = (IF j < k THEN j ELSE j + 1)
      BY <2>6, <2>7, <2>9
    <3> QED
      BY <3>1, <2>1
  <2>10. Contains(q, e)
    BY <2>1 DEF Contains
  <2> QED
    BY <2>5, <2>6, <2>8, <2>9, <2>10 DEF Leaves
<1> QED
  BY <1>1, <1>2

(* What was there is still there.                                          *)
LEMMA PutKeeps ==
  ASSUME NEW d, IsFiles(d), NEW place \in Places, NEW block, NEW new,
         Puts(new, d, place, block)
  PROVE  /\ Has(new, place) /\ On(new, place) = block
         /\ \A p \in Places : Has(d, p) => Has(new, p)
         /\ \A p \in Places : Has(d, p) /\ p # place => On(new, p) = On(d, p)
<1>1. place.file \in File /\ place.at \in Nat \ {0}
  BY DEF Places
<1>2. /\ \A f \in File : Len(d[f]) \in Nat /\ DOMAIN d[f] = 1..Len(d[f])
      /\ \A f \in File : Len(new[f]) \in Nat /\ DOMAIN new[f] = 1..Len(new[f])
  BY DEF IsFiles, Puts
<1>3. Has(new, place) /\ On(new, place) = block
  BY <1>1, <1>2 DEF Has, On, Puts, StoresIn
<1>4. ASSUME NEW p \in Places, Has(d, p)
      PROVE  Has(new, p) /\ (p # place => On(new, p) = On(d, p))
  <2>1. p.file \in File /\ p.at \in Nat \ {0} /\ p.at \in 1..Len(d[p.file])
    BY <1>2, <1>4 DEF Places, Has
  <2>2. CASE p.file # place.file
    BY <1>4, <2>1, <2>2 DEF Has, On, Puts
  <2>3. CASE p.file = place.file /\ p.at # place.at
    BY <1>1, <1>2, <2>1, <2>3 DEF Has, On, Puts, StoresIn
  <2>4. CASE p.file = place.file /\ p.at = place.at
    <3>1. p = place
      BY <2>4 DEF Places
    <3> QED
      BY <1>3, <3>1
  <2> QED
    BY <2>2, <2>3, <2>4
<1> QED
  BY <1>3, <1>4

(* The version of every element is a number.                               *)
LEMMA VersionsTyped ==
  ASSUME NEW d, IsFiles(d)
  PROVE  /\ DOMAIN Versions(d) = 1..Len(d["meta"])
         /\ \A id \in 1..Len(d["meta"]) : Versions(d)[id] \in Nat
<1>1. /\ "meta" \in File /\ d["meta"] \in Seq(Contents("meta"))
      /\ DOMAIN d["meta"] = 1..Len(d["meta"])
  BY DEF IsFiles, File
<1>2. DOMAIN Versions(d) = 1..Len(d["meta"])
  BY <1>1 DEF Versions
<1>3. ASSUME NEW id \in 1..Len(d["meta"])
      PROVE  Versions(d)[id] \in Nat
  <2> DEFINE cell == d["meta"][id]
  <2>1. cell \in Contents("meta")
    BY <1>1
  <2>2. Versions(d)[id] = IF HasBlock(d, cell) THEN d[cell.file][cell.at].version ELSE 0
    BY <1>1 DEF Versions
  <2>3. CASE HasBlock(d, cell)
    <3>1. cell \in Cells
      BY <2>1, <2>3, Kinds DEF HasBlock
    <3>2. cell.file \in Data /\ d[cell.file] \in Seq(Blocks)
      BY <3>1 DEF Cells, Data, IsFiles, Contents, File
    <3>3. d[cell.file][cell.at] \in Blocks
      BY <2>3, <3>2 DEF HasBlock
    <3> QED
      BY <2>2, <2>3, <3>3 DEF Blocks
  <2> QED
    BY <2>2, <2>3
<1> QED
  BY <1>2, <1>3

(* A write is of its place and its block.                                  *)
LEMMA WriteOfTyped ==
  ASSUME NEW f \in File, NEW at \in Nat \ {0}, NEW block \in Contents(f)
  PROVE  /\ WriteOf(f, at, block) \in Writes
         /\ WriteOf(f, at, block).place = Cell(f, at) /\ WriteOf(f, at, block).block = block
         /\ Cell(f, at) \in Places /\ Cell(f, at).file = f /\ Cell(f, at).at = at
<1>1. Cell(f, at) \in Places /\ Cell(f, at).file = f /\ Cell(f, at).at = at
  BY DEF Cell, Places
<1>2. block \in Cells \union Blocks
  BY DEF Contents, Zeros, Blocks
<1> QED
  BY <1>1, <1>2 DEF WriteOf, Writes

(* A place and what its file can hold make a write.                        *)
LEMMA PairTyped ==
  ASSUME NEW p \in Places, NEW b \in Contents(p.file)
  PROVE  [place |-> p, block |-> b] \in Writes
<1>1. b \in Cells \union Blocks
  BY Kinds DEF Contents
<1> QED
  BY <1>1 DEF Writes

(* The head of a sequence of writes.                                       *)
LEMMA HeadTyped ==
  ASSUME NEW s \in Seq(Writes), s # <<>>
  PROVE  /\ Head(s) \in Writes /\ Tail(s) \in Seq(Writes)
         /\ Head(s).place \in Places /\ Head(s).block \in Contents(Head(s).place.file)
<1>1. Head(s) \in Writes /\ Tail(s) \in Seq(Writes)
  OBVIOUS
<1> QED
  BY <1>1 DEF Writes

(* What a cell and a block can be.                                         *)
LEMMA CellTyped ==
  ASSUME NEW f \in Data, NEW at \in Nat \ {0}
  PROVE  Cell(f, at) \in Cells /\ Cell(f, at) \in Contents("meta") /\ f \in File
BY DEF Cell, Cells, Contents, Data, File

(* A block has the element and the version it is made of.                  *)
LEMMA BlockTyped ==
  ASSUME NEW id \in Nat, NEW v \in Nat
  PROVE  /\ Block(id, v) \in Blocks /\ \A f \in Data : Block(id, v) \in Contents(f)
         /\ Block(id, v).id = id /\ Block(id, v).version = v
BY DEF Block, Blocks, Contents, Data

-----------------------------------------------------------------------------
(* Types.                                                                  *)

(* A store that was never started.                                         *)
LEMMA TypedInit == Init => Types
<1> SUFFICES ASSUME Init PROVE Types
  OBVIOUS
<1>1. IsFiles([f \in File |-> <<>>])
  BY DEF IsFiles
<1>2. FilesTyped
  BY <1>1 DEF Init, FilesTyped
<1>3. SettingsTyped
  BY DEF Init, SettingsTyped
<1>4. QueuesTyped
  BY DEF Init, QueuesTyped
<1>5. CountsTyped
  BY DEF Init, CountsTyped
<1>6. TypeOK
  BY DEF Init, TypeOK
<1> QED
  BY <1>2, <1>3, <1>4, <1>5, <1>6 DEF Types, Typed

(* What the types say of the queue.                                        *)
LEMMA QueuedThere ==
  ASSUME Types
  PROVE  /\ DOMAIN queue = 1..Len(queue) /\ Len(queue) \in Nat
         /\ \A i \in 1..Len(queue) :
               /\ queue[i] \in Places /\ Has(memory, queue[i])
               /\ queue[i].file \in File /\ queue[i].at \in Nat \ {0}
               /\ On(memory, queue[i]) \in Contents(queue[i].file)
<1>1. queue \in Seq(Places) /\ DOMAIN queue = 1..Len(queue) /\ Len(queue) \in Nat
  BY DEF Types, Typed, QueuesTyped
<1>2. ASSUME NEW i \in 1..Len(queue)
      PROVE  /\ queue[i] \in Places /\ Has(memory, queue[i])
             /\ queue[i].file \in File /\ queue[i].at \in Nat \ {0}
             /\ On(memory, queue[i]) \in Contents(queue[i].file)
  <2>1. queue[i] \in Places
    BY <1>1
  <2>2. queue[i].file \in File /\ queue[i].at \in Nat \ {0}
    BY <2>1 DEF Places
  <2>3. queue[i].at \in DOMAIN memory[queue[i].file]
    BY <1>1 DEF Types, TypeOK
  <2>4. memory[queue[i].file] \in Seq(Contents(queue[i].file))
    BY <2>2 DEF Types, Typed, FilesTyped, IsFiles
  <2>5. memory[queue[i].file][queue[i].at] \in Contents(queue[i].file)
    BY <2>3, <2>4
  <2> QED
    BY <2>1, <2>2, <2>3, <2>5 DEF Has, On
<1> QED
  BY <1>1, <1>2

(* What a step of the manager leaves typed.                                *)
LEMMA TypedManager ==
  ASSUME Types, Start \/ WriteSettings \/ CreatePart \/ Stop \/ Crash
  PROVE  Types'
<1> USE DEF Types, Typed
<1>1. CASE Start
  <2>1. IsFiles(memory')
    <3>1. /\ \A f \in File : memory'[f] = IF f \in settings THEN disk[f] ELSE <<>>
          /\ memory' = [f \in File |-> memory'[f]]
      BY <1>1 DEF Start
    <3>2. ASSUME NEW f \in File
          PROVE  memory'[f] \in Seq(Contents(f))
      <4>1. disk[f] \in Seq(Contents(f)) /\ <<>> \in Seq(Contents(f))
        BY DEF FilesTyped, IsFiles
      <4> QED
        BY <3>1, <4>1
    <3> QED
      BY <3>1, <3>2 DEF IsFiles
  <2>2. /\ UNCHANGED <<disk, queue, todo, old, former, kept, count, rough>>
        /\ mode' = "up" /\ entries' = settings /\ settings' = {} /\ saving' = TRUE
    BY <1>1 DEF Start, DeleteSettings
  <2>3. queue = <<>> /\ mode = "down"
    BY <1>1 DEF Start, TypeOK
  <2>4. FilesTyped'
    BY <2>1, <2>2 DEF FilesTyped, IsFiles
  <2>5. SettingsTyped'
    BY <2>2 DEF SettingsTyped
  <2>6. QueuesTyped' /\ CountsTyped'
    BY <2>2 DEF QueuesTyped, CountsTyped
  <2>7. TypeOK'
    BY <2>2, <2>3 DEF TypeOK
  <2> QED
    BY <2>4, <2>5, <2>6, <2>7
<1>2. CASE WriteSettings
  <2>1. CASE mode = "up"
    <3>1. UNCHANGED <<disk, entries, memory, todo, kept, count, rough, mode, queue, old, former>>
      BY <1>2, <2>1 DEF WriteSettings
    <3>2. saving' = FALSE /\ settings' = entries
      BY <1>2 DEF WriteSettings
    <3>3. FilesTyped' /\ QueuesTyped' /\ CountsTyped'
      BY <3>1 DEF FilesTyped, QueuesTyped, CountsTyped, IsFiles
    <3>4. SettingsTyped'
      BY <3>1, <3>2 DEF SettingsTyped
    <3>5. TypeOK'
      BY <2>1, <3>1, <3>2 DEF TypeOK
    <3> QED
      BY <3>3, <3>4, <3>5
  <2>2. CASE mode # "up"
    <3> DEFINE more == [i \in DOMAIN queue |->
                          [place |-> queue[i], block |-> memory[queue[i].file][queue[i].at]]]
    <3>1. /\ UNCHANGED <<disk, entries, memory, todo, kept, count, rough>>
          /\ mode' = "down" /\ queue' = <<>> /\ old' = old \o more
          /\ saving' = FALSE /\ settings' = entries /\ former' = memory
      BY <1>2, <2>2 DEF WriteSettings
    <3>2. more \in Seq(Writes)
      <4>1. \A i \in 1..Len(queue) :
               more[i] = [place |-> queue[i], block |-> On(memory, queue[i])]
        BY QueuedThere DEF On
      <4>2. /\ DOMAIN more = 1..Len(queue) /\ Len(queue) \in Nat
            /\ more = [i \in 1..Len(queue) |-> more[i]]
        BY QueuedThere
      <4> HIDE DEF more
      <4>3. ASSUME NEW i \in 1..Len(queue)
            PROVE  more[i] \in Writes
        <5>1. /\ queue[i] \in Places
              /\ On(memory, queue[i]) \in Contents(queue[i].file)
          BY QueuedThere
        <5> QED
          BY <4>1, <5>1, PairTyped
      <4> QED
        BY <4>2, <4>3
    <3>3. old' \in Seq(Writes)
      BY <3>1, <3>2, ConcatProperties DEF QueuesTyped
    <3>4. todo = <<>>
      BY <2>2 DEF QueuesTyped
    <3>5. FilesTyped' /\ CountsTyped'
      BY <3>1 DEF FilesTyped, CountsTyped, IsFiles
    <3>6. SettingsTyped'
      BY <3>1 DEF SettingsTyped
    <3>7. QueuesTyped'
      BY <3>1, <3>3, <3>4 DEF QueuesTyped
    <3>8. TypeOK'
      BY <3>1, <3>4 DEF TypeOK
    <3> QED
      BY <3>5, <3>6, <3>7, <3>8
  <2> QED
    BY <2>1, <2>2
<1>3. CASE CreatePart
  <2>1. UNCHANGED <<disk, mode, memory, queue, todo, old, former, kept, count, rough>>
    BY <1>3 DEF CreatePart
  <2>2. Head(todo).place.file \in File
    BY <1>3, HeadTyped DEF CreatePart, QueuesTyped, Places
  <2>3. entries' \subseteq File /\ settings' = {} /\ saving' = TRUE /\ mode = "up"
    BY <1>3, <2>2 DEF CreatePart, DeleteSettings, SettingsTyped
  <2>4. FilesTyped' /\ QueuesTyped' /\ CountsTyped'
    BY <2>1 DEF FilesTyped, QueuesTyped, CountsTyped, IsFiles
  <2>5. SettingsTyped'
    BY <2>1, <2>3 DEF SettingsTyped
  <2>6. TypeOK'
    BY <2>1, <2>3 DEF TypeOK
  <2> QED
    BY <2>4, <2>5, <2>6
<1>4. CASE Stop
  <2>1. UNCHANGED <<disk, entries, memory, queue, todo, old, former, kept>> /\ todo = <<>>
    BY <1>4 DEF Stop
  <2>2. /\ mode' = "stopping" /\ settings' = {} /\ saving' = TRUE
        /\ count' = [count EXCEPT !.stops = @ + 1] /\ rough' \in BOOLEAN
    BY <1>4 DEF Stop, DeleteSettings
  <2>3. FilesTyped' /\ QueuesTyped'
    BY <2>1 DEF FilesTyped, QueuesTyped, IsFiles
  <2>4. SettingsTyped'
    BY <2>1, <2>2 DEF SettingsTyped
  <2>5. CountsTyped'
    BY <2>1, <2>2 DEF CountsTyped
  <2>6. TypeOK'
    BY <2>1, <2>2 DEF TypeOK
  <2> QED
    BY <2>3, <2>4, <2>5, <2>6
<1>5. CASE Crash
  <2>1. UNCHANGED <<disk, settings, kept>>
    BY <1>5 DEF Crash
  <2>2. /\ mode' = "down" /\ entries' = {} /\ saving' = FALSE
        /\ queue' = <<>> /\ todo' = <<>> /\ old' = <<>>
        /\ memory' = [f \in File |-> <<>>] /\ former' = [f \in File |-> <<>>]
        /\ count' = [count EXCEPT !.crashes = @ + 1] /\ rough' \in BOOLEAN
    BY <1>5 DEF Crash
  <2>3. FilesTyped'
    BY <2>1, <2>2 DEF FilesTyped, IsFiles
  <2>4. SettingsTyped'
    BY <2>1, <2>2 DEF SettingsTyped
  <2>5. CountsTyped'
    BY <2>1, <2>2 DEF CountsTyped
  <2>6. QueuesTyped'
    BY <2>2 DEF QueuesTyped
  <2>7. TypeOK'
    BY <2>2 DEF TypeOK
  <2> QED
    BY <2>3, <2>4, <2>5, <2>6, <2>7
<1> QED
  BY <1>1, <1>2, <1>3, <1>4, <1>5

(* What an addition writes.                                                *)
LEMMA AddedTyped ==
  ASSUME NEW d, IsFiles(d), NEW f \in Data, count.versions \in Nat
  PROVE  /\ Added(d, f) \in Seq(Writes)
         /\ Added(d, f)[1].block \in Contents(f) /\ Added(d, f)[2].block \in Contents("meta")
<1>1. f \in File /\ "meta" \in File
  BY DEF Data, File
<1>2. Len(d[f]) \in Nat /\ Len(d["meta"]) \in Nat
  BY <1>1 DEF IsFiles
<1>3. PICK at \in Nat \ {0} : at = Len(d[f]) + 1
  BY <1>2
<1>4. PICK id \in Nat \ {0} : id = Len(d["meta"]) + 1
  BY <1>2
<1>5. PICK first : first = WriteOf(f, at, Block(id, Version))
  OBVIOUS
<1>6. PICK second : second = WriteOf("meta", id, Cell(f, at))
  OBVIOUS
<1>7. Added(d, f) = <<first, second>>
  BY <1>3, <1>4, <1>5, <1>6 DEF Added
<1>8. Block(id, Version) \in Contents(f)
  BY BlockTyped DEF Version
<1>9. first \in Writes /\ first.block \in Contents(f)
  BY <1>1, <1>5, <1>8, WriteOfTyped
<1>10. second \in Writes /\ second.block \in Contents("meta")
  BY <1>1, <1>6, CellTyped, WriteOfTyped
<1> QED
  BY <1>7, <1>9, <1>10

(* What the beginning of an operation leaves typed.                        *)
LEMMA TypedBegin ==
  ASSUME Types,
         \/ \E file \in {"node", "data"} : Add(file)
         \/ \E id \in DOMAIN memory["meta"] : SetGrown(id) \/ SetInPlace(id)
  PROVE  Types'
<1> USE DEF Types, Typed
<1>1. /\ UNCHANGED <<disk, settings, mode, entries, saving, memory, queue, old, former, kept, rough>>
      /\ count' = [count EXCEPT !.versions = @ + 1] /\ mode = "up"
  BY DEF Add, SetGrown, SetInPlace, Counts, Ready
<1>2. FilesTyped' /\ SettingsTyped' /\ CountsTyped'
  <2>1. FilesTyped' /\ SettingsTyped'
    BY <1>1 DEF FilesTyped, SettingsTyped, IsFiles
  <2>2. CountsTyped'
    BY <1>1 DEF CountsTyped
  <2> QED
    BY <2>1, <2>2
<1>3. TypeOK'
  BY <1>1 DEF TypeOK
<1>4. Version \in Nat
  BY DEF Version, CountsTyped
<1>5. /\ \A f \in File : Len(memory[f]) + 1 \in Nat \ {0}
      /\ DOMAIN memory["meta"] = 1..Len(memory["meta"])
      /\ \A id \in DOMAIN memory["meta"] :
            id \in Nat \ {0} /\ memory["meta"][id] \in Contents("meta")
  BY DEF FilesTyped, IsFiles, File
<1>7. "node" \in File /\ "meta" \in File /\ "node" \in Data /\ "data" \in Data
  BY DEF File, Data
<1>8. todo' \in Seq(Writes)
  <2>1. ASSUME NEW f \in Data, Add(f)
        PROVE  todo' \in Seq(Writes)
    <3>1. f \in File /\ IsFiles(memory) /\ count.versions \in Nat
      BY DEF Data, File, FilesTyped, CountsTyped
    <3>2. Added(memory, f) \in Seq(Writes)
      BY <3>1, AddedTyped
    <3> QED
      BY <2>1, <3>2 DEF Add
  <2>2. ASSUME NEW id \in DOMAIN memory["meta"], SetGrown(id)
        PROVE  todo' \in Seq(Writes)
    <3>1. PICK at \in Nat \ {0} : at = Len(memory["node"]) + 1
      BY <1>5, <1>7
    <3>2. todo' = << WriteOf("node", at, Block(id, Version)),
                     WriteOf("meta", id, Cell("node", at)) >>
      BY <2>2, <3>1 DEF SetGrown
    <3>3. WriteOf("node", at, Block(id, Version)) \in Writes
      BY <1>4, <1>5, <1>7, BlockTyped, WriteOfTyped
    <3>4. WriteOf("meta", id, Cell("node", at)) \in Writes
      BY <1>5, <1>7, CellTyped, WriteOfTyped
    <3> QED
      BY <3>2, <3>3, <3>4
  <2>3. ASSUME NEW id \in DOMAIN memory["meta"], SetInPlace(id)
        PROVE  todo' \in Seq(Writes)
    <3>1. PICK cell : cell = memory["meta"][id]
      OBVIOUS
    <3>2. /\ IsCell(cell)
          /\ todo' = << WriteOf("meta", id, cell), WriteOf("node", cell.at, Block(id, Version)) >>
      BY <2>3, <3>1 DEF SetInPlace
    <3>3. cell \in Cells /\ cell \in Contents("meta")
      BY <1>5, <3>1, <3>2, Kinds
    <3>4. cell.at \in Nat \ {0}
      BY <3>3 DEF Cells
    <3>5. WriteOf("node", cell.at, Block(id, Version)) \in Writes
      BY <1>4, <1>5, <1>7, <3>4, BlockTyped, WriteOfTyped
    <3>6. WriteOf("meta", id, cell) \in Writes
      BY <1>5, <1>7, <3>3, WriteOfTyped
    <3> QED
      BY <3>2, <3>5, <3>6
  <2> QED
    BY <2>1, <2>2, <2>3 DEF Data
<1>9. QueuesTyped'
  BY <1>1, <1>8 DEF QueuesTyped
<1> QED
  BY <1>2, <1>3, <1>9

(* What the use of a removed store leaves typed.                           *)
LEMMA TypedUse ==
  ASSUME Types, NEW f \in Data, UseOld(f)
  PROVE  Types'
<1> USE DEF Types, Typed
<1>1. PICK writes : writes = Added(former, f)
  OBVIOUS
<1>2. /\ former' = [former EXCEPT ![f] = Append(@, writes[1].block),
                                 !["meta"] = Append(@, writes[2].block)]
      /\ old' = old \o writes /\ rough' = TRUE
      /\ count' = [count EXCEPT !.versions = @ + 1]
      /\ UNCHANGED <<disk, settings, mode, entries, saving, memory, queue, todo, kept>>
  BY <1>1 DEF UseOld, Counts
<1>3. f \in File /\ "meta" \in File /\ f # "meta"
  BY DEF Data, File
<1>4. IsFiles(former) /\ count.versions \in Nat
  BY DEF FilesTyped, CountsTyped
<1>5. /\ writes \in Seq(Writes)
      /\ writes[1].block \in Contents(f) /\ writes[2].block \in Contents("meta")
  BY <1>1, <1>4, AddedTyped
<1>6. IsFiles(former')
  <2>1. PICK b, c : b = writes[1].block /\ c = writes[2].block
    OBVIOUS
  <2>2. /\ former' = [former EXCEPT ![f] = Append(@, b), !["meta"] = Append(@, c)]
        /\ b \in Contents(f) /\ c \in Contents("meta")
    BY <1>2, <1>5, <2>1
  <2>3. /\ former'[f] = Append(former[f], b) /\ former'["meta"] = Append(former["meta"], c)
        /\ \A g \in File : g # f /\ g # "meta" => former'[g] = former[g]
        /\ former' = [g \in File |-> former'[g]]
    BY <1>3, <1>4, <2>2 DEF IsFiles
  <2>4. ASSUME NEW g \in File
        PROVE  former'[g] \in Seq(Contents(g))
    <3>1. former[g] \in Seq(Contents(g))
      BY <1>4 DEF IsFiles
    <3>2. CASE g = f
      BY <2>2, <2>3, <3>1, <3>2, AppendProperties
    <3>3. CASE g = "meta"
      BY <2>2, <2>3, <3>1, <3>3, AppendProperties
    <3> QED
      BY <2>3, <3>1, <3>2, <3>3
  <2> QED
    BY <2>3, <2>4 DEF IsFiles
<1>7. old' \in Seq(Writes)
  BY <1>2, <1>5, ConcatProperties DEF QueuesTyped
<1>8. FilesTyped'
  BY <1>2, <1>6 DEF FilesTyped, IsFiles
<1>9. SettingsTyped' /\ CountsTyped'
  BY <1>2 DEF SettingsTyped, CountsTyped
<1>10. QueuesTyped'
  BY <1>2, <1>7 DEF QueuesTyped
<1>11. TypeOK'
  BY <1>2 DEF TypeOK
<1> QED
  BY <1>8, <1>9, <1>10, <1>11

(* What a write to memory or to disk leaves typed.                         *)
LEMMA TypedPut ==
  ASSUME Types, Write \/ Flush \/ FlushOld
  PROVE  Types'
<1> USE DEF Types, Typed
<1>1. CASE Write
  <2>1. PICK place, block : place = Head(todo).place /\ block = Head(todo).block
    OBVIOUS
  <2>2. /\ place \in Places /\ block \in Contents(place.file) /\ Tail(todo) \in Seq(Writes)
    BY <1>1, <2>1, HeadTyped DEF Write, QueuesTyped
  <2>3. /\ memory' = [memory EXCEPT ![place.file] = Stored(@, place.at, block)]
        /\ queue' = Append(RemoveFirst(queue, place), place)
        /\ rough' \in BOOLEAN /\ todo' = Tail(todo) /\ mode = "up"
        /\ UNCHANGED <<disk, settings, mode, entries, saving, old, former, kept, count>>
    BY <1>1, <2>1 DEF Write
  <2>4. IsFiles(memory) /\ IsFiles(disk)
    BY DEF FilesTyped
  <2>5. Puts(memory', memory, place, block)
    BY <2>2, <2>3, <2>4, PutFacts
  <2>6. IsFiles(memory')
    BY <2>5 DEF Puts
  <2>7. PICK w : w = RemoveFirst(queue, place)
    OBVIOUS
  <2>8. Leaves(w, queue, place)
    BY <2>7, RemoveFacts DEF QueuesTyped
  <2>9. queue' = Append(w, place) /\ w \in Seq(Places)
    BY <2>3, <2>7, <2>8 DEF Leaves
  <2>10. /\ queue' \in Seq(Places) /\ Len(queue') = Len(w) + 1 /\ Len(w) \in Nat
         /\ queue'[Len(w) + 1] = place /\ \A i \in 1..Len(w) : queue'[i] = w[i]
    BY <2>2, <2>9
  <2>11. \A i, j \in 1..Len(queue') : queue'[i] = queue'[j] => i = j
    BY <2>8, <2>10 DEF Leaves
  <2>12. ASSUME NEW i \in 1..Len(queue')
         PROVE  Has(memory', queue'[i])
    <3>1. CASE i = Len(w) + 1
      BY <2>2, <2>4, <2>5, <2>10, <3>1, PutKeeps
    <3>2. CASE i \in 1..Len(w)
      <4>1. PICK j \in 1..Len(queue) : queue'[i] = queue[j]
        BY <2>8, <2>10, <3>2 DEF Leaves
      <4>2. queue[j] \in Places /\ Has(memory, queue[j])
        BY QueuedThere
      <4> QED
        BY <2>2, <2>4, <2>5, <4>1, <4>2, PutKeeps
    <3> QED
      BY <2>10, <3>1, <3>2
  <2>13. FilesTyped'
    BY <2>3, <2>4, <2>6 DEF FilesTyped, IsFiles
  <2>14. SettingsTyped' /\ CountsTyped'
    BY <2>3 DEF SettingsTyped, CountsTyped
  <2>15. QueuesTyped'
    BY <2>2, <2>3, <2>10, <2>11 DEF QueuesTyped
  <2>16. DOMAIN queue' = 1..Len(queue')
    BY <2>10
  <2>17. \A i \in DOMAIN queue' : queue'[i].at \in DOMAIN memory'[queue'[i].file]
    BY <2>12, <2>16 DEF Has
  <2>18. TypeOK'
    BY <2>3, <2>17 DEF TypeOK
  <2> QED
    BY <2>13, <2>14, <2>15, <2>18
<1>2. CASE Flush
  <2>1. PICK place : place = Head(queue)
    OBVIOUS
  <2>2. PICK block : block = memory[place.file][place.at]
    OBVIOUS
  <2>3. /\ disk' = [disk EXCEPT ![place.file] = Stored(@, place.at, block)]
        /\ queue' = Tail(queue) /\ queue # <<>> /\ mode # "down"
        /\ kept' = IF Len(queue) = 1 /\ todo = <<>> /\ ~rough THEN Versions(memory) ELSE kept
        /\ UNCHANGED <<settings, mode, entries, saving, memory, todo, old, former, count, rough>>
    BY <1>2, <2>1, <2>2 DEF Flush
  <2>4. IsFiles(memory) /\ IsFiles(disk)
    BY DEF FilesTyped
  <2>5. /\ queue \in Seq(Places) /\ queue' \in Seq(Places) /\ Len(queue') = Len(queue) - 1
        /\ \A i \in 1..Len(queue') : i + 1 \in 1..Len(queue) /\ queue'[i] = queue[i + 1]
        /\ 1 \in 1..Len(queue) /\ place = queue[1]
    BY <2>1, <2>3 DEF QueuesTyped
  <2>6. place \in Places /\ block \in Contents(place.file)
    BY <2>2, <2>5, QueuedThere DEF On
  <2>7. Puts(disk', disk, place, block)
    BY <2>3, <2>4, <2>6, PutFacts
  <2>8. FilesTyped'
    BY <2>3, <2>4, <2>7 DEF FilesTyped, IsFiles, Puts
  <2>9. SettingsTyped'
    BY <2>3 DEF SettingsTyped
  <2>10. \A id \in DOMAIN kept' : kept'[id] \in Nat
    BY <2>3, <2>4, VersionsTyped DEF CountsTyped
  <2>11. CountsTyped'
    BY <2>3, <2>10 DEF CountsTyped
  <2>12. \A i, j \in 1..Len(queue') : queue'[i] = queue'[j] => i = j
    BY <2>5 DEF QueuesTyped
  <2>13. QueuesTyped'
    BY <2>3, <2>5, <2>12 DEF QueuesTyped
  <2>14. \A i \in DOMAIN queue' : queue'[i].at \in DOMAIN memory[queue'[i].file]
    BY SMTT(30), <2>5, QueuedThere DEF Has
  <2>15. TypeOK'
    BY <2>3, <2>14 DEF TypeOK
  <2> QED
    BY <2>8, <2>9, <2>11, <2>13, <2>15
<1>3. CASE FlushOld
  <2>1. PICK place, block : place = Head(old).place /\ block = Head(old).block
    OBVIOUS
  <2>2. place \in Places /\ block \in Contents(place.file) /\ Tail(old) \in Seq(Writes)
    BY <1>3, <2>1, HeadTyped DEF FlushOld, QueuesTyped
  <2>3. /\ disk' = [disk EXCEPT ![place.file] = Stored(@, place.at, block)]
        /\ old' = Tail(old)
        /\ UNCHANGED <<settings, mode, entries, saving, memory, queue, todo, former, kept, count, rough>>
    BY <1>3, <2>1 DEF FlushOld
  <2>4. IsFiles(memory) /\ IsFiles(disk)
    BY DEF FilesTyped
  <2>5. Puts(disk', disk, place, block)
    BY <2>2, <2>3, <2>4, PutFacts
  <2>6. FilesTyped'
    BY <2>3, <2>4, <2>5 DEF FilesTyped, IsFiles, Puts
  <2>7. SettingsTyped' /\ CountsTyped'
    BY <2>3 DEF SettingsTyped, CountsTyped
  <2>8. QueuesTyped'
    BY <2>2, <2>3 DEF QueuesTyped
  <2>9. TypeOK'
    BY <2>3 DEF TypeOK
  <2> QED
    BY <2>6, <2>7, <2>8, <2>9
<1> QED
  BY <1>1, <1>2, <1>3

(* Every step keeps the types.                                             *)
LEMMA TypedStep == Types /\ [Next]_vars => Types'
<1> SUFFICES ASSUME Types, [Next]_vars
             PROVE  Types'
  OBVIOUS
<1>1. CASE Start \/ WriteSettings \/ CreatePart \/ Stop \/ Crash
  BY <1>1, TypedManager
<1>2. CASE \/ \E file \in {"node", "data"} : Add(file)
           \/ \E id \in DOMAIN memory["meta"] : SetGrown(id) \/ SetInPlace(id)
  BY <1>2, TypedBegin
<1>5. CASE \E file \in {"node", "data"} : UseOld(file)
  BY <1>5, TypedUse DEF Data
<1>3. CASE Write \/ Flush \/ FlushOld
  BY <1>3, TypedPut
<1>4. CASE UNCHANGED vars
  <2>1. FilesTyped' /\ SettingsTyped' /\ QueuesTyped' /\ CountsTyped'
    BY <1>4 DEF vars, Types, Typed, FilesTyped, SettingsTyped, QueuesTyped, CountsTyped, IsFiles
  <2>2. TypeOK'
    BY <1>4 DEF vars, Types, TypeOK
  <2> QED
    BY <2>1, <2>2 DEF Types, Typed
<1> QED
  BY <1>1, <1>2, <1>3, <1>4, <1>5 DEF Next

(* The parts of a store have their types, and what is queued is in memory. *)
THEOREM TypeCorrect == Spec => []TypeOK
<1>1. Init => Types
  BY TypedInit
<1>2. Types /\ [Next]_vars => Types'
  BY TypedStep
<1>3. Types => TypeOK
  BY DEF Types
<1> QED
  BY <1>1, <1>2, <1>3, PTL DEF Spec

-----------------------------------------------------------------------------
(* The order of writes.                                                    *)

(* How long files are.                                                     *)
LEMMA FileFacts ==
  ASSUME NEW d, IsFiles(d)
  PROVE  /\ \A f \in File : Len(d[f]) \in Nat /\ DOMAIN d[f] = 1..Len(d[f])
         /\ \A f \in Data : f \in File /\ \A i \in 1..Len(d[f]) : d[f][i] \in Blocks
         /\ \A i \in 1..Len(d["meta"]) : d["meta"][i] \in Contents("meta")
         /\ "meta" \in File /\ "node" \in Data
<1>1. \A f \in File : Len(d[f]) \in Nat /\ DOMAIN d[f] = 1..Len(d[f])
  BY DEF IsFiles
<1>2. \A f \in Data : f \in File /\ f # "meta" /\ Contents(f) = Blocks
  BY DEF Data, File, Contents
<1>3. "meta" \in File /\ "node" \in Data
  BY DEF Data, File
<1> QED
  BY <1>1, <1>2, <1>3 DEF IsFiles

(* An empty disk leads nowhere wrong.                                      *)
LEMMA GoodInit == Init => Good
<1> SUFFICES ASSUME Init PROVE Good
  OBVIOUS
<1>1. Len(disk["meta"]) = 0 /\ \A f \in File : Len(disk[f]) = 0 /\ disk[f] = <<>>
  BY DEF Init, File
<1>2. Len(memory["meta"]) = 0 /\ \A f \in File : Len(memory[f]) = 0
  BY DEF Init, File
<1>3. mode = "down" /\ queue = <<>> /\ todo = <<>> /\ old = <<>> /\ kept = <<>>
  BY DEF Init
<1>4. Quiet /\ SettingsTrue /\ QueueReaches /\ SameIds /\ Doing /\ KeptInMemory
  BY <1>1, <1>3
     DEF Quiet, SettingsTrue, QueueReaches, SameIds, Doing, KeptInMemory, Listed
<1>5. Len(queue) = 0 /\ DOMAIN kept = {}
  BY <1>3
<1>6. NoGaps /\ BlocksFirst /\ MemoryLeads /\ DiskLeads /\ KeptOnDisk /\ KeptInQueue
  BY <1>1, <1>2, <1>5
     DEF NoGaps, BlocksFirst, MemoryLeads, DiskLeads, KeptOnDisk, KeptInQueue
<1>7. VersionsPast
  BY <1>1, <1>2, <1>5 DEF VersionsPast, Data, File
<1> QED
  BY <1>4, <1>6, <1>7 DEF Good, Ordered

(* A start finds the files that are listed, and memory is the disk.        *)
LEMMA GoodStart ==
  ASSUME Types, Good, Start
  PROVE  Good'
<1> USE DEF Good, Ordered
<1>1. /\ UNCHANGED <<disk, queue, todo, old, kept, count>>
      /\ mode = "down" /\ mode' = "up" /\ entries' = settings /\ settings' = {} /\ saving' = TRUE
  BY DEF Start, DeleteSettings
<1>2. queue = <<>> /\ todo = <<>> /\ Len(queue) = 0
  BY <1>1 DEF Types, TypeOK
<1>3. memory' = disk
  <2>1. memory' = [f \in File |-> IF f \in settings THEN disk[f] ELSE <<>>]
    BY DEF Start
  <2>2. \A f \in File : f \notin settings => disk[f] = <<>>
    BY <1>1 DEF SettingsTrue, Listed
  <2>3. disk = [f \in File |-> disk[f]]
    BY DEF Types, Typed, FilesTyped, IsFiles
  <2> QED
    BY <2>1, <2>2, <2>3
<1>4. Quiet' /\ Doing' /\ NoGaps' /\ BlocksFirst' /\ KeptInQueue'
  BY <1>1, <1>2 DEF Quiet, Doing, NoGaps, BlocksFirst, KeptInQueue
<1>5. SettingsTrue'
  BY <1>1, <1>3 DEF SettingsTrue, Listed
<1>6. QueueReaches' /\ SameIds'
  <2>1. \A f \in File : Len(disk[f]) \in Nat
    BY FileFacts DEF Types, Typed, FilesTyped
  <2> QED
    BY <1>1, <1>3, <2>1 DEF QueueReaches, SameIds
<1>7. MemoryLeads' /\ DiskLeads'
  BY <1>1, <1>3 DEF MemoryLeads, DiskLeads, Leads, Has, On
<1>8. VersionsPast'
  BY <1>1, <1>3 DEF VersionsPast
<1>9. KeptOnDisk' /\ KeptInMemory'
  BY <1>1, <1>3 DEF KeptOnDisk, KeptInMemory, Has, On
<1> QED
  BY <1>4, <1>5, <1>6, <1>7, <1>8, <1>9

(* The deferred write of the settings file.                                *)
LEMMA GoodWriteSettings ==
  ASSUME Types, Good, WriteSettings
  PROVE  Good'
<1> USE DEF Good, Ordered
<1>1. /\ UNCHANGED <<disk, entries, memory, todo, kept, count>>
      /\ saving' = FALSE /\ settings' = entries /\ saving
  BY DEF WriteSettings
<1>2. mode # "down"
  BY <1>1 DEF Types, Typed, SettingsTyped
<1>3. \/ mode = "up" /\ UNCHANGED <<mode, queue, old>>
      \/ mode' = "down" /\ queue = <<>> /\ UNCHANGED <<queue, old>>
  <2>1. CASE mode = "up"
    BY <2>1 DEF WriteSettings
  <2>2. CASE mode # "up"
    <3>1. mode = "stopping"
      BY <1>2, <2>2 DEF Types, TypeOK
    <3>2. queue = <<>> /\ old = <<>>
      BY <3>1 DEF Quiet
    <3>3. mode' = "down" /\ queue' = <<>>
      BY <2>2 DEF WriteSettings
    <3>4. old' = old \o [i \in DOMAIN queue |->
                           [place |-> queue[i], block |-> memory[queue[i].file][queue[i].at]]]
      BY <2>2 DEF WriteSettings
    <3>5. [i \in DOMAIN queue |->
             [place |-> queue[i], block |-> memory[queue[i].file][queue[i].at]]] = <<>>
      BY <3>2
    <3>6. old' = <<>>
      BY <3>2, <3>4, <3>5
    <3> QED
      BY <3>2, <3>3, <3>6
  <2> QED
    BY <2>1, <2>2
<1>4. UNCHANGED <<queue, old>>
  BY <1>3
<1>5. Quiet'
  BY <1>3, <1>4 DEF Quiet
<1>6. SettingsTrue'
  BY <1>1, <1>2, <1>3 DEF SettingsTrue, Listed
<1>7. QueueReaches' /\ SameIds' /\ KeptInMemory'
  BY <1>1, <1>2, <1>4 DEF QueueReaches, SameIds, KeptInMemory, Has, On
<1>8. NoGaps' /\ BlocksFirst' /\ KeptInQueue'
  BY <1>1, <1>4 DEF NoGaps, BlocksFirst, KeptInQueue, Has, On
<1>9. Doing'
  BY <1>1 DEF Doing, BlockAndCell, CellLeft, CellAndBlock, BlockLeft, Now
<1>10. MemoryLeads' /\ DiskLeads' /\ KeptOnDisk'
  BY <1>1 DEF MemoryLeads, DiskLeads, KeptOnDisk, Leads, Has, On
<1>11. VersionsPast'
  BY <1>1 DEF VersionsPast
<1> QED
  BY <1>5, <1>6, <1>7, <1>8, <1>9, <1>10, <1>11

(* What does not touch files, queue and what is to do.                     *)
LEMMA GoodElse ==
  ASSUME Good, UNCHANGED <<disk, memory, queue, todo, old, kept>>, count'.versions = count.versions,
         mode # "down", mode' # "down"
  PROVE  /\ QueueReaches' /\ SameIds' /\ KeptInMemory'
         /\ NoGaps' /\ BlocksFirst' /\ KeptInQueue'
         /\ MemoryLeads' /\ DiskLeads' /\ KeptOnDisk'
         /\ Doing' /\ VersionsPast'
<1> USE DEF Good, Ordered
<1>1. QueueReaches' /\ SameIds' /\ KeptInMemory'
  BY DEF QueueReaches, SameIds, KeptInMemory, Has, On
<1>2. NoGaps' /\ BlocksFirst' /\ KeptInQueue'
  BY DEF NoGaps, BlocksFirst, KeptInQueue, Has, On
<1>3. MemoryLeads' /\ DiskLeads' /\ KeptOnDisk'
  BY DEF MemoryLeads, DiskLeads, KeptOnDisk, Leads, Has, On
<1>4. Doing' /\ VersionsPast'
  BY DEF Doing, BlockAndCell, CellLeft, CellAndBlock, BlockLeft, Now, Block, VersionsPast
<1> QED
  BY <1>1, <1>2, <1>3, <1>4

(* A new file is empty.                                                    *)
LEMMA GoodCreatePart ==
  ASSUME Types, Good, CreatePart
  PROVE  Good'
<1>1. /\ UNCHANGED <<disk, mode, memory, queue, todo, old, kept, count>> /\ mode = "up"
      /\ entries \subseteq entries' /\ settings' = {} /\ saving' = TRUE
  BY DEF CreatePart, DeleteSettings
<1>2. Quiet'
  BY <1>1 DEF Good, Ordered, Quiet
<1>3. SettingsTrue'
  BY <1>1 DEF Good, Ordered, SettingsTrue, Listed
<1> QED
  BY <1>1, <1>2, <1>3, GoodElse DEF Good, Ordered

(* A stop that is not rough finds the queue empty.                         *)
LEMMA GoodStop ==
  ASSUME Types, Good, Stop, ~rough'
  PROVE  Good'
<1>1. /\ UNCHANGED <<disk, entries, memory, queue, todo, old, kept>> /\ mode = "up"
      /\ mode' = "stopping" /\ settings' = {} /\ saving' = TRUE /\ queue = <<>>
  BY DEF Stop, DeleteSettings
<1>2. count'.versions = count.versions
  BY DEF Stop, Types, Typed, CountsTyped
<1>3. Quiet'
  BY <1>1 DEF Good, Ordered, Quiet
<1>4. SettingsTrue'
  BY <1>1 DEF Good, Ordered, SettingsTrue, Listed
<1> QED
  BY <1>1, <1>2, <1>3, <1>4, GoodElse DEF Good, Ordered

(* A kill that is not rough leaves the disk, which is a store by itself.   *)
LEMMA GoodCrash ==
  ASSUME Types, Good, Crash, ~rough'
  PROVE  Good'
<1> USE DEF Good, Ordered
<1>1. /\ UNCHANGED <<disk, settings, kept>> /\ mode' = "down" /\ saving' = FALSE
      /\ queue' = <<>> /\ todo' = <<>> /\ old' = <<>> /\ memory' = [f \in File |-> <<>>]
      /\ ~(saving /\ entries # {})
  BY DEF Crash
<1>2. count'.versions = count.versions
  BY DEF Crash, Types, Typed, CountsTyped
<1>3. mode # "down" => settings = entries
  BY <1>1 DEF SettingsTrue
<1>4. Listed = settings
  BY <1>3 DEF Listed
<1>5. /\ Len(queue') = 0 /\ Len(memory'["meta"]) = 0
      /\ \A f \in Data : Len(memory'[f]) = 0
  BY <1>1 DEF File, Data
<1>6. Quiet' /\ Doing' /\ NoGaps' /\ BlocksFirst' /\ KeptInQueue' /\ MemoryLeads'
  BY <1>1, <1>5 DEF Quiet, Doing, NoGaps, BlocksFirst, KeptInQueue, MemoryLeads
<1>7. QueueReaches' /\ SameIds' /\ KeptInMemory'
  BY <1>1 DEF QueueReaches, SameIds, KeptInMemory
<1>8. SettingsTrue'
  BY <1>1, <1>4 DEF SettingsTrue, Listed
<1>9. DiskLeads' /\ KeptOnDisk'
  BY <1>1 DEF DiskLeads, KeptOnDisk, Leads, Has, On
<1>10. VersionsPast'
  BY <1>1, <1>2, <1>5 DEF VersionsPast
<1> QED
  BY <1>6, <1>7, <1>8, <1>9, <1>10

(* An operation begins: nothing of it is in memory yet.                    *)
LEMMA GoodBegin ==
  ASSUME Types, Good,
         \/ \E file \in {"node", "data"} : Add(file)
         \/ \E id \in DOMAIN memory["meta"] : SetGrown(id) \/ SetInPlace(id)
  PROVE  Good'
<1> USE DEF Good, Ordered
<1>1. /\ UNCHANGED <<disk, settings, mode, entries, saving, memory, queue, old, kept>>
      /\ count' = [count EXCEPT !.versions = @ + 1]
  BY DEF Add, SetGrown, SetInPlace, Counts
<1>2. count.versions \in Nat /\ count'.versions = count.versions + 1
  BY <1>1 DEF Types, Typed, CountsTyped
<1>3. Quiet'
  BY <1>1 DEF Quiet
<1>4. QueueReaches' /\ SameIds' /\ KeptInMemory'
  BY <1>1 DEF QueueReaches, SameIds, KeptInMemory, Has, On
<1>5. NoGaps' /\ BlocksFirst' /\ KeptInQueue'
  BY <1>1 DEF NoGaps, BlocksFirst, KeptInQueue, Has, On
<1>6. MemoryLeads' /\ DiskLeads' /\ KeptOnDisk'
  BY <1>1 DEF MemoryLeads, DiskLeads, KeptOnDisk, Leads, Has, On
<1>7. SettingsTrue'
  BY <1>1 DEF SettingsTrue, Listed
<1>8. VersionsPast'
  <2>1. /\ \A f \in Data : \A i \in 1..Len(disk[f]) : disk[f][i].version \in Nat
        /\ \A f \in Data : \A i \in 1..Len(memory[f]) : memory[f][i].version \in Nat
        /\ \A id \in DOMAIN kept : kept[id] \in Nat
    BY FileFacts DEF Types, Typed, FilesTyped, CountsTyped, Blocks
  <2> QED
    BY <1>1, <1>2, <2>1 DEF VersionsPast
<1>9. DOMAIN memory["meta"] = 1..Len(memory["meta"]) /\ Len(memory["meta"]) \in Nat
  BY FileFacts DEF Types, Typed, FilesTyped
<1>10. ASSUME NEW f \in Data, NEW id \in 1..(Len(memory["meta"]) + 1),
              todo' = << WriteOf(f, Len(memory[f]) + 1, Block(id, Version)),
                         WriteOf("meta", id, Cell(f, Len(memory[f]) + 1)) >>
       PROVE  Doing'
  <2>1. BlockAndCell(f, id)'
    BY <1>1, <1>2, <1>10 DEF BlockAndCell, Now, Version
  <2>2. id \in Nat
    BY <1>9
  <2> QED
    BY <2>1, <2>2 DEF Doing
<1>11. CASE \E f \in {"node", "data"} : Add(f)
  <2>1. PICK f \in Data : Add(f)
    BY <1>11 DEF Data
  <2>2. Len(memory["meta"]) + 1 \in 1..(Len(memory["meta"]) + 1)
    BY <1>9
  <2>3. Doing'
    BY <1>10, <2>1, <2>2 DEF Add, Added
  <2> QED
    BY <1>3, <1>4, <1>5, <1>6, <1>7, <1>8, <2>3
<1>12. CASE \E id \in DOMAIN memory["meta"] : SetGrown(id) \/ SetInPlace(id)
  <2>1. PICK id \in DOMAIN memory["meta"] : SetGrown(id) \/ SetInPlace(id)
    BY <1>12
  <2>2. id \in 1..Len(memory["meta"]) /\ id \in 1..(Len(memory["meta"]) + 1) /\ id \in Nat
    BY <1>9
  <2>3. CASE SetGrown(id)
    <3>1. Doing'
      BY <1>10, <2>2, <2>3 DEF SetGrown, Data
    <3> QED
      BY <1>3, <1>4, <1>5, <1>6, <1>7, <1>8, <3>1
  <2>4. CASE SetInPlace(id)
    <3>1. /\ todo' = << WriteOf("meta", id, memory["meta"][id]),
                        WriteOf("node", memory["meta"][id].at, Block(id, Version)) >>
          /\ memory["meta"][id].file = "node"
      BY <2>4 DEF SetInPlace
    <3>2. CellAndBlock(id)'
      BY <1>1, <1>2, <2>2, <3>1 DEF CellAndBlock, Now, Version
    <3>3. Doing'
      BY <2>2, <3>2 DEF Doing
    <3> QED
      BY <1>3, <1>4, <1>5, <1>6, <1>7, <1>8, <3>3
  <2> QED
    BY <2>1, <2>3, <2>4
<1> QED
  BY <1>11, <1>12

(* Writes to memory.  A place that is not queued goes behind all that is.  *)
Writing(place, block) ==
    /\ place \in Places /\ block \in Contents(place.file)
    /\ mode = "up" /\ place.file \in entries
    /\ Puts(memory', memory, place, block)
    /\ \A j \in 1..Len(queue) : queue[j] # place
    /\ queue' \in Seq(Places) /\ Len(queue') = Len(queue) + 1
    /\ queue'[Len(queue) + 1] = place /\ \A j \in 1..Len(queue) : queue'[j] = queue[j]
    /\ UNCHANGED <<disk, settings, mode, entries, saving, old, kept, count>>

(* A write to memory does that.                                            *)
LEMMA WritingFacts ==
  ASSUME Types, Write, ~rough', NEW place, NEW block,
         place = Head(todo).place, block = Head(todo).block
  PROVE  Writing(place, block)
<1>1. place \in Places /\ block \in Contents(place.file)
  BY HeadTyped DEF Write, Types, Typed, QueuesTyped
<1>2. /\ memory' = [memory EXCEPT ![place.file] = Stored(@, place.at, block)]
      /\ queue' = Append(RemoveFirst(queue, place), place)
      /\ rough' = (rough \/ Contains(queue, place))
      /\ mode = "up" /\ place.file \in entries
      /\ UNCHANGED <<disk, settings, mode, entries, saving, old, kept, count>>
  BY DEF Write
<1>3. IsFiles(memory)
  BY DEF Types, Typed, FilesTyped
<1>4. Puts(memory', memory, place, block)
  BY <1>1, <1>2, <1>3, PutFacts
<1>5. ~Contains(queue, place)
  BY <1>2
<1>6. queue \in Seq(Places) /\ \A i, j \in 1..Len(queue) : queue[i] = queue[j] => i = j
  BY DEF Types, Typed, QueuesTyped
<1>7. queue' = Append(queue, place)
  BY <1>2, <1>5, <1>6, RemoveFacts
<1>8. /\ queue' \in Seq(Places) /\ Len(queue') = Len(queue) + 1
      /\ queue'[Len(queue) + 1] = place /\ \A j \in 1..Len(queue) : queue'[j] = queue[j]
  BY <1>1, <1>6, <1>7
<1>9. \A j \in 1..Len(queue) : queue[j] # place
  BY <1>5 DEF Contains
<1> QED
  BY <1>1, <1>2, <1>4, <1>8, <1>9 DEF Writing

(* A write to the end of a file or before it leaves no gap.                *)
LEMMA WritingOrder ==
  ASSUME Types, Good, NEW place, NEW block, Writing(place, block),
         place.at <= Len(memory[place.file]) + 1
  PROVE  Quiet' /\ SettingsTrue' /\ QueueReaches' /\ NoGaps' /\ DiskLeads' /\ KeptOnDisk'
<1> USE DEF Good, Ordered
<1> DEFINE f == place.file
<1>1. /\ f \in File /\ place.at \in Nat \ {0} /\ mode = "up" /\ f \in entries
      /\ UNCHANGED <<disk, settings, mode, entries, saving, old, kept, count>>
      /\ place \in Places
  BY DEF Writing, Places
<1>2. /\ \A g \in File : Len(disk[g]) \in Nat /\ Len(memory[g]) \in Nat
      /\ Len(queue) \in Nat
  BY FileFacts, QueuedThere DEF Types, Typed, FilesTyped
<1>3. /\ Len(queue') = Len(queue) + 1 /\ queue'[Len(queue) + 1] = place
      /\ \A j \in 1..Len(queue) : queue'[j] = queue[j]
  BY DEF Writing
<1>4. /\ \A g \in File : g # f => memory'[g] = memory[g]
      /\ StoresIn(memory'[f], memory[f], place.at, block)
  BY DEF Writing, Puts
<1>5. Cell(f, place.at) = place
  BY <1>1 DEF Cell, Places
<1>6. QueueReaches'
  <2>1. ASSUME NEW g \in File, NEW i \in 1..Len(memory'[g])
        PROVE  \/ \E j \in 1..Len(queue') : queue'[j] = Cell(g, i)
               \/ i \in 1..Len(disk[g]) /\ disk[g][i] = memory'[g][i]
    <3>1. CASE g = f /\ i = place.at
      <4>1. Len(queue) + 1 \in 1..Len(queue')
        BY <1>2, <1>3
      <4> QED
        BY <1>3, <1>5, <3>1, <4>1
    <3>2. CASE ~(g = f /\ i = place.at)
      <4>1. i \in 1..Len(memory[g]) /\ memory'[g][i] = memory[g][i]
        BY <1>1, <1>2, <1>4, <3>2 DEF StoresIn
      <4>2. CASE i \in 1..Len(disk[g]) /\ disk[g][i] = memory[g][i]
        BY <4>1, <4>2
      <4>3. CASE ~(i \in 1..Len(disk[g]) /\ disk[g][i] = memory[g][i])
        <5>1. PICK j \in 1..Len(queue) : queue[j] = Cell(g, i)
          BY <1>1, <4>1, <4>3 DEF QueueReaches
        <5>2. j \in 1..Len(queue') /\ queue'[j] = Cell(g, i)
          BY <1>2, <1>3, <5>1
        <5> QED
          BY <5>2
      <4> QED
        BY <4>2, <4>3
    <3> QED
      BY <3>1, <3>2
  <2>2. ASSUME NEW g \in File
        PROVE  Len(disk[g]) <= Len(memory'[g])
    BY SMTT(30), <1>1, <1>2, <1>4 DEF QueueReaches, StoresIn
  <2> QED
    BY <1>1, <2>1, <2>2 DEF QueueReaches
<1>7. NoGaps'
  <2>1. ASSUME NEW i \in 1..Len(queue)
        PROVE  \/ queue'[i].at <= Len(disk[queue'[i].file]) + 1
               \/ \E j \in 1..(i - 1) : queue'[j] = Cell(queue'[i].file, queue'[i].at - 1)
    <3>1. \A j \in 1..(i - 1) : j \in 1..Len(queue)
      BY <1>2
    <3> QED
      BY <1>3, <3>1 DEF NoGaps
  <2>2. ASSUME ~(place.at <= Len(disk[f]) + 1)
        PROVE  \E j \in 1..Len(queue) : queue[j] = Cell(f, place.at - 1)
    <3>1. place.at - 1 \in 1..Len(memory[f]) /\ place.at - 1 \notin 1..Len(disk[f])
      BY <1>1, <1>2, <2>2
    <3> QED
      BY <1>1, <3>1 DEF QueueReaches
  <2>3. ASSUME NEW i \in 1..Len(queue')
        PROVE  \/ queue'[i].at <= Len(disk[queue'[i].file]) + 1
               \/ \E j \in 1..(i - 1) : queue'[j] = Cell(queue'[i].file, queue'[i].at - 1)
    <3>1. CASE i \in 1..Len(queue)
      BY <2>1, <3>1
    <3>2. CASE i = Len(queue) + 1
      <4>1. queue'[i] = place
        BY <1>3, <3>2
      <4>2. CASE ~(place.at <= Len(disk[f]) + 1)
        <5>1. PICK j \in 1..Len(queue) : queue[j] = Cell(f, place.at - 1)
          BY <2>2, <4>2
        <5>2. j \in 1..(i - 1) /\ queue'[j] = Cell(f, place.at - 1)
          BY <1>2, <1>3, <3>2, <5>1
        <5> QED
          BY <4>1, <5>2
      <4> QED
        BY <4>1, <4>2
    <3> QED
      BY <1>2, <1>3, <3>1, <3>2
  <2> QED
    BY <1>1, <2>3 DEF NoGaps
<1>8. Quiet' /\ DiskLeads' /\ KeptOnDisk'
  BY <1>1 DEF Quiet, DiskLeads, KeptOnDisk, Leads, Has, On
<1>9. SettingsTrue'
  BY <1>1, <1>4 DEF SettingsTrue, Listed
<1> QED
  BY <1>6, <1>7, <1>8, <1>9

(* A block is written, to a new place or to one of the element's blocks.   *)
LEMMA WritingBlock ==
  ASSUME Types, Good, NEW id \in Nat, NEW place, Writing(place, Now(id)), place.file \in Data,
         place.at <= Len(memory[place.file]) + 1,
         Has(memory, place) => On(memory, place).id = id
  PROVE  /\ SameIds' /\ MemoryLeads' /\ BlocksFirst' /\ VersionsPast'
         /\ KeptInMemory' /\ KeptInQueue'
<1> USE DEF Good, Ordered
<1> DEFINE f == place.file
           at == place.at
<1>1. /\ f \in File /\ f \in Data /\ f # "meta" /\ at \in Nat \ {0} /\ mode = "up"
      /\ UNCHANGED <<disk, mode, old, kept, count>> /\ place \in Places
  BY DEF Writing, Places, Data
<1>2. /\ \A g \in File : Len(disk[g]) \in Nat /\ Len(memory[g]) \in Nat
      /\ \A g \in File : Len(memory'[g]) \in Nat
      /\ \A g \in File : /\ DOMAIN memory[g] = 1..Len(memory[g])
                         /\ DOMAIN memory'[g] = 1..Len(memory'[g])
      /\ \A g \in File : DOMAIN disk[g] = 1..Len(disk[g])
      /\ \A g \in Data : g \in File
      /\ "meta" \in File
  BY FileFacts DEF Types, Typed, FilesTyped, Writing, Puts
<1>3. /\ Len(queue) \in Nat /\ Len(queue') = Len(queue) + 1 /\ queue'[Len(queue) + 1] = place
      /\ \A j \in 1..Len(queue) : queue'[j] = queue[j] /\ queue[j] # place
  BY QueuedThere DEF Writing
<1>4. /\ Has(memory', place) /\ On(memory', place) = Now(id)
      /\ \A p \in Places : Has(memory, p) => Has(memory', p)
      /\ \A p \in Places : Has(memory, p) /\ p # place => On(memory', p) = On(memory, p)
  BY PutKeeps DEF Writing, Types, Typed, FilesTyped
<1>5. memory'["meta"] = memory["meta"]
  BY <1>1, <1>2 DEF Writing, Puts
<1>6. Now(id).id = id /\ Now(id).version = count.versions
  BY DEF Now, Block
<1>7. \A c \in Cells : c \in Places /\ c.file \in Data /\ c.file \in File
  BY DEF Cells, Places, Data, File
<1>8. /\ \A g \in File : g # f => memory'[g] = memory[g]
      /\ StoresIn(memory'[f], memory[f], at, Now(id))
  BY DEF Writing, Puts
<1>9. \A k \in DOMAIN kept : kept[k] <= count.versions
  BY DEF VersionsPast
<1> HIDE DEF f, at
<1>10. SameIds'
  <2>1. ASSUME NEW g \in Data, NEW i \in 1..Len(disk[g])
        PROVE  disk[g][i].id = memory'[g][i].id
    <3>1. i \in 1..Len(memory[g]) /\ disk[g][i].id = memory[g][i].id
      <4>1. Len(disk[g]) <= Len(memory[g])
        BY <1>1, <1>2 DEF QueueReaches
      <4> QED
        BY <1>1, <1>2, <4>1 DEF SameIds
    <3>2. CASE g = f /\ i = at
      <4>1. Has(memory, place)
        BY <1>2, <3>1, <3>2 DEF Has, f, at
      <4>2. memory[g][i].id = id
        BY <3>2, <4>1 DEF On, f, at
      <4>3. memory'[g][i].id = id
        BY <1>4, <1>6, <3>2 DEF On, f, at
      <4> QED
        BY <3>1, <4>2, <4>3
    <3>3. CASE ~(g = f /\ i = at)
      <4>1. memory'[g][i] = memory[g][i]
        BY <1>2, <1>8, <3>1, <3>3 DEF StoresIn
      <4> QED
        BY <3>1, <4>1
    <3> QED
      BY <3>2, <3>3
  <2> QED
    BY <1>1, <2>1 DEF SameIds
<1>11. MemoryLeads'
  <2>1. ASSUME NEW k \in 1..Len(memory["meta"])
        PROVE  LET cell == memory["meta"][k]
               IN  cell \in Cells /\ Has(memory', cell) /\ On(memory', cell).id = k
    <3>1. PICK cell : cell = memory["meta"][k]
      OBVIOUS
    <3>2. cell \in Cells /\ Has(memory, cell) /\ On(memory, cell).id = k
      BY <3>1 DEF MemoryLeads, Leads
    <3>3. CASE cell = place
      BY <1>4, <1>6, <3>1, <3>2, <3>3
    <3>4. CASE cell # place
      BY <1>4, <1>7, <3>1, <3>2, <3>4
    <3> QED
      BY <3>3, <3>4
  <2> QED
    BY <1>5, <2>1 DEF MemoryLeads, Leads, Has, On
<1>12. BlocksFirst'
  <2>1. ASSUME NEW i \in 1..Len(queue'), queue'[i].file = "meta"
        PROVE  LET cell == memory["meta"][queue'[i].at]
               IN  Has(disk, cell) \/ \E j \in 1..(i - 1) : queue'[j] = cell
    <3>1. i \in 1..Len(queue) /\ queue'[i] = queue[i]
      BY <1>1, <1>3, <2>1 DEF f
    <3>2. \A j \in 1..(i - 1) : j \in 1..Len(queue)
      BY <1>3, <3>1
    <3> QED
      BY <1>3, <2>1, <3>1, <3>2 DEF BlocksFirst
  <2> QED
    BY <1>1, <1>5, <2>1 DEF BlocksFirst, Has
<1>13. VersionsPast'
  <2>1. ASSUME NEW g \in Data, NEW i \in 1..Len(memory'[g])
        PROVE  memory'[g][i].version <= count.versions
    <3>1. CASE g = f /\ i = at
      <4>1. memory'[g][i] = Now(id)
        BY <1>8, <3>1 DEF StoresIn
      <4>2. count.versions \in Nat
        BY DEF Types, Typed, CountsTyped
      <4> QED
        BY <1>6, <4>1, <4>2
    <3>2. CASE i \in 1..Len(memory[g]) /\ ~(g = f /\ i = at)
      <4>1. memory'[g][i] = memory[g][i]
        BY <1>2, <1>8, <3>2 DEF StoresIn
      <4> QED
        BY <3>2, <4>1 DEF VersionsPast
    <3>3. i \in 1..Len(memory[g]) \/ (g = f /\ i = at)
      <4>1. Len(memory'[f]) = IF at > Len(memory[f]) THEN at ELSE Len(memory[f])
        BY <1>8 DEF StoresIn
      <4>2. at <= Len(memory[f]) + 1
        BY DEF f, at
      <4> QED
        BY <1>1, <1>2, <1>8, <4>1, <4>2
    <3> QED
      BY <3>1, <3>2, <3>3
  <2> QED
    BY <1>1, <2>1 DEF VersionsPast
<1>14. KeptInMemory'
  <2>1. ASSUME NEW k \in DOMAIN kept
        PROVE  LET cell == memory["meta"][k]
               IN  /\ k \in 1..Len(memory["meta"])
                   /\ kept[k] <= On(memory', cell).version
                   /\ Has(disk, cell) => kept[k] <= On(disk, cell).version
    <3>1. PICK cell : cell = memory["meta"][k]
      OBVIOUS
    <3>2. /\ k \in 1..Len(memory["meta"])
          /\ kept[k] <= On(memory, cell).version
          /\ Has(disk, cell) => kept[k] <= On(disk, cell).version
      BY <1>1, <3>1 DEF KeptInMemory
    <3>3. cell \in Cells /\ Has(memory, cell)
      BY <3>1, <3>2 DEF MemoryLeads, Leads
    <3>4. kept[k] <= On(memory', cell).version
      <4>1. CASE cell = place
        BY <1>4, <1>6, <1>9, <4>1
      <4>2. CASE cell # place
        BY <1>4, <1>7, <3>2, <3>3, <4>2
      <4> QED
        BY <4>1, <4>2
    <3> QED
      BY <3>1, <3>2, <3>4
  <2> QED
    BY <1>1, <1>5, <2>1 DEF KeptInMemory, Has, On
<1>15. KeptInQueue'
  <2>1. ASSUME NEW i \in 1..Len(queue'), queue'[i].file # "meta"
        PROVE  LET block == On(memory', queue'[i])
               IN  block.id \in DOMAIN kept => kept[block.id] <= block.version
    <3>1. CASE i = Len(queue) + 1
      BY <1>3, <1>4, <1>6, <1>9, <3>1
    <3>2. CASE i \in 1..Len(queue)
      <4>1. queue'[i] = queue[i] /\ On(memory', queue[i]) = On(memory, queue[i])
        BY <1>3, <1>4, <3>2, QueuedThere
      <4> QED
        BY <2>1, <3>2, <4>1 DEF KeptInQueue
    <3> QED
      BY <1>3, <3>1, <3>2
  <2> QED
    BY <1>1, <2>1 DEF KeptInQueue, On
<1> QED
  BY <1>10, <1>11, <1>12, <1>13, <1>14, <1>15

(* A cell is written, for a block of the element that is in memory.        *)
LEMMA WritingCell ==
  ASSUME Types, Good, NEW id \in Nat \ {0}, NEW place, NEW cell, Writing(place, cell),
         place.file = "meta", place.at = id, id <= Len(memory["meta"]) + 1,
         cell \in Cells, Has(memory, cell), On(memory, cell).id = id,
         id \in DOMAIN kept => /\ kept[id] <= On(memory, cell).version
                               /\ Has(disk, cell) => kept[id] <= On(disk, cell).version
  PROVE  /\ SameIds' /\ MemoryLeads' /\ BlocksFirst' /\ VersionsPast'
         /\ KeptInMemory' /\ KeptInQueue'
<1> USE DEF Good, Ordered
<1>1. /\ mode = "up" /\ place \in Places
      /\ UNCHANGED <<disk, mode, old, kept, count>>
  BY DEF Writing
<1>2. /\ \A g \in File : Len(disk[g]) \in Nat /\ Len(memory[g]) \in Nat
      /\ \A g \in File : DOMAIN memory[g] = 1..Len(memory[g])
      /\ \A g \in File : DOMAIN disk[g] = 1..Len(disk[g])
      /\ \A g \in Data : g \in File /\ g # "meta"
      /\ "meta" \in File
  BY FileFacts DEF Types, Typed, FilesTyped, Data
<1>3. /\ Len(queue) \in Nat /\ Len(queue') = Len(queue) + 1 /\ queue'[Len(queue) + 1] = place
      /\ \A j \in 1..Len(queue) : queue'[j] = queue[j] /\ queue[j] # place
  BY QueuedThere DEF Writing
<1>4. \A c \in Cells : c \in Places /\ c.file \in Data /\ c.file # "meta" /\ c.at \in Nat \ {0}
  BY DEF Cells, Places, Data, File
<1>5. /\ \A g \in File : g # "meta" => memory'[g] = memory[g]
      /\ StoresIn(memory'["meta"], memory["meta"], id, cell)
  BY DEF Writing, Puts
<1>6. /\ memory'["meta"][id] = cell
      /\ \A k \in 1..Len(memory["meta"]) : k # id => memory'["meta"][k] = memory["meta"][k]
      /\ \A k \in 1..Len(memory["meta"]) : k \in 1..Len(memory'["meta"])
      /\ \A k \in 1..Len(memory'["meta"]) : k = id \/ k \in 1..Len(memory["meta"])
      /\ id \in 1..Len(memory'["meta"])
  BY <1>2, <1>5 DEF StoresIn
<1>7. \A c \in Places : c.file # "meta" =>
           /\ On(memory', c) = On(memory, c)
           /\ Has(memory', c) <=> Has(memory, c)
  BY <1>5 DEF On, Has, Places
<1>8. SameIds' /\ VersionsPast'
  BY <1>1, <1>2, <1>5 DEF SameIds, VersionsPast
<1>9. MemoryLeads'
  <2>1. ASSUME NEW k \in 1..Len(memory'["meta"])
        PROVE  LET c == memory'["meta"][k]
               IN  c \in Cells /\ Has(memory', c) /\ On(memory', c).id = k
    <3>1. CASE k = id
      BY <1>4, <1>6, <1>7, <3>1
    <3>2. CASE k # id
      <4>1. PICK c : c = memory["meta"][k]
        OBVIOUS
      <4>2. k \in 1..Len(memory["meta"]) /\ memory'["meta"][k] = c
        BY <1>6, <3>2, <4>1
      <4>3. c \in Cells /\ Has(memory, c) /\ On(memory, c).id = k
        BY <4>1, <4>2 DEF MemoryLeads, Leads
      <4> QED
        BY <1>4, <1>7, <4>2, <4>3
    <3> QED
      BY <3>1, <3>2
  <2> QED
    BY <2>1 DEF MemoryLeads, Leads, Has, On
<1>10. BlocksFirst'
  <2>1. Has(disk, cell) \/ \E j \in 1..Len(queue) : queue[j] = cell
    <3>1. cell.file \in File /\ cell.at \in 1..Len(memory[cell.file])
          /\ cell = Cell(cell.file, cell.at)
      BY <1>2, <1>4 DEF Has, Cells, Cell
    <3> QED
      BY SMTT(30), <1>1, <1>2, <3>1 DEF QueueReaches, Has
  <2>2. ASSUME NEW i \in 1..Len(queue'), queue'[i].file = "meta"
        PROVE  LET c == memory'["meta"][queue'[i].at]
               IN  Has(disk, c) \/ \E j \in 1..(i - 1) : queue'[j] = c
    <3>1. CASE i = Len(queue) + 1
      <4>1. memory'["meta"][queue'[i].at] = cell
        BY <1>3, <1>6, <3>1
      <4>2. \A j \in 1..Len(queue) : j \in 1..(i - 1) /\ queue'[j] = queue[j]
        BY <1>3, <3>1
      <4> QED
        BY <2>1, <4>1, <4>2
    <3>2. CASE i \in 1..Len(queue)
      <4>1. queue'[i] = queue[i] /\ queue[i] # place /\ queue[i].file = "meta"
        BY <1>3, <2>2, <3>2
      <4>2. queue[i] \in Places /\ Has(memory, queue[i])
        BY <3>2, QueuedThere
      <4>3. queue[i].at # id /\ queue[i].at \in 1..Len(memory["meta"])
        BY <1>1, <1>2, <4>1, <4>2 DEF Places, Has
      <4>4. PICK c : c = memory["meta"][queue[i].at]
        OBVIOUS
      <4>5. memory'["meta"][queue'[i].at] = c
        BY <1>6, <4>1, <4>3, <4>4
      <4>6. Has(disk, c) \/ \E j \in 1..(i - 1) : queue[j] = c
        BY <3>2, <4>1, <4>4 DEF BlocksFirst
      <4>7. \A j \in 1..(i - 1) : queue'[j] = queue[j]
        BY <1>3, <3>2
      <4> QED
        BY <4>5, <4>6, <4>7
    <3> QED
      BY <1>3, <3>1, <3>2
  <2> QED
    BY <1>1, <2>2 DEF BlocksFirst, Has
<1>11. KeptInMemory'
  <2>1. ASSUME NEW k \in DOMAIN kept
        PROVE  LET c == memory'["meta"][k]
               IN  /\ k \in 1..Len(memory'["meta"])
                   /\ kept[k] <= On(memory', c).version
                   /\ Has(disk, c) => kept[k] <= On(disk, c).version
    <3>1. PICK c : c = memory["meta"][k]
      OBVIOUS
    <3>2. /\ k \in 1..Len(memory["meta"])
          /\ kept[k] <= On(memory, c).version
          /\ Has(disk, c) => kept[k] <= On(disk, c).version
      BY <1>1, <3>1 DEF KeptInMemory
    <3>3. c \in Cells
      BY <3>1, <3>2 DEF MemoryLeads, Leads
    <3>4. CASE k = id
      BY <1>4, <1>6, <1>7, <2>1, <3>4
    <3>5. CASE k # id
      BY <1>4, <1>6, <1>7, <3>1, <3>2, <3>3, <3>5
    <3> QED
      BY <3>4, <3>5
  <2> QED
    BY <1>1, <2>1 DEF KeptInMemory, Has, On
<1>12. KeptInQueue'
  <2>1. ASSUME NEW i \in 1..Len(queue'), queue'[i].file # "meta"
        PROVE  LET block == On(memory', queue'[i])
               IN  block.id \in DOMAIN kept => kept[block.id] <= block.version
    <3>1. i \in 1..Len(queue) /\ queue'[i] = queue[i]
      BY <1>3, <2>1
    <3>2. On(memory', queue[i]) = On(memory, queue[i])
      BY <1>7, <2>1, <3>1, QueuedThere
    <3> QED
      BY <2>1, <3>1, <3>2 DEF KeptInQueue
  <2> QED
    BY <1>1, <2>1 DEF KeptInQueue, On
<1> QED
  BY <1>8, <1>9, <1>10, <1>11, <1>12

(* The head and the rest of what is to do.                                 *)
LEMMA TwoToDo ==
  ASSUME NEW a, NEW b
  PROVE  Head(<<a, b>>) = a /\ Tail(<<a, b>>) = <<b>> /\ Head(<<a>>) = a /\ Tail(<<a>>) = <<>>
OBVIOUS

(* One write of an operation.                                              *)
LEMMA GoodWrite ==
  ASSUME Types, Good, Write, ~rough'
  PROVE  Good'
<1> USE DEF Good, Ordered
<1>1. todo # <<>> /\ todo' = Tail(todo)
  BY DEF Write
<1>2. PICK place, block : place = Head(todo).place /\ block = Head(todo).block
  OBVIOUS
<1>3. Writing(place, block)
  BY <1>2, WritingFacts
<1>4. /\ \A g \in File : Len(disk[g]) \in Nat /\ Len(memory[g]) \in Nat
      /\ \A g \in File : DOMAIN memory[g] = 1..Len(memory[g])
      /\ \A g \in File : DOMAIN disk[g] = 1..Len(disk[g])
      /\ \A g \in Data : g \in File /\ g # "meta"
      /\ "meta" \in File /\ "node" \in Data
  BY FileFacts DEF Types, Typed, FilesTyped, Data
<1>5. /\ UNCHANGED <<disk, kept, count, mode>> /\ mode = "up"
      /\ \A g \in File : g # place.file => memory'[g] = memory[g]
      /\ StoresIn(memory'[place.file], memory[place.file], place.at, block)
  BY <1>3 DEF Writing, Puts
<1>6. count.versions \in Nat /\ \A k \in DOMAIN kept : kept[k] <= count.versions
  BY DEF Types, Typed, CountsTyped, VersionsPast
<1>7. \A f, at : Cell(f, at).file = f /\ Cell(f, at).at = at
  BY DEF Cell
<1>8. \A k : Now(k).id = k /\ Now(k).version = count.versions
  BY DEF Now, Block
<1>9. \A f, at, b : WriteOf(f, at, b).place = Cell(f, at) /\ WriteOf(f, at, b).block = b
  BY DEF WriteOf
<1>10. ASSUME NEW f \in Data, NEW id \in Nat, BlockAndCell(f, id)
       PROVE  Good'
  <2>1. PICK n \in Nat : n = Len(memory[f]) + 1
    BY <1>4
  <2>2. PICK left : left = WriteOf("meta", id, Cell(f, n))
    OBVIOUS
  <2>3. todo = << WriteOf(f, n, Now(id)), left >> /\ id \in 1..(Len(memory["meta"]) + 1)
    BY <1>10, <2>1, <2>2 DEF BlockAndCell
  <2>4. place = Cell(f, n) /\ block = Now(id) /\ todo' = <<left>>
    BY <1>1, <1>2, <1>9, <2>3, TwoToDo
  <2>5. place.file = f /\ place.at = n /\ f # "meta" /\ ~Has(memory, place)
    BY <1>4, <1>7, <2>1, <2>4 DEF Has
  <2>6. Quiet' /\ SettingsTrue' /\ QueueReaches' /\ NoGaps' /\ DiskLeads' /\ KeptOnDisk'
    BY <1>3, <1>4, <2>1, <2>5, WritingOrder
  <2>7. /\ SameIds' /\ MemoryLeads' /\ BlocksFirst' /\ VersionsPast'
        /\ KeptInMemory' /\ KeptInQueue'
    BY <1>3, <1>4, <2>1, <2>4, <2>5, WritingBlock
  <2>8. CellLeft(f, id, n)'
    <3>1. memory'["meta"] = memory["meta"]
      BY <1>4, <1>5, <2>5
    <3>2. n \in 1..Len(memory'[f]) /\ memory'[f][n] = Now(id)
      BY <1>4, <1>5, <2>1, <2>4, <2>5 DEF StoresIn
    <3>3. n \notin 1..Len(disk[f])
      BY <1>4, <1>5, <2>1 DEF QueueReaches
    <3> QED
      BY <1>5, <2>2, <2>3, <2>4, <3>1, <3>2, <3>3 DEF CellLeft, Now
  <2>9. Doing'
    BY <2>8 DEF Doing
  <2> QED
    BY <2>6, <2>7, <2>9
<1>11. ASSUME NEW f \in Data, NEW id \in Nat, NEW at \in Nat, CellLeft(f, id, at)
       PROVE  Good'
  <2>1. PICK cell : cell = Cell(f, at)
    OBVIOUS
  <2>2. /\ todo = << WriteOf("meta", id, cell) >> /\ id \in 1..(Len(memory["meta"]) + 1)
        /\ at \in 1..Len(memory[f]) /\ memory[f][at] = Now(id)
        /\ at \in 1..Len(disk[f]) => disk[f][at] = Now(id)
    BY <1>11, <2>1 DEF CellLeft
  <2>3. place = Cell("meta", id) /\ block = cell /\ todo' = <<>>
    BY <1>1, <1>2, <1>9, <2>2, TwoToDo
  <2>4. place.file = "meta" /\ place.at = id /\ id <= Len(memory["meta"]) + 1 /\ id \in Nat \ {0}
    BY <1>4, <1>7, <2>2, <2>3
  <2>5. cell \in Cells /\ cell.file = f /\ cell.at = at
    BY <1>7, <2>1, <2>2, CellTyped
  <2>6. /\ Has(memory, cell) /\ On(memory, cell) = Now(id)
        /\ Has(disk, cell) => On(disk, cell) = Now(id)
    BY <1>4, <2>2, <2>5 DEF Has, On
  <2>7. Quiet' /\ SettingsTrue' /\ QueueReaches' /\ NoGaps' /\ DiskLeads' /\ KeptOnDisk'
    BY <1>3, <2>4, WritingOrder
  <2>8. /\ SameIds' /\ MemoryLeads' /\ BlocksFirst' /\ VersionsPast'
        /\ KeptInMemory' /\ KeptInQueue'
    BY <1>3, <1>6, <1>8, <2>3, <2>4, <2>5, <2>6, WritingCell
  <2>9. Doing'
    BY <2>3 DEF Doing
  <2> QED
    BY <2>7, <2>8, <2>9
<1>12. ASSUME NEW id \in Nat, CellAndBlock(id)
       PROVE  Good'
  <2>1. PICK cell : cell = memory["meta"][id]
    OBVIOUS
  <2>2. PICK left : left = WriteOf("node", cell.at, Now(id))
    OBVIOUS
  <2>3. /\ todo = << WriteOf("meta", id, cell), left >> /\ id \in 1..Len(memory["meta"])
        /\ cell.file = "node"
    BY <1>12, <2>1, <2>2 DEF CellAndBlock
  <2>4. place = Cell("meta", id) /\ block = cell /\ todo' = <<left>>
    BY <1>1, <1>2, <1>9, <2>3, TwoToDo
  <2>5. place.file = "meta" /\ place.at = id /\ id <= Len(memory["meta"]) + 1 /\ id \in Nat \ {0}
    BY <1>4, <1>7, <2>3, <2>4
  <2>6. cell \in Cells /\ Has(memory, cell) /\ On(memory, cell).id = id
    BY <2>1, <2>3 DEF MemoryLeads, Leads
  <2>7. id \in DOMAIN kept => /\ kept[id] <= On(memory, cell).version
                              /\ Has(disk, cell) => kept[id] <= On(disk, cell).version
    BY <1>5, <2>1 DEF KeptInMemory
  <2>8. Quiet' /\ SettingsTrue' /\ QueueReaches' /\ NoGaps' /\ DiskLeads' /\ KeptOnDisk'
    BY <1>3, <2>5, WritingOrder
  <2>9. /\ SameIds' /\ MemoryLeads' /\ BlocksFirst' /\ VersionsPast'
        /\ KeptInMemory' /\ KeptInQueue'
    BY <1>3, <2>4, <2>5, <2>6, <2>7, WritingCell
  <2>10. BlockLeft(id)'
    <3>1. id \in 1..Len(memory'["meta"]) /\ memory'["meta"][id] = cell
      BY <1>4, <1>5, <2>3, <2>4, <2>5 DEF StoresIn
    <3> QED
      BY <1>5, <2>2, <2>3, <2>4, <3>1 DEF BlockLeft, Now
  <2>11. Doing'
    BY <2>10 DEF Doing
  <2> QED
    BY <2>8, <2>9, <2>11
<1>13. ASSUME NEW id \in Nat, BlockLeft(id)
       PROVE  Good'
  <2>1. PICK cell : cell = memory["meta"][id]
    OBVIOUS
  <2>2. /\ todo = << WriteOf("node", cell.at, Now(id)) >> /\ id \in 1..Len(memory["meta"])
        /\ cell.file = "node"
    BY <1>13, <2>1 DEF BlockLeft
  <2>3. place = Cell("node", cell.at) /\ block = Now(id) /\ todo' = <<>>
    BY <1>1, <1>2, <1>9, <2>2, TwoToDo
  <2>4. cell \in Cells /\ Has(memory, cell) /\ On(memory, cell).id = id
    BY <2>1, <2>2 DEF MemoryLeads, Leads
  <2>5. place = cell /\ place.file \in Data
    BY <1>4, <2>2, <2>3, <2>4 DEF Cells, Cell
  <2>6. place.at <= Len(memory[place.file]) + 1
    BY <1>4, <2>4, <2>5 DEF Has, Cells
  <2>7. Quiet' /\ SettingsTrue' /\ QueueReaches' /\ NoGaps' /\ DiskLeads' /\ KeptOnDisk'
    BY <1>3, <2>6, WritingOrder
  <2>8. /\ SameIds' /\ MemoryLeads' /\ BlocksFirst' /\ VersionsPast'
        /\ KeptInMemory' /\ KeptInQueue'
    BY <1>3, <2>3, <2>4, <2>5, <2>6, WritingBlock
  <2>9. Doing'
    BY <2>3 DEF Doing
  <2> QED
    BY <2>7, <2>8, <2>9
<1> QED
  BY <1>1, <1>10, <1>11, <1>12, <1>13 DEF Doing

(* Writes to disk: the head of the queue, with what memory has there.      *)
Flushing(place, block) ==
    /\ mode # "down" /\ place \in Places /\ Has(memory, place) /\ block = On(memory, place)
    /\ Puts(disk', disk, place, block)
    /\ place.at <= Len(disk[place.file]) + 1
    /\ Len(queue) \in Nat \ {0} /\ queue[1] = place
    /\ queue' \in Seq(Places) /\ Len(queue') = Len(queue) - 1
    /\ \A i \in 1..Len(queue') : i + 1 \in 1..Len(queue) /\ queue'[i] = queue[i + 1]
    /\ UNCHANGED <<settings, mode, entries, saving, memory, todo, old, count>>

(* A flush does that: the place it writes is next to what the file has.    *)
LEMMA FlushingFacts ==
  ASSUME Types, Good, Flush
  PROVE  \E place, block : Flushing(place, block)
<1>1. PICK place : place = Head(queue)
  OBVIOUS
<1>2. PICK block : block = memory[place.file][place.at]
  OBVIOUS
<1>3. /\ disk' = [disk EXCEPT ![place.file] = Stored(@, place.at, block)]
      /\ queue' = Tail(queue) /\ queue # <<>> /\ mode # "down"
      /\ UNCHANGED <<settings, mode, entries, saving, memory, todo, old, count>>
  BY <1>1, <1>2 DEF Flush
<1>4. /\ queue' \in Seq(Places) /\ Len(queue') = Len(queue) - 1
      /\ \A i \in 1..Len(queue') : i + 1 \in 1..Len(queue) /\ queue'[i] = queue[i + 1]
      /\ 1 \in 1..Len(queue) /\ queue[1] = place /\ Len(queue) \in Nat \ {0}
  BY <1>1, <1>3 DEF Types, Typed, QueuesTyped
<1>5. /\ place \in Places /\ Has(memory, place)
      /\ block = On(memory, place) /\ block \in Contents(place.file)
  BY <1>2, <1>4, QueuedThere DEF On
<1>6. IsFiles(disk)
  BY DEF Types, Typed, FilesTyped
<1>7. Puts(disk', disk, place, block)
  BY <1>3, <1>5, <1>6, PutFacts
<1>8. place.at <= Len(disk[place.file]) + 1
  BY <1>4 DEF Good, Ordered, NoGaps
<1> QED
  BY <1>3, <1>4, <1>5, <1>7, <1>8 DEF Flushing

(* What a write to disk changes there.                                     *)
LEMMA FlushedFiles ==
  ASSUME Types, NEW place, NEW block, Flushing(place, block)
  PROVE  /\ \A g \in File : Len(disk[g]) \in Nat /\ DOMAIN disk[g] = 1..Len(disk[g])
         /\ \A g \in File : Len(disk'[g]) \in Nat /\ DOMAIN disk'[g] = 1..Len(disk'[g])
         /\ \A g \in File : Len(memory[g]) \in Nat /\ DOMAIN memory[g] = 1..Len(memory[g])
         /\ Has(disk', place) /\ On(disk', place) = On(memory, place)
         /\ \A p \in Places : Has(disk, p) => Has(disk', p)
         /\ \A p \in Places : p # place /\ Has(disk', p) =>
               Has(disk, p) /\ On(disk', p) = On(disk, p)
         /\ \A g \in File : g # place.file => disk'[g] = disk[g]
         /\ Len(disk'[place.file]) =
               IF place.at > Len(disk[place.file]) THEN place.at ELSE Len(disk[place.file])
<1>1. IsFiles(disk) /\ IsFiles(disk') /\ IsFiles(memory)
  BY DEF Types, Typed, FilesTyped, Flushing, Puts
<1>2. /\ \A g \in File : Len(disk[g]) \in Nat /\ DOMAIN disk[g] = 1..Len(disk[g])
      /\ \A g \in File : Len(disk'[g]) \in Nat /\ DOMAIN disk'[g] = 1..Len(disk'[g])
      /\ \A g \in File : Len(memory[g]) \in Nat /\ DOMAIN memory[g] = 1..Len(memory[g])
  BY <1>1, FileFacts
<1>3. /\ Has(disk', place) /\ On(disk', place) = block
      /\ \A p \in Places : Has(disk, p) => Has(disk', p)
      /\ \A p \in Places : Has(disk, p) /\ p # place => On(disk', p) = On(disk, p)
  BY <1>1, PutKeeps DEF Flushing
<1>4. /\ \A g \in File : g # place.file => disk'[g] = disk[g]
      /\ Len(disk'[place.file]) =
            IF place.at > Len(disk[place.file]) THEN place.at ELSE Len(disk[place.file])
  BY DEF Flushing, Puts, StoresIn
<1>5. ASSUME NEW p \in Places, p # place, Has(disk', p)
      PROVE  Has(disk, p)
  <2>1. p.file \in File /\ p.at \in Nat \ {0} /\ place.file \in File /\ place.at \in Nat \ {0}
    BY DEF Places, Flushing
  <2>2. CASE p.file # place.file
    BY <1>4, <1>5, <2>1, <2>2 DEF Has
  <2>3. CASE p.file = place.file
    <3>1. p.at # place.at
      BY <1>5, <2>3 DEF Places, Flushing
    <3>2. p.at \in 1..Len(disk'[place.file])
      BY <1>2, <1>5, <2>1, <2>3 DEF Has
    <3>3. place.at <= Len(disk[place.file]) + 1
      BY DEF Flushing
    <3>4. p.at \in 1..Len(disk[place.file])
      BY <1>2, <1>4, <2>1, <3>1, <3>2, <3>3
    <3> QED
      BY <1>2, <2>1, <2>3, <3>4 DEF Has
  <2> QED
    BY <2>2, <2>3
<1>6. block = On(memory, place)
  BY DEF Flushing
<1> QED
  BY <1>2, <1>3, <1>4, <1>5, <1>6

(* The rest of the queue has its order.                                    *)
LEMMA FlushingOrder ==
  ASSUME Types, Good, NEW place, NEW block, Flushing(place, block)
  PROVE  /\ Quiet' /\ SettingsTrue' /\ QueueReaches' /\ NoGaps' /\ BlocksFirst'
         /\ SameIds' /\ Doing'
<1> USE DEF Good, Ordered
<1>1. /\ UNCHANGED <<settings, mode, entries, saving, memory, todo, old, count>>
      /\ mode # "down" /\ place \in Places /\ Has(memory, place) /\ queue[1] = place
      /\ place.file \in File /\ place.at \in Nat \ {0}
      /\ place.at <= Len(disk[place.file]) + 1
  BY DEF Flushing, Places
<1>2. /\ \A g \in File : Len(disk[g]) \in Nat /\ DOMAIN disk[g] = 1..Len(disk[g])
      /\ \A g \in File : Len(disk'[g]) \in Nat /\ DOMAIN disk'[g] = 1..Len(disk'[g])
      /\ \A g \in File : Len(memory[g]) \in Nat /\ DOMAIN memory[g] = 1..Len(memory[g])
      /\ Has(disk', place) /\ On(disk', place) = On(memory, place)
      /\ \A p \in Places : Has(disk, p) => Has(disk', p)
      /\ \A p \in Places : p # place /\ Has(disk', p) =>
            Has(disk, p) /\ On(disk', p) = On(disk, p)
      /\ \A g \in File : g # place.file => disk'[g] = disk[g]
      /\ Len(disk'[place.file]) =
            IF place.at > Len(disk[place.file]) THEN place.at ELSE Len(disk[place.file])
  BY FlushedFiles
<1>3. /\ Len(queue) \in Nat \ {0} /\ Len(queue') = Len(queue) - 1
      /\ \A i \in 1..Len(queue') : i + 1 \in 1..Len(queue) /\ queue'[i] = queue[i + 1]
      /\ \A j \in 1..Len(queue) : j # 1 => j - 1 \in 1..Len(queue') /\ queue'[j - 1] = queue[j]
  BY DEF Flushing
<1>4. /\ \A g \in File : \A i \in Nat \ {0} : Cell(g, i) \in Places
      /\ \A g, i : Cell(g, i).file = g /\ Cell(g, i).at = i
      /\ \A g \in Data : g \in File
  BY DEF Cell, Places, Data, File
<1>5. Quiet'
  BY <1>1, <1>3 DEF Quiet
<1>6. SettingsTrue'
  <2>1. place.file \in entries
    <3>1. memory[place.file] # <<>>
      BY <1>1, <1>2 DEF Has
    <3> QED
      BY <1>1, <3>1 DEF SettingsTrue, Listed
  <2> QED
    BY <1>1, <1>2, <2>1 DEF SettingsTrue, Listed
<1>7. QueueReaches'
  <2>1. ASSUME NEW g \in File
        PROVE  Len(disk'[g]) <= Len(memory[g])
    BY <1>1, <1>2 DEF QueueReaches, Has
  <2>2. ASSUME NEW g \in File, NEW i \in 1..Len(memory[g])
        PROVE  \/ \E j \in 1..Len(queue') : queue'[j] = Cell(g, i)
               \/ i \in 1..Len(disk'[g]) /\ disk'[g][i] = memory[g][i]
    <3>1. Cell(g, i) \in Places
      BY <1>4
    <3>2. CASE Cell(g, i) = place
      BY <1>2, <1>4, <3>2 DEF Has, On
    <3>3. CASE Cell(g, i) # place
      <4>1. CASE \E j \in 1..Len(queue) : queue[j] = Cell(g, i)
        BY <1>1, <1>3, <3>3, <4>1
      <4>2. CASE i \in 1..Len(disk[g]) /\ disk[g][i] = memory[g][i]
        <5>1. Has(disk, Cell(g, i)) /\ On(disk, Cell(g, i)) = memory[g][i]
          BY <1>2, <1>4, <4>2 DEF Has, On
        <5>2. Has(disk', Cell(g, i)) /\ On(disk', Cell(g, i)) = memory[g][i]
          BY <1>2, <3>1, <3>3, <5>1
        <5> QED
          BY <1>2, <1>4, <5>2 DEF Has, On
      <4> QED
        BY <1>1, <4>1, <4>2 DEF QueueReaches
    <3> QED
      BY <3>2, <3>3
  <2> QED
    BY <1>1, <2>1, <2>2 DEF QueueReaches
<1>8. NoGaps'
  <2>1. ASSUME NEW i \in 1..Len(queue')
        PROVE  \/ queue'[i].at <= Len(disk'[queue'[i].file]) + 1
               \/ \E j \in 1..(i - 1) : queue'[j] = Cell(queue'[i].file, queue'[i].at - 1)
    <3>1. PICK p \in Places : p = queue'[i]
      BY DEF Flushing
    <3>2. i + 1 \in 1..Len(queue) /\ queue[i + 1] = p /\ p.file \in File /\ p.at \in Nat \ {0}
      BY <1>3, <3>1 DEF Places
    <3>3. CASE p.at <= Len(disk[p.file]) + 1
      <4>1. Len(disk[p.file]) <= Len(disk'[p.file])
        BY SMTT(30), <1>1, <1>2, <3>2
      <4>2. p.at <= Len(disk'[p.file]) + 1
        BY SMTT(30), <1>2, <3>2, <3>3, <4>1
      <4> QED
        BY <3>1, <4>2
    <3>4. CASE \E j \in 1..i : queue[j] = Cell(p.file, p.at - 1)
      <4>1. PICK j \in 1..i : queue[j] = Cell(p.file, p.at - 1)
        BY <3>4
      <4>2. CASE j = 1
        <5>1. place.file = p.file /\ place.at = p.at - 1
          BY <1>1, <1>4, <4>1, <4>2
        <5> QED
          BY <1>1, <1>2, <3>1, <3>2, <5>1
      <4>3. CASE j # 1
        <5>1. j - 1 \in 1..(i - 1) /\ j \in 1..Len(queue)
          BY <1>3, <4>3
        <5> QED
          BY <1>3, <3>1, <4>1, <4>3, <5>1
      <4> QED
        BY <4>2, <4>3
    <3>5. p.at <= Len(disk[p.file]) + 1 \/ \E j \in 1..i : queue[j] = Cell(p.file, p.at - 1)
      <4>1. 1..((i + 1) - 1) = 1..i
        OBVIOUS
      <4> QED
        BY <3>2, <4>1 DEF NoGaps
    <3> QED
      BY <3>3, <3>4, <3>5
  <2> QED
    BY <2>1 DEF NoGaps
<1>9. BlocksFirst'
  <2>1. ASSUME NEW i \in 1..Len(queue'), queue'[i].file = "meta"
        PROVE  LET cell == memory["meta"][queue'[i].at]
               IN  Has(disk', cell) \/ \E j \in 1..(i - 1) : queue'[j] = cell
    <3>1. PICK p \in Places : p = queue'[i]
      BY DEF Flushing
    <3>2. i + 1 \in 1..Len(queue) /\ queue[i + 1] = p /\ p.file = "meta"
      BY <1>3, <2>1, <3>1
    <3>3. PICK cell : cell = memory["meta"][p.at]
      OBVIOUS
    <3>4. cell \in Places
      <4>1. p.at \in 1..Len(memory["meta"])
        BY <1>2, <3>2, QueuedThere DEF Has, File
      <4> QED
        BY <3>3, <4>1 DEF MemoryLeads, Leads, Cells, Places, Data, File
    <3>5. Has(disk, cell) \/ \E j \in 1..i : queue[j] = cell
      <4>1. 1..((i + 1) - 1) = 1..i
        OBVIOUS
      <4> QED
        BY <3>2, <3>3, <4>1 DEF BlocksFirst
    <3>6. CASE Has(disk, cell)
      BY <1>2, <3>1, <3>3, <3>4, <3>6
    <3>7. CASE \E j \in 1..i : queue[j] = cell
      <4>1. PICK j \in 1..i : queue[j] = cell
        BY <3>7
      <4>2. CASE j = 1
        BY <1>1, <1>2, <3>1, <3>3, <4>1, <4>2
      <4>3. CASE j # 1
        <5>1. j - 1 \in 1..(i - 1) /\ j \in 1..Len(queue)
          BY <1>3, <4>3
        <5> QED
          BY <1>3, <3>1, <3>3, <4>1, <4>3, <5>1
      <4> QED
        BY <4>2, <4>3
    <3> QED
      BY <3>5, <3>6, <3>7
  <2> QED
    BY <1>1, <2>1 DEF BlocksFirst, Has
<1>10. SameIds'
  <2>1. ASSUME NEW g \in Data, NEW i \in 1..Len(disk'[g])
        PROVE  disk'[g][i].id = memory[g][i].id
    <3>1. Cell(g, i) \in Places /\ Has(disk', Cell(g, i))
      BY <1>2, <1>4 DEF Has
    <3>2. CASE Cell(g, i) = place
      BY <1>2, <1>4, <3>2 DEF On
    <3>3. CASE Cell(g, i) # place
      <4>1. i \in 1..Len(disk[g]) /\ disk'[g][i] = disk[g][i]
        BY <1>2, <1>4, <3>1, <3>3 DEF Has, On
      <4> QED
        BY <1>1, <4>1 DEF SameIds
    <3> QED
      BY <3>2, <3>3
  <2> QED
    BY <1>1, <2>1 DEF SameIds
<1>11. Doing'
  <2>1. ASSUME NEW f \in Data, NEW id \in Nat, NEW at \in Nat, CellLeft(f, id, at)
        PROVE  CellLeft(f, id, at)'
    <3>1. at \in 1..Len(memory[f]) /\ memory[f][at] = Now(id)
      BY <2>1 DEF CellLeft
    <3>2. ASSUME at \in 1..Len(disk'[f])
          PROVE  disk'[f][at] = Now(id)
      <4>1. Cell(f, at) \in Places /\ Has(disk', Cell(f, at))
        BY <1>2, <1>4, <3>2 DEF Has
      <4>2. CASE Cell(f, at) = place
        BY <1>2, <1>4, <3>1, <4>2 DEF On
      <4>3. CASE Cell(f, at) # place
        <5>1. at \in 1..Len(disk[f]) /\ disk'[f][at] = disk[f][at]
          BY <1>2, <1>4, <4>1, <4>3 DEF Has, On
        <5> QED
          BY <2>1, <5>1 DEF CellLeft
      <4> QED
        BY <4>2, <4>3
    <3> QED
      BY <1>1, <2>1, <3>2 DEF CellLeft, Now
  <2>2. ASSUME NEW f \in Data, NEW id \in Nat, BlockAndCell(f, id)
        PROVE  BlockAndCell(f, id)'
    BY <1>1, <2>2 DEF BlockAndCell, Now
  <2>3. ASSUME NEW id \in Nat, CellAndBlock(id) \/ BlockLeft(id)
        PROVE  (CellAndBlock(id) \/ BlockLeft(id))'
    BY <1>1, <2>3 DEF CellAndBlock, BlockLeft, Now
  <2> QED
    BY <1>1, <2>1, <2>2, <2>3 DEF Doing
<1> QED
  BY <1>5, <1>6, <1>7, <1>8, <1>9, <1>10, <1>11

(* Cells on disk lead to their elements, the one that is written too.      *)
LEMMA FlushingLeads ==
  ASSUME Types, Good, NEW place, NEW block, Flushing(place, block)
  PROVE  MemoryLeads' /\ DiskLeads'
<1> USE DEF Good, Ordered
<1>1. UNCHANGED memory /\ mode # "down" /\ place \in Places /\ Has(memory, place)
      /\ queue[1] = place /\ 1 \in 1..Len(queue)
  BY DEF Flushing
<1>2. /\ \A g \in File : Len(disk[g]) \in Nat /\ DOMAIN disk[g] = 1..Len(disk[g])
      /\ \A g \in File : Len(disk'[g]) \in Nat /\ DOMAIN disk'[g] = 1..Len(disk'[g])
      /\ Has(disk', place) /\ On(disk', place) = On(memory, place)
      /\ \A p \in Places : Has(disk, p) => Has(disk', p)
      /\ \A p \in Places : p # place /\ Has(disk', p) =>
            Has(disk, p) /\ On(disk', p) = On(disk, p)
  BY FlushedFiles
<1>3. \A c \in Cells : /\ c \in Places /\ c.file \in Data /\ c.file \in File
                       /\ c.file # "meta" /\ c = Cell(c.file, c.at)
  BY DEF Cells, Places, Data, File, Cell
<1>4. \A c \in Cells : Has(disk, c) => On(disk, c).id = On(memory, c).id
  BY <1>1, <1>2, <1>3 DEF SameIds, Has, On
<1>5. /\ \A k : Cell("meta", k).file = "meta" /\ Cell("meta", k).at = k
      /\ \A k \in Nat \ {0} : Cell("meta", k) \in Places
      /\ "meta" \in File
  BY DEF Cell, Places, File
<1>6. ASSUME NEW k \in 1..Len(disk'["meta"])
      PROVE  LET cell == disk'["meta"][k]
             IN  cell \in Cells /\ Has(disk', cell) /\ On(disk', cell).id = k
  <2>1. /\ k \in Nat \ {0} /\ Has(disk', Cell("meta", k))
        /\ disk'["meta"][k] = On(disk', Cell("meta", k))
    BY <1>2, <1>5 DEF Has, On
  <2>2. PICK cell : cell = disk'["meta"][k]
    OBVIOUS
  <2>3. CASE Cell("meta", k) = place
    <3>1. place.file = "meta" /\ place.at = k /\ cell = memory["meta"][k]
      BY <1>2, <1>5, <2>1, <2>2, <2>3 DEF On
    <3>2. k \in 1..Len(memory["meta"])
      BY <1>1, <3>1, <1>5, FileFacts DEF Types, Typed, FilesTyped, Has
    <3>3. cell \in Cells /\ Has(memory, cell) /\ On(memory, cell).id = k
      BY <3>1, <3>2 DEF MemoryLeads, Leads
    <3>4. Has(disk, cell)
      BY <1>1, <3>1 DEF BlocksFirst
    <3>5. On(disk, cell).id = k
      BY <1>4, <3>3, <3>4
    <3>6. cell # place
      BY <1>3, <3>1, <3>3
    <3>7. Has(disk', cell) /\ On(disk', cell) = On(disk, cell)
      BY <1>2, <1>3, <3>3, <3>4, <3>6
    <3> QED
      BY <2>2, <3>3, <3>5, <3>7
  <2>4. CASE Cell("meta", k) # place
    <3>1. k \in 1..Len(disk["meta"]) /\ cell = disk["meta"][k]
      BY <1>2, <1>5, <2>1, <2>2, <2>4 DEF Has, On
    <3>2. cell \in Cells /\ Has(disk, cell) /\ On(disk, cell).id = k
      BY <3>1 DEF DiskLeads, Leads
    <3>3. On(disk', cell).id = k
      BY <1>2, <1>3, <1>4, <3>2
    <3> QED
      BY <1>2, <1>3, <2>2, <3>2, <3>3
  <2> QED
    BY <2>3, <2>4
<1>7. DiskLeads'
  BY <1>6 DEF DiskLeads, Leads, Has, On
<1>8. MemoryLeads'
  BY <1>1 DEF MemoryLeads, Leads, Has, On
<1> QED
  BY <1>7, <1>8

(* What was kept stays kept.                                               *)
LEMMA FlushingKeeps ==
  ASSUME Types, Good, NEW place, NEW block, Flushing(place, block), UNCHANGED kept
  PROVE  VersionsPast' /\ KeptOnDisk' /\ KeptInMemory' /\ KeptInQueue'
<1> USE DEF Good, Ordered
<1>1. /\ UNCHANGED <<memory, count, kept, mode>> /\ mode # "down"
      /\ place \in Places /\ Has(memory, place)
      /\ queue[1] = place /\ 1 \in 1..Len(queue)
  BY DEF Flushing
<1>2. /\ \A g \in File : Len(disk[g]) \in Nat /\ DOMAIN disk[g] = 1..Len(disk[g])
      /\ \A g \in File : Len(disk'[g]) \in Nat /\ DOMAIN disk'[g] = 1..Len(disk'[g])
      /\ Has(disk', place) /\ On(disk', place) = On(memory, place)
      /\ \A p \in Places : Has(disk, p) => Has(disk', p)
      /\ \A p \in Places : p # place /\ Has(disk', p) =>
            Has(disk, p) /\ On(disk', p) = On(disk, p)
  BY FlushedFiles
<1>3. \A c \in Cells : /\ c \in Places /\ c.file \in Data /\ c.file \in File
                       /\ c.file # "meta" /\ c = Cell(c.file, c.at)
  BY DEF Cells, Places, Data, File, Cell
<1>4. \A c \in Cells : Has(disk, c) => On(disk, c).id = On(memory, c).id
  BY <1>1, <1>2, <1>3 DEF SameIds, Has, On
<1>5. /\ \A g, k : Cell(g, k).file = g /\ Cell(g, k).at = k
      /\ \A g \in File : \A k \in Nat \ {0} : Cell(g, k) \in Places
      /\ "meta" \in File /\ \A g \in Data : g \in File
  BY DEF Cell, Places, File, Data
<1>6. place.file # "meta" /\ On(memory, place).id \in DOMAIN kept
          => kept[On(memory, place).id] <= On(memory, place).version
  BY <1>1 DEF KeptInQueue
<1>7. ASSUME NEW k \in DOMAIN kept, NEW c \in Cells, Has(disk, c), On(disk, c).id = k,
             kept[k] <= On(disk, c).version
      PROVE  Has(disk', c) /\ kept[k] <= On(disk', c).version
  <2>1. CASE c = place
    BY <1>2, <1>3, <1>4, <1>6, <1>7, <2>1
  <2>2. CASE c # place
    BY <1>2, <1>3, <1>7, <2>2
  <2> QED
    BY <2>1, <2>2
<1>8. ASSUME NEW k \in DOMAIN kept
      PROVE  LET cell == memory["meta"][k]
             IN  /\ k \in 1..Len(memory["meta"])
                 /\ kept[k] <= On(memory, cell).version
                 /\ Has(disk', cell) => kept[k] <= On(disk', cell).version
  <2>1. PICK cell : cell = memory["meta"][k]
    OBVIOUS
  <2>2. /\ k \in 1..Len(memory["meta"])
        /\ kept[k] <= On(memory, cell).version
        /\ Has(disk, cell) => kept[k] <= On(disk, cell).version
    BY <1>1, <2>1 DEF KeptInMemory
  <2>3. cell \in Cells /\ Has(memory, cell) /\ On(memory, cell).id = k
    BY <2>1, <2>2 DEF MemoryLeads, Leads
  <2>4. ASSUME Has(disk', cell)
        PROVE  kept[k] <= On(disk', cell).version
    BY <1>2, <1>3, <2>2, <2>3, <2>4
  <2> QED
    BY <2>1, <2>2, <2>4
<1>9. KeptInMemory'
  BY <1>1, <1>8 DEF KeptInMemory, Has, On
<1>10. ASSUME NEW k \in DOMAIN kept
       PROVE  k \in 1..Len(disk'["meta"]) /\ kept[k] <= On(disk', disk'["meta"][k]).version
  <2>1. k \in 1..Len(disk["meta"]) /\ kept[k] <= On(disk, disk["meta"][k]).version
    BY DEF KeptOnDisk
  <2>2. PICK before : before = disk["meta"][k]
    OBVIOUS
  <2>3. PICK cell : cell = disk'["meta"][k]
    OBVIOUS
  <2>4. before \in Cells /\ Has(disk, before) /\ On(disk, before).id = k
    BY <2>1, <2>2 DEF DiskLeads, Leads
  <2>5. /\ k \in Nat \ {0} /\ Has(disk, Cell("meta", k)) /\ On(disk, Cell("meta", k)) = before
        /\ On(disk', Cell("meta", k)) = cell
    BY <1>2, <1>5, <2>1, <2>2, <2>3 DEF Has, On
  <2>6. k \in 1..Len(disk'["meta"])
    BY <1>2, <1>5, <2>5 DEF Has
  <2>7. CASE Cell("meta", k) = place
    <3>1. place.file = "meta" /\ place.at = k /\ cell = memory["meta"][k]
      BY <1>2, <1>5, <2>5, <2>7 DEF On
    <3>2. /\ k \in 1..Len(memory["meta"])
          /\ Has(disk, cell) => kept[k] <= On(disk, cell).version
      BY <1>1, <3>1 DEF KeptInMemory
    <3>3. cell \in Cells
      BY <3>1, <3>2 DEF MemoryLeads, Leads
    <3>4. Has(disk, cell)
      BY <1>1, <3>1 DEF BlocksFirst
    <3>5. cell # place
      BY <1>3, <3>1, <3>3
    <3>6. On(disk', cell) = On(disk, cell)
      BY <1>2, <1>3, <3>3, <3>4, <3>5
    <3> QED
      BY <2>3, <2>6, <3>2, <3>4, <3>6
  <2>8. CASE Cell("meta", k) # place
    <3>1. cell = before
      BY <1>2, <1>5, <2>5, <2>8
    <3>2. kept[k] <= On(disk', cell).version
      BY <1>7, <2>1, <2>2, <2>4, <3>1
    <3> QED
      BY <2>3, <2>6, <3>2
  <2> QED
    BY <2>7, <2>8
<1>11. KeptOnDisk'
  BY <1>1, <1>10 DEF KeptOnDisk, On
<1>12. KeptInQueue'
  <2>1. \A i \in 1..Len(queue') : i + 1 \in 1..Len(queue) /\ queue'[i] = queue[i + 1]
    BY DEF Flushing
  <2> QED
    BY <1>1, <2>1 DEF KeptInQueue, On
<1>13. VersionsPast'
  <2>1. ASSUME NEW g \in Data, NEW i \in 1..Len(disk'[g])
        PROVE  disk'[g][i].version <= count.versions
    <3>1. Cell(g, i) \in Places /\ Has(disk', Cell(g, i))
      BY <1>2, <1>5 DEF Has
    <3>2. CASE Cell(g, i) = place
      <4>1. i \in 1..Len(memory[g]) /\ disk'[g][i] = memory[g][i]
        <5>1. DOMAIN memory[g] = 1..Len(memory[g])
          BY <1>5, FlushedFiles
        <5> QED
          BY <1>1, <1>2, <1>5, <3>2, <5>1 DEF On, Has
      <4> QED
        BY <4>1 DEF VersionsPast
    <3>3. CASE Cell(g, i) # place
      <4>1. i \in 1..Len(disk[g]) /\ disk'[g][i] = disk[g][i]
        BY <1>2, <1>5, <3>1, <3>3 DEF Has, On
      <4> QED
        BY <4>1 DEF VersionsPast
    <3> QED
      BY <3>2, <3>3
  <2> QED
    BY <1>1, <2>1 DEF VersionsPast
<1> QED
  BY <1>9, <1>11, <1>12, <1>13

(* The version of an element whose cell leads to a block.                  *)
LEMMA VersionOf ==
  ASSUME NEW d, IsFiles(d), NEW k \in 1..Len(d["meta"]), Leads(d, k)
  PROVE  HasBlock(d, d["meta"][k]) /\ Versions(d)[k] = On(d, d["meta"][k]).version
<1>1. DOMAIN d["meta"] = 1..Len(d["meta"])
  BY FileFacts
<1>2. PICK cell : cell = d["meta"][k]
  OBVIOUS
<1>3. HasBlock(d, cell)
  BY <1>2, Kinds DEF HasBlock, Leads, Has
<1>4. Versions(d)[k] = IF HasBlock(d, d["meta"][k])
                       THEN d[d["meta"][k].file][d["meta"][k].at].version ELSE 0
  BY <1>1 DEF Versions
<1> QED
  BY <1>2, <1>3, <1>4 DEF On

(* All is on disk: what is kept is what there is.                          *)
LEMMA FlushingAll ==
  ASSUME Types, Good, NEW place, NEW block, Flushing(place, block),
         Len(queue) = 1, kept' = Versions(memory)
  PROVE  VersionsPast' /\ KeptOnDisk' /\ KeptInMemory' /\ KeptInQueue'
<1>1. UNCHANGED <<memory, count, mode>> /\ mode # "down" /\ Len(queue') = 0
  BY DEF Flushing
<1>2. IsFiles(memory)
  BY DEF Types, Typed, FilesTyped
<1>3. /\ \A g \in File : Len(disk'[g]) \in Nat /\ DOMAIN disk'[g] = 1..Len(disk'[g])
      /\ \A g \in File : Len(memory[g]) \in Nat /\ DOMAIN memory[g] = 1..Len(memory[g])
  BY FlushedFiles
<1>4. \A g \in File : /\ Len(disk'[g]) <= Len(memory[g])
                      /\ \A i \in 1..Len(memory[g]) :
                            i \in 1..Len(disk'[g]) /\ disk'[g][i] = memory[g][i]
  <2>1. QueueReaches'
    BY FlushingOrder
  <2> QED
    BY <1>1, <2>1 DEF QueueReaches
<1>5. "meta" \in File /\ \A g \in Data : g \in File
  BY DEF File, Data
<1>6. \A p \in Cells : Has(memory, p) => Has(disk', p) /\ On(disk', p) = On(memory, p)
  <2>1. \A p \in Cells : p.file \in File
    BY <1>5 DEF Cells
  <2> QED
    BY <1>3, <1>4, <2>1 DEF Has, On
<1>7. count.versions \in Nat
  BY DEF Types, Typed, CountsTyped
<1>8. DOMAIN kept' = 1..Len(memory["meta"])
  BY <1>2, VersionsTyped
<1>9. ASSUME NEW k \in DOMAIN kept'
      PROVE  LET cell == memory["meta"][k]
             IN  /\ k \in 1..Len(memory["meta"]) /\ k \in 1..Len(disk'["meta"])
                 /\ disk'["meta"][k] = cell
                 /\ kept'[k] <= On(memory, cell).version
                 /\ kept'[k] <= On(disk', cell).version
                 /\ kept'[k] <= count.versions
  <2>1. PICK cell : cell = memory["meta"][k]
    OBVIOUS
  <2>2. k \in 1..Len(memory["meta"]) /\ k \in 1..Len(disk'["meta"]) /\ disk'["meta"][k] = cell
    BY <1>4, <1>5, <1>8, <2>1
  <2>3. Leads(memory, k)
    BY <2>2 DEF Good, MemoryLeads
  <2>4. kept'[k] = On(memory, cell).version /\ kept'[k] \in Nat
    BY <1>2, <2>1, <2>2, <2>3, VersionOf, VersionsTyped
  <2>5. cell \in Cells /\ Has(memory, cell)
    BY <2>1, <2>3 DEF Leads
  <2>6. On(memory, cell).version <= count.versions
    <3>1. cell.file \in Data /\ cell.at \in 1..Len(memory[cell.file])
      BY <1>3, <1>5, <2>5 DEF Cells, Has
    <3> QED
      BY <3>1 DEF Good, VersionsPast, On
  <2>7. On(disk', cell) = On(memory, cell)
    BY <1>6, <2>5
  <2> QED
    BY <2>1, <2>2, <2>4, <2>6, <2>7
<1>10. KeptOnDisk'
  BY <1>9 DEF KeptOnDisk, On
<1>11. KeptInMemory'
  BY <1>1, <1>9 DEF KeptInMemory, Has, On
<1>12. KeptInQueue'
  BY <1>1 DEF KeptInQueue
<1>13. VersionsPast'
  <2>1. \A g \in Data : \A i \in 1..Len(disk'[g]) :
           i \in 1..Len(memory[g]) /\ disk'[g][i] = memory[g][i]
    BY <1>3, <1>4, <1>5
  <2> QED
    BY <1>1, <1>9, <2>1 DEF VersionsPast, Good
<1> QED
  BY <1>10, <1>11, <1>12, <1>13

(* A flush, whether or not it is the last of the queue.                    *)
LEMMA GoodFlush ==
  ASSUME Types, Good, Flush
  PROVE  Good'
<1>1. PICK place, block : Flushing(place, block)
  BY FlushingFacts
<1>2. /\ Quiet' /\ SettingsTrue' /\ QueueReaches' /\ NoGaps' /\ BlocksFirst'
      /\ SameIds' /\ Doing'
  BY <1>1, FlushingOrder
<1>3. MemoryLeads' /\ DiskLeads'
  BY <1>1, FlushingLeads
<1>4. VersionsPast' /\ KeptOnDisk' /\ KeptInMemory' /\ KeptInQueue'
  <2>1. \/ UNCHANGED kept
        \/ Len(queue) = 1 /\ kept' = Versions(memory)
    BY DEF Flush
  <2> QED
    BY <1>1, <2>1, FlushingKeeps, FlushingAll
<1> QED
  BY <1>2, <1>3, <1>4 DEF Good, Ordered

-----------------------------------------------------------------------------
(* The theorems.                                                           *)

(* The invariant holds at first.                                           *)
LEMMA InitIInv == Init => IInv
BY TypedInit, GoodInit DEF IInv

(* Every step keeps it.                                                    *)
LEMMA StepIInv == IInv /\ [Next]_vars => IInv'
<1> SUFFICES ASSUME IInv, [Next]_vars
             PROVE  IInv'
  OBVIOUS
<1>1. Types /\ Types'
  BY TypedStep DEF IInv
<1> SUFFICES ASSUME ~rough'
             PROVE  Good'
  BY <1>1 DEF IInv
<1>2. ~rough
  BY DEF Next, vars, Start, WriteSettings, CreatePart, Write, Flush, FlushOld, Stop, Crash,
         Add, SetGrown, SetInPlace, UseOld
<1>3. Good
  BY <1>2 DEF IInv
<1>4. CASE Start
  BY <1>1, <1>3, <1>4, GoodStart
<1>5. CASE WriteSettings
  BY <1>1, <1>3, <1>5, GoodWriteSettings
<1>6. CASE CreatePart
  BY <1>1, <1>3, <1>6, GoodCreatePart
<1>7. CASE Write
  BY <1>1, <1>3, <1>7, GoodWrite
<1>8. CASE Flush
  BY <1>1, <1>3, <1>8, GoodFlush
<1>9. CASE FlushOld
  BY <1>3, <1>9 DEF FlushOld, Good, Ordered, Quiet
<1>10. CASE Stop
  BY <1>1, <1>3, <1>10, GoodStop
<1>11. CASE Crash
  BY <1>1, <1>3, <1>11, GoodCrash
<1>12. CASE \/ \E file \in {"node", "data"} : Add(file)
            \/ \E id \in DOMAIN memory["meta"] : SetGrown(id) \/ SetInPlace(id)
  BY <1>1, <1>3, <1>12, GoodBegin
<1>13. CASE UNCHANGED vars
  <2>1. UNCHANGED <<disk, settings, mode, entries, saving, memory, queue, todo, old, kept, count>>
    BY <1>13 DEF vars
  <2>2. Quiet' /\ SettingsTrue' /\ QueueReaches' /\ NoGaps' /\ SameIds'
    BY <1>3, <2>1 DEF Good, Ordered, Quiet, SettingsTrue, Listed, QueueReaches, NoGaps, SameIds
  <2>3. Doing'
    BY <1>3, <2>1
       DEF Good, Ordered, Doing, BlockAndCell, CellLeft, CellAndBlock, BlockLeft, Now
  <2>4. BlocksFirst' /\ MemoryLeads' /\ DiskLeads'
    BY <1>3, <2>1 DEF Good, Ordered, BlocksFirst, MemoryLeads, DiskLeads, Leads, Has, On
  <2>5. VersionsPast' /\ KeptOnDisk' /\ KeptInMemory' /\ KeptInQueue'
    BY <1>3, <2>1 DEF Good, VersionsPast, KeptOnDisk, KeptInMemory, KeptInQueue, Has, On
  <2> QED
    BY <2>2, <2>3, <2>4, <2>5 DEF Good, Ordered
<1>14. CASE \E file \in {"node", "data"} : UseOld(file)
  BY <1>14 DEF UseOld
<1> QED
  BY <1>4, <1>5, <1>6, <1>7, <1>8, <1>9, <1>10, <1>11, <1>12, <1>13, <1>14 DEF Next

(* So it always holds.                                                     *)
LEMMA Invariance == Spec => []IInv
BY InitIInv, StepIInv, PTL DEF Spec

(* At any moment, so whenever the process may be killed, every cell on disk*)
(* leads to a block of its element that is on disk too (Storage.add writes *)
(* the block first, and ActionThread flushes in the order of the writes).  *)
THEOREM CellsAlwaysLead == Spec => []CellsLead
<1>1. IInv => CellsLead
  <2> SUFFICES ASSUME IInv, ~rough, NEW id \in DOMAIN disk["meta"]
               PROVE  LET cell == disk["meta"][id]
                      IN  /\ HasBlock(disk, cell)
                          /\ disk[cell.file][cell.at].id = id
    BY DEF CellsLead
  <2>1. IsFiles(disk)
    BY DEF IInv, Types, Typed, FilesTyped
  <2>2. id \in 1..Len(disk["meta"])
    BY <2>1, FileFacts
  <2>3. Leads(disk, id)
    BY <2>2 DEF IInv, Good, DiskLeads
  <2> QED
    BY <2>1, <2>2, <2>3, VersionOf DEF Leads, On
<1> QED
  BY <1>1, Invariance, PTL

(* No two elements get one place, through all restarts: a store that starts*)
(* again appends behind what the lost cells' blocks left on disk.          *)
THEOREM CellsAlwaysApart == Spec => []CellsApart
<1>1. IInv => CellsApart
  <2> SUFFICES ASSUME IInv, ~rough,
                      NEW id \in DOMAIN memory["meta"], NEW other \in DOMAIN memory["meta"],
                      memory["meta"][id] = memory["meta"][other]
               PROVE  id = other
    BY DEF CellsApart
  <2>1. id \in 1..Len(memory["meta"]) /\ other \in 1..Len(memory["meta"])
    BY FileFacts DEF IInv, Types, Typed, FilesTyped
  <2> QED
    BY <2>1 DEF IInv, Good, MemoryLeads, Leads
<1> QED
  BY <1>1, Invariance, PTL

(* What was on disk when the queue was empty is there ever after, in that  *)
(* version or a later one, whatever is killed or stopped in between.       *)
THEOREM KeptForEver == Spec => []Kept
<1>1. IInv => Kept
  <2> SUFFICES ASSUME IInv, ~rough, NEW id \in DOMAIN kept
               PROVE  id \in DOMAIN disk["meta"] /\ kept[id] <= Versions(disk)[id]
    BY DEF Kept
  <2>1. IsFiles(disk)
    BY DEF IInv, Types, Typed, FilesTyped
  <2>2. id \in 1..Len(disk["meta"]) /\ kept[id] <= On(disk, disk["meta"][id]).version
    BY DEF IInv, Good, KeptOnDisk
  <2>3. Leads(disk, id)
    BY <2>2 DEF IInv, Good, DiskLeads
  <2> QED
    BY <2>1, <2>2, <2>3, VersionOf, FileFacts
<1> QED
  BY <1>1, Invariance, PTL

(* And it is what a running store answers: a start reads the sizes of all  *)
(* the files that the settings list.                                       *)
THEOREM KeptIsFound == Spec => []Found
<1>1. IInv => Found
  <2> SUFFICES ASSUME IInv, ~rough, mode # "down", NEW id \in DOMAIN kept
               PROVE  id \in DOMAIN memory["meta"] /\ kept[id] <= Versions(memory)[id]
    BY DEF Found
  <2>1. IsFiles(memory)
    BY DEF IInv, Types, Typed, FilesTyped
  <2>2. id \in 1..Len(memory["meta"]) /\ kept[id] <= On(memory, memory["meta"][id]).version
    BY DEF IInv, Good, KeptInMemory
  <2>3. Leads(memory, id)
    BY <2>2 DEF IInv, Good, MemoryLeads
  <2> QED
    BY <2>1, <2>2, <2>3, VersionOf, FileFacts
<1> QED
  BY <1>1, Invariance, PTL
=============================================================================
