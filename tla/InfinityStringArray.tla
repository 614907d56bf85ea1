------------------------ MODULE InfinityStringArray ------------------------
(***************************************************************************)
(* org.simpledb.InfinityStringArray: byte sequences of any length in two    *)
(* files.  The bytes of an element lie in a sector of the data file, whose  *)
(* length is a power of two; the meta file is an InfinityConstArray of      *)
(* cells (start, length).  An element that outgrows its sector moves to a   *)
(* new one at the end of the data file; the old one is not used again,      *)
(* because getFreeSector and removeSector return at once (93, 115).         *)
(*                                                                          *)
(* The two files are InfinityFiles, and are here what FlatFile says of one: *)
(* the data file is a sequence of bytes, the meta file one of cells.  The   *)
(* threads share both (DiskManager.infinityFileCache) without a lock: every *)
(* call on a file is a step, and add() two, reading the size and writing.   *)
(***************************************************************************)
EXTENDS Integers, Sequences, FiniteSets

CONSTANTS Thread,    \* the threads that use the array
          Data,      \* the byte sequences stored
          Strings,   \* those of them that addBytes stores
          Null,      \* Java's null
          MaxSize,   \* bound of the model: bytes of the data file
          MaxCells   \* bound of the model: elements

ASSUME InfinityStringArrayAssumption ==
    /\ Data \subseteq Seq(Nat)
    /\ \A data \in Data : Len(data) <= 2^30
    /\ Strings \subseteq Data \ {<<>>}
    /\ MaxSize \in Nat /\ MaxCells \in Nat
    /\ Null \notin Nat /\ Null \notin Seq(Nat)

VARIABLES file,    \* the data file
          meta,    \* the cells of the meta file
          thread,  \* what every thread is doing: its pc and local variables
          last     \* the last call, with what it returned

vars == <<file, meta, thread, last>>

-----------------------------------------------------------------------------
Cell(start, length) == [start |-> start, length |-> length]

(* The doubling of an int stops at 2^30.                                    *)
getSectorLength(dataLength) ==
    LET powers == {2^k : k \in 0..30}
    IN  CHOOSE s \in powers : /\ s >= dataLength
                              /\ \A t \in powers : t >= dataLength => s <= t

(* System.arraycopy into a fresh array of the sector's length.              *)
Sector(length, data) ==
    [k \in 1..length |-> IF k <= Len(data) THEN data[k] ELSE 0]

(* InfinityFile.write at a position of the file: at its very end it appends,*)
(* before it overwrites, and the bytes past the end are not part of it.     *)
Written(start, sector) ==
    IF start = Len(file) THEN file \o sector
    ELSE [k \in 1..Len(file) |->
            IF start < k /\ k <= start + Len(sector) THEN sector[k - start] ELSE file[k]]

(* The bound of the data file, asked where a call begins.                   *)
Fits(data) == Len(file) + getSectorLength(Len(data)) <= MaxSize

Idle == [pc |-> "idle", index |-> Null, cell |-> Cell(0, 0), sector |-> <<>>, size |-> Null]
At(t, pc)  == thread[t].pc = pc
Go(t, new) == thread' = [thread EXCEPT ![t] = new]

Call(op, i, bytes) == [op |-> op, index |-> i, bytes |-> bytes]

(* The element a thread is storing.                                         *)
Stored(t) == SubSeq(thread[t].sector, 1, thread[t].cell.length)

Init == /\ file = <<>>
        /\ meta = <<>>
        /\ thread = [t \in Thread |-> Idle]
        /\ last = Call("open", Null, Null)

-----------------------------------------------------------------------------
(* Storage.add(Node): a node without links is empty and has a sector too.   *)
AddNode(t, data) ==
    /\ At(t, "idle")
    /\ Len(meta) < MaxCells /\ Fits(data)
    /\ Go(t, [Idle EXCEPT !.pc = "fileSize", !.cell = Cell(0, Len(data)),
                          !.sector = Sector(getSectorLength(Len(data)), data)])
    /\ UNCHANGED <<file, meta, last>>

(* addBytes: an empty element gets no sector, only a cell of zeros.         *)
AddBytes(t, data) ==
    /\ At(t, "idle")
    /\ Len(meta) < MaxCells /\ Fits(data)
    /\ Go(t, IF data = <<>> THEN [Idle EXCEPT !.pc = "metaSize"]
             ELSE [Idle EXCEPT !.pc = "fileSize", !.cell = Cell(0, Len(data)),
                               !.sector = Sector(getSectorLength(Len(data)), data)])
    /\ UNCHANGED <<file, meta, last>>

(* A mutant of SetBytes: an element that grows stays in its sector.         *)
SetBytesInPlace(t, i, data) ==
    LET cell == meta[i + 1]
    IN  /\ At(t, "idle")
        /\ Go(t, [Idle EXCEPT !.pc = "setMeta", !.index = i,
                     !.cell = Cell(cell.start, Len(data)),
                     !.sector = Sector(getSectorLength(Len(data)), data)])
        /\ UNCHANGED <<file, meta, last>>

(* setBytes: the sector an element has is computed from its present length, *)
(* so an element that has shrunk has a smaller one than it was given.       *)
SetBytes(t, i, data) ==
    LET cell == meta[i + 1]
        old  == getSectorLength(cell.length)
        new  == getSectorLength(Len(data))
    IN  /\ At(t, "idle")
        /\ new > old => Fits(data)
        /\ Go(t, [Idle EXCEPT !.pc = IF new > old THEN "fileSize" ELSE "setMeta",
                     !.index = i, !.cell = Cell(cell.start, Len(data)),
                     !.sector = Sector(IF new > old THEN new ELSE old, data)])
        /\ UNCHANGED <<file, meta, last>>

(* InfinityFile.add: the size is read, then written at.                     *)
FileSize(t) ==
    /\ At(t, "fileSize")
    /\ Go(t, [thread[t] EXCEPT !.pc = "fileAdd", !.size = Len(file)])
    /\ UNCHANGED <<file, meta, last>>

(* A mutant of FileAdd: the start is off by one.                            *)
FileAddBefore(t) ==
    LET size == thread[t].size
    IN  /\ At(t, "fileAdd")
        /\ file' = Written(size, thread[t].sector)
        /\ Go(t, [thread[t] EXCEPT !.pc = IF thread[t].index = Null THEN "metaSize" ELSE "setMeta",
                                   !.cell.start = size - 1])
        /\ UNCHANGED <<meta, last>>

FileAdd(t) ==
    LET size == thread[t].size
    IN  /\ At(t, "fileAdd")
        /\ file' = Written(size, thread[t].sector)
        /\ Go(t, [thread[t] EXCEPT !.pc = IF thread[t].index = Null THEN "metaSize" ELSE "setMeta",
                                   !.cell.start = size])
        /\ UNCHANGED <<meta, last>>

(* meta.add, and the index it returns.                                      *)
MetaSize(t) ==
    /\ At(t, "metaSize")
    /\ Go(t, [thread[t] EXCEPT !.pc = "metaAdd", !.size = Len(meta)])
    /\ UNCHANGED <<file, meta, last>>

MetaAdd(t) ==
    LET size == thread[t].size
    IN  /\ At(t, "metaAdd")
        /\ meta' = IF size = Len(meta) THEN Append(meta, thread[t].cell)
                   ELSE [meta EXCEPT ![size + 1] = thread[t].cell]
        /\ Go(t, Idle)
        /\ last' = Call("add", size, Stored(t))
        /\ UNCHANGED file

(* A mutant of SetMeta: the sector an element keeps is not written.         *)
SetMetaOnly(t) ==
    /\ At(t, "setMeta")
    /\ meta' = [meta EXCEPT ![thread[t].index + 1] = thread[t].cell]
    /\ last' = Call("set", thread[t].index, Stored(t))
    /\ Go(t, Idle)
    /\ UNCHANGED file

(* meta.set; an element that keeps its sector is written after its cell,    *)
(* one that was added to the file before it.                                *)
SetMeta(t) ==
    /\ At(t, "setMeta")
    /\ meta' = [meta EXCEPT ![thread[t].index + 1] = thread[t].cell]
    /\ last' = Call("set", thread[t].index, Stored(t))
    /\ Go(t, IF thread[t].size # Null THEN Idle
             ELSE [thread[t] EXCEPT !.pc = "writeSector"])
    /\ UNCHANGED file

WriteSector(t) ==
    /\ At(t, "writeSector")
    /\ file' = Written(thread[t].cell.start, thread[t].sector)
    /\ Go(t, Idle)
    /\ UNCHANGED <<meta, last>>

(* getObject: the cell, then the bytes it names, or null past the end.      *)
GetMeta(t, i) ==
    /\ At(t, "idle")
    /\ Go(t, [Idle EXCEPT !.pc = "read", !.index = i, !.cell = meta[i + 1]])
    /\ UNCHANGED <<file, meta, last>>

Read(t) ==
    LET cell == thread[t].cell
    IN  /\ At(t, "read")
        /\ last' = Call("get", thread[t].index,
                       IF cell.start + cell.length > Len(file) THEN Null
                       ELSE SubSeq(file, cell.start + 1, cell.start + cell.length))
        /\ Go(t, Idle)
        /\ UNCHANGED <<file, meta>>

Next == \E t \in Thread :
            \/ \E data \in Data : AddNode(t, data)
            \/ \E data \in Strings : AddBytes(t, data)
            \/ \E i \in 0..(Len(meta) - 1) :
                  \/ \E data \in Data : SetBytes(t, i, data)
                  \/ GetMeta(t, i)
            \/ FileSize(t) \/ FileAdd(t) \/ MetaSize(t) \/ MetaAdd(t)
            \/ SetMeta(t) \/ WriteSector(t) \/ Read(t)

Spec == Init /\ [][Next]_vars

-----------------------------------------------------------------------------
(* Cells and what the threads carry from one call to the next: a start is   *)
(* never negative, an index is null until an element is meant.              *)
TypeOK ==
    /\ file \in Seq(Nat)
    /\ meta \in Seq([start : Nat, length : Nat])
    /\ \A t \in Thread :
          /\ thread[t].index \in Nat \cup {Null}
          /\ thread[t].cell \in [start : Nat, length : Nat]
          /\ thread[t].sector \in Seq(Nat)
          /\ thread[t].size \in Nat \cup {Null}
    /\ last \in [op : {"open", "add", "set", "get"}, index : Nat \cup {Null},
                 bytes : Seq(Nat) \cup {Null}]

(* The bytes of the file an element may write without asking for more room. *)
SectorOf(cell) == (cell.start + 1)..(cell.start + getSectorLength(cell.length))

(* No element can overwrite another: the sectors of two elements, as        *)
(* setBytes computes them from the cells (56-58), do not overlap, and each  *)
(* lies inside the data file.                                               *)
SectorsApart ==
    /\ \A i \in 1..Len(meta) : SectorOf(meta[i]) \subseteq 1..Len(file)
    /\ \A i, j \in 1..Len(meta) :
          i # j => SectorOf(meta[i]) \cap SectorOf(meta[j]) = {}

(* The array the two files stand for.  Between SetMeta and WriteSector an   *)
(* element is what its thread is about to write.                            *)
Elements ==
    [i \in 1..Len(meta) |->
        LET writers == {t \in Thread : At(t, "writeSector") /\ thread[t].index = i - 1}
        IN  IF writers # {}
            THEN SubSeq(thread[CHOOSE t \in writers : TRUE].sector, 1, meta[i].length)
            ELSE SubSeq(file, meta[i].start + 1, meta[i].start + meta[i].length)]

Cells == INSTANCE CellArray WITH array <- Elements

(* The two files implement an array: whatever the lengths of the elements   *)
(* that are added, replaced and grown, a get returns what was last set at   *)
(* that index (37-80, 127-135).                                             *)
CellArraySpec == Cells!Spec
=============================================================================
