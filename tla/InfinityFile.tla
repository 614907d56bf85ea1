---------------------------- MODULE InfinityFile ----------------------------
(***************************************************************************)
(* org.simpledb.InfinityFile: a file that never gets longer than a part.    *)
(* It spreads a flat range of positions over part files of partSize bytes   *)
(* (part0, part1, ...), creates a part when a position first falls into it, *)
(* and splits an access that crosses a part boundary in two.                *)
(*                                                                          *)
(* Parts are read and written through the cache of ActionThread, which      *)
(* knows a cell by the part and the offset an access starts at, and nothing *)
(* of how far it reaches: an access that meets a cell cached at another     *)
(* offset does not see it.  The cache is full at any time, and its flusher  *)
(* writes cells in any order; the steps of ActionThread's own two threads   *)
(* are a module of their own, so a cell goes to disk here in one.           *)
(***************************************************************************)
EXTENDS Integers, Sequences

CONSTANTS Byte,      \* the values of a byte; 0 is what a fresh Java array holds
          PartSize,  \* diskManager.partSize
          Data,      \* the byte arrays the clients write
          Starts,    \* the positions the clients write to and read from
          Lengths,   \* the lengths the clients ask for
          Null,      \* Java's null
          MaxSize    \* bound of the model: a file is never grown past it

(* The code splits an access over at most two parts, so a client never asks *)
(* for more than a part at a time: a part is 128 MiB unless the settings    *)
(* say otherwise (DiskManager.java:24), an access one string or data chunk. *)
ASSUME InfinityFileAssumption ==
    /\ PartSize \in Nat \ {0}
    /\ 0 \in Byte
    /\ Data \subseteq Seq(Byte)
    /\ \A data \in Data : Len(data) <= PartSize
    /\ Starts \subseteq Nat
    /\ Lengths \subseteq 0..PartSize
    /\ MaxSize \in Nat
    /\ Null \notin Nat
    /\ Null \notin Seq(Byte)

VARIABLES sumFilesSize,  \* fileData.sumFilesSize
          disk,          \* fileData.files: what part0, part1, ... have on disk
          cache,         \* the cached cells, by part and offset: their bytes,
                         \* and whether these wait to be written
          last,          \* the last call, with what it returned
          rough          \* history: whether an access met cells of the cache in
                         \* a way that it cannot stand, see the two Clashes

vars == <<sumFilesSize, disk, cache, last, rough>>

-----------------------------------------------------------------------------
(* The part a position falls into, and where in that part.                  *)
PartOf(position)   == position \div PartSize
OffsetIn(position) == position % PartSize

(* RandomAccessFile: seek and write, which grows the file, filling a gap    *)
(* with zeros; seek and read into a fresh array.                            *)

WriteAt(part, offset, data) ==
    [k \in 1..(IF offset + Len(data) > Len(part) /\ data # <<>>
               THEN offset + Len(data) ELSE Len(part)) |->
        IF offset < k /\ k <= offset + Len(data) THEN data[k - offset]
        ELSE IF k <= Len(part) THEN part[k] ELSE 0]

ReadAt(part, offset, length) ==
    [k \in 1..length |-> IF offset + k <= Len(part) THEN part[offset + k] ELSE 0]

(* getPartFile: the part after the last one is created on demand.           *)
Opened(parts, index) ==
    IF index = Len(parts) THEN Append(parts, <<>>) ELSE parts

(* An access that ends where a part ends stays in that part.                *)
EndFileIndex(end) ==
    IF end # 0 /\ OffsetIn(end) = 0 THEN PartOf(end) - 1 ELSE PartOf(end)

-----------------------------------------------------------------------------
(* ActionThread.read and write of a cell <<part, offset>>                   *)

Stored(c, cell, data, queued) ==
    [x \in DOMAIN c \cup {cell} |->
        IF x = cell THEN [data |-> data, queued |-> queued] ELSE c[x]]

(* write: the bytes come in the place of those cached of the cell.          *)
Put(c, cell, data) == IF data = <<>> THEN c ELSE Stored(c, cell, data, TRUE)

(* read: as many of the cached bytes as were asked for, and zeros after     *)
(* them; what the disk has for a cell that is not cached.                   *)
Got(c, parts, cell, length) ==
    IF cell \in DOMAIN c THEN ReadAt(c[cell].data, 0, length)
    ELSE ReadAt(parts[cell[1] + 1], cell[2], length)

AfterGet(c, parts, cell, length) ==
    IF cell \in DOMAIN c THEN c
    ELSE Stored(c, cell, Got(c, parts, cell, length), FALSE)

Meets(cell, length, other, otherLength) ==
    /\ cell[1] = other[1]
    /\ cell[2] < other[2] + otherLength
    /\ other[2] < cell[2] + length

(* A write leaves what is cached at other offsets as it is, and drops what  *)
(* waits at its own offset beyond its end.                                  *)
PutClashes(c, cell, data) ==
    /\ data # <<>>
    /\ \/ \E other \in DOMAIN c \ {cell} :
             Meets(cell, Len(data), other, Len(c[other].data))
       \/ cell \in DOMAIN c /\ c[cell].queued /\ Len(data) < Len(c[cell].data)

(* A read finds zeros after the cached bytes of its cell, and does not find *)
(* what waits at other offsets.                                             *)
GetClashes(c, cell, length) ==
    IF cell \in DOMAIN c THEN Len(c[cell].data) < length
    ELSE \E other \in DOMAIN c :
            c[other].queued /\ Meets(cell, length, other, Len(c[other].data))

-----------------------------------------------------------------------------
(* A mutant of InFirstPart: the access is not split at the boundary.        *)
InFirstPartAll(start, length) == length

(* A mutant of InFirstPart: the second part gets a byte too many.           *)
InFirstPartLess(start, length) ==
    IF PartOf(start) = EndFileIndex(start + length) THEN length
    ELSE length - OffsetIn(start + length) - 1

(* How many bytes of an access lie in the part it starts in.                *)
InFirstPart(start, length) ==
    IF PartOf(start) = EndFileIndex(start + length) THEN length
    ELSE length - OffsetIn(start + length)

(* A mutant of SizeAfter: the size shrinks by what was appended.            *)
SizeAfterShrinks(start, data) ==
    IF start = sumFilesSize THEN sumFilesSize - Len(data) ELSE sumFilesSize

(* Only a write that starts exactly at the end makes the file longer.       *)
SizeAfter(start, data) ==
    IF start = sumFilesSize THEN sumFilesSize + Len(data) ELSE sumFilesSize

(* write: both parts are opened before the last index is corrected, so a    *)
(* write up to a boundary creates the next part too.                        *)
write(start, data) ==
    LET size   == InFirstPart(start, Len(data))
        first  == <<PartOf(start), OffsetIn(start)>>
        second == <<PartOf(start + Len(data)), 0>>
        head   == SubSeq(data, 1, size)
        rest   == SubSeq(data, size + 1, Len(data))
    IN  IF start > sumFilesSize THEN UNCHANGED <<sumFilesSize, disk, cache, rough>>
        ELSE /\ disk' = Opened(Opened(disk, first[1]), second[1])
             /\ cache' = Put(Put(cache, first, head), second, rest)
             /\ rough' = (rough \/ PutClashes(cache, first, head)
                                \/ PutClashes(Put(cache, first, head), second, rest))
             /\ sumFilesSize' = SizeAfter(start, data)

-----------------------------------------------------------------------------
(* A call: where, how many bytes, and the bytes written or returned.        *)
Call(op, position, length, bytes) ==
    [op |-> op, position |-> position, length |-> length, bytes |-> bytes]

(* A file opened for the first time: the settings name no parts yet.        *)
Init == /\ sumFilesSize = 0
        /\ disk = <<>>
        /\ cache = [cell \in {} |-> Null]
        /\ last = Call("open", 0, 0, Null)
        /\ rough = FALSE

Write(start, data) ==
    /\ start + Len(data) <= MaxSize
    /\ write(start, data)
    /\ last' = Call("write", start, Len(data), data)

Add(data) ==
    /\ sumFilesSize + Len(data) <= MaxSize
    /\ write(sumFilesSize, data)
    /\ last' = Call("add", sumFilesSize, Len(data), data)

ReadNull(start, length) ==
    /\ start + length > sumFilesSize
    /\ last' = Call("read", start, length, Null)
    /\ UNCHANGED <<sumFilesSize, disk, cache, rough>>

(* read() opens the parts it looks at, which creates one when the file is   *)
(* still empty.                                                             *)
ReadOnePart(start, length) ==
    LET cell  == <<PartOf(start), OffsetIn(start)>>
        parts == Opened(disk, cell[1])
    IN  /\ start + length <= sumFilesSize
        /\ PartOf(start) = EndFileIndex(start + length)
        /\ disk' = parts
        /\ cache' = AfterGet(cache, parts, cell, length)
        /\ rough' = (rough \/ GetClashes(cache, cell, length))
        /\ last' = Call("read", start, length, Got(cache, parts, cell, length))
        /\ UNCHANGED sumFilesSize

ReadTwoParts(start, length) ==
    LET first  == <<PartOf(start), OffsetIn(start)>>
        second == <<EndFileIndex(start + length), 0>>
        size   == InFirstPart(start, length)
        parts  == Opened(Opened(disk, first[1]), second[1])
        then   == AfterGet(cache, parts, first, size)
    IN  /\ start + length <= sumFilesSize
        /\ first[1] # second[1]
        /\ disk' = parts
        /\ cache' = AfterGet(then, parts, second, length - size)
        /\ rough' = (rough \/ GetClashes(cache, first, size)
                           \/ GetClashes(then, second, length - size))
        /\ last' = Call("read", start, length,
                        Got(cache, parts, first, size)
                          \o Got(then, parts, second, length - size))
        /\ UNCHANGED sumFilesSize

-----------------------------------------------------------------------------
(* What ActionThread does of its own with a cell whose bytes wait.          *)

Saved(cell) ==
    [disk EXCEPT ![cell[1] + 1] = WriteAt(@, cell[2], cache[cell].data)]

(* The flusher writes it, or an eviction for a cell of another part, whose  *)
(* map is the one the victim is then removed from: it stays cached.         *)
Flush(cell) ==
    /\ cache[cell].queued
    /\ disk' = Saved(cell)
    /\ cache' = [cache EXCEPT ![cell].queued = FALSE]
    /\ UNCHANGED <<sumFilesSize, last, rough>>

(* A mutant of Evict: the cell is dropped unwritten.                        *)
EvictUnwritten(cell) ==
    /\ cache[cell].queued
    /\ cache' = [x \in DOMAIN cache \ {cell} |-> cache[x]]
    /\ UNCHANGED <<sumFilesSize, disk, last, rough>>

(* An eviction writes it and forgets it.  One of a clean cell leaves the    *)
(* cell in the map, where reads still find it.                              *)
Evict(cell) ==
    /\ cache[cell].queued
    /\ disk' = Saved(cell)
    /\ cache' = [x \in DOMAIN cache \ {cell} |-> cache[x]]
    /\ UNCHANGED <<sumFilesSize, last, rough>>

Next == \/ \E data \in Data : Add(data)
        \/ \E start \in Starts, data \in Data : Write(start, data)
        \/ \E start \in Starts, length \in Lengths :
              \/ ReadNull(start, length)
              \/ ReadOnePart(start, length)
              \/ ReadTwoParts(start, length)
        \/ \E cell \in DOMAIN cache : Flush(cell) \/ Evict(cell)

Spec == Init /\ [][Next]_vars

-----------------------------------------------------------------------------
(* The cells that wait to be written and have the byte of a part at an      *)
(* offset; the byte a reader should find there.                             *)

Waiting(c, part, offset) ==
    {cell \in DOMAIN c : /\ c[cell].queued /\ cell[1] = part
                         /\ cell[2] <= offset /\ offset < cell[2] + Len(c[cell].data)}

OnDisk(parts, part, offset) ==
    IF offset < Len(parts[part + 1]) THEN parts[part + 1][offset + 1] ELSE 0

ByteAt(c, parts, part, offset) ==
    LET cell == CHOOSE cell \in Waiting(c, part, offset) : TRUE
    IN  IF Waiting(c, part, offset) = {} THEN OnDisk(parts, part, offset)
        ELSE c[cell].data[offset - cell[2] + 1]

(* Parts and cells hold bytes, and the size that every access is checked    *)
(* against (65, 96) never becomes negative.                                 *)
TypeOK == /\ sumFilesSize \in Nat
          /\ disk \in Seq(Seq(Byte))
          /\ \A cell \in DOMAIN cache :
                /\ cell \in Nat \X Nat
                /\ cache[cell] \in [data : Seq(Byte), queued : BOOLEAN]
          /\ last \in [op : {"open", "add", "write", "read"}, position : Nat,
                       length : Nat, bytes : Seq(Byte) \cup {Null}]
          /\ rough \in BOOLEAN

(* Every position of the file lies inside a part that exists, so that       *)
(* getPartFile never goes past the parts (44-60); until an access clashes,  *)
(* its byte is on disk or waits to be written; and no part outgrows         *)
(* partSize, on disk or in the cache (99-130).                              *)
PartsCoverFile ==
    /\ \A k \in 0..(sumFilesSize - 1) :
          /\ PartOf(k) < Len(disk)
          /\ \/ rough
             \/ OffsetIn(k) < Len(disk[PartOf(k) + 1])
             \/ Waiting(cache, PartOf(k), OffsetIn(k)) # {}
    /\ \A i \in 1..Len(disk) : Len(disk[i]) <= PartSize
    /\ \A cell \in DOMAIN cache : cell[2] + Len(cache[cell].data) <= PartSize

-----------------------------------------------------------------------------
(* The flat file that parts and cache stand for.                            *)
FlatBytes == [k \in 1..sumFilesSize |->
                ByteAt(cache, disk, PartOf(k - 1), OffsetIn(k - 1))]

Flat == INSTANCE FlatFile WITH flat <- FlatBytes, ended <- rough

(* The parts and their cache implement a flat file until an access clashes  *)
(* with the cache: whatever the part size, wherever an access falls with    *)
(* respect to the part boundaries and to what is cached, and whenever cells *)
(* are flushed and evicted, write, add and read (InfinityFile.java:63-135)  *)
(* answer like one contiguous array.                                        *)
FlatFileUntilRough == Flat!Spec

(* A piece of a cell of an InfinityConstArray: what a part has of it.       *)
IsPiece(cell, length, size) ==
    LET begin == cell[1] * PartSize + cell[2]
        start == begin - (begin % size)
    IN  /\ begin = start \/ cell[2] = 0
        /\ \/ begin + length = start + size
           \/ begin + length = (cell[1] + 1) * PartSize /\ begin + length < start + size

(* While the cache has pieces of cells of one size, reading and writing     *)
(* whole cells, the way of InfinityConstArray (9-26), leaves it so and      *)
(* clashes with none, though cells cross part boundaries and the cache      *)
(* knows only offsets: for them the promise above never ends.               *)
ConstArrayStaysSmooth ==
    [][\A size \in 1..PartSize :
         LET Whole == \A cell \in DOMAIN cache : IsPiece(cell, Len(cache[cell].data), size)
         IN  Whole /\ last'.length = size /\ last'.position % size = 0
             => Whole' /\ rough' = rough]_vars
=============================================================================
