----------------------------- MODULE CellMemory -----------------------------
(***************************************************************************)
(* What the write-behind cache of a DiskManager promises the one thread     *)
(* that uses it: a memory of cells.  A read answers with the bytes written  *)
(* last; nothing is said of the cache, of the write queue or of the thread  *)
(* that empties it.  The promise ends at some moment: which one, says the   *)
(* module that makes it.                                                    *)
(***************************************************************************)
EXTENDS Integers, Sequences

CONSTANTS Key,      \* the cells: a file and an offset in it
          Data,     \* the byte arrays written
          Lengths,  \* the lengths read
          CellSize, \* the bytes of a cell
          Null      \* Java's null

VARIABLES memory,   \* the bytes of every cell
          last,     \* the last call: the cell, the bytes written or returned
          failed    \* whether the promise has ended

memoryVars == <<memory, last, failed>>

(* The cell once data is written at its start, and its first bytes.         *)
Overlay(cell, data) ==
    [i \in 1..CellSize |-> IF i <= Len(data) THEN data[i] ELSE cell[i]]

Call(op, key, bytes) == [op |-> op, key |-> key, bytes |-> bytes]

Init == /\ memory = [key \in Key |-> [i \in 1..CellSize |-> 0]]
        /\ last = Call("open", Null, Null)
        /\ failed = FALSE

Write(key, data) ==
    /\ memory' = [memory EXCEPT ![key] = Overlay(@, data)]
    /\ last' = Call("write", key, data)
    /\ UNCHANGED failed

Read(key, length) ==
    /\ last' = Call("read", key, SubSeq(memory[key], 1, length))
    /\ UNCHANGED <<memory, failed>>

(* Once the promise has ended, any cell may hold and answer anything.       *)
Fail == failed' = TRUE

Next == \/ \E key \in Key :
              \/ \E data \in Data : Write(key, data)
              \/ \E length \in Lengths : Read(key, length)
        \/ Fail

Spec == Init /\ [][Next]_memoryVars
=============================================================================
