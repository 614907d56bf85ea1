------------------------------ MODULE FlatFile ------------------------------
(***************************************************************************)
(* What an InfinityFile promises its clients: one flat array of bytes that  *)
(* grows at its end.  Nothing is said of parts, of the part table or of the *)
(* cache.  The promise ends at some moment: which one, says the module that *)
(* makes it.                                                                *)
(*                                                                          *)
(*   add(data)          appends and returns the old size;                   *)
(*   write(start, data) overwrites in place; at the end it appends; a write *)
(*                      that starts inside and runs over the end keeps only *)
(*                      the bytes inside; one that starts past the end is   *)
(*                      dropped;                                            *)
(*   read(start, len)   returns the bytes, or null when the range runs past *)
(*                      the end.                                            *)
(***************************************************************************)
EXTENDS Integers, Sequences

CONSTANTS Byte,     \* the values of a byte
          Data,     \* the byte sequences the clients write
          Starts,   \* the positions the clients write to and read from
          Lengths,  \* the lengths the clients ask for
          Null      \* Java's null, the answer to a read past the end

VARIABLES flat,     \* the bytes of the file
          last,     \* the last call, with what it returned
          ended     \* whether the promise has ended

flatVars == <<flat, last, ended>>

(* A call: where, how many bytes, and the bytes written or returned.        *)
Call(op, position, length, bytes) ==
    [op |-> op, position |-> position, length |-> length, bytes |-> bytes]

(* The flat file after data is written at start.                            *)
Overwritten(start, data) ==
    [k \in 1..Len(flat) |->
        IF start < k /\ k <= start + Len(data) THEN data[k - start] ELSE flat[k]]

Init == /\ flat = <<>>
        /\ last = Call("open", 0, 0, Null)
        /\ ended = FALSE

Add(data) ==
    /\ last' = Call("add", Len(flat), Len(data), data)
    /\ flat' = flat \o data
    /\ UNCHANGED ended

Write(start, data) ==
    /\ last' = Call("write", start, Len(data), data)
    /\ flat' = IF start = Len(flat) THEN flat \o data
               ELSE Overwritten(start, data)
    /\ UNCHANGED ended

Read(start, length) ==
    /\ last' = Call("read", start, length,
                    IF start + length > Len(flat) THEN Null
                    ELSE SubSeq(flat, start + 1, start + length))
    /\ UNCHANGED <<flat, ended>>

(* Once the promise has ended, the file may hold and answer anything.       *)
End == ended' = TRUE

Next == \/ \E data \in Data : Add(data)
        \/ \E start \in Starts, data \in Data : Write(start, data)
        \/ \E start \in Starts, length \in Lengths : Read(start, length)
        \/ End

Spec == Init /\ [][Next]_flatVars
=============================================================================
