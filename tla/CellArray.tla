----------------------------- MODULE CellArray -----------------------------
(***************************************************************************)
(* What an InfinityStringArray promises: an array of byte sequences of any  *)
(* length that grows at its end.  Nothing is said of sectors, of the meta   *)
(* file or of the order in which the two files are written.                 *)
(***************************************************************************)
EXTENDS Integers, Sequences

CONSTANTS Data,  \* the byte sequences stored
          Null   \* Java's null

VARIABLES array,  \* the elements
          last    \* the last call: the index, the bytes stored or returned

arrayVars == <<array, last>>

Call(op, i, bytes) == [op |-> op, index |-> i, bytes |-> bytes]

Init == array = <<>> /\ last = Call("open", Null, Null)

Add(data) == last' = Call("add", Len(array), data) /\ array' = Append(array, data)

Set(i, data) == last' = Call("set", i, data) /\ array' = [array EXCEPT ![i + 1] = data]

Get(i) == last' = Call("get", i, array[i + 1]) /\ UNCHANGED array

Next == \/ \E data \in Data : Add(data)
        \/ \E i \in 0..(Len(array) - 1) :
              \/ \E data \in Data : Set(i, data)
              \/ Get(i)

Spec == Init /\ [][Next]_arrayVars
=============================================================================
