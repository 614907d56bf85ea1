---------------------------- MODULE KeyValueMap ----------------------------
(* What an InfinityHashMap promises: a map from keys to values.  The promise*)
(* ends at some moment: which one, says the module that makes it.           *)

CONSTANTS Key, Value,
          Absent  \* Long.MAX_VALUE, the answer for a key that was never put

VARIABLES map,   \* the value of every key
          last,  \* the last call: the key, the value put or returned
          ended  \* whether the promise has ended

mapVars == <<map, last, ended>>

Call(op, key, value) == [op |-> op, key |-> key, value |-> value]

Init == /\ map = [key \in Key |-> Absent]
        /\ last = Call("open", Absent, Absent)
        /\ ended = FALSE

Put(key, value) ==
    /\ last' = Call("put", key, value)
    /\ map' = [map EXCEPT ![key] = value]
    /\ UNCHANGED ended

Get(key) == last' = Call("get", key, map[key]) /\ UNCHANGED <<map, ended>>

(* Once the promise has ended, the map may hold and answer anything.        *)
End == ended' = TRUE

Next == \/ \E key \in Key : Get(key) \/ \E value \in Value : Put(key, value)
        \/ End

Spec == Init /\ [][Next]_mapVars
=============================================================================
