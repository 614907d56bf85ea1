------------------------ MODULE MC_InfinityHashMap ------------------------
(* Small instances of InfinityHashMap.                                      *)
EXTENDS InfinityHashMap

(* Hashes that share no, one, two and three digits, and two keys with the   *)
(* same hash; one key is not what it is read back as.                       *)
MCKeys == {"a", "b", "c", "d", "e", "f"}
MCHashOf == [key \in MCKeys |->
    CASE key = "a" -> <<2, 0, 1, 0>>
      [] key = "b" -> <<2, 0, 2, 1>>
      [] key = "c" -> <<2, 1, 0, 0>>
      [] key = "e" -> <<2, 0, 1, 1>>
      [] key = "f" -> <<1, 0, 0, 0>>
      [] OTHER     -> <<2, 0, 1, 0>>]
MCReadBack == [key \in MCKeys |-> IF key = "f" THEN "?" ELSE key]

(* Nothing is promised of what a rough put leaves.                          *)
Smooth == ~rough

(* Hashes that differ in the last digit only as well.                       *)
MCCloseKeys == {"a", "b", "c"}
MCCloseHashOf == [key \in MCCloseKeys |->
    CASE key = "a" -> <<2, 0, 1, 0>>
      [] key = "b" -> <<2, 0, 1, 1>>
      [] OTHER     -> <<2, 0, 2, 0>>]
MCCloseReadBack == [key \in MCCloseKeys |-> key]
=============================================================================
