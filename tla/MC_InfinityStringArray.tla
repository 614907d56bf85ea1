---------------------- MODULE MC_InfinityStringArray ----------------------
(* Small instances of InfinityStringArray: elements of no, one, two and     *)
(* three bytes, whose sectors have one, two and four.                       *)
EXTENDS InfinityStringArray

MCData == {<<>>, <<1>>, <<2, 2>>, <<1, 2, 1>>}
MCStrings == {<<1>>, <<1, 2, 1>>}
=============================================================================
