-------------------------- MODULE MC_InfinityFile --------------------------
(* A small instance of InfinityFile: parts of three bytes, accesses of up   *)
(* to two, a file of up to four, so that an access can lie inside a part,   *)
(* end at the boundary or cross it, begin in the first part or in a later   *)
(* one.  Cells of two bytes are among them, the second of which crosses.    *)
EXTENDS InfinityFile, FiniteSets

MCData == {<<>>, <<1>>, <<2, 1>>}
MCStarts == 0..3
MCLengths == 0..2

(* The promise has ended after an access that clashes: what comes then is   *)
(* not looked at, nor what comes after a fourth cached cell.                *)
MCMaxCells == 3
Smooth == ~rough /\ Cardinality(DOMAIN cache) <= MCMaxCells
=============================================================================
