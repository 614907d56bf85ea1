----------------------------- MODULE MC_Branch -----------------------------
(* Small instances of Branch: two files in one directory, one in another.   *)
EXTENDS Branch

F == <<"d", "f">>
G == <<"d", "g">>

MCPath == {F, G}

(* The files of master are made one after the other.                        *)
MCStored ==
    LET Filed(t, path) ==
            LET at == getNode(t, 2, path)
            IN  [at.tree EXCEPT ![at.node].value = Former(path)]
        Empty == AddLocal(AddLocal((0 :> Node(Null, Null, Null)), 0, "Branch", Null),
                          0, "master", Null)
    IN  FoldLeft(Filed, Empty, SetToSeq(Path))

Uploads(a, b, writes, aborts, starts) ==
    [uploads |-> [s \in Session |-> IF s = "a" THEN a ELSE b],
     writes |-> writes, aborts |-> aborts, starts |-> starts]

(* Two sessions at once; one that uploads twice; one whose upload fails.    *)
MCPlan == {Uploads(<<F>>, <<G>>, 0, 0, 0), Uploads(<<F>>, <<F>>, 0, 0, 0), Uploads(<<F, G, F>>, <<>>, 0, 0, 0), Uploads(<<F, G>>, <<>>, 1, 1, 1)}
=============================================================================
