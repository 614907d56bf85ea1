-------------------------- MODULE MC_ActionThread --------------------------
(* Small instances of ActionThread: two files, so that an eviction can take *)
(* an object of another file than the new one.                              *)
EXTENDS ActionThread

MCKeys == {<<1, 0>>, <<1, 1>>, <<2, 0>>}
MCTwoKeys == {<<1, 0>>, <<2, 0>>}
MCSameFile == {<<1, 0>>, <<1, 1>>}

MCTwoValues == {<<1>>, <<2>>}

(* A client reads as many bytes as one or another of its writes.            *)
Client(keys, data, maxCacheSize, maxWrites, maxFailures) ==
    [keys |-> keys, data |-> data, lengths |-> {Len(bytes) : bytes \in data},
     maxCacheSize |-> maxCacheSize, maxWrites |-> maxWrites, maxFailures |-> maxFailures]

MCShortAndLong == {<<1>>, <<2, 3>>}
MCAllBytes == MCTwoValues \cup MCShortAndLong

(* Cells of one byte: a cache for all that is rewritten; one of two cells   *)
(* for three that are written once; and a single cell on a disk that fails  *)
(* now and then.  Cells that are written and read with one byte and with    *)
(* two: a cache for three bytes and two files; and one for two bytes.  And  *)
(* one for a cell that is rewritten and evicted.                            *)
MCSetup ==
    {Client(MCTwoKeys, MCTwoValues, 2, 2, 0),
     Client(MCKeys, {<<1>>}, 2, 1, 0),
     Client(MCTwoKeys, {<<1>>}, 1, 1, 2),
     Client(MCTwoKeys, MCShortAndLong, 3, 1, 0),
     Client(MCSameFile, MCShortAndLong, 2, 1, 0),
     Client(MCSameFile, MCTwoValues, 1, 2, 0)}

MCDrift == {Client(MCSameFile, MCShortAndLong, 2, 1, 0)}

MCStale == {Client(MCSameFile, MCTwoValues, 1, 2, 0)}
=============================================================================
