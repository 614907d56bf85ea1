------------------------------ MODULE Restart -------------------------------
(***************************************************************************)
(* A store across crashes, stops and restarts: Storage with the arrays of   *)
(* its nodes (node and their cells, meta) and of its data, the DiskManager  *)
(* they share, its settings in an IniFile, and the part files on disk.      *)
(*                                                                          *)
(* An element is a block; its cell in meta says in which file and where it  *)
(* is.  Writes go to memory and into one queue, which the flusher of the    *)
(* ActionThread brings to disk in order; a place that is written again      *)
(* while queued goes to the tail.  Nothing is evicted, and one thread uses  *)
(* the store: ActionThread and InfinityStringArray model those.  Blocks are *)
(* written to disk whole.  There is one part of every file.                 *)
(***************************************************************************)
EXTENDS Integers, Sequences, SequencesExt

CONSTANTS MaxWrites,   \* bounds: the elements added and set,
          MaxCrashes,  \* the crashes,
          MaxStops     \* and the orderly stops

ASSUME RestartAssumption == {MaxWrites, MaxCrashes, MaxStops} \subseteq Nat

VARIABLES disk,      \* the part files
          settings,  \* the files the settings file lists a part of
          mode,      \* whether there is a disk manager: up, stopping or down
          entries,   \* IniFile.entries: the files that have a part
          saving,    \* whether the settings file is deleted and not written yet
          memory,    \* what the files hold for their readers
          queue,     \* writeSequences: places
          todo,      \* the writes the running operation has still to do
          old,       \* what the flushers of removed managers have to write
          former,    \* what the store removed last takes its files to hold
          kept,      \* the version each element had when all was on disk
          count,     \* versions, crashes and stops so far
          rough      \* whether something happened that the order of writes
                     \* does not protect from: see below

vars == <<disk, settings, mode, entries, saving, memory, queue, todo, old, former,
          kept, count, rough>>

File == {"node", "data", "meta"}
Zeros == [id |-> 0, version |-> 0]   \* a block that was skipped

Block(id, version) == [id |-> id, version |-> version]
Cell(file, at)     == [file |-> file, at |-> at]
IsCell(block)      == "file" \in DOMAIN block

Init ==
    /\ disk = [f \in File |-> <<>>]
    /\ settings = {}
    /\ mode = "down"
    /\ entries = {}
    /\ saving = FALSE
    /\ memory = [f \in File |-> <<>>]
    /\ queue = <<>>
    /\ todo = <<>>
    /\ old = <<>>
    /\ former = [f \in File |-> <<>>]
    /\ kept = <<>>
    /\ count = [versions |-> 0, crashes |-> 0, stops |-> 0]
    /\ rough = FALSE

-----------------------------------------------------------------------------
(* A file with a block put at a place, zeros before it if it was shorter.   *)
Stored(file, at, block) ==
    [i \in 1..(IF at > Len(file) THEN at ELSE Len(file)) |->
        IF i = at THEN block ELSE IF i <= Len(file) THEN file[i] ELSE Zeros]

(* save deletes the settings file and writes it anew.                       *)
DeleteSettings == saving' = TRUE /\ settings' = {}

(* A mutant of Start: the lengths of the part files are not added up.       *)
StartEmpty ==
    /\ mode = "down"
    /\ mode' = "up"
    /\ entries' = settings
    /\ memory' = [f \in File |-> <<>>]
    /\ DeleteSettings
    /\ UNCHANGED <<disk, queue, todo, old, former, kept, count, rough>>

(* A new DiskManager loads the settings and saves them; an InfinityFile     *)
(* opens the parts that are listed and takes its size from their lengths.   *)
Start ==
    /\ mode = "down"
    /\ mode' = "up"
    /\ entries' = settings
    /\ memory' = [f \in File |-> IF f \in settings THEN disk[f] ELSE <<>>]
    /\ DeleteSettings
    /\ UNCHANGED <<disk, queue, todo, old, former, kept, count, rough>>

(* The second half of save; after stop the manager is gone, its flusher is  *)
(* interrupted and goes on, and so does the queue.                          *)
WriteSettings ==
    /\ saving
    /\ saving' = FALSE
    /\ settings' = entries
    /\ IF mode = "up" THEN UNCHANGED <<mode, queue, old, former>>
       ELSE /\ mode' = "down"
            /\ queue' = <<>>
            /\ old' = old \o [i \in DOMAIN queue |->
                          [place |-> queue[i], block |-> memory[queue[i].file][queue[i].at]]]
            /\ former' = memory
    /\ UNCHANGED <<disk, entries, memory, todo, kept, count, rough>>

-----------------------------------------------------------------------------
Ready == mode = "up" /\ ~saving /\ todo = <<>> /\ count.versions < MaxWrites
Version == count.versions + 1
Counts == count' = [count EXCEPT !.versions = @ + 1]

WriteOf(file, at, block) == [place |-> Cell(file, at), block |-> block]

(* A mutant of Added: the cell first.                                       *)
AddedCellFirst(files, file) ==
    LET at == Len(files[file]) + 1
        id == Len(files["meta"]) + 1
    IN  << WriteOf("meta", id, Cell(file, at)), WriteOf(file, at, Block(id, Version)) >>

(* A mutant of Added: the end of the part file is taken for the size.       *)
AddedAtPartEnd(files, file) ==
    LET at == Len(disk[file]) + 1
        id == Len(files["meta"]) + 1
    IN  << WriteOf(file, at, Block(id, Version)), WriteOf("meta", id, Cell(file, at)) >>

(* Storage.add(Node) and add(Data): the bytes to the end of their file, as  *)
(* the store knows it, and a cell to the end of meta; its index is the id.  *)
Added(files, file) ==
    LET at == Len(files[file]) + 1
        id == Len(files["meta"]) + 1
    IN  << WriteOf(file, at, Block(id, Version)), WriteOf("meta", id, Cell(file, at)) >>

Add(file) ==
    /\ Ready
    /\ todo' = Added(memory, file)
    /\ Counts
    /\ UNCHANGED <<disk, settings, mode, entries, saving, memory, queue, old, former, kept, rough>>

(* setBytes of a node that has outgrown its sector: a new one, then the     *)
(* cell.                                                                    *)
SetGrown(id) ==
    /\ Ready
    /\ IsCell(memory["meta"][id]) /\ memory["meta"][id].file = "node"
    /\ LET at == Len(memory["node"]) + 1
       IN  todo' = << WriteOf("node", at, Block(id, Version)),
                      WriteOf("meta", id, Cell("node", at)) >>
    /\ Counts
    /\ UNCHANGED <<disk, settings, mode, entries, saving, memory, queue, old, former, kept, rough>>

(* setBytes of one that has not: the cell, with its new length, and then    *)
(* the sector.                                                              *)
SetInPlace(id) ==
    /\ Ready
    /\ IsCell(memory["meta"][id]) /\ memory["meta"][id].file = "node"
    /\ LET cell == memory["meta"][id]
       IN  todo' = << WriteOf("meta", id, cell), WriteOf("node", cell.at, Block(id, Version)) >>
    /\ Counts
    /\ UNCHANGED <<disk, settings, mode, entries, saving, memory, queue, old, former, kept, rough>>

(* getPartFile lists the first part of a file before it is made.            *)
CreatePart ==
    /\ mode = "up" /\ ~saving /\ todo # <<>> /\ Head(todo).place.file \notin entries
    /\ entries' = entries \union {Head(todo).place.file}
    /\ DeleteSettings
    /\ UNCHANGED <<disk, mode, memory, queue, todo, old, former, kept, count, rough>>

(* One write: to memory, and to the tail of the queue.                      *)
Write ==
    /\ mode = "up" /\ ~saving /\ todo # <<>> /\ Head(todo).place.file \in entries
    /\ LET place == Head(todo).place
       IN  /\ memory' = [memory EXCEPT ![place.file] = Stored(@, place.at, Head(todo).block)]
           /\ queue' = Append(RemoveFirst(queue, place), place)
           /\ rough' = (rough \/ Contains(queue, place))
    /\ todo' = Tail(todo)
    /\ UNCHANGED <<disk, settings, mode, entries, saving, old, former, kept, count>>

-----------------------------------------------------------------------------
(* The version the files hold of every element, 0 where the cell or its     *)
(* block is missing.                                                        *)
HasBlock(file, cell) == IsCell(cell) /\ cell.at \in DOMAIN file[cell.file]

Versions(file) ==
    [id \in DOMAIN file["meta"] |->
        LET cell == file["meta"][id]
        IN  IF HasBlock(file, cell) THEN file[cell.file][cell.at].version ELSE 0]

(* A mutant of Flush: the write queued last.                                *)
FlushLast ==
    /\ mode # "down" /\ queue # <<>>
    /\ LET place == queue[Len(queue)]
       IN  disk' = [disk EXCEPT ![place.file] =
                       Stored(@, place.at, memory[place.file][place.at])]
    /\ queue' = SubSeq(queue, 1, Len(queue) - 1)
    /\ kept' = IF Len(queue) = 1 /\ todo = <<>> /\ ~rough THEN Versions(memory) ELSE kept
    /\ UNCHANGED <<settings, mode, entries, saving, memory, todo, old, former, count, rough>>

(* The flusher writes the head of the queue.                                *)
Flush ==
    /\ mode # "down" /\ queue # <<>>
    /\ LET place == Head(queue)
       IN  disk' = [disk EXCEPT ![place.file] =
                       Stored(@, place.at, memory[place.file][place.at])]
    /\ queue' = Tail(queue)
    /\ kept' = IF Len(queue) = 1 /\ todo = <<>> /\ ~rough THEN Versions(memory) ELSE kept
    /\ UNCHANGED <<settings, mode, entries, saving, memory, todo, old, former, count, rough>>

(* The flusher of a removed manager goes on with its queue.  Storage.close  *)
(* has closed the file of the data: a write to it fails, and is tried for   *)
(* ever.                                                                    *)
FlushOld ==
    /\ old # <<>> /\ Head(old).place.file # "data"
    /\ LET place == Head(old).place
       IN  disk' = [disk EXCEPT ![place.file] = Stored(@, place.at, Head(old).block)]
    /\ old' = Tail(old)
    /\ UNCHANGED <<settings, mode, entries, saving, memory, queue, todo, former, kept, count, rough>>

(* A removed store is used on: wait returns into the loop of Instance.run,  *)
(* which runs func once more, and the servers, whose ports stay open, have  *)
(* threads that keep it.  What it gives out a store started since may have  *)
(* given out too.  Bounds: only the store removed last, which has the parts *)
(* it needs, and only elements are added.                                   *)
UseOld(file) ==
    /\ former[file] # <<>> /\ former["meta"] # <<>> /\ count.versions < MaxWrites
    /\ LET writes == Added(former, file)
       IN  /\ former' = [former EXCEPT ![file] = Append(@, writes[1].block),
                                       !["meta"] = Append(@, writes[2].block)]
           /\ old' = old \o writes
    /\ Counts
    /\ rough' = TRUE
    /\ UNCHANGED <<disk, settings, mode, entries, saving, memory, queue, todo, kept>>

(* A mutant of Stop: the settings are not saved.                            *)
StopUnsaved ==
    /\ mode = "up" /\ ~saving /\ todo = <<>> /\ count.stops < MaxStops
    /\ mode' = "stopping"
    /\ count' = [count EXCEPT !.stops = @ + 1]
    /\ rough' = (rough \/ queue # <<>>)
    /\ UNCHANGED <<disk, settings, saving, entries, memory, queue, todo, old, former, kept>>

(* Instance.wait, interrupted: close, which leaves node and meta open, and  *)
(* removeInstance, which saves.                                             *)
Stop ==
    /\ mode = "up" /\ ~saving /\ todo = <<>> /\ count.stops < MaxStops
    /\ mode' = "stopping"
    /\ DeleteSettings
    /\ count' = [count EXCEPT !.stops = @ + 1]
    /\ rough' = (rough \/ queue # <<>>)
    /\ UNCHANGED <<disk, entries, memory, queue, todo, old, former, kept>>

(* The process is killed: what is not on disk is lost.                      *)
Crash ==
    /\ count.crashes < MaxCrashes /\ (mode # "down" \/ old # <<>> \/ former["meta"] # <<>>)
    /\ mode' = "down"
    /\ entries' = {} /\ saving' = FALSE
    /\ memory' = [f \in File |-> <<>>] /\ former' = [f \in File |-> <<>>]
    /\ queue' = <<>> /\ todo' = <<>> /\ old' = <<>>
    /\ count' = [count EXCEPT !.crashes = @ + 1]
    /\ rough' = (rough \/ (saving /\ entries # {}))
    /\ UNCHANGED <<disk, settings, kept>>

Next ==
    \/ Start \/ WriteSettings \/ CreatePart \/ Write \/ Flush \/ FlushOld \/ Stop \/ Crash
    \/ \E file \in {"node", "data"} : Add(file) \/ UseOld(file)
    \/ \E id \in DOMAIN memory["meta"] : SetGrown(id) \/ SetInPlace(id)

Spec == Init /\ [][Next]_vars

-----------------------------------------------------------------------------
(* Four things can harm a store for good: a place that is written again     *)
(* while it is queued, which lets writes made later reach the disk first; a *)
(* crash while the settings file is deleted; a stop that does not wait for  *)
(* the queue; and a stopped store that is used on.  The properties are      *)
(* about stores that have met none of them.                                 *)
TypeOK ==
    /\ mode \in {"up", "stopping", "down"}
    /\ settings \subseteq entries \/ mode = "down"
    /\ mode = "stopping" => saving
    /\ \A i \in DOMAIN queue : queue[i].at \in DOMAIN memory[queue[i].file]
    /\ mode = "down" => todo = <<>> /\ queue = <<>>

(* At no moment does the disk hold a cell whose element is not there: a     *)
(* crash leaves no cell for space that is given out again (Storage.add and  *)
(* setBytes write the sector first, or one that was there before).          *)
CellsLead ==
    ~rough => \A id \in DOMAIN disk["meta"] :
                 LET cell == disk["meta"][id]
                 IN  /\ HasBlock(disk, cell)
                     /\ disk[cell.file][cell.at].id = id

(* Elements never share a place, before and after restarts: the size that   *)
(* is taken from the length of the part files covers every place a cell has.*)
CellsApart ==
    ~rough => \A id, other \in DOMAIN memory["meta"] :
                 memory["meta"][id] = memory["meta"][other] => id = other

(* What was on disk when the queue was empty is there from then on, in that *)
(* version or a later one, through crashes, stops and starts.               *)
Kept ==
    ~rough => \A id \in DOMAIN kept :
                 /\ id \in DOMAIN disk["meta"]
                 /\ kept[id] <= Versions(disk)[id]

(* And the store that runs finds it.                                        *)
Found ==
    ~rough /\ mode # "down" =>
        \A id \in DOMAIN kept :
           id \in DOMAIN memory["meta"] /\ kept[id] <= Versions(memory)[id]
=============================================================================
