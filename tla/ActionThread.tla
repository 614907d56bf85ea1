---------------------------- MODULE ActionThread ----------------------------
(***************************************************************************)
(* org.simpledb.ActionThread and CacheData: the write-behind cache between  *)
(* the files of a DiskManager and the disk.                                 *)
(*                                                                          *)
(* Two threads run here.  The client reads and writes cells; a write goes   *)
(* to the cache and to the tail of writeSequences, and a full cache is      *)
(* evicted by the client itself.  The flusher (run) takes the head of       *)
(* writeSequences, writes it to disk, marks it clean and dequeues it, and   *)
(* waits on syncActionLoop when there is nothing to do.                     *)
(*                                                                          *)
(* A step ends wherever the other thread can see or change what comes next: *)
(* only cachedFile, cachePriority and cacheSize are the client's own.       *)
(* doAction is synchronized, so a disk access is one step.  A CacheData     *)
(* object has an identity of its own, because the code removes objects, not *)
(* values, from the map and the queue: Entry stands for the references.     *)
(***************************************************************************)
EXTENDS Integers, Sequences, FiniteSets, FiniteSetsExt

CONSTANTS Key,          \* the cells used: pairs of a RandomAccessFile and an offset
          Data,         \* the byte arrays written
          Lengths,      \* the lengths read
          CellSize,     \* the bytes of a cell; cells do not overlap
          Entry,        \* references to CacheData objects, numbers
          Null,         \* Java's null
          Setup         \* the caches and the clients they have, see setup

ASSUME ActionThreadAssumption ==
    /\ CellSize \in Nat
    /\ Data \subseteq Seq(Nat) \ {<<>>}
    /\ Lengths \subseteq 1..CellSize
    /\ \A data \in Data : Len(data) <= CellSize
    /\ Entry \subseteq Nat /\ Entry # {}
    /\ Null \notin Nat
    /\ Setup \subseteq [keys : SUBSET Key, data : SUBSET Data, lengths : SUBSET Lengths,
                       maxCacheSize : Nat, maxWrites : Nat, maxFailures : Nat]

VARIABLES disk,            \* the bytes of every cell on disk
          cache,           \* cache: the CacheData of a cell, or null
          entries,         \* the fields of every CacheData
          writeSequences,  \* the queue of objects to write
          cachePriority,   \* the objects that can be evicted
          cacheSize,
          threadsWaiting,
          client,          \* the client thread: its pc and local variables
          flusher,         \* the flusher thread: its pc and local variables
          last,            \* the last call, with what it returned
          drift,           \* history: by how many bytes the objects that can be
                           \* evicted grew since they were inserted
          rough,           \* history: whether something came that the cache
                           \* cannot stand, see RoughIf
          writes,          \* bound: how often each cell was written
          failures,        \* bound: how many disk accesses failed
          setup            \* chosen at first: maxCacheSize, the cells, bytes and
                           \* lengths the client uses, and the bounds of the model:
                           \* writes to one cell, disk accesses that fail

vars == <<disk, cache, entries, writeSequences, cachePriority, cacheSize,
          threadsWaiting, client, flusher, last, drift, rough, writes, failures, setup>>

clientOwn == <<cache, cachePriority, cacheSize>>
calls     == <<last, writes>>
medium    == <<disk, failures, setup>>
waiting   == <<threadsWaiting, flusher>>
history   == <<drift, rough>>

-----------------------------------------------------------------------------
Overlay(cell, data) ==
    [i \in 1..CellSize |-> IF i <= Len(data) THEN data[i] ELSE cell[i]]

(* System.arraycopy of min(cached, length) bytes into a fresh array.        *)
Copied(data, length) ==
    [i \in 1..length |-> IF i <= Len(data) THEN data[i] ELSE 0]

Call(op, key, bytes) == [op |-> op, key |-> key, bytes |-> bytes]

CacheData(isUpdated, key, data) ==
    [isUpdated |-> isUpdated, key |-> key, data |-> data]

SameFile(key1, key2) == key1[1] = key2[1]

(* LinkedList.remove: the first occurrence is taken out.                    *)
Without(queue, e) ==
    LET Is(i)  == queue[i] = e
        place  == CHOOSE i \in 1..Len(queue) : Is(i) /\ \A j \in 1..(i - 1) : ~Is(j)
    IN  IF \E i \in 1..Len(queue) : Is(i)
        THEN [i \in 1..(Len(queue) - 1) |-> queue[IF i < place THEN i ELSE i + 1]]
        ELSE queue

Queued(e) == \E i \in 1..Len(writeSequences) : writeSequences[i] = e

(* An object nothing refers to, which new CacheData() may return.           *)
Unreferenced ==
    {e \in Entry : /\ \A key \in Key : cache[key] # e
                   /\ e \notin cachePriority
                   /\ ~Queued(e)
                   /\ flusher.entry # e}

Fresh == CHOOSE e \in Unreferenced : TRUE

Idle   == [pc |-> "idle", key |-> Null, entry |-> Null, victim |-> Null,
           reading |-> FALSE]
At(pc) == client.pc = pc
Go(pc) == client' = [client EXCEPT !.pc = pc]

(* syncActionLoop.notify(): wakes the flusher if it waits, else is lost.    *)
Woken == IF flusher.pc = "waiting" THEN [flusher EXCEPT !.pc = "check"] ELSE flusher

(* What the cache cannot stand: a disk access that fails; a read of more    *)
(* bytes of a cell than are cached, which answers zeros for the rest; a     *)
(* write of fewer, which forgets the rest; and an eviction that writes a    *)
(* cell of which the flusher holds other bytes, to write them after that.   *)
RoughIf(condition) == rough' = (rough \/ condition)

(* A disk access may fail with an IOException.                              *)
Fails ==
    /\ failures < setup.maxFailures
    /\ failures' = failures + 1
    /\ RoughIf(TRUE)
    /\ UNCHANGED <<disk, setup, drift>>

Init ==
    /\ disk = [key \in Key |-> [i \in 1..CellSize |-> 0]]
    /\ cache = [key \in Key |-> Null]
    /\ entries = [e \in Entry |-> CacheData(FALSE, Null, <<>>)]
    /\ writeSequences = <<>>
    /\ cachePriority = {}
    /\ cacheSize = 0
    /\ threadsWaiting = 0
    /\ client = Idle
    /\ flusher = [pc |-> "check", entry |-> Null, data |-> Null]
    /\ last = Call("open", Null, Null)
    /\ drift = 0
    /\ rough = FALSE
    /\ writes = [key \in Key |-> 0]
    /\ failures = 0
    /\ setup \in Setup

-----------------------------------------------------------------------------
(* read                                                                     *)

ReadCached(key, length) ==
    /\ At("idle")
    /\ cache[key] # Null
    /\ last' = Call("read", key, Copied(entries[cache[key]].data, length))
    /\ RoughIf(length > Len(entries[cache[key]].data))
    /\ UNCHANGED <<medium, drift, clientOwn, entries, writeSequences, waiting, client, writes>>

(* A mutant of ReadMiss: the read is not counted.                           *)
ReadMissUncounted(key) ==
    /\ At("idle")
    /\ cache[key] = Null
    /\ client' = [Idle EXCEPT !.pc = "readDisk", !.key = key]
    /\ UNCHANGED <<medium, history, clientOwn, entries, writeSequences, waiting, calls>>

(* threadsWaiting++ keeps the flusher off the disk until the read is done.  *)
ReadMiss(key) ==
    /\ At("idle")
    /\ cache[key] = Null
    /\ threadsWaiting' = threadsWaiting + 1
    /\ client' = [Idle EXCEPT !.pc = "readDisk", !.key = key]
    /\ UNCHANGED <<medium, history, clientOwn, entries, writeSequences, flusher, calls>>

(* doAction(ACTION_READ) with its finally block, and new CacheData(false).  *)
ReadDisk(length) ==
    /\ At("readDisk")
    /\ threadsWaiting' = threadsWaiting - 1
    /\ flusher' = IF threadsWaiting' = 0 THEN Woken ELSE flusher
    /\ \/ /\ entries' = [entries EXCEPT ![Fresh] =
               CacheData(FALSE, client.key, SubSeq(disk[client.key], 1, length))]
          /\ client' = [client EXCEPT !.pc = "evict", !.entry = Fresh, !.reading = TRUE]
          /\ UNCHANGED <<medium, history, last>>
       \/ /\ Fails
          /\ last' = Call("read", client.key, Null)
          /\ client' = Idle
          /\ UNCHANGED entries
    /\ UNCHANGED <<clientOwn, writeSequences, writes>>

-----------------------------------------------------------------------------
(* write: a cell that has a CacheData keeps the object.  The flusher reads  *)
(* data and clears isUpdated, never both at once, so setting them is a step.*)

WriteCached(key, data) ==
    LET growth == Len(data) - Len(entries[cache[key]].data)
    IN
    /\ At("idle")
    /\ writes[key] < setup.maxWrites
    /\ cache[key] # Null
    /\ entries' = [entries EXCEPT ![cache[key]] = CacheData(TRUE, key, data)]
    /\ drift' = IF cache[key] \in cachePriority THEN drift + growth ELSE drift
    /\ RoughIf(growth < 0)
    /\ client' = [Idle EXCEPT !.pc = "dequeue", !.entry = cache[key]]
    /\ writes' = [writes EXCEPT ![key] = @ + 1]
    /\ last' = Call("write", key, data)
    /\ UNCHANGED <<medium, clientOwn, writeSequences, waiting>>

(* A mutant of Dequeue: the object is not queued again.                     *)
DequeueOnly ==
    /\ At("dequeue")
    /\ writeSequences' = Without(writeSequences, client.entry)
    /\ Go("idle")
    /\ UNCHANGED <<medium, history, clientOwn, entries, waiting, calls>>

Dequeue ==
    /\ At("dequeue")
    /\ writeSequences' = Without(writeSequences, client.entry)
    /\ Go("enqueue")
    /\ UNCHANGED <<medium, history, clientOwn, entries, waiting, calls>>

WriteMiss(key, data) ==
    /\ At("idle")
    /\ writes[key] < setup.maxWrites
    /\ cache[key] = Null
    /\ entries' = [entries EXCEPT ![Fresh] = CacheData(TRUE, key, data)]
    /\ client' = [Idle EXCEPT !.pc = "evict", !.key = key, !.entry = Fresh]
    /\ writes' = [writes EXCEPT ![key] = @ + 1]
    /\ UNCHANGED <<medium, history, clientOwn, writeSequences, waiting, last>>

(* writeSequences.add and notify: a flusher that waits does nothing until   *)
(* the notify, and one that does not wait is not concerned by it.           *)
Enqueue ==
    /\ At("enqueue")
    /\ writeSequences' = Append(writeSequences, client.entry)
    /\ flusher' = Woken
    /\ client' = Idle
    /\ UNCHANGED <<medium, history, clientOwn, entries, threadsWaiting, calls>>

-----------------------------------------------------------------------------
(* addToCache: evict until the new object fits, then insert it.  poll()     *)
(* takes the object with the least saveTime, but read() changes saveTime    *)
(* inside the heap, so which one it takes is open; on an empty heap it      *)
(* returns null and the loop goes round unchanged.                          *)

Full == cacheSize # 0 /\ cacheSize + Len(entries[client.entry].data) > setup.maxCacheSize

Evicts(victim) == At("evict") /\ Full /\ victim \in cachePriority

(* The loop goes round with nothing to evict.                               *)
EvictNothing == At("evict") /\ Full /\ cachePriority = {} /\ UNCHANGED vars

(* A mutant of EvictClean: peek() instead of poll(), nothing is freed.      *)
EvictCleanPeeks(victim) ==
    Evicts(victim) /\ ~entries[victim].isUpdated /\ UNCHANGED vars

(* A mutant of EvictClean: the size of a clean object is not given back.    *)
EvictCleanUnaccounted(victim) ==
    /\ Evicts(victim)
    /\ ~entries[victim].isUpdated
    /\ cachePriority' = cachePriority \ {victim}
    /\ UNCHANGED <<medium, history, cache, cacheSize, entries, writeSequences, waiting,
                   client, calls>>

(* A clean victim leaves the heap and stays in the map.                     *)
EvictClean(victim) ==
    /\ Evicts(victim)
    /\ ~entries[victim].isUpdated
    /\ cachePriority' = cachePriority \ {victim}
    /\ cacheSize' = cacheSize - Len(entries[victim].data)
    /\ UNCHANGED <<medium, history, cache, entries, writeSequences, waiting, client, calls>>

EvictDirty(victim) ==
    /\ Evicts(victim)
    /\ entries[victim].isUpdated
    /\ cachePriority' = cachePriority \ {victim}
    /\ client' = [client EXCEPT !.pc = "evictWrite", !.victim = victim]
    /\ UNCHANGED <<medium, history, cache, cacheSize, entries, writeSequences, waiting, calls>>

(* A mutant of EvictWrite: a dirty victim is dropped unwritten.             *)
EvictWriteNothing ==
    /\ At("evictWrite")
    /\ Go("evictRemove")
    /\ UNCHANGED <<medium, history, clientOwn, entries, writeSequences, waiting, calls>>

(* What doAction returns is ignored here.                                   *)
EvictWrite ==
    LET victim == entries[client.victim]
    IN  /\ At("evictWrite")
        /\ Go("evictRemove")
        /\ \/ /\ disk' = [disk EXCEPT ![victim.key] = Overlay(@, victim.data)]
              /\ RoughIf(/\ flusher.pc = "write"
                         /\ entries[flusher.entry].key = victim.key
                         /\ flusher.data # victim.data)
              /\ UNCHANGED <<failures, setup, drift>>
           \/ Fails
        /\ UNCHANGED <<clientOwn, entries, writeSequences, waiting, calls>>

(* The victim leaves the map of the new object's file, which is its own     *)
(* file's map or not, and the write queue.                                  *)
EvictRemove ==
    LET victim == entries[client.victim]
    IN  /\ At("evictRemove")
        /\ cache' = IF /\ SameFile(victim.key, client.key)
                       /\ cache[victim.key] = client.victim
                    THEN [cache EXCEPT ![victim.key] = Null] ELSE cache
        /\ writeSequences' = Without(writeSequences, client.victim)
        /\ cacheSize' = cacheSize - Len(victim.data)
        /\ client' = [client EXCEPT !.pc = "evict", !.victim = Null]
        /\ UNCHANGED <<medium, history, cachePriority, entries, waiting, calls>>

Insert ==
    LET data == entries[client.entry].data
    IN  /\ At("evict")
        /\ ~Full
        /\ cacheSize' = cacheSize + Len(data)
        /\ cachePriority' = cachePriority \cup {client.entry}
        /\ cache' = [cache EXCEPT ![client.key] = client.entry]
        /\ IF client.reading
           THEN client' = Idle /\ last' = Call("read", client.key, data)
           ELSE Go("enqueue") /\ last' = Call("write", client.key, data)
        /\ UNCHANGED <<medium, history, entries, writeSequences, waiting, writes>>

-----------------------------------------------------------------------------
(* run: the flusher                                                         *)

FlusherGo(from, to) ==
    flusher.pc = from /\ flusher' = [flusher EXCEPT !.pc = to]

FlushCheck ==
    /\ FlusherGo("check", IF threadsWaiting = 0 /\ writeSequences # <<>>
                          THEN "get" ELSE "wait")
    /\ UNCHANGED <<medium, history, clientOwn, entries, writeSequences, threadsWaiting,
                   client, calls>>

(* A notify that comes between the check and wait() is lost.                *)
FlushWait ==
    /\ FlusherGo("wait", "waiting")
    /\ UNCHANGED <<medium, history, clientOwn, entries, writeSequences, threadsWaiting,
                   client, calls>>

(* writeSequences.get(0) and action.data, read before doAction is entered.  *)
(* The client may have emptied the queue since the check: the               *)
(* IndexOutOfBoundsException is ignored.                                    *)
FlushGet ==
    /\ flusher.pc = "get"
    /\ flusher' = IF writeSequences = <<>> THEN [flusher EXCEPT !.pc = "check"]
                  ELSE [pc |-> "write", entry |-> Head(writeSequences),
                        data |-> entries[Head(writeSequences)].data]
    /\ UNCHANGED <<medium, history, clientOwn, entries, writeSequences, threadsWaiting,
                   client, calls>>

(* When doAction returns false the object stays queued and is tried again.  *)
FlushWrite ==
    /\ flusher.pc = "write"
    /\ \/ /\ disk' = [disk EXCEPT ![entries[flusher.entry].key] = Overlay(@, flusher.data)]
          /\ flusher' = [flusher EXCEPT !.pc = "clean", !.data = Null]
          /\ UNCHANGED <<failures, setup, history>>
       \/ /\ Fails
          /\ flusher' = [pc |-> "check", entry |-> Null, data |-> Null]
    /\ UNCHANGED <<clientOwn, entries, writeSequences, threadsWaiting, client, calls>>

FlushClean ==
    /\ FlusherGo("clean", "remove")
    /\ entries' = [entries EXCEPT ![flusher.entry].isUpdated = FALSE]
    /\ UNCHANGED <<medium, history, clientOwn, writeSequences, threadsWaiting, client, calls>>


FlushRemove ==
    /\ flusher.pc = "remove"
    /\ writeSequences' = Without(writeSequences, flusher.entry)
    /\ flusher' = [flusher EXCEPT !.pc = "check", !.entry = Null]
    /\ UNCHANGED <<medium, history, clientOwn, entries, threadsWaiting, client, calls>>

-----------------------------------------------------------------------------
(* What the client does on its own, and what it must do once it has begun.  *)
ClientBegins == \E key \in setup.keys :
    \/ \E length \in setup.lengths : ReadCached(key, length)
    \/ ReadMiss(key)
    \/ \E data \in setup.data : WriteCached(key, data) \/ WriteMiss(key, data)

ClientContinues ==
    \/ \E length \in setup.lengths : ReadDisk(length)
    \/ Dequeue \/ Enqueue
    \/ \E victim \in Entry : EvictClean(victim) \/ EvictDirty(victim)
    \/ EvictNothing \/ EvictWrite \/ EvictRemove \/ Insert

Flush == FlushCheck \/ FlushWait \/ FlushGet \/ FlushWrite \/ FlushClean \/ FlushRemove

Next == ClientBegins \/ ClientContinues \/ Flush

Spec == Init /\ [][Next]_vars

(* Both threads are scheduled by the JVM: neither stops inside its code.    *)
FairSpec == Spec /\ WF_vars(ClientContinues) /\ WF_vars(Flush)

-----------------------------------------------------------------------------
(* References are to objects that exist; a cell and a CacheData have bytes. *)
TypeOK ==
    /\ disk \in [Key -> [1..CellSize -> Nat]]
    /\ cache \in [Key -> Entry \cup {Null}]
    /\ \A e \in Entry : /\ entries[e].isUpdated \in BOOLEAN
                        /\ entries[e].key \in Key \cup {Null}
                        /\ entries[e].data \in Seq(Nat)
    /\ writeSequences \in Seq(Entry)
    /\ cachePriority \subseteq Entry
    /\ cacheSize \in Int
    /\ threadsWaiting \in 0..1
    /\ client.entry \in Entry \cup {Null} /\ client.victim \in Entry \cup {Null}
    /\ flusher.entry \in Entry \cup {Null}
    /\ drift \in Int /\ rough \in BOOLEAN

(* The cache answers like a memory: whatever the flusher and the eviction   *)
(* do meanwhile, a read returns what was written last (ActionThread.java    *)
(* 23-102).  A cell stands for its CacheData while there is one.            *)
Memory == [key \in Key |->
             IF cache[key] = Null THEN disk[key]
             ELSE Overlay(disk[key], entries[cache[key]].data)]

Cells == INSTANCE CellMemory WITH memory <- Memory, failed <- failures > 0

MemorySpec == Cells!Spec

(* What is left of that for cells which are read and written at several     *)
(* lengths, and rewritten and evicted at any time: the promise holds until  *)
(* one of the four things has come that the cache cannot stand (45-57,      *)
(* 88-97, 26-33 against 109-113).                                           *)
Promised == INSTANCE CellMemory WITH memory <- Memory, failed <- rough

MemoryUntilRough == Promised!Spec

(* A cell whose cached bytes are not on disk is on its way there: queued,   *)
(* in the flusher's hand, or being queued by the client.  What is neither   *)
(* would be lost when the process ends (write 93-97, run 109-113).  A cell  *)
(* written again, or a disk that fails, can make it untrue.                 *)
NothingLost ==
    \A key \in Key :
        LET e == cache[key]
        IN  /\ writes[key] <= 1 /\ failures = 0
            /\ e # Null /\ Memory[key] # disk[key]
            => \/ Queued(e)
               \/ client.entry = e /\ client.pc \in {"dequeue", "enqueue"}
               \/ flusher.entry = e /\ flusher.pc = "write"

(* cacheSize is the size of what can be evicted, the victim being evicted   *)
(* included, but for what writes to cached cells made of their lengths:     *)
(* nothing else, no eviction and no failure, makes it drift (24-37, 93).    *)
CacheAccounted ==
    cacheSize + drift = MapThenSumSet(LAMBDA e : Len(entries[e].data),
                                      cachePriority \cup ({client.victim} \ {Null}))

(* Every call of the client returns, unless cacheSize has drifted and there *)
(* is nothing left to evict: then addToCache goes round for ever (24-35).   *)
ClientReturns ==
    ~At("idle") ~> \/ At("idle")
                   \/ drift # 0 /\ cachePriority = {} /\ At("evict") /\ Full

(* Every call returns.                                                      *)
CallsReturn == ~At("idle") ~> At("idle")

=============================================================================
