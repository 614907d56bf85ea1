------------------------- MODULE ActionThreadProofs -------------------------
(***************************************************************************)
(* A cell that was written once, on a disk that does not fail, is on disk   *)
(* or on its way there, whatever the size of the cache, for any cells and   *)
(* bytes, and however the client and the flusher interleave.  And cacheSize *)
(* is the size of what can be evicted, as long as cells keep their lengths. *)
(* And the cache answers like a memory, as long as no cell is evicted that  *)
(* was written twice and is not clean.                                      *)
(***************************************************************************)
EXTENDS ActionThread, FiniteSetTheorems, FunctionTheorems, WellFoundedInduction, TLAPS

-----------------------------------------------------------------------------
(* The invariant.                                                           *)

Evicting == client.pc \in {"evict", "evictWrite", "evictRemove"}

(* The client has a victim in its hands.                                    *)
HasVictim == client.pc \in {"evictWrite", "evictRemove"}

(* The client is about to queue the object of a cell it wrote.              *)
Queueing == client.pc \in {"dequeue", "enqueue"}

(* The flusher has an object in its hands.                                  *)
Holding == flusher.pc \in {"write", "clean", "remove"}

Cell == [1..CellSize -> Nat]

CacheDataType == [isUpdated : BOOLEAN, key : Key \cup {Null}, data : Seq(Nat)]

ClientType == [pc : {"idle", "readDisk", "evict", "evictWrite", "evictRemove",
                     "dequeue", "enqueue"},
               key : Key \cup {Null}, entry : Entry \cup {Null},
               victim : Entry \cup {Null}, reading : BOOLEAN]

FlusherType == [pc : {"check", "wait", "waiting", "get", "write", "clean", "remove"},
                entry : Entry \cup {Null}, data : Seq(Nat) \cup {Null}]

(* Who works on an object has one.                                          *)
Typed ==
    /\ disk \in [Key -> Cell]
    /\ cache \in [Key -> Entry \cup {Null}]
    /\ entries \in [Entry -> CacheDataType]
    /\ writeSequences \in Seq(Entry)
    /\ cachePriority \subseteq Entry
    /\ client \in ClientType
    /\ flusher \in FlusherType
    /\ writes \in [Key -> Nat]
    /\ failures \in Nat
    /\ setup \in Setup
    /\ At("readDisk") \/ Evicting => client.key \in Key
    /\ Evicting \/ Queueing => client.entry \in Entry
    /\ HasVictim => client.victim \in Entry
    /\ Holding => flusher.entry \in Entry /\ entries[flusher.entry].key \in Key
    /\ flusher.pc = "write" => flusher.data \in Seq(Nat)

(* The map has the object at its key.                                       *)
Cached(e) == entries[e].key \in Key /\ cache[entries[e].key] = e

(* The cell of the object was written.                                      *)
Written(e) == writes[entries[e].key] > 0

(* An object is in the map as long as it can be evicted or is queued.       *)
MapPlaced ==
    /\ \A key \in Key : cache[key] # Null =>
          Cached(cache[key]) /\ entries[cache[key]].key = key
    /\ \A e \in cachePriority : Cached(e)

QueuePlaced ==
    /\ \A i \in 1..Len(writeSequences) :
          Cached(writeSequences[i]) /\ Written(writeSequences[i])
    /\ \A i, j \in 1..Len(writeSequences) : writeSequences[i] = writeSequences[j] => i = j

FlusherPlaced == Holding => Written(flusher.entry)

(* A new object is the client's alone until there is room for it.           *)
NewPlaced ==
    /\ At("readDisk") \/ Evicting => cache[client.key] = Null
    /\ Evicting => /\ entries[client.entry].key = client.key
                   /\ Holding => client.entry # flusher.entry
                   /\ ~client.reading => Written(client.entry)

OldPlaced ==
    /\ Queueing => Cached(client.entry) /\ Written(client.entry)
    /\ At("enqueue") => \A i \in 1..Len(writeSequences) : writeSequences[i] # client.entry
    /\ HasVictim => Cached(client.victim) /\ client.victim \notin cachePriority

Placed == MapPlaced /\ QueuePlaced /\ FlusherPlaced /\ NewPlaced /\ OldPlaced

(* The cell was written no more than once, and the disk is sound.           *)
WrittenOnce(key) == writes[key] <= 1 /\ failures = 0

OnDisk(key, data) == Overlay(disk[key], data) = disk[key]

Pending(e) == \/ Queued(e)
              \/ client.entry = e /\ Queueing
              \/ flusher.entry = e /\ flusher.pc = "write"

(* What is cached is on disk or on its way.                                 *)
CachedSafe ==
    \A key \in Key : WrittenOnce(key) /\ cache[key] # Null
        => OnDisk(key, entries[cache[key]].data) \/ Pending(cache[key])

(* So is what the flusher has in its hands, even of an object that has left *)
(* the map; what the map has in its place is on disk then.                  *)
FlusherSafe ==
    LET e   == flusher.entry
        key == entries[e].key
    IN  Holding /\ WrittenOnce(key) =>
            IF Cached(e)
            THEN IF flusher.pc = "write" THEN flusher.data = entries[e].data
                                         ELSE OnDisk(key, entries[e].data)
            ELSE /\ flusher.pc = "write" => OnDisk(key, flusher.data)
                 /\ cache[key] # Null => OnDisk(key, entries[cache[key]].data)

(* What the client read stays true until it is in the map; the flusher has  *)
(* nothing of a cell that the client writes for the first time; and what    *)
(* the client evicts is on disk when it leaves the map.                     *)
ClientSafe ==
    /\ Evicting /\ WrittenOnce(client.key) =>
          IF client.reading THEN OnDisk(client.key, entries[client.entry].data)
                            ELSE Holding => entries[flusher.entry].key # client.key
    /\ At("evictRemove") =>
          LET victim == entries[client.victim]
          IN  WrittenOnce(victim.key) => OnDisk(victim.key, victim.data)

Safe == CachedSafe /\ FlusherSafe /\ ClientSafe

IInv == Typed /\ Placed /\ Safe

-----------------------------------------------------------------------------
(* Bytes and queues.                                                        *)

(* Writing the same bytes again changes nothing.                            *)
LEMMA OverlayTwice ==
  ASSUME NEW cell \in Cell, NEW data \in Seq(Nat)
  PROVE  /\ Overlay(cell, data) \in Cell
         /\ Overlay(Overlay(cell, data), data) = Overlay(cell, data)
<1>1. \A i \in 1..CellSize : i <= Len(data) => data[i] \in Nat
  BY ActionThreadAssumption DEF ActionThreadAssumption
<1> QED
  BY <1>1 DEF Cell, Overlay

(* The bytes read from a cell are the bytes of the cell.                    *)
LEMMA ReadAgrees ==
  ASSUME NEW cell \in Cell, NEW length \in Lengths
  PROVE  /\ SubSeq(cell, 1, length) \in Seq(Nat)
         /\ Overlay(cell, SubSeq(cell, 1, length)) = cell
<1>1. CellSize \in Nat /\ length \in 1..CellSize
  BY ActionThreadAssumption DEF ActionThreadAssumption
<1>2. cell \in Seq(Nat) /\ Len(cell) = CellSize
  BY <1>1 DEF Cell
<1> DEFINE data == SubSeq(cell, 1, length)
<1>3. data \in Seq(Nat) /\ Len(data) = length /\ \A i \in 1..length : data[i] = cell[i]
  BY <1>1, <1>2
<1>4. \A i \in 1..CellSize : (IF i <= Len(data) THEN data[i] ELSE cell[i]) = cell[i]
  BY <1>1, <1>3
<1>5. cell = [i \in 1..CellSize |-> cell[i]]
  BY DEF Cell
<1> HIDE DEF data
<1>6. Overlay(cell, data) = cell
  BY <1>4, <1>5 DEF Overlay
<1> QED
  BY <1>3, <1>6 DEF data

(* The queue w is queue without e.                                          *)
Leaves(w, queue, e) ==
    /\ w \in Seq(Entry)
    /\ \A i \in 1..Len(w) : \E j \in 1..Len(queue) : w[i] = queue[j] /\ queue[j] # e
    /\ \A j \in 1..Len(queue) : queue[j] # e => \E i \in 1..Len(w) : w[i] = queue[j]
    /\ \A i, j \in 1..Len(w) : w[i] = w[j] => i = j

(* Without takes the only occurrence out and leaves the rest.               *)
LEMMA WithoutFacts ==
  ASSUME NEW q \in Seq(Entry), NEW e,
         \A i, j \in 1..Len(q) : q[i] = q[j] => i = j
  PROVE  Leaves(Without(q, e), q, e)
<1> DEFINE n == Len(q)
           place == CHOOSE i \in 1..n : q[i] = e /\ \A j \in 1..(i - 1) : ~(q[j] = e)
           w == [i \in 1..(n - 1) |-> q[IF i < place THEN i ELSE i + 1]]
<1>1. CASE ~\E i \in 1..n : q[i] = e
  <2>1. Without(q, e) = q
    BY <1>1 DEF Without
  <2> QED
    BY <1>1, <2>1 DEF Leaves
<1>2. CASE \E i \in 1..n : q[i] = e
  <2>1. PICK k \in 1..n : q[k] = e
    BY <1>2
  <2>2. n \in Nat /\ \A j \in 1..(k - 1) : ~(q[j] = e)
    BY <2>1
  <2>3. place \in 1..n /\ q[place] = e
    BY <2>1, <2>2
  <2>4. Without(q, e) = w
    BY <1>2 DEF Without
  <2> HIDE DEF place
  <2>5. \A i \in 1..(n - 1) : /\ (IF i < place THEN i ELSE i + 1) \in (1..n) \ {place}
                              /\ w[i] = q[IF i < place THEN i ELSE i + 1]
    BY <2>2, <2>3
  <2>6. \A i \in 1..(n - 1) : w[i] \in Entry
    BY <2>5
  <2>7. w \in Seq(Entry) /\ Len(w) = n - 1
    BY <2>2, <2>3, <2>6
  <2> HIDE DEF w
  <2>8. \A i \in 1..Len(w) : \E j \in 1..n : w[i] = q[j] /\ q[j] # e
    BY <2>3, <2>5, <2>7
  <2>9. ASSUME NEW j \in 1..n, q[j] # e
        PROVE  \E i \in 1..Len(w) : w[i] = q[j]
    <3>1. CASE j < place
      <4>1. j \in 1..(n - 1) /\ w[j] = q[j]
        BY <2>2, <2>3, <2>5, <3>1
      <4> QED
        BY <2>7, <4>1
    <3>2. CASE j > place
      <4>1. j - 1 \in 1..(n - 1) /\ ~(j - 1 < place) /\ j - 1 + 1 = j
        BY <2>2, <2>3, <3>2
      <4>2. w[j - 1] = q[j]
        BY <2>5, <4>1
      <4> QED
        BY <2>7, <4>1, <4>2
    <3> QED
      BY <2>2, <2>3, <2>9, <3>1, <3>2
  <2>10. \A i, j \in 1..Len(w) : w[i] = w[j] => i = j
    <3>1. ASSUME NEW i \in 1..(n - 1), NEW j \in 1..(n - 1), w[i] = w[j]
          PROVE  (IF i < place THEN i ELSE i + 1) = (IF j < place THEN j ELSE j + 1)
      BY <2>5, <3>1
    <3> QED
      BY <2>2, <2>3, <2>7, <3>1
  <2> QED
    BY <2>4, <2>7, <2>8, <2>9, <2>10 DEF Leaves
<1> QED
  BY <1>1, <1>2

(* There is always an object that nothing refers to.                        *)
LEMMA FreshFacts ==
  ASSUME IsFiniteSet(Key), ~IsFiniteSet(Entry), Typed, Placed
  PROVE  /\ Fresh \in Entry
         /\ \A key \in Key : cache[key] # Fresh
         /\ Fresh \notin cachePriority
         /\ \A i \in 1..Len(writeSequences) : writeSequences[i] # Fresh
         /\ flusher.entry # Fresh
<1> DEFINE Used == {cache[key] : key \in Key}
<1>1. IsFiniteSet(Used)
  <2>1. [key \in Key |-> cache[key]] \in Surjection(Key, Used)
    BY DEF Surjection
  <2> QED
    BY <2>1, FS_Surjection
<1>2. IsFiniteSet(Used \cup {flusher.entry})
  BY <1>1, FS_AddElement
<1>3. PICK e \in Entry : e \notin Used \cup {flusher.entry}
  <2>1. ~(Entry \subseteq Used \cup {flusher.entry})
    BY <1>2, FS_Subset
  <2> QED
    BY <2>1
<1>4. e \in Unreferenced
  BY <1>3 DEF Unreferenced, Placed, MapPlaced, QueuePlaced, Cached, Queued
<1>5. Fresh \in Unreferenced
  BY <1>4 DEF Fresh
<1> QED
  BY <1>5 DEF Unreferenced, Queued

-----------------------------------------------------------------------------
(* The client's steps.                                                      *)

(* The queue after an object was taken out.                                 *)
LEMMA TakenOut ==
  ASSUME Typed, Placed, NEW e
  PROVE  Leaves(Without(writeSequences, e), writeSequences, e)
<1>1. /\ writeSequences \in Seq(Entry)
      /\ \A i, j \in 1..Len(writeSequences) : writeSequences[i] = writeSequences[j] => i = j
  BY DEF Typed, Placed, QueuePlaced
<1> QED
  BY <1>1, WithoutFacts

(* A read that finds the cell, or begins to wait for the disk.              *)
LEMMA ReadBegins ==
  ASSUME IInv, NEW key \in setup.keys,
         (\E length \in Lengths : ReadCached(key, length)) \/ ReadMiss(key)
  PROVE  IInv'
<1> USE DEF medium, clientOwn, calls, waiting, At
<1>0. key \in Key
  BY ActionThreadAssumption DEF ActionThreadAssumption, IInv, Typed
<1>1. CASE \E length \in Lengths : ReadCached(key, length)
  <2>1. UNCHANGED <<disk, cache, entries, writeSequences, cachePriority, client, flusher,
                    writes, failures, setup>>
    BY <1>1 DEF ReadCached
  <2>2. Typed'
    BY <2>1 DEF IInv, Typed, Evicting, Queueing, HasVictim, Holding
  <2>3. Placed'
    BY <2>1 DEF IInv, Placed, MapPlaced, QueuePlaced, FlusherPlaced, NewPlaced, OldPlaced,
       Evicting, Queueing, HasVictim, Holding, Cached, Written
  <2>4. Safe'
    BY <2>1 DEF IInv, Safe, CachedSafe, FlusherSafe, ClientSafe, Evicting, Queueing, Holding,
       Cached, WrittenOnce, OnDisk, Pending, Queued
  <2> QED
    BY <2>2, <2>3, <2>4 DEF IInv
<1>2. CASE ReadMiss(key)
  <2>1. /\ UNCHANGED <<disk, cache, entries, writeSequences, cachePriority, flusher,
                       writes, failures, setup>>
        /\ client.pc = "idle" /\ cache[key] = Null
        /\ client' = [pc |-> "readDisk", key |-> key, entry |-> Null, victim |-> Null,
                      reading |-> FALSE]
    BY <1>2 DEF ReadMiss, Idle
  <2>2. client' \in ClientType /\ client'.pc = "readDisk" /\ client'.key = key
    BY <1>0, <2>1 DEF ClientType
  <2>3. Typed'
    BY <1>0, <2>1, <2>2 DEF IInv, Typed, Evicting, Queueing, HasVictim, Holding
  <2>4. Placed'
    <3>1. MapPlaced' /\ QueuePlaced' /\ FlusherPlaced'
      BY <2>1 DEF IInv, Placed, MapPlaced, QueuePlaced, FlusherPlaced, Holding, Cached, Written
    <3>2. NewPlaced' /\ OldPlaced'
      BY <2>1, <2>2 DEF NewPlaced, OldPlaced, Evicting, Queueing, HasVictim
    <3> QED
      BY <3>1, <3>2 DEF Placed
  <2>5. Safe'
    <3>1. ASSUME NEW x, Pending(x) PROVE Pending(x)'
      BY <2>1, <3>1 DEF Pending, Queued, Queueing
    <3>2. CachedSafe'
      BY <2>1, <3>1 DEF IInv, Safe, CachedSafe, WrittenOnce, OnDisk
    <3>3. FlusherSafe'
      BY <2>1 DEF IInv, Safe, FlusherSafe, Holding, Cached, WrittenOnce, OnDisk
    <3>4. ClientSafe'
      BY <2>2 DEF ClientSafe, Evicting
    <3> QED
      BY <3>2, <3>3, <3>4 DEF Safe
  <2> QED
    BY <2>3, <2>4, <2>5 DEF IInv
<1> QED
  BY <1>1, <1>2

(* Choosing a victim takes it from the heap alone.                          *)
LEMMA EvictionBegins ==
  ASSUME IInv, NEW victim \in Entry, EvictClean(victim) \/ EvictDirty(victim)
  PROVE  IInv'
<1>1. /\ UNCHANGED <<disk, cache, entries, writeSequences, flusher, writes, failures, setup>>
      /\ client.pc = "evict" /\ victim \in cachePriority
      /\ cachePriority' = cachePriority \ {victim}
      /\ \/ client' = client
         \/ client' = [client EXCEPT !.pc = "evictWrite", !.victim = victim]
  BY DEF EvictClean, EvictDirty, Evicts, medium, clientOwn, calls, waiting, At
<1>2. /\ client' \in ClientType /\ client'.pc \in {"evict", "evictWrite"}
      /\ client'.key = client.key /\ client'.entry = client.entry
      /\ client'.reading = client.reading
      /\ client'.pc = "evictWrite" => client'.victim = victim
  BY <1>1 DEF IInv, Typed, ClientType
<1>3. Typed'
  BY <1>1, <1>2 DEF IInv, Typed, Evicting, Queueing, HasVictim, Holding, At
<1>4. Placed'
  BY <1>1, <1>2 DEF IInv, Typed,
     Placed, MapPlaced, QueuePlaced, FlusherPlaced, NewPlaced, OldPlaced,
     Evicting, Queueing, HasVictim, Holding, At, Cached, Written
<1>5. Safe'
  BY <1>1, <1>2 DEF IInv, Typed, Safe, CachedSafe, FlusherSafe, ClientSafe,
     Evicting, Queueing, Holding, At, Cached, WrittenOnce, OnDisk, Pending, Queued
<1> QED
  BY <1>3, <1>4, <1>5 DEF IInv

(* The client makes an object, for what it read or is about to write.       *)
LEMMA NewObject ==
  ASSUME IsFiniteSet(Key), ~IsFiniteSet(Entry), IInv,
         NEW key \in Key, cache[key] = Null, NEW data \in Seq(Nat), NEW isUpdated \in BOOLEAN,
         entries' = [entries EXCEPT ![Fresh] = CacheData(isUpdated, key, data)],
         client'.pc = "evict", client'.key = key, client'.entry = Fresh, client' \in ClientType,
         flusher' \in FlusherType, flusher'.entry = flusher.entry, flusher'.data = flusher.data,
         Holding' <=> Holding, Holding => flusher'.pc = flusher.pc,
         UNCHANGED <<disk, cache, writeSequences, cachePriority, failures, setup>>,
         ~Queueing,
         \/ client'.reading /\ OnDisk(key, data) /\ UNCHANGED writes
         \/ ~client'.reading /\ writes' = [writes EXCEPT ![key] = @ + 1]
  PROVE  IInv'
<1>1. /\ Fresh \in Entry /\ \A k \in Key : cache[k] # Fresh
      /\ Fresh \notin cachePriority /\ flusher.entry # Fresh
      /\ \A i \in 1..Len(writeSequences) : writeSequences[i] # Fresh
  BY FreshFacts DEF IInv
<1>2. /\ entries \in [Entry -> CacheDataType]
      /\ entries'[Fresh] = [isUpdated |-> isUpdated, key |-> key, data |-> data]
      /\ entries' \in [Entry -> CacheDataType]
      /\ \A e \in Entry \ {Fresh} : entries'[e] = entries[e]
  BY <1>1 DEF CacheData, CacheDataType, IInv, Typed
<1>3. /\ writes' \in [Key -> Nat] /\ writes'[key] \in Nat /\ writes[key] \in Nat
      /\ \A k \in Key : writes'[k] >= writes[k]
      /\ ~client'.reading => writes'[key] = writes[key] + 1
  <2>1. writes \in [Key -> Nat]
    BY DEF IInv, Typed
  <2>2. CASE client'.reading /\ UNCHANGED writes
    BY <2>1, <2>2
  <2>3. CASE ~client'.reading /\ writes' = [writes EXCEPT ![key] = @ + 1]
    BY <2>1, <2>3
  <2> QED
    BY <2>2, <2>3
<1>4. \A k \in Key : WrittenOnce(k)' => WrittenOnce(k)
  BY <1>3 DEF WrittenOnce, IInv, Typed
<1>5. \A k \in Key : cache[k] # Null => cache[k] \in Entry \ {Fresh}
  BY <1>1 DEF IInv, Typed
<1>6. Typed'
  <2>1. /\ Holding' => flusher'.entry \in Entry /\ entries'[flusher'.entry].key \in Key
        /\ flusher'.pc = "write" => flusher'.data \in Seq(Nat)
    BY <1>1, <1>2 DEF IInv, Typed, Holding
  <2> QED
    BY <1>1, <1>2, <1>3, <2>1 DEF IInv, Typed, Evicting, Queueing, HasVictim, At
<1>7. Placed'
  <2>1. MapPlaced'
    <3>1. \A e \in cachePriority : e \in Entry \ {Fresh}
      BY <1>1 DEF IInv, Typed
    <3> QED
      BY <1>2, <1>5, <3>1 DEF IInv, Typed, Placed, MapPlaced, Cached
  <2>2. QueuePlaced'
    <3>1. \A i \in 1..Len(writeSequences) : writeSequences[i] \in Entry \ {Fresh}
      BY <1>1 DEF IInv, Typed
    <3> QED
      BY <1>2, <1>3, <3>1 DEF IInv, Typed, Placed, QueuePlaced, Cached, Written
  <2>3. FlusherPlaced'
    BY <1>1, <1>2, <1>3 DEF IInv, Typed, Placed, FlusherPlaced, Holding, Written
  <2>4. NewPlaced'
    BY <1>1, <1>2, <1>3 DEF NewPlaced, Evicting, Written
  <2>5. OldPlaced'
    BY DEF OldPlaced, Queueing, HasVictim, At
  <2> QED
    BY <2>1, <2>2, <2>3, <2>4, <2>5 DEF Placed
<1>8. Safe'
  <2>1. CachedSafe'
    <3>1. ASSUME NEW e \in Entry, Pending(e) PROVE Pending(e)'
      BY <1>1, <3>1 DEF Pending, Queued, Queueing, Holding
    <3> QED
      BY <1>2, <1>4, <1>5, <3>1 DEF IInv, Safe, CachedSafe, OnDisk
  <2>2. FlusherSafe'
    <3>1. ASSUME Holding
          PROVE  /\ flusher.entry \in Entry \ {Fresh}
                 /\ entries[flusher.entry].key \in Key
                 /\ entries'[flusher.entry] = entries[flusher.entry]
      BY <1>1, <1>2, <3>1 DEF IInv, Typed
    <3>2. \A k \in Key : cache[k] # Null => entries'[cache[k]] = entries[cache[k]]
      BY <1>2, <1>5
    <3>3. Holding => Cached(flusher.entry)' = Cached(flusher.entry)
      BY <3>1 DEF Cached
    <3>4. Holding /\ flusher'.pc = "write" <=> Holding /\ flusher.pc = "write"
      OBVIOUS
    <3> PICK k : k = entries[flusher.entry].key
      OBVIOUS
    <3>5. ASSUME Holding, WrittenOnce(k)'
          PROVE  IF Cached(flusher.entry)
                 THEN IF flusher.pc = "write" THEN flusher.data = entries[flusher.entry].data
                                              ELSE OnDisk(k, entries[flusher.entry].data)
                 ELSE /\ flusher.pc = "write" => OnDisk(k, flusher.data)
                      /\ cache[k] # Null => OnDisk(k, entries[cache[k]].data)
      <4>1. WrittenOnce(k)
        BY <1>4, <3>1, <3>5
      <4>2. FlusherSafe
        BY DEF IInv, Safe
      <4> QED
        BY <3>5, <4>1, <4>2 DEF FlusherSafe
    <3>6. Holding => k \in Key /\ entries'[flusher'.entry].key = k
      BY <3>1
    <3> QED
      BY <3>1, <3>2, <3>3, <3>4, <3>5, <3>6 DEF FlusherSafe, OnDisk
  <2>3. ClientSafe'
    <3>1. ASSUME ~client'.reading, WrittenOnce(key)', Holding'
          PROVE  entries'[flusher'.entry].key # key
      BY <1>1, <1>2, <1>3, <3>1 DEF IInv, Typed, Placed, FlusherPlaced, Written, WrittenOnce
    <3>2. client'.reading => OnDisk(key, data)'
      BY DEF OnDisk
    <3> QED
      BY <1>1, <1>2, <3>1, <3>2 DEF ClientSafe, Evicting, At, WrittenOnce, OnDisk
  <2> QED
    BY <2>1, <2>2, <2>3 DEF Safe
<1> QED
  BY <1>6, <1>7, <1>8 DEF IInv

(* What a read of the disk leaves.                                          *)
LEMMA ReadDiskStep ==
  ASSUME IsFiniteSet(Key), ~IsFiniteSet(Entry), IInv, NEW length \in Lengths, ReadDisk(length)
  PROVE  IInv'
<1> USE DEF medium, clientOwn, calls, waiting, At
<1>1. /\ UNCHANGED <<disk, cache, writeSequences, cachePriority, writes, setup>>
      /\ client.pc = "readDisk" /\ client.key \in Key /\ cache[client.key] = Null
      /\ \/ flusher' = flusher
         \/ flusher.pc = "waiting" /\ flusher' = [flusher EXCEPT !.pc = "check"]
  BY DEF ReadDisk, Woken, Fails, IInv, Typed, Placed, NewPlaced
<1>2. /\ flusher' \in FlusherType /\ flusher'.entry = flusher.entry /\ flusher'.data = flusher.data
      /\ Holding' <=> Holding
      /\ Holding => flusher'.pc = flusher.pc
  BY <1>1 DEF IInv, Typed, FlusherType, Holding
<1>3. CASE Fails /\ client' = Idle /\ UNCHANGED entries
  <2>1. failures' = failures + 1 /\ failures \in Nat
    BY <1>3 DEF Fails, IInv, Typed
  <2>2. client' = [pc |-> "idle", key |-> Null, entry |-> Null, victim |-> Null, reading |-> FALSE]
    BY <1>3 DEF Idle
  <2>3. Typed'
    BY <1>1, <1>2, <1>3, <2>1, <2>2
    DEF IInv, Typed, ClientType, Evicting, Queueing, HasVictim, Holding
  <2>4. Placed'
    BY <1>1, <1>2, <1>3, <2>2 DEF IInv, Typed,
       Placed, MapPlaced, QueuePlaced, FlusherPlaced, NewPlaced, OldPlaced,
       Evicting, Queueing, HasVictim, Holding, Cached, Written
  <2>5. Safe'
    BY <1>1, <1>3, <2>1, <2>2
    DEF Safe, CachedSafe, FlusherSafe, ClientSafe, Evicting, WrittenOnce
  <2> QED
    BY <2>3, <2>4, <2>5 DEF IInv
<1>4. CASE /\ entries' = [entries EXCEPT ![Fresh] =
                 CacheData(FALSE, client.key, SubSeq(disk[client.key], 1, length))]
           /\ client' = [client EXCEPT !.pc = "evict", !.entry = Fresh, !.reading = TRUE]
           /\ UNCHANGED failures
  <2> DEFINE data == SubSeq(disk[client.key], 1, length)
  <2>1. data \in Seq(Nat) /\ OnDisk(client.key, data)
    BY <1>1, ReadAgrees DEF OnDisk, IInv, Typed
  <2>2. Fresh \in Entry
    BY FreshFacts DEF IInv
  <2>3. /\ client' \in ClientType /\ client'.pc = "evict" /\ client'.key = client.key
        /\ client'.entry = Fresh /\ client'.reading
    BY <1>4, <2>2 DEF IInv, Typed, ClientType
  <2>4. entries' = [entries EXCEPT ![Fresh] = CacheData(FALSE, client.key, data)]
    BY <1>4
  <2>5. ~Queueing
    BY <1>1 DEF Queueing
  <2> HIDE DEF data
  <2> QED
    BY <1>1, <1>2, <1>4, <2>1, <2>3, <2>4, <2>5, NewObject
<1> QED
  BY <1>1, <1>3, <1>4 DEF ReadDisk

(* A write of a cell that is not cached makes an object.                    *)
LEMMA WriteMissStep ==
  ASSUME IsFiniteSet(Key), ~IsFiniteSet(Entry), IInv,
         NEW key \in setup.keys, NEW data \in setup.data, WriteMiss(key, data)
  PROVE  IInv'
<1>1. key \in Key /\ data \in Seq(Nat)
  BY ActionThreadAssumption DEF ActionThreadAssumption, IInv, Typed
<1>2. Fresh \in Entry
  BY FreshFacts DEF IInv
<1>3. /\ UNCHANGED <<disk, cache, writeSequences, cachePriority, failures, setup, flusher>>
      /\ client.pc = "idle" /\ cache[key] = Null
      /\ client' = [pc |-> "evict", key |-> key, entry |-> Fresh, victim |-> Null, reading |-> FALSE]
      /\ entries' = [entries EXCEPT ![Fresh] = CacheData(TRUE, key, data)]
      /\ writes' = [writes EXCEPT ![key] = @ + 1]
  BY DEF WriteMiss, Idle, At, medium, clientOwn, waiting
<1>4. /\ client' \in ClientType /\ client'.pc = "evict" /\ client'.key = key
      /\ client'.entry = Fresh /\ ~client'.reading
  BY <1>1, <1>2, <1>3 DEF ClientType
<1>5. /\ flusher' \in FlusherType /\ flusher'.entry = flusher.entry /\ flusher'.data = flusher.data
      /\ Holding' <=> Holding
      /\ Holding => flusher'.pc = flusher.pc
      /\ ~Queueing
  BY <1>3 DEF IInv, Typed, Holding, Queueing
<1> QED
  BY <1>1, <1>3, <1>4, <1>5, NewObject

(* A cell that is cached keeps its object.                                  *)
LEMMA WriteCachedStep ==
  ASSUME IInv, NEW key \in setup.keys, NEW data \in setup.data, WriteCached(key, data)
  PROVE  IInv'
<1>1. key \in Key /\ data \in Seq(Nat) /\ cache[key] \in Entry
  BY ActionThreadAssumption DEF ActionThreadAssumption, IInv, Typed, WriteCached
<1> PICK e \in Entry : e = cache[key]
  BY <1>1
<1>2. /\ UNCHANGED <<disk, cache, writeSequences, cachePriority, failures, setup, flusher>>
      /\ client.pc = "idle"
      /\ client' = [pc |-> "dequeue", key |-> Null, entry |-> e, victim |-> Null, reading |-> FALSE]
      /\ entries' = [entries EXCEPT ![e] = CacheData(TRUE, key, data)]
      /\ writes' = [writes EXCEPT ![key] = @ + 1]
  BY DEF WriteCached, Idle, At, medium, clientOwn, waiting
<1>3. entries[e].key = key /\ cache[key] # Null
  BY <1>1 DEF IInv, Typed, Placed, MapPlaced, WriteCached
<1>4. /\ entries \in [Entry -> CacheDataType] /\ entries' \in [Entry -> CacheDataType]
      /\ \A x \in Entry : entries'[x].key = entries[x].key
      /\ \A x \in Entry \ {e} : entries'[x] = entries[x]
  BY <1>1, <1>2, <1>3 DEF CacheData, CacheDataType, IInv, Typed
<1>5. /\ writes \in [Key -> Nat] /\ writes' \in [Key -> Nat] /\ writes'[key] = writes[key] + 1
      /\ \A k \in Key : writes'[k] >= writes[k]
  BY <1>1, <1>2 DEF IInv, Typed
<1>6. \A k \in Key : WrittenOnce(k)' => WrittenOnce(k)
  BY <1>2, <1>5 DEF WrittenOnce
<1>7. Typed'
  <2>1. client' \in ClientType /\ client'.pc = "dequeue" /\ client'.entry = e
    BY <1>2 DEF ClientType
  <2>2. UNCHANGED <<disk, cache, writeSequences, cachePriority, failures, setup, flusher>>
    BY <1>2
  <2> QED
    BY <1>4, <1>5, <2>1, <2>2 DEF IInv, Typed, Evicting, Queueing, HasVictim, Holding, At
<1>8. Placed'
  <2> UNCHANGED <<cache, cachePriority, writeSequences, flusher>>
    BY <1>2
  <2>1. MapPlaced'
    <3>1. ASSUME NEW k \in Key, cache'[k] # Null
          PROVE  cache[k] \in Entry /\ Cached(cache[k]) /\ entries[cache[k]].key = k
      BY <3>1 DEF IInv, Typed, Placed, MapPlaced
    <3>2. ASSUME NEW x \in cachePriority
          PROVE  x \in Entry /\ Cached(x)
      BY DEF IInv, Typed, Placed, MapPlaced
    <3> QED
      BY <1>4, <3>1, <3>2 DEF MapPlaced, Cached
  <2>2. QueuePlaced'
    <3>1. ASSUME NEW i \in 1..Len(writeSequences)
          PROVE  /\ writeSequences[i] \in Entry
                 /\ Cached(writeSequences[i]) /\ Written(writeSequences[i])
      BY DEF IInv, Typed, Placed, QueuePlaced
    <3>2. ASSUME NEW x \in Entry, Cached(x), Written(x)
          PROVE  Cached(x)' /\ Written(x)'
      BY <1>4, <1>5, <3>2 DEF Cached, Written
    <3>3. \A i, j \in 1..Len(writeSequences) : writeSequences[i] = writeSequences[j] => i = j
      BY DEF IInv, Placed, QueuePlaced
    <3> QED
      BY <3>1, <3>2, <3>3 DEF QueuePlaced, Cached, Written
  <2>3. FlusherPlaced'
    BY <1>4, <1>5 DEF IInv, Typed, Placed, FlusherPlaced, Holding, Written
  <2>4. NewPlaced' /\ OldPlaced'
    <3>1. client'.pc = "dequeue" /\ client'.entry = e
      BY <1>2
    <3>2. entries'[e].key = key /\ cache'[key] = e /\ writes'[key] > 0
      BY <1>1, <1>3, <1>4, <1>5 DEF IInv, Typed
    <3> QED
      BY <1>1, <3>1, <3>2
      DEF NewPlaced, OldPlaced, Evicting, Queueing, HasVictim, At, Cached, Written
  <2> QED
    BY <2>1, <2>2, <2>3, <2>4 DEF Placed
<1>9. Safe'
  <2>1. CachedSafe'
    <3>1. Pending(e)'
      BY <1>2 DEF Pending, Queueing
    <3>2. ASSUME NEW k \in Key, cache[k] # Null, cache[k] # e
          PROVE  /\ entries'[cache[k]] = entries[cache[k]]
                 /\ Pending(cache[k]) => Pending(cache[k])'
      <4>1. cache[k] \in Entry \ {e}
        BY <3>2 DEF IInv, Typed
      <4> QED
        BY <1>2, <1>4, <4>1 DEF Pending, Queued, Queueing
    <3> QED
      BY <1>2, <1>6, <3>1, <3>2 DEF IInv, Safe, CachedSafe, OnDisk
  <2>2. FlusherSafe'
    <3>1. ASSUME Holding, NEW k, k = entries[flusher.entry].key, WrittenOnce(k)'
          PROVE  /\ flusher.entry \in Entry \ {e} /\ k \in Key \ {key} /\ WrittenOnce(k)
                 /\ entries'[flusher.entry] = entries[flusher.entry]
      <4>1. flusher.entry \in Entry /\ k \in Key /\ writes[k] > 0
        BY <3>1 DEF IInv, Typed, Placed, FlusherPlaced, Written
      <4>2. k # key
        BY <1>5, <3>1, <4>1 DEF WrittenOnce, IInv, Typed
      <4> QED
        BY <1>3, <1>4, <1>6, <3>1, <4>1, <4>2
    <3>2. \A k \in Key \ {key} : cache[k] # Null =>
             cache[k] \in Entry \ {e} /\ entries'[cache[k]] = entries[cache[k]]
      BY <1>3, <1>4 DEF IInv, Typed, Placed, MapPlaced
    <3>3. Holding' <=> Holding
      BY <1>2 DEF Holding
    <3>4. UNCHANGED <<disk, cache, flusher>>
      BY <1>2
    <3>5. ASSUME Holding
          PROVE  entries'[flusher.entry].key = entries[flusher.entry].key
      BY <1>4, <3>5 DEF IInv, Typed
    <3>6. ASSUME Holding, NEW k, k = entries[flusher.entry].key, WrittenOnce(k)'
          PROVE  /\ Cached(flusher.entry)' <=> Cached(flusher.entry)
                 /\ Cached(flusher.entry) =>
                       IF flusher.pc = "write" THEN flusher.data = entries'[flusher.entry].data
                                               ELSE OnDisk(k, entries'[flusher.entry].data)
                 /\ ~Cached(flusher.entry) =>
                       /\ flusher.pc = "write" => OnDisk(k, flusher.data)
                       /\ cache[k] # Null => OnDisk(k, entries'[cache[k]].data)
      BY <3>1, <3>2, <3>4, <3>6 DEF IInv, Safe, FlusherSafe, Cached, OnDisk
    <3> QED
      BY <3>3, <3>4, <3>5, <3>6 DEF FlusherSafe, Cached, OnDisk
  <2>3. ClientSafe'
    BY <1>2 DEF ClientSafe, Evicting, At
  <2> QED
    BY <2>1, <2>2, <2>3 DEF Safe
<1> QED
  BY <1>7, <1>8, <1>9 DEF IInv

(* The client's step from the queue and back to it.                         *)
LEMMA QueueSteps ==
  ASSUME IInv, Dequeue \/ Enqueue
  PROVE  IInv'
<1> PICK e : e = client.entry
  OBVIOUS
<1>1. /\ UNCHANGED <<disk, cache, entries, cachePriority, writes, failures, setup>>
      /\ client.pc \in {"dequeue", "enqueue"} /\ e \in Entry /\ Cached(e) /\ Written(e)
      /\ client' \in ClientType
      /\ flusher' \in FlusherType /\ flusher'.entry = flusher.entry /\ flusher'.data = flusher.data
      /\ Holding' <=> Holding
      /\ Holding => flusher'.pc = flusher.pc
  <2>1. /\ UNCHANGED <<disk, cache, entries, cachePriority, writes, failures, setup>>
        /\ client.pc \in {"dequeue", "enqueue"}
    BY DEF Dequeue, Enqueue, At, medium, clientOwn, calls
  <2>2. e \in Entry /\ Cached(e) /\ Written(e)
    BY <2>1 DEF IInv, Typed, Placed, OldPlaced, Queueing
  <2>3. \/ client' = [client EXCEPT !.pc = "enqueue"]
        \/ client' = [pc |-> "idle", key |-> Null, entry |-> Null, victim |-> Null, reading |-> FALSE]
    <3>1. Dequeue => client' = [client EXCEPT !.pc = "enqueue"]
      BY DEF Dequeue, Go
    <3>2. Enqueue => client' = [pc |-> "idle", key |-> Null, entry |-> Null, victim |-> Null,
                                reading |-> FALSE]
      BY DEF Enqueue, Idle
    <3> QED
      BY <3>1, <3>2
  <2>4. client' \in ClientType
    <3>1. [client EXCEPT !.pc = "enqueue"] \in ClientType
      BY DEF IInv, Typed, ClientType
    <3>2. [pc |-> "idle", key |-> Null, entry |-> Null, victim |-> Null, reading |-> FALSE]
             \in ClientType
      BY DEF ClientType
    <3> QED
      BY <2>3, <3>1, <3>2
  <2>5. \/ flusher' = flusher
        \/ flusher.pc = "waiting" /\ flusher' = [flusher EXCEPT !.pc = "check"]
    BY DEF Dequeue, Enqueue, Woken, waiting
  <2>6. /\ flusher' \in FlusherType /\ flusher'.entry = flusher.entry /\ flusher'.data = flusher.data
        /\ Holding' <=> Holding
        /\ Holding => flusher'.pc = flusher.pc
    BY <2>5 DEF IInv, Typed, FlusherType, Holding
  <2> QED
    BY <2>1, <2>2, <2>4, <2>6
<1>2. /\ writeSequences \in Seq(Entry)
      /\ \A i, j \in 1..Len(writeSequences) : writeSequences[i] = writeSequences[j] => i = j
      /\ \A i \in 1..Len(writeSequences) : Cached(writeSequences[i]) /\ Written(writeSequences[i])
  BY DEF IInv, Typed, Placed, QueuePlaced
<1>3. /\ \/ client'.pc = "enqueue" /\ client'.entry = e
         \/ client'.pc = "idle"
      /\ writeSequences' \in Seq(Entry)
      /\ \A i, j \in 1..Len(writeSequences') : writeSequences'[i] = writeSequences'[j] => i = j
      /\ \A i \in 1..Len(writeSequences') :
            Cached(writeSequences'[i]) /\ Written(writeSequences'[i])
      /\ client'.pc = "enqueue" =>
            \A i \in 1..Len(writeSequences') : writeSequences'[i] # e
      /\ \A x \in Entry \ {e} : Queued(x) => Queued(x)'
      /\ Queued(e)' \/ client'.pc = "enqueue"
  <2>1. CASE Dequeue
    <3>1. /\ writeSequences' = Without(writeSequences, e)
          /\ client'.pc = "enqueue" /\ client'.entry = e
      BY <2>1 DEF Dequeue, Go, IInv, Typed, ClientType
    <3> PICK w : w = Without(writeSequences, e)
      OBVIOUS
    <3>2. /\ w \in Seq(Entry)
          /\ \A i \in 1..Len(w) : \E j \in 1..Len(writeSequences) :
                w[i] = writeSequences[j] /\ writeSequences[j] # e
          /\ \A j \in 1..Len(writeSequences) : writeSequences[j] # e =>
                \E i \in 1..Len(w) : w[i] = writeSequences[j]
          /\ \A i, j \in 1..Len(w) : w[i] = w[j] => i = j
      <4>1. Leaves(w, writeSequences, e)
        BY TakenOut DEF IInv
      <4> QED
        BY <4>1 DEF Leaves
    <3>3. \A i \in 1..Len(w) : Cached(w[i]) /\ Written(w[i])
      BY <1>2, <3>2
    <3>4. writeSequences' = w
      BY <3>1
    <3>5. ASSUME NEW x \in Entry \ {e}, Queued(x) PROVE Queued(x)'
      <4>1. PICK j \in 1..Len(writeSequences) : writeSequences[j] = x
        BY <3>5 DEF Queued
      <4>2. PICK i \in 1..Len(w) : w[i] = x
        BY <3>2, <3>5, <4>1
      <4> QED
        BY <3>4, <4>2 DEF Queued
    <3>6. \A i \in 1..Len(w) : w[i] # e
      BY <3>2
    <3>7. client'.pc = "enqueue" /\ client'.entry = e
      BY <3>1
    <3> QED
      BY <3>2, <3>3, <3>4, <3>5, <3>6, <3>7
  <2>2. CASE Enqueue
    <3>1. /\ writeSequences' = Append(writeSequences, e)
          /\ client'.pc = "idle"
          /\ \A i \in 1..Len(writeSequences) : writeSequences[i] # e
      BY <2>2 DEF Enqueue, Idle, IInv, Placed, OldPlaced, At
    <3>2. /\ Len(writeSequences') = Len(writeSequences) + 1
          /\ Len(writeSequences) \in Nat
          /\ writeSequences'[Len(writeSequences) + 1] = e
          /\ \A i \in 1..Len(writeSequences) : writeSequences'[i] = writeSequences[i]
      BY <1>1, <1>2, <3>1
    <3>3. \A i \in 1..Len(writeSequences') :
             i \in 1..Len(writeSequences) \/ i = Len(writeSequences) + 1
      BY <3>2
    <3>4. writeSequences' \in Seq(Entry)
      BY <1>1, <1>2, <3>1
    <3>5. \A i, j \in 1..Len(writeSequences') : writeSequences'[i] = writeSequences'[j] => i = j
      BY <1>2, <3>1, <3>2, <3>3
    <3>6. \A i \in 1..Len(writeSequences') :
             Cached(writeSequences'[i]) /\ Written(writeSequences'[i])
      BY <1>1, <1>2, <3>2, <3>3
    <3>7. /\ \A x \in Entry \ {e} : Queued(x) => Queued(x)'
          /\ Queued(e)'
      <4>1. /\ Len(writeSequences) + 1 \in 1..Len(writeSequences')
            /\ \A i \in 1..Len(writeSequences) : i \in 1..Len(writeSequences')
        BY <3>2
      <4> QED
        BY <3>2, <4>1 DEF Queued
    <3> QED
      BY <3>1, <3>4, <3>5, <3>6, <3>7
  <2> QED
    BY <2>1, <2>2
<1>4. Typed'
  BY <1>1, <1>3 DEF IInv, Typed, Evicting, Queueing, HasVictim, Holding, At
<1>5. Placed'
  <2>1. MapPlaced' /\ FlusherPlaced'
    BY <1>1 DEF IInv, Placed, MapPlaced, FlusherPlaced, Holding, Cached, Written
  <2>2. QueuePlaced'
    BY <1>1, <1>3 DEF QueuePlaced, Cached, Written
  <2>3. NewPlaced' /\ OldPlaced'
    BY <1>1, <1>3 DEF NewPlaced, OldPlaced, Evicting, Queueing, HasVictim, At, Cached, Written
  <2> QED
    BY <2>1, <2>2, <2>3 DEF Placed
<1>6. Safe'
  <2>1. ASSUME NEW x \in Entry, Pending(x) PROVE Pending(x)'
    BY <1>1, <1>3, <2>1 DEF Pending, Queueing, Holding
  <2>2. CachedSafe'
    BY <1>1, <2>1 DEF IInv, Typed, Safe, CachedSafe, WrittenOnce, OnDisk
  <2>3. FlusherSafe' /\ ClientSafe'
    BY <1>1, <1>3
    DEF IInv, Safe, FlusherSafe, ClientSafe, Evicting, At, Holding, Cached, WrittenOnce, OnDisk
  <2> QED
    BY <2>2, <2>3 DEF Safe
<1> QED
  BY <1>4, <1>5, <1>6 DEF IInv

(* A victim's bytes reach the disk before it leaves the map.                *)
LEMMA EvictWriteStep ==
  ASSUME IInv, EvictWrite
  PROVE  IInv'
<1> PICK v : v = client.victim
  OBVIOUS
<1> PICK k : k = entries[v].key
  OBVIOUS
<1>1. /\ UNCHANGED <<cache, entries, writeSequences, cachePriority, flusher, writes, setup>>
      /\ client.pc = "evictWrite" /\ client' = [client EXCEPT !.pc = "evictRemove"]
  BY DEF EvictWrite, Fails, At, Go, clientOwn, waiting, calls
<1>2. /\ client' \in ClientType /\ client'.pc = "evictRemove" /\ client'.victim = v
      /\ client'.key = client.key /\ client'.entry = client.entry
      /\ client'.reading = client.reading
  BY <1>1 DEF IInv, Typed, ClientType
<1>3. /\ v \in Entry /\ k \in Key /\ cache[k] = v /\ cache[k] # Null
      /\ entries[v].data \in Seq(Nat) /\ disk \in [Key -> Cell]
      /\ cache[client.key] = Null /\ client.key \in Key /\ client.key # k
  <2>1. /\ v \in Entry /\ Cached(v) /\ client.key \in Key /\ cache[client.key] = Null
        /\ disk \in [Key -> Cell]
    BY <1>1 DEF IInv, Typed, Placed, OldPlaced, NewPlaced, HasVictim, Evicting
  <2>2. v # Null
    BY <2>1, ActionThreadAssumption DEF ActionThreadAssumption
  <2>3. entries[v].data \in Seq(Nat)
    BY <2>1 DEF IInv, Typed, CacheDataType
  <2> QED
    BY <2>1, <2>2, <2>3 DEF Cached
<1>4. Placed'
  BY <1>1, <1>2 DEF IInv,
     Placed, MapPlaced, QueuePlaced, FlusherPlaced, NewPlaced, OldPlaced,
     Evicting, Queueing, HasVictim, At, Holding, Cached, Written
<1>5. CASE Fails
  <2>1. UNCHANGED disk /\ failures' = failures + 1 /\ failures \in Nat
    BY <1>5 DEF Fails, IInv, Typed
  <2>2. Typed'
    BY <1>1, <1>2, <2>1 DEF IInv, Typed, Evicting, Queueing, HasVictim, Holding, At
  <2>3. Safe'
    BY <2>1 DEF Safe, CachedSafe, FlusherSafe, ClientSafe, WrittenOnce
  <2> QED
    BY <1>4, <2>2, <2>3 DEF IInv
<1>6. CASE /\ disk' = [disk EXCEPT ![k] = Overlay(@, entries[v].data)]
           /\ UNCHANGED <<failures, setup>>
  <2>1. /\ disk' \in [Key -> Cell] /\ OnDisk(k, entries[v].data)'
        /\ \A key \in Key \ {k} : disk'[key] = disk[key]
        /\ OnDisk(k, entries[v].data) => disk' = disk
    BY <1>1, <1>3, <1>6, OverlayTwice DEF OnDisk
  <2>2. Typed'
    BY <1>1, <1>2, <1>6, <2>1 DEF IInv, Typed, Evicting, Queueing, HasVictim, Holding, At
  <2>3. CachedSafe'
    <3>1. ASSUME NEW x, Pending(x) PROVE Pending(x)'
      BY <1>1, <3>1 DEF Pending, Queued, Queueing
    <3> QED
      BY <1>1, <1>3, <1>6, <2>1, <3>1 DEF IInv, Safe, CachedSafe, WrittenOnce, OnDisk
  <2>4. FlusherSafe'
    <3>1. ASSUME Holding, NEW key, key = entries[flusher.entry].key, WrittenOnce(key),
                 Cached(flusher.entry)
          PROVE  IF flusher.pc = "write" THEN flusher.data = entries[flusher.entry].data
                                         ELSE OnDisk(key, entries[flusher.entry].data)'
      <4>1. key \in Key /\ cache[key] = flusher.entry
        BY <3>1 DEF Cached
      <4>2. CASE key = k
        BY <1>1, <1>3, <2>1, <3>1, <4>1, <4>2 DEF IInv, Safe, FlusherSafe, OnDisk
      <4>3. CASE key # k
        BY <1>1, <2>1, <3>1, <4>1, <4>3 DEF IInv, Safe, FlusherSafe, OnDisk
      <4> QED
        BY <4>2, <4>3
    <3>2. ASSUME Holding, NEW key, key = entries[flusher.entry].key, WrittenOnce(key),
                 ~Cached(flusher.entry)
          PROVE  /\ flusher.pc = "write" => OnDisk(key, flusher.data)'
                 /\ cache[key] # Null => OnDisk(key, entries[cache[key]].data)'
      <4>1. key \in Key
        BY <3>2 DEF IInv, Typed
      <4>2. /\ flusher.pc = "write" => OnDisk(key, flusher.data)
            /\ cache[key] # Null => OnDisk(key, entries[cache[key]].data)
        BY <3>2 DEF IInv, Safe, FlusherSafe
      <4>3. disk'[key] = disk[key]
        BY <1>3, <2>1, <4>1, <4>2
      <4> QED
        BY <1>1, <4>2, <4>3 DEF OnDisk
    <3> QED
      BY <1>1, <1>6, <3>1, <3>2 DEF FlusherSafe, Holding, Cached, WrittenOnce, OnDisk
  <2>5. ClientSafe'
    BY <1>1, <1>2, <1>3, <1>6, <2>1
    DEF IInv, Safe, ClientSafe, Evicting, At, Holding, WrittenOnce, OnDisk
  <2> QED
    BY <1>4, <2>2, <2>3, <2>4, <2>5 DEF IInv, Safe
<1> QED
  BY <1>5, <1>6 DEF EvictWrite

(* A victim leaves the map, if it is the map of its own file, and the queue.*)
LEMMA EvictRemoveStep ==
  ASSUME IInv, EvictRemove
  PROVE  IInv'
<1> PICK v : v = client.victim
  OBVIOUS
<1> PICK k : k = entries[v].key
  OBVIOUS
<1>1. /\ UNCHANGED <<disk, entries, cachePriority, flusher, writes, failures, setup>>
      /\ client.pc = "evictRemove"
      /\ client' = [client EXCEPT !.pc = "evict", !.victim = Null]
      /\ writeSequences' = Without(writeSequences, v)
      /\ cache' = cache \/ cache' = [cache EXCEPT ![k] = Null]
  BY DEF EvictRemove, At, medium, waiting, calls
<1>2. /\ client' \in ClientType /\ client'.pc = "evict"
      /\ client'.key = client.key /\ client'.entry = client.entry
      /\ client'.reading = client.reading
  BY <1>1 DEF IInv, Typed, ClientType
<1>3. /\ v \in Entry /\ k \in Key /\ cache[k] = v /\ v \notin cachePriority
      /\ cache \in [Key -> Entry \cup {Null}]
      /\ WrittenOnce(k) => OnDisk(k, entries[v].data)
  BY <1>1 DEF IInv, Typed, Placed, OldPlaced, HasVictim, Safe, ClientSafe, At, Cached
<1>4. /\ cache' \in [Key -> Entry \cup {Null}]
      /\ \A key \in Key : cache'[key] = cache[key] \/ (key = k /\ cache'[key] = Null)
      /\ \A key \in Key : cache[key] = Null => cache'[key] = Null
  <2>1. CASE cache' = cache
    BY <1>3, <2>1
  <2>2. CASE cache' = [cache EXCEPT ![k] = Null]
    BY <1>3, <2>2
  <2> QED
    BY <1>1, <2>1, <2>2
<1> PICK w : w = Without(writeSequences, v)
  OBVIOUS
<1>5. /\ w \in Seq(Entry)
      /\ \A i \in 1..Len(w) : \E j \in 1..Len(writeSequences) :
            w[i] = writeSequences[j] /\ writeSequences[j] # v
      /\ \A j \in 1..Len(writeSequences) : writeSequences[j] # v =>
            \E i \in 1..Len(w) : w[i] = writeSequences[j]
      /\ \A i, j \in 1..Len(w) : w[i] = w[j] => i = j
  <2>1. Leaves(w, writeSequences, v)
    BY TakenOut DEF IInv
  <2> QED
    BY <2>1 DEF Leaves
<1>6. writeSequences' = w
  BY <1>1
<1>7. \A x \in Entry \ {v} : Cached(x) => Cached(x)'
  BY <1>1, <1>3, <1>4 DEF Cached
<1>8. Typed'
  BY <1>1, <1>2, <1>4, <1>5, <1>6 DEF IInv, Typed, Evicting, Queueing, HasVictim, Holding, At
<1>9. Placed'
  <2>1. MapPlaced'
    <3>1. \A key \in Key : cache'[key] # Null => entries[cache'[key]].key = key
      BY <1>4 DEF IInv, Placed, MapPlaced
    <3>2. \A x \in cachePriority : Cached(x)'
      BY <1>3, <1>7 DEF IInv, Typed, Placed, MapPlaced
    <3> QED
      BY <1>1, <3>1, <3>2 DEF MapPlaced, Cached
  <2>2. QueuePlaced'
    <3>1. \A i \in 1..Len(w) : w[i] \in Entry \ {v} /\ Cached(w[i]) /\ Written(w[i])
      BY <1>5 DEF IInv, Typed, Placed, QueuePlaced
    <3>2. \A i \in 1..Len(w) : entries[w[i]].key \in Key /\ cache'[entries[w[i]].key] = w[i]
      BY <1>3, <1>4, <3>1 DEF Cached
    <3> QED
      BY <1>1, <1>5, <1>6, <3>1, <3>2 DEF QueuePlaced, Cached, Written
  <2>3. FlusherPlaced'
    BY <1>1 DEF IInv, Placed, FlusherPlaced, Holding, Written
  <2>4. NewPlaced' /\ OldPlaced'
    BY <1>1, <1>2, <1>4 DEF IInv, Typed, Placed, NewPlaced, OldPlaced,
       Evicting, Queueing, HasVictim, At, Holding, Written
  <2> QED
    BY <2>1, <2>2, <2>3, <2>4 DEF Placed
<1>10. Safe'
  <2>1. CachedSafe'
    <3>1. ASSUME NEW x \in Entry \ {v}, Pending(x) PROVE Pending(x)'
      <4>1. ~Queueing
        BY <1>1 DEF Queueing
      <4>2. Queued(x) => Queued(x)'
        BY <1>5, <1>6 DEF Queued
      <4> QED
        BY <1>1, <3>1, <4>1, <4>2 DEF Pending
    <3>2. ASSUME NEW key \in Key, WrittenOnce(key), cache'[key] # Null
          PROVE  OnDisk(key, entries[cache'[key]].data) \/ Pending(cache[key])'
      <4>1. cache'[key] = cache[key] /\ cache[key] \in Entry
        BY <1>4, <3>2 DEF IInv, Typed
      <4>2. CASE key = k
        BY <1>3, <3>2, <4>1, <4>2
      <4>3. CASE key # k
        <5>1. cache[key] # v
          BY <1>3, <3>2, <4>1, <4>3 DEF IInv, Placed, MapPlaced
        <5>2. OnDisk(key, entries[cache[key]].data) \/ Pending(cache[key])
          BY <3>2, <4>1 DEF IInv, Safe, CachedSafe
        <5> QED
          BY <1>1, <3>1, <4>1, <5>1, <5>2
      <4> QED
        BY <4>2, <4>3
    <3> QED
      BY <1>1, <3>2 DEF CachedSafe, WrittenOnce, OnDisk
  <2>2. FlusherSafe'
    <3>1. ASSUME Holding, NEW key, key = entries[flusher.entry].key, WrittenOnce(key)
          PROVE  IF cache'[key] = flusher.entry
                 THEN IF flusher.pc = "write" THEN flusher.data = entries[flusher.entry].data
                                              ELSE OnDisk(key, entries[flusher.entry].data)
                 ELSE /\ flusher.pc = "write" => OnDisk(key, flusher.data)
                      /\ cache'[key] # Null => OnDisk(key, entries[cache'[key]].data)
      <4>1. flusher.entry \in Entry /\ key \in Key /\ flusher.entry # Null
        BY <3>1, ActionThreadAssumption DEF IInv, Typed, ActionThreadAssumption
      <4>2. CASE cache'[key] = cache[key]
        BY <3>1, <4>1, <4>2 DEF IInv, Safe, FlusherSafe, Cached
      <4>3. CASE key = k /\ cache'[key] = Null
        BY <1>3, <3>1, <4>1, <4>3 DEF IInv, Safe, FlusherSafe, Cached
      <4> QED
        BY <1>4, <4>1, <4>2, <4>3
    <3>2. Holding => entries[flusher.entry].key \in Key
      BY DEF IInv, Typed
    <3> QED
      BY <1>1, <3>1, <3>2 DEF FlusherSafe, Holding, Cached, WrittenOnce, OnDisk
  <2>3. ClientSafe'
    BY <1>1, <1>2 DEF IInv, Safe, ClientSafe, Evicting, At, Holding, WrittenOnce, OnDisk
  <2> QED
    BY <2>1, <2>2, <2>3 DEF Safe
<1> QED
  BY <1>8, <1>9, <1>10 DEF IInv

(* A new object enters the map.                                             *)
LEMMA InsertStep ==
  ASSUME IInv, Insert
  PROVE  IInv'
<1> PICK e : e = client.entry
  OBVIOUS
<1> PICK k : k = client.key
  OBVIOUS
<1>1. /\ UNCHANGED <<disk, entries, writeSequences, flusher, writes, failures, setup>>
      /\ client.pc = "evict"
      /\ cachePriority' = cachePriority \cup {e}
      /\ cache' = [cache EXCEPT ![k] = e]
      /\ IF client.reading THEN client' = Idle ELSE client' = [client EXCEPT !.pc = "enqueue"]
  BY DEF Insert, At, Go, medium, waiting
<1>2. /\ e \in Entry /\ k \in Key /\ cache[k] = Null /\ entries[e].key = k
      /\ cache \in [Key -> Entry \cup {Null}]
      /\ Holding => flusher.entry # e
      /\ ~client.reading => writes[k] > 0
  BY <1>1 DEF IInv, Typed, Placed, NewPlaced, Evicting, At, Written
<1>3. /\ client' \in ClientType /\ client'.pc \in {"idle", "enqueue"}
      /\ client.reading => client'.pc = "idle"
      /\ ~client.reading => client'.pc = "enqueue" /\ client'.entry = e
  <2>1. CASE client.reading
    <3>1. client' = [pc |-> "idle", key |-> Null, entry |-> Null, victim |-> Null, reading |-> FALSE]
      BY <1>1, <2>1 DEF Idle
    <3>2. client' \in ClientType /\ client'.pc = "idle"
      BY <3>1 DEF ClientType
    <3> QED
      BY <2>1, <3>2
  <2>2. CASE ~client.reading
    BY <1>1, <2>2 DEF IInv, Typed, ClientType
  <2> QED
    BY <2>1, <2>2
<1>4. /\ cache' \in [Key -> Entry \cup {Null}] /\ cache'[k] = e /\ e # Null
      /\ \A key \in Key \ {k} : cache'[key] = cache[key]
  BY <1>1, <1>2, ActionThreadAssumption DEF ActionThreadAssumption
<1>5. \A x \in Entry : Cached(x) => entries[x].key \in Key \ {k} /\ x # e
  BY <1>2, ActionThreadAssumption DEF Cached, ActionThreadAssumption
<1>6. Typed'
  BY <1>1, <1>2, <1>3, <1>4 DEF IInv, Typed, Evicting, Queueing, HasVictim, Holding, At
<1>7. Placed'
  <2>1. MapPlaced'
    <3>1. \A key \in Key : cache'[key] # Null => entries[cache'[key]].key = key
      BY <1>2, <1>4 DEF IInv, Placed, MapPlaced
    <3>2. \A x \in cachePriority \cup {e} : entries[x].key \in Key /\ cache'[entries[x].key] = x
      BY <1>2, <1>4, <1>5 DEF IInv, Typed, Placed, MapPlaced, Cached
    <3> QED
      BY <1>1, <3>1, <3>2 DEF MapPlaced, Cached
  <2>2. QueuePlaced'
    <3>1. \A i \in 1..Len(writeSequences) : writeSequences[i] \in Entry /\ Cached(writeSequences[i])
      <4>1. \A i \in 1..Len(writeSequences) : writeSequences[i] \in Entry
        BY DEF IInv, Typed
      <4> QED
        BY <4>1 DEF IInv, Placed, QueuePlaced
    <3>2. \A i \in 1..Len(writeSequences) :
             /\ entries[writeSequences[i]].key \in Key
             /\ cache'[entries[writeSequences[i]].key] = writeSequences[i]
      BY <1>4, <1>5, <3>1 DEF Cached
    <3> QED
      BY <1>1, <3>2 DEF IInv, Placed, QueuePlaced, Cached, Written
  <2>3. FlusherPlaced' /\ NewPlaced'
    BY <1>1, <1>3 DEF IInv, Placed, FlusherPlaced, NewPlaced, Holding, Written, Evicting, At
  <2>4. OldPlaced'
    <3>1. \A i \in 1..Len(writeSequences) : writeSequences[i] # e
      BY <1>5 DEF IInv, Typed, Placed, QueuePlaced
    <3>2. client'.pc = "enqueue" => client'.entry = e /\ writes[k] > 0
      BY <1>2, <1>3
    <3> QED
      BY <1>1, <1>2, <1>3, <1>4, <3>1, <3>2
      DEF OldPlaced, Queueing, HasVictim, At, Cached, Written
  <2> QED
    BY <2>1, <2>2, <2>3, <2>4 DEF Placed
<1>8. WrittenOnce(k) /\ client.reading => OnDisk(k, entries[e].data)
  BY <1>1 DEF IInv, Safe, ClientSafe, Evicting
<1>9. Safe'
  <2>1. CachedSafe'
    <3>1. ASSUME NEW x, Pending(x) PROVE Pending(x)'
      BY <1>1, <3>1 DEF Pending, Queued, Queueing
    <3>2. WrittenOnce(k) => OnDisk(k, entries[e].data) \/ Pending(e)'
      <4>1. CASE client.reading
        BY <1>8, <4>1
      <4>2. CASE ~client.reading
        BY <1>3, <4>2 DEF Pending, Queueing
      <4> QED
        BY <4>1, <4>2
    <3>3. ASSUME NEW key \in Key \ {k}, WrittenOnce(key), NEW x, x = cache[key], x # Null
          PROVE  OnDisk(key, entries[x].data) \/ Pending(x)'
      BY <3>1, <3>3 DEF IInv, Safe, CachedSafe
    <3> QED
      BY <1>1, <1>4, <3>2, <3>3 DEF CachedSafe, WrittenOnce, OnDisk
  <2>2. FlusherSafe'
    <3>1. ASSUME Holding, NEW key, key = entries[flusher.entry].key, WrittenOnce(key)
          PROVE  IF cache'[key] = flusher.entry
                 THEN IF flusher.pc = "write" THEN flusher.data = entries[flusher.entry].data
                                              ELSE OnDisk(key, entries[flusher.entry].data)
                 ELSE /\ flusher.pc = "write" => OnDisk(key, flusher.data)
                      /\ cache'[key] # Null => OnDisk(key, entries[cache'[key]].data)
      <4>1. flusher.entry \in Entry /\ key \in Key /\ flusher.entry # Null /\ flusher.entry # e
        BY <1>2, <3>1, ActionThreadAssumption DEF IInv, Typed, ActionThreadAssumption
      <4>2. CASE key # k
        BY <1>4, <3>1, <4>1, <4>2 DEF IInv, Safe, FlusherSafe, Cached
      <4>3. CASE key = k
        <5>1. client.reading
          BY <1>1, <3>1, <4>3 DEF IInv, Safe, ClientSafe, Evicting
        <5>2. flusher.pc = "write" => OnDisk(key, flusher.data)
          BY <1>2, <3>1, <4>1, <4>3 DEF IInv, Safe, FlusherSafe, Cached
        <5> QED
          BY <1>4, <1>8, <3>1, <4>1, <4>3, <5>1, <5>2
      <4> QED
        BY <4>2, <4>3
    <3>2. Holding => entries[flusher.entry].key \in Key
      BY DEF IInv, Typed
    <3> QED
      BY <1>1, <3>1, <3>2 DEF FlusherSafe, Holding, Cached, WrittenOnce, OnDisk
  <2>3. ClientSafe'
    BY <1>3 DEF ClientSafe, Evicting, At
  <2> QED
    BY <2>1, <2>2, <2>3 DEF Safe
<1> QED
  BY <1>6, <1>7, <1>9 DEF IInv

-----------------------------------------------------------------------------
(* The flusher's steps.                                                     *)

(* Steps that leave the map, the queue and the disk alone.                  *)
LEMMA FlusherMoves ==
  ASSUME IInv, FlushCheck \/ FlushWait \/ FlushGet
  PROVE  IInv'
<1>1. /\ UNCHANGED <<disk, cache, entries, writeSequences, cachePriority, client,
                     writes, failures, setup>>
      /\ flusher.pc \in {"check", "wait", "get"}
  BY DEF FlushCheck, FlushWait, FlushGet, FlusherGo, medium, clientOwn, calls
<1>2. \/ /\ flusher' \in FlusherType /\ flusher'.pc \in {"get", "wait", "waiting", "check"}
      \/ /\ FlushGet /\ writeSequences # <<>>
         /\ flusher' = [pc |-> "write", entry |-> Head(writeSequences),
                        data |-> entries[Head(writeSequences)].data]
  <2>1. CASE FlushCheck \/ FlushWait
    BY <2>1 DEF FlushCheck, FlushWait, FlusherGo, IInv, Typed, FlusherType
  <2>2. CASE FlushGet
    BY <2>2 DEF FlushGet, IInv, Typed, FlusherType
  <2> QED
    BY <2>1, <2>2
<1>3. ASSUME NEW x, Pending(x) PROVE Pending(x)'
  BY <1>1, <1>3 DEF Pending, Queued, Queueing
<1>4. CachedSafe'
  BY <1>1, <1>3 DEF IInv, Safe, CachedSafe, WrittenOnce, OnDisk
<1>5. MapPlaced' /\ QueuePlaced' /\ OldPlaced'
  BY <1>1 DEF IInv, Placed, MapPlaced, QueuePlaced, OldPlaced, Cached, Written,
     Queueing, HasVictim, At
<1>6. CASE flusher' \in FlusherType /\ flusher'.pc \in {"get", "wait", "waiting", "check"}
  <2>1. ~Holding'
    BY <1>6 DEF Holding
  <2>2. Typed'
    BY <1>1, <1>6, <2>1 DEF IInv, Typed, Evicting, Queueing, HasVictim, At
  <2>3. FlusherPlaced' /\ NewPlaced'
    BY <1>1, <2>1 DEF IInv, Placed, FlusherPlaced, NewPlaced, Evicting, At, Written
  <2>4. FlusherSafe' /\ ClientSafe'
    BY <1>1, <2>1 DEF IInv, Safe, FlusherSafe, ClientSafe, Evicting, At, WrittenOnce, OnDisk
  <2> QED
    BY <1>4, <1>5, <2>2, <2>3, <2>4 DEF IInv, Placed, Safe
<1>7. CASE /\ FlushGet /\ writeSequences # <<>>
           /\ flusher' = [pc |-> "write", entry |-> Head(writeSequences),
                          data |-> entries[Head(writeSequences)].data]
  <2>1. PICK e \in Entry : e = writeSequences[1] /\ Cached(e) /\ Written(e)
    BY <1>7 DEF IInv, Typed, Placed, QueuePlaced
  <2>2. /\ flusher' = [pc |-> "write", entry |-> e, data |-> entries[e].data]
        /\ entries[e].data \in Seq(Nat)
    BY <1>7, <2>1 DEF IInv, Typed, CacheDataType
  <2>3. flusher' \in FlusherType /\ flusher'.pc = "write" /\ flusher'.entry = e
        /\ flusher'.data = entries[e].data
    BY <2>2 DEF FlusherType
  <2>4. Evicting => cache[client.key] = Null /\ client.key # entries[e].key
    <3>1. e # Null /\ cache[entries[e].key] = e
      BY <2>1, ActionThreadAssumption DEF Cached, ActionThreadAssumption
    <3> QED
      BY <3>1 DEF IInv, Placed, NewPlaced
  <2>5. Typed'
    <3>1. entries[e].key \in Key
      BY <2>1 DEF Cached
    <3> QED
      BY <1>1, <2>2, <2>3, <3>1 DEF IInv, Typed, Evicting, Queueing, HasVictim, At, Holding
  <2>6. FlusherPlaced' /\ NewPlaced'
    BY <1>1, <2>1, <2>3, <2>4
    DEF IInv, Placed, FlusherPlaced, NewPlaced, Evicting, At, Written, Holding
  <2>7. FlusherSafe' /\ ClientSafe'
    BY <1>1, <2>1, <2>3, <2>4
    DEF IInv, Safe, FlusherSafe, ClientSafe, Evicting, At, WrittenOnce, OnDisk, Cached, Holding
  <2> QED
    BY <1>4, <1>5, <2>5, <2>6, <2>7 DEF IInv, Placed, Safe
<1> QED
  BY <1>2, <1>6, <1>7

(* What the flusher writes is on disk then; an object that left the map     *)
(* meanwhile changes nothing there.                                         *)
LEMMA FlushWriteStep ==
  ASSUME IInv, FlushWrite
  PROVE  IInv'
<1> PICK e : e = flusher.entry
  OBVIOUS
<1> PICK k : k = entries[e].key
  OBVIOUS
<1> PICK d : d = flusher.data
  OBVIOUS
<1>1. /\ UNCHANGED <<cache, entries, writeSequences, cachePriority, client, writes, setup>>
      /\ flusher.pc = "write"
  BY DEF FlushWrite, Fails, clientOwn, calls
<1>2. /\ e \in Entry /\ k \in Key /\ d \in Seq(Nat) /\ disk \in [Key -> Cell]
      /\ Written(e) /\ Holding
  BY <1>1 DEF IInv, Typed, Placed, FlusherPlaced, Holding
<1>3. MapPlaced' /\ QueuePlaced' /\ OldPlaced'
  BY <1>1 DEF IInv, Placed, MapPlaced, QueuePlaced, OldPlaced, Cached, Written,
     Queueing, HasVictim, At
<1>4. CASE Fails /\ flusher' = [pc |-> "check", entry |-> Null, data |-> Null]
  <2>1. UNCHANGED disk /\ failures' = failures + 1 /\ failures \in Nat
    BY <1>4 DEF Fails, IInv, Typed
  <2>2. flusher' \in FlusherType /\ flusher'.pc = "check" /\ ~Holding'
    BY <1>4 DEF FlusherType, Holding
  <2>3. Typed'
    BY <1>1, <2>1, <2>2 DEF IInv, Typed, Evicting, Queueing, HasVictim, At
  <2>4. FlusherPlaced' /\ NewPlaced'
    BY <1>1, <2>2 DEF IInv, Placed, FlusherPlaced, NewPlaced, Evicting, At, Written
  <2>5. Safe'
    BY <2>1 DEF Safe, CachedSafe, FlusherSafe, ClientSafe, WrittenOnce
  <2> QED
    BY <1>3, <2>3, <2>4, <2>5 DEF IInv, Placed
<1>5. CASE /\ disk' = [disk EXCEPT ![k] = Overlay(@, d)]
           /\ flusher' = [flusher EXCEPT !.pc = "clean", !.data = Null]
           /\ UNCHANGED failures
  <2>1. flusher' \in FlusherType /\ flusher'.pc = "clean" /\ flusher'.entry = e
    BY <1>5 DEF IInv, Typed, FlusherType
  <2>2. /\ disk' \in [Key -> Cell] /\ OnDisk(k, d)'
        /\ \A key \in Key \ {k} : disk'[key] = disk[key]
        /\ disk'[k] = Overlay(disk[k], d)
        /\ OnDisk(k, d) => disk' = disk
    <3>1. Overlay(disk[k], d) \in Cell
      BY <1>2, OverlayTwice
    <3>2. disk'[k] = Overlay(disk[k], d)
      BY <1>2, <1>5
    <3>3. Overlay(disk'[k], d) = disk'[k]
      BY <1>2, <3>2, OverlayTwice
    <3> QED
      BY <1>2, <1>5, <3>1, <3>2, <3>3 DEF OnDisk
  <2>3. WrittenOnce(k) =>
           IF cache[k] = e THEN d = entries[e].data
                           ELSE disk' = disk
    BY <1>1, <1>2, <2>2 DEF IInv, Safe, FlusherSafe, Cached
  <2>4. Typed'
    BY <1>1, <1>2, <1>5, <2>1, <2>2 DEF IInv, Typed, Evicting, Queueing, HasVictim, At, Holding
  <2>5. FlusherPlaced' /\ NewPlaced'
    BY <1>1, <1>2, <2>1
    DEF IInv, Placed, FlusherPlaced, NewPlaced, Evicting, At, Written, Holding
  <2>6. CachedSafe'
    <3>1. ASSUME NEW x, Pending(x), x # e PROVE Pending(x)'
      BY <1>1, <3>1 DEF Pending, Queued, Queueing
    <3>2. ASSUME NEW key \in Key, WrittenOnce(key), cache[key] # Null, cache[key] # e
          PROVE  OnDisk(key, entries[cache[key]].data)' \/ Pending(cache[key])'
      <4>1. OnDisk(key, entries[cache[key]].data) \/ Pending(cache[key])
        BY <3>2 DEF IInv, Safe, CachedSafe
      <4>2. disk'[key] = disk[key]
        BY <2>2, <2>3, <3>2
      <4> QED
        BY <1>1, <3>1, <3>2, <4>1, <4>2 DEF OnDisk
    <3>3. ASSUME NEW key \in Key, WrittenOnce(key), cache[key] = e, e # Null
          PROVE  OnDisk(key, entries[cache[key]].data)'
      <4>1. key = k
        BY <3>3 DEF IInv, Placed, MapPlaced
      <4>2. d = entries[e].data
        BY <2>3, <3>3, <4>1
      <4> QED
        BY <1>1, <2>2, <3>3, <4>1, <4>2 DEF OnDisk
    <3>4. \A key \in Key : WrittenOnce(key)' <=> WrittenOnce(key)
      BY <1>1, <1>5 DEF WrittenOnce
    <3> QED
      BY <1>1, <3>2, <3>3, <3>4 DEF CachedSafe, OnDisk
  <2>7. FlusherSafe'
    <3>1. ASSUME WrittenOnce(k), cache[k] = e PROVE OnDisk(k, entries[e].data)'
      BY <1>1, <2>2, <2>3, <3>1 DEF OnDisk
    <3>2. ASSUME WrittenOnce(k), cache[k] # e, cache[k] # Null
          PROVE  OnDisk(k, entries[cache[k]].data)'
      <4>1. OnDisk(k, entries[cache[k]].data)
        BY <1>2, <3>2 DEF IInv, Safe, FlusherSafe, Cached
      <4> QED
        BY <1>1, <2>3, <3>2, <4>1 DEF OnDisk
    <3> QED
      BY <1>1, <1>2, <1>5, <2>1, <3>1, <3>2 DEF FlusherSafe, Cached, WrittenOnce, OnDisk
  <2>8. ClientSafe'
    <3>1. ASSUME Evicting, WrittenOnce(client.key)
          PROVE  IF client.reading THEN OnDisk(client.key, entries[client.entry].data)'
                                   ELSE entries[e].key # client.key
      <4>1. /\ IF client.reading THEN OnDisk(client.key, entries[client.entry].data)
                                 ELSE entries[e].key # client.key
            /\ client.key \in Key /\ cache[client.key] = Null /\ e # Null
        BY <1>2, <3>1, ActionThreadAssumption
        DEF IInv, Typed, Placed, NewPlaced, Safe, ClientSafe, ActionThreadAssumption
      <4>2. disk'[client.key] = disk[client.key]
        BY <2>2, <2>3, <3>1, <4>1
      <4> QED
        BY <1>1, <4>1, <4>2 DEF OnDisk
    <3>2. ASSUME At("evictRemove"), NEW v, v = client.victim, NEW key, key = entries[v].key,
                 WrittenOnce(key)
          PROVE  OnDisk(key, entries[v].data)'
      <4>1. key \in Key /\ cache[key] = v /\ OnDisk(key, entries[v].data)
        BY <3>2 DEF IInv, Placed, OldPlaced, HasVictim, At, Cached, Safe, ClientSafe
      <4>2. disk'[key] = disk[key] \/ (key = k /\ v = e /\ d = entries[v].data)
        BY <2>2, <2>3, <3>2, <4>1
      <4> QED
        BY <1>1, <2>2, <4>1, <4>2 DEF OnDisk
    <3> QED
      BY <1>1, <1>5, <2>1, <3>1, <3>2 DEF ClientSafe, Evicting, At, WrittenOnce, OnDisk
  <2> QED
    BY <1>3, <2>4, <2>5, <2>6, <2>7, <2>8 DEF IInv, Placed, Safe
<1> QED
  BY <1>1, <1>4, <1>5 DEF FlushWrite

(* Marking an object clean changes none of its bytes.                       *)
LEMMA FlushCleanStep ==
  ASSUME IInv, FlushClean
  PROVE  IInv'
<1> PICK e : e = flusher.entry
  OBVIOUS
<1>1. /\ UNCHANGED <<disk, cache, writeSequences, cachePriority, client, writes, failures, setup>>
      /\ flusher.pc = "clean" /\ flusher' = [flusher EXCEPT !.pc = "remove"]
      /\ entries' = [entries EXCEPT ![e].isUpdated = FALSE]
  BY DEF FlushClean, FlusherGo, medium, clientOwn, calls
<1>2. e \in Entry /\ Holding
  BY <1>1 DEF IInv, Typed, Holding
<1>3. flusher' \in FlusherType /\ flusher'.pc = "remove" /\ flusher'.entry = e
  BY <1>1 DEF IInv, Typed, FlusherType
<1>4. /\ entries' \in [Entry -> CacheDataType]
      /\ \A x \in Entry : entries'[x].key = entries[x].key /\ entries'[x].data = entries[x].data
  <2>1. entries \in [Entry -> CacheDataType]
    BY DEF IInv, Typed
  <2>2. entries' = [entries EXCEPT ![e] = [entries[e] EXCEPT !.isUpdated = FALSE]]
    BY <1>1, <1>2, <2>1
  <2>3. /\ [entries[e] EXCEPT !.isUpdated = FALSE] \in CacheDataType
        /\ [entries[e] EXCEPT !.isUpdated = FALSE].key = entries[e].key
        /\ [entries[e] EXCEPT !.isUpdated = FALSE].data = entries[e].data
    BY <1>2, <2>1 DEF CacheDataType
  <2> QED
    BY <1>2, <2>1, <2>2, <2>3
<1>5. \A x \in Entry : (Cached(x) => Cached(x)') /\ (Written(x) => Written(x)')
  BY <1>1, <1>4 DEF Cached, Written
<1> HIDE <1>1
<1>6. UNCHANGED <<disk, cache, writeSequences, cachePriority, client, writes, failures, setup>>
  BY <1>1
<1>7. Typed'
  <2>1. entries'[e].key \in Key
    BY <1>2, <1>4 DEF IInv, Typed
  <2> QED
    BY <1>2, <1>3, <1>4, <1>6, <2>1 DEF IInv, Typed, Evicting, Queueing, HasVictim, At, Holding
<1>8. Placed'
  <2>1. MapPlaced'
    <3>1. ASSUME NEW key \in Key, cache[key] # Null
          PROVE  cache[key] \in Entry /\ Cached(cache[key]) /\ entries[cache[key]].key = key
      BY <3>1 DEF IInv, Typed, Placed, MapPlaced
    <3>2. \A x \in cachePriority : x \in Entry /\ Cached(x)
      BY DEF IInv, Typed, Placed, MapPlaced
    <3> QED
      BY <1>4, <1>6, <3>1, <3>2 DEF MapPlaced, Cached
  <2>2. QueuePlaced'
    <3>1. \A i \in 1..Len(writeSequences) : writeSequences[i] \in Entry
      BY DEF IInv, Typed
    <3> QED
      BY <1>4, <1>6, <3>1 DEF IInv, Placed, QueuePlaced, Cached, Written
  <2>3. FlusherPlaced' /\ NewPlaced' /\ OldPlaced'
    BY <1>2, <1>3, <1>4, <1>6 DEF IInv, Typed, Placed, FlusherPlaced, NewPlaced, OldPlaced,
       Cached, Written, Evicting, Queueing, HasVictim, At, Holding
  <2> QED
    BY <2>1, <2>2, <2>3 DEF Placed
<1>9. Safe'
  <2>1. CachedSafe'
    <3>1. ASSUME NEW x, Pending(x) PROVE Pending(x)'
      BY <1>1, <1>6, <3>1 DEF Pending, Queued, Queueing
    <3>2. \A key \in Key : cache[key] # Null => entries'[cache[key]].data = entries[cache[key]].data
      BY <1>4 DEF IInv, Typed
    <3> QED
      BY <1>6, <3>1, <3>2 DEF IInv, Safe, CachedSafe, WrittenOnce, OnDisk
  <2>2. FlusherSafe'
    <3>1. ASSUME NEW key, key = entries[e].key, WrittenOnce(key)
          PROVE  IF cache[key] = e THEN OnDisk(key, entries[e].data)
                 ELSE cache[key] # Null => OnDisk(key, entries[cache[key]].data)
      BY <1>1, <1>2, <3>1 DEF IInv, Typed, Safe, FlusherSafe, Cached
    <3>2. entries[e].key \in Key
      BY <1>2 DEF IInv, Typed
    <3>3. \A key \in Key : cache[key] # Null => cache[key] \in Entry
      BY DEF IInv, Typed
    <3> QED
      BY <1>2, <1>3, <1>4, <1>6, <3>1, <3>2, <3>3 DEF FlusherSafe, Cached, WrittenOnce, OnDisk
  <2>3. ClientSafe'
    BY <1>2, <1>3, <1>4, <1>6
    DEF IInv, Typed, Safe, ClientSafe, Evicting, HasVictim, At, WrittenOnce, OnDisk, Holding
  <2> QED
    BY <2>1, <2>2, <2>3 DEF Safe
<1> QED
  BY <1>7, <1>8, <1>9 DEF IInv

(* The flusher takes out what it wrote.                                     *)
LEMMA FlushRemoveStep ==
  ASSUME IInv, FlushRemove
  PROVE  IInv'
<1> PICK e : e = flusher.entry
  OBVIOUS
<1>1. /\ UNCHANGED <<disk, cache, entries, cachePriority, client, writes, failures, setup>>
      /\ flusher.pc = "remove" /\ flusher' = [flusher EXCEPT !.pc = "check", !.entry = Null]
      /\ writeSequences' = Without(writeSequences, e)
  BY DEF FlushRemove, medium, clientOwn, calls
<1>2. flusher' \in FlusherType /\ flusher'.pc = "check" /\ ~Holding'
  BY <1>1 DEF IInv, Typed, FlusherType, Holding
<1>3. e \in Entry /\ Holding /\ entries[e].key \in Key
  BY <1>1 DEF IInv, Typed, Holding
<1> PICK w : w = Without(writeSequences, e)
  OBVIOUS
<1>4. /\ w \in Seq(Entry)
      /\ \A i \in 1..Len(w) : \E j \in 1..Len(writeSequences) :
            w[i] = writeSequences[j] /\ writeSequences[j] # e
      /\ \A j \in 1..Len(writeSequences) : writeSequences[j] # e =>
            \E i \in 1..Len(w) : w[i] = writeSequences[j]
      /\ \A i, j \in 1..Len(w) : w[i] = w[j] => i = j
  <2>1. Leaves(w, writeSequences, e)
    BY TakenOut DEF IInv
  <2> QED
    BY <2>1 DEF Leaves
<1>5. writeSequences' = w
  BY <1>1
<1>6. Typed'
  BY <1>1, <1>2, <1>4, <1>5 DEF IInv, Typed, Evicting, Queueing, HasVictim, At
<1>7. Placed'
  <2>1. MapPlaced' /\ FlusherPlaced' /\ NewPlaced'
    BY <1>1, <1>2 DEF IInv, Placed, MapPlaced, FlusherPlaced, NewPlaced, Cached, Written,
       Evicting, At
  <2>2. QueuePlaced'
    BY <1>1, <1>4, <1>5 DEF IInv, Placed, QueuePlaced, Cached, Written
  <2>3. OldPlaced'
    BY <1>1, <1>4, <1>5 DEF IInv, Placed, OldPlaced, Cached, Written, Queueing, HasVictim, At
  <2> QED
    BY <2>1, <2>2, <2>3 DEF Placed
<1>8. Safe'
  <2>1. CachedSafe'
    <3>1. ASSUME NEW x, Pending(x), x # e PROVE Pending(x)'
      <4>1. Queued(x) => Queued(x)'
        BY <1>4, <1>5, <3>1 DEF Queued
      <4> QED
        BY <1>1, <3>1, <4>1 DEF Pending, Queueing
    <3>2. ASSUME NEW key \in Key, WrittenOnce(key), cache[key] # Null
          PROVE  OnDisk(key, entries[cache[key]].data) \/ Pending(cache[key])'
      <4>1. CASE cache[key] = e
        <5>1. key = entries[e].key
          BY <3>2, <4>1 DEF IInv, Placed, MapPlaced
        <5> QED
          BY <1>1, <1>3, <3>2, <4>1, <5>1 DEF IInv, Safe, FlusherSafe, Cached
      <4>2. CASE cache[key] # e
        <5>1. OnDisk(key, entries[cache[key]].data) \/ Pending(cache[key])
          BY <3>2 DEF IInv, Safe, CachedSafe
        <5> QED
          BY <1>1, <3>1, <4>2, <5>1
      <4> QED
        BY <4>1, <4>2
    <3> QED
      BY <1>1, <3>2 DEF CachedSafe, WrittenOnce, OnDisk
  <2>2. FlusherSafe'
    BY <1>2 DEF FlusherSafe
  <2>3. ClientSafe'
    BY <1>1, <1>2 DEF IInv, Safe, ClientSafe, Evicting, At, WrittenOnce, OnDisk
  <2> QED
    BY <2>1, <2>2, <2>3 DEF Safe
<1> QED
  BY <1>6, <1>7, <1>8 DEF IInv

-----------------------------------------------------------------------------
(* The invariant holds.                                                     *)

(* It does at first: nothing is cached, queued or in anybody's hands.       *)
LEMMA InitIInv == Init => IInv
<1> SUFFICES ASSUME Init PROVE IInv
  OBVIOUS
<1>1. CellSize \in Nat /\ 0 \in Nat
  BY ActionThreadAssumption DEF ActionThreadAssumption
<1>2. /\ client = [pc |-> "idle", key |-> Null, entry |-> Null, victim |-> Null, reading |-> FALSE]
      /\ flusher = [pc |-> "check", entry |-> Null, data |-> Null]
  BY DEF Init, Idle
<1>3. client \in ClientType /\ flusher \in FlusherType
  BY <1>2 DEF ClientType, FlusherType
<1>4. entries \in [Entry -> CacheDataType]
  BY DEF Init, CacheData, CacheDataType
<1>5. disk \in [Key -> Cell] /\ cache \in [Key -> Entry \cup {Null}] /\ writes \in [Key -> Nat]
  <2>1. [i \in 1..CellSize |-> 0] \in Cell
    BY <1>1 DEF Cell
  <2> QED
    BY <2>1 DEF Init
<1>6. Typed
  <2>1. /\ writeSequences \in Seq(Entry) /\ cachePriority \subseteq Entry
        /\ failures \in Nat /\ setup \in Setup
    BY DEF Init
  <2>2. client.pc = "idle" /\ flusher.pc = "check"
    BY <1>2
  <2> QED
    BY <1>3, <1>4, <1>5, <2>1, <2>2 DEF Typed, At, Evicting, Queueing, HasVictim, Holding
<1>7. Placed
  BY <1>2 DEF Init, Placed, MapPlaced, QueuePlaced, FlusherPlaced, NewPlaced, OldPlaced,
     At, Evicting, Queueing, HasVictim, Holding
<1>8. Safe
  BY <1>2 DEF Init, Safe, CachedSafe, FlusherSafe, ClientSafe, At, Evicting, Holding
<1> QED
  BY <1>6, <1>7, <1>8 DEF IInv

(* What the client may read and write.                                      *)
LEMMA SetupFacts ==
  IInv => setup.lengths \subseteq Lengths /\ setup.keys \subseteq Key /\ setup.data \subseteq Data
BY ActionThreadAssumption DEF ActionThreadAssumption, IInv, Typed

(* And every step keeps it, if objects can be made without end.             *)
LEMMA StepIInv ==
  ASSUME IsFiniteSet(Key), ~IsFiniteSet(Entry)
  PROVE  IInv /\ [Next]_vars => IInv'
<1> SUFFICES ASSUME IInv, [Next]_vars PROVE IInv'
  OBVIOUS
<1>1. CASE UNCHANGED vars
  <2> UNCHANGED <<disk, cache, entries, writeSequences, cachePriority, client, flusher,
                  writes, failures, setup>>
    BY <1>1 DEF vars
  <2>1. Typed'
    BY DEF IInv, Typed, At, Evicting, Queueing, HasVictim, Holding
  <2>2. Placed'
    BY DEF IInv, Placed, MapPlaced, QueuePlaced, FlusherPlaced, NewPlaced, OldPlaced,
       At, Evicting, Queueing, HasVictim, Holding, Cached, Written
  <2>3. Safe'
    BY DEF IInv, Safe, CachedSafe, FlusherSafe, ClientSafe, At, Evicting, Queueing, Holding,
       Cached, WrittenOnce, OnDisk, Pending, Queued
  <2> QED
    BY <2>1, <2>2, <2>3 DEF IInv
<1>2. CASE ClientBegins
  <2>1. PICK key \in setup.keys :
           \/ (\E length \in setup.lengths : ReadCached(key, length)) \/ ReadMiss(key)
           \/ \E data \in setup.data : WriteCached(key, data) \/ WriteMiss(key, data)
    BY <1>2 DEF ClientBegins
  <2>2. CASE (\E length \in setup.lengths : ReadCached(key, length)) \/ ReadMiss(key)
    BY <2>2, SetupFacts, ReadBegins
  <2>3. CASE \E data \in setup.data : WriteCached(key, data) \/ WriteMiss(key, data)
    BY <2>3, WriteCachedStep, WriteMissStep
  <2> QED
    BY <2>1, <2>2, <2>3
<1>3. CASE ClientContinues
  <2>1. CASE \E length \in setup.lengths : ReadDisk(length)
    BY <2>1, SetupFacts, ReadDiskStep
  <2>2. CASE Dequeue \/ Enqueue
    BY <2>2, QueueSteps
  <2>3. CASE \E victim \in Entry : EvictClean(victim) \/ EvictDirty(victim)
    BY <2>3, EvictionBegins
  <2>4. CASE EvictWrite \/ EvictRemove \/ Insert
    BY <2>4, EvictWriteStep, EvictRemoveStep, InsertStep
  <2>5. CASE EvictNothing
    BY <1>1, <2>5 DEF EvictNothing
  <2> QED
    BY <1>3, <2>1, <2>2, <2>3, <2>4, <2>5 DEF ClientContinues
<1>4. CASE Flush
  BY <1>4, FlusherMoves, FlushWriteStep, FlushCleanStep, FlushRemoveStep DEF Flush
<1> QED
  BY <1>1, <1>2, <1>3, <1>4 DEF Next

(* What is cached is on disk, or queued, or in a hand that will queue or    *)
(* write it (NothingLost).                                                  *)
LEMMA IInvNothingLost == IInv => NothingLost
<1> SUFFICES ASSUME IInv, NEW key \in Key, writes[key] <= 1, failures = 0,
                    cache[key] # Null, Memory[key] # disk[key]
             PROVE  Pending(cache[key])
  BY DEF NothingLost, Pending, Queueing
<1>1. Memory[key] = Overlay(disk[key], entries[cache[key]].data)
  BY DEF Memory
<1> QED
  BY <1>1 DEF IInv, Safe, CachedSafe, WrittenOnce, OnDisk

(* A cell written once on a disk that does not fail is on disk or on its    *)
(* way, for any finite set of cells and a heap that does not run out of     *)
(* objects (ActionThread.write, addToCache and run).                        *)
THEOREM CacheLosesNothing ==
  ASSUME IsFiniteSet(Key), ~IsFiniteSet(Entry)
  PROVE  Spec => []NothingLost
<1>1. Init => IInv
  BY InitIInv
<1>2. IInv /\ [Next]_vars => IInv'
  BY StepIInv
<1>3. IInv => NothingLost
  BY IInvNothingLost
<1> QED
  BY <1>1, <1>2, <1>3, PTL DEF Spec

-----------------------------------------------------------------------------
(* Sums over sets.                                                          *)

(* What the bytes of the objects of a set are together.                     *)
Size(es, S) == MapThenSumSet(LAMBDA e : Len(es[e].data), S)

(* g adds up w over every subset of S, whichever element is taken first.    *)
Adds(g, w, S) ==
    /\ g[{}] = 0
    /\ \A T \in SUBSET S : g[T] \in Nat /\ \A x \in T : g[T] = w[x] + g[T \ {x}]

(* Subsets are taken up by size.                                            *)
LEMMA SmallestSet ==
  ASSUME NEW S, IsFiniteSet(S), NEW B, B \subseteq SUBSET S, B # {}
  PROVE  \E T \in B : \A x \in T : T \ {x} \notin B
<1>1. \A T \in SUBSET S : IsFiniteSet(T) /\ Cardinality(T) \in Nat
  BY FS_Subset, FS_CardinalityType
<1> DEFINE Sizes == {Cardinality(T) : T \in B}
<1>2. PICK n \in Sizes : \A m \in Sizes : ~(<<m, n>> \in OpToRel(<, Nat))
  <2>1. Sizes \subseteq Nat /\ Sizes # {}
    BY <1>1
  <2> HIDE DEF Sizes
  <2> QED
    BY <2>1, NatLessThanWellFounded, WFMin, Zenon
<1>3. PICK T \in B : Cardinality(T) = n
  OBVIOUS
<1>4. ASSUME NEW x \in T, T \ {x} \in B
      PROVE  FALSE
  <2>1. Cardinality(T \ {x}) = n - 1 /\ n \in Nat /\ n - 1 \in Nat
    BY <1>1, <1>3, <1>4, FS_RemoveElement
  <2>2. n - 1 \in Sizes
    BY <1>4, <2>1
  <2>3. ~(<<n - 1, n>> \in OpToRel(<, Nat))
    BY <1>2, <2>2
  <2> QED
    BY <2>1, <2>3 DEF OpToRel
<1> QED
  BY <1>4

(* A finite set can be added up.                                            *)
LEMMA AddsExists ==
  ASSUME NEW S, IsFiniteSet(S), NEW w \in [S -> Nat]
  PROVE  \E g : Adds(g, w, S)
<1> DEFINE B == {T \in SUBSET S : ~\E g : Adds(g, w, T)}
<1> SUFFICES ASSUME B # {}
             PROVE  FALSE
  <2>1. S \in B \/ \E g : Adds(g, w, S)
    OBVIOUS
  <2> QED
    BY <2>1
<1>1. PICK T \in B : \A x \in T : T \ {x} \notin B
  BY SmallestSet
<1>2. T \in SUBSET S /\ ~\E g : Adds(g, w, T)
  OBVIOUS
<1>3. CASE T = {}
  <2>1. Adds([U \in {{}} |-> 0], w, T)
    BY <1>3 DEF Adds
  <2> QED
    BY <1>2, <2>1
<1>4. ASSUME NEW x \in T
      PROVE  FALSE
  <2>1. PICK R : R = T \ {x}
    OBVIOUS
  <2>2. R \in SUBSET S /\ x \notin R /\ R \notin B
    BY <1>1, <1>2, <2>1
  <2>3. PICK g : Adds(g, w, R)
    BY <2>2
  <2>4. /\ g[{}] = 0
        /\ \A U \in SUBSET R : g[U] \in Nat /\ \A y \in U : g[U] = w[y] + g[U \ {y}]
    BY <2>3 DEF Adds
  <2>5. w[x] \in Nat /\ \A y \in T : w[y] \in Nat
    BY <1>2, <1>4
  <2>6. PICK h : h = [U \in SUBSET T |-> IF x \in U THEN w[x] + g[U \ {x}] ELSE g[U]]
    OBVIOUS
  <2>7. \A U \in SUBSET T : h[U] = IF x \in U THEN w[x] + g[U \ {x}] ELSE g[U]
    BY <2>6
  <2>8. \A U \in SUBSET T : U \ {x} \in SUBSET R /\ (x \notin U => U \in SUBSET R)
    BY <2>1
  <2>9. \A U \in SUBSET T : h[U] \in Nat
    <3> SUFFICES ASSUME NEW U \in SUBSET T
                 PROVE  h[U] \in Nat
      OBVIOUS
    <3>1. CASE x \in U
      <4>1. g[U \ {x}] \in Nat /\ h[U] = w[x] + g[U \ {x}]
        BY <2>4, <2>7, <2>8, <3>1
      <4> QED
        BY <2>5, <4>1
    <3>2. CASE x \notin U
      BY <2>4, <2>7, <2>8, <3>2
    <3> QED
      BY <3>1, <3>2
  <2>10. ASSUME NEW U \in SUBSET T, NEW y \in U
         PROVE  h[U] = w[y] + h[U \ {y}]
    <3>1. U \ {y} \in SUBSET T
      OBVIOUS
    <3>2. CASE y = x
      BY <2>7, <3>1, <3>2
    <3>3. CASE y # x /\ x \in U
      <4>1. PICK V : V = U \ {x}
        OBVIOUS
      <4>2. V \in SUBSET R /\ y \in V /\ V \ {y} = (U \ {y}) \ {x} /\ V \ {y} \in SUBSET R
        BY <2>8, <3>3, <4>1
      <4>3. g[V] = w[y] + g[V \ {y}] /\ g[V \ {y}] \in Nat
        BY <2>4, <4>2
      <4>4. h[U] = w[x] + g[V] /\ h[U \ {y}] = w[x] + g[V \ {y}]
        BY <2>7, <3>1, <3>3, <4>1, <4>2
      <4>5. w[y] \in Nat
        BY <2>5
      <4> QED
        BY <2>5, <4>3, <4>4, <4>5
    <3>4. CASE x \notin U
      BY <2>4, <2>7, <2>8, <3>1, <3>4
    <3> QED
      BY <3>2, <3>3, <3>4
  <2>11. h[{}] = 0
    BY <2>4, <2>7
  <2>12. Adds(h, w, T)
    BY <2>9, <2>10, <2>11 DEF Adds
  <2> QED
    BY <1>2, <2>12
<1> QED
  BY <1>3, <1>4

(* It is then Size that adds it up.                                         *)
LEMMA SizeAdds ==
  ASSUME NEW S, IsFiniteSet(S), NEW es, NEW w, \A e \in S : w[e] = Len(es[e].data),
         NEW g, Adds(g, w, S)
  PROVE  Size(es, S) = g[S]
<1> DEFINE Iter(h) ==
      [s \in SUBSET S |-> IF s = {} THEN 0
                          ELSE LET x == CHOOSE y \in s : TRUE
                               IN  Len(es[x].data) + h[s \ {x}]]
<1>1. PICK f : f = (CHOOSE h : h = Iter(h))
  OBVIOUS
<1>2. Size(es, S) = f[S]
  BY <1>1 DEF Size, MapThenSumSet, MapThenFoldSet
<1>3. PICK k : k = [s \in SUBSET S |-> g[s]]
  OBVIOUS
<1>4. /\ g[{}] = 0
      /\ \A T \in SUBSET S : g[T] \in Nat /\ \A x \in T : g[T] = w[x] + g[T \ {x}]
  BY DEF Adds
<1>5. ASSUME NEW s \in SUBSET S
      PROVE  k[s] = Iter(k)[s]
  <2>1. CASE s = {}
    BY <1>3, <1>4, <2>1
  <2>2. CASE s # {}
    <3>1. PICK x : x = CHOOSE y \in s : TRUE
      OBVIOUS
    <3>2. x \in s
      BY <2>2, <3>1
    <3>3. k[s] = Len(es[x].data) + k[s \ {x}]
      BY <1>3, <1>4, <3>2
    <3> QED
      BY <2>2, <3>1, <3>3
  <2> QED
    BY <2>1, <2>2
<1>6. k = Iter(k)
  BY <1>3, <1>5
<1>7. f = Iter(f)
  <2> HIDE DEF Iter
  <2>1. \E h : h = Iter(h)
    BY <1>6
  <2> QED
    BY <1>1, <2>1, Zenon
<1> DEFINE B == {T \in SUBSET S : f[T] # g[T]}
<1>8. B = {}
  <2> SUFFICES ASSUME B # {}
               PROVE  FALSE
    OBVIOUS
  <2>1. PICK T \in B : \A x \in T : T \ {x} \notin B
    BY SmallestSet
  <2>2. T \in SUBSET S /\ f[T] # g[T] /\ f[T] = Iter(f)[T]
    BY <1>7
  <2>3. CASE T = {}
    BY <1>4, <2>2, <2>3
  <2>4. CASE T # {}
    <3>1. PICK x : x = CHOOSE y \in T : TRUE
      OBVIOUS
    <3>2. x \in T
      BY <2>4, <3>1
    <3>3. f[T] = Len(es[x].data) + f[T \ {x}]
      BY <2>2, <2>4, <3>1
    <3>4. T \ {x} \in SUBSET S /\ f[T \ {x}] = g[T \ {x}]
      BY <2>1, <2>2, <3>2
    <3>5. g[T] = w[x] + g[T \ {x}] /\ w[x] = Len(es[x].data)
      BY <1>4, <2>2, <3>2
    <3> QED
      BY <2>2, <3>3, <3>4, <3>5
  <2> QED
    BY <2>3, <2>4
<1> QED
  BY <1>2, <1>8

(* One object more adds its bytes, one less takes them away.                *)
LEMMA SizeFacts ==
  ASSUME NEW S, IsFiniteSet(S), NEW es, \A e \in S : Len(es[e].data) \in Nat
  PROVE  /\ Size(es, S) \in Nat
         /\ \A x \in S : Size(es, S \ {x}) = Size(es, S) - Len(es[x].data)
<1>1. PICK w : w = [e \in S |-> Len(es[e].data)]
  OBVIOUS
<1>2. w \in [S -> Nat] /\ \A e \in S : w[e] = Len(es[e].data)
  BY <1>1
<1>3. PICK g : Adds(g, w, S)
  BY <1>2, AddsExists
<1>4. /\ g[{}] = 0
      /\ \A T \in SUBSET S : g[T] \in Nat /\ \A x \in T : g[T] = w[x] + g[T \ {x}]
  BY <1>3 DEF Adds
<1>5. Size(es, S) = g[S]
  BY <1>2, <1>3, SizeAdds
<1>6. ASSUME NEW x \in S
      PROVE  Size(es, S \ {x}) = Size(es, S) - Len(es[x].data)
  <2>1. PICK R : R = S \ {x}
    OBVIOUS
  <2>2. R \in SUBSET S /\ IsFiniteSet(R)
    BY <2>1, FS_RemoveElement
  <2>3. Adds(g, w, R)
    <3>1. \A T \in SUBSET R : T \in SUBSET S
      BY <2>1
    <3> QED
      BY <1>4, <3>1 DEF Adds
  <2>4. Size(es, R) = g[R]
    BY <1>2, <2>2, <2>3, SizeAdds
  <2>5. g[S] = w[x] + g[R] /\ g[S] \in Nat /\ g[R] \in Nat
    BY <1>4, <2>1, <2>2
  <2> QED
    BY <1>2, <1>5, <2>1, <2>4, <2>5
<1> QED
  BY <1>4, <1>5, <1>6

(* Only the lengths count.                                                  *)
LEMMA SizeSame ==
  ASSUME NEW S, IsFiniteSet(S), NEW es, NEW fs,
         \A e \in S : Len(es[e].data) \in Nat /\ Len(fs[e].data) = Len(es[e].data)
  PROVE  Size(fs, S) = Size(es, S)
<1>1. PICK w : w = [e \in S |-> Len(es[e].data)]
  OBVIOUS
<1>2. w \in [S -> Nat] /\ \A e \in S : w[e] = Len(es[e].data) /\ w[e] = Len(fs[e].data)
  BY <1>1
<1>3. PICK g : Adds(g, w, S)
  BY <1>2, AddsExists
<1>4. \A e \in S : w[e] = Len(es[e].data)
  BY <1>2
<1>5. \A e \in S : w[e] = Len(fs[e].data)
  BY <1>2
<1>6. Size(es, S) = g[S]
  BY <1>3, <1>4, SizeAdds
<1>7. Size(fs, S) = g[S]
  BY <1>3, <1>5, SizeAdds
<1> QED
  BY <1>6, <1>7

(* No object has no bytes.                                                  *)
LEMMA SizeNone ==
  ASSUME NEW es
  PROVE  Size(es, {}) = 0
<1>1. IsFiniteSet({})
  BY FS_EmptySet
<1>2. PICK w : w = [e \in {} |-> 0]
  OBVIOUS
<1>3. PICK g : Adds(g, w, {})
  BY <1>1, <1>2, AddsExists
<1>4. g[{}] = 0
  BY <1>3 DEF Adds
<1> QED
  BY <1>1, <1>3, <1>4, SizeAdds

-----------------------------------------------------------------------------
(* A sum of two, one of which loses something, or grows as the sum does.    *)
LEMMA SumLoses ==
  ASSUME NEW size \in Int, NEW grown \in Int, NEW sum \in Int, NEW length \in Int,
         size + grown = sum
  PROVE  (size - length) \in Int /\ (size - length) + grown = sum - length
OBVIOUS

LEMMA SumGrows ==
  ASSUME NEW size \in Int, NEW grown \in Int, NEW sum \in Int, NEW after \in Int,
         NEW old \in Int, NEW new \in Int, size + grown = sum, sum - old = after - new
  PROVE  (grown + (new - old)) \in Int /\ size + (grown + (new - old)) = after
OBVIOUS

(* What can be evicted, with the victim.                                    *)
Held == cachePriority \cup ({client.victim} \ {Null})

(* The invariant: cacheSize is the size of that, but for what write made of *)
(* lengths, and only a read that waits for the disk is counted.             *)
Accounted ==
    /\ cacheSize \in Int /\ drift \in Int
    /\ cacheSize + drift = Size(entries, Held)
    /\ client.victim # Null => HasVictim
    /\ threadsWaiting = IF At("readDisk") THEN 1 ELSE 0

(* There are finitely many of them, each the one of its cell.               *)
LEMMA HeldFacts ==
  ASSUME IsFiniteSet(Key), IInv
  PROVE  /\ IsFiniteSet(cachePriority) /\ IsFiniteSet(Held) /\ Held \subseteq Entry
         /\ Null \notin Entry
         /\ \A e \in Entry : Len(entries[e].data) \in Nat
         /\ HasVictim => client.victim \notin cachePriority
         /\ \A e \in Held : HasVictim \/ client.victim = Null =>
               cache[entries[e].key] = e /\ entries[e].key \in Key
<1>1. Null \notin Entry
  BY ActionThreadAssumption DEF ActionThreadAssumption
<1>2. \A e \in Entry : Len(entries[e].data) \in Nat
  BY DEF IInv, Typed, CacheDataType
<1>3. IsFiniteSet(cachePriority)
  <2> DEFINE Used == {cache[key] : key \in Key}
  <2>1. IsFiniteSet(Used)
    <3>1. [key \in Key |-> cache[key]] \in Surjection(Key, Used)
      BY DEF Surjection
    <3> QED
      BY <3>1, FS_Surjection
  <2>2. cachePriority \subseteq Used
    BY DEF IInv, Placed, MapPlaced, Cached
  <2> QED
    BY <2>1, <2>2, FS_Subset
<1>4. IsFiniteSet(Held)
  <2>1. Held = cachePriority \/ Held = cachePriority \cup {client.victim}
    BY DEF Held
  <2> QED
    BY <1>3, <2>1, FS_AddElement
<1>5. Held \subseteq Entry
  BY DEF Held, IInv, Typed, ClientType
<1>6. HasVictim => client.victim \notin cachePriority
  BY DEF IInv, Placed, OldPlaced
<1>7. ASSUME NEW e \in Held, HasVictim \/ client.victim = Null
      PROVE  cache[entries[e].key] = e /\ entries[e].key \in Key
  BY <1>7 DEF Held, IInv, Placed, MapPlaced, OldPlaced, Cached
<1> QED
  BY <1>1, <1>2, <1>3, <1>4, <1>5, <1>6, <1>7

(* Nothing is accounted for anew when the same objects are held.            *)
LEMMA SameHeld ==
  ASSUME IsFiniteSet(Key), IInv, Accounted, UNCHANGED <<cacheSize, drift, cachePriority>>,
         client'.victim = client.victim,
         \A e \in Held : Len(entries'[e].data) = Len(entries[e].data)
  PROVE  cacheSize' + drift' = Size(entries', Held')
<1>1. IsFiniteSet(Held) /\ \A e \in Held : Len(entries[e].data) \in Nat
  BY HeldFacts
<1>2. Held' = Held
  BY DEF Held
<1>3. cacheSize + drift = Size(entries, Held)
  BY DEF Accounted
<1>4. \A e \in Held : Len(entries[e].data) \in Nat /\ Len(entries'[e].data) = Len(entries[e].data)
  BY <1>1
<1> HIDE DEF Held
<1>5. Size(entries', Held) = Size(entries, Held)
  BY <1>1, <1>4, SizeSame
<1> QED
  BY <1>2, <1>3, <1>5

(* A read begins, and is counted when it waits for the disk.                *)
LEMMA ReadAccounts ==
  ASSUME IsFiniteSet(Key), IInv, Accounted, NEW key \in Key,
         (\E length \in Lengths : ReadCached(key, length)) \/ ReadMiss(key)
  PROVE  Accounted'
<1> USE DEF history, medium, clientOwn, calls, waiting, At
<1>1. CASE \E length \in Lengths : ReadCached(key, length)
  <2>1. UNCHANGED <<entries, cachePriority, cacheSize, drift, threadsWaiting, client>>
    BY <1>1 DEF ReadCached
  <2> QED
    BY <2>1 DEF Accounted, Held, HasVictim
<1>2. CASE ReadMiss(key)
  <2>1. /\ UNCHANGED <<entries, cachePriority, cacheSize, drift>>
        /\ client.pc = "idle" /\ threadsWaiting' = threadsWaiting + 1
        /\ client' = [pc |-> "readDisk", key |-> key, entry |-> Null, victim |-> Null,
                      reading |-> FALSE]
    BY <1>2 DEF ReadMiss, Idle
  <2>2. client.victim = Null /\ threadsWaiting = 0
    BY <2>1 DEF Accounted, HasVictim
  <2>3. cacheSize' + drift' = Size(entries', Held')
    BY <2>1, <2>2, SameHeld
  <2> QED
    BY <2>1, <2>2, <2>3 DEF Accounted
<1> QED
  BY <1>1, <1>2

(* Steps that neither hold nor free an object.                              *)
LEMMA ClientMoves ==
  ASSUME IsFiniteSet(Key), IInv, Accounted, Dequeue \/ Enqueue \/ EvictWrite
  PROVE  Accounted'
<1> USE DEF history, medium, clientOwn, calls, waiting, At
<1>1. CASE Dequeue \/ Enqueue
  <2>1. /\ UNCHANGED <<entries, cachePriority, cacheSize, drift, threadsWaiting>>
        /\ client.pc \in {"dequeue", "enqueue"}
        /\ client'.pc \in {"enqueue", "idle"} /\ client'.victim \in {client.victim, Null}
    BY <1>1 DEF Dequeue, Enqueue, Go, Idle, IInv, Typed, ClientType
  <2>2. client.victim = Null /\ threadsWaiting = 0
    BY <2>1 DEF Accounted, HasVictim
  <2>3. cacheSize' + drift' = Size(entries', Held')
    BY <2>1, <2>2, SameHeld
  <2> QED
    BY <2>1, <2>2, <2>3 DEF Accounted
<1>2. CASE EvictWrite
  <2>1. /\ UNCHANGED <<entries, cachePriority, cacheSize, drift, threadsWaiting>>
        /\ client.pc = "evictWrite"
        /\ client'.pc = "evictRemove" /\ client'.victim = client.victim
    BY <1>2 DEF EvictWrite, Fails, Go, IInv, Typed, ClientType
  <2>2. threadsWaiting = 0
    BY <2>1 DEF Accounted
  <2>3. cacheSize' + drift' = Size(entries', Held')
    BY <2>1, SameHeld
  <2> QED
    BY <2>1, <2>2, <2>3 DEF Accounted, HasVictim
<1> QED
  BY <1>1, <1>2

(* A write to a cell that has an object: what it changes of the sum, if the *)
(* object is in it, it adds to drift.                                       *)
LEMMA WriteAccounts ==
  ASSUME IsFiniteSet(Key), IInv, Accounted,
         NEW key \in Key, NEW data \in Data, WriteCached(key, data)
  PROVE  Accounted'
<1> PICK e : e = cache[key]
  OBVIOUS
<1>10. PICK growth : growth = Len(data) - Len(entries[e].data)
  OBVIOUS
<1>1. /\ UNCHANGED <<cachePriority, cacheSize, threadsWaiting>>
      /\ client.pc = "idle" /\ e # Null
      /\ entries' = [entries EXCEPT ![e] = CacheData(TRUE, key, data)]
      /\ client'.pc = "dequeue" /\ client'.victim = Null
      /\ drift' = IF e \in cachePriority THEN drift + growth ELSE drift
  BY <1>10 DEF WriteCached, Idle, medium, clientOwn, waiting, At
<1>2. client.victim = Null /\ threadsWaiting = 0
  BY <1>1 DEF Accounted, HasVictim, At
<1>3. /\ e \in Entry /\ entries'[e].data = data /\ Len(data) \in Nat
      /\ \A x \in Entry : x # e => entries'[x] = entries[x]
  <2>1. e \in Entry
    BY <1>1 DEF IInv, Typed
  <2>2. Len(data) \in Nat
    BY ActionThreadAssumption DEF ActionThreadAssumption
  <2> QED
    BY <1>1, <2>1, <2>2 DEF IInv, Typed, CacheData
<1>4. /\ IsFiniteSet(Held) /\ Held = cachePriority /\ Held \subseteq Entry /\ Held' = Held
      /\ \A x \in Entry : Len(entries[x].data) \in Nat
  BY <1>1, <1>2, HeldFacts DEF Held
<1>5. /\ cacheSize \in Int /\ drift \in Int /\ cacheSize + drift = Size(entries, Held)
  BY DEF Accounted
<1>6. \A x \in Entry : Len(entries'[x].data) \in Nat
  BY <1>3, <1>4
<1>7. PICK S : S = Held
  OBVIOUS
<1>8. CASE e \in S
  <2>1. PICK R : R = S \ {e}
    OBVIOUS
  <2>2. IsFiniteSet(R) /\ \A x \in R : x \in Entry /\ x # e
    BY <1>4, <1>7, <2>1, FS_RemoveElement
  <2>3. \A x \in R : Len(entries[x].data) \in Nat /\ Len(entries'[x].data) = Len(entries[x].data)
    BY <1>3, <1>4, <2>2
  <2>4. Size(entries', R) = Size(entries, R)
    BY <2>2, <2>3, SizeSame
  <2>5. PICK old : old = Len(entries[e].data)
    OBVIOUS
  <2>6. PICK new : new = Len(data)
    OBVIOUS
  <2>7. PICK before : before = Size(entries, S)
    OBVIOUS
  <2>8. PICK after : after = Size(entries', S)
    OBVIOUS
  <2>9. before \in Nat /\ Size(entries, R) = before - old
    <3>1. IsFiniteSet(S) /\ \A x \in S : Len(entries[x].data) \in Nat
      BY <1>4, <1>7
    <3> QED
      BY <1>8, <2>1, <2>5, <2>7, <3>1, SizeFacts
  <2>10. after \in Nat /\ Size(entries', R) = after - new
    <3>1. IsFiniteSet(S) /\ \A x \in S : Len(entries'[x].data) \in Nat
      BY <1>4, <1>6, <1>7
    <3>2. /\ Size(entries', S) \in Nat
          /\ Size(entries', S \ {e}) = Size(entries', S) - Len(entries'[e].data)
      BY <1>8, <3>1, SizeFacts
    <3>3. Size(entries', S) \in Nat /\ Size(entries', S \ {e}) = Size(entries', S) - Len(data)
      BY <1>3, <3>2
    <3> QED
      BY <2>1, <2>6, <2>8, <3>3
  <2>11. /\ cacheSize \in Int /\ drift \in Int /\ cacheSize + drift = before
         /\ drift' = drift + (new - old) /\ new \in Int /\ old \in Int
    BY <1>1, <1>3, <1>4, <1>5, <1>7, <1>8, <1>10, <2>5, <2>6, <2>7
  <2>12. drift' \in Int /\ cacheSize + drift' = after
    <3>1. before \in Int /\ after \in Int /\ before - old = after - new
      BY <2>4, <2>9, <2>10
    <3>2. (drift + (new - old)) \in Int /\ cacheSize + (drift + (new - old)) = after
      BY <2>11, <3>1, SumGrows
    <3> QED
      BY <2>11, <3>2
  <2>13. cacheSize' + drift' = Size(entries', Held')
    BY <1>1, <1>4, <1>7, <2>8, <2>12
  <2> QED
    BY <1>1, <1>2, <1>5, <2>12, <2>13 DEF Accounted, At
<1>9. CASE e \notin S
  <2>1. \A x \in Held : Len(entries'[x].data) = Len(entries[x].data)
    BY <1>3, <1>4, <1>7, <1>9
  <2>2. drift' = drift
    BY <1>1, <1>4, <1>7, <1>9
  <2>3. cacheSize' + drift' = Size(entries', Held')
    BY <1>1, <1>2, <2>1, <2>2, SameHeld
  <2> QED
    BY <1>1, <1>2, <1>5, <2>2, <2>3 DEF Accounted, At
<1> QED
  BY <1>8, <1>9

(* A new object is nobody's, and a read that waited is over.                *)
LEMMA NewAccounts ==
  ASSUME IsFiniteSet(Key), ~IsFiniteSet(Entry), IInv, Accounted,
         \/ \E key \in Key, data \in Data : WriteMiss(key, data)
         \/ \E length \in Lengths : ReadDisk(length)
  PROVE  Accounted'
<1>1. /\ UNCHANGED <<cachePriority, cacheSize, drift>>
      /\ client.pc \in {"idle", "readDisk"}
      /\ client'.pc \in {"evict", "idle"} /\ client'.victim \in {Null, client.victim}
      /\ threadsWaiting' = IF At("readDisk") THEN threadsWaiting - 1 ELSE threadsWaiting
      /\ \/ entries' = entries
         \/ \E new : entries' = [entries EXCEPT ![Fresh] = new]
  <2> USE DEF history, medium, clientOwn, waiting, At
  <2>1. CASE \E key \in Key, data \in Data : WriteMiss(key, data)
    <3>1. PICK key \in Key, data \in Data : WriteMiss(key, data)
      BY <2>1
    <3>2. client' = [pc |-> "evict", key |-> key, entry |-> Fresh, victim |-> Null,
                     reading |-> FALSE]
      BY <3>1 DEF WriteMiss, Idle
    <3>3. PICK new : new = CacheData(TRUE, key, data)
      OBVIOUS
    <3>4. /\ UNCHANGED <<cachePriority, cacheSize, drift, threadsWaiting>>
          /\ client.pc = "idle" /\ entries' = [entries EXCEPT ![Fresh] = new]
      BY <3>1, <3>3 DEF WriteMiss
    <3>5. \E x : entries' = [entries EXCEPT ![Fresh] = x]
      BY <3>4
    <3>6. client'.pc = "evict" /\ client'.victim = Null
      BY <3>2
    <3> QED
      BY <3>4, <3>5, <3>6
  <2>2. CASE \E length \in Lengths : ReadDisk(length)
    <3>1. PICK length \in Lengths : ReadDisk(length)
      BY <2>2
    <3>2. client'.pc \in {"evict", "idle"} /\ client'.victim \in {Null, client.victim}
      <4>1. CASE client' = Idle
        BY <4>1 DEF Idle
      <4>2. CASE client' # Idle
        <5>1. PICK x : x = [client EXCEPT !.pc = "evict"]
          OBVIOUS
        <5>2. PICK y : y = [x EXCEPT !.entry = Fresh]
          OBVIOUS
        <5>3. client' = [y EXCEPT !.reading = TRUE]
          BY <3>1, <4>2, <5>1, <5>2 DEF ReadDisk
        <5>4. client \in ClientType
          BY DEF IInv, Typed
        <5> QED
          BY <5>1, <5>2, <5>3, <5>4 DEF ClientType
      <4> QED
        BY <4>1, <4>2
    <3> QED
      BY <3>1, <3>2 DEF ReadDisk, Fails
  <2> QED
    BY <2>1, <2>2
<1>2. client.victim = Null /\ threadsWaiting' = 0
  BY <1>1 DEF Accounted, HasVictim, At
<1>3. \A x \in Held : Len(entries'[x].data) = Len(entries[x].data)
  <2>1. \A x \in Held : x \in Entry /\ x \in cachePriority
    BY <1>2, HeldFacts DEF Held
  <2>2. Fresh \notin cachePriority
    BY FreshFacts DEF IInv
  <2>3. \A x \in Entry : x # Fresh => entries'[x] = entries[x]
    BY <1>1 DEF IInv, Typed
  <2> QED
    BY <2>1, <2>2, <2>3
<1>4. cacheSize' + drift' = Size(entries', Held')
  BY <1>1, <1>2, <1>3, SameHeld
<1> QED
  BY <1>1, <1>2, <1>4 DEF Accounted, At

(* What leaves the heap leaves the sum, or is the victim.                   *)
LEMMA EvictionAccounts ==
  ASSUME IsFiniteSet(Key), IInv, Accounted, NEW victim \in Entry,
         EvictClean(victim) \/ EvictDirty(victim)
  PROVE  Accounted'
<1>1. /\ UNCHANGED <<entries, drift, threadsWaiting>>
      /\ client.pc = "evict" /\ victim \in cachePriority
      /\ cachePriority' = cachePriority \ {victim}
  BY DEF EvictClean, EvictDirty, Evicts, history, medium, clientOwn, calls, waiting, At
<1>2. client.victim = Null /\ threadsWaiting = 0
  BY <1>1 DEF Accounted, HasVictim, At
<1>3. /\ IsFiniteSet(cachePriority) /\ Null \notin Entry
      /\ \A e \in cachePriority : Len(entries[e].data) \in Nat
  BY HeldFacts DEF Held
<1>4. Held = cachePriority /\ cacheSize + drift = Size(entries, cachePriority)
  BY <1>2 DEF Held, Accounted
<1>5. CASE EvictClean(victim)
  <2>1. client' = client /\ cacheSize' = cacheSize - Len(entries[victim].data)
    BY <1>5 DEF EvictClean
  <2>2. Size(entries, cachePriority \ {victim}) =
           Size(entries, cachePriority) - Len(entries[victim].data)
    BY <1>1, <1>3, SizeFacts
  <2>3. Held' = cachePriority \ {victim}
    BY <1>1, <1>2, <2>1 DEF Held
  <2>4. Len(entries[victim].data) \in Nat
    BY <1>1, <1>3
  <2>5. cacheSize \in Int /\ drift \in Int
    BY DEF Accounted
  <2> PICK before : before = Size(entries, cachePriority)
    OBVIOUS
  <2>6. Size(entries', Held') = before - Len(entries[victim].data)
    BY <1>1, <2>2, <2>3
  <2>9. PICK length : length = Len(entries[victim].data)
    OBVIOUS
  <2>7. /\ length \in Int /\ before \in Int /\ drift' = drift /\ cacheSize' = cacheSize - length
        /\ Size(entries', Held') = before - length /\ cacheSize + drift = before
    BY <1>1, <1>3, <1>4, <2>1, <2>4, <2>6, <2>9, SizeFacts
  <2>8. cacheSize' \in Int /\ cacheSize' + drift' = Size(entries', Held')
    <3>1. (cacheSize - length) \in Int /\ (cacheSize - length) + drift = before - length
      BY <2>5, <2>7, SumLoses
    <3> QED
      BY <2>7, <3>1
  <2> QED
    BY <1>1, <1>2, <2>1, <2>5, <2>8 DEF Accounted, At
<1>6. CASE EvictDirty(victim)
  <2>1. /\ cacheSize' = cacheSize
        /\ client'.pc = "evictWrite" /\ client'.victim = victim
    BY <1>6 DEF EvictDirty, IInv, Typed, ClientType
  <2>2. Held' = Held
    BY <1>1, <1>3, <1>4, <2>1 DEF Held
  <2> QED
    BY <1>1, <1>2, <1>4, <2>1, <2>2 DEF Accounted, At, HasVictim
<1> QED
  BY <1>5, <1>6

(* So does the victim, when it is gone.                                     *)
LEMMA RemovalAccounts ==
  ASSUME IsFiniteSet(Key), IInv, Accounted, EvictRemove
  PROVE  Accounted'
<1> PICK v : v = client.victim
  OBVIOUS
<1>1. /\ UNCHANGED <<entries, drift, threadsWaiting, cachePriority>>
      /\ client.pc = "evictRemove" /\ client'.pc = "evict" /\ client'.victim = Null
      /\ cacheSize' = cacheSize - Len(entries[v].data)
  BY DEF EvictRemove, history, medium, calls, waiting, At, IInv, Typed, ClientType
<1>2. v \in Entry /\ v \notin cachePriority /\ threadsWaiting = 0
  BY <1>1, HeldFacts DEF IInv, Typed, HasVictim, At, Accounted
<1>3. PICK held : held = Held
  OBVIOUS
<1>4. /\ held \ {v} = cachePriority /\ v \in held
      /\ IsFiniteSet(held) /\ \A e \in held : Len(entries[e].data) \in Nat
  BY <1>2, <1>3, HeldFacts DEF Held
<1>5. Size(entries, held \ {v}) = Size(entries, held) - Len(entries[v].data)
  BY <1>4, SizeFacts
<1>6. Held' = cachePriority
  BY <1>1 DEF Held
<1>7. Len(entries[v].data) \in Nat
  BY <1>3, <1>4
<1> PICK before : before = Size(entries, held)
  OBVIOUS
<1>8. /\ cacheSize \in Int /\ drift \in Int /\ cacheSize + drift = before /\ before \in Int
  BY <1>3, <1>4, SizeFacts DEF Accounted
<1>9. Size(entries', Held') = before - Len(entries[v].data)
  BY <1>1, <1>4, <1>5, <1>6
<1>12. PICK length : length = Len(entries[v].data)
  OBVIOUS
<1>10. /\ length \in Int /\ drift' = drift /\ cacheSize' = cacheSize - length
       /\ Size(entries', Held') = before - length
  BY <1>1, <1>7, <1>9, <1>12
<1>11. cacheSize' \in Int /\ cacheSize' + drift' = Size(entries', Held')
  <2>1. (cacheSize - length) \in Int /\ (cacheSize - length) + drift = before - length
    BY <1>8, <1>10, SumLoses
  <2> QED
    BY <1>10, <2>1
<1> QED
  BY <1>1, <1>2, <1>8, <1>11 DEF Accounted, At

(* What enters the heap was not in it.                                      *)
LEMMA InsertAccounts ==
  ASSUME IsFiniteSet(Key), IInv, Accounted, Insert
  PROVE  Accounted'
<1> PICK e : e = client.entry
  OBVIOUS
<1>1. /\ UNCHANGED <<entries, drift, threadsWaiting>>
      /\ client.pc = "evict" /\ client'.pc \in {"idle", "enqueue"}
      /\ client'.victim \in {Null, client.victim}
      /\ cacheSize' = cacheSize + Len(entries[e].data)
      /\ cachePriority' = cachePriority \cup {e}
  BY DEF Insert, Go, Idle, history, medium, waiting, At, IInv, Typed, ClientType
<1>2. client.victim = Null /\ threadsWaiting = 0
  BY <1>1 DEF Accounted, HasVictim, At
<1>3. e \in Entry /\ e \notin cachePriority
  <2>1. /\ e \in Entry /\ e # Null
        /\ cache[client.key] = Null /\ entries[e].key = client.key
    BY <1>1, HeldFacts DEF IInv, Typed, Placed, NewPlaced, Evicting, At
  <2>2. e \in cachePriority => cache[entries[e].key] = e
    BY DEF IInv, Placed, MapPlaced, Cached
  <2> QED
    BY <2>1, <2>2
<1>4. /\ IsFiniteSet(cachePriority)
      /\ \A x \in cachePriority : Len(entries[x].data) \in Nat
      /\ Len(entries[e].data) \in Nat
  BY <1>3, HeldFacts DEF IInv, Typed
<1>5. Size(entries, cachePriority \cup {e}) = Size(entries, cachePriority) + Len(entries[e].data)
  <2>1. PICK T : T = cachePriority \cup {e}
    OBVIOUS
  <2>2. IsFiniteSet(T) /\ e \in T /\ T \ {e} = cachePriority
    BY <1>3, <1>4, <2>1, FS_AddElement
  <2>3. \A x \in T : Len(entries[x].data) \in Nat
    BY <1>4, <2>1
  <2>4. /\ Size(entries, T) \in Nat
        /\ \A x \in T : Size(entries, T \ {x}) = Size(entries, T) - Len(entries[x].data)
    BY <2>2, <2>3, SizeFacts
  <2>5. Size(entries, cachePriority) = Size(entries, T) - Len(entries[e].data)
    BY <2>2, <2>4
  <2> QED
    BY <1>4, <2>1, <2>4, <2>5
<1>6. cacheSize + drift = Size(entries, cachePriority) /\ Held' = cachePriority \cup {e}
  BY <1>1, <1>2 DEF Held, Accounted
<1> QED
  BY <1>1, <1>2, <1>5, <1>6 DEF Accounted, At

(* The flusher changes no length.                                           *)
LEMMA FlushAccounts ==
  ASSUME IsFiniteSet(Key), IInv, Accounted, Flush
  PROVE  Accounted'
<1>1. UNCHANGED <<cachePriority, cacheSize, drift, threadsWaiting, client>>
  BY DEF Flush, FlushCheck, FlushWait, FlushGet, FlushWrite, FlushClean, FlushRemove,
     history, medium, clientOwn, calls, Fails
<1>2. \A x \in Entry : Len(entries'[x].data) = Len(entries[x].data)
  <2>1. CASE FlushClean
    <3> PICK e : e = flusher.entry
      OBVIOUS
    <3>1. entries' = [entries EXCEPT ![e].isUpdated = FALSE] /\ entries \in [Entry -> CacheDataType]
      BY <2>1 DEF FlushClean, IInv, Typed
    <3> QED
      BY <3>1 DEF CacheDataType
  <2>2. CASE ~FlushClean
    <3>1. entries' = entries
      BY <2>2 DEF Flush, FlushCheck, FlushWait, FlushGet, FlushWrite, FlushRemove
    <3> QED
      BY <3>1
  <2> QED
    BY <2>1, <2>2
<1>3. \A x \in Held : Len(entries'[x].data) = Len(entries[x].data)
  BY <1>2, HeldFacts
<1>4. cacheSize' + drift' = Size(entries', Held')
  BY <1>1, <1>3, SameHeld
<1> QED
  BY <1>1, <1>4 DEF Accounted, HasVictim, At

-----------------------------------------------------------------------------
(* Nothing is held at first.                                                *)
LEMMA InitAccounted == Init => Accounted
<1> SUFFICES ASSUME Init PROVE Accounted
  OBVIOUS
<1>1. /\ cacheSize = 0 /\ drift = 0 /\ cachePriority = {} /\ threadsWaiting = 0
      /\ client.pc = "idle" /\ client.victim = Null
  BY DEF Init, Idle
<1>2. Held = {}
  BY <1>1 DEF Held
<1> QED
  BY <1>1, <1>2, SizeNone DEF Accounted, At

(* Every step keeps the account.                                            *)
LEMMA StepAccounted ==
  ASSUME IsFiniteSet(Key), ~IsFiniteSet(Entry)
  PROVE  IInv /\ Accounted /\ [Next]_vars => Accounted'
<1> SUFFICES ASSUME IInv, Accounted, [Next]_vars
             PROVE  Accounted'
  OBVIOUS
<1>1. CASE UNCHANGED vars
  BY <1>1 DEF vars, Accounted, Held, HasVictim, At
<1>2. CASE ClientBegins
  <2>1. PICK key \in setup.keys :
           \/ (\E length \in setup.lengths : ReadCached(key, length)) \/ ReadMiss(key)
           \/ \E data \in setup.data : WriteCached(key, data) \/ WriteMiss(key, data)
    BY <1>2 DEF ClientBegins
  <2>2. key \in Key /\ setup.data \subseteq Data
    BY ActionThreadAssumption DEF ActionThreadAssumption, IInv, Typed
  <2>3. CASE (\E length \in setup.lengths : ReadCached(key, length)) \/ ReadMiss(key)
    BY <2>2, <2>3, SetupFacts, ReadAccounts
  <2>4. CASE \E data \in setup.data : WriteCached(key, data)
    BY <2>2, <2>4, WriteAccounts
  <2>5. CASE \E data \in setup.data : WriteMiss(key, data)
    BY <2>2, <2>5, NewAccounts
  <2> QED
    BY <2>1, <2>3, <2>4, <2>5
<1>3. CASE ClientContinues
  <2>1. CASE \E length \in setup.lengths : ReadDisk(length)
    BY <2>1, SetupFacts, NewAccounts
  <2>2. CASE Dequeue \/ Enqueue \/ EvictWrite
    BY <2>2, ClientMoves
  <2>3. CASE \E victim \in Entry : EvictClean(victim) \/ EvictDirty(victim)
    BY <2>3, EvictionAccounts
  <2>4. CASE EvictRemove \/ Insert
    BY <2>4, RemovalAccounts, InsertAccounts
  <2>5. CASE EvictNothing
    BY <1>1, <2>5 DEF EvictNothing
  <2> QED
    BY <1>3, <2>1, <2>2, <2>3, <2>4, <2>5 DEF ClientContinues
<1>4. CASE Flush
  BY <1>4, FlushAccounts
<1> QED
  BY <1>1, <1>2, <1>3, <1>4 DEF Next, vars

(* The size of the cache is that of what can be evicted (CacheAccounted).   *)
LEMMA AccountedCache == Accounted => CacheAccounted
BY DEF Accounted, CacheAccounted, Held, Size

(* A step that is rough stays so, and each step says whether it is.         *)
RoughType == rough \in BOOLEAN

LEMMA RoughStays ==
  ASSUME [Next]_vars, RoughType
  PROVE  RoughType' /\ (rough => rough')
<1>1. UNCHANGED rough \/ \E condition \in BOOLEAN : rough' = (rough \/ condition)
  <2> USE DEF history, RoughIf, Fails
  <2>1. CASE UNCHANGED vars
    BY <2>1 DEF vars
  <2>2. CASE ClientBegins
    BY <2>2 DEF ClientBegins, ReadCached, ReadMiss, WriteCached, WriteMiss
  <2>3. CASE ClientContinues
    BY <2>3 DEF ClientContinues, ReadDisk, Dequeue, Enqueue, EvictClean, EvictDirty,
       EvictNothing, EvictWrite, EvictRemove, Insert, vars
  <2>4. CASE Flush
    BY <2>4 DEF Flush, FlushCheck, FlushWait, FlushGet, FlushWrite, FlushClean, FlushRemove
  <2> QED
    BY <2>1, <2>2, <2>3, <2>4 DEF Next
<1> QED
  BY <1>1 DEF RoughType

(* The types are those of the invariants (TypeOK).                          *)
LEMMA AccountedTypes == IInv /\ Accounted /\ RoughType => TypeOK
<1> SUFFICES ASSUME IInv, Accounted, RoughType PROVE TypeOK
  OBVIOUS
<1>1. cacheSize \in Int /\ drift \in Int /\ threadsWaiting \in 0..1
  BY DEF Accounted
<1>2. \A e \in Entry : /\ entries[e].isUpdated \in BOOLEAN
                       /\ entries[e].key \in Key \cup {Null}
                       /\ entries[e].data \in Seq(Nat)
  BY DEF IInv, Typed, CacheDataType
<1>3. /\ client.entry \in Entry \cup {Null} /\ client.victim \in Entry \cup {Null}
      /\ flusher.entry \in Entry \cup {Null}
  BY DEF IInv, Typed, ClientType, FlusherType
<1> QED
  BY <1>1, <1>2, <1>3 DEF TypeOK, IInv, Typed, Cell, RoughType

(* addToCache knows the size of what it can evict, but for what write made  *)
(* of the lengths of cached bytes, for any cells, bytes and size of the     *)
(* cache, and whatever fails (read, write and addToCache).                  *)
THEOREM CacheSizeIsTrue ==
  ASSUME IsFiniteSet(Key), ~IsFiniteSet(Entry)
  PROVE  Spec => []CacheAccounted
<1>1. Init => IInv /\ Accounted
  BY InitIInv, InitAccounted
<1>2. IInv /\ [Next]_vars => IInv'
  BY StepIInv
<1>3. IInv /\ Accounted /\ [Next]_vars => Accounted'
  BY StepAccounted
<1>4. Accounted => CacheAccounted
  BY AccountedCache
<1> QED
  BY <1>1, <1>2, <1>3, <1>4, PTL DEF Spec

(* Every reference is to an object, every object has bytes, and one read at *)
(* most is counted as waiting (read, write, addToCache and run).            *)
THEOREM TypeCorrect ==
  ASSUME IsFiniteSet(Key), ~IsFiniteSet(Entry)
  PROVE  Spec => []TypeOK
<1>1. Init => IInv /\ Accounted /\ RoughType
  BY InitIInv, InitAccounted DEF Init, RoughType
<1>2. IInv /\ [Next]_vars => IInv'
  BY StepIInv
<1>3. IInv /\ Accounted /\ [Next]_vars => Accounted'
  BY StepAccounted
<1>4. [Next]_vars /\ RoughType => RoughType'
  BY RoughStays
<1>5. IInv /\ Accounted /\ RoughType => TypeOK
  BY AccountedTypes
<1> QED
  BY <1>1, <1>2, <1>3, <1>4, <1>5, PTL DEF Spec

-----------------------------------------------------------------------------
(* The cache as a memory.                                                   *)

(* The victim is about to leave the map.                                    *)
Leaving(key) == client.pc = "evictRemove" /\ entries[client.victim].key = key

(* Writing these bytes to the disk now would not show: they are there, or   *)
(* as many bytes or more are cached of the cell, and stay.                  *)
Harmless(key, data) ==
    \/ OnDisk(key, data)
    \/ /\ cache[key] # Null
       /\ Len(data) <= Len(entries[cache[key]].data)
       /\ ~Leaving(key)

HandHarmless ==
    flusher.pc = "write" => Harmless(entries[flusher.entry].key, flusher.data)

(* What leaves the map is on disk.                                          *)
VictimWritten ==
    client.pc = "evictRemove" =>
        OnDisk(entries[client.victim].key, entries[client.victim].data)

(* What the new object has was read from the disk or is to be written.      *)
NewBytes ==
    Evicting =>
        IF client.reading
        THEN /\ Len(entries[client.entry].data) \in Lengths
             /\ OnDisk(client.key, entries[client.entry].data)
        ELSE entries[client.entry].data \in Data

(* The invariant, until something rough has come.                           *)
Known == HandHarmless /\ VictimWritten /\ NewBytes

Remembers == RoughType /\ (~rough => Known)

(* A step of the cache is a step of the memory, or none that it shows.      *)
Answers == [Promised!Next]_Promised!memoryVars

(* Neither the step nor what was before it is rough.                        *)
Smooth == rough = FALSE /\ rough' = FALSE

-----------------------------------------------------------------------------
(* Bytes written over no more bytes leave nothing of them.                  *)
LEMMA OverlayCovers ==
  ASSUME NEW cell \in Cell, NEW data \in Seq(Nat), NEW other \in Seq(Nat),
         Len(other) <= Len(data)
  PROVE  Overlay(Overlay(cell, other), data) = Overlay(cell, data)
<1>1. \A i \in 1..CellSize : Overlay(cell, other)[i] =
                                 IF i <= Len(other) THEN other[i] ELSE cell[i]
  BY DEF Overlay
<1>2. \A i \in 1..CellSize : i <= Len(other) => i <= Len(data)
  BY ActionThreadAssumption DEF ActionThreadAssumption
<1>3. \A i \in 1..CellSize :
         (IF i <= Len(data) THEN data[i] ELSE Overlay(cell, other)[i])
         = (IF i <= Len(data) THEN data[i] ELSE cell[i])
  BY <1>1, <1>2
<1> QED
  BY <1>3 DEF Overlay

(* Some of a cell's own bytes written over it change nothing.               *)
LEMMA OverlaySelf ==
  ASSUME NEW cell \in Cell, NEW length \in Lengths
  PROVE  /\ SubSeq(cell, 1, length) \in Seq(Nat) /\ Len(SubSeq(cell, 1, length)) = length
         /\ Overlay(cell, SubSeq(cell, 1, length)) = cell
<1>1. CellSize \in Nat /\ length \in 1..CellSize
  BY ActionThreadAssumption DEF ActionThreadAssumption
<1>2. cell \in Seq(Nat) /\ Len(cell) = CellSize
  BY <1>1 DEF Cell
<1>3. /\ SubSeq(cell, 1, length) \in Seq(Nat) /\ Len(SubSeq(cell, 1, length)) = length
      /\ \A i \in 1..length : SubSeq(cell, 1, length)[i] = cell[i]
  BY <1>1, <1>2
<1> PICK s : s = SubSeq(cell, 1, length)
  OBVIOUS
<1>4. Len(s) = length /\ \A i \in 1..length : s[i] = cell[i]
  BY <1>3
<1>5. \A i \in 1..CellSize : (IF i <= Len(s) THEN s[i] ELSE cell[i]) = cell[i]
  BY <1>1, <1>4
<1>6. Overlay(cell, s) = [i \in 1..CellSize |-> cell[i]]
  BY <1>5 DEF Overlay
<1>7. cell = [i \in 1..CellSize |-> cell[i]]
  BY DEF Cell
<1> QED
  BY <1>3, <1>6, <1>7

(* As many of the bytes laid over a cell as are copied are read from it.    *)
LEMMA ReadsOverlay ==
  ASSUME NEW cell \in Cell, NEW data \in Seq(Nat), NEW length \in Lengths,
         length <= Len(data)
  PROVE  SubSeq(Overlay(cell, data), 1, length) = Copied(data, length)
<1>1. CellSize \in Nat /\ length \in 1..CellSize /\ length \in Nat
  BY ActionThreadAssumption DEF ActionThreadAssumption
<1> PICK c : c = Overlay(cell, data)
  OBVIOUS
<1>2. c \in Cell
  BY OverlayTwice
<1>3. c \in Seq(Nat) /\ Len(c) = CellSize
  BY <1>1, <1>2 DEF Cell
<1>4. \A i \in 1..length : c[i] = data[i] /\ data[i] \in Nat
  BY <1>1 DEF Overlay
<1>5. /\ SubSeq(c, 1, length) \in Seq(Nat)
      /\ Len(SubSeq(c, 1, length)) = length
      /\ \A i \in 1..length : SubSeq(c, 1, length)[i] = c[i]
  BY <1>1, <1>3
<1> PICK s : s = SubSeq(c, 1, length)
  OBVIOUS
<1>6. s \in Seq(Nat) /\ Len(s) = length /\ \A i \in 1..length : s[i] = data[i]
  BY <1>4, <1>5
<1>7. \A i \in 1..length : i <= Len(data)
  BY <1>1
<1>8. Copied(data, length) = [i \in 1..length |-> data[i]]
  BY <1>7 DEF Copied
<1>9. s = [i \in 1..length |-> s[i]]
  BY <1>6
<1> QED
  BY <1>6, <1>8, <1>9

(* All of them are the bytes themselves.                                    *)
LEMMA CopiesAll ==
  ASSUME NEW data \in Seq(Nat)
  PROVE  Copied(data, Len(data)) = data
<1>1. Copied(data, Len(data)) = [i \in 1..Len(data) |-> data[i]]
  BY DEF Copied
<1> QED
  BY <1>1

(* The memory is what the map and the disk say.                             *)
LEMMA SameMemory ==
  ASSUME \A key \in Key :
            (IF cache'[key] = Null THEN disk'[key]
             ELSE Overlay(disk'[key], entries'[cache'[key]].data))
            = (IF cache[key] = Null THEN disk[key]
               ELSE Overlay(disk[key], entries[cache[key]].data)),
         UNCHANGED last, Smooth
  PROVE  Answers
<1>1. Memory' = Memory
  BY DEF Memory
<1> QED
  BY <1>1 DEF Answers, Promised!memoryVars, Smooth

(* It stays while the map, its objects and the disk do.                     *)
LEMMA QuietMemory ==
  ASSUME UNCHANGED <<disk, cache, last>>, Smooth,
         \A key \in Key : cache[key] # Null =>
            entries'[cache[key]].data = entries[cache[key]].data
  PROVE  Answers
<1>1. \A key \in Key :
         (IF cache'[key] = Null THEN disk'[key]
          ELSE Overlay(disk'[key], entries'[cache'[key]].data))
         = (IF cache[key] = Null THEN disk[key]
            ELSE Overlay(disk[key], entries[cache[key]].data))
  OBVIOUS
<1> QED
  BY <1>1, SameMemory

(* What the flusher holds stays.                                            *)
SameHand ==
    flusher'.pc = "write" =>
        /\ flusher.pc = "write"
        /\ flusher'.entry = flusher.entry /\ flusher'.data = flusher.data
        /\ entries'[flusher.entry].key = entries[flusher.entry].key

(* Then it stays harmless if it would for all.                              *)
LEMMA HandStays ==
  ASSUME IInv, Known, SameHand,
         \A key \in Key, data \in Seq(Nat) : Harmless(key, data) => Harmless(key, data)'
  PROVE  HandHarmless'
<1> SUFFICES ASSUME flusher'.pc = "write"
             PROVE  Harmless(entries[flusher.entry].key, flusher.data)'
  BY DEF HandHarmless
<1> PICK k : k = entries[flusher.entry].key
  OBVIOUS
<1> PICK data : data = flusher.data
  OBVIOUS
<1>1. flusher.pc = "write" /\ flusher'.data = data /\ entries'[flusher'.entry].key = k
  BY DEF SameHand
<1>2. k \in Key /\ data \in Seq(Nat)
  BY <1>1 DEF IInv, Typed, Holding
<1>3. Harmless(k, data)
  BY <1>1 DEF Known, HandHarmless
<1>4. Harmless(k, data)'
  BY <1>2, <1>3
<1> QED
  BY <1>1, <1>4

-----------------------------------------------------------------------------
(* The client's steps.                                                      *)

(* What the map has at a cell.                                              *)
LEMMA CachedFacts ==
  ASSUME IInv, NEW key \in Key, cache[key] # Null
  PROVE  /\ cache[key] \in Entry /\ entries[cache[key]].key = key
         /\ entries[cache[key]].data \in Seq(Nat)
BY DEF IInv, Typed, CacheDataType, Placed, MapPlaced

(* A cached read of no more bytes than there are.                           *)
LEMMA ReadCachedAnswers ==
  ASSUME IInv, Known, Smooth,
         NEW key \in Key, NEW length \in Lengths, ReadCached(key, length)
  PROVE  Known' /\ Answers
<1>10. PICK e : e = cache[key]
  OBVIOUS
<1>11. PICK data : data = entries[e].data
  OBVIOUS
<1>1. /\ UNCHANGED <<disk, cache, entries, client, flusher>>
      /\ e # Null /\ last' = Call("read", key, Copied(data, length))
      /\ rough' = (rough \/ length > Len(data))
  BY <1>10, <1>11 DEF ReadCached, RoughIf, medium, clientOwn, waiting
<1>2. e \in Entry /\ entries[e].key = key /\ data \in Seq(Nat)
  BY <1>1, <1>10, <1>11, CachedFacts
<1>3. length <= Len(data)
  <2>1. ~(length > Len(data))
    BY <1>1 DEF Smooth
  <2>2. length \in Nat
    BY ActionThreadAssumption DEF ActionThreadAssumption
  <2>3. Len(data) \in Nat
    BY <1>2
  <2> QED
    BY <2>1, <2>2, <2>3
<1>4. Known'
  BY <1>1 DEF Known, HandHarmless, Harmless, Leaving, VictimWritten, NewBytes, OnDisk, Evicting
<1>5. Memory[key] = Overlay(disk[key], data) /\ disk[key] \in Cell
  BY <1>1, <1>10, <1>11 DEF Memory, IInv, Typed
<1>6. SubSeq(Memory[key], 1, length) = Copied(data, length)
  BY <1>2, <1>3, <1>5, ReadsOverlay
<1>7. Memory' = Memory
  BY <1>1 DEF Memory
<1>8. Promised!Read(key, length)
  BY <1>1, <1>6, <1>7 DEF Promised!Read, Promised!Call, Call, Smooth
<1> QED
  BY <1>4, <1>8 DEF Answers, Promised!Next

(* A step of the client that leaves the map and the disk as they are.       *)
LEMMA QuietStep ==
  ASSUME IInv, Known, Smooth, UNCHANGED <<disk, cache, last>>, SameHand,
         \A key \in Key : cache[key] # Null =>
            entries'[cache[key]].data = entries[cache[key]].data,
         client'.pc # "evictRemove", NewBytes'
  PROVE  Known' /\ Answers
<1>1. ASSUME NEW key \in Key, NEW data \in Seq(Nat), Harmless(key, data)
      PROVE  Harmless(key, data)'
  <2>1. ~Leaving(key)'
    BY DEF Leaving
  <2>2. OnDisk(key, data) => OnDisk(key, data)'
    BY DEF OnDisk
  <2> QED
    BY <1>1, <2>1, <2>2 DEF Harmless
<1>2. HandHarmless'
  BY <1>1, HandStays
<1>3. VictimWritten'
  BY DEF VictimWritten
<1> QED
  BY <1>2, <1>3, QuietMemory DEF Known

(* What the client does without a new object, up to the map.                *)
LEMMA ClientQuiet ==
  ASSUME IInv, Known, Smooth,
         \/ \E key \in Key : ReadMiss(key)
         \/ Dequeue \/ Enqueue
         \/ \E victim \in Entry : EvictClean(victim) \/ EvictDirty(victim)
  PROVE  Known' /\ Answers
<1>1. /\ UNCHANGED <<disk, cache, entries, last>>
      /\ flusher' = flusher \/ flusher' = [flusher EXCEPT !.pc = "check"]
  BY DEF ReadMiss, Dequeue, Enqueue, EvictClean, EvictDirty, medium, clientOwn, calls,
     waiting, Woken
<1>2. SameHand
  BY <1>1 DEF SameHand, IInv, Typed, FlusherType
<1>3. \/ ~Evicting /\ ~Evicting'
      \/ /\ Evicting /\ Evicting' /\ client'.key = client.key
         /\ client'.entry = client.entry /\ client'.reading = client.reading
         /\ client'.pc # "evictRemove"
  <2>1. CASE \E key \in Key : ReadMiss(key)
    BY <2>1 DEF ReadMiss, Idle, Evicting, At
  <2>2. CASE Dequeue
    BY <2>2 DEF Dequeue, Go, Evicting, At, IInv, Typed, ClientType
  <2>3. CASE Enqueue
    BY <2>3 DEF Enqueue, Idle, Evicting, At
  <2>4. CASE \E victim \in Entry : EvictClean(victim) \/ EvictDirty(victim)
    <3>1. PICK victim \in Entry : EvictClean(victim) \/ EvictDirty(victim)
      BY <2>4
    <3>2. CASE EvictClean(victim)
      BY <3>2 DEF EvictClean, Evicts, Evicting, At
    <3>3. CASE EvictDirty(victim)
      <4>1. /\ client.pc = "evict"
            /\ client' = [client EXCEPT !.pc = "evictWrite", !.victim = victim]
        BY <3>3 DEF EvictDirty, Evicts, At
      <4>2. /\ client'.pc = "evictWrite" /\ client'.key = client.key
            /\ client'.entry = client.entry /\ client'.reading = client.reading
        BY <4>1 DEF IInv, Typed, ClientType
      <4> QED
        BY <4>1, <4>2 DEF Evicting, At
    <3> QED
      BY <3>1, <3>2, <3>3
  <2> QED
    BY <2>1, <2>2, <2>3, <2>4
<1>4. NewBytes' /\ client'.pc # "evictRemove"
  BY <1>1, <1>3 DEF Known, NewBytes, OnDisk, Evicting
<1> QED
  BY <1>1, <1>2, <1>4, QuietStep

(* A new object is in nobody's hands and not in the map.                    *)
LEMMA NewObjectQuiet ==
  ASSUME IsFiniteSet(Key), ~IsFiniteSet(Entry), IInv, Known, Smooth,
         NEW new, entries' = [entries EXCEPT ![Fresh] = new],
         UNCHANGED <<disk, cache, last>>,
         flusher' = flusher \/ flusher'.pc = "check",
         client'.pc = "evict", NewBytes'
  PROVE  Known' /\ Answers
<1>1. /\ Fresh \in Entry /\ \A key \in Key : cache[key] # Fresh
      /\ flusher.entry # Fresh
  BY FreshFacts DEF IInv
<1>2. \A x : x # Fresh => entries'[x] = entries[x]
  BY DEF IInv, Typed
<1>3. SameHand
  BY <1>1, <1>2 DEF SameHand
<1>4. \A key \in Key : cache[key] # Null => entries'[cache[key]].data = entries[cache[key]].data
  BY <1>1, <1>2
<1> QED
  BY <1>3, <1>4, QuietStep

(* A read of the disk makes an object of what is there.                     *)
LEMMA ReadDiskAnswers ==
  ASSUME IsFiniteSet(Key), ~IsFiniteSet(Entry), IInv, Known, Smooth,
         NEW length \in Lengths, ReadDisk(length)
  PROVE  Known' /\ Answers
<1> PICK data : data = SubSeq(disk[client.key], 1, length)
  OBVIOUS
<1>1. ~Fails
  BY DEF Fails, RoughIf, Smooth
<1>2. /\ UNCHANGED <<disk, cache, last>>
      /\ client.pc = "readDisk"
      /\ flusher' = flusher \/ flusher' = [flusher EXCEPT !.pc = "check"]
      /\ entries' = [entries EXCEPT ![Fresh] = CacheData(FALSE, client.key, data)]
      /\ client' = [client EXCEPT !.pc = "evict", !.entry = Fresh, !.reading = TRUE]
  BY <1>1 DEF ReadDisk, medium, clientOwn, Woken, At
<1>3. Fresh \in Entry
  BY FreshFacts DEF IInv
<1>4. /\ client'.pc = "evict" /\ client'.entry = Fresh /\ client'.reading
      /\ client'.key = client.key
  BY <1>2 DEF IInv, Typed, ClientType
<1>5. Len(data) \in Lengths /\ OnDisk(client.key, data)
  <2>1. disk[client.key] \in Cell
    BY <1>2 DEF IInv, Typed, At
  <2> QED
    BY <2>1, OverlaySelf DEF OnDisk
<1>6. NewBytes'
  <2>1. entries'[Fresh].data = data
    BY <1>2, <1>3 DEF IInv, Typed, CacheData
  <2>2. OnDisk(client.key, data)'
    BY <1>2, <1>4, <1>5 DEF OnDisk
  <2> QED
    BY <1>4, <1>5, <2>1, <2>2 DEF NewBytes
<1>7. flusher' = flusher \/ flusher'.pc = "check"
  BY <1>2 DEF IInv, Typed, FlusherType
<1> QED
  BY <1>2, <1>4, <1>6, <1>7, NewObjectQuiet

(* A write of a cell that is not in the map makes an object with its bytes. *)
LEMMA WriteMissAnswers ==
  ASSUME IsFiniteSet(Key), ~IsFiniteSet(Entry), IInv, Known, Smooth,
         NEW key \in Key, NEW data \in Data, WriteMiss(key, data)
  PROVE  Known' /\ Answers
<1>1. /\ UNCHANGED <<disk, cache, last, flusher>>
      /\ entries' = [entries EXCEPT ![Fresh] = CacheData(TRUE, key, data)]
      /\ client' = [pc |-> "evict", key |-> key, entry |-> Fresh, victim |-> Null,
                    reading |-> FALSE]
  BY DEF WriteMiss, Idle, At, medium, clientOwn, waiting
<1>2. Fresh \in Entry
  BY FreshFacts DEF IInv
<1>3. client'.pc = "evict" /\ client'.entry = Fresh /\ ~client'.reading
  BY <1>1
<1>4. NewBytes'
  <2>1. entries'[Fresh].data = data
    BY <1>1, <1>2 DEF IInv, Typed, CacheData
  <2> QED
    BY <1>3, <2>1 DEF NewBytes
<1> QED
  BY <1>1, <1>3, <1>4, NewObjectQuiet

(* As many bytes or more take the place of those in the map.                *)
LEMMA WriteCachedAnswers ==
  ASSUME IInv, Known, Smooth,
         NEW key \in Key, NEW data \in Data, WriteCached(key, data)
  PROVE  Known' /\ Answers
<1> PICK e : e = cache[key]
  OBVIOUS
<1> PICK old : old = entries[e].data
  OBVIOUS
<1>1. /\ UNCHANGED <<disk, cache, flusher>>
      /\ client.pc = "idle" /\ e # Null
      /\ entries' = [entries EXCEPT ![e] = CacheData(TRUE, key, data)]
      /\ client'.pc = "dequeue"
      /\ last' = Call("write", key, data)
      /\ rough' = (rough \/ Len(data) - Len(old) < 0)
  BY DEF WriteCached, RoughIf, Idle, At, medium, clientOwn, waiting
<1>2. e \in Entry /\ entries[e].key = key /\ old \in Seq(Nat) /\ data \in Seq(Nat)
  BY <1>1, CachedFacts, ActionThreadAssumption DEF ActionThreadAssumption
<1>3. /\ entries'[e].key = key /\ entries'[e].data = data
      /\ \A x : x # e => entries'[x] = entries[x]
  BY <1>1, <1>2 DEF IInv, Typed, CacheData
<1>4. Len(old) <= Len(data)
  <2>1. ~(Len(data) - Len(old) < 0)
    BY <1>1 DEF Smooth
  <2>2. Len(data) \in Nat /\ Len(old) \in Nat
    BY <1>2
  <2> QED
    BY <2>1, <2>2
<1>5. Known'
  <2>1. \A x : entries'[x].key = entries[x].key
    BY <1>2, <1>3
  <2>2. SameHand
    BY <1>1, <2>1 DEF SameHand
  <2>3. ASSUME NEW k \in Key, NEW held \in Seq(Nat), Harmless(k, held)
        PROVE  Harmless(k, held)'
    <3>1. CASE OnDisk(k, held)
      BY <1>1, <3>1 DEF Harmless, OnDisk
    <3>2. CASE ~OnDisk(k, held)
      <4>1. /\ cache[k] # Null /\ cache[k] \in Entry
            /\ Len(held) <= Len(entries[cache[k]].data)
        BY <2>3, <3>2, CachedFacts DEF Harmless
      <4>2. Len(held) <= Len(entries'[cache[k]].data)
        <5>1. CASE cache[k] = e
          <6>1. Len(held) <= Len(old) /\ Len(held) \in Nat /\ Len(old) \in Nat /\ Len(data) \in Nat
            BY <1>2, <4>1, <5>1
          <6>2. Len(held) <= Len(data)
            BY <1>4, <6>1
          <6> QED
            BY <1>3, <5>1, <6>2
        <5>2. CASE cache[k] # e
          BY <1>3, <4>1, <5>2
        <5> QED
          BY <5>1, <5>2
      <4> QED
        BY <1>1, <4>1, <4>2 DEF Harmless, Leaving
    <3> QED
      BY <3>1, <3>2
  <2>4. HandHarmless'
    BY <2>2, <2>3, HandStays
  <2>5. NewBytes' /\ VictimWritten'
    BY <1>1 DEF NewBytes, VictimWritten, Evicting
  <2> QED
    BY <2>4, <2>5 DEF Known
<1>6. Overlay(Memory[key], data) = Overlay(disk[key], data)
  <2>1. Memory[key] = Overlay(disk[key], old) /\ disk[key] \in Cell
    BY <1>1 DEF Memory, IInv, Typed
  <2> QED
    BY <1>2, <1>4, <2>1, OverlayCovers
<1>7. Memory' = [Memory EXCEPT ![key] = Overlay(@, data)]
  <2>1. Memory'[key] = Overlay(disk[key], data)
    BY <1>1, <1>3 DEF Memory
  <2>2. ASSUME NEW k \in Key, k # key PROVE Memory'[k] = Memory[k]
    <3>1. cache[k] # Null => entries'[cache[k]] = entries[cache[k]]
      BY <1>2, <1>3, <2>2, CachedFacts
    <3>2. cache'[k] = cache[k] /\ disk'[k] = disk[k]
      BY <1>1
    <3> QED
      BY <3>1, <3>2 DEF Memory
  <2>3. Memory = [k \in Key |-> Memory[k]] /\ Memory' = [k \in Key |-> Memory'[k]]
    BY DEF Memory
  <2> QED
    BY <1>6, <2>1, <2>2, <2>3
<1>8. Promised!Write(key, data)
  BY <1>1, <1>7 DEF Promised!Write, Promised!Call, Call, Promised!Overlay, Overlay, Smooth
<1> QED
  BY <1>5, <1>8 DEF Answers, Promised!Next

(* An eviction writes what the map has, and what the flusher holds, if it   *)
(* holds bytes of that cell.                                                *)
LEMMA EvictWriteAnswers ==
  ASSUME IInv, Known, Smooth, EvictWrite
  PROVE  Known' /\ Answers
<1> PICK v : v = client.victim
  OBVIOUS
<1> PICK k : k = entries[v].key
  OBVIOUS
<1> PICK data : data = entries[v].data
  OBVIOUS
<1>1. ~Fails
  BY DEF Fails, RoughIf, Smooth
<1>2. /\ UNCHANGED <<cache, entries, flusher, last>>
      /\ client.pc = "evictWrite" /\ client' = [client EXCEPT !.pc = "evictRemove"]
      /\ disk' = [disk EXCEPT ![k] = Overlay(@, data)]
      /\ rough' = (rough \/ (flusher.pc = "write" /\ entries[flusher.entry].key = k
                             /\ flusher.data # data))
  BY <1>1 DEF EvictWrite, RoughIf, At, Go, clientOwn, waiting, calls
<1>3. /\ k \in Key /\ cache[k] = v /\ v # Null /\ data \in Seq(Nat) /\ disk \in [Key -> Cell]
  <2>1. v \in Entry /\ Cached(v)
    BY <1>2 DEF IInv, Typed, Placed, OldPlaced, HasVictim
  <2> QED
    BY <2>1, ActionThreadAssumption
    DEF ActionThreadAssumption, IInv, Typed, Cached, CacheDataType
<1>4. /\ disk'[k] = Overlay(disk[k], data)
      /\ \A key \in Key : key # k => disk'[key] = disk[key]
  BY <1>2, <1>3
<1>5. OnDisk(k, data)'
  <2>1. Overlay(disk'[k], data) = disk'[k]
    BY <1>3, <1>4, OverlayTwice
  <2> QED
    BY <2>1 DEF OnDisk
<1>6. /\ client'.pc = "evictRemove" /\ client'.key = client.key /\ client'.victim = v
      /\ client'.entry = client.entry /\ client'.reading = client.reading
  BY <1>2 DEF IInv, Typed, ClientType
<1>7. HandHarmless'
  <2> PICK h : h = entries[flusher.entry].key
    OBVIOUS
  <2> PICK held : held = flusher.data
    OBVIOUS
  <2>1. SUFFICES ASSUME flusher.pc = "write" PROVE Harmless(h, held)'
    BY <1>2 DEF HandHarmless
  <2>2. h \in Key /\ Harmless(h, held)
    BY <2>1 DEF IInv, Typed, Holding, Known, HandHarmless
  <2>3. CASE h = k
    <3>1. held = data
      BY <1>2, <2>1, <2>3 DEF Smooth
    <3> QED
      BY <1>5, <2>3, <3>1 DEF Harmless
  <2>4. CASE h # k
    <3>1. ~Leaving(h)'
      BY <1>2, <1>6, <2>4 DEF Leaving
    <3>2. disk'[h] = disk[h]
      BY <1>4, <2>2, <2>4
    <3>3. OnDisk(h, held) => OnDisk(h, held)'
      BY <3>2 DEF OnDisk
    <3> QED
      BY <1>2, <2>2, <3>1, <3>3 DEF Harmless
  <2> QED
    BY <2>3, <2>4
<1>8. VictimWritten'
  BY <1>2, <1>5, <1>6 DEF VictimWritten
<1>9. NewBytes'
  <2>1. Evicting /\ client.key \in Key /\ client.key # k
    <3>1. Evicting /\ client.key \in Key
      BY <1>2 DEF Evicting, IInv, Typed
    <3> QED
      BY <1>3, <3>1 DEF IInv, Placed, NewPlaced
  <2>2. disk'[client.key] = disk[client.key]
    BY <1>4, <2>1
  <2>3. OnDisk(client.key, entries[client.entry].data)
          => OnDisk(client.key, entries[client.entry].data)'
    BY <1>2, <1>6, <2>2 DEF OnDisk
  <2> QED
    BY <1>2, <1>6, <2>1, <2>3 DEF Known, NewBytes
<1>10. \A key \in Key :
         (IF cache'[key] = Null THEN disk'[key]
          ELSE Overlay(disk'[key], entries'[cache'[key]].data))
         = (IF cache[key] = Null THEN disk[key]
            ELSE Overlay(disk[key], entries[cache[key]].data))
  <2>1. Overlay(disk'[k], data) = Overlay(disk[k], data)
    BY <1>3, <1>4, OverlayTwice
  <2> QED
    BY <1>2, <1>3, <1>4, <2>1
<1> QED
  BY <1>2, <1>7, <1>8, <1>9, <1>10, SameMemory DEF Known

(* What leaves the map is on disk.                                          *)
LEMMA EvictRemoveAnswers ==
  ASSUME IInv, Known, Smooth, EvictRemove
  PROVE  Known' /\ Answers
<1> PICK v : v = client.victim
  OBVIOUS
<1> PICK k : k = entries[v].key
  OBVIOUS
<1> PICK data : data = entries[v].data
  OBVIOUS
<1>1. /\ UNCHANGED <<disk, entries, flusher, last>>
      /\ client.pc = "evictRemove"
      /\ client' = [client EXCEPT !.pc = "evict", !.victim = Null]
      /\ cache' = cache \/ cache' = [cache EXCEPT ![k] = Null]
  BY DEF EvictRemove, At, medium, waiting, calls
<1>2. k \in Key /\ cache[k] = v /\ v # Null /\ OnDisk(k, data)
  <2>1. v \in Entry /\ Cached(v) /\ v # Null
    BY <1>1, ActionThreadAssumption
    DEF ActionThreadAssumption, IInv, Typed, Placed, OldPlaced, HasVictim
  <2> QED
    BY <1>1, <2>1 DEF Cached, Known, VictimWritten
<1>3. \A key \in Key : cache'[key] = cache[key] \/ (key = k /\ cache'[key] = Null)
  BY <1>1, <1>2 DEF IInv, Typed
<1>4. /\ client'.pc = "evict" /\ client'.key = client.key
      /\ client'.entry = client.entry /\ client'.reading = client.reading
  BY <1>1 DEF IInv, Typed, ClientType
<1>5. ASSUME NEW key \in Key, NEW held \in Seq(Nat), Harmless(key, held)
      PROVE  Harmless(key, held)'
  <2>1. CASE OnDisk(key, held)
    BY <1>1, <2>1 DEF Harmless, OnDisk
  <2>2. CASE ~OnDisk(key, held)
    <3>1. /\ cache[key] # Null /\ Len(held) <= Len(entries[cache[key]].data)
          /\ ~Leaving(key)
      BY <1>5, <2>2 DEF Harmless
    <3>2. cache'[key] = cache[key]
      BY <1>1, <1>3, <3>1 DEF Leaving
    <3> QED
      BY <1>1, <1>4, <3>1, <3>2 DEF Harmless, Leaving
  <2> QED
    BY <2>1, <2>2
<1>6. HandHarmless'
  <2>1. SameHand
    BY <1>1 DEF SameHand
  <2> QED
    BY <1>5, <2>1, HandStays
<1>7. VictimWritten' /\ NewBytes'
  BY <1>1, <1>4 DEF Known, VictimWritten, NewBytes, OnDisk, Evicting
<1>8. \A key \in Key :
         (IF cache'[key] = Null THEN disk'[key]
          ELSE Overlay(disk'[key], entries'[cache'[key]].data))
         = (IF cache[key] = Null THEN disk[key]
            ELSE Overlay(disk[key], entries[cache[key]].data))
  BY <1>1, <1>2, <1>3 DEF OnDisk
<1> QED
  BY <1>1, <1>6, <1>7, <1>8, SameMemory DEF Known

(* The new object is put in the map, and the call returns.                  *)
LEMMA InsertAnswers ==
  ASSUME IInv, Known, Smooth, Insert
  PROVE  Known' /\ Answers
<1> PICK e : e = client.entry
  OBVIOUS
<1> PICK k : k = client.key
  OBVIOUS
<1> PICK data : data = entries[e].data
  OBVIOUS
<1>1. /\ UNCHANGED <<disk, entries, flusher>>
      /\ client.pc = "evict" /\ Evicting
      /\ cache' = [cache EXCEPT ![k] = e]
      /\ last' = Call(IF client.reading THEN "read" ELSE "write", k, data)
  BY DEF Insert, At, medium, waiting, Evicting
<1>2. /\ e \in Entry /\ e # Null /\ k \in Key /\ cache[k] = Null /\ entries[e].key = k
      /\ cache \in [Key -> Entry \cup {Null}] /\ data \in Seq(Nat) /\ disk[k] \in Cell
  BY <1>1, ActionThreadAssumption
  DEF ActionThreadAssumption, IInv, Typed, Placed, NewPlaced, CacheDataType
<1>3. cache'[k] = e /\ \A key \in Key : key # k => cache'[key] = cache[key]
  BY <1>1, <1>2
<1>4. client'.pc \in {"idle", "enqueue"}
  <2>1. client' = Idle \/ client' = [client EXCEPT !.pc = "enqueue"]
    BY DEF Insert, Go
  <2> QED
    BY <2>1 DEF Idle, IInv, Typed, ClientType
<1>5. ASSUME NEW key \in Key, NEW held \in Seq(Nat), Harmless(key, held)
      PROVE  Harmless(key, held)'
  <2>1. CASE OnDisk(key, held)
    BY <1>1, <2>1 DEF Harmless, OnDisk
  <2>2. CASE ~OnDisk(key, held)
    <3>1. cache[key] # Null /\ Len(held) <= Len(entries[cache[key]].data)
      BY <1>5, <2>2 DEF Harmless
    <3>2. cache'[key] = cache[key]
      BY <1>2, <1>3, <3>1
    <3>3. ~Leaving(key)'
      BY <1>4 DEF Leaving
    <3> QED
      BY <1>1, <3>1, <3>2, <3>3 DEF Harmless
  <2> QED
    BY <2>1, <2>2
<1>6. Known'
  <2>1. SameHand
    BY <1>1 DEF SameHand
  <2>2. HandHarmless'
    BY <1>5, <2>1, HandStays
  <2>3. NewBytes' /\ VictimWritten'
    BY <1>4 DEF NewBytes, VictimWritten, Evicting
  <2> QED
    BY <2>2, <2>3 DEF Known
<1>7. /\ Memory[k] = disk[k] /\ Memory'[k] = Overlay(disk[k], data)
      /\ \A key \in Key : key # k => Memory'[key] = Memory[key]
      /\ Memory = [key \in Key |-> Memory[key]] /\ Memory' = [key \in Key |-> Memory'[key]]
  BY <1>1, <1>2, <1>3 DEF Memory
<1>8. CASE client.reading
  <2>1. Len(data) \in Lengths /\ OnDisk(k, data)
    BY <1>1, <1>8 DEF Known, NewBytes
  <2>2. Memory' = Memory
    BY <1>7, <2>1 DEF OnDisk
  <2>3. SubSeq(Memory[k], 1, Len(data)) = data
    <3>1. Len(data) <= Len(data)
      BY <1>2
    <3>2. SubSeq(Overlay(disk[k], data), 1, Len(data)) = Copied(data, Len(data))
      BY <1>2, <2>1, <3>1, ReadsOverlay
    <3> QED
      BY <1>2, <1>7, <2>1, <3>2, CopiesAll DEF OnDisk
  <2>4. Promised!Read(k, Len(data))
    BY <1>1, <1>8, <2>2, <2>3 DEF Promised!Read, Promised!Call, Call, Smooth
  <2> QED
    BY <1>2, <1>6, <2>1, <2>4 DEF Answers, Promised!Next
<1>9. CASE ~client.reading
  <2>1. data \in Data
    BY <1>1, <1>9 DEF Known, NewBytes
  <2>2. Memory' = [Memory EXCEPT ![k] = Overlay(@, data)]
    BY <1>7
  <2>3. Promised!Write(k, data)
    BY <1>1, <1>9, <2>2 DEF Promised!Write, Promised!Call, Call, Promised!Overlay, Overlay, Smooth
  <2> QED
    BY <1>2, <1>6, <2>1, <2>3 DEF Answers, Promised!Next
<1> QED
  BY <1>8, <1>9

-----------------------------------------------------------------------------
(* The flusher's steps.                                                     *)

(* Neither the client nor the map sees what the flusher does.               *)
LEMMA FlusherQuiet ==
  ASSUME IInv, Known, Smooth, Flush, ~FlushWrite
  PROVE  Known' /\ Answers
<1>1. /\ UNCHANGED <<disk, cache, client, last>>
      /\ entries' = entries \/ entries' = [entries EXCEPT ![flusher.entry].isUpdated = FALSE]
  BY DEF Flush, FlushCheck, FlushWait, FlushGet, FlushClean, FlushRemove,
     medium, clientOwn, calls
<1>2. \A e \in Entry : entries'[e].data = entries[e].data /\ entries'[e].key = entries[e].key
  <2> PICK f : f = flusher.entry
    OBVIOUS
  <2>1. CASE entries' = [entries EXCEPT ![f].isUpdated = FALSE]
    <3>1. entries \in [Entry -> CacheDataType]
      BY DEF IInv, Typed
    <3> QED
      BY <2>1, <3>1 DEF CacheDataType
  <2> QED
    BY <1>1, <2>1
<1>3. NewBytes'
  <2>1. Evicting => client.entry \in Entry
    BY DEF IInv, Typed
  <2> QED
    BY <1>1, <1>2, <2>1 DEF Known, NewBytes, OnDisk, Evicting
<1>4. VictimWritten'
  <2>1. client.pc = "evictRemove" => client.victim \in Entry
    BY DEF IInv, Typed, HasVictim
  <2> QED
    BY <1>1, <1>2, <2>1 DEF Known, VictimWritten, OnDisk
<1>5. Answers
  BY <1>1, <1>2, CachedFacts, QuietMemory
<1>6. CASE FlushGet /\ writeSequences # <<>>
  <2> PICK e : e = Head(writeSequences)
    OBVIOUS
  <2> PICK k : k = entries[e].key
    OBVIOUS
  <2> PICK data : data = entries[e].data
    OBVIOUS
  <2>1. /\ flusher'.pc = "write" /\ flusher'.entry = e /\ flusher'.data = data
        /\ entries' = entries
    BY <1>6 DEF FlushGet
  <2>2. e \in Entry /\ Cached(e)
    <3>1. 1 \in 1..Len(writeSequences) /\ e = writeSequences[1]
      BY <1>6 DEF IInv, Typed
    <3> QED
      BY <3>1 DEF IInv, Typed, Placed, QueuePlaced
  <2>3. cache[k] = e /\ e # Null /\ data \in Seq(Nat)
    BY <2>2, ActionThreadAssumption
    DEF ActionThreadAssumption, Cached, IInv, Typed, CacheDataType
  <2>4. Harmless(k, data)'
    <3>1. CASE Leaving(k)
      <4>1. client.victim \in Entry /\ Cached(client.victim)
        BY <3>1 DEF Leaving, IInv, Typed, Placed, OldPlaced, HasVictim
      <4>2. client.victim = e
        BY <2>3, <3>1, <4>1 DEF Leaving, Cached
      <4>3. OnDisk(k, data)
        BY <3>1, <4>2 DEF Known, VictimWritten, Leaving
      <4> QED
        BY <1>1, <4>3 DEF Harmless, OnDisk
    <3>2. CASE ~Leaving(k)
      <4>1. Len(data) <= Len(data)
        BY <2>3
      <4> QED
        BY <1>1, <2>1, <2>3, <3>2, <4>1 DEF Harmless, Leaving
    <3> QED
      BY <3>1, <3>2
  <2>5. HandHarmless'
    BY <2>1, <2>4 DEF HandHarmless
  <2> QED
    BY <1>3, <1>4, <1>5, <2>5 DEF Known
<1>7. CASE ~(FlushGet /\ writeSequences # <<>>)
  <2>1. flusher'.pc # "write"
    BY <1>7 DEF Flush, FlushCheck, FlushWait, FlushGet, FlushClean, FlushRemove, FlusherGo,
       IInv, Typed, FlusherType
  <2> QED
    BY <1>3, <1>4, <1>5, <2>1 DEF Known, HandHarmless
<1> QED
  BY <1>6, <1>7

(* The flusher writes under what the map has, or what is on disk.           *)
LEMMA FlushWriteAnswers ==
  ASSUME IInv, Known, Smooth, FlushWrite
  PROVE  Known' /\ Answers
<1> PICK k : k = entries[flusher.entry].key
  OBVIOUS
<1> PICK data : data = flusher.data
  OBVIOUS
<1>1. ~Fails
  BY DEF Fails, RoughIf, Smooth
<1>2. /\ UNCHANGED <<cache, entries, client, last>>
      /\ flusher.pc = "write" /\ flusher' = [flusher EXCEPT !.pc = "clean", !.data = Null]
      /\ disk' = [disk EXCEPT ![k] = Overlay(@, data)]
  BY <1>1 DEF FlushWrite, clientOwn, calls
<1>3. k \in Key /\ data \in Seq(Nat) /\ disk \in [Key -> Cell] /\ disk[k] \in Cell
  BY <1>2 DEF IInv, Typed, Holding
<1>4. disk'[k] = Overlay(disk[k], data) /\ \A key \in Key : key # k => disk'[key] = disk[key]
  BY <1>2, <1>3
<1>5. Harmless(k, data)
  BY <1>2 DEF Known, HandHarmless
<1>6. OnDisk(k, data) => disk' = disk
  BY <1>2, <1>3 DEF OnDisk
<1>7. cache[k] = Null \/ Leaving(k) => disk' = disk
  BY <1>5, <1>6 DEF Harmless
<1>8. Known'
  <2>1. flusher'.pc = "clean"
    BY <1>2 DEF IInv, Typed, FlusherType
  <2>2. VictimWritten'
    <3>1. SUFFICES ASSUME client.pc = "evictRemove"
                   PROVE  OnDisk(entries[client.victim].key, entries[client.victim].data)'
      BY <1>2 DEF VictimWritten
    <3> PICK kv : kv = entries[client.victim].key
      OBVIOUS
    <3>2. kv \in Key /\ OnDisk(kv, entries[client.victim].data)
      BY <3>1 DEF IInv, Typed, Placed, OldPlaced, HasVictim, Cached, Known, VictimWritten
    <3>3. disk'[kv] = disk[kv]
      BY <1>4, <1>7, <3>1, <3>2 DEF Leaving
    <3> QED
      BY <1>2, <3>2, <3>3 DEF OnDisk
  <2>3. NewBytes'
    <3>1. ASSUME Evicting PROVE disk'[client.key] = disk[client.key]
      <4>1. client.key \in Key /\ cache[client.key] = Null
        BY <3>1 DEF IInv, Typed, Placed, NewPlaced
      <4> QED
        BY <1>4, <1>7, <4>1
    <3> QED
      BY <1>2, <3>1 DEF Known, NewBytes, OnDisk, Evicting
  <2> QED
    BY <2>1, <2>2, <2>3 DEF Known, HandHarmless
<1>9. IF cache[k] = Null
      THEN disk'[k] = disk[k]
      ELSE Overlay(disk'[k], entries[cache[k]].data) = Overlay(disk[k], entries[cache[k]].data)
  <2>1. CASE OnDisk(k, data)
    BY <1>6, <2>1
  <2>2. CASE ~OnDisk(k, data)
    <3>1. cache[k] # Null /\ Len(data) <= Len(entries[cache[k]].data)
      BY <1>5, <2>2 DEF Harmless
    <3>2. entries[cache[k]].data \in Seq(Nat)
      BY <1>3, <3>1, CachedFacts
    <3> QED
      BY <1>3, <1>4, <3>1, <3>2, OverlayCovers
  <2> QED
    BY <2>1, <2>2
<1>10. \A key \in Key :
         (IF cache'[key] = Null THEN disk'[key]
          ELSE Overlay(disk'[key], entries'[cache'[key]].data))
         = (IF cache[key] = Null THEN disk[key]
            ELSE Overlay(disk[key], entries[cache[key]].data))
  BY <1>2, <1>4, <1>9
<1> QED
  BY <1>2, <1>8, <1>10, SameMemory

-----------------------------------------------------------------------------
(* Nothing is written or held at first.                                     *)
LEMMA InitRemembers ==
  ASSUME Init
  PROVE  Remembers /\ Promised!Init
<1>1. client.pc = "idle" /\ flusher.pc = "check" /\ rough = FALSE
  BY DEF Init, Idle
<1>2. Remembers
  BY <1>1 DEF Remembers, RoughType, Known, HandHarmless, VictimWritten, NewBytes, Evicting
<1>3. Memory = [key \in Key |-> [i \in 1..CellSize |-> 0]]
  BY DEF Init, Memory
<1>4. last = Promised!Call("open", Null, Null)
  BY DEF Init, Promised!Call, Call
<1> QED
  BY <1>1, <1>2, <1>3, <1>4 DEF Promised!Init

(* Every step is one of the memory, until one is rough.                     *)
LEMMA StepRemembers ==
  ASSUME IsFiniteSet(Key), ~IsFiniteSet(Entry), IInv, Remembers, [Next]_vars
  PROVE  Remembers' /\ Answers
<1>1. RoughType' /\ (rough => rough') /\ RoughType
  BY RoughStays DEF Remembers
<1>2. CASE rough'
  <2>1. Promised!Fail
    BY <1>1, <1>2 DEF Promised!Fail, RoughType
  <2> QED
    BY <1>1, <1>2, <2>1 DEF Answers, Promised!Next, Remembers
<1>3. CASE ~rough'
  <2>1. Smooth /\ Known
    BY <1>1, <1>3 DEF Smooth, RoughType, Remembers
  <2> SUFFICES Known' /\ Answers
    BY <1>1 DEF Remembers
  <2>2. CASE UNCHANGED vars
    <3>1. UNCHANGED <<disk, cache, entries, client, flusher, last>>
      BY <2>2 DEF vars
    <3>2. Known'
      BY <2>1, <3>1 DEF Known, HandHarmless, Harmless, Leaving, VictimWritten, NewBytes,
         OnDisk, Evicting
    <3> QED
      BY <2>1, <3>1, <3>2, QuietMemory
  <2>3. CASE ClientBegins
    <3>1. PICK key \in setup.keys :
             \/ (\E length \in setup.lengths : ReadCached(key, length)) \/ ReadMiss(key)
             \/ \E data \in setup.data : WriteCached(key, data) \/ WriteMiss(key, data)
      BY <2>3 DEF ClientBegins
    <3>2. key \in Key /\ setup.data \subseteq Data /\ setup.lengths \subseteq Lengths
      BY SetupFacts
    <3>3. CASE \E length \in setup.lengths : ReadCached(key, length)
      BY <2>1, <3>2, <3>3, ReadCachedAnswers
    <3>4. CASE ReadMiss(key)
      BY <2>1, <3>2, <3>4, ClientQuiet
    <3>5. CASE \E data \in setup.data : WriteCached(key, data)
      BY <2>1, <3>2, <3>5, WriteCachedAnswers
    <3>6. CASE \E data \in setup.data : WriteMiss(key, data)
      BY <2>1, <3>2, <3>6, WriteMissAnswers
    <3> QED
      BY <3>1, <3>3, <3>4, <3>5, <3>6
  <2>4. CASE ClientContinues
    <3>1. CASE \E length \in setup.lengths : ReadDisk(length)
      BY <2>1, <3>1, SetupFacts, ReadDiskAnswers
    <3>2. CASE \/ Dequeue \/ Enqueue
               \/ \E victim \in Entry : EvictClean(victim) \/ EvictDirty(victim)
      BY <2>1, <3>2, ClientQuiet
    <3>3. CASE EvictWrite \/ EvictRemove \/ Insert
      BY <2>1, <3>3, EvictWriteAnswers, EvictRemoveAnswers, InsertAnswers
    <3>4. CASE EvictNothing
      BY <2>2, <3>4 DEF EvictNothing
    <3> QED
      BY <2>4, <3>1, <3>2, <3>3, <3>4 DEF ClientContinues
  <2>5. CASE Flush
    BY <2>1, <2>5, FlusherQuiet, FlushWriteAnswers
  <2> QED
    BY <2>2, <2>3, <2>4, <2>5 DEF Next
<1> QED
  BY <1>2, <1>3

(* The cache answers like a memory until something rough comes, for any     *)
(* cells, bytes, lengths and size of the cache, and however the client and  *)
(* the flusher interleave (ActionThread.read, write, addToCache and run).   *)
THEOREM ImplementsMemory ==
  ASSUME IsFiniteSet(Key), ~IsFiniteSet(Entry)
  PROVE  Spec => MemoryUntilRough
<1>1. Init => IInv /\ Remembers /\ Promised!Init
  BY InitIInv, InitRemembers
<1>2. IInv /\ [Next]_vars => IInv'
  BY StepIInv
<1>3. IInv /\ Remembers /\ [Next]_vars
      => Remembers' /\ [Promised!Next]_Promised!memoryVars
  BY StepRemembers DEF Answers
<1> QED
  BY <1>1, <1>2, <1>3, PTL DEF Spec, MemoryUntilRough, Promised!Spec

=============================================================================
