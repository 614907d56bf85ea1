-------------------------- MODULE InfinityHashMap --------------------------
(***************************************************************************)
(* org.simpledb.map.InfinityHashMap: a map on disk, by which Storage finds  *)
(* data it already holds.  It is a prefix tree on four-digit hashes.  A     *)
(* tree node has a mask, digits and then wildcards, and one link per digit, *)
(* by which the hash goes on at the first wildcard.  A link is 0, another   *)
(* tree node, or HALF_LONG more than a HashVariants: the keys that share a  *)
(* hash, with their values.                                                 *)
(*                                                                          *)
(* The arrays the tree, the HashVariants and the keys are stored in are     *)
(* here what CellArray says of one: the index an add returns is the length. *)
(***************************************************************************)
EXTENDS Integers, Sequences

CONSTANTS Key,       \* the keys put and asked for
          Value,     \* the values
          Digit,     \* what hexCharToInt makes of the characters of a hash
          HashOf,    \* the hash the callers compute of every key
          ReadBack,  \* a key after new String(bytes).getBytes()
          Wildcard,  \* '*' in a mask
          HALF_LONG, \* link values from here on are HashVariants
          Absent,    \* Long.MAX_VALUE, the answer when nothing is found
          MaxKeys    \* bound of the model: HashVariants and keys in one

HashSize == 4  \* TreeNode.MASK_SIZE

ASSUME InfinityHashMapAssumption ==
    /\ Digit \subseteq Nat
    /\ Wildcard \notin Digit
    /\ HashOf \in [Key -> [1..HashSize -> Digit]]
    /\ DOMAIN ReadBack = Key
    /\ HALF_LONG \in Nat \ {0}
    /\ Absent \notin Value
    /\ MaxKeys \in Nat /\ MaxKeys < HALF_LONG

VARIABLES nodes,   \* the TreeNodes: their masks and links
          hashes,  \* the HashVariants: their hash and the keys and values
          last,    \* the last call, with what it returned
          rough    \* history: whether a put lost its key or missed the node
                   \* it was to replace, see LosesKey and MissesNode

vars == <<nodes, hashes, last, rough>>

-----------------------------------------------------------------------------
Call(op, key, value) == [op |-> op, key |-> key, value |-> value]

TreeNode(mask, links) == [mask |-> mask, links |-> links]

NoLinks == [d \in Digit |-> 0]

(* A mask: the first digits of a hash, then wildcards.                      *)
MaskOf(hash, length) ==
    [i \in 1..HashSize |-> IF i <= length THEN hash[i] ELSE Wildcard]

HashVariants(hash, key, value) ==
    [mask |-> hash, hashes |-> <<[key |-> key, value |-> value]>>]

(* The first position, from one on, where a mask or a hash differs.         *)
Differs(mask, hash, from) ==
    CHOOSE i \in from..HashSize :
        mask[i] # hash[i] /\ \A j \in from..(i - 1) : mask[j] = hash[j]

(* A place of the loop of put and get: at the node with index n, whose mask *)
(* differs from the hash at position i, reached from the node prev.         *)
Place(n, from, prev, hash) ==
    [n |-> n, i |-> Differs(nodes[n + 1].mask, hash, from), prev |-> prev]

LinkAt(place, hash) == nodes[place.n + 1].links[hash[place.i]]
IsWild(place)       == nodes[place.n + 1].mask[place.i] = Wildcard

(* Where the loop stops: it follows links from the root to tree nodes.      *)
Descent(hash) ==
    LET Index == 0..(Len(nodes) - 1)
        walk[place \in [n : Index, i : 1..HashSize, prev : Index]] ==
            IF IsWild(place) /\ LinkAt(place, hash) \in 1..(HALF_LONG - 1)
            THEN walk[Place(LinkAt(place, hash), place.i, place.n, hash)]
            ELSE place
    IN  walk[Place(0, 1, 0, hash)]

Linked(tree, n, digit, link) == [tree EXCEPT ![n + 1].links[digit] = link]

(* The places of a key among the keys that share its hash: keys are read    *)
(* back as strings before they are compared.                                *)
PlacesOf(variants, key) ==
    {k \in 1..Len(variants.hashes) : ReadBack[variants.hashes[k].key] = key}

First(places) == CHOOSE k \in places : \A l \in places : k <= l

(* A key that no string stands for is not found again.                      *)
LosesKey(key) == ReadBack[key] # key

(* The link that put changes (112) is not the one the loop came by.         *)
MissesNode(place, hash) == nodes[place.prev + 1].links[hash[place.i - 1]] # place.n

-----------------------------------------------------------------------------
Init == /\ nodes = <<TreeNode([i \in 1..HashSize |-> Wildcard], NoLinks)>>
        /\ hashes = <<>>
        /\ last = Call("open", Absent, Absent)
        /\ rough = FALSE

(* A mutant of PutLeaf: the link is the number of HashVariants once added.  *)
PutLeafOffByOne(key, value) ==
    LET hash  == HashOf[key]
        place == Descent(hash)
    IN  /\ IsWild(place)
        /\ LinkAt(place, hash) = 0
        /\ Len(hashes) < MaxKeys
        /\ hashes' = Append(hashes, HashVariants(hash, key, value))
        /\ nodes' = Linked(nodes, place.n, hash[place.i], Len(hashes) + 1 + HALF_LONG)
        /\ last' = Call("put", key, value)
        /\ rough' = (rough \/ LosesKey(key))

(* A hash that meets no link becomes a leaf.                                *)
PutLeaf(key, value) ==
    LET hash  == HashOf[key]
        place == Descent(hash)
    IN  /\ IsWild(place)
        /\ LinkAt(place, hash) = 0
        /\ Len(hashes) < MaxKeys
        /\ hashes' = Append(hashes, HashVariants(hash, key, value))
        /\ nodes' = Linked(nodes, place.n, hash[place.i], Len(hashes) + HALF_LONG)
        /\ last' = Call("put", key, value)
        /\ rough' = (rough \/ LosesKey(key))

(* A mutant of PutSameHash: a key with a known hash replaces the first one. *)
PutSameHashReplaces(key, value) ==
    LET hash  == HashOf[key]
        place == Descent(hash)
        leaf  == LinkAt(place, hash) - HALF_LONG
    IN  /\ IsWild(place)
        /\ leaf >= 0
        /\ hashes[leaf + 1].mask = hash
        /\ hashes' = [hashes EXCEPT ![leaf + 1] = HashVariants(hash, key, value)]
        /\ last' = Call("put", key, value)
        /\ rough' = (rough \/ LosesKey(key))
        /\ UNCHANGED nodes

(* A leaf with the same hash: the value is replaced, or the key added.      *)
PutSameHash(key, value) ==
    LET hash     == HashOf[key]
        place    == Descent(hash)
        leaf     == LinkAt(place, hash) - HALF_LONG
        variants == hashes[leaf + 1]
        places   == PlacesOf(variants, key)
    IN  /\ IsWild(place)
        /\ leaf >= 0
        /\ variants.mask = hash
        /\ IF places # {}
           THEN hashes' = [hashes EXCEPT ![leaf + 1].hashes[First(places)].value = value]
           ELSE /\ Len(variants.hashes) < MaxKeys
                /\ hashes' = [hashes EXCEPT ![leaf + 1].hashes =
                                 Append(@, [key |-> key, value |-> value])]
        /\ last' = Call("put", key, value)
        /\ rough' = (rough \/ LosesKey(key))
        /\ UNCHANGED nodes

(* A leaf with another hash: a tree node comes between, whose mask is what  *)
(* the two hashes share.                                                    *)
PutSplitsLeaf(key, value) ==
    LET hash  == HashOf[key]
        place == Descent(hash)
        link  == LinkAt(place, hash)
        other == hashes[link - HALF_LONG + 1].mask
        j     == Differs(other, hash, 1)
        node  == TreeNode(MaskOf(hash, j - 1),
                     [NoLinks EXCEPT ![other[j]] = link,
                                     ![hash[j]] = Len(hashes) + HALF_LONG])
    IN  /\ IsWild(place)
        /\ link >= HALF_LONG
        /\ other # hash
        /\ Len(hashes) < MaxKeys
        /\ hashes' = Append(hashes, HashVariants(hash, key, value))
        /\ nodes' = Linked(Append(nodes, node), place.n, hash[place.i], Len(nodes))
        /\ last' = Call("put", key, value)
        /\ rough' = (rough \/ LosesKey(key))

(* A mutant of PutSplitsNode: the previous node keeps its link.             *)
PutSplitsNodeUnlinked(key, value) ==
    LET hash  == HashOf[key]
        place == Descent(hash)
        mask  == nodes[place.n + 1].mask
        node  == TreeNode(MaskOf(mask, place.i - 1),
                     [NoLinks EXCEPT ![mask[place.i]] = place.n,
                                     ![hash[place.i]] = Len(hashes) + HALF_LONG])
    IN  /\ ~IsWild(place)
        /\ Len(hashes) < MaxKeys
        /\ hashes' = Append(hashes, HashVariants(hash, key, value))
        /\ nodes' = Append(nodes, node)
        /\ last' = Call("put", key, value)
        /\ rough' = (rough \/ LosesKey(key) \/ MissesNode(place, hash))

(* A tree node whose mask differs from the hash: a new one comes above it,  *)
(* and replaces it in the previous node, at the digit before the one that   *)
(* differs (111-116).                                                       *)
PutSplitsNode(key, value) ==
    LET hash  == HashOf[key]
        place == Descent(hash)
        mask  == nodes[place.n + 1].mask
        node  == TreeNode(MaskOf(mask, place.i - 1),
                     [NoLinks EXCEPT ![mask[place.i]] = place.n,
                                     ![hash[place.i]] = Len(hashes) + HALF_LONG])
    IN  /\ ~IsWild(place)
        /\ Len(hashes) < MaxKeys
        /\ hashes' = Append(hashes, HashVariants(hash, key, value))
        /\ nodes' = Linked(Append(nodes, node), place.prev, hash[place.i - 1], Len(nodes))
        /\ last' = Call("put", key, value)
        /\ rough' = (rough \/ LosesKey(key) \/ MissesNode(place, hash))

(* What get returns for a key.                                              *)
Found(key) ==
    LET hash     == HashOf[key]
        place    == Descent(hash)
        variants == hashes[LinkAt(place, hash) - HALF_LONG + 1]
        places   == PlacesOf(variants, key)
    IN  IF /\ IsWild(place)
           /\ LinkAt(place, hash) >= HALF_LONG
           /\ variants.mask = hash
           /\ places # {}
        THEN variants.hashes[First(places)].value ELSE Absent

Get(key) == last' = Call("get", key, Found(key)) /\ UNCHANGED <<nodes, hashes, rough>>

Next == \E key \in Key :
            \/ Get(key)
            \/ \E value \in Value :
                  \/ PutLeaf(key, value) \/ PutSameHash(key, value)
                  \/ PutSplitsLeaf(key, value) \/ PutSplitsNode(key, value)

Spec == Init /\ [][Next]_vars

-----------------------------------------------------------------------------
(* Masks and hashes have four digits, and no link leads past the tree nodes *)
(* and HashVariants there are: an index that an add returned is a valid one *)
(* for every later get (InfinityHashMap.java:43, 68), until a put is rough. *)
TypeOK ==
    /\ rough \in BOOLEAN
    /\ rough \/
          /\ \A n \in 1..Len(nodes) :
                /\ nodes[n].mask \in [1..HashSize -> Digit \cup {Wildcard}]
                /\ nodes[n].links \in [Digit -> 0..(Len(nodes) - 1)
                                        \cup HALF_LONG..(HALF_LONG + Len(hashes) - 1)]
          /\ \A k \in 1..Len(hashes) : hashes[k].mask \in [1..HashSize -> Digit]
          /\ last.value \in Value \cup {Absent}

(* Until a put is rough, the tree is a tree in which every node lies under  *)
(* the digits of its mask: a link to a node leads to a longer mask, the     *)
(* node's own digits and then the digit of the link; and every node but the *)
(* root, and every HashVariants, has one link to it.  A link that misses    *)
(* its node orphans a subtree or leads a hash into another one's.           *)
MaskLength(mask) == CHOOSE length \in 0..HashSize :
                        \A i \in 1..HashSize : mask[i] # Wildcard <=> i <= length

Follows(path, mask, digit) ==
    LET length == MaskLength(mask)
    IN  \A i \in 1..(length + 1) : path[i] = IF i <= length THEN mask[i] ELSE digit

LinksTo(link) ==
    {at \in (1..Len(nodes)) \X Digit : nodes[at[1]].links[at[2]] = link}

WellFormedTree == rough \/
    /\ \A n \in 1..Len(nodes), d \in Digit :
          LET link == nodes[n].links[d]
          IN  IF link >= HALF_LONG
              THEN Follows(hashes[link - HALF_LONG + 1].mask, nodes[n].mask, d)
              ELSE link # 0 => Follows(nodes[link + 1].mask, nodes[n].mask, d)
    /\ \A link \in 1..(Len(nodes) - 1)
              \cup HALF_LONG..(HALF_LONG + Len(hashes) - 1) :
          \E at \in LinksTo(link) : LinksTo(link) = {at}

(* The tree implements a map until a put loses its key or misses a node:    *)
(* whichever hashes the keys have and in whatever order they are put, a get *)
(* returns what was last put (37-164).                                      *)
Mapped == [key \in Key |-> Found(key)]

Map == INSTANCE KeyValueMap WITH map <- Mapped, ended <- rough

MapUntilRough == Map!Spec

(* The promise without an end: it implements a map for good.                *)
MapForGood == INSTANCE KeyValueMap WITH map <- Mapped, ended <- FALSE

MapSpec == MapForGood!Spec
=============================================================================
