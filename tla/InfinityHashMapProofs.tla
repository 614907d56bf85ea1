----------------------- MODULE InfinityHashMapProofs -----------------------
(***************************************************************************)
(* Theorems about InfinityHashMap: until a put is rough its tree is        *)
(* well-formed and a get returns what was last put, whatever hashes the    *)
(* keys have.                                                              *)
(***************************************************************************)
EXTENDS InfinityHashMap, SequenceTheorems, NaturalsInduction, WellFoundedInduction, TLAPS

-----------------------------------------------------------------------------
(* The invariant, of the tree nodes ns and the leaves hs.                  *)

Hash == [1..HashSize -> Digit]
Mask == [1..HashSize -> Digit \cup {Wildcard}]

Node == [mask : Mask, links : [Digit -> Nat]]
Variant == [key : Key, value : Value]
Leaf == [mask : Hash, hashes : Seq(Variant)]

Typed(ns, hs) ==
    /\ ns \in Seq(Node) /\ hs \in Seq(Leaf)
    /\ Len(ns) \in 1..(Len(hs) + 1) /\ Len(hs) <= MaxKeys
    /\ \A n \in 1..Len(ns), d \in Digit :
          ns[n].links[d] \in 0..(Len(ns) - 1) \cup HALF_LONG..(HALF_LONG + Len(hs) - 1)
    /\ \A k \in 1..Len(hs) : \E key \in Key : hs[k].mask = HashOf[key]

(* The digits of a mask: no node has more than three.                      *)
Digits(mask) ==
    IF mask[1] = Wildcard THEN 0 ELSE IF mask[2] = Wildcard THEN 1
    ELSE IF mask[3] = Wildcard THEN 2 ELSE 3

Shaped(mask) == \A i \in 1..HashSize : mask[i] = Wildcard <=> i > Digits(mask)

(* A path that begins as the mask does and goes on with the digit.         *)
Under(path, mask, digit) ==
    /\ \A i \in 1..HashSize : i <= Digits(mask) => path[i] = mask[i]
    /\ path[Digits(mask) + 1] = digit

PathOf(ns, hs, link) ==
    IF link >= HALF_LONG THEN hs[link - HALF_LONG + 1].mask ELSE ns[link + 1].mask

(* Every node lies under the digits of its mask, and has one link to it.   *)
Tree(ns, hs) ==
    /\ \A n \in 1..Len(ns) : Shaped(ns[n].mask)
    /\ Digits(ns[1].mask) = 0
    /\ \A n \in 1..Len(ns), d \in Digit : ns[n].links[d] # 0 =>
          Under(PathOf(ns, hs, ns[n].links[d]), ns[n].mask, d)
    /\ \A link \in 1..(Len(ns) - 1) \cup HALF_LONG..(HALF_LONG + Len(hs) - 1) :
          \E n \in 1..Len(ns), d \in Digit :
             /\ ns[n].links[d] = link
             /\ \A m \in 1..Len(ns), e \in Digit : ns[m].links[e] = link => m = n /\ e = d

Sound == Typed(nodes, hashes) /\ Tree(nodes, hashes)

IInv == rough \in BOOLEAN /\ (rough \/ (Sound /\ last.value \in Value \cup {Absent}))

-----------------------------------------------------------------------------
(* Masks.                                                                  *)

(* The assumptions on the constants, one by one.                           *)
LEMMA Constants ==
  /\ Digit \subseteq Nat /\ Wildcard \notin Digit
  /\ \A key \in Key : HashOf[key] \in Hash
  /\ HALF_LONG \in Nat \ {0} /\ MaxKeys \in Nat /\ MaxKeys < HALF_LONG
  /\ Absent \notin Value /\ HashSize = 4
BY InfinityHashMapAssumption DEF InfinityHashMapAssumption, Hash, HashSize

(* The first place from one on where two sequences of digits differ, when  *)
(* there is one.                                                           *)
LEMMA DiffersFacts ==
  ASSUME NEW mask, NEW hash, NEW from \in 1..HashSize,
         \E i \in from..HashSize : mask[i] # hash[i]
  PROVE  /\ Differs(mask, hash, from) \in from..HashSize
         /\ mask[Differs(mask, hash, from)] # hash[Differs(mask, hash, from)]
         /\ \A j \in from..(Differs(mask, hash, from) - 1) : mask[j] = hash[j]
<1> DEFINE First4(i) == mask[i] # hash[i] /\ \A j \in from..(i - 1) : mask[j] = hash[j]
<1>1. \E i \in from..HashSize : First4(i)
  <2>1. PICK i \in from..HashSize : mask[i] # hash[i]
    OBVIOUS
  <2>2. /\ from \in {1, 2, 3, 4} /\ i \in {1, 2, 3, 4}
        /\ \A n, m \in 1..4 : \A j \in n..(m - 1) : j \in {1, 2, 3} /\ n <= j /\ j < m
    BY DEF HashSize
  <2>3. CASE mask[from] # hash[from]
    BY <2>2, <2>3 DEF HashSize
  <2>4. CASE mask[from] = hash[from] /\ from < 4 /\ mask[from + 1] # hash[from + 1]
    BY <2>2, <2>4 DEF HashSize
  <2>5. CASE /\ mask[from] = hash[from] /\ from < 3 /\ mask[from + 1] = hash[from + 1]
             /\ mask[from + 2] # hash[from + 2]
    BY <2>2, <2>5 DEF HashSize
  <2>6. CASE /\ mask[from] = hash[from] /\ from < 2 /\ mask[from + 1] = hash[from + 1]
             /\ mask[from + 2] = hash[from + 2]
    <3>1. from = 1 /\ i = 4
      BY <2>1, <2>2, <2>6
    <3> QED
      BY <2>1, <2>2, <2>6, <3>1 DEF HashSize
  <2> QED
    BY <2>1, <2>2, <2>3, <2>4, <2>5, <2>6
<1>2. Differs(mask, hash, from) = CHOOSE i \in from..HashSize : First4(i)
  BY DEF Differs
<1> HIDE DEF First4
<1>3. First4(Differs(mask, hash, from)) /\ Differs(mask, hash, from) \in from..HashSize
  BY <1>1, <1>2
<1> QED
  BY <1>3 DEF First4

(* A mask ends in a wildcard, which no digit equals.                       *)
LEMMA MaskFacts ==
  ASSUME NEW mask \in Mask, Shaped(mask), NEW hash \in Hash
  PROVE  /\ Digits(mask) \in 0..3
         /\ \A i \in 1..HashSize : mask[i] # Wildcard <=> i <= Digits(mask)
         /\ \A i \in 1..HashSize : i <= Digits(mask) => mask[i] \in Digit
         /\ mask[HashSize] # hash[HashSize]
         /\ \A i \in 1..HashSize : hash[i] # Wildcard /\ hash[i] \in Digit
<1>1. Digits(mask) \in 0..3 /\ \A i \in 1..4 : mask[i] = Wildcard <=> i > Digits(mask)
  BY DEF Digits, Shaped, HashSize
<1>2. \A i \in 1..4 : hash[i] \in Digit /\ mask[i] \in Digit \cup {Wildcard}
  BY DEF Hash, Mask, HashSize
<1> QED
  BY <1>1, <1>2, Constants DEF HashSize

(* MaskLength counts the digits.                                           *)
LEMMA MaskLengthFacts ==
  ASSUME NEW mask, Shaped(mask)
  PROVE  MaskLength(mask) = Digits(mask)
<1>1. Digits(mask) \in 0..HashSize
  BY DEF Digits, HashSize
<1>2. \A i \in 1..HashSize : mask[i] # Wildcard <=> i <= Digits(mask)
  BY <1>1 DEF Shaped, HashSize
<1>3. ASSUME NEW m \in 0..HashSize, \A i \in 1..HashSize : mask[i] # Wildcard <=> i <= m
      PROVE  m = Digits(mask)
  <2>1. \A i \in 1..4 : i <= m <=> i <= Digits(mask)
    BY <1>2, <1>3 DEF HashSize
  <2> QED
    BY <1>1, <2>1 DEF HashSize
<1> QED
  BY <1>1, <1>2, <1>3 DEF MaskLength

-----------------------------------------------------------------------------
(* The way down the tree.                                                  *)

(* The number of digits of the mask of a node.                             *)
D(n) == Digits(nodes[n + 1].mask)

(* The node has the digits the hash begins with.                           *)
Begins(n, hash) == \A i \in 1..HashSize : i <= D(n) => nodes[n + 1].mask[i] = hash[i]

Goes(place, hash) == IsWild(place) /\ LinkAt(place, hash) \in 1..(HALF_LONG - 1)

Step(place, hash) ==
    IF Goes(place, hash) THEN Place(LinkAt(place, hash), place.i, place.n, hash) ELSE place

Places == [n : 0..(Len(nodes) - 1), i : 1..HashSize, prev : 0..(Len(nodes) - 1)]

(* Where the loop can be: the hash agrees with the mask so far, and with   *)
(* that of the node before, which has the link by which the loop came.     *)
Arrived(place, hash) ==
    /\ place \in Places
    /\ nodes[place.n + 1].mask[place.i] # hash[place.i]
    /\ \A j \in 1..(place.i - 1) : nodes[place.n + 1].mask[j] = hash[j]
    /\ place.n # 0 => /\ D(place.prev) < D(place.n) /\ Begins(place.prev, hash)
                      /\ nodes[place.prev + 1].links[hash[D(place.prev) + 1]] = place.n

(* What Sound says of one node.                                            *)
LEMMA NodeFacts ==
  ASSUME Sound, NEW n \in 0..(Len(nodes) - 1)
  PROVE  /\ nodes[n + 1].mask \in Mask /\ Shaped(nodes[n + 1].mask) /\ D(n) \in 0..3
         /\ nodes[n + 1].links \in [Digit -> Nat]
         /\ \A d \in Digit : nodes[n + 1].links[d] \in
               0..(Len(nodes) - 1) \cup HALF_LONG..(HALF_LONG + Len(hashes) - 1)
         /\ \A d \in Digit : nodes[n + 1].links[d] # 0 =>
               Under(PathOf(nodes, hashes, nodes[n + 1].links[d]), nodes[n + 1].mask, d)
<1>1. n + 1 \in 1..Len(nodes) /\ Len(nodes) \in Nat /\ Len(hashes) \in Nat
  BY DEF Sound, Typed
<1>2. nodes[n + 1] \in Node /\ Shaped(nodes[n + 1].mask)
  BY <1>1 DEF Sound, Typed, Tree
<1>3. D(n) \in 0..3
  BY DEF D, Digits
<1> QED
  BY <1>1, <1>2, <1>3 DEF Sound, Typed, Tree, Node

(* Sizes: a link below HALF_LONG is that of a tree node.                   *)
LEMMA SizesFacts ==
  ASSUME Sound
  PROVE  /\ Len(nodes) \in Nat \ {0} /\ Len(hashes) \in Nat
         /\ Len(nodes) - 1 < HALF_LONG /\ D(0) = 0
BY Constants DEF Sound, Typed, Tree, D

(* The loop begins at the root.                                            *)
LEMMA StartFacts ==
  ASSUME Sound, NEW hash \in Hash
  PROVE  Arrived(Place(0, 1, 0, hash), hash) /\ Place(0, 1, 0, hash).n = 0
<1> PICK i : i = Differs(nodes[1].mask, hash, 1)
  OBVIOUS
<1> PICK p : p = Place(0, 1, 0, hash)
  OBVIOUS
<1>1. p = [n |-> 0, i |-> i, prev |-> 0]
  BY DEF Place
<1>2. 0 \in 0..(Len(nodes) - 1)
  BY SizesFacts
<1>3. nodes[1].mask[HashSize] # hash[HashSize]
  <2>1. nodes[0 + 1].mask \in Mask /\ Shaped(nodes[0 + 1].mask)
    BY <1>2, NodeFacts
  <2> QED
    BY <2>1, MaskFacts
<1>4. HashSize \in 1..HashSize /\ 1 \in 1..HashSize
  BY DEF HashSize
<1>5. /\ i \in 1..HashSize /\ nodes[1].mask[i] # hash[i]
      /\ \A j \in 1..(i - 1) : nodes[1].mask[j] = hash[j]
  BY <1>3, <1>4, DiffersFacts
<1>6. Arrived(p, hash)
  BY <1>1, <1>2, <1>5 DEF Arrived, Places
<1> QED
  BY <1>1, <1>6

(* At a wildcard, the digits of the node are those the hash begins with.   *)
LEMMA WildFacts ==
  ASSUME Sound, NEW hash \in Hash, NEW p, Arrived(p, hash)
  PROVE  /\ p \in Places
         /\ IsWild(p) => p.i = D(p.n) + 1 /\ Begins(p.n, hash)
         /\ p.i <= D(p.n) + 1
         /\ ~IsWild(p) => p.i <= D(p.n)
         /\ LinkAt(p, hash) \in Nat
<1>1. p \in Places /\ p.n \in 0..(Len(nodes) - 1) /\ p.i \in 1..HashSize
  BY DEF Arrived, Places
<1> PICK mask : mask = nodes[p.n + 1].mask
  OBVIOUS
<1>2. mask \in Mask /\ Shaped(mask) /\ D(p.n) \in 0..3 /\ Digits(mask) = D(p.n)
  BY <1>1, NodeFacts DEF D
<1>3. \A i \in 1..HashSize : (mask[i] # Wildcard <=> i <= D(p.n)) /\ hash[i] # Wildcard
  BY <1>2, MaskFacts
<1>4. mask[p.i] # hash[p.i] /\ \A j \in 1..(p.i - 1) : mask[j] = hash[j]
  BY DEF Arrived
<1>5. p.i <= D(p.n) + 1
  <2>1. \A j \in 1..(p.i - 1) : j \in 1..HashSize /\ j <= D(p.n)
    BY <1>1, <1>3, <1>4 DEF HashSize
  <2> QED
    BY <1>1, <1>2, <2>1 DEF HashSize
<1>6. IsWild(p) <=> p.i > D(p.n)
  BY <1>1, <1>2, <1>3 DEF IsWild
<1>7. IsWild(p) => Begins(p.n, hash)
  BY <1>1, <1>2, <1>4, <1>6 DEF Begins, HashSize
<1>8. LinkAt(p, hash) \in Nat
  <2>1. hash[p.i] \in Digit
    BY <1>1 DEF Hash
  <2>2. nodes[p.n + 1].links \in [Digit -> Nat]
    BY <1>1, NodeFacts
  <2> QED
    BY <2>1, <2>2 DEF LinkAt
<1> QED
  BY <1>1, <1>2, <1>5, <1>6, <1>7, <1>8

(* A link to a tree node leads to a node with more digits.                 *)
LEMMA StepTyped ==
  ASSUME Sound, NEW hash \in Hash, NEW p \in Places, Goes(p, hash)
  PROVE  /\ Step(p, hash) \in Places
         /\ Step(p, hash).n = LinkAt(p, hash) /\ Step(p, hash).prev = p.n
         /\ LinkAt(p, hash) # 0
         /\ D(Step(p, hash).n) > D(p.n)
         /\ Step(p, hash).i >= p.i
         /\ LET mask == nodes[LinkAt(p, hash) + 1].mask
            IN  /\ mask[Step(p, hash).i] # hash[Step(p, hash).i]
                /\ \A j \in p.i..(Step(p, hash).i - 1) : mask[j] = hash[j]
                /\ Under(mask, nodes[p.n + 1].mask, hash[p.i])
<1> PICK link : link = LinkAt(p, hash)
  OBVIOUS
<1> PICK mask : mask = nodes[link + 1].mask
  OBVIOUS
<1> PICK i : i = Differs(mask, hash, p.i)
  OBVIOUS
<1>1. Step(p, hash) = [n |-> link, i |-> i, prev |-> p.n]
  BY DEF Step, Place
<1>2. p.n \in 0..(Len(nodes) - 1) /\ p.i \in 1..HashSize /\ D(p.n) \in 0..3
  BY NodeFacts DEF Places
<1>3. hash[p.i] \in Digit /\ link = nodes[p.n + 1].links[hash[p.i]]
  BY <1>2 DEF LinkAt, Hash
<1>4. link \in 1..(HALF_LONG - 1)
  BY DEF Goes
<1>5. link \in 0..(Len(nodes) - 1) /\ link # 0 /\ ~(link >= HALF_LONG)
  <2>1. link \in 0..(Len(nodes) - 1) \cup HALF_LONG..(HALF_LONG + Len(hashes) - 1)
    BY <1>2, <1>3, NodeFacts
  <2> QED
    BY <1>4, <2>1, Constants
<1>6. Under(mask, nodes[p.n + 1].mask, hash[p.i])
  <2>1. Under(PathOf(nodes, hashes, link), nodes[p.n + 1].mask, hash[p.i])
    BY <1>2, <1>3, <1>5, NodeFacts
  <2> QED
    BY <1>5, <2>1 DEF PathOf
<1>7. mask \in Mask /\ Shaped(mask) /\ D(link) \in 0..3 /\ Digits(mask) = D(link)
  BY <1>5, NodeFacts DEF D
<1>8. /\ mask[HashSize] # hash[HashSize]
      /\ \A j \in 1..HashSize : (mask[j] # Wildcard <=> j <= D(link)) /\ hash[j] # Wildcard
  BY <1>7, MaskFacts
<1>9. D(link) > D(p.n)
  <2>1. mask[D(p.n) + 1] = hash[p.i] /\ D(p.n) + 1 \in 1..HashSize
    BY <1>2, <1>6 DEF Under, D, HashSize
  <2>2. mask[D(p.n) + 1] # Wildcard
    BY <1>2, <1>8, <2>1
  <2>3. D(p.n) + 1 <= D(link)
    BY <1>8, <2>1, <2>2
  <2> QED
    BY <1>2, <1>7, <2>3
<1>10. i \in p.i..HashSize /\ mask[i] # hash[i] /\ \A j \in p.i..(i - 1) : mask[j] = hash[j]
  <2>1. HashSize \in p.i..HashSize
    BY <1>2 DEF HashSize
  <2> QED
    BY <1>2, <1>8, <2>1, DiffersFacts
<1>11. [n |-> link, i |-> i, prev |-> p.n] \in Places
  BY <1>2, <1>5, <1>10 DEF Places, HashSize
<1> QED
  BY <1>1, <1>2, <1>5, <1>6, <1>9, <1>10, <1>11

(* A link leads to a node with more digits, among them those of the hash   *)
(* up to the digit of the link.                                            *)
LEMMA StepFacts ==
  ASSUME Sound, NEW hash \in Hash, NEW p, Arrived(p, hash), Goes(p, hash)
  PROVE  /\ Arrived(Step(p, hash), hash)
         /\ Step(p, hash).n = LinkAt(p, hash) /\ Step(p, hash).prev = p.n
         /\ D(Step(p, hash).n) > D(p.n)
<1> PICK q : q = Step(p, hash)
  OBVIOUS
<1> PICK mask : mask = nodes[q.n + 1].mask
  OBVIOUS
<1>1. /\ p \in Places /\ p.i = D(p.n) + 1 /\ Begins(p.n, hash)
      /\ p.n \in 0..(Len(nodes) - 1) /\ p.i \in 1..HashSize /\ D(p.n) \in 0..3
  <2>1. p \in Places /\ p.i = D(p.n) + 1 /\ Begins(p.n, hash)
    BY WildFacts DEF Goes
  <2>2. p.n \in 0..(Len(nodes) - 1) /\ p.i \in 1..HashSize
    BY <2>1 DEF Places
  <2> QED
    BY <2>1, <2>2, NodeFacts
<1>2. /\ q \in Places /\ q.n = LinkAt(p, hash) /\ q.prev = p.n /\ q.n # 0
      /\ D(q.n) > D(p.n) /\ q.i >= p.i
      /\ mask[q.i] # hash[q.i] /\ \A j \in p.i..(q.i - 1) : mask[j] = hash[j]
      /\ Under(mask, nodes[p.n + 1].mask, hash[p.i])
  BY <1>1, StepTyped
<1>3. \A j \in 1..p.i : mask[j] = hash[j]
  BY <1>1, <1>2 DEF Under, Begins, D, HashSize
<1>4. q.i \in 1..HashSize
  BY <1>2 DEF Places
<1>5. \A j \in 1..(q.i - 1) : mask[j] = hash[j]
  BY <1>1, <1>2, <1>3, <1>4 DEF HashSize
<1>6. nodes[q.prev + 1].links[hash[D(q.prev) + 1]] = q.n
  BY <1>1, <1>2 DEF LinkAt
<1>7. Arrived(q, hash)
  BY <1>1, <1>2, <1>5, <1>6 DEF Arrived
<1> QED
  BY <1>2, <1>7

(* The places of the loop, after one, two and three links.                 *)
Once(p, hash)   == Step(p, hash)
Twice(p, hash)  == Step(Once(p, hash), hash)
Thrice(p, hash) == Step(Twice(p, hash), hash)

(* The loop takes no more than three links.                                *)
LEMMA StopFacts ==
  ASSUME Sound, NEW hash \in Hash, NEW p, Arrived(p, hash)
  PROVE  /\ Arrived(Once(p, hash), hash) /\ Arrived(Twice(p, hash), hash)
         /\ Arrived(Thrice(p, hash), hash) /\ ~Goes(Thrice(p, hash), hash)
<1>1. ASSUME NEW q, Arrived(q, hash)
      PROVE  /\ Arrived(Step(q, hash), hash)
             /\ Goes(q, hash) => D(Step(q, hash).n) > D(q.n)
             /\ ~Goes(q, hash) => Step(q, hash) = q
             /\ D(q.n) \in 0..3
  <2>1. q.n \in 0..(Len(nodes) - 1)
    BY <1>1 DEF Arrived, Places
  <2>2. D(q.n) \in 0..3
    BY <2>1, NodeFacts
  <2>3. CASE Goes(q, hash)
    BY <1>1, <2>2, <2>3, StepFacts
  <2>4. CASE ~Goes(q, hash)
    BY <1>1, <2>2, <2>4 DEF Step
  <2> QED
    BY <2>3, <2>4
<1>a. PICK q : q = Once(p, hash)
  OBVIOUS
<1>b. PICK r : r = Twice(p, hash)
  OBVIOUS
<1>c. PICK t : t = Thrice(p, hash)
  OBVIOUS
<1>d. q = Step(p, hash) /\ r = Step(q, hash) /\ t = Step(r, hash)
  BY <1>a, <1>b, <1>c DEF Once, Twice, Thrice
<1>2. /\ Arrived(q, hash) /\ D(p.n) \in 0..3
      /\ Goes(p, hash) => D(q.n) > D(p.n)
      /\ ~Goes(p, hash) => q = p
  BY <1>1, <1>d
<1>3. /\ Arrived(r, hash) /\ D(q.n) \in 0..3
      /\ Goes(q, hash) => D(r.n) > D(q.n)
      /\ ~Goes(q, hash) => r = q
  BY <1>1, <1>2, <1>d
<1>4. /\ Arrived(t, hash) /\ D(r.n) \in 0..3
      /\ Goes(r, hash) => D(t.n) > D(r.n)
      /\ ~Goes(r, hash) => t = r
  BY <1>1, <1>3, <1>d
<1>5. /\ D(t.n) \in 0..3 /\ D(Step(t, hash).n) \in 0..3
      /\ Goes(t, hash) => D(Step(t, hash).n) > D(t.n)
  BY <1>1, <1>4
<1>6. ~Goes(t, hash)
  BY <1>2, <1>3, <1>4, <1>5
<1> QED
  BY <1>2, <1>3, <1>4, <1>6, <1>a, <1>b, <1>c

(* Descent is the last of these places.                                    *)
LEMMA DescentFacts ==
  ASSUME Sound, NEW hash \in Hash
  PROVE  Descent(hash) = Thrice(Place(0, 1, 0, hash), hash)
<1> DEFINE S(p) == Step(p, hash)
           Iter(w) == [place \in Places |->
               IF IsWild(place) /\ LinkAt(place, hash) \in 1..(HALF_LONG - 1)
               THEN w[Place(LinkAt(place, hash), place.i, place.n, hash)]
               ELSE place]
<1> PICK start : start = Place(0, 1, 0, hash)
  OBVIOUS
<1> PICK f : f = (CHOOSE w : w = Iter(w))
  OBVIOUS
<1>1. Descent(hash) = f[start]
  BY DEF Descent, Places
<1>2. ASSUME NEW p \in Places
      PROVE  /\ S(p) \in Places
             /\ Goes(p, hash) => D(S(p).n) > D(p.n)
             /\ ~Goes(p, hash) => S(p) = p
             /\ D(p.n) \in 0..3
  <2>1. D(p.n) \in 0..3
    BY NodeFacts DEF Places
  <2> QED
    BY <2>1, StepTyped DEF Step
<1>3. ASSUME NEW p \in Places
      PROVE  /\ S(p) \in Places /\ S(S(p)) \in Places /\ S(S(S(p))) \in Places
             /\ ~Goes(S(S(S(p))), hash)
  <2>a. PICK q : q = S(p)
    OBVIOUS
  <2>b. PICK r : r = S(q)
    OBVIOUS
  <2>c. PICK t : t = S(r)
    OBVIOUS
  <2> HIDE DEF S
  <2>1. q \in Places /\ (Goes(p, hash) => D(q.n) > D(p.n)) /\ (~Goes(p, hash) => q = p)
    BY <1>2, <2>a
  <2>2. r \in Places /\ (Goes(q, hash) => D(r.n) > D(q.n)) /\ (~Goes(q, hash) => r = q)
    BY <1>2, <2>1, <2>b
  <2>3. t \in Places /\ (Goes(r, hash) => D(t.n) > D(r.n)) /\ (~Goes(r, hash) => t = r)
    BY <1>2, <2>2, <2>c
  <2>4. S(t) \in Places /\ (Goes(t, hash) => D(S(t).n) > D(t.n))
    BY <1>2, <2>3
  <2>5. /\ D(p.n) \in 0..3 /\ D(q.n) \in 0..3 /\ D(r.n) \in 0..3 /\ D(t.n) \in 0..3
        /\ D(S(t).n) \in 0..3
    BY <1>2, <2>1, <2>2, <2>3, <2>4
  <2>6. ~Goes(t, hash)
    BY <2>1, <2>2, <2>3, <2>4, <2>5
  <2> QED
    BY <2>1, <2>2, <2>3, <2>6, <2>a, <2>b, <2>c
<1>4. \A w : Iter(w) = [p \in Places |-> IF Goes(p, hash) THEN w[S(p)] ELSE p]
  BY DEF Step, Goes
<1> HIDE DEF S, Iter
<1>5. \E w : w = Iter(w)
  <2>a. PICK w : w = [p \in Places |-> S(S(S(p)))]
    OBVIOUS
  <2>1. ASSUME NEW p \in Places
        PROVE  S(S(S(p))) = IF Goes(p, hash) THEN w[S(p)] ELSE p
    <3>1. CASE Goes(p, hash)
      <4>1. S(p) \in Places
        BY <1>2
      <4>2. w[S(p)] = S(S(S(S(p))))
        BY <2>a, <4>1
      <4>3. S(S(S(S(p)))) = S(S(S(p)))
        BY <1>2, <1>3
      <4> QED
        BY <3>1, <4>2, <4>3
    <3>2. CASE ~Goes(p, hash)
      BY <1>2, <3>2
    <3> QED
      BY <3>1, <3>2
  <2>2. w = [p \in Places |-> IF Goes(p, hash) THEN w[S(p)] ELSE p]
    BY <2>a, <2>1
  <2> QED
    BY <1>4, <2>2
<1>6. f = Iter(f)
  BY <1>5, Zenon
<1>7. f = [p \in Places |-> IF Goes(p, hash) THEN f[S(p)] ELSE p]
  BY <1>4, <1>6
<1>8. ASSUME NEW p \in Places
      PROVE  f[p] = IF Goes(p, hash) THEN f[S(p)] ELSE p
  BY <1>7
<1>9. start \in Places
  BY StartFacts DEF Arrived
<1>10. ASSUME NEW p \in Places
       PROVE  f[p] = f[S(p)]
  <2>1. CASE Goes(p, hash)
    BY <1>8, <2>1
  <2>2. CASE ~Goes(p, hash)
    BY <1>2, <2>2
  <2> QED
    BY <2>1, <2>2
<1>11. f[start] = S(S(S(start)))
  <2>a. PICK q : q = S(start)
    OBVIOUS
  <2>b. PICK r : r = S(q)
    OBVIOUS
  <2>c. PICK t : t = S(r)
    OBVIOUS
  <2>1. q \in Places /\ r \in Places /\ t \in Places /\ ~Goes(t, hash)
    BY <1>3, <1>9, <2>a, <2>b, <2>c
  <2>2. f[t] = t
    BY <1>8, <2>1
  <2>3. f[start] = f[q] /\ f[q] = f[r] /\ f[r] = f[t]
    BY <1>9, <1>10, <2>1, <2>a, <2>b, <2>c
  <2> QED
    BY <2>2, <2>3, <2>a, <2>b, <2>c
<1>12. S(S(S(start))) = Thrice(start, hash)
  BY DEF S, Thrice, Twice, Once
<1> QED
  BY <1>1, <1>11, <1>12

(* At a node with digits of the hash only, the loop is at its first        *)
(* wildcard.                                                               *)
LEMMA BeginsFacts ==
  ASSUME Sound, NEW hash \in Hash, NEW p, Arrived(p, hash), Begins(p.n, hash)
  PROVE  p.i = D(p.n) + 1 /\ IsWild(p)
<1>1. p.n \in 0..(Len(nodes) - 1) /\ p.i \in 1..HashSize /\ D(p.n) \in 0..3
  BY NodeFacts DEF Arrived, Places
<1>2. p.i > D(p.n)
  BY <1>1 DEF Begins, Arrived
<1>3. p.i <= D(p.n) + 1 /\ (~IsWild(p) => p.i <= D(p.n))
  BY WildFacts
<1> QED
  BY <1>1, <1>2, <1>3 DEF HashSize

(* Such a node, other than the root, hangs below another one.              *)
LEMMA ParentFacts ==
  ASSUME Sound, NEW hash \in Hash, NEW n \in 1..(Len(nodes) - 1), Begins(n, hash)
  PROVE  \E m \in 0..(Len(nodes) - 1) :
            D(m) < D(n) /\ Begins(m, hash) /\ nodes[m + 1].links[hash[D(m) + 1]] = n
<1>1. Len(nodes) \in Nat /\ Len(nodes) - 1 < HALF_LONG /\ HALF_LONG \in Nat
  BY SizesFacts, Constants
<1>2. PICK k \in 1..Len(nodes), d \in Digit : nodes[k].links[d] = n
  BY DEF Sound, Tree
<1> PICK m : m = k - 1
  OBVIOUS
<1>3. m \in 0..(Len(nodes) - 1) /\ nodes[m + 1].links[d] = n
  BY <1>1, <1>2
<1>4. Under(nodes[n + 1].mask, nodes[m + 1].mask, d)
  <2>1. nodes[m + 1].links[d] # 0
    BY <1>3
  <2>2. Under(PathOf(nodes, hashes, nodes[m + 1].links[d]), nodes[m + 1].mask, d)
    BY <1>3, <2>1, NodeFacts
  <2>3. ~(n >= HALF_LONG)
    BY <1>1
  <2> QED
    BY <1>3, <2>2, <2>3 DEF PathOf
<1>5. D(m) \in 0..3 /\ n \in 0..(Len(nodes) - 1)
  BY <1>1, <1>3, NodeFacts
<1>6. /\ D(n) \in 0..3
      /\ \A i \in 1..HashSize : nodes[n + 1].mask[i] # Wildcard <=> i <= D(n)
  BY <1>5, NodeFacts, MaskFacts DEF D
<1>7. nodes[n + 1].mask[D(m) + 1] = d /\ D(m) + 1 \in 1..HashSize /\ d # Wildcard
  BY <1>4, <1>5, Constants DEF Under, D
<1>8. D(m) < D(n)
  <2>1. D(m) + 1 <= D(n)
    BY <1>6, <1>7
  <2> QED
    BY <1>5, <1>6, <2>1
<1>9. hash[D(m) + 1] = d
  BY <1>5, <1>6, <1>7, <1>8 DEF Begins
<1>10. Begins(m, hash)
  BY <1>4, <1>5, <1>6, <1>8 DEF Begins, Under, D
<1> QED
  BY <1>3, <1>8, <1>9, <1>10

(* The loop comes to every such node, and stops there if nothing leads on. *)
LEMMA ReachedFacts ==
  ASSUME Sound, NEW hash \in Hash, NEW n \in 0..(Len(nodes) - 1), Begins(n, hash),
         nodes[n + 1].links[hash[D(n) + 1]] \notin 1..(HALF_LONG - 1)
  PROVE  Descent(hash).n = n
<1>a. PICK p0 : p0 = Place(0, 1, 0, hash)
  OBVIOUS
<1>b. PICK p1 : p1 = Step(p0, hash)
  OBVIOUS
<1>c. PICK p2 : p2 = Step(p1, hash)
  OBVIOUS
<1>d. PICK p3 : p3 = Step(p2, hash)
  OBVIOUS
<1>1. /\ Arrived(p0, hash) /\ p0.n = 0
      /\ Arrived(p1, hash) /\ Arrived(p2, hash) /\ Arrived(p3, hash)
      /\ Descent(hash) = p3
  <2>1. Arrived(p0, hash) /\ p0.n = 0
    BY <1>a, StartFacts
  <2>2. p1 = Once(p0, hash) /\ p2 = Twice(p0, hash) /\ p3 = Thrice(p0, hash)
    BY <1>b, <1>c, <1>d DEF Once, Twice, Thrice
  <2> QED
    BY <2>1, <2>2, <1>a, StopFacts, DescentFacts
<1>2. ASSUME NEW p, Arrived(p, hash), NEW m, p.n = m, Begins(m, hash),
             NEW k \in 1..(Len(nodes) - 1), nodes[m + 1].links[hash[D(m) + 1]] = k
      PROVE  Step(p, hash).n = k
  <2>1. p.i = D(p.n) + 1 /\ IsWild(p)
    BY <1>2, BeginsFacts
  <2>2. LinkAt(p, hash) = k /\ k \in 1..(HALF_LONG - 1)
    BY <1>2, <2>1, SizesFacts, Constants DEF LinkAt
  <2>3. Goes(p, hash)
    BY <2>1, <2>2 DEF Goes
  <2> QED
    BY <1>2, <2>2, <2>3, StepFacts
<1>3. ASSUME NEW p, Arrived(p, hash), p.n = n
      PROVE  Step(p, hash) = p
  <2>1. p.i = D(p.n) + 1
    BY <1>3, BeginsFacts
  <2>2. LinkAt(p, hash) \notin 1..(HALF_LONG - 1)
    BY <1>3, <2>1 DEF LinkAt
  <2> QED
    BY <2>2 DEF Step, Goes
<1>4. ASSUME NEW m \in 0..(Len(nodes) - 1), m # 0, Begins(m, hash)
      PROVE  \E k \in 0..(Len(nodes) - 1) :
                /\ D(k) < D(m) /\ Begins(k, hash) /\ nodes[k + 1].links[hash[D(k) + 1]] = m
                /\ m \in 1..(Len(nodes) - 1)
  <2>1. m \in 1..(Len(nodes) - 1)
    BY <1>4
  <2> QED
    BY <1>4, <2>1, ParentFacts
<1>5. \A m \in 0..(Len(nodes) - 1) : D(m) \in 0..3
  BY NodeFacts
<1>6. ASSUME NEW m \in 0..(Len(nodes) - 1), Begins(m, hash)
      PROVE  /\ D(m) = 0 => p0.n = m
             /\ D(m) <= 1 => p0.n = m \/ p1.n = m
             /\ D(m) <= 2 => p0.n = m \/ p1.n = m \/ p2.n = m
             /\ p0.n = m \/ p1.n = m \/ p2.n = m \/ p3.n = m
  <2>1. ASSUME NEW i \in 0..(Len(nodes) - 1), Begins(i, hash), i # 0
        PROVE  \E k \in 0..(Len(nodes) - 1) :
                  /\ D(k) < D(i) /\ Begins(k, hash)
                  /\ p0.n = k => p1.n = i
                  /\ p1.n = k => p2.n = i
                  /\ p2.n = k => p3.n = i
    <3>1. PICK k \in 0..(Len(nodes) - 1) :
             /\ D(k) < D(i) /\ Begins(k, hash) /\ nodes[k + 1].links[hash[D(k) + 1]] = i
             /\ i \in 1..(Len(nodes) - 1)
      BY <1>4, <2>1
    <3>2. p0.n = k => p1.n = i
      BY <1>1, <1>2, <3>1, <1>b
    <3>3. p1.n = k => p2.n = i
      BY <1>1, <1>2, <3>1, <1>c
    <3>4. p2.n = k => p3.n = i
      BY <1>1, <1>2, <3>1, <1>d
    <3> QED
      BY <3>1, <3>2, <3>3, <3>4
  <2>2. ASSUME NEW i \in 0..(Len(nodes) - 1), Begins(i, hash), D(i) = 0
        PROVE  p0.n = i
    <3>1. ASSUME i # 0 PROVE FALSE
      <4>1. PICK k \in 0..(Len(nodes) - 1) : D(k) < D(i)
        BY <2>1, <2>2, <3>1
      <4> QED
        BY <1>5, <2>2, <4>1
    <3> QED
      BY <1>1, <3>1
  <2>3. ASSUME NEW i \in 0..(Len(nodes) - 1), Begins(i, hash), D(i) <= 1
        PROVE  p0.n = i \/ p1.n = i
    <3>1. CASE i = 0
      BY <1>1, <3>1
    <3>2. CASE i # 0
      <4>1. PICK k \in 0..(Len(nodes) - 1) :
               D(k) < D(i) /\ Begins(k, hash) /\ (p0.n = k => p1.n = i)
        BY <2>1, <2>3, <3>2
      <4>2. D(k) = 0
        BY <1>5, <2>3, <4>1
      <4> QED
        BY <2>2, <4>1, <4>2
    <3> QED
      BY <3>1, <3>2
  <2>4. ASSUME NEW i \in 0..(Len(nodes) - 1), Begins(i, hash), D(i) <= 2
        PROVE  p0.n = i \/ p1.n = i \/ p2.n = i
    <3>1. CASE i = 0
      BY <1>1, <3>1
    <3>2. CASE i # 0
      <4>1. PICK k \in 0..(Len(nodes) - 1) :
               /\ D(k) < D(i) /\ Begins(k, hash)
               /\ (p0.n = k => p1.n = i) /\ (p1.n = k => p2.n = i)
        BY <2>1, <2>4, <3>2
      <4>2. D(k) <= 1
        BY <1>5, <2>4, <4>1
      <4> QED
        BY <2>3, <4>1, <4>2
    <3> QED
      BY <3>1, <3>2
  <2>5. p0.n = m \/ p1.n = m \/ p2.n = m \/ p3.n = m
    <3>1. CASE m = 0
      BY <1>1, <3>1
    <3>2. CASE m # 0
      <4>1. PICK k \in 0..(Len(nodes) - 1) :
               /\ D(k) < D(m) /\ Begins(k, hash)
               /\ (p0.n = k => p1.n = m) /\ (p1.n = k => p2.n = m) /\ (p2.n = k => p3.n = m)
        BY <1>6, <2>1, <3>2
      <4>2. D(k) <= 2
        BY <1>5, <4>1
      <4> QED
        BY <2>4, <4>1, <4>2
    <3> QED
      BY <3>1, <3>2
  <2> QED
    BY <1>6, <2>2, <2>3, <2>4, <2>5
<1>7. p0.n = n \/ p1.n = n \/ p2.n = n \/ p3.n = n
  BY <1>6
<1>8. p2.n = n => p3.n = n
  BY <1>1, <1>3, <1>d
<1>9. p1.n = n => p2.n = n
  BY <1>1, <1>3, <1>c
<1>10. p0.n = n => p1.n = n
  BY <1>1, <1>3, <1>b
<1> QED
  BY <1>1, <1>7, <1>8, <1>9, <1>10

-----------------------------------------------------------------------------
(* What is found.                                                          *)

(* The loop ends where the digits of node and hash part; it is at a node   *)
(* and a link, or below the root at a node whose digits are others.        *)
LEMMA EndFacts ==
  ASSUME Sound, NEW hash \in Hash, NEW p, p = Descent(hash)
  PROVE  /\ Arrived(p, hash)
         /\ IsWild(p) => LinkAt(p, hash) = 0
                         \/ LinkAt(p, hash) \in HALF_LONG..(HALF_LONG + Len(hashes) - 1)
<1>1. Arrived(p, hash) /\ ~Goes(p, hash)
  <2>1. Arrived(Place(0, 1, 0, hash), hash) /\ p = Thrice(Place(0, 1, 0, hash), hash)
    BY StartFacts, DescentFacts
  <2> QED
    BY <2>1, StopFacts
<1>2. ASSUME IsWild(p)
      PROVE  LinkAt(p, hash) = 0
             \/ LinkAt(p, hash) \in HALF_LONG..(HALF_LONG + Len(hashes) - 1)
  <2>1. LinkAt(p, hash) \notin 1..(HALF_LONG - 1)
    BY <1>1, <1>2 DEF Goes
  <2>2. p.n \in 0..(Len(nodes) - 1) /\ hash[p.i] \in Digit
    BY <1>1 DEF Arrived, Places, Hash
  <2>3. LinkAt(p, hash) \in 0..(Len(nodes) - 1) \cup HALF_LONG..(HALF_LONG + Len(hashes) - 1)
    BY <2>2, NodeFacts DEF LinkAt
  <2> QED
    BY <2>1, <2>3, SizesFacts, Constants
<1> QED
  BY <1>1, <1>2

(* The leaf of a hash is where the loop ends.                              *)
LEMMA LeafFacts ==
  ASSUME Sound, NEW hash \in Hash, NEW k \in 1..Len(hashes), hashes[k].mask = hash
  PROVE  IsWild(Descent(hash)) /\ LinkAt(Descent(hash), hash) = HALF_LONG + k - 1
<1> PICK link : link = HALF_LONG + k - 1
  OBVIOUS
<1> PICK p : p = Descent(hash)
  OBVIOUS
<1>1. /\ Len(nodes) \in Nat /\ Len(hashes) \in Nat /\ HALF_LONG \in Nat
      /\ link \in HALF_LONG..(HALF_LONG + Len(hashes) - 1)
      /\ link >= HALF_LONG /\ link - HALF_LONG + 1 = k /\ link # 0
      /\ link \notin 1..(HALF_LONG - 1)
  BY SizesFacts, Constants
<1>2. PICK m \in 1..Len(nodes), d \in Digit : nodes[m].links[d] = link
  BY <1>1 DEF Sound, Tree
<1> PICK n : n = m - 1
  OBVIOUS
<1>3. n \in 0..(Len(nodes) - 1) /\ nodes[n + 1].links[d] = link
  BY <1>1, <1>2
<1>4. Under(hash, nodes[n + 1].mask, d)
  <2>1. Under(PathOf(nodes, hashes, link), nodes[n + 1].mask, d)
    BY <1>1, <1>3, NodeFacts
  <2> QED
    BY <1>1, <2>1 DEF PathOf
<1>5. Begins(n, hash) /\ hash[D(n) + 1] = d
  BY <1>4 DEF Under, Begins, D
<1>6. p.n = n
  BY <1>1, <1>3, <1>5, ReachedFacts
<1>7. p.i = D(p.n) + 1 /\ IsWild(p)
  BY <1>5, <1>6, EndFacts, BeginsFacts
<1> QED
  BY <1>3, <1>5, <1>6, <1>7 DEF LinkAt

(* The value a get finds for a key in a leaf.                              *)
ValueIn(leaf, key) ==
    IF PlacesOf(leaf, key) # {} THEN leaf.hashes[First(PlacesOf(leaf, key))].value ELSE Absent

(* A key is looked for in the leaf of its hash.                            *)
LEMMA FoundFacts ==
  ASSUME Sound, NEW key \in Key
  PROVE  /\ \A k \in 1..Len(hashes) : hashes[k].mask = HashOf[key] =>
               Found(key) = ValueIn(hashes[k], key)
         /\ (\A k \in 1..Len(hashes) : hashes[k].mask # HashOf[key]) => Found(key) = Absent
<1> PICK hash : hash = HashOf[key]
  OBVIOUS
<1>1. hash \in Hash /\ HALF_LONG \in Nat /\ Len(hashes) \in Nat
  BY Constants, SizesFacts
<1> PICK p : p = Descent(hash)
  OBVIOUS
<1> PICK link : link = LinkAt(p, hash)
  OBVIOUS
<1>2. Found(key) = IF IsWild(p) /\ link >= HALF_LONG /\ hashes[link - HALF_LONG + 1].mask = hash
                   THEN ValueIn(hashes[link - HALF_LONG + 1], key) ELSE Absent
  BY DEF Found, ValueIn
<1>3. ASSUME NEW k \in 1..Len(hashes), hashes[k].mask = hash
      PROVE  Found(key) = ValueIn(hashes[k], key)
  <2>1. IsWild(p) /\ link = HALF_LONG + k - 1
    BY <1>1, <1>3, LeafFacts
  <2>2. link >= HALF_LONG /\ link - HALF_LONG + 1 = k
    BY <1>1, <2>1
  <2> QED
    BY <1>2, <1>3, <2>1, <2>2
<1>4. ASSUME \A k \in 1..Len(hashes) : hashes[k].mask # hash
      PROVE  Found(key) = Absent
  <2>1. ASSUME IsWild(p), link >= HALF_LONG
        PROVE  link - HALF_LONG + 1 \in 1..Len(hashes)
    <3>1. link = 0 \/ link \in HALF_LONG..(HALF_LONG + Len(hashes) - 1)
      BY <1>1, <2>1, EndFacts
    <3> QED
      BY <1>1, <2>1, <3>1, Constants
  <2> QED
    BY <1>2, <1>4, <2>1
<1> QED
  BY <1>3, <1>4

(* Where a node has another digit than the hash, it is past the digit of   *)
(* the link by which the loop came.                                        *)
LEMMA SplitFacts ==
  ASSUME Sound, NEW hash \in Hash, NEW p, p = Descent(hash), ~IsWild(p)
  PROVE  /\ p.n \in 1..(Len(nodes) - 1) /\ p.prev \in 0..(Len(nodes) - 1)
         /\ D(p.prev) \in 0..3 /\ D(p.n) \in 0..3
         /\ p.i \in 1..HashSize /\ D(p.prev) + 1 < p.i /\ p.i <= D(p.n)
         /\ Begins(p.prev, hash)
         /\ nodes[p.prev + 1].links[hash[D(p.prev) + 1]] = p.n
         /\ nodes[p.n + 1].mask[p.i] # hash[p.i]
         /\ \A j \in 1..(p.i - 1) : nodes[p.n + 1].mask[j] = hash[j]
<1>1. /\ Arrived(p, hash) /\ p.n \in 0..(Len(nodes) - 1) /\ p.prev \in 0..(Len(nodes) - 1)
      /\ p.i \in 1..HashSize /\ p.i <= D(p.n)
  BY EndFacts, WildFacts DEF Places
<1>2. p.n # 0 /\ D(0) = 0 /\ Len(nodes) \in Nat
  BY <1>1, SizesFacts
<1>a. PICK m : m = p.prev
  OBVIOUS
<1>3. /\ D(m) < D(p.n) /\ Begins(m, hash) /\ nodes[m + 1].links[hash[D(m) + 1]] = p.n
      /\ nodes[p.n + 1].mask[p.i] # hash[p.i]
      /\ \A j \in 1..(p.i - 1) : nodes[p.n + 1].mask[j] = hash[j]
  BY <1>1, <1>2, <1>a DEF Arrived
<1>4. D(p.n) \in 0..3 /\ D(m) \in 0..3
  BY <1>1, <1>a, NodeFacts
<1>b. PICK d : d = hash[D(m) + 1]
  OBVIOUS
<1>5. Under(nodes[p.n + 1].mask, nodes[m + 1].mask, d)
  <2>1. d \in Digit /\ nodes[m + 1].links[d] = p.n
    BY <1>3, <1>4, <1>b DEF Hash, HashSize
  <2>2. Under(PathOf(nodes, hashes, nodes[m + 1].links[d]), nodes[m + 1].mask, d)
    BY <1>1, <1>2, <1>a, <2>1, NodeFacts
  <2>3. ~(p.n >= HALF_LONG)
    BY <1>1, SizesFacts, Constants
  <2> QED
    BY <2>1, <2>2, <2>3 DEF PathOf
<1>6. \A j \in 1..HashSize : j <= D(m) + 1 => nodes[p.n + 1].mask[j] = hash[j]
  BY <1>3, <1>4, <1>5, <1>b DEF Under, Begins, D, HashSize
<1>7. D(m) + 1 < p.i
  BY <1>1, <1>3, <1>4, <1>6 DEF HashSize
<1> QED
  BY <1>1, <1>2, <1>3, <1>4, <1>7, <1>a

-----------------------------------------------------------------------------
(* How the tree grows.                                                     *)

(* The tree t is tree with one link changed.                               *)
IsLinked(t, tree, n, d, link) ==
    /\ t \in Seq(Node) /\ Len(t) = Len(tree)
    /\ \A m \in 1..Len(tree) : t[m].mask = tree[m].mask
    /\ \A m \in 1..Len(tree), e \in Digit :
          t[m].links[e] = IF m = n /\ e = d THEN link ELSE tree[m].links[e]

(* Linked changes one link.                                                *)
LEMMA LinkedFacts ==
  ASSUME NEW tree \in Seq(Node), NEW n \in 1..Len(tree), NEW d \in Digit, NEW link \in Nat
  PROVE  IsLinked(Linked(tree, n - 1, d, link), tree, n, d, link)
<1> PICK t : t = Linked(tree, n - 1, d, link)
  OBVIOUS
<1>1. n - 1 + 1 = n /\ tree[n] \in Node
  OBVIOUS
<1> PICK node : node = [tree[n] EXCEPT !.links = [@ EXCEPT ![d] = link]]
  OBVIOUS
<1>2. /\ node \in Node /\ node.mask = tree[n].mask
      /\ \A e \in Digit : node.links[e] = IF e = d THEN link ELSE tree[n].links[e]
  BY <1>1 DEF Node
<1>3. t = [tree EXCEPT ![n] = node]
  BY <1>1 DEF Linked, Node
<1>4. t \in Seq(Node) /\ Len(t) = Len(tree)
  BY <1>2, <1>3
<1>5. \A m \in 1..Len(tree) : t[m] = IF m = n THEN node ELSE tree[m]
  BY <1>3
<1> QED
  BY <1>2, <1>4, <1>5 DEF IsLinked

(* A leaf is linked where p had no link at d.                              *)
Adds(ns, hs, p, d, leaf, ns2, hs2) ==
    /\ Typed(ns, hs) /\ Tree(ns, hs) /\ Len(hs) < MaxKeys
    /\ p \in 1..Len(ns) /\ d \in Digit /\ ns[p].links[d] = 0
    /\ leaf \in Leaf /\ \E key \in Key : leaf.mask = HashOf[key]
    /\ Under(leaf.mask, ns[p].mask, d)
    /\ ns2 = Linked(ns, p - 1, d, Len(hs) + HALF_LONG)
    /\ hs2 = Append(hs, leaf)

(* The tree stays sound.                                                   *)
LEMMA LeafAdded ==
  ASSUME NEW ns, NEW hs, NEW p, NEW d, NEW leaf, NEW ns2, NEW hs2,
         Adds(ns, hs, p, d, leaf, ns2, hs2)
  PROVE  Typed(ns2, hs2) /\ Tree(ns2, hs2)
<1>a. /\ Typed(ns, hs) /\ Tree(ns, hs) /\ Len(hs) < MaxKeys
      /\ p \in 1..Len(ns) /\ d \in Digit /\ ns[p].links[d] = 0
      /\ leaf \in Leaf /\ \E key \in Key : leaf.mask = HashOf[key]
      /\ Under(leaf.mask, ns[p].mask, d)
      /\ ns2 = Linked(ns, p - 1, d, Len(hs) + HALF_LONG)
      /\ hs2 = Append(hs, leaf)
  BY DEF Adds
<1>1. /\ ns \in Seq(Node) /\ hs \in Seq(Leaf)
      /\ Len(ns) \in 1..(Len(hs) + 1) /\ Len(hs) \in Nat /\ Len(ns) \in Nat
      /\ HALF_LONG \in Nat \ {0} /\ MaxKeys \in Nat /\ MaxKeys < HALF_LONG
  BY <1>a, Constants DEF Typed
<1> PICK new : new = Len(hs) + HALF_LONG
  OBVIOUS
<1>2. /\ ns2 \in Seq(Node) /\ Len(ns2) = Len(ns)
      /\ \A m \in 1..Len(ns) : ns2[m].mask = ns[m].mask
      /\ \A m \in 1..Len(ns), e \in Digit :
            ns2[m].links[e] = IF m = p /\ e = d THEN new ELSE ns[m].links[e]
  <2>1. new \in Nat /\ ns2 = Linked(ns, p - 1, d, new) /\ ns \in Seq(Node)
    BY <1>1, <1>a
  <2>2. IsLinked(ns2, ns, p, d, new)
    BY <1>a, <2>1, LinkedFacts
  <2> QED
    BY <2>2 DEF IsLinked
<1>3. /\ hs2 \in Seq(Leaf) /\ Len(hs2) = Len(hs) + 1 /\ hs2[Len(hs) + 1] = leaf
      /\ \A k \in 1..Len(hs) : hs2[k] = hs[k]
  BY <1>1, <1>a
<1>4. \A m \in 1..Len(ns), e \in Digit :
         ns[m].links[e] \in 0..(Len(ns) - 1) \cup HALF_LONG..(HALF_LONG + Len(hs) - 1)
  BY <1>a DEF Typed
<1>5. Typed(ns2, hs2)
  <2>1. \A m \in 1..Len(ns2), e \in Digit : ns2[m].links[e] \in
           0..(Len(ns2) - 1) \cup HALF_LONG..(HALF_LONG + Len(hs2) - 1)
    <3> SUFFICES ASSUME NEW m \in 1..Len(ns), NEW e \in Digit
                 PROVE  ns2[m].links[e] \in
                           0..(Len(ns) - 1) \cup HALF_LONG..(HALF_LONG + Len(hs))
      BY <1>1, <1>2, <1>3
    <3>1. ns[m].links[e] \in 0..(Len(ns) - 1) \cup HALF_LONG..(HALF_LONG + Len(hs))
      BY <1>1, <1>4
    <3>2. new \in HALF_LONG..(HALF_LONG + Len(hs))
      BY <1>1
    <3> QED
      BY <1>1, <1>2, <1>a, <3>1, <3>2
  <2>2. \A k \in 1..Len(hs2) : \E key \in Key : hs2[k].mask = HashOf[key]
    BY <1>1, <1>3, <1>a DEF Typed
  <2>3. Len(ns2) \in 1..(Len(hs2) + 1) /\ Len(hs2) <= MaxKeys
    BY <1>1, <1>2, <1>3, <1>a
  <2> QED
    BY <1>2, <1>3, <2>1, <2>2, <2>3 DEF Typed
<1>6. \A link \in 0..(Len(ns) - 1) \cup HALF_LONG..(HALF_LONG + Len(hs) - 1) :
         PathOf(ns2, hs2, link) = PathOf(ns, hs, link)
  <2>1. ASSUME NEW link \in 0..(Len(ns) - 1)
        PROVE  ~(link >= HALF_LONG) /\ link + 1 \in 1..Len(ns)
    BY <1>1, <1>a
  <2>2. ASSUME NEW link \in HALF_LONG..(HALF_LONG + Len(hs) - 1)
        PROVE  link - HALF_LONG + 1 \in 1..Len(hs) /\ link >= HALF_LONG
    BY <1>1
  <2> QED
    BY <1>2, <1>3, <2>1, <2>2 DEF PathOf
<1>7. PathOf(ns2, hs2, new) = leaf.mask
  BY <1>1, <1>3 DEF PathOf
<1>8. ASSUME NEW m \in 1..Len(ns), NEW e \in Digit, ns2[m].links[e] # 0
      PROVE  Under(PathOf(ns2, hs2, ns2[m].links[e]), ns2[m].mask, e)
  <2>1. CASE m = p /\ e = d
    BY <1>2, <1>7, <1>a, <2>1
  <2>2. CASE ~(m = p /\ e = d)
    <3>1. ns2[m].links[e] = ns[m].links[e]
      BY <1>2, <2>2
    <3>2. Under(PathOf(ns, hs, ns[m].links[e]), ns[m].mask, e)
      BY <1>8, <1>a, <3>1 DEF Tree
    <3> QED
      BY <1>2, <1>4, <1>6, <3>1, <3>2
  <2> QED
    BY <2>1, <2>2
<1>9. ASSUME NEW link \in 1..(Len(ns2) - 1) \cup HALF_LONG..(HALF_LONG + Len(hs2) - 1)
      PROVE  \E n \in 1..Len(ns2), x \in Digit :
                /\ ns2[n].links[x] = link
                /\ \A m \in 1..Len(ns2), e \in Digit : ns2[m].links[e] = link => m = n /\ e = x
  <2>1. CASE link = new
    <3>1. \A m \in 1..Len(ns), e \in Digit : ns[m].links[e] # new
      BY <1>1, <1>4
    <3> QED
      BY <1>2, <1>a, <2>1, <3>1
  <2>2. CASE link # new
    <3>1. link \in 1..(Len(ns) - 1) \cup HALF_LONG..(HALF_LONG + Len(hs) - 1) /\ link # 0
      <4>1. CASE link \in 1..(Len(ns2) - 1)
        BY <1>1, <1>2, <4>1
      <4>2. CASE link \in HALF_LONG..(HALF_LONG + Len(hs2) - 1)
        BY <1>1, <1>3, <2>2, <4>2
      <4> QED
        BY <1>9, <4>1, <4>2
    <3>2. PICK n \in 1..Len(ns), x \in Digit :
             /\ ns[n].links[x] = link
             /\ \A m \in 1..Len(ns), e \in Digit : ns[m].links[e] = link => m = n /\ e = x
      BY <1>a, <3>1 DEF Tree
    <3>3. ns2[n].links[x] = link
      BY <1>1, <1>2, <1>a, <3>1, <3>2
    <3>4. ASSUME NEW m \in 1..Len(ns), NEW e \in Digit, ns2[m].links[e] = link
          PROVE  m = n /\ e = x
      BY <1>2, <2>2, <3>2, <3>4
    <3>5. Len(ns2) = Len(ns)
      BY <1>2
    <3> QED
      BY <3>2, <3>3, <3>4, <3>5
  <2> QED
    BY <2>1, <2>2
<1>10. (\A m \in 1..Len(ns2) : Shaped(ns2[m].mask)) /\ Digits(ns2[1].mask) = 0
  BY <1>1, <1>2, <1>a DEF Tree
<1>11. Tree(ns2, hs2)
  BY <1>2, <1>8, <1>9, <1>10 DEF Tree
<1> QED
  BY <1>5, <1>11
(* A node comes between the link of p at d and what it led to, with a new  *)
(* leaf as its other link.                                                 *)
Inserts(ns, hs, p, d, c, mask, e, f, leaf, ns2, hs2) ==
    /\ Typed(ns, hs) /\ Tree(ns, hs) /\ Len(hs) < MaxKeys
    /\ p \in 1..Len(ns) /\ d \in Digit /\ ns[p].links[d] = c /\ c # 0
    /\ mask \in Mask /\ Shaped(mask) /\ Under(mask, ns[p].mask, d)
    /\ e \in Digit /\ f \in Digit /\ e # f
    /\ Under(PathOf(ns, hs, c), mask, e) /\ Under(leaf.mask, mask, f)
    /\ leaf \in Leaf /\ \E key \in Key : leaf.mask = HashOf[key]
    /\ LET node == TreeNode(mask, [NoLinks EXCEPT ![e] = c, ![f] = Len(hs) + HALF_LONG])
       IN  ns2 = Linked(Append(ns, node), p - 1, d, Len(ns))
    /\ hs2 = Append(hs, leaf)

(* Then too.                                                               *)
LEMMA NodeInserted ==
  ASSUME NEW ns, NEW hs, NEW p, NEW d, NEW c, NEW mask, NEW e, NEW f, NEW leaf, NEW ns2, NEW hs2,
         Inserts(ns, hs, p, d, c, mask, e, f, leaf, ns2, hs2)
  PROVE  Typed(ns2, hs2) /\ Tree(ns2, hs2)
<1>a. /\ Typed(ns, hs) /\ Tree(ns, hs) /\ Len(hs) < MaxKeys
      /\ p \in 1..Len(ns) /\ d \in Digit /\ ns[p].links[d] = c /\ c # 0
      /\ e \in Digit /\ f \in Digit /\ e # f
      /\ leaf \in Leaf /\ \E key \in Key : leaf.mask = HashOf[key]
      /\ hs2 = Append(hs, leaf)
  BY DEF Inserts
<1>b. /\ mask \in Mask /\ Shaped(mask) /\ Under(mask, ns[p].mask, d)
      /\ Under(PathOf(ns, hs, c), mask, e) /\ Under(leaf.mask, mask, f)
  BY DEF Inserts
<1>d. PICK node : node = TreeNode(mask, [NoLinks EXCEPT ![e] = c, ![f] = Len(hs) + HALF_LONG])
  OBVIOUS
<1>c. ns2 = Linked(Append(ns, node), p - 1, d, Len(ns))
  BY <1>d DEF Inserts
<1>1. /\ ns \in Seq(Node) /\ hs \in Seq(Leaf)
      /\ Len(ns) \in 1..(Len(hs) + 1) /\ Len(hs) \in Nat /\ Len(ns) \in Nat
      /\ HALF_LONG \in Nat \ {0} /\ MaxKeys \in Nat /\ MaxKeys < HALF_LONG
  BY <1>a, Constants DEF Typed
<1> PICK N : N = Len(ns)
  OBVIOUS
<1> PICK new : new = Len(hs) + HALF_LONG
  OBVIOUS
<1>2. /\ N \in Nat \ {0} /\ N < HALF_LONG /\ new \in Nat /\ new > N /\ new >= HALF_LONG
      /\ p \in 1..N
  BY <1>1, <1>a
<1>3. \A m \in 1..N, x \in Digit :
         ns[m].links[x] \in 0..(N - 1) \cup HALF_LONG..(HALF_LONG + Len(hs) - 1)
  BY <1>a DEF Typed
<1>4. c \in 0..(N - 1) \cup HALF_LONG..(HALF_LONG + Len(hs) - 1)
  BY <1>2, <1>3, <1>a
<1>5. c \in Nat /\ c # N /\ c # new
  <2>1. CASE c \in 0..(N - 1)
    BY <1>2, <2>1
  <2>2. CASE c \in HALF_LONG..(HALF_LONG + Len(hs) - 1)
    BY <1>1, <1>2, <2>2
  <2> QED
    BY <1>4, <2>1, <2>2
<1>6. /\ node \in Node /\ node.mask = mask
      /\ \A x \in Digit : node.links[x] = IF x = f THEN new ELSE IF x = e THEN c ELSE 0
  <2>a. PICK links1 : links1 = [NoLinks EXCEPT ![e] = c]
    OBVIOUS
  <2>b. PICK links2 : links2 = [links1 EXCEPT ![f] = new]
    OBVIOUS
  <2>1. links1 = [x \in Digit |-> IF x = e THEN c ELSE 0]
    BY <2>a DEF NoLinks
  <2>2. links2 = [x \in Digit |-> IF x = f THEN new ELSE IF x = e THEN c ELSE 0]
    BY <2>1, <2>b, <1>a
  <2>3. links2 \in [Digit -> Nat]
    <3>1. \A x \in Digit : links2[x] \in Nat
      BY <1>2, <1>5, <2>2
    <3>2. links2 = [x \in Digit |-> links2[x]]
      BY <2>2
    <3> QED
      BY <3>1, <3>2
  <2>4. node = [mask |-> mask, links |-> links2]
    BY <1>d, <2>a, <2>b DEF TreeNode
  <2>5. node.mask = mask /\ node.links = links2
    BY <2>4
  <2>6. node \in Node
    BY <2>3, <2>4, <1>b DEF Node
  <2> QED
    BY <2>2, <2>5, <2>6
<1> PICK tree : tree = Append(ns, node)
  OBVIOUS
<1>7. /\ tree \in Seq(Node) /\ Len(tree) = N + 1 /\ tree[N + 1] = node
      /\ \A m \in 1..N : tree[m] = ns[m]
  BY <1>1, <1>6
<1>8. IsLinked(ns2, tree, p, d, N)
  <2>1. p \in 1..Len(tree) /\ N \in Nat
    BY <1>2, <1>7
  <2>2. ns2 = Linked(tree, p - 1, d, N) /\ d \in Digit
    BY <1>a, <1>c
  <2> QED
    BY <1>7, <2>1, <2>2, LinkedFacts
<1>9. /\ ns2 \in Seq(Node) /\ Len(ns2) = N + 1
      /\ \A m \in 1..N : ns2[m].mask = ns[m].mask
      /\ ns2[N + 1].mask = mask
      /\ \A m \in 1..N, x \in Digit :
            ns2[m].links[x] = IF m = p /\ x = d THEN N ELSE ns[m].links[x]
      /\ \A x \in Digit : ns2[N + 1].links[x] = IF x = f THEN new ELSE IF x = e THEN c ELSE 0
  <2>1. \A m \in 1..N : m \in 1..Len(tree) /\ m # N + 1
    BY <1>2, <1>7
  <2>2. N + 1 \in 1..Len(tree) /\ N + 1 # p
    BY <1>2, <1>7
  <2>3. /\ Len(ns2) = N + 1 /\ ns2 \in Seq(Node)
        /\ \A m \in 1..(N + 1) : ns2[m].mask = tree[m].mask
        /\ \A m \in 1..(N + 1), x \in Digit :
              ns2[m].links[x] = IF m = p /\ x = d THEN N ELSE tree[m].links[x]
    BY <1>7, <1>8 DEF IsLinked
  <2>4. N + 1 \in 1..(N + 1) /\ \A m \in 1..N : m \in 1..(N + 1)
    BY <1>2
  <2>5. ns2[N + 1].mask = mask
    BY <1>6, <1>7, <2>3, <2>4
  <2>6. \A x \in Digit : ns2[N + 1].links[x] = node.links[x]
    BY <1>7, <2>2, <2>3, <2>4
  <2> QED
    BY <1>6, <1>7, <2>3, <2>4, <2>5, <2>6
<1>10. /\ hs2 \in Seq(Leaf) /\ Len(hs2) = Len(hs) + 1 /\ hs2[Len(hs) + 1] = leaf
       /\ \A k \in 1..Len(hs) : hs2[k] = hs[k]
  BY <1>1, <1>a
<1>11. \A m \in 1..(N + 1) : m \in 1..N \/ m = N + 1
  BY <1>2
<1>12. 0..(N - 1) \cup HALF_LONG..(HALF_LONG + Len(hs) - 1)
          \subseteq 0..N \cup HALF_LONG..(HALF_LONG + Len(hs))
  BY <1>1, <1>2
<1>13. Typed(ns2, hs2)
  <2>1. \A m \in 1..Len(ns2), x \in Digit : ns2[m].links[x] \in
           0..(Len(ns2) - 1) \cup HALF_LONG..(HALF_LONG + Len(hs2) - 1)
    <3> PICK Links : Links = 0..N \cup HALF_LONG..(HALF_LONG + Len(hs))
      OBVIOUS
    <3>1. N \in Links /\ new \in Links /\ c \in Links /\ 0 \in Links
      BY <1>1, <1>2, <1>4, <1>12
    <3>2. Links = 0..(Len(ns2) - 1) \cup HALF_LONG..(HALF_LONG + Len(hs2) - 1)
      BY <1>1, <1>2, <1>9, <1>10
    <3>3. \A m \in 1..N, x \in Digit : ns2[m].links[x] \in Links
      BY <1>3, <1>9, <1>12, <3>1
    <3>4. \A x \in Digit : ns2[N + 1].links[x] \in Links
      BY <1>9, <3>1
    <3> QED
      BY <1>9, <1>11, <3>2, <3>3, <3>4
  <2>2. \A k \in 1..Len(hs2) : \E key \in Key : hs2[k].mask = HashOf[key]
    BY <1>1, <1>a, <1>10 DEF Typed
  <2>3. Len(ns2) \in 1..(Len(hs2) + 1) /\ Len(hs2) <= MaxKeys
    BY <1>1, <1>a, <1>9, <1>10
  <2> QED
    BY <1>9, <1>10, <2>1, <2>2, <2>3 DEF Typed
<1>14. \A link \in 0..(N - 1) \cup HALF_LONG..(HALF_LONG + Len(hs) - 1) :
          PathOf(ns2, hs2, link) = PathOf(ns, hs, link)
  <2>1. ASSUME NEW link \in 0..(N - 1)
        PROVE  ~(link >= HALF_LONG) /\ link + 1 \in 1..N
    BY <1>1, <1>2
  <2>2. ASSUME NEW link \in HALF_LONG..(HALF_LONG + Len(hs) - 1)
        PROVE  link - HALF_LONG + 1 \in 1..Len(hs) /\ link >= HALF_LONG
    BY <1>1
  <2> QED
    BY <1>9, <1>10, <2>1, <2>2 DEF PathOf
<1>15. PathOf(ns2, hs2, new) = leaf.mask /\ PathOf(ns2, hs2, N) = mask
  <2>1. new >= HALF_LONG /\ new - HALF_LONG + 1 = Len(hs) + 1 /\ ~(N >= HALF_LONG)
    BY <1>1, <1>2
  <2> QED
    BY <1>9, <1>10, <2>1 DEF PathOf
<1>16. ASSUME NEW m \in 1..(N + 1), NEW x \in Digit, ns2[m].links[x] # 0
       PROVE  Under(PathOf(ns2, hs2, ns2[m].links[x]), ns2[m].mask, x)
  <2>1. CASE m = p /\ x = d
    BY <1>2, <1>9, <1>15, <1>b, <2>1
  <2>2. CASE m \in 1..N /\ ~(m = p /\ x = d)
    <3>1. ns2[m].links[x] = ns[m].links[x] /\ ns2[m].mask = ns[m].mask
      BY <1>9, <2>2
    <3>2. Under(PathOf(ns, hs, ns[m].links[x]), ns[m].mask, x)
      BY <1>16, <1>a, <2>2, <3>1 DEF Tree
    <3>3. PathOf(ns2, hs2, ns[m].links[x]) = PathOf(ns, hs, ns[m].links[x])
      BY <1>3, <1>14, <2>2
    <3> QED
      BY <3>1, <3>2, <3>3
  <2>3. CASE m = N + 1 /\ x = f
    BY <1>9, <1>15, <1>b, <2>3
  <2>4. CASE m = N + 1 /\ x = e
    <3>1. ns2[m].links[x] = c /\ ns2[m].mask = mask /\ PathOf(ns2, hs2, c) = PathOf(ns, hs, c)
      BY <1>4, <1>9, <1>14, <1>a, <2>4
    <3> QED
      BY <2>4, <3>1, <1>b
  <2>5. CASE m = N + 1 /\ x # f /\ x # e
    BY <1>9, <1>16, <2>5
  <2> QED
    BY <1>11, <2>1, <2>2, <2>3, <2>4, <2>5
<1>17. ASSUME NEW link \in 1..N \cup HALF_LONG..(HALF_LONG + Len(hs))
       PROVE  \E n \in 1..(N + 1), x \in Digit :
                 /\ ns2[n].links[x] = link
                 /\ \A m \in 1..(N + 1), y \in Digit :
                       ns2[m].links[y] = link => m = n /\ y = x
  <2> DEFINE Only(n, x) ==
                 /\ ns2[n].links[x] = link
                 /\ \A m \in 1..(N + 1), y \in Digit :
                       ns2[m].links[y] = link => m = n /\ y = x
  <2>1. link # 0 /\ N + 1 \in 1..(N + 1) /\ p \in 1..(N + 1) /\ p # N + 1
    BY <1>1, <1>2
  <2>2. CASE link = N
    <3>1. \A m \in 1..N, x \in Digit : ns[m].links[x] # N
      BY <1>1, <1>2, <1>3
    <3>2. Only(p, d)
      <4>1. \A m \in 1..N, y \in Digit : ns2[m].links[y] = N => m = p /\ y = d
        BY <1>9, <3>1
      <4>2. \A y \in Digit : ns2[N + 1].links[y] # N
        BY <1>2, <1>5, <1>9
      <4>3. ns2[p].links[d] = N
        BY <1>2, <1>9, <1>a
      <4> QED
        BY <1>11, <2>2, <4>1, <4>2, <4>3
    <3> QED
      BY <2>1, <3>2, <1>a
  <2>3. CASE link = new
    <3>1. \A m \in 1..N, x \in Digit : ns[m].links[x] # new
      <4>1. new \notin 0..(N - 1) /\ new \notin HALF_LONG..(HALF_LONG + Len(hs) - 1)
        BY <1>1, <1>2
      <4> QED
        BY <1>3, <4>1
    <3>2. Only(N + 1, f)
      BY <1>2, <1>5, <1>9, <1>11, <1>a, <2>1, <2>3, <3>1
    <3> QED
      BY <2>1, <3>2, <1>a
  <2>4. CASE link # N /\ link # new
    <3>1. link \in 1..(N - 1) \cup HALF_LONG..(HALF_LONG + Len(hs) - 1)
      <4>1. CASE link \in 1..N
        BY <1>2, <2>4, <4>1
      <4>2. CASE link \in HALF_LONG..(HALF_LONG + Len(hs))
        BY <1>1, <2>4, <4>2
      <4> QED
        BY <1>17, <4>1, <4>2
    <3>2. PICK n \in 1..N, x \in Digit :
             /\ ns[n].links[x] = link
             /\ \A m \in 1..N, y \in Digit : ns[m].links[y] = link => m = n /\ y = x
      BY <3>1, <1>a DEF Tree
    <3>3. CASE link = c
      <4>1. n = p /\ x = d
        BY <1>2, <1>a, <3>2, <3>3
      <4>2. \A m \in 1..N, y \in Digit : ns2[m].links[y] # link
        BY <1>9, <2>4, <3>2, <4>1
      <4>3. Only(N + 1, e)
        BY <1>9, <1>11, <1>a, <2>1, <2>4, <3>3, <4>2
      <4> QED
        BY <2>1, <4>3, <1>a
    <3>4. CASE link # c
      <4>1. ~(n = p /\ x = d) /\ n \in 1..(N + 1)
        BY <1>2, <1>a, <3>2, <3>4
      <4>2. \A m \in 1..N, y \in Digit : ns2[m].links[y] = link => m = n /\ y = x
        BY <1>9, <2>4, <3>2
      <4>3. \A y \in Digit : ns2[N + 1].links[y] # link
        BY <1>9, <2>1, <2>4, <3>4
      <4>4. Only(n, x)
        BY <1>9, <1>11, <3>2, <4>1, <4>2, <4>3
      <4> QED
        BY <4>1, <4>4
    <3> QED
      BY <3>3, <3>4
  <2> QED
    BY <2>2, <2>3, <2>4
<1>18. (\A m \in 1..Len(ns2) : Shaped(ns2[m].mask)) /\ Digits(ns2[1].mask) = 0
  <2>1. 1 \in 1..N /\ \A m \in 1..Len(ns2) : m \in 1..(N + 1)
    BY <1>2, <1>9
  <2>2. (\A m \in 1..N : Shaped(ns[m].mask)) /\ Digits(ns[1].mask) = 0
    BY <1>a DEF Tree
  <2> QED
    BY <1>9, <1>11, <1>b, <2>1, <2>2
<1>19. Tree(ns2, hs2)
  <2>1. /\ Len(ns2) = N + 1 /\ Len(ns2) - 1 = N
        /\ HALF_LONG + Len(hs2) - 1 = HALF_LONG + Len(hs)
    BY <1>1, <1>2, <1>9, <1>10
  <2> QED
    BY <1>16, <1>17, <1>18, <2>1 DEF Tree
<1> QED
  BY <1>13, <1>19
(* Another value, or another key, in a leaf leaves the tree as it was.     *)
LEMMA LeafChanged ==
  ASSUME NEW ns, NEW hs, Typed(ns, hs), Tree(ns, hs),
         NEW hs2 \in Seq(Leaf), Len(hs2) = Len(hs),
         \A k \in 1..Len(hs) : hs2[k].mask = hs[k].mask
  PROVE  Typed(ns, hs2) /\ Tree(ns, hs2)
<1>1. Typed(ns, hs2)
  BY DEF Typed
<1>2. Len(hs) \in Nat /\ HALF_LONG \in Nat
  BY Constants DEF Typed
<1>3. ASSUME NEW link \in 0..(Len(ns) - 1) \cup HALF_LONG..(HALF_LONG + Len(hs) - 1)
      PROVE  PathOf(ns, hs2, link) = PathOf(ns, hs, link)
  <2>1. CASE link >= HALF_LONG
    <3>1. Len(ns) - 1 < HALF_LONG /\ Len(ns) \in Nat
      BY Constants DEF Typed
    <3>2. link - HALF_LONG + 1 \in 1..Len(hs)
      BY <1>2, <2>1, <3>1
    <3> QED
      BY <2>1, <3>2 DEF PathOf
  <2>2. CASE ~(link >= HALF_LONG)
    BY <2>2 DEF PathOf
  <2> QED
    BY <2>1, <2>2
<1>4. ASSUME NEW n \in 1..Len(ns), NEW d \in Digit, ns[n].links[d] # 0
      PROVE  Under(PathOf(ns, hs2, ns[n].links[d]), ns[n].mask, d)
  <2>1. Under(PathOf(ns, hs, ns[n].links[d]), ns[n].mask, d)
    BY <1>4 DEF Tree
  <2>2. ns[n].links[d] \in 0..(Len(ns) - 1) \cup HALF_LONG..(HALF_LONG + Len(hs) - 1)
    BY DEF Typed
  <2> QED
    BY <1>3, <2>1, <2>2
<1>5. Tree(ns, hs2)
  BY <1>4 DEF Tree
<1> QED
  BY <1>1, <1>5

-----------------------------------------------------------------------------
(* What a put makes of the leaves.                                         *)

(* A leaf of its own for the key.                                          *)
Added(key, value) ==
    /\ \A k \in 1..Len(hashes) : hashes[k].mask # HashOf[key]
    /\ hashes' = Append(hashes, HashVariants(HashOf[key], key, value))

(* The leaf of the key's hash, with the key.                               *)
Updated(key, value) ==
    \E k \in 1..Len(hashes), leaf \in Leaf :
       /\ hashes[k].mask = HashOf[key] /\ leaf.mask = HashOf[key]
       /\ hashes' = [hashes EXCEPT ![k] = leaf]
       /\ ValueIn(leaf, key) = value
       /\ \A other \in Key : other # key => ValueIn(leaf, other) = ValueIn(hashes[k], other)

(* A new leaf has the hash and the value of its key.                       *)
LEMMA NewLeafFacts ==
  ASSUME NEW key \in Key, NEW value \in Value
  PROVE  /\ HashVariants(HashOf[key], key, value) \in Leaf
         /\ HashVariants(HashOf[key], key, value).mask = HashOf[key]
<1>1. PICK entries : entries = <<[key |-> key, value |-> value]>>
  OBVIOUS
<1>2. entries \in Seq(Variant)
  <2>1. [key |-> key, value |-> value] \in Variant
    BY DEF Variant
  <2> QED
    BY <1>1, <2>1
<1>3. HashVariants(HashOf[key], key, value) = [mask |-> HashOf[key], hashes |-> entries]
  BY <1>1 DEF HashVariants
<1>4. HashOf[key] \in Hash
  BY Constants
<1> QED
  BY <1>2, <1>3, <1>4 DEF Leaf

(* A put where there is no link.                                           *)
LEMMA PutLeafFacts ==
  ASSUME Sound, NEW key \in Key, NEW value \in Value, PutLeaf(key, value)
  PROVE  Sound' /\ Added(key, value)
<1> PICK hash : hash = HashOf[key]
  OBVIOUS
<1> PICK p : p = Descent(hash)
  OBVIOUS
<1> PICK leaf : leaf = HashVariants(hash, key, value)
  OBVIOUS
<1>1. /\ IsWild(p) /\ LinkAt(p, hash) = 0 /\ Len(hashes) < MaxKeys
      /\ hashes' = Append(hashes, leaf)
      /\ nodes' = Linked(nodes, p.n, hash[p.i], Len(hashes) + HALF_LONG)
  BY DEF PutLeaf
<1>2. hash \in Hash /\ leaf \in Leaf /\ leaf.mask = HashOf[key] /\ HALF_LONG \in Nat \ {0}
  BY Constants, NewLeafFacts
<1>3. Arrived(p, hash)
  BY <1>2, EndFacts
<1>4. p \in Places /\ p.i = D(p.n) + 1 /\ Begins(p.n, hash)
  BY <1>1, <1>2, <1>3, WildFacts
<1> PICK n : n = p.n + 1
  OBVIOUS
<1> PICK d : d = hash[p.i]
  OBVIOUS
<1>5. p.n \in 0..(Len(nodes) - 1) /\ Len(nodes) \in Nat /\ p.i \in 1..HashSize
  BY <1>4, SizesFacts DEF Places
<1>6. n \in 1..Len(nodes) /\ p.n = n - 1 /\ d \in Digit
  <2>1. n \in 1..Len(nodes) /\ p.n = n - 1
    BY <1>5
  <2>2. d \in Digit
    BY <1>2, <1>5 DEF Hash
  <2> QED
    BY <2>1, <2>2
<1>7. nodes[n].links[d] = 0
  BY <1>1 DEF LinkAt
<1>8. Under(leaf.mask, nodes[n].mask, d)
  BY <1>2, <1>4, <1>6 DEF Under, Begins, D
<1>9. Typed(nodes', hashes') /\ Tree(nodes', hashes')
  <2>1. Typed(nodes, hashes) /\ Tree(nodes, hashes)
    BY DEF Sound
  <2>2. nodes' = Linked(nodes, n - 1, d, Len(hashes) + HALF_LONG)
    BY <1>1, <1>6
  <2>3. Adds(nodes, hashes, n, d, leaf, nodes', hashes')
    BY <1>1, <1>2, <1>6, <1>7, <1>8, <2>1, <2>2 DEF Adds
  <2> QED
    BY <2>3, LeafAdded
<1>10. ASSUME NEW k \in 1..Len(hashes), hashes[k].mask = hash PROVE FALSE
  <2>1. LinkAt(p, hash) = HALF_LONG + k - 1
    BY <1>2, <1>10, LeafFacts
  <2> QED
    BY <1>1, <1>2, <2>1
<1> QED
  BY <1>1, <1>9, <1>10 DEF Sound, Added

(* The beginning of a sequence of digits, as a mask.                       *)
LEMMA MaskOfFacts ==
  ASSUME NEW path, NEW n \in 0..3, \A i \in 1..n : path[i] \in Digit
  PROVE  /\ MaskOf(path, n) \in Mask /\ Shaped(MaskOf(path, n)) /\ Digits(MaskOf(path, n)) = n
         /\ \A i \in 1..n : MaskOf(path, n)[i] = path[i]
<1> PICK mask : mask = MaskOf(path, n)
  OBVIOUS
<1>1. mask = [i \in 1..4 |-> IF i <= n THEN path[i] ELSE Wildcard]
  BY DEF MaskOf, HashSize
<1>2. \A i \in 1..n : i \in 1..4 /\ i <= n /\ mask[i] = path[i] /\ mask[i] # Wildcard
  BY <1>1, Constants
<1>3. \A i \in 1..4 : i > n => mask[i] = Wildcard
  BY <1>1
<1>4. mask \in Mask
  <2>1. \A i \in 1..4 : mask[i] \in Digit \cup {Wildcard}
    BY <1>1
  <2> QED
    BY <1>1, <2>1 DEF Mask, HashSize
<1>5. Digits(mask) = n
  <2>1. n \in {0, 1, 2, 3}
    OBVIOUS
  <2> QED
    BY <1>2, <1>3, <2>1 DEF Digits
<1>6. Shaped(mask)
  BY <1>2, <1>3, <1>5 DEF Shaped, HashSize
<1> QED
  BY <1>2, <1>4, <1>5, <1>6
(* A put where a leaf with another hash is: the new node's mask is what    *)
(* the two hashes share, at most three digits.                             *)
LEMMA PutSplitsLeafFacts ==
  ASSUME Sound, NEW key \in Key, NEW value \in Value, PutSplitsLeaf(key, value)
  PROVE  Sound' /\ Added(key, value)
<1>a. PICK hash : hash = HashOf[key]
  OBVIOUS
<1>b. PICK p : p = Descent(hash)
  OBVIOUS
<1>c. PICK link : link = LinkAt(p, hash)
  OBVIOUS
<1>d. PICK k : k = link - HALF_LONG + 1
  OBVIOUS
<1>e. PICK other : other = hashes[k].mask
  OBVIOUS
<1>f. PICK j : j = Differs(other, hash, 1)
  OBVIOUS
<1>g. PICK mask : mask = MaskOf(hash, j - 1)
  OBVIOUS
<1>h. PICK leaf : leaf = HashVariants(hash, key, value)
  OBVIOUS
<1>1. /\ IsWild(p) /\ link >= HALF_LONG /\ other # hash /\ Len(hashes) < MaxKeys
      /\ hashes' = Append(hashes, leaf)
      /\ LET node == TreeNode(mask, [NoLinks EXCEPT ![other[j]] = link,
                                                    ![hash[j]] = Len(hashes) + HALF_LONG])
         IN  nodes' = Linked(Append(nodes, node), p.n, hash[p.i], Len(nodes))
  BY <1>a, <1>b, <1>c, <1>d, <1>e, <1>f, <1>g, <1>h DEF PutSplitsLeaf
<1>2. /\ hash \in Hash /\ leaf \in Leaf /\ leaf.mask = hash
      /\ HALF_LONG \in Nat \ {0} /\ Len(hashes) \in Nat /\ Len(nodes) \in Nat
  BY <1>a, <1>h, Constants, NewLeafFacts, SizesFacts
<1>3. Arrived(p, hash) /\ link \in HALF_LONG..(HALF_LONG + Len(hashes) - 1)
  <2>1. Arrived(p, hash) /\ (link = 0 \/ link \in HALF_LONG..(HALF_LONG + Len(hashes) - 1))
    BY <1>1, <1>2, <1>b, <1>c, EndFacts
  <2> QED
    BY <1>1, <1>2, <2>1
<1>4. k \in 1..Len(hashes) /\ link = HALF_LONG + k - 1 /\ link # 0
  BY <1>2, <1>3, <1>d
<1>5. p \in Places /\ p.i = D(p.n) + 1 /\ Begins(p.n, hash)
  BY <1>1, <1>2, <1>3, WildFacts
<1>6. p.n \in 0..(Len(nodes) - 1) /\ p.i \in 1..HashSize
  BY <1>5 DEF Places
<1>7. PICK n : n = p.n + 1
  OBVIOUS
<1>8. PICK d : d = hash[p.i]
  OBVIOUS
<1>9. n \in 1..Len(nodes) /\ p.n = n - 1
  BY <1>2, <1>6, <1>7
<1>10. d \in Digit /\ \A i \in 1..HashSize : hash[i] \in Digit
  BY <1>2, <1>6, <1>8 DEF Hash
<1>11. nodes[n].links[d] = link
  BY <1>7, <1>8, <1>c DEF LinkAt
<1>12. nodes[n].mask \in Mask /\ Shaped(nodes[n].mask) /\ D(p.n) \in 0..3
       /\ Digits(nodes[n].mask) = D(p.n)
  BY <1>6, <1>7, NodeFacts DEF D
<1>13. Under(other, nodes[n].mask, d)
  <2>1. Under(PathOf(nodes, hashes, link), nodes[n].mask, d)
    BY <1>4, <1>6, <1>7, <1>10, <1>11, NodeFacts
  <2> QED
    BY <1>1, <1>d, <1>e, <2>1 DEF PathOf
<1>14. \A i \in 1..HashSize : i <= D(p.n) + 1 => other[i] = hash[i]
  <2>1. \A i \in 1..HashSize : i <= D(p.n) => other[i] = hash[i]
    BY <1>5, <1>7, <1>12, <1>13 DEF Under, Begins
  <2>2. other[D(p.n) + 1] = hash[D(p.n) + 1]
    BY <1>5, <1>8, <1>12, <1>13 DEF Under
  <2> QED
    BY <1>12, <2>1, <2>2
<1>15. other \in Hash /\ \E l \in Key : other = HashOf[l]
  <2>1. \E l \in Key : other = HashOf[l]
    BY <1>4, <1>e DEF Sound, Typed
  <2> QED
    BY <2>1, Constants
<1>16. PICK i \in 1..4 : other[i] # hash[i]
  <2>1. other \in [1..4 -> Digit] /\ hash \in [1..4 -> Digit]
    BY <1>2, <1>15 DEF Hash, HashSize
  <2> QED
    BY <1>1, <2>1
<1>17. /\ j \in 1..4 /\ other[j] # hash[j]
       /\ \A l \in 1..(j - 1) : other[l] = hash[l]
  <2>1. i \in 1..HashSize /\ 1 \in 1..HashSize
    BY DEF HashSize
  <2> QED
    BY <1>16, <1>f, <2>1, DiffersFacts DEF HashSize
<1>18. j - 1 \in 0..3 /\ D(p.n) + 1 <= j - 1
  <2>1. j <= i
    BY <1>16, <1>17
  <2>2. ~(j <= D(p.n) + 1)
    BY <1>14, <1>17 DEF HashSize
  <2> QED
    BY <1>12, <1>17, <2>1, <2>2
<1>19. /\ mask \in Mask /\ Shaped(mask) /\ Digits(mask) = j - 1
       /\ \A l \in 1..(j - 1) : mask[l] = hash[l]
  <2>1. \A l \in 1..(j - 1) : hash[l] \in Digit
    BY <1>10, <1>18 DEF HashSize
  <2> QED
    BY <1>18, <1>g, <2>1, MaskOfFacts
<1>20. Under(mask, nodes[n].mask, d)
  <2>1. \A l \in 1..HashSize : l <= D(p.n) => mask[l] = nodes[n].mask[l]
    BY <1>5, <1>7, <1>12, <1>18, <1>19 DEF Begins, HashSize
  <2>2. mask[D(p.n) + 1] = d
    BY <1>5, <1>8, <1>12, <1>18, <1>19
  <2> QED
    BY <1>12, <2>1, <2>2 DEF Under
<1>21. Under(other, mask, other[j]) /\ Under(hash, mask, hash[j])
  BY <1>17, <1>18, <1>19 DEF Under, HashSize
<1>22. PathOf(nodes, hashes, link) = other
  BY <1>1, <1>d, <1>e DEF PathOf
<1>23. other[j] \in Digit /\ hash[j] \in Digit
  BY <1>2, <1>15, <1>17 DEF Hash, HashSize
<1>24. Inserts(nodes, hashes, n, d, link, mask, other[j], hash[j], leaf, nodes', hashes')
  <2>1. Typed(nodes, hashes) /\ Tree(nodes, hashes)
    BY DEF Sound
  <2>2. LET node == TreeNode(mask, [NoLinks EXCEPT ![other[j]] = link,
                                                   ![hash[j]] = Len(hashes) + HALF_LONG])
        IN  nodes' = Linked(Append(nodes, node), n - 1, d, Len(nodes))
    BY <1>1, <1>8, <1>9
  <2>3. leaf \in Leaf /\ \E l \in Key : leaf.mask = HashOf[l]
    BY <1>2, <1>a
  <2>4. /\ Under(PathOf(nodes, hashes, link), mask, other[j]) /\ Under(leaf.mask, mask, hash[j])
        /\ other[j] # hash[j]
    BY <1>2, <1>17, <1>21, <1>22
  <2> QED
    BY <1>1, <1>4, <1>9, <1>10, <1>11, <1>19, <1>20, <1>23, <2>1, <2>2, <2>3, <2>4 DEF Inserts
<1>25. Sound'
  BY <1>24, NodeInserted DEF Sound
<1>26. ASSUME NEW l \in 1..Len(hashes), hashes[l].mask = hash PROVE FALSE
  <2>1. link = HALF_LONG + l - 1
    BY <1>2, <1>26, <1>b, <1>c, LeafFacts
  <2>2. l = k
    BY <1>2, <1>4, <2>1
  <2> QED
    BY <1>1, <1>26, <1>e, <2>2
<1> QED
  BY <1>1, <1>25, <1>26, <1>a, <1>h DEF Added

(* A put where a node has another digit than the hash, if the link it      *)
(* changes is the one to that node.                                        *)
LEMMA PutSplitsNodeFacts ==
  ASSUME Sound, NEW key \in Key, NEW value \in Value, PutSplitsNode(key, value),
         ~MissesNode(Descent(HashOf[key]), HashOf[key])
  PROVE  Sound' /\ Added(key, value)
<1>a. PICK hash : hash = HashOf[key]
  OBVIOUS
<1>b. PICK p : p = Descent(hash)
  OBVIOUS
<1>c. PICK other : other = nodes[p.n + 1].mask
  OBVIOUS
<1>d. PICK mask : mask = MaskOf(other, p.i - 1)
  OBVIOUS
<1>e. PICK leaf : leaf = HashVariants(hash, key, value)
  OBVIOUS
<1>f. PICK i : i = p.i
  OBVIOUS
<1>g. PICK m : m = p.prev
  OBVIOUS
<1>h. PICK n : n = p.n
  OBVIOUS
<1>k. PICK d : d = hash[i - 1]
  OBVIOUS
<1>1. /\ ~IsWild(p) /\ Len(hashes) < MaxKeys
      /\ hashes' = Append(hashes, leaf)
      /\ LET node == TreeNode(mask, [NoLinks EXCEPT ![other[i]] = n,
                                                    ![hash[i]] = Len(hashes) + HALF_LONG])
         IN  nodes' = Linked(Append(nodes, node), m, d, Len(nodes))
  BY <1>a, <1>b, <1>c, <1>d, <1>e, <1>f, <1>g, <1>h, <1>k DEF PutSplitsNode
<1>2. /\ hash \in Hash /\ leaf \in Leaf /\ leaf.mask = hash
      /\ HALF_LONG \in Nat \ {0} /\ Len(hashes) \in Nat /\ Len(nodes) \in Nat
      /\ Len(nodes) - 1 < HALF_LONG
  BY <1>a, <1>e, Constants, NewLeafFacts, SizesFacts
<1>3. /\ n \in 1..(Len(nodes) - 1) /\ m \in 0..(Len(nodes) - 1)
      /\ D(m) \in 0..3 /\ D(n) \in 0..3
      /\ i \in 1..4 /\ D(m) + 1 < i /\ i <= D(n)
      /\ Begins(m, hash)
      /\ nodes[m + 1].links[hash[D(m) + 1]] = n
      /\ other[i] # hash[i] /\ \A j \in 1..(i - 1) : other[j] = hash[j]
  BY <1>1, <1>2, <1>b, <1>c, <1>f, <1>g, <1>h, SplitFacts DEF HashSize
<1>4. /\ i \in 2..3 /\ i - 1 \in 1..2 /\ i - 1 \in 0..3 /\ D(m) + 1 \in 1..(i - 1)
      /\ i \in 1..4 /\ i - 1 \in 1..4 /\ D(m) + 1 \in 1..4
      /\ n \in 0..(Len(nodes) - 1) /\ ~(n >= HALF_LONG) /\ n # 0
  BY <1>2, <1>3
<1>5. \A j \in 1..4 : hash[j] \in Digit
  BY <1>2 DEF Hash, HashSize
<1>6. d \in Digit /\ hash[i] \in Digit /\ hash[D(m) + 1] \in Digit
  BY <1>4, <1>5, <1>k
<1>7. nodes[m + 1].links[d] = n
  BY <1>a, <1>b, <1>f, <1>g, <1>h, <1>k DEF MissesNode
<1>8. hash[D(m) + 1] = d
  <2>1. PICK k \in 1..Len(nodes), x \in Digit :
           \A l \in 1..Len(nodes), y \in Digit : nodes[l].links[y] = n => l = k /\ y = x
    BY <1>3 DEF Sound, Tree
  <2>2. m + 1 \in 1..Len(nodes)
    BY <1>2, <1>3
  <2> QED
    BY <1>3, <1>6, <1>7, <2>1, <2>2
<1>9. other \in Mask /\ Shaped(other) /\ Digits(other) = D(n)
  BY <1>4, <1>c, <1>h, NodeFacts DEF D
<1>10. \A j \in 1..4 : j <= D(n) => other[j] \in Digit
  BY <1>2, <1>9, MaskFacts DEF HashSize
<1>11. other[i] \in Digit /\ \A j \in 1..(i - 1) : other[j] \in Digit
  BY <1>3, <1>4, <1>10
<1>12. /\ mask \in Mask /\ Shaped(mask) /\ Digits(mask) = i - 1
       /\ \A j \in 1..(i - 1) : mask[j] = other[j]
  BY <1>4, <1>11, <1>d, <1>f, MaskOfFacts
<1>13. Under(mask, nodes[m + 1].mask, d)
  <2>1. \A j \in 1..4 : j <= D(m) => j \in 1..(i - 1)
    BY <1>3, <1>4
  <2>2. \A j \in 1..4 : j <= D(m) => mask[j] = nodes[m + 1].mask[j]
    BY <1>3, <1>12, <2>1 DEF Begins, HashSize
  <2>3. mask[D(m) + 1] = d
    BY <1>3, <1>4, <1>8, <1>12
  <2> QED
    BY <2>2, <2>3 DEF Under, D, HashSize
<1>14. Under(other, mask, other[i]) /\ Under(hash, mask, hash[i])
  <2>1. \A j \in 1..4 : j <= Digits(mask) => j \in 1..(i - 1)
    BY <1>4, <1>12
  <2>2. Digits(mask) + 1 = i
    BY <1>4, <1>12
  <2>3. \A j \in 1..4 : j <= Digits(mask) => other[j] = mask[j] /\ hash[j] = mask[j]
    BY <1>3, <1>12, <2>1
  <2> QED
    BY <2>2, <2>3 DEF Under, HashSize
<1>15. PathOf(nodes, hashes, n) = other
  BY <1>4, <1>c, <1>h DEF PathOf
<1>q. PICK q : q = m + 1
  OBVIOUS
<1>x. PICK x : x = other[i]
  OBVIOUS
<1>y. PICK y : y = hash[i]
  OBVIOUS
<1>16. Inserts(nodes, hashes, q, d, n, mask, x, y, leaf, nodes', hashes')
  <2>1. Typed(nodes, hashes) /\ Tree(nodes, hashes)
    BY DEF Sound
  <2>2. q \in 1..Len(nodes) /\ q - 1 = m
    BY <1>2, <1>3, <1>q
  <2>3. LET node == TreeNode(mask, [NoLinks EXCEPT ![x] = n, ![y] = Len(hashes) + HALF_LONG])
        IN  nodes' = Linked(Append(nodes, node), q - 1, d, Len(nodes))
    BY <1>1, <1>x, <1>y, <2>2
  <2>4. leaf \in Leaf /\ \E l \in Key : leaf.mask = HashOf[l]
    BY <1>2, <1>a
  <2>5. /\ Under(PathOf(nodes, hashes, n), mask, x) /\ Under(leaf.mask, mask, y)
        /\ x # y /\ x \in Digit /\ y \in Digit
    BY <1>2, <1>3, <1>6, <1>11, <1>14, <1>15, <1>x, <1>y
  <2>6. nodes[q].links[d] = n /\ Under(mask, nodes[q].mask, d)
    BY <1>7, <1>13, <1>q
  <2>7. d \in Digit /\ n # 0 /\ Len(hashes) < MaxKeys /\ hashes' = Append(hashes, leaf)
    BY <1>1, <1>4, <1>6
  <2>8. mask \in Mask /\ Shaped(mask)
    BY <1>12
  <2> QED
    BY <2>1, <2>2, <2>3, <2>4, <2>5, <2>6, <2>7, <2>8 DEF Inserts
<1>17. Sound'
  BY <1>16, NodeInserted DEF Sound
<1>18. ASSUME NEW l \in 1..Len(hashes), hashes[l].mask = hash PROVE FALSE
  BY <1>1, <1>2, <1>18, <1>b, LeafFacts
<1> QED
  BY <1>1, <1>17, <1>18, <1>a, <1>e DEF Added

(* A set of numbers that is not empty has a smallest one.                  *)
LEMMA FirstFacts ==
  ASSUME NEW S, S \subseteq Nat, S # {}
  PROVE  First(S) \in S
<1>1. PICK m \in S : \A n \in S : ~(<<n, m>> \in OpToRel(<, Nat))
  BY NatLessThanWellFounded, WFMin, Zenon
<1>2. \A n \in S : ~(n < m)
  BY <1>1 DEF OpToRel
<1>3. \A n \in S : m <= n
  BY <1>2
<1> QED
  BY <1>3 DEF First

(* The value a key has in a leaf.                                          *)
LEMMA ValueFacts ==
  ASSUME NEW leaf \in Leaf, NEW key
  PROVE  /\ PlacesOf(leaf, key) \subseteq 1..Len(leaf.hashes)
         /\ PlacesOf(leaf, key) # {} => First(PlacesOf(leaf, key)) \in PlacesOf(leaf, key)
         /\ ValueIn(leaf, key) \in Value \cup {Absent}
<1>1. PICK places : places = PlacesOf(leaf, key)
  OBVIOUS
<1>2. leaf.hashes \in Seq(Variant) /\ places \subseteq 1..Len(leaf.hashes)
  BY <1>1 DEF PlacesOf, Leaf
<1>3. places \subseteq Nat
  BY <1>2
<1>4. places # {} => First(places) \in places
  BY <1>3, FirstFacts
<1>5. ASSUME places # {} PROVE leaf.hashes[First(places)].value \in Value
  <2>1. First(places) \in 1..Len(leaf.hashes)
    BY <1>2, <1>4, <1>5
  <2>2. leaf.hashes[First(places)] \in Variant
    BY <1>2, <2>1
  <2> QED
    BY <2>2 DEF Variant
<1> QED
  BY <1>1, <1>2, <1>4, <1>5 DEF ValueIn

(* A leaf with another value for a key, and with one more key.             *)
Changed(leaf, key, value) ==
    [leaf EXCEPT !.hashes[First(PlacesOf(leaf, key))].value = value]

Extended(leaf, key, value) ==
    [leaf EXCEPT !.hashes = Append(@, [key |-> key, value |-> value])]

(* Such leaves are leaves of the same hash.                                *)
LEMMA ChangedTyped ==
  ASSUME NEW leaf \in Leaf, NEW key \in Key, NEW value \in Value, PlacesOf(leaf, key) # {}
  PROVE  /\ Changed(leaf, key, value) \in Leaf /\ Changed(leaf, key, value).mask = leaf.mask
         /\ Len(Changed(leaf, key, value).hashes) = Len(leaf.hashes)
         /\ \A l \in 1..Len(leaf.hashes) :
               /\ Changed(leaf, key, value).hashes[l].key = leaf.hashes[l].key
               /\ Changed(leaf, key, value).hashes[l].value =
                     IF l = First(PlacesOf(leaf, key)) THEN value ELSE leaf.hashes[l].value
<1>1. PICK f : f = First(PlacesOf(leaf, key))
  OBVIOUS
<1>2. PICK h : h = leaf.hashes
  OBVIOUS
<1>3. h \in Seq(Variant) /\ f \in 1..Len(h)
  BY <1>1, <1>2, ValueFacts DEF Leaf
<1>4. PICK entry : entry = [h[f] EXCEPT !.value = value]
  OBVIOUS
<1>5. h[f] \in Variant
  BY <1>3
<1>6. entry \in Variant /\ entry.key = h[f].key /\ entry.value = value
  BY <1>4, <1>5 DEF Variant
<1>7. PICK h2 : h2 = [h EXCEPT ![f] = entry]
  OBVIOUS
<1>8. /\ h2 \in Seq(Variant) /\ Len(h2) = Len(h)
      /\ \A l \in 1..Len(h) : h2[l] = IF l = f THEN entry ELSE h[l]
  BY <1>3, <1>6, <1>7
<1>9. Changed(leaf, key, value) = [leaf EXCEPT !.hashes = h2]
  BY <1>1, <1>2, <1>4, <1>7 DEF Changed
<1>10. [leaf EXCEPT !.hashes = h2] \in Leaf
  BY <1>8 DEF Leaf
<1>11. [leaf EXCEPT !.hashes = h2].mask = leaf.mask /\ [leaf EXCEPT !.hashes = h2].hashes = h2
  BY DEF Leaf
<1> QED
  BY <1>1, <1>2, <1>6, <1>8, <1>9, <1>10, <1>11

(* So it is with one more key.                                             *)
LEMMA ExtendedTyped ==
  ASSUME NEW leaf \in Leaf, NEW key \in Key, NEW value \in Value
  PROVE  /\ Extended(leaf, key, value) \in Leaf /\ Extended(leaf, key, value).mask = leaf.mask
         /\ Extended(leaf, key, value).hashes =
               Append(leaf.hashes, [key |-> key, value |-> value])
         /\ leaf.hashes \in Seq(Variant)
<1>1. leaf.hashes \in Seq(Variant)
  BY DEF Leaf
<1>2. PICK h : h = Append(leaf.hashes, [key |-> key, value |-> value])
  OBVIOUS
<1>3. h \in Seq(Variant)
  <2>1. [key |-> key, value |-> value] \in Variant
    BY DEF Variant
  <2> QED
    BY <1>1, <1>2, <2>1
<1>4. Extended(leaf, key, value) = [leaf EXCEPT !.hashes = h]
  BY <1>2 DEF Extended
<1>5. [leaf EXCEPT !.hashes = h] \in Leaf
  BY <1>3 DEF Leaf
<1>6. [leaf EXCEPT !.hashes = h].mask = leaf.mask /\ [leaf EXCEPT !.hashes = h].hashes = h
  BY DEF Leaf
<1> QED
  BY <1>1, <1>2, <1>4, <1>5, <1>6

(* The key has the value then, and other keys have the one they had.       *)
LEMMA ChangedFacts ==
  ASSUME NEW leaf \in Leaf, NEW key \in Key, NEW value \in Value, PlacesOf(leaf, key) # {}
  PROVE  /\ ValueIn(Changed(leaf, key, value), key) = value
         /\ \A other \in Key : other # key =>
               ValueIn(Changed(leaf, key, value), other) = ValueIn(leaf, other)
<1>1. PICK new : new = Changed(leaf, key, value)
  OBVIOUS
<1>2. PICK f : f = First(PlacesOf(leaf, key))
  OBVIOUS
<1>3. /\ new \in Leaf /\ Len(new.hashes) = Len(leaf.hashes)
      /\ \A l \in 1..Len(leaf.hashes) :
            /\ new.hashes[l].key = leaf.hashes[l].key
            /\ new.hashes[l].value = IF l = f THEN value ELSE leaf.hashes[l].value
  BY <1>1, <1>2, ChangedTyped
<1>4. \A other : PlacesOf(new, other) = PlacesOf(leaf, other)
  BY <1>3 DEF PlacesOf
<1>5. f \in PlacesOf(leaf, key) /\ f \in 1..Len(leaf.hashes)
  BY <1>2, ValueFacts
<1>6. ValueIn(new, key) = value
  BY <1>2, <1>3, <1>4, <1>5 DEF ValueIn
<1>7. ASSUME NEW other \in Key, other # key
      PROVE  ValueIn(new, other) = ValueIn(leaf, other)
  <2>1. CASE PlacesOf(leaf, other) = {}
    BY <1>4, <2>1 DEF ValueIn
  <2>2. CASE PlacesOf(leaf, other) # {}
    <3>1. PICK g : g = First(PlacesOf(leaf, other))
      OBVIOUS
    <3>2. g \in PlacesOf(leaf, other) /\ g \in 1..Len(leaf.hashes)
      BY <2>2, <3>1, ValueFacts
    <3>3. g # f
      BY <1>5, <1>7, <3>2 DEF PlacesOf
    <3>4. new.hashes[g].value = leaf.hashes[g].value
      BY <1>3, <3>2, <3>3
    <3> QED
      BY <1>4, <2>2, <3>1, <3>4 DEF ValueIn
  <2> QED
    BY <2>1, <2>2
<1> QED
  BY <1>1, <1>6, <1>7

(* So they have when the key was new, if it is read back as it is.         *)
LEMMA ExtendedFacts ==
  ASSUME NEW leaf \in Leaf, NEW key \in Key, NEW value \in Value, PlacesOf(leaf, key) = {},
         ~LosesKey(key)
  PROVE  /\ ValueIn(Extended(leaf, key, value), key) = value
         /\ \A other \in Key : other # key =>
               ValueIn(Extended(leaf, key, value), other) = ValueIn(leaf, other)
<1>1. PICK new : new = Extended(leaf, key, value)
  OBVIOUS
<1>2. PICK n : n = Len(leaf.hashes)
  OBVIOUS
<1>3. /\ n \in Nat /\ new \in Leaf /\ Len(new.hashes) = n + 1
      /\ new.hashes[n + 1].key = key /\ new.hashes[n + 1].value = value
      /\ \A l \in 1..n : new.hashes[l] = leaf.hashes[l]
  <2>1. /\ new.hashes = Append(leaf.hashes, [key |-> key, value |-> value])
        /\ leaf.hashes \in Seq(Variant) /\ new \in Leaf
    BY <1>1, ExtendedTyped
  <2> QED
    BY <1>2, <2>1
<1>4. ReadBack[key] = key
  BY DEF LosesKey
<1>5. \A l \in 1..(n + 1) : l \in 1..n \/ l = n + 1
  BY <1>3
<1>6. PlacesOf(new, key) = {n + 1}
  <2>1. \A l \in 1..n : ReadBack[new.hashes[l].key] # key
    BY <1>2, <1>3 DEF PlacesOf
  <2>2. n + 1 \in 1..(n + 1)
    BY <1>3
  <2> QED
    BY <1>3, <1>4, <1>5, <2>1, <2>2 DEF PlacesOf
<1>7. First({n + 1}) = n + 1
  BY <1>3 DEF First
<1>8. ValueIn(new, key) = value
  BY <1>3, <1>6, <1>7 DEF ValueIn
<1>9. ASSUME NEW other \in Key, other # key
      PROVE  ValueIn(new, other) = ValueIn(leaf, other)
  <2>1. \A l \in 1..n : l \in 1..(n + 1)
    BY <1>3
  <2>2. PlacesOf(new, other) = PlacesOf(leaf, other)
    BY <1>2, <1>3, <1>4, <1>5, <1>9, <2>1 DEF PlacesOf
  <2>3. PlacesOf(leaf, other) # {} => First(PlacesOf(leaf, other)) \in 1..n
    BY <1>2, ValueFacts
  <2> QED
    BY <1>3, <2>2, <2>3 DEF ValueIn
<1> QED
  BY <1>1, <1>8, <1>9

(* A put where the leaf of the key's hash is.                              *)
LEMMA PutSameHashCases ==
  ASSUME Sound, NEW key \in Key, NEW value \in Value, PutSameHash(key, value)
  PROVE  /\ nodes' = nodes
         /\ \E k \in 1..Len(hashes) :
               /\ hashes[k].mask = HashOf[key]
               /\ \/ /\ PlacesOf(hashes[k], key) # {}
                     /\ hashes' = [hashes EXCEPT ![k] = Changed(hashes[k], key, value)]
                  \/ /\ PlacesOf(hashes[k], key) = {}
                     /\ hashes' = [hashes EXCEPT ![k] = Extended(hashes[k], key, value)]
<1>a. PICK hash : hash = HashOf[key]
  OBVIOUS
<1>b. PICK p : p = Descent(hash)
  OBVIOUS
<1>c. PICK link : link = LinkAt(p, hash)
  OBVIOUS
<1>d. PICK k : k = link - HALF_LONG + 1
  OBVIOUS
<1>1. /\ IsWild(p) /\ link - HALF_LONG >= 0 /\ hashes[k].mask = hash /\ nodes' = nodes
      /\ IF PlacesOf(hashes[k], key) # {}
         THEN hashes' = [hashes EXCEPT ![k].hashes[First(PlacesOf(hashes[k], key))].value = value]
         ELSE hashes' = [hashes EXCEPT ![k].hashes = Append(@, [key |-> key, value |-> value])]
  BY <1>a, <1>b, <1>c, <1>d DEF PutSameHash
<1>2. hash \in Hash /\ HALF_LONG \in Nat \ {0} /\ Len(hashes) \in Nat
  BY <1>a, Constants, SizesFacts
<1>3. k \in 1..Len(hashes)
  <2>1. link = 0 \/ link \in HALF_LONG..(HALF_LONG + Len(hashes) - 1)
    BY <1>1, <1>2, <1>b, <1>c, EndFacts
  <2> QED
    BY <1>1, <1>2, <1>d, <2>1
<1>4. CASE PlacesOf(hashes[k], key) # {}
  <2>1. hashes' = [hashes EXCEPT ![k] = Changed(hashes[k], key, value)]
    BY <1>1, <1>4 DEF Changed
  <2> QED
    BY <1>1, <1>3, <1>4, <1>a, <2>1
<1>5. CASE PlacesOf(hashes[k], key) = {}
  <2>1. hashes' = [hashes EXCEPT ![k] = Extended(hashes[k], key, value)]
    BY <1>1, <1>5 DEF Extended
  <2> QED
    BY <1>1, <1>3, <1>5, <1>a, <2>1
<1> QED
  BY <1>4, <1>5

(* The invariant is kept,                                                  *)
LEMMA PutSameHashSound ==
  ASSUME Sound, NEW key \in Key, NEW value \in Value, PutSameHash(key, value)
  PROVE  Sound'
<1>1. hashes \in Seq(Leaf) /\ Typed(nodes, hashes) /\ Tree(nodes, hashes)
  BY DEF Sound, Typed
<1>2. nodes' = nodes
  BY PutSameHashCases
<1>3. PICK k \in 1..Len(hashes), leaf \in Leaf :
         leaf.mask = hashes[k].mask /\ hashes' = [hashes EXCEPT ![k] = leaf]
  <2>1. PICK l \in 1..Len(hashes) :
           \/ /\ PlacesOf(hashes[l], key) # {}
              /\ hashes' = [hashes EXCEPT ![l] = Changed(hashes[l], key, value)]
           \/ hashes' = [hashes EXCEPT ![l] = Extended(hashes[l], key, value)]
    BY PutSameHashCases
  <2>2. hashes[l] \in Leaf
    BY <1>1
  <2>3. /\ Extended(hashes[l], key, value) \in Leaf
        /\ Extended(hashes[l], key, value).mask = hashes[l].mask
    BY <2>2, ExtendedTyped
  <2>4. PlacesOf(hashes[l], key) # {} =>
           /\ Changed(hashes[l], key, value) \in Leaf
           /\ Changed(hashes[l], key, value).mask = hashes[l].mask
    BY <2>2, ChangedTyped
  <2> QED
    BY <2>1, <2>3, <2>4
<1>4. /\ hashes' \in Seq(Leaf) /\ Len(hashes') = Len(hashes)
      /\ \A l \in 1..Len(hashes) : hashes'[l].mask = hashes[l].mask
  BY <1>1, <1>3
<1>5. Typed(nodes, hashes') /\ Tree(nodes, hashes')
  BY <1>1, <1>4, LeafChanged
<1> QED
  BY <1>2, <1>5 DEF Sound

(* and the key has the value put.                                          *)
LEMMA PutSameHashFacts ==
  ASSUME Sound, NEW key \in Key, NEW value \in Value, PutSameHash(key, value), ~LosesKey(key)
  PROVE  Updated(key, value)
<1>1. hashes \in Seq(Leaf)
  BY DEF Sound, Typed
<1>2. PICK k \in 1..Len(hashes) :
         /\ hashes[k].mask = HashOf[key]
         /\ \/ /\ PlacesOf(hashes[k], key) # {}
               /\ hashes' = [hashes EXCEPT ![k] = Changed(hashes[k], key, value)]
            \/ /\ PlacesOf(hashes[k], key) = {}
               /\ hashes' = [hashes EXCEPT ![k] = Extended(hashes[k], key, value)]
  BY PutSameHashCases
<1>3. hashes[k] \in Leaf
  BY <1>1
<1>4. CASE PlacesOf(hashes[k], key) # {}
  <2>1. PICK leaf : leaf = Changed(hashes[k], key, value)
    OBVIOUS
  <2>2. /\ leaf \in Leaf /\ leaf.mask = HashOf[key] /\ ValueIn(leaf, key) = value
        /\ \A other \in Key : other # key => ValueIn(leaf, other) = ValueIn(hashes[k], other)
    <3>1. leaf \in Leaf /\ leaf.mask = HashOf[key]
      BY <1>2, <1>3, <1>4, <2>1, ChangedTyped
    <3> QED
      BY <1>3, <1>4, <2>1, <3>1, ChangedFacts
  <2> QED
    BY <1>2, <1>4, <2>1, <2>2 DEF Updated
<1>5. CASE PlacesOf(hashes[k], key) = {}
  <2>1. PICK leaf : leaf = Extended(hashes[k], key, value)
    OBVIOUS
  <2>2. /\ leaf \in Leaf /\ leaf.mask = HashOf[key] /\ ValueIn(leaf, key) = value
        /\ \A other \in Key : other # key => ValueIn(leaf, other) = ValueIn(hashes[k], other)
    <3>1. leaf \in Leaf /\ leaf.mask = HashOf[key]
      BY <1>2, <1>3, <2>1, ExtendedTyped
    <3> QED
      BY <1>3, <1>5, <2>1, <3>1, ExtendedFacts
  <2> QED
    BY <1>2, <1>5, <2>1, <2>2 DEF Updated
<1> QED
  BY <1>4, <1>5
-----------------------------------------------------------------------------
(* The invariant.                                                          *)

(* The tree starts with a root that has wildcards only.                    *)
LEMMA InitSound ==
  ASSUME Init
  PROVE  IInv /\ Sound
<1>1. PICK root : root = TreeNode([i \in 1..HashSize |-> Wildcard], NoLinks)
  OBVIOUS
<1>2. nodes = <<root>> /\ hashes = <<>> /\ last.value = Absent /\ rough = FALSE
  BY <1>1 DEF Init, Call
<1>3. /\ root.mask = [i \in 1..HashSize |-> Wildcard]
      /\ root.links = [d \in Digit |-> 0]
      /\ root = [mask |-> root.mask, links |-> root.links]
  BY <1>1 DEF TreeNode, NoLinks
<1>4. root \in Node
  <2>1. root.mask \in Mask
    BY <1>3 DEF Mask
  <2>2. root.links \in [Digit -> Nat]
    BY <1>3
  <2> QED
    BY <1>3, <2>1, <2>2 DEF Node
<1>5. /\ Len(nodes) = 1 /\ Len(hashes) = 0 /\ nodes[1] = root /\ \A n \in 1..Len(nodes) : n = 1
      /\ nodes \in Seq(Node) /\ hashes \in Seq(Leaf)
  BY <1>2, <1>4
<1>6. Digits(root.mask) = 0 /\ Shaped(root.mask)
  BY <1>3 DEF Digits, Shaped, HashSize
<1>7. Typed(nodes, hashes)
  BY <1>3, <1>5, Constants DEF Typed
<1>8. Tree(nodes, hashes)
  <2>1. 1..(Len(nodes) - 1) \cup HALF_LONG..(HALF_LONG + Len(hashes) - 1) = {}
    BY <1>5, Constants
  <2>2. \A n \in 1..Len(nodes) : Shaped(nodes[n].mask)
    BY <1>5, <1>6
  <2>3. \A n \in 1..Len(nodes), d \in Digit : nodes[n].links[d] = 0
    BY <1>3, <1>5
  <2>4. Digits(nodes[1].mask) = 0
    BY <1>5, <1>6
  <2> QED
    BY <2>1, <2>2, <2>3, <2>4 DEF Tree
<1> QED
  BY <1>2, <1>7, <1>8 DEF IInv, Sound

(* What a get finds is a value, or nothing.                                *)
LEMMA FoundTyped ==
  ASSUME Sound, NEW key \in Key
  PROVE  Found(key) \in Value \cup {Absent}
<1>1. \A k \in 1..Len(hashes) : hashes[k] \in Leaf
  BY DEF Sound, Typed
<1>2. CASE \E k \in 1..Len(hashes) : hashes[k].mask = HashOf[key]
  <2>1. PICK k \in 1..Len(hashes) : hashes[k].mask = HashOf[key]
    BY <1>2
  <2>2. Found(key) = ValueIn(hashes[k], key)
    BY <2>1, FoundFacts
  <2>3. ValueIn(hashes[k], key) \in Value \cup {Absent}
    BY <1>1, ValueFacts
  <2> QED
    BY <2>2, <2>3
<1>3. CASE \A k \in 1..Len(hashes) : hashes[k].mask # HashOf[key]
  BY <1>3, FoundFacts
<1> QED
  BY <1>2, <1>3

(* Whether a put is rough stays.                                           *)
LEMMA RoughStays ==
  ASSUME rough \in BOOLEAN, [Next]_vars
  PROVE  rough' \in BOOLEAN /\ (rough => rough')
<1>1. CASE UNCHANGED vars
  BY <1>1 DEF vars
<1>2. ASSUME NEW key \in Key, Get(key)
      PROVE  rough' \in BOOLEAN /\ (rough => rough')
  BY <1>2 DEF Get
<1>3. ASSUME NEW key \in Key, NEW value \in Value,
             \/ PutLeaf(key, value) \/ PutSameHash(key, value)
             \/ PutSplitsLeaf(key, value) \/ PutSplitsNode(key, value)
      PROVE  rough' \in BOOLEAN /\ (rough => rough')
  BY <1>3 DEF PutLeaf, PutSameHash, PutSplitsLeaf, PutSplitsNode, LosesKey, MissesNode
<1> QED
  BY <1>1, <1>2, <1>3 DEF Next

(* Every call that is not rough keeps the invariant.                       *)
LEMMA StepSound ==
  ASSUME Sound, last.value \in Value \cup {Absent}, [Next]_vars, ~rough'
  PROVE  Sound' /\ last'.value \in Value \cup {Absent}
<1>1. Sound
  OBVIOUS
<1>2. CASE UNCHANGED vars
  BY <1>2 DEF vars, Sound
<1>3. ASSUME NEW key \in Key, Get(key)
      PROVE  Sound' /\ last'.value \in Value \cup {Absent}
  <2>1. last'.value = Found(key) /\ nodes' = nodes /\ hashes' = hashes
    BY <1>3 DEF Get, Call
  <2> QED
    BY <1>1, <2>1, FoundTyped DEF Sound
<1>4. ASSUME NEW key \in Key, NEW value \in Value, PutLeaf(key, value)
      PROVE  Sound' /\ last'.value \in Value \cup {Absent}
  <2>1. last'.value = value
    BY <1>4 DEF PutLeaf, Call
  <2>2. Sound'
    BY <1>1, <1>4, PutLeafFacts
  <2> QED
    BY <2>1, <2>2
<1>5. ASSUME NEW key \in Key, NEW value \in Value, PutSameHash(key, value)
      PROVE  Sound' /\ last'.value \in Value \cup {Absent}
  <2>1. last'.value = value
    BY <1>5 DEF PutSameHash, Call
  <2>2. Sound'
    BY <1>1, <1>5, PutSameHashSound
  <2> QED
    BY <2>1, <2>2
<1>6. ASSUME NEW key \in Key, NEW value \in Value, PutSplitsLeaf(key, value)
      PROVE  Sound' /\ last'.value \in Value \cup {Absent}
  <2>1. last'.value = value
    BY <1>6 DEF PutSplitsLeaf, Call
  <2>2. Sound'
    BY <1>1, <1>6, PutSplitsLeafFacts
  <2> QED
    BY <2>1, <2>2
<1>7. ASSUME NEW key \in Key, NEW value \in Value, PutSplitsNode(key, value)
      PROVE  Sound' /\ last'.value \in Value \cup {Absent}
  <2>1. last'.value = value
    BY <1>7 DEF PutSplitsNode, Call
  <2>2. ~MissesNode(Descent(HashOf[key]), HashOf[key])
    BY <1>7 DEF PutSplitsNode
  <2>3. Sound'
    BY <1>1, <1>7, <2>2, PutSplitsNodeFacts
  <2> QED
    BY <2>1, <2>3
<1> QED
  BY <1>2, <1>3, <1>4, <1>5, <1>6, <1>7 DEF Next

(* So every step keeps it.                                                 *)
LEMMA StepIInv ==
  ASSUME IInv, [Next]_vars
  PROVE  IInv'
<1>1. rough' \in BOOLEAN /\ (rough => rough')
  BY RoughStays DEF IInv
<1>2. CASE rough'
  BY <1>1, <1>2 DEF IInv
<1>3. CASE ~rough'
  <2>1. Sound /\ last.value \in Value \cup {Absent}
    BY <1>1, <1>3 DEF IInv
  <2>2. Sound' /\ last'.value \in Value \cup {Absent}
    BY <1>3, <2>1, StepSound
  <2> QED
    BY <1>1, <2>2 DEF IInv
<1> QED
  BY <1>2, <1>3

(* The links and masks of a sound tree are valid.                          *)
LEMMA IInvTypeOK ==
  ASSUME IInv
  PROVE  TypeOK
<1> SUFFICES ASSUME ~rough
             PROVE  TypeOK
  BY DEF IInv, TypeOK
<1>1. rough \in BOOLEAN /\ Sound /\ last.value \in Value \cup {Absent}
  BY DEF IInv
<1>2. ASSUME NEW n \in 1..Len(nodes)
      PROVE  /\ nodes[n].mask \in [1..HashSize -> Digit \cup {Wildcard}]
             /\ nodes[n].links \in [Digit -> 0..(Len(nodes) - 1)
                                        \cup HALF_LONG..(HALF_LONG + Len(hashes) - 1)]
  <2>1. nodes[n] \in Node
    BY <1>1 DEF Sound, Typed
  <2>2. \A d \in Digit : nodes[n].links[d] \in
           0..(Len(nodes) - 1) \cup HALF_LONG..(HALF_LONG + Len(hashes) - 1)
    BY <1>1 DEF Sound, Typed
  <2>3. nodes[n].mask \in Mask /\ nodes[n].links \in [Digit -> Nat]
    BY <2>1 DEF Node
  <2> QED
    BY <2>2, <2>3 DEF Mask
<1>3. \A k \in 1..Len(hashes) : hashes[k].mask \in [1..HashSize -> Digit]
  <2>1. \A k \in 1..Len(hashes) : hashes[k] \in Leaf
    BY <1>1 DEF Sound, Typed
  <2> QED
    BY <2>1 DEF Leaf, Hash
<1> QED
  BY <1>1, <1>2, <1>3 DEF TypeOK

(* A path under a mask follows it.                                         *)
LEMMA UnderFollows ==
  ASSUME NEW path, NEW mask, NEW digit, Shaped(mask), Under(path, mask, digit)
  PROVE  Follows(path, mask, digit)
<1>1. MaskLength(mask) = Digits(mask) /\ Digits(mask) \in 0..3
  BY MaskLengthFacts DEF Digits
<1>2. /\ \A i \in 1..4 : i <= Digits(mask) => path[i] = mask[i]
      /\ path[Digits(mask) + 1] = digit
  BY DEF Under, HashSize
<1>3. \A i \in 1..(Digits(mask) + 1) :
         path[i] = IF i <= Digits(mask) THEN mask[i] ELSE digit
  BY <1>1, <1>2
<1> QED
  BY <1>1, <1>3 DEF Follows

(* and so is the tree.                                                     *)
LEMMA SoundWellFormed ==
  ASSUME Sound
  PROVE  WellFormedTree
<1>1. HALF_LONG \in Nat \ {0}
  BY Constants
<1>2. ASSUME NEW n \in 1..Len(nodes), NEW d \in Digit, nodes[n].links[d] # 0
      PROVE  Follows(PathOf(nodes, hashes, nodes[n].links[d]), nodes[n].mask, d)
  <2>1. /\ Shaped(nodes[n].mask)
        /\ Under(PathOf(nodes, hashes, nodes[n].links[d]), nodes[n].mask, d)
    BY <1>2 DEF Sound, Tree
  <2> QED
    BY <2>1, UnderFollows
<1>3. ASSUME NEW n \in 1..Len(nodes), NEW d \in Digit
      PROVE  LET link == nodes[n].links[d]
             IN  IF link >= HALF_LONG
                 THEN Follows(hashes[link - HALF_LONG + 1].mask, nodes[n].mask, d)
                 ELSE link # 0 => Follows(nodes[link + 1].mask, nodes[n].mask, d)
  <2>1. CASE nodes[n].links[d] >= HALF_LONG
    <3>1. nodes[n].links[d] # 0
      BY <1>1, <2>1
    <3>2. Follows(PathOf(nodes, hashes, nodes[n].links[d]), nodes[n].mask, d)
      BY <1>2, <3>1
    <3> QED
      BY <2>1, <3>2 DEF PathOf
  <2>2. CASE ~(nodes[n].links[d] >= HALF_LONG)
    <3>1. nodes[n].links[d] # 0 =>
             Follows(PathOf(nodes, hashes, nodes[n].links[d]), nodes[n].mask, d)
      BY <1>2
    <3> QED
      BY <2>2, <3>1 DEF PathOf
  <2> QED
    BY <2>1, <2>2
<1>4. ASSUME NEW link \in 1..(Len(nodes) - 1)
                        \cup HALF_LONG..(HALF_LONG + Len(hashes) - 1)
      PROVE  \E at \in LinksTo(link) : LinksTo(link) = {at}
  <2>1. PICK n \in 1..Len(nodes), d \in Digit :
           /\ nodes[n].links[d] = link
           /\ \A m \in 1..Len(nodes), e \in Digit :
                 nodes[m].links[e] = link => m = n /\ e = d
    BY DEF Sound, Tree
  <2>2. <<n, d>> \in LinksTo(link)
    BY <2>1 DEF LinksTo
  <2>3. ASSUME NEW at \in LinksTo(link)
        PROVE  at = <<n, d>>
    <3>1. PICK m \in 1..Len(nodes), e \in Digit : at = <<m, e>> /\ nodes[m].links[e] = link
      BY <2>3 DEF LinksTo
    <3> QED
      BY <2>1, <3>1
  <2> QED
    BY <2>2, <2>3
<1> QED
  BY <1>3, <1>4 DEF WellFormedTree

-----------------------------------------------------------------------------
(* The theorems.                                                           *)

(* In every reachable state until a put is rough, the links are those of   *)
(* nodes and leaves there are, and what a call returned is a value or      *)
(* Long.MAX_VALUE.                                                         *)
THEOREM TypeCorrect == Spec => []TypeOK
<1>1. Init => IInv
  BY InitSound
<1>2. IInv /\ [Next]_vars => IInv'
  BY StepIInv
<1>3. IInv => TypeOK
  BY IInvTypeOK
<1> QED
  BY <1>1, <1>2, <1>3, PTL DEF Spec

(* In every reachable state until a put is rough, each node and leaf lies  *)
(* under the digits of the one node, and the one digit of it, that links   *)
(* to it: no put leaves a subtree without a link or links it twice.        *)
THEOREM TreeWellFormed == Spec => []WellFormedTree
<1>1. Init => IInv
  BY InitSound
<1>2. IInv /\ [Next]_vars => IInv'
  BY StepIInv
<1>3. IInv => WellFormedTree
  <2>1. ASSUME IInv, ~rough PROVE WellFormedTree
    BY <2>1, SoundWellFormed DEF IInv
  <2>2. ASSUME IInv, rough PROVE WellFormedTree
    BY <2>2 DEF WellFormedTree
  <2> QED
    BY <2>1, <2>2
<1> QED
  BY <1>1, <1>2, <1>3, PTL DEF Spec

-----------------------------------------------------------------------------
(* The refinement.                                                         *)

(* What FoundFacts says, as a property of a state.                         *)
FoundInLeaf ==
    \A key \in Key :
       /\ \A k \in 1..Len(hashes) : hashes[k].mask = HashOf[key] =>
             Found(key) = ValueIn(hashes[k], key)
       /\ (\A k \in 1..Len(hashes) : hashes[k].mask # HashOf[key]) => Found(key) = Absent

(* It holds of every sound tree,                                           *)
LEMMA FoundAlways == Sound => FoundInLeaf
<1> SUFFICES ASSUME Sound
             PROVE  FoundInLeaf
  OBVIOUS
<1> QED
  BY FoundFacts DEF FoundInLeaf

(* that of the next state too.                                             *)
LEMMA FoundNext == Sound' => FoundInLeaf'
BY FoundAlways, PTL

(* A new leaf changes what is found for its key only.                      *)
LEMMA AddedFacts ==
  ASSUME Sound, FoundInLeaf, FoundInLeaf',
         NEW key \in Key, NEW value \in Value, Added(key, value), ~LosesKey(key)
  PROVE  /\ Found(key)' = value
         /\ \A other \in Key : other # key => Found(other)' = Found(other)
<1>1. PICK leaf : leaf = HashVariants(HashOf[key], key, value)
  OBVIOUS
<1>2. PICK n : n = Len(hashes)
  OBVIOUS
<1>3. /\ n \in Nat /\ Len(hashes') = n + 1 /\ hashes'[n + 1] = leaf
      /\ \A k \in 1..n : hashes'[k] = hashes[k] /\ hashes[k].mask # HashOf[key]
      /\ n + 1 \in 1..(n + 1) /\ \A k \in 1..n : k \in 1..(n + 1)
  <2>1. hashes \in Seq(Leaf) /\ hashes' = Append(hashes, leaf)
    BY <1>1 DEF Sound, Typed, Added
  <2>2. \A k \in 1..n : hashes[k].mask # HashOf[key]
    BY <1>2 DEF Added
  <2> QED
    BY <1>2, <2>1, <2>2
<1>4. leaf.mask = HashOf[key] /\ leaf.hashes = <<[key |-> key, value |-> value]>>
  BY <1>1 DEF HashVariants
<1>5. /\ PlacesOf(leaf, key) = {1}
      /\ \A other \in Key : other # key => PlacesOf(leaf, other) = {}
  <2>1. Len(leaf.hashes) = 1 /\ leaf.hashes[1].key = key /\ 1..1 = {1}
    BY <1>4
  <2> QED
    BY <2>1 DEF PlacesOf, LosesKey
<1>6. /\ ValueIn(leaf, key) = value
      /\ \A other \in Key : other # key => ValueIn(leaf, other) = Absent
  <2>1. First({1}) = 1
    BY DEF First
  <2> QED
    BY <1>4, <1>5, <2>1 DEF ValueIn
<1>7. Found(key)' = value
  BY <1>3, <1>4, <1>6 DEF FoundInLeaf
<1>8. ASSUME NEW other \in Key, other # key
      PROVE  Found(other)' = Found(other)
  <2>1. CASE HashOf[other] = HashOf[key]
    <3>1. Found(other)' = ValueIn(leaf, other)
      BY <1>3, <1>4, <2>1 DEF FoundInLeaf
    <3>2. Found(other) = Absent
      BY <1>2, <1>3, <2>1 DEF FoundInLeaf
    <3> QED
      BY <1>6, <1>8, <3>1, <3>2
  <2>2. CASE \E k \in 1..n : hashes[k].mask = HashOf[other]
    <3>1. PICK k \in 1..n : hashes[k].mask = HashOf[other]
      BY <2>2
    <3>2. Found(other) = ValueIn(hashes[k], other)
      BY <1>2, <3>1 DEF FoundInLeaf
    <3>3. Found(other)' = ValueIn(hashes'[k], other)
      BY <1>3, <3>1 DEF FoundInLeaf
    <3> QED
      BY <1>3, <3>2, <3>3
  <2>3. CASE /\ HashOf[other] # HashOf[key]
             /\ \A k \in 1..n : hashes[k].mask # HashOf[other]
    <3>1. \A k \in 1..(n + 1) : hashes'[k].mask # HashOf[other]
      <4>1. \A k \in 1..(n + 1) : k \in 1..n \/ k = n + 1
        BY <1>3
      <4> QED
        BY <1>3, <1>4, <2>3, <4>1
    <3>2. Found(other)' = Absent
      BY <1>3, <3>1 DEF FoundInLeaf
    <3>3. Found(other) = Absent
      BY <1>2, <2>3 DEF FoundInLeaf
    <3> QED
      BY <3>2, <3>3
  <2> QED
    BY <2>1, <2>2, <2>3
<1> QED
  BY <1>7, <1>8

(* So does another leaf in place of the one of its hash.                   *)
LEMMA UpdatedFacts ==
  ASSUME Sound, FoundInLeaf, FoundInLeaf',
         NEW key \in Key, NEW value \in Value, Updated(key, value)
  PROVE  /\ Found(key)' = value
         /\ \A other \in Key : other # key => Found(other)' = Found(other)
<1>1. PICK k \in 1..Len(hashes), leaf \in Leaf :
         /\ hashes[k].mask = HashOf[key] /\ leaf.mask = HashOf[key]
         /\ hashes' = [hashes EXCEPT ![k] = leaf]
         /\ ValueIn(leaf, key) = value
         /\ \A other \in Key : other # key => ValueIn(leaf, other) = ValueIn(hashes[k], other)
  BY DEF Updated
<1>2. /\ Len(hashes') = Len(hashes) /\ hashes'[k] = leaf
      /\ \A l \in 1..Len(hashes) : l # k => hashes'[l] = hashes[l]
      /\ \A l \in 1..Len(hashes) : hashes'[l].mask = hashes[l].mask
  <2>1. hashes \in Seq(Leaf)
    BY DEF Sound, Typed
  <2> QED
    BY <1>1, <2>1
<1>3. Found(key)' = value
  BY <1>1, <1>2 DEF FoundInLeaf
<1>4. ASSUME NEW other \in Key, other # key
      PROVE  Found(other)' = Found(other)
  <2>1. CASE HashOf[other] = HashOf[key]
    <3>1. Found(other) = ValueIn(hashes[k], other)
      BY <1>1, <2>1 DEF FoundInLeaf
    <3>2. Found(other)' = ValueIn(leaf, other)
      BY <1>1, <1>2, <2>1 DEF FoundInLeaf
    <3> QED
      BY <1>1, <1>4, <3>1, <3>2
  <2>2. CASE HashOf[other] # HashOf[key] /\ \E l \in 1..Len(hashes) : hashes[l].mask = HashOf[other]
    <3>1. PICK l \in 1..Len(hashes) : hashes[l].mask = HashOf[other]
      BY <2>2
    <3>2. l # k
      BY <1>1, <2>2, <3>1
    <3>3. Found(other) = ValueIn(hashes[l], other)
      BY <3>1 DEF FoundInLeaf
    <3>4. Found(other)' = ValueIn(hashes'[l], other)
      BY <1>2, <3>1 DEF FoundInLeaf
    <3> QED
      BY <1>2, <3>2, <3>3, <3>4
  <2>3. CASE \A l \in 1..Len(hashes) : hashes[l].mask # HashOf[other]
    <3>1. Found(other)' = Absent
      BY <1>2, <2>3 DEF FoundInLeaf
    <3>2. Found(other) = Absent
      BY <2>3 DEF FoundInLeaf
    <3> QED
      BY <3>1, <3>2
  <2> QED
    BY <2>1, <2>2, <2>3
<1> QED
  BY <1>3, <1>4

(* A put of the tree is one of the map.                                    *)
LEMMA PutMapped ==
  ASSUME NEW key \in Key, NEW value \in Value, last' = Call("put", key, value),
         rough' = rough, Found(key)' = value,
         \A other \in Key : other # key => Found(other)' = Found(other)
  PROVE  Map!Put(key, value)
<1>1. PICK old : old = [k \in Key |-> Found(k)]
  OBVIOUS
<1>2. PICK new : new = [k \in Key |-> Found(k)']
  OBVIOUS
<1>3. \A k \in Key : new[k] = [old EXCEPT ![key] = value][k]
  BY <1>1, <1>2
<1>4. new = [old EXCEPT ![key] = value]
  BY <1>1, <1>2, <1>3
<1> QED
  BY <1>1, <1>2, <1>4 DEF Map!Put, Map!Call, Call, Mapped

(* Every call that is not rough is one of the map, with what the map       *)
(* returns.                                                                *)
LEMMA SmoothMapped ==
  ASSUME Sound, FoundInLeaf, FoundInLeaf', [Next]_vars, rough = FALSE, rough' = FALSE
  PROVE  [Map!Next]_(Map!mapVars)
<1>1. ASSUME hashes' = hashes
      PROVE  [k \in Key |-> Found(k)'] = [k \in Key |-> Found(k)]
  <2>1. ASSUME NEW k \in Key
        PROVE  Found(k)' = Found(k)
    <3>1. CASE \E l \in 1..Len(hashes) : hashes[l].mask = HashOf[k]
      BY <1>1, <3>1 DEF FoundInLeaf
    <3>2. CASE \A l \in 1..Len(hashes) : hashes[l].mask # HashOf[k]
      BY <1>1, <3>2 DEF FoundInLeaf
    <3> QED
      BY <3>1, <3>2
  <2> QED
    BY <2>1
<1>2. CASE UNCHANGED vars
  <2>1. hashes' = hashes /\ last' = last
    BY <1>2 DEF vars
  <2> QED
    BY <1>1, <2>1 DEF Map!mapVars, Mapped
<1>3. ASSUME NEW key \in Key, Get(key)
      PROVE  Map!Next
  <2>1. hashes' = hashes /\ last' = Call("get", key, Found(key))
    BY <1>3 DEF Get
  <2>2. Map!Get(key)
    BY <1>1, <2>1 DEF Map!Get, Map!Call, Call, Mapped
  <2> QED
    BY <2>2 DEF Map!Next
<1>4. ASSUME NEW key \in Key, NEW value \in Value, Added(key, value) \/ Updated(key, value),
             last' = Call("put", key, value), ~LosesKey(key)
      PROVE  Map!Next
  <2>1. Found(key)' = value /\ \A other \in Key : other # key => Found(other)' = Found(other)
    <3>1. CASE Added(key, value)
      BY <1>4, <3>1, AddedFacts
    <3>2. CASE Updated(key, value)
      BY <3>2, UpdatedFacts
    <3> QED
      BY <1>4, <3>1, <3>2
  <2>2. Map!Put(key, value)
    BY <1>4, <2>1, PutMapped
  <2> QED
    BY <2>2 DEF Map!Next
<1>5. ASSUME NEW key \in Key, NEW value \in Value, PutLeaf(key, value)
      PROVE  Map!Next
  <2>1. last' = Call("put", key, value) /\ ~LosesKey(key)
    BY <1>5 DEF PutLeaf
  <2> QED
    BY <1>4, <1>5, <2>1, PutLeafFacts
<1>6. ASSUME NEW key \in Key, NEW value \in Value, PutSameHash(key, value)
      PROVE  Map!Next
  <2>1. last' = Call("put", key, value) /\ ~LosesKey(key)
    BY <1>6 DEF PutSameHash
  <2> QED
    BY <1>4, <1>6, <2>1, PutSameHashFacts
<1>7. ASSUME NEW key \in Key, NEW value \in Value, PutSplitsLeaf(key, value)
      PROVE  Map!Next
  <2>1. last' = Call("put", key, value) /\ ~LosesKey(key)
    BY <1>7 DEF PutSplitsLeaf
  <2> QED
    BY <1>4, <1>7, <2>1, PutSplitsLeafFacts
<1>8. ASSUME NEW key \in Key, NEW value \in Value, PutSplitsNode(key, value)
      PROVE  Map!Next
  <2>1. last' = Call("put", key, value) /\ ~LosesKey(key)
    BY <1>8 DEF PutSplitsNode
  <2>2. ~MissesNode(Descent(HashOf[key]), HashOf[key])
    BY <1>8 DEF PutSplitsNode
  <2> QED
    BY <1>4, <1>8, <2>1, <2>2, PutSplitsNodeFacts
<1> QED
  BY <1>2, <1>3, <1>5, <1>6, <1>7, <1>8 DEF Next

(* A rough one ends what the map promises.                                 *)
LEMMA StepMapped ==
  ASSUME IInv, IInv', [Next]_vars
  PROVE  [Map!Next]_(Map!mapVars)
<1>1. rough \in BOOLEAN /\ rough' \in BOOLEAN /\ (rough => rough')
  BY RoughStays DEF IInv
<1>2. CASE rough'
  BY <1>1, <1>2 DEF Map!Next, Map!End
<1>3. CASE ~rough'
  <2>1. Sound /\ Sound' /\ rough = FALSE /\ rough' = FALSE
    BY <1>1, <1>3 DEF IInv
  <2>2. FoundInLeaf
    BY <2>1, FoundAlways
  <2>3. FoundInLeaf'
    BY <2>1, FoundNext
  <2> QED
    BY <2>1, <2>2, <2>3, SmoothMapped
<1> QED
  BY <1>2, <1>3

(* The empty tree is the empty map.                                        *)
LEMMA InitMapped ==
  ASSUME Init
  PROVE  Map!Init
<1>1. Sound
  BY InitSound
<1>2. FoundInLeaf
  BY <1>1, FoundFacts DEF FoundInLeaf
<1>3. \A k \in 1..Len(hashes) : FALSE
  BY DEF Init
<1>4. \A key \in Key : Found(key) = Absent
  BY <1>2, <1>3 DEF FoundInLeaf
<1> QED
  BY <1>4 DEF Map!Init, Init, Map!Call, Call, Mapped

(* The tree implements a map until a put loses its key or misses the node  *)
(* it was to replace: whatever was put before, in whatever order, and      *)
(* whichever hashes the keys have, a get returns what was last put.        *)
THEOREM ImplementsMap == Spec => MapUntilRough
<1>1. Init => IInv
  BY InitSound
<1>2. IInv /\ [Next]_vars => IInv'
  BY StepIInv
<1>3. Init => Map!Init
  BY InitMapped
<1>4. IInv /\ IInv' /\ [Next]_vars => [Map!Next]_(Map!mapVars)
  BY StepMapped
<1> QED
  BY <1>1, <1>2, <1>3, <1>4, PTL DEF Spec, MapUntilRough, Map!Spec
=============================================================================
