---------------------------- MODULE BranchProofs ----------------------------
(***************************************************************************)
(* Theorems about Branch.  The first part is about trees alone: their      *)
(* shape, and what getNode, replace and a value that is put change of it.  *)
(* The second has the invariant Shape and one lemma per action, the third  *)
(* the timers, and the theorems come where their invariant is shown.  The  *)
(* last part is about Branch as long as nothing rough happens, that is,    *)
(* every merge takes one file to master and meets no upload of its session:*)
(* every file of master is found and getPath leads back to it, a merge     *)
(* changes no other file of master, and what was uploaded arrives there.   *)
(* Its invariants are Smooth and, above it, Arriving.                      *)
(***************************************************************************)
EXTENDS Branch, FiniteSetTheorems, SequenceTheorems, WellFoundedInduction, TLAPS

-----------------------------------------------------------------------------
(* The shape of a tree t: below the directories of storage, nodes 0 and 1, *)
(* are the roots of master and of the branches, below those directories,   *)
(* and below these files.                                                  *)
Tops(t)   == {n \in DOMAIN t : n # 1 /\ t[n].parent \in {0, 1}}
Dirs(t)   == {n \in DOMAIN t : t[n].parent \in Tops(t)}
Leaves(t) == {n \in DOMAIN t : t[n].parent \in Dirs(t)}
Nodes(t)  == Tops(t) \union Dirs(t) \union Leaves(t)

(* The path of a node, and the root it is below.                           *)
Key(t, n) ==
    IF n \in Tops(t) THEN <<>>
    ELSE IF n \in Dirs(t) THEN <<t[n].title>> ELSE <<t[t[n].parent].title, t[n].title>>

Top(t, n) ==
    IF n \in Tops(t) THEN n
    ELSE IF n \in Dirs(t) THEN t[n].parent ELSE t[t[n].parent].parent

MasterOf(t) == t[0].locals[2]

IsNode(t, n) ==
    /\ t[n] = [title |-> t[n].title, parent |-> t[n].parent,
               locals |-> t[n].locals, value |-> t[n].value]
    /\ t[n].locals \in Seq(DOMAIN t)

Numbered(t) ==
    /\ NewNode(t) \in Nat /\ DOMAIN t = 0..(NewNode(t) - 1)
    /\ \A n \in DOMAIN t : IsNode(t, n)

Rooted(t) ==
    /\ 0 \in DOMAIN t /\ 1 \in DOMAIN t /\ t[0].parent = Null
    /\ t[1].parent = 0 /\ t[1].title # "master"
    /\ Len(t[0].locals) = 2 /\ t[0].locals[1] = 1
    /\ MasterOf(t) \in Tops(t) /\ t[MasterOf(t)].parent = 0 /\ t[MasterOf(t)].title = "master"
    /\ Locals(t, 1) \subseteq Tops(t)

(* A local may have another parent by now, but its level and the title of  *)
(* its parent are those of the node that lists it.                         *)
Levels(t) ==
    /\ DOMAIN t = {0, 1} \union Nodes(t)
    /\ \A n \in Tops(t) : Locals(t, n) \subseteq Dirs(t)
    /\ \A n \in Dirs(t) : /\ Locals(t, n) \subseteq Leaves(t)
                          /\ \A m \in Locals(t, n) : t[t[m].parent].title = t[n].title
    /\ \A n \in Leaves(t) : t[n].locals = <<>>

ValuesPlaced(t) == \A n \in Leaves(t) : t[n].value # Null => t[n].value.path = Key(t, n)

IsTree(t) == Numbered(t) /\ Rooted(t) /\ Levels(t) /\ ValuesPlaced(t)

-----------------------------------------------------------------------------
(* A set of numbers that is not empty has a smallest one.                  *)
LEMMA HasSmallest ==
  ASSUME NEW S, S \subseteq Nat, S # {}
  PROVE  \E m \in S : \A n \in S : m <= n
<1>1. PICK m \in S : \A n \in S : ~(<<n, m>> \in OpToRel(<, Nat))
  BY NatLessThanWellFounded, WFMin, Zenon
<1>2. \A n \in S : ~(n < m)
  BY <1>1 DEF OpToRel
<1> QED
  BY <1>2

(* Local finds a local of that title, if there is one.                     *)
LEMMA LocalFacts ==
  ASSUME NEW t, NEW n, NEW title, t[n].locals \in Seq(Nat)
  PROVE  /\ Local(t, n, title) # Null =>
                Local(t, n, title) \in Locals(t, n) /\ t[Local(t, n, title)].title = title
         /\ \A m \in Locals(t, n) : t[m].title = title =>
                Local(t, n, title) \in Locals(t, n) /\ Local(t, n, title) # Null
<1> DEFINE locals == t[n].locals
           named  == {i \in DOMAIN locals : t[locals[i]].title = title}
           slot   == CHOOSE i \in named : \A j \in named : i <= j
<1>1. Local(t, n, title) = IF named = {} THEN Null ELSE locals[slot]
  BY DEF Local
<1>2. ASSUME named # {}
      PROVE  slot \in named
  <2>1. named \subseteq Nat
    OBVIOUS
  <2>2. \E m \in named : \A j \in named : m <= j
    BY <1>2, <2>1, HasSmallest
  <2> QED
    BY <2>2
<1>3. \A i \in DOMAIN locals : locals[i] \in Nat /\ locals[i] # Null
  BY BranchAssumption DEF BranchAssumption
<1> HIDE DEF slot
<1> QED
  BY <1>1, <1>2, <1>3 DEF Locals

(* One step of getNode.                                                    *)
Descend(t, n, title) ==
    IF Local(t, n, title) # Null THEN [tree |-> t, node |-> Local(t, n, title)]
    ELSE [tree |-> AddLocal(t, n, title, Null), node |-> NewNode(t)]

(* getNode, getNodeIfExist on paths of the lengths there are.              *)
LEMMA getNodeSteps ==
  ASSUME NEW t, NEW r
  PROVE  /\ getNode(t, r, <<>>) = [tree |-> t, node |-> r]
         /\ \A a : getNode(t, r, <<a>>) = Descend(t, r, a)
         /\ \A a, b : getNode(t, r, <<a, b>>) =
                          Descend(Descend(t, r, a).tree, Descend(t, r, a).node, b)
<1> DEFINE base == [tree |-> t, node |-> r]
           Step(at, title) ==
              LET local == Local(at.tree, at.node, title)
              IN  IF local # Null THEN [at EXCEPT !.node = local]
                  ELSE [tree |-> AddLocal(at.tree, at.node, title, Null),
                        node |-> NewNode(at.tree)]
           F(f, path) == [i \in 0..Len(path) |-> IF i = 0 THEN base ELSE Step(f[i - 1], path[i])]
           G(path) == [i \in 0..Len(path) |->
                         IF i = 0 THEN base ELSE IF i = 1 THEN Step(base, path[1])
                         ELSE Step(Step(base, path[1]), path[2])]
           Found(path) == CHOOSE f : f = F(f, path)
<1>1. \A path : getNode(t, r, path) = Found(path)[Len(path)]
  BY DEF getNode
<1>2. ASSUME NEW at, NEW title, at = [tree |-> at.tree, node |-> at.node]
      PROVE  Step(at, title) = Descend(at.tree, at.node, title)
  <2>1. PICK local : local = Local(at.tree, at.node, title)
    OBVIOUS
  <2>2. [at EXCEPT !.node = local] = [tree |-> at.tree, node |-> local]
    BY <1>2
  <2> QED
    BY <2>1, <2>2 DEF Descend
<1>3. \A title : Step(base, title) = Descend(t, r, title)
  <2>1. base = [tree |-> base.tree, node |-> base.node] /\ base.tree = t /\ base.node = r
    OBVIOUS
  <2> QED
    BY <1>2, <2>1
<1> HIDE DEF Step, base
<1>4. ASSUME NEW title, NEW other
      PROVE  Step(Step(base, title), other) =
                Descend(Descend(t, r, title).tree, Descend(t, r, title).node, other)
  <2>1. PICK d : d = Descend(t, r, title)
    OBVIOUS
  <2>2. d = [tree |-> d.tree, node |-> d.node]
    BY <2>1 DEF Descend
  <2> QED
    BY <1>2, <1>3, <2>1, <2>2
<1>5. ASSUME NEW path, Len(path) \in {0, 1, 2}
      PROVE  Found(path) = F(Found(path), path)
  <2>1. G(path) = F(G(path), path)
    BY <1>5
  <2> HIDE DEF F
  <2> QED
    BY <2>1
<1>6. Found(<<>>)[0] = base
  <2>1. Len(<<>>) = 0
    OBVIOUS
  <2>2. Found(<<>>) = F(Found(<<>>), <<>>)
    BY <1>5, <2>1
  <2> HIDE DEF Found
  <2> QED
    BY <2>1, <2>2
<1>7. ASSUME NEW a
      PROVE  Found(<<a>>)[1] = Step(base, a)
  <2>1. Len(<<a>>) = 1 /\ <<a>>[1] = a
    OBVIOUS
  <2>2. Found(<<a>>) = F(Found(<<a>>), <<a>>)
    BY <1>5, <2>1
  <2> HIDE DEF Found
  <2>3. Found(<<a>>)[0] = base
    BY <2>1, <2>2
  <2> QED
    BY <2>1, <2>2, <2>3
<1>8. ASSUME NEW a, NEW b
      PROVE  Found(<<a, b>>)[2] = Step(Step(base, a), b)
  <2>1. Len(<<a, b>>) = 2 /\ <<a, b>>[1] = a /\ <<a, b>>[2] = b
    OBVIOUS
  <2>2. Found(<<a, b>>) = F(Found(<<a, b>>), <<a, b>>)
    BY <1>5, <2>1
  <2> HIDE DEF Found
  <2>3. Found(<<a, b>>)[0] = base
    BY <2>1, <2>2
  <2>4. Found(<<a, b>>)[1] = Step(base, a)
    BY <2>1, <2>2, <2>3
  <2> QED
    BY <2>1, <2>2, <2>4
<1>9. Len(<<>>) = 0 /\ (\A a : Len(<<a>>) = 1) /\ (\A a, b : Len(<<a, b>>) = 2)
  OBVIOUS
<1> HIDE DEF Found
<1>10. getNode(t, r, <<>>) = [tree |-> t, node |-> r]
  BY <1>1, <1>6, <1>9 DEF base
<1>11. ASSUME NEW a
       PROVE  getNode(t, r, <<a>>) = Descend(t, r, a)
  BY <1>1, <1>3, <1>7, <1>9
<1>12. ASSUME NEW a, NEW b
       PROVE  getNode(t, r, <<a, b>>) =
                 Descend(Descend(t, r, a).tree, Descend(t, r, a).node, b)
  <2>1. getNode(t, r, <<a, b>>) = Found(<<a, b>>)[2]
    BY <1>1, <1>9
  <2>2. Found(<<a, b>>)[2] = Step(Step(base, a), b)
    BY <1>8
  <2> QED
    BY <1>4, <2>1, <2>2
<1> QED
  BY <1>10, <1>11, <1>12

(* getNodeIfExist on the paths there are: a local of a local.              *)
LEMMA getNodeIfExistSteps ==
  ASSUME NEW t, NEW r, NEW a, NEW b, r # Null
  PROVE  getNodeIfExist(t, r, <<a, b>>) =
            IF Local(t, r, a) = Null THEN Null ELSE Local(t, Local(t, r, a), b)
<1> DEFINE path == <<a, b>>
           Step(node, title) == IF node = Null THEN Null ELSE Local(t, node, title)
           F(f) == [i \in 0..Len(path) |-> IF i = 0 THEN r ELSE Step(f[i - 1], path[i])]
           G == [i \in 0..Len(path) |-> IF i = 0 THEN r ELSE IF i = 1 THEN Step(r, a)
                                        ELSE Step(Step(r, a), b)]
           Found == CHOOSE f : f = F(f)
<1>1. getNodeIfExist(t, r, path) = Found[Len(path)]
  BY DEF getNodeIfExist
<1>2. Len(path) = 2 /\ path[1] = a /\ path[2] = b
  OBVIOUS
<1>3. Step(r, a) = Local(t, r, a)
  OBVIOUS
<1>4. Step(Step(r, a), b) = IF Local(t, r, a) = Null THEN Null ELSE Local(t, Local(t, r, a), b)
  BY <1>3
<1> HIDE DEF Step, path
<1>5. Found = F(Found)
  <2>1. G = F(G)
    BY <1>2
  <2> HIDE DEF F
  <2> QED
    BY <2>1
<1> HIDE DEF Found
<1>6. Found[0] = r
  BY <1>2, <1>5
<1>7. Found[1] = Step(r, a)
  BY <1>2, <1>5, <1>6
<1>8. Found[2] = Step(Step(r, a), b)
  BY <1>2, <1>5, <1>7
<1> QED
  BY <1>1, <1>2, <1>4, <1>8 DEF path

-----------------------------------------------------------------------------
(* The levels of a tree are apart, and every node has its path and its     *)
(* root.                                                                   *)
LEMMA LevelFacts ==
  ASSUME NEW t, IsTree(t)
  PROVE  /\ 0 \in DOMAIN t /\ 1 \in DOMAIN t /\ DOMAIN t \subseteq Nat /\ Null \notin DOMAIN t
         /\ 0 \notin Nodes(t) /\ 1 \notin Nodes(t) /\ Nodes(t) \subseteq DOMAIN t
         /\ \A n \in Tops(t) : n \notin Dirs(t) /\ n \notin Leaves(t)
         /\ \A n \in Dirs(t) : n \notin Tops(t) /\ n \notin Leaves(t)
         /\ \A n \in Leaves(t) : n \notin Tops(t) /\ n \notin Dirs(t)
<1>1. /\ DOMAIN t \subseteq Nat /\ Null \notin DOMAIN t
      /\ 0 \in DOMAIN t /\ 1 \in DOMAIN t /\ t[0].parent = Null /\ t[1].parent = 0
  BY BranchAssumption DEF BranchAssumption, IsTree, Numbered, Rooted
<1>2. 0 \notin Tops(t) /\ 1 \notin Tops(t)
  BY <1>1, BranchAssumption DEF Tops, BranchAssumption
<1>3. Dirs(t) \cap Tops(t) = {} /\ 0 \notin Dirs(t) /\ 1 \notin Dirs(t)
  BY <1>1, <1>2, BranchAssumption DEF Dirs, Tops, BranchAssumption
<1>4. Leaves(t) \cap Tops(t) = {} /\ 0 \notin Leaves(t) /\ 1 \notin Leaves(t)
  <2>1. ASSUME NEW n \in Leaves(t)
        PROVE  n \notin Tops(t) /\ n # 0 /\ n # 1
    BY <1>1, <1>3, BranchAssumption DEF Leaves, Tops, Dirs, BranchAssumption
  <2> QED
    BY <2>1
<1>5. Leaves(t) \cap Dirs(t) = {}
  BY <1>3 DEF Leaves, Dirs
<1>6. Tops(t) \subseteq DOMAIN t /\ Dirs(t) \subseteq DOMAIN t /\ Leaves(t) \subseteq DOMAIN t
  BY DEF Tops, Dirs, Leaves
<1> QED
  BY <1>1, <1>2, <1>3, <1>4, <1>5, <1>6 DEF Nodes

(* The path and the root of a node, level by level.                        *)
LEMMA NodeFacts ==
  ASSUME NEW t, IsTree(t)
  PROVE  /\ \A n \in Tops(t) : Key(t, n) = <<>> /\ Top(t, n) = n
         /\ \A n \in Dirs(t) : /\ Key(t, n) = <<t[n].title>> /\ Top(t, n) = t[n].parent
                               /\ t[n].parent \in Tops(t)
         /\ \A n \in Leaves(t) : /\ Key(t, n) = <<t[t[n].parent].title, t[n].title>>
                                 /\ Top(t, n) = t[t[n].parent].parent
                                 /\ t[n].parent \in Dirs(t)
         /\ \A n \in Nodes(t) : Top(t, n) \in Tops(t)
<1>1. \A n \in Tops(t) : Key(t, n) = <<>> /\ Top(t, n) = n
  BY DEF Key, Top
<1>2. \A n \in Dirs(t) : /\ Key(t, n) = <<t[n].title>> /\ Top(t, n) = t[n].parent
                         /\ t[n].parent \in Tops(t)
  BY LevelFacts DEF Key, Top, Dirs
<1>3. \A n \in Leaves(t) : /\ Key(t, n) = <<t[t[n].parent].title, t[n].title>>
                           /\ Top(t, n) = t[t[n].parent].parent
                           /\ t[n].parent \in Dirs(t)
  <2>1. \A n \in Leaves(t) : t[n].parent \in Dirs(t)
    BY DEF Leaves
  <2> QED
    BY <2>1, LevelFacts DEF Key, Top
<1> QED
  BY <1>1, <1>2, <1>3 DEF Nodes

-----------------------------------------------------------------------------
(* What AddLocal changes: u is t with a new local k of p.                  *)
Added(t, u, p, k, title, value) ==
    /\ p \in DOMAIN t /\ k \in Nat /\ k \notin DOMAIN t
    /\ DOMAIN u = DOMAIN t \union {k}
    /\ u[k].title = title /\ u[k].parent = p /\ u[k].locals = <<>> /\ u[k].value = value
    /\ \A n \in DOMAIN t : /\ u[n].title = t[n].title /\ u[n].parent = t[n].parent
                           /\ u[n].value = t[n].value
                           /\ n # p => u[n].locals = t[n].locals
    /\ u[p].locals = Append(t[p].locals, k)

(* AddLocal adds one node, numbered like the others.                       *)
LEMMA AddLocalFacts ==
  ASSUME NEW t, Numbered(t), NEW p \in DOMAIN t, NEW title, NEW value
  PROVE  /\ Numbered(AddLocal(t, p, title, value))
         /\ Added(t, AddLocal(t, p, title, value), p, NewNode(t), title, value)
<1>a. PICK k : k = NewNode(t)
  OBVIOUS
<1>b. PICK u : u = AddLocal(t, p, title, value)
  OBVIOUS
<1>1. k \in Nat /\ DOMAIN t = 0..(k - 1) /\ k \notin DOMAIN t
  BY <1>a DEF Numbered
<1>2. DOMAIN u = DOMAIN t \union {k}
  BY <1>a, <1>b DEF AddLocal
<1>3. DOMAIN u = 0..k
  BY <1>1, <1>2
<1>4. NewNode(u) = k + 1
  <2>1. Cardinality(0..k) = k + 1
    BY <1>1, FS_Interval
  <2> QED
    BY <1>3, <2>1 DEF NewNode
<1>5. u[k] = [title |-> title, parent |-> p, locals |-> <<>>, value |-> value]
  BY <1>1, <1>2, <1>a, <1>b DEF AddLocal, Node
<1>6. \A n \in DOMAIN t : n # p => u[n] = t[n]
  BY <1>1, <1>a, <1>b DEF AddLocal
<1>7. u[p] = [t[p] EXCEPT !.locals = Append(t[p].locals, k)]
  BY <1>1, <1>a, <1>b DEF AddLocal
<1>8. \A n \in DOMAIN t : IsNode(t, n)
  BY DEF Numbered
<1>9. /\ u[p] = [title |-> t[p].title, parent |-> t[p].parent,
                 locals |-> Append(t[p].locals, k), value |-> t[p].value]
      /\ t[p].locals \in Seq(DOMAIN t)
  <2>1. PICK r : r = t[p]
    OBVIOUS
  <2>2. r = [title |-> r.title, parent |-> r.parent, locals |-> r.locals, value |-> r.value]
    BY <1>8, <2>1 DEF IsNode
  <2>3. [r EXCEPT !.locals = Append(r.locals, k)] =
           [title |-> r.title, parent |-> r.parent, locals |-> Append(r.locals, k),
            value |-> r.value]
    BY <2>2
  <2> QED
    BY <1>7, <1>8, <2>1, <2>3 DEF IsNode
<1>10. \A n \in DOMAIN t : t[n].locals \in Seq(DOMAIN u)
  BY <1>2, <1>8, SeqMonotonic DEF IsNode
<1>11. ASSUME NEW n \in DOMAIN u
       PROVE  IsNode(u, n)
  <2>1. CASE n = k
    <3>1. <<>> \in Seq(DOMAIN u)
      OBVIOUS
    <3>2. PICK r : r = u[k]
      OBVIOUS
    <3>3. r = [title |-> title, parent |-> p, locals |-> <<>>, value |-> value]
      BY <1>5, <3>2
    <3>4. r = [title |-> r.title, parent |-> r.parent, locals |-> r.locals, value |-> r.value]
      BY <3>3
    <3> QED
      BY <2>1, <3>1, <3>2, <3>3, <3>4 DEF IsNode
  <2>2. CASE n = p
    <3>1. Append(t[p].locals, k) \in Seq(DOMAIN u)
      BY <1>2, <1>10, AppendProperties
    <3> QED
      BY <1>9, <2>2, <3>1 DEF IsNode
  <2>3. CASE n # k /\ n # p
    BY <1>2, <1>6, <1>8, <1>10, <2>3 DEF IsNode
  <2> QED
    BY <2>1, <2>2, <2>3
<1>12. Numbered(u)
  BY <1>1, <1>3, <1>4, <1>11 DEF Numbered
<1>13. \A n \in DOMAIN t : /\ u[n].title = t[n].title /\ u[n].parent = t[n].parent
                           /\ u[n].value = t[n].value
  BY <1>6, <1>9
<1> QED
  BY <1>a, <1>b, <1>1, <1>2, <1>5, <1>6, <1>9, <1>12, <1>13 DEF Added

(* The locals after AddLocal: one more at the parent.                      *)
LEMMA AddLocalLocals ==
  ASSUME NEW t, NEW u, NEW p, NEW k, NEW title, NEW value,
         Numbered(t), Added(t, u, p, k, title, value)
  PROVE  /\ Locals(u, k) = {} /\ Locals(u, p) = Locals(t, p) \union {k}
         /\ \A n \in DOMAIN t : n # p => Locals(u, n) = Locals(t, n)
         /\ \A n \in DOMAIN t : Locals(t, n) \subseteq DOMAIN t
<1>1. /\ u[k].locals = <<>> /\ u[p].locals = Append(t[p].locals, k) /\ p \in DOMAIN t
      /\ \A n \in DOMAIN t : n # p => u[n].locals = t[n].locals
  BY DEF Added
<1>2. \A n \in DOMAIN t : t[n].locals \in Seq(DOMAIN t)
  BY DEF Numbered, IsNode
<1>3. Locals(u, k) = {}
  BY <1>1 DEF Locals
<1>4. Locals(u, p) = Locals(t, p) \union {k}
  <2>1. PICK seq : seq = t[p].locals
    OBVIOUS
  <2>2. seq \in Seq(DOMAIN t) /\ DOMAIN seq = 1..Len(seq) /\ Len(seq) \in Nat
    BY <1>1, <1>2, <2>1
  <2>3. {Append(seq, k)[i] : i \in DOMAIN Append(seq, k)} = {seq[i] : i \in DOMAIN seq} \union {k}
    <3>1. DOMAIN Append(seq, k) = 1..(Len(seq) + 1)
      BY <2>2
    <3>2. \A i \in 1..Len(seq) : Append(seq, k)[i] = seq[i]
      BY <2>2
    <3>3. Append(seq, k)[Len(seq) + 1] = k
      BY <2>2
    <3>4. 1..(Len(seq) + 1) = (1..Len(seq)) \union {Len(seq) + 1}
      BY <2>2
    <3> QED
      BY <2>2, <3>1, <3>2, <3>3, <3>4
  <2> QED
    BY <1>1, <2>1, <2>3 DEF Locals
<1>5. \A n \in DOMAIN t : n # p => Locals(u, n) = Locals(t, n)
  BY <1>1 DEF Locals
<1>6. \A n \in DOMAIN t : Locals(t, n) \subseteq DOMAIN t
  BY <1>2 DEF Locals
<1> QED
  BY <1>3, <1>4, <1>5, <1>6

(* What no operation on a tree takes away: the levels of its nodes and     *)
(* their paths.  Stays is the same of the roots they are below.            *)
Keeps(t, u) ==
    /\ Tops(t) \subseteq Tops(u) /\ Dirs(t) \subseteq Dirs(u) /\ Leaves(t) \subseteq Leaves(u)
    /\ \A n \in Nodes(t) : Key(u, n) = Key(t, n)
    /\ \A n \in Tops(t) : t[n].parent = 0 => u[n].parent = 0

Stays(t, u) ==
    /\ Keeps(t, u)
    /\ \A n \in Nodes(t) : Top(u, n) = Top(t, n)
    /\ \A n \in Tops(t) : u[n].parent = t[n].parent

(* Stays is transitive,                                                    *)
LEMMA StaysStays ==
  ASSUME NEW t, NEW u, NEW v, Stays(t, u), Stays(u, v)
  PROVE  Stays(t, v)
<1>1. Nodes(t) \subseteq Nodes(u)
  BY DEF Stays, Keeps, Nodes
<1> QED
  BY <1>1 DEF Stays, Keeps

(* and reflexive.                                                          *)
LEMMA StaysSame ==
  ASSUME NEW t
  PROVE  Stays(t, t)
BY DEF Stays, Keeps

(* A new local takes its level from its parent.                            *)
LEMMA AddedLevels ==
  ASSUME NEW t, NEW u, NEW p, NEW k, NEW title, NEW value,
         IsTree(t), Added(t, u, p, k, title, value), p # 0
  PROVE  /\ Tops(u) = IF p = 1 THEN Tops(t) \union {k} ELSE Tops(t)
         /\ Dirs(u) = IF p \in Tops(t) THEN Dirs(t) \union {k} ELSE Dirs(t)
         /\ Leaves(u) = IF p \in Dirs(t) THEN Leaves(t) \union {k} ELSE Leaves(t)
<1>1. /\ DOMAIN u = DOMAIN t \union {k} /\ k \notin DOMAIN t /\ u[k].parent = p /\ p \in DOMAIN t
      /\ \A n \in DOMAIN t : u[n].parent = t[n].parent
  BY DEF Added
<1>2. Tops(u) = IF p = 1 THEN Tops(t) \union {k} ELSE Tops(t)
  <2>1. k # 1
    BY <1>1, LevelFacts
  <2> QED
    BY <1>1, <2>1 DEF Tops
<1>3. \A n \in DOMAIN u : u[n].parent # k
  <2>1. DOMAIN t = {0, 1} \union Nodes(t) /\ t[0].parent = Null /\ t[1].parent = 0
    BY DEF IsTree, Levels, Rooted
  <2>2. \A n \in Nodes(t) : t[n].parent \in DOMAIN t
    BY LevelFacts, NodeFacts DEF Nodes, Tops
  <2>3. Null # k /\ 0 # k
    BY <1>1, LevelFacts, BranchAssumption DEF BranchAssumption, Added
  <2> QED
    BY <1>1, <2>1, <2>2, <2>3
<1>4. Dirs(u) = IF p \in Tops(t) THEN Dirs(t) \union {k} ELSE Dirs(t)
  BY <1>1, <1>2, <1>3 DEF Dirs
<1>5. Leaves(u) = IF p \in Dirs(t) THEN Leaves(t) \union {k} ELSE Leaves(t)
  BY <1>1, <1>3, <1>4 DEF Leaves
<1> QED
  BY <1>2, <1>4, <1>5

(* What was there keeps its level, its path and its root.                  *)
LEMMA AddedStays ==
  ASSUME NEW t, NEW u, NEW p, NEW k, NEW title, NEW value,
         IsTree(t), Added(t, u, p, k, title, value), p \in {1} \union Tops(t) \union Dirs(t)
  PROVE  Stays(t, u)
<1>1. p # 0
  BY LevelFacts DEF Nodes
<1>2. /\ Tops(u) = IF p = 1 THEN Tops(t) \union {k} ELSE Tops(t)
      /\ Dirs(u) = IF p \in Tops(t) THEN Dirs(t) \union {k} ELSE Dirs(t)
      /\ Leaves(u) = IF p \in Dirs(t) THEN Leaves(t) \union {k} ELSE Leaves(t)
  BY <1>1, AddedLevels
<1>3. /\ k \notin DOMAIN t
      /\ \A n \in DOMAIN t : u[n].parent = t[n].parent /\ u[n].title = t[n].title
  BY DEF Added
<1>4. Nodes(t) \subseteq DOMAIN t
  BY LevelFacts
<1>5. \A n \in Nodes(t) : /\ n \in Tops(u) <=> n \in Tops(t)
                          /\ n \in Dirs(u) <=> n \in Dirs(t)
  BY <1>2, <1>3, <1>4
<1>6. \A n \in Leaves(t) : t[n].parent \in DOMAIN t
  BY <1>4, NodeFacts DEF Nodes
<1>7. \A n \in Nodes(t) : n \notin Tops(t) /\ n \notin Dirs(t) => n \in Leaves(t)
  BY DEF Nodes
<1>8. \A n \in Nodes(t) : Key(u, n) = Key(t, n)
  BY <1>3, <1>4, <1>5, <1>6, <1>7 DEF Key
<1>9. \A n \in Nodes(t) : Top(u, n) = Top(t, n)
  BY <1>3, <1>4, <1>5, <1>6, <1>7 DEF Top
<1>10. Tops(t) \subseteq DOMAIN t
  BY DEF Tops
<1> QED
  BY <1>2, <1>3, <1>8, <1>9, <1>10 DEF Stays, Keeps

(* The tree stays one, if a new node has no value yet.                     *)
LEMMA AddedTree ==
  ASSUME NEW t, NEW u, NEW p, NEW k, NEW title,
         IsTree(t), Numbered(u), Added(t, u, p, k, title, Null),
         p \in {1} \union Tops(t) \union Dirs(t)
  PROVE  IsTree(u)
<1>1. p # 0 /\ 0 \in DOMAIN t /\ 1 \in DOMAIN t /\ Nodes(t) \subseteq DOMAIN t /\ 1 \notin Nodes(t)
  BY LevelFacts DEF Nodes
<1>2. /\ Tops(u) = IF p = 1 THEN Tops(t) \union {k} ELSE Tops(t)
      /\ Dirs(u) = IF p \in Tops(t) THEN Dirs(t) \union {k} ELSE Dirs(t)
      /\ Leaves(u) = IF p \in Dirs(t) THEN Leaves(t) \union {k} ELSE Leaves(t)
  BY <1>1, AddedLevels
<1>3. /\ k \notin DOMAIN t /\ DOMAIN u = DOMAIN t \union {k}
      /\ u[k].title = title /\ u[k].parent = p /\ u[k].locals = <<>> /\ u[k].value = Null
      /\ \A n \in DOMAIN t : /\ u[n].parent = t[n].parent /\ u[n].title = t[n].title
                             /\ u[n].value = t[n].value
                             /\ n # p => u[n].locals = t[n].locals
  BY DEF Added
<1>4. /\ Locals(u, k) = {} /\ Locals(u, p) = Locals(t, p) \union {k}
      /\ \A n \in DOMAIN t : n # p => Locals(u, n) = Locals(t, n)
      /\ \A n \in DOMAIN t : Locals(t, n) \subseteq DOMAIN t
  BY AddLocalLocals DEF IsTree
<1>5. Stays(t, u)
  BY AddedStays
<1>6. Rooted(u)
  <2>1. Rooted(t)
    BY DEF IsTree
  <2>2. u[0].locals = t[0].locals /\ MasterOf(u) = MasterOf(t) /\ MasterOf(t) \in DOMAIN t
    BY <1>1, <1>3, <2>1 DEF MasterOf, Rooted, Tops
  <2>3. Locals(u, 1) \subseteq Tops(u)
    BY <1>1, <1>2, <1>4, <2>1 DEF Rooted
  <2>4. MasterOf(u) \in Tops(u)
    BY <1>2, <2>1, <2>2 DEF Rooted
  <2> QED
    BY <1>1, <1>3, <2>1, <2>2, <2>3, <2>4 DEF Rooted
<1>7. Levels(u)
  <2>1. Levels(t)
    BY DEF IsTree
  <2>2. DOMAIN u = {0, 1} \union Nodes(u)
    BY <1>2, <1>3, <2>1 DEF Levels, Nodes
  <2>3. ASSUME NEW n \in Tops(u)
        PROVE  Locals(u, n) \subseteq Dirs(u)
    <3>1. CASE n = k
      BY <1>4, <3>1
    <3>2. CASE n # k
      <4>1. n \in Tops(t) /\ n \in DOMAIN t
        BY <1>2, <3>2 DEF Tops
      <4>2. Locals(t, n) \subseteq Dirs(t)
        BY <2>1, <4>1 DEF Levels
      <4> QED
        BY <1>2, <1>4, <4>1, <4>2
    <3> QED
      BY <3>1, <3>2
  <2>4. ASSUME NEW n \in Dirs(u)
        PROVE  /\ Locals(u, n) \subseteq Leaves(u)
               /\ \A m \in Locals(u, n) : u[u[m].parent].title = u[n].title
    <3>1. CASE n = k
      BY <1>4, <3>1
    <3>2. CASE n # k
      <4>1. n \in Dirs(t) /\ n \in DOMAIN t
        BY <1>2, <3>2 DEF Dirs
      <4>2. /\ Locals(t, n) \subseteq Leaves(t)
            /\ \A m \in Locals(t, n) : t[t[m].parent].title = t[n].title
        BY <2>1, <4>1 DEF Levels
      <4>3. \A m \in Locals(t, n) : t[m].parent \in DOMAIN t /\ m \in DOMAIN t
        BY <1>1, <4>2, NodeFacts DEF Nodes
      <4>4. \A m \in Locals(t, n) : u[u[m].parent].title = u[n].title
        BY <1>3, <4>1, <4>2, <4>3
      <4>5. n = p => u[u[k].parent].title = u[n].title
        BY <1>3
      <4> QED
        BY <1>2, <1>4, <4>1, <4>2, <4>4, <4>5
    <3> QED
      BY <3>1, <3>2
  <2>5. ASSUME NEW n \in Leaves(u)
        PROVE  u[n].locals = <<>>
    <3>1. CASE n = k
      BY <1>3, <3>1
    <3>2. CASE n # k
      <4>1. n \in Leaves(t) /\ n \in DOMAIN t /\ n # p
        BY <1>1, <1>2, <3>2, LevelFacts DEF Leaves, Nodes
      <4> QED
        BY <1>3, <2>1, <4>1 DEF Levels
    <3> QED
      BY <3>1, <3>2
  <2> QED
    BY <2>2, <2>3, <2>4, <2>5 DEF Levels
<1>8. ValuesPlaced(u)
  <2> SUFFICES ASSUME NEW n \in Leaves(u), u[n].value # Null
               PROVE  u[n].value.path = Key(u, n)
    BY DEF ValuesPlaced
  <2>1. n \in Leaves(t) /\ n \in DOMAIN t
    BY <1>2, <1>3 DEF Leaves
  <2> QED
    BY <1>3, <1>5, <2>1 DEF Stays, Keeps, IsTree, ValuesPlaced, Nodes
<1> QED
  BY <1>6, <1>7, <1>8 DEF IsTree

-----------------------------------------------------------------------------
(* The branches that are not merged yet, those of the sessions S, are      *)
(* apart from each other and from the rest of the tree: their locals are   *)
(* linked both ways, and no other node lists one of theirs.                *)
Roots(rt, S) == {rt[s] : s \in S}

Linked(t, r) ==
    \A n \in Nodes(t) : Top(t, n) = r => \A m \in Locals(t, n) : t[m].parent = n

Apart(t, rt, S) ==
    /\ S \subseteq Session
    /\ \A s \in Session : rt[s] # Null => rt[s] \in Tops(t)
    /\ \A s, w \in Session : s # w /\ rt[s] # Null => rt[s] # rt[w]
    /\ \A s \in S : rt[s] # Null /\ t[rt[s]].parent = 1 /\ Linked(t, rt[s])
    /\ \A n \in Nodes(t) : Top(t, n) \notin Roots(rt, S) =>
          \A m \in Locals(t, n) : Top(t, m) \notin Roots(rt, S)

(* A local is of one of the three levels.                                  *)
LEMMA LocalsAreNodes ==
  ASSUME NEW t, IsTree(t)
  PROVE  \A n \in Nodes(t) : Locals(t, n) \subseteq Nodes(t)
<1>1. \A n \in Leaves(t) : Locals(t, n) = {}
  BY DEF IsTree, Levels, Locals
<1> QED
  BY <1>1 DEF IsTree, Levels, Nodes

(* The new node is in the branch of its parent, if in any.                 *)
LEMMA AddedApart ==
  ASSUME NEW t, NEW u, NEW p, NEW k, NEW title, NEW value, NEW rt, NEW S,
         IsTree(t), IsTree(u), Added(t, u, p, k, title, value),
         p \in Tops(t) \union Dirs(t), Apart(t, rt, S)
  PROVE  /\ Apart(u, rt, S) /\ k \in Nodes(u)
         /\ Top(t, p) \notin Roots(rt, S) => Top(u, k) \notin Roots(rt, S)
<1>1. p # 0 /\ p # 1 /\ Nodes(t) \subseteq DOMAIN t /\ p \in Nodes(t)
  BY LevelFacts DEF Nodes
<1>2. /\ Tops(u) = Tops(t)
      /\ Dirs(u) = IF p \in Tops(t) THEN Dirs(t) \union {k} ELSE Dirs(t)
      /\ Leaves(u) = IF p \in Dirs(t) THEN Leaves(t) \union {k} ELSE Leaves(t)
  BY <1>1, AddedLevels
<1>3. /\ k \notin DOMAIN t /\ u[k].parent = p
      /\ \A n \in DOMAIN t : u[n].parent = t[n].parent
  BY DEF Added
<1>4. /\ Locals(u, k) = {} /\ Locals(u, p) = Locals(t, p) \union {k}
      /\ \A n \in DOMAIN t : n # p => Locals(u, n) = Locals(t, n)
      /\ \A n \in DOMAIN t : Locals(t, n) \subseteq DOMAIN t
  BY AddLocalLocals DEF IsTree
<1>5. Stays(t, u)
  BY AddedStays
<1>6. Nodes(u) = Nodes(t) \union {k}
  BY <1>2 DEF Nodes
<1>7. Top(u, k) = Top(t, p)
  <2>1. CASE p \in Tops(t)
    BY <1>2, <1>3, <2>1, NodeFacts
  <2>2. CASE p \in Dirs(t)
    <3>1. k \in Leaves(u) /\ u[p].parent = t[p].parent
      BY <1>1, <1>2, <1>3, <2>2
    <3> QED
      BY <1>3, <2>2, <3>1, NodeFacts
  <2> QED
    BY <2>1, <2>2
<1>8. ASSUME NEW n \in Nodes(t)
      PROVE  Top(u, n) = Top(t, n)
  BY <1>5 DEF Stays
<1>9. ASSUME NEW s \in S
      PROVE  rt[s] # Null /\ u[rt[s]].parent = 1 /\ Linked(u, rt[s])
  <2>1. rt[s] # Null /\ t[rt[s]].parent = 1 /\ Linked(t, rt[s]) /\ rt[s] \in Tops(t)
    BY DEF Apart
  <2>2. ASSUME NEW n \in Nodes(u), Top(u, n) = rt[s], NEW m \in Locals(u, n)
        PROVE  u[m].parent = n
    <3>1. n \in Nodes(t) /\ n \in DOMAIN t
      BY <1>1, <1>4, <1>6, <2>2
    <3>2. CASE m \in Locals(t, n)
      <4>1. m \in DOMAIN t /\ t[m].parent = n
        BY <1>4, <1>8, <2>1, <2>2, <3>1, <3>2 DEF Linked
      <4> QED
        BY <1>3, <4>1
    <3>3. CASE m \notin Locals(t, n)
      BY <1>3, <1>4, <2>2, <3>1, <3>3
    <3> QED
      BY <3>2, <3>3
  <2> QED
    BY <1>1, <1>3, <2>1, <2>2 DEF Linked, Nodes
<1>10. ASSUME NEW n \in Nodes(u), Top(u, n) \notin Roots(rt, S), NEW m \in Locals(u, n)
       PROVE  Top(u, m) \notin Roots(rt, S)
  <2>1. n \in Nodes(t) /\ n \in DOMAIN t
    BY <1>1, <1>4, <1>6, <1>10
  <2>2. CASE m \in Locals(t, n)
    <3>1. m \in Nodes(t)
      BY <2>1, <2>2, LocalsAreNodes
    <3> QED
      BY <1>8, <1>10, <2>1, <2>2, <3>1 DEF Apart
  <2>3. CASE m \notin Locals(t, n)
    BY <1>4, <1>7, <1>8, <1>10, <2>1, <2>3
  <2> QED
    BY <2>2, <2>3
<1>11. Apart(u, rt, S)
  BY <1>2, <1>9, <1>10 DEF Apart
<1> QED
  BY <1>6, <1>7, <1>11

(* A step of getNode finds or makes a node of that title, one level below. *)
LEMMA DescendFacts ==
  ASSUME NEW t, NEW n, NEW title, NEW rt, NEW S, NEW d,
         IsTree(t), n \in Tops(t) \union Dirs(t), Apart(t, rt, S), d = Descend(t, n, title)
  PROVE  /\ IsTree(d.tree) /\ Stays(t, d.tree) /\ Apart(d.tree, rt, S)
         /\ n \in Tops(t) => d.node \in Dirs(d.tree) /\ Key(d.tree, d.node) = <<title>>
         /\ n \in Dirs(t) => d.node \in Leaves(d.tree) /\
                             Key(d.tree, d.node) = <<t[n].title, title>>
         /\ Top(t, n) \notin Roots(rt, S) => Top(d.tree, d.node) \notin Roots(rt, S)
<1>1. n \in Nodes(t) /\ n \in DOMAIN t /\ n # 0 /\ n # 1
  BY LevelFacts DEF Nodes
<1>2. t[n].locals \in Seq(Nat)
  <2>1. t[n].locals \in Seq(DOMAIN t) /\ DOMAIN t \subseteq Nat
    BY <1>1 DEF IsTree, Numbered, IsNode
  <2> QED
    BY <2>1, SeqMonotonic
<1>3. CASE Local(t, n, title) # Null
  <2>1. PICK m : m = Local(t, n, title)
    OBVIOUS
  <2>2. m \in Locals(t, n) /\ t[m].title = title
    BY <1>2, <1>3, <2>1, LocalFacts
  <2>3. d.tree = t /\ d.node = m
    BY <1>3, <2>1 DEF Descend
  <2>4. n \in Tops(t) => m \in Dirs(t) /\ Key(t, m) = <<title>>
    BY <2>2, NodeFacts DEF IsTree, Levels
  <2>5. n \in Dirs(t) => m \in Leaves(t) /\ Key(t, m) = <<t[n].title, title>>
    BY <2>2, NodeFacts DEF IsTree, Levels
  <2>6. Top(t, n) \notin Roots(rt, S) => Top(t, m) \notin Roots(rt, S)
    BY <1>1, <2>2 DEF Apart
  <2> QED
    BY <2>3, <2>4, <2>5, <2>6, StaysSame
<1>4. CASE Local(t, n, title) = Null
  <2>1. PICK u : u = AddLocal(t, n, title, Null)
    OBVIOUS
  <2>2. PICK k : k = NewNode(t)
    OBVIOUS
  <2>3. d.tree = u /\ d.node = k
    BY <1>4, <2>1, <2>2 DEF Descend
  <2>4. Numbered(u) /\ Added(t, u, n, k, title, Null)
    BY <1>1, <2>1, <2>2, AddLocalFacts DEF IsTree
  <2>5. Stays(t, u)
    BY <2>4, AddedStays
  <2>6. IsTree(u)
    BY <2>4, AddedTree
  <2>7. /\ Apart(u, rt, S)
        /\ Top(t, n) \notin Roots(rt, S) => Top(u, k) \notin Roots(rt, S)
    BY <2>4, <2>6, AddedApart
  <2>8. u[k].title = title /\ u[k].parent = n /\ u[n].title = t[n].title
    BY <1>1, <2>4 DEF Added
  <2>9. n \in Tops(t) => k \in Dirs(u) /\ Key(u, k) = <<title>>
    BY <1>1, <2>4, <2>6, <2>8, AddedLevels, NodeFacts
  <2>10. n \in Dirs(t) => k \in Leaves(u) /\ Key(u, k) = <<t[n].title, title>>
    BY <1>1, <2>4, <2>6, <2>8, AddedLevels, NodeFacts
  <2> QED
    BY <2>3, <2>5, <2>6, <2>7, <2>9, <2>10
<1> QED
  BY <1>3, <1>4

(* The paths of nodes, and the level each one tells.                       *)
IsKey(path) ==
    path = <<>> \/ (\E a : path = <<a>>) \/ (\E a, b : path = <<a, b>>)

(* A path has as many names as its node has levels above it.               *)
LEMMA KeyLevels ==
  ASSUME NEW t, IsTree(t), NEW n \in Nodes(t)
  PROVE  /\ IsKey(Key(t, n))
         /\ n \in Tops(t) <=> Len(Key(t, n)) = 0
         /\ n \in Dirs(t) <=> Len(Key(t, n)) = 1
         /\ n \in Leaves(t) <=> Len(Key(t, n)) = 2
<1>1. n \in Tops(t) => Key(t, n) = <<>> /\ Len(Key(t, n)) = 0
  <2>1. Len(<<>>) = 0
    OBVIOUS
  <2> QED
    BY <2>1, NodeFacts
<1>2. n \in Dirs(t) => Key(t, n) = <<t[n].title>> /\ Len(Key(t, n)) = 1
  <2>1. \A a : Len(<<a>>) = 1
    OBVIOUS
  <2> QED
    BY <2>1, NodeFacts
<1>3. n \in Leaves(t) => Key(t, n) = <<t[t[n].parent].title, t[n].title>> /\ Len(Key(t, n)) = 2
  <2>1. \A a, b : Len(<<a, b>>) = 2
    OBVIOUS
  <2> QED
    BY <2>1, NodeFacts
<1> QED
  BY <1>1, <1>2, <1>3 DEF Nodes, IsKey

(* getNode, from a root down.                                              *)
LEMMA getNodeFacts ==
  ASSUME NEW t, NEW r, NEW path, NEW rt, NEW S, NEW at,
         IsTree(t), r \in Tops(t), IsKey(path), Apart(t, rt, S), at = getNode(t, r, path)
  PROVE  /\ IsTree(at.tree) /\ Stays(t, at.tree) /\ Apart(at.tree, rt, S)
         /\ at.node \in Nodes(at.tree) /\ Key(at.tree, at.node) = path
         /\ r \notin Roots(rt, S) => Top(at.tree, at.node) \notin Roots(rt, S)
         /\ path = <<>> => at.node = r /\ at.tree = t
<1>1. CASE path = <<>>
  <2>1. at.node = r /\ at.tree = t
    BY <1>1, getNodeSteps
  <2> QED
    BY <1>1, <2>1, NodeFacts, StaysSame DEF Nodes
<1>2. ASSUME NEW a, path = <<a>>
      PROVE  /\ IsTree(at.tree) /\ Stays(t, at.tree) /\ Apart(at.tree, rt, S)
             /\ at.node \in Dirs(at.tree) /\ Key(at.tree, at.node) = path
             /\ r \notin Roots(rt, S) => Top(at.tree, at.node) \notin Roots(rt, S)
  <2>1. at = Descend(t, r, a)
    BY <1>2, getNodeSteps
  <2>2. Top(t, r) = r
    BY NodeFacts
  <2> QED
    BY <1>2, <2>1, <2>2, DescendFacts
<1>3. ASSUME NEW a, NEW b, path = <<a, b>>
      PROVE  /\ IsTree(at.tree) /\ Stays(t, at.tree) /\ Apart(at.tree, rt, S)
             /\ at.node \in Leaves(at.tree) /\ Key(at.tree, at.node) = path
             /\ r \notin Roots(rt, S) => Top(at.tree, at.node) \notin Roots(rt, S)
  <2>1. PICK d : d = Descend(t, r, a)
    OBVIOUS
  <2>2. Top(t, r) = r
    BY NodeFacts
  <2>3. /\ IsTree(d.tree) /\ Stays(t, d.tree) /\ Apart(d.tree, rt, S)
        /\ d.node \in Dirs(d.tree) /\ Key(d.tree, d.node) = <<a>>
        /\ r \notin Roots(rt, S) => Top(d.tree, d.node) \notin Roots(rt, S)
    BY <2>1, <2>2, DescendFacts
  <2>4. d.tree[d.node].title = a
    <3>1. PICK title : title = d.tree[d.node].title
      OBVIOUS
    <3>2. <<title>> = <<a>>
      BY <2>3, <3>1, NodeFacts
    <3> QED
      BY <3>1, <3>2
  <2>5. at = Descend(d.tree, d.node, b)
    BY <1>3, <2>1, getNodeSteps
  <2>6. /\ IsTree(at.tree) /\ Stays(d.tree, at.tree) /\ Apart(at.tree, rt, S)
        /\ at.node \in Leaves(at.tree) /\ Key(at.tree, at.node) = <<a, b>>
        /\ Top(d.tree, d.node) \notin Roots(rt, S) => Top(at.tree, at.node) \notin Roots(rt, S)
    BY <2>3, <2>4, <2>5, DescendFacts
  <2>7. Stays(t, at.tree)
    BY <2>3, <2>6, StaysStays
  <2> QED
    BY <1>3, <2>3, <2>6, <2>7
<1>4. (\E a : path = <<a>>) => path # <<>>
  OBVIOUS
<1>5. (\E a, b : path = <<a, b>>) => path # <<>>
  OBVIOUS
<1> QED
  BY <1>1, <1>2, <1>3, <1>4, <1>5 DEF IsKey, Nodes

(* The node called master is the root of master.                           *)
LEMMA MasterLocal ==
  ASSUME NEW t, IsTree(t)
  PROVE  Local(t, 0, "master") = MasterOf(t)
<1>1. /\ t[0].locals \in Seq(DOMAIN t) /\ DOMAIN t \subseteq Nat
      /\ Len(t[0].locals) = 2 /\ t[0].locals[1] = 1 /\ t[0].locals[2] = MasterOf(t)
      /\ t[1].title # "master" /\ t[MasterOf(t)].title = "master"
  BY LevelFacts DEF IsTree, Numbered, IsNode, Rooted, MasterOf
<1>2. Locals(t, 0) = {1, MasterOf(t)}
  BY <1>1 DEF Locals
<1>3. t[0].locals \in Seq(Nat)
  BY <1>1, SeqMonotonic
<1>4. Local(t, 0, "master") \in Locals(t, 0) /\ Local(t, 0, "master") # Null
  BY <1>1, <1>2, <1>3, LocalFacts
<1>5. t[Local(t, 0, "master")].title = "master"
  BY <1>3, <1>4, LocalFacts
<1> QED
  BY <1>1, <1>2, <1>4, <1>5

(* A tree with the same links is one, if its values are in their places.   *)
SameLinks(t, u) ==
    /\ DOMAIN u = DOMAIN t
    /\ \A m \in DOMAIN t : /\ u[m].title = t[m].title /\ u[m].parent = t[m].parent
                           /\ u[m].locals = t[m].locals

(* With the same links come the same levels, paths and roots,              *)
LEMMA SameLinksFacts ==
  ASSUME NEW t, NEW u, IsTree(t), SameLinks(t, u)
  PROVE  /\ Tops(u) = Tops(t) /\ Dirs(u) = Dirs(t) /\ Leaves(u) = Leaves(t) /\ Nodes(u) = Nodes(t)
         /\ \A m \in Nodes(t) : Key(u, m) = Key(t, m) /\ Top(u, m) = Top(t, m)
         /\ \A m \in DOMAIN t : Locals(u, m) = Locals(t, m)
         /\ Stays(t, u)
<1>1. /\ DOMAIN u = DOMAIN t
      /\ \A m \in DOMAIN t : /\ u[m].title = t[m].title /\ u[m].parent = t[m].parent
                             /\ u[m].locals = t[m].locals
  BY DEF SameLinks
<1>2. Tops(u) = Tops(t)
  BY <1>1 DEF Tops
<1>3. Dirs(u) = Dirs(t)
  BY <1>1, <1>2 DEF Dirs
<1>4. Leaves(u) = Leaves(t) /\ Nodes(u) = Nodes(t)
  BY <1>1, <1>2, <1>3 DEF Leaves, Nodes
<1>5. /\ Nodes(t) \subseteq DOMAIN t
      /\ \A m \in Dirs(t) \union Leaves(t) : t[m].parent \in Nodes(t)
  BY LevelFacts, NodeFacts DEF Nodes
<1>6. \A m \in Nodes(t) : Key(u, m) = Key(t, m) /\ Top(u, m) = Top(t, m)
  BY <1>1, <1>2, <1>3, <1>5 DEF Key, Top, Nodes
<1>7. \A m \in DOMAIN t : Locals(u, m) = Locals(t, m)
  BY <1>1 DEF Locals
<1>8. Stays(t, u)
  BY <1>1, <1>2, <1>3, <1>4, <1>5, <1>6 DEF Stays, Keeps, Nodes
<1> QED
  BY <1>2, <1>3, <1>4, <1>6, <1>7, <1>8

(* the tree is one,                                                        *)
LEMMA SameLinksTree ==
  ASSUME NEW t, NEW u, IsTree(t), SameLinks(t, u), Numbered(u),
         \A m \in Leaves(t) : u[m].value # Null => u[m].value.path = Key(t, m)
  PROVE  IsTree(u)
<1>1. /\ Tops(u) = Tops(t) /\ Dirs(u) = Dirs(t) /\ Leaves(u) = Leaves(t) /\ Nodes(u) = Nodes(t)
      /\ \A m \in Nodes(t) : Key(u, m) = Key(t, m)
      /\ \A m \in DOMAIN t : Locals(u, m) = Locals(t, m)
  BY SameLinksFacts
<1>2. /\ DOMAIN u = DOMAIN t
      /\ \A m \in DOMAIN t : /\ u[m].title = t[m].title /\ u[m].parent = t[m].parent
                             /\ u[m].locals = t[m].locals
  BY DEF SameLinks
<1>3. /\ Nodes(t) \subseteq DOMAIN t /\ 0 \in DOMAIN t /\ 1 \in DOMAIN t
      /\ \A m \in Dirs(t) \union Leaves(t) : t[m].parent \in Nodes(t)
  BY LevelFacts, NodeFacts DEF Nodes
<1>4. Rooted(u)
  <2>1. Rooted(t)
    BY DEF IsTree
  <2>2. MasterOf(u) = MasterOf(t) /\ MasterOf(t) \in DOMAIN t
    BY <1>2, <1>3, <2>1 DEF Rooted, MasterOf, Tops
  <2>3. u[0] = u[0] /\ u[0].locals = t[0].locals /\ u[0].parent = t[0].parent
        /\ u[1].parent = t[1].parent /\ u[1].title = t[1].title
    BY <1>2, <1>3
  <2>4. /\ u[MasterOf(u)].parent = t[MasterOf(t)].parent
        /\ u[MasterOf(u)].title = t[MasterOf(t)].title
    BY <1>2, <2>2
  <2>5. Locals(u, 1) = Locals(t, 1)
    BY <1>1, <1>3
  <2> QED
    BY <1>1, <1>2, <2>1, <2>2, <2>3, <2>4, <2>5 DEF Rooted
<1>5. Levels(u)
  <2>1. Levels(t)
    BY DEF IsTree
  <2>2. ASSUME NEW d \in Dirs(t), NEW m \in Locals(t, d)
        PROVE  u[u[m].parent].title = u[d].title
    <3>1. m \in Leaves(t) /\ t[t[m].parent].title = t[d].title
      BY <2>1 DEF Levels
    <3>2. m \in DOMAIN t /\ d \in DOMAIN t /\ t[m].parent \in DOMAIN t
      BY <1>3, <3>1 DEF Nodes
    <3> QED
      BY <1>2, <3>1, <3>2
  <2>3. \A n \in Nodes(t) : Locals(u, n) = Locals(t, n) /\ u[n].locals = t[n].locals
    BY <1>1, <1>2, <1>3
  <2> QED
    BY <1>1, <1>2, <2>1, <2>2, <2>3 DEF Levels, Nodes
<1>6. ValuesPlaced(u)
  BY <1>1 DEF ValuesPlaced, Nodes
<1> QED
  BY <1>4, <1>5, <1>6 DEF IsTree

(* and the branches stay apart.                                            *)
LEMMA SameLinksApart ==
  ASSUME NEW t, NEW u, NEW rt, NEW S, IsTree(t), SameLinks(t, u), Apart(t, rt, S)
  PROVE  Apart(u, rt, S)
<1>1. /\ Tops(u) = Tops(t) /\ Nodes(u) = Nodes(t)
      /\ \A m \in Nodes(t) : Top(u, m) = Top(t, m) /\ Locals(u, m) = Locals(t, m)
  BY SameLinksFacts, LevelFacts
<1>2. \A m \in Nodes(t) : u[m].parent = t[m].parent
  BY LevelFacts DEF SameLinks
<1>3. \A n \in Nodes(t) : \A m \in Locals(t, n) : m \in Nodes(t)
  BY LocalsAreNodes
<1>4. ASSUME NEW s \in S
      PROVE  rt[s] # Null /\ u[rt[s]].parent = 1 /\ Linked(u, rt[s])
  <2>1. rt[s] # Null /\ t[rt[s]].parent = 1 /\ Linked(t, rt[s]) /\ rt[s] \in Nodes(t)
    BY DEF Apart, Nodes
  <2> QED
    BY <1>1, <1>2, <1>3, <2>1 DEF Linked
<1> QED
  BY <1>1, <1>3, <1>4 DEF Apart

(* A value is put on a file.                                               *)
LEMMA PutTree ==
  ASSUME NEW t, NEW n, NEW v, NEW u, NEW rt, NEW S,
         IsTree(t), n \in Leaves(t), v.path = Key(t, n), u = [t EXCEPT ![n].value = v],
         Apart(t, rt, S)
  PROVE  IsTree(u) /\ Stays(t, u) /\ Apart(u, rt, S)
<1>1. n \in DOMAIN t
  BY DEF Leaves
<1>2. PICK r : r = t[n]
  OBVIOUS
<1>3. r = [title |-> r.title, parent |-> r.parent, locals |-> r.locals, value |-> r.value]
  BY <1>1, <1>2 DEF IsTree, Numbered, IsNode
<1>4. /\ u[n] = [r EXCEPT !.value = v] /\ DOMAIN u = DOMAIN t
      /\ \A m \in DOMAIN t : m # n => u[m] = t[m]
  BY <1>1, <1>2
<1>5. u[n] = [title |-> r.title, parent |-> r.parent, locals |-> r.locals, value |-> v]
  BY <1>3, <1>4
<1>6. /\ DOMAIN u = DOMAIN t /\ u[n].value = v
      /\ \A m \in DOMAIN t : /\ u[m].title = t[m].title /\ u[m].parent = t[m].parent
                             /\ u[m].locals = t[m].locals
                             /\ m # n => u[m].value = t[m].value
  BY <1>2, <1>4, <1>5
<1>7. SameLinks(t, u)
  BY <1>6 DEF SameLinks
<1>8. Numbered(u)
  <2>1. NewNode(u) = NewNode(t)
    BY <1>6 DEF NewNode
  <2>2. IsNode(u, n)
    <3>1. u[n].locals \in Seq(DOMAIN u)
      BY <1>1, <1>6 DEF IsTree, Numbered, IsNode
    <3> QED
      BY <1>5, <3>1 DEF IsNode
  <2>3. \A m \in DOMAIN u : m # n => IsNode(u, m)
    BY <1>4 DEF IsTree, Numbered, IsNode
  <2> QED
    BY <1>6, <2>1, <2>2, <2>3 DEF IsTree, Numbered
<1>9. \A m \in Leaves(t) : u[m].value # Null => u[m].value.path = Key(t, m)
  BY <1>6 DEF IsTree, ValuesPlaced, Leaves
<1> QED
  BY <1>7, <1>8, <1>9, SameLinksFacts, SameLinksTree, SameLinksApart

-----------------------------------------------------------------------------
(* What replace changes: to takes the slot of from in the locals of p.     *)
Replaced(t, u, from, to, slot) ==
    LET p == t[from].parent
    IN  /\ p \in DOMAIN t /\ to \in DOMAIN t /\ p # to
        /\ slot \in DOMAIN t[p].locals /\ t[p].locals[slot] = from
        /\ DOMAIN u = DOMAIN t
        /\ u[p].locals = [t[p].locals EXCEPT ![slot] = to]
        /\ u[to].parent = p /\ u[to].title = t[from].title
        /\ \A n \in DOMAIN t : /\ n # p => u[n].locals = t[n].locals
                               /\ n # to => u[n].parent = t[n].parent /\ u[n].title = t[n].title
                               /\ u[n].value = t[n].value

(* replace does that, if the parent lists the node it replaces.            *)
LEMMA ReplaceFacts ==
  ASSUME NEW t, NEW from, NEW to, Numbered(t), from \in DOMAIN t, to \in DOMAIN t,
         t[from].parent \in DOMAIN t, t[from].parent # to, CanReplace(t, from)
  PROVE  /\ Numbered(replace(t, from, to))
         /\ \E slot : Replaced(t, replace(t, from, to), from, to, slot)
<1>1. PICK p : p = t[from].parent
  OBVIOUS
<1>2. PICK slot : slot = CHOOSE i \in DOMAIN t[p].locals : t[p].locals[i] = from
  OBVIOUS
<1>3. PICK u : u = replace(t, from, to)
  OBVIOUS
<1>4. slot \in DOMAIN t[p].locals /\ t[p].locals[slot] = from
  <2>1. t[p].locals \in Seq(DOMAIN t)
    BY <1>1 DEF Numbered, IsNode
  <2>2. \E i \in DOMAIN t[p].locals : t[p].locals[i] = from
    BY <1>1, <2>1 DEF CanReplace, Contains
  <2> QED
    BY <1>2, <2>2
<1>5. PICK a : a = t[p]
  OBVIOUS
<1>6. PICK b : b = t[to]
  OBVIOUS
<1>7. /\ a = [title |-> a.title, parent |-> a.parent, locals |-> a.locals, value |-> a.value]
      /\ b = [title |-> b.title, parent |-> b.parent, locals |-> b.locals, value |-> b.value]
      /\ a.locals \in Seq(DOMAIN t) /\ b.locals \in Seq(DOMAIN t)
  BY <1>1, <1>5, <1>6 DEF Numbered, IsNode
<1>8. PICK locals : locals = [a.locals EXCEPT ![slot] = to]
  OBVIOUS
<1>9. PICK first : first = [t EXCEPT ![p] = [a EXCEPT !.locals = locals]]
  OBVIOUS
<1>10. PICK second : second = [first EXCEPT ![to] = [b EXCEPT !.parent = p]]
  OBVIOUS
<1>11. PICK title : title = t[from].title
  OBVIOUS
<1>12. /\ DOMAIN first = DOMAIN t /\ first[p] = [a EXCEPT !.locals = locals] /\ first[to] = b
       /\ \A n \in DOMAIN t : n # p => first[n] = t[n]
  BY <1>1, <1>6, <1>9
<1>13. /\ DOMAIN second = DOMAIN t /\ second[to] = [b EXCEPT !.parent = p]
       /\ \A n \in DOMAIN t : n # to => second[n] = first[n]
  BY <1>10, <1>12
<1>14. [b EXCEPT !.parent = p, !.title = title] =
          [title |-> title, parent |-> p, locals |-> b.locals, value |-> b.value]
  <2>1. PICK c : c = [b EXCEPT !.parent = p]
    OBVIOUS
  <2>2. c = [title |-> b.title, parent |-> p, locals |-> b.locals, value |-> b.value]
    BY <1>7, <2>1
  <2>3. [c EXCEPT !.title = title] =
           [title |-> title, parent |-> p, locals |-> b.locals, value |-> b.value]
    BY <2>2
  <2> QED
    BY <2>1, <2>3
<1>15. [a EXCEPT !.locals = locals] =
          [title |-> a.title, parent |-> a.parent, locals |-> locals, value |-> a.value]
  BY <1>7
<1>16. u = [second EXCEPT ![to].title = title]
  <2>1. u = [t EXCEPT ![p].locals = [@ EXCEPT ![slot] = to], ![to].parent = p, ![to].title = title]
    BY <1>1, <1>2, <1>3, <1>11 DEF replace
  <2>2. first = [t EXCEPT ![p].locals = [@ EXCEPT ![slot] = to]]
    BY <1>5, <1>8, <1>9
  <2>3. second = [first EXCEPT ![to].parent = p]
    BY <1>10, <1>12
  <2> QED
    BY <2>1, <2>2, <2>3
<1>17. /\ DOMAIN u = DOMAIN t
       /\ u[p] = [title |-> a.title, parent |-> a.parent, locals |-> locals, value |-> a.value]
       /\ u[to] = [title |-> title, parent |-> p, locals |-> b.locals, value |-> b.value]
       /\ \A n \in DOMAIN t : n # p /\ n # to => u[n] = t[n]
  <2>1. DOMAIN u = DOMAIN t /\ \A n \in DOMAIN t : n # to => u[n] = second[n]
    BY <1>13, <1>16
  <2>2. u[to] = [second[to] EXCEPT !.title = title]
    BY <1>13, <1>16
  <2>3. u[to] = [b EXCEPT !.parent = p, !.title = title]
    BY <1>13, <2>2
  <2> QED
    BY <1>1, <1>12, <1>13, <1>14, <1>15, <2>1, <2>3
<1>18. locals \in Seq(DOMAIN t)
  BY <1>4, <1>5, <1>7, <1>8
<1>19. Numbered(u)
  <2>1. NewNode(u) = NewNode(t)
    BY <1>17 DEF NewNode
  <2>2. IsNode(u, p)
    <3>1. PICK r : r = u[p]
      OBVIOUS
    <3>2. /\ r = [title |-> r.title, parent |-> r.parent, locals |-> r.locals, value |-> r.value]
          /\ r.locals = locals
      BY <1>17, <3>1
    <3> QED
      BY <1>17, <1>18, <3>1, <3>2 DEF IsNode
  <2>3. IsNode(u, to)
    <3>1. PICK r : r = u[to]
      OBVIOUS
    <3>2. /\ r = [title |-> r.title, parent |-> r.parent, locals |-> r.locals, value |-> r.value]
          /\ r.locals = b.locals
      BY <1>17, <3>1
    <3> QED
      BY <1>7, <1>17, <3>1, <3>2 DEF IsNode
  <2>4. \A n \in DOMAIN u : n # p /\ n # to => IsNode(u, n)
    BY <1>17 DEF Numbered, IsNode
  <2> QED
    BY <1>17, <2>1, <2>2, <2>3, <2>4 DEF Numbered
<1>20. /\ p \in DOMAIN t /\ to \in DOMAIN t /\ p # to
       /\ slot \in DOMAIN t[p].locals /\ t[p].locals[slot] = from
       /\ DOMAIN u = DOMAIN t
       /\ u[p].locals = [t[p].locals EXCEPT ![slot] = to]
       /\ u[to].parent = p /\ u[to].title = t[from].title
  BY <1>1, <1>4, <1>5, <1>8, <1>11, <1>17
<1>21. \A n \in DOMAIN t : /\ n # p => u[n].locals = t[n].locals
                           /\ n # to => u[n].parent = t[n].parent /\ u[n].title = t[n].title
                           /\ u[n].value = t[n].value
  BY <1>5, <1>6, <1>17
<1>22. Replaced(t, u, from, to, slot)
  BY <1>1, <1>20, <1>21 DEF Replaced
<1> QED
  BY <1>3, <1>19, <1>22

(* replace exchanges a node of the tree by one of the same path from a     *)
(* branch, which is no longer apart afterwards.                            *)
Exchanges(t, from, to, rt, S, s) ==
    /\ IsTree(t) /\ Apart(t, rt, S) /\ s \in S
    /\ from \in Nodes(t) /\ to \in Nodes(t) /\ Key(t, from) = Key(t, to)
    /\ Top(t, to) = rt[s] /\ Top(t, from) \notin Roots(rt, S)
    /\ from \in Tops(t) => t[from].parent = 0

(* Nodes of the same path are of the same level, with the same titles.     *)
LEMMA ExchangeFacts ==
  ASSUME NEW t, NEW from, NEW to, NEW rt, NEW S, NEW s, Exchanges(t, from, to, rt, S, s)
  PROVE  /\ from \in Tops(t) <=> to \in Tops(t)
         /\ from \in Dirs(t) <=> to \in Dirs(t)
         /\ from \in Leaves(t) <=> to \in Leaves(t)
         /\ from \in DOMAIN t /\ to \in DOMAIN t /\ to # from /\ to # 0 /\ to # 1
         /\ from \notin Tops(t) => t[from].title = t[to].title
         /\ from \in Leaves(t) => t[t[from].parent].title = t[t[to].parent].title
         /\ t[from].parent \in DOMAIN t /\ t[from].parent # to
         /\ from \in Tops(t) => to = rt[s]
<1>1. IsTree(t) /\ from \in Nodes(t) /\ to \in Nodes(t) /\ Key(t, from) = Key(t, to)
  BY DEF Exchanges
<1>2. /\ from \in Tops(t) <=> to \in Tops(t)
      /\ from \in Dirs(t) <=> to \in Dirs(t)
      /\ from \in Leaves(t) <=> to \in Leaves(t)
  BY <1>1, KeyLevels
<1>3. to # from
  BY DEF Exchanges, Apart, Roots
<1>4. from \in DOMAIN t /\ to \in DOMAIN t /\ to # 0 /\ to # 1
  BY <1>1, LevelFacts
<1>5. from \in Dirs(t) => t[from].title = t[to].title
  <2> SUFFICES ASSUME from \in Dirs(t)
               PROVE  t[from].title = t[to].title
    OBVIOUS
  <2>1. PICK a : a = t[from].title
    OBVIOUS
  <2>2. PICK b : b = t[to].title
    OBVIOUS
  <2>3. <<a>> = <<b>>
    BY <1>1, <1>2, <2>1, <2>2, NodeFacts
  <2> QED
    BY <2>1, <2>2, <2>3
<1>6. from \in Leaves(t) => /\ t[from].title = t[to].title
                            /\ t[t[from].parent].title = t[t[to].parent].title
  <2> SUFFICES ASSUME from \in Leaves(t)
               PROVE  /\ t[from].title = t[to].title
                      /\ t[t[from].parent].title = t[t[to].parent].title
    OBVIOUS
  <2>1. PICK a : a = t[from].title
    OBVIOUS
  <2>2. PICK b : b = t[to].title
    OBVIOUS
  <2>3. PICK c : c = t[t[from].parent].title
    OBVIOUS
  <2>4. PICK d : d = t[t[to].parent].title
    OBVIOUS
  <2>5. <<c, a>> = <<d, b>>
    BY <1>1, <1>2, <2>1, <2>2, <2>3, <2>4, NodeFacts
  <2>6. a = b /\ c = d
    BY <2>5
  <2> QED
    BY <2>1, <2>2, <2>3, <2>4, <2>6
<1>7. t[from].parent \in DOMAIN t /\ t[from].parent # to
  <2>1. CASE from \in Tops(t)
    BY <1>1, <1>4, <2>1, LevelFacts DEF Exchanges
  <2>2. CASE from \in Dirs(t)
    BY <1>1, <1>2, <2>2, LevelFacts, NodeFacts DEF Nodes
  <2>3. CASE from \in Leaves(t)
    BY <1>1, <1>2, <2>3, LevelFacts, NodeFacts DEF Nodes
  <2> QED
    BY <1>1, <2>1, <2>2, <2>3 DEF Nodes
<1>8. from \in Tops(t) => to = rt[s]
  BY <1>1, <1>2, NodeFacts DEF Exchanges
<1> QED
  BY <1>1, <1>2, <1>3, <1>4, <1>5, <1>6, <1>7, <1>8 DEF Nodes

(* All levels and paths stay; what moves is the node with what is below.   *)
LEMMA ExchangeLevels ==
  ASSUME NEW t, NEW u, NEW from, NEW to, NEW rt, NEW S, NEW s, NEW slot,
         Exchanges(t, from, to, rt, S, s), Replaced(t, u, from, to, slot)
  PROVE  /\ Tops(u) = Tops(t) /\ Dirs(u) = Dirs(t) /\ Leaves(u) = Leaves(t) /\ Nodes(u) = Nodes(t)
         /\ \A n \in Nodes(t) : Key(u, n) = Key(t, n)
         /\ \A n \in Nodes(t) : \/ Top(u, n) = Top(t, n)
                                \/ Top(t, n) = rt[s] /\ Top(u, n) = Top(t, from)
         /\ Top(u, to) = IF from \in Tops(t) THEN to ELSE Top(t, from)
<1>1. IsTree(t) /\ from \in Nodes(t) /\ to \in Nodes(t) /\ Top(t, to) = rt[s]
  BY DEF Exchanges
<1>2. PICK p : p = t[from].parent
  OBVIOUS
<1>3. /\ DOMAIN u = DOMAIN t /\ p \in DOMAIN t /\ p # to /\ to \in DOMAIN t
      /\ u[to].parent = p /\ u[to].title = t[from].title
      /\ \A n \in DOMAIN t : n # to => u[n].parent = t[n].parent /\ u[n].title = t[n].title
  BY <1>2 DEF Replaced
<1>4. /\ from \in Tops(t) <=> to \in Tops(t)
      /\ from \in Dirs(t) <=> to \in Dirs(t)
      /\ from \in Leaves(t) <=> to \in Leaves(t)
      /\ from \in DOMAIN t /\ to # from /\ to # 0 /\ to # 1
      /\ from \notin Tops(t) => t[from].title = t[to].title
      /\ from \in Leaves(t) => t[p].title = t[t[to].parent].title
  BY <1>2, ExchangeFacts
<1>5. /\ from \in Tops(t) => p = 0
      /\ from \in Dirs(t) => p \in Tops(t)
      /\ from \in Leaves(t) => p \in Dirs(t)
  BY <1>1, <1>2, NodeFacts DEF Exchanges
<1>6. p \in {0, 1} <=> from \in Tops(t)
  BY <1>1, <1>5, LevelFacts DEF Nodes
<1>7. p \in Tops(t) <=> from \in Dirs(t)
  BY <1>1, <1>5, LevelFacts DEF Nodes
<1>8. p \in Dirs(t) <=> from \in Leaves(t)
  BY <1>1, <1>5, LevelFacts DEF Nodes
<1>9. Tops(u) = Tops(t)
  BY <1>3, <1>4, <1>6 DEF Tops
<1>10. Dirs(u) = Dirs(t)
  BY <1>3, <1>4, <1>7, <1>9 DEF Dirs
<1>11. Leaves(u) = Leaves(t) /\ Nodes(u) = Nodes(t)
  BY <1>3, <1>4, <1>8, <1>9, <1>10 DEF Leaves, Nodes
<1>12. Nodes(t) \subseteq DOMAIN t
  BY <1>1, LevelFacts
<1>13. \A n \in Nodes(t) : n \notin Tops(t) => u[n].title = t[n].title
  BY <1>3, <1>4, <1>12
<1>14. \A n \in Leaves(t) : t[n].parent \in Dirs(t) /\ t[n].parent \notin Tops(t)
                            /\ t[n].parent \in Nodes(t)
  BY <1>1, NodeFacts, LevelFacts DEF Nodes
<1>15. \A n \in Nodes(t) : n \notin Tops(t) /\ n \notin Dirs(t) => n \in Leaves(t)
  BY DEF Nodes
<1>16. ASSUME NEW n \in Nodes(t)
       PROVE  Key(u, n) = Key(t, n)
  <2>1. CASE n \in Tops(t) \/ n \in Dirs(t)
    BY <1>1, <1>9, <1>10, <1>13, <2>1, LevelFacts DEF Key
  <2>2. CASE n \in Leaves(t)
    <3>1. n \notin Tops(t) /\ n \notin Dirs(t) /\ u[n].title = t[n].title
      BY <1>1, <1>13, <2>2, LevelFacts
    <3>2. u[u[n].parent].title = t[t[n].parent].title
      <4>1. CASE n = to
        <5>1. p \in Nodes(t) /\ p \notin Tops(t)
          BY <1>1, <1>4, <1>5, <2>2, <4>1, LevelFacts DEF Nodes
        <5> QED
          BY <1>3, <1>4, <1>13, <2>2, <4>1, <5>1
      <4>2. CASE n # to
        BY <1>3, <1>12, <1>13, <1>14, <2>2, <4>2
      <4> QED
        BY <4>1, <4>2
    <3> QED
      BY <1>9, <1>10, <3>1, <3>2 DEF Key
  <2> QED
    BY <1>15, <2>1, <2>2
<1>17. ASSUME NEW n \in Nodes(t)
       PROVE  \/ Top(u, n) = Top(t, n)
              \/ Top(t, n) = rt[s] /\ Top(u, n) = Top(t, from)
  <2>1. CASE n \in Tops(t)
    BY <1>9, <2>1 DEF Top
  <2>2. CASE n \in Dirs(t)
    <3>1. Top(u, n) = u[n].parent /\ Top(t, n) = t[n].parent
      BY <1>1, <1>9, <1>10, <2>2, LevelFacts DEF Top
    <3>2. n = to => Top(t, from) = p
      BY <1>1, <1>2, <1>4, <2>2, NodeFacts
    <3> QED
      BY <1>1, <1>3, <1>12, <3>1, <3>2
  <2>3. CASE n \in Leaves(t)
    <3>1. Top(u, n) = u[u[n].parent].parent /\ Top(t, n) = t[t[n].parent].parent
      BY <1>1, <1>9, <1>10, <2>3, LevelFacts DEF Top
    <3>2. CASE n = to
      <4>1. Top(t, from) = t[p].parent
        BY <1>1, <1>2, <1>4, <2>3, <3>2, NodeFacts
      <4> QED
        BY <1>1, <1>3, <3>1, <3>2, <4>1
    <3>3. CASE n # to /\ t[n].parent = to
      <4>1. to \in Dirs(t) /\ Top(t, to) = t[to].parent /\ Top(t, from) = p
        BY <1>1, <1>2, <1>4, <1>14, <2>3, <3>3, NodeFacts
      <4> QED
        BY <1>1, <1>3, <1>12, <3>1, <3>3, <4>1
    <3>4. CASE n # to /\ t[n].parent # to
      BY <1>3, <1>12, <1>14, <2>3, <3>1, <3>4
    <3> QED
      BY <3>2, <3>3, <3>4
  <2> QED
    BY <1>15, <2>1, <2>2, <2>3
<1>18. Top(u, to) = IF from \in Tops(t) THEN to ELSE Top(t, from)
  <2>1. CASE from \in Tops(t)
    BY <1>4, <1>9, <2>1 DEF Top
  <2>2. CASE from \in Dirs(t)
    <3>1. Top(u, to) = u[to].parent /\ Top(t, from) = p /\ from \notin Tops(t)
      BY <1>1, <1>2, <1>4, <1>9, <1>10, <2>2, LevelFacts, NodeFacts DEF Top
    <3> QED
      BY <1>3, <3>1
  <2>3. CASE from \in Leaves(t)
    <3>1. /\ Top(u, to) = u[u[to].parent].parent /\ Top(t, from) = t[p].parent
          /\ from \notin Tops(t)
      BY <1>1, <1>2, <1>4, <1>9, <1>10, <2>3, LevelFacts, NodeFacts DEF Top
    <3> QED
      BY <1>3, <3>1
  <2> QED
    BY <1>1, <2>1, <2>2, <2>3 DEF Nodes
<1> QED
  BY <1>9, <1>10, <1>11, <1>16, <1>17, <1>18

(* What every node lists: only the parent of from lists something new.     *)
LEMMA ExchangeLocals ==
  ASSUME NEW t, NEW u, NEW from, NEW to, NEW rt, NEW S, NEW s, NEW slot,
         Exchanges(t, from, to, rt, S, s), Replaced(t, u, from, to, slot)
  PROVE  /\ \A n \in DOMAIN t : n # t[from].parent => Locals(u, n) = Locals(t, n)
         /\ Locals(u, t[from].parent) \subseteq Locals(t, t[from].parent) \union {to}
         /\ Locals(t, t[from].parent) \subseteq Locals(u, t[from].parent) \union {from}
         /\ to \in Locals(u, t[from].parent)
<1>1. PICK p : p = t[from].parent
  OBVIOUS
<1>2. PICK a : a = t[p].locals
  OBVIOUS
<1>3. PICK b : b = u[p].locals
  OBVIOUS
<1>4. slot \in DOMAIN a /\ a[slot] = from /\ b = [a EXCEPT ![slot] = to] /\ p \in DOMAIN t
  BY <1>1, <1>2, <1>3 DEF Replaced
<1>5. a \in Seq(DOMAIN t)
  BY <1>2, <1>4 DEF Exchanges, IsTree, Numbered, IsNode
<1>6. DOMAIN b = DOMAIN a /\ b[slot] = to /\ \A i \in DOMAIN a : i # slot => b[i] = a[i]
  BY <1>4, <1>5
<1>7. Locals(t, p) = {a[i] : i \in DOMAIN a} /\ Locals(u, p) = {b[i] : i \in DOMAIN b}
  BY <1>2, <1>3 DEF Locals
<1>8. \A n \in DOMAIN t : n # p => Locals(u, n) = Locals(t, n)
  BY <1>1 DEF Replaced, Locals
<1> QED
  BY <1>1, <1>4, <1>6, <1>7, <1>8

(* The tree stays one, and to is master if from was.                       *)
LEMMA ExchangeTree ==
  ASSUME NEW t, NEW u, NEW from, NEW to, NEW rt, NEW S, NEW s, NEW slot, Numbered(u),
         Exchanges(t, from, to, rt, S, s), Replaced(t, u, from, to, slot)
  PROVE  /\ IsTree(u) /\ Keeps(t, u)
         /\ from \in Tops(t) => u[to].parent = 0
         /\ \A n \in Tops(t) : n # to => u[n].parent = t[n].parent
         /\ from \notin Tops(t) => MasterOf(u) = MasterOf(t)
         /\ from \in Tops(t) => MasterOf(u) = to /\ from = MasterOf(t)
<1>1. IsTree(t) /\ from \in Nodes(t) /\ to \in Nodes(t) /\ Top(t, to) = rt[s]
  BY DEF Exchanges
<1>2. PICK p : p = t[from].parent
  OBVIOUS
<1>3. /\ DOMAIN u = DOMAIN t /\ p \in DOMAIN t /\ p # to /\ to \in DOMAIN t
      /\ slot \in DOMAIN t[p].locals /\ t[p].locals[slot] = from
      /\ u[p].locals = [t[p].locals EXCEPT ![slot] = to]
      /\ u[to].parent = p /\ u[to].title = t[from].title
      /\ \A n \in DOMAIN t : /\ n # p => u[n].locals = t[n].locals
                             /\ n # to => u[n].parent = t[n].parent /\ u[n].title = t[n].title
                             /\ u[n].value = t[n].value
  BY <1>2 DEF Replaced
<1>4. /\ from \in Tops(t) <=> to \in Tops(t)
      /\ from \in Dirs(t) <=> to \in Dirs(t)
      /\ from \in Leaves(t) <=> to \in Leaves(t)
      /\ from \in DOMAIN t /\ to # from /\ to # 0 /\ to # 1
      /\ from \notin Tops(t) => t[from].title = t[to].title
      /\ from \in Tops(t) => to = rt[s]
  BY <1>2, ExchangeFacts
<1>5. /\ from \in Tops(t) => p = 0
      /\ from \in Dirs(t) => p \in Tops(t)
      /\ from \in Leaves(t) => p \in Dirs(t)
  BY <1>1, <1>2, NodeFacts DEF Exchanges
<1>6. /\ Tops(u) = Tops(t) /\ Dirs(u) = Dirs(t) /\ Leaves(u) = Leaves(t) /\ Nodes(u) = Nodes(t)
      /\ \A n \in Nodes(t) : Key(u, n) = Key(t, n)
  BY ExchangeLevels
<1>7. /\ \A n \in DOMAIN t : n # p => Locals(u, n) = Locals(t, n)
      /\ Locals(u, p) \subseteq Locals(t, p) \union {to}
  BY <1>2, ExchangeLocals
<1>8. /\ 0 \in DOMAIN t /\ 1 \in DOMAIN t /\ Nodes(t) \subseteq DOMAIN t
      /\ 0 \notin Nodes(t) /\ 1 \notin Nodes(t)
  BY <1>1, LevelFacts
<1>9. /\ t[0].parent = Null /\ t[1].parent = 0 /\ t[1].title # "master"
      /\ Len(t[0].locals) = 2 /\ t[0].locals[1] = 1 /\ t[0].locals[2] = MasterOf(t)
      /\ MasterOf(t) \in Tops(t) /\ t[MasterOf(t)].parent = 0 /\ t[MasterOf(t)].title = "master"
      /\ Locals(t, 1) \subseteq Tops(t) /\ t[0].locals \in Seq(DOMAIN t)
  BY <1>1, <1>8 DEF IsTree, Rooted, MasterOf, Numbered, IsNode
<1>10. from \in Tops(t) => /\ slot = 2 /\ from = MasterOf(t)
                           /\ u[0].locals = [t[0].locals EXCEPT ![2] = to]
  <2>1. from \in Tops(t) => slot \in {1, 2}
    BY <1>3, <1>5, <1>9
  <2> QED
    BY <1>1, <1>3, <1>5, <1>8, <1>9, <2>1 DEF Nodes
<1>11. from \in Tops(t) => /\ Len(u[0].locals) = 2 /\ u[0].locals[1] = 1 /\ MasterOf(u) = to
                           /\ u[to].parent = 0 /\ u[to].title = "master"
  BY <1>3, <1>5, <1>9, <1>10 DEF MasterOf
<1>12. from \notin Tops(t) => /\ Len(u[0].locals) = 2 /\ u[0].locals[1] = 1
                              /\ MasterOf(u) = MasterOf(t)
  <2>1. from \notin Tops(t) => p \in Nodes(t)
    BY <1>1, <1>5 DEF Nodes
  <2> QED
    BY <1>3, <1>8, <1>9, <2>1 DEF MasterOf
<1>13. p # 1
  BY <1>1, <1>5, <1>8 DEF Nodes
<1>14. Rooted(u)
  <2>1. /\ u[0].parent = Null /\ u[1].parent = 0 /\ u[1].title # "master"
        /\ Locals(u, 1) \subseteq Tops(u)
    BY <1>3, <1>4, <1>6, <1>7, <1>8, <1>9, <1>13
  <2>2. /\ MasterOf(u) \in Tops(u) /\ u[MasterOf(u)].parent = 0
        /\ u[MasterOf(u)].title = "master"
    <3>1. CASE from \in Tops(t)
      BY <1>4, <1>6, <1>11, <3>1
    <3>2. CASE from \notin Tops(t)
      <4>1. MasterOf(t) # to /\ MasterOf(t) \in DOMAIN t
        BY <1>4, <1>8, <1>9, <3>2 DEF Nodes
      <4> QED
        BY <1>3, <1>6, <1>9, <1>12, <3>2, <4>1
    <3> QED
      BY <3>1, <3>2
  <2> QED
    BY <1>3, <1>8, <1>11, <1>12, <2>1, <2>2 DEF Rooted
<1>15. Levels(u)
  <2>1. Levels(t)
    BY <1>1 DEF IsTree
  <2>2. \A n \in Tops(u) : Locals(u, n) \subseteq Dirs(u)
    <3>1. ASSUME NEW n \in Tops(t)
          PROVE  Locals(u, n) \subseteq Dirs(t)
      <4>1. Locals(t, n) \subseteq Dirs(t) /\ n \in DOMAIN t
        BY <1>8, <2>1 DEF Levels, Nodes
      <4>2. n = p => to \in Dirs(t)
        BY <1>1, <1>4, <1>5, <1>8, LevelFacts DEF Nodes
      <4> QED
        BY <1>7, <4>1, <4>2
    <3> QED
      BY <1>6, <3>1
  <2>3. ASSUME NEW n \in Dirs(u)
        PROVE  /\ Locals(u, n) \subseteq Leaves(u)
               /\ \A m \in Locals(u, n) : u[u[m].parent].title = u[n].title
    <3>1. /\ n \in Dirs(t) /\ n \in DOMAIN t /\ Locals(t, n) \subseteq Leaves(t)
          /\ \A m \in Locals(t, n) : t[t[m].parent].title = t[n].title
      BY <1>6, <1>8, <2>1 DEF Levels, Nodes
    <3>2. n = p => to \in Leaves(t)
      BY <1>1, <1>4, <1>5, <1>8, <3>1, LevelFacts DEF Nodes
    <3>3. Locals(u, n) \subseteq Leaves(t)
      BY <1>7, <3>1, <3>2
    <3>4. u[n].title = t[n].title
      BY <1>1, <1>3, <1>4, <3>1, LevelFacts
    <3>5. ASSUME NEW m \in Leaves(t), t[t[m].parent].title = t[n].title, m # to
          PROVE  u[u[m].parent].title = t[n].title
      <4>1. /\ m \in DOMAIN t /\ u[m].parent = t[m].parent
            /\ t[m].parent \in Dirs(t) /\ t[m].parent \in DOMAIN t /\ t[m].parent \notin Tops(t)
        BY <1>1, <1>3, <1>8, <3>5, NodeFacts, LevelFacts DEF Nodes
      <4>2. u[t[m].parent].title = t[t[m].parent].title
        BY <1>3, <1>4, <4>1
      <4> QED
        BY <3>5, <4>1, <4>2
    <3>6. to \in Locals(u, n) => u[u[to].parent].title = t[n].title
      <4>1. CASE n = p
        BY <1>3, <3>4, <4>1
      <4>2. CASE n # p
        <5> SUFFICES ASSUME to \in Locals(u, n)
                     PROVE  u[u[to].parent].title = t[n].title
          OBVIOUS
        <5>1. to \in Locals(t, n) /\ to \in Leaves(t) /\ from \in Leaves(t)
          BY <1>4, <1>7, <3>1, <4>2
        <5>2. t[p].title = t[t[to].parent].title
          BY <1>2, <5>1, ExchangeFacts
        <5> QED
          BY <1>3, <3>1, <5>1, <5>2
      <4> QED
        BY <4>1, <4>2
    <3>7. ASSUME NEW m \in Locals(u, n), m # to
          PROVE  m \in Leaves(t) /\ t[t[m].parent].title = t[n].title
      BY <1>7, <3>1, <3>7
    <3> QED
      BY <1>6, <3>3, <3>4, <3>5, <3>6, <3>7
  <2>4. \A n \in Leaves(u) : u[n].locals = <<>>
    <3>1. p \notin Leaves(t)
      BY <1>1, <1>5, <1>8, LevelFacts DEF Nodes
    <3> QED
      BY <1>3, <1>6, <1>8, <2>1, <3>1 DEF Levels, Nodes
  <2> QED
    BY <1>3, <1>6, <2>1, <2>2, <2>3, <2>4 DEF Levels
<1>16. ValuesPlaced(u)
  <2>1. ValuesPlaced(t)
    BY <1>1 DEF IsTree
  <2> QED
    BY <1>3, <1>6, <1>8, <2>1 DEF ValuesPlaced, Nodes
<1>17. \A n \in Tops(t) : n # to => u[n].parent = t[n].parent
  BY <1>3, <1>8 DEF Nodes
<1>18. \A n \in Tops(t) : t[n].parent = 0 => u[n].parent = 0
  BY <1>3, <1>4, <1>5, <1>17
<1> QED
  BY <1>6, <1>10, <1>11, <1>12, <1>14, <1>15, <1>16, <1>17, <1>18 DEF IsTree, Keeps

(* A local that is linked both ways is in the same branch.                 *)
LEMMA LinkedTops ==
  ASSUME NEW t, IsTree(t), NEW n \in Nodes(t), NEW m \in Locals(t, n), t[m].parent = n
  PROVE  Top(t, m) = Top(t, n)
<1>1. CASE n \in Tops(t)
  BY <1>1, NodeFacts DEF IsTree, Levels
<1>2. CASE n \in Dirs(t)
  BY <1>2, NodeFacts DEF IsTree, Levels
<1>3. CASE n \in Leaves(t)
  BY <1>3 DEF IsTree, Levels, Locals
<1> QED
  BY <1>1, <1>2, <1>3 DEF Nodes

(* The other branches stay apart; what was listed in the merged one may    *)
(* now be anywhere but in another branch.                                  *)
LEMMA ExchangeApart ==
  ASSUME NEW t, NEW u, NEW from, NEW to, NEW rt, NEW S, NEW s, NEW slot,
         Exchanges(t, from, to, rt, S, s), Replaced(t, u, from, to, slot), IsTree(u)
  PROVE  /\ Apart(u, rt, S \ {s})
         /\ \A w \in S \ {s} : \A n \in Nodes(t) : Top(u, n) = rt[w] <=> Top(t, n) = rt[w]
         /\ \A n \in Nodes(t) : Top(t, n) \notin Roots(rt, S) => Top(u, n) = Top(t, n)
<1>1. /\ IsTree(t) /\ Apart(t, rt, S) /\ s \in S /\ from \in Nodes(t) /\ to \in Nodes(t)
      /\ Top(t, to) = rt[s] /\ Top(t, from) \notin Roots(rt, S)
  BY DEF Exchanges
<1>2. PICK p : p = t[from].parent
  OBVIOUS
<1>3. DOMAIN u = DOMAIN t /\ \A n \in DOMAIN t : n # to => u[n].parent = t[n].parent
  BY DEF Replaced
<1>4. /\ Tops(u) = Tops(t) /\ Nodes(u) = Nodes(t)
      /\ \A n \in Nodes(t) : \/ Top(u, n) = Top(t, n)
                             \/ Top(t, n) = rt[s] /\ Top(u, n) = Top(t, from)
      /\ Top(u, to) = IF from \in Tops(t) THEN to ELSE Top(t, from)
  BY ExchangeLevels
<1>5. /\ \A n \in DOMAIN t : n # p => Locals(u, n) = Locals(t, n)
      /\ Locals(u, p) \subseteq Locals(t, p) \union {to}
  BY <1>2, ExchangeLocals
<1>6. /\ S \subseteq Session
      /\ \A w \in Session : rt[w] # Null => rt[w] \in Tops(t)
      /\ \A w, v \in Session : w # v /\ rt[w] # Null => rt[w] # rt[v]
      /\ \A w \in S : rt[w] # Null /\ t[rt[w]].parent = 1 /\ Linked(t, rt[w])
      /\ \A n \in Nodes(t) : Top(t, n) \notin Roots(rt, S) =>
            \A m \in Locals(t, n) : Top(t, m) \notin Roots(rt, S)
  BY <1>1 DEF Apart
<1>7. Nodes(t) \subseteq DOMAIN t /\ 0 \notin Nodes(t)
  BY <1>1, LevelFacts
<1>8. \A w \in S \ {s} : rt[w] # rt[s] /\ rt[w] \in Roots(rt, S)
  BY <1>1, <1>6 DEF Roots
<1>9. \A w \in S \ {s} : \A n \in Nodes(t) : Top(u, n) = rt[w] <=> Top(t, n) = rt[w]
  BY <1>1, <1>4, <1>8
<1>10. rt[s] \notin Roots(rt, S \ {s}) /\ Roots(rt, S \ {s}) \subseteq Roots(rt, S)
       /\ Roots(rt, S) \subseteq Roots(rt, S \ {s}) \union {rt[s]}
  BY <1>8 DEF Roots
<1>11. p \in Nodes(t) => Top(t, p) \notin Roots(rt, S) /\ Top(t, p) = Top(t, from)
  <2> SUFFICES ASSUME p \in Nodes(t)
               PROVE  Top(t, p) = Top(t, from)
    BY <1>1
  <2>1. CASE from \in Tops(t)
    BY <1>2, <1>7, <2>1 DEF Exchanges
  <2>2. CASE from \in Dirs(t)
    BY <1>1, <1>2, <2>2, NodeFacts
  <2>3. CASE from \in Leaves(t)
    BY <1>1, <1>2, <2>3, NodeFacts
  <2> QED
    BY <1>1, <2>1, <2>2, <2>3 DEF Nodes
<1>12. ASSUME NEW w \in S \ {s}
       PROVE  u[rt[w]].parent = 1 /\ Linked(u, rt[w])
  <2>1. rt[w] \in Tops(t) /\ rt[w] \in DOMAIN t /\ t[rt[w]].parent = 1 /\ Linked(t, rt[w])
    BY <1>6 DEF Tops
  <2>2. rt[w] # to
    BY <1>1, <1>8, <2>1, NodeFacts
  <2>3. ASSUME NEW n \in Nodes(t), Top(t, n) = rt[w], NEW m \in Locals(u, n)
        PROVE  u[m].parent = n
    <3>1. n # p
      BY <1>8, <1>11, <2>3
    <3>2. m \in Locals(t, n) /\ t[m].parent = n
      BY <1>5, <1>7, <2>1, <2>3, <3>1 DEF Linked
    <3>3. m # to
      BY <1>1, <1>8, <2>3, <3>2, LinkedTops
    <3>4. m \in DOMAIN t
      BY <1>1, <1>7, <3>2, LocalsAreNodes
    <3> QED
      BY <1>3, <3>2, <3>3, <3>4
  <2>4. Linked(u, rt[w])
    BY <1>4, <1>9, <2>3 DEF Linked
  <2> QED
    BY <1>3, <2>1, <2>2, <2>4
<1>13. ASSUME NEW n \in Nodes(t), Top(u, n) \notin Roots(rt, S \ {s}), NEW m \in Locals(u, n)
       PROVE  Top(u, m) \notin Roots(rt, S \ {s})
  <2>1. CASE m = to
    <3>1. from \in Tops(t) => to = rt[s]
      BY ExchangeFacts
    <3> QED
      BY <1>1, <1>4, <1>10, <2>1, <3>1
  <2>2. CASE m # to
    <3>1. m \in Locals(t, n) /\ m \in Nodes(t)
      BY <1>1, <1>5, <1>7, <2>2, LocalsAreNodes
    <3>2. CASE Top(t, m) \notin Roots(rt, S \ {s})
      BY <1>1, <1>4, <1>10, <3>1, <3>2
    <3>3. CASE Top(t, m) \in Roots(rt, S \ {s})
      <4>1. Top(t, n) \in Roots(rt, S)
        BY <1>6, <1>10, <3>1, <3>3
      <4>2. PICK w \in S : Top(t, n) = rt[w]
        BY <4>1 DEF Roots
      <4>3. w = s
        BY <1>9, <1>13, <4>2 DEF Roots
      <4>4. t[m].parent = n
        BY <1>6, <3>1, <4>2 DEF Linked
      <4>5. Top(t, m) = rt[s]
        BY <1>1, <3>1, <4>2, <4>3, <4>4, LinkedTops
      <4> QED
        BY <1>10, <3>3, <4>5
    <3> QED
      BY <3>2, <3>3
  <2> QED
    BY <2>1, <2>2
<1>14. Apart(u, rt, S \ {s})
  BY <1>4, <1>6, <1>12, <1>13 DEF Apart
<1>15. \A n \in Nodes(t) : Top(t, n) \notin Roots(rt, S) => Top(u, n) = Top(t, n)
  BY <1>1, <1>4 DEF Roots
<1> QED
  BY <1>9, <1>14, <1>15

-----------------------------------------------------------------------------
(* getPath of a node below a root is its path.                             *)
LEMMA getPathFacts ==
  ASSUME NEW t, IsTree(t), NEW r \in Tops(t), NEW file \in Nodes(t), Top(t, file) = r
  PROVE  getPath(t, r, file) = Key(t, file)
<1> DEFINE F(f) == [n \in DOMAIN t |-> IF t[n].parent = Null \/ n = r THEN <<>>
                                       ELSE Append(f[t[n].parent], t[n].title)]
           first  == Append(<<>>, t[1].title)
           top(n) == IF n = r THEN <<>>
                     ELSE Append(IF t[n].parent = 0 THEN <<>> ELSE first, t[n].title)
           dir(n) == Append(top(t[n].parent), t[n].title)
           G == [n \in DOMAIN t |-> IF n = 0 THEN <<>> ELSE IF n = 1 THEN first
                                    ELSE IF n \in Tops(t) THEN top(n)
                                    ELSE IF n \in Dirs(t) THEN dir(n)
                                    ELSE Append(dir(t[n].parent), t[n].title)]
           Titles == CHOOSE f : f = F(f)
<1>1. getPath(t, r, file) = Titles[file]
  BY DEF getPath
<1>2. /\ t[0].parent = Null /\ t[1].parent = 0 /\ 0 # Null /\ 1 # Null
      /\ DOMAIN t = {0, 1} \union Nodes(t)
  BY BranchAssumption DEF BranchAssumption, IsTree, Rooted, Levels
<1>3. /\ 0 \notin Nodes(t) /\ 1 \notin Nodes(t) /\ Null \notin DOMAIN t
      /\ 0 \in DOMAIN t /\ 1 \in DOMAIN t /\ Nodes(t) \subseteq DOMAIN t
  BY LevelFacts
<1>4. r # 0 /\ r # 1 /\ r \in DOMAIN t
  BY <1>3 DEF Nodes
<1> HIDE DEF first
<1>5. first = Append(<<>>, t[1].title)
  BY DEF first
<1> HIDE DEF top
<1>6. \A n : top(n) = IF n = r THEN <<>>
                      ELSE Append(IF t[n].parent = 0 THEN <<>> ELSE first, t[n].title)
  BY DEF top
<1> HIDE DEF dir
<1>7. \A n : dir(n) = Append(top(t[n].parent), t[n].title)
  BY DEF dir
<1>8. ASSUME NEW n \in DOMAIN t
      PROVE  G[n] = F(G)[n]
  <2>1. CASE n = 0
    BY <1>2, <2>1
  <2>2. CASE n = 1
    BY <1>2, <1>3, <1>4, <1>5, <2>2
  <2>3. CASE n \in Tops(t)
    <3>1. n # 0 /\ n # 1 /\ n \in DOMAIN t /\ t[n].parent \in {0, 1}
      BY <1>3, <2>3 DEF Nodes, Tops
    <3>2. G[n] = top(n) /\ G[0] = <<>> /\ G[1] = first
      BY <1>3, <2>3, <3>1
    <3> QED
      BY <1>2, <1>6, <3>1, <3>2
  <2>4. CASE n \in Dirs(t)
    <3>1. n # 0 /\ n # 1 /\ n \notin Tops(t) /\ t[n].parent \in Tops(t) /\ n # r
      BY <1>3, <2>4, LevelFacts DEF Nodes, Dirs
    <3>2. t[n].parent # 0 /\ t[n].parent # 1 /\ t[n].parent # Null /\ t[n].parent \in DOMAIN t
      BY <1>3, <3>1 DEF Nodes
    <3>3. G[n] = dir(n) /\ G[t[n].parent] = top(t[n].parent)
      BY <2>4, <3>1, <3>2
    <3> QED
      BY <1>7, <3>1, <3>2, <3>3
  <2>5. CASE n \in Leaves(t)
    <3>1. /\ n # 0 /\ n # 1 /\ n \notin Tops(t) /\ n \notin Dirs(t) /\ n # r
          /\ t[n].parent \in Dirs(t) /\ t[n].parent \notin Tops(t)
      BY <1>3, <2>5, LevelFacts DEF Nodes, Leaves
    <3>2. t[n].parent # 0 /\ t[n].parent # 1 /\ t[n].parent # Null /\ t[n].parent \in DOMAIN t
      BY <1>3, <3>1 DEF Nodes
    <3>3. /\ G[n] = Append(dir(t[n].parent), t[n].title)
          /\ G[t[n].parent] = dir(t[n].parent)
      BY <3>1, <3>2
    <3> QED
      BY <3>1, <3>2, <3>3
  <2> QED
    BY <1>2, <2>1, <2>2, <2>3, <2>4, <2>5 DEF Nodes
<1>9. G = F(G)
  <2>1. G = [n \in DOMAIN t |-> G[n]]
    OBVIOUS
  <2>2. F(G) = [n \in DOMAIN t |-> F(G)[n]]
    OBVIOUS
  <2> HIDE DEF F, G
  <2> QED
    BY <1>8, <2>1, <2>2
<1>10. Titles = F(Titles)
  <2> HIDE DEF F, G
  <2> QED
    BY <1>9
<1> HIDE DEF Titles, G
<1>11. Titles[r] = <<>>
  BY <1>4, <1>10
<1>12. CASE file \in Tops(t)
  BY <1>1, <1>11, <1>12, NodeFacts
<1>13. ASSUME NEW n \in Dirs(t), t[n].parent = r
       PROVE  Titles[n] = <<t[n].title>>
  <2>1. n # r /\ r # Null /\ n \in DOMAIN t
    BY <1>3, <1>4, LevelFacts DEF Nodes
  <2>2. Titles[n] = Append(Titles[r], t[n].title)
    BY <1>10, <1>13, <2>1
  <2> QED
    BY <1>11, <2>2
<1>14. CASE file \in Dirs(t)
  BY <1>1, <1>13, <1>14, NodeFacts
<1>15. CASE file \in Leaves(t)
  <2>1. PICK d : d = t[file].parent
    OBVIOUS
  <2>2. d \in Dirs(t) /\ t[d].parent = r /\ file # r /\ d # Null /\ file \in DOMAIN t
    BY <1>3, <1>15, <2>1, LevelFacts, NodeFacts DEF Nodes
  <2>3. Titles[file] = Append(Titles[d], t[file].title)
    BY <1>10, <2>1, <2>2
  <2>4. PICK a : a = t[d].title
    OBVIOUS
  <2>5. PICK b : b = t[file].title
    OBVIOUS
  <2>6. Append(<<a>>, b) = <<a, b>>
    <3>1. <<a>> \in Seq({a, b}) /\ b \in {a, b} /\ <<a, b>> \in Seq({a, b})
      OBVIOUS
    <3>2. PICK s : s = Append(<<a>>, b)
      OBVIOUS
    <3>3. s \in Seq({a, b}) /\ Len(s) = 2 /\ s[1] = a /\ s[2] = b
      BY <3>1, <3>2, AppendProperties
    <3>4. s = <<s[1], s[2]>>
      BY <3>3
    <3> QED
      BY <3>2, <3>3, <3>4
  <2>7. Titles[d] = <<a>>
    BY <1>13, <2>2, <2>4
  <2>8. Titles[file] = <<t[d].title, t[file].title>>
    BY <2>3, <2>4, <2>5, <2>6, <2>7
  <2> QED
    BY <1>1, <1>15, <2>1, <2>8, NodeFacts
<1> QED
  BY <1>12, <1>14, <1>15 DEF Nodes

(* findPackage goes down as long as there is one local.                    *)
Package(t, r) ==
    LET d == t[r].locals[1]
    IN  IF Len(t[r].locals) # 1 THEN r ELSE IF Len(t[d].locals) # 1 THEN d ELSE t[d].locals[1]

(* findPackage does that.                                                  *)
LEMMA findPackageFacts ==
  ASSUME IsTree(tree), NEW r \in Tops(tree)
  PROVE  findPackage(r) = Package(tree, r)
<1>1. PICK t : t = tree
  OBVIOUS
<1> DEFINE F(f) == [n \in DOMAIN t |-> IF Len(t[n].locals) = 1 THEN f[t[n].locals[1]] ELSE n]
           dir(n) == IF Len(t[n].locals) = 1 THEN t[n].locals[1] ELSE n
           top(n) == IF Len(t[n].locals) = 1 THEN dir(t[n].locals[1]) ELSE n
           G == [n \in DOMAIN t |-> IF n \in Leaves(t) THEN n ELSE IF n \in Dirs(t) THEN dir(n)
                                    ELSE IF n \in Tops(t) THEN top(n) ELSE IF n = 0 THEN 0
                                    ELSE IF Len(t[1].locals) = 1 THEN top(t[1].locals[1]) ELSE 1]
           Found == CHOOSE f : f = F(f)
<1>2. findPackage(r) = Found[r]
  BY <1>1 DEF findPackage
<1>3. IsTree(t) /\ r \in Tops(t)
  BY <1>1
<1>4. /\ 0 \in DOMAIN t /\ 1 \in DOMAIN t /\ Nodes(t) \subseteq DOMAIN t
      /\ 0 \notin Nodes(t) /\ 1 \notin Nodes(t)
      /\ DOMAIN t = {0, 1} \union Nodes(t) /\ Len(t[0].locals) = 2
  BY <1>3, LevelFacts DEF IsTree, Levels, Rooted
<1>5. \A n \in DOMAIN t : Len(t[n].locals) = 1 => t[n].locals[1] \in Locals(t, n)
  BY <1>3 DEF IsTree, Numbered, IsNode, Locals
<1>6. /\ \A n \in Tops(t) : Len(t[n].locals) = 1 => t[n].locals[1] \in Dirs(t)
      /\ \A n \in Dirs(t) : Len(t[n].locals) = 1 => t[n].locals[1] \in Leaves(t)
      /\ \A n \in Leaves(t) : Len(t[n].locals) = 0
      /\ Len(t[1].locals) = 1 => t[1].locals[1] \in Tops(t)
  <2>1. Len(<<>>) = 0
    OBVIOUS
  <2> QED
    BY <1>3, <1>4, <1>5, <2>1 DEF IsTree, Levels, Rooted, Nodes
<1>7. \A n : dir(n) = IF Len(t[n].locals) = 1 THEN t[n].locals[1] ELSE n
  OBVIOUS
<1> HIDE DEF dir
<1>8. \A n : top(n) = IF Len(t[n].locals) = 1 THEN dir(t[n].locals[1]) ELSE n
  OBVIOUS
<1> HIDE DEF top
<1>9. ASSUME NEW n \in DOMAIN t
      PROVE  G[n] = F(G)[n]
  <2>1. CASE n = 0
    BY <1>4, <2>1 DEF Nodes
  <2>2. CASE n \in Leaves(t)
    BY <1>6, <2>2
  <2>3. CASE n \in Dirs(t)
    <3>1. n \notin Leaves(t) /\ \A m \in Leaves(t) : m \in DOMAIN t
      BY <1>3, <1>4, <2>3, LevelFacts DEF Nodes
    <3>2. G[n] = dir(n) /\ \A m \in Leaves(t) : G[m] = m
      BY <2>3, <3>1
    <3> QED
      BY <1>6, <1>7, <2>3, <3>2
  <2>4. CASE n \in Tops(t)
    <3>1. n \notin Leaves(t) /\ n \notin Dirs(t)
          /\ \A m \in Dirs(t) : m \in DOMAIN t /\ m \notin Leaves(t)
      BY <1>3, <1>4, <2>4, LevelFacts DEF Nodes
    <3>2. G[n] = top(n) /\ \A m \in Dirs(t) : G[m] = dir(m)
      BY <2>4, <3>1
    <3> QED
      BY <1>6, <1>8, <2>4, <3>2
  <2>5. CASE n = 1
    <3>1. /\ 1 \notin Leaves(t) /\ 1 \notin Dirs(t) /\ 1 \notin Tops(t)
          /\ \A m \in Tops(t) : m \in DOMAIN t /\ m \notin Leaves(t) /\ m \notin Dirs(t)
      BY <1>3, <1>4, LevelFacts DEF Nodes
    <3>2. /\ G[1] = IF Len(t[1].locals) = 1 THEN top(t[1].locals[1]) ELSE 1
          /\ \A m \in Tops(t) : G[m] = top(m)
      BY <1>4, <3>1
    <3> QED
      BY <1>6, <2>5, <3>2
  <2> QED
    BY <1>4, <2>1, <2>2, <2>3, <2>4, <2>5 DEF Nodes
<1>10. G = F(G)
  BY <1>9
<1>11. Found = F(Found)
  <2> HIDE DEF F, G
  <2> QED
    BY <1>10
<1> HIDE DEF Found, G
<1>12. \A n \in DOMAIN t : Found[n] = IF Len(t[n].locals) = 1 THEN Found[t[n].locals[1]] ELSE n
  BY <1>11
<1>13. \A n \in Leaves(t) : Found[n] = n
  BY <1>4, <1>6, <1>12 DEF Nodes
<1>14. \A n \in Dirs(t) : Found[n] = IF Len(t[n].locals) = 1 THEN t[n].locals[1] ELSE n
  BY <1>4, <1>6, <1>12, <1>13 DEF Nodes
<1>15. Found[r] = Package(t, r)
  BY <1>3, <1>4, <1>6, <1>12, <1>14 DEF Nodes, Package
<1> QED
  BY <1>1, <1>2, <1>15

(* The package of a branch is a node of it.                                *)
LEMMA PackageNode ==
  ASSUME NEW t, IsTree(t), NEW r \in Tops(t), Linked(t, r)
  PROVE  Package(t, r) \in Nodes(t) /\ Top(t, Package(t, r)) = r
<1>1. /\ Nodes(t) \subseteq DOMAIN t /\ r \in Nodes(t) /\ Top(t, r) = r
  BY LevelFacts, NodeFacts DEF Nodes
<1>2. ASSUME NEW n \in Nodes(t), Top(t, n) = r, Len(t[n].locals) = 1
      PROVE  t[n].locals[1] \in Nodes(t) /\ Top(t, t[n].locals[1]) = r
  <2>1. t[n].locals[1] \in Locals(t, n)
    BY <1>1, <1>2 DEF IsTree, Numbered, IsNode, Locals
  <2>2. t[t[n].locals[1]].parent = n
    BY <1>2, <2>1 DEF Linked
  <2> QED
    BY <1>2, <2>1, <2>2, LocalsAreNodes, LinkedTops
<1>3. CASE Len(t[r].locals) # 1
  BY <1>1, <1>3 DEF Package
<1>4. CASE Len(t[r].locals) = 1
  <2>1. PICK d : d = t[r].locals[1]
    OBVIOUS
  <2>2. d \in Nodes(t) /\ Top(t, d) = r
    BY <1>1, <1>2, <1>4, <2>1
  <2> QED
    BY <1>2, <1>4, <2>1, <2>2 DEF Package
<1> QED
  BY <1>3, <1>4

-----------------------------------------------------------------------------
(* The invariant.  What threads hold are nodes of their level and path,    *)
(* wherever they are by now; a merge takes a node of its branch to the     *)
(* place of one of the same path that is in no other branch.               *)
UploadTyped(up) ==
    /\ up = [pc |-> up.pc, then |-> up.then, n |-> up.n, path |-> up.path,
             root |-> up.root, node |-> up.node]
    /\ up.pc \in {"idle", "getRoot", "returnRoot", "newTimer", "schedule", "getNode",
                  "write", "put"}
    /\ up.then \in {Null, "returnRoot", "write", "put"} /\ up.n \in Nat

MergeTyped(me) ==
    /\ me = [pc |-> me.pc, to |-> me.to, path |-> me.path, from |-> me.from]
    /\ me.pc \in {"idle", "cancel", "find", "locate", "replace", "finish"}

LeftTyped ==
    /\ left = [uploads |-> left.uploads, writes |-> left.writes, aborts |-> left.aborts,
               starts |-> left.starts]
    /\ left.uploads \in [Session -> Seq(Path)]

RestTyped ==
    /\ timer \in [Session -> {"new", "scheduled", "cancelled", "fired"}]
    /\ temps \subseteq Session /\ rough \in BOOLEAN
    /\ LeftTyped

Typed ==
    /\ RestTyped
    /\ root = [s \in Session |-> root[s]]
    /\ upload = [s \in Session |-> upload[s]] /\ \A s \in Session : UploadTyped(upload[s])
    /\ merge = [s \in Session |-> merge[s]] /\ \A s \in Session : MergeTyped(merge[s])

Holds(up) ==
    \/ up.pc \in {"write", "put"}
    \/ up.pc \in {"newTimer", "schedule"} /\ up.then \in {"write", "put"}

UploadFits(t, up) ==
    /\ up.pc # "idle" => up.path \in Path
    /\ up.pc \in {"newTimer", "schedule"} => up.then # Null
    /\ up.pc = "getNode" => up.root \in Tops(t)
    /\ Holds(up) => up.node \in Leaves(t) /\ Key(t, up.node) = up.path

MergeFits(t, me, r, roots) ==
    /\ me.pc \in {"locate", "replace"} =>
          r # Null /\ me.to \in Nodes(t) /\ Top(t, me.to) = r /\ me.path = Key(t, me.to)
    /\ me.pc = "replace" =>
          /\ me.from \in Nodes(t) /\ Key(t, me.from) = me.path /\ Top(t, me.from) \notin roots
          /\ me.from \in Tops(t) => t[me.from].parent = 0

Unmerged == {s \in Session : root[s] # Null /\ merge[s].pc # "finish"}

MasterFits == master # Null => master \in Tops(tree) /\ tree[master].parent = 0

Shape ==
    /\ Typed /\ IsTree(tree) /\ Apart(tree, root, Unmerged) /\ MasterFits
    /\ \A s \in Session : UploadFits(tree, upload[s])
    /\ \A s \in Session : MergeFits(tree, merge[s], root[s], Roots(root, Unmerged))

(* The tree there is at first.                                             *)
LEMMA StoredLevels ==
  /\ Tops(Stored) = {2} /\ Dirs(Stored) = Locals(Stored, 2)
  /\ Leaves(Stored) = UNION {Locals(Stored, d) : d \in Locals(Stored, 2)}
<1>1. /\ DOMAIN Stored =
            {0, 1, 2} \union Locals(Stored, 2)
             \union UNION {Locals(Stored, d) : d \in Locals(Stored, 2)}
      /\ \A n \in DOMAIN Stored : \A m \in Locals(Stored, n) : Stored[m].parent = n
      /\ Stored[0].parent = Null /\ Stored[0].locals = <<1, 2>>
  BY StoredAssumption DEF StoredAssumption
<1>2. Locals(Stored, 0) = {1, 2}
  BY <1>1 DEF Locals
<1>3. Stored[1].parent = 0 /\ Stored[2].parent = 0
  BY <1>1, <1>2
<1>4. Null \notin {0, 1, 2} /\ Null \notin DOMAIN Stored
  <2>1. IsFiniteSet(DOMAIN Stored) /\ DOMAIN Stored = 0..(Cardinality(DOMAIN Stored) - 1)
    BY StoredAssumption DEF StoredAssumption
  <2>2. DOMAIN Stored \subseteq Nat
    BY <2>1, FS_CardinalityType
  <2> QED
    BY <2>2, BranchAssumption DEF BranchAssumption
<1>5. \A d \in Locals(Stored, 2) : Stored[d].parent = 2 /\ d \in DOMAIN Stored /\ d \notin {0, 1, 2}
  BY <1>1, <1>3, <1>4
<1>6. \A d \in Locals(Stored, 2) : \A f \in Locals(Stored, d) :
         Stored[f].parent = d /\ f \in DOMAIN Stored /\ f \notin {0, 1, 2}
  BY <1>1, <1>3, <1>4, <1>5
<1>7. Tops(Stored) = {2}
  <2>1. 2 \in Tops(Stored)
    BY <1>1, <1>3 DEF Tops
  <2>2. \A n \in Tops(Stored) : n \in DOMAIN Stored /\ n # 1 /\ Stored[n].parent \in {0, 1}
    BY DEF Tops
  <2>3. 0 \notin Tops(Stored)
    BY <1>1, <1>4, <2>2
  <2>4. \A d \in Locals(Stored, 2) : d \notin Tops(Stored)
    BY <1>5, <2>2
  <2>5. \A d \in Locals(Stored, 2) : \A f \in Locals(Stored, d) : f \notin Tops(Stored)
    BY <1>5, <1>6, <2>2
  <2> QED
    BY <1>1, <2>1, <2>2, <2>3, <2>4, <2>5
<1>8. Dirs(Stored) = Locals(Stored, 2)
  BY <1>1, <1>3, <1>4, <1>5, <1>6, <1>7 DEF Dirs
<1>9. Leaves(Stored) = UNION {Locals(Stored, d) : d \in Locals(Stored, 2)}
  <2>1. \A d \in Locals(Stored, 2) : Stored[d].parent \notin Dirs(Stored)
    BY <1>5, <1>8
  <2>2. Stored[0].parent \notin Dirs(Stored)
    BY <1>1, <1>4, <1>5, <1>8
  <2>3. Stored[1].parent \notin Dirs(Stored) /\ Stored[2].parent \notin Dirs(Stored)
    BY <1>3, <1>5, <1>8
  <2> QED
    BY <1>1, <1>6, <1>8, <2>1, <2>2, <2>3 DEF Leaves
<1> QED
  BY <1>7, <1>8, <1>9

(* It is a tree with all values in their places.                           *)
LEMMA StoredTree ==
  IsTree(Stored)
<1>1. /\ IsFiniteSet(DOMAIN Stored) /\ DOMAIN Stored = 0..(Cardinality(DOMAIN Stored) - 1)
      /\ DOMAIN Stored =
            {0, 1, 2} \union Locals(Stored, 2)
             \union UNION {Locals(Stored, d) : d \in Locals(Stored, 2)}
      /\ \A n \in DOMAIN Stored : \A m \in Locals(Stored, n) : Stored[m].parent = n
      /\ Stored[0].parent = Null /\ Stored[0].locals = <<1, 2>>
      /\ Stored[1].title = "Branch" /\ Stored[1].locals = <<>> /\ Stored[2].title = "master"
  BY StoredAssumption DEF StoredAssumption
<1>2. /\ Tops(Stored) = {2} /\ Dirs(Stored) = Locals(Stored, 2)
      /\ Leaves(Stored) = UNION {Locals(Stored, d) : d \in Locals(Stored, 2)}
  BY StoredLevels
<1>3. Numbered(Stored)
  BY <1>1, FS_CardinalityType, StoredAssumption
     DEF Numbered, NewNode, IsNode, StoredAssumption
<1>4. Rooted(Stored)
  <2>1. Locals(Stored, 0) = {1, 2} /\ Locals(Stored, 1) = {}
    BY <1>1 DEF Locals
  <2>2. Stored[1].parent = 0 /\ Stored[2].parent = 0
    BY <1>1, <2>1
  <2>3. Len(Stored[0].locals) = 2 /\ Stored[0].locals[1] = 1 /\ Stored[0].locals[2] = 2
    BY <1>1
  <2> QED
    BY <1>1, <1>2, <2>1, <2>2, <2>3 DEF Rooted, MasterOf
<1>5. \A f \in Leaves(Stored) :
         /\ Stored[f].parent \in Locals(Stored, 2) /\ f \in Locals(Stored, Stored[f].parent)
         /\ Stored[f].locals = <<>>
         /\ Stored[f].value = Former(<<Stored[Stored[f].parent].title, Stored[f].title>>)
  <2> SUFFICES ASSUME NEW f \in Leaves(Stored)
               PROVE  /\ Stored[f].parent \in Locals(Stored, 2)
                      /\ f \in Locals(Stored, Stored[f].parent)
                      /\ Stored[f].locals = <<>>
                      /\ Stored[f].value =
                            Former(<<Stored[Stored[f].parent].title, Stored[f].title>>)
    OBVIOUS
  <2>1. PICK d \in Locals(Stored, 2) : f \in Locals(Stored, d)
    BY <1>2
  <2>2. Stored[f].parent = d
    BY <1>1, <2>1
  <2>3. /\ Stored[f].value = Former(<<Stored[d].title, Stored[f].title>>)
        /\ Stored[f].locals = <<>>
    BY <2>1, StoredAssumption DEF StoredAssumption
  <2> QED
    BY <2>1, <2>2, <2>3
<1>6. Levels(Stored)
  <2>1. DOMAIN Stored = {0, 1} \union Nodes(Stored)
    BY <1>1, <1>2 DEF Nodes
  <2>2. ASSUME NEW d \in Dirs(Stored)
        PROVE  /\ Locals(Stored, d) \subseteq Leaves(Stored)
               /\ \A m \in Locals(Stored, d) : Stored[Stored[m].parent].title = Stored[d].title
    BY <1>1, <1>2
  <2> QED
    BY <1>2, <1>5, <2>1, <2>2 DEF Levels
<1>7. ASSUME NEW f \in Leaves(Stored)
      PROVE  Stored[f].value.path = Key(Stored, f)
  <2>1. f \notin Tops(Stored) /\ f \notin Dirs(Stored)
    <3>1. Stored[f].parent \in Dirs(Stored)
      BY DEF Leaves
    <3>2. \A d \in Dirs(Stored) : Stored[d].parent = 2 /\ d # 2 /\ d # 0
      <4>1. Locals(Stored, 0) = {1, 2}
        BY <1>1 DEF Locals
      <4> QED
        BY <1>1, <1>2, <4>1, BranchAssumption DEF BranchAssumption
    <3>3. Stored[2].parent = 0
      BY <1>4, <1>1 DEF Rooted, MasterOf
    <3> QED
      BY <1>2, <3>1, <3>2, <3>3
  <2>2. Key(Stored, f) = <<Stored[Stored[f].parent].title, Stored[f].title>>
    BY <2>1 DEF Key
  <2> QED
    <3>1. PICK path : path = Key(Stored, f)
      OBVIOUS
    <3>2. Stored[f].value = Former(path)
      BY <1>5, <2>2, <3>1
    <3> QED
      BY <3>1, <3>2 DEF Former
<1>8. ValuesPlaced(Stored)
  BY <1>7 DEF ValuesPlaced
<1> QED
  BY <1>3, <1>4, <1>6, <1>8 DEF IsTree

(* The invariant holds at first.                                           *)
LEMMA InitShape ==
  ASSUME Init
  PROVE  Shape
<1>1. IsTree(tree)
  BY StoredTree DEF Init
<1>2. Typed
  <2>1. left \in Plan
    BY DEF Init
  <2>2. left \in [uploads : [Session -> Seq(Path)], writes : Nat, aborts : Nat, starts : Nat]
    BY <2>1, BranchAssumption DEF BranchAssumption
  <2>3. \A s \in Session : UploadTyped(upload[s])
    BY DEF Init, UploadTyped
  <2>4. \A s \in Session : MergeTyped(merge[s])
    BY DEF Init, MergeTyped
  <2>5. /\ timer \in [Session -> {"new", "scheduled", "cancelled", "fired"}]
        /\ root = [s \in Session |-> root[s]] /\ temps \subseteq Session /\ rough \in BOOLEAN
        /\ upload = [s \in Session |-> upload[s]] /\ merge = [s \in Session |-> merge[s]]
    BY DEF Init
  <2> QED
    BY <2>2, <2>3, <2>4, <2>5 DEF Typed, RestTyped, LeftTyped
<1>3. \A s \in Session : root[s] = Null /\ merge[s].pc = "idle" /\ upload[s].pc = "idle"
  BY DEF Init
<1>4. Unmerged = {} /\ Roots(root, Unmerged) = {}
  BY <1>3 DEF Unmerged, Roots
<1>5. Apart(tree, root, Unmerged)
  BY <1>3, <1>4 DEF Apart
<1>6. MasterFits
  <2>1. Stored[2].parent = 0
    <3>1. Stored[0].locals = <<1, 2>> /\ \A m \in Locals(Stored, 0) : Stored[m].parent = 0
      BY StoredTree, LevelFacts, StoredAssumption DEF StoredAssumption
    <3>2. Locals(Stored, 0) = {1, 2}
      BY <3>1 DEF Locals
    <3> QED
      BY <3>1, <3>2
  <2> QED
    BY <2>1, StoredLevels DEF Init, MasterFits
<1>7. \A s \in Session : UploadFits(tree, upload[s])
  BY <1>3 DEF UploadFits, Holds
<1>8. \A s \in Session : MergeFits(tree, merge[s], root[s], Roots(root, Unmerged))
  BY <1>3 DEF MergeFits
<1> QED
  BY <1>1, <1>2, <1>5, <1>6, <1>7, <1>8 DEF Shape

-----------------------------------------------------------------------------
(* The steps of an uploading thread, on its own variables.                 *)
OnlyUpload(s) ==
    /\ upload' = [w \in Session |-> upload'[w]]
    /\ \A w \in Session : w # s => upload'[w] = upload[w]
    /\ \A w \in Session : UploadTyped(upload'[w])

(* Go changes the pc,                                                      *)
LEMMA GoStep ==
  ASSUME Typed, NEW s \in Session, NEW pc, Go(s, pc),
         pc \in {"returnRoot", "newTimer", "schedule", "getNode", "write", "put"}
  PROVE  /\ OnlyUpload(s) /\ upload'[s].pc = pc /\ upload'[s].then = upload[s].then
         /\ upload'[s].path = upload[s].path /\ upload'[s].root = upload[s].root
         /\ upload'[s].node = upload[s].node
<1>1. PICK old : old = upload[s]
  OBVIOUS
<1>2. PICK up : up = [old EXCEPT !.pc = pc]
  OBVIOUS
<1>3. UploadTyped(old)
  BY <1>1 DEF Typed
<1>4. /\ up = [pc |-> pc, then |-> old.then, n |-> old.n, path |-> old.path,
               root |-> old.root, node |-> old.node]
  BY <1>2, <1>3 DEF UploadTyped
<1>5. UploadTyped(up)
  BY <1>3, <1>4 DEF UploadTyped
<1>6. upload' = [upload EXCEPT ![s] = up]
  BY <1>1, <1>2 DEF Go
<1>9. OnlyUpload(s) /\ upload'[s] = up
  BY <1>5, <1>6 DEF Typed, OnlyUpload
<1> QED
  BY <1>1, <1>4, <1>9

(* updateTimer is called with what comes then,                             *)
LEMMA ThenStep ==
  ASSUME Typed, NEW s \in Session, NEW then \in {"returnRoot", "write", "put"},
         upload' = [upload EXCEPT ![s].pc = "newTimer", ![s].then = then]
  PROVE  /\ OnlyUpload(s) /\ upload'[s].pc = "newTimer" /\ upload'[s].then = then
         /\ upload'[s].path = upload[s].path /\ upload'[s].node = upload[s].node
<1>1. PICK old : old = upload[s]
  OBVIOUS
<1>2. PICK mid : mid = [old EXCEPT !.pc = "newTimer"]
  OBVIOUS
<1>3. PICK up : up = [mid EXCEPT !.then = then]
  OBVIOUS
<1>4. UploadTyped(old)
  BY <1>1 DEF Typed
<1>5. mid = [pc |-> "newTimer", then |-> old.then, n |-> old.n, path |-> old.path,
             root |-> old.root, node |-> old.node]
  BY <1>2, <1>4 DEF UploadTyped
<1>6. up = [pc |-> "newTimer", then |-> then, n |-> old.n, path |-> old.path,
            root |-> old.root, node |-> old.node]
  BY <1>3, <1>5
<1>7. UploadTyped(up)
  BY <1>4, <1>6 DEF UploadTyped
<1>8. upload' = [upload EXCEPT ![s] = up]
  BY <1>1, <1>2, <1>3 DEF Typed
<1>9. OnlyUpload(s) /\ upload'[s] = up
  BY <1>7, <1>8 DEF Typed, OnlyUpload
<1> QED
  BY <1>1, <1>6, <1>9

(* and Over ends the upload.                                               *)
LEMMA OverStep ==
  ASSUME Typed, NEW s \in Session, Over(s)
  PROVE  OnlyUpload(s) /\ upload'[s].pc = "idle"
<1>1. PICK old : old = upload[s]
  OBVIOUS
<1>2. PICK up : up = [old EXCEPT !.pc = "idle", !.then = Null, !.root = Null, !.node = Null]
  OBVIOUS
<1>3. UploadTyped(old)
  BY <1>1 DEF Typed
<1>4. up = [pc |-> "idle", then |-> Null, n |-> old.n, path |-> old.path,
            root |-> Null, node |-> Null]
  BY <1>2, <1>3 DEF UploadTyped
<1>5. UploadTyped(up)
  BY <1>3, <1>4 DEF UploadTyped
<1>6. upload' = [upload EXCEPT ![s] = up]
  BY <1>1, <1>2 DEF Over
<1>9. OnlyUpload(s) /\ upload'[s] = up
  BY <1>5, <1>6 DEF Typed, OnlyUpload
<1> QED
  BY <1>4, <1>9

(* The steps of a timer's thread, on its own variables.                    *)
OnlyMerge(s) ==
    /\ merge' = [w \in Session |-> merge'[w]]
    /\ \A w \in Session : w # s => merge'[w] = merge[w]
    /\ \A w \in Session : MergeTyped(merge'[w])

(* MergeGoes changes the pc,                                               *)
LEMMA MergeGoesStep ==
  ASSUME Typed, NEW s \in Session, NEW pc, MergeGoes(s, pc), pc \in {"cancel", "find", "finish"}
  PROVE  /\ OnlyMerge(s) /\ merge'[s].pc = pc /\ merge'[s].to = merge[s].to
         /\ merge'[s].path = merge[s].path /\ merge'[s].from = merge[s].from
<1>1. PICK old : old = merge[s]
  OBVIOUS
<1>2. PICK me : me = [old EXCEPT !.pc = pc]
  OBVIOUS
<1>3. MergeTyped(old)
  BY <1>1 DEF Typed
<1>4. me = [pc |-> pc, to |-> old.to, path |-> old.path, from |-> old.from]
  BY <1>2, <1>3 DEF MergeTyped
<1>5. MergeTyped(me)
  BY <1>3, <1>4 DEF MergeTyped
<1>6. merge' = [merge EXCEPT ![s] = me]
  BY <1>1, <1>2 DEF MergeGoes
<1>9. OnlyMerge(s) /\ merge'[s] = me
  BY <1>5, <1>6 DEF Typed, OnlyMerge
<1> QED
  BY <1>1, <1>4, <1>9

(* and MergeEnds ends the merge.                                           *)
LEMMA MergeEndsStep ==
  ASSUME Typed, NEW s \in Session, MergeEnds(s)
  PROVE  OnlyMerge(s) /\ merge'[s].pc = "idle"
<1>1. PICK me : me = [pc |-> "idle", to |-> Null, path |-> Null, from |-> Null]
  OBVIOUS
<1>2. MergeTyped(me)
  BY <1>1 DEF MergeTyped
<1>3. merge' = [merge EXCEPT ![s] = me]
  BY <1>1 DEF MergeEnds
<1>9. OnlyMerge(s) /\ merge'[s] = me
  BY <1>2, <1>3 DEF Typed, OnlyMerge
<1> QED
  BY <1>1, <1>9

-----------------------------------------------------------------------------
(* The steps that leave the tree and the roots alone.                      *)
LEMMA UploadQuiet ==
  ASSUME Shape, NEW s \in Session, OnlyUpload(s), UNCHANGED <<tree, root, master, merge>>,
         RestTyped', UploadFits(tree, upload'[s])
  PROVE  Shape'
<1>1. Typed'
  BY DEF Shape, Typed, OnlyUpload
<1>2. PICK t : t = tree /\ t = tree'
  OBVIOUS
<1>3. PICK S : S = Unmerged /\ S = Unmerged'
  BY DEF Unmerged
<1>4. PICK rt : rt = root /\ rt = root'
  OBVIOUS
<1>5. IsTree(tree)' /\ Apart(tree, root, Unmerged)'
  BY <1>2, <1>3, <1>4 DEF Shape
<1>6. ASSUME NEW w \in Session
      PROVE  UploadFits(t, upload'[w])
  <2>1. UploadFits(t, upload[w])
    BY <1>2 DEF Shape
  <2> QED
    BY <1>2, <2>1 DEF OnlyUpload
<1>7. ASSUME NEW w \in Session
      PROVE  MergeFits(t, merge'[w], rt[w], Roots(rt, S))
  BY <1>2, <1>3, <1>4 DEF Shape
<1>8. MasterFits'
  BY DEF Shape, MasterFits
<1>9. \A w \in Session : UploadFits(tree', upload'[w])
  BY <1>2, <1>6
<1>10. \A w \in Session : MergeFits(tree', merge'[w], root'[w], Roots(root', Unmerged'))
  BY <1>2, <1>3, <1>4, <1>7
<1> QED
  BY <1>1, <1>5, <1>8, <1>9, <1>10 DEF Shape

(* The same for a step of a merge.                                         *)
LEMMA MergeQuiet ==
  ASSUME Shape, NEW s \in Session, OnlyMerge(s), UNCHANGED <<tree, root, master, upload>>,
         RestTyped', Unmerged' = Unmerged,
         MergeFits(tree, merge'[s], root[s], Roots(root, Unmerged))
  PROVE  Shape'
<1>1. Typed'
  BY DEF Shape, Typed, OnlyMerge
<1>2. PICK t : t = tree /\ t = tree'
  OBVIOUS
<1>3. PICK S : S = Unmerged /\ S = Unmerged'
  OBVIOUS
<1>4. PICK rt : rt = root /\ rt = root'
  OBVIOUS
<1>5. IsTree(tree)' /\ Apart(tree, root, Unmerged)'
  BY <1>2, <1>3, <1>4 DEF Shape
<1>6. \A w \in Session : UploadFits(t, upload'[w])
  BY <1>2 DEF Shape
<1>7. ASSUME NEW w \in Session
      PROVE  MergeFits(t, merge'[w], rt[w], Roots(rt, S))
  <2>1. MergeFits(t, merge[w], rt[w], Roots(rt, S))
    BY <1>2, <1>3, <1>4 DEF Shape
  <2> QED
    BY <1>2, <1>3, <1>4, <2>1 DEF OnlyMerge
<1>8. MasterFits'
  BY DEF Shape, MasterFits
<1>9. \A w \in Session : UploadFits(tree', upload'[w])
  BY <1>2, <1>6
<1>10. \A w \in Session : MergeFits(tree', merge'[w], root'[w], Roots(root', Unmerged'))
  BY <1>2, <1>3, <1>4, <1>7
<1> QED
  BY <1>1, <1>5, <1>8, <1>9, <1>10 DEF Shape

(* updateTimer makes a timer,                                              *)
LEMMA NewTimerShape ==
  ASSUME Shape, NEW s \in Session, NewTimer(s)
  PROVE  Shape'
<1>1. /\ At(s, "newTimer") /\ Go(s, "schedule") /\ UNCHANGED <<tree, root, master, merge>>
      /\ timer' = [timer EXCEPT ![s] = "new"] /\ UNCHANGED <<temps, rough, left>>
  BY DEF NewTimer
<1>2. /\ OnlyUpload(s) /\ upload'[s].pc = "schedule" /\ upload'[s].then = upload[s].then
      /\ upload'[s].path = upload[s].path /\ upload'[s].node = upload[s].node
  BY <1>1, GoStep DEF Shape
<1>3. UploadFits(tree, upload[s]) /\ upload[s].pc = "newTimer"
  BY <1>1 DEF Shape, At
<1>4. UploadFits(tree, upload'[s])
  BY <1>2, <1>3 DEF UploadFits, Holds
<1>5. RestTyped'
  BY <1>1 DEF Shape, Typed, RestTyped, LeftTyped
<1> QED
  BY <1>1, <1>2, <1>4, <1>5, UploadQuiet

(* and schedules it.                                                       *)
LEMMA ScheduleShape ==
  ASSUME Shape, NEW s \in Session, Schedule(s)
  PROVE  Shape'
<1>1. /\ At(s, "schedule") /\ Go(s, upload[s].then) /\ UNCHANGED <<tree, root, master, merge>>
      /\ timer' = [timer EXCEPT ![s] = "scheduled"] /\ UNCHANGED <<temps, rough, left>>
  BY DEF Schedule
<1>2. UploadFits(tree, upload[s]) /\ upload[s].pc = "schedule" /\ UploadTyped(upload[s])
  BY <1>1 DEF Shape, At, Typed
<1>3. upload[s].then \in {"returnRoot", "write", "put"}
  BY <1>2 DEF UploadFits, UploadTyped
<1>4. /\ OnlyUpload(s) /\ upload'[s].pc = upload[s].then
      /\ upload'[s].path = upload[s].path /\ upload'[s].node = upload[s].node
  BY <1>1, <1>3, GoStep DEF Shape
<1>5. UploadFits(tree, upload'[s])
  BY <1>2, <1>3, <1>4 DEF UploadFits, Holds
<1>6. RestTyped'
  BY <1>1 DEF Shape, Typed, RestTyped, LeftTyped
<1> QED
  BY <1>1, <1>4, <1>5, <1>6, UploadQuiet

(* An upload may end anywhere,                                             *)
LEMMA OverShape ==
  ASSUME Shape, NEW s \in Session, Over(s), UNCHANGED <<tree, root, master, merge>>, RestTyped'
  PROVE  Shape'
<1>1. OnlyUpload(s) /\ upload'[s].pc = "idle"
  BY OverStep DEF Shape
<1>2. UploadFits(tree, upload'[s])
  BY <1>1 DEF UploadFits, Holds
<1> QED
  BY <1>1, <1>2, UploadQuiet

(* and a stream updates the timer with its file at hand.                   *)
LEMMA ThenShape ==
  ASSUME Shape, NEW s \in Session, NEW then \in {"write", "put"}, At(s, "write"),
         upload' = [upload EXCEPT ![s].pc = "newTimer", ![s].then = then],
         UNCHANGED <<tree, root, master, merge>>, RestTyped'
  PROVE  Shape'
<1>1. /\ OnlyUpload(s) /\ upload'[s].pc = "newTimer" /\ upload'[s].then = then
      /\ upload'[s].path = upload[s].path /\ upload'[s].node = upload[s].node
  BY ThenStep DEF Shape
<1>2. UploadFits(tree, upload[s]) /\ upload[s].pc = "write"
  BY DEF Shape, At
<1>3. then # Null
  BY BranchAssumption DEF BranchAssumption
<1>4. UploadFits(tree, upload'[s])
  BY <1>1, <1>2, <1>3 DEF UploadFits, Holds
<1> QED
  BY <1>1, <1>4, UploadQuiet

(* A bound of the plan is used up.                                         *)
LEMMA LeftStep ==
  ASSUME LeftTyped, NEW n,
         \/ left' = [left EXCEPT !.writes = n]
         \/ left' = [left EXCEPT !.aborts = n]
         \/ left' = [left EXCEPT !.starts = n]
  PROVE  LeftTyped'
<1>1. PICK old : old = left
  OBVIOUS
<1>2. PICK new : new = left'
  OBVIOUS
<1>3. old = [uploads |-> old.uploads, writes |-> old.writes, aborts |-> old.aborts,
             starts |-> old.starts]
  BY <1>1 DEF LeftTyped
<1>4. \/ new = [old EXCEPT !.writes = n]
      \/ new = [old EXCEPT !.aborts = n]
      \/ new = [old EXCEPT !.starts = n]
  BY <1>1, <1>2
<1>5. /\ new = [uploads |-> new.uploads, writes |-> new.writes, aborts |-> new.aborts,
                starts |-> new.starts]
      /\ new.uploads = old.uploads
  BY <1>3, <1>4
<1> QED
  BY <1>1, <1>2, <1>5 DEF LeftTyped

(* Write, Close and Abort go on or end.                                    *)
LEMMA WriteShape ==
  ASSUME Shape, NEW s \in Session, Write(s) \/ Close(s) \/ Abort(s)
  PROVE  Shape'
<1>1. LeftTyped /\ RestTyped
  BY DEF Shape, Typed, RestTyped
<1>2. CASE Write(s)
  <2>1. LeftTyped'
    BY <1>1, <1>2, LeftStep DEF Write
  <2>2. RestTyped'
    BY <1>1, <1>2, <2>1 DEF Write, RestTyped
  <2> QED
    BY <1>2, <2>2, ThenShape DEF Write
<1>3. CASE Close(s)
  <2>1. RestTyped'
    BY <1>1, <1>3 DEF Close, RestTyped, LeftTyped
  <2> QED
    BY <1>3, <2>1, ThenShape DEF Close
<1>4. CASE Abort(s)
  <2>1. LeftTyped'
    BY <1>1, <1>4, LeftStep DEF Abort
  <2>2. RestTyped'
    BY <1>1, <1>4, <2>1 DEF Abort, RestTyped
  <2> QED
    BY <1>4, <2>2, OverShape DEF Abort
<1> QED
  BY <1>2, <1>3, <1>4

(* A call that throws ends the upload.                                     *)
LEMMA EndShape ==
  ASSUME Shape, NEW s \in Session, ScheduleThrows(s) \/ PutThrows(s)
  PROVE  Shape'
<1>1. RestTyped'
  BY DEF ScheduleThrows, PutThrows, Shape, Typed, RestTyped, LeftTyped
<1> QED
  BY <1>1, OverShape DEF ScheduleThrows, PutThrows

(* ReturnRoot hands out a root, or throws.                                 *)
LEMMA ReturnRootShape ==
  ASSUME Shape, NEW s \in Session, ReturnRoot(s)
  PROVE  Shape'
<1>1. RestTyped'
  BY DEF ReturnRoot, Shape, Typed, RestTyped, LeftTyped
<1>2. CASE root[s] = Null
  BY <1>1, <1>2, OverShape DEF ReturnRoot
<1>3. CASE root[s] # Null
  <2>1. PICK old : old = upload[s]
    OBVIOUS
  <2>2. PICK mid : mid = [old EXCEPT !.pc = "getNode"]
    OBVIOUS
  <2>3. PICK up : up = [mid EXCEPT !.root = root[s]]
    OBVIOUS
  <2>4. UploadTyped(old) /\ UploadFits(tree, old) /\ old.pc = "returnRoot"
    BY <2>1 DEF Shape, Typed, ReturnRoot, At
  <2>5. mid = [pc |-> "getNode", then |-> old.then, n |-> old.n, path |-> old.path,
               root |-> old.root, node |-> old.node]
    BY <2>2, <2>4 DEF UploadTyped
  <2>6. up = [pc |-> "getNode", then |-> old.then, n |-> old.n, path |-> old.path,
              root |-> root[s], node |-> old.node]
    BY <2>3, <2>5
  <2>7. UploadTyped(up)
    BY <2>4, <2>6 DEF UploadTyped
  <2>8. upload' = [upload EXCEPT ![s] = up]
    BY <1>3, <2>1, <2>2, <2>3 DEF ReturnRoot, Shape, Typed
  <2>9. OnlyUpload(s) /\ upload'[s] = up
    BY <2>7, <2>8 DEF Shape, Typed, OnlyUpload
  <2>10. root[s] \in Tops(tree)
    BY <1>3 DEF Shape, Apart
  <2>11. UploadFits(tree, up)
    BY <2>4, <2>6, <2>10 DEF UploadFits, Holds
  <2> QED
    BY <1>1, <2>9, <2>11, UploadQuiet DEF ReturnRoot
<1> QED
  BY <1>2, <1>3

(* An upload begins with a path of the plan.                               *)
LEMMA BeginShape ==
  ASSUME Shape, NEW s \in Session, Begin(s)
  PROVE  Shape'
<1>1. PICK path : path = Head(left.uploads[s])
  OBVIOUS
<1>2. LeftTyped /\ RestTyped
  BY DEF Shape, Typed, RestTyped
<1>3. path \in Path /\ Tail(left.uploads[s]) \in Seq(Path)
  BY <1>1, <1>2, HeadTailProperties DEF Begin, LeftTyped
<1>4. LeftTyped'
  <2>1. PICK old : old = left
    OBVIOUS
  <2>2. PICK uploads : uploads = [old.uploads EXCEPT ![s] = Tail(@)]
    OBVIOUS
  <2>3. PICK new : new = left'
    OBVIOUS
  <2>4. old = [uploads |-> old.uploads, writes |-> old.writes, aborts |-> old.aborts,
               starts |-> old.starts]
    BY <1>2, <2>1 DEF LeftTyped
  <2>5. new = [old EXCEPT !.uploads = uploads]
    BY <2>1, <2>2, <2>3 DEF Begin
  <2>6. /\ new = [uploads |-> new.uploads, writes |-> new.writes, aborts |-> new.aborts,
                  starts |-> new.starts]
        /\ new.uploads = uploads
    BY <2>4, <2>5
  <2>7. uploads \in [Session -> Seq(Path)]
    BY <1>2, <1>3, <2>1, <2>2 DEF LeftTyped
  <2> QED
    BY <2>3, <2>6, <2>7 DEF LeftTyped
<1>5. RestTyped'
  <2>1. rough' \in BOOLEAN
    BY DEF Begin
  <2> QED
    BY <1>2, <1>4, <2>1 DEF Begin, RestTyped
<1>6. PICK old : old = upload[s]
  OBVIOUS
<1>7. PICK up : up = [pc |-> "getRoot", then |-> old.then, n |-> old.n + 1, path |-> path,
                      root |-> old.root, node |-> old.node]
  OBVIOUS
<1>8. UploadTyped(old) /\ old.pc = "idle"
  BY <1>6 DEF Shape, Typed, Begin, At
<1>9. UploadTyped(up)
  BY <1>7, <1>8 DEF UploadTyped
<1>10. upload' = [upload EXCEPT ![s] = up]
  <2>1. PICK mid : mid = [old EXCEPT !.pc = "getRoot"]
    OBVIOUS
  <2>2. PICK late : late = [mid EXCEPT !.path = path]
    OBVIOUS
  <2>3. mid = [pc |-> "getRoot", then |-> old.then, n |-> old.n, path |-> old.path,
               root |-> old.root, node |-> old.node]
    BY <1>8, <2>1 DEF UploadTyped
  <2>4. late = [pc |-> "getRoot", then |-> old.then, n |-> old.n, path |-> path,
                root |-> old.root, node |-> old.node]
    BY <2>2, <2>3
  <2>5. up = [late EXCEPT !.n = @ + 1]
    BY <1>7, <2>4
  <2>6. upload' = [upload EXCEPT ![s].pc = "getRoot", ![s].path = path, ![s].n = @ + 1]
    BY <1>1 DEF Begin
  <2>7. upload = [w \in Session |-> upload[w]]
    BY DEF Shape, Typed
  <2> QED
    BY <1>6, <2>1, <2>2, <2>5, <2>6, <2>7
<1>11. OnlyUpload(s) /\ upload'[s] = up
  BY <1>9, <1>10 DEF Shape, Typed, OnlyUpload
<1>12. UploadFits(tree, up)
  BY <1>3, <1>7 DEF UploadFits, Holds
<1> QED
  BY <1>5, <1>11, <1>12, UploadQuiet DEF Begin

(* Temporary files are no part of the tree.                                *)
LEMMA CreateFtpTempDirShape ==
  ASSUME Shape, CreateFtpTempDir
  PROVE  Shape'
<1>1. LeftTyped'
  BY LeftStep DEF CreateFtpTempDir, Shape, Typed, RestTyped
<1>2. Typed'
  BY <1>1 DEF CreateFtpTempDir, Shape, Typed, RestTyped
<1>3. UNCHANGED <<tree, root, master, merge, upload>> /\ Unmerged' = Unmerged
  BY DEF CreateFtpTempDir, Unmerged
<1> QED
  BY <1>2, <1>3 DEF Shape, MasterFits

(* A merge that neither comes from finish nor goes there merged nothing.   *)
LEMMA SameUnmerged ==
  ASSUME NEW s \in Session, OnlyMerge(s), root' = root,
         merge[s].pc # "finish", merge'[s].pc # "finish"
  PROVE  Unmerged' = Unmerged
BY DEF OnlyMerge, Unmerged

(* Fire and Cancel only touch timers.                                      *)
LEMMA FireShape ==
  ASSUME Shape, NEW s \in Session, Fire(s) \/ Cancel(s)
  PROVE  Shape'
<1>1. UNCHANGED <<tree, root, master, upload>>
  BY DEF Fire, Cancel
<1>2. PICK pc \in {"cancel", "find"} : MergeGoes(s, pc)
  BY DEF Fire, Cancel
<1>3. OnlyMerge(s) /\ merge'[s].pc = pc
  BY <1>2, MergeGoesStep DEF Shape
<1>4. merge[s].pc # "finish"
  BY DEF Fire, Cancel, MergeAt
<1>5. Unmerged' = Unmerged
  BY <1>1, <1>2, <1>3, <1>4, SameUnmerged
<1>6. MergeFits(tree, merge'[s], root[s], Roots(root, Unmerged))
  BY <1>2, <1>3 DEF MergeFits
<1>7. RestTyped'
  <2>1. rough' \in BOOLEAN
    BY DEF Fire, Cancel, Shape, Typed, RestTyped
  <2> QED
    BY <2>1 DEF Fire, Cancel, Shape, Typed, RestTyped, LeftTyped
<1> QED
  BY <1>1, <1>3, <1>5, <1>6, <1>7, MergeQuiet

(* A merge that throws leaves the tree as it is.                           *)
LEMMA ReplaceThrowsShape ==
  ASSUME Shape, NEW s \in Session, ReplaceThrows(s)
  PROVE  Shape'
<1>1. UNCHANGED <<tree, root, master, upload>> /\ merge[s].pc = "replace" /\ MergeEnds(s)
  BY DEF ReplaceThrows, MergeAt
<1>2. OnlyMerge(s) /\ merge'[s].pc = "idle"
  BY <1>1, MergeEndsStep DEF Shape
<1>3. Unmerged' = Unmerged
  BY <1>1, <1>2, SameUnmerged
<1>4. MergeFits(tree, merge'[s], root[s], Roots(root, Unmerged))
  BY <1>2 DEF MergeFits
<1>5. RestTyped'
  BY DEF ReplaceThrows, Shape, Typed, RestTyped, LeftTyped
<1> QED
  BY <1>1, <1>2, <1>3, <1>4, <1>5, MergeQuiet

(* Find, as the new locals of the thread.                                  *)
LEMMA FindStep ==
  ASSUME Shape, NEW s \in Session, Find(s)
  PROVE  /\ OnlyMerge(s) /\ merge[s].pc = "find"
         /\ root[s] = Null => merge'[s].pc = "idle"
         /\ root[s] # Null => /\ merge'[s].pc = "locate" /\ merge'[s].to = Package(tree, root[s])
                              /\ merge'[s].path = Key(tree, merge'[s].to)
                              /\ merge'[s].to \in Nodes(tree) /\ Top(tree, merge'[s].to) = root[s]
<1>1. PICK old : old = merge[s]
  OBVIOUS
<1>2. MergeTyped(old) /\ old.pc = "find"
  BY <1>1 DEF Shape, Typed, Find, MergeAt
<1>3. CASE root[s] = Null
  <2>1. PICK me : me = [old EXCEPT !.pc = "idle"]
    OBVIOUS
  <2>2. me = [pc |-> "idle", to |-> old.to, path |-> old.path, from |-> old.from]
    BY <1>2, <2>1 DEF MergeTyped
  <2>3. MergeTyped(me)
    BY <2>2 DEF MergeTyped
  <2>4. merge' = [merge EXCEPT ![s] = me]
    BY <1>1, <1>3, <2>1 DEF Find
  <2>5. OnlyMerge(s) /\ merge'[s] = me
    BY <2>3, <2>4 DEF Shape, Typed, OnlyMerge
  <2> QED
    BY <1>1, <1>2, <1>3, <2>2, <2>5
<1>4. CASE root[s] # Null
  <2>1. root[s] \in Tops(tree) /\ Linked(tree, root[s]) /\ IsTree(tree)
    BY <1>1, <1>2, <1>4 DEF Shape, Apart, Unmerged
  <2>2. PICK to : to = Package(tree, root[s])
    OBVIOUS
  <2>3. findPackage(root[s]) = to
    BY <2>1, <2>2, findPackageFacts
  <2>4. to \in Nodes(tree) /\ Top(tree, to) = root[s]
    BY <2>1, <2>2, PackageNode
  <2>5. PICK path : path = getPath(tree, root[s], to)
    OBVIOUS
  <2>6. path = Key(tree, to)
    BY <2>1, <2>4, <2>5, getPathFacts
  <2>7. PICK me : me = [old EXCEPT !.pc = "locate", !.to = to, !.path = path]
    OBVIOUS
  <2>8. me = [pc |-> "locate", to |-> to, path |-> path, from |-> old.from]
    <3>1. PICK mid : mid = [old EXCEPT !.pc = "locate"]
      OBVIOUS
    <3>2. mid = [pc |-> "locate", to |-> old.to, path |-> old.path, from |-> old.from]
      BY <1>2, <3>1 DEF MergeTyped
    <3>3. PICK late : late = [mid EXCEPT !.to = to]
      OBVIOUS
    <3>4. late = [pc |-> "locate", to |-> to, path |-> old.path, from |-> old.from]
      BY <3>2, <3>3
    <3>5. me = [late EXCEPT !.path = path]
      BY <2>7, <3>1, <3>3
    <3> QED
      BY <3>4, <3>5
  <2>9. MergeTyped(me)
    BY <2>8 DEF MergeTyped
  <2>10. merge' = [merge EXCEPT ![s] = me]
    BY <1>1, <1>4, <2>3, <2>5, <2>7 DEF Find
  <2>11. OnlyMerge(s) /\ merge'[s] = me
    BY <2>9, <2>10 DEF Shape, Typed, OnlyMerge
  <2> QED
    BY <1>1, <1>2, <1>4, <2>2, <2>4, <2>6, <2>8, <2>11
<1> QED
  BY <1>3, <1>4

(* Find looks for the package in a branch that is apart.                   *)
LEMMA FindShape ==
  ASSUME Shape, NEW s \in Session, Find(s)
  PROVE  Shape'
<1>1. UNCHANGED <<tree, root, master, upload>>
  BY DEF Find
<1>2. /\ OnlyMerge(s) /\ merge[s].pc = "find"
      /\ root[s] = Null => merge'[s].pc = "idle"
      /\ root[s] # Null => /\ merge'[s].pc = "locate"
                           /\ merge'[s].path = Key(tree, merge'[s].to)
                           /\ merge'[s].to \in Nodes(tree) /\ Top(tree, merge'[s].to) = root[s]
  BY FindStep
<1>3. Unmerged' = Unmerged
  BY <1>1, <1>2, SameUnmerged
<1>4. MergeFits(tree, merge'[s], root[s], Roots(root, Unmerged))
  BY <1>2 DEF MergeFits
<1>5. RestTyped'
  BY DEF Find, Shape, Typed, RestTyped, LeftTyped
<1> QED
  BY <1>1, <1>2, <1>3, <1>4, <1>5, MergeQuiet

-----------------------------------------------------------------------------
(* The steps that change the tree.                                         *)
OnlyOf(s) ==
    \A w \in Session : w # s => /\ upload'[w] = upload[w] /\ merge'[w] = merge[w]
                                /\ root'[w] = root[w]

(* Such a step, with what it has to keep for the other sessions.           *)
LEMMA TreeStep ==
  ASSUME Shape, NEW s \in Session, Typed', OnlyOf(s),
         IsTree(tree'), Keeps(tree, tree'), Apart(tree', root', Unmerged'), MasterFits',
         UploadFits(tree', upload'[s]),
         MergeFits(tree', merge'[s], root'[s], Roots(root', Unmerged')),
         \A w \in Unmerged \ {s} : \A n \in Nodes(tree) :
            Top(tree, n) = root[w] => Top(tree', n) = root[w],
         \A n \in Nodes(tree) :
            Top(tree, n) \notin Roots(root, Unmerged) =>
               Top(tree', n) \notin Roots(root', Unmerged')
  PROVE  Shape'
<1>1. PICK t : t = tree
  OBVIOUS
<1>2. PICK u : u = tree'
  OBVIOUS
<1>3. PICK R : R = Roots(root, Unmerged)
  OBVIOUS
<1>4. PICK R1 : R1 = Roots(root', Unmerged')
  OBVIOUS
<1>5. /\ Tops(t) \subseteq Tops(u) /\ Leaves(t) \subseteq Leaves(u) /\ Nodes(t) \subseteq Nodes(u)
      /\ \A n \in Nodes(t) : Key(u, n) = Key(t, n)
      /\ \A n \in Tops(t) : t[n].parent = 0 => u[n].parent = 0
      /\ \A n \in Leaves(t) : n \in Nodes(t)
  BY <1>1, <1>2 DEF Keeps, Nodes
<1>6. \A n \in Nodes(t) : n \in Tops(u) => n \in Tops(t)
  BY <1>1, <1>2, <1>5, KeyLevels DEF Shape
<1>7. ASSUME NEW w \in Session, w # s
      PROVE  UploadFits(u, upload'[w])
  <2>1. UploadFits(t, upload[w]) /\ upload'[w] = upload[w]
    BY <1>1, <1>7 DEF Shape, OnlyOf
  <2> QED
    BY <1>5, <2>1 DEF UploadFits
<1>8. ASSUME NEW w \in Session, w # s
      PROVE  MergeFits(u, merge'[w], root'[w], R1)
  <2>1. MergeFits(t, merge[w], root[w], R) /\ merge'[w] = merge[w] /\ root'[w] = root[w]
    BY <1>1, <1>3, <1>8 DEF Shape, OnlyOf
  <2>2. merge[w].pc \in {"locate", "replace"} =>
          /\ root[w] # Null /\ merge[w].to \in Nodes(u) /\ Top(u, merge[w].to) = root[w]
          /\ merge[w].path = Key(u, merge[w].to)
    <3> SUFFICES ASSUME merge[w].pc \in {"locate", "replace"}
                 PROVE  /\ root[w] # Null /\ merge[w].to \in Nodes(u)
                        /\ Top(u, merge[w].to) = root[w]
                        /\ merge[w].path = Key(u, merge[w].to)
      OBVIOUS
    <3>1. /\ root[w] # Null /\ merge[w].to \in Nodes(t) /\ Top(t, merge[w].to) = root[w]
          /\ merge[w].path = Key(t, merge[w].to)
      BY <2>1 DEF MergeFits
    <3>2. w \in Unmerged
      BY <3>1 DEF Unmerged
    <3> QED
      BY <1>1, <1>2, <1>5, <1>8, <3>1, <3>2
  <2>3. merge[w].pc = "replace" =>
          /\ merge[w].from \in Nodes(u) /\ Key(u, merge[w].from) = merge[w].path
          /\ Top(u, merge[w].from) \notin R1
          /\ merge[w].from \in Tops(u) => u[merge[w].from].parent = 0
    <3> SUFFICES ASSUME merge[w].pc = "replace"
                 PROVE  /\ merge[w].from \in Nodes(u) /\ Key(u, merge[w].from) = merge[w].path
                        /\ Top(u, merge[w].from) \notin R1
                        /\ merge[w].from \in Tops(u) => u[merge[w].from].parent = 0
      OBVIOUS
    <3>1. /\ merge[w].from \in Nodes(t) /\ Key(t, merge[w].from) = merge[w].path
          /\ Top(t, merge[w].from) \notin R
          /\ merge[w].from \in Tops(t) => t[merge[w].from].parent = 0
      BY <2>1 DEF MergeFits
    <3> QED
      BY <1>1, <1>2, <1>3, <1>4, <1>5, <1>6, <3>1
  <2> QED
    BY <2>1, <2>2, <2>3 DEF MergeFits
<1>9. \A w \in Session : UploadFits(tree', upload'[w])
  BY <1>2, <1>7
<1>10. \A w \in Session : MergeFits(tree', merge'[w], root'[w], Roots(root', Unmerged'))
  BY <1>2, <1>4, <1>8
<1> QED
  BY <1>9, <1>10 DEF Shape

(* A step with the same roots that moves no node.                          *)
LEMMA StaysStep ==
  ASSUME Shape, NEW s \in Session, Typed', OnlyOf(s), root' = root, Unmerged' = Unmerged,
         IsTree(tree'), Stays(tree, tree'), Apart(tree', root, Unmerged), MasterFits',
         UploadFits(tree', upload'[s]),
         MergeFits(tree', merge'[s], root[s], Roots(root, Unmerged))
  PROVE  Shape'
<1>1. PICK t : t = tree
  OBVIOUS
<1>2. PICK u : u = tree'
  OBVIOUS
<1>3. PICK S : S = Unmerged /\ S = Unmerged'
  OBVIOUS
<1>4. PICK rt : rt = root /\ rt = root'
  OBVIOUS
<1>5. Keeps(t, u) /\ \A n \in Nodes(t) : Top(u, n) = Top(t, n)
  BY <1>1, <1>2 DEF Stays
<1>6. Apart(tree', root', Unmerged')
  BY <1>3, <1>4
<1>7. MergeFits(tree', merge'[s], root'[s], Roots(root', Unmerged'))
  BY <1>3, <1>4
<1>8. \A w \in Unmerged \ {s} : \A n \in Nodes(tree) :
         Top(tree, n) = root[w] => Top(tree', n) = root[w]
  BY <1>1, <1>2, <1>5
<1>9. \A n \in Nodes(tree) :
         Top(tree, n) \notin Roots(root, Unmerged) => Top(tree', n) \notin Roots(root', Unmerged')
  BY <1>1, <1>2, <1>3, <1>4, <1>5
<1>10. Keeps(tree, tree')
  BY <1>1, <1>2, <1>5
<1> QED
  BY <1>6, <1>7, <1>8, <1>9, <1>10, TreeStep

(* The cached master stays the root it is.                                 *)
LEMMA MasterStays ==
  ASSUME MasterFits, Stays(tree, tree'), master' = master
  PROVE  MasterFits'
BY DEF MasterFits, Stays, Keeps

(* Where no node moves, a merge keeps its places.                          *)
LEMMA MergeStays ==
  ASSUME NEW t, NEW u, NEW me, NEW r, NEW roots,
         IsTree(t), IsTree(u), Stays(t, u), MergeFits(t, me, r, roots)
  PROVE  MergeFits(u, me, r, roots)
<1>1. /\ Nodes(t) \subseteq Nodes(u)
      /\ \A n \in Nodes(t) : Key(u, n) = Key(t, n) /\ Top(u, n) = Top(t, n)
      /\ \A n \in Tops(t) : u[n].parent = t[n].parent
  BY DEF Stays, Keeps, Nodes
<1>2. \A n \in Nodes(t) : n \in Tops(u) => n \in Tops(t)
  BY <1>1, KeyLevels
<1> QED
  BY <1>1, <1>2 DEF MergeFits

(* Put sets a value of the path of its node.                               *)
LEMMA PutShape ==
  ASSUME Shape, NEW s \in Session, Put(s)
  PROVE  Shape'
<1>1. /\ tree' = [tree EXCEPT ![upload[s].node].value = Upload(s)]
      /\ Over(s) /\ root' = root /\ merge' = merge /\ master' = master
      /\ upload[s].pc = "put"
  BY DEF Put, At
<1>2. OnlyUpload(s) /\ upload'[s].pc = "idle"
  BY <1>1, OverStep DEF Shape
<1>3. PICK up : up = upload[s]
  OBVIOUS
<1>4. up.node \in Leaves(tree) /\ Key(tree, up.node) = up.path
  BY <1>1, <1>3 DEF Shape, UploadFits, Holds
<1>5. PICK t : t = tree
  OBVIOUS
<1>6. PICK u : u = tree'
  OBVIOUS
<1>7. PICK v : v = Upload(s)
  OBVIOUS
<1>8. v.path = Key(t, up.node)
  BY <1>3, <1>4, <1>5, <1>7 DEF Upload
<1>9. u = [t EXCEPT ![up.node].value = v]
  BY <1>1, <1>3, <1>5, <1>6, <1>7
<1>10. PICK S : S = Unmerged /\ S = Unmerged'
  BY <1>1 DEF Unmerged
<1>11. PICK rt : rt = root
  OBVIOUS
<1>12. IsTree(u) /\ Stays(t, u) /\ Apart(u, rt, S)
  <2>1. IsTree(t) /\ Apart(t, rt, S) /\ up.node \in Leaves(t)
    BY <1>4, <1>5, <1>10, <1>11 DEF Shape
  <2> QED
    BY <1>8, <1>9, <2>1, PutTree
<1>13. Typed'
  BY <1>1, <1>2 DEF Shape, Typed, RestTyped, LeftTyped, Put, OnlyUpload
<1>14. MasterFits'
  BY <1>1, <1>5, <1>6, <1>12, MasterStays DEF Shape
<1>15. UploadFits(tree', upload'[s])
  BY <1>2 DEF UploadFits, Holds
<1>16. MergeFits(u, merge[s], rt[s], Roots(rt, S))
  <2>1. MergeFits(t, merge[s], rt[s], Roots(rt, S)) /\ IsTree(t)
    BY <1>5, <1>10, <1>11 DEF Shape
  <2> QED
    BY <1>12, <2>1, MergeStays
<1>17. OnlyOf(s)
  BY <1>1, <1>2 DEF OnlyUpload, OnlyOf
<1>18. /\ IsTree(tree') /\ Stays(tree, tree') /\ Apart(tree', root, Unmerged)
       /\ MergeFits(tree', merge'[s], root[s], Roots(root, Unmerged)) /\ Unmerged' = Unmerged
  BY <1>1, <1>5, <1>6, <1>10, <1>11, <1>12, <1>16
<1> QED
  BY <1>1, <1>13, <1>14, <1>15, <1>17, <1>18, StaysStep

(* GetNode finds or makes the file in the branch.                          *)
LEMMA GetNodeShape ==
  ASSUME Shape, NEW s \in Session, GetNode(s)
  PROVE  Shape'
<1>1. PICK up : up = upload[s]
  OBVIOUS
<1>2. PICK t : t = tree
  OBVIOUS
<1>3. PICK at : at = getNode(t, up.root, up.path)
  OBVIOUS
<1>4. PICK u : u = tree'
  OBVIOUS
<1>5. PICK S : S = Unmerged /\ S = Unmerged'
  BY DEF Unmerged, GetNode
<1>6. PICK rt : rt = root
  OBVIOUS
<1>7. /\ u = at.tree /\ root' = root /\ merge' = merge /\ master' = master
      /\ upload' = [upload EXCEPT ![s].pc = "write", ![s].root = Null, ![s].node = at.node]
  BY <1>1, <1>2, <1>3, <1>4 DEF GetNode
<1>8. /\ UploadTyped(up) /\ up.path \in Path /\ up.root \in Tops(t)
      /\ IsTree(t) /\ Apart(t, rt, S)
  BY <1>1, <1>2, <1>5, <1>6 DEF Shape, Typed, UploadFits, GetNode, At
<1>9. PICK path : path = up.path
  OBVIOUS
<1>10. path = <<path[1], path[2]>>
  BY <1>8, <1>9, BranchAssumption DEF BranchAssumption
<1>11. IsKey(path) /\ Len(path) = 2
  <2>1. PICK a, b : a = path[1] /\ b = path[2]
    OBVIOUS
  <2>2. path = <<a, b>>
    BY <1>10, <2>1
  <2>3. Len(<<a, b>>) = 2
    OBVIOUS
  <2> QED
    BY <2>2, <2>3 DEF IsKey
<1>12. /\ IsTree(u) /\ Stays(t, u) /\ Apart(u, rt, S)
       /\ at.node \in Nodes(u) /\ Key(u, at.node) = path
  BY <1>3, <1>7, <1>8, <1>9, <1>11, getNodeFacts
<1>13. at.node \in Leaves(u)
  BY <1>11, <1>12, KeyLevels
<1>14. PICK new : new = [pc |-> "write", then |-> up.then, n |-> up.n, path |-> up.path,
                         root |-> Null, node |-> at.node]
  OBVIOUS
<1>15. UploadTyped(new)
  BY <1>8, <1>14 DEF UploadTyped
<1>16. upload' = [upload EXCEPT ![s] = new]
  <2>1. PICK mid : mid = [up EXCEPT !.pc = "write"]
    OBVIOUS
  <2>2. PICK late : late = [mid EXCEPT !.root = Null]
    OBVIOUS
  <2>3. mid = [pc |-> "write", then |-> up.then, n |-> up.n, path |-> up.path,
               root |-> up.root, node |-> up.node]
    BY <1>8, <2>1 DEF UploadTyped
  <2>4. late = [pc |-> "write", then |-> up.then, n |-> up.n, path |-> up.path,
                root |-> Null, node |-> up.node]
    BY <2>2, <2>3
  <2>5. new = [late EXCEPT !.node = at.node]
    BY <1>14, <2>4
  <2>6. upload = [w \in Session |-> upload[w]]
    BY DEF Shape, Typed
  <2> QED
    BY <1>1, <1>7, <2>1, <2>2, <2>5, <2>6
<1>17. OnlyUpload(s) /\ upload'[s] = new
  BY <1>15, <1>16 DEF Shape, Typed, OnlyUpload
<1>18. UploadFits(u, new)
  BY <1>8, <1>9, <1>12, <1>13, <1>14 DEF UploadFits, Holds
<1>19. Typed'
  BY <1>7, <1>17 DEF Shape, Typed, RestTyped, LeftTyped, GetNode, OnlyUpload
<1>20. MasterFits'
  BY <1>2, <1>4, <1>7, <1>12, MasterStays DEF Shape
<1>21. MergeFits(u, merge[s], rt[s], Roots(rt, S))
  <2>1. MergeFits(t, merge[s], rt[s], Roots(rt, S)) /\ IsTree(t)
    BY <1>2, <1>5, <1>6 DEF Shape
  <2> QED
    BY <1>12, <2>1, MergeStays
<1>22. OnlyOf(s)
  BY <1>7, <1>17 DEF OnlyUpload, OnlyOf
<1>23. /\ IsTree(tree') /\ Stays(tree, tree') /\ Apart(tree', root, Unmerged)
       /\ MergeFits(tree', merge'[s], root[s], Roots(root, Unmerged)) /\ Unmerged' = Unmerged
       /\ UploadFits(tree', upload'[s])
  BY <1>2, <1>4, <1>5, <1>6, <1>7, <1>12, <1>17, <1>18, <1>21
<1> QED
  BY <1>7, <1>19, <1>20, <1>22, <1>23, StaysStep

(* Master is a root of the tree, and no branch.                            *)
LEMMA MasterIsTop ==
  ASSUME Shape
  PROVE  /\ Master \in Tops(tree) /\ tree[Master].parent = 0
         /\ Master \notin Roots(root, Unmerged)
<1>1. IsTree(tree) /\ Apart(tree, root, Unmerged) /\ MasterFits
  BY DEF Shape
<1>2. Master \in Tops(tree) /\ tree[Master].parent = 0
  <2>1. CASE master # Null
    BY <1>1, <2>1 DEF Master, MasterFits
  <2>2. CASE master = Null
    <3>1. Master = MasterOf(tree)
      BY <1>1, <2>2, MasterLocal DEF Master
    <3> QED
      BY <1>1, <3>1 DEF IsTree, Rooted
  <2> QED
    BY <2>1, <2>2
<1>3. \A s \in Unmerged : tree[root[s]].parent = 1
  BY <1>1 DEF Apart
<1> QED
  BY <1>2, <1>3 DEF Roots

(* Locate finds or makes a node of the same path in master.                *)
LEMMA LocateShape ==
  ASSUME Shape, NEW s \in Session, Locate(s)
  PROVE  Shape'
<1>1. PICK me : me = merge[s]
  OBVIOUS
<1>2. PICK t : t = tree
  OBVIOUS
<1>3. PICK top : top = Master
  OBVIOUS
<1>4. PICK at : at = getNode(t, top, me.path)
  OBVIOUS
<1>5. PICK u : u = tree'
  OBVIOUS
<1>6. /\ u = at.tree /\ root' = root /\ upload' = upload /\ master' = top
      /\ merge' = [merge EXCEPT ![s].pc = "replace", ![s].from = at.node]
  BY <1>1, <1>2, <1>3, <1>4, <1>5 DEF Locate
<1>7. me.pc = "locate" /\ MergeTyped(me)
  BY <1>1 DEF Shape, Typed, Locate, MergeAt
<1>8. PICK new : new = [pc |-> "replace", to |-> me.to, path |-> me.path, from |-> at.node]
  OBVIOUS
<1>9. MergeTyped(new)
  BY <1>8 DEF MergeTyped
<1>10. merge' = [merge EXCEPT ![s] = new]
  <2>1. PICK mid : mid = [me EXCEPT !.pc = "replace"]
    OBVIOUS
  <2>2. mid = [pc |-> "replace", to |-> me.to, path |-> me.path, from |-> me.from]
    BY <1>7, <2>1 DEF MergeTyped
  <2>3. new = [mid EXCEPT !.from = at.node]
    BY <1>8, <2>2
  <2>4. merge = [w \in Session |-> merge[w]]
    BY DEF Shape, Typed
  <2> QED
    BY <1>1, <1>6, <2>1, <2>3, <2>4
<1>11. OnlyMerge(s) /\ merge'[s] = new
  BY <1>9, <1>10 DEF Shape, Typed, OnlyMerge
<1>12. Unmerged' = Unmerged
  <2>1. merge[s].pc # "finish" /\ new.pc = "replace"
    BY <1>1, <1>7, <1>8
  <2>2. merge'[s].pc # "finish"
    BY <1>11, <2>1
  <2> QED
    BY <1>6, <1>11, <2>1, <2>2, SameUnmerged
<1>13. PICK S : S = Unmerged
  OBVIOUS
<1>14. PICK rt : rt = root
  OBVIOUS
<1>15. /\ IsTree(t) /\ Apart(t, rt, S) /\ MergeFits(t, me, rt[s], Roots(rt, S))
       /\ top \in Tops(t) /\ t[top].parent = 0 /\ top \notin Roots(rt, S)
  BY <1>1, <1>2, <1>3, <1>13, <1>14, MasterIsTop DEF Shape
<1>16. /\ rt[s] # Null /\ me.to \in Nodes(t) /\ Top(t, me.to) = rt[s]
       /\ me.path = Key(t, me.to)
  BY <1>7, <1>15 DEF MergeFits
<1>17. IsKey(me.path)
  BY <1>15, <1>16, KeyLevels
<1>18. /\ IsTree(u) /\ Stays(t, u) /\ Apart(u, rt, S)
       /\ at.node \in Nodes(u) /\ Key(u, at.node) = me.path
       /\ Top(u, at.node) \notin Roots(rt, S)
       /\ me.path = <<>> => at.node = top /\ u = t
  BY <1>4, <1>6, <1>15, <1>17, getNodeFacts
<1>19. at.node \in Tops(u) => u[at.node].parent = 0
  BY <1>15, <1>18, NodeFacts
<1>20. MergeFits(u, new, rt[s], Roots(rt, S))
  <2>1. me.to \in Nodes(u) /\ Top(u, me.to) = rt[s] /\ me.path = Key(u, me.to)
    BY <1>16, <1>18 DEF Stays, Keeps, Nodes
  <2> QED
    BY <1>8, <1>16, <1>18, <1>19, <2>1 DEF MergeFits
<1>21. Typed'
  BY <1>6, <1>11 DEF Shape, Typed, RestTyped, LeftTyped, Locate, OnlyMerge
<1>22. MasterFits'
  <2>1. top \in Tops(u) /\ u[top].parent = 0
    BY <1>15, <1>18 DEF Stays, Keeps
  <2> QED
    BY <1>5, <1>6, <2>1 DEF MasterFits
<1>23. UploadFits(u, upload[s])
  <2>1. UploadFits(t, upload[s])
    BY <1>2 DEF Shape
  <2> QED
    BY <1>18, <2>1 DEF UploadFits, Stays, Keeps, Nodes
<1>24. OnlyOf(s)
  BY <1>6, <1>11 DEF OnlyMerge, OnlyOf
<1>25. /\ IsTree(tree') /\ Stays(tree, tree') /\ Apart(tree', root, Unmerged)
       /\ MergeFits(tree', merge'[s], root[s], Roots(root, Unmerged))
       /\ UploadFits(tree', upload'[s])
  BY <1>2, <1>5, <1>6, <1>11, <1>13, <1>14, <1>18, <1>20, <1>23
<1> QED
  BY <1>6, <1>12, <1>21, <1>22, <1>24, <1>25, StaysStep

(* Replace exchanges the two; the branch is no longer apart.               *)
LEMMA ReplaceShape ==
  ASSUME Shape, NEW s \in Session, Replace(s)
  PROVE  Shape'
<1>1. PICK me : me = merge[s]
  OBVIOUS
<1>2. PICK t : t = tree
  OBVIOUS
<1>3. PICK u : u = tree'
  OBVIOUS
<1>4. PICK S : S = Unmerged
  OBVIOUS
<1>5. PICK rt : rt = root
  OBVIOUS
<1>6. /\ CanReplace(t, me.from) /\ u = replace(t, me.from, me.to)
      /\ master' = IF me.from = master THEN Null ELSE master
      /\ root' = rt /\ upload' = upload /\ MergeGoes(s, "finish") /\ me.pc = "replace"
  BY <1>1, <1>2, <1>3, <1>5 DEF Replace, MergeAt
<1>7. IsTree(t) /\ Apart(t, rt, S) /\ MergeFits(t, me, rt[s], Roots(rt, S))
  BY <1>1, <1>2, <1>4, <1>5 DEF Shape
<1>8. Exchanges(t, me.from, me.to, rt, S, s)
  <2>1. s \in S
    BY <1>1, <1>4, <1>5, <1>6, <1>7 DEF Unmerged, MergeFits
  <2> QED
    BY <1>6, <1>7, <2>1 DEF Exchanges, MergeFits
<1>9. /\ me.from \in DOMAIN t /\ me.to \in DOMAIN t /\ t[me.from].parent \in DOMAIN t
      /\ t[me.from].parent # me.to
  BY <1>8, ExchangeFacts
<1>10. Numbered(u) /\ \E slot : Replaced(t, u, me.from, me.to, slot)
  BY <1>6, <1>7, <1>9, ReplaceFacts DEF IsTree
<1>23. PICK slot : Replaced(t, u, me.from, me.to, slot)
  BY <1>10
<1>11. IsTree(u) /\ Keeps(t, u)
  BY <1>8, <1>10, <1>23, ExchangeTree
<1>12. /\ Apart(u, rt, S \ {s})
       /\ \A w \in S \ {s} : \A n \in Nodes(t) : Top(u, n) = rt[w] <=> Top(t, n) = rt[w]
       /\ \A n \in Nodes(t) : Top(t, n) \notin Roots(rt, S) => Top(u, n) = Top(t, n)
  BY <1>8, <1>11, <1>23, ExchangeApart
<1>13. OnlyMerge(s) /\ merge'[s].pc = "finish"
  BY <1>6, MergeGoesStep DEF Shape
<1>14. Unmerged' = S \ {s}
  BY <1>4, <1>5, <1>6, <1>13 DEF Unmerged, OnlyMerge
<1>15. Typed'
  BY <1>5, <1>6, <1>13 DEF Shape, Typed, RestTyped, LeftTyped, Replace, OnlyMerge
<1>16. MasterFits'
  <2>1. \A n \in Tops(t) : t[n].parent = 0 => n \in Tops(u) /\ u[n].parent = 0
    BY <1>11 DEF Keeps
  <2> QED
    BY <1>2, <1>3, <1>6, <2>1 DEF Shape, MasterFits
<1>17. UploadFits(u, upload[s])
  <2>1. UploadFits(t, upload[s])
    BY <1>2 DEF Shape
  <2> QED
    BY <1>11, <2>1 DEF UploadFits, Keeps, Nodes
<1>18. MergeFits(tree', merge'[s], root'[s], Roots(root', Unmerged'))
  BY <1>13 DEF MergeFits
<1>19. OnlyOf(s)
  BY <1>5, <1>6, <1>13 DEF OnlyMerge, OnlyOf
<1>20. Roots(rt, S \ {s}) \subseteq Roots(rt, S)
  BY DEF Roots
<1>21. \A n \in Nodes(t) : Top(t, n) \notin Roots(rt, S) => Top(u, n) \notin Roots(rt, S \ {s})
  BY <1>12, <1>20
<1>22. /\ IsTree(tree') /\ Keeps(tree, tree') /\ Apart(tree', root', Unmerged')
       /\ UploadFits(tree', upload'[s])
       /\ \A w \in Unmerged \ {s} : \A n \in Nodes(tree) :
             Top(tree, n) = root[w] => Top(tree', n) = root[w]
       /\ \A n \in Nodes(tree) :
             Top(tree, n) \notin Roots(root, Unmerged) =>
                Top(tree', n) \notin Roots(root', Unmerged')
  BY <1>2, <1>3, <1>4, <1>5, <1>6, <1>11, <1>12, <1>14, <1>17, <1>21
<1> QED
  BY <1>15, <1>16, <1>18, <1>19, <1>22, TreeStep

(* Finish forgets the root of a branch that is merged already.             *)
LEMMA FinishShape ==
  ASSUME Shape, NEW s \in Session, Finish(s)
  PROVE  Shape'
<1>1. PICK rt : rt = root
  OBVIOUS
<1>2. PICK new : new = root'
  OBVIOUS
<1>3. PICK t : t = tree
  OBVIOUS
<1>4. PICK S : S = Unmerged
  OBVIOUS
<1>5. /\ new = [rt EXCEPT ![s] = Null] /\ MergeEnds(s) /\ tree' = t /\ upload' = upload
      /\ master' = master /\ merge[s].pc = "finish"
  BY <1>1, <1>2, <1>3 DEF Finish, MergeAt
<1>6. OnlyMerge(s) /\ merge'[s].pc = "idle"
  BY <1>5, MergeEndsStep DEF Shape
<1>7. /\ rt = [w \in Session |-> rt[w]] /\ new = [w \in Session |-> new[w]] /\ new[s] = Null
      /\ \A w \in Session : w # s => new[w] = rt[w]
  BY <1>1, <1>5 DEF Shape, Typed
<1>8. Unmerged' = S /\ s \notin S
  BY <1>1, <1>2, <1>4, <1>5, <1>6, <1>7 DEF Unmerged, OnlyMerge
<1>9. IsTree(t) /\ Apart(t, rt, S) /\ S \subseteq Session
  BY <1>1, <1>3, <1>4 DEF Shape, Apart
<1>10. Roots(new, S) = Roots(rt, S)
  BY <1>7, <1>8, <1>9 DEF Roots
<1>11. Apart(t, new, S)
  BY <1>7, <1>8, <1>9, <1>10 DEF Apart
<1>12. Typed'
  BY <1>1, <1>2, <1>5, <1>6, <1>7 DEF Shape, Typed, RestTyped, LeftTyped, Finish, OnlyMerge
<1>13. MasterFits'
  BY <1>3, <1>5 DEF Shape, MasterFits
<1>14. UploadFits(tree', upload'[s])
  BY <1>3, <1>5 DEF Shape
<1>15. MergeFits(tree', merge'[s], root'[s], Roots(root', Unmerged'))
  BY <1>6 DEF MergeFits
<1>16. OnlyOf(s)
  BY <1>1, <1>2, <1>5, <1>6, <1>7 DEF OnlyMerge, OnlyOf
<1>17. /\ IsTree(tree') /\ Keeps(tree, tree') /\ Apart(tree', root', Unmerged')
       /\ \A w \in Unmerged \ {s} : \A n \in Nodes(tree) :
             Top(tree, n) = root[w] => Top(tree', n) = root[w]
       /\ \A n \in Nodes(tree) :
             Top(tree, n) \notin Roots(root, Unmerged) =>
                Top(tree', n) \notin Roots(root', Unmerged')
  <2>1. Keeps(t, t)
    BY DEF Keeps
  <2> QED
    BY <1>1, <1>2, <1>3, <1>4, <1>5, <1>8, <1>9, <1>10, <1>11, <2>1
<1> QED
  BY <1>12, <1>13, <1>14, <1>15, <1>16, <1>17, TreeStep

(* The root that getRoot makes is a new branch without files.              *)
NewRoot(rt, new, s, k) ==
    rt[s] = Null /\ new[s] = k /\ \A w \in Session : w # s => new[w] = rt[w]

(* Such a root is apart, and no other branch meets it.                     *)
LEMMA RootApart ==
  ASSUME NEW t, NEW u, NEW k, NEW rt, NEW new, NEW S, NEW S1, NEW s \in Session,
         IsTree(t), IsTree(u), Added(t, u, 1, k, k, Null), Apart(t, rt, S),
         NewRoot(rt, new, s, k), S1 \in {S, S \union {s}}
  PROVE  /\ Apart(u, new, S1)
         /\ \A w \in S : new[w] = rt[w] /\ w # s
         /\ \A n \in Nodes(t) :
               Top(t, n) \notin Roots(rt, S) => Top(u, n) \notin Roots(new, S1)
<1>0. rt[s] = Null /\ new[s] = k /\ \A w \in Session : w # s => new[w] = rt[w]
  BY DEF NewRoot
<1>1. Stays(t, u)
  BY AddedStays
<1>2. Tops(u) = Tops(t) \union {k} /\ Nodes(u) = Nodes(t) \union {k} /\ Tops(t) \subseteq DOMAIN t
  <2>1. 1 \notin Tops(t) /\ 1 \notin Dirs(t)
    BY LevelFacts DEF Nodes
  <2> QED
    BY <2>1, AddedLevels DEF Nodes, Tops
<1>3. /\ k \notin DOMAIN t /\ k # Null /\ u[k].parent = 1
      /\ \A n \in DOMAIN t : u[n].parent = t[n].parent
  BY BranchAssumption DEF Added, BranchAssumption
<1>4. /\ Locals(u, k) = {} /\ Nodes(t) \subseteq DOMAIN t
      /\ \A n \in Nodes(t) : Locals(u, n) = Locals(t, n) /\ Locals(t, n) \subseteq Nodes(t)
  BY AddLocalLocals, LevelFacts, LocalsAreNodes DEF IsTree
<1>5. Top(u, k) = k /\ \A n \in Nodes(t) : Top(u, n) = Top(t, n) /\ Top(t, n) # k
  BY <1>1, <1>2, <1>3, NodeFacts DEF Stays
<1>6. /\ S \subseteq Session
      /\ \A w \in Session : rt[w] # Null => rt[w] \in Tops(t)
      /\ \A w, v \in Session : w # v /\ rt[w] # Null => rt[w] # rt[v]
      /\ \A w \in S : rt[w] # Null /\ t[rt[w]].parent = 1 /\ Linked(t, rt[w])
      /\ \A n \in Nodes(t) : Top(t, n) \notin Roots(rt, S) =>
            \A m \in Locals(t, n) : Top(t, m) \notin Roots(rt, S)
  BY DEF Apart
<1>7. \A w \in S : new[w] = rt[w] /\ w # s
  BY <1>0, <1>6
<1>8. S1 \subseteq Session /\ \A w \in S1 : w # s => w \in S
  BY <1>6
<1>9. Roots(rt, S) \subseteq Roots(new, S1) /\ Roots(new, S1) \subseteq Roots(rt, S) \union {k}
  BY <1>0, <1>7, <1>8 DEF Roots
<1>10. \A w \in Session : new[w] # Null => new[w] \in Tops(u)
  BY <1>0, <1>2, <1>6
<1>11. \A w, v \in Session : w # v /\ new[w] # Null => new[w] # new[v]
  BY <1>0, <1>2, <1>3, <1>6
<1>12. ASSUME NEW w \in S1
       PROVE  new[w] # Null /\ u[new[w]].parent = 1 /\ Linked(u, new[w])
  <2>1. CASE w = s
    BY <1>0, <1>2, <1>3, <1>4, <1>5, <2>1 DEF Linked
  <2>2. CASE w # s
    <3>1. /\ new[w] = rt[w] /\ rt[w] # Null /\ t[rt[w]].parent = 1 /\ Linked(t, rt[w])
          /\ rt[w] \in DOMAIN t /\ rt[w] # k
      BY <1>2, <1>3, <1>6, <1>7, <1>8, <2>2
    <3>2. ASSUME NEW n \in Nodes(u), Top(u, n) = rt[w], NEW m \in Locals(u, n)
          PROVE  u[m].parent = n
      <4>1. n \in Nodes(t) /\ Top(t, n) = rt[w]
        BY <1>2, <1>5, <3>1, <3>2
      <4>2. m \in Locals(t, n) /\ m \in DOMAIN t
        BY <1>4, <3>2, <4>1
      <4> QED
        BY <1>3, <3>1, <4>1, <4>2 DEF Linked
    <3> QED
      BY <1>3, <3>1, <3>2 DEF Linked
  <2> QED
    BY <2>1, <2>2
<1>13. ASSUME NEW n \in Nodes(u), Top(u, n) \notin Roots(new, S1), NEW m \in Locals(u, n)
       PROVE  Top(u, m) \notin Roots(new, S1)
  <2>1. n \in Nodes(t) /\ Top(u, n) = Top(t, n) /\ m \in Locals(t, n) /\ m \in Nodes(t)
    BY <1>2, <1>4, <1>5, <1>13
  <2>2. Top(t, m) \notin Roots(rt, S)
    BY <1>6, <1>9, <1>13, <2>1
  <2> QED
    BY <1>5, <1>9, <2>1, <2>2
<1>14. Apart(u, new, S1)
  BY <1>8, <1>10, <1>11, <1>12, <1>13 DEF Apart
<1>15. \A n \in Nodes(t) : Top(t, n) \notin Roots(rt, S) => Top(u, n) \notin Roots(new, S1)
  BY <1>5, <1>9
<1> QED
  BY <1>7, <1>14, <1>15

(* GetRoot finds a root, or makes one.                                     *)
LEMMA GetRootShape ==
  ASSUME Shape, NEW s \in Session, GetRoot(s)
  PROVE  Shape'
<1>1. CASE root[s] # Null
  <2>1. /\ Go(s, "returnRoot") /\ UNCHANGED <<tree, root, master, merge>>
        /\ upload[s].pc = "getRoot"
    BY <1>1 DEF GetRoot, At
  <2>2. /\ OnlyUpload(s) /\ upload'[s].pc = "returnRoot" /\ upload'[s].path = upload[s].path
    BY <2>1, GoStep DEF Shape
  <2>3. UploadFits(tree, upload[s])
    BY DEF Shape
  <2>4. UploadFits(tree, upload'[s])
    BY <2>1, <2>2, <2>3 DEF UploadFits, Holds
  <2>5. RestTyped'
    BY DEF GetRoot, Shape, Typed, RestTyped, LeftTyped
  <2> QED
    BY <2>1, <2>2, <2>4, <2>5, UploadQuiet
<1>2. CASE root[s] = Null
  <2>1. PICK t : t = tree
    OBVIOUS
  <2>2. PICK u : u = tree'
    OBVIOUS
  <2>3. PICK k : k = NewNode(t)
    OBVIOUS
  <2>4. PICK rt : rt = root
    OBVIOUS
  <2>5. PICK new : new = root'
    OBVIOUS
  <2>6. PICK S : S = Unmerged
    OBVIOUS
  <2>7. PICK S1 : S1 = Unmerged'
    OBVIOUS
  <2>8. /\ u = AddLocal(t, 1, k, Null) /\ new = [rt EXCEPT ![s] = k]
        /\ upload' = [upload EXCEPT ![s].pc = "newTimer", ![s].then = "returnRoot"]
        /\ master' = master /\ merge' = merge /\ upload[s].pc = "getRoot"
    BY <1>2, <2>1, <2>2, <2>3, <2>4, <2>5 DEF GetRoot, At
  <2>9. /\ IsTree(t) /\ Apart(t, rt, S) /\ 1 \in DOMAIN t /\ rt[s] = Null
        /\ S \subseteq Session
    BY <1>2, <2>1, <2>4, <2>6, LevelFacts DEF Shape, Apart
  <2>10. Numbered(u) /\ Added(t, u, 1, k, k, Null)
    BY <2>3, <2>8, <2>9, AddLocalFacts DEF IsTree
  <2>11. IsTree(u) /\ Stays(t, u)
    BY <2>9, <2>10, AddedTree, AddedStays
  <2>12. /\ rt = [w \in Session |-> rt[w]] /\ new = [w \in Session |-> new[w]] /\ new[s] = k
         /\ \A w \in Session : w # s => new[w] = rt[w]
    BY <2>4, <2>8 DEF Shape, Typed
  <2>13. S1 \in {S, S \union {s}} /\ NewRoot(rt, new, s, k)
    <3>1. S = {w \in Session : rt[w] # Null /\ merge[w].pc # "finish"}
      BY <2>4, <2>6 DEF Unmerged
    <3>2. S1 = {w \in Session : new[w] # Null /\ merge[w].pc # "finish"}
      BY <2>5, <2>7, <2>8 DEF Unmerged
    <3> QED
      BY <2>9, <2>12, <3>1, <3>2 DEF NewRoot
  <2>14. /\ Apart(u, new, S1)
         /\ \A w \in S : new[w] = rt[w] /\ w # s
         /\ \A n \in Nodes(t) :
               Top(t, n) \notin Roots(rt, S) => Top(u, n) \notin Roots(new, S1)
    BY <2>9, <2>10, <2>11, <2>13, RootApart
  <2>15. /\ OnlyUpload(s) /\ upload'[s].pc = "newTimer" /\ upload'[s].then = "returnRoot"
         /\ upload'[s].path = upload[s].path
    BY <2>8, ThenStep DEF Shape
  <2>16. Typed'
    BY <2>5, <2>8, <2>12, <2>15 DEF Shape, Typed, RestTyped, LeftTyped, GetRoot, OnlyUpload
  <2>17. MasterFits'
    BY <2>1, <2>2, <2>8, <2>11, MasterStays DEF Shape
  <2>18. UploadFits(u, upload'[s])
    <3>1. UploadFits(t, upload[s]) /\ Null # "returnRoot"
      BY <2>1, BranchAssumption DEF Shape, BranchAssumption
    <3> QED
      BY <2>8, <2>15, <3>1 DEF UploadFits, Holds
  <2>19. MergeFits(u, merge'[s], new[s], Roots(new, S1))
    <3>1. MergeFits(t, merge[s], rt[s], Roots(rt, S))
      BY <2>1, <2>4, <2>6 DEF Shape
    <3> QED
      BY <2>8, <2>9, <3>1 DEF MergeFits
  <2>20. OnlyOf(s)
    BY <2>4, <2>5, <2>8, <2>12, <2>15 DEF OnlyUpload, OnlyOf
  <2>21. /\ IsTree(tree') /\ Keeps(tree, tree') /\ Apart(tree', root', Unmerged')
         /\ UploadFits(tree', upload'[s])
         /\ MergeFits(tree', merge'[s], root'[s], Roots(root', Unmerged'))
    BY <2>1, <2>2, <2>5, <2>7, <2>11, <2>14, <2>18, <2>19 DEF Stays
  <2>22. \A w \in Unmerged \ {s} : \A n \in Nodes(tree) :
            Top(tree, n) = root[w] => Top(tree', n) = root[w]
    BY <2>1, <2>2, <2>11 DEF Stays
  <2>23. \A n \in Nodes(tree) :
            Top(tree, n) \notin Roots(root, Unmerged) =>
               Top(tree', n) \notin Roots(root', Unmerged')
    BY <2>1, <2>2, <2>4, <2>5, <2>6, <2>7, <2>14
  <2> QED
    BY <2>16, <2>17, <2>20, <2>21, <2>22, <2>23, TreeStep
<1> QED
  BY <1>1, <1>2

(* The invariant is inductive,                                             *)
LEMMA NextShape ==
  ASSUME Shape, [Next]_vars
  PROVE  Shape'
<1>1. ASSUME NEW s \in Session, Transfer(s)
      PROVE  Shape'
  BY <1>1, NewTimerShape, ScheduleShape, EndShape, GetRootShape, ReturnRootShape, GetNodeShape,
     PutShape DEF Transfer
<1>2. ASSUME NEW s \in Session, Merge(s)
      PROVE  Shape'
  BY <1>2, FireShape, FindShape, LocateShape, ReplaceShape, ReplaceThrowsShape, FinishShape
     DEF Merge
<1>3. CASE UNCHANGED vars
  BY <1>3 DEF vars, Shape, Typed, RestTyped, LeftTyped, MasterFits, Unmerged
<1> QED
  BY <1>1, <1>2, <1>3, BeginShape, WriteShape, FireShape, CreateFtpTempDirShape DEF Next

(* and so it always holds.                                                 *)
LEMMA AlwaysShape ==
  Spec => []Shape
<1>1. Init => Shape
  BY InitShape
<1>2. Shape /\ [Next]_vars => Shape'
  BY NextShape
<1> QED
  BY <1>1, <1>2, PTL DEF Spec

-----------------------------------------------------------------------------
(* Every node is linked to nodes, and every pc has the locals it needs.    *)
THEOREM TypeCorrect == Spec => []TypeOK
<1>1. Shape => TypeOK
  <2> SUFFICES ASSUME Shape
               PROVE  TypeOK
    OBVIOUS
  <2>1. IsTree(tree) /\ Apart(tree, root, Unmerged) /\ Typed /\ RestTyped
    BY DEF Shape, Typed
  <2>2. ASSUME NEW n \in DOMAIN tree
        PROVE  /\ tree[n].parent \in DOMAIN tree \union {Null}
               /\ \A i \in DOMAIN tree[n].locals : tree[n].locals[i] \in DOMAIN tree
    <3>1. n \in {0, 1} \union Nodes(tree)
      BY <2>1 DEF IsTree, Levels
    <3>2. 0 \in DOMAIN tree /\ tree[0].parent = Null /\ tree[1].parent = 0
      BY <2>1 DEF IsTree, Rooted
    <3>3. Nodes(tree) \subseteq DOMAIN tree /\ 1 \in DOMAIN tree
      BY <2>1, LevelFacts
    <3>4. n \in Nodes(tree) => tree[n].parent \in DOMAIN tree
      BY <2>1, <3>2, <3>3, NodeFacts DEF Nodes, Tops
    <3>5. tree[n].locals \in Seq(DOMAIN tree)
      BY <2>1 DEF IsTree, Numbered, IsNode
    <3> QED
      BY <3>1, <3>2, <3>4, <3>5
  <2>3. master \in DOMAIN tree \union {Null}
    BY DEF Shape, MasterFits, Tops
  <2>4. root \in [Session -> DOMAIN tree \union {Null}]
    <3>1. \A s \in Session : root[s] \in DOMAIN tree \union {Null}
      BY <2>1 DEF Apart, Tops
    <3>2. root = [s \in Session |-> root[s]]
      BY <2>1 DEF Typed
    <3> QED
      BY <3>1, <3>2
  <2>5. ASSUME NEW s \in Session
        PROVE  /\ At(s, "getNode") => upload[s].root # Null
               /\ upload[s].pc \in {"write", "put"} => upload[s].node # Null
               /\ MergeAt(s, "replace") => merge[s].from # Null /\ merge[s].to # Null
    <3>1. UploadFits(tree, upload[s]) /\ MergeFits(tree, merge[s], root[s], Roots(root, Unmerged))
      BY DEF Shape
    <3>2. Null \notin Nodes(tree)
      BY <2>1, LevelFacts
    <3> QED
      BY <3>1, <3>2 DEF At, MergeAt, UploadFits, MergeFits, Holds, Nodes
  <2> QED
    BY <2>1, <2>2, <2>3, <2>4, <2>5 DEF TypeOK, RestTyped
<1> QED
  BY <1>1, AlwaysShape, PTL

(* What master answers for a path was uploaded for that path, or was there *)
(* before: the node it finds has that path, and so has the node that close *)
(* puts a value on, wherever replace took it.                              *)
THEOREM AlwaysRightPlace == Spec => []RightPlace
<1>1. Shape => RightPlace
  <2> SUFFICES ASSUME Shape, NEW path \in Path, Content(path) # Null
               PROVE  Content(path).path = path
    BY DEF RightPlace
  <2>1. PICK t : t = tree
    OBVIOUS
  <2>2. IsTree(t)
    BY <2>1 DEF Shape
  <2>3. PICK a, b : a = path[1] /\ b = path[2]
    OBVIOUS
  <2>4. path = <<a, b>>
    BY <2>3, BranchAssumption DEF BranchAssumption
  <2>5. PICK top : top = MasterOf(t)
    OBVIOUS
  <2>6. Local(t, 0, "master") = top /\ top \in Tops(t) /\ top # Null
    BY <2>2, <2>5, MasterLocal, LevelFacts DEF IsTree, Rooted, Nodes
  <2>7. PICK d : d = Local(t, top, a)
    OBVIOUS
  <2>8. PICK f : f = Local(t, d, b)
    OBVIOUS
  <2>9. /\ Content(path) = t[f].value /\ d # Null /\ f # Null
    <3>1. getNodeIfExist(t, top, path) = IF d = Null THEN Null ELSE f
      BY <2>4, <2>6, <2>7, <2>8, getNodeIfExistSteps
    <3> QED
      BY <2>1, <2>6, <3>1 DEF Content
  <2>10. \A n \in DOMAIN t : t[n].locals \in Seq(Nat)
    BY <2>2, LevelFacts, SeqMonotonic DEF IsTree, Numbered, IsNode
  <2>11. d \in Dirs(t) /\ t[d].title = a
    <3>1. d \in Locals(t, top) /\ t[d].title = a
      BY <2>6, <2>7, <2>9, <2>10, LocalFacts DEF Tops
    <3> QED
      BY <2>2, <2>6, <3>1 DEF IsTree, Levels
  <2>12. f \in Leaves(t) /\ t[f].title = b /\ t[t[f].parent].title = a
    <3>1. f \in Locals(t, d) /\ t[f].title = b
      BY <2>8, <2>9, <2>10, <2>11, LocalFacts DEF Dirs
    <3> QED
      BY <2>2, <2>11, <3>1 DEF IsTree, Levels
  <2>13. Key(t, f) = path
    BY <2>2, <2>4, <2>12, NodeFacts
  <2> QED
    BY <2>2, <2>9, <2>12, <2>13 DEF IsTree, ValuesPlaced
<1> QED
  BY <1>1, AlwaysShape, PTL

-----------------------------------------------------------------------------
(* Nothing stays in a branch: an upload meets no merge of its session, a   *)
(* branch has a timer that runs, and no timer is cancelled before it was   *)
(* scheduled.  All that is so until something rough happens.               *)
Timed(up, me, r, clock) ==
    /\ up.pc # "idle" => me.pc = "idle"
    /\ r # Null /\ me.pc = "idle" /\ up.pc \notin {"newTimer", "schedule"} => clock = "scheduled"
    /\ up.pc = "schedule" => clock = "new"

Timely == rough \/ \A s \in Session : Timed(upload[s], merge[s], root[s], timer[s])

(* A step of one session keeps it, if it does for that session.            *)
LEMMA TimelyStep ==
  ASSUME Timely, NEW s \in Session, rough => rough',
         \A w \in Session : w # s => /\ upload'[w] = upload[w] /\ merge'[w] = merge[w]
                                     /\ root'[w] = root[w] /\ timer'[w] = timer[w],
         ~rough' /\ Timed(upload[s], merge[s], root[s], timer[s]) =>
            Timed(upload'[s], merge'[s], root'[s], timer'[s])
  PROVE  Timely'
<1>1. ASSUME NEW w \in Session, ~rough'
      PROVE  Timed(upload'[w], merge'[w], root'[w], timer'[w])
  <2>1. Timed(upload[w], merge[w], root[w], timer[w])
    BY <1>1 DEF Timely
  <2> QED
    BY <1>1, <2>1
<1> QED
  BY <1>1 DEF Timely

(* The steps of an upload keep it,                                         *)
LEMMA UploadTimely ==
  ASSUME Shape, Timely, NEW s \in Session,
         Transfer(s) \/ Begin(s) \/ Write(s) \/ Close(s) \/ Abort(s)
  PROVE  Timely'
<1>1. /\ UploadTyped(upload[s]) /\ MergeTyped(merge[s]) /\ Typed
      /\ upload = [w \in Session |-> upload[w]] /\ root = [w \in Session |-> root[w]]
      /\ timer = [w \in Session |-> timer[w]]
  BY DEF Shape, Typed, RestTyped
<1>2. CASE NewTimer(s)
  <2>1. OnlyUpload(s) /\ upload'[s].pc = "schedule" /\ upload[s].pc = "newTimer"
    BY <1>1, <1>2, GoStep DEF NewTimer, At
  <2>2. timer'[s] = "new" /\ merge' = merge /\ root' = root /\ rough' = rough
        /\ \A w \in Session : w # s => timer'[w] = timer[w]
    BY <1>1, <1>2 DEF NewTimer
  <2> QED
    BY <2>1, <2>2, TimelyStep DEF Timed, OnlyUpload
<1>3. CASE Schedule(s)
  <2>1. upload[s].then \in {"returnRoot", "write", "put"} /\ upload[s].pc = "schedule"
    BY <1>1, <1>3 DEF Schedule, At, Shape, UploadFits, UploadTyped
  <2>2. OnlyUpload(s) /\ upload'[s].pc = upload[s].then
    BY <1>1, <1>3, <2>1, GoStep DEF Schedule
  <2>3. timer'[s] = "scheduled" /\ merge' = merge /\ root' = root /\ rough' = rough
        /\ \A w \in Session : w # s => timer'[w] = timer[w]
    BY <1>1, <1>3 DEF Schedule
  <2> QED
    BY <2>1, <2>2, <2>3, TimelyStep DEF Timed, OnlyUpload
<1>4. CASE ScheduleThrows(s)
  <2>1. /\ OnlyUpload(s) /\ upload'[s].pc = "idle"
        /\ upload[s].pc = "schedule" /\ timer[s] = "cancelled"
    BY <1>1, <1>4, OverStep DEF ScheduleThrows, At
  <2>2. timer' = timer /\ merge' = merge /\ root' = root /\ rough' = rough
    BY <1>4 DEF ScheduleThrows
  <2> QED
    BY <2>1, <2>2, TimelyStep DEF Timed, OnlyUpload
<1>5. CASE Put(s) \/ PutThrows(s) \/ Abort(s)
  <2>1. OnlyUpload(s) /\ upload'[s].pc = "idle" /\ upload[s].pc \in {"put", "write"}
    BY <1>1, <1>5, OverStep DEF Put, PutThrows, Abort, At
  <2>2. timer' = timer /\ merge' = merge /\ root' = root /\ (rough => rough')
    BY <1>5 DEF Put, PutThrows, Abort
  <2> QED
    BY <2>1, <2>2, TimelyStep DEF Timed, OnlyUpload
<1>6. CASE GetRoot(s)
  <2>1. timer' = timer /\ merge' = merge /\ rough' = rough /\ upload[s].pc = "getRoot"
    BY <1>6 DEF GetRoot, At
  <2>2. CASE root[s] # Null
    <3>1. OnlyUpload(s) /\ upload'[s].pc = "returnRoot" /\ root' = root
      BY <1>1, <1>6, <2>2, GoStep DEF GetRoot
    <3> QED
      BY <2>1, <2>2, <3>1, TimelyStep DEF Timed, OnlyUpload
  <2>3. CASE root[s] = Null
    <3>1. OnlyUpload(s) /\ upload'[s].pc = "newTimer"
      BY <1>1, <1>6, <2>3, ThenStep DEF GetRoot
    <3>2. \A w \in Session : w # s => root'[w] = root[w]
      BY <1>1, <1>6, <2>3 DEF GetRoot
    <3> QED
      BY <2>1, <3>1, <3>2, TimelyStep DEF Timed, OnlyUpload
  <2> QED
    BY <2>2, <2>3
<1>7. CASE ReturnRoot(s)
  <2>1. timer' = timer /\ merge' = merge /\ root' = root /\ rough' = rough
        /\ upload[s].pc = "returnRoot"
    BY <1>7 DEF ReturnRoot, At
  <2>2. CASE root[s] = Null
    <3>1. OnlyUpload(s) /\ upload'[s].pc = "idle"
      BY <1>1, <1>7, <2>2, OverStep DEF ReturnRoot
    <3> QED
      BY <2>1, <2>2, <3>1, TimelyStep DEF Timed, OnlyUpload
  <2>3. CASE root[s] # Null
    <3>1. upload'[s].pc = "getNode" /\ \A w \in Session : w # s => upload'[w] = upload[w]
      BY <1>1, <1>7, <2>3 DEF ReturnRoot, UploadTyped
    <3> QED
      BY <2>1, <2>3, <3>1, TimelyStep DEF Timed
  <2> QED
    BY <2>2, <2>3
<1>8. CASE GetNode(s)
  <2>1. timer' = timer /\ merge' = merge /\ root' = root /\ rough' = rough
        /\ upload[s].pc = "getNode"
    BY <1>8 DEF GetNode, At
  <2>2. PICK node : upload' = [upload EXCEPT ![s].pc = "write", ![s].root = Null,
                                             ![s].node = node]
    BY <1>8 DEF GetNode
  <2>3. upload'[s].pc = "write" /\ \A w \in Session : w # s => upload'[w] = upload[w]
    BY <1>1, <2>2 DEF UploadTyped
  <2> QED
    BY <2>1, <2>3, TimelyStep DEF Timed
<1>9. CASE Begin(s)
  <2>1. timer' = timer /\ merge' = merge /\ root' = root /\ rough' = (rough \/ merge[s].pc # "idle")
        /\ upload[s].pc = "idle"
    BY <1>9 DEF Begin, At, MergeAt
  <2>2. PICK path : upload' = [upload EXCEPT ![s].pc = "getRoot", ![s].path = path, ![s].n = @ + 1]
    BY <1>9 DEF Begin
  <2>3. upload'[s].pc = "getRoot" /\ \A w \in Session : w # s => upload'[w] = upload[w]
    BY <1>1, <2>2 DEF UploadTyped
  <2> QED
    BY <2>1, <2>3, TimelyStep DEF Timed
<1>10. CASE Write(s) \/ Close(s)
  <2>1. timer' = timer /\ merge' = merge /\ root' = root /\ rough' = rough
        /\ upload[s].pc = "write"
    BY <1>10 DEF Write, Close, At
  <2>2. OnlyUpload(s) /\ upload'[s].pc = "newTimer"
    BY <1>1, <1>10, ThenStep DEF Write, Close
  <2> QED
    BY <2>1, <2>2, TimelyStep DEF Timed, OnlyUpload
<1> QED
  BY <1>2, <1>3, <1>4, <1>5, <1>6, <1>7, <1>8, <1>9, <1>10 DEF Transfer

(* and so do those of a merge.                                             *)
LEMMA MergeTimely ==
  ASSUME Shape, Timely, NEW s \in Session, Merge(s) \/ Fire(s)
  PROVE  Timely'
<1>1. /\ MergeTyped(merge[s]) /\ Typed
      /\ root = [w \in Session |-> root[w]] /\ timer = [w \in Session |-> timer[w]]
  BY DEF Shape, Typed, RestTyped
<1>2. CASE Fire(s) \/ Cancel(s)
  <2>1. PICK pc \in {"cancel", "find"} : MergeGoes(s, pc)
    BY <1>2 DEF Fire, Cancel
  <2>2. OnlyMerge(s) /\ merge'[s].pc = pc
    BY <1>1, <2>1, MergeGoesStep
  <2>3. upload' = upload /\ root' = root /\ \A w \in Session : w # s => timer'[w] = timer[w]
    BY <1>1, <1>2 DEF Fire, Cancel
  <2>4. (rough => rough') /\ (~rough' => upload[s].pc = "idle" \/ merge[s].pc # "idle")
    <3>1. CASE Fire(s)
      <4>1. rough' = (rough \/ ~At(s, "idle") \/ Cardinality(FilesOf(s)) # 1)
        BY <3>1 DEF Fire
      <4> QED
        BY <4>1, Zenon DEF At
    <3>2. CASE Cancel(s)
      BY <3>2 DEF Cancel, MergeAt
    <3> QED
      BY <1>2, <3>1, <3>2
  <2> QED
    BY <2>1, <2>2, <2>3, <2>4, TimelyStep DEF Timed, OnlyMerge
<1>3. CASE Find(s)
  <2>1. /\ OnlyMerge(s) /\ merge[s].pc = "find"
        /\ root[s] = Null => merge'[s].pc = "idle"
        /\ root[s] # Null => merge'[s].pc = "locate"
    BY <1>3, FindStep
  <2>2. upload' = upload /\ root' = root /\ timer' = timer /\ rough' = rough
    BY <1>3 DEF Find
  <2> QED
    BY <2>1, <2>2, TimelyStep DEF Timed, OnlyMerge
<1>4. CASE Locate(s)
  <2>1. PICK from : merge' = [merge EXCEPT ![s].pc = "replace", ![s].from = from]
    BY <1>4 DEF Locate
  <2>2. merge'[s].pc = "replace" /\ \A w \in Session : w # s => merge'[w] = merge[w]
    BY <1>1, <2>1 DEF Typed, MergeTyped
  <2>3. upload' = upload /\ root' = root /\ timer' = timer /\ rough' = rough
        /\ merge[s].pc = "locate"
    BY <1>4 DEF Locate, MergeAt
  <2> QED
    BY <2>2, <2>3, TimelyStep DEF Timed
<1>5. CASE Replace(s)
  <2>1. OnlyMerge(s) /\ merge'[s].pc = "finish" /\ merge[s].pc = "replace"
    BY <1>1, <1>5, MergeGoesStep DEF Replace, MergeAt
  <2>2. upload' = upload /\ root' = root /\ timer' = timer /\ rough' = rough
    BY <1>5 DEF Replace
  <2> QED
    BY <2>1, <2>2, TimelyStep DEF Timed, OnlyMerge
<1>6. CASE ReplaceThrows(s)
  BY <1>6 DEF ReplaceThrows, Timely
<1>7. CASE Finish(s)
  <2>1. OnlyMerge(s) /\ merge'[s].pc = "idle" /\ merge[s].pc = "finish"
    BY <1>1, <1>7, MergeEndsStep DEF Finish, MergeAt
  <2>2. upload' = upload /\ timer' = timer /\ rough' = rough /\ root'[s] = Null
        /\ \A w \in Session : w # s => root'[w] = root[w]
    BY <1>1, <1>7 DEF Finish
  <2> QED
    BY <2>1, <2>2, TimelyStep DEF Timed, OnlyMerge
<1> QED
  BY <1>2, <1>3, <1>4, <1>5, <1>6, <1>7 DEF Merge

(* So it always holds.                                                     *)
LEMMA AlwaysTimely ==
  Spec => []Timely
<1>1. Init => Timely
  <2> SUFFICES ASSUME Init, NEW s \in Session
               PROVE  Timed(upload[s], merge[s], root[s], timer[s])
    BY DEF Timely
  <2>1. upload[s].pc = "idle" /\ root[s] = Null
    BY DEF Init
  <2> QED
    BY <2>1 DEF Timed
<1>2. Shape /\ Timely /\ [Next]_vars => Timely'
  <2>1. CASE UNCHANGED vars
    BY <2>1 DEF vars, Timely
  <2>2. CreateFtpTempDir => rough'
    BY DEF CreateFtpTempDir
  <2> QED
    BY <2>1, <2>2, UploadTimely, MergeTimely DEF Next, Timely
<1> QED
  BY <1>1, <1>2, AlwaysShape, PTL DEF Spec

(* When nothing goes on in a session any more, its branch was merged, or   *)
(* something rough happened: the timer is what keeps a root from staying,  *)
(* and every call that makes or uses a branch leaves it scheduled.         *)
THEOREM RootsAreMerged == Spec => []NoRootStays
<1>1. Timely => NoRootStays
  BY DEF Timely, Timed, NoRootStays, Quiet, At, MergeAt
<1> QED
  BY <1>1, AlwaysTimely, PTL

-----------------------------------------------------------------------------
(* Titles lead to one local of n only.                                     *)
Distinct(t, n) ==
    \A i, j \in DOMAIN t[n].locals :
       t[t[n].locals[i]].title = t[t[n].locals[j]].title => i = j

(* A branch as getNode makes it: no two locals of one title, every node    *)
(* listed, no directory empty (but e, while it is made), and only files    *)
(* there are in master.                                                    *)
Grown(t, r, e) ==
    \A n \in Nodes(t) : Top(t, n) = r =>
       /\ Distinct(t, n)
       /\ n = r \/ n \in Locals(t, t[n].parent)
       /\ n \in Dirs(t) /\ n # e => t[n].locals # <<>>
       /\ n \in Leaves(t) => Key(t, n) \in Path

(* Master: linked both ways, found by its titles, and with all files.      *)
MasterWhole(t) ==
    /\ Linked(t, MasterOf(t))
    /\ \A n \in Nodes(t) : Top(t, n) = MasterOf(t) => Distinct(t, n)
    /\ \A path \in Path : getNodeIfExist(t, MasterOf(t), path) # Null

(* A step from t to u does not touch what is below r.                      *)
Untouched(t, u, r) ==
    /\ \A n \in Nodes(u) : Top(u, n) = r => n \in Nodes(t) /\ Top(t, n) = r
    /\ \A n \in Nodes(t) : Top(t, n) = r =>
          u[n].locals = t[n].locals /\ u[n].title = t[n].title /\ u[n].parent = t[n].parent

(* Local depends on the locals and their titles.                           *)
LEMMA SameLocal ==
  ASSUME NEW t, NEW u, NEW n, u[n].locals = t[n].locals,
         \A m \in Locals(t, n) : u[m].title = t[m].title
  PROVE  \A title : Local(u, n, title) = Local(t, n, title)
<1>1. PICK locals : locals = t[n].locals
  OBVIOUS
<1>2. \A i \in DOMAIN locals : u[locals[i]].title = t[locals[i]].title
  BY <1>1 DEF Locals
<1>3. ASSUME NEW title
      PROVE  Local(u, n, title) = Local(t, n, title)
  <2>1. PICK U : U = {i \in DOMAIN locals : u[locals[i]].title = title}
    OBVIOUS
  <2>2. PICK T : T = {i \in DOMAIN locals : t[locals[i]].title = title}
    OBVIOUS
  <2>3. Local(u, n, title) =
           IF U = {} THEN Null ELSE locals[CHOOSE i \in U : \A j \in U : i <= j]
    BY <1>1, <2>1 DEF Local
  <2>4. Local(t, n, title) =
           IF T = {} THEN Null ELSE locals[CHOOSE i \in T : \A j \in T : i <= j]
    BY <1>1, <2>2 DEF Local
  <2>5. U = T
    BY <1>2, <2>1, <2>2
  <2> QED
    BY <2>3, <2>4, <2>5
<1> QED
  BY <1>3

(* What is listed below r is below r, and it is untouched with the rest.   *)
LEMMA UntouchedLocals ==
  ASSUME NEW t, NEW u, NEW r, IsTree(t), Untouched(t, u, r), Linked(t, r),
         NEW n \in Nodes(t), Top(t, n) = r
  PROVE  /\ Locals(u, n) = Locals(t, n)
         /\ \A m \in Locals(t, n) : m \in Nodes(t) /\ Top(t, m) = r /\ u[m].title = t[m].title
         /\ \A title : Local(u, n, title) = Local(t, n, title)
<1>1. \A m \in Locals(t, n) : m \in Nodes(t) /\ t[m].parent = n
  BY LocalsAreNodes DEF Linked
<1>2. \A m \in Locals(t, n) : Top(t, m) = r
  BY <1>1, LinkedTops
<1>3. u[n].locals = t[n].locals /\ \A m \in Locals(t, n) : u[m].title = t[m].title
  BY <1>1, <1>2 DEF Untouched
<1>4. \A title : Local(u, n, title) = Local(t, n, title)
  BY <1>3, SameLocal
<1>5. Locals(u, n) = Locals(t, n)
  BY <1>3 DEF Locals
<1> QED
  BY <1>1, <1>2, <1>3, <1>4, <1>5

(* The parent of a node that is not a root is in the same branch.          *)
LEMMA ParentTops ==
  ASSUME NEW t, IsTree(t), NEW n \in Nodes(t), n \notin Tops(t)
  PROVE  t[n].parent \in Nodes(t) /\ Top(t, t[n].parent) = Top(t, n)
<1>1. CASE n \in Dirs(t)
  BY <1>1, NodeFacts DEF Nodes
<1>2. CASE n \in Leaves(t)
  BY <1>2, NodeFacts DEF Nodes
<1> QED
  BY <1>1, <1>2 DEF Nodes

(* What is untouched stays grown,                                          *)
LEMMA UntouchedGrown ==
  ASSUME NEW t, NEW u, NEW r \in Tops(t), NEW e, IsTree(t), IsTree(u), Keeps(t, u),
         Untouched(t, u, r), Linked(t, r), Grown(t, r, e)
  PROVE  Grown(u, r, e)
<1> SUFFICES ASSUME NEW n \in Nodes(u), Top(u, n) = r
             PROVE  /\ Distinct(u, n)
                    /\ n = r \/ n \in Locals(u, u[n].parent)
                    /\ n \in Dirs(u) /\ n # e => u[n].locals # <<>>
                    /\ n \in Leaves(u) => Key(u, n) \in Path
  BY DEF Grown
<1>1. n \in Nodes(t) /\ Top(t, n) = r
  BY DEF Untouched
<1>2. /\ u[n].locals = t[n].locals /\ u[n].parent = t[n].parent
      /\ \A m \in Locals(t, n) : u[m].title = t[m].title
  BY <1>1, UntouchedLocals DEF Untouched
<1>3. /\ Distinct(t, n)
      /\ n = r \/ n \in Locals(t, t[n].parent)
      /\ n \in Dirs(t) /\ n # e => t[n].locals # <<>>
      /\ n \in Leaves(t) => Key(t, n) \in Path
  BY <1>1 DEF Grown
<1>4. /\ n \in Dirs(u) => n \in Dirs(t)
      /\ n \in Leaves(u) => n \in Leaves(t)
      /\ Key(u, n) = Key(t, n)
  BY <1>1, LevelFacts DEF Keeps, Nodes
<1>5. Distinct(u, n)
  <2>1. PICK locals : locals = t[n].locals
    OBVIOUS
  <2>2. \A i \in DOMAIN locals : u[locals[i]].title = t[locals[i]].title
    BY <1>2, <2>1 DEF Locals
  <2> QED
    BY <1>2, <1>3, <2>1, <2>2 DEF Distinct
<1>6. n = r \/ n \in Locals(u, u[n].parent)
  <2> SUFFICES ASSUME n # r
               PROVE  n \in Locals(u, u[n].parent)
    OBVIOUS
  <2>1. n \notin Tops(t)
    BY <1>1, NodeFacts
  <2>2. t[n].parent \in Nodes(t) /\ Top(t, t[n].parent) = r
    BY <1>1, <2>1, ParentTops
  <2>3. Locals(u, t[n].parent) = Locals(t, t[n].parent)
    BY <2>2, UntouchedLocals
  <2> QED
    BY <1>2, <1>3, <2>3
<1> QED
  BY <1>2, <1>3, <1>4, <1>5, <1>6

(* and whole: files are found where they were, and no other ones.          *)
LEMMA UntouchedWhole ==
  ASSUME NEW t, NEW u, IsTree(t), IsTree(u), MasterOf(u) = MasterOf(t),
         Untouched(t, u, MasterOf(t)), MasterWhole(t)
  PROVE  /\ MasterWhole(u)
         /\ \A path \in Path :
               LET file == getNodeIfExist(t, MasterOf(t), path)
               IN  getNodeIfExist(u, MasterOf(t), path) = file /\ file \in Nodes(t) /\
                   Top(t, file) = MasterOf(t)
<1>1. PICK r : r = MasterOf(t)
  OBVIOUS
<1>2. r \in Tops(t) /\ Top(t, r) = r /\ r \in Nodes(t) /\ r # Null /\ Untouched(t, u, r)
  BY <1>1, NodeFacts, LevelFacts DEF IsTree, Rooted, Nodes
<1>3. /\ Linked(t, r) /\ \A n \in Nodes(t) : Top(t, n) = r => Distinct(t, n)
      /\ \A path \in Path : getNodeIfExist(t, r, path) # Null
  BY <1>1 DEF MasterWhole
<1>4. \A n \in DOMAIN t : t[n].locals \in Seq(Nat)
  BY LevelFacts, SeqMonotonic DEF IsTree, Numbered, IsNode
<1>5. ASSUME NEW path \in Path
      PROVE  LET file == getNodeIfExist(t, r, path)
             IN  getNodeIfExist(u, r, path) = file /\ file \in Nodes(t) /\ Top(t, file) = r
  <2>1. PICK a, b : a = path[1] /\ b = path[2]
    OBVIOUS
  <2>2. path = <<a, b>>
    BY <2>1, BranchAssumption DEF BranchAssumption
  <2>3. PICK d : d = Local(t, r, a)
    OBVIOUS
  <2>4. PICK file : file = Local(t, d, b)
    OBVIOUS
  <2>5. getNodeIfExist(t, r, path) = IF d = Null THEN Null ELSE file
    BY <1>2, <2>2, <2>3, <2>4, getNodeIfExistSteps
  <2>6. d # Null /\ file # Null
    BY <1>3, <2>5
  <2>7. d \in Locals(t, r)
    BY <1>2, <1>4, <2>3, <2>6, LocalFacts DEF Tops
  <2>8. d \in Nodes(t) /\ Top(t, d) = r /\ Local(u, r, a) = d
    BY <1>2, <1>3, <2>3, <2>7, UntouchedLocals
  <2>9. file \in Locals(t, d)
    <3>1. t[d].locals \in Seq(Nat)
      BY <1>4, <2>8, LevelFacts
    <3> QED
      BY <2>4, <2>6, <3>1, LocalFacts
  <2>10. file \in Nodes(t) /\ Top(t, file) = r /\ Local(u, d, b) = file
    BY <1>2, <1>3, <2>4, <2>8, <2>9, UntouchedLocals
  <2>11. getNodeIfExist(u, r, path) = file
    BY <1>2, <2>2, <2>6, <2>8, <2>10, getNodeIfExistSteps
  <2> QED
    BY <2>5, <2>6, <2>10, <2>11
<1>6. Linked(u, r)
  <2> SUFFICES ASSUME NEW n \in Nodes(u), Top(u, n) = r, NEW m \in Locals(u, n)
               PROVE  u[m].parent = n
    BY DEF Linked
  <2>1. n \in Nodes(t) /\ Top(t, n) = r
    BY <1>2 DEF Untouched
  <2>2. m \in Locals(t, n) /\ m \in Nodes(t) /\ Top(t, m) = r
    BY <1>2, <1>3, <2>1, UntouchedLocals
  <2> QED
    BY <1>2, <1>3, <2>1, <2>2 DEF Linked, Untouched
<1>7. ASSUME NEW n \in Nodes(u), Top(u, n) = r
      PROVE  Distinct(u, n)
  <2>1. n \in Nodes(t) /\ Top(t, n) = r /\ Distinct(t, n)
    BY <1>2, <1>3, <1>7 DEF Untouched
  <2>2. u[n].locals = t[n].locals /\ \A m \in Locals(t, n) : u[m].title = t[m].title
    BY <1>2, <1>3, <2>1, UntouchedLocals DEF Untouched
  <2>3. PICK locals : locals = t[n].locals
    OBVIOUS
  <2>4. \A i \in DOMAIN locals : u[locals[i]].title = t[locals[i]].title
    BY <2>2, <2>3 DEF Locals
  <2> QED
    BY <2>1, <2>2, <2>3, <2>4 DEF Distinct
<1> QED
  BY <1>1, <1>3, <1>5, <1>6, <1>7 DEF MasterWhole

-----------------------------------------------------------------------------
(* A new node is in the branch of its parent,                              *)
LEMMA AddedTop ==
  ASSUME NEW t, NEW u, NEW p, NEW k, NEW title, NEW value,
         IsTree(t), IsTree(u), Added(t, u, p, k, title, value),
         p \in {1} \union Tops(t) \union Dirs(t)
  PROVE  /\ k \in Nodes(u) /\ Nodes(u) = Nodes(t) \union {k} /\ k \notin Nodes(t)
         /\ Top(u, k) = IF p = 1 THEN k ELSE Top(t, p)
         /\ p \in Dirs(t) => k \in Leaves(u) /\ Key(u, k) = <<t[p].title, title>>
         /\ p \in Tops(t) => k \in Dirs(u)
<1>1. p # 0 /\ 1 \notin Nodes(t) /\ Nodes(t) \subseteq DOMAIN t
  BY LevelFacts DEF Nodes
<1>2. /\ Tops(u) = IF p = 1 THEN Tops(t) \union {k} ELSE Tops(t)
      /\ Dirs(u) = IF p \in Tops(t) THEN Dirs(t) \union {k} ELSE Dirs(t)
      /\ Leaves(u) = IF p \in Dirs(t) THEN Leaves(t) \union {k} ELSE Leaves(t)
  BY <1>1, AddedLevels
<1>3. /\ k \notin DOMAIN t /\ u[k].parent = p /\ u[k].title = title
      /\ \A n \in DOMAIN t : u[n].parent = t[n].parent /\ u[n].title = t[n].title
  BY DEF Added
<1>4. CASE p = 1
  BY <1>1, <1>2, <1>3, <1>4, NodeFacts DEF Nodes
<1>5. CASE p \in Tops(t)
  <2>1. k \in Dirs(u) /\ p \notin Dirs(t) /\ p # 1
    BY <1>1, <1>2, <1>5, LevelFacts DEF Nodes
  <2> QED
    BY <1>1, <1>2, <1>3, <1>5, <2>1, NodeFacts DEF Nodes
<1>6. CASE p \in Dirs(t)
  <2>1. k \in Leaves(u) /\ p \notin Tops(t) /\ p # 1 /\ p \in DOMAIN t
    BY <1>1, <1>2, <1>6, LevelFacts DEF Nodes
  <2>2. Top(u, k) = u[u[k].parent].parent /\ Key(u, k) = <<u[u[k].parent].title, u[k].title>>
    BY <2>1, NodeFacts
  <2>3. Top(t, p) = t[p].parent
    BY <1>6, NodeFacts
  <2> QED
    BY <1>1, <1>2, <1>3, <1>6, <2>1, <2>2, <2>3 DEF Nodes
<1> QED
  BY <1>4, <1>5, <1>6

(* and no other branch is touched.                                         *)
LEMMA AddedUntouched ==
  ASSUME NEW t, NEW u, NEW p, NEW k, NEW title, NEW value, NEW r \in Tops(t),
         IsTree(t), IsTree(u), Added(t, u, p, k, title, value),
         p \in {1} \union Tops(t) \union Dirs(t), p = 1 \/ Top(t, p) # r
  PROVE  Untouched(t, u, r)
<1>1. Stays(t, u)
  BY AddedStays
<1>2. /\ Nodes(u) = Nodes(t) \union {k} /\ k \notin DOMAIN t /\ Nodes(t) \subseteq DOMAIN t
      /\ Top(u, k) = IF p = 1 THEN k ELSE Top(t, p)
  <2>1. k \notin DOMAIN t /\ Nodes(t) \subseteq DOMAIN t
    BY LevelFacts DEF Added
  <2> QED
    BY <2>1, AddedTop
<1>3. Top(u, k) # r
  BY <1>2 DEF Tops
<1>4. \A n \in Nodes(u) : Top(u, n) = r => n \in Nodes(t) /\ Top(t, n) = r
  BY <1>1, <1>2, <1>3 DEF Stays
<1>5. p = 1 => p \notin Nodes(t)
  BY LevelFacts
<1> QED
  BY <1>2, <1>4, <1>5 DEF Untouched, Added

(* A branch grows by a directory, which is empty yet,                      *)
LEMMA AddedGrown ==
  ASSUME NEW t, NEW u, NEW p, NEW k, NEW title, NEW value, NEW r \in Tops(t), NEW e, NEW e1,
         IsTree(t), IsTree(u), Added(t, u, p, k, title, value),
         p \in Tops(t) \union Dirs(t), Top(t, p) = r, Local(t, p, title) = Null,
         Linked(t, r), Grown(t, r, e),
         \/ p \in Tops(t) /\ e = Null /\ e1 = k
         \/ p \in Dirs(t) /\ e = p /\ e1 = Null /\ <<t[p].title, title>> \in Path
  PROVE  Grown(u, r, e1)
<1> SUFFICES ASSUME NEW n \in Nodes(u), Top(u, n) = r
             PROVE  /\ Distinct(u, n)
                    /\ n = r \/ n \in Locals(u, u[n].parent)
                    /\ n \in Dirs(u) /\ n # e1 => u[n].locals # <<>>
                    /\ n \in Leaves(u) => Key(u, n) \in Path
  BY DEF Grown
<1>1. Stays(t, u)
  BY AddedStays
<1>2. /\ Nodes(u) = Nodes(t) \union {k} /\ k \notin DOMAIN t /\ Nodes(t) \subseteq DOMAIN t
      /\ p \in Dirs(t) => k \in Leaves(u) /\ Key(u, k) = <<t[p].title, title>>
      /\ p \in Tops(t) => k \in Dirs(u)
  <2>1. k \notin DOMAIN t /\ Nodes(t) \subseteq DOMAIN t
    BY LevelFacts DEF Added
  <2>2. p \in {1} \union Tops(t) \union Dirs(t)
    OBVIOUS
  <2> QED
    BY <2>1, <2>2, AddedTop
<1>3. /\ u[k].title = title /\ u[k].parent = p /\ u[k].locals = <<>>
      /\ \A m \in DOMAIN t : /\ u[m].title = t[m].title /\ u[m].parent = t[m].parent
                             /\ m # p => u[m].locals = t[m].locals
      /\ u[p].locals = Append(t[p].locals, k) /\ p \in DOMAIN t
  BY DEF Added
<1>4. /\ Locals(u, p) = Locals(t, p) \union {k}
      /\ \A m \in DOMAIN t : m # p => Locals(u, m) = Locals(t, m)
      /\ \A m \in DOMAIN t : Locals(t, m) \subseteq DOMAIN t
  BY AddLocalLocals DEF IsTree
<1>5. \A m \in DOMAIN t : t[m].locals \in Seq(DOMAIN t) /\ t[m].locals \in Seq(Nat)
  BY LevelFacts, SeqMonotonic DEF IsTree, Numbered, IsNode
<1>6. CASE n = k
  <2>1. Distinct(u, n)
    BY <1>3, <1>6 DEF Distinct
  <2>2. n \in Dirs(u) => n = e1
    BY <1>2, <1>6, LevelFacts
  <2>3. n \in Leaves(u) => Key(u, n) \in Path
    BY <1>2, <1>6, LevelFacts
  <2> QED
    BY <1>3, <1>4, <1>6, <2>1, <2>2, <2>3
<1>7. CASE n # k
  <2>1. n \in Nodes(t) /\ Top(t, n) = r /\ n \in DOMAIN t
    BY <1>1, <1>2, <1>7 DEF Stays
  <2>2. /\ Distinct(t, n)
        /\ n = r \/ n \in Locals(t, t[n].parent)
        /\ n \in Dirs(t) /\ n # e => t[n].locals # <<>>
        /\ n \in Leaves(t) => Key(t, n) \in Path
    BY <2>1 DEF Grown
  <2>3. /\ n \in Dirs(u) => n \in Dirs(t)
        /\ n \in Leaves(u) => n \in Leaves(t)
        /\ Key(u, n) = Key(t, n)
    <3>1. Keeps(t, u)
      BY <1>1 DEF Stays
    <3> QED
      BY <2>1, <3>1, LevelFacts DEF Keeps, Nodes
  <2>4. Distinct(u, n)
    <3>1. CASE n # p
      <4>1. PICK locals : locals = t[n].locals
        OBVIOUS
      <4>2. \A i \in DOMAIN locals : u[locals[i]].title = t[locals[i]].title
        BY <1>3, <1>5, <2>1, <4>1
      <4> QED
        BY <1>3, <2>1, <2>2, <3>1, <4>1, <4>2 DEF Distinct
    <3>2. CASE n = p
      <4>1. PICK locals : locals = t[n].locals
        OBVIOUS
      <4>2. locals \in Seq(DOMAIN t) /\ Len(locals) \in Nat /\ DOMAIN locals = 1..Len(locals)
        BY <1>5, <2>1, <4>1
      <4>3. PICK new : new = u[n].locals
        OBVIOUS
      <4>4. /\ new = Append(locals, k) /\ DOMAIN new = 1..(Len(locals) + 1)
            /\ new[Len(locals) + 1] = k /\ \A i \in DOMAIN locals : new[i] = locals[i]
        BY <1>3, <3>2, <4>1, <4>2, <4>3
      <4>5. \A m \in Locals(t, p) : t[m].title # title
        BY <1>3, <1>5, LocalFacts
      <4>6. \A i \in DOMAIN locals : t[locals[i]].title # title
        BY <3>2, <4>1, <4>5 DEF Locals
      <4>7. \A i \in DOMAIN locals : u[new[i]].title = t[locals[i]].title
        BY <1>3, <4>2, <4>4
      <4>8. \A i, j \in DOMAIN locals : t[locals[i]].title = t[locals[j]].title => i = j
        BY <2>2, <4>1 DEF Distinct
      <4>9. u[new[Len(locals) + 1]].title = title
        BY <1>3, <4>4
      <4>10. \A i \in DOMAIN new : i \in DOMAIN locals \/ i = Len(locals) + 1
        BY <4>2, <4>4
      <4>11. \A i, j \in DOMAIN new : u[new[i]].title = u[new[j]].title => i = j
        BY <4>6, <4>7, <4>8, <4>9, <4>10
      <4> QED
        BY <4>3, <4>11 DEF Distinct
    <3> QED
      BY <3>1, <3>2
  <2>5. n = r \/ n \in Locals(u, u[n].parent)
    <3> SUFFICES ASSUME n # r
                 PROVE  n \in Locals(u, u[n].parent)
      OBVIOUS
    <3>1. t[n].parent \in DOMAIN t
      BY <1>2, <2>1, NodeFacts, ParentTops
    <3> QED
      BY <1>3, <1>4, <2>1, <2>2, <3>1
  <2>6. n \in Dirs(u) /\ n # e1 => u[n].locals # <<>>
    <3>1. CASE n = p
      <4>1. PICK locals : locals = t[n].locals
        OBVIOUS
      <4>2. locals \in Seq(DOMAIN t)
        BY <1>5, <2>1, <4>1
      <4>3. Append(locals, k) # <<>>
        BY <4>2
      <4> QED
        BY <1>3, <3>1, <4>1, <4>3
    <3>2. CASE n # p
      <4>1. n \in Dirs(u) => n # e
        BY <2>1, <3>2, LevelFacts, BranchAssumption DEF BranchAssumption
      <4> QED
        BY <1>3, <2>1, <2>2, <2>3, <3>2, <4>1
    <3> QED
      BY <3>1, <3>2
  <2> QED
    BY <2>2, <2>3, <2>4, <2>5, <2>6
<1> QED
  BY <1>6, <1>7

(* What getNode makes has no value yet, and no other value changes.        *)
Makes(t, d) ==
    /\ DOMAIN t \subseteq DOMAIN d.tree /\ MasterOf(d.tree) = MasterOf(t)
    /\ \A n \in DOMAIN t : d.tree[n].value = t[n].value
    /\ \A n \in Leaves(d.tree) : n \in Leaves(t) \/ (n = d.node /\ d.tree[n].value = Null)

(* The directory that may be empty before a step of getNode at n.          *)
Awaits(t, n, title, e) ==
    \/ n \in Tops(t) /\ e = Null
    \/ n \in Dirs(t) /\ e = n /\ <<t[n].title, title>> \in Path

(* A step of getNode from n in the branch of r.                            *)
Descends(t, n, title, d, r, e) ==
    /\ r \in Tops(t) /\ n \in Tops(t) \union Dirs(t) /\ Top(t, n) = r
    /\ Linked(t, r) /\ Grown(t, r, e) /\ Awaits(t, n, title, e)
    /\ d = Descend(t, n, title)

(* One step of getNode in a branch: a directory it makes is empty until    *)
(* the next step, which makes a file.                                      *)
LEMMA DescendGrown ==
  ASSUME NEW t, NEW n, NEW title, NEW rt, NEW S, NEW d, NEW r, NEW e,
         IsTree(t), Apart(t, rt, S), Descends(t, n, title, d, r, e)
  PROVE  /\ n \in Tops(t) => Grown(d.tree, r, d.node)
         /\ n \in Dirs(t) => Grown(d.tree, r, Null)
         /\ Top(d.tree, d.node) = r
         /\ \A q \in Tops(t) : q # r => Untouched(t, d.tree, q)
         /\ Makes(t, d)
<1>0. /\ r \in Tops(t) /\ n \in Tops(t) \union Dirs(t) /\ Top(t, n) = r
      /\ Linked(t, r) /\ Grown(t, r, e) /\ Awaits(t, n, title, e)
      /\ d = Descend(t, n, title)
  BY DEF Descends
<1>1. n \in DOMAIN t /\ n \in Nodes(t) /\ n \in {1} \union Tops(t) \union Dirs(t)
  BY <1>0 DEF Tops, Dirs, Nodes
<1>2. n # 1 /\ t[n].locals \in Seq(Nat)
  BY <1>0, <1>1, LevelFacts, SeqMonotonic DEF IsTree, Numbered, IsNode
<1>3. CASE Local(t, n, title) # Null
  <2>1. d.tree = t /\ d.node = Local(t, n, title)
    BY <1>0, <1>3 DEF Descend
  <2>2. d.node \in Locals(t, n)
    BY <1>0, <1>2, <1>3, <2>1, LocalFacts
  <2>3. t[d.node].parent = n
    BY <1>0, <1>1, <2>2 DEF Linked
  <2>4. Top(t, d.node) = r
    BY <1>0, <1>1, <2>2, <2>3, LinkedTops
  <2>5. n \in Tops(t) => Grown(t, r, d.node)
    BY <1>0, LevelFacts, BranchAssumption DEF Grown, BranchAssumption, Awaits
  <2>6. n \in Dirs(t) => Grown(t, r, Null)
    <3>1. t[n].locals # <<>>
      BY <1>0, <2>2 DEF Locals
    <3>2. n \in Dirs(t) => e = n
      BY <1>0, LevelFacts DEF Awaits
    <3> QED
      BY <1>0, <3>1, <3>2 DEF Grown
  <2>7. \A q \in Tops(t) : Untouched(t, t, q)
    BY <1>0 DEF Untouched
  <2>8. Makes(t, d)
    BY <1>0, <2>1 DEF Makes
  <2> QED
    BY <1>0, <2>1, <2>4, <2>5, <2>6, <2>7, <2>8
<1>4. CASE Local(t, n, title) = Null
  <2>1. PICK k : k = NewNode(t)
    OBVIOUS
  <2>2. PICK u : u = d.tree
    OBVIOUS
  <2>3. u = AddLocal(t, n, title, Null) /\ d.node = k
    BY <1>0, <1>4, <2>1, <2>2 DEF Descend
  <2>4. Added(t, u, n, k, title, Null)
    BY <1>0, <1>1, <2>1, <2>3, AddLocalFacts DEF IsTree
  <2>5. IsTree(u)
    BY <1>0, <2>2, DescendFacts
  <2>6. Top(u, k) = r
    BY <1>0, <1>1, <1>2, <2>4, <2>5, AddedTop
  <2>7. n \in Tops(t) => Grown(u, r, k)
    <3> SUFFICES ASSUME n \in Tops(t)
                 PROVE  Grown(u, r, k)
      OBVIOUS
    <3>1. e = Null
      BY <1>0, LevelFacts DEF Awaits
    <3> QED
      BY <1>0, <1>4, <2>4, <2>5, <3>1, AddedGrown
  <2>8. n \in Dirs(t) => Grown(u, r, Null)
    <3> SUFFICES ASSUME n \in Dirs(t)
                 PROVE  Grown(u, r, Null)
      OBVIOUS
    <3>1. e = n /\ <<t[n].title, title>> \in Path
      BY <1>0, LevelFacts DEF Awaits
    <3> QED
      BY <1>0, <1>4, <2>4, <2>5, <3>1, AddedGrown
  <2>9. \A q \in Tops(t) : q # r => Untouched(t, u, q)
    BY <1>0, <1>1, <2>4, <2>5, AddedUntouched
  <2>10. Makes(t, d)
    <3>1. n # 0
      BY <1>0, <1>1, LevelFacts
    <3>2. Leaves(u) \subseteq Leaves(t) \union {k}
      BY <1>0, <2>4, <3>1, AddedLevels
    <3>3. DOMAIN u = DOMAIN t \union {k} /\ u[k].value = Null
          /\ \A m \in DOMAIN t : u[m].value = t[m].value
      BY <1>0, <2>4 DEF Added
    <3>4. MasterOf(u) = MasterOf(t)
      BY <2>4, <3>1, LevelFacts DEF Added, MasterOf
    <3> QED
      BY <1>0, <2>2, <2>3, <3>2, <3>3, <3>4 DEF Makes
  <2> QED
    BY <1>0, <2>2, <2>3, <2>6, <2>7, <2>8, <2>9, <2>10
<1> QED
  BY <1>0, <1>3, <1>4

(* getNode of a file is two steps.                                         *)
LEMMA getNodeOfFile ==
  ASSUME NEW t, NEW r, NEW path \in Path, NEW at, at = getNode(t, r, path),
         NEW d, d = Descend(t, r, path[1])
  PROVE  at = Descend(d.tree, d.node, path[2])
<1>1. PICK a : a = path[1]
  OBVIOUS
<1>2. PICK b : b = path[2]
  OBVIOUS
<1>3. path = <<a, b>>
  BY <1>1, <1>2, BranchAssumption DEF BranchAssumption
<1>4. d = Descend(t, r, a)
  BY <1>1
<1>5. at = Descend(d.tree, d.node, b)
  BY <1>3, <1>4, getNodeSteps
<1> QED
  BY <1>2, <1>5

(* getNode of a file there is in master, in a branch.                      *)
LEMMA getNodeGrown ==
  ASSUME NEW t, NEW r, NEW path \in Path, NEW rt, NEW S, NEW s \in S, NEW at,
         IsTree(t), r = rt[s], Apart(t, rt, S), at = getNode(t, r, path), Grown(t, r, Null)
  PROVE  /\ Grown(at.tree, r, Null) /\ Top(at.tree, at.node) = r
         /\ \A q \in Tops(t) : q # r => Untouched(t, at.tree, q)
         /\ Makes(t, at)
<1>1. PICK a, b : a = path[1] /\ b = path[2]
  OBVIOUS
<1>2. path = <<a, b>>
  BY <1>1, BranchAssumption DEF BranchAssumption
<1>3. r \in Tops(t) /\ Linked(t, r)
  BY DEF Apart
<1>4. PICK d : d = Descend(t, r, a)
  OBVIOUS
<1>5. at = Descend(d.tree, d.node, b)
  <2>1. d = Descend(t, r, path[1])
    BY <1>1, <1>4
  <2> QED
    BY <1>1, <2>1, getNodeOfFile
<1>6. Top(t, r) = r /\ r \in Tops(t) \union Dirs(t)
  BY <1>3, NodeFacts
<1>7. /\ IsTree(d.tree) /\ Stays(t, d.tree) /\ Apart(d.tree, rt, S)
      /\ d.node \in Dirs(d.tree) /\ Key(d.tree, d.node) = <<a>>
  BY <1>3, <1>4, <1>6, DescendFacts
<1>8. /\ Grown(d.tree, r, d.node) /\ Top(d.tree, d.node) = r
      /\ \A q \in Tops(t) : q # r => Untouched(t, d.tree, q)
      /\ Makes(t, d)
  <2>1. Descends(t, r, a, d, r, Null)
    BY <1>3, <1>4, <1>6 DEF Awaits, Descends
  <2> QED
    BY <1>3, <2>1, DescendGrown
<1>9. d.tree[d.node].title = a
  <2>1. PICK title : title = d.tree[d.node].title
    OBVIOUS
  <2>2. <<title>> = <<a>>
    BY <1>7, <2>1, NodeFacts
  <2> QED
    BY <2>1, <2>2
<1>10. r \in Tops(d.tree) /\ Linked(d.tree, r) /\ d.node \in Tops(d.tree) \union Dirs(d.tree)
  BY <1>7 DEF Apart
<1>11. /\ Grown(at.tree, r, Null) /\ Top(at.tree, at.node) = r
       /\ \A q \in Tops(d.tree) : q # r => Untouched(d.tree, at.tree, q)
       /\ Makes(d.tree, at)
  <2>1. PICK u : u = d.tree
    OBVIOUS
  <2>2. PICK n : n = d.node
    OBVIOUS
  <2>3. /\ IsTree(u) /\ Apart(u, rt, S) /\ n \in Dirs(u) /\ Grown(u, r, n) /\ Top(u, n) = r
        /\ r \in Tops(u) /\ Linked(u, r) /\ n \in Tops(u) \union Dirs(u)
        /\ at = Descend(u, n, b) /\ <<u[n].title, b>> \in Path
    BY <1>2, <1>5, <1>7, <1>8, <1>9, <1>10, <2>1, <2>2
  <2>4. /\ Grown(at.tree, r, Null) /\ Top(at.tree, at.node) = r
        /\ \A q \in Tops(u) : q # r => Untouched(u, at.tree, q)
        /\ Makes(u, at)
    <3>1. Descends(u, n, b, at, r, n)
      BY <2>3 DEF Descends, Awaits
    <3> QED
      BY <2>3, <3>1, DescendGrown
  <2> QED
    BY <2>1, <2>4
<1>12. \A q \in Tops(t) : q # r => Untouched(t, at.tree, q)
  <2> SUFFICES ASSUME NEW q \in Tops(t), q # r
               PROVE  Untouched(t, at.tree, q)
    OBVIOUS
  <2>1. Untouched(t, d.tree, q) /\ Untouched(d.tree, at.tree, q)
    BY <1>7, <1>8, <1>11 DEF Stays, Keeps
  <2>2. \A n \in Nodes(t) : n \in Nodes(d.tree) /\ Top(d.tree, n) = Top(t, n)
    BY <1>7 DEF Stays, Keeps, Nodes
  <2> QED
    BY <2>1, <2>2 DEF Untouched
<1>13. Makes(t, at)
  <2>1. \A n \in Leaves(d.tree) : n \in Leaves(t)
    <3>1. d.node \notin Leaves(d.tree)
      BY <1>7, LevelFacts
    <3> QED
      BY <1>8, <3>1 DEF Makes
  <2> QED
    BY <1>8, <1>11, <2>1 DEF Makes
<1> QED
  BY <1>11, <1>12, <1>13

-----------------------------------------------------------------------------
(* The file f, in the directory d, is what a path leads to below r.        *)
FoundAt(t, r, path, d, f) ==
    /\ d = Local(t, r, path[1]) /\ d # Null /\ d \in Locals(t, r) /\ d \in Dirs(t)
    /\ f = Local(t, d, path[2]) /\ f # Null /\ f \in Locals(t, d) /\ f \in Leaves(t)
    /\ t[d].title = path[1] /\ t[d].parent = r /\ Top(t, d) = r
    /\ t[f].title = path[2] /\ t[f].parent = d /\ Top(t, f) = r
    /\ Key(t, f) = path /\ getNodeIfExist(t, r, path) = f

(* What is found below a root that is linked both ways has that path,      *)
LEMMA FoundFacts ==
  ASSUME NEW t, NEW r \in Tops(t), NEW path \in Path, IsTree(t), Linked(t, r),
         getNodeIfExist(t, r, path) # Null
  PROVE  \E d, f : FoundAt(t, r, path, d, f)
<1>1. PICK a, b : a = path[1] /\ b = path[2]
  OBVIOUS
<1>2. path = <<a, b>>
  BY <1>1, BranchAssumption DEF BranchAssumption
<1>3. PICK d : d = Local(t, r, a)
  OBVIOUS
<1>4. PICK f : f = Local(t, d, b)
  OBVIOUS
<1>5. r # Null /\ r \in Nodes(t) /\ Top(t, r) = r
  BY LevelFacts, NodeFacts DEF Nodes
<1>6. getNodeIfExist(t, r, path) = IF d = Null THEN Null ELSE f
  BY <1>2, <1>3, <1>4, <1>5, getNodeIfExistSteps
<1>7. d # Null /\ f # Null
  BY <1>6
<1>8. \A n \in DOMAIN t : t[n].locals \in Seq(Nat)
  BY LevelFacts, SeqMonotonic DEF IsTree, Numbered, IsNode
<1>9. d \in Locals(t, r) /\ t[d].title = a
  BY <1>3, <1>7, <1>8, LocalFacts DEF Tops
<1>10. d \in Dirs(t) /\ t[d].parent = r
  BY <1>5, <1>9 DEF IsTree, Levels, Linked
<1>11. d \in DOMAIN t /\ d \in Nodes(t) /\ Top(t, d) = r
  BY <1>10, NodeFacts DEF Dirs, Nodes
<1>12. f \in Locals(t, d) /\ t[f].title = b
  BY <1>4, <1>7, <1>8, <1>11, LocalFacts
<1>13. f \in Leaves(t) /\ t[f].parent = d
  BY <1>10, <1>11, <1>12 DEF IsTree, Levels, Linked
<1>14. Top(t, f) = r /\ Key(t, f) = <<a, b>>
  BY <1>9, <1>10, <1>12, <1>13, NodeFacts
<1> QED
  BY <1>1, <1>2, <1>3, <1>4, <1>6, <1>7, <1>9, <1>10, <1>11, <1>12, <1>13, <1>14 DEF FoundAt

(* and getNode changes nothing there.                                      *)
LEMMA getNodeFound ==
  ASSUME NEW t, NEW r, NEW path \in Path, NEW d, NEW f, FoundAt(t, r, path, d, f)
  PROVE  getNode(t, r, path) = [tree |-> t, node |-> f]
<1>1. PICK at : at = getNode(t, r, path)
  OBVIOUS
<1>2. PICK x : x = Descend(t, r, path[1])
  OBVIOUS
<1>3. at = Descend(x.tree, x.node, path[2])
  BY <1>1, <1>2, getNodeOfFile
<1>4. x = [tree |-> t, node |-> d]
  BY <1>2 DEF FoundAt, Descend
<1>5. at = [tree |-> t, node |-> f]
  BY <1>3, <1>4 DEF FoundAt, Descend
<1> QED
  BY <1>1, <1>5

(* Where titles are distinct, a local is found by its own.                 *)
LEMMA DistinctLocal ==
  ASSUME NEW t, NEW n, t[n].locals \in Seq(Nat), Distinct(t, n), NEW m \in Locals(t, n)
  PROVE  Local(t, n, t[m].title) = m
<1>1. PICK x : x = Local(t, n, t[m].title)
  OBVIOUS
<1>2. x \in Locals(t, n) /\ t[x].title = t[m].title
  BY <1>1, LocalFacts
<1>3. PICK locals : locals = t[n].locals
  OBVIOUS
<1>4. PICK i \in DOMAIN locals : x = locals[i]
  BY <1>2, <1>3 DEF Locals
<1>5. PICK j \in DOMAIN locals : m = locals[j]
  BY <1>3 DEF Locals
<1>6. i = j
  BY <1>2, <1>3, <1>4, <1>5 DEF Distinct
<1> QED
  BY <1>1, <1>4, <1>5, <1>6

(* A file of a grown branch is found by its path.                          *)
LEMMA GrownFound ==
  ASSUME NEW t, NEW r \in Tops(t), IsTree(t), Linked(t, r), Grown(t, r, Null),
         NEW f \in Leaves(t), Top(t, f) = r
  PROVE  /\ Key(t, f) \in Path /\ getNodeIfExist(t, r, Key(t, f)) = f
         /\ t[f].parent \in Locals(t, r) /\ f \in Locals(t, t[f].parent)
<1>1. PICK d : d = t[f].parent
  OBVIOUS
<1>2. d \in Dirs(t) /\ t[d].parent = r /\ Key(t, f) = <<t[d].title, t[f].title>>
  BY <1>1, NodeFacts
<1>3. d \in Nodes(t) /\ Top(t, d) = r /\ f \in Nodes(t) /\ r \in Nodes(t) /\ Top(t, r) = r
  BY <1>2, NodeFacts DEF Nodes
<1>4. d # r /\ f # r
  BY <1>2, LevelFacts
<1>5. d \in Locals(t, r) /\ f \in Locals(t, d) /\ Key(t, f) \in Path
  BY <1>1, <1>2, <1>3, <1>4 DEF Grown
<1>6. Distinct(t, r) /\ Distinct(t, d)
  BY <1>3 DEF Grown
<1>7. t[r].locals \in Seq(Nat) /\ t[d].locals \in Seq(Nat)
  BY <1>2, LevelFacts, SeqMonotonic DEF IsTree, Numbered, IsNode, Dirs, Tops
<1>8. Local(t, r, t[d].title) = d
  BY <1>5, <1>6, <1>7, DistinctLocal
<1>9. Local(t, d, t[f].title) = f
  BY <1>5, <1>6, <1>7, DistinctLocal
<1>10. r # Null /\ d # Null
  BY <1>3, LevelFacts
<1>11. PICK a, b : a = t[d].title /\ b = t[f].title
  OBVIOUS
<1>12. getNodeIfExist(t, r, <<a, b>>) = f
  BY <1>8, <1>9, <1>10, <1>11, getNodeIfExistSteps
<1> QED
  BY <1>1, <1>2, <1>5, <1>11, <1>12

-----------------------------------------------------------------------------
(* At first, master is whole, and so there are finitely many files in it.  *)
LEMMA StoredWhole ==
  MasterOf(Stored) = 2 /\ MasterWhole(Stored)
<1>1. MasterOf(Stored) = 2
  BY StoredAssumption DEF StoredAssumption, MasterOf
<1>2. Linked(Stored, 2)
  BY StoredTree, LevelFacts, StoredAssumption DEF StoredAssumption, Linked
<1>3. \A n \in Nodes(Stored) : Distinct(Stored, n)
  BY StoredTree, LevelFacts, StoredAssumption DEF StoredAssumption, Distinct
<1>4. \A path \in Path : getNodeIfExist(Stored, 2, path) # Null
  BY StoredAssumption DEF StoredAssumption
<1> QED
  BY <1>1, <1>2, <1>3, <1>4 DEF MasterWhole

(* There are finitely many paths: master holds a file for each of them.    *)
LEMMA PathFinite ==
  IsFiniteSet(Path)
<1>1. PICK t : t = Stored
  OBVIOUS
<1>2. IsTree(t) /\ 2 \in Tops(t) /\ Linked(t, 2) /\ IsFiniteSet(DOMAIN t)
      /\ \A path \in Path : getNodeIfExist(t, 2, path) # Null
  BY <1>1, StoredTree, StoredLevels, StoredWhole, StoredAssumption
     DEF StoredAssumption, MasterWhole
<1>3. ASSUME NEW path \in Path
      PROVE  /\ getNodeIfExist(t, 2, path) \in DOMAIN t
             /\ Key(t, getNodeIfExist(t, 2, path)) = path
  <2>1. PICK d, f : FoundAt(t, 2, path, d, f)
    BY <1>2, FoundFacts
  <2> QED
    BY <2>1 DEF FoundAt, Leaves
<1>4. PICK found : found = [path \in Path |-> getNodeIfExist(t, 2, path)]
  OBVIOUS
<1>5. found \in [Path -> DOMAIN t] /\ \A path \in Path : Key(t, found[path]) = path
  BY <1>3, <1>4
<1>6. \A p, q \in Path : found[p] = found[q] => p = q
  BY <1>5
<1>7. found \in Injection(Path, DOMAIN t)
  BY <1>5, <1>6 DEF Injection, IsInjective
<1> QED
  BY <1>2, <1>7, FS_Injection

(* A branch of one file: no node in it has two locals.                     *)
OneFile(t, r) ==
    /\ Len(t[r].locals) = 1
    /\ Len(t[t[r].locals[1]].locals) = 1

(* Where only one path is found, there is one file.                        *)
LEMMA OnePathOneFile ==
  ASSUME NEW t, NEW r \in Tops(t), IsTree(t), Linked(t, r), Grown(t, r, Null),
         Cardinality({path \in Path : getNodeIfExist(t, r, path) # Null}) = 1
  PROVE  OneFile(t, r)
<1>1. PICK F : F = {path \in Path : getNodeIfExist(t, r, path) # Null}
  OBVIOUS
<1>2. PICK p : F = {p}
  <2>1. F \subseteq Path /\ IsFiniteSet(Path)
    BY <1>1, PathFinite
  <2>2. IsFiniteSet(F) /\ Cardinality(F) = 1
    BY <1>1, <2>1, FS_Subset
  <2> QED
    BY <2>2, FS_Singleton
<1>3. p \in Path /\ getNodeIfExist(t, r, p) # Null
  BY <1>1, <1>2
<1>4. PICK d, f : FoundAt(t, r, p, d, f)
  BY <1>3, FoundFacts
<1>5. \A n \in Leaves(t) : Top(t, n) = r => Key(t, n) = p
  <2> SUFFICES ASSUME NEW n \in Leaves(t), Top(t, n) = r
               PROVE  Key(t, n) = p
    OBVIOUS
  <2>1. Key(t, n) \in Path /\ getNodeIfExist(t, r, Key(t, n)) = n
    BY GrownFound
  <2>2. n # Null
    BY LevelFacts DEF Leaves
  <2> QED
    BY <1>1, <1>2, <2>1, <2>2
<1>6. PICK a, b : a = p[1] /\ b = p[2]
  OBVIOUS
<1>7. p = <<a, b>>
  BY <1>3, <1>6, BranchAssumption DEF BranchAssumption
<1>8. \A n \in Leaves(t) : Top(t, n) = r => t[t[n].parent].title = a /\ t[n].title = b
  <2> SUFFICES ASSUME NEW n \in Leaves(t), Top(t, n) = r
               PROVE  t[t[n].parent].title = a /\ t[n].title = b
    OBVIOUS
  <2>1. PICK x, y : x = t[t[n].parent].title /\ y = t[n].title
    OBVIOUS
  <2>2. <<x, y>> = <<a, b>>
    BY <1>5, <1>7, <2>1, NodeFacts
  <2> QED
    BY <2>1, <2>2
<1>9. \A m \in Locals(t, r) : t[m].title = a
  <2> SUFFICES ASSUME NEW m \in Locals(t, r)
               PROVE  t[m].title = a
    OBVIOUS
  <2>1. m \in Dirs(t) /\ t[m].parent = r /\ m \in Nodes(t) /\ Top(t, m) = r
    BY NodeFacts DEF IsTree, Levels, Linked, Nodes
  <2>2. t[m].locals # <<>> /\ t[m].locals \in Seq(DOMAIN t)
    BY <2>1, LevelFacts DEF Grown, IsTree, Numbered, IsNode
  <2>3. PICK locals : locals = t[m].locals
    OBVIOUS
  <2>4. 1 \in DOMAIN locals
    BY <2>2, <2>3
  <2>5. PICK n : n = locals[1] /\ n \in Locals(t, m)
    BY <2>3, <2>4 DEF Locals
  <2>6. n \in Leaves(t) /\ t[n].parent = m /\ Top(t, n) = r
    BY <2>1, <2>5, LinkedTops DEF IsTree, Levels, Linked
  <2> QED
    BY <1>8, <2>6
<1>10. \A m \in Locals(t, d) : t[m].title = b
  <2> SUFFICES ASSUME NEW m \in Locals(t, d)
               PROVE  t[m].title = b
    OBVIOUS
  <2>1. d \in Dirs(t) /\ d \in Nodes(t) /\ Top(t, d) = r
    BY <1>4 DEF FoundAt, Nodes
  <2>2. m \in Leaves(t) /\ t[m].parent = d /\ Top(t, m) = r
    BY <2>1, LinkedTops DEF IsTree, Levels, Linked
  <2> QED
    BY <1>8, <2>2
<1>11. ASSUME NEW n \in Nodes(t), Top(t, n) = r, NEW title,
              \A m \in Locals(t, n) : t[m].title = title, NEW x \in Locals(t, n)
       PROVE  Len(t[n].locals) = 1 /\ x = t[n].locals[1]
  <2>1. PICK locals : locals = t[n].locals
    OBVIOUS
  <2>2. locals \in Seq(DOMAIN t) /\ Len(locals) \in Nat /\ DOMAIN locals = 1..Len(locals)
    <3>1. n \in DOMAIN t /\ \A m \in DOMAIN t : t[m].locals \in Seq(DOMAIN t)
      BY LevelFacts DEF IsTree, Numbered, IsNode
    <3>2. locals \in Seq(DOMAIN t)
      BY <2>1, <3>1
    <3> QED
      BY <3>2
  <2>3. \A i \in DOMAIN locals : t[locals[i]].title = title
    BY <1>11, <2>1 DEF Locals
  <2>4. \A i, j \in DOMAIN locals : i = j
    BY <1>11, <2>1, <2>3 DEF Grown, Distinct
  <2>5. PICK i \in DOMAIN locals : x = locals[i]
    BY <1>11, <2>1 DEF Locals
  <2>6. 1 \in DOMAIN locals
    BY <2>2, <2>5
  <2>7. Len(locals) = 1
    BY <2>2, <2>4, <2>6
  <2> QED
    BY <2>1, <2>4, <2>5, <2>6, <2>7
<1>12. r \in Nodes(t) /\ Top(t, r) = r /\ d \in Locals(t, r)
  BY <1>4, NodeFacts DEF FoundAt, Nodes
<1>13. d \in Nodes(t) /\ Top(t, d) = r /\ f \in Locals(t, d)
  BY <1>4 DEF FoundAt, Nodes
<1>14. Len(t[r].locals) = 1 /\ d = t[r].locals[1]
  BY <1>9, <1>11, <1>12
<1>15. Len(t[d].locals) = 1
  BY <1>10, <1>11, <1>13
<1> QED
  BY <1>14, <1>15 DEF OneFile

(* The package is then that file.                                          *)
LEMMA OneFilePackage ==
  ASSUME NEW t, NEW r \in Tops(t), IsTree(t), Linked(t, r), Grown(t, r, Null), OneFile(t, r)
  PROVE  /\ Package(t, r) \in Leaves(t)
         /\ \A n \in Leaves(t) : Top(t, n) = r => n = Package(t, r)
<1>1. PICK d : d = t[r].locals[1]
  OBVIOUS
<1>2. PICK f : f = t[d].locals[1]
  OBVIOUS
<1>3. Len(t[r].locals) = 1 /\ Len(t[d].locals) = 1 /\ Package(t, r) = f
  BY <1>1, <1>2 DEF OneFile, Package
<1>4. r \in DOMAIN t /\ \A n \in DOMAIN t : t[n].locals \in Seq(DOMAIN t)
  BY DEF Tops, IsTree, Numbered, IsNode
<1>5. Locals(t, r) = {d}
  <2>1. PICK locals : locals = t[r].locals
    OBVIOUS
  <2>2. DOMAIN locals = {1} /\ locals[1] = d
    BY <1>1, <1>3, <1>4, <2>1
  <2> QED
    BY <2>1, <2>2 DEF Locals
<1>6. d \in Dirs(t) /\ d \in DOMAIN t
  BY <1>5 DEF IsTree, Levels, Dirs
<1>7. Locals(t, d) = {f}
  <2>1. PICK locals : locals = t[d].locals
    OBVIOUS
  <2>2. DOMAIN locals = {1} /\ locals[1] = f
    BY <1>2, <1>3, <1>4, <1>6, <2>1
  <2> QED
    BY <2>1, <2>2 DEF Locals
<1>8. f \in Leaves(t)
  BY <1>6, <1>7 DEF IsTree, Levels
<1>9. \A n \in Leaves(t) : Top(t, n) = r => n = f
  BY <1>5, <1>7, GrownFound
<1> QED
  BY <1>3, <1>8, <1>9

-----------------------------------------------------------------------------
(* The slot of a local is taken by a node of its title.                    *)
Slotted(t, u, d, from, to, slot) ==
    /\ t[d].locals \in Seq(Nat) /\ u[d].locals \in Seq(Nat) /\ Distinct(t, d)
    /\ slot \in DOMAIN t[d].locals /\ t[d].locals[slot] = from
    /\ u[d].locals = [t[d].locals EXCEPT ![slot] = to] /\ u[to].title = t[from].title
    /\ \A m \in Locals(t, d) : u[m].title = t[m].title

(* That node is found instead, and the other locals as before.             *)
LEMMA SlotLocal ==
  ASSUME NEW t, NEW u, NEW d, NEW from, NEW to, NEW slot, Slotted(t, u, d, from, to, slot)
  PROVE  /\ Distinct(u, d)
         /\ Local(u, d, t[from].title) = to
         /\ \A title : title # t[from].title => Local(u, d, title) = Local(t, d, title)
<1>1. PICK old : old = t[d].locals
  OBVIOUS
<1>2. PICK new : new = u[d].locals
  OBVIOUS
<1>3. /\ DOMAIN new = DOMAIN old /\ DOMAIN old \subseteq Nat
      /\ new[slot] = to /\ slot \in DOMAIN old /\ old[slot] = from
      /\ \A i \in DOMAIN old : i # slot => new[i] = old[i]
      /\ u[to].title = t[from].title
  BY <1>1, <1>2 DEF Slotted
<1>4. \A i \in DOMAIN old : u[new[i]].title = t[old[i]].title
  <2>1. \A i \in DOMAIN old : u[old[i]].title = t[old[i]].title
    BY <1>1 DEF Locals, Slotted
  <2> QED
    BY <1>3, <2>1
<1>5. \A i, j \in DOMAIN old : t[old[i]].title = t[old[j]].title => i = j
  BY <1>1 DEF Distinct, Slotted
<1>6. Distinct(u, d)
  BY <1>2, <1>3, <1>4, <1>5 DEF Distinct
<1>7. to \in Locals(u, d)
  BY <1>2, <1>3 DEF Locals
<1>8. Local(u, d, t[from].title) = to
  <2>1. u[d].locals \in Seq(Nat) /\ u[to].title = t[from].title
    BY DEF Slotted
  <2>2. Local(u, d, u[to].title) = to
    BY <1>6, <1>7, <2>1, DistinctLocal
  <2> QED
    BY <2>1, <2>2
<1>9. ASSUME NEW title, title # t[from].title
      PROVE  Local(u, d, title) = Local(t, d, title)
  <2>1. PICK T : T = {i \in DOMAIN old : t[old[i]].title = title}
    OBVIOUS
  <2>2. PICK U : U = {i \in DOMAIN new : u[new[i]].title = title}
    OBVIOUS
  <2>3. U = T
    BY <1>3, <1>4, <2>1, <2>2
  <2>4. PICK c : c = CHOOSE i \in T : \A j \in T : i <= j
    OBVIOUS
  <2>5. Local(t, d, title) = IF T = {} THEN Null ELSE old[c]
    BY <1>1, <2>1, <2>4 DEF Local
  <2>6. Local(u, d, title) = IF T = {} THEN Null ELSE new[c]
    <3>1. Local(u, d, title) =
             IF U = {} THEN Null ELSE new[CHOOSE i \in U : \A j \in U : i <= j]
      BY <1>2, <2>2 DEF Local
    <3> QED
      BY <2>3, <2>4, <3>1
  <2>7. T # {} => c \in T
    <3>1. T \subseteq Nat
      BY <1>3, <2>1
    <3>2. T # {} => \E i \in T : \A j \in T : i <= j
      BY <3>1, HasSmallest
    <3> QED
      BY <2>4, <3>2
  <2>8. c \in T => new[c] = old[c]
    BY <1>3, <1>9, <2>1
  <2> QED
    BY <2>5, <2>6, <2>7, <2>8
<1> QED
  BY <1>6, <1>8, <1>9

(* A merge that takes a file of a branch for one of master.                *)
FileExchange(t, from, to, rt, S, s) ==
    /\ Exchanges(t, from, to, rt, S, s)
    /\ from \in Leaves(t) /\ Top(t, from) = MasterOf(t)
    /\ t[from].parent \in Locals(t, MasterOf(t))

(* No other node moves, and no title changes.                              *)
LEMMA FileExchangeFacts ==
  ASSUME NEW t, NEW u, NEW from, NEW to, NEW rt, NEW S, NEW s, NEW slot,
         FileExchange(t, from, to, rt, S, s), Replaced(t, u, from, to, slot), IsTree(u)
  PROVE  /\ IsTree(t) /\ MasterOf(u) = MasterOf(t) /\ Keeps(t, u)
         /\ MasterOf(t) # rt[s] /\ MasterOf(t) \notin Roots(rt, S)
         /\ t[from].parent \in Dirs(t) /\ Top(t, t[from].parent) = MasterOf(t)
         /\ to \in Leaves(t) /\ Top(t, to) = rt[s] /\ Top(u, to) = MasterOf(t)
         /\ \A n \in DOMAIN t : u[n].title = t[n].title
         /\ \A n \in DOMAIN t : n # to => u[n].parent = t[n].parent
         /\ \A n \in DOMAIN t : n # t[from].parent => u[n].locals = t[n].locals
         /\ \A n \in Nodes(t) : n # to => Top(u, n) = Top(t, n)
         /\ Nodes(u) = Nodes(t) /\ DOMAIN u = DOMAIN t
<1>1. Exchanges(t, from, to, rt, S, s) /\ from \in Leaves(t) /\ Top(t, from) = MasterOf(t)
  BY DEF FileExchange
<1>2. /\ IsTree(t) /\ s \in S /\ Top(t, to) = rt[s] /\ Top(t, from) \notin Roots(rt, S)
  BY <1>1 DEF Exchanges
<1>3. MasterOf(t) # rt[s]
  BY <1>1, <1>2 DEF Roots
<1>4. from \notin Tops(t)
  BY <1>1, <1>2, LevelFacts
<1>5. /\ to \in Leaves(t) /\ t[from].title = t[to].title
  BY <1>1, <1>4, ExchangeFacts
<1>6. MasterOf(u) = MasterOf(t) /\ Keeps(t, u)
  <2>1. Numbered(u)
    BY DEF IsTree
  <2> QED
    BY <1>1, <1>4, <2>1, ExchangeTree
<1>7. /\ Tops(u) = Tops(t) /\ Dirs(u) = Dirs(t) /\ Leaves(u) = Leaves(t) /\ Nodes(u) = Nodes(t)
      /\ Top(u, to) = Top(t, from)
  BY <1>1, <1>4, ExchangeLevels
<1>8. /\ DOMAIN u = DOMAIN t /\ u[to].title = t[from].title
      /\ \A n \in DOMAIN t : /\ n # t[from].parent => u[n].locals = t[n].locals
                             /\ n # to => u[n].parent = t[n].parent /\ u[n].title = t[n].title
  BY DEF Replaced
<1>9. \A n \in DOMAIN t : u[n].title = t[n].title
  BY <1>5, <1>8
<1>10. t[from].parent \in Dirs(t) /\ Top(t, t[from].parent) = MasterOf(t)
  BY <1>1, <1>2, NodeFacts
<1>11. ASSUME NEW n \in Nodes(t), n # to
       PROVE  Top(u, n) = Top(t, n)
  <2>1. n \in DOMAIN t /\ u[n].parent = t[n].parent
    BY <1>2, <1>8, <1>11, LevelFacts
  <2>2. CASE n \in Tops(t)
    BY <1>2, <1>7, <2>2, NodeFacts
  <2>3. CASE n \in Dirs(t)
    BY <1>2, <1>7, <2>1, <2>3, NodeFacts
  <2>4. CASE n \in Leaves(t)
    <3>1. t[n].parent \in Dirs(t) /\ t[n].parent # to /\ t[n].parent \in DOMAIN t
      BY <1>2, <1>5, <2>4, LevelFacts, NodeFacts DEF Dirs
    <3>2. u[t[n].parent].parent = t[t[n].parent].parent
      BY <1>8, <3>1
    <3> QED
      BY <1>2, <1>7, <2>1, <2>4, <3>2, NodeFacts
  <2> QED
    BY <2>2, <2>3, <2>4 DEF Nodes
<1> QED
  BY <1>1, <1>2, <1>3, <1>5, <1>6, <1>7, <1>8, <1>9, <1>10, <1>11

(* Other branches are untouched,                                           *)
LEMMA FileExchangeUntouched ==
  ASSUME NEW t, NEW u, NEW from, NEW to, NEW rt, NEW S, NEW s, NEW slot,
         FileExchange(t, from, to, rt, S, s), Replaced(t, u, from, to, slot), IsTree(u),
         NEW r, r # rt[s], r # MasterOf(t)
  PROVE  Untouched(t, u, r)
<1>1. /\ Nodes(u) = Nodes(t) /\ Top(t, to) = rt[s] /\ Top(u, to) = MasterOf(t)
      /\ \A n \in Nodes(t) : n # to => Top(u, n) = Top(t, n)
  BY FileExchangeFacts
<1>2. /\ Nodes(t) \subseteq DOMAIN t /\ Top(t, t[from].parent) = MasterOf(t)
      /\ \A n \in DOMAIN t : u[n].title = t[n].title
      /\ \A n \in DOMAIN t : n # to => u[n].parent = t[n].parent
      /\ \A n \in DOMAIN t : n # t[from].parent => u[n].locals = t[n].locals
  BY FileExchangeFacts, LevelFacts
<1> QED
  BY <1>1, <1>2 DEF Untouched

(* and master stays whole; the file of the branch is found in place of the *)
(* one that was, and every other file as before.                           *)
LEMMA FileExchangeWhole ==
  ASSUME NEW t, NEW u, NEW from, NEW to, NEW rt, NEW S, NEW s, NEW slot,
         FileExchange(t, from, to, rt, S, s), Replaced(t, u, from, to, slot), IsTree(u),
         MasterWhole(t)
  PROVE  /\ MasterWhole(u)
         /\ \A path \in Path :
               getNodeIfExist(u, MasterOf(t), path) =
                  IF path = Key(t, from) THEN to ELSE getNodeIfExist(t, MasterOf(t), path)
         /\ Locals(u, MasterOf(t)) = Locals(t, MasterOf(t))
<1>1. PICK m : m = MasterOf(t)
  OBVIOUS
<1>2. PICK d : d = t[from].parent
  OBVIOUS
<1>3. /\ IsTree(t) /\ MasterOf(u) = m /\ m # rt[s]
      /\ d \in Dirs(t) /\ Top(t, d) = m
      /\ to \in Leaves(t) /\ Top(t, to) = rt[s]
      /\ \A n \in DOMAIN t : u[n].title = t[n].title
      /\ \A n \in DOMAIN t : n # to => u[n].parent = t[n].parent
      /\ \A n \in DOMAIN t : n # d => u[n].locals = t[n].locals
      /\ \A n \in Nodes(t) : n # to => Top(u, n) = Top(t, n)
      /\ Nodes(u) = Nodes(t) /\ DOMAIN u = DOMAIN t
  BY <1>1, <1>2, FileExchangeFacts
<1>4. /\ from \in Leaves(t) /\ Top(t, from) = m /\ d \in Locals(t, m)
  BY <1>1, <1>2 DEF FileExchange
<1>5. /\ Linked(t, m) /\ \A n \in Nodes(t) : Top(t, n) = m => Distinct(t, n)
      /\ \A path \in Path : getNodeIfExist(t, m, path) # Null
  BY <1>1 DEF MasterWhole
<1>6. /\ slot \in DOMAIN t[d].locals /\ t[d].locals[slot] = from /\ u[to].parent = d
      /\ u[d].locals = [t[d].locals EXCEPT ![slot] = to] /\ u[to].title = t[from].title
  BY <1>2 DEF Replaced
<1>7. /\ d \in DOMAIN t /\ d \in Nodes(t) /\ m \in Tops(t) /\ m \in DOMAIN t /\ m # d /\ m # Null
      /\ m \in Nodes(t) /\ Top(t, m) = m /\ d # to /\ to \in DOMAIN t /\ d # Null
  <2>1. m \in Tops(t)
    BY <1>1, <1>3 DEF IsTree, Rooted
  <2>2. m \in Nodes(t) /\ d \in Nodes(t) /\ to \in Nodes(t)
    BY <1>3, <2>1 DEF Nodes
  <2>3. Nodes(t) \subseteq DOMAIN t /\ Null \notin DOMAIN t
    BY <1>3, LevelFacts
  <2>4. m # d /\ d # to
    BY <1>3, <2>1, LevelFacts
  <2>5. Top(t, m) = m
    BY <1>3, <2>1, NodeFacts
  <2> QED
    BY <2>1, <2>2, <2>3, <2>4, <2>5
<1>8. /\ \A n \in DOMAIN t : t[n].locals \in Seq(Nat) /\ Locals(t, n) \subseteq DOMAIN t
      /\ u[d].locals \in Seq(Nat)
  <2>1. \A n \in DOMAIN t : t[n].locals \in Seq(DOMAIN t) /\ t[n].locals \in Seq(Nat)
    BY <1>3, LevelFacts, SeqMonotonic DEF IsTree, Numbered, IsNode
  <2>2. \A n \in DOMAIN u : u[n].locals \in Seq(Nat)
    BY LevelFacts, SeqMonotonic DEF IsTree, Numbered, IsNode
  <2>3. ASSUME NEW n \in DOMAIN t
        PROVE  Locals(t, n) \subseteq DOMAIN t
    <3>1. PICK locals : locals = t[n].locals
      OBVIOUS
    <3>2. locals \in Seq(DOMAIN t)
      BY <2>1, <3>1
    <3> QED
      BY <3>1, <3>2 DEF Locals
  <2> QED
    BY <1>3, <1>7, <2>1, <2>2, <2>3
<1>9. /\ Distinct(u, d) /\ Local(u, d, t[from].title) = to
      /\ \A title : title # t[from].title => Local(u, d, title) = Local(t, d, title)
  <2>1. \A x \in Locals(t, d) : u[x].title = t[x].title
    BY <1>3, <1>7, <1>8
  <2>2. Distinct(t, d) /\ t[d].locals \in Seq(Nat)
    BY <1>3, <1>5, <1>7, <1>8
  <2> QED
    <3>1. Slotted(t, u, d, from, to, slot)
      BY <1>6, <1>8, <2>1, <2>2 DEF Slotted
    <3> QED
      BY <3>1, SlotLocal
<1>10. ASSUME NEW n \in DOMAIN t, n # d
       PROVE  \A title : Local(u, n, title) = Local(t, n, title)
  <2>1. u[n].locals = t[n].locals /\ \A x \in Locals(t, n) : u[x].title = t[x].title
    BY <1>3, <1>8, <1>10
  <2> QED
    BY <2>1, SameLocal
<1>11. ASSUME NEW n \in DOMAIN t, n # d
       PROVE  Locals(u, n) = Locals(t, n)
  BY <1>3, <1>11 DEF Locals
<1>12. ASSUME NEW path \in Path
       PROVE  getNodeIfExist(u, m, path) =
                 IF path = Key(t, from) THEN to ELSE getNodeIfExist(t, m, path)
  <2>1. PICK e, f : FoundAt(t, m, path, e, f)
    BY <1>3, <1>5, <1>7, FoundFacts
  <2>2. PICK a, b : a = path[1] /\ b = path[2]
    OBVIOUS
  <2>3. path = <<a, b>>
    BY <2>2, BranchAssumption DEF BranchAssumption
  <2>4. /\ e = Local(t, m, a) /\ e # Null /\ f = Local(t, e, b) /\ f # Null /\ e \in Dirs(t)
        /\ t[e].title = a /\ t[f].title = b /\ getNodeIfExist(t, m, path) = f
    BY <2>1, <2>2 DEF FoundAt
  <2>5. Local(u, m, a) = e
    BY <1>7, <1>10, <2>4
  <2>6. getNodeIfExist(u, m, path) = Local(u, e, b)
    BY <1>7, <2>3, <2>4, <2>5, getNodeIfExistSteps
  <2>7. PICK x, y : x = t[d].title /\ y = t[from].title
    OBVIOUS
  <2>8. Key(t, from) = <<x, y>>
    BY <1>2, <1>3, <1>4, <2>7, NodeFacts
  <2>9. CASE path = Key(t, from)
    <3>1. a = x /\ b = y
      BY <2>3, <2>8, <2>9
    <3>2. Local(t, m, x) = d
      BY <1>4, <1>5, <1>7, <1>8, <2>7, DistinctLocal
    <3>3. e = d
      BY <2>4, <3>1, <3>2
    <3> QED
      BY <1>9, <2>6, <2>7, <2>9, <3>1, <3>3
  <2>10. CASE path # Key(t, from)
    <3>1. CASE e # d
      <4>1. Local(u, e, b) = f
        BY <1>10, <2>4, <3>1 DEF Dirs
      <4> QED
        BY <2>4, <2>6, <2>10, <4>1
    <3>2. CASE e = d
      <4>1. b # y
        BY <2>3, <2>4, <2>7, <2>8, <2>10, <3>2
      <4>2. Local(u, e, b) = f
        BY <1>9, <2>4, <2>7, <3>2, <4>1
      <4> QED
        BY <2>4, <2>6, <2>10, <4>2
    <3> QED
      BY <3>1, <3>2
  <2> QED
    BY <2>9, <2>10
<1>13. \A n \in Nodes(t) : n # to /\ Top(u, n) = m => Top(t, n) = m
  BY <1>3
<1>14. t[to].locals = <<>> /\ Locals(t, to) = {} /\ Locals(u, to) = {}
  BY <1>3, <1>7, <1>11 DEF IsTree, Levels, Locals
<1>15. Linked(u, m)
  <2> SUFFICES ASSUME NEW n \in Nodes(u), Top(u, n) = m, NEW x \in Locals(u, n)
               PROVE  u[x].parent = n
    BY DEF Linked
  <2>1. n # to /\ n \in Nodes(t) /\ Top(t, n) = m /\ n \in DOMAIN t
    BY <1>3, <1>13, <1>14, LevelFacts
  <2>2. CASE x = to /\ n = d
    BY <1>6, <2>2
  <2>3. CASE x # to /\ x \in Locals(t, n)
    <3>1. t[x].parent = n /\ x \in DOMAIN t
      BY <1>5, <1>8, <2>1, <2>3 DEF Linked
    <3> QED
      BY <1>3, <2>3, <3>1
  <2>4. x \in Locals(t, n) => x # to
    <3>1. x \in Locals(t, n) => Top(t, x) = m
      BY <1>3, <1>5, <2>1, LinkedTops DEF Linked
    <3> QED
      BY <1>3, <3>1
  <2>5. CASE n # d
    BY <1>11, <2>1, <2>3, <2>4, <2>5
  <2>6. CASE n = d
    <3>1. PICK old : old = t[d].locals
      OBVIOUS
    <3>2. PICK new : new = u[d].locals
      OBVIOUS
    <3>3. PICK i \in DOMAIN new : x = new[i]
      BY <2>6, <3>2 DEF Locals
    <3>4. i = slot \/ (i \in DOMAIN old /\ new[i] = old[i])
      BY <1>6, <3>1, <3>2, <3>3
    <3>5. x = to \/ x \in Locals(t, d)
      BY <1>6, <3>1, <3>2, <3>3, <3>4 DEF Locals
    <3> QED
      BY <2>2, <2>3, <2>4, <2>6, <3>5
  <2> QED
    BY <2>5, <2>6
<1>16. ASSUME NEW n \in Nodes(u), Top(u, n) = m
       PROVE  Distinct(u, n)
  <2>1. CASE n = to
    BY <1>3, <1>7, <1>14, <2>1 DEF Distinct
  <2>2. CASE n = d
    BY <1>9, <2>2
  <2>3. CASE n # to /\ n # d
    <3>1. n \in Nodes(t) /\ Top(t, n) = m /\ n \in DOMAIN t
      BY <1>3, <1>13, <1>16, <2>3, LevelFacts
    <3>2. PICK locals : locals = t[n].locals
      OBVIOUS
    <3>3. u[n].locals = locals /\ \A i \in DOMAIN locals : u[locals[i]].title = t[locals[i]].title
      <4>1. \A x \in Locals(t, n) : u[x].title = t[x].title
        BY <1>3, <1>8, <3>1
      <4> QED
        BY <1>3, <2>3, <3>1, <3>2, <4>1 DEF Locals
    <3>4. Distinct(t, n)
      BY <1>5, <3>1
    <3> QED
      BY <3>2, <3>3, <3>4 DEF Distinct
  <2> QED
    BY <2>1, <2>2, <2>3
<1>17. \A path \in Path : getNodeIfExist(u, m, path) # Null
  BY <1>3, <1>5, <1>12, LevelFacts DEF Leaves
<1>18. MasterWhole(u)
  BY <1>3, <1>15, <1>16, <1>17 DEF MasterWhole
<1> QED
  BY <1>1, <1>7, <1>11, <1>12, <1>18

-----------------------------------------------------------------------------
(* What an upload relies on between its steps, r being the session's root: *)
(* the root is there and is the one it writes below,                       *)
InBranch(t, up, r) ==
    /\ up.pc \in {"returnRoot", "newTimer", "schedule"} => r # Null
    /\ up.pc = "getNode" => r # Null /\ up.root = r
    /\ Holds(up) => r # Null /\ Top(t, up.node) = r

(* and what a merge relies on: its branch is one file, which it takes to a *)
(* file that is in master.                                                 *)
Merging(t, me, r) ==
    /\ r # Null /\ me.pc # "finish" => Grown(t, r, Null)
    /\ me.pc \in {"cancel", "find"} => r # Null /\ OneFile(t, r)
    /\ me.pc \in {"locate", "replace"} =>
          /\ r # Null /\ me.to \in Leaves(t)
          /\ \A n \in Leaves(t) : Top(t, n) = r => n = me.to
    /\ me.pc = "replace" =>
          /\ me.from \in Leaves(t) /\ Top(t, me.from) = MasterOf(t)
          /\ t[me.from].parent \in Locals(t, MasterOf(t))

(* Both.                                                                   *)
Placed(t, up, me, r) == InBranch(t, up, r) /\ Merging(t, me, r)

(* The invariant: as long as nothing was rough, that is so of all sessions *)
(* and master is whole.                                                    *)
Smooth ==
    \/ rough
    \/ /\ master = MasterOf(tree) /\ MasterWhole(tree)
       /\ \A s \in Session : Placed(tree, upload[s], merge[s], root[s])

(* What a session relies on is left as it is by a step from t to u.        *)
Kept(t, u, me, r) ==
    /\ IsTree(t) /\ IsTree(u) /\ Keeps(t, u) /\ MasterOf(u) = MasterOf(t)
    /\ r # Null /\ me.pc # "finish" => r \in Tops(t) /\ Linked(t, r) /\ Untouched(t, u, r)
    /\ me.pc = "replace" => /\ Top(u, me.from) = MasterOf(t)
                            /\ u[me.from].parent \in Locals(u, MasterOf(t))

(* No node leaves a branch that is untouched,                              *)
LEMMA UntouchedTop ==
  ASSUME NEW t, NEW u, NEW r \in Tops(t), IsTree(t), IsTree(u), Keeps(t, u), Untouched(t, u, r),
         NEW n \in Leaves(t), Top(t, n) = r
  PROVE  Top(u, n) = r
<1>1. PICK d : d = t[n].parent
  OBVIOUS
<1>2. d \in Dirs(t) /\ t[d].parent = r /\ Top(t, d) = r /\ d \in Nodes(t) /\ n \in Nodes(t)
  BY <1>1, NodeFacts DEF Nodes
<1>3. u[n].parent = d /\ u[d].parent = r
  BY <1>1, <1>2 DEF Untouched
<1>4. n \in Leaves(u)
  BY DEF Keeps
<1> QED
  BY <1>3, <1>4, NodeFacts

(* so it stays placed.                                                     *)
LEMMA PlacedStays ==
  ASSUME NEW t, NEW u, NEW up, NEW me, NEW r, Kept(t, u, me, r), Placed(t, up, me, r),
         UploadFits(t, up), up.pc # "idle" => me.pc = "idle"
  PROVE  Placed(u, up, me, r)
<1>1. /\ IsTree(t) /\ IsTree(u) /\ Keeps(t, u) /\ MasterOf(u) = MasterOf(t)
      /\ r # Null /\ me.pc # "finish" => r \in Tops(t) /\ Linked(t, r) /\ Untouched(t, u, r)
      /\ me.pc = "replace" => /\ Top(u, me.from) = MasterOf(t)
                              /\ u[me.from].parent \in Locals(u, MasterOf(t))
  BY DEF Kept
<1>2. InBranch(t, up, r) /\ Merging(t, me, r)
  BY DEF Placed
<1>3. InBranch(u, up, r)
  <2>1. Holds(up) => r # Null /\ Top(t, up.node) = r
    BY <1>2 DEF InBranch
  <2>2. Holds(up) => up.node \in Leaves(t) /\ me.pc # "finish"
    BY DEF UploadFits, Holds
  <2>3. Holds(up) => Top(u, up.node) = r
    BY <1>1, <2>1, <2>2, UntouchedTop
  <2> QED
    BY <1>2, <2>3 DEF InBranch
<1>4. r # Null /\ me.pc # "finish" => Grown(u, r, Null)
  <2> SUFFICES ASSUME r # Null, me.pc # "finish"
               PROVE  Grown(u, r, Null)
    OBVIOUS
  <2>1. Grown(t, r, Null)
    BY <1>2 DEF Merging
  <2> QED
    BY <1>1, <2>1, UntouchedGrown
<1>5. me.pc \in {"cancel", "find"} => r # Null /\ OneFile(u, r)
  <2> SUFFICES ASSUME me.pc \in {"cancel", "find"}
               PROVE  r # Null /\ OneFile(u, r)
    OBVIOUS
  <2>1. r # Null /\ OneFile(t, r)
    BY <1>2 DEF Merging
  <2>2. r \in Tops(t) /\ Linked(t, r) /\ Untouched(t, u, r)
    BY <1>1, <2>1
  <2>3. r \in Nodes(t) /\ Top(t, r) = r
    BY <1>1, <2>2, NodeFacts DEF Nodes
  <2>4. PICK locals : locals = t[r].locals
    OBVIOUS
  <2>5. PICK d : d = locals[1]
    OBVIOUS
  <2>6. Len(locals) = 1 /\ Len(t[d].locals) = 1
    BY <2>1, <2>4, <2>5 DEF OneFile
  <2>7. locals \in Seq(DOMAIN t)
    BY <1>1, <2>2, <2>4 DEF IsTree, Numbered, IsNode, Tops
  <2>8. d \in Locals(t, r)
    BY <2>4, <2>5, <2>6, <2>7 DEF Locals
  <2>9. d \in Nodes(t) /\ Top(t, d) = r
    BY <1>1, <2>2, <2>3, <2>8, UntouchedLocals
  <2>10. u[r].locals = locals /\ u[d].locals = t[d].locals
    BY <2>2, <2>3, <2>4, <2>9 DEF Untouched
  <2> QED
    BY <2>1, <2>5, <2>6, <2>10 DEF OneFile
<1>6. me.pc \in {"locate", "replace"} =>
         /\ r # Null /\ me.to \in Leaves(u)
         /\ \A n \in Leaves(u) : Top(u, n) = r => n = me.to
  <2> SUFFICES ASSUME me.pc \in {"locate", "replace"}
               PROVE  /\ r # Null /\ me.to \in Leaves(u)
                      /\ \A n \in Leaves(u) : Top(u, n) = r => n = me.to
    OBVIOUS
  <2>1. /\ r # Null /\ me.to \in Leaves(t)
        /\ \A n \in Leaves(t) : Top(t, n) = r => n = me.to
    BY <1>2 DEF Merging
  <2>2. Untouched(t, u, r) /\ Keeps(t, u)
    BY <1>1, <2>1
  <2>3. \A n \in Leaves(u) : n \in Nodes(t) => n \in Leaves(t)
    BY <1>1, <2>2, LevelFacts DEF Keeps, Nodes
  <2>4. \A n \in Leaves(u) : Top(u, n) = r => n \in Nodes(t) /\ Top(t, n) = r
    BY <2>2 DEF Untouched, Nodes
  <2> QED
    BY <2>1, <2>2, <2>3, <2>4 DEF Keeps
<1>7. me.pc = "replace" =>
         /\ me.from \in Leaves(u) /\ Top(u, me.from) = MasterOf(u)
         /\ u[me.from].parent \in Locals(u, MasterOf(u))
  BY <1>1, <1>2 DEF Merging, Keeps
<1> QED
  BY <1>3, <1>4, <1>5, <1>6, <1>7 DEF Placed, Merging

-----------------------------------------------------------------------------
(* Steps that change no node.                                              *)
LEMMA QuietSmooth ==
  ASSUME Smooth, NEW s \in Session, OnlyOf(s), tree' = tree, master' = master, rough => rough',
         ~rough' /\ Placed(tree, upload[s], merge[s], root[s]) =>
            Placed(tree, upload'[s], merge'[s], root'[s])
  PROVE  Smooth'
<1> SUFFICES ASSUME ~rough'
             PROVE  /\ master = MasterOf(tree) /\ MasterWhole(tree)
                    /\ \A w \in Session : Placed(tree, upload'[w], merge'[w], root'[w])
  BY DEF Smooth
<1>1. /\ master = MasterOf(tree) /\ MasterWhole(tree)
      /\ \A w \in Session : Placed(tree, upload[w], merge[w], root[w])
  BY DEF Smooth
<1>2. ASSUME NEW w \in Session, w # s
      PROVE  Placed(tree, upload'[w], merge'[w], root'[w])
  BY <1>1, <1>2 DEF OnlyOf
<1> QED
  BY <1>1, <1>2

(* An upload that waits for its timer is placed as before,                 *)
LEMMA SamePlaced ==
  ASSUME NEW t, NEW up, NEW new, NEW me, NEW r, Placed(t, up, me, r), new.node = up.node,
         Holds(new) => Holds(up), new.pc # "getNode",
         new.pc \in {"returnRoot", "newTimer", "schedule"} => r # Null
  PROVE  Placed(t, new, me, r)
BY DEF Placed, InBranch

(* and one that is over relies on nothing.                                 *)
LEMMA OverPlaced ==
  ASSUME NEW t, NEW up, NEW new, NEW me, NEW r, Placed(t, up, me, r),
         new.pc \in {"idle", "getRoot"}
  PROVE  Placed(t, new, me, r)
BY DEF Placed, InBranch, Holds

(* The steps of an upload that change no node.                             *)
LEMMA UploadSmooth ==
  ASSUME Shape, Smooth, NEW s \in Session,
         \/ NewTimer(s) \/ Schedule(s) \/ ScheduleThrows(s) \/ ReturnRoot(s) \/ PutThrows(s)
         \/ Begin(s) \/ Write(s) \/ Close(s) \/ Abort(s)
         \/ GetRoot(s) /\ root[s] # Null
  PROVE  Smooth'
<1>1. /\ UploadTyped(upload[s]) /\ MergeTyped(merge[s]) /\ Typed /\ UploadFits(tree, upload[s])
      /\ upload = [w \in Session |-> upload[w]]
  BY DEF Shape, Typed
<1>2. CASE NewTimer(s)
  <2>1. /\ OnlyUpload(s) /\ upload'[s].pc = "schedule" /\ upload[s].pc = "newTimer"
        /\ upload'[s].then = upload[s].then /\ upload'[s].node = upload[s].node
    BY <1>1, <1>2, GoStep DEF NewTimer, At
  <2>2. tree' = tree /\ master' = master /\ merge' = merge /\ root' = root /\ rough' = rough
    BY <1>2 DEF NewTimer
  <2>3. Holds(upload'[s]) => Holds(upload[s])
    BY <2>1 DEF Holds
  <2>4. ASSUME Placed(tree, upload[s], merge[s], root[s])
        PROVE  Placed(tree, upload'[s], merge'[s], root'[s])
    <3>1. root[s] # Null
      BY <2>1, <2>4 DEF Placed, InBranch
    <3> QED
      BY <2>1, <2>2, <2>3, <2>4, <3>1, SamePlaced
  <2>5. OnlyOf(s)
    BY <2>1, <2>2 DEF OnlyOf, OnlyUpload
  <2> QED
    BY <2>2, <2>4, <2>5, QuietSmooth
<1>3. CASE Schedule(s)
  <2>1. upload[s].then \in {"returnRoot", "write", "put"} /\ upload[s].pc = "schedule"
    BY <1>1, <1>3 DEF Schedule, At, UploadFits, UploadTyped
  <2>2. /\ OnlyUpload(s) /\ upload'[s].pc = upload[s].then
        /\ upload'[s].then = upload[s].then /\ upload'[s].node = upload[s].node
    BY <1>1, <1>3, <2>1, GoStep DEF Schedule
  <2>3. tree' = tree /\ master' = master /\ merge' = merge /\ root' = root /\ rough' = rough
    BY <1>3 DEF Schedule
  <2>4. Holds(upload'[s]) => Holds(upload[s])
    BY <2>1, <2>2 DEF Holds
  <2>5. ASSUME Placed(tree, upload[s], merge[s], root[s])
        PROVE  Placed(tree, upload'[s], merge'[s], root'[s])
    <3>1. root[s] # Null
      BY <2>1, <2>5 DEF Placed, InBranch
    <3> QED
      BY <2>1, <2>2, <2>3, <2>4, <2>5, <3>1, SamePlaced
  <2>6. OnlyOf(s)
    BY <2>2, <2>3 DEF OnlyOf, OnlyUpload
  <2> QED
    BY <2>3, <2>5, <2>6, QuietSmooth
<1>4. CASE ScheduleThrows(s) \/ PutThrows(s) \/ Abort(s)
  <2>1. OnlyUpload(s) /\ upload'[s].pc = "idle"
    BY <1>1, <1>4, OverStep DEF ScheduleThrows, PutThrows, Abort
  <2>2. /\ tree' = tree /\ master' = master /\ merge' = merge /\ root' = root
        /\ rough => rough'
    BY <1>4 DEF ScheduleThrows, PutThrows, Abort
  <2>3. ASSUME Placed(tree, upload[s], merge[s], root[s])
        PROVE  Placed(tree, upload'[s], merge'[s], root'[s])
    BY <2>1, <2>2, <2>3, OverPlaced
  <2>4. OnlyOf(s)
    BY <2>1, <2>2 DEF OnlyOf, OnlyUpload
  <2> QED
    BY <2>2, <2>3, <2>4, QuietSmooth
<1>5. CASE ReturnRoot(s)
  <2>1. /\ tree' = tree /\ master' = master /\ merge' = merge /\ root' = root
        /\ rough' = rough /\ upload[s].pc = "returnRoot"
    BY <1>5 DEF ReturnRoot, At
  <2>2. CASE root[s] = Null
    <3>1. OnlyUpload(s) /\ upload'[s].pc = "idle"
      BY <1>1, <1>5, <2>2, OverStep DEF ReturnRoot
    <3>2. ASSUME Placed(tree, upload[s], merge[s], root[s])
          PROVE  Placed(tree, upload'[s], merge'[s], root'[s])
      BY <2>1, <3>1, <3>2, OverPlaced
    <3>3. OnlyOf(s)
      BY <2>1, <3>1 DEF OnlyOf, OnlyUpload
    <3> QED
      BY <2>1, <3>2, <3>3, QuietSmooth
  <2>3. CASE root[s] # Null
    <3>1. /\ upload'[s].pc = "getNode" /\ upload'[s].root = root[s]
          /\ \A w \in Session : w # s => upload'[w] = upload[w]
      BY <1>1, <1>5, <2>3 DEF ReturnRoot, UploadTyped
    <3>2. ASSUME Placed(tree, upload[s], merge[s], root[s])
          PROVE  Placed(tree, upload'[s], merge'[s], root'[s])
      BY <2>1, <2>3, <3>1, <3>2 DEF Placed, InBranch, Holds
    <3>3. OnlyOf(s)
      BY <2>1, <3>1 DEF OnlyOf
    <3> QED
      BY <2>1, <3>2, <3>3, QuietSmooth
  <2> QED
    BY <2>2, <2>3
<1>6. CASE Begin(s)
  <2>1. /\ tree' = tree /\ master' = master /\ merge' = merge /\ root' = root /\ (rough => rough')
    BY <1>6 DEF Begin
  <2>2. PICK path : upload' = [upload EXCEPT ![s].pc = "getRoot", ![s].path = path, ![s].n = @ + 1]
    BY <1>6 DEF Begin
  <2>3. upload'[s].pc = "getRoot" /\ \A w \in Session : w # s => upload'[w] = upload[w]
    BY <1>1, <2>2 DEF UploadTyped
  <2>4. ASSUME Placed(tree, upload[s], merge[s], root[s])
        PROVE  Placed(tree, upload'[s], merge'[s], root'[s])
    BY <2>1, <2>3, <2>4, OverPlaced
  <2>5. OnlyOf(s)
    BY <2>1, <2>3 DEF OnlyOf
  <2> QED
    BY <2>1, <2>4, <2>5, QuietSmooth
<1>7. CASE Write(s) \/ Close(s)
  <2>1. /\ tree' = tree /\ master' = master /\ merge' = merge /\ root' = root /\ rough' = rough
        /\ upload[s].pc = "write"
    BY <1>7 DEF Write, Close, At
  <2>2. /\ OnlyUpload(s) /\ upload'[s].pc = "newTimer" /\ upload'[s].node = upload[s].node
    BY <1>1, <1>7, ThenStep DEF Write, Close
  <2>3. Holds(upload[s])
    BY <2>1 DEF Holds
  <2>4. ASSUME Placed(tree, upload[s], merge[s], root[s])
        PROVE  Placed(tree, upload'[s], merge'[s], root'[s])
    <3>1. root[s] # Null
      BY <2>3, <2>4 DEF Placed, InBranch
    <3> QED
      BY <2>1, <2>2, <2>3, <2>4, <3>1, SamePlaced
  <2>5. OnlyOf(s)
    BY <2>1, <2>2 DEF OnlyOf, OnlyUpload
  <2> QED
    BY <2>1, <2>4, <2>5, QuietSmooth
<1>8. CASE GetRoot(s) /\ root[s] # Null
  <2>1. /\ tree' = tree /\ master' = master /\ merge' = merge /\ root' = root /\ rough' = rough
        /\ upload[s].pc = "getRoot"
    BY <1>8 DEF GetRoot, At
  <2>2. OnlyUpload(s) /\ upload'[s].pc = "returnRoot" /\ upload'[s].node = upload[s].node
    BY <1>1, <1>8, GoStep DEF GetRoot
  <2>3. ~Holds(upload'[s])
    BY <2>2 DEF Holds
  <2>4. ASSUME Placed(tree, upload[s], merge[s], root[s])
        PROVE  Placed(tree, upload'[s], merge'[s], root'[s])
    BY <1>8, <2>1, <2>2, <2>3, <2>4, SamePlaced
  <2>5. OnlyOf(s)
    BY <2>1, <2>2 DEF OnlyOf, OnlyUpload
  <2> QED
    BY <2>1, <2>4, <2>5, QuietSmooth
<1> QED
  BY <1>2, <1>3, <1>4, <1>5, <1>6, <1>7, <1>8

(* Fire finds one file in the branch, Find goes down to it.                *)
LEMMA FireSmooth ==
  ASSUME Shape, Timely, Smooth, NEW s \in Session, Fire(s) \/ Cancel(s)
  PROVE  Smooth'
<1>1. /\ MergeTyped(merge[s]) /\ Typed /\ IsTree(tree) /\ Apart(tree, root, Unmerged)
  BY DEF Shape, Typed
<1>2. PICK pc \in {"cancel", "find"} : MergeGoes(s, pc) /\ (pc = "find" => Cancel(s))
  BY DEF Fire, Cancel
<1>3. OnlyMerge(s) /\ merge'[s].pc = pc
  BY <1>1, <1>2, MergeGoesStep
<1>4. /\ tree' = tree /\ master' = master /\ upload' = upload /\ root' = root /\ (rough => rough')
  <2>1. CASE Fire(s)
    <3>1. rough' = (rough \/ ~At(s, "idle") \/ Cardinality(FilesOf(s)) # 1)
      BY <2>1 DEF Fire
    <3>2. rough => rough'
      BY <3>1, Zenon
    <3> QED
      BY <2>1, <3>2 DEF Fire
  <2>2. CASE Cancel(s)
    BY <2>2 DEF Cancel
  <2> QED
    BY <2>1, <2>2
<1>5. ASSUME ~rough', Placed(tree, upload[s], merge[s], root[s])
      PROVE  root[s] # Null /\ OneFile(tree, root[s]) /\ Grown(tree, root[s], Null)
  <2>1. CASE Cancel(s)
    BY <1>5, <2>1 DEF Cancel, MergeAt, Placed, Merging
  <2>2. CASE Fire(s)
    <3>1. rough' = (rough \/ ~At(s, "idle") \/ Cardinality(FilesOf(s)) # 1)
          /\ merge[s].pc = "idle"
      BY <2>2 DEF Fire, MergeAt
    <3>2. Cardinality(FilesOf(s)) = 1
      BY <1>5, <3>1, Zenon
    <3>3. root[s] # Null
      BY <3>2, FS_EmptySet DEF FilesOf
    <3>4. Grown(tree, root[s], Null)
      BY <1>5, <3>1, <3>3 DEF Placed, Merging
    <3>5. s \in Unmerged
      BY <3>1, <3>3 DEF Unmerged
    <3>6. root[s] \in Tops(tree) /\ Linked(tree, root[s])
      BY <1>1, <3>3, <3>5 DEF Apart
    <3>7. PICK r : r = root[s]
      OBVIOUS
    <3>8. Cardinality({path \in Path : getNodeIfExist(tree, r, path) # Null}) = 1
      BY <3>2, <3>3, <3>7 DEF FilesOf
    <3>9. OneFile(tree, r)
      BY <1>1, <3>4, <3>6, <3>7, <3>8, OnePathOneFile
    <3> QED
      BY <3>3, <3>4, <3>7, <3>9
  <2> QED
    BY <2>1, <2>2
<1>6. OnlyOf(s)
  BY <1>3, <1>4 DEF OnlyOf, OnlyMerge
<1>7. ASSUME ~rough', Placed(tree, upload[s], merge[s], root[s])
      PROVE  Placed(tree, upload'[s], merge'[s], root'[s])
  BY <1>3, <1>4, <1>5, <1>7 DEF Placed, Merging
<1> QED
  BY <1>4, <1>6, <1>7, QuietSmooth

(* Find goes down to the only file of the branch.                          *)
LEMMA FindSmooth ==
  ASSUME Shape, Smooth, NEW s \in Session, Find(s)
  PROVE  Smooth'
<1>1. /\ OnlyMerge(s) /\ merge[s].pc = "find"
      /\ root[s] = Null => merge'[s].pc = "idle"
      /\ root[s] # Null => merge'[s].pc = "locate" /\ merge'[s].to = Package(tree, root[s])
  BY FindStep
<1>2. tree' = tree /\ master' = master /\ upload' = upload /\ root' = root /\ rough' = rough
  BY DEF Find
<1>3. ASSUME Placed(tree, upload[s], merge[s], root[s])
      PROVE  Placed(tree, upload'[s], merge'[s], root'[s])
  <2>1. root[s] # Null /\ OneFile(tree, root[s]) /\ Grown(tree, root[s], Null)
    BY <1>1, <1>3 DEF Placed, Merging
  <2>2. root[s] \in Tops(tree) /\ Linked(tree, root[s]) /\ IsTree(tree)
    BY <1>1, <2>1 DEF Shape, Apart, Unmerged
  <2>3. /\ Package(tree, root[s]) \in Leaves(tree)
        /\ \A n \in Leaves(tree) : Top(tree, n) = root[s] => n = Package(tree, root[s])
    BY <2>1, <2>2, OneFilePackage
  <2> QED
    BY <1>1, <1>2, <1>3, <2>1, <2>3 DEF Placed, Merging
<1>4. OnlyOf(s)
  BY <1>1, <1>2 DEF OnlyOf, OnlyMerge
<1> QED
  BY <1>2, <1>3, <1>4, QuietSmooth

(* A merge that ends relies on nothing; no upload of its session is there. *)
LEMMA FinishSmooth ==
  ASSUME Shape, Timely, Smooth, NEW s \in Session, Finish(s) \/ ReplaceThrows(s)
  PROVE  Smooth'
<1>1. CASE ReplaceThrows(s)
  BY <1>1 DEF ReplaceThrows, Smooth
<1>2. CASE Finish(s)
  <2>1. OnlyMerge(s) /\ merge'[s].pc = "idle" /\ merge[s].pc = "finish"
    BY <1>2, MergeEndsStep DEF Finish, MergeAt, Shape
  <2>2. /\ tree' = tree /\ master' = master /\ upload' = upload /\ rough' = rough
        /\ root'[s] = Null /\ \A w \in Session : w # s => root'[w] = root[w]
    BY <1>2 DEF Finish, Shape, Typed
  <2>3. ASSUME ~rough'
        PROVE  Placed(tree, upload'[s], merge'[s], root'[s])
    <3>1. upload[s].pc = "idle"
      BY <2>1, <2>2, <2>3 DEF Timely, Timed
    <3> QED
      BY <2>1, <2>2, <3>1 DEF Placed, InBranch, Merging, Holds
  <2>4. OnlyOf(s)
    BY <2>1, <2>2 DEF OnlyOf, OnlyMerge
  <2> QED
    BY <2>2, <2>3, <2>4, QuietSmooth
<1> QED
  BY <1>1, <1>2

-----------------------------------------------------------------------------
(* A step from t to u leaves master as it is, with the values.             *)
MasterSame(t, u) ==
    /\ MasterOf(u) = MasterOf(t) /\ Untouched(t, u, MasterOf(t))
    /\ \A n \in Nodes(t) : Top(t, n) = MasterOf(t) => u[n].value = t[n].value

(* Master is no branch.                                                    *)
LEMMA MasterNoBranch ==
  ASSUME NEW t, NEW rt, NEW S, IsTree(t), Apart(t, rt, S)
  PROVE  /\ MasterOf(t) \notin Roots(rt, S) /\ MasterOf(t) \in Tops(t) /\ MasterOf(t) # Null
         /\ MasterOf(t) \in Nodes(t) /\ Top(t, MasterOf(t)) = MasterOf(t)
<1>1. MasterOf(t) \in Tops(t) /\ t[MasterOf(t)].parent = 0
  BY DEF IsTree, Rooted
<1>2. \A r \in Roots(rt, S) : t[r].parent = 1
  BY DEF Apart, Roots
<1>3. MasterOf(t) # Null
  BY <1>1, LevelFacts DEF Tops
<1> QED
  BY <1>1, <1>2, <1>3, NodeFacts DEF Nodes

(* A step of an upload, in its branch.                                     *)
StepApart(s) ==
    /\ OnlyOf(s) /\ master' = master /\ rough' = rough
    /\ Stays(tree, tree') /\ MasterSame(tree, tree')
    /\ \A w \in Unmerged \ {s} : Untouched(tree, tree', root[w])

(* It leaves every other session placed, and master whole.                 *)
LEMMA ApartSmooth ==
  ASSUME Shape, Shape', Timely, Smooth, NEW s \in Session, StepApart(s),
         ~rough => Placed(tree', upload'[s], merge'[s], root'[s])
  PROVE  Smooth'
<1> SUFFICES ASSUME ~rough
             PROVE  /\ master' = MasterOf(tree') /\ MasterWhole(tree')
                    /\ \A w \in Session : Placed(tree', upload'[w], merge'[w], root'[w])
  BY DEF Smooth, StepApart
<1>1. PICK t : t = tree
  OBVIOUS
<1>2. PICK u : u = tree'
  OBVIOUS
<1>3. PICK m : m = MasterOf(t)
  OBVIOUS
<1>4. /\ IsTree(t) /\ IsTree(u) /\ Stays(t, u) /\ Keeps(t, u)
      /\ MasterOf(u) = m /\ Untouched(t, u, m) /\ master' = master
      /\ Apart(t, root, Unmerged)
  BY <1>1, <1>2, <1>3 DEF StepApart, MasterSame, Shape, Stays
<1>5. master = m /\ MasterWhole(t)
  BY <1>1, <1>3 DEF Smooth
<1>6. MasterWhole(u)
  BY <1>3, <1>4, <1>5, UntouchedWhole
<1>7. m \in Tops(t) /\ Top(t, m) = m /\ m \in Nodes(t) /\ Linked(t, m)
  BY <1>3, <1>4, <1>5, MasterNoBranch DEF MasterWhole
<1>8. Locals(u, m) = Locals(t, m)
  BY <1>4, <1>7, UntouchedLocals
<1>9. ASSUME NEW w \in Session, w # s
      PROVE  Placed(tree', upload'[w], merge'[w], root'[w])
  <2>1. PICK up, me, r : up = upload[w] /\ me = merge[w] /\ r = root[w]
    OBVIOUS
  <2>2. upload'[w] = up /\ merge'[w] = me /\ root'[w] = r
    BY <1>9, <2>1 DEF StepApart, OnlyOf
  <2>3. Placed(t, up, me, r) /\ UploadFits(t, up) /\ (up.pc # "idle" => me.pc = "idle")
    BY <1>1, <2>1 DEF Smooth, Shape, Timely, Timed
  <2>4. r # Null /\ me.pc # "finish" => r \in Tops(t) /\ Linked(t, r) /\ Untouched(t, u, r)
    <3> SUFFICES ASSUME r # Null, me.pc # "finish"
                 PROVE  r \in Tops(t) /\ Linked(t, r) /\ Untouched(t, u, r)
      OBVIOUS
    <3>1. w \in Unmerged
      BY <2>1 DEF Unmerged
    <3> QED
      BY <1>1, <1>2, <1>4, <1>9, <2>1, <3>1 DEF StepApart, Apart
  <2>5. me.pc = "replace" => /\ Top(u, me.from) = m
                             /\ u[me.from].parent \in Locals(u, m)
    <3> SUFFICES ASSUME me.pc = "replace"
                 PROVE  Top(u, me.from) = m /\ u[me.from].parent \in Locals(u, m)
      OBVIOUS
    <3>1. /\ me.from \in Nodes(t) /\ Top(t, me.from) = m
          /\ t[me.from].parent \in Locals(t, m)
      BY <1>3, <2>3 DEF Placed, Merging, Nodes
    <3>2. u[me.from].parent = t[me.from].parent
      BY <1>4, <3>1 DEF Untouched
    <3>3. Top(u, me.from) = m
      BY <1>4, <3>1 DEF Stays
    <3> QED
      BY <1>8, <3>1, <3>2, <3>3
  <2>6. Kept(t, u, me, r)
    BY <1>3, <1>4, <2>4, <2>5 DEF Kept
  <2>7. Placed(u, up, me, r)
    BY <2>3, <2>6, PlacedStays
  <2> QED
    BY <1>2, <2>2, <2>7
<1> QED
  BY <1>2, <1>4, <1>5, <1>6, <1>9

(* A root that was made has nothing below it.                              *)
LEMMA NewGrown ==
  ASSUME NEW t, NEW u, NEW k, NEW title, NEW value, IsTree(t), IsTree(u),
         Added(t, u, 1, k, title, value)
  PROVE  Grown(u, k, Null)
<1>1. /\ k \in Nodes(u) /\ Nodes(u) = Nodes(t) \union {k} /\ Top(u, k) = k
  BY AddedTop
<1>2. Stays(t, u)
  BY AddedStays
<1>3. ASSUME NEW n \in Nodes(u), Top(u, n) = k
      PROVE  n = k
  <2>1. n \in Nodes(t) => Top(t, n) = k
    BY <1>2, <1>3 DEF Stays
  <2>2. k \notin Tops(t)
    BY DEF Added, Tops
  <2> QED
    BY <1>1, <2>1, <2>2, NodeFacts
<1>4. k \in Tops(u)
  BY <1>1, NodeFacts
<1>5. k \notin Dirs(u) /\ k \notin Leaves(u) /\ u[k].locals = <<>>
  BY <1>4, LevelFacts DEF Added
<1>6. Distinct(u, k)
  BY <1>5 DEF Distinct
<1> QED
  BY <1>3, <1>5, <1>6 DEF Grown

(* GetRoot makes a root next to the others,                                *)
LEMMA GetRootApart ==
  ASSUME Shape, Timely, Shape', Smooth, NEW s \in Session, GetRoot(s), root[s] = Null
  PROVE  StepApart(s) /\ Smooth'
<1>1. PICK t : t = tree
  OBVIOUS
<1>2. PICK u : u = tree'
  OBVIOUS
<1>3. PICK k : k = NewNode(t)
  OBVIOUS
<1>4. /\ u = AddLocal(t, 1, k, Null) /\ root' = [root EXCEPT ![s] = k]
      /\ upload' = [upload EXCEPT ![s].pc = "newTimer", ![s].then = "returnRoot"]
      /\ master' = master /\ merge' = merge /\ upload[s].pc = "getRoot" /\ rough' = rough
  BY <1>1, <1>2, <1>3 DEF GetRoot, At
<1>5. IsTree(t) /\ IsTree(u) /\ 1 \in DOMAIN t /\ Apart(t, root, Unmerged)
  BY <1>1, <1>2, LevelFacts DEF Shape
<1>6. Added(t, u, 1, k, k, Null)
  BY <1>3, <1>4, <1>5, AddLocalFacts DEF IsTree
<1>7. Stays(t, u)
  BY <1>5, <1>6, AddedStays
<1>8. \A r \in Tops(t) : Untouched(t, u, r)
  BY <1>5, <1>6, AddedUntouched
<1>9. /\ OnlyUpload(s) /\ upload'[s].pc = "newTimer" /\ upload'[s].then = "returnRoot"
  BY <1>4, ThenStep DEF Shape
<1>10. root'[s] = k /\ \A w \in Session : w # s => root'[w] = root[w]
  BY <1>4 DEF Shape, Typed
<1>11. MasterSame(t, u)
  <2>1. MasterOf(u) = MasterOf(t)
    BY <1>5, <1>6, LevelFacts DEF Added, MasterOf
  <2>2. \A n \in Nodes(t) : u[n].value = t[n].value
    BY <1>5, <1>6, LevelFacts DEF Added
  <2> QED
    BY <1>5, <1>8, <2>1, <2>2, MasterNoBranch DEF MasterSame
<1>12. \A w \in Unmerged : root[w] \in Tops(t)
  BY <1>5 DEF Apart, Unmerged
<1>13. OnlyOf(s)
  BY <1>4, <1>9, <1>10 DEF OnlyOf, OnlyUpload
<1>14. StepApart(s)
  BY <1>1, <1>2, <1>4, <1>7, <1>8, <1>11, <1>12, <1>13 DEF StepApart
<1>15. ASSUME ~rough
       PROVE  Placed(tree', upload'[s], merge'[s], root'[s])
  <2>1. merge'[s].pc = "idle"
    BY <1>4, <1>15 DEF Timely, Timed
  <2>2. Grown(u, k, Null) /\ k # Null
    <3>1. k # Null
      BY <1>6, BranchAssumption DEF Added, BranchAssumption
    <3> QED
      BY <1>5, <1>6, <3>1, NewGrown
  <2>3. ~Holds(upload'[s])
    BY <1>9 DEF Holds
  <2> QED
    BY <1>2, <1>9, <1>10, <2>1, <2>2, <2>3 DEF Placed, InBranch, Merging
<1> QED
  BY <1>14, <1>15, ApartSmooth

(* GetNode finds or makes a file below the root,                           *)
LEMMA GetNodeStep ==
  ASSUME Shape, NEW s \in Session, GetNode(s)
  PROVE  LET at == getNode(tree, upload[s].root, upload[s].path)
         IN  /\ tree' = at.tree /\ master' = master /\ merge' = merge /\ root' = root
             /\ rough' = rough /\ closed' = closed /\ temps' = temps \union {s}
             /\ upload[s].pc = "getNode" /\ upload[s].path \in Path
             /\ upload'[s].pc = "write" /\ upload'[s].node = at.node
             /\ upload'[s].path = upload[s].path
             /\ \A w \in Session : w # s => upload'[w] = upload[w]
<1>1. PICK up : up = upload[s]
  OBVIOUS
<1>2. PICK at : at = getNode(tree, up.root, up.path)
  OBVIOUS
<1>3. /\ tree' = at.tree /\ master' = master /\ merge' = merge /\ root' = root
      /\ rough' = rough /\ closed' = closed /\ temps' = temps \union {s} /\ up.pc = "getNode"
      /\ upload' = [upload EXCEPT ![s].pc = "write", ![s].root = Null, ![s].node = at.node]
  BY <1>1, <1>2 DEF GetNode, At
<1>4. UploadTyped(up) /\ up.path \in Path
  BY <1>1, <1>3 DEF Shape, Typed, UploadFits
<1>5. PICK mid : mid = [up EXCEPT !.pc = "write"]
  OBVIOUS
<1>6. PICK late : late = [mid EXCEPT !.root = Null]
  OBVIOUS
<1>7. PICK new : new = [late EXCEPT !.node = at.node]
  OBVIOUS
<1>8. mid = [pc |-> "write", then |-> up.then, n |-> up.n, path |-> up.path,
             root |-> up.root, node |-> up.node]
  BY <1>4, <1>5 DEF UploadTyped
<1>9. late = [pc |-> "write", then |-> up.then, n |-> up.n, path |-> up.path,
              root |-> Null, node |-> up.node]
  BY <1>6, <1>8
<1>10. new.pc = "write" /\ new.node = at.node /\ new.path = up.path
  BY <1>7, <1>9
<1>11. upload' = [upload EXCEPT ![s] = new]
  <2>1. upload = [w \in Session |-> upload[w]]
    BY DEF Shape, Typed
  <2> QED
    BY <1>1, <1>3, <1>5, <1>6, <1>7, <2>1
<1>12. upload'[s] = new /\ \A w \in Session : w # s => upload'[w] = upload[w]
  BY <1>11 DEF Shape, Typed
<1> QED
  BY <1>1, <1>2, <1>3, <1>4, <1>10, <1>12

(* in its own branch, where master and other branches are not touched,     *)
LEMMA GetNodeApart ==
  ASSUME Shape, Timely, Shape', Smooth, NEW s \in Session, GetNode(s), ~rough
  PROVE  /\ StepApart(s) /\ Smooth'
         /\ Makes(tree, [tree |-> tree', node |-> upload'[s].node])
         /\ Top(tree', upload'[s].node) = root[s] /\ root[s] # Null /\ s \in Unmerged
<1>1. PICK t : t = tree
  OBVIOUS
<1>2. PICK u : u = tree'
  OBVIOUS
<1>3. PICK path : path = upload[s].path
  OBVIOUS
<1>4. PICK r : r = root[s]
  OBVIOUS
<1>5. /\ upload[s].pc = "getNode" /\ path \in Path
  BY <1>3, GetNodeStep
<1>6. merge[s].pc = "idle" /\ r # Null /\ upload[s].root = r /\ Grown(t, r, Null)
  BY <1>1, <1>4, <1>5 DEF Smooth, Placed, InBranch, Merging, Timely, Timed
<1>7. PICK at : at = getNode(t, r, path)
  OBVIOUS
<1>8. /\ u = at.tree /\ master' = master /\ merge' = merge /\ root' = root
      /\ rough' = rough
      /\ upload'[s].pc = "write" /\ upload'[s].node = at.node
      /\ \A w \in Session : w # s => upload'[w] = upload[w]
  BY <1>1, <1>2, <1>3, <1>6, <1>7, GetNodeStep
<1>9. s \in Unmerged
  BY <1>4, <1>6 DEF Unmerged
<1>10. PICK rt, S : rt = root /\ S = Unmerged
  OBVIOUS
<1>11. IsTree(t) /\ Apart(t, rt, S) /\ s \in S /\ r = rt[s]
  BY <1>1, <1>4, <1>9, <1>10 DEF Shape
<1>12. /\ Grown(u, r, Null) /\ Top(u, at.node) = r
       /\ \A q \in Tops(t) : q # r => Untouched(t, u, q)
       /\ Makes(t, at)
  BY <1>5, <1>6, <1>7, <1>8, <1>11, getNodeGrown
<1>13. Stays(t, u)
  <2>1. r \in Tops(t) /\ IsKey(path)
    <3>1. PICK a, b : a = path[1] /\ b = path[2]
      OBVIOUS
    <3>2. path = <<a, b>>
      BY <1>5, <3>1, BranchAssumption DEF BranchAssumption
    <3> QED
      BY <1>6, <1>11, <3>2 DEF IsKey, Apart
  <2> QED
    BY <1>7, <1>8, <1>11, <2>1, getNodeFacts
<1>14. PICK m : m = MasterOf(t)
  OBVIOUS
<1>15. m \in Tops(t) /\ m # r
  BY <1>11, <1>14, MasterNoBranch DEF Roots
<1>16. MasterSame(t, u)
  <2>1. /\ MasterOf(u) = m /\ \A n \in DOMAIN t : u[n].value = t[n].value
    BY <1>8, <1>12, <1>14 DEF Makes
  <2> QED
    BY <1>11, <1>12, <1>14, <1>15, <2>1, LevelFacts DEF MasterSame
<1>17. \A w \in S \ {s} : Untouched(t, u, rt[w])
  <2>1. \A w \in S \ {s} : rt[w] \in Tops(t) /\ rt[w] # r
    BY <1>6, <1>11 DEF Apart
  <2> QED
    BY <1>12, <2>1
<1>18. OnlyOf(s)
  BY <1>8 DEF OnlyOf
<1>19. StepApart(s)
  BY <1>1, <1>2, <1>8, <1>10, <1>13, <1>16, <1>17, <1>18 DEF StepApart
<1>20. Placed(u, upload'[s], merge[s], r)
  BY <1>6, <1>8, <1>12 DEF Placed, InBranch, Merging
<1>21. Smooth'
  BY <1>2, <1>4, <1>8, <1>19, <1>20, ApartSmooth
<1>22. Makes(t, [tree |-> u, node |-> upload'[s].node])
  BY <1>8, <1>12 DEF Makes
<1> QED
  BY <1>1, <1>2, <1>4, <1>6, <1>8, <1>9, <1>12, <1>19, <1>21, <1>22

(* and Put gives it a value.                                               *)
LEMMA PutStep ==
  ASSUME Shape, Timely, Smooth, NEW s \in Session, Put(s), ~rough
  PROVE  /\ tree' = [tree EXCEPT ![upload[s].node].value = Upload(s)]
         /\ SameLinks(tree, tree')
         /\ \A n \in DOMAIN tree : n # upload[s].node => tree'[n].value = tree[n].value
         /\ tree'[upload[s].node].value = Upload(s)
         /\ upload[s].node \in Leaves(tree) /\ Top(tree, upload[s].node) = root[s]
         /\ Key(tree, upload[s].node) = upload[s].path
         /\ root[s] # Null /\ merge[s].pc = "idle" /\ s \in Unmerged
         /\ OnlyUpload(s) /\ upload'[s].pc = "idle" /\ root' = root /\ merge' = merge
         /\ master' = master /\ rough' = rough /\ closed' = Append(closed, Upload(s))
<1>1. /\ tree' = [tree EXCEPT ![upload[s].node].value = Upload(s)]
      /\ Over(s) /\ root' = root /\ merge' = merge /\ master' = master /\ rough' = rough
      /\ upload[s].pc = "put" /\ closed' = Append(closed, Upload(s))
  BY DEF Put, At
<1>2. OnlyUpload(s) /\ upload'[s].pc = "idle"
  BY <1>1, OverStep DEF Shape
<1>3. /\ upload[s].node \in Leaves(tree) /\ Key(tree, upload[s].node) = upload[s].path
      /\ IsTree(tree)
  BY <1>1 DEF Shape, UploadFits, Holds
<1>4. /\ Top(tree, upload[s].node) = root[s] /\ root[s] # Null /\ merge[s].pc = "idle"
  BY <1>1 DEF Smooth, Placed, InBranch, Holds, Timely, Timed
<1>5. s \in Unmerged
  BY <1>4 DEF Unmerged
<1>6. PICK t : t = tree
  OBVIOUS
<1>7. PICK n : n = upload[s].node
  OBVIOUS
<1>8. PICK v : v = Upload(s)
  OBVIOUS
<1>9. PICK u : u = [t EXCEPT ![n].value = v]
  OBVIOUS
<1>10. n \in DOMAIN t /\ \A m \in DOMAIN t : IsNode(t, m)
  BY <1>3, <1>6, <1>7 DEF IsTree, Numbered, Leaves
<1>11. t[n] = [title |-> t[n].title, parent |-> t[n].parent, locals |-> t[n].locals,
               value |-> t[n].value]
  BY <1>10 DEF IsNode
<1>12. PICK new : new = [t[n] EXCEPT !.value = v]
  OBVIOUS
<1>13. /\ new.title = t[n].title /\ new.parent = t[n].parent
       /\ new.locals = t[n].locals /\ new.value = v
  BY <1>11, <1>12
<1>14. u = [t EXCEPT ![n] = new]
  BY <1>9, <1>12
<1>15. /\ DOMAIN u = DOMAIN t /\ u[n] = new /\ \A m \in DOMAIN t : m # n => u[m] = t[m]
  BY <1>10, <1>14
<1>16. SameLinks(t, u)
  BY <1>13, <1>15 DEF SameLinks
<1>17. tree' = u
  BY <1>1, <1>6, <1>7, <1>8, <1>9
<1> QED
  BY <1>1, <1>2, <1>3, <1>4, <1>5, <1>6, <1>7, <1>8, <1>13, <1>15, <1>16, <1>17

(* which is a node of its own branch, too.                                 *)
LEMMA PutApart ==
  ASSUME Shape, Timely, Shape', Smooth, NEW s \in Session, Put(s), ~rough
  PROVE  StepApart(s) /\ Smooth'
<1>1. PICK t : t = tree
  OBVIOUS
<1>2. PICK u : u = tree'
  OBVIOUS
<1>3. PICK n : n = upload[s].node
  OBVIOUS
<1>4. /\ SameLinks(t, u) /\ \A m \in DOMAIN t : m # n => u[m].value = t[m].value
      /\ n \in Leaves(t) /\ Top(t, n) = root[s] /\ s \in Unmerged
      /\ OnlyUpload(s) /\ upload'[s].pc = "idle" /\ root' = root /\ merge' = merge
      /\ master' = master /\ rough' = rough
  BY <1>1, <1>2, <1>3, PutStep
<1>5. IsTree(t) /\ IsTree(u) /\ Apart(t, root, Unmerged)
  BY <1>1, <1>2 DEF Shape
<1>6. /\ Nodes(u) = Nodes(t) /\ Stays(t, u) /\ \A m \in Nodes(t) : Top(u, m) = Top(t, m)
  BY <1>4, <1>5, SameLinksFacts
<1>7. \A r : Untouched(t, u, r)
  BY <1>4, <1>5, <1>6, LevelFacts DEF Untouched, SameLinks
<1>8. MasterSame(t, u)
  <2>1. MasterOf(u) = MasterOf(t)
    BY <1>4, <1>5, LevelFacts DEF SameLinks, MasterOf
  <2>2. Top(t, n) # MasterOf(t)
    BY <1>4, <1>5, MasterNoBranch DEF Roots
  <2> QED
    BY <1>4, <1>5, <1>7, <2>1, <2>2, LevelFacts DEF MasterSame
<1>9. OnlyOf(s)
  BY <1>4 DEF OnlyOf, OnlyUpload
<1>10. StepApart(s)
  BY <1>1, <1>2, <1>4, <1>6, <1>7, <1>8, <1>9 DEF StepApart
<1>11. Placed(t, upload[s], merge[s], root[s]) /\ UploadFits(t, upload[s])
       /\ (upload[s].pc # "idle" => merge[s].pc = "idle")
  BY <1>1 DEF Smooth, Timely, Timed, Shape
<1>12. merge[s].pc = "idle" /\ root[s] \in Tops(t) /\ Linked(t, root[s])
  BY <1>4, <1>5, PutStep DEF Apart
<1>13. Kept(t, u, merge[s], root[s])
  BY <1>5, <1>6, <1>7, <1>8, <1>12 DEF Kept, Stays, MasterSame
<1>14. Placed(u, upload[s], merge[s], root[s])
  BY <1>11, <1>13, PlacedStays
<1>15. Placed(tree', upload'[s], merge'[s], root'[s])
  BY <1>2, <1>4, <1>14, OverPlaced
<1> QED
  BY <1>10, <1>15, ApartSmooth

-----------------------------------------------------------------------------
(* Locate finds the file of master that is to be replaced.                 *)
LEMMA LocateSmooth ==
  ASSUME Shape, Smooth, NEW s \in Session, Locate(s)
  PROVE  Smooth' /\ (~rough => tree' = tree)
<1>1. PICK me : me = merge[s]
  OBVIOUS
<1>2. PICK t : t = tree
  OBVIOUS
<1>3. PICK at : at = getNode(t, Master, me.path)
  OBVIOUS
<1>4. /\ tree' = at.tree /\ root' = root /\ upload' = upload /\ master' = Master
      /\ merge' = [merge EXCEPT ![s].pc = "replace", ![s].from = at.node]
      /\ rough' = rough /\ me.pc = "locate"
  BY <1>1, <1>2, <1>3 DEF Locate, MergeAt
<1>5. MergeTyped(me) /\ IsTree(t) /\ Apart(t, root, Unmerged)
      /\ MergeFits(t, me, root[s], Roots(root, Unmerged))
  BY <1>1, <1>2 DEF Shape, Typed
<1>6. CASE rough
  BY <1>4, <1>6 DEF Smooth
<1>7. CASE ~rough
  <2>1. PICK m : m = MasterOf(t)
    OBVIOUS
  <2>2. master = m /\ MasterWhole(t) /\ Placed(t, upload[s], me, root[s])
    BY <1>1, <1>2, <1>7, <2>1 DEF Smooth
  <2>3. /\ m \in Tops(t) /\ m # Null /\ Linked(t, m)
        /\ \A path \in Path : getNodeIfExist(t, m, path) # Null
    BY <1>5, <2>1, <2>2, MasterNoBranch DEF MasterWhole
  <2>4. Master = m
    BY <2>2, <2>3 DEF Master
  <2>5. /\ root[s] # Null /\ me.to \in Leaves(t) /\ Top(t, me.to) = root[s]
        /\ me.path = Key(t, me.to) /\ Grown(t, root[s], Null)
    BY <1>4, <1>5, <2>2 DEF Placed, Merging, MergeFits
  <2>6. me.path \in Path
    BY <2>5 DEF Grown, Nodes
  <2>7. PICK d, f : FoundAt(t, m, me.path, d, f)
    BY <1>5, <2>3, <2>6, FoundFacts
  <2>8. at = [tree |-> t, node |-> f]
    BY <1>3, <2>4, <2>6, <2>7, getNodeFound
  <2>9. tree' = t /\ at.node = f
    BY <1>4, <2>8
  <2>10. /\ f \in Leaves(t) /\ Top(t, f) = m /\ t[f].parent \in Locals(t, m)
    BY <2>7 DEF FoundAt
  <2>11. PICK new : new = [pc |-> "replace", to |-> me.to, path |-> me.path, from |-> f]
    OBVIOUS
  <2>12. merge' = [merge EXCEPT ![s] = new]
    <3>1. PICK mid : mid = [me EXCEPT !.pc = "replace"]
      OBVIOUS
    <3>2. mid = [pc |-> "replace", to |-> me.to, path |-> me.path, from |-> me.from]
      BY <1>5, <3>1 DEF MergeTyped
    <3>3. new = [mid EXCEPT !.from = at.node]
      BY <2>9, <2>11, <3>2
    <3>4. merge = [w \in Session |-> merge[w]]
      BY DEF Shape, Typed
    <3> QED
      BY <1>1, <1>4, <3>1, <3>3, <3>4
  <2>13. merge'[s] = new /\ \A w \in Session : w # s => merge'[w] = merge[w]
    BY <2>12 DEF Shape, Typed
  <2>14. Placed(t, upload'[s], merge'[s], root'[s])
    <3>1. /\ new.pc = "replace" /\ new.to = me.to /\ new.from = f
      BY <2>11
    <3>2. \A n \in Leaves(t) : Top(t, n) = root[s] => n = me.to
      BY <1>4, <2>2 DEF Placed, Merging
    <3>3. Merging(t, new, root[s])
      BY <2>1, <2>5, <2>10, <3>1, <3>2 DEF Merging
    <3> QED
      BY <1>4, <2>2, <2>13, <3>3 DEF Placed
  <2>15. OnlyOf(s)
    BY <1>4, <2>13 DEF OnlyOf
  <2> QED
    BY <1>2, <1>4, <2>2, <2>4, <2>9, <2>14, <2>15, QuietSmooth
<1> QED
  BY <1>6, <1>7

(* Replace takes the file of the branch there: of master, only that file   *)
(* is another one now.                                                     *)
LEMMA ReplaceStep ==
  ASSUME Shape, Shape', Timely, Smooth, NEW s \in Session, Replace(s), ~rough
  PROVE  /\ \E slot : Replaced(tree, tree', merge[s].from, merge[s].to, slot)
         /\ FileExchange(tree, merge[s].from, merge[s].to, root, Unmerged, s)
         /\ Key(tree, merge[s].to) = Key(tree, merge[s].from)
         /\ OnlyMerge(s) /\ merge[s].pc = "replace" /\ merge'[s].pc = "finish"
         /\ root' = root /\ upload' = upload /\ master' = master /\ rough' = rough
         /\ upload[s].pc = "idle" /\ s \in Unmerged
         /\ Placed(tree, upload[s], merge[s], root[s])
<1>1. PICK me : me = merge[s]
  OBVIOUS
<1>2. PICK t : t = tree
  OBVIOUS
<1>3. PICK rt, S : rt = root /\ S = Unmerged
  OBVIOUS
<1>4. /\ CanReplace(t, me.from) /\ tree' = replace(t, me.from, me.to)
      /\ master' = IF me.from = master THEN Null ELSE master
      /\ root' = root /\ upload' = upload /\ rough' = rough /\ MergeGoes(s, "finish")
      /\ me.pc = "replace"
  BY <1>1, <1>2 DEF Replace, MergeAt
<1>5. /\ IsTree(t) /\ Apart(t, rt, S) /\ MergeFits(t, me, rt[s], Roots(rt, S))
      /\ Placed(t, upload[s], me, rt[s]) /\ master = MasterOf(t)
      /\ (upload[s].pc # "idle" => me.pc = "idle")
  BY <1>1, <1>2, <1>3 DEF Shape, Smooth, Timely, Timed
<1>6. s \in S
  BY <1>1, <1>3, <1>4, <1>5 DEF Unmerged, MergeFits
<1>7. Exchanges(t, me.from, me.to, rt, S, s)
  BY <1>4, <1>5, <1>6 DEF Exchanges, MergeFits
<1>8. FileExchange(t, me.from, me.to, rt, S, s)
  BY <1>4, <1>5, <1>7 DEF FileExchange, Placed, Merging
<1>9. /\ me.from \in DOMAIN t /\ me.to \in DOMAIN t /\ t[me.from].parent \in DOMAIN t
      /\ t[me.from].parent # me.to
  BY <1>7, ExchangeFacts
<1>10. \E slot : Replaced(t, tree', me.from, me.to, slot)
  BY <1>4, <1>5, <1>9, ReplaceFacts DEF IsTree
<1>11. master' = master
  <2>1. me.from \notin Tops(t) /\ master \in Tops(t)
    BY <1>5, <1>8, LevelFacts, MasterNoBranch DEF FileExchange
  <2> QED
    BY <1>4, <2>1
<1>12. OnlyMerge(s) /\ merge'[s].pc = "finish"
  BY <1>4, MergeGoesStep DEF Shape
<1>13. Key(t, me.to) = Key(t, me.from)
  BY <1>7 DEF Exchanges
<1>14. upload[s].pc = "idle"
  BY <1>4, <1>5
<1> QED
  BY <1>1, <1>2, <1>3, <1>4, <1>5, <1>6, <1>8, <1>10, <1>11, <1>12, <1>13, <1>14

(* Every other session stays placed.                                       *)
LEMMA ReplaceSmooth ==
  ASSUME Shape, Shape', Timely, Smooth, NEW s \in Session, Replace(s)
  PROVE  Smooth'
<1>1. CASE rough
  BY <1>1 DEF Replace, Smooth
<1>2. CASE ~rough
  <2>1. PICK t : t = tree
    OBVIOUS
  <2>2. PICK u : u = tree'
    OBVIOUS
  <2>3. PICK from, to : from = merge[s].from /\ to = merge[s].to
    OBVIOUS
  <2>4. PICK rt, S : rt = root /\ S = Unmerged
    OBVIOUS
  <2>5. /\ FileExchange(t, from, to, rt, S, s)
        /\ OnlyMerge(s) /\ merge[s].pc = "replace" /\ merge'[s].pc = "finish"
        /\ root' = root /\ upload' = upload /\ master' = master /\ rough' = rough
        /\ upload[s].pc = "idle" /\ s \in Unmerged
    BY <1>2, <2>1, <2>3, <2>4, ReplaceStep
  <2>6. PICK slot : Replaced(t, u, from, to, slot)
    BY <1>2, <2>1, <2>2, <2>3, ReplaceStep
  <2>7. PICK m : m = MasterOf(t)
    OBVIOUS
  <2>8. IsTree(t) /\ IsTree(u) /\ MasterWhole(t) /\ master = m /\ Apart(t, rt, S)
    BY <1>2, <2>1, <2>2, <2>4, <2>7 DEF Shape, Smooth
  <2>9. /\ MasterWhole(u) /\ Locals(u, m) = Locals(t, m)
    BY <2>5, <2>6, <2>7, <2>8, FileExchangeWhole
  <2>10. /\ MasterOf(u) = m /\ Keeps(t, u) /\ Top(t, to) = rt[s] /\ m # rt[s]
         /\ m \notin Roots(rt, S)
         /\ \A n \in DOMAIN t : n # to => u[n].parent = t[n].parent
         /\ \A n \in Nodes(t) : n # to => Top(u, n) = Top(t, n)
    BY <2>5, <2>6, <2>7, <2>8, FileExchangeFacts
  <2>11. ASSUME NEW w \in Session, w # s
         PROVE  Placed(u, upload[w], merge[w], root[w])
    <3>1. PICK up, me, r : up = upload[w] /\ me = merge[w] /\ r = root[w]
      OBVIOUS
    <3>2. Placed(t, up, me, r) /\ UploadFits(t, up) /\ (up.pc # "idle" => me.pc = "idle")
      BY <1>2, <2>1, <3>1 DEF Smooth, Shape, Timely, Timed
    <3>3. r # Null /\ me.pc # "finish" => r \in Tops(t) /\ Linked(t, r) /\ Untouched(t, u, r)
      <4> SUFFICES ASSUME r # Null, me.pc # "finish"
                   PROVE  r \in Tops(t) /\ Linked(t, r) /\ Untouched(t, u, r)
        OBVIOUS
      <4>1. w \in S /\ r = rt[w]
        BY <2>4, <3>1 DEF Unmerged
      <4>2. r \in Tops(t) /\ Linked(t, r) /\ r # rt[s] /\ r # m
        BY <2>8, <2>10, <2>11, <4>1 DEF Apart, Roots
      <4> QED
        BY <2>5, <2>6, <2>7, <2>8, <4>2, FileExchangeUntouched
    <3>4. me.pc = "replace" => Top(u, me.from) = m /\ u[me.from].parent \in Locals(u, m)
      <4> SUFFICES ASSUME me.pc = "replace"
                   PROVE  Top(u, me.from) = m /\ u[me.from].parent \in Locals(u, m)
        OBVIOUS
      <4>1. /\ me.from \in Nodes(t) /\ Top(t, me.from) = m
            /\ t[me.from].parent \in Locals(t, m)
        BY <2>7, <3>2 DEF Placed, Merging, Nodes
      <4>2. me.from # to /\ me.from \in DOMAIN t
        BY <2>8, <2>10, <4>1, LevelFacts
      <4> QED
        BY <2>9, <2>10, <4>1, <4>2
    <3>5. Kept(t, u, me, r)
      BY <2>7, <2>8, <2>10, <3>3, <3>4 DEF Kept
    <3>6. Placed(u, up, me, r)
      BY <3>2, <3>5, PlacedStays
    <3> QED
      BY <3>1, <3>6
  <2>12. Placed(u, upload[s], merge'[s], root[s])
    <3>1. ~Holds(upload[s])
      BY <2>5 DEF Holds
    <3> QED
      BY <2>5, <3>1 DEF Placed, InBranch, Merging
  <2>13. \A w \in Session : Placed(tree', upload'[w], merge'[w], root'[w])
    BY <2>2, <2>5, <2>11, <2>12 DEF OnlyMerge
  <2> QED
    BY <2>2, <2>5, <2>8, <2>9, <2>10, <2>13 DEF Smooth
<1> QED
  BY <1>1, <1>2

-----------------------------------------------------------------------------
(* The invariant is inductive.                                             *)
LEMMA NextSmooth ==
  ASSUME Shape, Shape', Timely, Smooth, [Next]_vars
  PROVE  Smooth'
<1>1. CASE UNCHANGED vars
  BY <1>1 DEF vars, Smooth
<1>2. CASE CreateFtpTempDir
  BY <1>2 DEF CreateFtpTempDir, Smooth
<1>3. ASSUME NEW s \in Session, Begin(s) \/ Transfer(s) \/ Write(s) \/ Close(s) \/ Abort(s)
      PROVE  Smooth'
  <2>1. CASE GetRoot(s) /\ root[s] = Null
    BY <2>1, GetRootApart
  <2>2. CASE GetNode(s)
    <3>1. rough' = rough
      BY <2>2, GetNodeStep
    <3> QED
      BY <2>2, <3>1, GetNodeApart DEF Smooth
  <2>3. CASE Put(s)
    <3>1. rough' = rough
      BY <2>3 DEF Put
    <3> QED
      BY <2>3, <3>1, PutApart DEF Smooth
  <2> QED
    BY <1>3, <2>1, <2>2, <2>3, UploadSmooth DEF Transfer
<1>4. ASSUME NEW s \in Session, Fire(s) \/ Merge(s)
      PROVE  Smooth'
  BY <1>4, FireSmooth, FindSmooth, LocateSmooth, ReplaceSmooth, FinishSmooth DEF Merge
<1> QED
  BY <1>1, <1>2, <1>3, <1>4 DEF Next

(* So it holds in every state, Stored being whole.                         *)
LEMMA AlwaysSmooth ==
  Spec => []Smooth
<1>1. Init => Smooth
  <2> SUFFICES ASSUME Init
               PROVE  /\ master = MasterOf(tree) /\ MasterWhole(tree)
                      /\ \A s \in Session : Placed(tree, upload[s], merge[s], root[s])
    BY DEF Smooth
  <2>1. tree = Stored /\ master = 2
    BY DEF Init
  <2>2. ASSUME NEW s \in Session
        PROVE  Placed(tree, upload[s], merge[s], root[s])
    <3>1. upload[s].pc = "idle" /\ merge[s].pc = "idle" /\ root[s] = Null
      BY DEF Init
    <3> QED
      BY <3>1 DEF Placed, InBranch, Merging, Holds
  <2> QED
    BY <2>1, <2>2, StoredWhole
<1>2. Shape /\ Shape' /\ Timely /\ Smooth /\ [Next]_vars => Smooth'
  BY NextSmooth
<1> QED
  BY <1>1, <1>2, AlwaysShape, AlwaysTimely, PTL DEF Spec

(* A file of master is found, and getPath leads back to it, as long as     *)
(* every merge took one file and met no upload.                            *)
THEOREM AlwaysPathsLead == Spec => []PathsLead
<1>1. ASSUME Shape, Smooth
      PROVE  PathsLead
  <2> SUFFICES ASSUME ~rough, NEW path \in Path
               PROVE  LET file == getNodeIfExist(tree, Local(tree, 0, "master"), path)
                      IN  file # Null /\ getPath(tree, Local(tree, 0, "master"), file) = path
    BY DEF PathsLead
  <2>1. PICK m : m = MasterOf(tree)
    OBVIOUS
  <2>2. /\ IsTree(tree) /\ MasterWhole(tree) /\ Local(tree, 0, "master") = m
        /\ m \in Tops(tree) /\ Linked(tree, m)
        /\ getNodeIfExist(tree, m, path) # Null
    BY <1>1, <2>1, MasterLocal, MasterNoBranch DEF Shape, Smooth, MasterWhole
  <2>3. PICK d, f : FoundAt(tree, m, path, d, f)
    BY <2>2, FoundFacts
  <2>4. /\ getNodeIfExist(tree, m, path) = f /\ f \in Nodes(tree) /\ Top(tree, f) = m
        /\ Key(tree, f) = path /\ f # Null
    BY <2>3 DEF FoundAt, Nodes
  <2>5. getPath(tree, m, f) = path
    BY <2>2, <2>4, getPathFacts
  <2> QED
    BY <2>2, <2>4, <2>5
<1> QED
  BY <1>1, AlwaysShape, AlwaysSmooth, PTL

-----------------------------------------------------------------------------
(* What a path of master holds, in a tree t.                               *)
ContentOf(t, path) ==
    LET file == getNodeIfExist(t, MasterOf(t), path)
    IN  IF file = Null THEN Null ELSE t[file].value

(* That is what Content says.                                              *)
LEMMA ContentIs ==
  ASSUME IsTree(tree)
  PROVE  \A path \in Path : Content(path) = ContentOf(tree, path)
BY MasterLocal DEF Content, ContentOf

(* It is what it was, if master is untouched,                              *)
LEMMA SameContent ==
  ASSUME NEW t, NEW u, IsTree(t), IsTree(u), MasterSame(t, u), MasterWhole(t)
  PROVE  \A path \in Path : ContentOf(u, path) = ContentOf(t, path)
<1> SUFFICES ASSUME NEW path \in Path
             PROVE  ContentOf(u, path) = ContentOf(t, path)
  OBVIOUS
<1>1. PICK m : m = MasterOf(t)
  OBVIOUS
<1>2. PICK file : file = getNodeIfExist(t, m, path)
  OBVIOUS
<1>3. /\ MasterOf(u) = m /\ Untouched(t, u, m)
      /\ \A n \in Nodes(t) : Top(t, n) = m => u[n].value = t[n].value
  BY <1>1 DEF MasterSame
<1>4. getNodeIfExist(u, m, path) = file /\ file \in Nodes(t) /\ Top(t, file) = m
  BY <1>1, <1>2, <1>3, UntouchedWhole
<1> QED
  BY <1>1, <1>2, <1>3, <1>4 DEF ContentOf

(* and a merge changes it for the path of its file.                        *)
LEMMA MergedContent ==
  ASSUME NEW t, NEW u, NEW from, NEW to, NEW rt, NEW S, NEW s, NEW slot,
         FileExchange(t, from, to, rt, S, s), Replaced(t, u, from, to, slot), IsTree(u),
         MasterWhole(t)
  PROVE  \A path \in Path :
            ContentOf(u, path) = IF path = Key(t, from) THEN t[to].value ELSE ContentOf(t, path)
<1> SUFFICES ASSUME NEW path \in Path
             PROVE  ContentOf(u, path) =
                       IF path = Key(t, from) THEN t[to].value ELSE ContentOf(t, path)
  OBVIOUS
<1>1. PICK m : m = MasterOf(t)
  OBVIOUS
<1>2. IsTree(t) /\ MasterOf(u) = m /\ to \in Leaves(t)
  BY <1>1, FileExchangeFacts
<1>3. getNodeIfExist(u, m, path) =
         IF path = Key(t, from) THEN to ELSE getNodeIfExist(t, m, path)
  BY <1>1, FileExchangeWhole
<1>4. /\ m \in Tops(t) /\ Linked(t, m) /\ getNodeIfExist(t, m, path) # Null
  BY <1>1, <1>2 DEF MasterWhole, IsTree, Rooted
<1>5. PICK d, f : FoundAt(t, m, path, d, f)
  BY <1>2, <1>4, FoundFacts
<1>6. getNodeIfExist(t, m, path) = f /\ f \in DOMAIN t /\ f # Null
  BY <1>5 DEF FoundAt, Leaves
<1>7. to \in DOMAIN t /\ to # Null
  BY <1>2, LevelFacts DEF Leaves
<1>8. \A n \in DOMAIN t : u[n].value = t[n].value
  BY DEF Replaced
<1> QED
  BY <1>1, <1>2, <1>3, <1>6, <1>7, <1>8 DEF ContentOf

(* What was rough once stays so.                                           *)
LEMMA RoughStays ==
  ASSUME [Next]_vars, rough
  PROVE  rough'
<1>1. ASSUME NEW s \in Session, Transfer(s) \/ Merge(s)
      PROVE  rough'
  BY <1>1 DEF Transfer, Merge, NewTimer, Schedule, ScheduleThrows, GetRoot, ReturnRoot, GetNode,
              Put, PutThrows, Cancel, Find, Locate, Replace, ReplaceThrows, Finish
<1>2. ASSUME NEW s \in Session, Begin(s) \/ Write(s) \/ Close(s) \/ Abort(s)
      PROVE  rough'
  BY <1>2 DEF Begin, Write, Close, Abort
<1>3. ASSUME NEW s \in Session, Fire(s)
      PROVE  rough'
  <2>1. rough' = (rough \/ ~At(s, "idle") \/ Cardinality(FilesOf(s)) # 1)
    BY <1>3 DEF Fire
  <2> QED
    BY <2>1, Zenon
<1>4. UNCHANGED vars \/ CreateFtpTempDir => rough'
  BY DEF vars, CreateFtpTempDir
<1> QED
  BY <1>1, <1>2, <1>3, <1>4 DEF Next

(* What the session s merges is what master holds from then on, and no     *)
(* other step changes what master holds.                                   *)
MergesFile(s) ==
    /\ Replace(s)
    /\ \A path \in Path :
          ContentOf(tree', path) = IF path = Key(tree, merge[s].to) THEN tree[merge[s].to].value
                                   ELSE ContentOf(tree, path)

(* There are no more steps than these.                                     *)
LEMMA ContentStep ==
  ASSUME Shape, Shape', Timely, Smooth, [Next]_vars, ~rough'
  PROVE  \/ \A path \in Path : ContentOf(tree', path) = ContentOf(tree, path)
         \/ \E s \in Session : MergesFile(s)
<1>1. /\ ~rough /\ IsTree(tree) /\ IsTree(tree') /\ MasterWhole(tree)
  BY RoughStays DEF Shape, Smooth
<1>2. tree' = tree => \A path \in Path : ContentOf(tree', path) = ContentOf(tree, path)
  OBVIOUS
<1>3. UNCHANGED vars \/ CreateFtpTempDir => tree' = tree
  BY DEF vars, CreateFtpTempDir
<1>4. ASSUME NEW s \in Session, Begin(s) \/ Transfer(s) \/ Write(s) \/ Close(s) \/ Abort(s)
      PROVE  tree' = tree \/ StepApart(s)
  <2>1. CASE GetRoot(s)
    BY <2>1, GetRootApart DEF GetRoot
  <2>2. CASE GetNode(s)
    BY <1>1, <2>2, GetNodeApart
  <2>3. CASE Put(s)
    BY <1>1, <2>3, PutApart
  <2>4. CASE \/ NewTimer(s) \/ Schedule(s) \/ ScheduleThrows(s) \/ ReturnRoot(s)
             \/ PutThrows(s) \/ Begin(s) \/ Write(s) \/ Close(s) \/ Abort(s)
    BY <2>4 DEF NewTimer, Schedule, ScheduleThrows, ReturnRoot, PutThrows, Begin, Write, Close,
                Abort
  <2> QED
    BY <1>4, <2>1, <2>2, <2>3, <2>4 DEF Transfer
<1>5. ASSUME NEW s \in Session, StepApart(s)
      PROVE  \A path \in Path : ContentOf(tree', path) = ContentOf(tree, path)
  BY <1>1, <1>5, SameContent DEF StepApart
<1>6. ASSUME NEW s \in Session, Fire(s) \/ Merge(s)
      PROVE  tree' = tree \/ MergesFile(s)
  <2>1. CASE Locate(s)
    BY <1>1, <2>1, LocateSmooth
  <2>2. CASE Fire(s) \/ Cancel(s) \/ Find(s) \/ ReplaceThrows(s) \/ Finish(s)
    BY <2>2 DEF Fire, Cancel, Find, ReplaceThrows, Finish
  <2>3. CASE Replace(s)
    <3>1. PICK t, u, from, to : t = tree /\ u = tree' /\ from = merge[s].from /\ to = merge[s].to
      OBVIOUS
    <3>2. PICK rt, S : rt = root /\ S = Unmerged
      OBVIOUS
    <3>3. FileExchange(t, from, to, rt, S, s) /\ Key(t, to) = Key(t, from)
      BY <1>1, <2>3, <3>1, <3>2, ReplaceStep
    <3>4. PICK slot : Replaced(t, u, from, to, slot)
      BY <1>1, <2>3, <3>1, ReplaceStep
    <3>5. \A path \in Path :
             ContentOf(u, path) =
                IF path = Key(t, from) THEN t[to].value ELSE ContentOf(t, path)
      BY <1>1, <3>1, <3>3, <3>4, MergedContent
    <3> QED
      BY <2>3, <3>1, <3>3, <3>5 DEF MergesFile
  <2> QED
    BY <1>6, <2>1, <2>2, <2>3 DEF Merge
<1> QED
  BY <1>2, <1>3, <1>4, <1>5, <1>6 DEF Next

(* A merge, as long as every one takes one file and meets no upload, does  *)
(* not change any other file of master, and nothing else does.             *)
THEOREM MergesChangeOneFile == Spec => ChangesOneFile
<1>1. ASSUME Shape, Shape', Timely, Smooth, [Next]_vars, ~rough'
      PROVE  Cardinality({path \in Path : Content(path)' # Content(path)}) <= 1
  <2>1. PICK C : C = {path \in Path : Content(path)' # Content(path)}
    OBVIOUS
  <2>2. \A path \in Path : Content(path) = ContentOf(tree, path)
    BY <1>1, ContentIs DEF Shape
  <2>3. \A path \in Path : Content(path)' = ContentOf(tree', path)
    <3>1. IsTree(tree')
      BY <1>1 DEF Shape
    <3> QED
      BY <3>1, MasterLocal DEF Content, ContentOf
  <2>4. \E key : C \subseteq {key}
    <3>1. CASE \A path \in Path : ContentOf(tree', path) = ContentOf(tree, path)
      BY <2>1, <2>2, <2>3, <3>1
    <3>2. ASSUME NEW s \in Session, MergesFile(s)
          PROVE  \E key : C \subseteq {key}
      <4>1. PICK key : key = Key(tree, merge[s].to)
        OBVIOUS
      <4>2. \A path \in Path : path # key => ContentOf(tree', path) = ContentOf(tree, path)
        BY <3>2, <4>1 DEF MergesFile
      <4>3. C \subseteq {key}
        BY <2>1, <2>2, <2>3, <4>2
      <4> QED
        BY <4>3
    <3> QED
      BY <1>1, <3>1, <3>2, ContentStep
  <2>5. PICK key : C \subseteq {key}
    BY <2>4
  <2>6. IsFiniteSet({key}) /\ Cardinality({key}) = 1
    BY FS_Singleton
  <2>7. Cardinality(C) <= 1
    BY <2>5, <2>6, FS_Subset
  <2> QED
    BY <2>1, <2>7
<1>2. Shape /\ Shape' /\ Timely /\ Smooth /\ [Next]_vars =>
         [~rough' /\ tree' # tree =>
             Cardinality({path \in Path : Content(path)' # Content(path)}) <= 1]_vars
  BY <1>1
<1> QED
  BY <1>2, AlwaysShape, AlwaysTimely, AlwaysSmooth, PTL DEF Spec, ChangesOneFile

-----------------------------------------------------------------------------
(* The value of n is the last one the session s put for that path,         *)
LastPut(t, cl, s, n) ==
    \E j \in DOMAIN cl :
       /\ cl[j] = t[n].value /\ cl[j].by = s
       /\ \A i \in DOMAIN cl : cl[i].by = s /\ cl[i].path = Key(t, n) => i <= j

(* as it is in a branch that waits for its merge, but for a file that is   *)
(* uploaded.                                                               *)
ValuesLast(t, cl, up, me, r, s) ==
    r # Null /\ me.pc # "finish" =>
       \A n \in Leaves(t) : Top(t, n) = r =>
          \/ LastPut(t, cl, s, n)
          \/ t[n].value = Null /\ Holds(up) /\ up.node = n

(* A value of that path waits in the branch of r,                          *)
Waits(t, me, r, path) ==
    /\ r # Null /\ me.pc # "finish"
    /\ \E n \in Leaves(t) : Top(t, n) = r /\ Key(t, n) = path /\ t[n].value # Null

(* or the i-th reached master, if only to be overtaken there.              *)
Reaches(t, cl, i) ==
    \E j \in DOMAIN cl :
       cl[j] = ContentOf(t, cl[i].path) /\ (cl[j].by = cl[i].by => j >= i)

(* The values that are put.                                                *)
Puts == [path : Path, by : Session, n : Nat]

(* What was put was put for a path, by a session.                          *)
LEMMA PutsFacts ==
  ASSUME NEW cl \in Seq(Puts), NEW i \in DOMAIN cl
  PROVE  cl[i] \in Puts /\ cl[i].by \in Session /\ cl[i].path \in Path
<1>1. cl[i] \in Puts
  OBVIOUS
<1>2. PICK v \in Puts : v = cl[i]
  BY <1>1
<1>3. v.by \in Session /\ v.path \in Path
  BY DEF Puts
<1> QED
  BY <1>1, <1>2, <1>3

(* The invariant: a value that was put waits or reached master, and what   *)
(* waits is the last of its session.                                       *)
Arriving ==
    \/ rough
    \/ /\ closed \in Seq(Puts)
       /\ \A s \in Session :
             /\ ValuesLast(tree, closed, upload[s], merge[s], root[s], s)
             /\ Holds(upload[s]) => s \in temps
       /\ \A i \in DOMAIN closed :
             \/ Waits(tree, merge[closed[i].by], root[closed[i].by], closed[i].path)
             \/ Reaches(tree, closed, i)

(* A step from t to u that leaves the branch of r as it is, with the       *)
(* values, while the session s may put one more.                           *)
SameBranch(t, u, me, r) ==
    /\ IsTree(t) /\ IsTree(u) /\ Keeps(t, u)
    /\ r # Null /\ me.pc # "finish" =>
          /\ r \in Tops(t) /\ Untouched(t, u, r)
          /\ \A n \in Leaves(t) : Top(t, n) = r => u[n].value = t[n].value

(* To what was put, only values of the session s are added.                *)
Longer(cl, new, s) ==
    /\ DOMAIN cl \subseteq DOMAIN new /\ \A i \in DOMAIN cl : new[i] = cl[i]
    /\ \A i \in DOMAIN new : i \notin DOMAIN cl => new[i].by = s

(* What the branch of another session holds stays the last of it,          *)
LEMMA OtherLast ==
  ASSUME NEW t, NEW u, NEW cl, NEW new, NEW up, NEW me, NEW r, NEW w, NEW s,
         SameBranch(t, u, me, r), Longer(cl, new, s), w # s, ValuesLast(t, cl, up, me, r, w)
  PROVE  ValuesLast(u, new, up, me, r, w)
<1> SUFFICES ASSUME r # Null, me.pc # "finish", NEW n \in Leaves(u), Top(u, n) = r
             PROVE  \/ LastPut(u, new, w, n)
                    \/ u[n].value = Null /\ Holds(up) /\ up.node = n
  BY DEF ValuesLast
<1>1. /\ IsTree(t) /\ IsTree(u) /\ Keeps(t, u) /\ r \in Tops(t) /\ Untouched(t, u, r)
      /\ \A m \in Leaves(t) : Top(t, m) = r => u[m].value = t[m].value
  BY DEF SameBranch
<1>2. n \in Nodes(t) /\ Top(t, n) = r
  BY <1>1 DEF Untouched, Nodes
<1>3. n \in Leaves(t)
  BY <1>1, <1>2, LevelFacts DEF Keeps, Nodes
<1>4. u[n].value = t[n].value /\ Key(u, n) = Key(t, n)
  BY <1>1, <1>2, <1>3 DEF Keeps
<1>5. CASE LastPut(t, cl, w, n)
  <2>1. PICK j \in DOMAIN cl :
           /\ cl[j] = t[n].value /\ cl[j].by = w
           /\ \A i \in DOMAIN cl : cl[i].by = w /\ cl[i].path = Key(t, n) => i <= j
    BY <1>5 DEF LastPut
  <2>2. j \in DOMAIN new /\ new[j] = cl[j]
    BY DEF Longer
  <2>3. \A i \in DOMAIN new : new[i].by = w /\ new[i].path = Key(u, n) => i <= j
    BY <1>4, <2>1 DEF Longer
  <2> QED
    BY <1>4, <2>1, <2>2, <2>3 DEF LastPut
<1> QED
  BY <1>2, <1>3, <1>4, <1>5 DEF ValuesLast

(* and what waits there goes on waiting.                                   *)
LEMMA OtherWaits ==
  ASSUME NEW t, NEW u, NEW me, NEW r, NEW path, SameBranch(t, u, me, r), Waits(t, me, r, path)
  PROVE  Waits(u, me, r, path)
<1>1. r # Null /\ me.pc # "finish"
  BY DEF Waits
<1>2. PICK n \in Leaves(t) : Top(t, n) = r /\ Key(t, n) = path /\ t[n].value # Null
  BY DEF Waits
<1>3. /\ IsTree(t) /\ IsTree(u) /\ Keeps(t, u) /\ r \in Tops(t) /\ Untouched(t, u, r)
      /\ u[n].value = t[n].value
  BY <1>1, <1>2 DEF SameBranch
<1>4. Top(u, n) = r
  BY <1>2, <1>3, UntouchedTop
<1>5. n \in Leaves(u) /\ Key(u, n) = path
  BY <1>2, <1>3 DEF Keeps, Nodes
<1> QED
  BY <1>1, <1>2, <1>3, <1>4, <1>5 DEF Waits

(* A value that reached master stays there, unless master changes.         *)
LEMMA ReachesStays ==
  ASSUME NEW t, NEW u, NEW cl, NEW new, NEW s, NEW i \in DOMAIN cl, Longer(cl, new, s),
         ContentOf(u, cl[i].path) = ContentOf(t, cl[i].path), Reaches(t, cl, i)
  PROVE  Reaches(u, new, i)
<1>1. PICK j \in DOMAIN cl : cl[j] = ContentOf(t, cl[i].path) /\ (cl[j].by = cl[i].by => j >= i)
  BY DEF Reaches
<1>2. j \in DOMAIN new /\ new[j] = cl[j] /\ new[i] = cl[i]
  BY DEF Longer
<1> QED
  BY <1>1, <1>2 DEF Reaches

-----------------------------------------------------------------------------
(* Steps that change neither nodes nor what was put, but of a branch that  *)
(* is merged already.                                                      *)
LEMMA QuietArriving ==
  ASSUME Arriving, NEW s \in Session, OnlyOf(s), ~rough, tree' = tree, closed' = closed,
         temps \subseteq temps', Holds(upload'[s]) => s \in temps',
         \/ /\ root'[s] = root[s] /\ merge[s].pc # "finish" /\ merge'[s].pc # "finish"
            /\ Holds(upload[s]) => Holds(upload'[s]) /\ upload'[s].node = upload[s].node
         \/ root'[s] = Null /\ merge[s].pc = "finish"
  PROVE  Arriving'
<1>1. /\ closed \in Seq(Puts)
      /\ \A w \in Session : /\ ValuesLast(tree, closed, upload[w], merge[w], root[w], w)
                            /\ Holds(upload[w]) => w \in temps
      /\ \A i \in DOMAIN closed :
            \/ Waits(tree, merge[closed[i].by], root[closed[i].by], closed[i].path)
            \/ Reaches(tree, closed, i)
  BY DEF Arriving
<1>2. ASSUME NEW w \in Session
      PROVE  /\ ValuesLast(tree, closed, upload'[w], merge'[w], root'[w], w)
             /\ Holds(upload'[w]) => w \in temps'
  <2>1. CASE w = s
    BY <1>1, <2>1 DEF ValuesLast
  <2>2. CASE w # s
    BY <1>1, <2>2 DEF OnlyOf
  <2> QED
    BY <2>1, <2>2
<1>3. ASSUME NEW i \in DOMAIN closed
      PROVE  \/ Waits(tree, merge'[closed[i].by], root'[closed[i].by], closed[i].path)
             \/ Reaches(tree, closed, i)
  <2>1. closed[i].by \in Session
    BY <1>1, PutsFacts
  <2>2. CASE closed[i].by = s
    BY <1>1, <2>2 DEF Waits
  <2>3. CASE closed[i].by # s
    BY <1>1, <2>1, <2>3 DEF OnlyOf
  <2> QED
    BY <2>2, <2>3
<1> QED
  BY <1>1, <1>2, <1>3 DEF Arriving

(* Steps of an upload in its branch: what they change there is a value     *)
(* that is put.                                                            *)
LEMMA ApartArriving ==
  ASSUME Shape, Shape', Smooth, Arriving, NEW s \in Session, StepApart(s), ~rough,
         merge' = merge, root'[s] = root[s] \/ root[s] = Null,
         closed' \in Seq(Puts), Longer(closed, closed', s),
         temps \subseteq temps' \union {s}, Holds(upload'[s]) => s \in temps',
         \A n \in Leaves(tree) :
            \/ tree'[n].value = tree[n].value
            \/ s \in Unmerged /\ Top(tree, n) = root[s] /\ tree'[n].value # Null,
         ValuesLast(tree', closed', upload'[s], merge'[s], root'[s], s),
         \A i \in DOMAIN closed' : i \notin DOMAIN closed =>
            Waits(tree', merge[s], root'[s], closed'[i].path)
  PROVE  Arriving'
<1>1. PICK t : t = tree
  OBVIOUS
<1>2. PICK u : u = tree'
  OBVIOUS
<1>3. PICK cl, new : cl = closed /\ new = closed'
  OBVIOUS
<1>4. /\ cl \in Seq(Puts)
      /\ \A w \in Session : /\ ValuesLast(t, cl, upload[w], merge[w], root[w], w)
                            /\ Holds(upload[w]) => w \in temps
      /\ \A i \in DOMAIN cl :
            \/ Waits(t, merge[cl[i].by], root[cl[i].by], cl[i].path)
            \/ Reaches(t, cl, i)
  BY <1>1, <1>3 DEF Arriving
<1>5. /\ IsTree(t) /\ IsTree(u) /\ Stays(t, u) /\ Keeps(t, u) /\ MasterSame(t, u)
      /\ MasterWhole(t) /\ Apart(t, root, Unmerged) /\ OnlyOf(s)
  BY <1>1, <1>2 DEF StepApart, Shape, Stays, Smooth
<1>6. \A path \in Path : ContentOf(u, path) = ContentOf(t, path)
  BY <1>5, SameContent
<1>7. \A n \in Leaves(t) :
         \/ u[n].value = t[n].value
         \/ s \in Unmerged /\ Top(t, n) = root[s] /\ u[n].value # Null
  BY <1>1, <1>2
<1>8. ASSUME NEW w \in Session, w # s
      PROVE  SameBranch(t, u, merge[w], root[w])
  <2> SUFFICES ASSUME root[w] # Null, merge[w].pc # "finish"
               PROVE  /\ root[w] \in Tops(t) /\ Untouched(t, u, root[w])
                      /\ \A n \in Leaves(t) : Top(t, n) = root[w] => u[n].value = t[n].value
    BY <1>5 DEF SameBranch
  <2>1. w \in Unmerged
    BY DEF Unmerged
  <2>2. root[w] \in Tops(t) /\ Untouched(t, u, root[w])
    BY <1>1, <1>2, <1>5, <1>8, <2>1 DEF StepApart, Apart
  <2>3. root[w] # root[s]
    BY <1>5, <1>8 DEF Apart
  <2> QED
    BY <1>7, <2>2, <2>3
<1>9. ASSUME NEW w \in Session
      PROVE  /\ ValuesLast(u, new, upload'[w], merge'[w], root'[w], w)
             /\ Holds(upload'[w]) => w \in temps'
  <2>1. CASE w = s
    BY <1>2, <1>3, <2>1
  <2>2. CASE w # s
    <3>1. /\ upload'[w] = upload[w] /\ merge'[w] = merge[w] /\ root'[w] = root[w]
      BY <1>5, <2>2 DEF OnlyOf
    <3>2. Longer(cl, new, s) /\ SameBranch(t, u, merge[w], root[w])
      BY <1>3, <1>8, <2>2
    <3>3. ValuesLast(t, cl, upload[w], merge[w], root[w], w)
      BY <1>4
    <3>4. ValuesLast(u, new, upload[w], merge[w], root[w], w)
      BY <2>2, <3>2, <3>3, OtherLast
    <3> QED
      BY <1>4, <2>2, <3>1, <3>4
  <2> QED
    BY <2>1, <2>2
<1>10. ASSUME NEW i \in DOMAIN cl, NEW w, w = cl[i].by, Waits(t, merge[w], root[w], cl[i].path)
       PROVE  Waits(u, merge'[w], root'[w], cl[i].path)
  <2>1. w \in Session
    BY <1>4, <1>10, PutsFacts
  <2>2. CASE w # s
    <3>1. merge'[w] = merge[w] /\ root'[w] = root[w]
      BY <1>5, <2>1, <2>2 DEF OnlyOf
    <3> QED
      BY <1>8, <1>10, <2>1, <2>2, <3>1, OtherWaits
  <2>3. CASE w = s
    <3>1. root[s] # Null /\ merge[s].pc # "finish" /\ root'[s] = root[s]
      BY <1>10, <2>3 DEF Waits
    <3>2. PICK n \in Leaves(t) :
             Top(t, n) = root[s] /\ Key(t, n) = cl[i].path /\ t[n].value # Null
      BY <1>10, <2>3 DEF Waits
    <3>3. n \in Leaves(u) /\ Top(u, n) = root[s] /\ Key(u, n) = cl[i].path
      BY <1>5, <3>2 DEF Stays, Keeps, Nodes
    <3>4. u[n].value # Null
      BY <1>7, <3>2
    <3> QED
      BY <2>3, <3>1, <3>3, <3>4 DEF Waits
  <2> QED
    BY <2>2, <2>3
<1>11. ASSUME NEW i \in DOMAIN new
       PROVE  \/ Waits(u, merge'[new[i].by], root'[new[i].by], new[i].path)
              \/ Reaches(u, new, i)
  <2>1. CASE i \notin DOMAIN cl
    <3>1. new[i].by = s
      BY <1>3, <2>1 DEF Longer
    <3> QED
      BY <1>2, <1>3, <2>1, <3>1
  <2>2. CASE i \in DOMAIN cl
    <3>1. new[i] = cl[i] /\ Longer(cl, new, s)
      BY <1>3, <2>2 DEF Longer
    <3>2. CASE Waits(t, merge[cl[i].by], root[cl[i].by], cl[i].path)
      BY <1>10, <2>2, <3>1, <3>2
    <3>3. CASE Reaches(t, cl, i)
      <4>1. cl[i].path \in Path
        BY <1>4, <2>2, PutsFacts
      <4> QED
        BY <1>6, <2>2, <3>1, <3>3, <4>1, ReachesStays
    <3> QED
      BY <1>4, <2>2, <3>2, <3>3
  <2> QED
    BY <2>1, <2>2
<1> QED
  BY <1>2, <1>3, <1>9, <1>11 DEF Arriving

-----------------------------------------------------------------------------
(* The steps of an upload that change no node,                             *)
LEMMA UploadArriving ==
  ASSUME Shape, Timely, Arriving, NEW s \in Session, ~rough, ~rough',
         \/ NewTimer(s) \/ Schedule(s) \/ ScheduleThrows(s) \/ ReturnRoot(s) \/ PutThrows(s)
         \/ Begin(s) \/ Write(s) \/ Close(s) \/ Abort(s)
         \/ GetRoot(s) /\ root[s] # Null
  PROVE  Arriving'
<1>1. /\ UploadTyped(upload[s]) /\ Typed /\ UploadFits(tree, upload[s])
      /\ upload = [w \in Session |-> upload[w]]
      /\ (upload[s].pc # "idle" => merge[s].pc = "idle")
      /\ (upload[s].pc = "schedule" => timer[s] = "new")
  BY DEF Shape, Typed, Timely, Timed
<1>2. Holds(upload[s]) => s \in temps
  BY DEF Arriving
<1>3. ASSUME OnlyOf(s), Holds(upload'[s]) => Holds(upload[s]),
             Holds(upload[s]) => Holds(upload'[s]) /\ upload'[s].node = upload[s].node,
             tree' = tree, merge' = merge, root' = root, closed' = closed, temps' = temps,
             merge[s].pc = "idle"
      PROVE  Arriving'
  BY <1>2, <1>3, QuietArriving
<1>4. CASE NewTimer(s)
  <2>1. /\ OnlyUpload(s) /\ upload'[s].pc = "schedule" /\ upload[s].pc = "newTimer"
        /\ upload'[s].then = upload[s].then /\ upload'[s].node = upload[s].node
    BY <1>1, <1>4, GoStep DEF NewTimer, At
  <2>2. /\ tree' = tree /\ merge' = merge /\ root' = root /\ closed' = closed /\ temps' = temps
    BY <1>4 DEF NewTimer
  <2>3. (Holds(upload'[s]) <=> Holds(upload[s])) /\ OnlyOf(s)
    BY <2>1, <2>2 DEF Holds, OnlyOf, OnlyUpload
  <2> QED
    BY <1>1, <1>3, <2>1, <2>2, <2>3
<1>5. CASE Schedule(s)
  <2>1. upload[s].then \in {"returnRoot", "write", "put"} /\ upload[s].pc = "schedule"
    BY <1>1, <1>5 DEF Schedule, At, UploadFits, UploadTyped
  <2>2. /\ OnlyUpload(s) /\ upload'[s].pc = upload[s].then
        /\ upload'[s].then = upload[s].then /\ upload'[s].node = upload[s].node
    BY <1>1, <1>5, <2>1, GoStep DEF Schedule
  <2>3. tree' = tree /\ merge' = merge /\ root' = root /\ closed' = closed /\ temps' = temps
    BY <1>5 DEF Schedule
  <2>4. (Holds(upload'[s]) <=> Holds(upload[s])) /\ OnlyOf(s)
    BY <2>1, <2>2, <2>3 DEF Holds, OnlyOf, OnlyUpload
  <2> QED
    BY <1>1, <1>3, <2>1, <2>2, <2>3, <2>4
<1>6. CASE ScheduleThrows(s)
  BY <1>1, <1>6 DEF ScheduleThrows, At
<1>7. CASE PutThrows(s)
  <2>1. Holds(upload[s])
    BY <1>7 DEF PutThrows, At, Holds
  <2> QED
    BY <1>2, <1>7, <2>1 DEF PutThrows
<1>8. CASE Abort(s)
  BY <1>8 DEF Abort
<1>9. CASE ReturnRoot(s)
  <2>1. /\ tree' = tree /\ merge' = merge /\ root' = root /\ closed' = closed /\ temps' = temps
        /\ upload[s].pc = "returnRoot"
    BY <1>9 DEF ReturnRoot, At
  <2>2. /\ \A w \in Session : w # s => upload'[w] = upload[w]
        /\ upload'[s].pc \in {"idle", "getNode"}
    <3>1. CASE root[s] = Null
      BY <1>1, <1>9, <3>1, OverStep DEF ReturnRoot, OnlyUpload
    <3>2. CASE root[s] # Null
      BY <1>1, <1>9, <3>2 DEF ReturnRoot, UploadTyped
    <3> QED
      BY <3>1, <3>2
  <2>3. ~Holds(upload[s]) /\ ~Holds(upload'[s]) /\ OnlyOf(s)
    BY <2>1, <2>2 DEF Holds, OnlyOf
  <2> QED
    BY <1>1, <1>3, <2>1, <2>3
<1>10. CASE Begin(s)
  <2>1. /\ tree' = tree /\ merge' = merge /\ root' = root /\ closed' = closed /\ temps' = temps
        /\ upload[s].pc = "idle" /\ merge[s].pc = "idle"
    BY <1>10 DEF Begin, At, MergeAt
  <2>2. PICK path : upload' = [upload EXCEPT ![s].pc = "getRoot", ![s].path = path, ![s].n = @ + 1]
    BY <1>10 DEF Begin
  <2>3. upload'[s].pc = "getRoot" /\ \A w \in Session : w # s => upload'[w] = upload[w]
    BY <1>1, <2>2 DEF UploadTyped
  <2>4. ~Holds(upload[s]) /\ ~Holds(upload'[s]) /\ OnlyOf(s)
    BY <2>1, <2>3 DEF Holds, OnlyOf
  <2> QED
    BY <1>3, <2>1, <2>4
<1>11. CASE Write(s) \/ Close(s)
  <2>1. /\ tree' = tree /\ merge' = merge /\ root' = root /\ closed' = closed /\ temps' = temps
        /\ upload[s].pc = "write"
    BY <1>11 DEF Write, Close, At
  <2>2. /\ OnlyUpload(s) /\ upload'[s].pc = "newTimer" /\ upload'[s].node = upload[s].node
        /\ upload'[s].then \in {"write", "put"}
    BY <1>1, <1>11, ThenStep DEF Write, Close
  <2>3. Holds(upload[s]) /\ Holds(upload'[s]) /\ OnlyOf(s)
    BY <2>1, <2>2 DEF Holds, OnlyOf, OnlyUpload
  <2> QED
    BY <1>1, <1>3, <2>1, <2>2, <2>3
<1>12. CASE GetRoot(s) /\ root[s] # Null
  <2>1. /\ tree' = tree /\ merge' = merge /\ root' = root /\ closed' = closed /\ temps' = temps
        /\ upload[s].pc = "getRoot"
    BY <1>12 DEF GetRoot, At
  <2>2. OnlyUpload(s) /\ upload'[s].pc = "returnRoot" /\ upload'[s].node = upload[s].node
    BY <1>1, <1>12, GoStep DEF GetRoot
  <2>3. ~Holds(upload[s]) /\ ~Holds(upload'[s]) /\ OnlyOf(s)
    BY <2>1, <2>2 DEF Holds, OnlyOf, OnlyUpload
  <2> QED
    BY <1>1, <1>3, <2>1, <2>3
<1> QED
  BY <1>4, <1>5, <1>6, <1>7, <1>8, <1>9, <1>10, <1>11, <1>12

(* and those of a merge.                                                   *)
LEMMA MergeArriving ==
  ASSUME Shape, Timely, Smooth, Arriving, NEW s \in Session, ~rough, ~rough',
         Fire(s) \/ Cancel(s) \/ Find(s) \/ Locate(s) \/ ReplaceThrows(s) \/ Finish(s)
  PROVE  Arriving'
<1>1. /\ MergeTyped(merge[s]) /\ Typed /\ (upload[s].pc # "idle" => merge[s].pc = "idle")
  BY DEF Shape, Typed, Timely, Timed
<1>2. Holds(upload[s]) => s \in temps
  BY DEF Arriving
<1>3. ASSUME OnlyOf(s), tree' = tree, upload' = upload, closed' = closed, temps' = temps,
             \/ root' = root /\ merge[s].pc # "finish" /\ merge'[s].pc # "finish"
             \/ root'[s] = Null /\ merge[s].pc = "finish"
      PROVE  Arriving'
  BY <1>2, <1>3, QuietArriving
<1>4. CASE Fire(s) \/ Cancel(s)
  <2>1. PICK pc \in {"cancel", "find"} : MergeGoes(s, pc)
    BY <1>4 DEF Fire, Cancel
  <2>2. OnlyMerge(s) /\ merge'[s].pc = pc
    BY <1>1, <2>1, MergeGoesStep
  <2>3. /\ tree' = tree /\ upload' = upload /\ root' = root /\ closed' = closed /\ temps' = temps
        /\ merge[s].pc \in {"idle", "cancel"}
    BY <1>4 DEF Fire, Cancel, MergeAt
  <2>4. OnlyOf(s)
    BY <2>2, <2>3 DEF OnlyOf, OnlyMerge
  <2> QED
    BY <1>3, <2>2, <2>3, <2>4
<1>5. CASE Find(s)
  <2>1. /\ OnlyMerge(s) /\ merge[s].pc = "find" /\ merge'[s].pc \in {"idle", "locate"}
    BY <1>5, FindStep
  <2>2. /\ tree' = tree /\ upload' = upload /\ root' = root /\ closed' = closed /\ temps' = temps
    BY <1>5 DEF Find
  <2>3. OnlyOf(s)
    BY <2>1, <2>2 DEF OnlyOf, OnlyMerge
  <2> QED
    BY <1>3, <2>1, <2>2, <2>3
<1>6. CASE Locate(s)
  <2>1. tree' = tree
    BY <1>6, LocateSmooth
  <2>2. /\ upload' = upload /\ root' = root /\ closed' = closed /\ temps' = temps
        /\ merge[s].pc = "locate"
    BY <1>6 DEF Locate, MergeAt
  <2>3. PICK node : merge' = [merge EXCEPT ![s].pc = "replace", ![s].from = node]
    BY <1>6 DEF Locate
  <2>4. /\ merge'[s].pc = "replace" /\ \A w \in Session : w # s => merge'[w] = merge[w]
    BY <1>1, <2>3 DEF Typed, MergeTyped
  <2>5. OnlyOf(s)
    BY <2>2, <2>4 DEF OnlyOf
  <2> QED
    BY <1>3, <2>1, <2>2, <2>4, <2>5
<1>7. CASE ReplaceThrows(s)
  BY <1>7 DEF ReplaceThrows
<1>8. CASE Finish(s)
  <2>1. OnlyMerge(s) /\ merge[s].pc = "finish"
    BY <1>1, <1>8, MergeEndsStep DEF Finish, MergeAt
  <2>2. /\ tree' = tree /\ upload' = upload /\ closed' = closed /\ temps' = temps
        /\ root'[s] = Null /\ \A w \in Session : w # s => root'[w] = root[w]
    BY <1>8 DEF Finish, Shape, Typed
  <2>3. OnlyOf(s)
    BY <2>1, <2>2 DEF OnlyOf, OnlyMerge
  <2> QED
    BY <1>3, <2>1, <2>2, <2>3
<1> QED
  BY <1>4, <1>5, <1>6, <1>7, <1>8

(* A root that is made has no files,                                       *)
LEMMA GetRootArriving ==
  ASSUME Shape, Shape', Timely, Smooth, Arriving, NEW s \in Session, ~rough,
         GetRoot(s), root[s] = Null
  PROVE  Arriving'
<1>1. PICK t : t = tree
  OBVIOUS
<1>2. PICK u : u = tree'
  OBVIOUS
<1>3. PICK k : k = NewNode(t)
  OBVIOUS
<1>4. /\ u = AddLocal(t, 1, k, Null) /\ root' = [root EXCEPT ![s] = k]
      /\ upload' = [upload EXCEPT ![s].pc = "newTimer", ![s].then = "returnRoot"]
      /\ merge' = merge /\ closed' = closed /\ temps' = temps
  BY <1>1, <1>2, <1>3 DEF GetRoot
<1>5. IsTree(t) /\ IsTree(u) /\ 1 \in DOMAIN t
  BY <1>1, <1>2, LevelFacts DEF Shape
<1>6. Added(t, u, 1, k, k, Null)
  BY <1>3, <1>4, <1>5, AddLocalFacts DEF IsTree
<1>7. /\ upload'[s].pc = "newTimer" /\ upload'[s].then = "returnRoot" /\ root'[s] = k
  BY <1>4, ThenStep DEF Shape, Typed
<1>8. StepApart(s) /\ ~Holds(upload'[s])
  BY <1>7, GetRootApart DEF Holds
<1>9. \A n \in Leaves(u) : Top(u, n) # k
  <2>1. Nodes(u) = Nodes(t) \union {k} /\ k \in Tops(u) /\ Stays(t, u)
    BY <1>5, <1>6, AddedTop, AddedStays, NodeFacts
  <2>2. \A n \in Leaves(u) : n \in Nodes(t) /\ Top(t, n) = Top(u, n)
    BY <1>5, <2>1, LevelFacts DEF Stays, Nodes
  <2>3. k \notin Tops(t)
    BY <1>6 DEF Added, Tops
  <2> QED
    BY <1>5, <2>2, <2>3, NodeFacts
<1>10. ValuesLast(u, closed, upload'[s], merge[s], k, s)
  BY <1>9 DEF ValuesLast
<1>11. \A n \in Leaves(t) : u[n].value = t[n].value
  BY <1>5, <1>6, LevelFacts DEF Added, Nodes
<1>12. Longer(closed, closed, s) /\ closed \in Seq(Puts)
  BY DEF Longer, Arriving
<1> QED
  BY <1>1, <1>2, <1>4, <1>7, <1>8, <1>10, <1>11, <1>12, ApartArriving

(* a file that is made has no value, and a file that is found has the last *)
(* one of the session,                                                     *)
LEMMA GetNodeArriving ==
  ASSUME Shape, Shape', Timely, Smooth, Arriving, NEW s \in Session, ~rough, GetNode(s)
  PROVE  Arriving'
<1>1. PICK t, u : t = tree /\ u = tree'
  OBVIOUS
<1>2. PICK r, n : r = root[s] /\ n = upload'[s].node
  OBVIOUS
<1>3. PICK d : d = [tree |-> u, node |-> n]
  OBVIOUS
<1>4. /\ merge' = merge /\ root' = root /\ closed' = closed /\ temps' = temps \union {s}
      /\ upload[s].pc = "getNode" /\ upload'[s].pc = "write"
  BY GetNodeStep
<1>5. StepApart(s) /\ Makes(t, d)
  BY <1>1, <1>2, <1>3, GetNodeApart
<1>6. IsTree(t) /\ IsTree(u) /\ Stays(t, u)
  BY <1>1, <1>5 DEF Shape, StepApart
<1>7. /\ \A m \in DOMAIN t : u[m].value = t[m].value
      /\ \A m \in Leaves(u) : m \in Leaves(t) \/ (m = n /\ u[m].value = Null)
  BY <1>3, <1>5 DEF Makes
<1>8. ~Holds(upload[s]) /\ Holds(upload'[s])
  BY <1>4 DEF Holds
<1>9. PICK cl : cl = closed
  OBVIOUS
<1>10. cl \in Seq(Puts) /\ ValuesLast(t, cl, upload[s], merge[s], r, s)
  BY <1>1, <1>2, <1>9 DEF Arriving
<1>11. ValuesLast(u, cl, upload'[s], merge[s], r, s)
  <2> SUFFICES ASSUME r # Null, merge[s].pc # "finish", NEW m \in Leaves(u), Top(u, m) = r
               PROVE  \/ LastPut(u, cl, s, m)
                      \/ u[m].value = Null /\ Holds(upload'[s]) /\ upload'[s].node = m
    BY DEF ValuesLast
  <2>1. CASE m = n /\ u[m].value = Null
    BY <1>2, <1>8, <2>1
  <2>2. CASE m \in Leaves(t)
    <3>1. m \in Nodes(t) /\ Top(t, m) = r /\ Key(u, m) = Key(t, m) /\ m \in DOMAIN t
      BY <1>6, <2>2, LevelFacts DEF Stays, Keeps, Nodes
    <3>2. LastPut(t, cl, s, m)
      BY <1>8, <1>10, <2>2, <3>1 DEF ValuesLast
    <3> QED
      BY <1>7, <3>1, <3>2 DEF LastPut
  <2> QED
    BY <1>7, <2>1, <2>2
<1>12. \A m \in Leaves(t) : u[m].value = t[m].value
  BY <1>7 DEF Leaves
<1>13. Longer(closed, closed, s)
  BY DEF Longer
<1> QED
  BY <1>1, <1>2, <1>4, <1>5, <1>8, <1>9, <1>10, <1>11, <1>12, <1>13, ApartArriving

(* What is put last in a branch is the last of its path.                   *)
Putting(t, u, cl, s, n, v, r) ==
    /\ IsTree(t) /\ IsTree(u) /\ SameLinks(t, u)
    /\ r \in Tops(t) /\ Linked(t, r) /\ Grown(t, r, Null)
    /\ n \in Leaves(t) /\ Top(t, n) = r /\ u[n].value = v
    /\ \A m \in DOMAIN t : m # n => u[m].value = t[m].value
    /\ v \in Puts /\ v.by = s /\ v.path = Key(t, n) /\ cl \in Seq(Puts)
    /\ \A m \in Leaves(t) : Top(t, m) = r /\ m # n => LastPut(t, cl, s, m)

(* The other files of the branch have other paths, so theirs stay the last.*)
LEMMA PutLast ==
  ASSUME NEW t, NEW u, NEW cl, NEW s, NEW n, NEW v, NEW r, Putting(t, u, cl, s, n, v, r)
  PROVE  /\ Longer(cl, Append(cl, v), s)
         /\ \A m \in Leaves(u) : Top(u, m) = r => LastPut(u, Append(cl, v), s, m)
<1>1. /\ IsTree(t) /\ IsTree(u) /\ SameLinks(t, u)
      /\ r \in Tops(t) /\ Linked(t, r) /\ Grown(t, r, Null)
      /\ n \in Leaves(t) /\ Top(t, n) = r /\ u[n].value = v
      /\ \A m \in DOMAIN t : m # n => u[m].value = t[m].value
      /\ v \in Puts /\ v.by = s /\ v.path = Key(t, n) /\ cl \in Seq(Puts)
      /\ \A m \in Leaves(t) : Top(t, m) = r /\ m # n => LastPut(t, cl, s, m)
  BY DEF Putting
<1>2. PICK new : new = Append(cl, v)
  OBVIOUS
<1>3. /\ DOMAIN cl = 1..Len(cl) /\ DOMAIN new = 1..(Len(cl) + 1) /\ Len(cl) \in Nat
      /\ \A i \in DOMAIN cl : new[i] = cl[i]
      /\ new[Len(cl) + 1] = v
  BY <1>1, <1>2
<1>4. \A i \in DOMAIN new : i \in DOMAIN cl \/ new[i] = v
  BY <1>3
<1>5. Longer(cl, new, s)
  BY <1>1, <1>3, <1>4 DEF Longer
<1>6. ASSUME NEW m \in Leaves(u), Top(u, m) = r
      PROVE  LastPut(u, new, s, m)
  <2>1. m \in Leaves(t) /\ Top(t, m) = r /\ Key(u, m) = Key(t, m) /\ m \in DOMAIN t
    BY <1>1, <1>6, SameLinksFacts, LevelFacts DEF Nodes
  <2>2. CASE m = n
    <3>1. \A i \in DOMAIN new : i <= Len(cl) + 1
      BY <1>3
    <3>2. Len(cl) + 1 \in DOMAIN new
      BY <1>3
    <3> QED
      BY <1>1, <1>3, <2>2, <3>1, <3>2 DEF LastPut
  <2>3. CASE m # n
    <3>1. Key(t, m) # Key(t, n)
      BY <1>1, <2>1, <2>3, GrownFound
    <3>2. PICK j \in DOMAIN cl :
             /\ cl[j] = t[m].value /\ cl[j].by = s
             /\ \A i \in DOMAIN cl : cl[i].by = s /\ cl[i].path = Key(t, m) => i <= j
      BY <1>1, <2>1, <2>3 DEF LastPut
    <3>3. j \in DOMAIN new /\ new[j] = cl[j]
      BY <1>3
    <3>4. \A i \in DOMAIN new : new[i].by = s /\ new[i].path = Key(u, m) => i <= j
      BY <1>1, <1>3, <1>4, <2>1, <3>1, <3>2
    <3>5. u[m].value = t[m].value
      BY <1>1, <2>1, <2>3
    <3> QED
      BY <3>2, <3>3, <3>4, <3>5 DEF LastPut
  <2> QED
    BY <2>2, <2>3
<1> QED
  BY <1>2, <1>5, <1>6

(* So it is of what close puts.                                            *)
LEMMA PutArriving ==
  ASSUME Shape, Shape', Timely, Smooth, Arriving, NEW s \in Session, ~rough, Put(s)
  PROVE  Arriving'
<1>1. PICK t, u : t = tree /\ u = tree'
  OBVIOUS
<1>2. PICK r, n : r = root[s] /\ n = upload[s].node
  OBVIOUS
<1>3. PICK v : v = Upload(s)
  OBVIOUS
<1>4. PICK cl, new : cl = closed /\ new = closed'
  OBVIOUS
<1>5. /\ SameLinks(t, u) /\ \A m \in DOMAIN t : m # n => u[m].value = t[m].value
      /\ u[n].value = v /\ n \in Leaves(t) /\ Top(t, n) = r /\ Key(t, n) = upload[s].path
      /\ r # Null /\ merge[s].pc = "idle" /\ s \in Unmerged
      /\ upload'[s].pc = "idle" /\ root' = root /\ merge' = merge /\ new = Append(cl, v)
  BY <1>1, <1>2, <1>3, <1>4, PutStep
<1>6. StepApart(s)
  BY PutApart
<1>7. upload[s].pc = "put" /\ temps' = temps \ {s}
  BY DEF Put, At
<1>8. v \in Puts /\ v.by = s /\ v.path = Key(t, n) /\ v # Null
  <2>1. PICK up : up = upload[s]
    OBVIOUS
  <2>2. up.path \in Path /\ up.n \in Nat
    BY <1>7, <2>1 DEF Shape, Typed, UploadFits, UploadTyped
  <2>3. v = [path |-> up.path, by |-> s, n |-> up.n]
    BY <1>3, <2>1 DEF Upload
  <2>4. v \in Puts
    BY <2>2, <2>3 DEF Puts
  <2> QED
    BY <1>5, <2>1, <2>3, <2>4, BranchAssumption DEF BranchAssumption, Puts
<1>9. IsTree(t) /\ IsTree(u) /\ r \in Tops(t) /\ Linked(t, r) /\ Grown(t, r, Null)
  <2>1. Shape /\ IsTree(tree) /\ IsTree(tree') /\ Apart(tree, root, Unmerged)
    BY DEF Shape
  <2>2. Grown(t, r, Null)
    BY <1>1, <1>2, <1>5 DEF Smooth, Placed, Merging
  <2> QED
    BY <1>1, <1>2, <1>5, <2>1, <2>2 DEF Apart
<1>10. cl \in Seq(Puts) /\ ValuesLast(t, cl, upload[s], merge[s], r, s)
  BY <1>1, <1>2, <1>4 DEF Arriving
<1>11. \A m \in Leaves(t) : Top(t, m) = r /\ m # n => LastPut(t, cl, s, m)
  BY <1>2, <1>5, <1>10 DEF ValuesLast
<1>12. Putting(t, u, cl, s, n, v, r)
  BY <1>5, <1>8, <1>9, <1>10, <1>11 DEF Putting
<1>13. /\ Longer(cl, new, s)
       /\ \A m \in Leaves(u) : Top(u, m) = r => LastPut(u, new, s, m)
  BY <1>5, <1>12, PutLast
<1>14. ValuesLast(u, new, upload'[s], merge'[s], root'[s], s)
  BY <1>2, <1>5, <1>13 DEF ValuesLast
<1>15. new \in Seq(Puts)
  BY <1>5, <1>8, <1>10
<1>16. ASSUME NEW i \in DOMAIN new, i \notin DOMAIN cl
       PROVE  Waits(u, merge[s], root'[s], new[i].path)
  <2>1. new[i] = v
    BY <1>5, <1>8, <1>10, <1>16
  <2>2. n \in Leaves(u) /\ Top(u, n) = r /\ Key(u, n) = Key(t, n)
    BY <1>5, <1>9, SameLinksFacts DEF Nodes
  <2> QED
    BY <1>2, <1>5, <1>8, <2>1, <2>2 DEF Waits
<1>17. ~Holds(upload'[s])
  BY <1>5 DEF Holds
<1>18. \A m \in Leaves(t) :
          \/ u[m].value = t[m].value
          \/ s \in Unmerged /\ Top(t, m) = r /\ u[m].value # Null
  BY <1>5, <1>8 DEF Leaves
<1> QED
  BY <1>1, <1>2, <1>4, <1>5, <1>6, <1>7, <1>13, <1>14, <1>15, <1>16, <1>17, <1>18, ApartArriving

(* A merge takes the only file of a branch to master: the last that was    *)
(* put for its path in that session.                                       *)
LEMMA ReplaceArriving ==
  ASSUME Shape, Shape', Timely, Smooth, Arriving, NEW s \in Session, ~rough, Replace(s)
  PROVE  Arriving'
<1>1. PICK t, u : t = tree /\ u = tree'
  OBVIOUS
<1>2. PICK from, to : from = merge[s].from /\ to = merge[s].to
  OBVIOUS
<1>3. PICK rt, S : rt = root /\ S = Unmerged
  OBVIOUS
<1>4. PICK cl : cl = closed
  OBVIOUS
<1>5. /\ FileExchange(t, from, to, rt, S, s) /\ Key(t, to) = Key(t, from)
      /\ OnlyMerge(s) /\ merge[s].pc = "replace" /\ merge'[s].pc = "finish"
      /\ root' = root /\ upload' = upload
      /\ upload[s].pc = "idle" /\ s \in Unmerged /\ Placed(t, upload[s], merge[s], root[s])
  BY <1>1, <1>2, <1>3, ReplaceStep
<1>6. PICK slot : Replaced(t, u, from, to, slot)
  BY <1>1, <1>2, ReplaceStep
<1>7. closed' = cl /\ temps' = temps
  BY <1>4 DEF Replace
<1>8. IsTree(t) /\ IsTree(u) /\ Apart(t, rt, S) /\ MasterWhole(t)
  BY <1>1, <1>3 DEF Shape, Smooth
<1>9. /\ Keeps(t, u) /\ MasterOf(t) \notin Roots(rt, S) /\ Top(t, to) = rt[s]
      /\ \A n \in DOMAIN t : u[n].value = t[n].value
  <2>1. \A n \in DOMAIN t : u[n].value = t[n].value
    BY <1>6 DEF Replaced
  <2> QED
    BY <1>5, <1>6, <1>8, <2>1, FileExchangeFacts
<1>10. \A path \in Path :
          ContentOf(u, path) = IF path = Key(t, to) THEN t[to].value ELSE ContentOf(t, path)
  BY <1>5, <1>6, <1>8, MergedContent
<1>11. /\ cl \in Seq(Puts)
       /\ \A w \in Session : /\ ValuesLast(t, cl, upload[w], merge[w], root[w], w)
                             /\ Holds(upload[w]) => w \in temps
       /\ \A i \in DOMAIN cl :
             \/ Waits(t, merge[cl[i].by], root[cl[i].by], cl[i].path)
             \/ Reaches(t, cl, i)
  BY <1>1, <1>4 DEF Arriving
<1>12. Longer(cl, cl, s)
  BY DEF Longer
<1>13. ASSUME NEW w \in Session, w # s
       PROVE  SameBranch(t, u, merge[w], root[w])
  <2> SUFFICES ASSUME root[w] # Null, merge[w].pc # "finish"
               PROVE  /\ root[w] \in Tops(t) /\ Untouched(t, u, root[w])
                      /\ \A n \in Leaves(t) : Top(t, n) = root[w] => u[n].value = t[n].value
    BY <1>8, <1>9 DEF SameBranch
  <2>1. w \in S /\ s \in S
    BY <1>3, <1>5 DEF Unmerged
  <2>2. rt[w] # rt[s] /\ rt[w] # MasterOf(t) /\ rt[w] \in Tops(t)
    BY <1>8, <1>9, <1>13, <2>1 DEF Apart, Roots
  <2>3. Untouched(t, u, rt[w])
    BY <1>5, <1>6, <1>8, <2>2, FileExchangeUntouched
  <2> QED
    BY <1>3, <1>9, <2>2, <2>3 DEF Leaves
<1>14. ASSUME NEW w \in Session
       PROVE  /\ ValuesLast(u, cl, upload[w], merge'[w], root[w], w)
              /\ Holds(upload[w]) => w \in temps
  <2>1. CASE w = s
    BY <1>5, <1>11, <2>1 DEF ValuesLast
  <2>2. CASE w # s
    <3>1. merge'[w] = merge[w] /\ SameBranch(t, u, merge[w], root[w])
      BY <1>5, <1>13, <2>2 DEF OnlyMerge
    <3>2. ValuesLast(t, cl, upload[w], merge[w], root[w], w)
      BY <1>11
    <3>3. ValuesLast(u, cl, upload[w], merge[w], root[w], w)
      BY <1>12, <2>2, <3>1, <3>2, OtherLast
    <3> QED
      BY <1>11, <3>1, <3>3
  <2> QED
    BY <2>1, <2>2
<1>15. /\ to \in Leaves(t) /\ rt[s] # Null
       /\ \A n \in Leaves(t) : Top(t, n) = rt[s] => n = to
  BY <1>2, <1>3, <1>5 DEF Placed, Merging
<1>16. LastPut(t, cl, s, to)
  <2>1. ~Holds(upload[s])
    BY <1>5 DEF Holds
  <2>2. ValuesLast(t, cl, upload[s], merge[s], rt[s], s)
    BY <1>3, <1>11
  <2> QED
    BY <1>5, <1>9, <1>15, <2>1, <2>2 DEF ValuesLast
<1>17. PICK j \in DOMAIN cl :
          /\ cl[j] = t[to].value /\ cl[j].by = s
          /\ \A i \in DOMAIN cl : cl[i].by = s /\ cl[i].path = Key(t, to) => i <= j
  BY <1>16 DEF LastPut
<1>18. ASSUME NEW i \in DOMAIN cl
       PROVE  \/ Waits(u, merge'[cl[i].by], root[cl[i].by], cl[i].path)
              \/ Reaches(u, cl, i)
  <2>1. PICK w, path : w = cl[i].by /\ path = cl[i].path
    OBVIOUS
  <2>2. w \in Session /\ path \in Path
    BY <1>11, <2>1, PutsFacts
  <2>3. CASE path = Key(t, to)
    <3>1. cl[j] = ContentOf(u, path)
      BY <1>10, <1>17, <2>2, <2>3
    <3>2. i \in Nat /\ j \in Nat
      BY <1>11
    <3>3. cl[j].by = cl[i].by => j >= i
      BY <1>17, <2>1, <2>3, <3>2
    <3> QED
      BY <2>1, <3>1, <3>3 DEF Reaches
  <2>4. CASE path # Key(t, to)
    <3>1. CASE Reaches(t, cl, i)
      BY <1>10, <1>12, <2>1, <2>2, <2>4, <3>1, ReachesStays
    <3>2. CASE Waits(t, merge[w], root[w], path)
      <4>1. w # s
        BY <1>3, <1>15, <2>4, <3>2 DEF Waits
      <4>2. merge'[w] = merge[w]
        BY <1>5, <2>2, <4>1 DEF OnlyMerge
      <4>3. Waits(u, merge[w], root[w], path)
        BY <1>13, <2>2, <3>2, <4>1, OtherWaits
      <4> QED
        BY <2>1, <4>2, <4>3
    <3> QED
      BY <1>11, <2>1, <3>1, <3>2
  <2> QED
    BY <2>3, <2>4
<1> QED
  BY <1>1, <1>4, <1>5, <1>7, <1>11, <1>14, <1>18 DEF Arriving

-----------------------------------------------------------------------------
(* The invariant is inductive.                                             *)
LEMMA NextArriving ==
  ASSUME Shape, Shape', Timely, Smooth, Arriving, [Next]_vars
  PROVE  Arriving'
<1> SUFFICES ASSUME ~rough'
             PROVE  Arriving'
  BY DEF Arriving
<1>1. ~rough
  BY RoughStays
<1>2. CASE UNCHANGED vars
  BY <1>2 DEF vars, Arriving
<1>3. CASE CreateFtpTempDir
  BY <1>3 DEF CreateFtpTempDir
<1>4. ASSUME NEW s \in Session, Begin(s) \/ Transfer(s) \/ Write(s) \/ Close(s) \/ Abort(s)
      PROVE  Arriving'
  BY <1>1, <1>4, GetRootArriving, GetNodeArriving, PutArriving, UploadArriving DEF Transfer
<1>5. ASSUME NEW s \in Session, Fire(s) \/ Merge(s)
      PROVE  Arriving'
  BY <1>1, <1>5, ReplaceArriving, MergeArriving DEF Merge
<1> QED
  BY <1>2, <1>3, <1>4, <1>5 DEF Next

(* So it holds in every state: at first nothing was put.                   *)
LEMMA AlwaysArriving ==
  Spec => []Arriving
<1>1. Init => Arriving
  <2> SUFFICES ASSUME Init
               PROVE  Arriving
    OBVIOUS
  <2>1. closed = <<>> /\ closed \in Seq(Puts) /\ DOMAIN closed = {}
    BY DEF Init
  <2>2. \A s \in Session : root[s] = Null /\ ~Holds(upload[s])
    BY DEF Init, Holds
  <2> QED
    BY <2>1, <2>2 DEF Arriving, ValuesLast
<1>2. Shape /\ Shape' /\ Timely /\ Smooth /\ Arriving /\ [Next]_vars => Arriving'
  BY NextArriving
<1> QED
  BY <1>1, <1>2, AlwaysShape, AlwaysTimely, AlwaysSmooth, PTL DEF Spec

(* What was uploaded and closed is in master when its session is quiet, or *)
(* a later value of that session, or one of another session, as long as    *)
(* every merge took one file and met no upload.                            *)
THEOREM UploadsArrive == Spec => []ClosedArrives
<1>1. ASSUME Shape, Timely, Arriving
      PROVE  ClosedArrives
  <2> SUFFICES ASSUME ~rough, NEW i \in DOMAIN closed, Quiet(closed[i].by)
               PROVE  Arrived(i)
    BY DEF ClosedArrives
  <2>1. /\ closed \in Seq(Puts)
        /\ \/ Waits(tree, merge[closed[i].by], root[closed[i].by], closed[i].path)
           \/ Reaches(tree, closed, i)
    BY <1>1 DEF Arriving
  <2>2. closed[i].by \in Session /\ closed[i].path \in Path
    BY <2>1, PutsFacts
  <2>3. PICK w \in Session : w = closed[i].by
    BY <2>2
  <2>4. root[w] = Null
    BY <1>1, <2>3 DEF Timely, Timed, Quiet, At, MergeAt
  <2>5. Reaches(tree, closed, i)
    BY <2>1, <2>3, <2>4 DEF Waits
  <2>6. Content(closed[i].path) = ContentOf(tree, closed[i].path)
    BY <1>1, <2>2, ContentIs DEF Shape
  <2> QED
    BY <2>5, <2>6 DEF Arrived, Reaches
<1> QED
  BY <1>1, AlwaysShape, AlwaysTimely, AlwaysArriving, PTL
=============================================================================
