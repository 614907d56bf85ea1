------------------------------- MODULE Files --------------------------------
(***************************************************************************)
(* org.pdk.files.Files: paths in a tree of nodes, as operators on the tree. *)
(*                                                                          *)
(* A tree is a function of the nodes made so far, 0, 1, 2, ..., of which 0  *)
(* is the root of the storage.  Of a node it keeps the title, the local     *)
(* parent, the locals and the value; a path is the sequence of its names.   *)
(* The parser of a file follows its title and is left out.                  *)
(***************************************************************************)
EXTENDS Integers, Sequences, FiniteSets, SequencesExt

CONSTANT Null  \* Java's null

Node(title, parent, value) ==
    [title |-> title, parent |-> parent, locals |-> <<>>, value |-> value]

NewNode(tree) == Cardinality(DOMAIN tree)

(* create, setTitle and addLocal, which sets the local parent.              *)
AddLocal(tree, parent, title, value) ==
    [n \in DOMAIN tree \union {NewNode(tree)} |->
        IF n = NewNode(tree) THEN Node(title, parent, value)
        ELSE IF n = parent THEN [tree[n] EXCEPT !.locals = Append(@, NewNode(tree))]
        ELSE tree[n]]

(* The first local of that title, or null.                                  *)
Local(tree, node, title) ==
    LET locals == tree[node].locals
        named  == {i \in DOMAIN locals : tree[locals[i]].title = title}
    IN  IF named = {} THEN Null
        ELSE locals[CHOOSE i \in named : \A j \in named : i <= j]

(* getNodeIfExist: the node at a path, or null.                             *)
getNodeIfExist(tree, root, path) ==
    LET Found[i \in 0..Len(path)] ==
            IF i = 0 THEN root
            ELSE LET node == Found[i - 1]
                 IN  IF node = Null THEN Null ELSE Local(tree, node, path[i])
    IN  Found[Len(path)]

(* getNode: the same, but the nodes that are missing are made.  With the    *)
(* tree, for it may have changed.                                           *)
getNode(tree, root, path) ==
    LET Found[i \in 0..Len(path)] ==
            IF i = 0 THEN [tree |-> tree, node |-> root]
            ELSE LET at    == Found[i - 1]
                     local == Local(at.tree, at.node, path[i])
                 IN  IF local # Null THEN [at EXCEPT !.node = local]
                     ELSE [tree |-> AddLocal(at.tree, at.node, path[i], Null),
                           node |-> NewNode(at.tree)]
    IN  Found[Len(path)]

(* getPath: the titles from below the root down to the file.                *)
getPath(tree, root, file) ==
    LET Titles[n \in DOMAIN tree] ==
            IF tree[n].parent = Null \/ n = root THEN <<>>
            ELSE Append(Titles[tree[n].parent], tree[n].title)
    IN  Titles[file]

(* replace finds the slot of a node in the locals of its parent; when the   *)
(* parent does not list it, indexOf is -1 and ArrayList.set throws.         *)
CanReplace(tree, from) ==
    /\ tree[from].parent # Null
    /\ Contains(tree[tree[from].parent].locals, from)

(* A mutant of replace: the slot is the first one.                          *)
replaceFirst(tree, from, to) ==
    LET parent == tree[from].parent
        first  == tree[parent].locals[1]
    IN  [tree EXCEPT ![parent].locals = [@ EXCEPT ![1] = to],
                     ![to].parent = parent,
                     ![to].title = tree[first].title]

(* A mutant of replace: the local parent is not set.                        *)
replaceUnlinked(tree, from, to) ==
    LET parent == tree[from].parent
        slot   == CHOOSE i \in DOMAIN tree[parent].locals : tree[parent].locals[i] = from
    IN  [tree EXCEPT ![parent].locals = [@ EXCEPT ![slot] = to],
                     ![to].title = tree[from].title]

(* replace: to takes the slot and the title of from; from keeps its own     *)
(* links, and so does to in the list it was in before.                      *)
replace(tree, from, to) ==
    LET parent == tree[from].parent
        slot   == CHOOSE i \in DOMAIN tree[parent].locals : tree[parent].locals[i] = from
    IN  [tree EXCEPT ![parent].locals = [@ EXCEPT ![slot] = to],
                     ![to].parent = parent,
                     ![to].title = tree[from].title]
=============================================================================
