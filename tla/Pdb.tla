-------------------------------- MODULE Pdb --------------------------------
(***************************************************************************)
(* The parameter database (pdb.c, pdb_types.c, list.c, hash.c) and the     *)
(* queries the configuration manager makes of it.  Nodes live on the heap; *)
(* a tree, list or hash node holds its children, a string its value, a     *)
(* link the address of another node.  A tree is taken for the dictionary   *)
(* that PdbTree shows it to be while no node with two subtrees is deleted. *)
(*                                                                         *)
(* The code runs a call to its end before the next, so a call is one step. *)
(* The loader reads its file token by token.                               *)
(***************************************************************************)
EXTENDS Naturals, Sequences, SequencesExt, FiniteSets

CONSTANTS NodeAddr,         \* where malloc can put a node
          Null,          \* the null pointer
          Ids,          \* the names in paths
          Values,       \* the strings that leaves hold
          Kinds,        \* the node types in use, among Containers and leaf types
          MaxDepth      \* bound: how deep paths go

Containers == Kinds \cap {"tree", "list", "hash"}

ASSUME PdbAssumption == /\ NodeAddr \subseteq Nat
                        /\ Null \notin NodeAddr \cup Values
                        /\ {"tree", "string"} \subseteq Kinds
                        /\ Kinds \subseteq {"tree", "list", "hash", "string", "link"}
                        /\ MaxDepth \in Nat \ {0}

VARIABLES db,       \* the root node, Null when nothing is loaded
          node,     \* the nodes on the heap
          stack,    \* the blocks that the loader is in, the root first
          fate      \* "ok", or what went wrong: "crash", "wild", "hang", "leak"

pdbVars == <<db, node, stack, fate>>

NewNode(type, id, parent, data) ==
  [type |-> type, id |-> id, parent |-> parent, data |-> data, kids |-> << >>, table |-> TRUE]
Free == NewNode("free", Null, Null, Null)

Used == {a \in NodeAddr : node[a] # Free}

\* Memory for a node: the first that is free, for nothing depends on which.
Malloc == {a \in NodeAddr \ Used : \A b \in NodeAddr \ Used : a <= b}
Paths == UNION {[1..n -> Ids] : n \in 0..MaxDepth}

PdbTypeOK == /\ db \in NodeAddr \cup {Null}
             /\ \A a \in Used : /\ node[a].type \in Kinds
                                /\ node[a].id \in Ids \cup {Null}
                                /\ node[a].parent \in NodeAddr \cup {Null}
                                /\ node[a].data \in Values \cup NodeAddr \cup {Null}
                                /\ node[a].kids \in Seq(NodeAddr)
                                /\ ~node[a].table => node[a].type = "hash" /\ node[a].kids = << >>
             /\ stack \in Seq(NodeAddr)
             /\ fate \in {"ok", "crash", "wild", "hang", "leak"}

PdbInit == /\ db = Null
           /\ node = [a \in NodeAddr |-> Free]
           /\ stack = << >>
           /\ fate = "ok"

-----------------------------------------------------------------------------
(* Queries                                                                 *)

\* query_cb of a container: the first child of that name.
Called(n, i, id) == node[node[n].kids[i]].id = id
FirstCalled(n, id) == CHOOSE i \in DOMAIN node[n].kids :
                  Called(n, i, id) /\ \A j \in 1 .. i - 1 : ~Called(n, j, id)
Child(n, id) == IF \A i \in DOMAIN node[n].kids : ~Called(n, i, id) THEN Null
                ELSE node[n].kids[FirstCalled(n, id)]

\* Which nodes can be asked: a string has no query_cb, the one of a link hands
\* out what its target holds as if that were a node, and a hash that never got
\* its table (see LoadUnsized) is looked up in a null pointer.
Answers(n) == n.type \in Containers /\ n.table
Fault(n) == IF n.type \in {"free", "link"} THEN "wild" ELSE "crash"

\* One round of pdb_query_node's loop.
Step(at, id) ==
  IF at.fate # "ok" \/ at.node = Null THEN at
  ELSE IF Answers(node[at.node]) THEN [at EXCEPT !.node = Child(at.node, id)]
  ELSE [at EXCEPT !.fate = Fault(node[at.node])]

Walk(path) ==
  IF db = Null THEN [node |-> Null, fate |-> "ok"]
  ELSE LET at[i \in 0..Len(path)] ==
             IF i = 0 THEN [node |-> db, fate |-> IF db \in Used THEN "ok" ELSE "wild"]
             ELSE Step(at[i - 1], path[i])
       IN  at[Len(path)]

Ready == fate = "ok" /\ stack = << >>
Fails(f) == fate' = f /\ UNCHANGED <<db, node, stack>>

\* pdb_query, and GetStr of the configuration manager.
Query(path) == Ready /\ Walk(path).fate # "ok" /\ Fails(Walk(path).fate)

\* GetListRootNode takes whatever the path leads to for a list.
ListRoot(path) ==
  /\ Ready
  /\ LET w == Walk(path)
     IN  \/ w.fate # "ok" /\ Fails(w.fate)
         \/ /\ w.fate = "ok" /\ w.node # Null
            /\ node[w.node].type # "list" /\ node[w.node].table
            /\ ~(node[w.node].type = "string" /\ node[w.node].data = Null)
            /\ Fails("wild")

-----------------------------------------------------------------------------
(* Creation                                                                *)

\* add_child_cb: a tree refuses a name twice, a list and a hash append.
Refused(p, id) == node[p].type = "tree" /\ Child(p, id) # Null

Created(a, new) ==
  [n \in NodeAddr |-> IF n = a THEN new
                  ELSE IF n = new.parent THEN [node[n] EXCEPT !.kids = Append(@, a)]
                  ELSE node[n]]

\* pdb_load: the root is a tree.  Without a file the database is empty.
Open(a, file) == /\ Ready /\ db = Null
                 /\ db' = a
                 /\ node' = [node EXCEPT ![a] = NewNode("tree", Null, Null, Null)]
                 /\ stack' = IF file THEN <<a>> ELSE << >>
                 /\ UNCHANGED fate

Loading == fate = "ok" /\ stack # << >>

\* A name with a value.  What the tree refuses is dropped without a word.
LoadLeaf(id, v, a) ==
  /\ Loading
  /\ node' = IF Refused(Last(stack), id) THEN node
             ELSE Created(a, NewNode("string", id, Last(stack), v))
  /\ UNCHANGED <<db, stack, fate>>

\* A name that opens a block.  What the tree refuses is loaded into NULL.
LoadBlock(type, id, a) ==
  /\ Loading
  /\ Len(stack) < MaxDepth
  /\ IF Refused(Last(stack), id) THEN Fails("crash")
     ELSE /\ node' = Created(a, NewNode(type, id, Last(stack), Null))
          /\ stack' = Append(stack, a)
          /\ UNCHANGED <<db, fate>>

\* A hash whose text does not begin with its size: it is in the database but
\* has no table, and every block that is open ends, so that the rest of the file
\* is not read; pdb_load does not look at the result.  At the end of the file the
\* size is whatever the memory of an uninitialised variable held.
LoadUnsized(id, a) ==
  /\ Loading
  /\ "hash" \in Kinds
  /\ Len(stack) < MaxDepth
  /\ \/ /\ node' = IF Refused(Last(stack), id) THEN node
                   ELSE Created(a, [NewNode("hash", id, Last(stack), Null) EXCEPT !.table = FALSE])
        /\ stack' = << >>
        /\ UNCHANGED <<db, fate>>
     \/ Fails("wild")

\* A closing token ends the innermost block, also one of another kind; one
\* that nothing opened ends the root, and with it the load.
LoadClose == /\ Loading
             /\ stack' = Front(stack)
             /\ UNCHANGED <<db, node, fate>>

\* The end of the file ends every block that is open.
LoadEnd == /\ Loading
           /\ stack' = << >>
           /\ UNCHANGED <<db, node, fate>>

-----------------------------------------------------------------------------
(* Changes                                                                 *)

\* set_cb of the type asked for, applied to a node of the type it has.  Trees
\* and lists have none; setting a hash gives it a new, empty table.
Overwrite(n, type, v) ==
  CASE type \in {"tree", "list"}                       -> UNCHANGED <<node, fate>>
    [] type = node[n].type /\ type = "string"
         -> node' = [node EXCEPT ![n].data = v] /\ UNCHANGED fate
    [] type = node[n].type /\ type = "hash"
         -> IF node[n].kids = << >> THEN node' = [node EXCEPT ![n].table = TRUE] /\ UNCHANGED fate
            ELSE fate' = "leak" /\ UNCHANGED node
    [] type # node[n].type /\ type \in {"string", "hash"}
         -> fate' = "wild" /\ UNCHANGED node

\* pdb_set_node; a tree is also created this way.
Set(path, key, type, v, a) ==
  /\ Ready
  /\ type # "link"
  /\ Len(path) < MaxDepth
  /\ LET w == Walk(path)
     IN  /\ w.node # Null
         /\ IF w.fate # "ok" THEN Fails(w.fate)
            ELSE IF node[w.node].type = "string" THEN Fails("crash")
            ELSE IF node[w.node].type = "link" THEN Fails("wild")
            ELSE IF ~node[w.node].table THEN Fails("crash")
            ELSE /\ IF Child(w.node, key) # Null
                    THEN Overwrite(Child(w.node, key), type, v)
                    ELSE /\ node' = Created(a, NewNode(type, key, w.node,
                                                    IF type = "string" THEN v ELSE Null))
                         /\ UNCHANGED fate
                 /\ UNCHANGED <<db, stack>>

\* pdb_create_link: the parent is asked to add the link.  A leaf cannot, a tree
\* may refuse; a list takes a second child of the name.
Link(path, key, target, a) ==
  /\ Ready
  /\ "link" \in Kinds
  /\ Len(path) < MaxDepth
  /\ LET w == Walk(path)
     IN  /\ w.node # Null
         /\ IF w.fate # "ok" THEN Fails(w.fate)
            ELSE IF ~node[w.node].table THEN Fails("crash")
            ELSE /\ node[w.node].type \in Containers
                 /\ ~Refused(w.node, key)
                 /\ node' = Created(a, NewNode("link", key, w.node, target))
                 /\ UNCHANGED <<db, stack, fate>>

\* mutant: a container is freed without what it holds.
Whole_NodeOnly == [n \in Used |-> {n}]

\* The node and all that its containers hold, links not followed: the least set
\* with the node that has of each of its nodes the children.
Whole == LET closed == {part \in SUBSET Used : \A n \in part : ToSet(node[n].kids) \subseteq part}
         IN  [n \in Used |-> {m \in Used : \A part \in closed : n \in part => m \in part}]

\* mutant: the parent lets its first child go.
Without_First(dead, p, id) ==
  [a \in NodeAddr |-> IF a \in dead THEN Free
                  ELSE IF a = p THEN [node[a] EXCEPT !.kids = Tail(@)]
                  ELSE node[a]]

\* The nodes dead are freed, and p lets the child id go.
Without(dead, p, id) ==
  [a \in NodeAddr |-> IF a \in dead THEN Free
                  ELSE IF a = p THEN [node[a] EXCEPT !.kids = RemoveAt(@, FirstCalled(p, id))]
                  ELSE node[a]]

\* pdb_del: the node is freed with all that it holds, and taken out of its
\* parent.  A list looks for it by looking at its first node over and over.
\* The root has no parent; the database keeps pointing to it.  hash_free of a
\* table that was never made ends the process.
Del(path) ==
  /\ Ready
  /\ LET w == Walk(path)
     IN  /\ w.node # Null
         /\ IF w.fate # "ok" THEN Fails(w.fate)
            ELSE LET p == node[w.node].parent
                 IN  IF \E n \in Whole[w.node] : ~node[n].table THEN Fails("crash")
                     ELSE IF p # Null /\ node[p].type = "list" /\ node[p].kids[1] # w.node
                     THEN Fails("hang")
                     ELSE /\ node' = Without(Whole[w.node], p, node[w.node].id)
                          /\ UNCHANGED <<db, stack, fate>>

\* pdb_unload.
Unload == /\ Ready /\ db # Null
          /\ IF db \notin Used THEN Fails("wild")
             ELSE IF \E n \in Whole[db] : ~node[n].table THEN Fails("crash")
             ELSE /\ node' = Without(Whole[db], Null, Null)
                  /\ db' = Null
                  /\ UNCHANGED <<stack, fate>>

-----------------------------------------------------------------------------
PdbNext == \/ \E a \in Malloc :
                \/ \E file \in BOOLEAN : Open(a, file)
                \/ \E id \in Ids, v \in Values \cup {Null} : LoadLeaf(id, v, a)
                \/ \E id \in Ids, type \in Containers : LoadBlock(type, id, a)
                \/ \E id \in Ids : LoadUnsized(id, a)
                \/ \E path \in Paths, key \in Ids :
                     \/ \E type \in Kinds, v \in Values : Set(path, key, type, v, a)
                     \/ \E target \in Used : Link(path, key, target, a)
           \/ LoadClose \/ LoadEnd
           \/ \E path \in Paths : Query(path) \/ ListRoot(path) \/ Del(path)
           \/ Unload

PdbSpec == PdbInit /\ [][PdbNext]_pdbVars

-----------------------------------------------------------------------------
(* What the database promises                                              *)

\* Every node on the heap is held by the node it names as its parent, and by
\* nobody else; a node that holds another one that was freed, or one that
\* nobody holds, would be read after its end or never freed
\* (pdb_types.c pdb_standard_create_node, pdb_free_node).
Attached ==
  /\ PdbTypeOK
  /\ fate = "ok" /\ db \in Used =>
    /\ \A a \in Used : \A i, j \in DOMAIN node[a].kids :
         /\ node[a].kids[i] \in Used
         /\ node[node[a].kids[i]].parent = a
         /\ node[a].kids[i] = node[a].kids[j] => i = j
    /\ \A a \in Used \ {db} : /\ node[a].parent \in Used
                              /\ a \in ToSet(node[node[a].parent].kids)

\* Two children of one container with the same name: a list, or a hash, that a
\* file or a link filled.
Twins == \E a \in Used : \E i, j \in DOMAIN node[a].kids :
            i < j /\ node[node[a].kids[i]].id = node[node[a].kids[j]].id

Answer(path) ==
  LET w == Walk(path)
  IN  IF w.fate # "ok" \/ w.node = Null THEN Null
      ELSE <<node[w.node].type, node[w.node].data>>

Space == [path \in Paths |-> Answer(path)]

S == INSTANCE PdbSpace WITH
       Leaves <- {<<"string", v>> : v \in Values \cup {Null}} \cup {<<"link", a>> : a \in NodeAddr},
       Containers <- {<<c, Null>> : c \in Containers}, None <- Null,
       space <- Space

\* To those who ask by path the database is a space of names: a load or a set
\* adds a name or changes a leaf and nothing else, the first to use a name in
\* a tree keeps it, and a deletion takes exactly what is below the name
\* (pdb.c pdb_set_node, pdb_del; pdb_types.c pdb_standard_load_node).  Not
\* while two children share a name.
Kept == fate' = "ok" /\ ~Twins => [S!Next]_Space
NamesKept == S!Init /\ [][<<db, node>>' # <<db, node>> => Kept]_pdbVars
=============================================================================
