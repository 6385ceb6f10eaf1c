------------------------------ MODULE PdbTree ------------------------------
(***************************************************************************)
(* The binary search tree of pdb (binarytree.c): nodes on the heap, linked *)
(* by left, right and parent pointers, searched one node at a time.  One   *)
(* call is in progress at a time; a loop of the code is one action per     *)
(* round.                                                                  *)
(*                                                                         *)
(* sub is an auxiliary variable: no pointer of the code, but the set of    *)
(* nodes that hang below each side of a node.  It is maintained while the  *)
(* tree is sound and decides nothing.                                      *)
(***************************************************************************)
EXTENDS Integers

CONSTANTS Addr,     \* the addresses malloc can return
          Nil,      \* the null pointer
          Keys,     \* names, as numbers in the order of strcmp
          Data,     \* what is stored
          MaxAfter  \* bound: calls made after a node with two children was deleted

ASSUME TreeAssumption == /\ Nil \notin Addr \cup Data
                         /\ Keys \subseteq Int
                         /\ MaxAfter \in Nat

VARIABLES root,     \* the tree's root pointer
          live,     \* the nodes allocated and not freed
          kid,      \* kid[n]["left"] and kid[n]["right"]
          parent,   \* the parent pointer of each node
          key,      \* the key of each node
          data,     \* the data pointer of each node
          call,     \* the call in progress, or Idle
          cur,      \* nptr or pptr of the search loop
          low,      \* rptr of tree_delink_node, Nil outside its loop
          ret,      \* what the last call returned
          wild,     \* a freed node was read
          torn,     \* a node with two children was deleted
          after,    \* the calls made since
          sub       \* auxiliary: the nodes below each side of a node

heap == <<root, live, kid, parent, key, data, sub>>
treeVars == <<heap, call, cur, low, ret, wild, torn, after>>

Sides == {"left", "right"}
Done   == "1"
Failed == "0"
Idle  == [op |-> "idle"]
Calls == [op : {"add"}, key : Keys, data : Data]
           \cup [op : {"get", "del"}, key : Keys]

\* The pointers, the call and its answer stay of their types; an answer is data
\* that was stored, never a node (binarytree.c tree_get_node).
TreeTypeOK == /\ root \in Addr \cup {Nil}
              /\ live \subseteq Addr
              /\ kid \in [Addr -> [Sides -> Addr \cup {Nil}]]
              /\ parent \in [Addr -> Addr \cup {Nil}]
              /\ key \in [Addr -> Keys \cup {Nil}]
              /\ data \in [Addr -> Data \cup {Nil}]
              /\ sub \in [Addr -> [Sides -> SUBSET Addr]]
              /\ call \in Calls \cup {Idle}
              /\ cur \in Addr \cup {Nil}
              /\ low \in Addr \cup {Nil}
              /\ ret \in Data \cup {Nil, Done, Failed}
              /\ wild \in BOOLEAN
              /\ torn \in BOOLEAN
              /\ after \in 0..MaxAfter

Leaf  == [s \in Sides |-> Nil]
Bare  == [s \in Sides |-> {}]

TreeInit == /\ root = Nil
            /\ live = {}
            /\ kid = [a \in Addr |-> Leaf]
            /\ parent = [a \in Addr |-> Nil]
            /\ key = [a \in Addr |-> Nil]
            /\ data = [a \in Addr |-> Nil]
            /\ sub = [a \in Addr |-> Bare]
            /\ call = Idle
            /\ cur = Nil
            /\ low = Nil
            /\ ret = Nil
            /\ wild = FALSE
            /\ torn = FALSE
            /\ after = 0

-----------------------------------------------------------------------------
(* The search                                                              *)

Busy(op) == call.op = op /\ low = Nil /\ ~wild
Side(k, n) == IF k < key[n] THEN "left" ELSE "right"

Start(c) == /\ call = Idle
            /\ ~wild
            /\ call' = c
            /\ cur' = root
            /\ torn => after < MaxAfter
            /\ after' = IF torn THEN after + 1 ELSE after
            /\ UNCHANGED <<heap, low, ret, wild, torn>>

Return(v) == /\ ret' = v
             /\ call' = Idle
             /\ cur' = Nil
             /\ low' = Nil
             /\ UNCHANGED <<wild, after>>

AtKey(k) == cur \in live /\ key[cur] = k

\* The empty link at which tree_add_node stops.
Spot == \/ cur = Nil
        \/ cur \in live /\ call.key # key[cur] /\ kid[cur][Side(call.key, cur)] = Nil

Descend == /\ call # Idle /\ low = Nil /\ ~wild
           /\ cur \in live
           /\ call.key # key[cur]
           /\ call.op = "add" => ~Spot
           /\ cur' = kid[cur][Side(call.key, cur)]
           /\ UNCHANGED <<heap, call, low, ret, wild, torn, after>>

-----------------------------------------------------------------------------
(* tree_add_node                                                           *)

Duplicate == /\ Busy("add")
             /\ AtKey(call.key)
             /\ Return(Failed)
             /\ UNCHANGED <<heap, torn>>

\* malloc of the node returns no memory: the link stays NULL.
NoMemory == /\ Busy("add")
            /\ Spot
            /\ Return(Failed)
            /\ UNCHANGED <<heap, torn>>

\* The node is linked below the last node of the search, or becomes the root.
\* (When the key's own copy cannot be allocated, the code ends the process.)
Attach(a) ==
  /\ Busy("add")
  /\ Spot
  /\ a \in Addr \ live
  /\ live' = live \cup {a}
  /\ root' = IF cur = Nil THEN a ELSE root
  /\ kid' = [n \in Addr |-> [s \in Sides |->
                IF n = a THEN Nil
                ELSE IF n = cur /\ s = Side(call.key, cur) THEN a
                ELSE kid[n][s]]]
  /\ parent' = [parent EXCEPT ![a] = cur]
  /\ key' = [key EXCEPT ![a] = call.key]
  /\ data' = [data EXCEPT ![a] = call.data]
  /\ sub' = [n \in Addr |-> [s \in Sides |->
                IF n = a \/ torn THEN {}
                ELSE IF cur \in sub[n][s] \/ (n = cur /\ s = Side(call.key, cur))
                     THEN sub[n][s] \cup {a}
                ELSE sub[n][s]]]
  /\ Return(Done)
  /\ UNCHANGED torn

-----------------------------------------------------------------------------
(* tree_get_node                                                           *)

Found == /\ Busy("get")
         /\ AtKey(call.key)
         /\ Return(data[cur])
         /\ UNCHANGED <<heap, torn>>

Missed == /\ Busy("get")
          /\ cur = Nil
          /\ Return(Nil)
          /\ UNCHANGED <<heap, torn>>

-----------------------------------------------------------------------------
(* tree_delink_node, called by tree_free_node                              *)

\* mutant: the side on which the parent holds the node is not looked at.
Relink_Right(f, p, n, m) == [f EXCEPT ![p]["right"] = m]

\* The pointer that led down to n leads to m instead.
Relink(f, p, n, m) ==
  IF f[p]["right"] = n THEN [f EXCEPT ![p]["right"] = m]
  ELSE IF f[p]["left"] = n THEN [f EXCEPT ![p]["left"] = m]
  ELSE f

NotThere == /\ Busy("del")
            /\ cur = Nil
            /\ Return(Failed)
            /\ UNCHANGED <<heap, torn>>

\* free(nptr), and the answer to the caller, who frees the data.
FreeCur(tears) ==
  /\ torn' = tears
  /\ live' = live \ {cur}
  /\ key' = [key EXCEPT ![cur] = Nil]
  /\ data' = [data EXCEPT ![cur] = Nil]
  /\ sub' = [n \in Addr |-> [s \in Sides |->
                IF n = cur \/ tears THEN {} ELSE sub[n][s] \ {cur}]]
  /\ Return(Done)

\* The parent that tree_delink_node writes to has to be a node.
ParentReadable == parent[cur] = Nil \/ parent[cur] \in live

Opp(s) == IF s = "left" THEN "right" ELSE "left"
Two == kid[cur]["left"] # Nil /\ kid[cur]["right"] # Nil

\* mutant: the child that moves up keeps its parent pointer.
DelinkOuter_KeepsParent ==
  /\ Busy("del")
  /\ AtKey(call.key)
  /\ ParentReadable
  /\ \E s \in Sides :
       /\ kid[cur][s] = Nil
       /\ LET m == kid[cur][Opp(s)]
          IN /\ m # Nil \/ s = "left"
             /\ root' = IF parent[cur] = Nil THEN m ELSE root
             /\ kid' = [(IF parent[cur] = Nil THEN kid ELSE Relink(kid, parent[cur], cur, m))
                          EXCEPT ![cur] = Leaf]
  /\ parent' = [parent EXCEPT ![cur] = Nil]
  /\ FreeCur(torn)

\* No child, or one, which takes the place of the node.
DelinkOuter ==
  /\ Busy("del")
  /\ AtKey(call.key)
  /\ ParentReadable
  /\ \E s \in Sides :
       /\ kid[cur][s] = Nil
       /\ LET m == kid[cur][Opp(s)]
          IN /\ m # Nil \/ s = "left"
             /\ m = Nil \/ m \in live
             /\ root' = IF parent[cur] = Nil THEN m ELSE root
             /\ kid' = [(IF parent[cur] = Nil THEN kid ELSE Relink(kid, parent[cur], cur, m))
                          EXCEPT ![cur] = Leaf]
             /\ parent' = [n \in Addr |-> IF n = cur THEN Nil
                                          ELSE IF n = m THEN parent[cur] ELSE parent[n]]
  /\ FreeCur(torn)

\* Two children, the right one without a left child: it takes the place of
\* the node, and takes its left child.  That child's parent pointer stays.
DelinkRightUp ==
  /\ Busy("del")
  /\ AtKey(call.key)
  /\ Two
  /\ ParentReadable
  /\ LET r == kid[cur]["right"]
         f == IF parent[cur] = Nil THEN kid ELSE Relink(kid, parent[cur], cur, r)
     IN /\ r \in live
        /\ kid[r]["left"] = Nil
        /\ root' = IF parent[cur] = Nil THEN r ELSE root
        /\ kid' = [f EXCEPT ![r]["left"] = kid[cur]["left"], ![cur] = Leaf]
        /\ parent' = [parent EXCEPT ![r] = parent[cur], ![cur] = Nil]
  /\ FreeCur(TRUE)

\* Otherwise the leftmost node below the right child is looked for ...
SeekLow ==
  /\ Busy("del")
  /\ AtKey(call.key)
  /\ Two
  /\ kid[cur]["right"] \in live
  /\ kid[kid[cur]["right"]]["left"] # Nil
  /\ low' = kid[kid[cur]["right"]]["left"]
  /\ UNCHANGED <<heap, call, cur, ret, wild, torn, after>>

SeekLower ==
  /\ low \in live
  /\ ~wild
  /\ kid[low]["left"] # Nil
  /\ low' = kid[low]["left"]
  /\ UNCHANGED <<heap, call, cur, ret, wild, torn, after>>

\* ... and takes the place of the node.  The links that it is given replace
\* its own, the one to its right child included, and nobody is told of the
\* new parent.
DelinkLowUp ==
  /\ low \in live
  /\ cur \in live
  /\ ~wild
  /\ kid[low]["left"] = Nil
  /\ ParentReadable
  /\ LET f == IF parent[cur] = Nil THEN kid ELSE Relink(kid, parent[cur], cur, low)
         g == Relink(f, parent[low], low, Nil)
     IN /\ parent[low] \in live
        /\ root' = IF parent[cur] = Nil THEN low ELSE root
        /\ kid' = [g EXCEPT ![low] = g[cur], ![cur] = Leaf]
        /\ parent' = [parent EXCEPT ![low] = parent[cur], ![cur] = Nil]
  /\ FreeCur(TRUE)

-----------------------------------------------------------------------------
(* What the heap allows: a pointer to a freed node is followed.            *)

Freed(a) == a # Nil /\ a \notin live

ReadFreed ==
  /\ call # Idle
  /\ ~wild
  /\ \/ low = Nil /\ Freed(cur)
     \/ Freed(low)
     \/ /\ Busy("del") /\ AtKey(call.key)
        /\ \/ Freed(parent[cur])
           \/ \E s \in Sides : Freed(kid[cur][s])
     \/ low \in live /\ (Freed(parent[low]) \/ Freed(parent[cur]))
  /\ wild' = TRUE
  /\ UNCHANGED <<heap, call, cur, low, ret, torn, after>>

-----------------------------------------------------------------------------
TreeNext == \/ \E c \in Calls : Start(c)
            \/ Descend
            \/ Duplicate \/ NoMemory \/ \E a \in Addr : Attach(a)
            \/ Found \/ Missed
            \/ NotThere \/ DelinkOuter \/ DelinkRightUp
            \/ SeekLow \/ SeekLower \/ DelinkLowUp
            \/ ReadFreed

TreeSpec == TreeInit /\ [][TreeNext]_treeVars

-----------------------------------------------------------------------------
(* The promise                                                             *)

Stored(k) == {n \in live : key[n] = k}
Dict == [k \in Keys |-> IF Stored(k) = {} THEN Nil
                        ELSE data[CHOOSE n \in Stored(k) : TRUE]]

D == INSTANCE PdbDict WITH dict <- Dict, pend <- call

\* As long as no node with two children has been deleted the tree is a
\* dictionary: every search ends where the key is or would be, an answer is
\* what was stored last under that key, and a deletion takes nothing else
\* along (binarytree.c tree_add_node, tree_get_node, tree_delink_node).
DictUntilTorn == D!Init /\ [][~torn' => [D!Next]_(D!vars)]_treeVars

\* binarytree.c says of tree_delink_node that it delinks the node of the key
\* and frees that node: every other node stays where a search finds it.
NoneLost == \A n \in live : \/ n = root
                            \/ \E m \in live, s \in Sides : kid[m][s] = n

\* No node is lost and none dangles: until it is torn, what is allocated is
\* what hangs below the root, each node below the parent it names, and no
\* pointer that is followed leads to freed memory.
WellLinked ==
  ~torn =>
    /\ ~wild
    /\ root # Nil <=> live # {}
    /\ \A n \in live : IF n = root THEN parent[n] = Nil
                       ELSE /\ parent[n] \in live
                            /\ \E s \in Sides : kid[parent[n]][s] = n
    /\ \A n \in live, s \in Sides : kid[n][s] # Nil => parent[kid[n][s]] = n
=============================================================================
