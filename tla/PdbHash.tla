------------------------------ MODULE PdbHash ------------------------------
(***************************************************************************)
(* What a hash node and a list node of the database keep their children    *)
(* in: the table of hash.c, each cell of it a doubly linked list of        *)
(* list.c, or one such list; with the callbacks of pdb_types.c that add,   *)
(* look for, take out, count, write and free children.  A round of a loop  *)
(* is one action.  Memory is found when it is asked for.                   *)
(*                                                                         *)
(* The code runs a call to its end before the next.                        *)
(***************************************************************************)
EXTENDS Naturals, Sequences, SequencesExt

CONSTANTS LinkNode,  \* the addresses of struct linkNode
          Id,        \* the names of children
          Kid,       \* the children: the addresses of pdb nodes
          Key,       \* Key[i]: what hash_key makes of the name i, before % size
          Sizes,     \* the sizes that files and pdb_set_node ask for
          NIL

ASSUME HashAssumption == /\ Kid \subseteq Nat
                         /\ NIL \notin LinkNode \cup Kid
                         /\ NIL \notin [id : Id, kid : Kid]
                         /\ NIL \notin [root : LinkNode \cup {NIL}, last : LinkNode \cup {NIL}]
                         /\ Key \in [Id -> Nat]
                         /\ Sizes \subseteq Nat

VARIABLES kind,      \* "hash" or "list", "none" when there is no container
          size,      \* hash.size; a list is the only one
          tbl,       \* hash.tbl: for each cell the root and last of its list, or NIL
          succ,      \* linkNode.next
          pred,      \* linkNode.prev
          held,      \* linkNode.data: the child and the name it is kept under
          ages,      \* auxiliary: the links in use, the oldest first
          request,   \* the call in progress
          cell,      \* the cell that its loop is in
          lnptr,     \* where it is in the list of the cell
          out,       \* the children that a loop over all of them has come past
          reply      \* the last answer

container == <<kind, size, tbl, succ, pred, held, ages>>
hashVars == <<container, request, cell, lnptr, out, reply>>

NoRequest == [op |-> "none"]
Empty == [root |-> NIL, last |-> NIL]
Clean == [l \in LinkNode |-> NIL]
Stored == [k \in DOMAIN ages |-> held[ages[k]]]

HashInit == /\ kind = "none" /\ size = 0 /\ tbl = << >>
            /\ succ = Clean /\ pred = Clean /\ held = Clean /\ ages = << >>
            /\ request = NoRequest /\ cell = 0 /\ lnptr = NIL /\ out = << >> /\ reply = NIL

\* hash_key(key, size); the cells are numbered from 1.
CellOf(id) == IF kind = "list" THEN 1 ELSE (Key[id] % size) + 1
Root(c) == IF tbl[c] = NIL THEN NIL ELSE tbl[c].root
Doing(op) == request.op = op
Reply(v) == reply' = v /\ request' = NoRequest /\ cell' = 0 /\ lnptr' = NIL /\ out' = << >>

-----------------------------------------------------------------------------
\* hash_create makes no lists, and a size of 0 one cell; a list node makes its
\* list at once.
Create(k, n) ==
  /\ kind = "none" /\ request = NoRequest
  /\ kind' = k
  /\ size' = IF k = "list" \/ n = 0 THEN 1 ELSE n
  /\ tbl' = [c \in 1 .. size' |-> IF k = "list" THEN Empty ELSE NIL]
  /\ UNCHANGED <<succ, pred, held, ages, request, cell, lnptr, out, reply>>

Requests == [op : {"add", "remove"}, id : Id, kid : Kid] \cup [op : {"get"}, id : Id]
           \cup [op : {"count", "write", "free"}]

ByName(c) == c.op \in {"get", "remove"}
OverAll(c) == c.op \in {"count", "write", "free"}

Unused == {x \in Kid : \A k \in DOMAIN Stored : Stored[k].kid # x}

\* A child is added once, when it has been made, at the first address that is
\* free, for nothing depends on which; the one that is taken out is the one that
\* its path leads to, the oldest of its name.
Fits(c) == /\ c.op = "add" => c.kid \in Unused /\ \A x \in Unused : c.kid <= x
           /\ c.op = "remove" => \E k \in DOMAIN Stored :
                 /\ Stored[k] = [id |-> c.id, kid |-> c.kid]
                 /\ \A j \in 1 .. k - 1 : Stored[j].id # c.id

Ask(c) ==
  /\ kind # "none" /\ request = NoRequest
  /\ Fits(c)
  /\ request' = c
  /\ cell' = IF OverAll(c) THEN 1 ELSE CellOf(c.id)
  /\ lnptr' = IF ByName(c) \/ OverAll(c) THEN Root(cell') ELSE NIL
  /\ UNCHANGED <<container, out, reply>>

-----------------------------------------------------------------------------
\* hash_add, or the add of a list node: list_add_node_end.
Add(l) ==
  /\ Doing("add")
  /\ held[l] = NIL
  /\ LET at == IF tbl[cell] = NIL THEN Empty ELSE tbl[cell]
     IN  /\ tbl' = [tbl EXCEPT ![cell] = [root |-> IF at.root = NIL THEN l ELSE at.root,
                                         last |-> l]]
         /\ succ' = [k \in LinkNode |-> IF at.root # NIL /\ k = at.last THEN l ELSE succ[k]]
         /\ pred' = [pred EXCEPT ![l] = at.last]
  /\ held' = [held EXCEPT ![l] = [id |-> request.id, kid |-> request.kid]]
  /\ ages' = Append(ages, l)
  /\ Reply(1)
  /\ UNCHANGED <<kind, size>>

\* hash_get_node and pdb_query_list_node_cb compare names, and so does hash_remove.
\* pdb_del_child_list_node_cb compares children, and does not advance: unless
\* the child is the first of the list, the call never ends.
ByChild == Doing("remove") /\ kind = "list"
Sought == IF ByChild THEN held[lnptr].kid = request.kid ELSE held[lnptr].id = request.id

Pass == /\ ByName(request) /\ lnptr # NIL
        /\ ~Sought /\ ~ByChild
        /\ lnptr' = succ[lnptr]
        /\ UNCHANGED <<container, request, cell, out, reply>>

Missing == /\ ByName(request) /\ lnptr = NIL
           /\ Reply(IF Doing("get") THEN NIL ELSE 0)
           /\ UNCHANGED container

Get == /\ Doing("get") /\ lnptr # NIL
       /\ Sought
       /\ Reply(held[lnptr].kid)
       /\ UNCHANGED container

\* mutant: the last of the list is not corrected.
Delink_RootOnly(l) ==
  /\ succ' = [k \in LinkNode |-> IF k = l THEN NIL
                            ELSE IF k = pred[l] THEN succ[l] ELSE succ[k]]
  /\ pred' = [k \in LinkNode |-> IF k = l THEN NIL
                            ELSE IF k = succ[l] THEN pred[l] ELSE pred[k]]
  /\ tbl' = [tbl EXCEPT ![cell].root = IF @ = l THEN succ[l] ELSE @]

\* list_delink_node.
Delink(l) ==
  /\ succ' = [k \in LinkNode |-> IF k = l THEN NIL
                            ELSE IF k = pred[l] THEN succ[l] ELSE succ[k]]
  /\ pred' = [k \in LinkNode |-> IF k = l THEN NIL
                            ELSE IF k = succ[l] THEN pred[l] ELSE pred[k]]
  /\ tbl' = [tbl EXCEPT ![cell] = [root |-> IF @.root = l THEN succ[l] ELSE @.root,
                                  last |-> IF @.last = l THEN pred[l] ELSE @.last]]

\* hash_remove: the entry goes, the child and an empty list stay.
TakeOut == /\ Doing("remove") /\ lnptr # NIL
           /\ Sought
           /\ Delink(lnptr)
           /\ held' = [held EXCEPT ![lnptr] = NIL]
           /\ \E k \in DOMAIN ages : ages[k] = lnptr /\ ages' = RemoveAt(ages, k)
           /\ Reply(1)
           /\ UNCHANGED <<kind, size>>

-----------------------------------------------------------------------------
(* Loops over all children: hash_count_children, hash_free and writing     *)

\* mutant: the rounds end one cell too early.
MoreCells_Fewer == cell + 1 < size

MoreCells == cell < size

Visit == /\ OverAll(request) /\ lnptr # NIL
         /\ out' = Append(out, held[lnptr])
         /\ lnptr' = succ[lnptr]
         /\ UNCHANGED <<container, request, cell, reply>>

NextCell == /\ OverAll(request) /\ lnptr = NIL
            /\ MoreCells
            /\ cell' = cell + 1
            /\ lnptr' = Root(cell + 1)
            /\ UNCHANGED <<container, request, out, reply>>

Summed == /\ Doing("count") /\ lnptr = NIL /\ ~MoreCells
           /\ Reply(Len(out))
           /\ UNCHANGED container

Written == /\ Doing("write") /\ lnptr = NIL /\ ~MoreCells
           /\ Reply(out)
           /\ UNCHANGED container

\* The children visited are freed, and then the lists and the table.
Freed == /\ Doing("free") /\ lnptr = NIL /\ ~MoreCells
         /\ Reply(out)
         /\ kind' = "none" /\ size' = 0 /\ tbl' = << >>
         /\ succ' = Clean /\ pred' = Clean /\ held' = Clean /\ ages' = << >>

HashNext == \/ \E k \in {"hash", "list"}, n \in Sizes : Create(k, n)
            \/ \E c \in Requests : Ask(c)
            \/ \E l \in LinkNode : Add(l)
            \/ Pass \/ Missing \/ Get \/ TakeOut
            \/ Visit \/ NextCell \/ Summed \/ Written \/ Freed

HashSpec == HashInit /\ [][HashNext]_hashVars

-----------------------------------------------------------------------------
\* The links in use: of two, the one that was added first; those of a cell; and
\* the ends of a list of some of them.
Links == ToSet(ages)
Older(l, m) == \E i, j \in DOMAIN ages : i < j /\ ages[i] = l /\ ages[j] = m
Chain(c) == {l \in Links : CellOf(held[l].id) = c}
Oldest(l, ls) == IF ls = {} THEN l = NIL ELSE l \in ls /\ \A m \in ls \ {l} : Older(l, m)
Youngest(l, ls) == IF ls = {} THEN l = NIL ELSE l \in ls /\ \A m \in ls \ {l} : Older(m, l)

\* Every entry is in the list of its cell and in no other, in the order in which
\* the entries were added; each list can be walked both ways, its ends are what
\* its head says, and a loop stands on an entry of the cell that it is in.  Else
\* a name is looked for where it is not, or a freed entry is read
\* (list.c list_delink_node, list_add_node_end; hash.c hash_add, hash_remove).
Chained ==
  /\ kind # "none" =>
     \A c \in 1 .. size :
       /\ Oldest(Root(c), Chain(c))
       /\ tbl[c] # NIL => Youngest(tbl[c].last, Chain(c))
       /\ \A l \in Chain(c) : /\ Oldest(succ[l], {m \in Chain(c) : Older(l, m)})
                              /\ Youngest(pred[l], {m \in Chain(c) : Older(m, l)})
  /\ {l \in LinkNode : held[l] # NIL} = Links
  /\ lnptr # NIL => lnptr \in Chain(cell)

E == INSTANCE PdbEntries WITH entries <- Stored, pend <- request, ans <- reply

\* Whatever the size of the table and the collisions in it, the container is a
\* sequence of named entries: a name leads to the oldest entry of it, taking
\* out takes that one, and counting, writing and freeing come past every child
\* once, those of one name in their order, so that a file that is written and
\* loaded again answers as before (hash.c; pdb_types.c pdb_write_hash_node_cb,
\* pdb_write_list_node_cb, pdb_free_hash_node_cb).
IsEntries == E!Init /\ [][E!Next]_(E!vars)
=============================================================================
