------------------------------ MODULE PdbDict ------------------------------
(***************************************************************************)
(* What the binary tree of the parameter database promises to the code     *)
(* that stores tree nodes in it: a dictionary.  A call is one of tree_add, *)
(* tree_get and tree_del; it takes effect in one step, which also decides  *)
(* its answer.                                                             *)
(***************************************************************************)
CONSTANTS Keys,     \* the names a node can be stored under
          Data,     \* what can be stored
          Nil       \* the null pointer, which is no data

VARIABLES dict,     \* what is stored under each key, Nil for nothing
          pend,     \* the call in progress, or Idle
          ret       \* what the last call returned

vars == <<dict, pend, ret>>

\* tree_add_node and tree_free_node return 1 for done and 0 for not done.
Done   == "1"
Failed == "0"

Idle  == [op |-> "idle"]
Calls == [op : {"add"}, key : Keys, data : Data]
           \cup [op : {"get", "del"}, key : Keys]

Init == /\ dict = [k \in Keys |-> Nil]
        /\ pend = Idle
        /\ ret = Nil

Call == /\ pend = Idle
        /\ \E c \in Calls : pend' = c
        /\ UNCHANGED <<dict, ret>>

Return(v) == ret' = v /\ pend' = Idle

\* The first to store under a key keeps it; memory can also run out.
Add == /\ pend.op = "add"
       /\ \/ /\ dict[pend.key] = Nil
             /\ dict' = [dict EXCEPT ![pend.key] = pend.data]
             /\ Return(Done)
          \/ UNCHANGED dict /\ Return(Failed)

Get == /\ pend.op = "get"
       /\ Return(dict[pend.key])
       /\ UNCHANGED dict

Del == /\ pend.op = "del"
       /\ dict' = [dict EXCEPT ![pend.key] = Nil]
       /\ Return(IF dict[pend.key] = Nil THEN Failed ELSE Done)

Next == Call \/ Add \/ Get \/ Del

Spec == Init /\ [][Next]_vars
=============================================================================
