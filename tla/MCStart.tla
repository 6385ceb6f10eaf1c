------------------------------ MODULE MCStart ------------------------------
(* Instances for TLC of three parts of JASS that work on files when it is  *)
(* started and stopped: the life cycle with its marker and its log, the    *)
(* text of jass.ini, and the tree in which its entries are kept.  They     *)
(* share no state, so a behaviour is one of one part.                      *)
(*   Tree: five keys are the fewest with which deleting a node with two     *)
(* children walks down to a node that has a right child of its own.        *)
EXTENDS MCLifecycle, MCPdbTree, PdbText

VARIABLE job

startVars == <<job, vars, treeVars, textVars>>

StartInit == /\ job \in {"life", "tree", "text"}
             /\ Init /\ TreeInit /\ TextInit
             /\ job # "life" => \A t \in Time : now <= t
             /\ job # "text" => author = "hand"

Life == job = "life" /\ Next /\ UNCHANGED <<job, treeVars, textVars>>
Tree == job = "tree" /\ TreeNext /\ UNCHANGED <<job, vars, textVars>>
File == job = "text" /\ TextNext /\ UNCHANGED <<job, vars, treeVars>>

StartNext == Life \/ Tree \/ File

StartSpec == StartInit /\ [][StartNext]_startVars
============================================================================
