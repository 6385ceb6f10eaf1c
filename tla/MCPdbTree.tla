----------------------------- MODULE MCPdbTree -----------------------------
(* An instance of the database's binary tree for TLC, in which a deletion  *)
(* of a node with two children is looked for.                              *)
EXTENDS PdbTree, TLC

CONSTANTS a1, a2, a3, a4, a5

MCAddr == {a1, a2, a3, a4, a5}
MCKeys == 1 .. 5
AnyPlace == Permutations(MCAddr)
============================================================================
