----------------------------- MODULE MCExHooks -----------------------------
(* Instances of ExHooks for TLC: two addresses (a plugin loaded again may  *)
(* come to the same one or to another) and two entities.                   *)
EXTENDS ExHooks

CONSTANTS b1, b2, e1, e2

MCBase == {b1, b2}
MCEnt == {e1, e2}
============================================================================
