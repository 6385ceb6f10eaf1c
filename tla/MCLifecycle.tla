---------------------------- MODULE MCLifecycle ----------------------------
(* Instances of Lifecycle for TLC: one text of which two fit in the buffer *)
(* (with a date only one), and what may happen in each run.                *)
EXTENDS Lifecycle

CONSTANTS line

MCText == {line}
MCSize == [t \in MCText |-> 2]
MCTime == {1, 2}
AllModes == {0, 1, 2}
Everything == {"shutdown", "execShutdown", "modFails", "detachLogs", "crash"}
ExecShutdown == {"execShutdown"}
============================================================================
