-------------------------- MODULE PluginContract --------------------------
(***************************************************************************)
(* What JASS promises each plugin DLL about the calls it receives:         *)
(* JASS_Attach first; the hooks only once JASS_Attach has accepted; one    *)
(* JASS_Detach, never while a hook of the plugin is running; nothing after *)
(* JASS_Detach has returned; no new hook while the plugin is paused.       *)
(***************************************************************************)
EXTENDS Naturals

CONSTANTS File,
          MaxCalls   (* bound: hooks of one plugin running at a time *)

VARIABLES
  state,    (* per plugin: where it is in its life                         *)
  resting,  (* per plugin: paused by the administrator                     *)
  running   (* per plugin: its hooks now on the call stack                 *)

vars == <<state, resting, running>>

TypeOK ==
  /\ state \in [File -> {"out", "attaching", "in", "refused", "leaving"}]
  /\ resting \in [File -> BOOLEAN]
  /\ running \in [File -> 0 .. MaxCalls]

Init ==
  /\ state = [f \in File |-> "out"]
  /\ resting = [f \in File |-> FALSE]
  /\ running = [f \in File |-> 0]

Move(f, from, to) == /\ state[f] = from
                     /\ state' = [state EXCEPT ![f] = to]

Attach(f) == Move(f, "out", "attaching") /\ UNCHANGED <<resting, running>>
Accept(f) == Move(f, "attaching", "in") /\ UNCHANGED <<resting, running>>
Refuse(f) == Move(f, "attaching", "refused") /\ UNCHANGED <<resting, running>>
Discard(f) == Move(f, "refused", "out") /\ UNCHANGED <<resting, running>>

Detach(f) ==
  /\ running[f] = 0
  /\ Move(f, "in", "leaving")
  /\ UNCHANGED <<resting, running>>

Leave(f) ==
  /\ running[f] = 0
  /\ Move(f, "leaving", "out")
  /\ resting' = [resting EXCEPT ![f] = FALSE]
  /\ UNCHANGED running

Call(f) ==
  /\ state[f] \in {"in", "leaving"} /\ ~resting[f]
  /\ running[f] < MaxCalls
  /\ running' = [running EXCEPT ![f] = @ + 1]
  /\ UNCHANGED <<state, resting>>

Return(f) ==
  /\ state[f] \in {"in", "leaving"}
  /\ running[f] > 0
  /\ running' = [running EXCEPT ![f] = @ - 1]
  /\ UNCHANGED <<state, resting>>

Toggle(f) ==
  /\ state[f] \in {"in", "leaving"}
  /\ resting' = [resting EXCEPT ![f] = ~@]
  /\ UNCHANGED <<state, running>>

(* Every plugin is detached and closed in one go ("jass shutdown").        *)
CloseAll ==
  /\ \A f \in File : running[f] = 0 /\ state[f] \in {"out", "in"}
  /\ state' = [f \in File |-> "out"]
  /\ resting' = [f \in File |-> FALSE]
  /\ UNCHANGED running

Next ==
  \/ \E f \in File :
       \/ Attach(f) \/ Accept(f) \/ Refuse(f) \/ Discard(f)
       \/ Detach(f) \/ Leave(f)
       \/ Call(f) \/ Return(f) \/ Toggle(f)
  \/ CloseAll

Spec == Init /\ [][Next]_vars
============================================================================
