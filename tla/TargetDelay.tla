---------------------------- MODULE TargetDelay ----------------------------
(* The per-player "target_delay" of EX-Plugin (src/Ex-Plugin/EX-Plugin/    *)
(* XG-Hook.cpp, TargetDelayUse and TargetDelayThink): one entity holds a   *)
(* deadline for every client slot and one think function for all of them.  *)
(* Firing a delay uses the entity's targets, which may lead back to the    *)
(* entity while TargetDelayThink is still in its loop.                     *)
(***************************************************************************)
EXTENDS Integers

CONSTANTS
  Clients,      (* clients have numbers 1 .. Clients (0 .. 31 in the code)     *)
  Period,     (* frames from one think to the next (a second in the code)  *)
  MaxWait,    (* the longest delay, in frames                              *)
  MaxLate     (* bound: frames counted after a deadline                    *)

ASSUME DelayParameters ==
  /\ Clients \in Nat \ {0} /\ Period \in Nat \ {0}
  /\ MaxWait \in Nat /\ MaxLate \in Nat

Client == 1 .. Clients
Unarmed == MaxWait + 1    \* 0 in the code

VARIABLES
  ignore,     (* spawnflag 1: a client with a pending delay is ignored     *)
  due,        (* buf: frames until each client's delay is due              *)
  think,      (* self->think: "none", "plugin" or "mod"                    *)
  nextthink,  (* frames until it runs                                      *)
  i           (* the loop of TargetDelayThink; 0 outside it                *)

delayVars == <<ignore, due, think, nextthink, i>>

Armed(c) == due[c] # Unarmed

DelayInit ==
  /\ ignore \in BOOLEAN
  /\ due = [c \in Client |-> Unarmed] /\ think = "none" /\ nextthink = 0 /\ i = 0
----------------------------------------------------------------------------
(* mutant: every use puts the think function off                           *)
Arm_PutsOff(c, wait) ==
  /\ ~(Armed(c) /\ ignore)
  /\ due' = [due EXCEPT ![c] = wait]
  /\ think' = IF think = "none" THEN "plugin" ELSE think
  /\ nextthink' = Period

(* TargetDelayUse with a client as activator and spawnflag 2.              *)
Arm(c, wait) ==
  /\ ~(Armed(c) /\ ignore)
  /\ due' = [due EXCEPT ![c] = wait]
  /\ IF think = "none" THEN think' = "plugin" /\ nextthink' = Period
                       ELSE UNCHANGED <<think, nextthink>>

(* A player uses the entity.                                               *)
TargetDelayUseBy(c, wait) ==
  /\ i = 0
  /\ Arm(c, wait)
  /\ UNCHANGED <<ignore, i>>

(* Something that is no client uses it: the original runs, which puts the  *)
(* mod's think function there and leaves it.                               *)
UseOriginal ==
  /\ i = 0
  /\ think' = "mod" /\ nextthink' \in 0 .. Period
  /\ UNCHANGED <<ignore, due, i>>

(* A frame: time passes, then the think function runs if it is time.       *)
(* TargetDelayThink begins by clearing it.                                 *)
Frame ==
  /\ i = 0
  /\ due' = [c \in Client |-> IF Armed(c) /\ due[c] > -MaxLate THEN due[c] - 1
                                                            ELSE due[c]]
  /\ nextthink' = IF nextthink > 0 THEN nextthink - 1 ELSE 0
  /\ IF think = "plugin" /\ nextthink' = 0 THEN i' = 1 /\ think' = "none"
                                           ELSE UNCHANGED <<i, think>>
  /\ UNCHANGED ignore

(* The loop comes to a client whose delay is pending.                      *)
StillPending ==
  /\ i \in Client /\ Armed(i) /\ due[i] > 0
  /\ think' = "plugin" /\ i' = i + 1
  /\ UNCHANGED <<ignore, due, nextthink>>

NothingPending ==
  /\ i \in Client /\ ~Armed(i)
  /\ i' = i + 1
  /\ UNCHANGED <<ignore, due, think, nextthink>>

(* mutant: a delay that fires ends the loop                                *)
Fire_Returns ==
  /\ i \in Client /\ Armed(i) /\ due[i] <= 0
  /\ due' = [due EXCEPT ![i] = Unarmed]
  /\ i' = Clients + 1
  /\ UNCHANGED <<ignore, think, nextthink>>

(* The loop comes to a client whose delay is due: G_UseTargets3.           *)
Fire ==
  /\ i \in Client /\ Armed(i) /\ due[i] <= 0
  /\ due' = [due EXCEPT ![i] = Unarmed]
  /\ i' = i + 1
  /\ UNCHANGED <<ignore, think, nextthink>>

(* The targets lead back to this entity, for the client the loop has just  *)
(* passed.                                                                 *)
Rearm(wait) ==
  /\ i - 1 \in Client /\ ~Armed(i - 1)
  /\ Arm(i - 1, wait)
  /\ UNCHANGED <<ignore, i>>

ThinkReturns ==
  /\ i = Clients + 1
  /\ nextthink' = Period /\ i' = 0
  /\ UNCHANGED <<ignore, due, think>>

Loop == StillPending \/ NothingPending \/ Fire \/ ThinkReturns

DelayNext ==
  \/ \E c \in Client, wait \in 0 .. MaxWait : TargetDelayUseBy(c, wait)
  \/ \E wait \in 0 .. MaxWait : Rearm(wait)
  \/ UseOriginal \/ Frame \/ Loop

(* Frames keep coming and a loop ends; nobody has to use the entity.       *)
DelayFairness == WF_delayVars(Frame) /\ WF_delayVars(Loop)

DelaySpec == DelayInit /\ [][DelayNext]_delayVars /\ DelayFairness
----------------------------------------------------------------------------
DelayTypeOK ==
  /\ ignore \in BOOLEAN
  /\ due \in [Client -> -MaxLate .. Unarmed]
  /\ think \in {"none", "plugin", "mod"}
  /\ nextthink \in 0 .. Period /\ i \in 0 .. Clients + 1

(* A pending delay fires at most a period after it is due, whatever the    *)
(* other clients do and although they share one think function, unless the *)
(* mod's own think function has taken its place (XG-Hook.cpp:711).         *)
Punctual == think # "mod" => \A c \in Client : Armed(c) => due[c] >= -Period

(* With spawnflag 1 a delay fires, unless the mod's think function stands  *)
(* in its way; without it, a client that keeps using the entity never      *)
(* comes to the end of its delay.                                          *)
Fires == \A c \in Client : ignore /\ Armed(c) ~> ~Armed(c) \/ think = "mod"
============================================================================
