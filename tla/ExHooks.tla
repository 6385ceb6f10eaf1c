------------------------------ MODULE ExHooks ------------------------------
(***************************************************************************)
(* The hooks of EX-Plugin (src/Ex-Plugin/EX-Plugin, XG-Hook.cpp and        *)
(* Main.cpp): InitHooks overwrites the first bytes of functions of the mod *)
(* with a jump into the plugin and keeps the old bytes; a hook that wants  *)
(* the original puts the old bytes back, calls the function, and writes    *)
(* the jump again.  JASS_Attach and the spawn functions also leave         *)
(* pointers into the plugin in the mod's tables and entities.              *)
(*                                                                         *)
(* The plugin is code at a base address; a jump or a pointer is the base   *)
(* it leads to.  JASS_Detach (Main.cpp:153) undoes nothing, and when JASS  *)
(* closes the plugin its base is no longer mapped.                         *)
(***************************************************************************)
EXTENDS Integers, Sequences, FiniteSets

CONSTANTS
  Base,       (* addresses a plugin may be loaded at                       *)
  Ent,        (* entities of the map                                       *)
  Unloads,    (* whether "jass unload" or "jass shutdown" may come         *)
  MaxDepth    (* bound: nested calls                                       *)

ASSUME HookParameters ==
  /\ MaxDepth \in Nat \ {0}
  /\ Unloads \in BOOLEAN
  /\ "mod" \notin Base /\ "none" \notin Base /\ "zero" \notin Base

(* The functions of the mod that are overwritten; LMD_DROP_ADDR is not,    *)
(* because the build has LMD = 2483 (XG-Address.h:2).                      *)
Site == {"DAMAGE", "TARGET_DELAY_ADDR", "TPUSE", "POWERUPSP"}
Through == {"DAMAGE", "TARGET_DELAY_ADDR"}     \* hooks that call the original

VARIABLES
  code,       (* what a site holds: "mod", its own bytes, or a jump        *)
  old,        (* the plugin's old... arrays; "zero" until InitHooks        *)
  base,       (* where the plugin is mapped; "none" if it is not           *)
  spawn,      (* the mod's table of spawn functions                        *)
  use,        (* gentity_t::use of each entity                             *)
  thinks,     (* gentity_t::think of each entity                            *)
  stack,      (* the calls under way, innermost last                       *)
  crashed,    (* the process jumped to an address that is not mapped       *)
  left        (* history: the plugin left the mod's process in this map    *)

hookVars == <<code, old, base, spawn, use, thinks, stack, crashed, left>>

CallFrame == [fn : Site \cup {"use", "think"}, who : Base \cup {"mod"}, called : BOOLEAN]

Call(fn, who) == [fn |-> fn, who |-> who, called |-> FALSE]

idle == stack = <<>>
top == stack[Len(stack)]
Pop(s) == SubSeq(s, 1, Len(s) - 1)
Shallow == Len(stack) < MaxDepth

(* The mod's code is running: its own, or a function it gives the plugin's *)
(* use and think functions to call (G_UseTargets3).                        *)
ModRuns ==
  /\ ~crashed /\ Shallow
  /\ ~idle => top.who = "mod" \/ top.fn \in {"use", "think"}

(* The plugin's hook fn is running and has not called the original.        *)
HookRuns(fns) == ~crashed /\ ~idle /\ top.who # "mod" /\ ~top.called /\ top.fn \in fns

(* Control goes to t for fn, on top of the calls s.                        *)
Jump(s, fn, t) ==
  IF t = "mod" \/ t = base
    THEN stack' = Append(s, Call(fn, t)) /\ UNCHANGED crashed
    ELSE crashed' = TRUE /\ UNCHANGED stack

HookInit ==
  /\ code = [s \in Site |-> "mod"] /\ old = [s \in Site |-> "zero"]
  /\ base = "none" /\ spawn = {}
  /\ use = [e \in Ent |-> "none"] /\ thinks = [e \in Ent |-> "none"]
  /\ stack = <<>> /\ crashed = FALSE /\ left = FALSE
----------------------------------------------------------------------------
(* mutant: InitHooks keeps nothing, as it keeps nothing for SP_LEVEL_CHANGE *)
JASS_Attach_NotSaved(b) ==
  /\ ~crashed /\ idle /\ base = "none"
  /\ base' = b
  /\ code' = [s \in Site |-> b]
  /\ spawn' = {b}
  /\ UNCHANGED <<old, use, thinks, stack, crashed, left>>

(* JASS loads the plugin at b, and JASS_Attach calls InitHooks and         *)
(* registers two spawn functions.                                          *)
JASS_Attach(b) ==
  /\ ~crashed /\ idle /\ base = "none"
  /\ base' = b
  /\ old' = code
  /\ code' = [s \in Site |-> b]
  /\ spawn' = {b}
  /\ UNCHANGED <<use, thinks, stack, crashed, left>>

(* JASS_Detach, and the plugin is closed: by "jass unload" or "jass        *)
(* shutdown", in the middle of a map.                                      *)
JASS_Detach ==
  /\ Unloads /\ ~crashed /\ idle /\ base # "none"
  /\ base' = "none" /\ old' = [s \in Site |-> "zero"]
  /\ left' = TRUE
  /\ UNCHANGED <<code, spawn, use, thinks, stack, crashed>>

(* The map ends: JASS closes its plugins and then the mod.                 *)
MapEnds ==
  /\ ~crashed /\ idle
  /\ code' = [s \in Site |-> "mod"] /\ old' = [s \in Site |-> "zero"]
  /\ base' = "none" /\ spawn' = {}
  /\ use' = [e \in Ent |-> "none"] /\ thinks' = [e \in Ent |-> "none"]
  /\ left' = FALSE
  /\ UNCHANGED <<stack, crashed>>

(* Somewhere in the mod, the function at a site is called.                 *)
Calls(s) ==
  /\ ModRuns
  /\ Jump(stack, s, code[s])
  /\ UNCHANGED <<code, old, base, spawn, use, thinks, left>>

(* The mod's function returns.  The mod's own use function of a delay      *)
(* leaves the mod's think function in the entity.                          *)
ModReturns(e) ==
  /\ ~crashed /\ ~idle /\ top.who = "mod"
  /\ stack' = Pop(stack)
  /\ thinks' = IF top.fn = "TARGET_DELAY_ADDR" THEN [thinks EXCEPT ![e] = "mod"]
                                              ELSE thinks
  /\ UNCHANGED <<code, old, base, spawn, use, crashed, left>>

(* mutant: the hook calls the function without restoring it                *)
HookCallsOriginal_Unrestored ==
  /\ HookRuns(Through) /\ Shallow
  /\ Jump([stack EXCEPT ![Len(stack)].called = TRUE], top.fn, code[top.fn])
  /\ UNCHANGED <<code, old, base, spawn, use, thinks, left>>

(* G_Damage, TargetDelayUse: the old bytes are put back and the function   *)
(* is called.                                                              *)
HookCallsOriginal ==
  /\ HookRuns(Through) /\ Shallow
  /\ code' = [code EXCEPT ![top.fn] = old[top.fn]]
  /\ Jump([stack EXCEPT ![Len(stack)].called = TRUE], top.fn, old[top.fn])
  /\ UNCHANGED <<old, base, spawn, use, thinks, left>>

(* mutant: the jump is not written again                                   *)
HookReturns_Unhooked ==
  /\ ~crashed /\ ~idle /\ top.called
  /\ stack' = Pop(stack)
  /\ UNCHANGED <<code, old, base, spawn, use, thinks, crashed, left>>

(* The original has returned: the jump is written again.                   *)
HookReturns ==
  /\ ~crashed /\ ~idle /\ top.called
  /\ code' = [code EXCEPT ![top.fn] = top.who]
  /\ stack' = Pop(stack)
  /\ UNCHANGED <<old, base, spawn, use, thinks, crashed, left>>

(* TargetDelayUse of a per-client delay: the plugin's own think function   *)
(* is set if there is none, and the original is not called.                *)
TargetDelayUse(e) ==
  /\ HookRuns({"TARGET_DELAY_ADDR"})
  /\ thinks' = [thinks EXCEPT ![e] = IF @ = "none" THEN top.who ELSE @]
  /\ stack' = Pop(stack)
  /\ UNCHANGED <<code, old, base, spawn, use, crashed, left>>

(* Use_Target_Print replaces the original.                                 *)
Use_Target_Print ==
  /\ HookRuns({"TPUSE"})
  /\ stack' = Pop(stack)
  /\ UNCHANGED <<code, old, base, spawn, use, thinks, crashed, left>>

(* SP_target_powerup replaces the original: a new entity gets the plugin's *)
(* target_powerup_use.                                                     *)
SP_target_powerup(e) ==
  /\ HookRuns({"POWERUPSP"})
  /\ use' = [use EXCEPT ![e] = top.who]
  /\ stack' = Pop(stack)
  /\ UNCHANGED <<code, old, base, spawn, thinks, crashed, left>>

(* The mod spawns an "lmd_plugin" or "target_restore" entity with the      *)
(* function in its table, which sets the entity's use function.            *)
SP_target_level_change(e, f) ==
  /\ ModRuns /\ f \in spawn
  /\ IF f = base THEN use' = [use EXCEPT ![e] = f] /\ UNCHANGED crashed
                 ELSE crashed' = TRUE /\ UNCHANGED use
  /\ UNCHANGED <<code, old, base, spawn, thinks, stack, left>>

(* The mod uses an entity; TargetLCUse may use others with G_UseTargets3.  *)
UseEntity(e) ==
  /\ ModRuns /\ use[e] # "none"
  /\ Jump(stack, "use", use[e])
  /\ UNCHANGED <<code, old, base, spawn, use, thinks, left>>

(* A frame of the mod runs TargetDelayThink of an entity, which first      *)
(* takes itself away (what the mod's think functions do is not told).      *)
TargetDelayThink(e) ==
  /\ ModRuns /\ idle /\ thinks[e] \notin {"none", "mod"}
  /\ thinks' = [thinks EXCEPT ![e] = "none"]
  /\ Jump(stack, "think", thinks[e])
  /\ UNCHANGED <<code, old, base, spawn, use, left>>

(* TargetLCUse or TargetDelayThink returns; the latter thinks again if it  *)
(* is still owed.                                                          *)
EntityReturns(e, again) ==
  /\ ~crashed /\ ~idle /\ top.fn \in {"use", "think"}
  /\ again => top.fn = "think"
  /\ thinks' = [thinks EXCEPT ![e] = IF again THEN top.who ELSE @]
  /\ stack' = Pop(stack)
  /\ UNCHANGED <<code, old, base, spawn, use, crashed, left>>

(* The mod frees an entity.                                                *)
FreeEntity(e) ==
  /\ ModRuns
  /\ use' = [use EXCEPT ![e] = "none"] /\ thinks' = [thinks EXCEPT ![e] = "none"]
  /\ UNCHANGED <<code, old, base, spawn, stack, crashed, left>>

HookNext ==
  \/ \E b \in Base : JASS_Attach(b)
  \/ JASS_Detach \/ MapEnds
  \/ \E s \in Site : Calls(s)
  \/ HookCallsOriginal \/ HookReturns \/ Use_Target_Print
  \/ \E e \in Ent : \/ ModReturns(e) \/ TargetDelayUse(e) \/ SP_target_powerup(e)
                    \/ UseEntity(e) \/ TargetDelayThink(e) \/ FreeEntity(e)
                    \/ \E again \in BOOLEAN : EntityReturns(e, again)
                    \/ \E f \in Base : SP_target_level_change(e, f)

HookSpec == HookInit /\ [][HookNext]_hookVars
----------------------------------------------------------------------------
HookTypeOK ==
  /\ code \in [Site -> Base \cup {"mod"}]
  /\ old \in [Site -> Base \cup {"mod", "zero"}]
  /\ base \in Base \cup {"none"}
  /\ spawn \subseteq Base
  /\ use \in [Ent -> Base \cup {"none"}] /\ thinks \in [Ent -> Base \cup {"none", "mod"}]
  /\ stack \in Seq(CallFrame) /\ Len(stack) <= MaxDepth
  /\ crashed \in BOOLEAN /\ left \in BOOLEAN

(* The hook of s is calling the original.                                  *)
Lifted(s) == \E d \in DOMAIN stack : stack[d].fn = s /\ stack[d].called

(* While the plugin is loaded every site holds the jump into it, except    *)
(* while that site's own hook calls the original, when it holds the mod's  *)
(* code; nested hooks, which share the array jump, do not disturb it.      *)
Hooked ==
  /\ HookTypeOK
  /\ base # "none" /\ ~left =>
       \A s \in Site : code[s] = IF Lifted(s) THEN "mod" ELSE base

(* Each outermost call of a hooked function passes the hook exactly once:  *)
(* the mod's body runs under the hook of the same function, and no hook    *)
(* runs under itself, however the functions call each other.               *)
Intercepted ==
  base # "none" /\ ~left =>
    \A d \in DOMAIN stack :
      /\ stack[d].fn \in Site /\ stack[d].who = "mod" =>
           \E c \in 1 .. d - 1 : stack[c].fn = stack[d].fn /\ stack[c].called
      /\ stack[d].who # "mod" /\ stack[d].fn \in Site =>
           \A c \in 1 .. d - 1 : ~(stack[c].fn = stack[d].fn /\ stack[c].called)

(* Over any number of maps, no jump, table or entity leads to code that is *)
(* not mapped, as long as the plugin stays until the map ends.             *)
Pointers == ({code[s] : s \in Site} \cup spawn \cup {use[e] : e \in Ent}
             \cup {thinks[e] : e \in Ent}) \ {"mod", "none"}
NothingDangles == ~left => Pointers \subseteq {base} /\ ~crashed

(* Main.cpp:20, "can this plugin be unloaded via cmd": 1, and XG-Hook.cpp: *)
(* 969, "for unloading support": what is left behind is still mapped.      *)
UnloadSupported == Pointers \subseteq {base}
============================================================================
