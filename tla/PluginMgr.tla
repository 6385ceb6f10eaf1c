----------------------------- MODULE PluginMgr -----------------------------
(***************************************************************************)
(* CPluginMgr and CPlugin of JASS (src/Jass_Source): the list of plugins,  *)
(* the hook dispatch of CallvmMain/Callsyscall, the "jass" console         *)
(* commands that change the list, LoadPlugins at GAME_INIT and the         *)
(* destruction of the manager.                                             *)
(*                                                                         *)
(* The program is single-threaded, but every call it makes into foreign    *)
(* code (a plugin's hook, its JASS_Attach or JASS_Detach, the mod, the     *)
(* engine) may re-enter it: a hook that asks the engine to run a console   *)
(* command comes back through vmMain before the hook returns.  The C call  *)
(* stack is therefore part of the state: stack[1..depth], one frame per    *)
(* activation, of which only the topmost can move.                         *)
(*                                                                         *)
(* CallvmMain and Callsyscall are the same code over the same list, with   *)
(* the mod's vmMain and the engine's syscall as the original function:     *)
(* one kind of frame stands for both.                                      *)
(***************************************************************************)
EXTENDS Integers, Sequences, FiniteSets

CONSTANTS
  File,       (* plugin DLL files                                          *)
  LoadCmd,    (* plugininfo.loadcmd:   files "jass load" accepts           *)
  UnloadCmd,  (* plugininfo.unloadcmd: files "jass unload" accepts         *)
  CanPause,   (* plugininfo.canpause:  files "jass pause" accepts          *)
  ConfList,   (* the "plugins" list of jass.ini                            *)
  MaxNode,    (* bound: plugins added to the list between two GAME_INITs   *)
  MaxDepth,   (* bound: nested activations                                 *)
  Freedoms,   (* what foreign code may do beyond the usual (see below)     *)
  NoFile

(***************************************************************************)
(* Freedoms of the foreign code, each allowed by the plugin interface:     *)
(*   "earlySet"   a hook uses JASS_SET_RESULT and only later returns;      *)
(*   "selfUnload" a command issued from inside a plugin unloads a plugin   *)
(*                that is on the call stack.                               *)
(***************************************************************************)
ASSUME Parameters ==
  /\ LoadCmd \subseteq File /\ UnloadCmd \subseteq File /\ CanPause \subseteq File
  /\ ConfList \in Seq(File)
  /\ MaxNode \in Nat /\ Len(ConfList) <= MaxNode
  /\ MaxDepth \in Nat /\ MaxDepth >= 2
  /\ Freedoms \subseteq {"earlySet", "selfUnload"}
  /\ NoFile \notin File

JASS_UNUSED == -2
JASS_ERROR == -1
JASS_IGNORED == 0
JASS_OVERRIDE == 1
JASS_SUPERCEDE == 2
Unknown == 3                    \* any value outside the enumeration
pluginres == JASS_UNUSED .. Unknown
Verdict == {JASS_IGNORED, JASS_OVERRIDE, JASS_SUPERCEDE}  \* jassapi.h:93

Node == 1 .. MaxNode            \* list nodes, each with its CPlugin
Nil == 0
Original == MaxNode + 1         \* "the value the original function returned"

VARIABLES
  live,      (* the nodes in the plugin list; add() appends, so a node's   *)
             (* number is the order of its addition and of the list        *)
  file,      (* the DLL of each node                                       *)
  paused,    (* CPlugin::paused of each node                               *)
  nextNode,  (* the node add() creates next                                *)
  open,      (* util.cpp's table of loaded plugin modules                  *)
  result,    (* the static CPlugin::result every plugin writes through     *)
  up,        (* between GAME_INIT and GAME_SHUTDOWN                        *)
  s_shutdown,(* main.cpp: "shutdown mode", kept by the cvar ~jass_shutdown *)
  conf,      (* LoadPlugins: position in ConfList                          *)
  stack,     (* the activations, stack[1] the outermost                    *)
  depth,     (* number of activations                                      *)
  hist       (* history, per activation: what the properties speak about   *)

code == <<live, file, paused, nextNode, open, result, up, s_shutdown, conf, stack, depth>>
vars == <<code, hist>>

(***************************************************************************)
(* Frames.  A frame waits in a loop head ("pre", "post", "conf", "kill")   *)
(* or for a call into foreign code to return (the other phases).           *)
(***************************************************************************)
Loops == {"pre", "post", "conf", "kill"}
Hooks == {"hook", "posthook"}
Calls == Hooks \cup {"orig", "exec", "attach", "discard", "detach", "killing"}

Frame == [phase : Loops \cup Calls \cup {"none"}, cur : Node \cup {Nil},
          dll : File \cup {NoFile}, max : Verdict \cup {JASS_UNUSED},
          ret : Node \cup {Nil, Original}]

NoFrame == [phase |-> "none", cur |-> Nil, dll |-> NoFile,
            max |-> JASS_UNUSED, ret |-> Nil]

(* History of an activation: the nodes listed and unpaused ever since it   *)
(* began, those whose pre- and post-hook it called, those whose verdict    *)
(* claimed the result, those whose verdict forbade the original, whether   *)
(* its current hook wrote the result, and the calls of the original.       *)
History == [steady : SUBSET Node, asked : SUBSET Node, told : SUBSET Node,
            claims : SUBSET Node, vetoes : SUBSET Node, wrote : pluginres,
            lost : BOOLEAN, orig : 0 .. 1]

NoHistory == [steady |-> {}, asked |-> {}, told |-> {}, claims |-> {},
              vetoes |-> {}, wrote |-> JASS_UNUSED, lost |-> FALSE, orig |-> 0]

top == stack[depth]

(* CLinkList::first and CLinkNode::next over the nodes in the list.        *)
Least(S) == IF S = {} THEN Nil ELSE CHOOSE n \in S : \A m \in S : n <= m
first == Least(live)
next_Unlinked(n) == Least({m \in 1 .. nextNode - 1 : m > n})  \* mutant: freed nodes stay linked
next(n) == Least({m \in live : m > n})

Push(f, h) == /\ depth < MaxDepth
              /\ depth' = depth + 1
              /\ stack' = [stack EXCEPT ![depth + 1] = f]
              /\ hist' = [hist EXCEPT ![depth + 1] = h]

Pop == /\ depth' = depth - 1
       /\ stack' = [stack EXCEPT ![depth] = NoFrame]
       /\ hist' = [hist EXCEPT ![depth] = NoHistory]

Go(f) == stack' = [stack EXCEPT ![depth] = f] /\ UNCHANGED depth
Note(h) == hist' = [hist EXCEPT ![depth] = h]

(* A node that leaves the list or is paused is no longer steady.           *)
Unsteady(S) == hist' = [d \in 1 .. MaxDepth |-> [hist[d] EXCEPT !.steady = @ \ S]]

InPhase(P) == depth > 0 /\ top.phase \in P

(* Foreign code is running: the engine's main loop, or a callback.  While  *)
(* the manager is being destroyed (main.cpp:620) its plugins' JASS_Detach  *)
(* do not come back into it.                                               *)
Foreign == /\ up /\ s_shutdown = 0
           /\ depth = 0 \/ InPhase(Calls \ {"killing"})

(* The plugins some activation is inside of.                               *)
Busy == {stack[d].cur : d \in 1 .. depth} \ {Nil}
----------------------------------------------------------------------------
Init ==
  /\ live = {} /\ open = {} /\ nextNode = 1
  /\ file = [n \in Node |-> NoFile]
  /\ paused = [n \in Node |-> FALSE]
  /\ result = JASS_UNUSED
  /\ up = FALSE /\ s_shutdown = 0 /\ conf = 1
  /\ stack = [d \in 1 .. MaxDepth |-> NoFrame] /\ depth = 0
  /\ hist = [d \in 1 .. MaxDepth |-> NoHistory]

PreFrame == [NoFrame EXCEPT !.phase = "pre", !.cur = first]
PreHistory == [NoHistory EXCEPT !.steady = {n \in live : ~paused[n]}]

(***************************************************************************)
(* Hook dispatch.                                                          *)
(***************************************************************************)

(* vmMain or JASS_syscall is called and reaches CallvmMain/Callsyscall.    *)
Dispatch ==
  /\ Foreign
  /\ Push(PreFrame, PreHistory)
  /\ UNCHANGED <<live, file, paused, nextNode, open, result, up, s_shutdown, conf>>

(* mutants: "continue" without advancing; advancing twice                  *)
SkipPaused_Stuck ==
  /\ InPhase({"pre", "post"}) /\ top.cur \in live /\ paused[top.cur]
  /\ UNCHANGED vars
SkipPaused_Twice ==
  /\ InPhase({"pre", "post"}) /\ top.cur \in live /\ paused[top.cur]
  /\ Go([top EXCEPT !.cur = IF next(top.cur) = Nil THEN Nil ELSE next(next(top.cur))])
  /\ UNCHANGED <<live, file, paused, nextNode, open, result, up, s_shutdown, conf, hist>>

(* The loop skips a paused plugin, in either pass.                         *)
SkipPaused ==
  /\ InPhase({"pre", "post"}) /\ top.cur \in live /\ paused[top.cur]
  /\ Go([top EXCEPT !.cur = next(top.cur)])
  /\ UNCHANGED <<live, file, paused, nextNode, open, result, up, s_shutdown, conf, hist>>

(* The loop calls the plugin's JASS_vmMain/JASS_syscall ...                *)
CallHook ==
  /\ InPhase({"pre"}) /\ top.cur \in live /\ ~paused[top.cur]
  /\ Go([top EXCEPT !.phase = "hook"])
  /\ Note([hist[depth] EXCEPT !.asked = @ \cup {top.cur}])
  /\ UNCHANGED <<live, file, paused, nextNode, open, result, up, s_shutdown, conf>>

(* ... which may write the shared result with JASS_SET_RESULT and go on.   *)
SetResult(v) ==
  /\ "earlySet" \in Freedoms
  /\ InPhase(Hooks)
  /\ result' = v
  /\ Note([hist[depth] EXCEPT !.wrote = v])
  /\ UNCHANGED <<live, file, paused, nextNode, open, up, s_shutdown, conf, stack, depth>>

(* mutants of Judge: any value raises max; the last verdict replaces max;  *)
(* the default branch does not advance                                     *)
Judge_AnyRaises(f, v) ==
  [f EXCEPT !.phase = "pre", !.cur = next(f.cur),
            !.ret = IF v \in {JASS_OVERRIDE, JASS_SUPERCEDE} THEN f.cur ELSE @,
            !.max = IF @ < v THEN v ELSE @]
Judge_LastWins(f, v) ==
  [f EXCEPT !.phase = "pre", !.cur = next(f.cur),
            !.ret = IF v \in {JASS_OVERRIDE, JASS_SUPERCEDE} THEN f.cur ELSE @,
            !.max = IF v \in Verdict THEN v ELSE @]
Judge_DefaultStays(f, v) ==
  [f EXCEPT !.phase = "pre", !.cur = IF v = Unknown THEN f.cur ELSE next(f.cur),
            !.ret = IF v \in {JASS_OVERRIDE, JASS_SUPERCEDE} THEN f.cur ELSE @,
            !.max = IF v \in Verdict /\ @ < v THEN v ELSE @]

(* The hook returns and the loop judges the result the static now holds: v *)
(* is what a JASS_RET_ macro wrote in the return itself, or whatever was   *)
(* there before.                                                           *)
Judge(f, v) ==
  [f EXCEPT !.phase = "pre",
            !.cur = next(f.cur),
            !.ret = IF v \in {JASS_OVERRIDE, JASS_SUPERCEDE} THEN f.cur ELSE @,
            !.max = IF v \in Verdict /\ @ < v THEN v ELSE @]

HookReturns(v) ==
  /\ InPhase({"hook"}) /\ top.cur \in live
  /\ v \in Verdict \cup {JASS_ERROR, Unknown, result}
  /\ Go(Judge(top, v))
  /\ result' = JASS_UNUSED
  /\ Note([hist[depth] EXCEPT
         !.claims = IF v \in {JASS_OVERRIDE, JASS_SUPERCEDE} THEN @ \cup {top.cur} ELSE @,
         !.vetoes = IF v = JASS_SUPERCEDE THEN @ \cup {top.cur} ELSE @,
         !.lost = @ \/ (hist[depth].wrote = JASS_SUPERCEDE /\ v = JASS_UNUSED),
         !.wrote = JASS_UNUSED])
  /\ UNCHANGED <<live, file, paused, nextNode, open, up, s_shutdown, conf>>

(* After the pre-hooks the original function is called, unless superceded. *)
CallOriginal ==
  /\ InPhase({"pre"}) /\ top.cur = Nil /\ top.max # JASS_SUPERCEDE
  /\ Go([top EXCEPT !.phase = "orig"])
  /\ Note([hist[depth] EXCEPT !.orig = 1])
  /\ UNCHANGED <<live, file, paused, nextNode, open, result, up, s_shutdown, conf>>

(* mutant: the override is not respected *)
OriginalReturns_Always ==
  /\ InPhase({"orig"})
  /\ Go([top EXCEPT !.phase = "post", !.cur = first, !.ret = Original])
  /\ UNCHANGED <<live, file, paused, nextNode, open, result, up, s_shutdown, conf, hist>>

OriginalReturns ==
  /\ InPhase({"orig"})
  /\ Go([top EXCEPT !.phase = "post", !.cur = first,
                    !.ret = IF top.max = JASS_OVERRIDE THEN @ ELSE Original])
  /\ UNCHANGED <<live, file, paused, nextNode, open, result, up, s_shutdown, conf, hist>>

Superceded ==
  /\ InPhase({"pre"}) /\ top.cur = Nil /\ top.max = JASS_SUPERCEDE
  /\ Go([top EXCEPT !.phase = "post", !.cur = first])
  /\ UNCHANGED <<live, file, paused, nextNode, open, result, up, s_shutdown, conf, hist>>

(* mutants: paused plugins get post-hooks; the post pass does not reset    *)
CallPostHook_Paused ==
  /\ InPhase({"post"}) /\ top.cur \in live
  /\ Go([top EXCEPT !.phase = "posthook"])
  /\ Note([hist[depth] EXCEPT !.told = @ \cup {top.cur}])
  /\ UNCHANGED <<live, file, paused, nextNode, open, result, up, s_shutdown, conf>>
PostHookReturns_NoReset ==
  /\ InPhase({"posthook"}) /\ top.cur \in live
  /\ Go([top EXCEPT !.phase = "post", !.cur = next(top.cur)])
  /\ Note([hist[depth] EXCEPT !.wrote = JASS_UNUSED])
  /\ UNCHANGED <<live, file, paused, nextNode, open, result, up, s_shutdown, conf>>

(* The second pass calls JASS_vmMain_Post/JASS_syscall_Post.               *)
CallPostHook ==
  /\ InPhase({"post"}) /\ top.cur \in live /\ ~paused[top.cur]
  /\ Go([top EXCEPT !.phase = "posthook"])
  /\ Note([hist[depth] EXCEPT !.told = @ \cup {top.cur}])
  /\ UNCHANGED <<live, file, paused, nextNode, open, result, up, s_shutdown, conf>>

PostHookReturns ==
  /\ InPhase({"posthook"}) /\ top.cur \in live
  /\ result' = JASS_UNUSED
  /\ Go([top EXCEPT !.phase = "post", !.cur = next(top.cur)])
  /\ Note([hist[depth] EXCEPT !.wrote = JASS_UNUSED])
  /\ UNCHANGED <<live, file, paused, nextNode, open, up, s_shutdown, conf>>

(* CallvmMain/Callsyscall returns top.ret to its caller.                   *)
DispatchReturns ==
  /\ InPhase({"post"}) /\ top.cur = Nil
  /\ Pop
  /\ UNCHANGED <<live, file, paused, nextNode, open, result, up, s_shutdown, conf>>

(***************************************************************************)
(* LoadPlugin: LoadQuery, JASS_Attach, then the list.                      *)
(***************************************************************************)

(* Nodes still promised to plugins being attached or listed in ConfList.   *)
Reserved == Cardinality({d \in 1 .. depth : stack[d].phase = "attach"})
            + (Len(ConfList) + 1 - conf)

(* LoadQuery refuses a module already in the table.                        *)
Loadable(f) == f \notin open

BeginAttach(f) ==
  /\ open' = open \cup {f}
  /\ Push([NoFrame EXCEPT !.phase = "attach", !.dll = f], NoHistory)

(* "jass load"                                                             *)
LoadCommand(f) ==
  /\ Foreign
  /\ nextNode + Reserved <= MaxNode
  /\ f \in LoadCmd /\ Loadable(f)
  /\ BeginAttach(f)
  /\ UNCHANGED <<live, file, paused, nextNode, result, up, s_shutdown, conf>>

(* JASS_Attach returns 1: the plugin goes to the end of the list.          *)
AttachAccepts ==
  /\ InPhase({"attach"}) /\ nextNode <= MaxNode
  /\ live' = live \cup {nextNode}
  /\ file' = [file EXCEPT ![nextNode] = top.dll]
  /\ nextNode' = nextNode + 1
  /\ Pop
  /\ UNCHANGED <<paused, open, result, up, s_shutdown, conf>>

(* JASS_Attach returns 0: Unload(0) calls JASS_Detach and closes the DLL.  *)
AttachRefuses ==
  /\ InPhase({"attach"})
  /\ Go([top EXCEPT !.phase = "discard"])
  /\ UNCHANGED <<live, file, paused, nextNode, open, result, up, s_shutdown, conf, hist>>

DiscardReturns ==
  /\ InPhase({"discard"})
  /\ open' = open \ {top.dll}
  /\ Pop
  /\ UNCHANGED <<live, file, paused, nextNode, result, up, s_shutdown, conf>>

(***************************************************************************)
(* The other commands on a plugin.                                         *)
(***************************************************************************)
Pause(n) ==
  /\ Foreign /\ n \in live
  /\ file[n] \in CanPause /\ ~paused[n]
  /\ paused' = [paused EXCEPT ![n] = TRUE]
  /\ Unsteady({n})
  /\ UNCHANGED <<live, file, nextNode, open, result, up, s_shutdown, conf, stack, depth>>

Unpause(n) ==
  /\ Foreign /\ n \in live /\ paused[n]
  /\ paused' = [paused EXCEPT ![n] = FALSE]
  /\ UNCHANGED <<live, file, nextNode, open, result, up, s_shutdown, conf, stack, depth, hist>>

(* mutant: the DLL is closed before JASS_Detach runs *)
Unload_CloseFirst(n, iscmd) ==
  /\ Foreign /\ n \in live
  /\ n \notin Busy \/ "selfUnload" \in Freedoms
  /\ iscmd => file[n] \in UnloadCmd
  /\ open' = open \ {file[n]}
  /\ Push([NoFrame EXCEPT !.phase = "detach", !.cur = n], NoHistory)
  /\ UNCHANGED <<live, file, paused, nextNode, result, up, s_shutdown, conf>>

(* CPlugin::Unload refuses "jass unload" without unloadcmd; "jass          *)
(* force_unload" passes iscmd = 0 and is never refused.                    *)
Unload(n, iscmd) ==
  /\ Foreign /\ n \in live
  /\ n \notin Busy \/ "selfUnload" \in Freedoms
  /\ iscmd => file[n] \in UnloadCmd
  /\ Push([NoFrame EXCEPT !.phase = "detach", !.cur = n], NoHistory)
  /\ UNCHANGED <<live, file, paused, nextNode, open, result, up, s_shutdown, conf>>

(* JASS_Detach returns: the DLL is closed, the node unlinked and freed.    *)
DetachReturns ==
  /\ InPhase({"detach"}) /\ top.cur \in live
  /\ open' = open \ {file[top.cur]}
  /\ live' = live \ {top.cur}
  /\ file' = [file EXCEPT ![top.cur] = NoFile]
  /\ paused' = [paused EXCEPT ![top.cur] = FALSE]
  /\ depth' = depth - 1
  /\ stack' = [stack EXCEPT ![depth] = NoFrame]
  /\ Unsteady({top.cur})
  /\ UNCHANGED <<nextNode, result, up, s_shutdown, conf>>

(***************************************************************************)
(* GAME_INIT, "jass shutdown" and GAME_SHUTDOWN.                           *)
(***************************************************************************)

(* GAME_INIT runs jassconfig.cfg with EXEC_NOW ("exec"), then LoadPlugins  *)
(* ("conf"), then dispatches the message itself.                           *)
GameInit ==
  /\ ~up /\ s_shutdown = 0
  /\ up' = TRUE /\ conf' = 1
  /\ Push([NoFrame EXCEPT !.phase = "exec"], NoHistory)
  /\ UNCHANGED <<live, file, paused, nextNode, open, result, s_shutdown>>

ExecReturns ==
  /\ InPhase({"exec"})
  /\ Go([top EXCEPT !.phase = "conf"])
  /\ UNCHANGED <<live, file, paused, nextNode, open, result, up, s_shutdown, conf, hist>>

ConfLoad ==
  /\ InPhase({"conf"}) /\ conf <= Len(ConfList)
  /\ conf' = conf + 1
  /\ IF Loadable(ConfList[conf])
       THEN BeginAttach(ConfList[conf])
       ELSE UNCHANGED <<open, stack, depth, hist>>
  /\ UNCHANGED <<live, file, paused, nextNode, result, up, s_shutdown>>

ConfDone ==
  /\ InPhase({"conf"}) /\ conf > Len(ConfList)
  /\ Go(PreFrame)
  /\ Note(PreHistory)
  /\ UNCHANGED <<live, file, paused, nextNode, open, result, up, s_shutdown, conf>>

(* "jass shutdown" sets s_shutdown first, so whatever the plugins'         *)
(* JASS_Detach call goes straight to the mod or the engine: one step.      *)
ShutdownCommand ==
  /\ up /\ s_shutdown = 0 /\ depth = 0
  /\ s_shutdown' = 1
  /\ live' = {} /\ open' = {}
  /\ file' = [n \in Node |-> NoFile]
  /\ paused' = [n \in Node |-> FALSE]
  /\ UNCHANGED <<nextNode, result, up, conf, stack, depth, hist>>

(* After the dispatch of GAME_SHUTDOWN: delete g_PluginMgr.                *)
GameShutdown ==
  /\ up /\ s_shutdown = 0 /\ depth = 0
  /\ Push([NoFrame EXCEPT !.phase = "kill", !.cur = first], NoHistory)
  /\ UNCHANGED <<live, file, paused, nextNode, open, result, up, s_shutdown, conf>>

(* UnloadPlugins: Unload(0) on each node, which stays in the list ...      *)
KillNext ==
  /\ InPhase({"kill"}) /\ top.cur \in live
  /\ Go([top EXCEPT !.phase = "killing"])
  /\ UNCHANGED <<live, file, paused, nextNode, open, result, up, s_shutdown, conf, hist>>

KillReturns ==
  /\ InPhase({"killing"}) /\ top.cur \in live
  /\ open' = open \ {file[top.cur]}
  /\ Go([top EXCEPT !.phase = "kill", !.cur = next(top.cur)])
  /\ UNCHANGED <<live, file, paused, nextNode, result, up, s_shutdown, conf, hist>>

(* ... until ~CLinkList frees them all; the engine then unloads JASS.      *)
Killed ==
  /\ InPhase({"kill"}) /\ top.cur = Nil
  /\ live' = {} /\ nextNode' = 1 /\ up' = FALSE /\ conf' = 1
  /\ file' = [n \in Node |-> NoFile]
  /\ paused' = [n \in Node |-> FALSE]
  /\ Pop
  /\ UNCHANGED <<open, result, s_shutdown>>
----------------------------------------------------------------------------
(* The steps of JASS itself, between two calls into foreign code.          *)
Step ==
  \/ SkipPaused \/ CallHook \/ CallOriginal \/ Superceded
  \/ CallPostHook \/ DispatchReturns
  \/ ConfLoad \/ ConfDone \/ KillNext \/ Killed

(* A call into foreign code returns.                                       *)
Return ==
  \/ \E v \in pluginres : HookReturns(v)
  \/ OriginalReturns \/ PostHookReturns
  \/ AttachAccepts \/ AttachRefuses \/ DiscardReturns \/ DetachReturns
  \/ ExecReturns \/ KillReturns

(* Foreign code calls into JASS, or writes the result.                     *)
Enter ==
  \/ Dispatch
  \/ \E v \in Verdict : SetResult(v)
  \/ \E f \in File : LoadCommand(f)
  \/ \E n \in Node : Pause(n) \/ Unpause(n)
  \/ \E n \in Node, iscmd \in BOOLEAN : Unload(n, iscmd)
  \/ GameInit \/ ShutdownCommand \/ GameShutdown

Next == Step \/ Return \/ Enter

Spec == Init /\ [][Next]_vars

(* The code runs on when foreign code has returned to it, and foreign code *)
(* returns from each activation in the end, even if it re-enters JASS any  *)
(* number of times first (strong fairness per stack level: a re-entry      *)
(* disables the return of the level below).                                *)
FairSpec ==
  /\ Spec
  /\ WF_vars(Step)
  /\ \A d \in 1 .. MaxDepth : SF_vars(depth = d /\ Return)
----------------------------------------------------------------------------
(* The types; maxresult is UNUSED or a verdict, so the last "default:" of  *)
(* CallvmMain (CPluginMgr.cpp:303) is never reached.                       *)
TypeOK ==
  /\ live \subseteq Node
  /\ file \in [Node -> File \cup {NoFile}]
  /\ paused \in [Node -> BOOLEAN]
  /\ nextNode \in 1 .. MaxNode + 1
  /\ open \subseteq File
  /\ result \in pluginres
  /\ up \in BOOLEAN /\ s_shutdown \in {0, 1}
  /\ conf \in 1 .. Len(ConfList) + 1
  /\ depth \in 0 .. MaxDepth
  /\ stack \in [1 .. MaxDepth -> Frame]
  /\ hist \in [1 .. MaxDepth -> History]

(* Every activation's cursor points at a node that is still in the list:   *)
(* no plugin object is used after its node was freed, whatever commands    *)
(* the callbacks issued meanwhile (CPluginMgr.cpp:228-299).                *)
CursorLive ==
  \A d \in 1 .. depth : stack[d].cur # Nil => stack[d].cur \in live

(* The code a hook or a JASS_Detach executes is mapped: the DLL of every   *)
(* plugin on the call stack is open until that call has returned, and so   *)
(* is the DLL of every listed plugin, except while the manager dies.       *)
CodeMapped ==
  /\ \A d \in 1 .. depth :
       /\ stack[d].phase \in Hooks \cup {"detach", "killing"} =>
            file[stack[d].cur] \in open
       /\ stack[d].phase \in {"attach", "discard"} => stack[d].dll \in open
  /\ ~InPhase({"kill", "killing"}) => {file[n] : n \in live} \subseteq open

(* Once the pre-hooks are over, the value a dispatch returns is that of    *)
(* the last plugin that said OVERRIDE or SUPERCEDE, and the original's if  *)
(* none did, whatever dispatches were nested in the hooks.                 *)
ReturnProvenance ==
  \A d \in 1 .. depth : stack[d].phase \in {"post", "posthook"} =>
    stack[d].ret = IF hist[d].claims = {} THEN Original
                   ELSE CHOOSE n \in hist[d].claims : \A m \in hist[d].claims : m <= n

(* The original function runs exactly once per dispatch if no hook said    *)
(* SUPERCEDE and never if one did, whatever the other hooks said later.    *)
OriginalUnlessVetoed ==
  \A d \in 1 .. depth : stack[d].phase \in {"post", "posthook"} =>
    hist[d].orig = IF hist[d].vetoes = {} THEN 1 ELSE 0

(* No plugin is overlooked: one that was listed and unpaused during the    *)
(* whole dispatch has had its pre-hook called when the original is, and    *)
(* its post-hook when the dispatch returns, even if the list changed       *)
(* around it in the middle of a pass.                                      *)
NobodyOverlooked ==
  \A d \in 1 .. depth :
    /\ stack[d].phase \in {"orig", "post", "posthook"} => hist[d].steady \subseteq hist[d].asked
    /\ stack[d].phase = "post" /\ stack[d].cur = Nil => hist[d].steady \subseteq hist[d].told

(* No hook is called twice in one pass: the hooks called so far are those  *)
(* of nodes before the cursor (nodes added meanwhile come after it).       *)
NeverTwice ==
  \A d \in 1 .. depth :
    /\ stack[d].phase = "pre" /\ stack[d].cur # Nil =>
         \A n \in hist[d].asked : n < stack[d].cur
    /\ stack[d].phase = "post" /\ stack[d].cur # Nil =>
         \A n \in hist[d].told : n < stack[d].cur

(* The shared result is clean whenever no hook is running: a verdict is    *)
(* never left over for the next message (ResetResult on every path).       *)
ResultClean ==
  (\A d \in 1 .. depth : stack[d].phase \notin Hooks) => result = JASS_UNUSED

(* Every call into JASS returns: no loop over the list is left standing on *)
(* a plugin that is paused, unloaded or added in the middle of it, given   *)
(* that only finitely many plugins are loaded meanwhile (MaxNode).         *)
CallsReturn == depth > 0 ~> depth = 0

(* The manager keeps PluginContract with every DLL: hooks only between an  *)
(* accepting JASS_Attach and JASS_Detach and not while paused, exactly one *)
(* JASS_Detach per JASS_Attach, and never one under a running hook.        *)
RunningIn(P, f) == {d \in 1 .. depth : stack[d].phase \in P /\ stack[d].cur # Nil
                                      /\ file[stack[d].cur] = f}
StateOf(f) ==
  IF f \notin open THEN "out"
  ELSE IF \E d \in 1 .. depth : stack[d].phase = "attach" /\ stack[d].dll = f THEN "attaching"
  ELSE IF \E d \in 1 .. depth : stack[d].phase = "discard" /\ stack[d].dll = f THEN "refused"
  ELSE IF RunningIn({"detach", "killing"}, f) # {} THEN "leaving"
  ELSE "in"

Contract == INSTANCE PluginContract WITH
  MaxCalls <- MaxDepth,
  state <- [f \in File |-> StateOf(f)],
  resting <- [f \in File |-> \E n \in live : file[n] = f /\ f \in open /\ paused[n]],
  running <- [f \in File |-> Cardinality(RunningIn(Hooks, f))]

KeepsContract == Contract!Spec

(* jassapi.h:148-149, JASS_RET_SUPERCEDE: "original func will NOT be       *)
(* called and this result will be returned".                               *)
SupercedeIsReturned ==
  \A d \in 1 .. depth : stack[d].phase \in {"post", "posthook"} /\ hist[d].vetoes # {} =>
    stack[d].ret \in hist[d].vetoes

(* jassapi.h:141-142, "Macro for plugin result ... JASS_SET_RESULT(x)":    *)
(* a hook that set SUPERCEDE and nothing else since has superceded.        *)
SetResultHolds == \A d \in 1 .. depth : ~hist[d].lost
============================================================================
