------------------------- MODULE PluginMgr_proofs -------------------------
(***************************************************************************)
(* Proofs about PluginMgr, for any plugins, rights and bounds, and that it *)
(* implements PluginContract.                                              *)
(***************************************************************************)
EXTENDS PluginMgr, FiniteSetTheorems, WellFoundedInduction, TLAPS

LEMMA LeastIn ==
  ASSUME NEW S, S \subseteq Node
  PROVE  /\ Least(S) \in S \cup {Nil}
         /\ S # {} => Least(S) \in S
         /\ S # {} => \A m \in S : Least(S) <= m
<1>1. CASE S = {}
  BY <1>1 DEF Least
<1>2. CASE S # {}
  <2>1. S \subseteq Nat
    BY Parameters DEF Node
  <2> DEFINE R == {p \in Nat \X Nat : p[1] < p[2]}
  <2>a. IsWellFoundedOn(R, Nat)
    BY NatLessThanWellFounded, Zenon DEF OpToRel
  <2>2. PICK n \in S : \A m \in S : ~ (<<m, n>> \in R)
    <3> HIDE DEF R
    <3> QED BY <1>2, <2>1, <2>a, WFMin, Zenon
  <2>3. ASSUME NEW m \in S PROVE n <= m
    <3>1. m \in Nat /\ n \in Nat
      BY <2>1
    <3>2. m < n => <<m, n>> \in R
      BY <3>1
    <3>3. ~ (m < n)
      BY <3>2, <2>2, Zenon
    <3>4. QED
      BY <3>1, <3>3
  <2>4. QED
    BY <1>2, <2>3 DEF Least
<1>3. QED
  BY <1>1, <1>2

(***************************************************************************)
(* Types of what the actions build.                                        *)
(***************************************************************************)
LEMMA CursorTypes ==
  ASSUME TypeOK, NEW n
  PROVE  first \in live \cup {Nil} /\ next(n) \in live \cup {Nil}
<1>1. live \subseteq Node /\ {m \in live : m > n} \subseteq Node
  BY DEF TypeOK
<1>2. Least(live) \in live \cup {Nil}
  BY <1>1, LeastIn
<1>3. Least({m \in live : m > n}) \in {m \in live : m > n} \cup {Nil}
  BY <1>1, LeastIn
<1>4. QED
  BY <1>2, <1>3 DEF first, next

LEMMA FrameTypes ==
  ASSUME TypeOK
  PROVE  NoFrame \in Frame /\ NoHistory \in History
         /\ PreFrame \in Frame /\ PreHistory \in History
<1>1. NoFrame \in Frame
  BY DEF NoFrame, Frame, Loops, Calls, Verdict, Nil
<1>2. NoHistory \in History
  BY DEF NoHistory, History, pluginres, JASS_UNUSED, Unknown
<1>3. first \in Node \cup {Nil}
  BY CursorTypes DEF TypeOK
<1>4. PreFrame \in Frame
  BY <1>1, <1>3 DEF PreFrame, Frame, Loops
<1>5. {n \in live : ~paused[n]} \in SUBSET Node
  BY DEF TypeOK
<1>6. PreHistory \in History
  BY <1>2, <1>5 DEF PreHistory, History
<1>7. QED
  BY <1>1, <1>2, <1>4, <1>6

LEMMA TopType ==
  ASSUME TypeOK, depth > 0
  PROVE  /\ depth \in 1 .. MaxDepth
         /\ top \in Frame
         /\ hist[depth] \in History
BY Parameters DEF TypeOK, top

LEMMA GoType ==
  ASSUME TypeOK, depth > 0, NEW f \in Frame, Go(f)
  PROVE  stack' \in [1 .. MaxDepth -> Frame] /\ depth' = depth
BY TopType DEF TypeOK, Go

LEMMA NoteType ==
  ASSUME TypeOK, depth > 0, NEW h \in History, Note(h)
  PROVE  hist' \in [1 .. MaxDepth -> History]
BY TopType DEF TypeOK, Note

LEMMA PushType ==
  ASSUME TypeOK, NEW f \in Frame, NEW h \in History, Push(f, h)
  PROVE  /\ stack' \in [1 .. MaxDepth -> Frame]
         /\ hist' \in [1 .. MaxDepth -> History]
         /\ depth' \in 0 .. MaxDepth
BY Parameters DEF TypeOK, Push

LEMMA PopType ==
  ASSUME TypeOK, depth > 0, Pop
  PROVE  /\ stack' \in [1 .. MaxDepth -> Frame]
         /\ hist' \in [1 .. MaxDepth -> History]
         /\ depth' \in 0 .. MaxDepth
BY Parameters, FrameTypes, TopType DEF TypeOK, Pop

LEMMA VerdictNoted ==
  ASSUME NEW r \in History, NEW c \in SUBSET Node, NEW w \in SUBSET Node,
         NEW b \in BOOLEAN, NEW u \in pluginres
  PROVE  [r EXCEPT !.claims = c, !.vetoes = w, !.lost = b, !.wrote = u] \in History
BY DEF History

LEMMA UnsteadyType ==
  ASSUME TypeOK, NEW S, Unsteady(S)
  PROVE  hist' \in [1 .. MaxDepth -> History]
<1>1. ASSUME NEW d \in 1 .. MaxDepth
      PROVE  [hist[d] EXCEPT !.steady = @ \ S] \in History
  BY DEF TypeOK, History
<1>2. QED
  BY <1>1 DEF Unsteady

(***************************************************************************)
(* Every step keeps the types: one step per action of Next.                *)
(***************************************************************************)
LEMMA LoopTypes ==
  ASSUME TypeOK, Step
  PROVE  TypeOK'
<1> USE DEF InPhase
<1>1. CASE SkipPaused
  <2>1. [top EXCEPT !.cur = next(top.cur)] \in Frame
    BY <1>1, TopType, CursorTypes DEF SkipPaused, Frame, TypeOK
  <2>2. QED
    BY <1>1, <2>1, GoType DEF SkipPaused, TypeOK
<1>2. CASE CallHook
  <2>1. [top EXCEPT !.phase = "hook"] \in Frame
    BY <1>2, TopType DEF CallHook, Frame, Calls, Hooks
  <2>2. [hist[depth] EXCEPT !.asked = @ \cup {top.cur}] \in History
    BY <1>2, TopType DEF CallHook, History, TypeOK
  <2>3. QED
    BY <1>2, <2>1, <2>2, GoType, NoteType DEF CallHook, TypeOK
<1>3. CASE CallOriginal
  <2>1. [top EXCEPT !.phase = "orig"] \in Frame
    BY <1>3, TopType DEF CallOriginal, Frame, Calls
  <2>2. [hist[depth] EXCEPT !.orig = 1] \in History
    BY <1>3, TopType DEF CallOriginal, History
  <2>3. QED
    BY <1>3, <2>1, <2>2, GoType, NoteType DEF CallOriginal, TypeOK
<1>4. CASE Superceded
  <2>1. [top EXCEPT !.phase = "post", !.cur = first] \in Frame
    BY <1>4, TopType, CursorTypes DEF Superceded, Frame, Loops, TypeOK
  <2>2. QED
    BY <1>4, <2>1, GoType DEF Superceded, TypeOK
<1>5. CASE CallPostHook
  <2>1. [top EXCEPT !.phase = "posthook"] \in Frame
    BY <1>5, TopType DEF CallPostHook, Frame, Calls, Hooks
  <2>2. [hist[depth] EXCEPT !.told = @ \cup {top.cur}] \in History
    BY <1>5, TopType DEF CallPostHook, History, TypeOK
  <2>3. QED
    BY <1>5, <2>1, <2>2, GoType, NoteType DEF CallPostHook, TypeOK
<1>6. CASE DispatchReturns
  BY <1>6, PopType DEF DispatchReturns, TypeOK
<1>7. CASE ConfLoad
  <2>1. ConfList[conf] \in File /\ conf' \in 1 .. Len(ConfList) + 1
    BY <1>7, Parameters DEF ConfLoad, TypeOK
  <2>2. CASE Loadable(ConfList[conf])
    <3>1. [NoFrame EXCEPT !.phase = "attach", !.dll = ConfList[conf]] \in Frame
      BY <2>1, FrameTypes DEF Frame, Calls
    <3>2. BeginAttach(ConfList[conf])
      BY <1>7, <2>2 DEF ConfLoad
    <3>3. QED
      BY <1>7, <2>1, <3>1, <3>2, FrameTypes, PushType DEF ConfLoad, BeginAttach, TypeOK
  <2>3. CASE ~ Loadable(ConfList[conf])
    BY <1>7, <2>1, <2>3 DEF ConfLoad, TypeOK
  <2>4. QED
    BY <2>2, <2>3
<1>8. CASE ConfDone
  BY <1>8, FrameTypes, GoType, NoteType DEF ConfDone, TypeOK
<1>9. CASE KillNext
  <2>1. [top EXCEPT !.phase = "killing"] \in Frame
    BY <1>9, TopType DEF KillNext, Frame, Calls
  <2>2. QED
    BY <1>9, <2>1, GoType DEF KillNext, TypeOK
<1>10. CASE Killed
  <2>1. nextNode' \in 1 .. MaxNode + 1 /\ conf' \in 1 .. Len(ConfList) + 1
    BY <1>10, Parameters DEF Killed
  <2>2. QED
    BY <1>10, <2>1, PopType DEF Killed, TypeOK
<1>11. QED
  BY <1>1, <1>2, <1>3, <1>4, <1>5, <1>6, <1>7, <1>8, <1>9, <1>10 DEF Step

LEMMA ReturnTypes ==
  ASSUME TypeOK, Return
  PROVE  TypeOK'
<1> USE DEF InPhase
<1>1. ASSUME NEW v \in pluginres, HookReturns(v) PROVE TypeOK'
  <2>1. Judge(top, v) \in Frame
    <3>1. top.cur \in Node /\ next(top.cur) \in Node \cup {Nil}
      BY <1>1, CursorTypes DEF HookReturns, TypeOK
    <3>2. QED
      BY <1>1, <3>1, TopType DEF HookReturns, Judge, Frame, Loops
  <2> DEFINE h == [hist[depth] EXCEPT
         !.claims = IF v \in {JASS_OVERRIDE, JASS_SUPERCEDE} THEN @ \cup {top.cur} ELSE @,
         !.vetoes = IF v = JASS_SUPERCEDE THEN @ \cup {top.cur} ELSE @,
         !.lost = @ \/ (hist[depth].wrote = JASS_SUPERCEDE /\ v = JASS_UNUSED),
         !.wrote = JASS_UNUSED]
  <2>3. JASS_UNUSED \in pluginres
    BY DEF JASS_UNUSED, pluginres, Unknown
  <2>2. h \in History
    <3>1. hist[depth] \in History /\ top.cur \in Node
      BY <1>1, TopType DEF HookReturns, TypeOK
    <3>2. hist[depth].claims \in SUBSET Node /\ hist[depth].vetoes \in SUBSET Node
      BY <3>1 DEF History
    <3>3. (hist[depth].lost \/ (hist[depth].wrote = JASS_SUPERCEDE /\ v = JASS_UNUSED)) \in BOOLEAN
      OBVIOUS
    <3>4. (IF v \in {JASS_OVERRIDE, JASS_SUPERCEDE} THEN hist[depth].claims \cup {top.cur}
             ELSE hist[depth].claims) \in SUBSET Node
      BY <3>1, <3>2
    <3>5. (IF v = JASS_SUPERCEDE THEN hist[depth].vetoes \cup {top.cur}
             ELSE hist[depth].vetoes) \in SUBSET Node
      BY <3>1, <3>2
    <3>6. QED
      BY <2>3, <3>1, <3>3, <3>4, <3>5, VerdictNoted, Zenon
  <2>4. Go(Judge(top, v)) /\ Note(h) /\ depth > 0
    BY <1>1 DEF HookReturns
  <2>5. /\ stack' \in [1 .. MaxDepth -> Frame] /\ depth' = depth
        /\ hist' \in [1 .. MaxDepth -> History]
    <3> HIDE DEF h
    <3> QED BY <2>1, <2>2, <2>4, GoType, NoteType
  <2>6. QED
    BY <1>1, <2>3, <2>5 DEF HookReturns, TypeOK
<1>2. CASE OriginalReturns
  <2>1. [top EXCEPT !.phase = "post", !.cur = first,
                    !.ret = IF top.max = JASS_OVERRIDE THEN @ ELSE Original] \in Frame
    BY <1>2, TopType, CursorTypes DEF OriginalReturns, Frame, Loops, TypeOK
  <2>2. QED
    BY <1>2, <2>1, GoType DEF OriginalReturns, TypeOK
<1>3. CASE PostHookReturns
  <2>1. [top EXCEPT !.phase = "post", !.cur = next(top.cur)] \in Frame
    BY <1>3, TopType, CursorTypes DEF PostHookReturns, Frame, Loops, TypeOK
  <2>2. [hist[depth] EXCEPT !.wrote = JASS_UNUSED] \in History
    BY <1>3, TopType DEF PostHookReturns, History, pluginres, JASS_UNUSED, Unknown
  <2>3. JASS_UNUSED \in pluginres
    BY DEF JASS_UNUSED, pluginres, Unknown
  <2>4. QED
    BY <1>3, <2>1, <2>2, <2>3, GoType, NoteType DEF PostHookReturns, TypeOK
<1>4. CASE AttachAccepts
  <2>1. nextNode \in Node /\ nextNode' \in 1 .. MaxNode + 1
    BY <1>4, Parameters DEF AttachAccepts, TypeOK, Node
  <2>2. top.dll \in File \cup {NoFile}
    BY <1>4, TopType DEF AttachAccepts, Frame
  <2>3. QED
    BY <1>4, <2>1, <2>2, PopType DEF AttachAccepts, TypeOK
<1>5. CASE AttachRefuses
  <2>1. [top EXCEPT !.phase = "discard"] \in Frame
    BY <1>5, TopType DEF AttachRefuses, Frame, Calls
  <2>2. QED
    BY <1>5, <2>1, GoType DEF AttachRefuses, TypeOK
<1>6. CASE DiscardReturns
  BY <1>6, PopType DEF DiscardReturns, TypeOK
<1>7. CASE DetachReturns
  <2>1. hist' \in [1 .. MaxDepth -> History]
    BY <1>7, UnsteadyType DEF DetachReturns
  <2>2. stack' \in [1 .. MaxDepth -> Frame] /\ depth' \in 0 .. MaxDepth
    BY <1>7, Parameters, FrameTypes, TopType DEF DetachReturns, TypeOK
  <2>3. QED
    BY <1>7, <2>1, <2>2 DEF DetachReturns, TypeOK
<1>8. CASE ExecReturns
  <2>1. [top EXCEPT !.phase = "conf"] \in Frame
    BY <1>8, TopType DEF ExecReturns, Frame, Loops
  <2>2. QED
    BY <1>8, <2>1, GoType DEF ExecReturns, TypeOK
<1>9. CASE KillReturns
  <2>1. [top EXCEPT !.phase = "kill", !.cur = next(top.cur)] \in Frame
    BY <1>9, TopType, CursorTypes DEF KillReturns, Frame, Loops, TypeOK
  <2>2. QED
    BY <1>9, <2>1, GoType DEF KillReturns, TypeOK
<1>10. QED
  BY <1>1, <1>2, <1>3, <1>4, <1>5, <1>6, <1>7, <1>8, <1>9 DEF Return

LEMMA EnterTypes ==
  ASSUME TypeOK, Enter
  PROVE  TypeOK'
<1> USE DEF InPhase
<1>1. CASE Dispatch
  BY <1>1, FrameTypes, PushType DEF Dispatch, TypeOK
<1>2. ASSUME NEW v \in Verdict, SetResult(v) PROVE TypeOK'
  <2>1. v \in pluginres
    BY DEF Verdict, pluginres, JASS_IGNORED, JASS_OVERRIDE, JASS_SUPERCEDE, JASS_UNUSED, Unknown
  <2>2. [hist[depth] EXCEPT !.wrote = v] \in History
    BY <1>2, <2>1, TopType DEF SetResult, History
  <2>3. QED
    BY <1>2, <2>1, <2>2, NoteType DEF SetResult, TypeOK
<1>3. ASSUME NEW f \in File, LoadCommand(f) PROVE TypeOK'
  <2>1. [NoFrame EXCEPT !.phase = "attach", !.dll = f] \in Frame
    BY FrameTypes DEF Frame, Calls
  <2>2. QED
    BY <1>3, <2>1, FrameTypes, PushType DEF LoadCommand, BeginAttach, TypeOK
<1>4. ASSUME NEW n \in Node, Pause(n) PROVE TypeOK'
  BY <1>4, UnsteadyType DEF Pause, TypeOK
<1>5. ASSUME NEW n \in Node, Unpause(n) PROVE TypeOK'
  BY <1>5 DEF Unpause, TypeOK
<1>6. ASSUME NEW n \in Node, NEW iscmd \in BOOLEAN, Unload(n, iscmd) PROVE TypeOK'
  <2>1. [NoFrame EXCEPT !.phase = "detach", !.cur = n] \in Frame
    BY FrameTypes DEF Frame, Calls
  <2>2. QED
    BY <1>6, <2>1, FrameTypes, PushType DEF Unload, TypeOK
<1>7. CASE GameInit
  <2>1. [NoFrame EXCEPT !.phase = "exec"] \in Frame
    BY FrameTypes DEF Frame, Calls
  <2>2. conf' \in 1 .. Len(ConfList) + 1
    BY <1>7, Parameters DEF GameInit
  <2>3. QED
    BY <1>7, <2>1, <2>2, FrameTypes, PushType DEF GameInit, TypeOK
<1>8. CASE ShutdownCommand
  BY <1>8 DEF ShutdownCommand, TypeOK
<1>9. CASE GameShutdown
  <2>1. [NoFrame EXCEPT !.phase = "kill", !.cur = first] \in Frame
    BY FrameTypes, CursorTypes DEF Frame, Loops, TypeOK
  <2>2. QED
    BY <1>9, <2>1, FrameTypes, PushType DEF GameShutdown, TypeOK
<1>10. QED
  BY <1>1, <1>2, <1>3, <1>4, <1>5, <1>6, <1>7, <1>8, <1>9 DEF Enter

LEMMA InitTypes == Init => TypeOK
<1> SUFFICES ASSUME Init PROVE TypeOK
  OBVIOUS
<1>1. NoFrame \in Frame /\ NoHistory \in History
  BY DEF NoFrame, Frame, Loops, Calls, Verdict, Nil, NoHistory, History,
         pluginres, JASS_UNUSED, Unknown
<1>2. JASS_UNUSED \in pluginres
  BY DEF JASS_UNUSED, pluginres, Unknown
<1>3. 1 \in 1 .. MaxNode + 1 /\ 1 \in 1 .. Len(ConfList) + 1 /\ 0 \in 0 .. MaxDepth
  BY Parameters
<1>4. QED
  BY <1>1, <1>2, <1>3 DEF Init, TypeOK

(* Type correctness of the manager (CPluginMgr.cpp), whatever the plugins, *)
(* the bounds and the freedoms of foreign code; in particular the highest  *)
(* verdict of a pass is always one the switch after it knows.              *)
THEOREM TypeCorrect == Spec => []TypeOK
<1>1. TypeOK /\ [Next]_vars => TypeOK'
  <2> SUFFICES ASSUME TypeOK, [Next]_vars PROVE TypeOK'
    OBVIOUS
  <2>1. CASE Next
    BY <2>1, LoopTypes, ReturnTypes, EnterTypes DEF Next
  <2>2. CASE UNCHANGED vars
    BY <2>2 DEF vars, code, TypeOK
  <2>3. QED
    BY <2>1, <2>2
<1>2. QED
  BY InitTypes, <1>1, PTL DEF Spec

(***************************************************************************)
(* CursorLive.  On its own it is not inductive: DetachReturns removes the  *)
(* node of the topmost frame, so no frame below may stand on that node     *)
(* (DetachAlone, from the guard of Unload), and Killed removes every node, *)
(* so nothing may be below it (KillOutermost, from GameShutdown).          *)
(***************************************************************************)
DetachAlone ==
  \A d \in 1 .. depth : stack[d].phase = "detach" =>
    \A e \in 1 .. d - 1 : stack[e].cur # stack[d].cur

KillOutermost ==
  \A d \in 1 .. depth : stack[d].phase \in {"kill", "killing"} => d = 1

Cursors == CursorLive /\ DetachAlone /\ KillOutermost

LEMMA GoKeeps ==
  ASSUME TypeOK, Cursors, depth > 0, NEW f \in Frame, Go(f), live' = live,
         f.cur \in live \cup {Nil}, f.phase # "detach",
         f.phase \in {"kill", "killing"} => top.phase \in {"kill", "killing"}
  PROVE  Cursors'
<1>1. depth' = depth /\ depth \in 1 .. MaxDepth /\ stack \in [1 .. MaxDepth -> Frame]
  BY TopType DEF Go, TypeOK
<1>2. \A d \in 1 .. depth : stack'[d] = IF d = depth THEN f ELSE stack[d]
  BY <1>1 DEF Go
<1>3. CursorLive'
  BY <1>1, <1>2 DEF Cursors, CursorLive
<1>4. DetachAlone'
  BY <1>1, <1>2 DEF Cursors, DetachAlone
<1>5. KillOutermost'
  BY <1>1, <1>2 DEF Cursors, KillOutermost, top
<1>6. QED
  BY <1>3, <1>4, <1>5 DEF Cursors

LEMMA PushKeeps ==
  ASSUME TypeOK, Cursors, NEW f \in Frame, NEW h, Push(f, h), live' = live,
         f.cur \in live \cup {Nil},
         f.phase = "detach" => f.cur \notin Busy \cup {Nil},
         f.phase \in {"kill", "killing"} => depth = 0
  PROVE  Cursors'
<1>1. /\ depth \in 0 .. MaxDepth /\ depth' = depth + 1 /\ depth + 1 \in 1 .. MaxDepth
      /\ stack \in [1 .. MaxDepth -> Frame]
  BY Parameters DEF Push, TypeOK
<1>2. \A d \in 1 .. depth + 1 : stack'[d] = IF d = depth + 1 THEN f ELSE stack[d]
  BY <1>1 DEF Push
<1>3. CursorLive'
  BY <1>1, <1>2 DEF Cursors, CursorLive
<1>4. f.phase = "detach" => \A e \in 1 .. depth : stack[e].cur # f.cur
  BY DEF Busy
<1>5. DetachAlone'
  BY <1>1, <1>2, <1>4 DEF Cursors, DetachAlone
<1>6. KillOutermost'
  BY <1>1, <1>2 DEF Cursors, KillOutermost
<1>7. QED
  BY <1>3, <1>5, <1>6 DEF Cursors

LEMMA PopKeeps ==
  ASSUME TypeOK, Cursors, depth > 0, depth' = depth - 1,
         stack' = [stack EXCEPT ![depth] = NoFrame],
         \A d \in 1 .. depth - 1 : stack[d].cur \in live => stack[d].cur \in live'
  PROVE  Cursors'
<1>1. depth \in 1 .. MaxDepth /\ stack \in [1 .. MaxDepth -> Frame]
  BY TopType DEF TypeOK
<1>2. \A d \in 1 .. depth - 1 : stack'[d] = stack[d]
  BY <1>1
<1>3. CursorLive'
  BY <1>1, <1>2 DEF Cursors, CursorLive
<1>4. DetachAlone'
  BY <1>1, <1>2 DEF Cursors, DetachAlone
<1>5. KillOutermost'
  BY <1>1, <1>2 DEF Cursors, KillOutermost
<1>6. QED
  BY <1>3, <1>4, <1>5 DEF Cursors

LEMMA StayKeeps ==
  ASSUME Cursors, UNCHANGED <<live, stack, depth>>
  PROVE  Cursors'
BY DEF Cursors, CursorLive, DetachAlone, KillOutermost

LEMMA LoopCursors ==
  ASSUME TypeOK, Cursors, Step
  PROVE  Cursors'
<1> USE DEF InPhase
<1>0. first \in live \cup {Nil} /\ \A n : next(n) \in live \cup {Nil}
  BY CursorTypes
<1>1. CASE SkipPaused
  <2>1. top \in Frame /\ live \subseteq Node
    BY <1>1, TopType DEF SkipPaused, TypeOK
  <2> DEFINE f == [top EXCEPT !.cur = next(top.cur)]
  <2>2. f \in Frame /\ f.cur = next(top.cur) /\ f.phase = top.phase
    BY <2>1, <1>0 DEF Frame
  <2>3. QED
    BY <1>0, <1>1, <2>2, GoKeeps DEF SkipPaused
<1>2. CASE CallHook
  <2>1. top \in Frame
    BY <1>2, TopType DEF CallHook
  <2> DEFINE f == [top EXCEPT !.phase = "hook"]
  <2>2. f \in Frame /\ f.cur = top.cur /\ f.phase = "hook"
    BY <2>1 DEF Frame, Calls, Hooks
  <2>3. QED
    BY <1>2, <2>2, GoKeeps DEF CallHook
<1>3. CASE CallOriginal
  <2>1. top \in Frame
    BY <1>3, TopType DEF CallOriginal
  <2> DEFINE f == [top EXCEPT !.phase = "orig"]
  <2>2. f \in Frame /\ f.cur = top.cur /\ f.phase = "orig"
    BY <2>1 DEF Frame, Calls
  <2>3. QED
    BY <1>3, <2>2, GoKeeps DEF CallOriginal
<1>4. CASE Superceded
  <2>1. top \in Frame /\ live \subseteq Node
    BY <1>4, TopType DEF Superceded, TypeOK
  <2> DEFINE f == [top EXCEPT !.phase = "post", !.cur = first]
  <2>2. f \in Frame /\ f.cur = first /\ f.phase = "post"
    BY <2>1, <1>0 DEF Frame, Loops
  <2>3. QED
    BY <1>0, <1>4, <2>2, GoKeeps DEF Superceded
<1>5. CASE CallPostHook
  <2>1. top \in Frame
    BY <1>5, TopType DEF CallPostHook
  <2> DEFINE f == [top EXCEPT !.phase = "posthook"]
  <2>2. f \in Frame /\ f.cur = top.cur /\ f.phase = "posthook"
    BY <2>1 DEF Frame, Calls, Hooks
  <2>3. QED
    BY <1>5, <2>2, GoKeeps DEF CallPostHook
<1>6. CASE DispatchReturns
  BY <1>6, PopKeeps DEF DispatchReturns, Pop
<1>7. CASE ConfLoad
  <2>1. CASE Loadable(ConfList[conf])
    <3>1. ConfList[conf] \in File
      BY <1>7, Parameters DEF ConfLoad, TypeOK
    <3> DEFINE f == [NoFrame EXCEPT !.phase = "attach", !.dll = ConfList[conf]]
    <3>2. f \in Frame /\ f.cur = Nil /\ f.phase = "attach"
      BY <3>1, FrameTypes DEF Frame, Calls, NoFrame
    <3>3. QED
      BY <1>7, <2>1, <3>2, PushKeeps DEF ConfLoad, BeginAttach
  <2>2. CASE ~ Loadable(ConfList[conf])
    BY <1>7, <2>2, StayKeeps DEF ConfLoad
  <2>3. QED
    BY <2>1, <2>2
<1>8. CASE ConfDone
  <2>1. PreFrame \in Frame /\ PreFrame.cur = first /\ PreFrame.phase = "pre"
    BY FrameTypes DEF PreFrame, NoFrame
  <2>2. QED
    BY <1>0, <1>8, <2>1, GoKeeps DEF ConfDone
<1>9. CASE KillNext
  <2>1. top \in Frame
    BY <1>9, TopType DEF KillNext
  <2> DEFINE f == [top EXCEPT !.phase = "killing"]
  <2>2. f \in Frame /\ f.cur = top.cur /\ f.phase = "killing"
    BY <2>1 DEF Frame, Calls
  <2>3. QED
    BY <1>9, <2>2, GoKeeps DEF KillNext
<1>10. CASE Killed
  <2>1. depth = 1
    BY <1>10, TopType DEF Killed, Cursors, KillOutermost, top
  <2>2. QED
    BY <1>10, <2>1, PopKeeps DEF Killed, Pop
<1>11. QED
  BY <1>1, <1>2, <1>3, <1>4, <1>5, <1>6, <1>7, <1>8, <1>9, <1>10 DEF Step

LEMMA ReturnCursors ==
  ASSUME TypeOK, Cursors, Return
  PROVE  Cursors'
<1> USE DEF InPhase
<1>0. first \in live \cup {Nil} /\ \A n : next(n) \in live \cup {Nil}
  BY CursorTypes
<1>1. ASSUME NEW v \in pluginres, HookReturns(v) PROVE Cursors'
  <2>1. top \in Frame /\ top.cur \in live /\ live \subseteq Node
    BY <1>1, TopType DEF HookReturns, TypeOK
  <2>2. /\ Judge(top, v) \in Frame
        /\ Judge(top, v).cur = next(top.cur)
        /\ Judge(top, v).phase = "pre"
    BY <2>1, <1>0 DEF Judge, Frame, Loops
  <2>3. QED
    BY <1>0, <1>1, <2>2, GoKeeps DEF HookReturns
<1>2. CASE OriginalReturns
  <2>1. top \in Frame /\ live \subseteq Node
    BY <1>2, TopType DEF OriginalReturns, TypeOK
  <2> DEFINE f == [top EXCEPT !.phase = "post", !.cur = first,
                              !.ret = IF top.max = JASS_OVERRIDE THEN @ ELSE Original]
  <2>2. f \in Frame /\ f.cur = first /\ f.phase = "post"
    BY <2>1, <1>0 DEF Frame, Loops
  <2>3. QED
    BY <1>0, <1>2, <2>2, GoKeeps DEF OriginalReturns
<1>3. CASE PostHookReturns
  <2>1. top \in Frame /\ live \subseteq Node
    BY <1>3, TopType DEF PostHookReturns, TypeOK
  <2> DEFINE f == [top EXCEPT !.phase = "post", !.cur = next(top.cur)]
  <2>2. f \in Frame /\ f.cur = next(top.cur) /\ f.phase = "post"
    BY <2>1, <1>0 DEF Frame, Loops
  <2>3. QED
    BY <1>0, <1>3, <2>2, GoKeeps DEF PostHookReturns
<1>4. CASE AttachAccepts
  BY <1>4, PopKeeps DEF AttachAccepts, Pop
<1>5. CASE AttachRefuses
  <2>1. top \in Frame /\ top.cur \in live \cup {Nil}
    BY <1>5, TopType DEF AttachRefuses, Cursors, CursorLive, top
  <2> DEFINE f == [top EXCEPT !.phase = "discard"]
  <2>2. f \in Frame /\ f.cur = top.cur /\ f.phase = "discard"
    BY <2>1 DEF Frame, Calls
  <2>3. QED
    BY <1>5, <2>1, <2>2, GoKeeps DEF AttachRefuses
<1>6. CASE DiscardReturns
  BY <1>6, PopKeeps DEF DiscardReturns, Pop
<1>7. CASE DetachReturns
  <2>1. top.phase = "detach" /\ depth \in 1 .. depth
    BY <1>7, TopType DEF DetachReturns
  <2>2. \A d \in 1 .. depth - 1 : stack[d].cur # top.cur
    BY <2>1 DEF Cursors, DetachAlone, top
  <2>3. QED
    BY <1>7, <2>2, PopKeeps DEF DetachReturns
<1>8. CASE ExecReturns
  <2>1. top \in Frame /\ top.cur \in live \cup {Nil}
    BY <1>8, TopType DEF ExecReturns, Cursors, CursorLive, top
  <2> DEFINE f == [top EXCEPT !.phase = "conf"]
  <2>2. f \in Frame /\ f.cur = top.cur /\ f.phase = "conf"
    BY <2>1 DEF Frame, Loops
  <2>3. QED
    BY <1>8, <2>1, <2>2, GoKeeps DEF ExecReturns
<1>9. CASE KillReturns
  <2>1. top \in Frame /\ live \subseteq Node
    BY <1>9, TopType DEF KillReturns, TypeOK
  <2> DEFINE f == [top EXCEPT !.phase = "kill", !.cur = next(top.cur)]
  <2>2. f \in Frame /\ f.cur = next(top.cur) /\ f.phase = "kill"
    BY <2>1, <1>0 DEF Frame, Loops
  <2>3. QED
    BY <1>0, <1>9, <2>2, GoKeeps DEF KillReturns
<1>10. QED
  BY <1>1, <1>2, <1>3, <1>4, <1>5, <1>6, <1>7, <1>8, <1>9 DEF Return

LEMMA EnterCursors ==
  ASSUME "selfUnload" \notin Freedoms, TypeOK, Cursors, Enter
  PROVE  Cursors'
<1>0. first \in live \cup {Nil}
  BY CursorTypes
<1>1. CASE Dispatch
  <2>1. PreFrame \in Frame /\ PreFrame.cur = first /\ PreFrame.phase = "pre"
    BY FrameTypes DEF PreFrame, NoFrame
  <2>2. QED
    BY <1>0, <1>1, <2>1, PushKeeps DEF Dispatch
<1>2. ASSUME NEW v \in Verdict, SetResult(v) PROVE Cursors'
  BY <1>2, StayKeeps DEF SetResult
<1>3. ASSUME NEW g \in File, LoadCommand(g) PROVE Cursors'
  <2> DEFINE f == [NoFrame EXCEPT !.phase = "attach", !.dll = g]
  <2>1. f \in Frame /\ f.cur = Nil /\ f.phase = "attach"
    BY FrameTypes DEF Frame, Calls, NoFrame
  <2>2. QED
    BY <1>3, <2>1, PushKeeps DEF LoadCommand, BeginAttach
<1>4. ASSUME NEW n \in Node, Pause(n) PROVE Cursors'
  BY <1>4, StayKeeps DEF Pause
<1>5. ASSUME NEW n \in Node, Unpause(n) PROVE Cursors'
  BY <1>5, StayKeeps DEF Unpause
<1>6. ASSUME NEW n \in Node, NEW iscmd \in BOOLEAN, Unload(n, iscmd) PROVE Cursors'
  <2> DEFINE f == [NoFrame EXCEPT !.phase = "detach", !.cur = n]
  <2>1. f \in Frame /\ f.cur = n /\ f.phase = "detach"
    BY FrameTypes DEF Frame, Calls, NoFrame
  <2>2. n \notin Busy \cup {Nil} /\ n \in live
    BY <1>6, Parameters DEF Unload, Node, Nil
  <2>3. QED
    BY <1>6, <2>1, <2>2, PushKeeps DEF Unload
<1>7. CASE GameInit
  <2> DEFINE f == [NoFrame EXCEPT !.phase = "exec"]
  <2>1. f \in Frame /\ f.cur = Nil /\ f.phase = "exec"
    BY FrameTypes DEF Frame, Calls, NoFrame
  <2>2. QED
    BY <1>7, <2>1, PushKeeps DEF GameInit
<1>8. CASE ShutdownCommand
  BY <1>8 DEF ShutdownCommand, Cursors, CursorLive, DetachAlone, KillOutermost
<1>9. CASE GameShutdown
  <2> DEFINE f == [NoFrame EXCEPT !.phase = "kill", !.cur = first]
  <2>1. f \in Frame /\ f.cur = first /\ f.phase = "kill"
    BY <1>0, FrameTypes DEF Frame, Loops, NoFrame, TypeOK
  <2>2. QED
    BY <1>0, <1>9, <2>1, PushKeeps DEF GameShutdown
<1>10. QED
  BY <1>1, <1>2, <1>3, <1>4, <1>5, <1>6, <1>7, <1>8, <1>9 DEF Enter

(* No plugin is used after it was freed: as long as no command issued from *)
(* inside a plugin unloads a plugin that is on the call stack, the cursor  *)
(* of every loop over the list (CPluginMgr.cpp:228-299, 63-67) points at a *)
(* node of the list, for any number of plugins and any depth of nesting.   *)
THEOREM CursorsStayLive ==
  ASSUME "selfUnload" \notin Freedoms
  PROVE  Spec => []CursorLive
<1>1. Init => Cursors
  BY DEF Init, Cursors, CursorLive, DetachAlone, KillOutermost
<1>2. TypeOK /\ Cursors /\ [Next]_vars => Cursors'
  <2> SUFFICES ASSUME TypeOK, Cursors, [Next]_vars PROVE Cursors'
    OBVIOUS
  <2>1. CASE Next
    BY <2>1, LoopCursors, ReturnCursors, EnterCursors DEF Next
  <2>2. CASE UNCHANGED vars
    BY <2>2, StayKeeps DEF vars, code
  <2>3. QED
    BY <2>1, <2>2
<1>3. Cursors => CursorLive
  BY DEF Cursors
<1>4. QED
  BY TypeCorrect, <1>1, <1>2, <1>3, PTL DEF Spec

(***************************************************************************)
(* What each dispatch knows of itself, from its own frame and history: the *)
(* commands and dispatches nested in its hooks change neither, except that *)
(* plugins they pause or unload are no longer steady.                      *)
(***************************************************************************)
Last(S, n) == n \in S /\ \A m \in S : m <= n

(* The maximum verdict decides whether the original is called.             *)
Judged(s, h) ==
  /\ s.phase \in {"pre", "hook"} => h.orig = 0 /\ (s.max = JASS_SUPERCEDE <=> h.vetoes # {})
  /\ s.phase = "orig" => h.orig = 1 /\ h.vetoes = {}
  /\ s.phase \in {"post", "posthook"} => h.orig = IF h.vetoes = {} THEN 1 ELSE 0

(* The value to return is that of the last claim; the maximum tells that   *)
(* there is one.                                                           *)
Claimed(s, h) ==
  /\ s.phase \in {"pre", "hook", "orig"} =>
       /\ h.claims # {} <=> s.max \in {JASS_OVERRIDE, JASS_SUPERCEDE}
       /\ h.claims # {} => Last(h.claims, s.ret)
  /\ s.phase = "orig" => s.max # JASS_SUPERCEDE
  /\ s.phase \in {"post", "posthook"} =>
       IF h.claims = {} THEN s.ret = Original ELSE Last(h.claims, s.ret)

(* The nodes called lie before the cursor.                                 *)
Ordered(s, h) ==
  /\ s.phase \in {"pre", "hook"} => h.claims \subseteq h.asked
  /\ s.phase \in {"pre", "hook", "orig"} => h.told = {}
  /\ s.phase = "pre" /\ s.cur # Nil => \A n \in h.asked : n < s.cur
  /\ s.phase = "hook" => /\ s.cur \in h.asked /\ \A n \in h.asked : n <= s.cur
                         /\ \A n \in h.claims : n < s.cur
  /\ s.phase = "post" /\ s.cur # Nil => \A n \in h.told : n < s.cur
  /\ s.phase = "posthook" => s.cur # Nil /\ \A n \in h.told : n <= s.cur

(* The steady nodes before the cursor were called.                         *)
Heard(s, h) ==
  /\ s.phase = "pre" => \A n \in h.steady : s.cur = Nil \/ n < s.cur => n \in h.asked
  /\ s.phase = "hook" => \A n \in h.steady : n <= s.cur => n \in h.asked
  /\ s.phase \in {"orig", "post", "posthook"} => h.steady \subseteq h.asked
  /\ s.phase = "post" => \A n \in h.steady : s.cur = Nil \/ n < s.cur => n \in h.told
  /\ s.phase = "posthook" => \A n \in h.steady : n <= s.cur => n \in h.told

Right(s, h) == Judged(s, h) /\ Claimed(s, h) /\ Ordered(s, h) /\ Heard(s, h)
Able == {n \in live : ~paused[n]}
Kills == {"kill", "killing"}

Passes ==
  \A d \in 1 .. depth : /\ Right(stack[d], hist[d])
                        /\ hist[d].steady \subseteq Able
                        /\ stack[d].phase \in Kills => d = 1

DispatchPhases == {"pre", "hook", "orig", "post", "posthook"}

LEMMA OtherFrames ==
  ASSUME NEW s, NEW h, s.phase \notin DispatchPhases
  PROVE  Right(s, h)
BY DEF DispatchPhases, Right, Judged, Claimed, Ordered, Heard

LEMMA FirstIs ==
  ASSUME TypeOK
  PROVE  first \in live \cup {Nil} /\ \A m \in live : first # Nil /\ first <= m
<1>1. live \subseteq Node
  BY DEF TypeOK
<1>2. /\ Least(live) \in live \cup {Nil}
      /\ live # {} => Least(live) \in live
      /\ live # {} => \A m \in live : Least(live) <= m
  BY <1>1, LeastIn
<1>3. \A m \in live : m # Nil
  BY <1>1, Parameters DEF Node, Nil
<1> QED BY <1>2, <1>3 DEF first

(* A loop that begins has left no unpaused plugin behind.                  *)
LEMMA FirstAble ==
  ASSUME TypeOK, NEW n \in Able
  PROVE  ~ (first = Nil \/ n < first)
<1>1. n \in live /\ live \subseteq Node
  BY DEF Able, TypeOK
<1>2. first # Nil /\ first <= n /\ first \in live
  BY <1>1, FirstIs
<1>3. first \in Int /\ n \in Int
  BY <1>1, <1>2, Parameters DEF Node
<1> QED BY <1>2, <1>3

LEMMA NextIs ==
  ASSUME TypeOK, NEW n \in Node
  PROVE  /\ next(n) \in live \cup {Nil}
         /\ next(n) # Nil => next(n) > n
         /\ \A m \in live : m > n => next(n) # Nil /\ next(n) <= m
<1> DEFINE S == {m \in live : m > n}
<1>1. S \subseteq Node
  BY DEF TypeOK
<1>2. /\ Least(S) \in S \cup {Nil}
      /\ S # {} => Least(S) \in S
      /\ \A m \in S : Least(S) <= m
  BY <1>1, LeastIn
<1>3. next(n) = Least(S)
  BY DEF next
<1> QED BY <1>1, <1>2, <1>3 DEF Node, Nil

(* The cursor moves on, and no steady node is left behind.                 *)
LEMMA Onward ==
  ASSUME TypeOK, NEW n \in Node, NEW S, S \subseteq Able, NEW A, \A m \in S : m <= n => m \in A
  PROVE  \A m \in S : next(n) = Nil \/ m < next(n) => m \in A
<1> SUFFICES ASSUME NEW m \in S, next(n) = Nil \/ m < next(n) PROVE m \in A
  OBVIOUS
<1>1. m \in live /\ m \in Node
  BY DEF Able, TypeOK
<1>2. ~(m > n)
  <2>1. next(n) \in Node \cup {Nil}
    BY NextIs DEF TypeOK
  <2> QED BY <1>1, <2>1, NextIs DEF Node, Nil
<1> QED BY <1>1, <1>2 DEF Node

LEMMA TopKnows ==
  ASSUME TypeOK, Passes, depth > 0
  PROVE  Right(top, hist[depth]) /\ hist[depth].steady \subseteq Able
BY TopType DEF Passes, top

(* A frame and its history are replaced, pushed or popped.                 *)
LEMMA GoPasses ==
  ASSUME TypeOK, Passes, depth > 0, NEW f, Go(f), NEW h,
         Note(h) \/ (hist' = hist /\ h = hist[depth]), Able' = Able,
         Right(f, h), h.steady \subseteq Able,
         f.phase \in Kills => top.phase \in Kills
  PROVE  Passes'
<1>1. /\ depth' = depth /\ depth \in 1 .. MaxDepth
      /\ stack \in [1 .. MaxDepth -> Frame] /\ hist \in [1 .. MaxDepth -> History]
  BY TopType DEF Go, TypeOK
<1>2. ASSUME NEW d \in 1 .. depth
      PROVE  /\ stack'[d] = IF d = depth THEN f ELSE stack[d]
             /\ hist'[d] = IF d = depth THEN h ELSE hist[d]
  <2>1. stack'[d] = IF d = depth THEN f ELSE stack[d]
    BY <1>1 DEF Go
  <2>2. CASE Note(h)
    BY <1>1, <2>1, <2>2 DEF Note
  <2>3. CASE hist' = hist /\ h = hist[depth]
    BY <2>1, <2>3
  <2> QED BY <2>2, <2>3
<1>3. ASSUME NEW d \in 1 .. depth
      PROVE  Right(stack'[d], hist'[d]) /\ hist'[d].steady \subseteq Able /\ (stack'[d].phase \in Kills => d = 1)
  <2>1. CASE d = depth
    BY <1>1, <1>2, <2>1 DEF Passes, top
  <2>2. CASE d # depth
    BY <1>2, <2>2 DEF Passes
  <2> QED BY <2>1, <2>2
<1> QED BY <1>1, <1>3 DEF Passes

LEMMA PushPasses ==
  ASSUME TypeOK, Passes, NEW f, NEW h, Push(f, h), Able' = Able,
         Right(f, h), h.steady \subseteq Able, f.phase \in Kills => depth = 0
  PROVE  Passes'
<1>1. /\ depth' = depth + 1 /\ depth \in 0 .. MaxDepth /\ depth + 1 \in 1 .. MaxDepth
      /\ stack \in [1 .. MaxDepth -> Frame] /\ hist \in [1 .. MaxDepth -> History]
  BY Parameters DEF Push, TypeOK
<1>2. ASSUME NEW d \in 1 .. depth + 1
      PROVE  /\ stack'[d] = IF d = depth + 1 THEN f ELSE stack[d]
             /\ hist'[d] = IF d = depth + 1 THEN h ELSE hist[d]
  BY <1>1 DEF Push
<1>3. ASSUME NEW d \in 1 .. depth + 1
      PROVE  Right(stack'[d], hist'[d]) /\ hist'[d].steady \subseteq Able /\ (stack'[d].phase \in Kills => d = 1)
  <2>1. CASE d = depth + 1
    BY <1>1, <1>2, <2>1
  <2>2. CASE d # depth + 1
    <3>1. d \in 1 .. depth
      BY <1>1, <2>2
    <3> QED BY <1>2, <2>2, <3>1 DEF Passes
  <2> QED BY <2>1, <2>2
<1> QED BY <1>1, <1>3 DEF Passes

LEMMA PopPasses ==
  ASSUME TypeOK, Passes, depth > 0, Pop, Able \subseteq Able' \/ depth = 1
  PROVE  Passes'
<1>1. /\ depth' = depth - 1 /\ depth \in 1 .. MaxDepth
      /\ stack \in [1 .. MaxDepth -> Frame] /\ hist \in [1 .. MaxDepth -> History]
  BY TopType DEF Pop, TypeOK
<1>2. \A d \in 1 .. depth - 1 : stack'[d] = stack[d] /\ hist'[d] = hist[d] /\ d \in 1 .. depth
  BY <1>1 DEF Pop
<1> QED BY <1>1, <1>2 DEF Passes

(* Nodes leave the list or are paused, and are not steady any more.        *)
LEMMA UnsteadyPasses ==
  ASSUME TypeOK, Passes, NEW S, Unsteady(S), depth' \in 0 .. depth,
         \A d \in 1 .. depth' : stack'[d] = stack[d], Able \ S \subseteq Able'
  PROVE  Passes'
<1>1. /\ depth \in 0 .. MaxDepth /\ MaxDepth \in Nat
      /\ hist \in [1 .. MaxDepth -> History]
  BY Parameters DEF TypeOK
<1>2. ASSUME NEW d \in 1 .. depth'
      PROVE  Right(stack'[d], hist'[d]) /\ hist'[d].steady \subseteq Able' /\ (stack'[d].phase \in Kills => d = 1)
  <2>1. d \in 1 .. depth /\ d \in 1 .. MaxDepth /\ stack'[d] = stack[d]
    BY <1>1
  <2>2. hist'[d] = [hist[d] EXCEPT !.steady = @ \ S] /\ hist[d] \in History
    BY <1>1, <2>1 DEF Unsteady
  <2>3. /\ hist'[d].steady = hist[d].steady \ S /\ hist'[d].asked = hist[d].asked
        /\ hist'[d].told = hist[d].told /\ hist'[d].claims = hist[d].claims
        /\ hist'[d].vetoes = hist[d].vetoes /\ hist'[d].orig = hist[d].orig
    BY <2>2 DEF History
  <2>4. Right(stack[d], hist[d]) /\ hist[d].steady \subseteq Able /\ (stack[d].phase \in Kills => d = 1)
    BY <2>1 DEF Passes
  <2>5. Judged(stack'[d], hist'[d]) /\ Claimed(stack'[d], hist'[d]) /\ Ordered(stack'[d], hist'[d])
    BY <2>1, <2>3, <2>4 DEF Right, Judged, Claimed, Ordered, Last
  <2>6. Heard(stack'[d], hist'[d])
    BY <2>1, <2>3, <2>4 DEF Right, Heard
  <2> QED BY <2>1, <2>3, <2>4, <2>5, <2>6 DEF Right
<1> QED BY <1>2 DEF Passes

LEMMA StayPasses ==
  ASSUME Passes, UNCHANGED <<stack, depth, hist>>, Able \subseteq Able' \/ depth = 0
  PROVE  Passes'
BY DEF Passes

LEMMA PreIsRight ==
  ASSUME TypeOK
  PROVE  Right(PreFrame, PreHistory) /\ PreHistory.steady \subseteq Able /\ PreFrame.phase = "pre"
<1>1. /\ PreFrame.phase = "pre" /\ PreFrame.cur = first /\ PreFrame.max = JASS_UNUSED
      /\ PreHistory.steady = Able /\ PreHistory.asked = {} /\ PreHistory.told = {}
      /\ PreHistory.claims = {} /\ PreHistory.vetoes = {} /\ PreHistory.orig = 0
  BY DEF PreFrame, PreHistory, NoFrame, NoHistory, Able
<1>2. Heard(PreFrame, PreHistory)
  <2>1. \A n \in Able : ~ (first = Nil \/ n < first)
    BY FirstAble
  <2> QED BY <1>1, <2>1 DEF Heard
<1>3. Judged(PreFrame, PreHistory) /\ Claimed(PreFrame, PreHistory) /\ Ordered(PreFrame, PreHistory)
  BY <1>1 DEF Judged, Claimed, Ordered, JASS_UNUSED, JASS_OVERRIDE, JASS_SUPERCEDE
<1> QED BY <1>1, <1>2, <1>3 DEF Right

LEMMA LoopPasses ==
  ASSUME TypeOK, Passes, Step
  PROVE  Passes'
<1> USE DEF InPhase
<1> DEFINE h == hist[depth]
<1>1. CASE SkipPaused
  <2> DEFINE f == [top EXCEPT !.cur = next(top.cur)]
  <2>1. /\ depth > 0 /\ top \in Frame /\ Right(top, h) /\ h.steady \subseteq Able /\ h \in History
        /\ top.cur \in Node /\ top.cur # Nil /\ top.cur \notin h.steady /\ top.phase \in {"pre", "post"}
    BY <1>1, TopType, TopKnows, Parameters DEF SkipPaused, Able, TypeOK, Node, Nil
  <2>2. /\ f.phase = top.phase /\ f.cur = next(top.cur) /\ f.max = top.max /\ f.ret = top.ret
    BY <2>1 DEF Frame
  <2>3. /\ next(top.cur) \in Node \cup {Nil}
        /\ next(top.cur) # Nil => next(top.cur) > top.cur
        /\ h.asked \subseteq Node /\ h.told \subseteq Node
    BY <2>1, NextIs DEF TypeOK, History
  <2>4. Judged(f, h) /\ Claimed(f, h)
    BY <2>1, <2>2 DEF Right, Judged, Claimed
  <2>5. Ordered(f, h)
    <3>1. top.phase = "pre" => \A n \in h.asked : n < top.cur
      BY <2>1 DEF Right, Ordered
    <3>2. top.phase = "post" => \A n \in h.told : n < top.cur
      BY <2>1 DEF Right, Ordered
    <3>3. ASSUME NEW n \in Node, n < top.cur, next(top.cur) # Nil
          PROVE  n < next(top.cur)
      <4>1. next(top.cur) \in Node /\ next(top.cur) > top.cur
        BY <2>3, <3>3
      <4>2. \A a, b, c \in Node : a < b /\ c > b => a < c
        BY Parameters DEF Node
      <4>3. top.cur \in Node /\ n < top.cur
        BY <2>1, <3>3
      <4> QED BY <4>1, <4>2, <4>3, Zenon
    <3>4. CASE top.phase = "pre"
      BY <2>1, <2>2, <2>3, <3>1, <3>3, <3>4 DEF Right, Ordered
    <3>5. CASE top.phase = "post"
      BY <2>1, <2>2, <2>3, <3>2, <3>3, <3>5 DEF Right, Ordered
    <3> QED BY <2>1, <3>4, <3>5
  <2>6. Heard(f, h)
    <3>1. ASSUME NEW n \in h.steady, n <= top.cur
          PROVE  /\ top.phase = "pre" => n \in h.asked
                 /\ top.phase = "post" => n \in h.told
      <4>1. n < top.cur
        BY <2>1, <3>1 DEF History, Node
      <4> QED BY <2>1, <4>1 DEF Right, Heard
    <3>2. CASE top.phase = "pre"
      <4>1. \A n \in h.steady : next(top.cur) = Nil \/ n < next(top.cur) => n \in h.asked
        BY <2>1, <3>1, <3>2, Onward
      <4> QED BY <2>2, <3>2, <4>1 DEF Heard
    <3>3. CASE top.phase = "post"
      <4>1. \A n \in h.steady : next(top.cur) = Nil \/ n < next(top.cur) => n \in h.told
        BY <2>1, <3>1, <3>3, Onward
      <4> QED BY <2>1, <2>2, <3>3, <4>1 DEF Right, Heard
    <3> QED BY <2>1, <3>2, <3>3
  <2>7. Right(f, h)
    BY <2>4, <2>5, <2>6 DEF Right
  <2> HIDE DEF f
  <2>8. Go(f) /\ hist' = hist /\ Able' = Able /\ f.phase \notin Kills
    BY <1>1, <2>1, <2>2 DEF SkipPaused, Able, Kills, f
  <2> QED BY <2>1, <2>7, <2>8, GoPasses
<1>2. CASE CallHook
  <2> DEFINE f == [top EXCEPT !.phase = "hook"]
             g == [h EXCEPT !.asked = @ \cup {top.cur}]
  <2>1. /\ depth > 0 /\ top \in Frame /\ Right(top, h) /\ h.steady \subseteq Able /\ h \in History
        /\ top.cur \in Node /\ top.cur # Nil /\ top.phase = "pre"
    BY <1>2, TopType, TopKnows, Parameters DEF CallHook, TypeOK, Node, Nil
  <2>2. /\ f.phase = "hook" /\ f.cur = top.cur /\ f.max = top.max /\ f.ret = top.ret
        /\ g.asked = h.asked \cup {top.cur} /\ g.steady = h.steady /\ g.told = h.told
        /\ g.claims = h.claims /\ g.vetoes = h.vetoes /\ g.orig = h.orig
    BY <2>1 DEF Frame, History
  <2>3. Judged(f, g) /\ Claimed(f, g)
    BY <2>1, <2>2 DEF Right, Judged, Claimed
  <2>4. Ordered(f, g)
    <3>1. /\ \A n \in h.asked : n < top.cur /\ n \in Node
          /\ h.claims \subseteq h.asked /\ h.told = {}
      BY <2>1 DEF Right, Ordered, History
    <3> QED BY <2>1, <2>2, <3>1 DEF Ordered, Node
  <2>5. Heard(f, g)
    <3>1. \A n \in h.steady : n \in Node /\ (n < top.cur => n \in h.asked)
      BY <2>1 DEF Right, Heard, History
    <3> QED BY <2>1, <2>2, <3>1 DEF Heard, Node
  <2>6. Go(f) /\ Note(g) /\ Able' = Able /\ f.phase \notin Kills
    BY <1>2, <2>2 DEF CallHook, Able, Kills
  <2> HIDE DEF f, g
  <2> QED BY <2>1, <2>2, <2>3, <2>4, <2>5, <2>6, GoPasses DEF Right
<1>3. CASE CallOriginal
  <2> DEFINE f == [top EXCEPT !.phase = "orig"]
             g == [h EXCEPT !.orig = 1]
  <2>1. /\ depth > 0 /\ top \in Frame /\ Right(top, h) /\ h.steady \subseteq Able /\ h \in History
        /\ top.cur = Nil /\ top.phase = "pre" /\ top.max # JASS_SUPERCEDE
    BY <1>3, TopType, TopKnows DEF CallOriginal
  <2>2. /\ f.phase = "orig" /\ f.cur = top.cur /\ f.max = top.max /\ f.ret = top.ret
        /\ g.asked = h.asked /\ g.steady = h.steady /\ g.told = h.told
        /\ g.claims = h.claims /\ g.vetoes = h.vetoes /\ g.orig = 1
    BY <2>1 DEF Frame, History
  <2>3. Right(f, g)
    BY <2>1, <2>2 DEF Right, Judged, Claimed, Ordered, Heard
  <2>4. Go(f) /\ Note(g) /\ Able' = Able /\ f.phase \notin Kills
    BY <1>3, <2>2 DEF CallOriginal, Able, Kills
  <2> HIDE DEF f, g
  <2> QED BY <2>1, <2>2, <2>3, <2>4, GoPasses
<1>4. CASE Superceded
  <2> DEFINE f == [top EXCEPT !.phase = "post", !.cur = first]
  <2>1. /\ depth > 0 /\ top \in Frame /\ Right(top, h) /\ h.steady \subseteq Able
        /\ top.cur = Nil /\ top.phase = "pre" /\ top.max = JASS_SUPERCEDE
    BY <1>4, TopType, TopKnows DEF Superceded
  <2>2. f.phase = "post" /\ f.cur = first /\ f.max = top.max /\ f.ret = top.ret
    BY <2>1 DEF Frame
  <2>3. Judged(f, h) /\ Claimed(f, h) /\ Ordered(f, h)
    BY <2>1, <2>2 DEF Right, Judged, Claimed, Ordered
  <2>4. \A n \in Able : ~ (first = Nil \/ n < first)
    BY FirstAble
  <2>5. Heard(f, h)
    BY <2>1, <2>2, <2>4 DEF Right, Heard
  <2>6. Go(f) /\ hist' = hist /\ Able' = Able /\ f.phase \notin Kills
    BY <1>4, <2>2 DEF Superceded, Able, Kills
  <2> HIDE DEF f
  <2> QED BY <2>1, <2>3, <2>5, <2>6, GoPasses DEF Right
<1>5. CASE CallPostHook
  <2> DEFINE f == [top EXCEPT !.phase = "posthook"]
             g == [h EXCEPT !.told = @ \cup {top.cur}]
  <2>1. /\ depth > 0 /\ top \in Frame /\ Right(top, h) /\ h.steady \subseteq Able /\ h \in History
        /\ top.cur \in Node /\ top.cur # Nil /\ top.phase = "post"
    BY <1>5, TopType, TopKnows, Parameters DEF CallPostHook, TypeOK, Node, Nil
  <2>2. /\ f.phase = "posthook" /\ f.cur = top.cur /\ f.max = top.max /\ f.ret = top.ret
        /\ g.told = h.told \cup {top.cur} /\ g.steady = h.steady /\ g.asked = h.asked
        /\ g.claims = h.claims /\ g.vetoes = h.vetoes /\ g.orig = h.orig
    BY <2>1 DEF Frame, History
  <2>3. Judged(f, g) /\ Claimed(f, g)
    BY <2>1, <2>2 DEF Right, Judged, Claimed
  <2>4. Ordered(f, g)
    <3>1. \A n \in h.told : n < top.cur /\ n \in Node
      BY <2>1 DEF Right, Ordered, History
    <3> QED BY <2>1, <2>2, <3>1 DEF Ordered, Node
  <2>5. Heard(f, g)
    <3>1. /\ \A n \in h.steady : n \in Node /\ (n < top.cur => n \in h.told)
          /\ h.steady \subseteq h.asked
      BY <2>1 DEF Right, Heard, History
    <3> QED BY <2>1, <2>2, <3>1 DEF Heard, Node
  <2>6. Go(f) /\ Note(g) /\ Able' = Able /\ f.phase \notin Kills
    BY <1>5, <2>2 DEF CallPostHook, Able, Kills
  <2> HIDE DEF f, g
  <2> QED BY <2>1, <2>2, <2>3, <2>4, <2>5, <2>6, GoPasses DEF Right
<1>6. CASE DispatchReturns
  BY <1>6, PopPasses DEF DispatchReturns, Able
<1>7. CASE ConfLoad
  <2>1. CASE Loadable(ConfList[conf])
    <3> DEFINE f == [NoFrame EXCEPT !.phase = "attach", !.dll = ConfList[conf]]
    <3>1. f.phase = "attach" /\ NoHistory.steady = {}
      BY DEF NoFrame, NoHistory
    <3>2. Push(f, NoHistory) /\ Able' = Able
      BY <1>7, <2>1 DEF ConfLoad, BeginAttach, Able
    <3> HIDE DEF f
    <3>3. Right(f, NoHistory) /\ f.phase \notin Kills
      BY <3>1, OtherFrames DEF DispatchPhases, Kills
    <3> QED BY <3>1, <3>2, <3>3, PushPasses
  <2>2. CASE ~ Loadable(ConfList[conf])
    BY <1>7, <2>2, StayPasses DEF ConfLoad, Able
  <2> QED BY <2>1, <2>2
<1>8. CASE ConfDone
  <2>1. depth > 0 /\ Go(PreFrame) /\ Note(PreHistory) /\ Able' = Able
    BY <1>8 DEF ConfDone, Able
  <2> QED BY <2>1, PreIsRight, GoPasses DEF Kills
<1>9. CASE KillNext
  <2> DEFINE f == [top EXCEPT !.phase = "killing"]
  <2>1. /\ depth > 0 /\ f.phase = "killing" /\ top.phase \in Kills
        /\ Go(f) /\ hist' = hist /\ Able' = Able /\ h.steady \subseteq Able
    BY <1>9, TopType, TopKnows DEF KillNext, Frame, Kills, Able
  <2> HIDE DEF f
  <2>2. Right(f, h)
    BY <2>1, OtherFrames DEF DispatchPhases
  <2> QED BY <2>1, <2>2, GoPasses
<1>10. CASE Killed
  <2>1. depth = 1
    BY <1>10, TopType DEF Killed, Passes, top, Kills
  <2> QED BY <1>10, <2>1, PopPasses DEF Killed
<1> QED
  BY <1>1, <1>2, <1>3, <1>4, <1>5, <1>6, <1>7, <1>8, <1>9, <1>10 DEF Step

LEMMA HookPasses ==
  ASSUME TypeOK, Passes, NEW v \in pluginres, HookReturns(v)
  PROVE  Passes'
<1> USE DEF InPhase
<1> DEFINE h == hist[depth]
           f == Judge(top, v)
           says == v \in {JASS_OVERRIDE, JASS_SUPERCEDE}
           g == [h EXCEPT
                  !.claims = IF v \in {JASS_OVERRIDE, JASS_SUPERCEDE} THEN @ \cup {top.cur} ELSE @,
                  !.vetoes = IF v = JASS_SUPERCEDE THEN @ \cup {top.cur} ELSE @,
                  !.lost = @ \/ (h.wrote = JASS_SUPERCEDE /\ v = JASS_UNUSED),
                  !.wrote = JASS_UNUSED]
<1>1. /\ depth > 0 /\ top \in Frame /\ Right(top, h) /\ h.steady \subseteq Able /\ h \in History
      /\ top.cur \in Node /\ top.cur # Nil /\ top.phase = "hook"
  BY TopType, TopKnows, Parameters DEF HookReturns, TypeOK, Node, Nil
<1>2. /\ f.phase = "pre" /\ f.cur = next(top.cur)
      /\ f.ret = IF says THEN top.cur ELSE top.ret
      /\ f.max = IF v \in Verdict /\ top.max < v THEN v ELSE top.max
  BY <1>1 DEF Judge, Frame
<1>3. /\ g.asked = h.asked /\ g.steady = h.steady /\ g.told = h.told /\ g.orig = h.orig
      /\ g.claims = (IF says THEN h.claims \cup {top.cur} ELSE h.claims)
      /\ g.vetoes = (IF v = JASS_SUPERCEDE THEN h.vetoes \cup {top.cur} ELSE h.vetoes)
  BY <1>1 DEF History
<1>4. Go(f) /\ Note(g) /\ Able' = Able
  BY DEF HookReturns, Able
<1>5. /\ top.max \in Verdict \cup {JASS_UNUSED}
      /\ h.asked \subseteq Node /\ h.claims \subseteq Node /\ h.steady \subseteq Node
      /\ next(top.cur) \in Node \cup {Nil} /\ (next(top.cur) # Nil => next(top.cur) > top.cur)
  BY <1>1, NextIs DEF Frame, History, TypeOK
<1> HIDE DEF f, g, says
<1>6. Judged(f, g)
  <2>1. h.orig = 0 /\ (top.max = JASS_SUPERCEDE <=> h.vetoes # {})
    BY <1>1 DEF Right, Judged
  <2>2. f.max = JASS_SUPERCEDE <=> top.max = JASS_SUPERCEDE \/ v = JASS_SUPERCEDE
    BY <1>2, <1>5 DEF Verdict, pluginres, JASS_UNUSED, JASS_IGNORED, JASS_OVERRIDE, JASS_SUPERCEDE, Unknown
  <2>3. g.vetoes # {} <=> h.vetoes # {} \/ v = JASS_SUPERCEDE
    BY <1>3
  <2> QED BY <1>2, <1>3, <2>1, <2>2, <2>3 DEF Judged
<1>7. Claimed(f, g)
  <2>1. /\ h.claims # {} <=> top.max \in {JASS_OVERRIDE, JASS_SUPERCEDE}
        /\ h.claims # {} => Last(h.claims, top.ret)
    BY <1>1 DEF Right, Claimed
  <2>2. f.max \in {JASS_OVERRIDE, JASS_SUPERCEDE} <=> top.max \in {JASS_OVERRIDE, JASS_SUPERCEDE} \/ says
    BY <1>2, <1>5 DEF says, Verdict, pluginres, JASS_UNUSED, JASS_IGNORED, JASS_OVERRIDE, JASS_SUPERCEDE, Unknown
  <2>3. g.claims # {} <=> h.claims # {} \/ says
    BY <1>3
  <2>4. g.claims # {} => Last(g.claims, f.ret)
    <3>1. CASE says
      <4>1. \A n \in h.claims : n < top.cur
        BY <1>1 DEF Right, Ordered
      <4> QED BY <1>1, <1>2, <1>3, <1>5, <3>1, <4>1 DEF Last, Node
    <3>2. CASE ~says
      BY <1>2, <1>3, <2>1, <3>2
    <3> QED BY <3>1, <3>2
  <2> QED BY <1>2, <2>1, <2>2, <2>3, <2>4 DEF Claimed
<1>8. Ordered(f, g)
  <2>1. /\ h.claims \subseteq h.asked /\ h.told = {} /\ top.cur \in h.asked
        /\ \A n \in h.asked : n <= top.cur
    BY <1>1 DEF Right, Ordered
  <2>2. next(top.cur) # Nil => \A n \in h.asked : n < next(top.cur)
    BY <1>1, <1>5, <2>1 DEF Node, Nil
  <2>3. g.claims \subseteq g.asked
    BY <1>3, <2>1
  <2> QED BY <1>2, <1>3, <2>1, <2>2, <2>3 DEF Ordered
<1>9. Heard(f, g)
  <2>1. \A n \in h.steady : n <= top.cur => n \in h.asked
    BY <1>1 DEF Right, Heard
  <2>2. \A n \in h.steady : next(top.cur) = Nil \/ n < next(top.cur) => n \in h.asked
    BY <1>1, <2>1, Onward
  <2> QED BY <1>2, <1>3, <2>2 DEF Heard
<1> QED BY <1>1, <1>2, <1>3, <1>4, <1>6, <1>7, <1>8, <1>9, GoPasses DEF Right, Kills

LEMMA ReturnPasses ==
  ASSUME TypeOK, Passes, Return
  PROVE  Passes'
<1> USE DEF InPhase
<1> DEFINE h == hist[depth]
<1>1. ASSUME NEW v \in pluginres, HookReturns(v) PROVE Passes'
  BY <1>1, HookPasses
<1>2. CASE OriginalReturns
  <2> DEFINE f == [top EXCEPT !.phase = "post", !.cur = first,
                              !.ret = IF top.max = JASS_OVERRIDE THEN @ ELSE Original]
  <2>1. /\ depth > 0 /\ top \in Frame /\ Right(top, h) /\ h.steady \subseteq Able /\ top.phase = "orig"
    BY <1>2, TopType, TopKnows DEF OriginalReturns
  <2>2. /\ f.phase = "post" /\ f.cur = first
        /\ f.ret = IF top.max = JASS_OVERRIDE THEN top.ret ELSE Original
    BY <2>1 DEF Frame
  <2>3. Go(f) /\ hist' = hist /\ Able' = Able
    BY <1>2 DEF OriginalReturns, Able
  <2> HIDE DEF f
  <2>4. Judged(f, h) /\ Ordered(f, h)
    BY <2>1, <2>2 DEF Right, Judged, Ordered
  <2>5. Claimed(f, h)
    <3>1. /\ h.claims # {} <=> top.max = JASS_OVERRIDE
          /\ h.claims # {} => Last(h.claims, top.ret)
      BY <2>1 DEF Right, Claimed
    <3> QED BY <2>2, <3>1 DEF Claimed
  <2>6. \A n \in Able : ~ (first = Nil \/ n < first)
    BY FirstAble
  <2>7. Heard(f, h)
    BY <2>1, <2>2, <2>6 DEF Right, Heard
  <2> QED BY <2>1, <2>2, <2>3, <2>4, <2>5, <2>7, GoPasses DEF Right, Kills
<1>3. CASE PostHookReturns
  <2> DEFINE f == [top EXCEPT !.phase = "post", !.cur = next(top.cur)]
             g == [h EXCEPT !.wrote = JASS_UNUSED]
  <2>1. /\ depth > 0 /\ top \in Frame /\ Right(top, h) /\ h.steady \subseteq Able /\ h \in History
        /\ top.cur \in Node /\ top.phase = "posthook"
    BY <1>3, TopType, TopKnows DEF PostHookReturns, TypeOK
  <2>2. /\ f.phase = "post" /\ f.cur = next(top.cur) /\ f.ret = top.ret
        /\ g.asked = h.asked /\ g.steady = h.steady /\ g.told = h.told /\ g.orig = h.orig
        /\ g.claims = h.claims /\ g.vetoes = h.vetoes
    BY <2>1 DEF Frame, History
  <2>3. Go(f) /\ Note(g) /\ Able' = Able
    BY <1>3 DEF PostHookReturns, Able
  <2>4. /\ h.told \subseteq Node /\ next(top.cur) \in Node \cup {Nil}
        /\ (next(top.cur) # Nil => next(top.cur) > top.cur)
    BY <2>1, NextIs DEF History, TypeOK
  <2> HIDE DEF f, g
  <2>5. Judged(f, g) /\ Claimed(f, g)
    BY <2>1, <2>2 DEF Right, Judged, Claimed
  <2>6. Ordered(f, g)
    <3>1. \A n \in h.told : n <= top.cur
      BY <2>1 DEF Right, Ordered
    <3>2. next(top.cur) # Nil => \A n \in h.told : n < next(top.cur)
      BY <2>1, <2>4, <3>1 DEF Node, Nil
    <3> QED BY <2>2, <3>2 DEF Ordered
  <2>7. Heard(f, g)
    <3>1. h.steady \subseteq h.asked /\ \A n \in h.steady : n <= top.cur => n \in h.told
      BY <2>1 DEF Right, Heard
    <3>2. \A n \in h.steady : next(top.cur) = Nil \/ n < next(top.cur) => n \in h.told
      BY <2>1, <3>1, Onward
    <3> QED BY <2>2, <3>1, <3>2 DEF Heard
  <2> QED BY <2>1, <2>2, <2>3, <2>5, <2>6, <2>7, GoPasses DEF Right, Kills
<1>4. CASE AttachAccepts
  <2>1. Able \subseteq Able'
    BY <1>4 DEF AttachAccepts, Able
  <2> QED BY <1>4, <2>1, PopPasses DEF AttachAccepts
<1>5. CASE AttachRefuses
  <2> DEFINE f == [top EXCEPT !.phase = "discard"]
  <2>1. /\ depth > 0 /\ f.phase = "discard" /\ h.steady \subseteq Able
        /\ Go(f) /\ hist' = hist /\ Able' = Able
    BY <1>5, TopType, TopKnows DEF AttachRefuses, Frame, Able
  <2> HIDE DEF f
  <2> QED BY <2>1, OtherFrames, GoPasses DEF DispatchPhases, Kills
<1>6. CASE DiscardReturns
  BY <1>6, PopPasses DEF DiscardReturns, Able
<1>7. CASE DetachReturns
  <2>1. depth \in 1 .. MaxDepth /\ stack \in [1 .. MaxDepth -> Frame]
    BY <1>7, TopType DEF DetachReturns, TypeOK
  <2>2. depth' \in 0 .. depth /\ \A d \in 1 .. depth' : stack'[d] = stack[d]
    BY <1>7, <2>1 DEF DetachReturns
  <2>3. Able \ {top.cur} \subseteq Able'
    BY <1>7 DEF DetachReturns, Able, TypeOK
  <2>4. Unsteady({top.cur})
    BY <1>7 DEF DetachReturns
  <2> QED BY <2>2, <2>3, <2>4, UnsteadyPasses
<1>8. CASE ExecReturns
  <2> DEFINE f == [top EXCEPT !.phase = "conf"]
  <2>1. /\ depth > 0 /\ f.phase = "conf" /\ h.steady \subseteq Able
        /\ Go(f) /\ hist' = hist /\ Able' = Able
    BY <1>8, TopType, TopKnows DEF ExecReturns, Frame, Able
  <2> HIDE DEF f
  <2> QED BY <2>1, OtherFrames, GoPasses DEF DispatchPhases, Kills
<1>9. CASE KillReturns
  <2> DEFINE f == [top EXCEPT !.phase = "kill", !.cur = next(top.cur)]
  <2>1. /\ depth > 0 /\ f.phase = "kill" /\ top.phase \in Kills /\ h.steady \subseteq Able
        /\ Go(f) /\ hist' = hist /\ Able' = Able
    BY <1>9, TopType, TopKnows DEF KillReturns, Frame, Able, Kills
  <2> HIDE DEF f
  <2> QED BY <2>1, OtherFrames, GoPasses DEF DispatchPhases
<1> QED
  BY <1>1, <1>2, <1>3, <1>4, <1>5, <1>6, <1>7, <1>8, <1>9 DEF Return

LEMMA EnterPasses ==
  ASSUME TypeOK, Passes, Enter
  PROVE  Passes'
<1> USE DEF InPhase
<1>0. NoHistory.steady \subseteq Able
  BY DEF NoHistory
<1>1. CASE Dispatch
  <2>1. Push(PreFrame, PreHistory) /\ Able' = Able
    BY <1>1 DEF Dispatch, Able
  <2> QED BY <2>1, PreIsRight, PushPasses DEF Kills
<1>2. ASSUME NEW v \in Verdict, SetResult(v) PROVE Passes'
  <2> DEFINE h == hist[depth]
             g == [h EXCEPT !.wrote = v]
  <2>1. /\ depth > 0 /\ Right(top, h) /\ h.steady \subseteq Able /\ h \in History /\ Note(g)
        /\ Able' = Able /\ stack' = stack /\ depth' = depth /\ depth \in 1 .. MaxDepth
    BY <1>2, TopType, TopKnows DEF SetResult, Able
  <2>2. /\ g.asked = h.asked /\ g.steady = h.steady /\ g.told = h.told /\ g.orig = h.orig
        /\ g.claims = h.claims /\ g.vetoes = h.vetoes
    BY <2>1 DEF History
  <2>3. Go(top)
    <3>1. [stack EXCEPT ![depth] = stack[depth]] = stack
      BY <2>1 DEF TypeOK
    <3> QED BY <2>1, <3>1 DEF Go, top
  <2> HIDE DEF g
  <2>4. Right(top, g)
    BY <2>1, <2>2 DEF Right, Judged, Claimed, Ordered, Heard
  <2> QED BY <2>1, <2>2, <2>3, <2>4, GoPasses
<1>3. ASSUME NEW g \in File, LoadCommand(g) PROVE Passes'
  <2> DEFINE f == [NoFrame EXCEPT !.phase = "attach", !.dll = g]
  <2>1. f.phase = "attach" /\ Push(f, NoHistory) /\ Able' = Able
    BY <1>3 DEF NoFrame, LoadCommand, BeginAttach, Able
  <2> HIDE DEF f
  <2> QED BY <1>0, <2>1, OtherFrames, PushPasses DEF DispatchPhases, Kills
<1>4. ASSUME NEW n \in Node, Pause(n) PROVE Passes'
  <2>1. Unsteady({n}) /\ stack' = stack /\ depth' = depth /\ depth' \in 0 .. depth
    BY <1>4, Parameters DEF Pause, TypeOK
  <2>2. Able \ {n} \subseteq Able'
    BY <1>4 DEF Pause, Able, TypeOK
  <2> QED BY <2>1, <2>2, UnsteadyPasses
<1>5. ASSUME NEW n \in Node, Unpause(n) PROVE Passes'
  <2>1. Able \subseteq Able'
    BY <1>5 DEF Unpause, Able, TypeOK
  <2> QED BY <1>5, <2>1, StayPasses DEF Unpause
<1>6. ASSUME NEW n \in Node, NEW iscmd \in BOOLEAN, Unload(n, iscmd) PROVE Passes'
  <2> DEFINE f == [NoFrame EXCEPT !.phase = "detach", !.cur = n]
  <2>1. f.phase = "detach" /\ Push(f, NoHistory) /\ Able' = Able
    BY <1>6 DEF NoFrame, Unload, Able
  <2> HIDE DEF f
  <2> QED BY <1>0, <2>1, OtherFrames, PushPasses DEF DispatchPhases, Kills
<1>7. CASE GameInit
  <2> DEFINE f == [NoFrame EXCEPT !.phase = "exec"]
  <2>1. f.phase = "exec" /\ Push(f, NoHistory) /\ Able' = Able
    BY <1>7 DEF NoFrame, GameInit, Able
  <2> HIDE DEF f
  <2> QED BY <1>0, <2>1, OtherFrames, PushPasses DEF DispatchPhases, Kills
<1>8. CASE ShutdownCommand
  BY <1>8, StayPasses DEF ShutdownCommand
<1>9. CASE GameShutdown
  <2> DEFINE f == [NoFrame EXCEPT !.phase = "kill", !.cur = first]
  <2>1. f.phase = "kill" /\ Push(f, NoHistory) /\ Able' = Able /\ depth = 0
    BY <1>9 DEF NoFrame, GameShutdown, Able
  <2> HIDE DEF f
  <2> QED BY <1>0, <2>1, OtherFrames, PushPasses DEF DispatchPhases
<1> QED
  BY <1>1, <1>2, <1>3, <1>4, <1>5, <1>6, <1>7, <1>8, <1>9 DEF Enter

LEMMA PassesHold == Spec => [](TypeOK /\ Passes)
<1>1. Init => Passes
  BY DEF Init, Passes
<1>2. TypeOK /\ Passes /\ [Next]_vars => Passes'
  <2> SUFFICES ASSUME TypeOK, Passes, [Next]_vars PROVE Passes'
    OBVIOUS
  <2>1. CASE Next
    BY <2>1, LoopPasses, ReturnPasses, EnterPasses DEF Next
  <2>2. CASE UNCHANGED vars
    BY <2>2, StayPasses DEF vars, code, Able
  <2> QED BY <2>1, <2>2
<1> QED
  BY TypeCorrect, <1>1, <1>2, PTL DEF Spec

(* For any plugins, verdicts, nesting and changes of the list: the         *)
(* original runs exactly once in a dispatch that no plugin superceded and  *)
(* never in one that some plugin did (CPluginMgr.cpp:242-286).             *)
THEOREM OriginalRunsUnlessVetoed == Spec => []OriginalUnlessVetoed
<1>1. Passes => OriginalUnlessVetoed
  BY DEF Passes, Right, Judged, OriginalUnlessVetoed
<1> QED BY <1>1, PassesHold, PTL

(* For any plugins and nesting, a dispatch returns the value of the last   *)
(* plugin that claimed the result, and the original's if none did          *)
(* (CPluginMgr.cpp:245-285).                                               *)
THEOREM LastClaimReturns == Spec => []ReturnProvenance
<1>1. TypeOK /\ Passes => ReturnProvenance
  <2> SUFFICES ASSUME TypeOK, Passes, NEW d \in 1 .. depth, stack[d].phase \in {"post", "posthook"}
               PROVE  stack[d].ret = IF hist[d].claims = {} THEN Original
                                     ELSE CHOOSE n \in hist[d].claims : \A m \in hist[d].claims : m <= n
    BY DEF ReturnProvenance
  <2> DEFINE S == hist[d].claims
  <2>1. IF S = {} THEN stack[d].ret = Original ELSE Last(S, stack[d].ret)
    BY DEF Passes, Right, Claimed
  <2>2. CASE S = {}
    BY <2>1, <2>2
  <2>3. CASE S # {}
    <3>1. S \subseteq Node
      BY Parameters DEF TypeOK, History
    <3>2. Last(S, stack[d].ret)
      BY <2>1, <2>3
    <3> HIDE DEF S
    <3>3. ASSUME NEW n \in S, \A m \in S : m <= n PROVE n = stack[d].ret
      <4>1. stack[d].ret \in S /\ n <= stack[d].ret /\ stack[d].ret <= n
        BY <3>2, <3>3 DEF Last
      <4>2. \A a, b \in Node : a <= b /\ b <= a => a = b
        BY Parameters DEF Node
      <4> QED BY <3>1, <4>1, <4>2
    <3>4. (CHOOSE n \in S : \A m \in S : m <= n) = stack[d].ret
      BY <3>2, <3>3 DEF Last
    <3> QED BY <2>3, <3>4 DEF S
  <2> QED BY <2>2, <2>3
<1> QED BY <1>1, PassesHold, PTL

(* For any plugins, commands and nesting, no plugin that stays listed and  *)
(* unpaused through a dispatch is left out of one of its two passes        *)
(* (CPluginMgr.cpp:228-299).                                               *)
THEOREM NobodyIsOverlooked == Spec => []NobodyOverlooked
<1>1. Passes => NobodyOverlooked
  BY DEF Passes, Right, Heard, NobodyOverlooked
<1> QED BY <1>1, PassesHold, PTL

(* Nor is any plugin called twice in a pass.                               *)
THEOREM NobodyIsAskedTwice == Spec => []NeverTwice
<1>1. Passes => NeverTwice
  BY DEF Passes, Right, Ordered, NeverTwice
<1> QED BY <1>1, PassesHold, PTL

(***************************************************************************)
(* The shared result.  Only a return from a hook ends a hook, and it       *)
(* resets the result; only a hook writes it.                               *)
(***************************************************************************)
LEMMA CleanKept ==
  ASSUME ResultClean, result' = result, depth \in Int, depth' \in Int,
         \A d \in 1 .. depth : stack[d].phase \in Hooks =>
            d <= depth' /\ stack'[d].phase \in Hooks
  PROVE  ResultClean'
BY DEF ResultClean

LEMMA CleanTop ==
  ASSUME TypeOK, ResultClean, depth > 0, top.phase \notin Hooks, result' = result,
         depth' \in {depth - 1, depth, depth + 1},
         \A d \in 1 .. depth : d # depth => stack'[d] = stack[d]
  PROVE  ResultClean'
<1>1. depth \in Int /\ depth' \in Int
  BY DEF TypeOK
<1>2. ASSUME NEW d \in 1 .. depth, stack[d].phase \in Hooks
      PROVE  d <= depth' /\ stack'[d].phase \in Hooks
  <2>1. d # depth
    BY <1>2 DEF top
  <2> QED BY <1>1, <1>2, <2>1
<1> QED BY <1>1, <1>2, CleanKept

LEMMA CleanGo ==
  ASSUME TypeOK, ResultClean, depth > 0, top.phase \notin Hooks, result' = result,
         NEW f, Go(f)
  PROVE  ResultClean'
BY CleanTop, TopType DEF Go, TypeOK

LEMMA CleanPop ==
  ASSUME TypeOK, ResultClean, depth > 0, top.phase \notin Hooks, result' = result, Pop
  PROVE  ResultClean'
BY CleanTop, TopType DEF Pop, TypeOK

LEMMA CleanPush ==
  ASSUME TypeOK, ResultClean, result' = result, NEW f, NEW h, Push(f, h)
  PROVE  ResultClean'
<1>1. depth \in Int /\ depth' = depth + 1
  BY DEF TypeOK, Push
<1>2. \A d \in 1 .. depth : stack'[d] = stack[d]
  BY <1>1 DEF TypeOK, Push
<1> QED BY <1>1, <1>2, CleanKept

LEMMA StepClean ==
  ASSUME TypeOK, ResultClean, Step
  PROVE  ResultClean'
<1> USE DEF InPhase
<1>1. CASE SkipPaused
  BY <1>1, CleanGo DEF SkipPaused, Hooks
<1>2. CASE CallHook
  BY <1>2, CleanGo DEF CallHook, Hooks
<1>3. CASE CallOriginal
  BY <1>3, CleanGo DEF CallOriginal, Hooks
<1>4. CASE Superceded
  BY <1>4, CleanGo DEF Superceded, Hooks
<1>5. CASE CallPostHook
  BY <1>5, CleanGo DEF CallPostHook, Hooks
<1>6. CASE DispatchReturns
  BY <1>6, CleanPop DEF DispatchReturns, Hooks
<1>7. CASE ConfLoad
  <2>1. CASE Loadable(ConfList[conf])
    BY <1>7, <2>1, CleanPush DEF ConfLoad, BeginAttach
  <2>2. CASE ~Loadable(ConfList[conf])
    BY <1>7, <2>2, CleanKept DEF ConfLoad, TypeOK
  <2> QED BY <2>1, <2>2
<1>8. CASE ConfDone
  BY <1>8, CleanGo DEF ConfDone, Hooks
<1>9. CASE KillNext
  BY <1>9, CleanGo DEF KillNext, Hooks
<1>10. CASE Killed
  BY <1>10, CleanPop DEF Killed, Hooks
<1> QED
  BY <1>1, <1>2, <1>3, <1>4, <1>5, <1>6, <1>7, <1>8, <1>9, <1>10 DEF Step

LEMMA ReturnClean ==
  ASSUME TypeOK, ResultClean, Return
  PROVE  ResultClean'
<1> USE DEF InPhase
<1>1. ASSUME NEW v \in pluginres, HookReturns(v) PROVE ResultClean'
  BY <1>1 DEF HookReturns, ResultClean
<1>2. CASE OriginalReturns
  BY <1>2, CleanGo DEF OriginalReturns, Hooks
<1>3. CASE PostHookReturns
  BY <1>3 DEF PostHookReturns, ResultClean
<1>4. CASE AttachAccepts
  BY <1>4, CleanPop DEF AttachAccepts, Hooks
<1>5. CASE AttachRefuses
  BY <1>5, CleanGo DEF AttachRefuses, Hooks
<1>6. CASE DiscardReturns
  BY <1>6, CleanPop DEF DiscardReturns, Hooks
<1>7. CASE DetachReturns
  BY <1>7, CleanTop, TopType DEF DetachReturns, Hooks, TypeOK
<1>8. CASE ExecReturns
  BY <1>8, CleanGo DEF ExecReturns, Hooks
<1>9. CASE KillReturns
  BY <1>9, CleanGo DEF KillReturns, Hooks
<1> QED
  BY <1>1, <1>2, <1>3, <1>4, <1>5, <1>6, <1>7, <1>8, <1>9 DEF Return

LEMMA EnterClean ==
  ASSUME TypeOK, ResultClean, Enter
  PROVE  ResultClean'
<1>1. CASE Dispatch
  BY <1>1, CleanPush DEF Dispatch
<1>2. ASSUME NEW v \in Verdict, SetResult(v) PROVE ResultClean'
  BY <1>2, TopType DEF SetResult, ResultClean, InPhase, top
<1>3. ASSUME NEW f \in File, LoadCommand(f) PROVE ResultClean'
  BY <1>3, CleanPush DEF LoadCommand, BeginAttach
<1>4. ASSUME NEW n \in Node, Pause(n) \/ Unpause(n) PROVE ResultClean'
  <2>1. UNCHANGED <<stack, depth, result>>
    BY <1>4 DEF Pause, Unpause
  <2> QED BY <2>1 DEF ResultClean
<1>5. ASSUME NEW n \in Node, NEW iscmd \in BOOLEAN, Unload(n, iscmd) PROVE ResultClean'
  BY <1>5, CleanPush DEF Unload
<1>6. CASE GameInit
  BY <1>6, CleanPush DEF GameInit
<1>7. CASE ShutdownCommand
  BY <1>7, CleanKept DEF ShutdownCommand, TypeOK
<1>8. CASE GameShutdown
  BY <1>8, CleanPush DEF GameShutdown
<1> QED
  BY <1>1, <1>2, <1>3, <1>4, <1>5, <1>6, <1>7, <1>8 DEF Enter

(* A verdict is never left over for the next message, however the hooks    *)
(* that write the shared result are nested (CPluginMgr.cpp:267, 296).      *)
THEOREM ResultIsClean == Spec => []ResultClean
<1>1. Init => ResultClean
  BY DEF Init, ResultClean
<1>2. TypeOK /\ ResultClean /\ [Next]_vars => ResultClean'
  <2> SUFFICES ASSUME TypeOK, ResultClean, [Next]_vars PROVE ResultClean'
    OBVIOUS
  <2>1. CASE Next
    BY <2>1, StepClean, ReturnClean, EnterClean DEF Next
  <2>2. CASE UNCHANGED vars
    BY <2>2, CleanKept DEF vars, code, TypeOK
  <2> QED BY <2>1, <2>2
<1> QED BY TypeCorrect, <1>1, <1>2, PTL DEF Spec

(***************************************************************************)
(* CodeMapped.  DLLs are told apart by Sole: two nodes never share one,    *)
(* nor a node and an activation of LoadPlugin, nor two of those; closing   *)
(* one therefore unmaps nobody else's code.  The destruction of the        *)
(* manager closes the DLLs in the order of the list (Opened).              *)
(***************************************************************************)
Slots == {"attach", "discard"}
Inner == Hooks \cup {"detach", "killing"}

KillAlone == \A d \in 1 .. depth : stack[d].phase \in Kills => depth = 1
InsidePlugin == \A d \in 1 .. depth : stack[d].phase \in Inner => stack[d].cur # Nil
Listed == \A n \in live : n < nextNode /\ file[n] \in File

Sole == \A n, m \in live : file[n] = file[m] => n = m
Pending ==
  \A d \in 1 .. depth : stack[d].phase \in Slots =>
    /\ stack[d].dll \in open
    /\ \A n \in live : file[n] # stack[d].dll
    /\ \A e \in 1 .. depth : stack[e].phase \in Slots /\ stack[e].dll = stack[d].dll => e = d

Closing(n) == InPhase(Kills) /\ (top.cur = Nil \/ n < top.cur)
Opened == \A n \in live : Closing(n) \/ file[n] \in open

Owned == KillAlone /\ InsidePlugin /\ Listed /\ Sole /\ Pending /\ Opened

LEMMA OwnedMeansMapped ==
  ASSUME TypeOK, Cursors, Owned
  PROVE  CodeMapped
<1>1. ASSUME NEW d \in 1 .. depth, stack[d].phase \in Inner
      PROVE  file[stack[d].cur] \in open
  <2>1. stack[d].cur \in live /\ stack[d].cur \in Node /\ depth > 0
    BY <1>1 DEF Owned, InsidePlugin, Cursors, CursorLive, TypeOK
  <2>2. CASE ~InPhase(Kills)
    BY <2>1, <2>2 DEF Owned, Opened, Closing
  <2>3. CASE InPhase(Kills)
    <3>1. depth = 1
      BY <2>1, <2>3, TopType DEF Owned, KillAlone, InPhase, top, TypeOK
    <3>2. ~Closing(top.cur) /\ top = stack[d]
      BY <1>1, <2>1, <3>1, Parameters DEF Closing, Owned, InsidePlugin, top, Node
    <3> QED BY <2>1, <3>2 DEF Owned, Opened
  <2> QED BY <2>2, <2>3
<1>2. \A d \in 1 .. depth : stack[d].phase \in Slots => stack[d].dll \in open
  BY DEF Owned, Pending
<1>3. ~InPhase(Kills) => {file[n] : n \in live} \subseteq open
  BY DEF Owned, Opened, Closing
<1> QED BY <1>1, <1>2, <1>3 DEF CodeMapped, Inner, Slots, Kills

(* No activation ends or begins a call with a DLL, and no node moves.      *)
LEMMA OwnedGo ==
  ASSUME TypeOK, Owned, depth > 0, NEW f, Go(f), UNCHANGED <<live, file, open, nextNode>>,
         top.phase \notin Kills, f.phase \notin Kills,
         f.phase \in Inner => f.cur # Nil,
         f.phase \in Slots => top.phase \in Slots /\ f.dll = top.dll
  PROVE  Owned'
<1>1. /\ depth' = depth /\ depth \in 1 .. MaxDepth
      /\ stack \in [1 .. MaxDepth -> Frame]
  BY TopType DEF Go, TypeOK
<1>2. \A d \in 1 .. depth : stack'[d] = IF d = depth THEN f ELSE stack[d]
  BY <1>1 DEF Go
<1>3. KillAlone' /\ InsidePlugin' /\ Listed' /\ Sole'
  BY <1>1, <1>2 DEF Owned, KillAlone, InsidePlugin, Listed, Sole
<1>4. Pending'
  <2>1. \A d \in 1 .. depth : stack'[d].phase \in Slots =>
           stack[d].phase \in Slots /\ stack'[d].dll = stack[d].dll
    BY <1>1, <1>2 DEF top
  <2> QED BY <1>1, <2>1 DEF Owned, Pending
<1>5. Opened'
  BY DEF Owned, Opened, Closing, InPhase
<1> QED BY <1>3, <1>4, <1>5 DEF Owned

LEMMA OwnedPush ==
  ASSUME TypeOK, Owned, NEW f, NEW h, Push(f, h), UNCHANGED <<live, file, open, nextNode>>,
         ~InPhase(Kills), f.phase \notin Kills \cup Slots,
         f.phase \in Inner => f.cur # Nil
  PROVE  Owned'
<1>1. /\ depth' = depth + 1 /\ depth \in 0 .. MaxDepth /\ depth + 1 \in 1 .. MaxDepth
      /\ stack \in [1 .. MaxDepth -> Frame]
  BY Parameters DEF Push, TypeOK
<1>2. \A d \in 1 .. depth + 1 : stack'[d] = IF d = depth + 1 THEN f ELSE stack[d]
  BY <1>1 DEF Push
<1>3. \A d \in 1 .. depth : stack[d].phase \notin Kills
  BY <1>1 DEF Owned, KillAlone, InPhase, top
<1>4. KillAlone' /\ InsidePlugin' /\ Listed' /\ Sole'
  BY <1>1, <1>2, <1>3 DEF Owned, KillAlone, InsidePlugin, Listed, Sole
<1>5. Pending'
  BY <1>1, <1>2 DEF Owned, Pending
<1>6. Opened'
  BY DEF Owned, Opened, Closing
<1> QED BY <1>4, <1>5, <1>6 DEF Owned

(* LoadPlugin begins with a DLL nobody holds.                              *)
LEMMA OwnedAttach ==
  ASSUME TypeOK, Owned, NEW g \in File, g \notin open, BeginAttach(g),
         UNCHANGED <<live, file, nextNode>>, ~InPhase(Kills)
  PROVE  Owned'
<1> DEFINE f == [NoFrame EXCEPT !.phase = "attach", !.dll = g]
<1>1. /\ depth' = depth + 1 /\ depth \in 0 .. MaxDepth /\ depth + 1 \in 1 .. MaxDepth
      /\ stack \in [1 .. MaxDepth -> Frame] /\ open' = open \cup {g}
  BY Parameters DEF Push, TypeOK, BeginAttach
<1>2. f.phase = "attach" /\ f.dll = g
  BY DEF NoFrame
<1>3. \A d \in 1 .. depth + 1 : stack'[d] = IF d = depth + 1 THEN f ELSE stack[d]
  BY <1>1 DEF Push, BeginAttach
<1> HIDE DEF f
<1>4. \A d \in 1 .. depth : stack[d].phase \notin Kills
  BY <1>1 DEF Owned, KillAlone, InPhase, top
<1>5. KillAlone' /\ InsidePlugin' /\ Listed' /\ Sole'
  BY <1>1, <1>2, <1>3, <1>4 DEF Owned, KillAlone, InsidePlugin, Listed, Sole, Kills, Inner, Hooks
<1>6. \A n \in live : file[n] \in open
  BY DEF Owned, Opened, Closing
<1>7. Pending'
  BY <1>1, <1>2, <1>3, <1>6 DEF Owned, Pending, Slots
<1>8. Opened'
  BY <1>1, <1>6 DEF Opened
<1> QED BY <1>5, <1>7, <1>8 DEF Owned

LEMMA OwnedPop ==
  ASSUME TypeOK, Owned, depth > 0, Pop, UNCHANGED <<live, file, nextNode>>,
         ~InPhase(Kills),
         \/ open' = open
         \/ top.phase \in Slots /\ open' = open \ {top.dll}
  PROVE  Owned'
<1>1. /\ depth' = depth - 1 /\ depth \in 1 .. MaxDepth
      /\ stack \in [1 .. MaxDepth -> Frame]
  BY TopType DEF Pop, TypeOK
<1>2. \A d \in 1 .. depth - 1 : stack'[d] = stack[d] /\ d \in 1 .. depth /\ d # depth
  BY <1>1 DEF Pop
<1>3. \A d \in 1 .. depth : stack[d].phase \notin Kills
  BY <1>1 DEF Owned, KillAlone, InPhase, top
<1>4. KillAlone' /\ InsidePlugin' /\ Listed' /\ Sole'
  BY <1>1, <1>2, <1>3 DEF Owned, KillAlone, InsidePlugin, Listed, Sole
<1>5. Pending'
  <2>1. ASSUME NEW d \in 1 .. depth - 1, stack[d].phase \in Slots
        PROVE  stack[d].dll \in open'
    BY <1>1, <1>2, <2>1 DEF Owned, Pending, top
  <2> QED BY <1>1, <1>2, <2>1 DEF Owned, Pending
<1>6. Opened'
  <2>1. \A n \in live : file[n] \in open
    BY DEF Owned, Opened, Closing
  <2>2. \A n \in live : file[n] \in open'
    BY <1>1, <2>1 DEF Owned, Pending, top
  <2> QED BY <2>2 DEF Opened
<1> QED BY <1>4, <1>5, <1>6 DEF Owned

LEMMA OwnedStays ==
  ASSUME Owned, UNCHANGED <<live, file, open, nextNode, stack, depth>>
  PROVE  Owned'
<1>1. KillAlone' /\ InsidePlugin' /\ Listed' /\ Sole' /\ Pending'
  BY DEF Owned, KillAlone, InsidePlugin, Listed, Sole, Pending
<1>2. Opened'
  BY DEF Owned, Opened, Closing, InPhase, top
<1> QED BY <1>1, <1>2 DEF Owned

(* The accepted plugin takes its DLL over from the call of JASS_Attach.    *)
LEMMA OwnedAccepted ==
  ASSUME TypeOK, Cursors, Owned, AttachAccepts
  PROVE  Owned'
<1>1. /\ depth' = depth - 1 /\ depth \in 1 .. MaxDepth /\ top.phase = "attach"
      /\ stack \in [1 .. MaxDepth -> Frame] /\ nextNode \in Node
      /\ live' = live \cup {nextNode} /\ nextNode' = nextNode + 1 /\ open' = open
      /\ file' = [file EXCEPT ![nextNode] = top.dll]
  BY TopType, Parameters DEF AttachAccepts, InPhase, Pop, TypeOK, Node
<1>2. \A d \in 1 .. depth - 1 : stack'[d] = stack[d] /\ d \in 1 .. depth /\ d # depth
  BY <1>1 DEF AttachAccepts, Pop
<1>3. \A d \in 1 .. depth : stack[d].phase \notin Kills
  <2>1. top.phase \notin Kills
    BY <1>1 DEF Kills
  <2> QED BY <1>1, <2>1 DEF Owned, KillAlone, top
<1>4. live \subseteq Node /\ nextNode \notin live
  BY <1>1, Parameters DEF Owned, Listed, TypeOK, Node
<1>5. /\ top.dll \in open /\ top.dll \in File
      /\ \A n \in live : file[n] # top.dll
      /\ \A e \in 1 .. depth - 1 : stack[e].phase \in Slots => stack[e].dll # top.dll
  BY <1>1, <1>2 DEF Owned, Pending, Slots, top, TypeOK
<1>6. file'[nextNode] = top.dll /\ \A n \in live : file'[n] = file[n]
  BY <1>1, <1>4 DEF TypeOK
<1>7. KillAlone' /\ InsidePlugin'
  BY <1>1, <1>2, <1>3 DEF Owned, KillAlone, InsidePlugin
<1>8. Listed'
  BY <1>1, <1>4, <1>5, <1>6, Parameters DEF Owned, Listed, Node
<1>9. Sole'
  BY <1>1, <1>5, <1>6 DEF Owned, Sole
<1>10. Pending'
  BY <1>1, <1>2, <1>5, <1>6 DEF Owned, Pending
<1>11. Opened'
  <2>1. \A n \in live : file[n] \in open
    BY <1>1, <1>3 DEF Owned, Opened, Closing, InPhase, top
  <2> QED BY <1>1, <1>5, <1>6, <2>1 DEF Opened
<1> QED BY <1>7, <1>8, <1>9, <1>10, <1>11 DEF Owned

(* The unloaded plugin's node and DLL go together.                         *)
LEMMA OwnedDetached ==
  ASSUME TypeOK, Cursors, Owned, DetachReturns
  PROVE  Owned'
<1>1. /\ depth' = depth - 1 /\ depth \in 1 .. MaxDepth /\ top.phase = "detach"
      /\ stack \in [1 .. MaxDepth -> Frame] /\ top.cur \in live
      /\ live' = live \ {top.cur} /\ nextNode' = nextNode /\ open' = open \ {file[top.cur]}
      /\ file' = [file EXCEPT ![top.cur] = NoFile]
  BY TopType DEF DetachReturns, InPhase, TypeOK
<1>2. \A d \in 1 .. depth - 1 : stack'[d] = stack[d] /\ d \in 1 .. depth /\ d # depth
  BY <1>1 DEF DetachReturns
<1>3. \A d \in 1 .. depth : stack[d].phase \notin Kills
  <2>1. top.phase \notin Kills
    BY <1>1 DEF Kills
  <2> QED BY <1>1, <2>1 DEF Owned, KillAlone, top
<1>4. \A n \in live' : n \in live /\ n # top.cur /\ file'[n] = file[n] /\ file[n] # file[top.cur]
  BY <1>1 DEF TypeOK, Owned, Sole
<1>5. KillAlone' /\ InsidePlugin'
  BY <1>1, <1>2, <1>3 DEF Owned, KillAlone, InsidePlugin
<1>6. Listed' /\ Sole'
  BY <1>1, <1>4 DEF Owned, Listed, Sole
<1>7. Pending'
  <2>1. ASSUME NEW d \in 1 .. depth - 1, stack[d].phase \in Slots
        PROVE  /\ stack[d].dll \in open'
               /\ \A n \in live' : file'[n] # stack[d].dll
               /\ \A e \in 1 .. depth - 1 : stack[e].phase \in Slots /\ stack[e].dll = stack[d].dll => e = d
    BY <1>1, <1>2, <1>4, <2>1 DEF Owned, Pending
  <2> QED BY <1>1, <1>2, <2>1 DEF Pending
<1>8. Opened'
  <2>1. \A n \in live : file[n] \in open
    BY <1>1, <1>3 DEF Owned, Opened, Closing, InPhase, top
  <2> QED BY <1>1, <1>4, <2>1 DEF Opened
<1> QED BY <1>5, <1>6, <1>7, <1>8 DEF Owned

(* The manager dies alone, at the bottom of the stack.                     *)
LEMMA OwnedKill ==
  ASSUME TypeOK, Owned, NEW f, stack' = [stack EXCEPT ![1] = f], depth' = 1,
         UNCHANGED <<live, file, nextNode>>,
         f.phase \in Kills, f.phase = "killing" => f.cur # Nil,
         \A n \in live : ~ (f.cur = Nil \/ n < f.cur) => file[n] \in open'
  PROVE  Owned'
<1>1. stack' \in [1 .. MaxDepth -> {f} \cup Frame] /\ stack'[1] = f /\ 1 .. depth' = {1}
  BY Parameters DEF TypeOK
<1>2. f.phase \notin Slots
  BY DEF Slots, Kills
<1>3. KillAlone' /\ Listed' /\ Sole'
  BY DEF Owned, KillAlone, Listed, Sole
<1>4. InsidePlugin' /\ Pending'
  BY <1>1, <1>2 DEF InsidePlugin, Pending, Inner, Hooks, Kills
<1>5. Opened'
  BY <1>1 DEF Opened, Closing, InPhase, top
<1> QED BY <1>3, <1>4, <1>5 DEF Owned

LEMMA KillsAtBottom ==
  ASSUME TypeOK, Owned, InPhase(Kills)
  PROVE  depth = 1 /\ top = stack[1] /\ top \in Frame
BY TopType DEF InPhase, Owned, KillAlone, top, TypeOK

(* Nothing runs while the game is down.                                    *)
Idle == ~up => depth = 0

LEMMA IdleKept ==
  ASSUME TypeOK, Owned, Idle, Next
  PROVE  Idle'
<1>1. CASE Killed
  <2>1. depth = 1
    BY <1>1, KillsAtBottom DEF Killed, InPhase, Kills
  <2> QED BY <1>1, <2>1 DEF Killed, Pop, Idle
<1>2. CASE GameInit
  BY <1>2 DEF GameInit, Idle
<1>3. ASSUME ~Killed, ~GameInit PROVE up /\ up' = up
  <2>1. CASE Step
    BY <1>3, <2>1 DEF Step, Idle, InPhase, SkipPaused, CallHook, CallOriginal, Superceded,
                      CallPostHook, DispatchReturns, ConfLoad, ConfDone, KillNext
  <2>2. CASE Return
    <3>1. ASSUME NEW v \in pluginres, HookReturns(v) PROVE up /\ up' = up
      BY <3>1 DEF HookReturns, InPhase, Idle
    <3> QED
      BY <2>2, <3>1 DEF Return, Idle, InPhase, OriginalReturns, PostHookReturns, AttachAccepts,
                        AttachRefuses, DiscardReturns, DetachReturns, ExecReturns, KillReturns
  <2>3. CASE Enter
    <3>1. ASSUME NEW v \in Verdict, SetResult(v) PROVE up /\ up' = up
      BY <3>1 DEF SetResult, InPhase, Idle
    <3>2. ASSUME NEW f \in File, LoadCommand(f) PROVE up /\ up' = up
      BY <3>2 DEF LoadCommand, Foreign
    <3>3. ASSUME NEW n \in Node, Pause(n) \/ Unpause(n) PROVE up /\ up' = up
      BY <3>3 DEF Pause, Unpause, Foreign
    <3>4. ASSUME NEW n \in Node, NEW iscmd \in BOOLEAN, Unload(n, iscmd) PROVE up /\ up' = up
      BY <3>4 DEF Unload, Foreign
    <3> QED
      BY <1>3, <2>3, <3>1, <3>2, <3>3, <3>4
         DEF Enter, Foreign, Dispatch, ShutdownCommand, GameShutdown
  <2> QED BY <2>1, <2>2, <2>3 DEF Next
<1> QED BY <1>1, <1>2, <1>3 DEF Idle

LEMMA StepOwned ==
  ASSUME TypeOK, Cursors, Owned, Step
  PROVE  Owned'
<1> USE DEF InPhase
<1>0. live \subseteq Node /\ \A n \in live : n # Nil
  BY Parameters DEF TypeOK, Node, Nil
<1>1. CASE SkipPaused
  <2> DEFINE f == [top EXCEPT !.cur = next(top.cur)]
  <2>1. f.phase = top.phase /\ top.phase \in {"pre", "post"} /\ depth > 0
    BY <1>1, TopType DEF SkipPaused, Frame
  <2>2. Go(f) /\ UNCHANGED <<live, file, open, nextNode>>
    BY <1>1 DEF SkipPaused
  <2> HIDE DEF f
  <2> QED BY <2>1, <2>2, OwnedGo DEF Kills, Inner, Hooks, Slots
<1>2. CASE CallHook
  <2> DEFINE f == [top EXCEPT !.phase = "hook"]
  <2>1. f.phase = "hook" /\ f.cur = top.cur /\ top.cur \in live /\ top.phase = "pre" /\ depth > 0
    BY <1>2, TopType DEF CallHook, Frame
  <2>2. Go(f) /\ UNCHANGED <<live, file, open, nextNode>>
    BY <1>2 DEF CallHook
  <2> HIDE DEF f
  <2> QED BY <1>0, <2>1, <2>2, OwnedGo DEF Kills, Inner, Hooks, Slots
<1>3. CASE CallOriginal
  <2> DEFINE f == [top EXCEPT !.phase = "orig"]
  <2>1. f.phase = "orig" /\ top.phase = "pre" /\ depth > 0
    BY <1>3, TopType DEF CallOriginal, Frame
  <2>2. Go(f) /\ UNCHANGED <<live, file, open, nextNode>>
    BY <1>3 DEF CallOriginal
  <2> HIDE DEF f
  <2> QED BY <2>1, <2>2, OwnedGo DEF Kills, Inner, Hooks, Slots
<1>4. CASE Superceded
  <2> DEFINE f == [top EXCEPT !.phase = "post", !.cur = first]
  <2>1. f.phase = "post" /\ top.phase = "pre" /\ depth > 0
    BY <1>4, TopType DEF Superceded, Frame
  <2>2. Go(f) /\ UNCHANGED <<live, file, open, nextNode>>
    BY <1>4 DEF Superceded
  <2> HIDE DEF f
  <2> QED BY <2>1, <2>2, OwnedGo DEF Kills, Inner, Hooks, Slots
<1>5. CASE CallPostHook
  <2> DEFINE f == [top EXCEPT !.phase = "posthook"]
  <2>1. f.phase = "posthook" /\ f.cur = top.cur /\ top.cur \in live /\ top.phase = "post" /\ depth > 0
    BY <1>5, TopType DEF CallPostHook, Frame
  <2>2. Go(f) /\ UNCHANGED <<live, file, open, nextNode>>
    BY <1>5 DEF CallPostHook
  <2> HIDE DEF f
  <2> QED BY <1>0, <2>1, <2>2, OwnedGo DEF Kills, Inner, Hooks, Slots
<1>6. CASE DispatchReturns
  BY <1>6, OwnedPop DEF DispatchReturns, Kills
<1>7. CASE ConfLoad
  <2>0. ~InPhase(Kills) /\ ConfList[conf] \in File
    BY <1>7, Parameters DEF ConfLoad, Kills, TypeOK
  <2>1. CASE Loadable(ConfList[conf])
    BY <1>7, <2>0, <2>1, OwnedAttach DEF ConfLoad, Loadable
  <2>2. CASE ~Loadable(ConfList[conf])
    BY <1>7, <2>2, OwnedStays DEF ConfLoad
  <2> QED BY <2>1, <2>2
<1>8. CASE ConfDone
  <2>1. PreFrame.phase = "pre" /\ top.phase = "conf" /\ depth > 0
    BY <1>8 DEF ConfDone, PreFrame, NoFrame
  <2>2. Go(PreFrame) /\ UNCHANGED <<live, file, open, nextNode>>
    BY <1>8 DEF ConfDone
  <2> QED BY <2>1, <2>2, OwnedGo DEF Kills, Inner, Hooks, Slots
<1>9. CASE KillNext
  <2> DEFINE f == [top EXCEPT !.phase = "killing"]
  <2>1. InPhase(Kills) /\ top.cur \in live
    BY <1>9 DEF KillNext, Kills
  <2>2. depth = 1 /\ f.phase = "killing" /\ f.cur = top.cur
    BY <2>1, KillsAtBottom DEF Frame
  <2>3. stack' = [stack EXCEPT ![1] = f] /\ depth' = 1 /\ UNCHANGED <<live, file, nextNode, open>>
    BY <1>9, <2>2 DEF KillNext, Go
  <2>4. \A n \in live : ~ (f.cur = Nil \/ n < f.cur) => file[n] \in open'
    BY <2>2, <2>3 DEF Owned, Opened, Closing
  <2> HIDE DEF f
  <2> QED BY <1>0, <2>1, <2>2, <2>3, <2>4, OwnedKill DEF Kills
<1>10. CASE Killed
  <2>1. InPhase(Kills)
    BY <1>10 DEF Killed, Kills
  <2>2. depth' = 0 /\ live' = {}
    BY <1>10, <2>1, KillsAtBottom DEF Killed, Pop
  <2> QED BY <2>2 DEF Owned, KillAlone, InsidePlugin, Listed, Sole, Pending, Opened
<1> QED
  BY <1>1, <1>2, <1>3, <1>4, <1>5, <1>6, <1>7, <1>8, <1>9, <1>10 DEF Step

LEMMA ReturnOwned ==
  ASSUME TypeOK, Cursors, Owned, Return
  PROVE  Owned'
<1> USE DEF InPhase
<1>1. ASSUME NEW v \in pluginres, HookReturns(v) PROVE Owned'
  <2>1. Judge(top, v).phase = "pre" /\ top.phase = "hook" /\ depth > 0
    BY <1>1, TopType DEF HookReturns, Judge, Frame
  <2>2. Go(Judge(top, v)) /\ UNCHANGED <<live, file, open, nextNode>>
    BY <1>1 DEF HookReturns
  <2> QED BY <2>1, <2>2, OwnedGo DEF Kills, Inner, Hooks, Slots
<1>2. CASE OriginalReturns
  <2> DEFINE f == [top EXCEPT !.phase = "post", !.cur = first,
                              !.ret = IF top.max = JASS_OVERRIDE THEN @ ELSE Original]
  <2>1. f.phase = "post" /\ top.phase = "orig" /\ depth > 0
    BY <1>2, TopType DEF OriginalReturns, Frame
  <2>2. Go(f) /\ UNCHANGED <<live, file, open, nextNode>>
    BY <1>2 DEF OriginalReturns
  <2> HIDE DEF f
  <2> QED BY <2>1, <2>2, OwnedGo DEF Kills, Inner, Hooks, Slots
<1>3. CASE PostHookReturns
  <2> DEFINE f == [top EXCEPT !.phase = "post", !.cur = next(top.cur)]
  <2>1. f.phase = "post" /\ top.phase = "posthook" /\ depth > 0
    BY <1>3, TopType DEF PostHookReturns, Frame
  <2>2. Go(f) /\ UNCHANGED <<live, file, open, nextNode>>
    BY <1>3 DEF PostHookReturns
  <2> HIDE DEF f
  <2> QED BY <2>1, <2>2, OwnedGo DEF Kills, Inner, Hooks, Slots
<1>4. CASE AttachAccepts
  BY <1>4, OwnedAccepted
<1>5. CASE AttachRefuses
  <2> DEFINE f == [top EXCEPT !.phase = "discard"]
  <2>1. f.phase = "discard" /\ f.dll = top.dll /\ top.phase = "attach" /\ depth > 0
    BY <1>5, TopType DEF AttachRefuses, Frame
  <2>2. Go(f) /\ UNCHANGED <<live, file, open, nextNode>>
    BY <1>5 DEF AttachRefuses
  <2> HIDE DEF f
  <2> QED BY <2>1, <2>2, OwnedGo DEF Kills, Inner, Hooks, Slots
<1>6. CASE DiscardReturns
  BY <1>6, OwnedPop DEF DiscardReturns, Kills, Slots
<1>7. CASE DetachReturns
  BY <1>7, OwnedDetached
<1>8. CASE ExecReturns
  <2> DEFINE f == [top EXCEPT !.phase = "conf"]
  <2>1. f.phase = "conf" /\ top.phase = "exec" /\ depth > 0
    BY <1>8, TopType DEF ExecReturns, Frame
  <2>2. Go(f) /\ UNCHANGED <<live, file, open, nextNode>>
    BY <1>8 DEF ExecReturns
  <2> HIDE DEF f
  <2> QED BY <2>1, <2>2, OwnedGo DEF Kills, Inner, Hooks, Slots
<1>9. CASE KillReturns
  <2> DEFINE f == [top EXCEPT !.phase = "kill", !.cur = next(top.cur)]
  <2>1. InPhase(Kills) /\ top.cur \in live /\ top.cur \in Node
    BY <1>9 DEF KillReturns, Kills, TypeOK
  <2>2. depth = 1 /\ f.phase = "kill" /\ f.cur = next(top.cur)
    BY <2>1, KillsAtBottom DEF Frame
  <2>3. /\ stack' = [stack EXCEPT ![1] = f] /\ depth' = 1 /\ UNCHANGED <<live, file, nextNode>>
        /\ open' = open \ {file[top.cur]}
    BY <1>9, <2>2 DEF KillReturns, Go
  <2>4. ASSUME NEW n \in live, next(top.cur) # Nil, ~ (n < next(top.cur))
        PROVE  file[n] \in open'
    <3>1. /\ n \in Node /\ next(top.cur) \in Node
          /\ next(top.cur) > top.cur
      BY <2>1, <2>4, NextIs DEF TypeOK
    <3>2. n # top.cur /\ ~ (n < top.cur)
      BY <2>1, <2>4, <3>1, Parameters DEF Node
    <3>3. top.cur # Nil
      BY <2>1, Parameters DEF Node, Nil
    <3> QED BY <2>1, <2>3, <3>2, <3>3 DEF Owned, Opened, Closing, Sole
  <2> HIDE DEF f
  <2> QED BY <2>2, <2>3, <2>4, OwnedKill DEF Kills
<1> QED
  BY <1>1, <1>2, <1>3, <1>4, <1>5, <1>6, <1>7, <1>8, <1>9 DEF Return

LEMMA EnterOwned ==
  ASSUME TypeOK, Cursors, Owned, Idle, Enter
  PROVE  Owned'
<1>0. Foreign \/ depth = 0 => ~InPhase(Kills)
  BY DEF Foreign, InPhase, Kills, Calls, Hooks
<1>1. CASE Dispatch
  <2>1. PreFrame.phase = "pre" /\ Push(PreFrame, PreHistory) /\ UNCHANGED <<live, file, open, nextNode>>
    BY <1>1 DEF Dispatch, PreFrame, NoFrame
  <2> QED BY <1>0, <1>1, <2>1, OwnedPush DEF Dispatch, Kills, Inner, Hooks, Slots
<1>2. ASSUME NEW v \in Verdict, SetResult(v) PROVE Owned'
  BY <1>2, OwnedStays DEF SetResult
<1>3. ASSUME NEW g \in File, LoadCommand(g) PROVE Owned'
  BY <1>0, <1>3, OwnedAttach DEF LoadCommand, Loadable
<1>4. ASSUME NEW n \in Node, Pause(n) PROVE Owned'
  BY <1>4, OwnedStays DEF Pause
<1>5. ASSUME NEW n \in Node, Unpause(n) PROVE Owned'
  BY <1>5, OwnedStays DEF Unpause
<1>6. ASSUME NEW n \in Node, NEW iscmd \in BOOLEAN, Unload(n, iscmd) PROVE Owned'
  <2> DEFINE f == [NoFrame EXCEPT !.phase = "detach", !.cur = n]
  <2>1. f.phase = "detach" /\ f.cur # Nil
    BY Parameters DEF NoFrame, Node, Nil
  <2>2. Push(f, NoHistory) /\ UNCHANGED <<live, file, open, nextNode>> /\ Foreign
    BY <1>6 DEF Unload
  <2> HIDE DEF f
  <2> QED BY <1>0, <2>1, <2>2, OwnedPush DEF Kills, Slots
<1>7. CASE GameInit
  <2> DEFINE f == [NoFrame EXCEPT !.phase = "exec"]
  <2>1. f.phase = "exec"
    BY DEF NoFrame
  <2>2. Push(f, NoHistory) /\ UNCHANGED <<live, file, open, nextNode>>
    BY <1>7 DEF GameInit
  <2>3. depth = 0
    BY <1>7 DEF GameInit, Idle
  <2> HIDE DEF f
  <2> QED BY <1>0, <2>1, <2>2, <2>3, OwnedPush DEF Kills, Inner, Hooks, Slots
<1>8. CASE ShutdownCommand
  <2>1. live' = {} /\ depth' = 0
    BY <1>8 DEF ShutdownCommand
  <2> QED BY <2>1 DEF Owned, KillAlone, InsidePlugin, Listed, Sole, Pending, Opened
<1>9. CASE GameShutdown
  <2> DEFINE f == [NoFrame EXCEPT !.phase = "kill", !.cur = first]
  <2>1. f.phase = "kill"
    BY DEF NoFrame
  <2>2. /\ stack' = [stack EXCEPT ![1] = f] /\ depth' = 1 /\ depth = 0
        /\ UNCHANGED <<live, file, open, nextNode>>
    BY <1>9 DEF GameShutdown, Push
  <2>3. \A n \in live : file[n] \in open'
    BY <1>0, <2>2 DEF Owned, Opened, Closing
  <2> HIDE DEF f
  <2> QED BY <2>1, <2>2, <2>3, OwnedKill DEF Kills
<1> QED
  BY <1>1, <1>2, <1>3, <1>4, <1>5, <1>6, <1>7, <1>8, <1>9 DEF Enter

(* No code is executed after it was unmapped, as long as no command issued *)
(* from inside a plugin unloads a plugin that is on the call stack: the    *)
(* DLL of every hook, JASS_Attach and JASS_Detach that has not returned is *)
(* open, and so is every listed plugin's (CPlugin.cpp:169-180).            *)
THEOREM CodeStaysMapped ==
  ASSUME "selfUnload" \notin Freedoms
  PROVE  Spec => []CodeMapped
<1> DEFINE IInv == Cursors /\ Owned /\ Idle
<1>1. Init => IInv
  BY DEF Init, Cursors, CursorLive, DetachAlone, KillOutermost, Owned, KillAlone, InsidePlugin,
         Listed, Sole, Pending, Opened, Idle
<1>2. TypeOK /\ IInv /\ [Next]_vars => IInv'
  <2> SUFFICES ASSUME TypeOK, IInv, [Next]_vars PROVE IInv'
    OBVIOUS
  <2>1. CASE Next
    <3>1. Cursors'
      BY <2>1, LoopCursors, ReturnCursors, EnterCursors DEF Next
    <3>2. Owned'
      BY <2>1, StepOwned, ReturnOwned, EnterOwned DEF Next
    <3> QED BY <2>1, <3>1, <3>2, IdleKept
  <2>2. CASE UNCHANGED vars
    BY <2>2, StayKeeps, OwnedStays DEF vars, code, Idle
  <2> QED BY <2>1, <2>2
<1>3. TypeOK /\ IInv => CodeMapped
  BY OwnedMeansMapped
<1> QED
  BY TypeCorrect, <1>1, <1>2, <1>3, PTL DEF Spec

-----------------------------------------------------------------------------
(***************************************************************************)
(* PluginMgr implements PluginContract, for any plugins, any nesting of    *)
(* the calls and any changes of the list around them.                      *)
(***************************************************************************)

(* What the mapping reads, one plugin at a time.                           *)
Rest(f) == \E n \in live : file[n] = f /\ f \in open /\ paused[n]
InHooks(f) == RunningIn(Hooks, f)
InSlot(p, f) == \E d \in 1 .. depth : stack[d].phase = p /\ stack[d].dll = f
Ending == {"detach", "killing"}

(* A frame that the mapping does not see.                                  *)
Quiet(s) == s.phase \notin Inner \cup Slots

(* Beyond Owned: no node is paused before it is used, and a plugin that    *)
(* the dying manager has unloaded is closed.                               *)
Fresh == \A n \in Node \ live : ~paused[n]
Shut == \A n \in live : Closing(n) => file[n] \notin open

ContractInv == TypeOK /\ Cursors /\ Owned /\ Idle /\ Fresh /\ Shut

(* A step that changes nothing of that is no step of the contract.         *)
LEMMA Stutter ==
  ASSUME \A f \in File : /\ StateOf(f)' = StateOf(f)
                         /\ Rest(f)' = Rest(f)
                         /\ InHooks(f)' = InHooks(f)
  PROVE  UNCHANGED Contract!vars
BY DEF Contract!vars, Rest, InHooks

LEMMA SameFrames ==
  ASSUME UNCHANGED <<live, file, open, paused>>,
         \A d : d \in 1 .. depth /\ ~Quiet(stack[d]) <=> d \in 1 .. depth' /\ ~Quiet(stack'[d]),
         \A d \in 1 .. depth : ~Quiet(stack[d]) => stack'[d] = stack[d]
  PROVE  UNCHANGED Contract!vars
<1>1. ASSUME NEW f, NEW P \in SUBSET Inner PROVE RunningIn(P, f)' = RunningIn(P, f)
  BY <1>1 DEF RunningIn, Quiet
<1>2. ASSUME NEW f, NEW p \in Slots PROVE InSlot(p, f)' = InSlot(p, f)
  BY <1>2 DEF InSlot, Quiet
<1>3. ASSUME NEW f \in File
      PROVE  StateOf(f)' = StateOf(f) /\ Rest(f)' = Rest(f) /\ InHooks(f)' = InHooks(f)
  <2>1. RunningIn(Ending, f)' = RunningIn(Ending, f) /\ InHooks(f)' = InHooks(f)
    BY <1>1 DEF Ending, Inner, InHooks, Hooks
  <2>2. InSlot("attach", f)' = InSlot("attach", f) /\ InSlot("discard", f)' = InSlot("discard", f)
    BY <1>2 DEF Slots
  <2>3. StateOf(f)' = StateOf(f)
    BY <2>1, <2>2 DEF StateOf, InSlot, Ending
  <2>4. Rest(f)' = Rest(f)
    BY DEF Rest
  <2> QED BY <2>1, <2>3, <2>4
<1> QED BY <1>3, Stutter

(* The frame at level k is made, changed or dropped; the others stay.      *)
Around(k) == /\ \A d : d \in 1 .. depth /\ d # k <=> d \in 1 .. depth' /\ d # k
             /\ \A d \in 1 .. depth : d # k => stack'[d] = stack[d]

LEMMA GoAround ==
  ASSUME TypeOK, depth > 0, NEW s, Go(s)
  PROVE  /\ Around(depth) /\ depth' = depth
         /\ depth \in 1 .. depth /\ stack'[depth] = s
BY TopType DEF TypeOK, Go, Around

LEMMA PushAround ==
  ASSUME TypeOK, NEW s, NEW h, Push(s, h)
  PROVE  /\ Around(depth + 1) /\ depth' = depth + 1
         /\ depth + 1 \in 1 .. depth + 1 /\ stack'[depth + 1] = s
BY Parameters DEF TypeOK, Push, Around

LEMMA PopAround ==
  ASSUME TypeOK, depth > 0, depth' = depth - 1, stack' = [stack EXCEPT ![depth] = NoFrame]
  PROVE  Around(depth) /\ depth \in 1 .. depth /\ depth \notin 1 .. depth'
BY TopType DEF TypeOK, Around

LEMMA GoStill ==
  ASSUME TypeOK, depth > 0, NEW s, Go(s), Quiet(top), Quiet(s),
         UNCHANGED <<live, file, open, paused>>
  PROVE  UNCHANGED Contract!vars
<1>1. Around(depth) /\ depth' = depth /\ depth \in 1 .. depth /\ stack'[depth] = s
  BY GoAround
<1> QED BY <1>1, SameFrames DEF Around, top

LEMMA PushStill ==
  ASSUME TypeOK, NEW s, NEW h, Push(s, h), Quiet(s),
         UNCHANGED <<live, file, open, paused>>
  PROVE  UNCHANGED Contract!vars
<1>1. /\ Around(depth + 1) /\ depth' = depth + 1
      /\ depth + 1 \in 1 .. depth + 1 /\ stack'[depth + 1] = s /\ depth \in Nat
  BY PushAround DEF TypeOK
<1> QED BY <1>1, SameFrames DEF Around

LEMMA PopStill ==
  ASSUME TypeOK, depth > 0, Pop, Quiet(top),
         UNCHANGED <<live, file, open, paused>>
  PROVE  UNCHANGED Contract!vars
BY PopAround, SameFrames DEF Around, top, Pop

(* A plugin is where the other frames and that one put it.                 *)
Other(k, p, f) == \E d \in 1 .. depth : d # k /\ stack[d].phase = p /\ stack[d].dll = f
AtLevel(k, p, f) == k \in 1 .. depth /\ stack[k].phase = p /\ stack[k].dll = f

LEMMA Aside ==
  ASSUME NEW k, Around(k), NEW f,
         \A d \in 1 .. depth : d # k /\ stack[d].cur # Nil => (file'[stack[d].cur] = f <=> file[stack[d].cur] = f)
  PROVE  /\ \A P : RunningIn(P, f)' \ {k} = RunningIn(P, f) \ {k}
         /\ \A p : InSlot(p, f) <=> Other(k, p, f) \/ AtLevel(k, p, f)
         /\ \A p : InSlot(p, f)' <=> Other(k, p, f) \/ AtLevel(k, p, f)'
<1>1. ASSUME NEW P PROVE RunningIn(P, f)' \ {k} = RunningIn(P, f) \ {k}
  BY DEF Around, RunningIn
<1>2. ASSUME NEW p PROVE InSlot(p, f) <=> Other(k, p, f) \/ AtLevel(k, p, f)
  BY DEF InSlot, Other, AtLevel
<1>3. ASSUME NEW p PROVE InSlot(p, f)' <=> Other(k, p, f) \/ AtLevel(k, p, f)'
  <2>1. InSlot(p, f)' <=> \E d \in 1 .. depth' : stack'[d].phase = p /\ stack'[d].dll = f
    BY DEF InSlot
  <2> QED BY <2>1 DEF Around, Other, AtLevel
<1> QED BY <1>1, <1>2, <1>3

(* A plugin in the list whose DLL is open is in, or on its way out.        *)
LEMMA ListedState ==
  ASSUME TypeOK, Owned, NEW n \in live, file[n] \in open
  PROVE  /\ file[n] \in File
         /\ StateOf(file[n]) = IF RunningIn(Ending, file[n]) # {} THEN "leaving" ELSE "in"
         /\ \A m \in live : file[m] = file[n] => m = n
BY DEF Owned, Listed, Pending, Slots, Sole, StateOf, Ending

LEMMA Cards ==
  ASSUME TypeOK, NEW f
  PROVE  /\ IsFiniteSet(InHooks(f)) /\ Cardinality(InHooks(f)) \in Nat
         /\ InHooks(f) \subseteq 1 .. depth
         /\ \A k : k \notin InHooks(f) =>
               Cardinality(InHooks(f) \cup {k}) = Cardinality(InHooks(f)) + 1
         /\ \A k : k \in InHooks(f) =>
               /\ Cardinality(InHooks(f) \ {k}) = Cardinality(InHooks(f)) - 1
               /\ Cardinality(InHooks(f)) > 0
         /\ depth > 0 /\ depth \notin InHooks(f) => Cardinality(InHooks(f)) < MaxDepth
<1>1. InHooks(f) \subseteq 1 .. depth /\ depth \in Nat /\ depth <= MaxDepth
  BY Parameters DEF InHooks, RunningIn, TypeOK
<1>2. IsFiniteSet(1 .. depth) /\ IsFiniteSet(1 .. depth - 1) /\ (depth > 0 => Cardinality(1 .. depth - 1) = depth - 1)
  BY <1>1, FS_Interval
<1>3. IsFiniteSet(InHooks(f)) /\ Cardinality(InHooks(f)) \in Nat
  BY <1>1, <1>2, FS_Subset, FS_CardinalityType
<1>4. \A k : k \notin InHooks(f) =>
               Cardinality(InHooks(f) \cup {k}) = Cardinality(InHooks(f)) + 1
  BY <1>3, FS_AddElement
<1>5. ASSUME NEW k \in InHooks(f)
      PROVE  Cardinality(InHooks(f) \ {k}) = Cardinality(InHooks(f)) - 1 /\ Cardinality(InHooks(f)) > 0
  <2>1. Cardinality(InHooks(f) \ {k}) = Cardinality(InHooks(f)) - 1 /\ IsFiniteSet(InHooks(f) \ {k})
    BY <1>3, FS_RemoveElement
  <2>2. Cardinality(InHooks(f) \ {k}) \in Nat
    BY <2>1, FS_CardinalityType
  <2> QED BY <1>3, <2>1, <2>2
<1>6. ASSUME depth > 0, depth \notin InHooks(f) PROVE Cardinality(InHooks(f)) < MaxDepth
  <2>1. InHooks(f) \in SUBSET (1 .. depth - 1)
    BY <1>1, <1>6
  <2>2. Cardinality(InHooks(f)) <= depth - 1
    BY <2>1, <1>2, <1>6, FS_Subset
  <2> QED BY <2>2, <1>1, <1>3, Parameters DEF TypeOK
<1> QED BY <1>1, <1>3, <1>4, <1>5, <1>6

(* The steps of the contract, from what the mapping says of each plugin.   *)
Calling(f) == Cardinality(InHooks(f))

LEMMA MoveStep ==
  ASSUME NEW f \in File, NEW from, NEW to, StateOf(f) = from,
         \A g \in File : StateOf(g)' = IF g = f THEN to ELSE StateOf(g)
  PROVE  Contract!Move(f, from, to)
BY DEF Contract!Move

LEMMA CallStep ==
  ASSUME NEW f \in File, StateOf(f) \in {"in", "leaving"}, ~Rest(f), Calling(f) < MaxDepth,
         \A g \in File : /\ StateOf(g)' = StateOf(g) /\ Rest(g)' = Rest(g)
                         /\ Calling(g)' = IF g = f THEN Calling(g) + 1 ELSE Calling(g)
  PROVE  Contract!Next
<1>1. Contract!Call(f)
  BY DEF Contract!Call, Rest, Calling, InHooks
<1> QED BY <1>1 DEF Contract!Next

LEMMA ReturnStep ==
  ASSUME NEW f \in File, StateOf(f) \in {"in", "leaving"}, Calling(f) > 0,
         \A g \in File : /\ StateOf(g)' = StateOf(g) /\ Rest(g)' = Rest(g)
                         /\ Calling(g)' = IF g = f THEN Calling(g) - 1 ELSE Calling(g)
  PROVE  Contract!Next
<1>1. Contract!Return(f)
  BY DEF Contract!Return, Rest, Calling, InHooks
<1> QED BY <1>1 DEF Contract!Next

LEMMA ToggleStep ==
  ASSUME NEW f \in File, StateOf(f) \in {"in", "leaving"},
         \A g \in File : /\ StateOf(g)' = StateOf(g) /\ Calling(g)' = Calling(g)
                         /\ Rest(g)' = IF g = f THEN ~Rest(g) ELSE Rest(g)
  PROVE  Contract!Next
<1> DEFINE R == [g \in File |-> Rest(g)]
<1>1. R' = [R EXCEPT ![f] = ~@]
  <2>1. [R EXCEPT ![f] = ~@] = [g \in File |-> IF g = f THEN ~Rest(f) ELSE Rest(g)]
    OBVIOUS
  <2>2. R' = [g \in File |-> Rest(g)']
    OBVIOUS
  <2>3. \A g \in File : Rest(g)' = IF g = f THEN ~Rest(f) ELSE Rest(g)
    OBVIOUS
  <2> QED BY <2>1, <2>2, <2>3, Zenon
<1>2. UNCHANGED <<[g \in File |-> StateOf(g)], [g \in File |-> Cardinality(RunningIn(Hooks, g))]>>
  BY DEF Calling, InHooks
<1>3. [g \in File |-> StateOf(g)][f] \in {"in", "leaving"}
  OBVIOUS
<1>4. Contract!Toggle(f)
  BY <1>1, <1>2, <1>3, Zenon DEF Contract!Toggle, Rest
<1> QED BY <1>4 DEF Contract!Next

LEMMA LeaveStep ==
  ASSUME NEW f \in File, StateOf(f) = "leaving", Calling(f) = 0,
         \A g \in File : /\ StateOf(g)' = IF g = f THEN "out" ELSE StateOf(g)
                         /\ Calling(g)' = Calling(g)
                         /\ Rest(g)' = IF g = f THEN FALSE ELSE Rest(g)
  PROVE  Contract!Next
<1>1. Contract!Leave(f)
  BY MoveStep DEF Contract!Leave, Rest, Calling, InHooks
<1> QED BY <1>1 DEF Contract!Next

(* The moves that change neither what rests nor what runs.                 *)
LEMMA LifeStep ==
  ASSUME NEW f \in File, NEW from, NEW to, StateOf(f) = from,
         <<from, to>> \in {<<"out", "attaching">>, <<"attaching", "in">>, <<"attaching", "refused">>,
                          <<"refused", "out">>, <<"in", "leaving">>},
         from = "in" => Calling(f) = 0,
         \A g \in File : /\ StateOf(g)' = IF g = f THEN to ELSE StateOf(g)
                         /\ Calling(g)' = Calling(g) /\ Rest(g)' = Rest(g)
  PROVE  Contract!Next
<1>1. Contract!Move(f, from, to)
  BY MoveStep
<1>2. UNCHANGED <<[g \in File |-> \E n \in live : file[n] = g /\ g \in open /\ paused[n]],
                  [g \in File |-> Cardinality(RunningIn(Hooks, g))]>>
  BY DEF Rest, Calling, InHooks
<1>3. \/ Contract!Attach(f) \/ Contract!Accept(f) \/ Contract!Refuse(f)
      \/ Contract!Discard(f) \/ Contract!Detach(f)
  BY <1>1, <1>2 DEF Calling, InHooks, Contract!Attach, Contract!Accept, Contract!Refuse,
                    Contract!Discard, Contract!Detach
<1> QED BY <1>3 DEF Contract!Next

LEMMA SameState ==
  ASSUME NEW f, f \in open' <=> f \in open,
         \A p \in Slots : InSlot(p, f)' <=> InSlot(p, f),
         RunningIn(Ending, f)' # {} <=> RunningIn(Ending, f) # {}
  PROVE  StateOf(f)' = StateOf(f)
BY DEF StateOf, InSlot, Ending, Slots

(***************************************************************************)
(* The hooks.                                                              *)
(***************************************************************************)
LEMMA CallMaps ==
  ASSUME TypeOK, Owned, InPhase({"pre", "post"}), top.cur \in live, ~paused[top.cur],
         NEW s, s.phase \in Hooks, s.cur = top.cur, Go(s),
         UNCHANGED <<live, file, open, paused>>
  PROVE  Contract!Next
<1> DEFINE n == top.cur
           f == file[n]
<1>1. /\ Around(depth) /\ depth' = depth /\ depth > 0
      /\ depth \in 1 .. depth /\ stack'[depth] = s /\ stack[depth] = top
  BY GoAround DEF InPhase, top
<1>2. f \in open /\ n # Nil
  <2>1. ~InPhase(Kills)
    BY DEF InPhase, Kills, Hooks
  <2>2. n # Nil
    BY Parameters DEF TypeOK, Node, Nil
  <2> QED BY <2>1, <2>2 DEF Owned, Opened, Closing
<1>3. /\ f \in File /\ StateOf(f) \in {"in", "leaving"}
      /\ \A m \in live : file[m] = f => m = n
  BY <1>2, ListedState
<1>4. ASSUME NEW g \in File
      PROVE  /\ StateOf(g)' = StateOf(g) /\ Rest(g)' = Rest(g)
             /\ Calling(g)' = IF g = f THEN Calling(g) + 1 ELSE Calling(g)
             /\ depth \notin InHooks(g)
  <2>1. /\ \A P : RunningIn(P, g)' \ {depth} = RunningIn(P, g) \ {depth}
        /\ \A p : InSlot(p, g) <=> Other(depth, p, g) \/ AtLevel(depth, p, g)
        /\ \A p : InSlot(p, g)' <=> Other(depth, p, g) \/ AtLevel(depth, p, g)'
    BY <1>1, Aside
  <2>2. top.phase \notin Inner \cup Slots
    BY DEF InPhase, Inner, Hooks, Slots
  <2>3. s.phase \notin Slots \cup Ending
    BY DEF Hooks, Slots, Ending
  <2>4. \A p \in Slots : InSlot(p, g)' <=> InSlot(p, g)
    BY <1>1, <2>1, <2>2, <2>3 DEF AtLevel
  <2>5. depth \notin RunningIn(Ending, g) /\ depth \notin RunningIn(Ending, g)'
    BY <1>1, <2>2, <2>3 DEF RunningIn, Inner, Ending
  <2>6. StateOf(g)' = StateOf(g)
    BY <2>1, <2>4, <2>5, SameState
  <2>7. depth \notin InHooks(g) /\ (depth \in InHooks(g)' <=> g = f)
    BY <1>1, <1>2, <2>2 DEF RunningIn, InHooks, Inner
  <2>8. InHooks(g)' = IF g = f THEN InHooks(g) \cup {depth} ELSE InHooks(g)
    BY <2>1, <2>7 DEF InHooks
  <2>9. Calling(g)' = IF g = f THEN Calling(g) + 1 ELSE Calling(g)
    BY <2>7, <2>8, Cards DEF Calling
  <2> QED BY <2>6, <2>7, <2>9 DEF Rest
<1>5. ~Rest(f)
  BY <1>3 DEF Rest
<1>6. Calling(f) < MaxDepth
  BY <1>1, <1>3, <1>4, Cards DEF Calling
<1> QED BY <1>3, <1>4, <1>5, <1>6, CallStep

LEMMA ReturnMaps ==
  ASSUME TypeOK, Owned, InPhase(Hooks), top.cur \in live,
         NEW s, Quiet(s), Go(s),
         UNCHANGED <<live, file, open, paused>>
  PROVE  Contract!Next
<1> DEFINE n == top.cur
           f == file[n]
<1>1. /\ Around(depth) /\ depth' = depth /\ depth > 0
      /\ depth \in 1 .. depth /\ stack'[depth] = s /\ stack[depth] = top
  BY GoAround DEF InPhase, top
<1>2. f \in open /\ n # Nil
  <2>1. ~InPhase(Kills)
    BY DEF InPhase, Kills, Hooks
  <2>2. n # Nil
    BY Parameters DEF TypeOK, Node, Nil
  <2> QED BY <2>1, <2>2 DEF Owned, Opened, Closing
<1>3. f \in File /\ StateOf(f) \in {"in", "leaving"}
  BY <1>2, ListedState
<1>4. ASSUME NEW g \in File
      PROVE  /\ StateOf(g)' = StateOf(g) /\ Rest(g)' = Rest(g)
             /\ Calling(g)' = IF g = f THEN Calling(g) - 1 ELSE Calling(g)
             /\ g = f => Calling(g) > 0
  <2>1. /\ \A P : RunningIn(P, g)' \ {depth} = RunningIn(P, g) \ {depth}
        /\ \A p : InSlot(p, g) <=> Other(depth, p, g) \/ AtLevel(depth, p, g)
        /\ \A p : InSlot(p, g)' <=> Other(depth, p, g) \/ AtLevel(depth, p, g)'
    BY <1>1, Aside
  <2>2. top.phase \notin Slots \cup Ending
    BY DEF InPhase, Hooks, Slots, Ending
  <2>3. s.phase \notin Slots \cup Ending
    BY DEF Quiet, Inner, Ending
  <2>4. \A p \in Slots : InSlot(p, g)' <=> InSlot(p, g)
    BY <1>1, <2>1, <2>2, <2>3 DEF AtLevel
  <2>5. depth \notin RunningIn(Ending, g) /\ depth \notin RunningIn(Ending, g)'
    BY <1>1, <2>2, <2>3 DEF RunningIn
  <2>6. StateOf(g)' = StateOf(g)
    BY <2>1, <2>4, <2>5, SameState
  <2>7. depth \notin InHooks(g)' /\ (depth \in InHooks(g) <=> g = f)
    BY <1>1, <1>2 DEF RunningIn, InHooks, Inner, Quiet, InPhase
  <2>8. InHooks(g)' = IF g = f THEN InHooks(g) \ {depth} ELSE InHooks(g)
    BY <2>1, <2>7 DEF InHooks
  <2>9. Calling(g)' = IF g = f THEN Calling(g) - 1 ELSE Calling(g)
    BY <2>7, <2>8, Cards DEF Calling
  <2>10. g = f => Calling(g) > 0
    BY <2>7, Cards DEF Calling
  <2> QED BY <2>6, <2>9, <2>10 DEF Rest
<1> QED BY <1>3, <1>4, ReturnStep

(***************************************************************************)
(* Loading.                                                                *)
(***************************************************************************)
LEMMA AttachMaps ==
  ASSUME TypeOK, Owned, NEW f \in File, f \notin open, ~InPhase(Kills), BeginAttach(f),
         UNCHANGED <<live, file, paused>>
  PROVE  Contract!Next
<1> DEFINE s == [NoFrame EXCEPT !.phase = "attach", !.dll = f]
<1>0. PICK k \in Nat : k = depth + 1
  BY DEF TypeOK
<1>1. /\ Around(k) /\ depth' = k /\ k \in 1 .. depth' /\ k \notin 1 .. depth /\ stack'[k] = s
      /\ open' = open \cup {f}
  BY <1>0, PushAround DEF BeginAttach, TypeOK
<1>2. s.phase = "attach" /\ s.dll = f /\ s.cur = Nil
  BY DEF NoFrame
<1>3. \A n \in live : file[n] # f
  BY DEF Owned, Opened, Closing
<1> HIDE DEF s
<1>4. ASSUME NEW g \in File
      PROVE  /\ StateOf(g)' = IF g = f THEN "attaching" ELSE StateOf(g)
             /\ Rest(g)' = Rest(g) /\ Calling(g)' = Calling(g)
  <2>1. /\ \A P : RunningIn(P, g)' \ {k} = RunningIn(P, g) \ {k}
        /\ \A p : InSlot(p, g) <=> Other(k, p, g) \/ AtLevel(k, p, g)
        /\ \A p : InSlot(p, g)' <=> Other(k, p, g) \/ AtLevel(k, p, g)'
    BY <1>1, Aside
  <2>2. \A P : k \notin RunningIn(P, g) /\ k \notin RunningIn(P, g)'
    BY <1>1, <1>2 DEF RunningIn
  <2>3. \A P : RunningIn(P, g)' = RunningIn(P, g)
    BY <2>1, <2>2
  <2>4. InSlot("attach", f)'
    BY <1>1, <1>2 DEF InSlot
  <2>5. g # f => \A p : InSlot(p, g)' <=> InSlot(p, g)
    BY <1>1, <1>2, <2>1 DEF AtLevel
  <2>6. g # f => StateOf(g)' = StateOf(g)
    BY <1>1, <2>3, <2>5, SameState
  <2>7. StateOf(f)' = "attaching"
    BY <1>1, <2>4 DEF StateOf, InSlot
  <2>8. Rest(g)' = Rest(g)
    BY <1>1, <1>3 DEF Rest
  <2>9. Calling(g)' = Calling(g)
    BY <2>3 DEF Calling, InHooks
  <2> QED BY <2>6, <2>7, <2>8, <2>9
<1>5. StateOf(f) = "out"
  BY DEF StateOf
<1> QED BY <1>4, <1>5, LifeStep

(* LoadPlugin goes from JASS_Attach to what its answer decides.            *)
LEMMA RefuseMaps ==
  ASSUME TypeOK, Owned, AttachRefuses
  PROVE  Contract!Next
<1> DEFINE s == [top EXCEPT !.phase = "discard"]
<1>0. PICK k \in Nat, f \in File : k = depth /\ f = top.dll
  BY TopType, Parameters DEF AttachRefuses, InPhase, Owned, Pending, Slots, TypeOK, top
<1>1. /\ Around(k) /\ depth' = depth /\ depth > 0
      /\ k \in 1 .. depth /\ stack'[k] = s /\ stack[k] = top
      /\ UNCHANGED <<live, file, open, paused>> /\ top.phase = "attach"
  BY <1>0, GoAround DEF AttachRefuses, InPhase, top
<1>2. s.phase = "discard" /\ s.dll = f
  BY <1>0, TopType, <1>1 DEF Frame
<1>3. /\ f \in open /\ f \in File
      /\ \A d \in 1 .. depth : stack[d].phase \in Slots /\ stack[d].dll = f => d = k
  BY <1>0, <1>1 DEF Owned, Pending, Slots, TypeOK
<1> HIDE DEF s
<1>4. ASSUME NEW g \in File
      PROVE  /\ StateOf(g)' = IF g = f THEN "refused" ELSE StateOf(g)
             /\ Rest(g)' = Rest(g) /\ Calling(g)' = Calling(g)
  <2>1. /\ \A P : RunningIn(P, g)' \ {k} = RunningIn(P, g) \ {k}
        /\ \A p : InSlot(p, g) <=> Other(k, p, g) \/ AtLevel(k, p, g)
        /\ \A p : InSlot(p, g)' <=> Other(k, p, g) \/ AtLevel(k, p, g)'
    BY <1>1, Aside
  <2>2. ASSUME NEW P \in SUBSET Inner
        PROVE  k \notin RunningIn(P, g) /\ k \notin RunningIn(P, g)'
    BY <1>0, <1>1, <1>2 DEF RunningIn, Inner, Hooks
  <2>3. /\ RunningIn(Hooks, g)' = RunningIn(Hooks, g)
        /\ RunningIn(Ending, g)' = RunningIn(Ending, g)
    BY <2>1, <2>2 DEF Inner, Ending
  <2>4. g # f => \A p : InSlot(p, g)' <=> InSlot(p, g)
    BY <1>0, <1>1, <1>2, <2>1 DEF AtLevel
  <2>5. g # f => StateOf(g)' = StateOf(g)
    BY <1>1, <2>3, <2>4, SameState
  <2>6. ~Other(k, "attach", f) /\ AtLevel(k, "discard", f)' /\ ~AtLevel(k, "attach", f)'
    BY <1>0, <1>1, <1>2, <1>3 DEF Other, AtLevel, Slots
  <2>7. g = f => InSlot("discard", g)' /\ ~InSlot("attach", g)'
    BY <2>1, <2>6
  <2>8. g = f => StateOf(g)' = "refused"
    BY <1>1, <1>3, <2>7 DEF StateOf, InSlot
  <2> QED BY <1>1, <2>3, <2>5, <2>8 DEF Rest, Calling, InHooks
<1>5. StateOf(f) = "attaching"
  BY <1>0, <1>1, <1>3 DEF StateOf
<1> QED BY <1>3, <1>4, <1>5, LifeStep

LEMMA DiscardMaps ==
  ASSUME TypeOK, Owned, DiscardReturns
  PROVE  Contract!Next
<1>0. PICK k \in Nat, f \in File : k = depth /\ f = top.dll
  BY TopType, Parameters DEF DiscardReturns, InPhase, Owned, Pending, Slots, TypeOK, top
<1>1. /\ Around(k) /\ k \notin 1 .. depth'
      /\ k \in 1 .. depth /\ stack[k] = top
      /\ UNCHANGED <<live, file, paused>> /\ open' = open \ {f} /\ top.phase = "discard"
  BY <1>0, PopAround DEF DiscardReturns, InPhase, top, Pop
<1>2. /\ f \in open /\ f \in File /\ (\A n \in live : file[n] # f)
      /\ \A d \in 1 .. depth : stack[d].phase \in Slots /\ stack[d].dll = f => d = k
  BY <1>0, <1>1 DEF Owned, Pending, Slots, TypeOK
<1>3. ASSUME NEW g \in File
      PROVE  /\ StateOf(g)' = IF g = f THEN "out" ELSE StateOf(g)
             /\ Rest(g)' = Rest(g) /\ Calling(g)' = Calling(g)
  <2>1. /\ \A P : RunningIn(P, g)' \ {k} = RunningIn(P, g) \ {k}
        /\ \A p : InSlot(p, g) <=> Other(k, p, g) \/ AtLevel(k, p, g)
        /\ \A p : InSlot(p, g)' <=> Other(k, p, g) \/ AtLevel(k, p, g)'
    BY <1>1, Aside
  <2>2. ASSUME NEW P \in SUBSET Inner
        PROVE  k \notin RunningIn(P, g) /\ k \notin RunningIn(P, g)'
    BY <1>0, <1>1 DEF RunningIn, Inner, Hooks
  <2>3. /\ RunningIn(Hooks, g)' = RunningIn(Hooks, g)
        /\ RunningIn(Ending, g)' = RunningIn(Ending, g)
    BY <2>1, <2>2 DEF Inner, Ending
  <2>4. g # f => \A p : InSlot(p, g)' <=> InSlot(p, g)
    BY <1>0, <1>1, <2>1 DEF AtLevel
  <2>5. g # f => StateOf(g)' = StateOf(g)
    BY <1>1, <2>3, <2>4, SameState
  <2>6. g = f => StateOf(g)' = "out"
    BY <1>1 DEF StateOf
  <2>7. Rest(g)' = Rest(g)
    BY <1>1, <1>2 DEF Rest
  <2> QED BY <2>3, <2>5, <2>6, <2>7 DEF Calling, InHooks
<1>4. StateOf(f) = "refused"
  <2>1. ~InSlot("attach", f)
    BY <1>0, <1>1, <1>2 DEF InSlot, Slots
  <2>2. InSlot("discard", f)
    BY <1>0, <1>1 DEF InSlot
  <2> QED BY <1>2, <2>1, <2>2 DEF StateOf, InSlot
<1> QED BY <1>2, <1>3, <1>4, LifeStep

LEMMA AcceptMaps ==
  ASSUME TypeOK, Cursors, Owned, Fresh, AttachAccepts
  PROVE  Contract!Next
<1>0. PICK k \in Nat, f \in File, n \in Node : k = depth /\ f = top.dll /\ n = nextNode
  BY TopType, Parameters DEF AttachAccepts, InPhase, Owned, Pending, Slots, TypeOK, top, Node
<1>1. /\ Around(k) /\ k \notin 1 .. depth'
      /\ k \in 1 .. depth /\ stack[k] = top /\ top.phase = "attach"
      /\ paused' = paused /\ open' = open /\ live' = live \cup {n}
      /\ file' = [file EXCEPT ![n] = f]
  BY <1>0, PopAround DEF AttachAccepts, InPhase, top, Pop
<1>2. /\ f \in open /\ (\A m \in live : file[m] # f)
      /\ \A d \in 1 .. depth : stack[d].phase \in Slots /\ stack[d].dll = f => d = k
  BY <1>0, <1>1 DEF Owned, Pending, Slots, TypeOK
<1>3. n \notin live /\ ~paused[n]
  BY <1>0, Parameters DEF Owned, Listed, TypeOK, Node, Fresh
<1>4. file'[n] = f /\ \A m \in live : file'[m] = file[m] /\ m # n
  BY <1>1, <1>3 DEF TypeOK
<1>5. ASSUME NEW g \in File
      PROVE  /\ StateOf(g)' = IF g = f THEN "in" ELSE StateOf(g)
             /\ Rest(g)' = Rest(g) /\ Calling(g)' = Calling(g)
  <2>1. /\ \A P : RunningIn(P, g)' \ {k} = RunningIn(P, g) \ {k}
        /\ \A p : InSlot(p, g) <=> Other(k, p, g) \/ AtLevel(k, p, g)
        /\ \A p : InSlot(p, g)' <=> Other(k, p, g) \/ AtLevel(k, p, g)'
    BY <1>1, <1>4, Aside DEF Cursors, CursorLive
  <2>2. ASSUME NEW P \in SUBSET Inner
        PROVE  k \notin RunningIn(P, g) /\ k \notin RunningIn(P, g)'
    BY <1>0, <1>1 DEF RunningIn, Inner, Hooks
  <2>3. /\ RunningIn(Hooks, g)' = RunningIn(Hooks, g)
        /\ RunningIn(Ending, g)' = RunningIn(Ending, g)
    BY <2>1, <2>2 DEF Inner, Ending
  <2>4. g # f => \A p : InSlot(p, g)' <=> InSlot(p, g)
    BY <1>0, <1>1, <2>1 DEF AtLevel
  <2>5. g # f => StateOf(g)' = StateOf(g)
    BY <1>1, <2>3, <2>4, SameState
  <2>6. g = f => RunningIn(Ending, g) = {}
    BY <1>2 DEF RunningIn, Cursors, CursorLive
  <2>7. g = f => \A p \in Slots : ~InSlot(p, g)'
    BY <1>0, <1>1, <1>2, <2>1 DEF Other, AtLevel
  <2>8. g = f => StateOf(g)' = "in"
    BY <1>1, <1>2, <2>3, <2>6, <2>7 DEF StateOf, InSlot, Slots, Ending
  <2>9. Rest(g)' = Rest(g)
    BY <1>1, <1>2, <1>3, <1>4 DEF Rest
  <2> QED BY <2>3, <2>5, <2>8, <2>9 DEF Calling, InHooks
<1>6. StateOf(f) = "attaching"
  BY <1>0, <1>1, <1>2 DEF StateOf
<1> QED BY <1>5, <1>6, LifeStep

(***************************************************************************)
(* Unloading.  Nobody is inside the plugin but the call of JASS_Detach.    *)
(***************************************************************************)
LEMMA AloneInside ==
  ASSUME TypeOK, Cursors, Owned, NEW n \in live, NEW k,
         \A d \in 1 .. depth : d # k => stack[d].cur # n
  PROVE  \A P : RunningIn(P, file[n]) \subseteq {k}
BY DEF RunningIn, Owned, Sole, Cursors, CursorLive

LEMMA UnloadMaps ==
  ASSUME TypeOK, Cursors, Owned, "selfUnload" \notin Freedoms,
         NEW n \in Node, NEW iscmd \in BOOLEAN, Unload(n, iscmd)
  PROVE  Contract!Next
<1> DEFINE s == [NoFrame EXCEPT !.phase = "detach", !.cur = n]
<1>0. PICK k, f : k \in Nat /\ k = depth + 1 /\ f = file[n]
  BY DEF TypeOK
<1>1. /\ Around(k) /\ depth' = k /\ k \in 1 .. depth' /\ k \notin 1 .. depth /\ stack'[k] = s
      /\ UNCHANGED <<live, file, paused, open>> /\ n \in live /\ n \notin Busy /\ Foreign
  BY <1>0, PushAround DEF Unload, TypeOK
<1>2. s.phase = "detach" /\ s.cur = n /\ n # Nil
  BY Parameters DEF NoFrame, Node, Nil
<1>3. f \in open
  <2>1. ~InPhase(Kills)
    BY <1>1 DEF Foreign, InPhase, Kills, Calls, Hooks
  <2> QED BY <1>0, <1>1, <2>1 DEF Owned, Opened, Closing
<1>4. \A d \in 1 .. depth : stack[d].cur # n
  BY <1>1, <1>2 DEF Busy
<1>5. \A P : RunningIn(P, f) = {}
  BY <1>0, <1>1, <1>4 DEF RunningIn, Owned, Sole, Cursors, CursorLive
<1>6. f \in File /\ StateOf(f) = "in"
  BY <1>0, <1>1, <1>3, <1>5, ListedState
<1>7. Calling(f) = 0
  BY <1>5, FS_EmptySet DEF Calling, InHooks
<1> HIDE DEF s
<1>8. ASSUME NEW g \in File
      PROVE  /\ StateOf(g)' = IF g = f THEN "leaving" ELSE StateOf(g)
             /\ Rest(g)' = Rest(g) /\ Calling(g)' = Calling(g)
  <2>1. /\ \A P : RunningIn(P, g)' \ {k} = RunningIn(P, g) \ {k}
        /\ \A p : InSlot(p, g) <=> Other(k, p, g) \/ AtLevel(k, p, g)
        /\ \A p : InSlot(p, g)' <=> Other(k, p, g) \/ AtLevel(k, p, g)'
    BY <1>1, Aside
  <2>2. k \notin RunningIn(Hooks, g) /\ k \notin RunningIn(Hooks, g)'
    BY <1>1, <1>2 DEF RunningIn, Hooks
  <2>3. k \notin RunningIn(Ending, g) /\ (k \in RunningIn(Ending, g)' <=> g = f)
    BY <1>0, <1>1, <1>2 DEF RunningIn, Ending
  <2>4. \A p \in Slots : InSlot(p, g)' <=> InSlot(p, g)
    BY <1>1, <1>2, <2>1 DEF AtLevel, Slots
  <2>5. g # f => StateOf(g)' = StateOf(g)
    BY <1>1, <2>1, <2>3, <2>4, SameState
  <2>6. g = f => StateOf(g)' = "leaving"
    <3>1. g = f => ~InSlot("attach", g)' /\ ~InSlot("discard", g)'
      BY <1>0, <1>1, <2>4 DEF Owned, Pending, InSlot, Slots
    <3>2. g = f => RunningIn(Ending, g)' # {}
      BY <2>3
    <3> QED BY <1>1, <1>3, <3>1, <3>2 DEF StateOf, InSlot, Ending
  <2>7. RunningIn(Hooks, g)' = RunningIn(Hooks, g)
    BY <2>1, <2>2
  <2> QED BY <1>1, <2>5, <2>6, <2>7 DEF Rest, Calling, InHooks
<1> QED BY <1>6, <1>7, <1>8, LifeStep

LEMMA DetachMaps ==
  ASSUME TypeOK, Cursors, Owned, DetachReturns
  PROVE  Contract!Next
<1>0. PICK k, n, f : k \in Nat /\ n \in live /\ k = depth /\ n = top.cur /\ f = file[n]
  BY TopType DEF DetachReturns, InPhase, TypeOK
<1>1. /\ Around(k) /\ k \notin 1 .. depth'
      /\ k \in 1 .. depth /\ stack[k] = top /\ top.phase = "detach"
      /\ live' = live \ {n} /\ open' = open \ {f}
      /\ file' = [file EXCEPT ![n] = NoFile] /\ paused' = [paused EXCEPT ![n] = FALSE]
  BY <1>0, PopAround DEF DetachReturns, InPhase, top
<1>2. n # Nil /\ \A d \in 1 .. depth : d # k => stack[d].cur # n
  <2>1. n # Nil
    BY <1>0, Parameters DEF TypeOK, Node, Nil
  <2> QED BY <1>0, <1>1, <2>1 DEF Cursors, DetachAlone, TypeOK
<1>3. f \in open
  BY <1>0, <1>1 DEF Owned, Opened, Closing, InPhase, Kills
<1>4. f \in File /\ StateOf(f) = "leaving" /\ \A m \in live : file[m] = f => m = n
  <2>1. k \in RunningIn(Ending, f)
    BY <1>0, <1>1, <1>2 DEF RunningIn, Ending
  <2> QED BY <1>0, <1>3, <2>1, ListedState
<1>5. \A m \in live \ {n} : file'[m] = file[m] /\ paused'[m] = paused[m]
  BY <1>1 DEF TypeOK
<1>6. \A P : RunningIn(P, f) \subseteq {k}
  BY <1>0, <1>2, AloneInside
<1>7. Calling(f) = 0
  <2>1. k \notin InHooks(f)
    BY <1>1 DEF InHooks, RunningIn, Hooks
  <2> QED BY <1>6, <2>1, FS_EmptySet DEF Calling, InHooks
<1>8. ASSUME NEW g \in File
      PROVE  /\ StateOf(g)' = IF g = f THEN "out" ELSE StateOf(g)
             /\ Rest(g)' = IF g = f THEN FALSE ELSE Rest(g)
             /\ Calling(g)' = Calling(g)
  <2>1. /\ \A P : RunningIn(P, g)' \ {k} = RunningIn(P, g) \ {k}
        /\ \A p : InSlot(p, g) <=> Other(k, p, g) \/ AtLevel(k, p, g)
        /\ \A p : InSlot(p, g)' <=> Other(k, p, g) \/ AtLevel(k, p, g)'
    BY <1>1, <1>2, <1>5, Aside DEF Cursors, CursorLive
  <2>2. k \notin RunningIn(Hooks, g) /\ k \notin RunningIn(Hooks, g)'
    BY <1>1 DEF RunningIn, Hooks
  <2>3. RunningIn(Hooks, g)' = RunningIn(Hooks, g)
    BY <2>1, <2>2
  <2>4. g # f => k \notin RunningIn(Ending, g) /\ k \notin RunningIn(Ending, g)'
    BY <1>0, <1>1 DEF RunningIn
  <2>5. \A p \in Slots : InSlot(p, g)' <=> InSlot(p, g)
    BY <1>1, <2>1 DEF AtLevel, Slots
  <2>6. g # f => StateOf(g)' = StateOf(g)
    BY <1>1, <2>1, <2>4, <2>5, SameState
  <2>7. g = f => StateOf(g)' = "out"
    BY <1>1 DEF StateOf
  <2>8. g = f => ~Rest(g)'
    BY <1>1 DEF Rest
  <2>9. g # f => (Rest(g)' <=> Rest(g))
    BY <1>0, <1>1, <1>5 DEF Rest
  <2> QED BY <2>3, <2>6, <2>7, <2>8, <2>9 DEF Rest, Calling, InHooks
<1> QED BY <1>4, <1>7, <1>8, LeaveStep

(***************************************************************************)
(* Pausing.                                                                *)
(***************************************************************************)
LEMMA ToggleMaps ==
  ASSUME TypeOK, Owned, Foreign, NEW n \in live, paused' = [paused EXCEPT ![n] = ~@],
         UNCHANGED <<live, file, open, stack, depth>>
  PROVE  Contract!Next
<1>0. PICK f : f = file[n]
  OBVIOUS
<1>1. f \in open
  <2>1. ~InPhase(Kills)
    BY DEF Foreign, InPhase, Kills, Calls, Hooks
  <2> QED BY <1>0, <2>1 DEF Owned, Opened, Closing
<1>2. f \in File /\ StateOf(f) \in {"in", "leaving"} /\ \A m \in live : file[m] = f => m = n
  BY <1>0, <1>1, ListedState
<1>3. ASSUME NEW g \in File
      PROVE  /\ StateOf(g)' = StateOf(g) /\ Calling(g)' = Calling(g)
             /\ Rest(g)' = IF g = f THEN ~Rest(g) ELSE Rest(g)
  <2>1. StateOf(g)' = StateOf(g) /\ Calling(g)' = Calling(g)
    BY DEF StateOf, RunningIn, Calling, InHooks
  <2>2. n \in Node /\ paused'[n] = ~paused[n] /\ \A m \in live \ {n} : paused'[m] = paused[m]
    BY DEF TypeOK
  <2>3. g = f => (Rest(g)' <=> ~Rest(g))
    BY <1>0, <1>1, <1>2, <2>2 DEF Rest
  <2>4. g # f => (Rest(g)' <=> Rest(g))
    BY <1>0, <2>2 DEF Rest
  <2> QED BY <2>1, <2>3, <2>4 DEF Rest
<1> QED BY <1>2, <1>3, ToggleStep

(***************************************************************************)
(* The end of the manager.                                                 *)
(***************************************************************************)
LEMMA KillNextMaps ==
  ASSUME TypeOK, Owned, KillNext
  PROVE  Contract!Next
<1> DEFINE s == [top EXCEPT !.phase = "killing"]
<1>0. PICK n, f : n \in live /\ n = top.cur /\ f = file[n]
  BY DEF KillNext
<1>1. /\ depth = 1 /\ depth' = 1 /\ stack[1] = top /\ stack'[1] = s /\ top.phase = "kill"
      /\ UNCHANGED <<live, file, open, paused>> /\ InPhase(Kills)
  <2>1. InPhase(Kills) /\ top.phase = "kill"
    BY DEF KillNext, InPhase, Kills
  <2> QED BY <2>1, KillsAtBottom, GoAround DEF KillNext, top
<1>2. s.phase = "killing" /\ s.cur = n
  BY <1>0, <1>1, TopType DEF Frame
<1>3. n # Nil /\ f \in open
  <2>1. n # Nil /\ n \in Node
    <3>1. n \in live
      BY <1>0
    <3> QED BY <3>1, Parameters DEF TypeOK, Node, Nil
  <2>2. ~Closing(n)
    BY <1>0, <2>1, Parameters DEF Closing, Node
  <2> QED BY <1>0, <2>1, <2>2 DEF Owned, Opened
<1> HIDE DEF s
<1>4. f \in File /\ StateOf(f) = "in" /\ Calling(f) = 0
  <2>1. \A P \in SUBSET Inner : RunningIn(P, f) = {}
    BY <1>1 DEF RunningIn, Inner, Hooks
  <2>2. RunningIn(Hooks, f) = {} /\ RunningIn(Ending, f) = {}
    BY <2>1 DEF Inner, Ending
  <2> QED BY <1>0, <1>3, <2>2, ListedState, FS_EmptySet DEF Calling, InHooks
<1>5. ASSUME NEW g \in File
      PROVE  /\ StateOf(g)' = IF g = f THEN "leaving" ELSE StateOf(g)
             /\ Rest(g)' = Rest(g) /\ Calling(g)' = Calling(g)
  <2>1. RunningIn(Hooks, g)' = RunningIn(Hooks, g)
    BY <1>1, <1>2 DEF RunningIn, Hooks
  <2>2. \A p \in Slots : ~InSlot(p, g)' /\ ~InSlot(p, g)
    BY <1>1, <1>2 DEF InSlot, Slots
  <2>3. RunningIn(Ending, g) = {} /\ (RunningIn(Ending, g)' # {} <=> g = f)
    BY <1>0, <1>1, <1>2, <1>3 DEF RunningIn, Ending
  <2>4. g # f => StateOf(g)' = StateOf(g)
    BY <1>1, <2>2, <2>3, SameState
  <2>5. g = f => StateOf(g)' = "leaving"
    BY <1>1, <1>3, <2>2, <2>3 DEF StateOf, InSlot, Ending, Slots
  <2> QED BY <1>1, <2>1, <2>4, <2>5 DEF Rest, Calling, InHooks
<1> QED BY <1>4, <1>5, LifeStep

LEMMA KillReturnsMaps ==
  ASSUME TypeOK, Owned, KillReturns
  PROVE  Contract!Next
<1> DEFINE s == [top EXCEPT !.phase = "kill", !.cur = next(top.cur)]
<1>0. PICK n, f : n \in live /\ n = top.cur /\ f = file[n]
  BY DEF KillReturns
<1>1. /\ depth = 1 /\ depth' = 1 /\ stack[1] = top /\ stack'[1] = s /\ top.phase = "killing"
      /\ UNCHANGED <<live, file, paused>> /\ open' = open \ {f} /\ InPhase(Kills)
  <2>1. InPhase(Kills) /\ top.phase = "killing"
    BY DEF KillReturns, InPhase, Kills
  <2> QED BY <1>0, <2>1, KillsAtBottom, GoAround DEF KillReturns, top
<1>2. s.phase = "kill"
  BY <1>1, TopType DEF Frame
<1>3. n # Nil /\ f \in open
  <2>1. n # Nil /\ n \in Node
    <3>1. n \in live
      BY <1>0
    <3> QED BY <3>1, Parameters DEF TypeOK, Node, Nil
  <2>2. ~Closing(n)
    BY <1>0, <2>1, Parameters DEF Closing, Node
  <2> QED BY <1>0, <2>1, <2>2 DEF Owned, Opened
<1> HIDE DEF s
<1>4. \A m \in live : file[m] = f => m = n
  BY <1>0, <1>3, ListedState
<1>5. f \in File /\ StateOf(f) = "leaving" /\ Calling(f) = 0
  <2>1. RunningIn(Hooks, f) = {}
    BY <1>1 DEF RunningIn, Hooks
  <2>2. 1 \in RunningIn(Ending, f)
    BY <1>0, <1>1, <1>3 DEF RunningIn, Ending
  <2> QED BY <1>0, <1>3, <2>1, <2>2, ListedState, FS_EmptySet DEF Calling, InHooks
<1>6. ASSUME NEW g \in File
      PROVE  /\ StateOf(g)' = IF g = f THEN "out" ELSE StateOf(g)
             /\ Rest(g)' = IF g = f THEN FALSE ELSE Rest(g)
             /\ Calling(g)' = Calling(g)
  <2>1. RunningIn(Hooks, g)' = RunningIn(Hooks, g)
    BY <1>1, <1>2 DEF RunningIn, Hooks
  <2>2. \A p \in Slots : ~InSlot(p, g)' /\ ~InSlot(p, g)
    BY <1>1, <1>2 DEF InSlot, Slots
  <2>3. g # f => RunningIn(Ending, g) = {} /\ RunningIn(Ending, g)' = {}
    BY <1>0, <1>1, <1>2 DEF RunningIn, Ending
  <2>4. g # f => StateOf(g)' = StateOf(g)
    BY <1>1, <2>2, <2>3, SameState
  <2>5. g = f => StateOf(g)' = "out" /\ ~Rest(g)'
    BY <1>1 DEF StateOf, Rest
  <2>6. g # f => (Rest(g)' <=> Rest(g))
    BY <1>1 DEF Rest
  <2> QED BY <2>1, <2>4, <2>5, <2>6 DEF Rest, Calling, InHooks
<1> QED BY <1>5, <1>6, LeaveStep

(* The list is freed; its plugins have been closed before.                 *)
LEMMA KilledStutters ==
  ASSUME TypeOK, Owned, Shut, Killed
  PROVE  UNCHANGED Contract!vars
<1>1. /\ depth = 1 /\ depth' = 0 /\ stack[1] = top /\ top.phase = "kill" /\ top.cur = Nil
      /\ live' = {} /\ open' = open /\ InPhase(Kills)
  <2>1. InPhase(Kills) /\ top.phase = "kill"
    BY DEF Killed, InPhase, Kills
  <2> QED BY <2>1, KillsAtBottom DEF Killed, Pop, top
<1>2. \A n \in live : file[n] \notin open
  BY <1>1 DEF Shut, Closing
<1>3. ASSUME NEW g \in File
      PROVE  /\ StateOf(g)' = StateOf(g) /\ Rest(g)' = Rest(g)
             /\ InHooks(g)' = InHooks(g)
  <2>1. InHooks(g)' = InHooks(g)
    BY <1>1 DEF RunningIn, Hooks, InHooks
  <2>2. \A p \in Slots : InSlot(p, g)' <=> InSlot(p, g)
    BY <1>1 DEF InSlot, Slots
  <2>3. RunningIn(Ending, g) = {} /\ RunningIn(Ending, g)' = {}
    BY <1>1 DEF RunningIn, Ending
  <2>4. StateOf(g)' = StateOf(g)
    BY <1>1, <2>2, <2>3, SameState
  <2> QED BY <1>1, <1>2, <2>1, <2>4 DEF Rest
<1> QED BY <1>3, Stutter

(* "jass shutdown" ends every plugin's life at once.                       *)
LEMMA ShutdownMaps ==
  ASSUME TypeOK, ShutdownCommand
  PROVE  Contract!Next
<1>1. depth = 0 /\ depth' = 0 /\ live' = {} /\ open' = {}
  BY DEF ShutdownCommand
<1>2. ASSUME NEW g \in File
      PROVE  /\ StateOf(g) \in {"out", "in"} /\ StateOf(g)' = "out"
             /\ Rest(g)' = FALSE /\ Cardinality(RunningIn(Hooks, g)) = 0
             /\ Cardinality(RunningIn(Hooks, g))' = Cardinality(RunningIn(Hooks, g))
  <2>1. \A P : RunningIn(P, g) = {} /\ RunningIn(P, g)' = {}
    BY <1>1 DEF RunningIn
  <2>2. ~InSlot("attach", g) /\ ~InSlot("discard", g)
    BY <1>1 DEF InSlot
  <2> QED BY <1>1, <2>1, <2>2, FS_EmptySet DEF StateOf, InSlot, Rest
<1>3. Contract!CloseAll
  BY <1>2 DEF Contract!CloseAll, Rest
<1> QED BY <1>3 DEF Contract!Next

(***************************************************************************)
(* Fresh and Shut are kept.                                                *)
(***************************************************************************)
LEMMA FreshKept ==
  ASSUME TypeOK, Cursors, Owned, Fresh, Next
  PROVE  Fresh'
<1>1. CASE UNCHANGED <<live, paused>>
  BY <1>1 DEF Fresh
<1>2. CASE AttachAccepts
  BY <1>2 DEF AttachAccepts, Fresh
<1>3. CASE DetachReturns
  BY <1>3 DEF DetachReturns, Fresh, TypeOK
<1>4. ASSUME NEW n \in Node, Pause(n) \/ Unpause(n) PROVE Fresh'
  BY <1>4 DEF Pause, Unpause, Fresh, TypeOK
<1>5. CASE ShutdownCommand \/ Killed
  BY <1>5 DEF ShutdownCommand, Killed, Fresh
<1>6. CASE Step
  BY <1>1, <1>5, <1>6 DEF Step, SkipPaused, CallHook, CallOriginal, Superceded, CallPostHook,
                          DispatchReturns, ConfLoad, ConfDone, KillNext
<1>7. CASE Return
  <2>1. ASSUME NEW v \in pluginres, HookReturns(v) PROVE Fresh'
    BY <1>1, <2>1 DEF HookReturns
  <2> QED BY <1>1, <1>2, <1>3, <1>7, <2>1
          DEF Return, OriginalReturns, PostHookReturns, AttachRefuses, DiscardReturns,
              ExecReturns, KillReturns
<1>8. CASE Enter
  <2>1. ASSUME NEW v \in Verdict, SetResult(v) PROVE Fresh'
    BY <1>1, <2>1 DEF SetResult
  <2>2. ASSUME NEW f \in File, LoadCommand(f) PROVE Fresh'
    BY <1>1, <2>2 DEF LoadCommand
  <2>3. ASSUME NEW n \in Node, NEW iscmd \in BOOLEAN, Unload(n, iscmd) PROVE Fresh'
    BY <1>1, <2>3 DEF Unload
  <2> QED BY <1>1, <1>4, <1>5, <1>8, <2>1, <2>2, <2>3 DEF Enter, Dispatch, GameInit, GameShutdown
<1> QED BY <1>6, <1>7, <1>8 DEF Next

(* Only GameShutdown begins to destroy the manager.                        *)
LEMMA NotDying ==
  ASSUME TypeOK, Owned, ~InPhase(Kills), NEW k, Around(k), depth' \in Nat,
         k \in 1 .. depth' => stack'[k].phase \notin Kills
  PROVE  ~InPhase(Kills)'
<1>1. ASSUME InPhase(Kills)' PROVE FALSE
  <2>1. depth' > 0 /\ stack'[depth'].phase \in Kills
    BY <1>1 DEF InPhase, top
  <2>2. depth' \in 1 .. depth /\ stack[depth'].phase \in Kills
    BY <2>1 DEF Around
  <2>3. depth = 1 /\ depth' = 1
    BY <2>2 DEF Owned, KillAlone, TypeOK
  <2> QED BY <2>2, <2>3 DEF InPhase, top
<1> QED BY <1>1

LEMMA ShutGo ==
  ASSUME TypeOK, Owned, depth > 0, top.phase \notin Kills, NEW s, Go(s), s.phase \notin Kills
  PROVE  Shut'
<1>1. Around(depth) /\ depth' \in Nat /\ stack'[depth] = s /\ ~InPhase(Kills)
  BY GoAround DEF TypeOK, InPhase
<1> QED BY <1>1, NotDying DEF Shut, Closing

LEMMA ShutPush ==
  ASSUME TypeOK, Owned, ~InPhase(Kills), NEW s, NEW h, Push(s, h), s.phase \notin Kills
  PROVE  Shut'
<1>1. Around(depth + 1) /\ depth' \in Nat /\ stack'[depth + 1] = s
  BY PushAround DEF TypeOK
<1> QED BY <1>1, NotDying DEF Shut, Closing

LEMMA ShutPop ==
  ASSUME TypeOK, Owned, depth > 0, top.phase \notin Kills,
         depth' = depth - 1, stack' = [stack EXCEPT ![depth] = NoFrame]
  PROVE  Shut'
<1>1. Around(depth) /\ depth' \in Nat /\ depth \notin 1 .. depth' /\ ~InPhase(Kills)
  BY PopAround DEF TypeOK, InPhase
<1> QED BY <1>1, NotDying DEF Shut, Closing

LEMMA ShutStays ==
  ASSUME Shut, UNCHANGED <<live, file, open, stack, depth>>
  PROVE  Shut'
BY DEF Shut, Closing, InPhase, top

LEMMA StepShut ==
  ASSUME TypeOK, Cursors, Owned, Shut, Step
  PROVE  Shut'
<1> USE DEF InPhase, Kills
<1>1. CASE SkipPaused
  <2>1. [top EXCEPT !.cur = next(top.cur)].phase \notin Kills
    BY <1>1, TopType DEF SkipPaused, Frame
  <2> QED BY <1>1, <2>1, ShutGo DEF SkipPaused
<1>2. CASE CallHook
  <2>1. [top EXCEPT !.phase = "hook"].phase \notin Kills
    BY <1>2, TopType DEF CallHook, Frame
  <2> QED BY <1>2, <2>1, ShutGo DEF CallHook
<1>3. CASE CallOriginal
  <2>1. [top EXCEPT !.phase = "orig"].phase \notin Kills
    BY <1>3, TopType DEF CallOriginal, Frame
  <2> QED BY <1>3, <2>1, ShutGo DEF CallOriginal
<1>4. CASE Superceded
  <2>1. [top EXCEPT !.phase = "post", !.cur = first].phase \notin Kills
    BY <1>4, TopType DEF Superceded, Frame
  <2> QED BY <1>4, <2>1, ShutGo DEF Superceded
<1>5. CASE CallPostHook
  <2>1. [top EXCEPT !.phase = "posthook"].phase \notin Kills
    BY <1>5, TopType DEF CallPostHook, Frame
  <2> QED BY <1>5, <2>1, ShutGo DEF CallPostHook
<1>6. CASE DispatchReturns
  BY <1>6, ShutPop DEF DispatchReturns, Pop
<1>7. CASE ConfLoad
  <2>1. CASE Loadable(ConfList[conf])
    <3>1. [NoFrame EXCEPT !.phase = "attach", !.dll = ConfList[conf]].phase \notin Kills
      BY DEF NoFrame
    <3> QED BY <1>7, <2>1, <3>1, ShutPush DEF ConfLoad, BeginAttach
  <2>2. CASE ~Loadable(ConfList[conf])
    BY <1>7, <2>2, ShutStays DEF ConfLoad
  <2> QED BY <2>1, <2>2
<1>8. CASE ConfDone
  <2>1. PreFrame.phase \notin Kills
    BY DEF PreFrame, NoFrame
  <2> QED BY <1>8, <2>1, ShutGo DEF ConfDone
<1>9. CASE KillNext
  <2>1. depth = 1 /\ depth' = 1 /\ top = stack[1] /\ stack'[1] = [top EXCEPT !.phase = "killing"]
    BY <1>9, KillsAtBottom, GoAround DEF KillNext, top
  <2>2. top'.cur = top.cur /\ UNCHANGED <<live, file, open>>
    BY <1>9, <2>1, TopType DEF KillNext, top, Frame
  <2> QED BY <1>9, <2>1, <2>2 DEF Shut, Closing, KillNext
<1>10. CASE Killed
  BY <1>10 DEF Killed, Shut
<1> QED
  BY <1>1, <1>2, <1>3, <1>4, <1>5, <1>6, <1>7, <1>8, <1>9, <1>10 DEF Step

LEMMA ReturnShut ==
  ASSUME TypeOK, Cursors, Owned, Shut, Return
  PROVE  Shut'
<1> USE DEF InPhase, Kills
<1>1. ASSUME NEW v \in pluginres, HookReturns(v) PROVE Shut'
  <2>1. Judge(top, v).phase \notin Kills
    BY <1>1, TopType DEF HookReturns, Judge, Frame
  <2> QED BY <1>1, <2>1, ShutGo DEF HookReturns
<1>2. CASE OriginalReturns
  <2> DEFINE s == [top EXCEPT !.phase = "post", !.cur = first,
                              !.ret = IF top.max = JASS_OVERRIDE THEN @ ELSE Original]
  <2>1. s.phase \notin Kills /\ Go(s)
    BY <1>2, TopType DEF OriginalReturns, Frame
  <2> HIDE DEF s
  <2> QED BY <1>2, <2>1, ShutGo DEF OriginalReturns
<1>3. CASE PostHookReturns
  <2>1. [top EXCEPT !.phase = "post", !.cur = next(top.cur)].phase \notin Kills
    BY <1>3, TopType DEF PostHookReturns, Frame
  <2> QED BY <1>3, <2>1, ShutGo DEF PostHookReturns
<1>4. CASE AttachAccepts
  BY <1>4, ShutPop DEF AttachAccepts, Pop
<1>5. CASE AttachRefuses
  <2>1. [top EXCEPT !.phase = "discard"].phase \notin Kills
    BY <1>5, TopType DEF AttachRefuses, Frame
  <2> QED BY <1>5, <2>1, ShutGo DEF AttachRefuses
<1>6. CASE DiscardReturns
  BY <1>6, ShutPop DEF DiscardReturns, Pop
<1>7. CASE DetachReturns
  BY <1>7, ShutPop DEF DetachReturns
<1>8. CASE ExecReturns
  <2>1. [top EXCEPT !.phase = "conf"].phase \notin Kills
    BY <1>8, TopType DEF ExecReturns, Frame
  <2> QED BY <1>8, <2>1, ShutGo DEF ExecReturns
<1>9. CASE KillReturns
  <2>1. /\ depth = 1 /\ depth' = 1 /\ top = stack[1]
        /\ stack'[1] = [top EXCEPT !.phase = "kill", !.cur = next(top.cur)]
    BY <1>9, KillsAtBottom, GoAround DEF KillReturns, top
  <2>2. /\ top'.cur = next(top.cur) /\ UNCHANGED <<live, file>> /\ open' = open \ {file[top.cur]}
        /\ top.cur \in live /\ live \subseteq Node
    BY <1>9, <2>1, TopType DEF KillReturns, top, Frame, TypeOK
  <2>3. /\ top.cur \in Node /\ next(top.cur) \in live \cup {Nil}
        /\ \A n \in live : n > top.cur => next(top.cur) # Nil /\ next(top.cur) <= n
    BY <2>2, NextIs
  <2>4. top.cur \in Int /\ \A n \in live : n \in Int
    <3>1. \A n \in Node : n \in Int
      BY Parameters DEF Node
    <3> QED BY <2>2, <3>1, Zenon
  <2>5. ASSUME NEW n \in live, next(top.cur) = Nil \/ n < next(top.cur)
        PROVE  n = top.cur \/ Closing(n)
    <3>1. n <= top.cur
      BY <2>3, <2>4, <2>5
    <3> QED BY <1>9, <2>4, <3>1 DEF Closing, KillReturns
  <2> QED BY <1>9, <2>1, <2>2, <2>5 DEF Shut, Closing
<1> QED
  BY <1>1, <1>2, <1>3, <1>4, <1>5, <1>6, <1>7, <1>8, <1>9 DEF Return

LEMMA EnterShut ==
  ASSUME TypeOK, Cursors, Owned, Idle, Shut, Enter
  PROVE  Shut'
<1>0. Foreign \/ depth = 0 => ~InPhase(Kills)
  BY DEF Foreign, InPhase, Kills, Calls, Hooks
<1>1. CASE Dispatch
  <2>1. PreFrame.phase \notin Kills
    BY DEF PreFrame, NoFrame, Kills
  <2> QED BY <1>0, <1>1, <2>1, ShutPush DEF Dispatch
<1>2. ASSUME NEW v \in Verdict, SetResult(v) PROVE Shut'
  BY <1>2, ShutStays DEF SetResult
<1>3. ASSUME NEW g \in File, LoadCommand(g) PROVE Shut'
  <2>1. [NoFrame EXCEPT !.phase = "attach", !.dll = g].phase \notin Kills
    BY DEF NoFrame, Kills
  <2> QED BY <1>0, <1>3, <2>1, ShutPush DEF LoadCommand, BeginAttach
<1>4. ASSUME NEW n \in Node, Pause(n) \/ Unpause(n) PROVE Shut'
  BY <1>4, ShutStays DEF Pause, Unpause
<1>5. ASSUME NEW n \in Node, NEW iscmd \in BOOLEAN, Unload(n, iscmd) PROVE Shut'
  <2>1. [NoFrame EXCEPT !.phase = "detach", !.cur = n].phase \notin Kills
    BY DEF NoFrame, Kills
  <2> QED BY <1>0, <1>5, <2>1, ShutPush DEF Unload
<1>6. CASE GameInit
  <2>1. [NoFrame EXCEPT !.phase = "exec"].phase \notin Kills /\ depth = 0
    BY <1>6 DEF NoFrame, Kills, GameInit, Idle
  <2> QED BY <1>0, <1>6, <2>1, ShutPush DEF GameInit
<1>7. CASE ShutdownCommand
  BY <1>7 DEF ShutdownCommand, Shut
<1>8. CASE GameShutdown
  <2> DEFINE s == [NoFrame EXCEPT !.phase = "kill", !.cur = first]
  <2>1. s.phase = "kill" /\ s.cur = first
    BY DEF NoFrame
  <2>2. /\ stack'[1] = s /\ depth' = 1 /\ UNCHANGED <<live, file, open>>
    BY <1>8, PushAround DEF GameShutdown
  <2> HIDE DEF s
  <2>3. \A n \in live : first # Nil /\ ~ (n < first)
    <3>1. \A n \in live : n \in Nat
      BY Parameters DEF TypeOK, Node
    <3> QED BY <3>1, FirstIs
  <2> QED BY <2>1, <2>2, <2>3 DEF Shut, Closing, top
<1> QED
  BY <1>1, <1>2, <1>3, <1>4, <1>5, <1>6, <1>7, <1>8 DEF Enter

(***************************************************************************)
(* Every step is a step of the contract, or none.                          *)
(***************************************************************************)
Maps == Contract!Next \/ UNCHANGED Contract!vars

LEMMA StepMaps ==
  ASSUME TypeOK, Cursors, Owned, Shut, Step
  PROVE  Maps
<1> USE DEF InPhase, Quiet, Inner, Slots, Hooks
<1>1. CASE SkipPaused
  <2>1. Quiet([top EXCEPT !.cur = next(top.cur)]) /\ Quiet(top)
    BY <1>1, TopType DEF SkipPaused, Frame
  <2> QED BY <1>1, <2>1, GoStill DEF SkipPaused, Maps
<1>2. CASE CallHook
  <2> DEFINE s == [top EXCEPT !.phase = "hook"]
  <2>1. s.phase \in Hooks /\ s.cur = top.cur /\ Go(s)
    BY <1>2, TopType DEF CallHook, Frame
  <2> HIDE DEF s
  <2> QED BY <1>2, <2>1, CallMaps DEF CallHook, Maps
<1>3. CASE CallOriginal
  <2>1. Quiet([top EXCEPT !.phase = "orig"]) /\ Quiet(top)
    BY <1>3, TopType DEF CallOriginal, Frame
  <2> QED BY <1>3, <2>1, GoStill DEF CallOriginal, Maps
<1>4. CASE Superceded
  <2>1. Quiet([top EXCEPT !.phase = "post", !.cur = first]) /\ Quiet(top)
    BY <1>4, TopType DEF Superceded, Frame
  <2> QED BY <1>4, <2>1, GoStill DEF Superceded, Maps
<1>5. CASE CallPostHook
  <2> DEFINE s == [top EXCEPT !.phase = "posthook"]
  <2>1. s.phase \in Hooks /\ s.cur = top.cur /\ Go(s)
    BY <1>5, TopType DEF CallPostHook, Frame
  <2> HIDE DEF s
  <2> QED BY <1>5, <2>1, CallMaps DEF CallPostHook, Maps
<1>6. CASE DispatchReturns
  BY <1>6, PopStill DEF DispatchReturns, Maps
<1>7. CASE ConfLoad
  <2>1. CASE Loadable(ConfList[conf])
    <3>1. ConfList[conf] \in File /\ ~InPhase(Kills)
      BY <1>7, Parameters DEF ConfLoad, TypeOK, Kills
    <3> QED BY <1>7, <2>1, <3>1, AttachMaps DEF ConfLoad, Loadable, Maps
  <2>2. CASE ~Loadable(ConfList[conf])
    <3>1. UNCHANGED <<live, file, open, paused, stack, depth>>
      BY <1>7, <2>2 DEF ConfLoad
    <3> QED BY <3>1, SameFrames DEF Maps
  <2> QED BY <2>1, <2>2
<1>8. CASE ConfDone
  <2>1. Quiet(PreFrame) /\ Quiet(top)
    BY <1>8 DEF ConfDone, PreFrame, NoFrame
  <2> QED BY <1>8, <2>1, GoStill DEF ConfDone, Maps
<1>9. CASE KillNext
  BY <1>9, KillNextMaps DEF Maps
<1>10. CASE Killed
  BY <1>10, KilledStutters DEF Maps
<1> QED
  BY <1>1, <1>2, <1>3, <1>4, <1>5, <1>6, <1>7, <1>8, <1>9, <1>10 DEF Step

LEMMA ReturnStepMaps ==
  ASSUME TypeOK, Cursors, Owned, Fresh, Return
  PROVE  Maps
<1> USE DEF InPhase, Quiet, Inner, Slots, Hooks
<1>1. ASSUME NEW v \in pluginres, HookReturns(v) PROVE Maps
  <2>1. Quiet(Judge(top, v)) /\ InPhase(Hooks) /\ Go(Judge(top, v))
    BY <1>1, TopType DEF HookReturns, Judge, Frame
  <2> QED BY <1>1, <2>1, ReturnMaps DEF HookReturns, Maps
<1>2. CASE OriginalReturns
  <2> DEFINE s == [top EXCEPT !.phase = "post", !.cur = first,
                              !.ret = IF top.max = JASS_OVERRIDE THEN @ ELSE Original]
  <2>1. Quiet(s) /\ Go(s) /\ Quiet(top)
    BY <1>2, TopType DEF OriginalReturns, Frame
  <2> HIDE DEF s
  <2> QED BY <1>2, <2>1, GoStill DEF OriginalReturns, Maps
<1>3. CASE PostHookReturns
  <2> DEFINE s == [top EXCEPT !.phase = "post", !.cur = next(top.cur)]
  <2>1. Quiet(s) /\ Go(s) /\ InPhase(Hooks)
    BY <1>3, TopType DEF PostHookReturns, Frame
  <2> HIDE DEF s
  <2> QED BY <1>3, <2>1, ReturnMaps DEF PostHookReturns, Maps
<1>4. CASE AttachAccepts
  BY <1>4, AcceptMaps DEF Maps
<1>5. CASE AttachRefuses
  BY <1>5, RefuseMaps DEF Maps
<1>6. CASE DiscardReturns
  BY <1>6, DiscardMaps DEF Maps
<1>7. CASE DetachReturns
  BY <1>7, DetachMaps DEF Maps
<1>8. CASE ExecReturns
  <2>1. Quiet([top EXCEPT !.phase = "conf"]) /\ Quiet(top)
    BY <1>8, TopType DEF ExecReturns, Frame
  <2> QED BY <1>8, <2>1, GoStill DEF ExecReturns, Maps
<1>9. CASE KillReturns
  BY <1>9, KillReturnsMaps DEF Maps
<1> QED
  BY <1>1, <1>2, <1>3, <1>4, <1>5, <1>6, <1>7, <1>8, <1>9 DEF Return

LEMMA EnterMaps ==
  ASSUME TypeOK, Cursors, Owned, "selfUnload" \notin Freedoms, Enter
  PROVE  Maps
<1>1. CASE Dispatch
  <2>1. Quiet(PreFrame)
    BY DEF PreFrame, NoFrame, Quiet, Inner, Slots, Hooks
  <2> QED BY <1>1, <2>1, PushStill DEF Dispatch, Maps
<1>2. ASSUME NEW v \in Verdict, SetResult(v) PROVE Maps
  BY <1>2, SameFrames DEF SetResult, Maps
<1>3. ASSUME NEW g \in File, LoadCommand(g) PROVE Maps
  <2>1. ~InPhase(Kills)
    BY <1>3 DEF LoadCommand, Foreign, InPhase, Kills, Calls, Hooks
  <2> QED BY <1>3, <2>1, AttachMaps DEF LoadCommand, Loadable, Maps
<1>4. ASSUME NEW n \in Node, Pause(n) PROVE Maps
  <2>1. paused' = [paused EXCEPT ![n] = ~@]
    BY <1>4 DEF Pause, TypeOK
  <2> QED BY <1>4, <2>1, ToggleMaps DEF Pause, Maps
<1>5. ASSUME NEW n \in Node, Unpause(n) PROVE Maps
  <2>1. paused' = [paused EXCEPT ![n] = ~@]
    BY <1>5 DEF Unpause, TypeOK
  <2> QED BY <1>5, <2>1, ToggleMaps DEF Unpause, Maps
<1>6. ASSUME NEW n \in Node, NEW iscmd \in BOOLEAN, Unload(n, iscmd) PROVE Maps
  BY <1>6, UnloadMaps DEF Maps
<1>7. CASE GameInit
  <2>1. Quiet([NoFrame EXCEPT !.phase = "exec"])
    BY DEF NoFrame, Quiet, Inner, Slots, Hooks
  <2> QED BY <1>7, <2>1, PushStill DEF GameInit, Maps
<1>8. CASE ShutdownCommand
  BY <1>8, ShutdownMaps DEF Maps
<1>9. CASE GameShutdown
  <2>1. Quiet([NoFrame EXCEPT !.phase = "kill", !.cur = first])
    BY DEF NoFrame, Quiet, Inner, Slots, Hooks
  <2> QED BY <1>9, <2>1, PushStill DEF GameShutdown, Maps
<1> QED
  BY <1>1, <1>2, <1>3, <1>4, <1>5, <1>6, <1>7, <1>8, <1>9 DEF Enter

LEMMA InitMaps == Init => Contract!Init
<1> SUFFICES ASSUME Init PROVE Contract!Init
  OBVIOUS
<1>1. ASSUME NEW f \in File PROVE StateOf(f) = "out" /\ ~Rest(f) /\ Cardinality(RunningIn(Hooks, f)) = 0
  <2>1. RunningIn(Hooks, f) = {}
    BY DEF Init, RunningIn
  <2> QED BY <2>1, FS_EmptySet DEF Init, StateOf, Rest
<1> QED BY <1>1 DEF Contract!Init, Rest

LEMMA ContractInvHolds ==
  ASSUME "selfUnload" \notin Freedoms
  PROVE  Spec => []ContractInv
<1> DEFINE IInv == Cursors /\ Owned /\ Idle /\ Fresh /\ Shut
<1>1. Init => IInv
  BY DEF Init, Cursors, CursorLive, DetachAlone, KillOutermost, Owned, KillAlone, InsidePlugin,
         Listed, Sole, Pending, Opened, Idle, Fresh, Shut
<1>2. TypeOK /\ IInv /\ [Next]_vars => IInv'
  <2> SUFFICES ASSUME TypeOK, IInv, [Next]_vars PROVE IInv'
    OBVIOUS
  <2>1. CASE Next
    <3>1. Cursors'
      BY <2>1, LoopCursors, ReturnCursors, EnterCursors DEF Next
    <3>2. Owned'
      BY <2>1, StepOwned, ReturnOwned, EnterOwned DEF Next
    <3>3. Shut'
      BY <2>1, StepShut, ReturnShut, EnterShut DEF Next
    <3> QED BY <2>1, <3>1, <3>2, <3>3, IdleKept, FreshKept
  <2>2. CASE UNCHANGED vars
    BY <2>2, StayKeeps, OwnedStays, ShutStays DEF vars, code, Idle, Fresh
  <2> QED BY <2>1, <2>2
<1>3. TypeOK /\ IInv => ContractInv
  BY DEF ContractInv
<1> QED
  BY TypeCorrect, <1>1, <1>2, <1>3, PTL DEF Spec

(* Every plugin is treated as PluginContract says, through any sequence of *)
(* messages, commands and nested calls, as long as no command issued from  *)
(* inside a plugin unloads one that is on the call stack: its hooks are    *)
(* called only after JASS_Attach has accepted and while it is not paused,  *)
(* JASS_Detach once and never under one of its own hooks, and nothing      *)
(* afterwards (CPluginMgr.cpp:51-337, CPlugin.cpp:102-180).                *)
THEOREM ManagerKeepsContract ==
  ASSUME "selfUnload" \notin Freedoms
  PROVE  Spec => KeepsContract
<1>1. ContractInv /\ [Next]_vars => [Contract!Next]_Contract!vars
  <2> SUFFICES ASSUME ContractInv, [Next]_vars PROVE [Contract!Next]_Contract!vars
    OBVIOUS
  <2>1. CASE Next
    <3>1. Maps
      BY <2>1, StepMaps, ReturnStepMaps, EnterMaps DEF Next, ContractInv
    <3> QED BY <3>1 DEF Maps
  <2>2. CASE UNCHANGED vars
    BY <2>2, SameFrames DEF vars, code
  <2> QED BY <2>1, <2>2
<1> QED
  BY InitMaps, ContractInvHolds, <1>1, PTL DEF Spec, KeepsContract, Contract!Spec
=============================================================================
