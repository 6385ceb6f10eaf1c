------------------------------ MODULE MCExPlay ------------------------------
(* Instances of Accounts, TargetDelay and ExHooks for TLC.  They share no  *)
(* state, so a behaviour is one of the accounts, of the delays or of the   *)
(* hooks: the product would only multiply the states.  Two addresses: a    *)
(* plugin loaded again may come to the same one or to another.             *)
EXTENDS Accounts, TargetDelay, ExHooks

CONSTANTS s1, s2, a1, a2, b1, b2, e1, e2

MCBase == {b1, b2}
MCEnt == {e1, e2}

MCSlot == {s1, s2}
MCAccount == {a1, a2}
MCCap == {0, 2}
MCCurve == {1, 2}
MCPrice == [q \in MCCurve |-> [c \in MCCap |->
             [l \in 0 .. 3 |-> IF c = 0 THEN 3 ELSE q * ((l + 2) \div 2)]]]
MCAmount == {1, 3}
MCOutput == {-2, 3}

VARIABLE part

playVars == <<part, accountVars, delayVars, hookVars>>

Trade == part = "accounts" /\ AccountNext /\ UNCHANGED <<part, delayVars, hookVars>>
Delays(A) == part = "delays" /\ A /\ UNCHANGED <<part, accountVars, hookVars>>
Hooks == part = "hooks" /\ HookNext /\ UNCHANGED <<part, accountVars, delayVars>>

\* A process that jumped to nowhere does nothing more, and calls nest no deeper
\* than MaxDepth.
Halts == part = "hooks" /\ (crashed \/ ~Shallow) /\ UNCHANGED playVars

PlayInit == /\ part \in {"accounts", "delays", "hooks"}
            /\ AccountInit /\ DelayInit /\ HookInit

PlayNext == Trade \/ Delays(DelayNext) \/ Hooks \/ Halts

PlaySpec == /\ PlayInit /\ [][PlayNext]_playVars
            /\ WF_playVars(Delays(Frame)) /\ WF_playVars(Delays(Loop))
============================================================================
