------------------------------ MODULE PdbSpace ------------------------------
(***************************************************************************)
(* What the parameter database promises to whoever asks it by path: a      *)
(* space of names.  A path is a sequence of names; each is either unused,  *)
(* a container, or a leaf with a value.                                    *)
(***************************************************************************)
EXTENDS Naturals, Sequences

CONSTANTS Paths,        \* the paths that can be asked for
          Containers,   \* the kinds of containers
          Leaves,       \* the kinds and values of leaves
          None          \* nothing is stored there

VARIABLE space

Root == << >>
Prefix(p, q) == Len(p) <= Len(q) /\ SubSeq(q, 1, Len(p)) = p
Above(p) == SubSeq(p, 1, Len(p) - 1)

Init == space = [p \in Paths |-> None]

\* The space before and after a step.
Open(s, t) == s[Root] = None /\ \E c \in Containers : t = [s EXCEPT ![Root] = c]

\* A new name below a container; a name that is in use is not taken over.
Put(s, t) == \E p \in Paths \ {Root} : /\ s[Above(p)] \in Containers
                                      /\ s[p] = None
                                      /\ t[p] \in Containers \cup Leaves
                                      /\ t = [s EXCEPT ![p] = t[p]]

\* A leaf takes a new value.
Set(s, t) == \E p \in Paths : /\ {s[p], t[p]} \subseteq Leaves
                             /\ t = [s EXCEPT ![p] = t[p]]

\* A name goes with all that is below it, and nothing else goes.
Del(s, t) == \E p \in Paths : t = [q \in Paths |-> IF Prefix(p, q) THEN None ELSE s[q]]

Step(s, t) == Open(s, t) \/ Put(s, t) \/ Set(s, t) \/ Del(s, t)
\* Before and after, taken once: the space may be a view of something larger.
Next == \E s \in {space}, t \in {space'} : Step(s, t)

Spec == Init /\ [][Next]_space
=============================================================================
