------------------------------ MODULE PluginSeq ------------------------------
(***************************************************************************)
(* What the plugin list promises to the code that keeps plugins in it: a   *)
(* sequence.  A call takes effect in one step, which also decides its      *)
(* answer.  Numbers start with 0, as in "jass list".                       *)
(***************************************************************************)
EXTENDS Integers, Sequences

CONSTANTS Plugin,    \* the plugin objects
          Text,      \* texts that plugins are looked for with
          Has,       \* Has[p]: the texts that the name of p contains
          Number,    \* the numbers asked for
          NULL       \* the null pointer

VARIABLES seq,       \* the plugins, in the order of loading
          pend,      \* the call in progress
          ans        \* the last answer

vars == <<seq, pend, ans>>

NoCall == [op |-> "none"]
Calls == [op : {"add", "unload"}, plugin : Plugin] \cup [op : {"find"}, num : Number]
           \cup [op : {"id", "name"}, text : Text] \cup [op : {"destroy"}]

Named(t) == {k \in DOMAIN seq : t \in Has[seq[k]]}

Init == seq = << >> /\ pend = NoCall /\ ans = NULL

Call == /\ pend = NoCall /\ \E c \in Calls : pend' = c
        /\ UNCHANGED <<seq, ans>>

Return(v) == ans' = v /\ pend' = NoCall

Add == /\ pend.op = "add"
       /\ seq' = [k \in 1 .. Len(seq) + 1 |-> IF k <= Len(seq) THEN seq[k] ELSE pend.plugin]
       /\ Return(1)

\* The plugin goes and the ones behind it move up, unless it may not be
\* unloaded or is not there.
Unload == /\ pend.op = "unload"
          /\ \/ UNCHANGED seq /\ Return(0)
             \/ \E k \in DOMAIN seq :
                  /\ seq[k] = pend.plugin
                  /\ seq' = [j \in 1 .. Len(seq) - 1 |-> IF j < k THEN seq[j] ELSE seq[j + 1]]
                  /\ Return(1)

\* The number of the first plugin of that name.
ID == /\ pend.op = "id"
      /\ UNCHANGED seq
      /\ \/ Named(pend.text) = {} /\ Return(-1)
         \/ \E k \in Named(pend.text) : /\ \A j \in Named(pend.text) : k <= j
                                        /\ Return(k - 1)

Find == /\ pend.op = "find"
        /\ UNCHANGED seq
        /\ Return(IF pend.num + 1 \in DOMAIN seq THEN seq[pend.num + 1] ELSE NULL)

\* The only plugin of that name.
FindName == /\ pend.op = "name"
            /\ UNCHANGED seq
            /\ \/ (\A k \in Named(pend.text) : \E j \in Named(pend.text) : j # k) /\ Return(NULL)
               \/ \E k \in DOMAIN seq : Named(pend.text) = {k} /\ Return(seq[k])

Destroy == pend.op = "destroy" /\ seq' = << >> /\ Return(NULL)

Next == Call \/ Add \/ Unload \/ ID \/ Find \/ FindName \/ Destroy

Spec == Init /\ [][Next]_vars
=============================================================================
