----------------------------- MODULE PdbEntries -----------------------------
(***************************************************************************)
(* What a list or a hash of the database promises: named entries, of which *)
(* several may have one name, kept in the order in which they were added.  *)
(* A call takes effect in one step, which also decides its answer.         *)
(***************************************************************************)
EXTENDS Naturals, Sequences, SequencesExt

CONSTANTS Id, Kid, NIL

VARIABLES kind,      \* "none", "hash" or "list"
          entries,   \* the entries, the oldest first
          pend,      \* the call in progress
          ans        \* the last answer

vars == <<kind, entries, pend, ans>>

NoCall == [op |-> "none"]
Of(id) == {k \in DOMAIN entries : entries[k].id = id}
Oldest(k, id) == k \in Of(id) /\ \A j \in Of(id) : k <= j

Init == kind = "none" /\ entries = << >> /\ pend = NoCall /\ ans = NIL

Create == /\ kind = "none" /\ kind' \in {"hash", "list"}
          /\ UNCHANGED <<entries, pend, ans>>

Call == /\ kind # "none" /\ pend = NoCall /\ pend' # NoCall
        /\ UNCHANGED <<kind, entries, ans>>

Return(v) == pend' = NoCall /\ ans' = v

Add == /\ pend.op = "add"
       /\ entries' = Append(entries, [id |-> pend.id, kid |-> pend.kid])
       /\ Return(1)
       /\ UNCHANGED kind

\* The oldest of that name.
Get == /\ pend.op = "get"
       /\ \/ Of(pend.id) = {} /\ Return(NIL)
          \/ \E k \in DOMAIN entries : Oldest(k, pend.id) /\ Return(entries[k].kid)
       /\ UNCHANGED <<kind, entries>>

TakeOut == /\ pend.op = "remove"
           /\ \E k \in DOMAIN entries : /\ Oldest(k, pend.id) /\ entries[k].kid = pend.kid
                                        /\ entries' = RemoveAt(entries, k)
           /\ Return(1)
           /\ UNCHANGED kind

Count == pend.op = "count" /\ Return(Len(entries)) /\ UNCHANGED <<kind, entries>>

\* All entries, once each: a list in its order, a hash at least name by name.
\* (at says where each is from; no two are from one place, for two of one name
\* are not and two of different names cannot be.)
Complete(s) ==
  /\ \E at \in [DOMAIN s -> DOMAIN entries] :
       /\ \A k \in DOMAIN entries : \E j \in DOMAIN s : at[j] = k
       /\ \A j \in DOMAIN s : s[j] = entries[at[j]]
       /\ \A i, j \in DOMAIN s : i < j /\ s[i].id = s[j].id => at[i] < at[j]
  /\ kind = "list" => s = entries

Write == /\ pend.op = "write"
         /\ pend' = NoCall /\ Complete(ans')
         /\ UNCHANGED <<kind, entries>>

Free == /\ pend.op = "free"
        /\ pend' = NoCall /\ Complete(ans')
        /\ kind' = "none" /\ entries' = << >>

Next == Create \/ Call \/ Add \/ Get \/ TakeOut \/ Count \/ Write \/ Free

Spec == Init /\ [][Next]_vars
=============================================================================
