------------------------- MODULE PluginList_proofs -------------------------
(***************************************************************************)
(* That the linked list is a sequence, for every set of nodes and plugins  *)
(* and however plugins are named.                                          *)
(*                                                                         *)
(* The auxiliary variable order lists the nodes.  Linked says that the     *)
(* pointers agree with it and that count says where a loop is; Walking     *)
(* says what each loop knows of the nodes it has passed.  Adding and       *)
(* deleting a node keep Linked because of the count of the loop that led   *)
(* there; an answer is right because of what the loop knows at its end.    *)
(***************************************************************************)
EXTENDS PluginList, TLAPS

Match(k) == call.text \in Has[item[order[k]]]

\* What a loop knows of the nodes it has passed.
Walking ==
  /\ call \in Calls \cup {NoCall}
  /\ In("add") => last = IF count = 0 THEN NULL ELSE order[count]
  /\ In("find") /\ call.num >= 0 => count <= call.num
  /\ In("id") => \A k \in 1 .. count : ~Match(k)
  /\ In("name") => \/ last = NULL /\ \A k \in 1 .. count : ~Match(k)
                   \/ \E j \in 1 .. count : /\ last = item[order[j]]
                                            /\ \A k \in 1 .. count : Match(k) <=> k = j

Kept == /\ kept.num \in Int /\ kept.num >= -1
        /\ kept = [num |-> kept.num, plugin |-> kept.plugin, moved |-> kept.moved]
        /\ NumberHolds

Sound == Linked /\ Walking /\ Kept

-----------------------------------------------------------------------------
(* Where a loop stands                                                     *)

LEMMA CallShape ==
  ASSUME NEW c \in Calls
  PROVE  /\ c # NoCall
         /\ c.op \in {"add", "unload", "find", "id", "name", "destroy"}
         /\ c.op \in {"add", "unload"} => c.plugin \in Plugin
         /\ c.op = "find" => c.num \in Number
         /\ c.op \in {"id", "name"} => c.text \in Name
BY DEF Calls, NoCall

LEMMA Standing ==
  ASSUME Linked, call # NoCall, cur # NULL
  PROVE  /\ Length \in Nat
         /\ count \in 0 .. Length - 1
         /\ cur = order[count + 1] /\ cur \in Cell
         /\ item[cur] \in Plugin
         /\ next[cur] = IF count + 1 = Length THEN NULL ELSE order[count + 2]
         /\ prev[cur] = IF count = 0 THEN NULL ELSE order[count]
<1>1. Length \in Nat /\ count \in 0 .. Length
  BY DEF Linked, Length
<1>2. count # Length
  BY DEF Linked
<1>3. count + 1 \in 1 .. Length /\ cur = order[count + 1]
  BY <1>1, <1>2 DEF Linked
<1>4. order[count + 1] \in Cell
  BY <1>3 DEF Linked, Length
<1> QED BY <1>1, <1>3, <1>4 DEF Linked

LEMMA AtEnd ==
  ASSUME Linked, call # NoCall, cur = NULL
  PROVE  Length \in Nat /\ count = Length
<1>1. Length \in Nat /\ count \in 0 .. Length
  BY DEF Linked, Length
<1>2. SUFFICES ASSUME count # Length PROVE FALSE
  BY <1>1
<1>3. count + 1 \in 1 .. Length /\ NULL = order[count + 1]
  BY <1>1, <1>2 DEF Linked
<1> QED BY <1>3, ListAssumption DEF Linked, Length

LEMMA StepOn ==
  ASSUME Linked, call # NoCall, cur # NULL,
         UNCHANGED <<cells, call>>, cur' = next[cur], count' = count + 1
  PROVE  Linked'
<1>1. /\ count \in 0 .. Length - 1 /\ Length \in Nat
      /\ next[cur] = IF count + 1 = Length THEN NULL ELSE order[count + 2]
  BY Standing
<1>2. count' \in 0 .. Length /\ cur' = IF count' = Length THEN NULL ELSE order[count' + 1]
  BY <1>1
<1> QED BY <1>2 DEF Linked, cells, Length

LEMMA Idles ==
  ASSUME Linked, UNCHANGED cells, call' = NoCall
  PROVE  Linked'
BY DEF Linked, cells, Length

-----------------------------------------------------------------------------
(* Adding and deleting a node                                              *)

LEMMA AddKeepsLinked ==
  ASSUME Linked, Walking, NEW n \in Cell, AddLink(n)
  PROVE  /\ Linked' /\ Length' = Length + 1
         /\ \A k \in 1 .. Length : Listed'[k] = Listed[k]
         /\ Listed'[Length + 1] = call.plugin
<1> DEFINE L == Length
<1>0. call \in Calls /\ call # NoCall /\ call.plugin \in Plugin
  BY CallShape DEF AddLink, In, Walking, NoCall
<1>1. L \in Nat /\ count = L
  BY <1>0, AtEnd DEF AddLink
<1>2. last = IF L = 0 THEN NULL ELSE order[L]
  BY <1>1 DEF AddLink, Walking
<1>3. order \in Seq(Cell) /\ L = Len(order)
  BY DEF Linked, Length
<1>4. /\ order' \in Seq(Cell) /\ Length' = L + 1
      /\ \A k \in 1 .. L : order'[k] = order[k]
      /\ order'[L + 1] = n
  BY <1>3 DEF AddLink, Length
<1>5. \A k \in 1 .. L : order[k] \in Cell /\ order[k] # n /\ order[k] # NULL
  BY <1>3, ListAssumption DEF AddLink, Length
<1>6. /\ next' \in [Cell -> Cell \cup {NULL}] /\ prev' \in [Cell -> Cell \cup {NULL}]
      /\ item' \in [Cell -> Plugin \cup {NULL}]
  <2>1. last \in Cell \cup {NULL}
    BY <1>1, <1>2, <1>5
  <2> QED BY <1>0, <2>1 DEF AddLink, Linked
<1>7. \A j, k \in 1 .. L + 1 : order'[j] = order'[k] => j = k
  BY <1>1, <1>4, <1>5 DEF Linked
<1>8. \A k \in 1 .. L + 1 : /\ k <= L => item'[order'[k]] = item[order[k]]
                            /\ k = L + 1 => item'[order'[k]] = call.plugin
  BY <1>1, <1>4, <1>5 DEF AddLink, Linked
<1>9. \A k \in 1 .. L : item[order[k]] \in Plugin
  BY DEF Linked
<1>10. \A k \in 1 .. L + 1 : item'[order'[k]] \in Plugin
  BY <1>0, <1>1, <1>8, <1>9
<1>11. first' = order'[1]
  <2>1. CASE L = 0
    BY <2>1, <1>2, <1>4 DEF AddLink
  <2>2. CASE L # 0
    <3>1. last # NULL /\ first = order[1]
      BY <2>2, <1>1, <1>2, <1>5 DEF Linked
    <3> QED BY <2>2, <3>1, <1>1, <1>4 DEF AddLink
  <2> QED BY <2>1, <2>2
<1>12. ASSUME NEW k \in 1 .. L + 1
       PROVE  /\ next'[order'[k]] = IF k = L + 1 THEN NULL ELSE order'[k + 1]
              /\ prev'[order'[k]] = IF k = 1 THEN NULL ELSE order'[k - 1]
  <2>1. CASE k = L + 1
    <3>1. next'[n] = NULL /\ prev'[n] = last
      BY DEF AddLink, Linked
    <3> QED BY <2>1, <3>1, <1>1, <1>2, <1>4
  <2>2. CASE k \in 1 .. L
    <3>1. order'[k] = order[k] /\ order[k] # n /\ order[k] \in Cell
      BY <2>2, <1>4, <1>5
    <3>2. prev'[order[k]] = prev[order[k]]
      BY <3>1 DEF AddLink, Linked
    <3>3. next'[order[k]] = IF order[k] = last THEN n ELSE next[order[k]]
      BY <3>1 DEF AddLink
    <3>4. order[k] = last <=> k = L
      BY <2>2, <1>1, <1>2 DEF Linked
    <3>5. /\ next[order[k]] = IF k = L THEN NULL ELSE order[k + 1]
          /\ prev[order[k]] = IF k = 1 THEN NULL ELSE order[k - 1]
      BY <2>2 DEF Linked
    <3>6. next'[order'[k]] = order'[k + 1]
      <4>1. CASE k = L
        <5>1. next'[order[k]] = n
          BY <4>1, <3>3, <3>4
        <5> QED BY <4>1, <5>1, <3>1, <1>4
      <4>2. CASE k # L
        <5>1. k + 1 \in 1 .. L
          BY <2>2, <4>2, <1>1
        <5>2. next'[order[k]] = order[k + 1]
          BY <4>2, <3>3, <3>4, <3>5
        <5> QED BY <5>1, <5>2, <3>1, <1>4
      <4> QED BY <4>1, <4>2
    <3>7. prev'[order'[k]] = IF k = 1 THEN NULL ELSE order'[k - 1]
      BY <2>2, <3>1, <3>2, <3>5, <1>1, <1>4
    <3>8. k # L + 1
      BY <2>2, <1>1
    <3> QED BY <3>6, <3>7, <3>8
  <2> QED BY <2>1, <2>2, <1>1
<1>13. call' = NoCall
  BY DEF AddLink, Return
<1>14. Linked'
  BY <1>1, <1>4, <1>6, <1>7, <1>10, <1>11, <1>12, <1>13 DEF Linked, Length
<1>15. Listed' = [k \in 1 .. Length' |-> item'[order'[k]]]
  BY DEF Listed, Length
<1> HIDE DEF L
<1>16. (\A k \in 1 .. L : Listed'[k] = Listed[k]) /\ Listed'[L + 1] = call.plugin
  BY <1>1, <1>4, <1>8, <1>15 DEF Listed, L
<1> QED BY <1>4, <1>14, <1>16 DEF L

LEMMA CutIsSeq ==
  ASSUME NEW S, NEW s \in Seq(S), NEW k \in 1 .. Len(s)
  PROVE  /\ Cut(s, k) \in Seq(S)
         /\ Len(Cut(s, k)) = Len(s) - 1
         /\ \A j \in 1 .. Len(s) - 1 : Cut(s, k)[j] = IF j < k THEN s[j] ELSE s[j + 1]
<1>1. Len(s) \in Nat /\ Len(s) - 1 \in Nat
  OBVIOUS
<1>2. \A j \in 1 .. Len(s) - 1 : (IF j < k THEN s[j] ELSE s[j + 1]) \in S
  OBVIOUS
<1>3. Cut(s, k) \in [1 .. Len(s) - 1 -> S]
  BY <1>2 DEF Cut
<1>4. Cut(s, k) \in Seq(S)
  BY <1>1, <1>3
<1>5. DOMAIN Cut(s, k) = 1 .. Len(s) - 1
  BY <1>3
<1>6. Len(Cut(s, k)) = Len(s) - 1
  BY <1>1, <1>4, <1>5
<1> QED BY <1>4, <1>6 DEF Cut

LEMMA UnlinkKeepsLinked ==
  ASSUME Linked, call # NoCall, Unlink
  PROVE  /\ Linked'
         /\ Length' = Length - 1 /\ count + 1 \in 1 .. Length
         /\ \A j \in 1 .. Length - 1 :
              Listed'[j] = IF j < count + 1 THEN Listed[j] ELSE Listed[j + 1]
<1> DEFINE L == Length
           k == count + 1
           New(j) == IF j < k THEN j ELSE j + 1
<1>1. /\ L \in Nat /\ k \in 1 .. L /\ cur = order[k] /\ cur \in Cell
      /\ next[cur] = IF k = L THEN NULL ELSE order[k + 1]
      /\ prev[cur] = IF k = 1 THEN NULL ELSE order[k - 1]
  <2>1. cur # NULL
    BY DEF Unlink
  <2> QED BY <2>1, Standing
<1>2. order \in Seq(Cell) /\ L = Len(order)
  BY DEF Linked, Length
<1>3. /\ order' \in Seq(Cell) /\ Length' = L - 1
      /\ \A j \in 1 .. L - 1 : order'[j] = order[New(j)] /\ New(j) \in 1 .. L /\ New(j) # k
  BY <1>1, <1>2, CutIsSeq DEF Unlink, Length
<1>4. \A i, j \in 1 .. L : order[i] = order[j] => i = j
  BY DEF Linked
<1>5. \A j \in 1 .. L : order[j] \in Cell /\ order[j] # NULL
  BY <1>2, ListAssumption
<1>6. \A j \in 1 .. L : /\ next[order[j]] = IF j = L THEN NULL ELSE order[j + 1]
                        /\ prev[order[j]] = IF j = 1 THEN NULL ELSE order[j - 1]
                        /\ item[order[j]] \in Plugin
  BY DEF Linked
<1>7. /\ next' \in [Cell -> Cell \cup {NULL}] /\ prev' \in [Cell -> Cell \cup {NULL}]
      /\ item' \in [Cell -> Plugin \cup {NULL}]
  BY <1>1 DEF Unlink, Linked
<1>8. \A i, j \in 1 .. L - 1 : order'[i] = order'[j] => i = j
  BY <1>1, <1>3, <1>4
<1>9. ASSUME NEW j \in 1 .. L, j # k
      PROVE  /\ item'[order[j]] = item[order[j]]
             /\ next'[order[j]] = IF j = k - 1 THEN next[cur] ELSE next[order[j]]
             /\ prev'[order[j]] = IF j = k + 1 THEN prev[cur] ELSE prev[order[j]]
  <2>1. order[j] # cur /\ order[j] \in Cell
    BY <1>1, <1>4, <1>5, <1>9
  <2>2. order[j] = prev[cur] <=> j = k - 1
    BY <1>1, <1>4, <1>5, <1>9
  <2>3. order[j] = next[cur] <=> j = k + 1
    BY <1>1, <1>4, <1>5, <1>9
  <2> QED BY <2>1, <2>2, <2>3 DEF Unlink, Linked
<1>10. first' = IF L - 1 = 0 THEN NULL ELSE order'[1]
  <2>1. first = order[1]
    BY <1>1 DEF Linked
  <2>2. prev[cur] = NULL <=> k = 1
    BY <1>1, <1>5
  <2> QED BY <2>1, <2>2, <1>1, <1>3 DEF Unlink
<1>11. ASSUME NEW j \in 1 .. L - 1
       PROVE  /\ item'[order'[j]] \in Plugin /\ item'[order'[j]] = item[order[New(j)]]
              /\ next'[order'[j]] = IF j = L - 1 THEN NULL ELSE order'[j + 1]
              /\ prev'[order'[j]] = IF j = 1 THEN NULL ELSE order'[j - 1]
  <2>1. New(j) \in 1 .. L /\ New(j) # k /\ order'[j] = order[New(j)]
    BY <1>3
  <2>2. item'[order'[j]] \in Plugin /\ item'[order'[j]] = item[order[New(j)]]
    BY <2>1, <1>6, <1>9
  <2>3. j # L - 1 => j + 1 \in 1 .. L - 1 /\ order'[j + 1] = order[New(j + 1)]
    BY <1>1, <1>3
  <2>4. j # 1 => j - 1 \in 1 .. L - 1 /\ order'[j - 1] = order[New(j - 1)]
    BY <1>1, <1>3
  <2>5. next'[order'[j]] = IF j = L - 1 THEN NULL ELSE order'[j + 1]
    <3>1. CASE j = k - 1
      BY <3>1, <2>1, <2>3, <1>1, <1>9
    <3>2. CASE j # k - 1
      <4>1. next'[order'[j]] = next[order[New(j)]]
        BY <3>2, <2>1, <1>1, <1>9
      <4> QED BY <4>1, <3>2, <2>1, <2>3, <1>1, <1>6
    <3> QED BY <3>1, <3>2
  <2>6. prev'[order'[j]] = IF j = 1 THEN NULL ELSE order'[j - 1]
    <3>1. CASE j = k
      BY <3>1, <2>1, <2>4, <1>1, <1>9
    <3>2. CASE j # k
      <4>1. prev'[order'[j]] = prev[order[New(j)]]
        BY <3>2, <2>1, <1>1, <1>9
      <4> QED BY <4>1, <3>2, <2>1, <2>4, <1>1, <1>6
    <3> QED BY <3>1, <3>2
  <2> QED BY <2>2, <2>5, <2>6
<1>12. call' = NoCall
  BY DEF Unlink, Return
<1>13. Linked'
  BY <1>3, <1>7, <1>8, <1>10, <1>11, <1>12 DEF Linked, Length
<1>14. Listed' = [j \in 1 .. Length' |-> item'[order'[j]]]
  BY DEF Listed, Length
<1> HIDE DEF L
<1>15. \A j \in 1 .. L - 1 : Listed'[j] = item[order[New(j)]] /\ New(j) \in 1 .. L
  BY <1>3, <1>11, <1>14
<1>16. \A j \in 1 .. L : Listed[j] = item[order[j]]
  BY DEF Listed, L
<1> QED BY <1>1, <1>3, <1>13, <1>15, <1>16 DEF L

-----------------------------------------------------------------------------
(* The invariant                                                           *)

LEMMA SoundInit == ListInit => Sound
<1> SUFFICES ASSUME ListInit PROVE Sound
  OBVIOUS
<1>1. Length = 0 /\ order \in Seq(Cell)
  BY DEF ListInit, Length
<1>2. Blank \in [Cell -> Cell \cup {NULL}] /\ Blank \in [Cell -> Plugin \cup {NULL}]
  BY DEF Blank
<1>3. Linked
  BY <1>1, <1>2 DEF ListInit, Linked
<1>4. Walking
  BY DEF ListInit, Walking, In, NoCall
<1>5. Kept
  BY DEF ListInit, Kept, NumberHolds, NoNumber
<1> QED BY <1>3, <1>4, <1>5 DEF Sound

\* What a call that leaves the nodes alone needs of them.
LEMMA CellsKept ==
  ASSUME UNCHANGED cells PROVE Length' = Length /\ Listed' = Listed
BY DEF cells, Length, Listed

LEMMA LinkedNext ==
  ASSUME Sound, [ListNext]_listVars PROVE Linked'
<1> USE DEF Sound
<1>1. ASSUME NEW c \in Calls, Begin(c) PROVE Linked'
  <2>1. count' = 0 /\ cur' = first /\ UNCHANGED cells
    BY <1>1 DEF Begin
  <2>2. Length \in Nat /\ first = IF Length = 0 THEN NULL ELSE order[1]
    BY DEF Linked, Length
  <2> QED BY <2>1, <2>2 DEF Linked, cells, Length
<1>2. CASE PassBy \/ AddWalk \/ FirstOfName \/ DeleteNode
  <2>1. /\ call # NoCall /\ cur # NULL /\ UNCHANGED <<cells, call>>
        /\ cur' = next[cur] /\ count' = count + 1
    BY <1>2 DEF PassBy, Passed, AddWalk, FirstOfName, DeleteNode, In, NoCall
  <2> QED BY <2>1, StepOn
<1>3. CASE Exhausted \/ NotAllowed \/ Counted \/ Reached \/ Negative \/ Ambiguous
  <2>1. UNCHANGED cells /\ call' = NoCall
    BY <1>3 DEF Exhausted, NotAllowed, Counted, Reached, Negative, Ambiguous, Return
  <2> QED BY <2>1, Idles
<1>4. ASSUME NEW n \in Cell, AddLink(n) PROVE Linked'
  BY <1>4, AddKeepsLinked
<1>5. CASE Unlink
  <2>1. call # NoCall
    BY <1>5 DEF Unlink, In, NoCall
  <2> QED BY <1>5, <2>1, UnlinkKeepsLinked
<1>6. CASE Destroyed
  <2>1. order' = << >> /\ Length' = 0 /\ order' \in Seq(Cell) /\ call' = NoCall
    BY <1>6 DEF Destroyed, Return, Length
  <2>2. Blank \in [Cell -> Cell \cup {NULL}] /\ Blank \in [Cell -> Plugin \cup {NULL}]
    BY DEF Blank
  <2> QED BY <1>6, <2>1, <2>2 DEF Destroyed, Linked
<1>7. CASE UNCHANGED listVars
  BY <1>7 DEF listVars, cells, Linked, Length
<1> QED BY <1>1, <1>2, <1>3, <1>4, <1>5, <1>6, <1>7 DEF ListNext

LEMMA WalkingNext ==
  ASSUME Sound, [ListNext]_listVars PROVE Walking'
<1> USE DEF Sound
<1>1. ASSUME NEW c \in Calls, Begin(c) PROVE Walking'
  BY <1>1, CallShape, ListAssumption DEF Begin, Walking, In, Match
<1>2. ASSUME cur # NULL, call # NoCall
      PROVE  /\ Length \in Nat /\ count \in Nat /\ count + 1 \in 1 .. Length
             /\ cur = order[count + 1]
  BY <1>2, Standing
<1>3. CASE PassBy
  <2>1. /\ cur # NULL /\ call # NoCall /\ UNCHANGED <<call, item, order, last>>
        /\ count' = count + 1
        /\ ~In("add")
    BY <1>3 DEF PassBy, Passed, In, NoCall, cells
  <2>2. \A k : Match(k)' <=> Match(k)
    BY <2>1 DEF Match
  <2>3. In("id") \/ In("name") => ~Match(count + 1)
    BY <1>2, <1>3, <2>1 DEF PassBy, Passed, Matches, Match, In
  <2>4. In("find") /\ call.num >= 0 => count' <= call.num
    <3>1. In("find") => call.num \in Int
      BY <2>1, CallShape, ListAssumption DEF Walking, In
    <3> QED BY <1>2, <1>3, <2>1, <3>1 DEF PassBy, Passed, Walking, In
  <2>5. In("id") => \A k \in 1 .. count' : ~Match(k)
    BY <1>2, <2>1, <2>3 DEF Walking
  <2>6. In("name") => \/ last = NULL /\ \A k \in 1 .. count' : ~Match(k)
                      \/ \E j \in 1 .. count' : /\ last = item[order[j]]
                                                /\ \A k \in 1 .. count' : Match(k) <=> k = j
    BY <1>2, <2>1, <2>3 DEF Walking
  <2> QED BY <2>1, <2>2, <2>4, <2>5, <2>6 DEF Walking, In
<1>4. CASE FirstOfName
  <2>1. /\ cur # NULL /\ call # NoCall /\ UNCHANGED <<call, item, order>>
        /\ count' = count + 1 /\ In("name") /\ last' = item[cur] /\ last = NULL
    BY <1>4 DEF FirstOfName, In, NoCall, cells
  <2>2. \A k : Match(k)' <=> Match(k)
    BY <2>1 DEF Match
  <2>3. Match(count + 1) /\ last' = item[order[count + 1]]
    BY <1>2, <1>4, <2>1 DEF FirstOfName, Matches, Match
  <2>4. \A k \in 1 .. count : ~Match(k)
    <3>1. SUFFICES ASSUME NEW j \in 1 .. count, last = item[order[j]] PROVE FALSE
      BY <2>1 DEF Walking
    <3>2. j \in 1 .. Length
      BY <1>2, <2>1
    <3> QED BY <2>1, <3>1, <3>2, ListAssumption DEF Linked
  <2>5. \E j \in 1 .. count' : /\ last' = item[order[j]]
                               /\ \A k \in 1 .. count' : Match(k) <=> k = j
    BY <1>2, <2>1, <2>3, <2>4
  <2> QED BY <2>1, <2>2, <2>5 DEF Walking, In
<1>5. CASE AddWalk
  <2>1. /\ cur # NULL /\ call # NoCall /\ UNCHANGED <<call, item, order>>
        /\ count' = count + 1 /\ In("add") /\ last' = cur
    BY <1>5 DEF AddWalk, In, NoCall, cells
  <2> QED BY <1>2, <2>1 DEF Walking, In
<1>6. CASE DeleteNode
  BY <1>6 DEF DeleteNode, Walking, In
<1>7. CASE \/ Exhausted \/ NotAllowed \/ Counted \/ Reached \/ Negative \/ Ambiguous
            \/ Unlink \/ Destroyed \/ \E n \in Cell : AddLink(n)
  <2>1. call' = NoCall
    BY <1>7 DEF Exhausted, NotAllowed, Counted, Reached, Negative, Ambiguous, Unlink, Destroyed,
               AddLink, Return
  <2> QED BY <2>1 DEF Walking, In, NoCall
<1>8. CASE UNCHANGED listVars
  BY <1>8 DEF listVars, cells, Walking, In, Match
<1> QED BY <1>1, <1>3, <1>4, <1>5, <1>6, <1>7, <1>8 DEF ListNext

LEMMA KeptNext ==
  ASSUME Sound, [ListNext]_listVars PROVE Kept'
<1> USE DEF Sound
<1>1. Length \in Nat
  BY DEF Linked, Length
<1>2. ASSUME UNCHANGED <<cells, kept>> PROVE Kept'
  BY <1>2, CellsKept DEF Kept, NumberHolds
<1>3. ASSUME kept' = NoNumber PROVE Kept'
  BY <1>3 DEF Kept, NumberHolds, NoNumber
<1>4. ASSUME NEW c \in Calls, Begin(c) PROVE Kept'
  BY <1>2, <1>4 DEF Begin
<1>5. CASE \/ PassBy \/ AddWalk \/ FirstOfName \/ DeleteNode \/ NotAllowed \/ Reached
            \/ Negative \/ Ambiguous
  BY <1>2, <1>5 DEF PassBy, AddWalk, FirstOfName, DeleteNode, NotAllowed, Reached, Negative, Ambiguous
<1>6. CASE Exhausted \/ Destroyed
  BY <1>2, <1>3, <1>6 DEF Exhausted, Destroyed
<1>7. CASE Counted
  <2>1. /\ cur # NULL /\ call # NoCall
        /\ kept' = [num |-> count, plugin |-> item[cur], moved |-> FALSE]
        /\ UNCHANGED cells
    BY <1>7 DEF Counted, In, NoCall
  <2>2. count \in 0 .. Length - 1 /\ cur = order[count + 1]
    BY <2>1, Standing
  <2>3. Listed[count + 1] = item[cur]
    BY <1>1, <2>2 DEF Listed
  <2>4. Length' = Length /\ Listed' = Listed
    BY <2>1, CellsKept
  <2> QED BY <1>1, <2>1, <2>2, <2>3, <2>4 DEF Kept, NumberHolds
<1>8. ASSUME NEW n \in Cell, AddLink(n) PROVE Kept'
  <2>1. /\ Length' = Length + 1 /\ kept' = kept
        /\ \A k \in 1 .. Length : Listed'[k] = Listed[k]
    BY <1>8, AddKeepsLinked DEF AddLink
  <2> QED BY <1>1, <2>1 DEF Kept, NumberHolds
<1>9. CASE Unlink
  <2>1. call # NoCall
    BY <1>9 DEF Unlink, In, NoCall
  <2>2. /\ Length' = Length - 1 /\ count + 1 \in 1 .. Length
        /\ \A j \in 1 .. Length - 1 :
             Listed'[j] = IF j < count + 1 THEN Listed[j] ELSE Listed[j + 1]
    BY <1>9, <2>1, UnlinkKeepsLinked
  <2>3. /\ kept' = [num |-> kept.num, plugin |-> kept.plugin, moved |-> kept'.moved]
        /\ kept'.moved <=> kept.moved \/ count <= kept.num
    BY <1>9 DEF Unlink, Kept
  <2>4. count \in Int
    BY <2>1 DEF Linked, Length
  <2>5. ASSUME kept'.num >= 0, ~kept'.moved
        PROVE  kept'.num < Length' /\ Listed'[kept'.num + 1] = kept'.plugin
    <3>1. kept.num \in Int /\ kept.num >= 0 /\ kept.num < count /\ Listed[kept.num + 1] = kept.plugin
      BY <2>3, <2>4, <2>5 DEF Kept, NumberHolds
    <3>2. kept.num + 1 \in 1 .. Length - 1 /\ kept.num + 1 < count + 1
      BY <1>1, <2>2, <2>4, <3>1
    <3> QED BY <1>1, <2>2, <2>3, <3>1, <3>2
  <2> QED BY <2>3, <2>5 DEF Kept, NumberHolds
<1>10. CASE UNCHANGED listVars
  BY <1>2, <1>10 DEF listVars
<1> QED BY <1>4, <1>5, <1>6, <1>7, <1>8, <1>9, <1>10 DEF ListNext

LEMMA AlwaysSound == ListSpec => []Sound
<1>1. Sound /\ [ListNext]_listVars => Sound'
  BY LinkedNext, WalkingNext, KeptNext DEF Sound
<1> QED BY <1>1, SoundInit, PTL DEF ListSpec

\* Whatever is added and unloaded, the pointers lead through exactly the nodes
\* that are allocated, in order and both ways, and every loop is where its
\* counter says.
THEOREM ListIsLinked == ListSpec => []Linked
BY AlwaysSound, PTL DEF Sound

\* A number that GetPluginID returned holds until its plugin, or one before
\* it, is unloaded.
THEOREM NumbersHold == ListSpec => []NumberHolds
<1>1. Sound => NumberHolds
  BY DEF Sound, Kept
<1> QED BY <1>1, AlwaysSound, PTL

-----------------------------------------------------------------------------
(* The refinement                                                          *)

LEMMA ListedSeq ==
  ASSUME Linked
  PROVE  /\ Length \in Nat
         /\ Listed \in Seq(Plugin) /\ Len(Listed) = Length /\ DOMAIN Listed = 1 .. Length
         /\ \A k \in 1 .. Length : Listed[k] = item[order[k]]
<1>1. Length \in Nat /\ \A k \in 1 .. Length : item[order[k]] \in Plugin
  BY DEF Linked, Length
<1>2. Listed \in [1 .. Length -> Plugin]
  BY <1>1 DEF Listed
<1> QED BY <1>1, <1>2 DEF Listed

LEMMA NamedIs ==
  ASSUME Linked, NEW t
  PROVE  Q!Named(t) = {k \in 1 .. Length : t \in Has[item[order[k]]]}
BY ListedSeq DEF Q!Named

\* A step of the list is a step of the sequence, or leaves it alone.
LEMMA StepRefines ==
  ASSUME Sound, Sound', [ListNext]_listVars PROVE [Q!Next]_(Q!vars)
<1> USE DEF Sound
<1>1. /\ Length \in Nat /\ Len(Listed) = Length /\ DOMAIN Listed = 1 .. Length
      /\ \A k \in 1 .. Length : Listed[k] = item[order[k]]
  BY ListedSeq
<1>2. /\ Length' \in Nat /\ DOMAIN Listed' = 1 .. Length'
      /\ Listed' = [k \in 1 .. Length' |-> Listed'[k]]
  <2>1. Length' \in Nat
    BY DEF Linked, Length
  <2> QED BY <2>1 DEF Listed
<1>3. ASSUME NEW v, Return(v) PROVE Q!Return(v)
  BY <1>3 DEF Return, Q!Return, NoCall, Q!NoCall
<1>4. ASSUME cur # NULL, call # NoCall
      PROVE  /\ count + 1 \in 1 .. Length /\ count \in Nat /\ cur = order[count + 1]
             /\ Listed[count + 1] = item[cur] /\ item[cur] \in Plugin
  BY <1>1, <1>4, Standing
<1>5. ASSUME NEW c \in Calls, Begin(c) PROVE Q!Call
  <2>1. Listed' = Listed
    BY <1>5, CellsKept DEF Begin
  <2>2. c \in Q!Calls
    BY DEF Calls, Q!Calls
  <2> QED BY <1>5, <2>1, <2>2 DEF Begin, Q!Call, NoCall, Q!NoCall
<1>6. CASE PassBy \/ AddWalk \/ FirstOfName \/ DeleteNode
  <2>1. UNCHANGED <<cells, call, ans>>
    BY <1>6 DEF PassBy, AddWalk, FirstOfName, DeleteNode
  <2> QED BY <2>1, CellsKept DEF Q!vars
<1>7. CASE Exhausted
  <2>1. cur = NULL /\ UNCHANGED cells /\ call # NoCall
    BY <1>7 DEF Exhausted, In, NoCall
  <2>2. count = Length /\ Listed' = Listed
    BY <2>1, AtEnd, CellsKept
  <2>3. CASE In("unload") /\ Return(0)
    BY <2>2, <2>3, <1>3 DEF In, Q!Unload, Q!Next
  <2>4. CASE In("find") /\ Return(NULL)
    <3>1. call.num \in Int
      BY <2>1, <2>4, CallShape, ListAssumption DEF Walking, In
    <3>2. call.num + 1 \notin DOMAIN Listed
      BY <1>1, <2>2, <2>4, <3>1 DEF Walking
    <3> QED BY <2>2, <2>4, <3>2, <1>3 DEF In, Q!Find, Q!Next
  <2>5. CASE In("id") /\ Return(-1)
    <3>1. Q!Named(call.text) = {}
      BY <2>2, <2>5, NamedIs DEF Walking, Match
    <3> QED BY <2>2, <2>5, <3>1, <1>3 DEF In, Q!ID, Q!Next
  <2>6. CASE In("name") /\ Return(last)
    <3>1. CASE last = NULL /\ \A k \in 1 .. count : ~Match(k)
      <4>1. Q!Named(call.text) = {}
        BY <2>2, <3>1, NamedIs DEF Match
      <4> QED BY <2>2, <2>6, <3>1, <4>1, <1>3 DEF In, Q!FindName, Q!Next
    <3>2. ASSUME NEW j \in 1 .. count, last = item[order[j]],
                 \A k \in 1 .. count : Match(k) <=> k = j
          PROVE  Q!FindName
      <4>1. Q!Named(call.text) = {j} /\ j \in DOMAIN Listed /\ last = Listed[j]
        BY <1>1, <2>2, <3>2, NamedIs DEF Match
      <4> QED BY <2>2, <2>6, <4>1, <1>3 DEF In, Q!FindName
    <3> QED BY <2>6, <3>1, <3>2 DEF Walking, Q!Next
  <2> QED BY <1>7, <2>3, <2>4, <2>5, <2>6 DEF Exhausted
<1>8. ASSUME NEW n \in Cell, AddLink(n) PROVE Q!Add
  <2>1. /\ Length' = Length + 1
        /\ \A k \in 1 .. Length : Listed'[k] = Listed[k]
        /\ Listed'[Length + 1] = call.plugin
    BY <1>8, AddKeepsLinked
  <2>2. Listed' = [k \in 1 .. Length + 1 |-> IF k <= Length THEN Listed[k] ELSE call.plugin]
    BY <1>1, <1>2, <2>1
  <2> QED BY <1>1, <1>3, <1>8, <2>2 DEF AddLink, In, Q!Add
<1>9. CASE NotAllowed
  <2>1. Listed' = Listed
    BY <1>9, CellsKept DEF NotAllowed
  <2> QED BY <1>3, <1>9, <2>1 DEF NotAllowed, In, Q!Unload, Q!Next
<1>10. CASE Unlink
  <2>1. cur # NULL /\ call # NoCall /\ item[cur] = call.plugin
    BY <1>10 DEF Unlink, In, NoCall
  <2>2. /\ Length' = Length - 1
        /\ \A j \in 1 .. Length - 1 :
             Listed'[j] = IF j < count + 1 THEN Listed[j] ELSE Listed[j + 1]
    BY <1>10, <2>1, UnlinkKeepsLinked
  <2>3. Listed' = [j \in 1 .. Length - 1 |-> IF j < count + 1 THEN Listed[j] ELSE Listed[j + 1]]
    BY <1>1, <1>2, <2>2
  <2>4. count + 1 \in DOMAIN Listed /\ Listed[count + 1] = call.plugin
    BY <1>1, <1>4, <2>1
  <2>5. call.op = "unload" /\ Q!Return(1)
    BY <1>3, <1>10 DEF Unlink, In
  <2> QED BY <1>1, <2>3, <2>4, <2>5 DEF Q!Unload, Q!Next
<1>11. CASE Counted
  <2>1. cur # NULL /\ call # NoCall /\ UNCHANGED cells
    BY <1>11 DEF Counted, In, NoCall
  <2>2. Listed' = Listed
    BY <2>1, CellsKept
  <2>3. Match(count + 1) /\ \A k \in 1 .. count : ~Match(k)
    BY <1>4, <1>11, <2>1 DEF Counted, Matches, Match, Walking
  <2>4. count + 1 \in Q!Named(call.text) /\ \A j \in Q!Named(call.text) : count + 1 <= j
    BY <1>1, <1>4, <2>1, <2>3, NamedIs DEF Match
  <2>5. (count + 1) - 1 = count
    BY <1>4, <2>1
  <2>6. Q!Return((count + 1) - 1) /\ call.op = "id"
    BY <1>3, <1>11, <2>5 DEF Counted, In
  <2> QED BY <2>2, <2>4, <2>6 DEF Q!ID, Q!Next
<1>12. CASE Reached
  <2>1. cur # NULL /\ call # NoCall /\ UNCHANGED cells /\ count = call.num
    BY <1>12 DEF Reached, In, NoCall
  <2>2. Listed' = Listed
    BY <2>1, CellsKept
  <2>3. call.num + 1 \in DOMAIN Listed /\ Listed[call.num + 1] = item[cur]
    BY <1>1, <1>4, <2>1
  <2>4. Q!Return(item[cur]) /\ call.op = "find"
    BY <1>3, <1>12 DEF Reached, In
  <2> QED BY <2>2, <2>3, <2>4 DEF Q!Find, Q!Next
<1>13. CASE Negative
  <2>1. Listed' = Listed /\ call # NoCall
    BY <1>13, CellsKept DEF Negative, In, NoCall
  <2>2. call.num \in Int
    BY <1>13, <2>1, CallShape, ListAssumption DEF Negative, Walking, In
  <2>3. call.num + 1 \notin DOMAIN Listed
    BY <1>1, <1>13, <2>2 DEF Negative
  <2> QED BY <1>3, <1>13, <2>1, <2>3 DEF Negative, In, Q!Find, Q!Next
<1>14. CASE Ambiguous
  <2>1. cur # NULL /\ call # NoCall /\ UNCHANGED cells
    BY <1>14 DEF Ambiguous, In, NoCall
  <2>2. Listed' = Listed
    BY <2>1, CellsKept
  <2>3. PICK j \in 1 .. count : Match(j)
    BY <1>14 DEF Ambiguous, Walking
  <2>4. j \in Q!Named(call.text) /\ count + 1 \in Q!Named(call.text) /\ j # count + 1
    BY <1>1, <1>4, <1>14, <2>1, <2>3, NamedIs DEF Ambiguous, Matches, Match
  <2> QED BY <1>3, <1>14, <2>2, <2>4 DEF Ambiguous, In, Q!FindName, Q!Next
<1>15. CASE Destroyed
  <2>1. Length' = 0
    BY <1>15 DEF Destroyed, Length
  <2>2. Listed' = << >>
    BY <1>2, <2>1
  <2> QED BY <1>3, <1>15, <2>2 DEF Destroyed, In, Q!Destroy, Q!Next
<1>16. CASE UNCHANGED listVars
  BY <1>16, CellsKept DEF listVars, Q!vars
<1> QED BY <1>5, <1>6, <1>7, <1>8, <1>9, <1>10, <1>11, <1>12, <1>13, <1>14, <1>15, <1>16
        DEF ListNext, Q!Next

\* The refinement: for whoever calls it, the list and its loops are a sequence.
THEOREM ListImplementsSeq == ListSpec => ListIsSeq
<1>1. ListInit => Q!Init
  <2> SUFFICES ASSUME ListInit PROVE Q!Init
    OBVIOUS
  <2>1. Linked /\ Length = 0
    BY SoundInit DEF Sound, ListInit, Length
  <2>2. Listed = << >>
    BY <2>1, ListedSeq
  <2> QED BY <2>2 DEF ListInit, Q!Init, NoCall, Q!NoCall
<1> QED BY <1>1, AlwaysSound, StepRefines, PTL DEF ListSpec, ListIsSeq
=============================================================================
