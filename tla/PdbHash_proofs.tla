--------------------------- MODULE PdbHash_proofs ---------------------------
(***************************************************************************)
(* Proofs about PdbHash, for any links, names, hash keys and sizes: the    *)
(* lists of a table stay well linked, and a table is a sequence of named   *)
(* entries.                                                                *)
(***************************************************************************)
EXTENDS PdbHash, SequenceTheorems, FunctionTheorems, TLAPS

Entry == [id : Id, kid : Kid]
Ends == [root : LinkNode \cup {NIL}, last : LinkNode \cup {NIL}]
Where(l) == CellOf(held[l].id)

(* The order of a sequence; which element of C comes first and last in it, *)
(* and what comes before and after one; the list of the links C.           *)
Once(s) == \A i, j \in DOMAIN s : s[i] = s[j] => i = j
Comes(s, l, m) == \E i, j \in DOMAIN s : i < j /\ s[i] = l /\ s[j] = m
First(s, l, C) == IF C = {} THEN l = NIL ELSE l \in C /\ \A m \in C \ {l} : Comes(s, l, m)
Final(s, l, C) == IF C = {} THEN l = NIL ELSE l \in C /\ \A m \in C \ {l} : Comes(s, m, l)
Behind(s, l, C) == {m \in C : Comes(s, l, m)}
Ahead(s, l, C) == {m \in C : Comes(s, m, l)}
Row(s, C, su, pr) == \A l \in C : First(s, su[l], Behind(s, l, C)) /\ Final(s, pr[l], Ahead(s, l, C))

Shape ==
  /\ kind \in {"none", "hash", "list"} /\ size \in Nat
  /\ kind # "none" => size > 0 /\ tbl \in [1 .. size -> Ends \cup {NIL}]
  /\ kind = "list" => size = 1
  /\ succ \in [LinkNode -> LinkNode \cup {NIL}]
  /\ pred \in [LinkNode -> LinkNode \cup {NIL}]
  /\ held \in [LinkNode -> Entry \cup {NIL}]
  /\ ages \in Seq(LinkNode) /\ Once(ages)
  /\ {l \in LinkNode : held[l] # NIL} = Links

Rows == kind # "none" => \A c \in 1 .. size :
  /\ First(ages, Root(c), Chain(c))
  /\ tbl[c] # NIL => Final(ages, tbl[c].last, Chain(c))
  /\ Row(ages, Chain(c), succ, pred)

(* A link that is not in use is in no list, and no child is kept twice.    *)
Clear == \A l \in LinkNode : held[l] = NIL => succ[l] = NIL /\ pred[l] = NIL
Kids == \A l, m \in Links : held[l].kid = held[m].kid => l = m

(* The call in progress: a new child to add, and one to take out that is   *)
(* the oldest of its name.                                                 *)
Calling ==
  /\ request \in Requests \cup {NoRequest} /\ cell \in Nat
  /\ lnptr # NIL => lnptr \in Chain(cell)
  /\ out \in Seq(Entry)
  /\ kind = "none" => request = NoRequest /\ ages = << >>
  /\ request = NoRequest => lnptr = NIL /\ out = << >>
  /\ request # NoRequest => cell \in 1 .. size
  /\ request.op \in {"add", "get", "remove"} => cell = CellOf(request.id)
  /\ request.op = "add" => lnptr = NIL
Asked ==
  /\ request.op = "add" => \A l \in Links : held[l].kid # request.kid
  /\ request.op = "remove" =>
       \E l \in Links : /\ held[l].id = request.id /\ held[l].kid = request.kid
                        /\ \A m \in Links \ {l} : held[m].id = request.id => Comes(ages, l, m)

(* A search has not come past an entry of the name.                        *)
Searched == ByName(request) => \A m \in Chain(cell) :
  held[m].id = request.id => lnptr # NIL /\ (m = lnptr \/ Comes(ages, lnptr, m))

(* A loop over all entries has come past those of the cells before, and    *)
(* those before the link where it stands, in that order.                   *)
Past(l) == Where(l) < cell \/ (Where(l) = cell /\ (lnptr = NIL \/ Comes(ages, l, lnptr)))
Before(l, m) == Where(l) < Where(m) \/ (Where(l) = Where(m) /\ Comes(ages, l, m))
Visits(at) ==
  /\ \A j \in DOMAIN out : out[j] = held[at[j]] /\ Past(at[j])
  /\ \A l \in Links : Past(l) => \E j \in DOMAIN out : at[j] = l
  /\ \A i, j \in DOMAIN out : i < j => Before(at[i], at[j])
  /\ kind = "list" => \A j \in DOMAIN out : j \in DOMAIN ages /\ at[j] = ages[j]
Visited == OverAll(request) => \E at \in [DOMAIN out -> Links] : Visits(at)

HashInv == Shape /\ Rows /\ Clear /\ Kids /\ Calling /\ Asked /\ Searched /\ Visited

-----------------------------------------------------------------------------
(* Sequences without repetition, as orders.                                *)

LEMMA Ordered ==
  ASSUME NEW S, NEW s \in Seq(S), Once(s)
  PROVE  /\ \A l, m : Comes(s, l, m) => l \in ToSet(s) /\ m \in ToSet(s) /\ l # m /\ ~Comes(s, m, l)
         /\ \A l, m, n : Comes(s, l, m) /\ Comes(s, m, n) => Comes(s, l, n)
         /\ \A l, m \in ToSet(s) : l # m => Comes(s, l, m) \/ Comes(s, m, l)
<1>1. DOMAIN s \subseteq Nat
  OBVIOUS
<1>2. \A l, m : Comes(s, l, m) => l \in ToSet(s) /\ m \in ToSet(s) /\ l # m /\ ~Comes(s, m, l)
  BY <1>1 DEF Comes, Once, ToSet
<1>3. \A l, m, n : Comes(s, l, m) /\ Comes(s, m, n) => Comes(s, l, n)
  <2> SUFFICES ASSUME NEW l, NEW m, NEW n, Comes(s, l, m), Comes(s, m, n)
               PROVE  Comes(s, l, n)
    OBVIOUS
  <2>1. PICK i, j \in DOMAIN s : i < j /\ s[i] = l /\ s[j] = m
    BY DEF Comes
  <2>2. PICK g, k \in DOMAIN s : g < k /\ s[g] = m /\ s[k] = n
    BY DEF Comes
  <2>3. g = j
    BY <2>1, <2>2 DEF Once
  <2> QED BY <1>1, <2>1, <2>2, <2>3 DEF Comes
<1>4. \A l, m \in ToSet(s) : l # m => Comes(s, l, m) \/ Comes(s, m, l)
  <2> SUFFICES ASSUME NEW l \in ToSet(s), NEW m \in ToSet(s), l # m
               PROVE  Comes(s, l, m) \/ Comes(s, m, l)
    OBVIOUS
  <2>1. PICK i \in DOMAIN s : s[i] = l
    BY DEF ToSet
  <2>2. PICK j \in DOMAIN s : s[j] = m
    BY DEF ToSet
  <2>3. i < j \/ j < i
    BY <1>1, <2>1, <2>2
  <2> QED BY <2>1, <2>2, <2>3 DEF Comes
<1> QED BY <1>2, <1>3, <1>4

Appending(s, x, t) ==
  s \in Seq(LinkNode) /\ Once(s) /\ x \in LinkNode \ ToSet(s) /\ t = Append(s, x)

LEMMA Appended ==
  ASSUME NEW s, NEW x, NEW t, Appending(s, x, t)
  PROVE  /\ t \in Seq(LinkNode) /\ Once(t) /\ ToSet(t) = ToSet(s) \cup {x}
         /\ \A l, m : Comes(t, l, m) <=> Comes(s, l, m) \/ (m = x /\ l \in ToSet(s))
<1> DEFINE n == Len(s)
<1>0. s \in Seq(LinkNode) /\ Once(s) /\ x \in LinkNode \ ToSet(s) /\ t = Append(s, x)
  BY DEF Appending
<1> USE <1>0
<1>1. /\ n \in Nat /\ DOMAIN s = 1 .. n /\ DOMAIN t = 1 .. n + 1 /\ t \in Seq(LinkNode)
      /\ t[n + 1] = x /\ \A i \in 1 .. n : t[i] = s[i]
  OBVIOUS
<1>2. \A i \in 1 .. n : s[i] \in ToSet(s)
  BY <1>1 DEF ToSet
<1>3. Once(t)
  <2> SUFFICES ASSUME NEW i \in 1 .. n + 1, NEW j \in 1 .. n + 1, t[i] = t[j]
               PROVE  i = j
    BY <1>1 DEF Once
  <2>1. CASE i \in 1 .. n /\ j \in 1 .. n
    BY <1>1, <2>1 DEF Once
  <2>2. CASE (i = n + 1 /\ j \in 1 .. n) \/ (j = n + 1 /\ i \in 1 .. n)
    BY <1>1, <1>2, <2>2
  <2> QED BY <1>1, <2>1, <2>2
<1>4. ToSet(t) = ToSet(s) \cup {x}
  BY <1>1 DEF ToSet
<1>5. ASSUME NEW l, NEW m
      PROVE  Comes(t, l, m) <=> Comes(s, l, m) \/ (m = x /\ l \in ToSet(s))
  <2>1. ASSUME Comes(t, l, m)
        PROVE  Comes(s, l, m) \/ (m = x /\ l \in ToSet(s))
    <3>1. PICK i, j \in 1 .. n + 1 : i < j /\ t[i] = l /\ t[j] = m
      BY <1>1, <2>1 DEF Comes
    <3>2. i \in 1 .. n
      BY <1>1, <3>1
    <3> QED BY <1>1, <1>2, <3>1, <3>2 DEF Comes
  <2>2. ASSUME Comes(s, l, m)
        PROVE  Comes(t, l, m)
    BY <1>1, <2>2 DEF Comes
  <2>3. ASSUME m = x, l \in ToSet(s)
        PROVE  Comes(t, l, m)
    <3>1. PICK i \in 1 .. n : s[i] = l
      BY <1>1, <2>3 DEF ToSet
    <3>2. i < n + 1 /\ i \in DOMAIN t /\ n + 1 \in DOMAIN t
      BY <1>1
    <3> QED BY <1>1, <2>3, <3>1, <3>2 DEF Comes
  <2> QED BY <2>1, <2>2, <2>3
<1> QED BY <1>1, <1>3, <1>4, <1>5

TakingOut(S, s, k, t) == s \in Seq(S) /\ k \in DOMAIN s /\ t = RemoveAt(s, k)

LEMMA TakenOut ==
  ASSUME NEW S, NEW s, NEW k, NEW t, TakingOut(S, s, k, t)
  PROVE  /\ t \in Seq(S) /\ Len(t) = Len(s) - 1 /\ DOMAIN t = 1 .. Len(s) - 1
         /\ \A i \in 1 .. Len(s) - 1 : t[i] = IF i < k THEN s[i] ELSE s[i + 1]
<1> DEFINE a == SubSeq(s, 1, k - 1)
           b == SubSeq(s, k + 1, Len(s))
<1>0. s \in Seq(S) /\ k \in DOMAIN s /\ t = RemoveAt(s, k)
  BY DEF TakingOut
<1> USE <1>0
<1>1. k \in 1 .. Len(s) /\ Len(s) \in Nat /\ \A i \in 1 .. Len(s) : s[i] \in S
  OBVIOUS
<1>2. a \in Seq(S) /\ Len(a) = k - 1 /\ \A i \in 1 .. k - 1 : a[i] = s[i]
  BY <1>1, SubSeqProperties
<1>3. b \in Seq(S) /\ Len(b) = Len(s) - k /\ \A i \in 1 .. Len(s) - k : b[i] = s[k + i]
  BY <1>1, SubSeqProperties
<1>4. t = a \o b
  BY DEF RemoveAt
<1> HIDE DEF a, b
<1>5. /\ t \in Seq(S) /\ Len(t) = Len(a) + Len(b)
      /\ \A i \in 1 .. Len(a) + Len(b) : t[i] = IF i <= Len(a) THEN a[i] ELSE b[i - Len(a)]
  <2>1. a \in Seq(S) /\ b \in Seq(S)
    BY <1>2, <1>3
  <2>2. /\ a \o b \in Seq(S) /\ Len(a \o b) = Len(a) + Len(b)
        /\ \A i \in 1 .. Len(a) + Len(b) : (a \o b)[i] = IF i <= Len(a) THEN a[i] ELSE b[i - Len(a)]
    BY <2>1, ConcatProperties
  <2> QED BY <1>4, <2>2, Zenon
<1>6. Len(a) + Len(b) = Len(s) - 1
  BY <1>1, <1>2, <1>3
<1>7. t \in Seq(S) /\ Len(t) = Len(s) - 1 /\ DOMAIN t = 1 .. Len(s) - 1
  BY <1>5, <1>6
<1>8. ASSUME NEW i \in 1 .. Len(s) - 1
      PROVE  t[i] = IF i < k THEN s[i] ELSE s[i + 1]
  <2>1. t[i] = IF i <= Len(a) THEN a[i] ELSE b[i - Len(a)]
    BY <1>5, <1>6
  <2>2. CASE i < k
    <3>1. i <= Len(a) /\ i \in 1 .. k - 1
      BY <1>1, <1>2, <2>2
    <3> QED BY <1>2, <2>1, <2>2, <3>1
  <2>3. CASE ~ (i < k)
    <3>1. ~ (i <= Len(a)) /\ i - Len(a) \in 1 .. Len(s) - k /\ k + (i - Len(a)) = i + 1
      BY <1>1, <1>2, <2>3
    <3>2. t[i] = b[i - Len(a)]
      BY <2>1, <3>1
    <3>3. b[i - Len(a)] = s[k + (i - Len(a))]
      BY <1>3, <3>1
    <3> QED BY <2>3, <3>1, <3>2, <3>3
  <2> QED BY <2>2, <2>3
<1> QED BY <1>7, <1>8

LEMMA Removed ==
  ASSUME NEW s, NEW k, NEW t, TakingOut(LinkNode, s, k, t), Once(s)
  PROVE  /\ t \in Seq(LinkNode) /\ Once(t) /\ ToSet(t) = ToSet(s) \ {s[k]}
         /\ \A l, m : Comes(t, l, m) <=> Comes(s, l, m) /\ l # s[k] /\ m # s[k]
<1> DEFINE n == Len(s)
           At(i) == IF i < k THEN i ELSE i + 1
           To(i) == IF i < k THEN i ELSE i - 1
<1>0. s \in Seq(LinkNode) /\ Once(s) /\ k \in DOMAIN s /\ t = RemoveAt(s, k)
  BY DEF TakingOut
<1> USE <1>0
<1>1. /\ t \in Seq(LinkNode) /\ n \in Nat /\ DOMAIN s = 1 .. n /\ DOMAIN t = 1 .. n - 1 /\ k \in 1 .. n
      /\ \A i \in 1 .. n - 1 : t[i] = s[At(i)]
  BY TakenOut
<1>2. \A i \in 1 .. n - 1 : At(i) \in 1 .. n /\ At(i) # k
  BY <1>1
<1>3. \A i \in 1 .. n : i # k => To(i) \in 1 .. n - 1 /\ At(To(i)) = i
  BY <1>1
<1>4. \A i, j \in 1 .. n - 1 : i < j => At(i) < At(j)
  BY <1>1
<1>5. \A i, j \in 1 .. n : i # k /\ j # k /\ i < j => To(i) < To(j)
  BY <1>1
<1> HIDE DEF At, To
<1>6. Once(t)
  <2> SUFFICES ASSUME NEW i \in 1 .. n - 1, NEW j \in 1 .. n - 1, t[i] = t[j]
               PROVE  i = j
    BY <1>1 DEF Once
  <2>1. At(i) = At(j)
    BY <1>1, <1>2 DEF Once
  <2>2. ~ (i < j) /\ ~ (j < i)
    BY <1>1, <1>2, <1>4, <2>1
  <2> QED BY <1>1, <2>2
<1>7. \A i \in 1 .. n : s[i] = s[k] => i = k
  BY <1>1 DEF Once
<1>8. ToSet(t) = ToSet(s) \ {s[k]}
  <2>1. ASSUME NEW l \in ToSet(t)
        PROVE  l \in ToSet(s) \ {s[k]}
    <3>1. PICK i \in 1 .. n - 1 : l = s[At(i)]
      BY <1>1, <2>1 DEF ToSet
    <3> QED BY <1>1, <1>2, <1>7, <3>1 DEF ToSet
  <2>2. ASSUME NEW l \in ToSet(s), l # s[k]
        PROVE  l \in ToSet(t)
    <3>1. PICK i \in 1 .. n : l = s[i]
      BY <1>1, <2>2 DEF ToSet
    <3>2. To(i) \in DOMAIN t /\ t[To(i)] = l
      BY <1>1, <1>3, <2>2, <3>1
    <3> QED BY <3>2 DEF ToSet
  <2> QED BY <2>1, <2>2
<1>9. ASSUME NEW l, NEW m
      PROVE  Comes(t, l, m) <=> Comes(s, l, m) /\ l # s[k] /\ m # s[k]
  <2>1. ASSUME Comes(t, l, m)
        PROVE  Comes(s, l, m) /\ l # s[k] /\ m # s[k]
    <3>1. PICK i, j \in 1 .. n - 1 : i < j /\ s[At(i)] = l /\ s[At(j)] = m
      BY <1>1, <2>1 DEF Comes
    <3>2. At(i) < At(j) /\ At(i) \in 1 .. n /\ At(j) \in 1 .. n /\ At(i) # k /\ At(j) # k
      BY <1>2, <1>4, <3>1
    <3> QED BY <1>1, <1>7, <3>1, <3>2 DEF Comes
  <2>2. ASSUME Comes(s, l, m), l # s[k], m # s[k]
        PROVE  Comes(t, l, m)
    <3>1. PICK i, j \in 1 .. n : i < j /\ s[i] = l /\ s[j] = m
      BY <1>1, <2>2 DEF Comes
    <3>2. To(i) \in DOMAIN t /\ To(j) \in DOMAIN t /\ To(i) < To(j) /\ t[To(i)] = l /\ t[To(j)] = m
      BY <1>1, <1>3, <1>5, <2>2, <3>1
    <3> QED BY <3>2 DEF Comes
  <2> QED BY <2>1, <2>2
<1> QED BY <1>1, <1>6, <1>8, <1>9

-----------------------------------------------------------------------------
(* The list of a cell: links C in the order of the sequence s.             *)

(* Nothing changes for the lists of the other cells.                       *)
Keeping(s, C, su, pr, t, su2, pr2) ==
  /\ \A l, m \in C : Comes(t, l, m) <=> Comes(s, l, m)
  /\ \A l \in C : su2[l] = su[l] /\ pr2[l] = pr[l]
  /\ Row(s, C, su, pr)

LEMMA RowKept ==
  ASSUME NEW s, NEW C, NEW su, NEW pr, NEW t, NEW su2, NEW pr2,
         Keeping(s, C, su, pr, t, su2, pr2)
  PROVE  /\ Row(t, C, su2, pr2)
         /\ \A l : First(s, l, C) => First(t, l, C)
         /\ \A l : Final(s, l, C) => Final(t, l, C)
<1>0. /\ \A l, m \in C : Comes(t, l, m) <=> Comes(s, l, m)
      /\ \A l \in C : su2[l] = su[l] /\ pr2[l] = pr[l]
      /\ Row(s, C, su, pr)
  BY DEF Keeping
<1> USE <1>0
<1>1. \A D \in SUBSET C : \A l : (First(s, l, D) => First(t, l, D)) /\ (Final(s, l, D) => Final(t, l, D))
  BY DEF First, Final
<1>2. \A l \in C : Behind(t, l, C) = Behind(s, l, C) /\ Ahead(t, l, C) = Ahead(s, l, C)
  BY DEF Behind, Ahead
<1>3. \A l \in C : Behind(s, l, C) \in SUBSET C /\ Ahead(s, l, C) \in SUBSET C
  BY DEF Behind, Ahead
<1>4. ASSUME NEW l \in C
      PROVE  First(t, su2[l], Behind(t, l, C)) /\ Final(t, pr2[l], Ahead(t, l, C))
  <2>1. First(s, su2[l], Behind(t, l, C)) /\ Final(s, pr2[l], Ahead(t, l, C))
    BY <1>2 DEF Row
  <2>2. Behind(t, l, C) \in SUBSET C /\ Ahead(t, l, C) \in SUBSET C
    BY <1>2, <1>3
  <2> QED BY <1>1, <2>1, <2>2
<1> QED BY <1>1, <1>4 DEF Row

(* list_add_node_end: x goes to the end of the list of C.                  *)
Adding(s, C, su, pr, root, last, x, t, su2, pr2) ==
  /\ s \in Seq(LinkNode) /\ Once(s) /\ C \in SUBSET ToSet(s) /\ x \in LinkNode \ ToSet(s)
  /\ First(s, root, C) /\ Final(s, last, C) /\ Row(s, C, su, pr)
  /\ \A l, m : Comes(t, l, m) <=> Comes(s, l, m) \/ (m = x /\ l \in ToSet(s))
  /\ \A l \in C : pr2[l] = pr[l] /\ su2[l] = IF l = last THEN x ELSE su[l]
  /\ su2[x] = NIL /\ pr2[x] = last

LEMMA RowAdded ==
  ASSUME NEW s, NEW C, NEW su, NEW pr, NEW root, NEW last, NEW x, NEW t, NEW su2, NEW pr2,
         Adding(s, C, su, pr, root, last, x, t, su2, pr2)
  PROVE  /\ Row(t, C \cup {x}, su2, pr2)
         /\ First(t, IF root = NIL THEN x ELSE root, C \cup {x})
         /\ Final(t, x, C \cup {x})
<1>0. /\ s \in Seq(LinkNode) /\ Once(s) /\ C \in SUBSET ToSet(s) /\ x \in LinkNode \ ToSet(s)
      /\ First(s, root, C) /\ Final(s, last, C) /\ Row(s, C, su, pr)
      /\ \A l, m : Comes(t, l, m) <=> Comes(s, l, m) \/ (m = x /\ l \in ToSet(s))
      /\ \A l \in C : pr2[l] = pr[l] /\ su2[l] = IF l = last THEN x ELSE su[l]
      /\ su2[x] = NIL /\ pr2[x] = last /\ NIL \notin LinkNode
  BY HashAssumption DEF Adding
<1> USE <1>0
<1> DEFINE D == C \cup {x}
<1>2. /\ \A l, m : Comes(s, l, m) => l \in ToSet(s) /\ m \in ToSet(s) /\ l # m /\ ~Comes(s, m, l)
      /\ \A l, m, n : Comes(s, l, m) /\ Comes(s, m, n) => Comes(s, l, n)
  BY Ordered
<1>3. ToSet(s) \subseteq LinkNode /\ x \notin C /\ NIL \notin C
  BY DEF ToSet
<1>4. First(t, IF root = NIL THEN x ELSE root, D)
  <2>1. CASE C = {}
    BY <2>1 DEF First
  <2>2. CASE C # {}
    <3>1. root \in C /\ root # NIL /\ \A m \in C \ {root} : Comes(s, root, m)
      BY <1>3, <2>2 DEF First
    <3>2. \A m \in D \ {root} : Comes(t, root, m)
      BY <3>1
    <3> QED BY <3>1, <3>2 DEF First
  <2> QED BY <2>1, <2>2
<1>5. Final(t, x, D)
  BY <1>3 DEF Final
<1>6. ASSUME NEW l \in C
      PROVE  First(t, su2[l], Behind(t, l, D)) /\ Final(t, pr2[l], Ahead(t, l, D))
  <2>1. Behind(t, l, D) = Behind(s, l, C) \cup {x} /\ Ahead(t, l, D) = Ahead(s, l, C)
    BY <1>2, <1>3 DEF Behind, Ahead
  <2>2. Final(t, pr2[l], Ahead(t, l, D))
    <3>1. Final(s, pr2[l], Ahead(t, l, D))
      BY <2>1 DEF Row
    <3> QED BY <3>1 DEF Final
  <2>3. last \in C /\ \A m \in C \ {last} : Comes(s, m, last)
    BY DEF Final
  <2>4. CASE l = last
    <3>1. Behind(s, l, C) = {}
      BY <1>2, <2>3, <2>4 DEF Behind
    <3>2. Behind(t, l, D) = {x} /\ su2[l] = x
      BY <2>1, <2>4, <3>1
    <3>3. First(t, x, {x})
      BY DEF First
    <3> QED BY <2>2, <3>2, <3>3
  <2>5. CASE l # last
    <3>1. last \in Behind(s, l, C)
      BY <2>3, <2>5 DEF Behind
    <3>2. First(s, su[l], Behind(s, l, C)) /\ su2[l] = su[l]
      BY <2>5 DEF Row
    <3>3. su[l] \in Behind(s, l, C) /\ \A m \in Behind(s, l, C) \ {su[l]} : Comes(s, su[l], m)
      BY <3>1, <3>2 DEF First
    <3>4. su[l] \in ToSet(s)
      BY <3>3 DEF Behind
    <3>5. \A m \in Behind(t, l, D) \ {su[l]} : Comes(t, su[l], m)
      BY <2>1, <3>3, <3>4
    <3>6. su2[l] \in Behind(t, l, D) /\ Behind(t, l, D) # {}
      BY <2>1, <3>2, <3>3
    <3>7. First(t, su2[l], Behind(t, l, D))
      BY <3>2, <3>5, <3>6 DEF First
    <3> QED BY <2>2, <3>7
  <2> QED BY <2>4, <2>5
<1>7. First(t, su2[x], Behind(t, x, D)) /\ Final(t, pr2[x], Ahead(t, x, D))
  <2>1. Behind(t, x, D) = {}
    BY <1>2, <1>3 DEF Behind
  <2>2. Ahead(t, x, D) = C
    BY <1>2, <1>3 DEF Ahead
  <2>3. Final(t, last, C)
    BY DEF Final
  <2>4. First(t, NIL, {})
    BY DEF First
  <2> QED BY <2>1, <2>2, <2>3, <2>4
<1> QED BY <1>4, <1>5, <1>6, <1>7 DEF Row

(* list_delink_node: x leaves the list of C.                               *)
Delinking(s, C, su, pr, root, last, x, t, su2, pr2) ==
  /\ s \in Seq(LinkNode) /\ Once(s) /\ C \in SUBSET ToSet(s) /\ x \in C
  /\ First(s, root, C) /\ Final(s, last, C) /\ Row(s, C, su, pr)
  /\ \A l, m : Comes(t, l, m) <=> Comes(s, l, m) /\ l # x /\ m # x
  /\ \A l \in C \ {x} : /\ su2[l] = IF l = pr[x] THEN su[x] ELSE su[l]
                        /\ pr2[l] = IF l = su[x] THEN pr[x] ELSE pr[l]

LEMMA RowDelinked ==
  ASSUME NEW s, NEW C, NEW su, NEW pr, NEW root, NEW last, NEW x, NEW t, NEW su2, NEW pr2,
         Delinking(s, C, su, pr, root, last, x, t, su2, pr2)
  PROVE  /\ Row(t, C \ {x}, su2, pr2)
         /\ First(t, IF root = x THEN su[x] ELSE root, C \ {x})
         /\ Final(t, IF last = x THEN pr[x] ELSE last, C \ {x})
<1>0. /\ s \in Seq(LinkNode) /\ Once(s) /\ C \in SUBSET ToSet(s) /\ x \in C
      /\ First(s, root, C) /\ Final(s, last, C) /\ Row(s, C, su, pr)
      /\ \A l, m : Comes(t, l, m) <=> Comes(s, l, m) /\ l # x /\ m # x
      /\ \A l \in C \ {x} : /\ su2[l] = IF l = pr[x] THEN su[x] ELSE su[l]
                            /\ pr2[l] = IF l = su[x] THEN pr[x] ELSE pr[l]
      /\ NIL \notin LinkNode
  BY HashAssumption DEF Delinking
<1> USE <1>0
<1> DEFINE D == C \ {x}
<1>1. /\ \A l, m : Comes(s, l, m) => l \in ToSet(s) /\ m \in ToSet(s) /\ l # m /\ ~Comes(s, m, l)
      /\ \A l, m, n : Comes(s, l, m) /\ Comes(s, m, n) => Comes(s, l, n)
      /\ \A l, m \in C : l # m => Comes(s, l, m) \/ Comes(s, m, l)
  BY Ordered
<1>2. NIL \notin C /\ D \subseteq C /\ x \notin D
  BY DEF ToSet
<1>3. First(s, su[x], Behind(s, x, C)) /\ Final(s, pr[x], Ahead(s, x, C))
  BY DEF Row
<1>4. \A F \in SUBSET D : \A l : (First(s, l, F) => First(t, l, F)) /\ (Final(s, l, F) => Final(t, l, F))
  BY DEF First, Final
<1>5. Behind(s, x, C) \in SUBSET D /\ Ahead(s, x, C) \in SUBSET D
  BY <1>1 DEF Behind, Ahead
<1>6. First(t, IF root = x THEN su[x] ELSE root, D)
  <2>1. root \in C /\ \A m \in C \ {root} : Comes(s, root, m)
    BY DEF First
  <2>2. CASE root = x
    <3>1. Behind(s, x, C) = D
      BY <1>1, <2>1, <2>2 DEF Behind
    <3> QED BY <1>3, <1>4, <2>2, <3>1
  <2>3. CASE root # x
    <3>1. root \in D /\ \A m \in D \ {root} : Comes(t, root, m)
      BY <2>1, <2>3
    <3> QED BY <2>3, <3>1 DEF First
  <2> QED BY <2>2, <2>3
<1>7. Final(t, IF last = x THEN pr[x] ELSE last, D)
  <2>1. last \in C /\ \A m \in C \ {last} : Comes(s, m, last)
    BY DEF Final
  <2>2. CASE last = x
    <3>1. Ahead(s, x, C) = D
      BY <1>1, <2>1, <2>2 DEF Ahead
    <3> QED BY <1>3, <1>4, <2>2, <3>1
  <2>3. CASE last # x
    <3>1. last \in D /\ \A m \in D \ {last} : Comes(t, m, last)
      BY <2>1, <2>3
    <3> QED BY <2>3, <3>1 DEF Final
  <2> QED BY <2>2, <2>3
<1>8. ASSUME NEW l \in D
      PROVE  First(t, su2[l], Behind(t, l, D))
  <2>1. Behind(t, l, D) = Behind(s, l, C) \ {x}
    BY <1>1 DEF Behind
  <2>2. First(s, su[l], Behind(s, l, C))
    BY <1>2 DEF Row
  <2>3. CASE l = pr[x]
    <3>1. Ahead(s, x, C) # {}
      BY <1>2, <1>3, <2>3 DEF Final
    <3>2. l \in Ahead(s, x, C) /\ \A m \in Ahead(s, x, C) \ {l} : Comes(s, m, l)
      BY <1>3, <2>3, <3>1 DEF Final
    <3>3. Behind(s, l, C) \ {x} = Behind(s, x, C)
      <4>1. ASSUME NEW m \in Behind(s, l, C), m # x
            PROVE  m \in Behind(s, x, C)
        BY <1>1, <3>2, <4>1 DEF Behind, Ahead
      <4>2. ASSUME NEW m \in Behind(s, x, C)
            PROVE  m \in Behind(s, l, C) /\ m # x
        BY <1>1, <3>2, <4>2 DEF Behind, Ahead
      <4> QED BY <4>1, <4>2
    <3>4. su2[l] = su[x] /\ Behind(t, l, D) = Behind(s, x, C)
      BY <2>1, <2>3, <3>3
    <3> QED BY <1>3, <1>4, <1>5, <3>4
  <2>4. CASE l # pr[x]
    <3>1. su2[l] = su[l]
      BY <2>4
    <3>2. CASE Behind(s, l, C) = {}
      <4>1. Behind(t, l, D) = {} /\ su[l] = NIL
        BY <2>1, <2>2, <3>2 DEF First
      <4> QED BY <3>1, <4>1 DEF First
    <3>3. CASE Behind(s, l, C) # {}
      <4>1. su[l] \in Behind(s, l, C) /\ \A m \in Behind(s, l, C) \ {su[l]} : Comes(s, su[l], m)
        BY <2>2, <3>3 DEF First
      <4>2. su[l] # x
        <5> SUFFICES ASSUME su[l] = x PROVE FALSE
          OBVIOUS
        <5>1. l \in Ahead(s, x, C)
          BY <1>2, <4>1 DEF Ahead, Behind
        <5>2. pr[x] \in Ahead(s, x, C) /\ Comes(s, l, pr[x])
          BY <1>3, <2>4, <5>1 DEF Final
        <5>3. pr[x] \in C /\ Comes(s, pr[x], x)
          BY <5>2 DEF Ahead
        <5>4. pr[x] \in Behind(s, l, C) \ {x}
          BY <1>1, <5>2, <5>3 DEF Behind
        <5>5. Comes(s, x, pr[x])
          BY <4>1, <5>4
        <5> QED BY <1>1, <5>3, <5>5
      <4>3. su[l] \in Behind(t, l, D)
        BY <2>1, <4>1, <4>2
      <4>4. \A m \in Behind(t, l, D) \ {su[l]} : Comes(t, su[l], m)
        BY <2>1, <4>1, <4>2
      <4> QED BY <3>1, <4>3, <4>4 DEF First
    <3> QED BY <3>2, <3>3
  <2> QED BY <2>3, <2>4
<1>9. ASSUME NEW l \in D
      PROVE  Final(t, pr2[l], Ahead(t, l, D))
  <2>1. Ahead(t, l, D) = Ahead(s, l, C) \ {x}
    BY <1>1 DEF Ahead
  <2>2. Final(s, pr[l], Ahead(s, l, C))
    BY <1>2 DEF Row
  <2>3. CASE l = su[x]
    <3>1. Behind(s, x, C) # {}
      BY <1>2, <1>3, <2>3 DEF First
    <3>2. l \in Behind(s, x, C) /\ \A m \in Behind(s, x, C) \ {l} : Comes(s, l, m)
      BY <1>3, <2>3, <3>1 DEF First
    <3>3. Ahead(s, l, C) \ {x} = Ahead(s, x, C)
      <4>1. ASSUME NEW m \in Ahead(s, l, C), m # x
            PROVE  m \in Ahead(s, x, C)
        BY <1>1, <3>2, <4>1 DEF Behind, Ahead
      <4>2. ASSUME NEW m \in Ahead(s, x, C)
            PROVE  m \in Ahead(s, l, C) /\ m # x
        BY <1>1, <3>2, <4>2 DEF Behind, Ahead
      <4> QED BY <4>1, <4>2
    <3>4. pr2[l] = pr[x] /\ Ahead(t, l, D) = Ahead(s, x, C)
      BY <2>1, <2>3, <3>3
    <3> QED BY <1>3, <1>4, <1>5, <3>4
  <2>4. CASE l # su[x]
    <3>1. pr2[l] = pr[l]
      BY <2>4
    <3>2. CASE Ahead(s, l, C) = {}
      <4>1. Ahead(t, l, D) = {} /\ pr[l] = NIL
        BY <2>1, <2>2, <3>2 DEF Final
      <4> QED BY <3>1, <4>1 DEF Final
    <3>3. CASE Ahead(s, l, C) # {}
      <4>1. pr[l] \in Ahead(s, l, C) /\ \A m \in Ahead(s, l, C) \ {pr[l]} : Comes(s, m, pr[l])
        BY <2>2, <3>3 DEF Final
      <4>2. pr[l] # x
        <5> SUFFICES ASSUME pr[l] = x PROVE FALSE
          OBVIOUS
        <5>1. l \in Behind(s, x, C)
          BY <1>2, <4>1 DEF Ahead, Behind
        <5>2. su[x] \in Behind(s, x, C) /\ Comes(s, su[x], l)
          BY <1>3, <2>4, <5>1 DEF First
        <5>3. su[x] \in C /\ Comes(s, x, su[x])
          BY <5>2 DEF Behind
        <5>4. su[x] \in Ahead(s, l, C) \ {x}
          BY <1>1, <5>2, <5>3 DEF Ahead
        <5>5. Comes(s, su[x], x)
          BY <4>1, <5>4
        <5> QED BY <1>1, <5>3, <5>5
      <4>3. pr[l] \in Ahead(t, l, D)
        BY <2>1, <4>1, <4>2
      <4>4. \A m \in Ahead(t, l, D) \ {pr[l]} : Comes(t, m, pr[l])
        BY <2>1, <4>1, <4>2
      <4> QED BY <3>1, <4>3, <4>4 DEF Final
    <3> QED BY <3>2, <3>3
  <2> QED BY <2>3, <2>4
<1> QED BY <1>6, <1>7, <1>8, <1>9 DEF Row

-----------------------------------------------------------------------------
(* Each step of PdbHash preserves HashInv.                                 *)

LEMMA RequestIs ==
  ASSUME request \in Requests \cup {NoRequest}
  PROVE  /\ request.op \in {"none", "add", "remove", "get", "count", "write", "free"}
         /\ request.op = "none" <=> request = NoRequest
         /\ request.op \in {"add", "remove"} => request.id \in Id /\ request.kid \in Kid
         /\ request.op = "get" => request.id \in Id
BY DEF Requests, NoRequest

LEMMA CellIs ==
  ASSUME Shape, kind # "none", NEW i \in Id
  PROVE  CellOf(i) \in 1 .. size
<1>1. size \in Nat /\ size > 0 /\ Key[i] \in Nat
  BY HashAssumption DEF Shape
<1>2. (Key[i] % size) + 1 \in 1 .. size
  BY <1>1
<1>3. kind = "list" => 1 \in 1 .. size
  BY <1>1
<1> QED BY <1>2, <1>3 DEF CellOf

LEMMA LinkIs ==
  ASSUME Shape, NEW l \in Links
  PROVE  /\ l \in LinkNode /\ l # NIL /\ held[l] \in Entry /\ held[l] # NIL
         /\ held[l].id \in Id /\ held[l].kid \in Kid
         /\ kind # "none" => Where(l) \in 1 .. size
<1>1. l \in LinkNode /\ l # NIL /\ held[l] # NIL
  BY HashAssumption DEF Shape
<1>2. held[l] \in Entry
  BY <1>1 DEF Shape
<1> QED BY <1>1, <1>2, CellIs DEF Entry, Where

LEMMA HashInitInv == HashInit => HashInv
<1> SUFFICES ASSUME HashInit PROVE HashInv
  OBVIOUS
<1>1. Links = {} /\ ages \in Seq(LinkNode) /\ Once(ages)
  BY DEF HashInit, Links, ToSet, Once
<1>2. Shape
  BY <1>1 DEF HashInit, Shape, Clean
<1>3. Rows /\ Clear /\ Kids
  BY <1>1 DEF HashInit, Rows, Clear, Kids, Clean
<1>4. Calling /\ Asked /\ Searched /\ Visited
  BY <1>1 DEF HashInit, Calling, Asked, Searched, Visited, NoRequest, ByName, OverAll
<1> QED BY <1>2, <1>3, <1>4 DEF HashInv

(* What a step that leaves the container alone keeps.                      *)
LEMMA Still ==
  ASSUME HashInv, UNCHANGED container
  PROVE  /\ UNCHANGED <<kind, size, tbl, succ, pred, held, ages>>
         /\ Shape' /\ Rows' /\ Clear' /\ Kids'
         /\ Links' = Links /\ \A c : Chain(c)' = Chain(c)
         /\ \A i : CellOf(i)' = CellOf(i)
         /\ \A l : Where(l)' = Where(l)
<1>1. UNCHANGED <<kind, size, tbl, succ, pred, held, ages>>
  BY DEF container
<1>2. Links' = Links /\ \A i : CellOf(i)' = CellOf(i)
  BY <1>1 DEF Links, CellOf
<1>3. \A c : Chain(c)' = Chain(c)
  BY <1>1, <1>2 DEF Chain
<1>4. \A l : Where(l)' = Where(l)
  BY <1>1, <1>2 DEF Where
<1>5. Shape' /\ Clear' /\ Kids'
  BY <1>1, <1>2 DEF HashInv, Shape, Clear, Kids
<1>6. Rows'
  BY <1>1, <1>3 DEF HashInv, Rows, Root
<1> QED BY <1>1, <1>2, <1>3, <1>4, <1>5, <1>6

LEMMA AnswerStep ==
  ASSUME HashInv, UNCHANGED container, NEW v, Reply(v)
  PROVE  HashInv'
<1>1. /\ UNCHANGED <<kind, size, tbl, succ, pred, held, ages>>
      /\ Shape' /\ Rows' /\ Clear' /\ Kids' /\ Links' = Links
  BY Still
<1>2. request' = NoRequest /\ cell' = 0 /\ lnptr' = NIL /\ out' = << >>
  BY DEF Reply
<1>3. Calling' /\ Asked' /\ Searched' /\ Visited'
  BY <1>1, <1>2 DEF HashInv, Calling, Asked, Searched, Visited, NoRequest, ByName, OverAll
<1> QED BY <1>1, <1>3 DEF HashInv

LEMMA CreateStep ==
  ASSUME HashInv, NEW k \in {"hash", "list"}, NEW n \in Sizes, Create(k, n)
  PROVE  HashInv'
<1>1. /\ kind = "none" /\ request = NoRequest /\ kind' = k
      /\ size' = IF k = "list" \/ n = 0 THEN 1 ELSE n
      /\ tbl' = [c \in 1 .. size' |-> IF k = "list" THEN Empty ELSE NIL]
      /\ UNCHANGED <<succ, pred, held, ages, request, cell, lnptr, out, reply>>
  BY DEF Create
<1>2. ages = << >> /\ Links = {} /\ Links' = {}
  BY <1>1 DEF HashInv, Calling, Links, ToSet
<1>3. size' \in Nat /\ size' > 0 /\ Empty \in Ends
  BY <1>1, HashAssumption DEF Empty, Ends
<1>4. tbl' \in [1 .. size' -> Ends \cup {NIL}]
  BY <1>1, <1>3
<1>5. Shape'
  BY <1>1, <1>2, <1>3, <1>4 DEF HashInv, Shape
<1>6. \A c : Chain(c)' = {}
  BY <1>2 DEF Chain
<1>7. Rows'
  <2> SUFFICES ASSUME NEW c \in 1 .. size'
               PROVE  /\ First(ages, Root(c), Chain(c))' /\ Row(ages, Chain(c), succ, pred)'
                      /\ (tbl[c] # NIL => Final(ages, tbl[c].last, Chain(c)))'
    BY DEF Rows
  <2>1. tbl'[c] = IF k = "list" THEN Empty ELSE NIL
    BY <1>1
  <2>2. Root(c)' = NIL /\ (tbl'[c] # NIL => tbl'[c].last = NIL)
    BY <2>1 DEF Root, Empty
  <2> QED BY <1>6, <2>2 DEF First, Final, Row
<1>8. Clear' /\ Kids'
  BY <1>1, <1>2 DEF HashInv, Clear, Kids
<1>9. Calling' /\ Asked' /\ Searched' /\ Visited'
  BY <1>1, <1>2 DEF HashInv, Calling, Asked, Searched, Visited, NoRequest, ByName, OverAll
<1> QED BY <1>5, <1>7, <1>8, <1>9 DEF HashInv

(* Where a loop begins in a cell, and where it goes from a link of it.     *)
LEMMA AtRoot ==
  ASSUME HashInv, kind # "none", NEW c \in 1 .. size
  PROVE  /\ Root(c) # NIL => Root(c) \in Chain(c)
         /\ \A l \in Chain(c) : /\ Root(c) # NIL /\ (l = Root(c) \/ Comes(ages, Root(c), l))
                                /\ ~Comes(ages, l, Root(c))
<1>1. First(ages, Root(c), Chain(c))
  BY DEF HashInv, Rows
<1>2. ages \in Seq(LinkNode) /\ Once(ages)
  BY DEF HashInv, Shape
<1>3. \A l, m : Comes(ages, l, m) => l # m /\ ~Comes(ages, m, l)
  BY <1>2, Ordered
<1>4. \A l \in Chain(c) : l # NIL
  BY LinkIs DEF Chain, HashInv
<1> QED BY <1>1, <1>3, <1>4 DEF First

LEMMA Onward ==
  ASSUME HashInv, kind # "none", cell \in 1 .. size, lnptr \in Chain(cell)
  PROVE  /\ succ[lnptr] # NIL => succ[lnptr] \in Chain(cell) /\ Comes(ages, lnptr, succ[lnptr])
         /\ \A m \in Chain(cell) : Comes(ages, lnptr, m) =>
              succ[lnptr] # NIL /\ (m = succ[lnptr] \/ Comes(ages, succ[lnptr], m))
<1>1. First(ages, succ[lnptr], Behind(ages, lnptr, Chain(cell)))
  BY DEF HashInv, Rows, Row
<1>2. \A l \in Chain(cell) : l # NIL
  BY LinkIs DEF Chain, HashInv
<1> QED BY <1>1, <1>2 DEF First, Behind

LEMMA InOrder ==
  ASSUME HashInv
  PROVE  /\ \A l, m : Comes(ages, l, m) => l # m /\ ~Comes(ages, m, l)
         /\ \A l, m, n : Comes(ages, l, m) /\ Comes(ages, m, n) => Comes(ages, l, n)
         /\ \A l, m \in Links : l # m => Comes(ages, l, m) \/ Comes(ages, m, l)
<1>1. ages \in Seq(LinkNode) /\ Once(ages)
  BY DEF HashInv, Shape
<1> QED BY <1>1, Ordered DEF Links

LEMMA AskStep ==
  ASSUME HashInv, NEW c \in Requests, Ask(c)
  PROVE  HashInv'
<1>1. /\ kind # "none" /\ request = NoRequest /\ Fits(c) /\ request' = c
      /\ cell' = IF OverAll(c) THEN 1 ELSE CellOf(c.id)
      /\ lnptr' = IF ByName(c) \/ OverAll(c) THEN Root(cell') ELSE NIL
      /\ UNCHANGED container /\ out' = out
  BY DEF Ask
<1>2. /\ UNCHANGED <<kind, size, tbl, succ, pred, held, ages>>
      /\ Shape' /\ Rows' /\ Clear' /\ Kids'
      /\ Links' = Links /\ \A d : Chain(d)' = Chain(d)
      /\ \A i : CellOf(i)' = CellOf(i)
      /\ \A l : Where(l)' = Where(l)
  BY <1>1, Still
<1>3. /\ c.op \in {"add", "remove", "get", "count", "write", "free"} /\ c # NoRequest
      /\ c.op \in {"add", "remove"} => c.id \in Id /\ c.kid \in Kid
      /\ c.op = "get" => c.id \in Id
  BY DEF Requests, NoRequest
<1>4. size \in Nat /\ size > 0 /\ out = << >>
  BY <1>1 DEF HashInv, Shape, Calling
<1>5. cell' \in 1 .. size
  <2>1. CASE OverAll(c)
    BY <1>1, <1>4, <2>1
  <2>2. CASE ~OverAll(c)
    <3>1. c.id \in Id /\ cell' = CellOf(c.id)
      BY <1>1, <1>3, <2>2 DEF OverAll
    <3> QED BY <1>1, <3>1, CellIs DEF HashInv
  <2> QED BY <2>1, <2>2
<1>6. PICK d \in 1 .. size : d = cell'
  BY <1>5
<1>7. /\ Root(d) # NIL => Root(d) \in Chain(d)
      /\ \A l \in Chain(d) : /\ Root(d) # NIL /\ (l = Root(d) \/ Comes(ages, Root(d), l))
                             /\ ~Comes(ages, l, Root(d))
  BY <1>1, AtRoot
<1>8. lnptr' = IF ByName(c) \/ OverAll(c) THEN Root(d) ELSE NIL
  BY <1>1, <1>6
<1>9. Calling'
  <2>1. lnptr' # NIL => lnptr' \in Chain(d)
    BY <1>7, <1>8
  <2>2. (lnptr # NIL => lnptr \in Chain(cell))'
    BY <1>2, <1>6, <2>1
  <2>3. c.op \in {"add", "get", "remove"} => cell' = CellOf(c.id)
    BY <1>1 DEF OverAll
  <2>4. c.op = "add" => lnptr' = NIL
    BY <1>1 DEF OverAll, ByName
  <2> QED BY <1>1, <1>2, <1>3, <1>4, <1>5, <2>2, <2>3, <2>4 DEF HashInv, Calling
<1>10. Asked'
  <2>0. DOMAIN ages \subseteq Nat /\ DOMAIN ages = 1 .. Len(ages)
    BY DEF HashInv, Shape
  <2>1. ASSUME c.op = "add", NEW l \in Links
        PROVE  held[l].kid # c.kid
    <3>1. PICK k \in DOMAIN ages : l = ages[k]
      BY DEF Links, ToSet
    <3>2. k \in DOMAIN Stored /\ Stored[k] = held[l]
      BY <3>1 DEF Stored
    <3>3. c.kid \in Unused
      BY <1>1, <2>1 DEF Fits
    <3> QED BY <3>2, <3>3 DEF Unused
  <2>2. ASSUME c.op = "remove"
        PROVE  \E l \in Links : /\ held[l].id = c.id /\ held[l].kid = c.kid
                                /\ \A m \in Links \ {l} : held[m].id = c.id => Comes(ages, l, m)
    <3>1. PICK k \in DOMAIN Stored : /\ Stored[k] = [id |-> c.id, kid |-> c.kid]
                                     /\ \A j \in 1 .. k - 1 : Stored[j].id # c.id
      BY <1>1, <2>2 DEF Fits
    <3>2. DOMAIN Stored = DOMAIN ages /\ \A j \in DOMAIN ages : Stored[j] = held[ages[j]]
      BY DEF Stored
    <3>3. ages[k] \in Links /\ held[ages[k]].id = c.id /\ held[ages[k]].kid = c.kid
      BY <3>1, <3>2 DEF Links, ToSet
    <3>4. ASSUME NEW m \in Links \ {ages[k]}, held[m].id = c.id
          PROVE  Comes(ages, ages[k], m)
      <4>1. PICK j \in DOMAIN ages : m = ages[j]
        BY DEF Links, ToSet
      <4>2. j # k /\ j \notin 1 .. k - 1
        BY <3>1, <3>2, <3>4, <4>1
      <4>3. k < j
        BY <2>0, <3>2, <4>2
      <4> QED BY <3>2, <4>1, <4>3 DEF Comes
    <3> QED BY <3>3, <3>4
  <2> QED BY <1>1, <1>2, <2>1, <2>2 DEF Asked
<1>11. Searched'
  <2>1. ByName(c) => \A m \in Chain(d) : lnptr' # NIL /\ (m = lnptr' \/ Comes(ages, lnptr', m))
    BY <1>7, <1>8
  <2> QED BY <1>1, <1>2, <1>6, <2>1 DEF Searched
<1>12. Visited'
  <2> SUFFICES ASSUME OverAll(c)
               PROVE  \E at \in [DOMAIN out' -> Links'] : Visits(at)'
    BY <1>1 DEF Visited
  <2>1. DOMAIN out' = {} /\ cell' = 1 /\ d = 1 /\ lnptr' = Root(d)
    BY <1>1, <1>4, <1>6, <1>8
  <2>2. ASSUME NEW l \in Links
        PROVE  ~ Past(l)'
    <3>1. Where(l) \in 1 .. size
      BY <1>1, LinkIs DEF HashInv
    <3>2. Where(l) = 1 => l \in Chain(d)
      BY <2>1 DEF Chain, Where
    <3>3. Where(l) = 1 => lnptr' # NIL /\ ~Comes(ages, l, lnptr')
      BY <1>7, <2>1, <3>2
    <3> QED BY <1>2, <2>1, <3>1, <3>3 DEF Past
  <2>3. PICK at : at = [j \in DOMAIN out' |-> NIL]
    OBVIOUS
  <2>4. at \in [DOMAIN out' -> Links']
    BY <2>1, <2>3
  <2>5. Visits(at)'
    BY <1>2, <2>1, <2>2 DEF Visits
  <2> QED BY <2>4, <2>5
<1> QED BY <1>2, <1>9, <1>10, <1>11, <1>12 DEF HashInv

LEMMA PassStep ==
  ASSUME HashInv, Pass
  PROVE  HashInv'
<1>1. /\ ByName(request) /\ lnptr # NIL /\ ~Sought /\ ~ByChild
      /\ lnptr' = succ[lnptr] /\ UNCHANGED container /\ request' = request
      /\ cell' = cell /\ out' = out
  BY DEF Pass
<1>2. /\ UNCHANGED <<kind, size, tbl, succ, pred, held, ages>>
      /\ Shape' /\ Rows' /\ Clear' /\ Kids'
      /\ Links' = Links /\ \A d : Chain(d)' = Chain(d)
      /\ \A i : CellOf(i)' = CellOf(i)
  BY <1>1, Still
<1>3. request # NoRequest /\ kind # "none" /\ cell \in 1 .. size /\ lnptr \in Chain(cell)
  BY <1>1 DEF HashInv, Calling, ByName, NoRequest
<1>4. /\ succ[lnptr] # NIL => succ[lnptr] \in Chain(cell)
      /\ \A m \in Chain(cell) : Comes(ages, lnptr, m) =>
           succ[lnptr] # NIL /\ (m = succ[lnptr] \/ Comes(ages, succ[lnptr], m))
  BY <1>3, Onward
<1>5. Calling'
  <2>1. request.op # "add"
    BY <1>1 DEF ByName
  <2>2. (lnptr # NIL => lnptr \in Chain(cell))'
    BY <1>1, <1>2, <1>4
  <2> QED BY <1>1, <1>2, <1>3, <2>1, <2>2 DEF HashInv, Calling
<1>6. Asked'
  BY <1>1, <1>2 DEF HashInv, Asked
<1>7. Searched'
  <2>1. held[lnptr].id # request.id
    BY <1>1 DEF Sought
  <2>2. \A m \in Chain(cell) : held[m].id = request.id => Comes(ages, lnptr, m)
    BY <1>1, <2>1 DEF HashInv, Searched
  <2> QED BY <1>1, <1>2, <1>4, <2>2 DEF Searched
<1>8. Visited'
  BY <1>1 DEF Visited, ByName, OverAll
<1> QED BY <1>2, <1>5, <1>6, <1>7, <1>8 DEF HashInv

LEMMA NextCellStep ==
  ASSUME HashInv, NextCell
  PROVE  HashInv'
<1>1. /\ OverAll(request) /\ lnptr = NIL /\ cell < size
      /\ cell' = cell + 1 /\ lnptr' = Root(cell + 1)
      /\ UNCHANGED container /\ request' = request /\ out' = out
  BY DEF NextCell, MoreCells
<1>2. /\ UNCHANGED <<kind, size, tbl, succ, pred, held, ages>>
      /\ Shape' /\ Rows' /\ Clear' /\ Kids'
      /\ Links' = Links /\ \A d : Chain(d)' = Chain(d)
      /\ \A i : CellOf(i)' = CellOf(i)
      /\ \A l : Where(l)' = Where(l)
  BY <1>1, Still
<1>3. request # NoRequest /\ kind # "none" /\ request.op \notin {"add", "get", "remove"}
  BY <1>1 DEF HashInv, Calling, OverAll, NoRequest
<1>4. cell + 1 \in 1 .. size /\ cell \in 1 .. size /\ size \in Nat
  BY <1>1, <1>3 DEF HashInv, Calling, Shape
<1>5. PICK d \in 1 .. size : d = cell + 1
  BY <1>4
<1>6. /\ Root(d) # NIL => Root(d) \in Chain(d)
      /\ \A l \in Chain(d) : Root(d) # NIL /\ ~Comes(ages, l, Root(d))
  BY <1>3, AtRoot
<1>7. Calling'
  <2>1. (lnptr # NIL => lnptr \in Chain(cell))'
    BY <1>1, <1>2, <1>5, <1>6
  <2> QED BY <1>1, <1>2, <1>3, <1>4, <2>1 DEF HashInv, Calling
<1>8. Asked' /\ Searched'
  BY <1>1, <1>3 DEF Asked, Searched, ByName
<1>9. ASSUME NEW l \in Links
      PROVE  Past(l)' <=> Past(l)
  <2>1. Where(l) \in 1 .. size
    BY <1>3, LinkIs DEF HashInv
  <2>2. Where(l) = d => l \in Chain(d)
    BY DEF Chain, Where
  <2>3. Where(l) = d => lnptr' # NIL /\ ~Comes(ages, l, lnptr')
    BY <1>1, <1>5, <1>6, <2>2
  <2>4. Past(l)' <=> Where(l) < cell + 1
    BY <1>1, <1>2, <1>4, <1>5, <2>1, <2>3 DEF Past
  <2>5. Past(l) <=> Where(l) < cell + 1
    BY <1>1, <1>4, <2>1 DEF Past
  <2> QED BY <2>4, <2>5
<1>10. Visited'
  <2>1. PICK at \in [DOMAIN out -> Links] : Visits(at)
    BY <1>1 DEF HashInv, Visited
  <2>2. \A i, j \in DOMAIN out : Before(at[i], at[j])' <=> Before(at[i], at[j])
    BY <1>2 DEF Before
  <2>3. Visits(at)'
    BY <1>1, <1>2, <1>9, <2>1, <2>2 DEF Visits
  <2> QED BY <1>1, <1>2, <2>1, <2>3 DEF Visited
<1> QED BY <1>2, <1>7, <1>8, <1>10 DEF HashInv

LEMMA VisitStep ==
  ASSUME HashInv, Visit
  PROVE  HashInv'
<1>1. /\ OverAll(request) /\ lnptr # NIL
      /\ out' = Append(out, held[lnptr]) /\ lnptr' = succ[lnptr]
      /\ UNCHANGED container /\ request' = request /\ cell' = cell
  BY DEF Visit
<1>2. /\ UNCHANGED <<kind, size, tbl, succ, pred, held, ages>>
      /\ Shape' /\ Rows' /\ Clear' /\ Kids'
      /\ Links' = Links /\ \A d : Chain(d)' = Chain(d)
      /\ \A i : CellOf(i)' = CellOf(i)
      /\ \A l : Where(l)' = Where(l)
  BY <1>1, Still
<1>3. /\ request # NoRequest /\ kind # "none" /\ request.op \notin {"add", "get", "remove"}
      /\ cell \in 1 .. size /\ lnptr \in Chain(cell)
  BY <1>1 DEF HashInv, Calling, OverAll, NoRequest
<1>4. /\ succ[lnptr] # NIL => succ[lnptr] \in Chain(cell) /\ Comes(ages, lnptr, succ[lnptr])
      /\ \A m \in Chain(cell) : Comes(ages, lnptr, m) =>
           succ[lnptr] # NIL /\ (m = succ[lnptr] \/ Comes(ages, succ[lnptr], m))
  BY <1>3, Onward
<1>5. lnptr \in Links /\ Where(lnptr) = cell /\ held[lnptr] \in Entry
  <2>1. lnptr \in Links /\ Where(lnptr) = cell
    BY <1>3 DEF Chain, Where
  <2> QED BY <2>1, LinkIs DEF HashInv
<1>6. /\ out \in Seq(Entry) /\ out' \in Seq(Entry) /\ DOMAIN out = 1 .. Len(out) /\ Len(out) \in Nat
      /\ DOMAIN out' = 1 .. Len(out) + 1 /\ out'[Len(out) + 1] = held[lnptr]
      /\ \A j \in 1 .. Len(out) : out'[j] = out[j]
  <2>1. out \in Seq(Entry)
    BY DEF HashInv, Calling
  <2> QED BY <1>1, <1>5, <2>1
<1>7. /\ \A l, m : Comes(ages, l, m) => l # m /\ ~Comes(ages, m, l)
      /\ \A l, m, n : Comes(ages, l, m) /\ Comes(ages, m, n) => Comes(ages, l, n)
      /\ \A l, m \in Links : l # m => Comes(ages, l, m) \/ Comes(ages, m, l)
  BY InOrder
<1>8. Calling'
  <2>1. (lnptr # NIL => lnptr \in Chain(cell))'
    BY <1>1, <1>2, <1>4
  <2> QED BY <1>1, <1>2, <1>3, <1>6, <2>1 DEF HashInv, Calling
<1>9. Asked' /\ Searched'
  BY <1>1, <1>3 DEF Asked, Searched, ByName
<1>10. ASSUME NEW l \in Links
       PROVE  Past(l)' <=> Past(l) \/ l = lnptr
  <2>1. Where(l) = cell => l \in Chain(cell)
    BY DEF Chain, Where
  <2>2. ASSUME Where(l) = cell
        PROVE  lnptr' = NIL \/ Comes(ages, l, lnptr') <=> Comes(ages, l, lnptr) \/ l = lnptr
    <3>1. CASE lnptr' = NIL
      <4>1. ~Comes(ages, lnptr, l)
        BY <1>1, <1>4, <2>1, <2>2, <3>1
      <4> QED BY <1>5, <1>7, <3>1, <4>1
    <3>2. CASE lnptr' # NIL
      <4>1. Comes(ages, lnptr, lnptr')
        BY <1>1, <1>4, <3>2
      <4>2. ASSUME Comes(ages, l, lnptr')
            PROVE  Comes(ages, l, lnptr) \/ l = lnptr
        <5>1. ~Comes(ages, lnptr, l)
          BY <1>1, <1>4, <1>7, <2>1, <2>2, <4>2
        <5> QED BY <1>5, <1>7, <5>1
      <4>3. Comes(ages, l, lnptr) => Comes(ages, l, lnptr')
        BY <1>7, <4>1
      <4> QED BY <3>2, <4>1, <4>2, <4>3
    <3> QED BY <3>1, <3>2
  <2>3. Past(l)' <=> Where(l) < cell \/ (Where(l) = cell /\ (lnptr' = NIL \/ Comes(ages, l, lnptr')))
    BY <1>1, <1>2 DEF Past
  <2>4. l = lnptr => Where(l) = cell
    BY <1>5
  <2> QED BY <1>1, <2>2, <2>3, <2>4 DEF Past
<1>11. Visited'
  <2>1. PICK at \in [DOMAIN out -> Links] : Visits(at)
    BY <1>1 DEF HashInv, Visited
  <2>2. PICK to : to = [j \in 1 .. Len(out) + 1 |-> IF j \in DOMAIN out THEN at[j] ELSE lnptr]
    OBVIOUS
  <2>3. /\ \A j \in 1 .. Len(out) : to[j] = at[j] /\ at[j] \in Links
        /\ to[Len(out) + 1] = lnptr
    BY <1>6, <2>2
  <2>4. to \in [DOMAIN out' -> Links']
    BY <1>2, <1>5, <1>6, <2>2
  <2>5. ASSUME NEW j \in DOMAIN out'
        PROVE  out'[j] = held[to[j]] /\ Past(to[j])'
    <3>1. CASE j \in DOMAIN out
      <4>1. to[j] \in Links /\ to[j] = at[j] /\ out'[j] = out[j]
        BY <1>6, <2>3, <3>1
      <4>2. out[j] = held[at[j]] /\ Past(at[j])
        BY <2>1, <3>1 DEF Visits
      <4>3. \A l \in Links : Past(l) => Past(l)'
        BY <1>10
      <4> QED BY <4>1, <4>2, <4>3
    <3>2. CASE j = Len(out) + 1
      <4>1. to[j] = lnptr /\ out'[j] = held[lnptr]
        BY <1>6, <2>3, <3>2
      <4>2. \A l \in Links : l = lnptr => Past(l)'
        BY <1>10
      <4> QED BY <1>5, <4>1, <4>2
    <3> QED BY <1>6, <3>1, <3>2
  <2>6. ASSUME NEW l \in Links, Past(l)'
        PROVE  \E j \in DOMAIN out' : to[j] = l
    <3>1. CASE l = lnptr
      BY <1>6, <2>3, <3>1
    <3>2. CASE Past(l)
      <4>1. PICK j \in DOMAIN out : at[j] = l
        BY <2>1, <3>2 DEF Visits
      <4> QED BY <1>6, <2>3, <4>1
    <3> QED BY <1>10, <2>6, <3>1, <3>2
  <2>7. ASSUME NEW i \in DOMAIN out', NEW j \in DOMAIN out', i < j
        PROVE  Before(to[i], to[j])
    <3>1. i \in DOMAIN out /\ to[i] = at[i]
      BY <1>6, <2>3, <2>7
    <3>2. CASE j \in DOMAIN out
      <4>1. Before(at[i], at[j]) /\ to[j] = at[j]
        BY <1>6, <2>1, <2>3, <2>7, <3>1, <3>2 DEF Visits
      <4> QED BY <3>1, <4>1
    <3>3. CASE j = Len(out) + 1
      <4>1. Past(at[i])
        BY <2>1, <3>1 DEF Visits
      <4>2. to[j] = lnptr
        BY <2>3, <3>3
      <4> QED BY <1>1, <1>5, <3>1, <4>1, <4>2 DEF Past, Before
    <3> QED BY <1>6, <3>2, <3>3
  <2>8. ASSUME kind = "list", NEW j \in DOMAIN out'
        PROVE  j \in DOMAIN ages /\ to[j] = ages[j]
    <3>0. \A i \in DOMAIN out : i \in DOMAIN ages /\ at[i] = ages[i]
      BY <2>1, <2>8 DEF Visits
    <3>1. CASE j \in DOMAIN out
      BY <1>6, <2>3, <3>0, <3>1
    <3>2. CASE j = Len(out) + 1
      <4>1. DOMAIN ages = 1 .. Len(ages) /\ Len(ages) \in Nat /\ Once(ages)
        BY DEF HashInv, Shape
      <4>2. PICK p \in DOMAIN ages : ages[p] = lnptr
        BY <1>5 DEF Links, ToSet
      <4>3. ~Past(lnptr)
        BY <1>1, <1>3, <1>5, <1>7 DEF Past
      <4>4. p \notin DOMAIN out
        <5> SUFFICES ASSUME p \in DOMAIN out PROVE FALSE
          OBVIOUS
        <5>1. at[p] = lnptr /\ Past(at[p])
          BY <2>1, <3>0, <4>2 DEF Visits
        <5> QED BY <4>3, <5>1
      <4>5. j <= p /\ j \in DOMAIN ages
        BY <1>6, <3>2, <4>1, <4>4
      <4>6. ~ (j < p)
        <5> SUFFICES ASSUME j < p PROVE FALSE
          OBVIOUS
        <5>1. Comes(ages, ages[j], lnptr) /\ ages[j] \in Links
          BY <4>2, <4>5 DEF Comes, Links, ToSet
        <5>2. Where(ages[j]) = cell
          <6>1. \A i : CellOf(i) = 1
            BY <2>8 DEF CellOf
          <6> QED BY <1>5, <6>1 DEF Where
        <5>3. Past(ages[j])
          BY <5>1, <5>2 DEF Past
        <5>4. PICK i \in DOMAIN out : at[i] = ages[j]
          BY <2>1, <5>1, <5>3 DEF Visits
        <5>5. i = j
          BY <3>0, <4>1, <4>5, <5>4 DEF Once
        <5> QED BY <1>6, <3>2, <5>5
      <4>7. j = p
        BY <4>1, <4>5, <4>6
      <4> QED BY <2>3, <3>2, <4>2, <4>7
    <3> QED BY <1>6, <3>1, <3>2
  <2>9. Visits(to)'
    <3>1. \A i, j \in DOMAIN out' : Before(to[i], to[j])' <=> Before(to[i], to[j])
      BY <1>2 DEF Before
    <3> QED BY <1>2, <2>5, <2>6, <2>7, <2>8, <3>1 DEF Visits
  <2> QED BY <2>4, <2>9 DEF Visited
<1> QED BY <1>2, <1>8, <1>9, <1>11 DEF HashInv

LEMMA FreedStep ==
  ASSUME HashInv, Freed
  PROVE  HashInv'
<1>1. /\ request' = NoRequest /\ cell' = 0 /\ lnptr' = NIL /\ out' = << >>
      /\ kind' = "none" /\ size' = 0 /\ tbl' = << >>
      /\ succ' = Clean /\ pred' = Clean /\ held' = Clean /\ ages' = << >>
  BY DEF Freed, Reply
<1>2. Links' = {} /\ ages' \in Seq(LinkNode) /\ Once(ages)'
  BY <1>1 DEF Links, ToSet, Once
<1>3. Shape'
  BY <1>1, <1>2 DEF Shape, Clean
<1>4. Rows' /\ Clear' /\ Kids'
  BY <1>1, <1>2 DEF Rows, Clear, Kids, Clean
<1>5. Calling' /\ Asked' /\ Searched' /\ Visited'
  BY <1>1, <1>2 DEF Calling, Asked, Searched, Visited, NoRequest, ByName, OverAll
<1> QED BY <1>3, <1>4, <1>5 DEF HashInv

LEMMA AddStep ==
  ASSUME HashInv, NEW l \in LinkNode, Add(l)
  PROVE  HashInv'
<1> DEFINE at == IF tbl[cell] = NIL THEN Empty ELSE tbl[cell]
           e == [id |-> request.id, kid |-> request.kid]
<1>1. /\ request.op = "add" /\ held[l] = NIL
      /\ tbl' = [tbl EXCEPT ![cell] = [root |-> IF at.root = NIL THEN l ELSE at.root, last |-> l]]
      /\ succ' = [k \in LinkNode |-> IF at.root # NIL /\ k = at.last THEN l ELSE succ[k]]
      /\ pred' = [pred EXCEPT ![l] = at.last]
      /\ held' = [held EXCEPT ![l] = e] /\ ages' = Append(ages, l)
      /\ kind' = kind /\ size' = size
  BY DEF Add, Doing
<1>2. request' = NoRequest /\ cell' = 0 /\ lnptr' = NIL /\ out' = << >>
  BY DEF Add, Reply
<1>3. /\ request.id \in Id /\ request.kid \in Kid /\ kind # "none"
      /\ cell \in 1 .. size /\ cell = CellOf(request.id)
  BY <1>1, RequestIs DEF HashInv, Calling, NoRequest
<1>4. /\ ages \in Seq(LinkNode) /\ Once(ages) /\ size \in Nat
      /\ tbl \in [1 .. size -> Ends \cup {NIL}]
      /\ succ \in [LinkNode -> LinkNode \cup {NIL}] /\ pred \in [LinkNode -> LinkNode \cup {NIL}]
      /\ held \in [LinkNode -> Entry \cup {NIL}] /\ {m \in LinkNode : held[m] # NIL} = Links
  BY <1>3 DEF HashInv, Shape
<1>5. l \notin Links /\ NIL \notin LinkNode /\ NIL \notin Ends /\ NIL \notin Entry
  BY <1>1, <1>4, HashAssumption DEF Ends, Entry
<1>6. e \in Entry /\ e # NIL /\ e.id = request.id /\ e.kid = request.kid
  BY <1>3, <1>5 DEF Entry
<1>7. at \in Ends /\ at.root \in LinkNode \cup {NIL} /\ at.last \in LinkNode \cup {NIL}
  BY <1>3, <1>4 DEF Ends, Empty
<1> HIDE DEF e
<1>8. PICK t : t = ages'
  OBVIOUS
<1>9. /\ t \in Seq(LinkNode) /\ Once(t) /\ ToSet(t) = Links \cup {l}
      /\ \A k, m : Comes(t, k, m) <=> Comes(ages, k, m) \/ (m = l /\ k \in Links)
  <2>1. Appending(ages, l, t)
    BY <1>1, <1>4, <1>5, <1>8 DEF Appending, Links
  <2>2. /\ t \in Seq(LinkNode) /\ Once(t) /\ ToSet(t) = ToSet(ages) \cup {l}
        /\ \A k, m : Comes(t, k, m) <=> Comes(ages, k, m) \/ (m = l /\ k \in ToSet(ages))
    BY <2>1, Appended
  <2> QED BY <2>2 DEF Links
<1>10. Links' = Links \cup {l}
  BY <1>8, <1>9 DEF Links
<1>11. held'[l] = e /\ \A m \in Links : held'[m] = held[m]
  BY <1>1, <1>4, <1>5
<1>12. \A i : CellOf(i)' = CellOf(i)
  BY <1>1 DEF CellOf
<1>13. /\ Chain(cell) \subseteq Links
       /\ \A c : Chain(c)' = IF c = cell THEN Chain(c) \cup {l} ELSE Chain(c)
  BY <1>3, <1>6, <1>10, <1>11, <1>12 DEF Chain
<1>14. \A k \in LinkNode : k # l => held'[k] = held[k]
  BY <1>1, <1>4
<1>15. Shape'
  <2>1. {m \in LinkNode : held'[m] # NIL} = Links'
    BY <1>4, <1>6, <1>10, <1>11, <1>14
  <2>2. held' \in [LinkNode -> Entry \cup {NIL}]
    BY <1>1, <1>4, <1>6
  <2>3. succ' \in [LinkNode -> LinkNode \cup {NIL}] /\ pred' \in [LinkNode -> LinkNode \cup {NIL}]
    BY <1>1, <1>4, <1>7
  <2>4. tbl' \in [1 .. size -> Ends \cup {NIL}]
    <3>1. [root |-> IF at.root = NIL THEN l ELSE at.root, last |-> l] \in Ends
      BY <1>7 DEF Ends
    <3> QED BY <1>1, <1>4, <3>1
  <2> QED BY <1>1, <1>8, <1>9, <2>1, <2>2, <2>3, <2>4 DEF HashInv, Shape
<1>16. First(ages, at.root, Chain(cell)) /\ Final(ages, at.last, Chain(cell)) /\ Row(ages, Chain(cell), succ, pred)
  <2>1. /\ First(ages, Root(cell), Chain(cell)) /\ Row(ages, Chain(cell), succ, pred)
        /\ tbl[cell] # NIL => Final(ages, tbl[cell].last, Chain(cell))
    BY <1>3 DEF HashInv, Rows
  <2>2. CASE tbl[cell] = NIL
    <3>1. Root(cell) = NIL /\ at.root = NIL /\ at.last = NIL
      BY <2>2 DEF Root, Empty
    <3>2. Chain(cell) = {}
      BY <1>4, <1>5, <1>13, <2>1, <3>1 DEF First
    <3> QED BY <2>1, <3>1, <3>2 DEF First, Final
  <2>3. CASE tbl[cell] # NIL
    BY <2>1, <2>3 DEF Root
  <2> QED BY <2>2, <2>3
<1>17. PICK su, pr : su = succ' /\ pr = pred'
  OBVIOUS
<1>18. /\ \A k \in Chain(cell) : pr[k] = pred[k] /\ su[k] = IF k = at.last THEN l ELSE succ[k]
       /\ su[l] = NIL /\ pr[l] = at.last
       /\ \A k \in Links \ Chain(cell) : pr[k] = pred[k] /\ su[k] = succ[k]
       /\ \A k \in LinkNode : held[k] = NIL /\ k # l => pr[k] = pred[k] /\ su[k] = succ[k]
  <2>1. at.root # NIL => at.last \in Chain(cell)
    BY <1>5, <1>16 DEF First, Final
  <2>2. \A k \in Chain(cell) : at.root # NIL
    BY <1>4, <1>5, <1>13, <1>16 DEF First
  <2>3. succ[l] = NIL /\ Links \subseteq LinkNode
    BY <1>1, <1>4 DEF HashInv, Clear
  <2>4. /\ \A k \in LinkNode : su[k] = IF at.root # NIL /\ k = at.last THEN l ELSE succ[k]
        /\ \A k \in LinkNode : pr[k] = IF k = l THEN at.last ELSE pred[k]
    BY <1>1, <1>4, <1>17
  <2>5. \A k \in Links : held[k] # NIL
    BY <1>4
  <2> QED BY <1>5, <1>13, <2>1, <2>2, <2>3, <2>4, <2>5
<1>19. /\ Row(t, Chain(cell) \cup {l}, su, pr)
       /\ First(t, IF at.root = NIL THEN l ELSE at.root, Chain(cell) \cup {l})
       /\ Final(t, l, Chain(cell) \cup {l})
  <2>1. Adding(ages, Chain(cell), succ, pred, at.root, at.last, l, t, su, pr)
    BY <1>4, <1>5, <1>9, <1>13, <1>16, <1>18 DEF Adding, Links
  <2> QED BY <2>1, RowAdded
<1>20. Rows'
  <2> SUFFICES ASSUME NEW c \in 1 .. size
               PROVE  /\ First(ages, Root(c), Chain(c))' /\ Row(ages, Chain(c), succ, pred)'
                      /\ (tbl[c] # NIL => Final(ages, tbl[c].last, Chain(c)))'
    BY <1>1 DEF Rows
  <2>1. CASE c = cell
    <3>1. /\ tbl'[c].root = (IF at.root = NIL THEN l ELSE at.root) /\ tbl'[c].last = l
          /\ tbl'[c] # NIL
      <4>1. tbl'[c] = [root |-> IF at.root = NIL THEN l ELSE at.root, last |-> l]
        BY <1>1, <1>3, <1>4, <2>1
      <4>2. tbl'[c] \in Ends
        BY <1>7, <4>1 DEF Ends
      <4> QED BY <1>5, <4>1, <4>2
    <3>2. Root(c)' = IF at.root = NIL THEN l ELSE at.root
      BY <3>1 DEF Root
    <3>3. Chain(c)' = Chain(cell) \cup {l}
      BY <1>13, <2>1
    <3> QED BY <1>8, <1>17, <1>19, <3>1, <3>2, <3>3
  <2>2. CASE c # cell
    <3>1. tbl'[c] = tbl[c] /\ Chain(c)' = Chain(c) /\ Root(c)' = Root(c)
      BY <1>1, <1>4, <1>13, <2>2 DEF Root
    <3>2. Chain(c) \subseteq Links \ Chain(cell)
      BY <2>2 DEF Chain
    <3>3. \A k, m \in Chain(c) : Comes(t, k, m) <=> Comes(ages, k, m)
      BY <1>5, <1>9, <3>2
    <3>4. \A k \in Chain(c) : su[k] = succ[k] /\ pr[k] = pred[k]
      BY <1>18, <3>2
    <3>5. /\ First(ages, Root(c), Chain(c)) /\ Row(ages, Chain(c), succ, pred)
          /\ tbl[c] # NIL => Final(ages, tbl[c].last, Chain(c))
      BY <1>3 DEF HashInv, Rows
    <3> DEFINE D == Chain(c)
    <3> HIDE DEF D
    <3>6. /\ Row(t, D, su, pr)
          /\ \A k : First(ages, k, D) => First(t, k, D)
          /\ \A k : Final(ages, k, D) => Final(t, k, D)
      <4>1. Keeping(ages, D, succ, pred, t, su, pr)
        BY <3>3, <3>4, <3>5 DEF D, Keeping
      <4> QED BY <4>1, RowKept
    <3> QED BY <1>8, <1>17, <3>1, <3>5, <3>6 DEF D
  <2> QED BY <2>1, <2>2
<1>21. Clear'
  <2> SUFFICES ASSUME NEW k \in LinkNode, held'[k] = NIL
               PROVE  succ'[k] = NIL /\ pred'[k] = NIL
    BY DEF Clear
  <2>1. k # l /\ held[k] = NIL
    BY <1>6, <1>11, <1>14
  <2> QED BY <1>17, <1>18, <2>1 DEF HashInv, Clear
<1>22. Kids'
  <2>1. \A m \in Links : held[m].kid # e.kid
    BY <1>1, <1>6 DEF HashInv, Asked
  <2> QED BY <1>10, <1>11, <2>1 DEF HashInv, Kids
<1>23. Calling' /\ Asked' /\ Searched' /\ Visited'
  BY <1>1, <1>2, <1>3 DEF Calling, Asked, Searched, Visited, NoRequest, ByName, OverAll
<1> QED BY <1>15, <1>20, <1>21, <1>22, <1>23 DEF HashInv

LEMMA TakeOutStep ==
  ASSUME HashInv, TakeOut
  PROVE  HashInv'
<1> DEFINE x == lnptr
           at == tbl[cell]
<1>1. /\ request.op = "remove" /\ x # NIL /\ kind' = kind /\ size' = size
      /\ succ' = [k \in LinkNode |-> IF k = x THEN NIL
                                ELSE IF k = pred[x] THEN succ[x] ELSE succ[k]]
      /\ pred' = [k \in LinkNode |-> IF k = x THEN NIL
                                ELSE IF k = succ[x] THEN pred[x] ELSE pred[k]]
      /\ tbl' = [tbl EXCEPT ![cell] = [root |-> IF at.root = x THEN succ[x] ELSE at.root,
                                      last |-> IF at.last = x THEN pred[x] ELSE at.last]]
      /\ held' = [held EXCEPT ![x] = NIL]
  BY DEF TakeOut, Delink, Doing
<1>2. request' = NoRequest /\ cell' = 0 /\ lnptr' = NIL /\ out' = << >>
  BY DEF TakeOut, Reply
<1>3. PICK k \in DOMAIN ages : ages[k] = x /\ ages' = RemoveAt(ages, k)
  BY DEF TakeOut
<1>4. kind # "none" /\ cell \in 1 .. size /\ x \in Chain(cell)
  BY <1>1 DEF HashInv, Calling, NoRequest
<1>5. /\ ages \in Seq(LinkNode) /\ Once(ages) /\ size \in Nat
      /\ tbl \in [1 .. size -> Ends \cup {NIL}]
      /\ succ \in [LinkNode -> LinkNode \cup {NIL}] /\ pred \in [LinkNode -> LinkNode \cup {NIL}]
      /\ held \in [LinkNode -> Entry \cup {NIL}] /\ {m \in LinkNode : held[m] # NIL} = Links
  BY <1>4 DEF HashInv, Shape
<1>6. x \in Links /\ x \in LinkNode /\ Chain(cell) \subseteq Links /\ Links \subseteq LinkNode
  BY <1>4, <1>5 DEF Chain
<1>7. NIL \notin LinkNode /\ NIL \notin Ends
  BY HashAssumption DEF Ends
<1>8. /\ First(ages, Root(cell), Chain(cell)) /\ Row(ages, Chain(cell), succ, pred)
      /\ tbl[cell] # NIL => Final(ages, tbl[cell].last, Chain(cell))
  BY <1>4 DEF HashInv, Rows
<1>9. at \in Ends /\ at # NIL /\ Root(cell) = at.root /\ at.root \in LinkNode \cup {NIL} /\ at.last \in LinkNode \cup {NIL}
  <2>1. Root(cell) # NIL
    BY <1>4, <1>6, <1>7, <1>8 DEF First
  <2>2. at # NIL
    BY <2>1 DEF Root
  <2>3. at \in Ends
    BY <1>4, <1>5, <2>2
  <2> QED BY <2>2, <2>3 DEF Root, Ends
<1>10. PICK t, su, pr : t = ages' /\ su = succ' /\ pr = pred'
  OBVIOUS
<1>11. /\ t \in Seq(LinkNode) /\ Once(t) /\ ToSet(t) = Links \ {x}
       /\ \A l, m : Comes(t, l, m) <=> Comes(ages, l, m) /\ l # x /\ m # x
  <2>1. TakingOut(LinkNode, ages, k, t)
    BY <1>3, <1>5, <1>10 DEF TakingOut
  <2>2. /\ t \in Seq(LinkNode) /\ Once(t) /\ ToSet(t) = ToSet(ages) \ {ages[k]}
        /\ \A l, m : Comes(t, l, m) <=> Comes(ages, l, m) /\ l # ages[k] /\ m # ages[k]
    BY <1>5, <2>1, Removed
  <2> QED BY <1>3, <2>2 DEF Links
<1>12. Links' = Links \ {x}
  BY <1>10, <1>11 DEF Links
<1>13. /\ held'[x] = NIL /\ \A m \in LinkNode \ {x} : held'[m] = held[m]
       /\ su[x] = NIL /\ pr[x] = NIL
       /\ \A m \in LinkNode \ {x} : /\ su[m] = IF m = pred[x] THEN succ[x] ELSE succ[m]
                                    /\ pr[m] = IF m = succ[x] THEN pred[x] ELSE pred[m]
  BY <1>1, <1>5, <1>6, <1>10
<1>14. \A i : CellOf(i)' = CellOf(i)
  BY <1>1 DEF CellOf
<1>15. \A c : Chain(c)' = Chain(c) \ {x}
  BY <1>6, <1>12, <1>13, <1>14 DEF Chain
<1>16. \A c : c # cell => Chain(c)' = Chain(c) /\ Chain(c) \subseteq Links \ Chain(cell)
  BY <1>4, <1>15 DEF Chain
<1>17. /\ pred[x] \in Chain(cell) \cup {NIL} /\ succ[x] \in Chain(cell) \cup {NIL}
       /\ pred[x] \in LinkNode \cup {NIL} /\ succ[x] \in LinkNode \cup {NIL}
  <2>1. First(ages, succ[x], Behind(ages, x, Chain(cell))) /\ Final(ages, pred[x], Ahead(ages, x, Chain(cell)))
    BY <1>4, <1>8 DEF Row
  <2> QED BY <1>5, <1>6, <2>1 DEF First, Final, Behind, Ahead
<1>18. \A m \in LinkNode \ Chain(cell) : su[m] = succ[m] /\ pr[m] = pred[m]
  BY <1>4, <1>7, <1>13, <1>17
<1>19. Shape'
  <2>1. {m \in LinkNode : held'[m] # NIL} = Links'
    BY <1>5, <1>12, <1>13
  <2>2. held' \in [LinkNode -> Entry \cup {NIL}]
    BY <1>1, <1>5
  <2>3. succ' \in [LinkNode -> LinkNode \cup {NIL}] /\ pred' \in [LinkNode -> LinkNode \cup {NIL}]
    BY <1>1, <1>5, <1>17
  <2>4. tbl' \in [1 .. size -> Ends \cup {NIL}]
    <3>1. [root |-> IF at.root = x THEN succ[x] ELSE at.root, last |-> IF at.last = x THEN pred[x] ELSE at.last] \in Ends
      BY <1>9, <1>17 DEF Ends
    <3> QED BY <1>1, <1>5, <3>1
  <2> QED BY <1>1, <1>10, <1>11, <2>1, <2>2, <2>3, <2>4 DEF HashInv, Shape
<1>20. /\ Row(t, Chain(cell) \ {x}, su, pr)
       /\ First(t, IF at.root = x THEN succ[x] ELSE at.root, Chain(cell) \ {x})
       /\ Final(t, IF at.last = x THEN pred[x] ELSE at.last, Chain(cell) \ {x})
  <2>1. Delinking(ages, Chain(cell), succ, pred, at.root, at.last, x, t, su, pr)
    BY <1>4, <1>5, <1>6, <1>8, <1>9, <1>11, <1>13 DEF Delinking, Links
  <2> QED BY <2>1, RowDelinked
<1>21. Rows'
  <2> SUFFICES ASSUME NEW c \in 1 .. size
               PROVE  /\ First(ages, Root(c), Chain(c))' /\ Row(ages, Chain(c), succ, pred)'
                      /\ (tbl[c] # NIL => Final(ages, tbl[c].last, Chain(c)))'
    BY <1>1 DEF Rows
  <2>1. CASE c = cell
    <3>1. /\ tbl'[c].root = (IF at.root = x THEN succ[x] ELSE at.root)
          /\ tbl'[c].last = (IF at.last = x THEN pred[x] ELSE at.last)
          /\ tbl'[c] # NIL
      <4>1. tbl'[c] = [root |-> IF at.root = x THEN succ[x] ELSE at.root,
                       last |-> IF at.last = x THEN pred[x] ELSE at.last]
        BY <1>1, <1>4, <1>5, <2>1
      <4>2. tbl'[c] \in Ends
        BY <1>9, <1>17, <4>1 DEF Ends
      <4> QED BY <1>7, <4>1, <4>2
    <3>2. Root(c)' = IF at.root = x THEN succ[x] ELSE at.root
      BY <3>1 DEF Root
    <3>3. Chain(c)' = Chain(cell) \ {x}
      BY <1>15, <2>1
    <3> QED BY <1>10, <1>20, <3>1, <3>2, <3>3
  <2>2. CASE c # cell
    <3>1. tbl'[c] = tbl[c] /\ Chain(c)' = Chain(c) /\ Root(c)' = Root(c)
      BY <1>1, <1>5, <1>16, <2>2 DEF Root
    <3> DEFINE D == Chain(c)
    <3>2. D \subseteq Links \ Chain(cell)
      BY <1>16, <2>2
    <3>3. /\ First(ages, Root(c), D) /\ Row(ages, D, succ, pred)
          /\ tbl[c] # NIL => Final(ages, tbl[c].last, D)
      BY <1>4 DEF HashInv, Rows
    <3> HIDE DEF D
    <3>4. /\ \A l, m \in D : Comes(t, l, m) <=> Comes(ages, l, m)
          /\ \A l \in D : su[l] = succ[l] /\ pr[l] = pred[l]
      BY <1>4, <1>6, <1>11, <1>18, <3>2
    <3>5. /\ Row(t, D, su, pr)
          /\ \A l : First(ages, l, D) => First(t, l, D)
          /\ \A l : Final(ages, l, D) => Final(t, l, D)
      <4>1. Keeping(ages, D, succ, pred, t, su, pr)
        BY <3>3, <3>4 DEF Keeping
      <4> QED BY <4>1, RowKept
    <3> QED BY <1>10, <3>1, <3>3, <3>5 DEF D
  <2> QED BY <2>1, <2>2
<1>22. Clear'
  <2> SUFFICES ASSUME NEW m \in LinkNode, held'[m] = NIL
               PROVE  succ'[m] = NIL /\ pred'[m] = NIL
    BY DEF Clear
  <2>1. CASE m = x
    BY <1>10, <1>13, <2>1
  <2>2. CASE m # x
    <3>1. held[m] = NIL /\ m \notin Chain(cell)
      BY <1>5, <1>6, <1>13, <2>2
    <3> QED BY <1>10, <1>18, <3>1 DEF HashInv, Clear
  <2> QED BY <2>1, <2>2
<1>23. Kids'
  BY <1>6, <1>12, <1>13 DEF HashInv, Kids
<1>24. Calling' /\ Asked' /\ Searched' /\ Visited'
  BY <1>1, <1>2, <1>4 DEF Calling, Asked, Searched, Visited, NoRequest, ByName, OverAll
<1> QED BY <1>19, <1>21, <1>22, <1>23, <1>24 DEF HashInv

LEMMA HashStep == HashInv /\ [HashNext]_hashVars => HashInv'
<1> SUFFICES ASSUME HashInv, [HashNext]_hashVars
             PROVE  HashInv'
  OBVIOUS
<1>1. CASE UNCHANGED hashVars
  <2>1. UNCHANGED container /\ UNCHANGED <<request, cell, lnptr, out>>
    BY <1>1 DEF hashVars
  <2>2. /\ UNCHANGED <<kind, size, tbl, succ, pred, held, ages>>
        /\ Shape' /\ Rows' /\ Clear' /\ Kids'
        /\ Links' = Links /\ \A d : Chain(d)' = Chain(d)
        /\ \A i : CellOf(i)' = CellOf(i)
        /\ \A l : Where(l)' = Where(l)
    BY <2>1, Still
  <2>3. Calling' /\ Asked' /\ Searched'
    BY <2>1, <2>2 DEF HashInv, Calling, Asked, Searched
  <2>4. \A l : Past(l)' <=> Past(l)
    BY <2>1, <2>2 DEF Past
  <2>5. \A l, m : Before(l, m)' <=> Before(l, m)
    BY <2>2 DEF Before
  <2>6. \A at : Visits(at) => Visits(at)'
    BY <2>1, <2>2, <2>4, <2>5 DEF Visits
  <2>7. Visited'
    BY <2>1, <2>2, <2>6 DEF HashInv, Visited
  <2> QED BY <2>2, <2>3, <2>7 DEF HashInv
<1>2. CASE \E k \in {"hash", "list"}, n \in Sizes : Create(k, n)
  BY <1>2, CreateStep
<1>3. CASE \E c \in Requests : Ask(c)
  BY <1>3, AskStep
<1>4. CASE \E l \in LinkNode : Add(l)
  BY <1>4, AddStep
<1>5. CASE Pass \/ TakeOut \/ Visit \/ NextCell \/ Freed
  BY <1>5, PassStep, TakeOutStep, VisitStep, NextCellStep, FreedStep
<1>6. CASE Missing \/ Get \/ Summed \/ Written
  <2>1. UNCHANGED container
    BY <1>6 DEF Missing, Get, Summed, Written
  <2>2. \E v : Reply(v)
    BY <1>6 DEF Missing, Get, Summed, Written
  <2> QED BY <2>1, <2>2, AnswerStep
<1> QED BY <1>1, <1>2, <1>3, <1>4, <1>5, <1>6 DEF HashNext

LEMMA HashAlways == HashSpec => []HashInv
BY HashInitInv, HashStep, PTL DEF HashSpec

LEMMA RowsAreChained == HashInv => Chained
<1> SUFFICES ASSUME HashInv PROVE Chained
  OBVIOUS
<1>1. \A l, m : Older(l, m) <=> Comes(ages, l, m)
  BY DEF Older, Comes
<1>2. \A l, C : (First(ages, l, C) => Oldest(l, C)) /\ (Final(ages, l, C) => Youngest(l, C))
  BY <1>1 DEF First, Final, Oldest, Youngest
<1>3. \A l, c : /\ Behind(ages, l, Chain(c)) = {m \in Chain(c) : Older(l, m)}
                /\ Ahead(ages, l, Chain(c)) = {m \in Chain(c) : Older(m, l)}
  BY <1>1 DEF Behind, Ahead
<1>4. ASSUME kind # "none", NEW c \in 1 .. size
      PROVE  /\ Oldest(Root(c), Chain(c))
             /\ tbl[c] # NIL => Youngest(tbl[c].last, Chain(c))
             /\ \A l \in Chain(c) : /\ Oldest(succ[l], {m \in Chain(c) : Older(l, m)})
                                    /\ Youngest(pred[l], {m \in Chain(c) : Older(m, l)})
  <2>1. /\ First(ages, Root(c), Chain(c))
        /\ tbl[c] # NIL => Final(ages, tbl[c].last, Chain(c))
        /\ \A l \in Chain(c) : /\ First(ages, succ[l], Behind(ages, l, Chain(c)))
                               /\ Final(ages, pred[l], Ahead(ages, l, Chain(c)))
    BY <1>4 DEF HashInv, Rows, Row
  <2> QED BY <1>2, <1>3, <2>1
<1>5. /\ {l \in LinkNode : held[l] # NIL} = Links
      /\ lnptr # NIL => lnptr \in Chain(cell)
  BY DEF HashInv, Shape, Calling
<1> QED BY <1>4, <1>5 DEF Chained

\* The linked lists of a table stay whole, whatever is added to, looked up in
\* and taken out of it: each has exactly the entries of its cell in the order in
\* which they came, both ways, and no loop stands on an entry that is gone
\* (list.c list_delink_node, list_add_node_end; hash.c hash_add, hash_remove).
THEOREM ListsStayChained == HashSpec => []Chained
BY HashAlways, RowsAreChained, PTL

-----------------------------------------------------------------------------
(* A table is a sequence of entries.                                       *)

LEMMA StoredIs ==
  ASSUME HashInv
  PROVE  /\ Stored \in Seq(Entry) /\ Len(Stored) = Len(ages) /\ DOMAIN Stored = 1 .. Len(ages)
         /\ DOMAIN ages = 1 .. Len(ages) /\ Len(ages) \in Nat
         /\ \A k \in DOMAIN ages : ages[k] \in Links /\ Stored[k] = held[ages[k]]
         /\ \A l \in Links : \E k \in DOMAIN ages : ages[k] = l
<1>1. ages \in Seq(LinkNode) /\ DOMAIN ages = 1 .. Len(ages) /\ Len(ages) \in Nat
  BY DEF HashInv, Shape
<1>2. \A k \in DOMAIN ages : ages[k] \in Links
  BY DEF Links, ToSet
<1>3. \A l \in Links : held[l] \in Entry
  BY LinkIs DEF HashInv
<1>4. Stored \in [1 .. Len(ages) -> Entry] /\ \A k \in DOMAIN ages : Stored[k] = held[ages[k]]
  BY <1>1, <1>2, <1>3 DEF Stored
<1>5. \A l \in Links : \E k \in DOMAIN ages : ages[k] = l
  BY DEF Links, ToSet
<1>6. Stored \in Seq(Entry) /\ Len(Stored) = Len(ages)
  BY <1>1, <1>4
<1> QED BY <1>1, <1>2, <1>4, <1>5, <1>6

LEMMA NamedIn ==
  ASSUME HashInv, request.op \in {"get", "remove"}, NEW l \in Links, held[l].id = request.id
  PROVE  /\ kind # "none" /\ l \in Chain(cell)
         /\ lnptr # NIL /\ (l = lnptr \/ Comes(ages, lnptr, l))
<1>1. kind # "none" /\ cell = CellOf(request.id)
  BY DEF HashInv, Calling, NoRequest
<1>2. l \in Chain(cell)
  BY <1>1 DEF Chain
<1> QED BY <1>1, <1>2 DEF HashInv, Searched, ByName

LEMMA AddIs ==
  ASSUME HashInv, NEW l \in LinkNode, Add(l)
  PROVE  E!Add
<1> DEFINE e == [id |-> request.id, kid |-> request.kid]
<1>1. /\ request.op = "add" /\ held[l] = NIL /\ held' = [held EXCEPT ![l] = e]
      /\ ages' = Append(ages, l) /\ kind' = kind /\ request' = NoRequest /\ reply' = 1
  BY DEF Add, Reply, Doing
<1>2. HashInv'
  BY AddStep
<1>3. e \in Entry
  BY <1>1, RequestIs DEF HashInv, Calling, Entry
<1>4. /\ held \in [LinkNode -> Entry \cup {NIL}] /\ l \notin Links /\ ages \in Seq(LinkNode)
      /\ Links \subseteq LinkNode
  BY <1>1 DEF HashInv, Shape
<1>5. /\ Stored \in Seq(Entry) /\ Len(Stored) = Len(ages) /\ DOMAIN Stored = 1 .. Len(ages)
      /\ DOMAIN ages = 1 .. Len(ages) /\ Len(ages) \in Nat
      /\ \A k \in DOMAIN ages : ages[k] \in Links /\ Stored[k] = held[ages[k]]
  BY StoredIs
<1>6. /\ Len(ages') = Len(ages) + 1 /\ DOMAIN ages' = 1 .. Len(ages) + 1 /\ ages'[Len(ages) + 1] = l
      /\ \A k \in 1 .. Len(ages) : ages'[k] = ages[k]
  BY <1>1, <1>4
<1>7. held'[l] = e /\ \A m \in Links : held'[m] = held[m]
  BY <1>1, <1>4
<1>8. Stored' = [k \in DOMAIN ages' |-> held'[ages'[k]]]
  BY DEF Stored
<1> HIDE DEF e
<1>9. \A k \in 1 .. Len(ages) + 1 : Stored'[k] = IF k \in 1 .. Len(ages) THEN Stored[k] ELSE e
  <2> SUFFICES ASSUME NEW k \in 1 .. Len(ages) + 1
               PROVE  Stored'[k] = IF k \in 1 .. Len(ages) THEN Stored[k] ELSE e
    OBVIOUS
  <2>1. Stored'[k] = held'[ages'[k]]
    BY <1>6, <1>8
  <2>2. CASE k \in 1 .. Len(ages)
    BY <1>5, <1>6, <1>7, <2>1, <2>2
  <2>3. CASE k = Len(ages) + 1
    <3>1. k \notin 1 .. Len(ages)
      BY <1>5, <2>3
    <3> QED BY <1>6, <1>7, <2>1, <2>3, <3>1
  <2> QED BY <1>5, <2>2, <2>3
<1>10. DOMAIN Stored' = 1 .. Len(ages) + 1
  BY <1>6, <1>8
<1>11. /\ Append(Stored, e) \in Seq(Entry) /\ Len(Append(Stored, e)) = Len(ages) + 1
       /\ \A k \in 1 .. Len(ages) + 1 : Append(Stored, e)[k] = IF k \in 1 .. Len(ages) THEN Stored[k] ELSE e
  <2>1. /\ Append(Stored, e) \in Seq(Entry) /\ Len(Append(Stored, e)) = Len(Stored) + 1
        /\ \A k \in 1 .. Len(Stored) : Append(Stored, e)[k] = Stored[k]
        /\ Append(Stored, e)[Len(Stored) + 1] = e
    BY <1>3, <1>5, AppendProperties
  <2>2. \A k \in 1 .. Len(ages) + 1 : k \notin 1 .. Len(ages) => k = Len(ages) + 1
    BY <1>5
  <2> QED BY <1>5, <2>1, <2>2
<1>12. Stored' = Append(Stored, e)
  <2>1. Stored' \in Seq(Entry) /\ Len(Stored') = Len(ages) + 1
    <3>1. \A k \in 1 .. Len(ages) + 1 : Stored'[k] \in Entry
      BY <1>3, <1>5, <1>9
    <3>2. Stored' \in [1 .. Len(ages) + 1 -> Entry]
      BY <1>8, <1>10, <3>1
    <3> QED BY <1>5, <3>2
  <2> QED BY <1>9, <1>11, <2>1, SeqEqual
<1> QED BY <1>1, <1>12 DEF E!Add, E!Return, E!NoCall, NoRequest, e

LEMMA GetIs ==
  ASSUME HashInv, (Get \/ Missing)
  PROVE  E!Get
<1>1. /\ Stored \in Seq(Entry) /\ DOMAIN Stored = DOMAIN ages /\ DOMAIN ages = 1 .. Len(ages)
      /\ Len(ages) \in Nat /\ \A k \in DOMAIN ages : ages[k] \in Links /\ Stored[k] = held[ages[k]]
      /\ \A l \in Links : \E k \in DOMAIN ages : ages[k] = l
  BY StoredIs
<1>2. request' = NoRequest /\ kind' = kind /\ Stored' = Stored
  BY DEF Get, Missing, Reply, Stored, container
<1>3. CASE Missing
  <2>1. request.op \in {"get", "remove"} /\ lnptr = NIL
    BY <1>3 DEF Missing, ByName
  <2>2. \A l \in Links : held[l].id # request.id
    BY <2>1, NamedIn
  <2>3. request.op = "get" /\ reply' = NIL
    BY <1>3, <2>1, <2>2 DEF Missing, Reply, Doing, HashInv, Asked
  <2>4. {k \in DOMAIN Stored : Stored[k].id = request.id} = {}
    BY <1>1, <2>2
  <2> QED BY <1>2, <2>3, <2>4 DEF E!Get, E!Of, E!Return, E!NoCall, NoRequest
<1>4. CASE Get
  <2>1. request.op = "get" /\ lnptr # NIL /\ held[lnptr].id = request.id /\ reply' = held[lnptr].kid
    BY <1>4 DEF Get, Doing, Sought, ByChild, Reply
  <2>2. lnptr \in Links
    BY <2>1 DEF HashInv, Calling, Chain
  <2>3. PICK k \in DOMAIN ages : ages[k] = lnptr
    BY <1>1, <2>2
  <2>4. ASSUME NEW j \in DOMAIN Stored, Stored[j].id = request.id
        PROVE  k <= j
    <3>1. ages[j] = ages[k] \/ Comes(ages, ages[k], ages[j])
      BY <1>1, <2>1, <2>3, <2>4, NamedIn
    <3>2. Once(ages)
      BY DEF HashInv, Shape
    <3> QED BY <1>1, <3>1, <3>2 DEF Once, Comes
  <2>5. k \in DOMAIN Stored /\ Stored[k].id = request.id /\ reply' = Stored[k].kid
    BY <1>1, <2>1, <2>3
  <2>6. E!Oldest(k, request.id)
    BY <2>4, <2>5 DEF E!Oldest, E!Of
  <2> QED BY <1>2, <2>1, <2>5, <2>6 DEF E!Get, E!Return, E!NoCall, NoRequest
<1> QED BY <1>3, <1>4

LEMMA TakeOutIs ==
  ASSUME HashInv, TakeOut
  PROVE  E!TakeOut
<1>1. /\ request.op = "remove" /\ lnptr # NIL /\ Sought /\ held' = [held EXCEPT ![lnptr] = NIL]
      /\ request' = NoRequest /\ reply' = 1 /\ kind' = kind
  BY DEF TakeOut, Doing, Reply
<1>2. PICK k \in DOMAIN ages : ages[k] = lnptr /\ ages' = RemoveAt(ages, k)
  BY DEF TakeOut
<1>3. /\ Stored \in Seq(Entry) /\ Len(Stored) = Len(ages) /\ DOMAIN Stored = DOMAIN ages
      /\ DOMAIN ages = 1 .. Len(ages) /\ Len(ages) \in Nat
      /\ \A j \in DOMAIN ages : ages[j] \in Links /\ Stored[j] = held[ages[j]]
  BY StoredIs
<1>4. lnptr \in Links /\ Once(ages) /\ ages \in Seq(LinkNode) /\ held \in [LinkNode -> Entry \cup {NIL}]
  BY <1>1 DEF HashInv, Calling, Chain, Shape
<1>5. PICK l \in Links : /\ held[l].id = request.id /\ held[l].kid = request.kid
                         /\ \A m \in Links \ {l} : held[m].id = request.id => Comes(ages, l, m)
  BY <1>1 DEF HashInv, Asked
<1>6. l = lnptr
  <2>1. CASE ByChild
    BY <1>1, <1>4, <1>5, <2>1 DEF Sought, HashInv, Kids
  <2>2. CASE ~ByChild
    <3>1. held[lnptr].id = request.id
      BY <1>1, <2>2 DEF Sought
    <3>2. l = lnptr \/ Comes(ages, lnptr, l)
      BY <1>1, <1>5, NamedIn
    <3>3. l # lnptr => Comes(ages, l, lnptr)
      BY <1>4, <1>5, <3>1
    <3> QED BY <3>2, <3>3, InOrder
  <2> QED BY <2>1, <2>2
<1>7. Stored[k].id = request.id /\ Stored[k].kid = request.kid
  BY <1>2, <1>3, <1>5, <1>6
<1>8. ASSUME NEW j \in DOMAIN Stored, Stored[j].id = request.id
      PROVE  k <= j
  <2>1. ages[j] = ages[k] \/ Comes(ages, ages[k], ages[j])
    BY <1>2, <1>3, <1>5, <1>6, <1>8
  <2> QED BY <1>3, <1>4, <2>1 DEF Once, Comes
<1>9. E!Oldest(k, request.id)
  BY <1>3, <1>7, <1>8 DEF E!Oldest, E!Of
<1>10. PICK a, r : a = ages' /\ r = RemoveAt(Stored, k)
  OBVIOUS
<1>11. /\ Len(a) = Len(ages) - 1 /\ DOMAIN a = 1 .. Len(ages) - 1
       /\ \A i \in 1 .. Len(ages) - 1 : a[i] = IF i < k THEN ages[i] ELSE ages[i + 1]
  <2>1. TakingOut(LinkNode, ages, k, a)
    BY <1>2, <1>4, <1>10 DEF TakingOut
  <2> QED BY <2>1, TakenOut
<1>12. /\ r \in Seq(Entry) /\ Len(r) = Len(ages) - 1
       /\ \A i \in 1 .. Len(ages) - 1 : r[i] = IF i < k THEN Stored[i] ELSE Stored[i + 1]
  <2>1. TakingOut(Entry, Stored, k, r)
    BY <1>3, <1>10 DEF TakingOut
  <2>2. /\ r \in Seq(Entry) /\ Len(r) = Len(Stored) - 1
        /\ \A i \in 1 .. Len(Stored) - 1 : r[i] = IF i < k THEN Stored[i] ELSE Stored[i + 1]
    BY <2>1, TakenOut
  <2> QED BY <1>3, <2>2
<1>13. Stored' = r
  <2>1. Stored' = [i \in 1 .. Len(ages) - 1 |-> held'[a[i]]]
    BY <1>10, <1>11 DEF Stored
  <2>2. ASSUME NEW i \in 1 .. Len(ages) - 1
        PROVE  held'[a[i]] = r[i]
    <3>1. PICK j \in DOMAIN ages : j # k /\ a[i] = ages[j] /\ r[i] = Stored[j]
      <4>1. i \in DOMAIN ages /\ i + 1 \in DOMAIN ages
        BY <1>3
      <4>2. CASE i < k
        BY <1>3, <1>11, <1>12, <4>1, <4>2
      <4>3. CASE ~ (i < k)
        BY <1>3, <1>11, <1>12, <4>1, <4>3
      <4> QED BY <4>2, <4>3
    <3>2. ages[j] # lnptr
      BY <1>2, <1>4, <3>1 DEF Once
    <3>3. held'[ages[j]] = held[ages[j]]
      <4>1. ages[j] \in LinkNode
        BY <1>4, <3>1
      <4> QED BY <1>1, <1>4, <3>2, <4>1
    <3> QED BY <1>3, <3>1, <3>3
  <2>3. Len(ages) - 1 \in Nat
    BY <1>3
  <2>4. r = [i \in 1 .. Len(ages) - 1 |-> r[i]]
    BY <1>12, <2>3
  <2> QED BY <2>1, <2>2, <2>4
<1>14. Stored' = E!RemoveAt(Stored, k)
  BY <1>10, <1>13 DEF E!RemoveAt, RemoveAt
<1> QED BY <1>1, <1>3, <1>7, <1>9, <1>14 DEF E!TakeOut, E!Return, E!NoCall, NoRequest

(* At its end a loop over all entries has come past each of them once.     *)
LEMMA AllAreOut ==
  ASSUME HashInv, OverAll(request), lnptr = NIL, ~MoreCells
  PROVE  E!Complete(out) /\ Len(out) = Len(Stored)
<1>1. /\ Stored \in Seq(Entry) /\ Len(Stored) = Len(ages) /\ DOMAIN Stored = DOMAIN ages
      /\ DOMAIN ages = 1 .. Len(ages) /\ Len(ages) \in Nat
      /\ \A k \in DOMAIN ages : ages[k] \in Links /\ Stored[k] = held[ages[k]]
      /\ \A l \in Links : \E k \in DOMAIN ages : ages[k] = l
  BY StoredIs
<1>2. /\ out \in Seq(Entry) /\ DOMAIN out = 1 .. Len(out) /\ Len(out) \in Nat
      /\ kind # "none" /\ cell \in 1 .. size /\ size \in Nat /\ Once(ages)
  BY DEF HashInv, Calling, Shape, OverAll, NoRequest
<1>3. cell = size
  BY <1>2 DEF MoreCells
<1>4. PICK at \in [DOMAIN out -> Links] : Visits(at)
  BY DEF HashInv, Visited
<1>5. \A l \in Links : Past(l)
  <2> SUFFICES ASSUME NEW l \in Links PROVE Past(l)
    OBVIOUS
  <2>1. Where(l) \in 1 .. size
    BY <1>2, LinkIs DEF HashInv
  <2> QED BY <1>2, <1>3, <2>1 DEF Past
<1>6. PICK to : to = [j \in DOMAIN out |-> CHOOSE k \in DOMAIN ages : ages[k] = at[j]]
  OBVIOUS
<1>7. /\ to \in [DOMAIN out -> DOMAIN Stored]
      /\ \A j \in DOMAIN out : to[j] \in DOMAIN ages /\ ages[to[j]] = at[j]
  BY <1>1, <1>4, <1>6
<1>8. ASSUME NEW k \in DOMAIN Stored
      PROVE  \E j \in DOMAIN out : to[j] = k
  <2>1. PICK j \in DOMAIN out : at[j] = ages[k]
    BY <1>1, <1>4, <1>5 DEF Visits
  <2>2. ages[to[j]] = ages[k]
    BY <1>7, <2>1
  <2>3. to[j] = k
    BY <1>1, <1>2, <1>7, <2>2 DEF Once
  <2> QED BY <2>3
<1>9. \A j \in DOMAIN out : out[j] = Stored[to[j]]
  BY <1>1, <1>4, <1>7 DEF Visits
<1>10. \A l, m : Comes(ages, l, m) => l # m
  BY InOrder
<1>11. ASSUME NEW i \in DOMAIN out, NEW j \in DOMAIN out, i < j
       PROVE  /\ to[i] # to[j]
              /\ out[i].id = out[j].id => to[i] < to[j]
  <2>1. Before(at[i], at[j])
    BY <1>4, <1>11 DEF Visits
  <2>2. at[i] # at[j]
    <3>1. Where(at[i]) \in 1 .. size
      BY <1>2, <1>4, LinkIs DEF HashInv
    <3>2. ~ (Where(at[i]) < Where(at[i]))
      BY <1>2, <3>1
    <3> QED BY <1>10, <2>1, <3>2 DEF Before
  <2>3. ASSUME out[i].id = out[j].id
        PROVE  to[i] < to[j]
    <3>1. out[i] = held[at[i]] /\ out[j] = held[at[j]]
      BY <1>4 DEF Visits
    <3>2. Where(at[i]) = Where(at[j])
      BY <2>3, <3>1 DEF Where
    <3>3. Where(at[i]) \in 1 .. size
      BY <1>2, <1>4, LinkIs DEF HashInv
    <3>4. Comes(ages, at[i], at[j])
      BY <1>2, <2>1, <3>2, <3>3 DEF Before
    <3>5. PICK p, q \in DOMAIN ages : p < q /\ ages[p] = at[i] /\ ages[q] = at[j]
      BY <3>4 DEF Comes
    <3>6. p = to[i] /\ q = to[j]
      BY <1>2, <1>7, <3>5 DEF Once
    <3> QED BY <3>5, <3>6
  <2> QED BY <1>7, <2>2, <2>3
<1>12. Len(out) = Len(Stored)
  <2>1. \A i, j \in DOMAIN out : to[i] = to[j] => i = j
    <3> SUFFICES ASSUME NEW i \in DOMAIN out, NEW j \in DOMAIN out, to[i] = to[j]
                 PROVE  i = j
      OBVIOUS
    <3>1. ~ (i < j) /\ ~ (j < i)
      BY <1>11
    <3> QED BY <1>2, <3>1
  <2>2. to \in Bijection(1 .. Len(out), 1 .. Len(ages))
    BY <1>1, <1>2, <1>7, <1>8, <2>1 DEF Bijection, Injection, Surjection, IsInjective
  <2>3. ExistsBijection(1 .. Len(out), 1 .. Len(ages))
    BY <2>2 DEF ExistsBijection
  <2>4. ExistsBijection(1 .. Len(ages), 1 .. Len(ages))
    BY Fun_ExistsBijReflexive
  <2> QED BY <1>1, <1>2, <2>3, <2>4, Fun_NatBijSame
<1>13. ASSUME kind = "list"
       PROVE  out = Stored
  <2>1. \A j \in DOMAIN out : j \in DOMAIN ages /\ at[j] = ages[j] /\ out[j] = held[at[j]]
    BY <1>4, <1>13 DEF Visits
  <2>2. \A j \in 1 .. Len(out) : out[j] = Stored[j]
    BY <1>1, <1>2, <2>1
  <2> QED BY <1>1, <1>2, <1>12, <2>2, SeqEqual
<1>14. E!Complete(out)
  BY <1>7, <1>8, <1>9, <1>11, <1>13 DEF E!Complete
<1> QED BY <1>12, <1>14

LEMMA HashRefines == HashInv /\ [HashNext]_hashVars => [E!Next]_(E!vars)
<1> SUFFICES ASSUME HashInv, [HashNext]_hashVars
             PROVE  [E!Next]_(E!vars)
  OBVIOUS
<1>1. CASE UNCHANGED hashVars
  BY <1>1 DEF hashVars, container, Stored, E!vars
<1>2. CASE \E k \in {"hash", "list"}, n \in Sizes : Create(k, n)
  <2>1. E!Create
    BY <1>2 DEF Create, Stored, E!Create
  <2> QED BY <2>1 DEF E!Next
<1>3. CASE \E c \in Requests : Ask(c)
  <2>1. PICK c \in Requests : Ask(c)
    BY <1>3
  <2>2. c.op # "none"
    BY DEF Requests
  <2>3. E!Call
    BY <2>1, <2>2 DEF Ask, container, Stored, NoRequest, E!Call, E!NoCall
  <2> QED BY <2>3 DEF E!Next
<1>4. CASE \E l \in LinkNode : Add(l)
  BY <1>4, AddIs DEF E!Next
<1>5. CASE Pass \/ Visit \/ NextCell
  <2>1. UNCHANGED <<kind, Stored, request, reply>>
    BY <1>5 DEF Pass, Visit, NextCell, container, Stored
  <2> QED BY <2>1 DEF E!vars
<1>6. CASE Get \/ Missing
  BY <1>6, GetIs DEF E!Next
<1>7. CASE TakeOut
  BY <1>7, TakeOutIs DEF E!Next
<1>8. CASE Summed \/ Written \/ Freed
  <2>1. OverAll(request) /\ lnptr = NIL /\ ~MoreCells /\ request' = NoRequest
    BY <1>8 DEF Summed, Written, Freed, Doing, OverAll, Reply
  <2>2. E!Complete(out) /\ Len(out) = Len(Stored)
    BY <2>1, AllAreOut
  <2>3. CASE Summed
    <3>1. E!Count
      BY <2>2, <2>3 DEF Summed, Doing, Reply, container, Stored, E!Count, E!Return, E!NoCall, NoRequest
    <3> QED BY <3>1 DEF E!Next
  <2>4. CASE Written
    <3>1. reply' = out /\ request.op = "write" /\ UNCHANGED <<kind, Stored>>
      BY <2>4 DEF Written, Doing, Reply, container, Stored
    <3>2. E!Write
      BY <2>1, <2>2, <3>1 DEF E!Write, E!Complete, E!NoCall, NoRequest
    <3> QED BY <3>2 DEF E!Next
  <2>5. CASE Freed
    <3>1. reply' = out /\ request.op = "free" /\ kind' = "none" /\ ages' = << >>
      BY <2>5 DEF Freed, Doing, Reply
    <3>2. Stored' = << >>
      BY <3>1 DEF Stored
    <3>3. E!Free
      BY <2>1, <2>2, <3>1, <3>2 DEF E!Free, E!Complete, E!NoCall, NoRequest
    <3> QED BY <3>3 DEF E!Next
  <2> QED BY <1>8, <2>3, <2>4, <2>5
<1> QED BY <1>1, <1>2, <1>3, <1>4, <1>5, <1>6, <1>7, <1>8 DEF HashNext

\* A hash of any size, with any collisions in it, and a list are sequences of
\* named entries to their callers: a name leads to the oldest entry of it, that
\* one is taken out, and counting, writing and freeing come past every child
\* once, those of one name in their order (hash.c; pdb_types.c
\* pdb_write_hash_node_cb, pdb_write_list_node_cb, pdb_free_hash_node_cb).
THEOREM TablesAreEntries == HashSpec => IsEntries
<1>1. HashInit => E!Init
  BY DEF HashInit, Stored, E!Init, E!NoCall, NoRequest
<1> QED BY <1>1, HashAlways, HashRefines, PTL DEF HashSpec, IsEntries
=============================================================================
