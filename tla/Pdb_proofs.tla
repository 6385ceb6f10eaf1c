----------------------------- MODULE Pdb_proofs -----------------------------
(***************************************************************************)
(* Proofs about Pdb, for any heap, names, values, node types and depth:    *)
(* the nodes of the database are one tree, each held by its parent alone,  *)
(* and to those who ask by path it is a space of names.                    *)
(***************************************************************************)
EXTENDS Pdb, SequenceTheorems, NaturalsInduction, WellFoundedInduction, TLAPS

Nodes == [type : Kinds \cup {"free"}, id : Ids \cup {Null}, parent : NodeAddr \cup {Null},
          data : Values \cup NodeAddr \cup {Null}, kids : Seq(NodeAddr), table : BOOLEAN]

Sound(n) == /\ n.type = "free" => n = Free
            /\ ~n.table => n.type = "hash" /\ n.kids = << >>
            /\ n.type = "string" => n.data \in Values \cup {Null}
            /\ n.type = "link" => n.data \in NodeAddr
            /\ n.type \in Containers => n.data = Null

Heap == node \in [NodeAddr -> Nodes] /\ \A a \in NodeAddr : Sound(node[a])
Shape == /\ Heap
         /\ db \in NodeAddr \cup {Null}
         /\ stack \in Seq(NodeAddr)
         /\ fate \in {"ok", "crash", "wild", "hang", "leak"}

(* The nodes are a tree: a node holds its children, once each, and is their *)
(* parent; every node but the root is held; and none is below itself.       *)
Held == \A a \in Used : \A i, j \in DOMAIN node[a].kids :
          /\ node[a].kids[i] \in Used
          /\ node[node[a].kids[i]].parent = a
          /\ node[a].kids[i] = node[a].kids[j] => i = j
Holders == \A a \in Used \ {db} : /\ node[a].parent \in Used
                                 /\ a \in ToSet(node[node[a].parent].kids)
Falls(rank) == \A a \in Used \ {db} : rank[node[a].parent] < rank[a]
Ranked == \E rank \in [NodeAddr -> Nat] : Falls(rank)
Grown == db \in Used => node[db].parent = Null /\ Held /\ Holders /\ Ranked

(* The blocks that the loader is in lead from the root down, and can hold   *)
(* what is loaded; without a root there is nothing on the heap.              *)
Loads == /\ db \notin Used => Used = {}
         /\ stack # << >> => db \in Used /\ stack[1] = db
         /\ Len(stack) <= MaxDepth
         /\ \A i \in DOMAIN stack : /\ stack[i] \in Used /\ node[stack[i]].table
                                    /\ node[stack[i]].type \in Containers
         /\ \A i \in 2 .. Len(stack) : /\ node[stack[i]].parent = stack[i - 1]
                                       /\ node[stack[i]].id \in Ids

PdbInv == Shape /\ (fate = "ok" => Grown /\ Loads)

-----------------------------------------------------------------------------
(* Numbers and sequences.                                                  *)

(* Any non-empty set of numbers has a least one.                           *)
LEMMA LeastNat ==
  ASSUME NEW B, B \subseteq Nat, B # {}
  PROVE  \E n \in B : \A m \in B : n <= m
<1> DEFINE R == {p \in Nat \X Nat : p[1] < p[2]}
<1>1. IsWellFoundedOn(R, Nat)
  BY NatLessThanWellFounded, Zenon DEF OpToRel
<1>2. PICK n \in B : \A m \in B : ~ (<<m, n>> \in R)
  <2> HIDE DEF R
  <2> QED BY <1>1, WFMin
<1>3. ASSUME NEW m \in B PROVE n <= m
  <2>1. m \in Nat /\ n \in Nat
    OBVIOUS
  <2>2. m < n => <<m, n>> \in R
    BY <2>1
  <2>3. ~ (m < n)
    BY <1>2, <2>2
  <2> QED BY <2>1, <2>3
<1> QED BY <1>3

TakingOut(S1, s, k, t) == s \in Seq(S1) /\ k \in DOMAIN s /\ t = RemoveAt(s, k)

LEMMA TakenOut ==
  ASSUME NEW S1, NEW s, NEW k, NEW t, TakingOut(S1, s, k, t)
  PROVE  /\ t \in Seq(S1) /\ Len(t) = Len(s) - 1 /\ DOMAIN t = 1 .. Len(s) - 1
         /\ \A i \in 1 .. Len(s) - 1 : t[i] = IF i < k THEN s[i] ELSE s[i + 1]
<1> DEFINE a == SubSeq(s, 1, k - 1)
           b == SubSeq(s, k + 1, Len(s))
<1>0. s \in Seq(S1) /\ k \in DOMAIN s /\ t = RemoveAt(s, k)
  BY DEF TakingOut
<1> USE <1>0
<1>1. k \in 1 .. Len(s) /\ Len(s) \in Nat /\ \A i \in 1 .. Len(s) : s[i] \in S1
  OBVIOUS
<1>2. a \in Seq(S1) /\ Len(a) = k - 1 /\ \A i \in 1 .. k - 1 : a[i] = s[i]
  BY <1>1, SubSeqProperties
<1>3. b \in Seq(S1) /\ Len(b) = Len(s) - k /\ \A i \in 1 .. Len(s) - k : b[i] = s[k + i]
  BY <1>1, SubSeqProperties
<1>4. t = a \o b
  BY DEF RemoveAt
<1> HIDE DEF a, b
<1>5. /\ t \in Seq(S1) /\ Len(t) = Len(a) + Len(b)
      /\ \A i \in 1 .. Len(a) + Len(b) : t[i] = IF i <= Len(a) THEN a[i] ELSE b[i - Len(a)]
  <2>1. a \in Seq(S1) /\ b \in Seq(S1)
    BY <1>2, <1>3
  <2>2. /\ a \o b \in Seq(S1) /\ Len(a \o b) = Len(a) + Len(b)
        /\ \A i \in 1 .. Len(a) + Len(b) : (a \o b)[i] = IF i <= Len(a) THEN a[i] ELSE b[i - Len(a)]
    BY <2>1, ConcatProperties
  <2> QED BY <1>4, <2>2, Zenon
<1>6. Len(a) + Len(b) = Len(s) - 1
  BY <1>1, <1>2, <1>3
<1>7. t \in Seq(S1) /\ Len(t) = Len(s) - 1 /\ DOMAIN t = 1 .. Len(s) - 1
  BY <1>5, <1>6
<1>8. ASSUME NEW i \in 1 .. Len(s) - 1
      PROVE  t[i] = IF i < k THEN s[i] ELSE s[i + 1]
  <2>1. t[i] = IF i <= Len(a) THEN a[i] ELSE b[i - Len(a)]
    BY <1>5, <1>6
  <2>2. CASE i < k
    <3>1. i <= Len(a) /\ i \in 1 .. k - 1
      BY <1>1, <1>2, <2>2
    <3> QED BY <1>2, <2>1, <2>2, <3>1
  <2>3. CASE ~ (i < k)
    <3>1. ~ (i <= Len(a)) /\ i - Len(a) \in 1 .. Len(s) - k /\ k + (i - Len(a)) = i + 1
      BY <1>1, <1>2, <2>3
    <3>2. t[i] = b[i - Len(a)]
      BY <2>1, <3>1
    <3>3. b[i - Len(a)] = s[k + (i - Len(a))]
      BY <1>3, <3>1
    <3> QED BY <2>3, <3>1, <3>2, <3>3
  <2> QED BY <2>2, <2>3
<1> QED BY <1>7, <1>8

(* Without its element k, a sequence without repetition has all the others, *)
(* and in the same order.                                                  *)
LEMMA Rest ==
  ASSUME NEW S1, NEW s, NEW k, NEW t, TakingOut(S1, s, k, t),
         \A i, j \in DOMAIN s : s[i] = s[j] => i = j
  PROVE  /\ \A i \in DOMAIN t : t[i] \in ToSet(s) \ {s[k]}
         /\ \A i, j \in DOMAIN t : t[i] = t[j] => i = j
         /\ ToSet(t) = ToSet(s) \ {s[k]}
<1> DEFINE n == Len(s)
           At(i) == IF i < k THEN i ELSE i + 1
           To(i) == IF i < k THEN i ELSE i - 1
<1>0. s \in Seq(S1) /\ k \in DOMAIN s
  BY DEF TakingOut
<1>1. /\ t \in Seq(S1) /\ n \in Nat /\ DOMAIN s = 1 .. n /\ DOMAIN t = 1 .. n - 1 /\ k \in 1 .. n
      /\ \A i \in 1 .. n - 1 : t[i] = s[At(i)]
  BY <1>0, TakenOut
<1>2. \A i \in 1 .. n - 1 : At(i) \in 1 .. n /\ At(i) # k
  BY <1>1
<1>3. \A i \in 1 .. n : i # k => To(i) \in 1 .. n - 1 /\ At(To(i)) = i
  BY <1>1
<1>4. \A i, j \in 1 .. n - 1 : At(i) = At(j) => i = j
  BY <1>1
<1> HIDE DEF At, To
<1>5. \A i \in DOMAIN t : t[i] \in ToSet(s) \ {s[k]}
  BY <1>1, <1>2 DEF ToSet
<1>6. \A i, j \in DOMAIN t : t[i] = t[j] => i = j
  BY <1>1, <1>2, <1>4
<1>7. ASSUME NEW x \in ToSet(s) \ {s[k]} PROVE x \in ToSet(t)
  <2>1. PICK i \in 1 .. n : s[i] = x
    BY <1>1 DEF ToSet
  <2>2. t[To(i)] = x /\ To(i) \in DOMAIN t
    BY <1>1, <1>3, <2>1
  <2> QED BY <2>2 DEF ToSet
<1>8. ToSet(t) \subseteq ToSet(s) \ {s[k]}
  BY <1>5 DEF ToSet
<1> QED BY <1>5, <1>6, <1>7, <1>8

-----------------------------------------------------------------------------
(* The heap, and the children of a node.                                   *)

LEMMA UsedIs ==
  Heap => /\ Used = {a \in NodeAddr : node[a].type # "free"}
          /\ \A a \in Used : node[a].type \in Kinds
<1> SUFFICES ASSUME Heap
             PROVE  /\ Used = {a \in NodeAddr : node[a].type # "free"}
                    /\ \A a \in Used : node[a].type \in Kinds
  OBVIOUS
<1>1. Free.type = "free"
  BY DEF Free, NewNode
<1>2. \A a \in NodeAddr : node[a] # Free <=> node[a].type # "free"
  BY <1>1 DEF Heap, Sound
<1>3. \A a \in NodeAddr : node[a].type \in Kinds \cup {"free"}
  BY DEF Heap, Nodes
<1> QED BY <1>2, <1>3 DEF Used

(* Child is the first child of the name, if there is one.                  *)
ChildIs(n, id) ==
  IF \A i \in DOMAIN node[n].kids : ~Called(n, i, id) THEN Child(n, id) = Null
  ELSE /\ FirstCalled(n, id) \in DOMAIN node[n].kids
       /\ Called(n, FirstCalled(n, id), id)
       /\ \A j \in DOMAIN node[n].kids : Called(n, j, id) => FirstCalled(n, id) <= j
       /\ Child(n, id) = node[n].kids[FirstCalled(n, id)] /\ Child(n, id) \in NodeAddr
Children == \A n \in NodeAddr : \A id : ChildIs(n, id)

LEMMA FirstChild == Heap => Children
<1> SUFFICES ASSUME Heap, NEW n \in NodeAddr, NEW id PROVE ChildIs(n, id)
  BY DEF Children
<1> DEFINE B == {i \in DOMAIN node[n].kids : Called(n, i, id)}
<1>0. node[n].kids \in Seq(NodeAddr)
  BY DEF Heap, Nodes
<1>1. CASE B = {}
  BY <1>1 DEF ChildIs, Child
<1>2. CASE B # {}
  <2>1. DOMAIN node[n].kids = 1 .. Len(node[n].kids) /\ Len(node[n].kids) \in Nat
    BY <1>0
  <2>2. PICK k \in B : \A m \in B : k <= m
    <3>1. B \subseteq Nat
      BY <2>1
    <3> HIDE DEF B
    <3> QED BY <1>2, <3>1, LeastNat
  <2>3. k \in DOMAIN node[n].kids /\ Called(n, k, id)
    OBVIOUS
  <2>4. \A j \in 1 .. k - 1 : ~Called(n, j, id)
    BY <2>1, <2>2, <2>3
  <2> DEFINE p == FirstCalled(n, id)
  <2>5. p \in DOMAIN node[n].kids /\ Called(n, p, id) /\ \A j \in 1 .. p - 1 : ~Called(n, j, id)
    BY <2>3, <2>4 DEF FirstCalled
  <2>6. Child(n, id) = node[n].kids[p]
    BY <2>3 DEF Child
  <2>7. \A j \in DOMAIN node[n].kids : Called(n, j, id) => p <= j
    BY <2>1, <2>5
  <2>8. node[n].kids[p] \in NodeAddr
    BY <1>0, <2>5
  <2> QED BY <2>3, <2>5, <2>6, <2>7, <2>8 DEF ChildIs
<1> QED BY <1>1, <1>2

-----------------------------------------------------------------------------
(* Paths and walks.                                                        *)

Above(p) == SubSeq(p, 1, Len(p) - 1)

LEMMA PathIs ==
  /\ << >> \in Paths
  /\ \A q : q \in Paths <=> q \in Seq(Ids) /\ Len(q) <= MaxDepth
  /\ \A q \in Paths : q # << >> =>
       /\ Len(q) \in Nat /\ Len(q) > 0 /\ q[Len(q)] \in Ids
       /\ Above(q) \in Paths /\ Len(Above(q)) = Len(q) - 1
       /\ \A i \in 1 .. Len(q) - 1 : Above(q)[i] = q[i]
<1>0. MaxDepth \in Nat /\ MaxDepth > 0
  BY PdbAssumption
<1>1. ASSUME NEW q PROVE q \in Paths <=> q \in Seq(Ids) /\ Len(q) <= MaxDepth
  <2>1. ASSUME q \in Paths PROVE q \in Seq(Ids) /\ Len(q) <= MaxDepth
    <3>1. PICK n \in 0 .. MaxDepth : q \in [1 .. n -> Ids]
      BY <2>1 DEF Paths
    <3>2. n \in Nat /\ n <= MaxDepth
      BY <1>0
    <3>3. q \in Seq(Ids) /\ Len(q) = n
      BY <3>1, <3>2
    <3> QED BY <3>2, <3>3
  <2>2. ASSUME q \in Seq(Ids), Len(q) <= MaxDepth PROVE q \in Paths
    <3>1. Len(q) \in 0 .. MaxDepth /\ q \in [1 .. Len(q) -> Ids]
      BY <1>0, <2>2
    <3> QED BY <3>1 DEF Paths
  <2> QED BY <2>1, <2>2
<1>2. << >> \in Paths
  <2> DEFINE e == << >>
  <2>1. e \in Seq(Ids) /\ Len(e) = 0 /\ 0 <= MaxDepth
    BY <1>0
  <2> HIDE DEF e
  <2>2. e \in Paths
    BY <1>1, <2>1
  <2> QED BY <2>2 DEF e
<1>3. ASSUME NEW q \in Paths, q # << >>
      PROVE  /\ Len(q) \in Nat /\ Len(q) > 0 /\ q[Len(q)] \in Ids
             /\ Above(q) \in Paths /\ Len(Above(q)) = Len(q) - 1
             /\ \A i \in 1 .. Len(q) - 1 : Above(q)[i] = q[i]
  <2>1. q \in Seq(Ids) /\ Len(q) \in Nat /\ Len(q) > 0 /\ Len(q) <= MaxDepth
    BY <1>1, <1>3
  <2>2. q[Len(q)] \in Ids
    BY <2>1
  <2>3. /\ Above(q) \in Seq(Ids) /\ Len(Above(q)) = Len(q) - 1
        /\ \A i \in 1 .. Len(q) - 1 : Above(q)[i] = q[i]
    <3> DEFINE m == Len(q) - 1
    <3>1. m \in 0 .. Len(q) /\ 1 \in 1 .. Len(q) + 1
      BY <2>1
    <3>2. /\ SubSeq(q, 1, m) \in Seq(Ids)
          /\ Len(SubSeq(q, 1, m)) = IF 1 <= m THEN m - 1 + 1 ELSE 0
          /\ \A i \in 1 .. m - 1 + 1 : SubSeq(q, 1, m)[i] = q[1 + i - 1]
      <4>1. 1 \in Int /\ m \in Int /\ \A i \in 1 .. m : q[i] \in Ids
        BY <2>1
      <4> HIDE DEF m
      <4> QED BY <4>1, SubSeqProperties
    <3>3. m \in Nat /\ m - 1 + 1 = m
      BY <2>1
    <3>4. \A i \in 1 .. m : 1 + i - 1 = i
      BY <3>3
    <3>5. Len(SubSeq(q, 1, m)) = m
      BY <3>2, <3>3
    <3>6. \A i \in 1 .. m : SubSeq(q, 1, m)[i] = q[i]
      BY <3>2, <3>3, <3>4
    <3> QED BY <3>2, <3>5, <3>6 DEF Above
  <2>4. Above(q) \in Paths
    BY <1>0, <1>1, <2>1, <2>3
  <2> QED BY <2>1, <2>2, <2>3, <2>4
<1> QED BY <1>1, <1>2, <1>3

Start == [node |-> db, fate |-> IF db \in Used THEN "ok" ELSE "wild"]
Round(path, at, i) == IF i = 0 THEN Start ELSE Step(at[i - 1], path[i])
Trail(path, at) == at = [i \in 0 .. Len(path) |-> Round(path, at, i)]

(* The recursive equation of Walk has a solution ...                       *)
LEMMA TrailExists ==
  ASSUME NEW path \in Seq(Ids)
  PROVE  \E at : Trail(path, at)
<1> DEFINE Upto(n, at) == at = [i \in 0 .. n |-> Round(path, at, i)]
           B == {n \in Nat : ~ \E at : Upto(n, at)}
<1>0. Len(path) \in Nat
  OBVIOUS
<1>1. B = {}
  <2> SUFFICES ASSUME B # {} PROVE FALSE
    OBVIOUS
  <2>1. PICK n \in B : \A m \in B : n <= m
    <3>1. B \subseteq Nat
      OBVIOUS
    <3> HIDE DEF B
    <3> QED BY <3>1, LeastNat
  <2>2. n # 0
    <3> DEFINE z == [i \in 0 .. 0 |-> Start]
    <3>1. z = [i \in 0 .. 0 |-> Round(path, z, i)]
      BY DEF Round
    <3> QED BY <3>1
  <2>3. n - 1 \in Nat /\ n - 1 \notin B
    <3>1. n \in Nat
      OBVIOUS
    <3>2. n - 1 \in Nat /\ ~ (n <= n - 1)
      BY <3>1, <2>2
    <3> HIDE DEF B
    <3> QED BY <2>1, <3>2
  <2>4. PICK at : Upto(n - 1, at)
    BY <2>3
  <2> DEFINE next == [i \in 0 .. n |-> Round(path, at, i)]
  <2>5. \A i \in 0 .. n - 1 : next[i] = at[i]
    BY <2>3, <2>4
  <2>6. ASSUME NEW i \in 0 .. n PROVE next[i] = Round(path, next, i)
    <3>1. CASE i = 0
      BY <3>1 DEF Round
    <3>2. CASE i # 0
      <4>1. i - 1 \in 0 .. n - 1
        BY <3>2
      <4>2. next[i - 1] = at[i - 1]
        BY <2>5, <4>1
      <4>3. next[i] = Round(path, at, i)
        OBVIOUS
      <4> HIDE DEF next
      <4> QED BY <3>2, <4>2, <4>3 DEF Round
    <3> QED BY <3>1, <3>2
  <2>7. Upto(n, next)
    <3>1. next = [i \in 0 .. n |-> next[i]]
      OBVIOUS
    <3> HIDE DEF next
    <3> QED BY <2>6, <3>1
  <2> QED BY <2>1, <2>7
<1> QED BY <1>0, <1>1 DEF Trail

(* ... and Walk is where it leads.                                         *)
LEMMA WalkIs ==
  ASSUME NEW path \in Seq(Ids), db # Null
  PROVE  \E at : /\ Walk(path) = at[Len(path)]
                 /\ at[0] = Start
                 /\ \A i \in 1 .. Len(path) : at[i] = Step(at[i - 1], path[i])
<1> DEFINE at == CHOOSE f : Trail(path, f)
<1>1. Walk(path) = at[Len(path)]
  BY Zenon DEF Walk, Trail, Round, Start
<1>2. Trail(path, at)
  BY TrailExists
<1>3. Len(path) \in Nat
  OBVIOUS
<1> HIDE DEF at
<1>4. \A i \in 0 .. Len(path) : at[i] = Round(path, at, i)
  BY <1>2 DEF Trail
<1>5. at[0] = Start
  BY <1>3, <1>4 DEF Round
<1>6. \A i \in 1 .. Len(path) : at[i] = Step(at[i - 1], path[i])
  BY <1>3, <1>4 DEF Round
<1> QED BY <1>1, <1>5, <1>6

(* Where a walk is, if all went well.                                      *)
Spots == [node : NodeAddr \cup {Null}, fate : {"ok", "crash", "wild"}]
Landing(w) == IF w.fate = "ok" THEN w.node ELSE Null
Onward(n, id) == IF n \in NodeAddr /\ Answers(node[n]) THEN Child(n, id) ELSE Null

LEMMA StepIs ==
  ASSUME Heap, NEW w \in Spots, NEW id
  PROVE  Step(w, id) \in Spots /\ Landing(Step(w, id)) = Onward(Landing(w), id)
<1>0. Null \notin NodeAddr
  BY PdbAssumption
<1>1. CASE w.fate # "ok" \/ w.node = Null
  BY <1>0, <1>1 DEF Step, Landing, Onward, Spots
<1>2. CASE w.fate = "ok" /\ w.node # Null /\ Answers(node[w.node])
  <2>1. w.node \in NodeAddr
    BY <1>2 DEF Spots
  <2>2. Child(w.node, id) \in NodeAddr \cup {Null}
    BY <2>1, FirstChild DEF Children, ChildIs
  <2>3. Step(w, id) = [w EXCEPT !.node = Child(w.node, id)]
    BY <1>2 DEF Step
  <2> QED BY <1>2, <2>1, <2>2, <2>3 DEF Landing, Onward, Spots
<1>3. CASE w.fate = "ok" /\ w.node # Null /\ ~Answers(node[w.node])
  <2>1. Fault(node[w.node]) \in {"crash", "wild"}
    BY DEF Fault
  <2>2. Step(w, id) = [w EXCEPT !.fate = Fault(node[w.node])]
    BY <1>3 DEF Step
  <2> QED BY <1>3, <2>1, <2>2 DEF Landing, Onward, Spots
<1> QED BY <1>1, <1>2, <1>3

Found(path) == Landing(Walk(path))

(* A path leads to the child of the node that the path above it leads to.  *)
Walks == /\ \A q \in Paths : Walk(q) \in Spots /\ Found(q) \in NodeAddr \cup {Null}
         /\ Found(<< >>) = IF db \in Used THEN db ELSE Null
         /\ \A q \in Paths : q # << >> => Found(q) = Onward(Found(Above(q)), q[Len(q)])

LEMMA WalkSteps == Shape => Walks
<1> SUFFICES ASSUME Shape PROVE Walks
  OBVIOUS
<1>0. Heap /\ db \in NodeAddr \cup {Null} /\ Null \notin NodeAddr /\ Used \subseteq NodeAddr
  BY PdbAssumption DEF Shape, Used
<1>1. CASE db = Null
  <2>1. \A q : Walk(q) = [node |-> Null, fate |-> "ok"]
    BY <1>1 DEF Walk
  <2>2. \A q : Found(q) = Null /\ Walk(q) \in Spots
    BY <2>1 DEF Found, Landing, Spots
  <2>3. db \notin Used
    BY <1>0, <1>1
  <2> QED BY <1>0, <2>2, <2>3 DEF Walks, Onward
<1>2. CASE db # Null
  <2>1. Start \in Spots /\ Landing(Start) = IF db \in Used THEN db ELSE Null
    BY <1>0, <1>2 DEF Start, Spots, Landing
  <2>2. ASSUME NEW q \in Paths, NEW at, at[0] = Start,
               \A i \in 1 .. Len(q) : at[i] = Step(at[i - 1], q[i])
        PROVE  \A i \in 0 .. Len(q) : at[i] \in Spots
    <3> DEFINE B == {i \in 0 .. Len(q) : at[i] \notin Spots}
    <3>1. Len(q) \in Nat
      BY PathIs
    <3>2. B = {}
      <4> SUFFICES ASSUME B # {} PROVE FALSE
        OBVIOUS
      <4>1. PICK n \in B : \A m \in B : n <= m
        <5>1. B \subseteq Nat
          BY <3>1
        <5> HIDE DEF B
        <5> QED BY <5>1, LeastNat
      <4>2. n \in 1 .. Len(q)
        BY <2>1, <2>2, <3>1
      <4>3. n - 1 \in 0 .. Len(q) /\ ~ (n <= n - 1)
        BY <3>1, <4>2
      <4>4. at[n - 1] \in Spots
        BY <4>1, <4>3
      <4>5. at[n] = Step(at[n - 1], q[n])
        BY <2>2, <4>2
      <4>6. at[n] \in Spots
        BY <1>0, <4>4, <4>5, StepIs
      <4> QED BY <4>6
    <3> QED BY <3>2
  <2>3. ASSUME NEW q \in Paths, q # << >>
        PROVE  Found(q) = Onward(Found(Above(q)), q[Len(q)])
    <3> DEFINE r == Above(q)
               n == Len(q)
    <3>1. /\ r \in Paths /\ n \in Nat /\ n > 0 /\ Len(r) = n - 1 /\ q \in Seq(Ids) /\ r \in Seq(Ids)
          /\ \A i \in 1 .. n - 1 : r[i] = q[i]
      BY <2>3, PathIs
    <3>2. PICK at : /\ Walk(q) = at[n] /\ at[0] = Start
                    /\ \A i \in 1 .. n : at[i] = Step(at[i - 1], q[i])
      BY <1>2, <3>1, WalkIs
    <3>3. PICK to : /\ Walk(r) = to[n - 1] /\ to[0] = Start
                    /\ \A i \in 1 .. n - 1 : to[i] = Step(to[i - 1], r[i])
      <4>1. PICK to : /\ Walk(r) = to[Len(r)] /\ to[0] = Start
                      /\ \A i \in 1 .. Len(r) : to[i] = Step(to[i - 1], r[i])
        <5> HIDE DEF r
        <5> QED BY <1>2, <3>1, WalkIs
      <4> HIDE DEF r, n
      <4> QED BY <3>1, <4>1
    <3> HIDE DEF r, n
    <3> DEFINE B == {i \in 0 .. n - 1 : at[i] # to[i]}
    <3>4. B = {}
      <4> SUFFICES ASSUME B # {} PROVE FALSE
        OBVIOUS
      <4>1. PICK k \in B : \A m \in B : k <= m
        <5>1. B \subseteq Nat
          BY <3>1
        <5> HIDE DEF B
        <5> QED BY <5>1, LeastNat
      <4>2. k \in 1 .. n - 1 /\ k \in 1 .. n
        BY <3>1, <3>2, <3>3
      <4>3. k - 1 \in 0 .. n - 1 /\ ~ (k <= k - 1)
        BY <3>1, <4>2
      <4>4. at[k - 1] = to[k - 1]
        BY <4>1, <4>3
      <4>5. at[k] = Step(at[k - 1], q[k]) /\ to[k] = Step(to[k - 1], r[k]) /\ r[k] = q[k]
        BY <3>1, <3>2, <3>3, <4>2
      <4> QED BY <4>4, <4>5
    <3>5. at[n - 1] = Walk(r) /\ at[n] = Step(at[n - 1], q[n])
      <4>1. n - 1 \in 0 .. n - 1 /\ n \in 1 .. n
        BY <3>1
      <4> QED BY <3>2, <3>3, <3>4, <4>1
    <3>6. at[n - 1] \in Spots
      <4>1. n - 1 \in 0 .. n
        BY <3>1
      <4> QED BY <2>2, <3>2, <4>1 DEF n
    <3>7. Landing(at[n]) = Onward(Landing(at[n - 1]), q[n])
      BY <1>0, <3>5, <3>6, StepIs
    <3> QED BY <3>2, <3>5, <3>7 DEF Found, r, n
  <2>4. ASSUME NEW q \in Paths PROVE Walk(q) \in Spots /\ Found(q) \in NodeAddr \cup {Null}
    <3>1. q \in Seq(Ids) /\ Len(q) \in Nat
      BY PathIs
    <3>2. PICK at : /\ Walk(q) = at[Len(q)] /\ at[0] = Start
                    /\ \A i \in 1 .. Len(q) : at[i] = Step(at[i - 1], q[i])
      BY <1>2, <3>1, WalkIs
    <3>3. Walk(q) \in Spots
      BY <2>2, <3>1, <3>2
    <3> QED BY <3>3 DEF Found, Landing, Spots
  <2>5. Found(<< >>) = Landing(Start)
    <3> DEFINE e == << >>
    <3>1. e \in Seq(Ids) /\ Len(e) = 0
      OBVIOUS
    <3> HIDE DEF e
    <3>2. Walk(e) = Start
      BY <1>2, <3>1, WalkIs
    <3> QED BY <3>2 DEF Found, e
  <2> QED BY <2>1, <2>3, <2>4, <2>5 DEF Walks
<1> QED BY <1>1, <1>2

LEMMA Primed == Shape' => Walks' /\ Children'
<1>1. Shape => Walks /\ Children
  BY WalkSteps, FirstChild DEF Shape
<1> QED BY <1>1, PTL
-----------------------------------------------------------------------------
(* What steps do to the nodes.                                             *)

Sorted == Used = {a \in NodeAddr : node[a].type # "free"}

LEMMA UsedThen == Heap' => Used' = {a \in NodeAddr : node'[a].type # "free"}
<1>1. Heap => Sorted
  BY UsedIs DEF Sorted
<1>2. Heap' => Sorted'
  BY <1>1, PTL
<1> QED BY <1>2 DEF Sorted

(* Two states with the same nodes, parents and children.                   *)
Alike == /\ Used' = Used /\ db' = db
         /\ \A n \in Used : node'[n].parent = node[n].parent /\ node'[n].kids = node[n].kids

LEMMA AlikeGrows ==
  ASSUME Alike, Grown
  PROVE  Grown'
<1> SUFFICES ASSUME db' \in Used' PROVE (node[db].parent = Null /\ Held /\ Holders /\ Ranked)'
  BY DEF Grown
<1>0. node[db].parent = Null /\ Held /\ Holders /\ Ranked /\ db \in Used
  BY DEF Grown, Alike
<1>1. node'[db'].parent = Null
  BY <1>0 DEF Alike
<1>2. Held'
  BY <1>0 DEF Alike, Held
<1>3. Holders'
  BY <1>0 DEF Alike, Holders
<1>4. Ranked'
  BY <1>0 DEF Alike, Ranked, Falls, Holders
<1> QED BY <1>1, <1>2, <1>3, <1>4

(* A new node a, the child of p.                                           *)
Creating(a, p, new) ==
  /\ a \in NodeAddr \ Used /\ p \in Used /\ node[p].table
  /\ new \in Nodes /\ Sound(new) /\ new.type # "free" /\ new.parent = p /\ new.kids = << >>
  /\ node' = [n \in NodeAddr |-> IF n = a THEN new
                            ELSE IF n = new.parent THEN [node[n] EXCEPT !.kids = Append(@, a)]
                            ELSE node[n]]

LEMMA Creates ==
  ASSUME Heap, NEW a, NEW p, NEW new, Creating(a, p, new)
  PROVE  /\ Heap' /\ Used' = Used \cup {a} /\ a \notin Used /\ p \in Used
         /\ node'[a] = new
         /\ \A n \in Used \ {p} : node'[n] = node[n]
         /\ \A n \in Used : /\ node'[n].type = node[n].type /\ node'[n].id = node[n].id
                            /\ node'[n].parent = node[n].parent /\ node'[n].data = node[n].data
                            /\ node'[n].table = node[n].table
         /\ node'[p].kids = Append(node[p].kids, a)
<1> DEFINE np == [node[p] EXCEPT !.kids = Append(@, a)]
<1>0. /\ a \in NodeAddr \ Used /\ p \in Used /\ node[p].table
      /\ new \in Nodes /\ Sound(new) /\ new.type # "free" /\ new.parent = p /\ new.kids = << >>
      /\ node' = [n \in NodeAddr |-> IF n = a THEN new ELSE IF n = p THEN np ELSE node[n]]
  BY DEF Creating
<1>1. p \in NodeAddr /\ p # a /\ Used \subseteq NodeAddr /\ node[p] \in Nodes /\ Sound(node[p])
  BY <1>0 DEF Used, Heap
<1>2. /\ np \in Nodes /\ np.type = node[p].type /\ np.id = node[p].id /\ np.parent = node[p].parent
      /\ np.data = node[p].data /\ np.table = node[p].table /\ np.kids = Append(node[p].kids, a)
  <2>1. PICK q : q = node[p] /\ np = [q EXCEPT !.kids = Append(q.kids, a)]
    OBVIOUS
  <2>2. q \in Nodes /\ q.kids \in Seq(NodeAddr) /\ Append(q.kids, a) \in Seq(NodeAddr)
    BY <1>0, <1>1, <2>1 DEF Nodes
  <2> HIDE DEF np
  <2>3. PICK t : t = Append(q.kids, a) /\ t \in Seq(NodeAddr)
    BY <2>2
  <2>4. np = [q EXCEPT !.kids = t]
    BY <2>1, <2>3
  <2>5. /\ np \in Nodes /\ np.type = q.type /\ np.id = q.id /\ np.parent = q.parent
        /\ np.data = q.data /\ np.table = q.table /\ np.kids = t
    BY <2>2, <2>3, <2>4 DEF Nodes
  <2> QED BY <2>1, <2>3, <2>5
<1>3. node[p].type # "free"
  BY <1>0, UsedIs
<1>4. Sound(np)
  BY <1>0, <1>1, <1>2, <1>3 DEF Sound
<1> HIDE DEF np
<1>5. Heap'
  BY <1>0, <1>1, <1>2, <1>4 DEF Heap
<1>6. /\ node'[a] = new /\ node'[p] = np
      /\ \A n \in NodeAddr \ {a, p} : node'[n] = node[n]
  BY <1>0, <1>1
<1>7. Used' = Used \cup {a}
  BY <1>0, <1>1, <1>2, <1>3, <1>5, <1>6, UsedIs, UsedThen
<1> QED BY <1>0, <1>1, <1>2, <1>5, <1>6, <1>7

LEMMA CreateGrows ==
  ASSUME Heap, NEW a, NEW p, NEW new, Creating(a, p, new), db' = db, db \in Used, Grown
  PROVE  Grown'
<1>1. /\ Heap' /\ Used' = Used \cup {a} /\ a \notin Used /\ p \in Used
      /\ node'[a] = new
      /\ \A n \in Used \ {p} : node'[n] = node[n]
      /\ \A n \in Used : node'[n].parent = node[n].parent
      /\ node'[p].kids = Append(node[p].kids, a)
  BY Creates
<1>2. new.parent = p /\ new.kids = << >> /\ a \in NodeAddr
  BY DEF Creating
<1>3. node[db].parent = Null /\ Held /\ Holders /\ Ranked
  BY DEF Grown
<1> DEFINE s == node[p].kids
           n == Len(s)
           t == Append(s, a)
<1>4. s \in Seq(NodeAddr)
  BY <1>1 DEF Heap, Nodes, Used
<1>5. /\ n \in Nat /\ DOMAIN s = 1 .. n /\ DOMAIN t = 1 .. n + 1
      /\ t[n + 1] = a /\ \A i \in 1 .. n : t[i] = s[i]
  BY <1>2, <1>4
<1>6. \A i \in 1 .. n : s[i] \in Used /\ s[i] # a /\ node[s[i]].parent = p
  BY <1>1, <1>3, <1>5 DEF Held
<1>7. node'[p].kids = t
  BY <1>1
<1>8. \A i, j \in 1 .. n : s[i] = s[j] => i = j
  BY <1>1, <1>3, <1>5 DEF Held
<1> HIDE DEF s, n, t
<1>9. ASSUME NEW x \in Used', NEW i \in DOMAIN node'[x].kids, NEW j \in DOMAIN node'[x].kids
      PROVE  /\ node'[x].kids[i] \in Used'
             /\ node'[node'[x].kids[i]].parent = x
             /\ node'[x].kids[i] = node'[x].kids[j] => i = j
  <2>1. CASE x = a
    <3>1. DOMAIN node'[x].kids = {}
      BY <1>1, <1>2, <2>1
    <3> QED BY <1>9, <3>1
  <2>2. CASE x = p
    <3>1. i \in 1 .. n + 1 /\ j \in 1 .. n + 1 /\ node'[x].kids = t
      BY <1>5, <1>7, <2>2
    <3>2. CASE i \in 1 .. n /\ j \in 1 .. n
      BY <1>1, <1>5, <1>6, <1>8, <2>2, <3>1, <3>2
    <3>3. CASE i = n + 1 \/ j = n + 1
      BY <1>1, <1>2, <1>5, <1>6, <2>2, <3>1, <3>3
    <3> QED BY <1>5, <3>1, <3>2, <3>3
  <2>3. CASE x \in Used \ {p}
    <3>1. node'[x] = node[x]
      BY <1>1, <2>3
    <3>2. /\ node[x].kids[i] \in Used /\ node[node[x].kids[i]].parent = x
          /\ node[x].kids[i] = node[x].kids[j] => i = j
      BY <1>3, <1>9, <2>3, <3>1 DEF Held
    <3> QED BY <1>1, <3>1, <3>2
  <2> QED BY <1>1, <2>1, <2>2, <2>3
<1>10. Held'
  BY <1>9 DEF Held
<1>11. Holders'
  <2>1. ASSUME NEW x \in Used' \ {db}
        PROVE  node'[x].parent \in Used' /\ x \in ToSet(node'[node'[x].parent].kids)
    <3>1. CASE x = a
      <4>1. n + 1 \in DOMAIN t
        BY <1>5
      <4> QED BY <1>1, <1>2, <1>5, <1>7, <3>1, <4>1 DEF ToSet
    <3>2. CASE x \in Used
      <4>1. node[x].parent \in Used /\ x \in ToSet(node[node[x].parent].kids) /\ node'[x].parent = node[x].parent
        BY <1>1, <1>3, <2>1, <3>2 DEF Holders
      <4>2. CASE node[x].parent = p
        <5>1. PICK i \in 1 .. n : s[i] = x
          BY <1>5, <4>1, <4>2 DEF ToSet, s
        <5>2. i \in DOMAIN t /\ t[i] = x
          BY <1>5, <5>1
        <5> QED BY <1>1, <1>7, <4>1, <4>2, <5>2 DEF ToSet
      <4>3. CASE node[x].parent # p
        BY <1>1, <4>1, <4>3
      <4> QED BY <4>2, <4>3
    <3> QED BY <1>1, <2>1, <3>1, <3>2
  <2> QED BY <2>1 DEF Holders
<1>12. Ranked'
  <2>1. PICK rank \in [NodeAddr -> Nat] : Falls(rank)
    BY <1>3 DEF Ranked
  <2> DEFINE r == [x \in NodeAddr |-> IF x = a THEN rank[p] + 1 ELSE rank[x]]
  <2>2. p \in NodeAddr /\ p # a /\ Used \subseteq NodeAddr
    BY <1>1 DEF Used
  <2>3. r \in [NodeAddr -> Nat]
    BY <2>2
  <2>4. ASSUME NEW x \in Used' \ {db} PROVE r[node'[x].parent] < r[x]
    <3>1. CASE x = a
      <4>1. r[p] = rank[p] /\ r[a] = rank[p] + 1 /\ rank[p] \in Nat
        BY <1>2, <2>2
      <4>2. node'[x].parent = p
        BY <1>1, <1>2, <3>1
      <4> HIDE DEF r
      <4> QED BY <3>1, <4>1, <4>2
    <3>2. CASE x \in Used
      <4>1. /\ node'[x].parent = node[x].parent /\ node[x].parent \in Used
            /\ rank[node[x].parent] < rank[x]
        BY <1>1, <1>3, <2>1, <2>4, <3>2 DEF Holders, Falls
      <4> QED BY <1>1, <2>2, <3>2, <4>1
    <3> QED BY <1>1, <2>4, <3>1, <3>2
  <2> QED BY <2>3, <2>4 DEF Ranked, Falls
<1>13. node'[db].parent = Null
  BY <1>1, <1>3
<1> QED BY <1>3, <1>10, <1>11, <1>12, <1>13 DEF Grown

(* The contents of a node change, or whether it has a table.               *)
Rewriting(n, new) ==
  /\ n \in Used /\ new \in Nodes /\ Sound(new)
  /\ new.type = node[n].type /\ new.id = node[n].id
  /\ new.parent = node[n].parent /\ new.kids = node[n].kids
  /\ node' = [node EXCEPT ![n] = new]

LEMMA Rewrites ==
  ASSUME Heap, NEW n, NEW new, Rewriting(n, new)
  PROVE  /\ Heap' /\ Used' = Used
         /\ node'[n] = new /\ \A m \in NodeAddr \ {n} : node'[m] = node[m]
         /\ \A m \in Used : /\ node'[m].type = node[m].type /\ node'[m].id = node[m].id
                            /\ node'[m].parent = node[m].parent /\ node'[m].kids = node[m].kids
<1>0. n \in NodeAddr /\ Used \subseteq NodeAddr
  BY DEF Rewriting, Used
<1>1. node'[n] = new /\ \A m \in NodeAddr \ {n} : node'[m] = node[m]
  BY <1>0 DEF Rewriting, Heap
<1>2. Heap'
  BY <1>0, <1>1 DEF Rewriting, Heap
<1>3. \A m \in NodeAddr : node'[m].type = node[m].type
  BY <1>1 DEF Rewriting
<1>4. Used' = Used
  BY <1>2, <1>3, UsedIs, UsedThen
<1>5. \A m \in Used : /\ node'[m].type = node[m].type /\ node'[m].id = node[m].id
                      /\ node'[m].parent = node[m].parent /\ node'[m].kids = node[m].kids
  BY <1>0, <1>1 DEF Rewriting
<1> QED BY <1>1, <1>2, <1>4, <1>5

(* Whole[w] is w and all that is below it: it holds the children of its    *)
(* nodes, and of each of its nodes but w the parent.                       *)
LEMMA WholeIs ==
  ASSUME Held, NEW w \in Used, Null \notin Used
  PROVE  /\ w \in Whole[w] /\ Whole[w] \subseteq Used
         /\ \A n \in Whole[w] : ToSet(node[n].kids) \subseteq Whole[w]
         /\ \A m \in Whole[w] : m # w => node[m].parent \in Whole[w]
<1> DEFINE closed == {part \in SUBSET Used : \A n \in part : ToSet(node[n].kids) \subseteq part}
           all == {m \in Used : \A part \in closed : w \in part => m \in part}
<1>1. Whole[w] = all
  BY DEF Whole
<1>2. w \in all /\ all \subseteq Used
  OBVIOUS
<1>3. ASSUME NEW n \in all, NEW k \in ToSet(node[n].kids)
      PROVE  k \in all
  <2>1. n \in Used /\ \A part \in closed : w \in part => n \in part
    OBVIOUS
  <2>2. k \in Used
    BY <2>1 DEF Held, ToSet
  <2>3. ASSUME NEW part \in closed, w \in part PROVE k \in part
    BY <2>1, <2>3
  <2> QED BY <2>2, <2>3
<1>4. ASSUME NEW m \in all, m # w
      PROVE  node[m].parent \in all
  <2>1. CASE \E n \in all : m \in ToSet(node[n].kids)
    <3>1. PICK n \in all : m \in ToSet(node[n].kids)
      BY <2>1
    <3>2. node[m].parent = n
      BY <3>1 DEF Held, ToSet
    <3> QED BY <3>1, <3>2
  <2>2. CASE \A n \in all : m \notin ToSet(node[n].kids)
    <3> DEFINE part == all \ {m}
    <3>1. part \in SUBSET Used /\ \A n \in part : ToSet(node[n].kids) \subseteq part
      <4> HIDE DEF all
      <4> QED BY <1>2, <1>3, <2>2
    <3>2. part \in closed /\ w \in part
      BY <1>2, <1>4, <3>1
    <3>3. m \in part
      BY <3>2
    <3> QED BY <3>3
  <2> QED BY <2>1, <2>2
<1> QED BY <1>1, <1>2, <1>3, <1>4

(* The node w goes with all below it, and its parent p lets it go.         *)
Deleting(w, p) ==
  /\ w \in Used /\ db \in Used
  /\ node' = Without(Whole[w], p, node[w].id)
  /\ \/ p = Null /\ w = db
     \/ w # db /\ p = node[w].parent /\ Child(p, node[w].id) = w

LEMMA Deletes ==
  ASSUME Heap, Grown, NEW w, NEW p, Deleting(w, p)
  PROVE  /\ Heap' /\ Used' = Used \ Whole[w]
         /\ \A n \in Whole[w] \ {w} : n # db /\ node[n].parent \in Whole[w]
         /\ \A n \in Used' : /\ node'[n].type = node[n].type /\ node'[n].id = node[n].id
                             /\ node'[n].parent = node[n].parent /\ node'[n].data = node[n].data
                             /\ node'[n].table = node[n].table
         /\ \A n \in Used' \ {p} : node'[n] = node[n]
         /\ p \in Used' => /\ w # db /\ p = node[w].parent /\ p \in NodeAddr
                           /\ TakingOut(NodeAddr, node[p].kids, FirstCalled(p, node[w].id), node'[p].kids)
                           /\ node[p].kids[FirstCalled(p, node[w].id)] = w
<1> DEFINE dead == Whole[w]
           k == FirstCalled(p, node[w].id)
           t == RemoveAt(node[p].kids, k)
           np == [node[p] EXCEPT !.kids = t]
<1>0. /\ node[db].parent = Null /\ Held /\ Holders /\ w \in Used /\ db \in Used
      /\ Null \notin NodeAddr /\ Used \subseteq NodeAddr
  BY PdbAssumption DEF Grown, Deleting, Used
<1>1. /\ w \in dead /\ dead \subseteq Used
      /\ \A m \in dead : m # w => node[m].parent \in dead
  BY <1>0, WholeIs
<1>2. \A n \in dead \ {w} : n # db /\ node[n].parent \in dead
  BY <1>0, <1>1
<1> HIDE DEF dead
<1>3. node' = [a \in NodeAddr |-> IF a \in dead THEN Free ELSE IF a = p THEN np ELSE node[a]]
  BY DEF Deleting, Without, dead
<1>4. ASSUME p \in NodeAddr
      PROVE  /\ w # db /\ p = node[w].parent /\ p \in Used
             /\ TakingOut(NodeAddr, node[p].kids, k, t)
             /\ node[p].kids[k] = w
  <2>1. w # db /\ p = node[w].parent /\ Child(p, node[w].id) = w
    BY <1>0, <1>4 DEF Deleting
  <2>2. p \in Used
    BY <1>0, <2>1 DEF Holders
  <2>3. ChildIs(p, node[w].id) /\ w # Null
    BY <1>0, <1>4, FirstChild DEF Children
  <2>4. k \in DOMAIN node[p].kids /\ node[p].kids[k] = w
    BY <2>1, <2>3 DEF ChildIs
  <2>5. node[p].kids \in Seq(NodeAddr)
    BY <1>4 DEF Heap, Nodes
  <2> QED BY <2>1, <2>2, <2>4, <2>5 DEF TakingOut
<1>5. ASSUME p \in NodeAddr
      PROVE  /\ np \in Nodes /\ Sound(np) /\ np.type = node[p].type /\ np.id = node[p].id
             /\ np.parent = node[p].parent /\ np.data = node[p].data /\ np.table = node[p].table
             /\ np.kids = t
  <2>1. t \in Seq(NodeAddr)
    BY <1>4, <1>5, TakenOut
  <2>2. PICK q, s : q = node[p] /\ s = t
    OBVIOUS
  <2>3. np = [q EXCEPT !.kids = s] /\ q \in Nodes /\ s \in Seq(NodeAddr)
    BY <1>5, <2>1, <2>2 DEF Heap
  <2> HIDE DEF np, t
  <2>4. /\ np \in Nodes /\ np.type = q.type /\ np.id = q.id /\ np.parent = q.parent
        /\ np.data = q.data /\ np.table = q.table /\ np.kids = s
    BY <2>3 DEF Nodes
  <2>5. Sound(q) /\ q.type # "free" /\ q.kids # << >>
    <3>1. Sound(q) /\ q.type # "free"
      BY <1>4, <1>5, <2>2, UsedIs DEF Heap
    <3>2. DOMAIN q.kids # {}
      BY <1>4, <1>5, <2>2 DEF TakingOut
    <3> QED BY <3>1, <3>2
  <2>6. Sound(np)
    BY <2>3, <2>4, <2>5 DEF Sound, Nodes
  <2> QED BY <2>2, <2>4, <2>6
<1> HIDE DEF np, t, k
<1>6. /\ \A n \in NodeAddr : n \in dead => node'[n] = Free
      /\ \A n \in NodeAddr \ dead : n # p => node'[n] = node[n]
      /\ p \in NodeAddr \ dead => node'[p] = np
  BY <1>3
<1>7. Free \in Nodes /\ Sound(Free) /\ Free.type = "free"
  <2>1. Free.type = "free" /\ Free.table /\ "free" \notin Containers
    BY PdbAssumption DEF Free, NewNode, Containers
  <2>2. Free \in Nodes
    BY DEF Free, NewNode, Nodes
  <2> QED BY <2>1, <2>2 DEF Sound
<1>8. Heap'
  BY <1>3, <1>5, <1>6, <1>7 DEF Heap
<1>9. Used' = Used \ dead
  BY <1>0, <1>1, <1>4, <1>5, <1>6, <1>7, <1>8, UsedIs, UsedThen
<1>10. ASSUME NEW n \in Used'
       PROVE  /\ node'[n].type = node[n].type /\ node'[n].id = node[n].id
              /\ node'[n].parent = node[n].parent /\ node'[n].data = node[n].data
              /\ node'[n].table = node[n].table
              /\ n # p => node'[n] = node[n]
              /\ n = p => node'[n].kids = t
  <2>1. n \in NodeAddr \ dead
    BY <1>0, <1>9
  <2>2. CASE n = p
    BY <1>5, <1>6, <2>1, <2>2
  <2>3. CASE n # p
    BY <1>6, <2>1, <2>3
  <2> QED BY <2>2, <2>3
<1>11. p \in Used' => /\ w # db /\ p = node[w].parent /\ p \in NodeAddr
                      /\ TakingOut(NodeAddr, node[p].kids, k, node'[p].kids)
                      /\ node[p].kids[k] = w
  BY <1>0, <1>4, <1>9, <1>10
<1> QED BY <1>2, <1>8, <1>9, <1>10, <1>11 DEF dead, k

LEMMA DeleteGrows ==
  ASSUME Heap, Grown, NEW w, NEW p, Deleting(w, p), db' = db
  PROVE  Grown'
<1> DEFINE dead == Whole[w]
           k == FirstCalled(p, node[w].id)
<1>0. /\ node[db].parent = Null /\ Held /\ Holders /\ Ranked /\ w \in Used /\ db \in Used
      /\ Null \notin NodeAddr /\ Used \subseteq NodeAddr
  BY PdbAssumption DEF Grown, Deleting, Used
<1>1. /\ w \in dead /\ dead \subseteq Used
      /\ \A n \in dead : ToSet(node[n].kids) \subseteq dead
  BY <1>0, WholeIs
<1>2. /\ Used' = Used \ dead
      /\ \A n \in dead \ {w} : n # db /\ node[n].parent \in dead
      /\ \A n \in Used' : node'[n].parent = node[n].parent
      /\ \A n \in Used' \ {p} : node'[n] = node[n]
      /\ p \in Used' => /\ w # db /\ p = node[w].parent /\ p \in NodeAddr
                        /\ TakingOut(NodeAddr, node[p].kids, k, node'[p].kids)
                        /\ node[p].kids[k] = w
  BY Deletes
<1> SUFFICES ASSUME db \in Used' PROVE Grown'
  BY DEF Grown
<1> HIDE DEF dead, k
<1>3. /\ p \in Used' =>
           /\ \A i \in DOMAIN node'[p].kids : node'[p].kids[i] \in ToSet(node[p].kids) \ {w}
           /\ \A i, j \in DOMAIN node'[p].kids : node'[p].kids[i] = node'[p].kids[j] => i = j
           /\ ToSet(node'[p].kids) = ToSet(node[p].kids) \ {w}
  <2> SUFFICES ASSUME p \in Used'
               PROVE  /\ \A i \in DOMAIN node'[p].kids : node'[p].kids[i] \in ToSet(node[p].kids) \ {w}
                      /\ \A i, j \in DOMAIN node'[p].kids : node'[p].kids[i] = node'[p].kids[j] => i = j
                      /\ ToSet(node'[p].kids) = ToSet(node[p].kids) \ {w}
    OBVIOUS
  <2>1. PICK s, t : /\ s = node[p].kids /\ t = node'[p].kids
                    /\ TakingOut(NodeAddr, s, k, t) /\ s[k] = w
    BY <1>2
  <2>2. \A i, j \in DOMAIN s : s[i] = s[j] => i = j
    BY <1>0, <1>2, <2>1 DEF Held
  <2>3. /\ \A i \in DOMAIN t : t[i] \in ToSet(s) \ {s[k]}
        /\ \A i, j \in DOMAIN t : t[i] = t[j] => i = j
        /\ ToSet(t) = ToSet(s) \ {s[k]}
    BY <2>1, <2>2, Rest
  <2> QED BY <2>1, <2>3
<1>4. ASSUME NEW x \in Used', NEW i \in DOMAIN node'[x].kids, NEW j \in DOMAIN node'[x].kids
      PROVE  /\ node'[x].kids[i] \in Used'
             /\ node'[node'[x].kids[i]].parent = x
             /\ node'[x].kids[i] = node'[x].kids[j] => i = j
  <2> DEFINE c == node'[x].kids[i]
  <2>1. c \in ToSet(node[x].kids) /\ (x = p => c # w) /\ (c = node'[x].kids[j] => i = j)
    <3>1. CASE x = p
      BY <1>3, <3>1
    <3>2. CASE x # p
      <4>1. node'[x] = node[x]
        BY <1>2, <3>2
      <4> QED BY <1>0, <1>2, <3>2, <4>1 DEF Held, ToSet
    <3> QED BY <3>1, <3>2
  <2> HIDE DEF c
  <2>2. c \in Used /\ node[c].parent = x /\ x \in Used /\ x \notin dead
    BY <1>0, <1>2, <2>1 DEF Held, ToSet
  <2>3. c # w
    <3>1. ASSUME c = w, x # p PROVE FALSE
      <4>1. w # db
        BY <1>0, <2>2, <3>1
      <4> QED BY <2>2, <3>1, <4>1 DEF Deleting
    <3> QED BY <2>1, <3>1
  <2>4. c \notin dead
    BY <1>2, <2>2, <2>3
  <2> QED BY <1>2, <2>1, <2>2, <2>4 DEF c
<1>5. Held'
  BY <1>4 DEF Held
<1>6. Holders'
  <2>1. ASSUME NEW x \in Used' \ {db}
        PROVE  node'[x].parent \in Used' /\ x \in ToSet(node'[node'[x].parent].kids)
    <3> DEFINE y == node[x].parent
    <3>1. x \in Used /\ x \notin dead /\ node'[x].parent = y /\ y \in Used /\ x \in ToSet(node[y].kids)
      BY <1>0, <1>2, <2>1 DEF Holders
    <3> HIDE DEF y
    <3>2. y \notin dead /\ x # w
      BY <1>1, <3>1
    <3>3. CASE y = p
      BY <1>2, <1>3, <3>1, <3>2, <3>3
    <3>4. CASE y # p
      BY <1>2, <3>1, <3>2, <3>4
    <3> QED BY <3>3, <3>4
  <2> QED BY <2>1 DEF Holders
<1>7. Ranked'
  BY <1>0, <1>2 DEF Ranked, Falls
<1> QED BY <1>0, <1>2, <1>5, <1>6, <1>7 DEF Grown

(* All that is on the heap is below the root.                              *)
LEMMA AllBelow ==
  ASSUME Heap, Grown, db \in Used
  PROVE  Whole[db] = Used
<1>0. Held /\ Holders /\ Ranked /\ Null \notin NodeAddr /\ Used \subseteq NodeAddr
  BY PdbAssumption DEF Grown, Used
<1>1. /\ db \in Whole[db] /\ Whole[db] \subseteq Used
      /\ \A n \in Whole[db] : ToSet(node[n].kids) \subseteq Whole[db]
  BY <1>0, WholeIs
<1>2. PICK rank \in [NodeAddr -> Nat] : Falls(rank)
  BY <1>0 DEF Ranked
<1> DEFINE B == {rank[a] : a \in Used \ Whole[db]}
<1>3. B = {}
  <2> SUFFICES ASSUME B # {} PROVE FALSE
    OBVIOUS
  <2>1. PICK n \in B : \A m \in B : n <= m
    <3>1. B \subseteq Nat
      BY <1>0
    <3> HIDE DEF B
    <3> QED BY <3>1, LeastNat
  <2>2. PICK a \in Used \ Whole[db] : rank[a] = n
    OBVIOUS
  <2>3. a # db /\ node[a].parent \in Used /\ a \in ToSet(node[node[a].parent].kids)
    BY <1>0, <1>1, <2>2 DEF Holders
  <2>4. node[a].parent \notin Whole[db]
    BY <1>1, <2>2, <2>3
  <2>5. rank[node[a].parent] < rank[a]
    BY <1>2, <2>2, <2>3 DEF Falls
  <2>6. rank[node[a].parent] \in B
    BY <2>3, <2>4
  <2>7. n <= rank[node[a].parent]
    BY <2>1, <2>6
  <2>8. rank[node[a].parent] \in Nat /\ rank[a] \in Nat
    BY <1>0, <2>2, <2>3
  <2> QED BY <2>2, <2>5, <2>7, <2>8
<1> QED BY <1>1, <1>3

-----------------------------------------------------------------------------
(* Every step keeps the tree.                                              *)

(* What a path leads to: the root, or the child of what the path above it  *)
(* leads to.                                                               *)
FoundAt(q) ==
  /\ Found(q) \in Used /\ db \in Used
  /\ \/ q = << >> /\ Found(q) = db
     \/ /\ q # << >> /\ Above(q) \in Paths /\ Found(q) # db
        /\ Found(Above(q)) \in Used /\ Answers(node[Found(Above(q))])
        /\ Found(q) = Child(Found(Above(q)), q[Len(q)])
        /\ node[Found(q)].parent = Found(Above(q))
        /\ node[Found(q)].id = q[Len(q)]

LEMMA FoundIs ==
  ASSUME Shape, Grown, Loads
  PROVE  \A q \in Paths : Found(q) # Null => FoundAt(q)
<1>0. Heap /\ Walks /\ Children /\ Null \notin NodeAddr /\ Used \subseteq NodeAddr
  BY WalkSteps, FirstChild, PdbAssumption DEF Shape, Used
<1> SUFFICES ASSUME NEW q \in Paths, Found(q) # Null PROVE FoundAt(q)
  OBVIOUS
<1>1. CASE q = << >>
  BY <1>0, <1>1 DEF Walks, FoundAt
<1>2. CASE q # << >>
  <2> DEFINE r == Above(q)
             n == Found(r)
             id == q[Len(q)]
             c == Found(q)
  <2>1. r \in Paths
    BY <1>2, PathIs
  <2>2. c = Onward(n, id)
    BY <1>0, <1>2 DEF Walks
  <2> HIDE DEF c, n, id, r
  <2>3. n \in NodeAddr /\ Answers(node[n]) /\ c = Child(n, id) /\ c # Null
    BY <2>2 DEF Onward, c
  <2>4. n \in Used
    <3>1. node[n].type # "free"
      BY <2>3, PdbAssumption DEF Answers, Containers
    <3> QED BY <1>0, <2>3, <3>1, UsedIs
  <2>5. db \in Used /\ Held /\ node[db].parent = Null
    BY <2>4 DEF Loads, Grown
  <2>6. ChildIs(n, id)
    BY <1>0, <2>3 DEF Children
  <2>7. PICK k \in DOMAIN node[n].kids : c = node[n].kids[k] /\ node[c].id = id
    BY <2>3, <2>6 DEF ChildIs, Called
  <2>8. c \in Used /\ node[c].parent = n
    BY <2>4, <2>5, <2>7 DEF Held
  <2>9. c # db
    BY <1>0, <2>4, <2>5, <2>8
  <2> QED BY <1>2, <2>1, <2>3, <2>4, <2>5, <2>7, <2>8, <2>9 DEF FoundAt, c, n, id, r
<1> QED BY <1>1, <1>2

LEMMA WalkFound ==
  ASSUME Shape, Grown, Loads, NEW path \in Paths,
         Walk(path).node # Null, Walk(path).fate = "ok"
  PROVE  Found(path) = Walk(path).node /\ FoundAt(path)
<1>1. Found(path) = Walk(path).node
  BY DEF Found, Landing
<1> QED BY <1>1, FoundIs

LEMMA WalkFails ==
  ASSUME Shape, NEW path \in Paths
  PROVE  Walk(path).fate \in {"ok", "crash", "wild"} /\ Walk(path).node \in NodeAddr \cup {Null}
BY WalkSteps DEF Walks, Spots

LEMMA FailsKeep ==
  ASSUME PdbInv, NEW f \in {"crash", "wild", "hang", "leak"}, Fails(f)
  PROVE  PdbInv'
BY DEF PdbInv, Fails, Shape, Heap

(* The loader's blocks after a step.                                       *)
Stays(n) == /\ node'[n].type = node[n].type /\ node'[n].id = node[n].id
            /\ node'[n].parent = node[n].parent /\ (node[n].table => node'[n].table)

LEMMA LoadsOn ==
  ASSUME Loads, stack \in Seq(NodeAddr), UNCHANGED <<db, stack>>,
         db' \notin Used' => Used' = {} /\ stack = << >>,
         stack # << >> => Used \subseteq Used' /\ \A n \in Used : Stays(n)
  PROVE  Loads'
<1>1. CASE stack = << >>
  BY <1>1, PdbAssumption DEF Loads
<1>2. CASE stack # << >>
  BY <1>2 DEF Loads, Stays
<1> QED BY <1>1, <1>2

(* What is put on the heap.                                                *)
Fitting(type, id, p, v) ==
  /\ type \in Kinds /\ id \in Ids /\ p \in NodeAddr /\ v \in Values \cup NodeAddr \cup {Null}
  /\ type = "string" => v \in Values \cup {Null}
  /\ type = "link" => v \in NodeAddr
  /\ type \in Containers => v = Null
Untabled(id, p) == [NewNode("hash", id, p, Null) EXCEPT !.table = FALSE]

LEMMA NewNodeIs ==
  ASSUME NEW type, NEW id, NEW p, NEW v, Fitting(type, id, p, v)
  PROVE  /\ NewNode(type, id, p, v) \in Nodes /\ Sound(NewNode(type, id, p, v))
         /\ type = "hash" => Untabled(id, p) \in Nodes /\ Sound(Untabled(id, p))
<1>1. type # "free"
  BY PdbAssumption DEF Fitting
<1>2. << >> \in Seq(NodeAddr)
  OBVIOUS
<1>3. NewNode(type, id, p, v) \in Nodes /\ Sound(NewNode(type, id, p, v))
  BY <1>1, <1>2 DEF NewNode, Fitting, Nodes, Sound
<1>4. ASSUME type = "hash" PROVE Untabled(id, p) \in Nodes /\ Sound(Untabled(id, p))
  <2>1. PICK r : r = NewNode("hash", id, p, Null)
    OBVIOUS
  <2>2. r \in Nodes /\ r.type = "hash" /\ r.kids = << >> /\ r.data = Null
    BY <1>2, <1>4, <2>1 DEF NewNode, Fitting, Nodes
  <2>3. Untabled(id, p) = [r EXCEPT !.table = FALSE]
    BY <2>1 DEF Untabled
  <2> QED BY <2>2, <2>3 DEF Nodes, Sound
<1> QED BY <1>3, <1>4

LEMMA CreatedIs ==
  ASSUME NEW a \in Malloc, NEW type, NEW id, NEW p \in Used, NEW v, Fitting(type, id, p, v),
         node[p].table, node' = Created(a, NewNode(type, id, p, v))
  PROVE  Creating(a, p, NewNode(type, id, p, v))
<1>1. a \in NodeAddr \ Used /\ type # "free"
  BY PdbAssumption DEF Malloc, Fitting
<1>2. PICK new : new = NewNode(type, id, p, v)
  OBVIOUS
<1>3. new \in Nodes /\ Sound(new) /\ new.type = type /\ new.parent = p /\ new.kids = << >>
  BY <1>2, NewNodeIs DEF NewNode
<1>4. node' = Created(a, new)
  BY <1>2
<1>5. Creating(a, p, new)
  BY <1>1, <1>3, <1>4 DEF Creating, Created
<1> QED BY <1>2, <1>5

LEMMA UntabledIs ==
  ASSUME NEW a \in Malloc, NEW id \in Ids, NEW p \in Used, "hash" \in Kinds,
         node[p].table, node' = Created(a, Untabled(id, p))
  PROVE  Creating(a, p, Untabled(id, p))
<1>1. a \in NodeAddr \ Used /\ p \in NodeAddr
  BY DEF Malloc, Used
<1>2. PICK new, r : new = Untabled(id, p) /\ r = NewNode("hash", id, p, Null)
  OBVIOUS
<1>3. new \in Nodes /\ Sound(new)
  BY <1>1, <1>2, NewNodeIs DEF Fitting, Containers
<1>4. r.type = "hash" /\ r.parent = p /\ r.kids = << >> /\ new = [r EXCEPT !.table = FALSE]
  BY <1>2 DEF NewNode, Untabled
<1>5. new.type = "hash" /\ new.parent = p /\ new.kids = << >>
  <2>1. r = [type |-> "hash", id |-> id, parent |-> p, data |-> Null, kids |-> << >>, table |-> TRUE]
    BY <1>2 DEF NewNode
  <2> QED BY <1>4, <2>1
<1>6. node' = Created(a, new)
  BY <1>2
<1>7. Creating(a, p, new)
  BY <1>1, <1>3, <1>5, <1>6 DEF Creating, Created
<1> QED BY <1>2, <1>7

(* A step that creates a node, and leaves the loader where it is, in the   *)
(* block that it created, or at its end.                                   *)
LEMMA CreateStep ==
  ASSUME PdbInv, fate = "ok", NEW a, NEW p, NEW new, Creating(a, p, new), UNCHANGED <<db, fate>>,
         \/ stack' = stack
         \/ stack' = << >>
         \/ /\ stack' = Append(stack, a) /\ stack # << >> /\ Last(stack) = p
            /\ Len(stack) < MaxDepth
            /\ new.type \in Containers /\ new.table /\ new.id \in Ids
  PROVE  PdbInv'
<1>0. Shape /\ Grown /\ Loads /\ Heap
  BY DEF PdbInv, Shape
<1>1. /\ Heap' /\ Used' = Used \cup {a} /\ a \notin Used /\ p \in Used /\ node'[a] = new
      /\ \A n \in Used : Stays(n)
  BY <1>0, Creates DEF Stays
<1>2. db \in Used /\ new.parent = p /\ a \in NodeAddr
  BY <1>0, <1>1 DEF Loads, Creating
<1>3. Grown'
  BY <1>0, <1>2, CreateGrows
<1>4. Loads' /\ stack' \in Seq(NodeAddr)
  <2>0. stack \in Seq(NodeAddr) /\ MaxDepth \in Nat
    BY <1>0, PdbAssumption DEF Shape
  <2>1. CASE stack' = stack
    <3>1. db' \in Used'
      BY <1>1, <1>2
    <3> QED BY <1>0, <1>1, <2>0, <2>1, <3>1, LoadsOn
  <2>2. CASE stack' = << >>
    <3>1. db' \in Used'
      BY <1>1, <1>2
    <3>2. Len(stack') = 0 /\ stack' \in Seq(NodeAddr) /\ DOMAIN stack' = {} /\ 2 .. Len(stack') = {}
      BY <2>2
    <3> QED BY <2>0, <2>2, <3>1, <3>2 DEF Loads
  <2>3. CASE /\ stack' = Append(stack, a) /\ stack # << >> /\ Last(stack) = p
             /\ Len(stack) < MaxDepth
             /\ new.type \in Containers /\ new.table /\ new.id \in Ids
    <3> DEFINE n == Len(stack)
    <3>1. PICK s, t : s = stack /\ t = stack'
      OBVIOUS
    <3>2. /\ n \in Nat /\ n > 0 /\ s \in Seq(NodeAddr) /\ t \in Seq(NodeAddr)
          /\ Len(t) = n + 1 /\ DOMAIN s = 1 .. n /\ DOMAIN t = 1 .. n + 1
          /\ t[n + 1] = a /\ \A i \in 1 .. n : t[i] = s[i]
      BY <1>2, <2>0, <2>3, <3>1
    <3>3. s[n] = p /\ n < MaxDepth
      BY <2>3, <3>1 DEF Last
    <3>4. t # << >> /\ t[1] = db /\ db' \in Used'
      <4>1. 1 \in 1 .. n /\ stack[1] = db
        BY <1>0, <2>3, <3>2 DEF Loads
      <4>2. t # << >>
        BY <3>2
      <4> QED BY <1>1, <1>2, <3>1, <3>2, <4>1, <4>2
    <3>5. ASSUME NEW i \in 1 .. n + 1
          PROVE  t[i] \in Used' /\ node'[t[i]].table /\ node'[t[i]].type \in Containers
      <4>1. CASE i = n + 1
        BY <1>1, <2>3, <3>2, <4>1
      <4>2. CASE i \in 1 .. n
        BY <1>0, <1>1, <3>1, <3>2, <4>2 DEF Loads, Stays
      <4> QED BY <3>2, <4>1, <4>2
    <3>6. ASSUME NEW i \in 2 .. n + 1
          PROVE  node'[t[i]].parent = t[i - 1] /\ node'[t[i]].id \in Ids
      <4>1. CASE i = n + 1
        <5>1. i - 1 = n /\ n \in 1 .. n
          BY <3>2, <4>1
        <5> QED BY <1>1, <1>2, <2>3, <3>2, <3>3, <4>1, <5>1
      <4>2. CASE i \in 2 .. n
        <5>1. i \in 1 .. n /\ i - 1 \in 1 .. n
          BY <3>2, <4>2
        <5>2. s[i] \in Used /\ node[s[i]].parent = s[i - 1] /\ node[s[i]].id \in Ids
          BY <1>0, <3>1, <3>2, <4>2, <5>1 DEF Loads
        <5> QED BY <1>1, <3>2, <5>1, <5>2 DEF Stays
      <4> QED BY <3>2, <4>1, <4>2
    <3>7. n + 1 <= MaxDepth
      BY <2>0, <3>2, <3>3
    <3> HIDE DEF n
    <3> QED BY <1>2, <3>1, <3>2, <3>4, <3>5, <3>6, <3>7 DEF Loads
  <2> QED BY <2>1, <2>2, <2>3
<1>5. db' \in NodeAddr \cup {Null} /\ fate' = "ok"
  BY <1>0 DEF Shape
<1> QED BY <1>1, <1>3, <1>4, <1>5 DEF PdbInv, Shape

LEMMA OpenStep ==
  ASSUME PdbInv, NEW a \in Malloc, NEW file \in BOOLEAN, Open(a, file)
  PROVE  PdbInv'
<1> DEFINE new == NewNode("tree", Null, Null, Null)
<1>0. /\ Shape /\ Heap /\ Loads /\ a \in NodeAddr /\ Used = {} /\ fate = "ok" /\ fate' = "ok"
      /\ db' = a /\ node' = [node EXCEPT ![a] = new] /\ stack' = IF file THEN <<a>> ELSE << >>
      /\ Null \notin NodeAddr /\ MaxDepth \in Nat /\ MaxDepth > 0
  BY PdbAssumption DEF PdbInv, Shape, Open, Ready, Malloc, Loads, Used
<1>1. << >> \in Seq(NodeAddr) /\ DOMAIN << >> = {}
  OBVIOUS
<1>2. /\ new \in Nodes /\ Sound(new) /\ new.type = "tree" /\ new.kids = << >> /\ new.parent = Null
      /\ new.table /\ "tree" \in Containers
  BY <1>1, PdbAssumption DEF NewNode, Nodes, Sound, Containers
<1> HIDE DEF new
<1>3. node'[a] = new /\ \A n \in NodeAddr \ {a} : node'[n] = node[n]
  BY <1>0 DEF Heap
<1>4. Heap'
  BY <1>0, <1>2, <1>3 DEF Heap
<1>5. Used' = {a}
  BY <1>0, <1>2, <1>3, <1>4, UsedIs, UsedThen
<1>6. Grown'
  <2>1. DOMAIN node'[a].kids = {}
    BY <1>1, <1>2, <1>3
  <2>2. Held'
    BY <1>5, <2>1 DEF Held
  <2>3. Holders'
    BY <1>0, <1>5 DEF Holders
  <2>4. Ranked'
    <3> DEFINE rank == [n \in NodeAddr |-> 0]
    <3>1. rank \in [NodeAddr -> Nat]
      OBVIOUS
    <3>2. Falls(rank)'
      BY <1>0, <1>5 DEF Falls
    <3> QED BY <3>1, <3>2 DEF Ranked
  <2> QED BY <1>0, <1>2, <1>3, <2>2, <2>3, <2>4 DEF Grown
<1>7. PICK s : s = stack' /\ s \in {<<a>>, << >>}
  BY <1>0
<1>8. /\ s \in Seq(NodeAddr) /\ Len(s) <= MaxDepth /\ 2 .. Len(s) = {}
      /\ \A i \in DOMAIN s : s[i] = a
      /\ s # << >> => s[1] = a
  <2>1. CASE s = << >>
    BY <1>0, <2>1
  <2>2. CASE s = <<a>>
    BY <1>0, <2>2
  <2> QED BY <1>7, <2>1, <2>2
<1>9. Loads'
  BY <1>0, <1>2, <1>3, <1>5, <1>7, <1>8 DEF Loads
<1> QED BY <1>0, <1>4, <1>6, <1>7, <1>8, <1>9 DEF PdbInv, Shape

(* A step that changes neither the nodes nor the root, nor what went wrong. *)
LEMMA StackStep ==
  ASSUME PdbInv, UNCHANGED <<db, node, fate>>, stack' \in Seq(NodeAddr),
         Len(stack') <= Len(stack), \A i \in 1 .. Len(stack') : stack'[i] = stack[i]
  PROVE  PdbInv'
<1>0. Shape /\ Heap
  BY DEF PdbInv, Shape
<1>1. Shape'
  BY <1>0 DEF Shape, Heap
<1>2. ASSUME fate = "ok" PROVE Grown' /\ Loads'
  <2>1. Grown /\ Loads
    BY <1>2 DEF PdbInv
  <2>2. Grown'
    BY <2>1 DEF Grown, Held, Holders, Ranked, Falls, Used
  <2>3. PICK s, t : s = stack /\ t = stack'
    OBVIOUS
  <2>4. /\ s \in Seq(NodeAddr) /\ t \in Seq(NodeAddr) /\ Len(s) \in Nat /\ Len(t) \in Nat
        /\ Len(t) <= Len(s) /\ \A i \in 1 .. Len(t) : t[i] = s[i]
        /\ DOMAIN t = 1 .. Len(t) /\ DOMAIN s = 1 .. Len(s)
    BY <1>0, <2>3 DEF Shape
  <2>5. t # << >> => s # << >> /\ t[1] = s[1]
    BY <2>4
  <2>6. \A i \in 2 .. Len(t) : i \in 2 .. Len(s) /\ t[i] = s[i] /\ t[i - 1] = s[i - 1]
    BY <2>4
  <2>7. Used' = Used
    BY DEF Used
  <2>8. Len(t) <= MaxDepth
    BY <2>1, <2>3, <2>4, PdbAssumption DEF Loads
  <2>9. Loads'
    BY <2>1, <2>3, <2>4, <2>5, <2>6, <2>7, <2>8 DEF Loads
  <2> QED BY <2>2, <2>9
<1> QED BY <1>1, <1>2 DEF PdbInv

(* The block that the loader is in.                                        *)
LEMMA Innermost ==
  ASSUME PdbInv, Loading
  PROVE  /\ fate = "ok" /\ Last(stack) \in Used /\ node[Last(stack)].table
         /\ node[Last(stack)].type \in Containers
<1>1. stack \in Seq(NodeAddr) /\ stack # << >> /\ fate = "ok" /\ Loads
  BY DEF PdbInv, Shape, Loading
<1>2. Len(stack) \in DOMAIN stack
  BY <1>1
<1> QED BY <1>1, <1>2 DEF Loads, Last

LEMMA LoadLeafStep ==
  ASSUME PdbInv, NEW id \in Ids, NEW v \in Values \cup {Null}, NEW a \in Malloc, LoadLeaf(id, v, a)
  PROVE  PdbInv'
<1> DEFINE p == Last(stack)
<1>0. /\ fate = "ok" /\ p \in Used /\ node[p].table /\ UNCHANGED <<db, stack, fate>>
      /\ p \in NodeAddr /\ stack \in Seq(NodeAddr)
  BY Innermost DEF LoadLeaf, Used, PdbInv, Shape
<1>1. CASE Refused(p, id)
  BY <1>0, <1>1, StackStep DEF LoadLeaf
<1>2. CASE ~Refused(p, id)
  <2>1. node' = Created(a, NewNode("string", id, p, v))
    BY <1>2 DEF LoadLeaf
  <2> HIDE DEF p
  <2>2. Fitting("string", id, p, v)
    BY <1>0, PdbAssumption DEF Fitting, Containers
  <2>3. Creating(a, p, NewNode("string", id, p, v))
    BY <1>0, <2>1, <2>2, CreatedIs
  <2> QED BY <1>0, <2>3, CreateStep
<1> QED BY <1>1, <1>2

LEMMA LoadBlockStep ==
  ASSUME PdbInv, NEW id \in Ids, NEW type \in Containers, NEW a \in Malloc, LoadBlock(type, id, a)
  PROVE  PdbInv'
<1> DEFINE p == Last(stack)
           new == NewNode(type, id, p, Null)
<1>0. /\ fate = "ok" /\ p \in Used /\ node[p].table /\ Len(stack) < MaxDepth /\ p \in NodeAddr
      /\ stack # << >>
  BY Innermost DEF LoadBlock, Used, Loading
<1>1. CASE Refused(p, id)
  BY <1>1, FailsKeep DEF LoadBlock
<1>2. CASE ~Refused(p, id)
  <2>1. node' = Created(a, new) /\ stack' = Append(stack, a) /\ UNCHANGED <<db, fate>>
    BY <1>2 DEF LoadBlock
  <2>2. Fitting(type, id, p, Null)
    BY <1>0, PdbAssumption DEF Fitting, Containers
  <2>3. Creating(a, p, new)
    <3> HIDE DEF p
    <3> QED BY <1>0, <2>1, <2>2, CreatedIs
  <2>4. new.type = type /\ new.id = id /\ new.table
    BY DEF NewNode
  <2> HIDE DEF new
  <2> QED BY <1>0, <2>1, <2>3, <2>4, CreateStep
<1> QED BY <1>1, <1>2

LEMMA LoadUnsizedStep ==
  ASSUME PdbInv, NEW id \in Ids, NEW a \in Malloc, LoadUnsized(id, a)
  PROVE  PdbInv'
<1> DEFINE p == Last(stack)
<1>0. /\ fate = "ok" /\ p \in Used /\ node[p].table /\ "hash" \in Kinds /\ p \in NodeAddr
  BY Innermost DEF LoadUnsized, Used
<1>1. CASE Fails("wild")
  BY <1>1, FailsKeep
<1>2. CASE ~Fails("wild")
  <2>1. UNCHANGED <<db, fate>> /\ stack' = << >>
        /\ node' = IF Refused(p, id) THEN node ELSE Created(a, Untabled(id, p))
    BY <1>2 DEF LoadUnsized, Untabled
  <2>2. CASE Refused(p, id)
    <3>1. stack' \in Seq(NodeAddr) /\ Len(stack') = 0 /\ Len(stack) \in Nat
      BY <2>1 DEF PdbInv, Shape
    <3>2. Len(stack') <= Len(stack) /\ \A i \in 1 .. Len(stack') : stack'[i] = stack[i]
      BY <3>1
    <3> QED BY <2>1, <2>2, <3>1, <3>2, StackStep
  <2>3. CASE ~Refused(p, id)
    <3>1. Creating(a, p, Untabled(id, p))
      <4>1. node' = Created(a, Untabled(id, p))
        BY <2>1, <2>3
      <4> HIDE DEF p
      <4> QED BY <1>0, <4>1, UntabledIs
    <3> QED BY <1>0, <2>1, <3>1, CreateStep
  <2> QED BY <2>2, <2>3
<1> QED BY <1>1, <1>2

LEMMA LoadEndsStep ==
  ASSUME PdbInv, LoadClose \/ LoadEnd
  PROVE  PdbInv'
<1>0. stack \in Seq(NodeAddr) /\ stack # << >>
  BY DEF PdbInv, Shape, LoadClose, LoadEnd, Loading
<1>1. CASE LoadClose
  <2>1. /\ Front(stack) \in Seq(NodeAddr) /\ Len(Front(stack)) <= Len(stack)
        /\ \A i \in 1 .. Len(Front(stack)) : Front(stack)[i] = stack[i]
    <3>1. PICK m : m = Len(stack) - 1
      OBVIOUS
    <3>2. m \in Nat /\ m <= Len(stack) /\ \A i \in 1 .. m : stack[i] \in NodeAddr
      BY <1>0, <3>1
    <3>3. /\ SubSeq(stack, 1, m) \in Seq(NodeAddr)
          /\ Len(SubSeq(stack, 1, m)) = IF 1 <= m THEN m - 1 + 1 ELSE 0
          /\ \A i \in 1 .. m - 1 + 1 : SubSeq(stack, 1, m)[i] = stack[1 + i - 1]
      BY <3>2, SubSeqProperties
    <3>4. Len(SubSeq(stack, 1, m)) = m /\ \A i \in 1 .. m : SubSeq(stack, 1, m)[i] = stack[i]
      <4>1. m - 1 + 1 = m /\ \A i \in 1 .. m : 1 + i - 1 = i
        BY <3>2
      <4>2. Len(SubSeq(stack, 1, m)) = m
        BY <3>2, <3>3
      <4>3. \A i \in 1 .. m : SubSeq(stack, 1, m)[i] = stack[i]
        BY <3>3, <4>1
      <4> QED BY <4>2, <4>3
    <3>5. Front(stack) = SubSeq(stack, 1, m)
      BY <3>1 DEF Front
    <3> QED BY <3>2, <3>3, <3>4, <3>5
  <2>2. stack' = Front(stack) /\ UNCHANGED <<db, node, fate>>
    BY <1>1 DEF LoadClose
  <2> QED BY <2>1, <2>2, StackStep
<1>2. CASE LoadEnd
  <2>1. stack' = << >> /\ UNCHANGED <<db, node, fate>>
    BY <1>2 DEF LoadEnd
  <2>2. stack' \in Seq(NodeAddr) /\ Len(stack') = 0 /\ Len(stack) \in Nat
    BY <1>0, <2>1
  <2>3. Len(stack') <= Len(stack) /\ \A i \in 1 .. Len(stack') : stack'[i] = stack[i]
    BY <2>2
  <2> QED BY <2>1, <2>2, <2>3, StackStep
<1> QED BY <1>1, <1>2

LEMMA AskStep ==
  ASSUME PdbInv, NEW path \in Paths, Query(path) \/ ListRoot(path)
  PROVE  PdbInv'
<1>1. Walk(path).fate \in {"ok", "crash", "wild"}
  BY WalkFails DEF PdbInv
<1> QED BY <1>1, FailsKeep DEF Query, ListRoot

(* Setting what is there.                                                  *)
LEMMA OverwriteStep ==
  ASSUME PdbInv, fate = "ok", NEW n \in Used, NEW type, NEW v \in Values,
         Overwrite(n, type, v), UNCHANGED <<db, stack>>, type \in Kinds \ {"link"}
  PROVE  PdbInv'
<1>0. /\ Shape /\ Heap /\ Grown /\ Loads /\ n \in NodeAddr /\ node[n] \in Nodes /\ Sound(node[n])
      /\ stack \in Seq(NodeAddr) /\ fate = "ok"
  BY DEF PdbInv, Shape, Used, Heap
<1>1. CASE UNCHANGED <<node, fate>>
  BY <1>0, <1>1, StackStep
<1>2. CASE fate' \in {"leak", "wild"} /\ UNCHANGED node
  BY <1>0, <1>2 DEF PdbInv, Shape, Heap
<1>3. ASSUME NEW new, Rewriting(n, new), fate' = fate, node[n].table => new.table
      PROVE  PdbInv'
  <2>1. /\ Heap' /\ Used' = Used
        /\ node'[n] = new /\ \A m \in NodeAddr \ {n} : node'[m] = node[m]
        /\ \A m \in Used : /\ node'[m].type = node[m].type /\ node'[m].id = node[m].id
                           /\ node'[m].parent = node[m].parent /\ node'[m].kids = node[m].kids
    BY <1>0, <1>3, Rewrites
  <2>2. Grown'
    BY <1>0, <2>1, AlikeGrows DEF Alike
  <2>3. \A m \in Used : Stays(m)
    BY <1>3, <2>1 DEF Stays, Used
  <2>4. Loads'
    <3>1. db' \notin Used' => Used' = {} /\ stack = << >>
      BY <1>0, <2>1 DEF Loads
    <3> QED BY <1>0, <2>1, <2>3, <3>1, LoadsOn
  <2> QED BY <1>0, <1>3, <2>1, <2>2, <2>4 DEF PdbInv, Shape
<1>4. CASE type = node[n].type /\ type = "string" /\ node' = [node EXCEPT ![n].data = v] /\ UNCHANGED fate
  <2>1. PICK q, new : q = node[n] /\ new = [q EXCEPT !.data = v]
    OBVIOUS
  <2>2. /\ new \in Nodes /\ new.type = q.type /\ new.id = q.id /\ new.parent = q.parent
        /\ new.kids = q.kids /\ new.table = q.table /\ new.data = v
    BY <1>0, <2>1 DEF Nodes
  <2>3. Sound(new)
    BY <1>0, <1>4, <2>1, <2>2, PdbAssumption DEF Sound, Containers
  <2>4. node' = [node EXCEPT ![n] = new]
    BY <1>4, <2>1
  <2>5. Rewriting(n, new)
    BY <2>1, <2>2, <2>3, <2>4 DEF Rewriting
  <2> QED BY <1>3, <1>4, <2>1, <2>2, <2>5
<1>5. CASE type = node[n].type /\ type = "hash" /\ node' = [node EXCEPT ![n].table = TRUE] /\ UNCHANGED fate
  <2>1. PICK q, new : q = node[n] /\ new = [q EXCEPT !.table = TRUE]
    OBVIOUS
  <2>2. /\ new \in Nodes /\ new.type = q.type /\ new.id = q.id /\ new.parent = q.parent
        /\ new.kids = q.kids /\ new.table /\ new.data = q.data
    BY <1>0, <2>1 DEF Nodes
  <2>3. Sound(new)
    BY <1>0, <1>5, <2>1, <2>2 DEF Sound
  <2>4. node' = [node EXCEPT ![n] = new]
    BY <1>5, <2>1
  <2>5. Rewriting(n, new)
    BY <2>1, <2>2, <2>3, <2>4 DEF Rewriting
  <2> QED BY <1>3, <1>5, <2>1, <2>2, <2>5
<1> QED
  <2>1. type \in {"tree", "list", "string", "hash"}
    BY PdbAssumption
  <2>2. CASE type \in {"tree", "list"}
    BY <1>1, <2>2 DEF Overwrite
  <2>3. CASE type \in {"string", "hash"} /\ type # node[n].type
    BY <1>2, <2>3 DEF Overwrite
  <2>4. CASE type = "string" /\ type = node[n].type
    BY <1>4, <2>4 DEF Overwrite
  <2>5. CASE type = "hash" /\ type = node[n].type
    BY <1>2, <1>5, <2>5 DEF Overwrite
  <2> QED BY <2>1, <2>2, <2>3, <2>4, <2>5

(* What a path leads to when a change goes through.                        *)
LEMMA Reached ==
  ASSUME PdbInv, fate = "ok", NEW path \in Paths, Walk(path).node # Null, Walk(path).fate = "ok"
  PROVE  /\ Found(path) = Walk(path).node /\ FoundAt(path)
         /\ Walk(path).node \in Used /\ Walk(path).node \in NodeAddr /\ db \in Used
<1>1. Found(path) = Walk(path).node /\ FoundAt(path)
  BY WalkFound DEF PdbInv
<1> QED BY <1>1 DEF FoundAt, Used

LEMMA SetStep ==
  ASSUME PdbInv, NEW path \in Paths, NEW key \in Ids, NEW type \in Kinds, NEW v \in Values,
         NEW a \in Malloc, Set(path, key, type, v, a)
  PROVE  PdbInv'
<1> DEFINE p == Walk(path).node
           c == Child(p, key)
           d == IF type = "string" THEN v ELSE Null
<1>0. /\ fate = "ok" /\ type # "link" /\ p # Null /\ Walk(path).fate \in {"ok", "crash", "wild"}
      /\ Null \notin NodeAddr
  BY WalkFails, PdbAssumption DEF Set, Ready, PdbInv
<1>1. CASE \E f \in {"crash", "wild"} : Fails(f)
  BY <1>1, FailsKeep
<1>2. CASE ~ \E f \in {"crash", "wild"} : Fails(f)
  <2>1. /\ Walk(path).fate = "ok" /\ node[p].table /\ UNCHANGED <<db, stack>>
        /\ IF c # Null THEN Overwrite(c, type, v)
           ELSE node' = Created(a, NewNode(type, key, p, d)) /\ UNCHANGED fate
    BY <1>0, <1>2 DEF Set
  <2>2. p \in Used /\ p \in NodeAddr /\ db \in Used
    BY <1>0, <2>1, Reached
  <2> HIDE DEF p
  <2>3. CASE c # Null
    <3>1. ChildIs(p, key) /\ Held
      BY <2>2, FirstChild DEF Children, PdbInv, Shape, Grown, Loading, Set, Ready
    <3>2. c \in Used
      BY <1>0, <2>2, <2>3, <3>1 DEF ChildIs, Held, PdbInv
    <3> HIDE DEF c
    <3> QED BY <1>0, <2>1, <2>3, <3>2, OverwriteStep
  <2>4. CASE c = Null
    <3>1. node' = Created(a, NewNode(type, key, p, d)) /\ UNCHANGED fate
      BY <2>1, <2>4
    <3>2. Fitting(type, key, p, d)
      BY <1>0, <2>2, PdbAssumption DEF Fitting, Containers
    <3> HIDE DEF d
    <3>3. Creating(a, p, NewNode(type, key, p, d))
      BY <2>1, <2>2, <3>1, <3>2, CreatedIs
    <3> QED BY <1>0, <2>1, <3>1, <3>3, CreateStep
  <2> QED BY <2>3, <2>4
<1> QED BY <1>1, <1>2

LEMMA LinkStep ==
  ASSUME PdbInv, NEW path \in Paths, NEW key \in Ids, NEW target \in Used,
         NEW a \in Malloc, Link(path, key, target, a)
  PROVE  PdbInv'
<1> DEFINE p == Walk(path).node
<1>0. /\ fate = "ok" /\ p # Null /\ Walk(path).fate \in {"ok", "crash", "wild"} /\ "link" \in Kinds
      /\ target \in NodeAddr
  BY WalkFails DEF Link, Ready, PdbInv, Used
<1>1. CASE \E f \in {"crash", "wild"} : Fails(f)
  BY <1>1, FailsKeep
<1>2. CASE ~ \E f \in {"crash", "wild"} : Fails(f)
  <2>1. /\ Walk(path).fate = "ok" /\ node[p].table /\ UNCHANGED <<db, stack, fate>>
        /\ node' = Created(a, NewNode("link", key, p, target))
    BY <1>0, <1>2 DEF Link
  <2>2. p \in Used /\ p \in NodeAddr
    BY <1>0, <2>1, Reached
  <2> HIDE DEF p
  <2>3. Fitting("link", key, p, target)
    BY <1>0, <2>2 DEF Fitting, Containers
  <2>4. Creating(a, p, NewNode("link", key, p, target))
    BY <2>1, <2>2, <2>3, CreatedIs
  <2> QED BY <1>0, <2>1, <2>4, CreateStep
<1> QED BY <1>1, <1>2

(* Deletion of what a path leads to takes it out of its parent.            *)
LEMMA DelIs ==
  ASSUME PdbInv, NEW path \in Paths, Del(path)
  PROVE  \/ \E f \in {"crash", "wild", "hang"} : Fails(f)
         \/ /\ Walk(path).fate = "ok" /\ Walk(path).node # Null
            /\ Deleting(Walk(path).node, node[Walk(path).node].parent)
            /\ UNCHANGED <<db, stack, fate>>
<1> DEFINE w == Walk(path).node
           p == node[w].parent
<1>0. fate = "ok" /\ w # Null /\ Walk(path).fate \in {"ok", "crash", "wild"}
  BY WalkFails DEF Del, Ready, PdbInv
<1> SUFFICES ASSUME ~ \E f \in {"crash", "wild", "hang"} : Fails(f)
             PROVE  /\ Walk(path).fate = "ok" /\ Deleting(w, p) /\ UNCHANGED <<db, stack, fate>>
  BY <1>0
<1>1. /\ Walk(path).fate = "ok" /\ UNCHANGED <<db, stack, fate>>
      /\ node' = Without(Whole[w], p, node[w].id)
  BY <1>0 DEF Del
<1>2. Found(path) = w /\ FoundAt(path) /\ w \in Used /\ db \in Used
  BY <1>0, <1>1, Reached
<1>3. node[db].parent = Null
  BY <1>0, <1>2 DEF PdbInv, Grown
<1>4. \/ p = Null /\ w = db
      \/ w # db /\ Child(p, node[w].id) = w
  BY <1>2, <1>3 DEF FoundAt
<1> QED BY <1>1, <1>2, <1>4 DEF Deleting

LEMMA DelStep ==
  ASSUME PdbInv, NEW path \in Paths, Del(path)
  PROVE  PdbInv'
<1> DEFINE w == Walk(path).node
           p == node[w].parent
<1>1. CASE \E f \in {"crash", "wild", "hang"} : Fails(f)
  BY <1>1, FailsKeep
<1>2. CASE ~ \E f \in {"crash", "wild", "hang"} : Fails(f)
  <2>1. Deleting(w, p) /\ UNCHANGED <<db, stack, fate>>
    BY <1>2, DelIs
  <2>2. Shape /\ Heap /\ Grown /\ Loads /\ fate = "ok" /\ stack = << >> /\ db \in Used
    BY <2>1 DEF PdbInv, Shape, Del, Ready, Deleting
  <2> HIDE DEF w, p
  <2>3. /\ Heap' /\ Used' = Used \ Whole[w]
        /\ \A n \in Whole[w] \ {w} : n # db /\ node[n].parent \in Whole[w]
    BY <2>1, <2>2, Deletes
  <2>4. Grown'
    BY <2>1, <2>2, DeleteGrows
  <2>5. db' \notin Used' => Used' = {}
    <3>1. ASSUME db \notin Used' PROVE w = db
      <4>1. db \in Whole[w]
        BY <2>2, <2>3, <3>1
      <4> QED BY <2>3, <4>1
    <3>2. w = db => Used' = {}
      BY <2>2, <2>3, AllBelow
    <3> QED BY <2>1, <3>1, <3>2
  <2>6. Loads'
    BY <2>1, <2>2, <2>5, LoadsOn DEF Shape
  <2> QED BY <2>1, <2>2, <2>3, <2>4, <2>6 DEF PdbInv, Shape
<1> QED BY <1>1, <1>2

LEMMA UnloadIs ==
  ASSUME PdbInv, Unload
  PROVE  \/ \E f \in {"crash", "wild"} : Fails(f)
         \/ /\ db \in Used /\ Deleting(db, Null) /\ db' = Null /\ UNCHANGED <<stack, fate>>
<1> SUFFICES ASSUME ~ \E f \in {"crash", "wild"} : Fails(f)
             PROVE  /\ db \in Used /\ Deleting(db, Null) /\ db' = Null /\ UNCHANGED <<stack, fate>>
  OBVIOUS
<1>1. /\ db \in Used /\ db' = Null /\ UNCHANGED <<stack, fate>>
      /\ node' = Without(Whole[db], Null, Null)
  BY DEF Unload
<1>2. Null \notin NodeAddr
  BY PdbAssumption
<1>3. Without(Whole[db], Null, Null) = Without(Whole[db], Null, node[db].id)
  BY <1>2 DEF Without
<1> QED BY <1>1, <1>3 DEF Deleting

LEMMA UnloadStep ==
  ASSUME PdbInv, Unload
  PROVE  PdbInv'
<1>1. CASE \E f \in {"crash", "wild"} : Fails(f)
  BY <1>1, FailsKeep
<1>2. CASE ~ \E f \in {"crash", "wild"} : Fails(f)
  <2>1. db \in Used /\ Deleting(db, Null) /\ db' = Null /\ UNCHANGED <<stack, fate>>
    BY <1>2, UnloadIs
  <2>2. Shape /\ Heap /\ Grown /\ Loads /\ fate = "ok" /\ stack = << >>
    BY DEF PdbInv, Shape, Unload, Ready
  <2>3. Heap' /\ Used' = Used \ Whole[db]
    BY <2>1, <2>2, Deletes
  <2>4. Used' = {}
    BY <2>1, <2>2, <2>3, AllBelow
  <2>5. Grown'
    BY <2>4 DEF Grown
  <2>6. Loads'
    <3>1. stack' = << >> /\ Len(stack') = 0 /\ DOMAIN stack' = {} /\ 2 .. Len(stack') = {}
      BY <2>1, <2>2
    <3> QED BY <2>4, <3>1, PdbAssumption DEF Loads
  <2> QED BY <2>1, <2>2, <2>3, <2>5, <2>6 DEF PdbInv, Shape
<1> QED BY <1>1, <1>2

LEMMA PdbInitInv == PdbInit => PdbInv
<1> SUFFICES ASSUME PdbInit PROVE PdbInv
  OBVIOUS
<1>0. db = Null /\ node = [a \in NodeAddr |-> Free] /\ stack = << >> /\ fate = "ok"
  BY DEF PdbInit
<1>1. << >> \in Seq(NodeAddr) /\ Len(<< >>) = 0 /\ DOMAIN << >> = {} /\ 2 .. 0 = {}
  OBVIOUS
<1>2. Free \in Nodes /\ Sound(Free)
  BY <1>1, PdbAssumption DEF Free, NewNode, Nodes, Sound, Containers
<1>3. Used = {}
  BY <1>0 DEF Used
<1>4. Shape
  BY <1>0, <1>1, <1>2 DEF Shape, Heap
<1>5. Loads
  BY <1>0, <1>1, <1>3, PdbAssumption DEF Loads
<1> QED BY <1>3, <1>4, <1>5 DEF PdbInv, Grown

LEMMA PdbStep == PdbInv /\ [PdbNext]_pdbVars => PdbInv'
<1> SUFFICES ASSUME PdbInv, [PdbNext]_pdbVars PROVE PdbInv'
  OBVIOUS
<1>1. ASSUME NEW a \in Malloc, NEW file \in BOOLEAN, Open(a, file) PROVE PdbInv'
  BY <1>1, OpenStep
<1>2. ASSUME NEW a \in Malloc, NEW id \in Ids, NEW v \in Values \cup {Null}, LoadLeaf(id, v, a)
      PROVE  PdbInv'
  BY <1>2, LoadLeafStep
<1>3. ASSUME NEW a \in Malloc, NEW id \in Ids, NEW type \in Containers, LoadBlock(type, id, a)
      PROVE  PdbInv'
  BY <1>3, LoadBlockStep
<1>4. ASSUME NEW a \in Malloc, NEW id \in Ids, LoadUnsized(id, a) PROVE PdbInv'
  BY <1>4, LoadUnsizedStep
<1>5. ASSUME NEW a \in Malloc, NEW path \in Paths, NEW key \in Ids, NEW type \in Kinds,
             NEW v \in Values, Set(path, key, type, v, a)
      PROVE  PdbInv'
  BY <1>5, SetStep
<1>6. ASSUME NEW a \in Malloc, NEW path \in Paths, NEW key \in Ids, NEW target \in Used,
             Link(path, key, target, a)
      PROVE  PdbInv'
  BY <1>6, LinkStep
<1>7. ASSUME LoadClose \/ LoadEnd PROVE PdbInv'
  BY <1>7, LoadEndsStep
<1>8. ASSUME NEW path \in Paths, Query(path) \/ ListRoot(path) PROVE PdbInv'
  BY <1>8, AskStep
<1>9. ASSUME NEW path \in Paths, Del(path) PROVE PdbInv'
  BY <1>9, DelStep
<1>10. CASE Unload
  BY <1>10, UnloadStep
<1>11. CASE UNCHANGED pdbVars
  <2>1. UNCHANGED <<db, node, fate>> /\ stack' = stack
    BY <1>11 DEF pdbVars
  <2>2. stack \in Seq(NodeAddr)
    BY DEF PdbInv, Shape
  <2> QED BY <2>1, <2>2, StackStep
<1> QED BY <1>1, <1>2, <1>3, <1>4, <1>5, <1>6, <1>7, <1>8, <1>9, <1>10, <1>11, Zenon DEF PdbNext

LEMMA PdbAlways == PdbSpec => []PdbInv
BY PdbInitInv, PdbStep, PTL DEF PdbSpec

LEMMA TreeIsAttached == PdbInv => Attached
<1> SUFFICES ASSUME PdbInv PROVE Attached
  OBVIOUS
<1>0. Shape /\ Heap /\ Used \subseteq NodeAddr
  BY DEF PdbInv, Shape, Used
<1>1. ASSUME NEW a \in Used
      PROVE  /\ node[a].type \in Kinds
             /\ node[a].id \in Ids \cup {Null}
             /\ node[a].parent \in NodeAddr \cup {Null}
             /\ node[a].data \in Values \cup NodeAddr \cup {Null}
             /\ node[a].kids \in Seq(NodeAddr)
             /\ ~node[a].table => node[a].type = "hash" /\ node[a].kids = << >>
  <2>1. node[a] \in Nodes /\ Sound(node[a])
    BY <1>0 DEF Heap
  <2>2. node[a].type \in Kinds
    BY <1>0, UsedIs
  <2> QED BY <2>1, <2>2 DEF Nodes, Sound
<1>2. PdbTypeOK
  BY <1>0, <1>1 DEF PdbTypeOK, Shape
<1>3. ASSUME fate = "ok", db \in Used PROVE Held /\ Holders
  BY <1>3 DEF PdbInv, Grown
<1> QED BY <1>2, <1>3 DEF Attached, Held, Holders

(* Every node on the heap is held by its parent, once, and by nobody else: *)
(* nothing that was freed is held, and nothing is lost (pdb_types.c         *)
(* pdb_standard_create_node, pdb_free_node).                               *)
THEOREM NodesStayAttached == PdbSpec => []Attached
BY PdbAlways, TreeIsAttached, PTL

-----------------------------------------------------------------------------
(* The database as a space of names.                                       *)

Within(p, q) == Len(p) <= Len(q) /\ \A i \in 1 .. Len(p) : q[i] = p[i]

LEMMA PathLemmas ==
  /\ \A p, q \in Paths : S!Prefix(p, q) <=> Within(p, q)
  /\ \A p \in Paths : Within(p, p) /\ Within(<< >>, p)
  /\ \A p, q \in Paths : q # << >> => (Within(p, q) <=> Within(p, Above(q)) \/ p = q)
  /\ \A p, q \in Paths : p # << >> /\ q # << >> /\ Above(p) = Above(q) /\ p[Len(p)] = q[Len(q)] => p = q
  /\ \A p \in Paths : \A x \in Ids : Len(p) < MaxDepth =>
       Append(p, x) \in Paths \ {<< >>} /\ Above(Append(p, x)) = p /\ S!Above(Append(p, x)) = p
  /\ \A q \in Paths, x \in Ids, p \in Paths :
       q # << >> => (q = Append(p, x) <=> Above(q) = p /\ q[Len(q)] = x)
<1>0. \A p \in Paths : p \in Seq(Ids) /\ Len(p) \in Nat
  BY PathIs
<1>1. ASSUME NEW p \in Paths, NEW q \in Paths
      PROVE  S!Prefix(p, q) <=> Within(p, q)
  <2>0. p \in Seq(Ids) /\ q \in Seq(Ids) /\ Len(p) \in Nat /\ Len(q) \in Nat
    BY <1>0
  <2>1. S!Prefix(p, q) <=> Len(p) <= Len(q) /\ SubSeq(q, 1, Len(p)) = p
    BY DEF S!Prefix
  <2>2. ASSUME Len(p) <= Len(q)
        PROVE  SubSeq(q, 1, Len(p)) = p <=> \A i \in 1 .. Len(p) : q[i] = p[i]
    <3>1. PICK m, s : m = Len(p) /\ s = SubSeq(q, 1, m)
      OBVIOUS
    <3>2. m \in Nat /\ \A i \in 1 .. m : q[i] \in Ids
      BY <2>0, <2>2, <3>1
    <3>3. /\ s \in Seq(Ids) /\ Len(s) = IF 1 <= m THEN m - 1 + 1 ELSE 0
          /\ \A i \in 1 .. m - 1 + 1 : s[i] = q[1 + i - 1]
      BY <3>1, <3>2, SubSeqProperties
    <3>4. Len(s) = m /\ \A i \in 1 .. m : s[i] = q[i]
      <4>1. m - 1 + 1 = m /\ \A i \in 1 .. m : 1 + i - 1 = i
        BY <3>2
      <4>2. Len(s) = m
        BY <3>2, <3>3
      <4> QED BY <3>3, <4>1, <4>2
    <3>5. ASSUME \A i \in 1 .. m : q[i] = p[i] PROVE s = p
      BY <2>0, <3>1, <3>3, <3>4, <3>5, SeqEqual
    <3> QED BY <3>1, <3>4, <3>5
  <2> QED BY <2>1, <2>2 DEF Within
<1>2. ASSUME NEW p \in Paths PROVE Within(p, p) /\ Within(<< >>, p)
  <2>1. Len(<< >>) = 0 /\ 1 .. 0 = {}
    OBVIOUS
  <2> QED BY <1>0, <2>1 DEF Within
<1>3. ASSUME NEW p \in Paths, NEW q \in Paths, p # << >>, q # << >>,
             Above(p) = Above(q), p[Len(p)] = q[Len(q)]
      PROVE  p = q
  <2>1. /\ p \in Seq(Ids) /\ q \in Seq(Ids) /\ Len(p) \in Nat /\ Len(q) \in Nat
        /\ Len(p) > 0 /\ Len(q) > 0
        /\ Len(Above(p)) = Len(p) - 1 /\ Len(Above(q)) = Len(q) - 1
        /\ \A i \in 1 .. Len(p) - 1 : Above(p)[i] = p[i]
        /\ \A i \in 1 .. Len(q) - 1 : Above(q)[i] = q[i]
    BY <1>0, <1>3, PathIs
  <2>2. Len(p) = Len(q)
    BY <1>3, <2>1
  <2>3. ASSUME NEW i \in 1 .. Len(p) PROVE p[i] = q[i]
    <3>1. i = Len(p) \/ i \in 1 .. Len(p) - 1
      BY <2>1
    <3> QED BY <1>3, <2>1, <2>2, <3>1
  <2> QED BY <2>1, <2>2, <2>3, SeqEqual
<1>4. ASSUME NEW p \in Paths, NEW q \in Paths, q # << >>
      PROVE  Within(p, q) <=> Within(p, Above(q)) \/ p = q
  <2>1. /\ p \in Seq(Ids) /\ q \in Seq(Ids) /\ Len(p) \in Nat /\ Len(q) \in Nat /\ Len(q) > 0
        /\ Len(Above(q)) = Len(q) - 1
        /\ \A i \in 1 .. Len(q) - 1 : Above(q)[i] = q[i]
    BY <1>0, <1>4, PathIs
  <2>2. ASSUME Within(p, q), p # q PROVE Within(p, Above(q))
    <3>1. Len(p) # Len(q)
      BY <2>1, <2>2, SeqEqual DEF Within
    <3>2. Len(p) <= Len(q) - 1
      BY <2>1, <2>2, <3>1 DEF Within
    <3>3. \A i \in 1 .. Len(p) : i \in 1 .. Len(q) - 1
      BY <2>1, <3>2
    <3> QED BY <2>1, <2>2, <3>2, <3>3 DEF Within
  <2>3. ASSUME Within(p, Above(q)) PROVE Within(p, q)
    <3>1. Len(p) <= Len(q) - 1 /\ Len(p) <= Len(q)
      BY <2>1, <2>3 DEF Within
    <3>2. \A i \in 1 .. Len(p) : i \in 1 .. Len(q) - 1
      BY <2>1, <3>1
    <3> QED BY <2>1, <2>3, <3>1, <3>2 DEF Within
  <2> QED BY <1>2, <2>2, <2>3
<1>5. ASSUME NEW p \in Paths, NEW x \in Ids
      PROVE  /\ Append(p, x) # << >> /\ Above(Append(p, x)) = p /\ S!Above(Append(p, x)) = p
             /\ Len(Append(p, x)) = Len(p) + 1 /\ Append(p, x)[Len(p) + 1] = x
             /\ Len(p) < MaxDepth => Append(p, x) \in Paths
  <2>1. PICK q, m : q = Append(p, x) /\ m = Len(p)
    OBVIOUS
  <2>2. /\ p \in Seq(Ids) /\ m \in Nat /\ q \in Seq(Ids) /\ Len(q) = m + 1 /\ q[m + 1] = x
        /\ \A i \in 1 .. m : q[i] = p[i]
    BY <1>0, <2>1
  <2>3. \A i \in 1 .. m : q[i] \in Ids
    BY <2>2
  <2>4. PICK s : s = SubSeq(q, 1, m)
    OBVIOUS
  <2>5. /\ s \in Seq(Ids) /\ Len(s) = IF 1 <= m THEN m - 1 + 1 ELSE 0
        /\ \A i \in 1 .. m - 1 + 1 : s[i] = q[1 + i - 1]
    BY <2>2, <2>3, <2>4, SubSeqProperties
  <2>6. Len(s) = m /\ \A i \in 1 .. m : s[i] = q[i]
    <3>1. m - 1 + 1 = m /\ \A i \in 1 .. m : 1 + i - 1 = i
      BY <2>2
    <3>2. Len(s) = m
      BY <2>2, <2>5
    <3> QED BY <2>5, <3>1, <3>2
  <2>7. s = p
    BY <2>1, <2>2, <2>5, <2>6, SeqEqual
  <2>8. Len(q) - 1 = m
    BY <2>2
  <2>9. Above(q) = p /\ S!Above(q) = p
    BY <2>4, <2>7, <2>8 DEF Above, S!Above
  <2>10. q # << >>
    BY <2>2
  <2>11. m < MaxDepth => q \in Paths
    <3>1. MaxDepth \in Nat
      BY PdbAssumption
    <3> QED BY <2>2, <3>1, PathIs
  <2> QED BY <2>1, <2>2, <2>9, <2>10, <2>11
<1>6. ASSUME NEW q \in Paths, NEW x \in Ids, NEW p \in Paths, q # << >>
      PROVE  q = Append(p, x) <=> Above(q) = p /\ q[Len(q)] = x
  <2>1. q = Append(p, x) => Above(q) = p /\ q[Len(q)] = x
    BY <1>5
  <2>2. ASSUME Above(q) = p, q[Len(q)] = x PROVE q = Append(p, x)
    <3>1. /\ q \in Seq(Ids) /\ Len(q) \in Nat /\ Len(q) > 0 /\ Len(p) = Len(q) - 1
          /\ \A i \in 1 .. Len(q) - 1 : p[i] = q[i]
      BY <1>0, <1>6, <2>2, PathIs
    <3>2. p \in Seq(Ids)
      BY <1>0
    <3>3. PICK r : r = Append(p, x)
      OBVIOUS
    <3>4. r \in Seq(Ids) /\ Len(r) = Len(q) /\ r[Len(q)] = x /\ \A i \in 1 .. Len(q) - 1 : r[i] = q[i]
      BY <3>1, <3>2, <3>3
    <3>5. ASSUME NEW i \in 1 .. Len(q) PROVE r[i] = q[i]
      <4>1. i = Len(q) \/ i \in 1 .. Len(q) - 1
        BY <3>1
      <4> QED BY <2>2, <3>4, <4>1
    <3> QED BY <3>1, <3>3, <3>4, <3>5, SeqEqual
  <2> QED BY <2>1, <2>2
<1> QED BY <1>1, <1>2, <1>3, <1>4, <1>5, <1>6


(* A property of the empty path that each path takes over from the one     *)
(* above it is one of all paths.                                           *)
LEMMA OnPaths ==
  ASSUME NEW G, << >> \in G, \A q \in Paths : q # << >> /\ Above(q) \in G => q \in G
  PROVE  \A q \in Paths : q \in G
<1> DEFINE B == {Len(q) : q \in Paths \ G}
<1>1. \A q \in Paths : Len(q) \in Nat
  BY PathIs
<1>2. B = {}
  <2> SUFFICES ASSUME B # {} PROVE FALSE
    OBVIOUS
  <2>1. PICK n \in B : \A m \in B : n <= m
    <3>1. B \subseteq Nat
      BY <1>1
    <3> HIDE DEF B
    <3> QED BY <3>1, LeastNat
  <2>2. PICK q \in Paths \ G : Len(q) = n
    OBVIOUS
  <2>3. q # << >> /\ Above(q) \notin G
    BY <2>2
  <2>4. Above(q) \in Paths /\ Len(Above(q)) = Len(q) - 1 /\ Len(q) \in Nat
    BY <2>2, <2>3, PathIs
  <2>5. n <= Len(Above(q))
    BY <2>1, <2>3, <2>4
  <2> QED BY <2>2, <2>4, <2>5
<1> QED BY <1>2

(* The node f[q] that each path q leads to, from the root r on: from a node *)
(* n, the name x leads to on[n][x].  No node is reached in two ways.        *)
Anywhere == NodeAddr \cup {Null}
Follows(f, r, on) ==
  /\ r \in Anywhere /\ f \in [Paths -> Anywhere] /\ on \in [Anywhere -> [Ids -> Anywhere]]
  /\ \A x \in Ids : on[Null][x] = Null
  /\ f[<< >>] = r
  /\ \A q \in Paths : q # << >> => f[q] = on[f[Above(q)]][q[Len(q)]]
Tight(r, on) ==
  /\ \A n, m \in Anywhere : \A x, y \in Ids :
       on[n][x] # Null /\ on[n][x] = on[m][y] => n = m /\ x = y
  /\ \A n \in Anywhere : \A x \in Ids : on[n][x] # Null => on[n][x] # r

LEMMA StepAlong ==
  ASSUME NEW f, NEW r, NEW on, Follows(f, r, on), NEW q \in Paths, q # << >>
  PROVE  \E n \in Anywhere, x \in Ids :
           /\ n = f[Above(q)] /\ x = q[Len(q)] /\ Above(q) \in Paths
           /\ f[q] = on[n][x] /\ f[q] \in Anywhere
<1>1. Above(q) \in Paths /\ q[Len(q)] \in Ids
  BY PathIs
<1> QED BY <1>1 DEF Follows

LEMMA OneWay ==
  ASSUME NEW f, NEW r, NEW on, Follows(f, r, on), Tight(r, on)
  PROVE  \A p, q \in Paths : f[q] # Null /\ f[p] = f[q] => p = q
<1> DEFINE G == {q \in Paths : \A p \in Paths : f[q] # Null /\ f[p] = f[q] => p = q}
<1>0. << >> \in Paths
  BY PathIs
<1>1. << >> \in G
  <2>1. ASSUME NEW p \in Paths, r # Null, f[p] = r PROVE p = << >>
    <3> SUFFICES ASSUME p # << >> PROVE FALSE
      OBVIOUS
    <3>1. PICK n \in Anywhere, x \in Ids : f[p] = on[n][x]
      BY StepAlong
    <3> QED BY <2>1, <3>1 DEF Tight
  <2> QED BY <1>0, <2>1 DEF Follows
<1>2. ASSUME NEW q \in Paths, q # << >>, Above(q) \in G, NEW p \in Paths, f[q] # Null, f[p] = f[q]
      PROVE  p = q
  <2>1. PICK n \in Anywhere, x \in Ids : /\ n = f[Above(q)] /\ x = q[Len(q)]
                                         /\ f[q] = on[n][x]
    BY <1>2, StepAlong
  <2>2. p # << >>
    BY <1>2, <2>1 DEF Tight, Follows
  <2>3. PICK m \in Anywhere, y \in Ids : /\ m = f[Above(p)] /\ y = p[Len(p)] /\ Above(p) \in Paths
                                         /\ f[p] = on[m][y]
    BY <2>2, StepAlong
  <2>4. n = m /\ x = y
    BY <1>2, <2>1, <2>3 DEF Tight
  <2>5. n # Null
    BY <1>2, <2>1 DEF Follows
  <2>6. Above(p) = Above(q)
    BY <1>2, <2>1, <2>3, <2>4, <2>5
  <2> QED BY <1>2, <2>1, <2>2, <2>3, <2>4, <2>6, PathLemmas
<1>3. \A q \in Paths : q # << >> /\ Above(q) \in G => q \in G
  BY <1>2
<1>4. \A q \in Paths : q \in G
  <2> HIDE DEF G
  <2> QED BY <1>1, <1>3, OnPaths
<1> QED BY <1>4

LEMMA SameWay ==
  ASSUME NEW f, NEW g, NEW r, NEW on, Follows(f, r, on), Follows(g, r, on)
  PROVE  f = g
<1> DEFINE G == {q \in Paths : f[q] = g[q]}
<1>1. << >> \in G
  BY PathIs DEF Follows
<1>2. \A q \in Paths : q # << >> /\ Above(q) \in G => q \in G
  BY DEF Follows
<1>3. \A q \in Paths : q \in G
  <2> HIDE DEF G
  <2> QED BY <1>1, <1>2, OnPaths
<1> QED BY <1>3 DEF Follows

LEMMA NoWay ==
  ASSUME NEW f, NEW on, Follows(f, Null, on)
  PROVE  \A q \in Paths : f[q] = Null
<1> DEFINE G == {q \in Paths : f[q] = Null}
<1>1. << >> \in G
  BY PathIs DEF Follows
<1>2. \A q \in Paths : q # << >> /\ Above(q) \in G => q \in G
  <2> SUFFICES ASSUME NEW q \in Paths, q # << >>, Above(q) \in G PROVE f[q] = Null
    OBVIOUS
  <2>1. PICK n \in Anywhere, x \in Ids : n = f[Above(q)] /\ f[q] = on[n][x]
    BY StepAlong
  <2> QED BY <2>1 DEF Follows
<1>3. \A q \in Paths : q \in G
  <2> HIDE DEF G
  <2> QED BY <1>1, <1>2, OnPaths
<1> QED BY <1>3

(* With a node a put where u leads on by the name x, there is one path more. *)
Adding(on, to, p, x, a) ==
  /\ a \in NodeAddr /\ x \in Ids /\ p \in Anywhere /\ on[p][x] = Null
  /\ \A y \in Ids : to[a][y] = Null
  /\ \A n \in Anywhere : n # a =>
       \A y \in Ids : to[n][y] = IF n = p /\ y = x THEN a ELSE on[n][y]
Extending(f, g, r, on, to, u, x, a) ==
  /\ Follows(f, r, on) /\ Follows(g, r, to) /\ Tight(r, on)
  /\ u \in Paths /\ Len(u) < MaxDepth /\ f[u] # Null /\ Adding(on, to, f[u], x, a)
  /\ \A q \in Paths : f[q] # a

LEMMA AddedWay ==
  ASSUME NEW f, NEW g, NEW r, NEW on, NEW to, NEW u, NEW x, NEW a,
         Extending(f, g, r, on, to, u, x, a)
  PROVE  \A q \in Paths : g[q] = IF q = Append(u, x) THEN a ELSE f[q]
<1> DEFINE z == Append(u, x)
           G == {q \in Paths : g[q] = IF q = z THEN a ELSE f[q]}
<1> USE DEF Extending
<1>0. x \in Ids /\ << >> \in Paths
  BY PathIs DEF Adding
<1>1. z \in Paths /\ z # << >> /\ Above(z) = u
  BY <1>0, PathLemmas
<1>2. z # u /\ z[Len(z)] = x
  <2>1. Len(u) \in Nat /\ u \in Seq(Ids)
    BY PathIs
  <2> QED BY <1>0, <2>1
<1>3. \A q \in Paths : q # << >> => (q = z <=> Above(q) = u /\ q[Len(q)] = x)
  BY <1>0, PathLemmas
<1> HIDE DEF z
<1>4. << >> \in G
  BY <1>0, <1>1 DEF Follows
<1>5. f[z] = Null
  <2>1. f[z] = on[f[u]][x]
    BY <1>1, <1>2 DEF Follows
  <2> QED BY <2>1 DEF Adding
<1>6. ASSUME NEW q \in Paths, q # << >>, Above(q) \in G
      PROVE  q \in G
  <2>1. PICK n \in Anywhere, y \in Ids : /\ n = f[Above(q)] /\ y = q[Len(q)] /\ Above(q) \in Paths
                                         /\ f[q] = on[n][y]
    BY <1>6, StepAlong
  <2>2. PICK m \in Anywhere : m = g[Above(q)] /\ g[q] = to[m][y]
    BY <1>6, <2>1, StepAlong
  <2>3. CASE Above(q) = z
    <3>1. m = a /\ n = Null /\ q # z
      BY <1>1, <1>2, <1>5, <1>6, <2>1, <2>2, <2>3
    <3>2. g[q] = Null
      BY <2>1, <2>2, <3>1 DEF Adding
    <3>3. f[q] = Null
      BY <2>1, <3>1 DEF Follows
    <3> QED BY <3>1, <3>2, <3>3
  <2>4. CASE Above(q) # z
    <3>1. m = n /\ n # a
      BY <1>6, <2>1, <2>2, <2>4
    <3>2. g[q] = IF n = f[u] /\ y = x THEN a ELSE f[q]
      BY <2>1, <2>2, <3>1 DEF Adding
    <3>3. n = f[u] <=> Above(q) = u
      BY <2>1, OneWay
    <3>4. q = z <=> n = f[u] /\ y = x
      BY <1>3, <1>6, <2>1, <3>3
    <3> QED BY <3>2, <3>4
  <2> QED BY <2>3, <2>4
<1>7. \A q \in Paths : q \in G
  <2>1. \A q \in Paths : q # << >> /\ Above(q) \in G => q \in G
    BY <1>6
  <2> HIDE DEF G
  <2> QED BY <1>4, <2>1, OnPaths
<1> QED BY <1>7 DEF z

(* With a node and all below it gone, all paths from it on lead nowhere.    *)
Cutting(r, on, to, w, dead) ==
  /\ w \in dead /\ r \notin dead /\ Null \notin dead
  /\ \A n \in Anywhere : \A x \in Ids :
       /\ to[n][x] = IF n \in dead \/ on[n][x] = w THEN Null ELSE on[n][x]
       /\ n \in dead /\ on[n][x] # Null => on[n][x] \in dead
       /\ on[n][x] \in dead \ {w} => n \in dead
Pruning(f, g, r, on, to, path, dead) ==
  /\ Follows(f, r, on) /\ Follows(g, r, to) /\ Tight(r, on)
  /\ path \in Paths /\ Cutting(r, on, to, f[path], dead)

LEMMA CutWay ==
  ASSUME NEW f, NEW g, NEW r, NEW on, NEW to, NEW path, NEW dead,
         Pruning(f, g, r, on, to, path, dead)
  PROVE  \A q \in Paths : /\ g[q] = IF Within(path, q) THEN Null ELSE f[q]
                          /\ ~Within(path, q) => f[q] \notin dead
<1> DEFINE w == f[path]
           G == {q \in Paths : Within(path, q) /\ f[q] # Null <=> f[q] \in dead}
           H == {q \in Paths : g[q] = IF f[q] \in dead THEN Null ELSE f[q]}
<1> USE DEF Pruning
<1>0. << >> \in Paths /\ w \in dead /\ w # Null /\ f[<< >>] = r /\ g[<< >>] = r /\ r \notin dead
  BY PathIs DEF Cutting, Follows
<1>1. path # << >>
  BY <1>0
<1>2. ~Within(path, << >>)
  <2>1. Len(path) \in Nat /\ Len(path) > 0 /\ Len(<< >>) = 0
    BY <1>1, PathIs
  <2> QED BY <2>1 DEF Within
<1>3. << >> \in G /\ << >> \in H
  BY <1>0, <1>2
<1>4. ASSUME NEW q \in Paths, q # << >>, Above(q) \in G
      PROVE  q \in G
  <2>1. PICK n \in Anywhere, y \in Ids : /\ n = f[Above(q)] /\ y = q[Len(q)] /\ Above(q) \in Paths
                                         /\ f[q] = on[n][y]
    BY <1>4, StepAlong
  <2>2. Within(path, q) <=> Within(path, Above(q)) \/ path = q
    BY <1>4, PathLemmas
  <2>3. path = q <=> f[q] = w
    BY <1>0, OneWay
  <2>4. n = Null => f[q] = Null
    BY <2>1 DEF Follows
  <2>5. f[q] \in dead => f[q] # Null
    BY DEF Cutting
  <2>6. n \in dead /\ f[q] # Null => f[q] \in dead
    BY <2>1 DEF Cutting
  <2>7. f[q] \in dead /\ f[q] # w => n \in dead
    BY <2>1 DEF Cutting
  <2>8. Within(path, Above(q)) /\ n # Null <=> n \in dead
    BY <1>4, <2>1
  <2> HIDE DEF w
  <2>9. Within(path, q) /\ f[q] # Null <=> f[q] \in dead
    BY <1>0, <2>2, <2>3, <2>4, <2>5, <2>6, <2>7, <2>8
  <2> QED BY <2>9
<1>5. ASSUME NEW q \in Paths, q # << >>, Above(q) \in H
      PROVE  q \in H
  <2>1. PICK n \in Anywhere, y \in Ids : /\ n = f[Above(q)] /\ y = q[Len(q)] /\ Above(q) \in Paths
                                         /\ f[q] = on[n][y]
    BY <1>5, StepAlong
  <2>2. PICK m \in Anywhere : m = g[Above(q)] /\ g[q] = to[m][y]
    BY <1>5, <2>1, StepAlong
  <2>3. m = IF n \in dead THEN Null ELSE n
    BY <1>5, <2>1, <2>2
  <2>4. CASE n \in dead
    <3>1. g[q] = Null
      BY <2>1, <2>2, <2>3, <2>4 DEF Follows
    <3>2. f[q] # Null => f[q] \in dead
      BY <2>1, <2>4 DEF Cutting
    <3> QED BY <3>1, <3>2
  <2>5. CASE n \notin dead
    <3>1. g[q] = IF f[q] = w THEN Null ELSE f[q]
      BY <2>1, <2>2, <2>3, <2>5 DEF Cutting
    <3>2. f[q] \in dead <=> f[q] = w
      BY <1>0, <2>1, <2>5 DEF Cutting
    <3> QED BY <3>1, <3>2
  <2> QED BY <2>4, <2>5
<1>6. \A q \in Paths : q \in G
  <2>1. \A q \in Paths : q # << >> /\ Above(q) \in G => q \in G
    BY <1>4
  <2> HIDE DEF G
  <2> QED BY <1>3, <2>1, OnPaths
<1>7. \A q \in Paths : q \in H
  <2>1. \A q \in Paths : q # << >> /\ Above(q) \in H => q \in H
    BY <1>5
  <2> HIDE DEF H
  <2> QED BY <1>3, <2>1, OnPaths
<1> QED BY <1>6, <1>7

(* The child of that name, first in the order of the children.             *)
Leads(nd, n, x, c) ==
  IF Answers(nd[n]) /\ \E i \in DOMAIN nd[n].kids : nd[nd[n].kids[i]].id = x
  THEN \E i \in DOMAIN nd[n].kids :
         /\ c = nd[n].kids[i] /\ nd[c].id = x
         /\ \A j \in DOMAIN nd[n].kids : nd[nd[n].kids[j]].id = x => i <= j
  ELSE c = Null

LEMMA LeadsOne ==
  ASSUME NEW nd, NEW n, NEW x, NEW c, NEW d, nd[n].kids \in Seq(NodeAddr),
         Leads(nd, n, x, c), Leads(nd, n, x, d)
  PROVE  c = d
<1>1. PICK s : s = nd[n].kids /\ s \in Seq(NodeAddr)
  OBVIOUS
<1>2. DOMAIN s = 1 .. Len(s) /\ Len(s) \in Nat
  BY <1>1
<1>3. CASE Answers(nd[n]) /\ \E i \in DOMAIN s : nd[s[i]].id = x
  <2>1. PICK i \in DOMAIN s : /\ c = s[i] /\ nd[c].id = x
                              /\ \A j \in DOMAIN s : nd[s[j]].id = x => i <= j
    BY <1>1, <1>3 DEF Leads
  <2>2. PICK k \in DOMAIN s : /\ d = s[k] /\ nd[d].id = x
                              /\ \A j \in DOMAIN s : nd[s[j]].id = x => k <= j
    BY <1>1, <1>3 DEF Leads
  <2>3. i <= k /\ k <= i
    BY <2>1, <2>2
  <2> QED BY <1>2, <2>1, <2>2, <2>3
<1>4. CASE ~ (Answers(nd[n]) /\ \E i \in DOMAIN s : nd[s[i]].id = x)
  BY <1>1, <1>4 DEF Leads
<1> QED BY <1>3, <1>4

LEMMA LeadsSame ==
  ASSUME NEW nd, NEW nx, NEW n, NEW x, NEW c, Leads(nd, n, x, c),
         nx[n].kids = nd[n].kids, Answers(nx[n]) <=> Answers(nd[n]),
         \A i \in DOMAIN nd[n].kids : nx[nd[n].kids[i]].id = nd[nd[n].kids[i]].id
  PROVE  Leads(nx, n, x, c)
<1>1. PICK s : s = nd[n].kids
  OBVIOUS
<1>2. \A i \in DOMAIN s : nx[s[i]].id = nd[s[i]].id
  BY <1>1
<1>3. CASE Answers(nd[n]) /\ \E i \in DOMAIN s : nd[s[i]].id = x
  <2>1. PICK i \in DOMAIN s : /\ c = s[i] /\ nd[c].id = x
                              /\ \A j \in DOMAIN s : nd[s[j]].id = x => i <= j
    BY <1>1, <1>3 DEF Leads
  <2>2. nx[c].id = x /\ \A j \in DOMAIN s : nx[s[j]].id = x => i <= j
    BY <1>2, <2>1
  <2> QED BY <1>1, <1>3, <2>1, <2>2 DEF Leads
<1>4. CASE ~ (Answers(nd[n]) /\ \E i \in DOMAIN s : nd[s[i]].id = x)
  BY <1>1, <1>2, <1>4 DEF Leads
<1> QED BY <1>3, <1>4

(* A child more at the end is found if no other has the name.               *)
LEMMA LeadsMore ==
  ASSUME NEW nd, NEW nx, NEW n, NEW x, NEW c, Leads(nd, n, x, c), NEW a \in NodeAddr,
         nd[n].kids \in Seq(NodeAddr), nx[n].kids = Append(nd[n].kids, a),
         Answers(nd[n]), Answers(nx[n]), \A i \in DOMAIN nd[n].kids : nd[n].kids[i] # a,
         \A i \in DOMAIN nd[n].kids : nx[nd[n].kids[i]].id = nd[nd[n].kids[i]].id
  PROVE  Leads(nx, n, x, IF c = Null /\ x = nx[a].id THEN a ELSE c)
<1>1. PICK s, t : s = nd[n].kids /\ t = nx[n].kids
  OBVIOUS
<1>2. PICK m : m = Len(s)
  OBVIOUS
<1>3. /\ s \in Seq(NodeAddr) /\ m \in Nat /\ DOMAIN s = 1 .. m /\ DOMAIN t = 1 .. m + 1
      /\ t[m + 1] = a /\ \A i \in 1 .. m : t[i] = s[i]
  BY <1>1, <1>2
<1>4. /\ \A i \in 1 .. m : nx[t[i]].id = nd[s[i]].id /\ s[i] # a
      /\ Null \notin NodeAddr
  BY <1>1, <1>3, PdbAssumption
<1>5. CASE \E i \in 1 .. m : nd[s[i]].id = x
  <2>1. PICK i \in 1 .. m : /\ c = s[i] /\ nd[c].id = x
                            /\ \A j \in 1 .. m : nd[s[j]].id = x => i <= j
    BY <1>1, <1>3, <1>5 DEF Leads
  <2>2. c # Null
    BY <1>3, <1>4, <2>1
  <2>3. /\ i \in 1 .. m + 1 /\ c = t[i] /\ nx[c].id = x
        /\ \A j \in 1 .. m + 1 : nx[t[j]].id = x => i <= j
    <3>1. ASSUME NEW j \in 1 .. m + 1, nx[t[j]].id = x PROVE i <= j
      <4>1. j \in 1 .. m \/ j = m + 1
        BY <1>3
      <4> QED BY <1>3, <1>4, <2>1, <3>1, <4>1
    <3> QED BY <1>3, <1>4, <2>1, <3>1
  <2>4. Leads(nx, n, x, c)
    BY <1>1, <1>3, <2>3 DEF Leads
  <2> QED BY <2>2, <2>4
<1>6. CASE ~ \E i \in 1 .. m : nd[s[i]].id = x
  <2>1. c = Null
    BY <1>1, <1>3, <1>6 DEF Leads
  <2>2. CASE x = nx[a].id
    <3>1. /\ m + 1 \in 1 .. m + 1 /\ a = t[m + 1] /\ nx[a].id = x
          /\ \A j \in 1 .. m + 1 : nx[t[j]].id = x => m + 1 <= j
      <4>1. ASSUME NEW j \in 1 .. m + 1, nx[t[j]].id = x PROVE m + 1 <= j
        <5>1. j \in 1 .. m \/ j = m + 1
          BY <1>3
        <5> QED BY <1>3, <1>4, <1>6, <4>1, <5>1
      <4> QED BY <1>3, <2>2, <4>1
    <3>2. Leads(nx, n, x, a)
      BY <1>1, <1>3, <3>1 DEF Leads
    <3> QED BY <2>1, <2>2, <3>2
  <2>3. CASE x # nx[a].id
    <3>1. ~ \E j \in 1 .. m + 1 : nx[t[j]].id = x
      <4>1. ASSUME NEW j \in 1 .. m + 1 PROVE nx[t[j]].id # x
        <5>1. j \in 1 .. m \/ j = m + 1
          BY <1>3
        <5> QED BY <1>3, <1>4, <1>6, <2>3, <5>1
      <4> QED BY <4>1
    <3>2. Leads(nx, n, x, Null)
      BY <1>1, <1>3, <3>1 DEF Leads
    <3> QED BY <2>1, <2>3, <3>2
  <2> QED BY <2>2, <2>3
<1> QED BY <1>5, <1>6

(* Where no two children share a name, the one that goes is found no more.  *)
LEMMA LeadsLess ==
  ASSUME NEW nd, NEW nx, NEW n, NEW x, NEW c, Leads(nd, n, x, c), NEW w,
         nd[n].kids \in Seq(NodeAddr), nx[n].kids \in Seq(NodeAddr),
         Answers(nd[n]) <=> Answers(nx[n]),
         \A i, j \in DOMAIN nd[n].kids : nd[nd[n].kids[i]].id = nd[nd[n].kids[j]].id => i = j,
         \A i, j \in DOMAIN nx[n].kids : nx[n].kids[i] = nx[n].kids[j] => i = j,
         ToSet(nx[n].kids) = ToSet(nd[n].kids) \ {w},
         \A i \in DOMAIN nx[n].kids : nx[nx[n].kids[i]].id = nd[nx[n].kids[i]].id
  PROVE  Leads(nx, n, x, IF c = w THEN Null ELSE c)
<1>1. PICK s, t : s = nd[n].kids /\ t = nx[n].kids
  OBVIOUS
<1>2. /\ s \in Seq(NodeAddr) /\ t \in Seq(NodeAddr) /\ ToSet(t) = ToSet(s) \ {w}
      /\ \A i, j \in DOMAIN s : nd[s[i]].id = nd[s[j]].id => i = j
      /\ \A i, j \in DOMAIN t : t[i] = t[j] => i = j
      /\ \A i \in DOMAIN t : nx[t[i]].id = nd[t[i]].id
      /\ DOMAIN t \subseteq Nat /\ Null \notin NodeAddr
  <2>1. DOMAIN t = 1 .. Len(t) /\ Len(t) \in Nat
    BY <1>1
  <2> QED BY <1>1, <2>1, PdbAssumption
<1>7. /\ \A v : v \in ToSet(s) <=> \E i \in DOMAIN s : s[i] = v
      /\ \A v : v \in ToSet(t) <=> \E i \in DOMAIN t : t[i] = v
      /\ \A v : v \in ToSet(t) <=> v \in ToSet(s) /\ v # w
  BY <1>2 DEF ToSet
<1>3. \A i \in DOMAIN t : t[i] # w /\ \E k \in DOMAIN s : s[k] = t[i]
  BY <1>7
<1>4. \A k \in DOMAIN s : s[k] # w => \E i \in DOMAIN t : t[i] = s[k]
  BY <1>7
<1>5. CASE Answers(nd[n]) /\ \E i \in DOMAIN s : nd[s[i]].id = x
  <2>1. PICK k \in DOMAIN s : c = s[k] /\ nd[c].id = x
    BY <1>1, <1>5 DEF Leads
  <2>2. \A i \in DOMAIN t : nx[t[i]].id = x => t[i] = c
    BY <1>2, <1>3, <2>1
  <2>3. CASE c = w
    <3>1. \A i \in DOMAIN t : nx[t[i]].id # x
      BY <1>3, <2>2, <2>3
    <3>2. Leads(nx, n, x, Null)
      BY <1>1, <3>1 DEF Leads
    <3> QED BY <2>3, <3>2
  <2>4. CASE c # w
    <3>1. PICK i \in DOMAIN t : t[i] = c
      BY <1>4, <2>1, <2>4
    <3>2. nx[c].id = x
      BY <1>2, <2>1, <3>1
    <3>3. \A j \in DOMAIN t : nx[t[j]].id = x => i <= j
      <4>1. ASSUME NEW j \in DOMAIN t, nx[t[j]].id = x PROVE i <= j
        <5>1. j = i /\ i \in Nat
          BY <1>2, <2>2, <3>1, <4>1
        <5> QED BY <5>1
      <4> QED BY <4>1
    <3>4. Answers(nx[n])
      BY <1>5
    <3>5. Leads(nx, n, x, c)
      BY <1>1, <3>1, <3>2, <3>3, <3>4 DEF Leads
    <3> QED BY <2>4, <3>5
  <2> QED BY <2>3, <2>4
<1>6. CASE ~ (Answers(nd[n]) /\ \E i \in DOMAIN s : nd[s[i]].id = x)
  <2>1. c = Null
    BY <1>1, <1>6 DEF Leads
  <2>2. ~ (Answers(nx[n]) /\ \E i \in DOMAIN t : nx[t[i]].id = x)
    BY <1>2, <1>3, <1>6
  <2>3. Leads(nx, n, x, Null)
    BY <1>1, <2>2 DEF Leads
  <2> QED BY <2>1, <2>3
<1> QED BY <1>5, <1>6

(* The database as these say it.                                           *)
Source == IF db \in Used THEN db ELSE Null
Way == [q \in Paths |-> Found(q)]
On == [n \in Anywhere |-> [x \in Ids |-> Onward(n, x)]]
Reads(s, f, nd) ==
  s = [q \in Paths |-> IF f[q] = Null THEN Null ELSE <<nd[f[q]].type, nd[f[q]].data>>]

Charted == /\ Follows(Way, Source, On)
           /\ \A n \in NodeAddr : \A x \in Ids : Leads(node, n, x, On[n][x])
           /\ Reads(Space, Way, node)

LEMMA Chart == Shape => Charted
<1> SUFFICES ASSUME Shape PROVE Charted
  OBVIOUS
<1>0. /\ Heap /\ Walks /\ Children /\ Null \notin NodeAddr /\ Used \subseteq NodeAddr
      /\ db \in NodeAddr \cup {Null}
  BY WalkSteps, FirstChild, PdbAssumption DEF Shape, Used
<1>1. ASSUME NEW n \in Anywhere, NEW x \in Ids PROVE Onward(n, x) \in Anywhere /\ On[n][x] = Onward(n, x)
  <2>1. n \in NodeAddr => ChildIs(n, x)
    BY <1>0 DEF Children
  <2> QED BY <2>1 DEF ChildIs, Onward, Anywhere, On
<1>2. Follows(Way, Source, On)
  <2>1. On \in [Anywhere -> [Ids -> Anywhere]]
    BY <1>1 DEF On
  <2>2. Way \in [Paths -> Anywhere] /\ \A q \in Paths : Way[q] = Found(q)
    BY <1>0 DEF Way, Walks, Anywhere
  <2>3. Source \in Anywhere
    BY <1>0 DEF Source, Anywhere
  <2>4. \A x \in Ids : On[Null][x] = Null
    BY <1>0, <1>1 DEF Onward, Anywhere
  <2>5. << >> \in Paths /\ Way[<< >>] = Source
    BY <1>0, <2>2, PathIs DEF Walks, Source
  <2>6. ASSUME NEW q \in Paths, q # << >>
        PROVE  Way[q] = On[Way[Above(q)]][q[Len(q)]]
    <3>1. Above(q) \in Paths /\ q[Len(q)] \in Ids
      BY <2>6, PathIs
    <3>2. Found(q) = Onward(Found(Above(q)), q[Len(q)])
      BY <1>0, <2>6 DEF Walks
    <3>3. Way[q] = Found(q) /\ Way[Above(q)] = Found(Above(q)) /\ Way[Above(q)] \in Anywhere
      BY <2>2, <3>1
    <3> QED BY <1>1, <3>1, <3>2, <3>3
  <2> QED BY <2>1, <2>2, <2>3, <2>4, <2>5, <2>6 DEF Follows
<1>3. ASSUME NEW n \in NodeAddr, NEW x \in Ids PROVE Leads(node, n, x, On[n][x])
  <2>1. ChildIs(n, x) /\ On[n][x] = Onward(n, x)
    BY <1>0, <1>1 DEF Children, Anywhere
  <2>2. CASE Answers(node[n]) /\ \E i \in DOMAIN node[n].kids : node[node[n].kids[i]].id = x
    <3>1. Onward(n, x) = Child(n, x)
      BY <2>2 DEF Onward
    <3>2. /\ FirstCalled(n, x) \in DOMAIN node[n].kids
          /\ Called(n, FirstCalled(n, x), x)
          /\ \A j \in DOMAIN node[n].kids : Called(n, j, x) => FirstCalled(n, x) <= j
          /\ Child(n, x) = node[n].kids[FirstCalled(n, x)]
      BY <2>1, <2>2 DEF ChildIs, Called
    <3>3. PICK k : k = FirstCalled(n, x)
      OBVIOUS
    <3>4. /\ k \in DOMAIN node[n].kids /\ On[n][x] = node[n].kids[k] /\ node[node[n].kids[k]].id = x
          /\ \A j \in DOMAIN node[n].kids : node[node[n].kids[j]].id = x => k <= j
      BY <2>1, <3>1, <3>2, <3>3 DEF Called
    <3> QED BY <2>2, <3>4 DEF Leads
  <2>3. CASE ~ (Answers(node[n]) /\ \E i \in DOMAIN node[n].kids : node[node[n].kids[i]].id = x)
    <3>1. Onward(n, x) = Null
      BY <2>1, <2>3 DEF Onward, ChildIs, Called
    <3> QED BY <2>1, <2>3, <3>1 DEF Leads
  <2> QED BY <2>2, <2>3
<1>4. Reads(Space, Way, node)
  <2>1. ASSUME NEW q \in Paths
        PROVE  Answer(q) = IF Way[q] = Null THEN Null ELSE <<node[Way[q]].type, node[Way[q]].data>>
    <3>1. Way[q] = Landing(Walk(q))
      BY DEF Way, Found
    <3> QED BY <3>1 DEF Answer, Landing
  <2> QED BY <2>1 DEF Space, Reads
<1> QED BY <1>2, <1>3, <1>4 DEF Charted

LEMMA ChartThen ==
  Shape' => /\ Follows(Way', Source', On')
            /\ \A n \in NodeAddr : \A x \in Ids : Leads(node', n, x, On'[n][x])
            /\ Reads(Space', Way', node')
<1>1. Shape' => Charted'
  BY Chart, PTL
<1> QED BY <1>1, Zenon DEF Charted, Follows, Leads, Reads, Answers

LEMMA ChartTight ==
  ASSUME PdbInv, fate = "ok"
  PROVE  Tight(Source, On) /\ \A n \in NodeAddr : node[n].kids \in Seq(NodeAddr)
<1>0. /\ Charted /\ Heap /\ Grown /\ Loads /\ Null \notin NodeAddr /\ Used \subseteq NodeAddr
      /\ \A x \in Ids : On[Null][x] = Null
  BY Chart, PdbAssumption DEF PdbInv, Shape, Charted, Follows, Used
<1>1. ASSUME NEW n \in Anywhere, NEW x \in Ids, On[n][x] # Null
      PROVE  node[On[n][x]].parent = n /\ node[On[n][x]].id = x /\ On[n][x] # Source
  <2>1. n \in NodeAddr
    BY <1>0, <1>1 DEF Anywhere
  <2>2. Leads(node, n, x, On[n][x])
    BY <1>0, <2>1 DEF Charted
  <2>3. PICK i \in DOMAIN node[n].kids : On[n][x] = node[n].kids[i] /\ node[On[n][x]].id = x
    BY <1>1, <2>2 DEF Leads
  <2>4. Answers(node[n])
    BY <1>1, <2>2 DEF Leads
  <2>5. n \in Used
    <3>1. node[n].type # "free"
      BY <2>4, PdbAssumption DEF Answers, Containers
    <3> QED BY <1>0, <2>1, <3>1, UsedIs
  <2>6. db \in Used /\ Held /\ node[db].parent = Null
    BY <1>0, <2>5 DEF Loads, Grown
  <2>7. node[On[n][x]].parent = n
    BY <2>3, <2>5, <2>6 DEF Held
  <2>8. On[n][x] # Source
    BY <1>0, <2>1, <2>6, <2>7 DEF Source
  <2> QED BY <2>3, <2>7, <2>8
<1>2. Tight(Source, On)
  BY <1>1 DEF Tight
<1> QED BY <1>0, <1>2 DEF Heap, Nodes

LEMMA WayUsed ==
  ASSUME PdbInv, fate = "ok"
  PROVE  \A q \in Paths : Way[q] # Null => Way[q] \in Used
<1>1. \A q \in Paths : Found(q) # Null => Found(q) \in Used
  BY FoundIs DEF PdbInv, FoundAt
<1> QED BY <1>1 DEF Way

(* The steps of the space.                                                 *)
Told == Space' = Space \/ S!Step(Space, Space')

LEMMA ToldNext == Told => [S!Next]_Space
<1> SUFFICES ASSUME Told, Space' # Space PROVE S!Next
  BY DEF Told
<1>1. S!Step(Space, Space')
  BY DEF Told
<1> QED BY <1>1 DEF S!Next

LEMMA SamePlaces ==
  ASSUME PdbInv, fate = "ok", Shape', Source' = Source, On' = On,
         \A n \in Used : node'[n].type = node[n].type /\ node'[n].data = node[n].data
  PROVE  Space' = Space
<1>0. /\ Follows(Way, Source, On) /\ Reads(Space, Way, node)
      /\ Follows(Way', Source, On) /\ Reads(Space', Way', node')
  BY Chart, ChartThen DEF PdbInv, Charted
<1>1. Way' = Way
  BY <1>0, SameWay
<1>2. \A q \in Paths : Way[q] # Null => Way[q] \in Used
  BY WayUsed
<1>3. ASSUME NEW q \in Paths, Way[q] # Null
      PROVE  node'[Way[q]].type = node[Way[q]].type /\ node'[Way[q]].data = node[Way[q]].data
  BY <1>2, <1>3
<1> QED BY <1>0, <1>1, <1>3 DEF Reads

(* Functions of two arguments that agree are the same.                     *)
LEMMA SameOn ==
  ASSUME NEW on \in [Anywhere -> [Ids -> Anywhere]], NEW to \in [Anywhere -> [Ids -> Anywhere]],
         \A n \in Anywhere : \A x \in Ids : to[n][x] = on[n][x]
  PROVE  to = on
<1>1. \A n \in Anywhere : to[n] = on[n]
  <2> SUFFICES ASSUME NEW n \in Anywhere PROVE to[n] = on[n]
    OBVIOUS
  <2>1. to[n] \in [Ids -> Anywhere] /\ on[n] \in [Ids -> Anywhere]
    OBVIOUS
  <2> QED BY <2>1
<1> QED BY <1>1

LEMMA CreateOn ==
  ASSUME PdbInv, fate = "ok", Shape', NEW a, NEW p, NEW new, Creating(a, p, new), Answers(node[p])
  PROVE  /\ \A y \in Ids : On'[a][y] = Null /\ On[a][y] = Null
         /\ \A n \in NodeAddr \ {a} : \A y \in Ids :
              On'[n][y] = IF n = p /\ On[p][y] = Null /\ y = new.id THEN a ELSE On[n][y]
<1>0. /\ Heap /\ Grown /\ Loads /\ Null \notin NodeAddr /\ Used \subseteq NodeAddr
      /\ \A n \in NodeAddr : \A x \in Ids : Leads(node, n, x, On[n][x])
      /\ \A n \in NodeAddr : \A x \in Ids : Leads(node', n, x, On'[n][x])
      /\ \A n \in NodeAddr : node[n].kids \in Seq(NodeAddr)
  BY Chart, ChartThen, ChartTight, PdbAssumption DEF PdbInv, Shape, Charted, Used
<1>1. /\ Heap' /\ Used' = Used \cup {a} /\ a \notin Used /\ p \in Used /\ node'[a] = new
      /\ \A n \in Used : node'[n].type = node[n].type /\ node'[n].id = node[n].id
                         /\ node'[n].table = node[n].table
      /\ node'[p].kids = Append(node[p].kids, a)
  BY <1>0, Creates
<1>2. a \in NodeAddr /\ p \in NodeAddr /\ p # a /\ new.kids = << >> /\ DOMAIN << >> = {}
  BY <1>0, <1>1 DEF Creating
<1>3. \A n \in NodeAddr \ {a, p} : node'[n] = node[n]
  BY <1>1, <1>2 DEF Creating
<1>4. db \in Used /\ Held
  BY <1>0, <1>1 DEF Loads, Grown
<1>5. \A n \in NodeAddr : n \notin Used => node[n].kids = << >> /\ ~Answers(node[n])
  BY PdbAssumption DEF Used, Free, NewNode, Answers, Containers
<1>6. \A n \in NodeAddr : \A i \in DOMAIN node[n].kids : node[n].kids[i] \in Used
  BY <1>2, <1>4, <1>5 DEF Held
<1>7. \A n \in NodeAddr : \A i \in DOMAIN node[n].kids :
        node[n].kids[i] # a /\ node'[node[n].kids[i]].id = node[node[n].kids[i]].id
  BY <1>1, <1>6
<1>8. ASSUME NEW y \in Ids PROVE On'[a][y] = Null /\ On[a][y] = Null
  <2>1. Leads(node', a, y, On'[a][y]) /\ Leads(node, a, y, On[a][y]) /\ ~Answers(node[a])
    BY <1>0, <1>1, <1>2, <1>5
  <2>2. node'[a].kids = << >>
    BY <1>1, <1>2
  <2>3. On[a][y] = Null
    BY <2>1 DEF Leads
  <2>4. On'[a][y] = Null
    BY <1>2, <2>1, <2>2 DEF Leads
  <2> QED BY <2>3, <2>4
<1>9. ASSUME NEW n \in NodeAddr \ {a}, NEW y \in Ids
      PROVE  On'[n][y] = IF n = p /\ On[p][y] = Null /\ y = new.id THEN a ELSE On[n][y]
  <2>0. PICK c, d : c = On[n][y] /\ d = On'[n][y]
    OBVIOUS
  <2>1. Leads(node, n, y, c) /\ Leads(node', n, y, d)
    BY <1>0, <2>0
  <2>2. CASE n = p
    <3>1. Answers(node'[p])
      BY <1>1 DEF Answers
    <3>2. node'[n].kids \in Seq(NodeAddr)
      BY <1>1, <1>2, <2>2 DEF Heap, Nodes
    <3>3. Leads(node', n, y, IF c = Null /\ y = node'[a].id THEN a ELSE c)
      BY <1>0, <1>1, <1>2, <1>7, <2>1, <2>2, <3>1, LeadsMore
    <3>4. d = IF c = Null /\ y = node'[a].id THEN a ELSE c
      BY <2>1, <3>2, <3>3, LeadsOne
    <3> QED BY <1>1, <2>0, <2>2, <3>4
  <2>3. CASE n # p
    <3>1. node'[n] = node[n]
      BY <1>3, <2>3
    <3>2. Leads(node', n, y, c)
      BY <1>7, <2>1, <3>1, LeadsSame
    <3>3. d = c
      BY <1>0, <2>1, <3>1, <3>2, LeadsOne
    <3> QED BY <2>0, <2>3, <3>3
  <2> QED BY <2>2, <2>3
<1> QED BY <1>8, <1>9

LEMMA CreateTold ==
  ASSUME PdbInv, fate = "ok", Shape', NEW a, NEW p, NEW new, Creating(a, p, new), db' = db,
         new.id \in Ids, Answers(node[p]), NEW u \in Paths, Found(u) = p, Len(u) < MaxDepth
  PROVE  Told
<1> DEFINE key == new.id
           z == Append(u, key)
<1>0. /\ Heap /\ Loads /\ Null \notin NodeAddr /\ Used \subseteq NodeAddr
      /\ Follows(Way, Source, On) /\ Reads(Space, Way, node) /\ Tight(Source, On)
      /\ Follows(Way', Source', On') /\ Reads(Space', Way', node')
  BY Chart, ChartThen, ChartTight, PdbAssumption DEF PdbInv, Shape, Charted, Used
<1>1. /\ Used' = Used \cup {a} /\ a \notin Used /\ p \in Used /\ node'[a] = new
      /\ \A n \in Used : node'[n].type = node[n].type /\ node'[n].data = node[n].data
      /\ a \in NodeAddr /\ p \in NodeAddr
  BY <1>0, Creates DEF Creating
<1>2. Source' = Source
  <2>1. db \in Used
    BY <1>0, <1>1 DEF Loads
  <2> QED BY <1>1, <2>1 DEF Source
<1>3. Way[u] = p
  BY DEF Way
<1>4. \A q \in Paths : Way[q] # Null => Way[q] \in Used
  BY WayUsed
<1>5. /\ \A y \in Ids : On'[a][y] = Null /\ On[a][y] = Null
      /\ \A n \in NodeAddr \ {a} : \A y \in Ids :
           On'[n][y] = IF n = p /\ On[p][y] = Null /\ y = key THEN a ELSE On[n][y]
      /\ \A y \in Ids : On'[Null][y] = Null /\ On[Null][y] = Null
  <2>1. /\ \A y \in Ids : On'[a][y] = Null /\ On[a][y] = Null
        /\ \A n \in NodeAddr \ {a} : \A y \in Ids :
             On'[n][y] = IF n = p /\ On[p][y] = Null /\ y = new.id THEN a ELSE On[n][y]
    BY CreateOn
  <2>2. \A y \in Ids : On'[Null][y] = Null /\ On[Null][y] = Null
    BY <1>0 DEF Follows
  <2> QED BY <2>1, <2>2
<1>6. CASE On[p][key] # Null
  <2>1. \A n \in Anywhere : \A y \in Ids : On'[n][y] = On[n][y]
    BY <1>5, <1>6 DEF Anywhere
  <2>2. On' = On
    BY <1>0, <2>1, SameOn DEF Follows
  <2> QED BY <1>1, <1>2, <2>2, SamePlaces DEF Told
<1>7. CASE On[p][key] = Null
  <2>1. Adding(On, On', Way[u], key, a)
    BY <1>0, <1>1, <1>3, <1>5, <1>7 DEF Adding, Anywhere
  <2>2. \A q \in Paths : Way[q] # a
    BY <1>0, <1>1, <1>4
  <2>3. Way[u] # Null
    BY <1>0, <1>1, <1>3
  <2> HIDE DEF key
  <2>4. \A q \in Paths : Way'[q] = IF q = z THEN a ELSE Way[q]
    <3>1. PICK f, g, r, on, to : f = Way /\ g = Way' /\ r = Source /\ on = On /\ to = On'
      OBVIOUS
    <3>2. Extending(f, g, r, on, to, u, key, a)
      BY <1>0, <1>2, <2>1, <2>2, <2>3, <3>1 DEF Extending
    <3>3. \A q \in Paths : g[q] = IF q = Append(u, key) THEN a ELSE f[q]
      BY <3>2, AddedWay
    <3> QED BY <3>1, <3>3
  <2>5. z \in Paths \ {<< >>} /\ Above(z) = u /\ S!Above(z) = u /\ z[Len(z)] = key
    <3>1. key \in Ids
      BY DEF key
    <3>2. z \in Paths \ {<< >>} /\ Above(z) = u /\ S!Above(z) = u
      BY <3>1, PathLemmas
    <3> HIDE DEF z
    <3>3. z[Len(z)] = key
      BY <3>1, <3>2, PathLemmas DEF z
    <3> QED BY <3>2, <3>3
  <2> HIDE DEF z
  <2>6. Way[z] = Null
    BY <1>0, <1>3, <1>7, <2>5 DEF Follows
  <2>7. \A q \in Paths : Space'[q] = IF q = z THEN <<new.type, new.data>> ELSE Space[q]
    <3>1. ASSUME NEW q \in Paths, q # z PROVE Space'[q] = Space[q]
      <4>1. Way'[q] = Way[q]
        BY <2>4, <3>1
      <4>2. CASE Way[q] = Null
        BY <1>0, <4>1, <4>2 DEF Reads
      <4>3. CASE Way[q] # Null
        <5>1. node'[Way[q]].type = node[Way[q]].type /\ node'[Way[q]].data = node[Way[q]].data
          BY <1>1, <1>4, <4>3
        <5> QED BY <1>0, <4>1, <4>3, <5>1 DEF Reads
      <4> QED BY <4>2, <4>3
    <3>2. Space'[z] = <<new.type, new.data>>
      BY <1>0, <1>1, <2>4, <2>5 DEF Reads
    <3> QED BY <3>1, <3>2
  <2>8. Space[z] = Null /\ Space[u] = <<node[p].type, node[p].data>>
    BY <1>0, <1>3, <2>3, <2>5, <2>6 DEF Reads
  <2>9. node[p].type \in Containers /\ node[p].data = Null
    BY <1>0, <1>1 DEF Answers, Heap, Sound
  <2>10. \/ new.type \in Containers /\ new.data = Null
         \/ new.type = "string" /\ new.data \in Values \cup {Null}
         \/ new.type = "link" /\ new.data \in NodeAddr
    <3>1. new.type \in Kinds /\ Sound(new)
      BY DEF Creating, Nodes
    <3>2. new.type \in {"tree", "list", "hash", "string", "link"}
      BY <3>1, PdbAssumption
    <3> QED BY <3>1, <3>2 DEF Sound, Containers
  <2>11. PICK s, t : s = Space /\ t = Space'
    OBVIOUS
  <2>12. t = [s EXCEPT ![z] = t[z]]
    <3>1. /\ s = [q \in Paths |-> s[q]] /\ t = [q \in Paths |-> t[q]]
          /\ \A q \in Paths \ {z} : t[q] = s[q]
      BY <1>0, <2>7, <2>11 DEF Reads
    <3> QED BY <2>5, <3>1
  <2>13. S!Put(s, t)
    <3>1. s[S!Above(z)] \in {<<c, Null>> : c \in Containers}
      BY <2>5, <2>8, <2>9, <2>11
    <3>2. t[z] = <<new.type, new.data>>
      BY <2>5, <2>7, <2>11
    <3>3. t[z] \in {<<c, Null>> : c \in Containers}
            \cup ({<<"string", v>> : v \in Values \cup {Null}} \cup {<<"link", n>> : n \in NodeAddr})
      BY <2>10, <3>2
    <3> QED BY <2>5, <2>8, <2>11, <2>12, <3>1, <3>3 DEF S!Put, S!Root
  <2> QED BY <2>11, <2>13 DEF Told, S!Step
<1> QED BY <1>6, <1>7

LEMMA GoneTold ==
  ASSUME PdbInv, fate = "ok", Shape', Used' = {}
  PROVE  Told
<1>0. /\ Follows(Way, Source, On) /\ Reads(Space, Way, node)
      /\ Follows(Way', Source', On') /\ Reads(Space', Way', node')
  BY Chart, ChartThen DEF PdbInv, Charted
<1>1. Source' = Null
  BY DEF Source
<1>2. \A q \in Paths : Way'[q] = Null
  BY <1>0, <1>1, NoWay
<1>3. Space' = [q \in Paths |-> Null]
  BY <1>0, <1>2 DEF Reads
<1>4. PICK e \in Paths : \A q \in Paths : S!Prefix(e, q)
  BY PathIs, PathLemmas
<1>5. Space' = [q \in Paths |-> IF S!Prefix(e, q) THEN Null ELSE Space[q]]
  BY <1>3, <1>4
<1>6. S!Del(Space, Space')
  BY <1>5 DEF S!Del
<1> QED BY <1>6 DEF Told, S!Step

LEMMA DeleteOn ==
  ASSUME PdbInv, fate = "ok", Shape', ~Twins, NEW w, NEW p, Deleting(w, p), w # db
  PROVE  Cutting(Source, On, On', w, Whole[w])
<1> DEFINE dead == Whole[w]
           k == FirstCalled(p, node[w].id)
<1>0. /\ Heap /\ Grown /\ Heap' /\ Null \notin NodeAddr /\ Used \subseteq NodeAddr
      /\ \A n \in NodeAddr : \A x \in Ids : Leads(node, n, x, On[n][x])
      /\ \A n \in NodeAddr : \A x \in Ids : Leads(node', n, x, On'[n][x])
      /\ \A n \in NodeAddr : node[n].kids \in Seq(NodeAddr)
      /\ Follows(Way, Source, On) /\ Follows(Way', Source', On')
  BY Chart, ChartThen, ChartTight, PdbAssumption DEF PdbInv, Shape, Charted, Used
<1>1. /\ w \in Used /\ db \in Used /\ Held /\ p = node[w].parent
  BY <1>0 DEF Deleting, Grown
<1>2. /\ w \in dead /\ dead \subseteq Used
      /\ \A n \in dead : ToSet(node[n].kids) \subseteq dead
  BY <1>0, <1>1, WholeIs
<1>3. /\ Used' = Used \ dead
      /\ \A n \in dead \ {w} : n # db /\ node[n].parent \in dead
      /\ \A n \in Used' : /\ node'[n].type = node[n].type /\ node'[n].id = node[n].id
                          /\ node'[n].table = node[n].table
      /\ \A n \in Used' \ {p} : node'[n] = node[n]
      /\ p \in Used' => /\ TakingOut(NodeAddr, node[p].kids, k, node'[p].kids)
                        /\ node[p].kids[k] = w
  BY <1>0, Deletes
<1> HIDE DEF dead, k
<1>4. \A n \in NodeAddr : n \notin Used => ~Answers(node[n])
  BY PdbAssumption DEF Used, Free, NewNode, Answers, Containers
<1>5. \A n \in NodeAddr : n \notin Used' => ~Answers(node'[n])
  <2>1. \A n \in NodeAddr : n \notin Used' => node'[n].type = "free"
    BY <1>0, UsedThen
  <2> QED BY <2>1, PdbAssumption DEF Answers, Containers
<1>6. ASSUME NEW n \in NodeAddr, NEW x \in Ids, On[n][x] # Null
      PROVE  /\ n \in Used /\ On[n][x] \in Used /\ node[On[n][x]].parent = n
             /\ On[n][x] \in ToSet(node[n].kids)
  <2>1. Leads(node, n, x, On[n][x])
    BY <1>0
  <2>2. Answers(node[n]) /\ \E i \in DOMAIN node[n].kids : On[n][x] = node[n].kids[i]
    BY <1>6, <2>1 DEF Leads
  <2> QED BY <1>1, <1>4, <2>2 DEF Held, ToSet
<1>7. \A n \in Used' : \A i \in DOMAIN node'[n].kids :
        node'[node'[n].kids[i]].id = node[node'[n].kids[i]].id
  <2>1. ASSUME NEW n \in Used', NEW i \in DOMAIN node'[n].kids
        PROVE  node'[n].kids[i] \in Used'
    <3> DEFINE c == node'[n].kids[i]
    <3>1. c \in ToSet(node[n].kids) /\ (n = p => c # w)
      <4>1. CASE n = p
        <5>1. PICK s, t : /\ s = node[p].kids /\ t = node'[p].kids
                          /\ TakingOut(NodeAddr, s, k, t) /\ s[k] = w
          BY <1>3, <2>1, <4>1
        <5>2. \A h, j \in DOMAIN s : s[h] = s[j] => h = j
          BY <1>1, <1>3, <2>1, <4>1, <5>1 DEF Held
        <5>3. \A h \in DOMAIN t : t[h] \in ToSet(s) \ {s[k]}
          BY <5>1, <5>2, Rest
        <5> QED BY <2>1, <4>1, <5>1, <5>3
      <4>2. CASE n # p
        <5>1. node'[n] = node[n]
          BY <1>3, <4>2
        <5> QED BY <2>1, <4>2, <5>1 DEF ToSet
      <4> QED BY <4>1, <4>2
    <3> HIDE DEF c
    <3>2. c \in Used /\ node[c].parent = n /\ n \in Used /\ n \notin dead
      BY <1>1, <1>3, <3>1 DEF Held, ToSet
    <3>3. c # w
      BY <1>1, <3>1, <3>2
    <3>4. c \notin dead
      BY <1>3, <3>2, <3>3
    <3> QED BY <1>3, <3>2, <3>4 DEF c
  <2> QED BY <1>3, <2>1
<1>8. ASSUME NEW n \in NodeAddr, NEW x \in Ids
      PROVE  On'[n][x] = IF n \in dead \/ On[n][x] = w THEN Null ELSE On[n][x]
  <2>0. PICK c, d : c = On[n][x] /\ d = On'[n][x]
    OBVIOUS
  <2>1. Leads(node, n, x, c) /\ Leads(node', n, x, d)
    BY <1>0, <2>0
  <2>2. CASE n \notin Used'
    <3>1. d = Null
      BY <1>5, <2>1, <2>2 DEF Leads
    <3>2. n \notin dead => c = Null
      <4>1. n \notin dead => n \notin Used
        BY <1>3, <2>2
      <4> QED BY <1>4, <2>1, <4>1 DEF Leads
    <3> QED BY <2>0, <3>1, <3>2
  <2>3. CASE n \in Used'
    <3>0. /\ n \in Used /\ n \notin dead /\ node'[n].kids \in Seq(NodeAddr)
          /\ Answers(node'[n]) <=> Answers(node[n])
      BY <1>0, <1>3, <2>3 DEF Heap, Nodes, Answers
    <3>1. CASE n = p
      <4>1. PICK s, t : /\ s = node[p].kids /\ t = node'[p].kids
                        /\ TakingOut(NodeAddr, s, k, t) /\ s[k] = w
        BY <1>3, <2>3, <3>1
      <4>2. \A h, j \in DOMAIN s : s[h] = s[j] => h = j
        BY <1>1, <3>0, <3>1, <4>1 DEF Held
      <4>3. ToSet(t) = ToSet(s) \ {w} /\ \A h, j \in DOMAIN t : t[h] = t[j] => h = j
        BY <4>1, <4>2, Rest
      <4>4. \A i, j \in DOMAIN s : node[s[i]].id = node[s[j]].id => i = j
        <5>1. DOMAIN s = 1 .. Len(s) /\ Len(s) \in Nat
          BY <1>0, <3>0, <3>1, <4>1
        <5>2. \A i, j \in DOMAIN s : ~ (i < j /\ node[s[i]].id = node[s[j]].id)
          BY <3>0, <3>1, <4>1 DEF Twins
        <5> QED BY <5>1, <5>2
      <4>5. /\ \A i, j \in DOMAIN node[n].kids :
                 node[node[n].kids[i]].id = node[node[n].kids[j]].id => i = j
            /\ \A i, j \in DOMAIN node'[n].kids : node'[n].kids[i] = node'[n].kids[j] => i = j
            /\ ToSet(node'[n].kids) = ToSet(node[n].kids) \ {w}
            /\ \A i \in DOMAIN node'[n].kids : node'[node'[n].kids[i]].id = node[node'[n].kids[i]].id
        BY <1>7, <2>3, <3>1, <4>1, <4>3, <4>4
      <4>6. Leads(node', n, x, IF c = w THEN Null ELSE c)
        BY <1>0, <2>1, <3>0, <4>5, LeadsLess
      <4>7. d = IF c = w THEN Null ELSE c
        BY <2>1, <3>0, <4>6, LeadsOne
      <4> QED BY <2>0, <3>0, <4>7
    <3>2. CASE n # p
      <4>1. node'[n] = node[n]
        BY <1>3, <2>3, <3>2
      <4>2. \A i \in DOMAIN node[n].kids : node'[node[n].kids[i]].id = node[node[n].kids[i]].id
        BY <1>7, <2>3, <4>1
      <4>3. Leads(node', n, x, c)
        BY <2>1, <4>1, <4>2, LeadsSame
      <4>4. d = c
        BY <2>1, <3>0, <4>3, LeadsOne
      <4>5. c = w => c = Null
        BY <1>1, <1>6, <2>0, <3>2
      <4> QED BY <2>0, <3>0, <4>4, <4>5
    <3> QED BY <3>1, <3>2
  <2> QED BY <2>2, <2>3
<1>9. Source = db /\ db \notin dead /\ Null \notin dead
  BY <1>0, <1>1, <1>2, <1>3 DEF Source
<1>10. ASSUME NEW n \in Anywhere, NEW x \in Ids
       PROVE  /\ On'[n][x] = IF n \in dead \/ On[n][x] = w THEN Null ELSE On[n][x]
              /\ n \in dead /\ On[n][x] # Null => On[n][x] \in dead
              /\ On[n][x] \in dead \ {w} => n \in dead
  <2>1. CASE n = Null
    <3>1. On[n][x] = Null /\ On'[n][x] = Null
      BY <1>0, <2>1 DEF Follows
    <3> QED BY <1>9, <2>1, <3>1
  <2>2. CASE n \in NodeAddr
    <3>1. n \in dead /\ On[n][x] # Null => On[n][x] \in dead
      BY <1>2, <1>6, <2>2
    <3>2. On[n][x] \in dead \ {w} => n \in dead
      BY <1>3, <1>6, <1>9, <2>2
    <3> QED BY <1>8, <2>2, <3>1, <3>2
  <2> QED BY <2>1, <2>2 DEF Anywhere
<1> QED BY <1>2, <1>9, <1>10 DEF Cutting, dead

LEMMA DeleteTold ==
  ASSUME PdbInv, fate = "ok", Shape', ~Twins, NEW path \in Paths, Found(path) # Null,
         Deleting(Found(path), node[Found(path)].parent), db' = db
  PROVE  Told
<1> DEFINE w == Found(path)
           dead == Whole[w]
<1>0. /\ Heap /\ Grown /\ Loads /\ db \in Used /\ w \in Used /\ w = Way[path]
      /\ Follows(Way, Source, On) /\ Reads(Space, Way, node) /\ Tight(Source, On)
      /\ Follows(Way', Source', On') /\ Reads(Space', Way', node')
  BY Chart, ChartThen, ChartTight DEF PdbInv, Shape, Charted, Deleting, Way
<1>1. /\ Used' = Used \ dead
      /\ \A n \in Used' : node'[n].type = node[n].type /\ node'[n].data = node[n].data
  BY <1>0, Deletes
<1>2. CASE w = db
  <2>1. Used' = {}
    BY <1>0, <1>1, <1>2, AllBelow
  <2> QED BY <2>1, GoneTold
<1>3. CASE w # db
  <2>1. Cutting(Source, On, On', w, dead)
    BY <1>0, <1>3, DeleteOn
  <2> HIDE DEF w, dead
  <2>2. Source' = Source
    BY <1>0, <1>1, <2>1 DEF Cutting, Source
  <2>3. \A q \in Paths : /\ Way'[q] = IF Within(path, q) THEN Null ELSE Way[q]
                         /\ ~Within(path, q) => Way[q] \notin dead
    <3>1. PICK f, g, r, on, to : f = Way /\ g = Way' /\ r = Source /\ on = On /\ to = On'
      OBVIOUS
    <3>2. Pruning(f, g, r, on, to, path, dead)
      BY <1>0, <2>1, <2>2, <3>1 DEF Pruning
    <3> QED BY <3>1, <3>2, CutWay
  <2>4. \A q \in Paths : Way[q] # Null => Way[q] \in Used
    BY WayUsed
  <2>5. ASSUME NEW q \in Paths
        PROVE  Space'[q] = IF S!Prefix(path, q) THEN Null ELSE Space[q]
    <3>1. S!Prefix(path, q) <=> Within(path, q)
      BY PathLemmas
    <3>2. CASE Within(path, q)
      BY <1>0, <2>3, <3>1, <3>2 DEF Reads
    <3>3. CASE ~Within(path, q)
      <4>1. Way'[q] = Way[q]
        BY <2>3, <3>3
      <4>2. CASE Way[q] = Null
        BY <1>0, <3>1, <3>3, <4>1, <4>2 DEF Reads
      <4>3. CASE Way[q] # Null
        <5>1. node'[Way[q]].type = node[Way[q]].type /\ node'[Way[q]].data = node[Way[q]].data
          BY <1>1, <2>3, <2>4, <3>3, <4>3
        <5> QED BY <1>0, <3>1, <3>3, <4>1, <4>3, <5>1 DEF Reads
      <4> QED BY <4>2, <4>3
    <3> QED BY <3>2, <3>3
  <2>6. Space' = [q \in Paths |-> IF S!Prefix(path, q) THEN Null ELSE Space[q]]
    <3>1. Space' = [q \in Paths |-> Space'[q]]
      BY <1>0 DEF Reads
    <3> QED BY <2>5, <3>1
  <2>7. S!Del(Space, Space')
    BY <2>6 DEF S!Del
  <2> QED BY <2>7 DEF Told, S!Step
<1> QED BY <1>2, <1>3

LEMMA RewriteOn ==
  ASSUME PdbInv, fate = "ok", Shape', NEW n, NEW new, Rewriting(n, new), db' = db,
         (Answers(new) <=> Answers(node[n])) \/ new.kids = << >>
  PROVE  Source' = Source /\ On' = On
<1>0. /\ Heap /\ Grown /\ Loads /\ Null \notin NodeAddr /\ Used \subseteq NodeAddr
      /\ \A m \in NodeAddr : \A x \in Ids : Leads(node, m, x, On[m][x])
      /\ \A m \in NodeAddr : \A x \in Ids : Leads(node', m, x, On'[m][x])
      /\ \A m \in NodeAddr : node[m].kids \in Seq(NodeAddr)
      /\ Follows(Way, Source, On) /\ Follows(Way', Source', On')
  BY Chart, ChartThen, ChartTight, PdbAssumption DEF PdbInv, Shape, Charted, Used
<1>1. /\ Used' = Used /\ node'[n] = new /\ \A m \in NodeAddr \ {n} : node'[m] = node[m]
      /\ \A m \in Used : node'[m].id = node[m].id /\ node'[m].kids = node[m].kids
      /\ n \in Used
  BY <1>0, Rewrites DEF Rewriting
<1>2. db \in Used /\ Held
  BY <1>0, <1>1 DEF Loads, Grown
<1>3. Source' = Source
  BY <1>1 DEF Source
<1>4. \A m \in NodeAddr : m \notin Used => node[m].kids = << >>
  BY DEF Used, Free, NewNode
<1>5. \A m \in NodeAddr : \A i \in DOMAIN node[m].kids :
        node'[node[m].kids[i]].id = node[node[m].kids[i]].id
  <2>1. DOMAIN << >> = {}
    OBVIOUS
  <2> QED BY <1>1, <1>2, <1>4, <2>1 DEF Held
<1>6. ASSUME NEW m \in NodeAddr, NEW x \in Ids PROVE On'[m][x] = On[m][x]
  <2>0. PICK c, d : c = On[m][x] /\ d = On'[m][x]
    OBVIOUS
  <2>1. Leads(node, m, x, c) /\ Leads(node', m, x, d)
    BY <1>0, <2>0
  <2>2. node'[m].kids = node[m].kids /\ node'[m].kids \in Seq(NodeAddr)
    BY <1>0, <1>1
  <2>3. CASE Answers(node'[m]) <=> Answers(node[m])
    <3>1. Leads(node', m, x, c)
      BY <1>5, <2>1, <2>2, <2>3, LeadsSame
    <3> QED BY <2>0, <2>1, <2>2, <3>1, LeadsOne
  <2>4. CASE node[m].kids = << >>
    <3>1. DOMAIN node[m].kids = {} /\ DOMAIN node'[m].kids = {}
      BY <2>2, <2>4
    <3>2. c = Null /\ d = Null
      BY <2>1, <3>1 DEF Leads
    <3> QED BY <2>0, <3>2
  <2>5. m # n => (Answers(node'[m]) <=> Answers(node[m]))
    BY <1>1
  <2>6. m = n => (Answers(node'[m]) <=> Answers(node[m])) \/ node[m].kids = << >>
    BY <1>1, <2>2
  <2> QED BY <2>3, <2>4, <2>5, <2>6
<1>7. \A m \in Anywhere : \A x \in Ids : On'[m][x] = On[m][x]
  BY <1>0, <1>6 DEF Follows, Anywhere
<1>8. On' = On
  BY <1>0, <1>7, SameOn DEF Follows
<1> QED BY <1>3, <1>8

LEMMA OverwriteTold ==
  ASSUME PdbInv, fate = "ok", Shape', NEW c \in Used, NEW type \in Kinds \ {"link"}, NEW v \in Values,
         Overwrite(c, type, v), db' = db, fate' = "ok", node' # node,
         NEW z \in Paths, Way[z] = c
  PROVE  Told
<1>0. /\ Heap /\ c \in NodeAddr /\ node[c] \in Nodes /\ Sound(node[c]) /\ c # Null
      /\ Follows(Way, Source, On) /\ Reads(Space, Way, node) /\ Tight(Source, On)
      /\ Follows(Way', Source', On') /\ Reads(Space', Way', node')
  BY Chart, ChartThen, ChartTight, PdbAssumption DEF PdbInv, Shape, Charted, Used, Heap
<1>1. \/ type = "string" /\ type = node[c].type /\ node' = [node EXCEPT ![c].data = v]
      \/ type = "hash" /\ type = node[c].type /\ node[c].kids = << >> /\ node' = [node EXCEPT ![c].table = TRUE]
  <2>1. type \in {"tree", "list", "string", "hash"}
    BY PdbAssumption
  <2>2. CASE type \in {"tree", "list"}
    BY <2>2 DEF Overwrite
  <2>3. CASE type \in {"string", "hash"} /\ type # node[c].type
    BY <2>3 DEF Overwrite
  <2>4. CASE type = "string" /\ type = node[c].type
    BY <2>4 DEF Overwrite
  <2>5. CASE type = "hash" /\ type = node[c].type
    BY <2>5 DEF Overwrite
  <2> QED BY <2>1, <2>2, <2>3, <2>4, <2>5
<1>2. CASE type = "hash" /\ type = node[c].type /\ node[c].kids = << >> /\ node' = [node EXCEPT ![c].table = TRUE]
  <2>1. PICK q, new : q = node[c] /\ new = [q EXCEPT !.table = TRUE]
    OBVIOUS
  <2>2. /\ new \in Nodes /\ new.type = q.type /\ new.id = q.id /\ new.parent = q.parent
        /\ new.kids = q.kids /\ new.table /\ new.data = q.data
    BY <1>0, <2>1 DEF Nodes
  <2>3. Sound(new)
    BY <1>0, <1>2, <2>1, <2>2 DEF Sound
  <2>4. node' = [node EXCEPT ![c] = new]
    BY <1>2, <2>1
  <2>5. Rewriting(c, new) /\ new.kids = << >>
    BY <1>2, <2>1, <2>2, <2>3, <2>4 DEF Rewriting
  <2>6. Source' = Source /\ On' = On
    BY <2>5, RewriteOn
  <2>7. \A n \in Used : node'[n].type = node[n].type /\ node'[n].data = node[n].data
    <3>1. node'[c] = new /\ \A m \in NodeAddr \ {c} : node'[m] = node[m]
      BY <1>0, <2>5, Rewrites
    <3> QED BY <2>1, <2>2, <3>1 DEF Used
  <2> QED BY <2>6, <2>7, SamePlaces DEF Told
<1>3. CASE type = "string" /\ type = node[c].type /\ node' = [node EXCEPT ![c].data = v]
  <2>1. PICK q, new : q = node[c] /\ new = [q EXCEPT !.data = v]
    OBVIOUS
  <2>2. /\ new \in Nodes /\ new.type = q.type /\ new.id = q.id /\ new.parent = q.parent
        /\ new.kids = q.kids /\ new.table = q.table /\ new.data = v
    BY <1>0, <2>1 DEF Nodes
  <2>3. Sound(new)
    BY <1>0, <1>3, <2>1, <2>2, PdbAssumption DEF Sound, Containers
  <2>4. node' = [node EXCEPT ![c] = new]
    BY <1>3, <2>1
  <2>5. Rewriting(c, new) /\ (Answers(new) <=> Answers(node[c]))
    BY <2>1, <2>2, <2>3, <2>4 DEF Rewriting, Answers
  <2>6. Source' = Source /\ On' = On
    BY <2>5, RewriteOn
  <2>7. node'[c] = new /\ \A m \in NodeAddr \ {c} : node'[m] = node[m]
    BY <1>0, <2>5, Rewrites
  <2>8. Way' = Way
    BY <1>0, <2>6, SameWay
  <2>9. \A p \in Paths : Way[p] = c => p = z
    BY <1>0, OneWay
  <2>10. \A p \in Paths : Way[p] \in Anywhere
    BY <1>0 DEF Follows
  <2>11. PICK s, t : s = Space /\ t = Space'
    OBVIOUS
  <2>12. ASSUME NEW p \in Paths \ {z} PROVE t[p] = s[p]
    <3>1. CASE Way[p] = Null
      BY <1>0, <2>8, <2>11, <3>1 DEF Reads
    <3>2. CASE Way[p] # Null
      <4>1. node'[Way[p]] = node[Way[p]]
        BY <2>7, <2>9, <2>10, <3>2 DEF Anywhere
      <4> QED BY <1>0, <2>8, <2>11, <3>2, <4>1 DEF Reads
    <3> QED BY <3>1, <3>2
  <2>13. s[z] = <<"string", node[c].data>> /\ t[z] = <<"string", v>>
    BY <1>0, <1>3, <2>1, <2>2, <2>7, <2>8, <2>11 DEF Reads
  <2>14. t = [s EXCEPT ![z] = t[z]]
    <3>1. s = [p \in Paths |-> s[p]] /\ t = [p \in Paths |-> t[p]]
      BY <1>0, <2>11 DEF Reads
    <3> QED BY <2>12, <3>1
  <2>15. node[c].data \in Values \cup {Null}
    BY <1>0, <1>3 DEF Sound
  <2>16. S!Set(s, t)
    <3>1. {s[z], t[z]} \subseteq {<<"string", x>> : x \in Values \cup {Null}} \cup {<<"link", n>> : n \in NodeAddr}
      BY <2>13, <2>15
    <3> QED BY <2>14, <3>1 DEF S!Set
  <2> QED BY <2>11, <2>16 DEF Told, S!Step
<1> QED BY <1>1, <1>2, <1>3

LEMMA OpenTold ==
  ASSUME PdbInv, Shape', NEW a \in Malloc, NEW file \in BOOLEAN, Open(a, file)
  PROVE  Told
<1> DEFINE new == NewNode("tree", Null, Null, Null)
<1>0. /\ Heap /\ Loads /\ Null \notin NodeAddr /\ a \in NodeAddr /\ fate = "ok" /\ db = Null /\ db' = a
      /\ Used = {} /\ node' = [node EXCEPT ![a] = new]
      /\ Follows(Way, Source, On) /\ Reads(Space, Way, node)
      /\ Follows(Way', Source', On') /\ Reads(Space', Way', node') /\ Heap'
      /\ \A n \in NodeAddr : \A x \in Ids : Leads(node', n, x, On'[n][x])
  BY Chart, ChartThen, PdbAssumption DEF PdbInv, Shape, Charted, Open, Ready, Malloc, Loads, Used
<1>1. new.type = "tree" /\ new.data = Null /\ new.kids = << >> /\ DOMAIN << >> = {}
  BY DEF NewNode
<1> HIDE DEF new
<1>2. node'[a] = new /\ \A n \in NodeAddr \ {a} : node'[n] = node[n] /\ node[n] = Free
  BY <1>0 DEF Heap, Used
<1>3. Source = Null /\ Source' = a
  <2>1. a \in Used'
    BY <1>0, <1>1, <1>2, UsedThen
  <2> QED BY <1>0, <2>1 DEF Source
<1>4. \A n \in NodeAddr : \A x \in Ids : On'[n][x] = Null
  <2>1. Free.kids = << >>
    BY DEF Free, NewNode
  <2>2. ASSUME NEW n \in NodeAddr, NEW x \in Ids PROVE On'[n][x] = Null
    <3>1. Leads(node', n, x, On'[n][x]) /\ node'[n].kids = << >>
      BY <1>0, <1>1, <1>2, <2>1
    <3> QED BY <1>1, <3>1 DEF Leads
  <2> QED BY <2>2
<1>5. \A q \in Paths : Way[q] = Null
  BY <1>0, <1>3, NoWay
<1>6. PICK e \in Paths : e = << >>
  BY PathIs
<1>7. \A q \in Paths : Way'[q] = IF q = e THEN a ELSE Null
  <2>1. Way'[e] = a
    BY <1>0, <1>3, <1>6 DEF Follows
  <2>2. ASSUME NEW q \in Paths, q # e PROVE Way'[q] = Null
    <3>1. PICK n \in Anywhere, x \in Ids : Way'[q] = On'[n][x]
      <4>1. PICK g, r, to : g = Way' /\ r = Source' /\ to = On'
        OBVIOUS
      <4>2. q # << >> /\ Follows(g, r, to)
        BY <1>0, <1>6, <2>2, <4>1
      <4> QED BY <4>1, <4>2, StepAlong
    <3>2. \A y \in Ids : On'[Null][y] = Null
      BY <1>0 DEF Follows
    <3> QED BY <1>4, <3>1, <3>2 DEF Anywhere
  <2> QED BY <2>1, <2>2
<1>8. PICK s, t : s = Space /\ t = Space'
  OBVIOUS
<1>9. s = [q \in Paths |-> Null] /\ t = [q \in Paths |-> IF q = e THEN <<"tree", Null>> ELSE Null]
  BY <1>0, <1>1, <1>2, <1>5, <1>7, <1>8 DEF Reads
<1>10. t = [s EXCEPT ![e] = <<"tree", Null>>]
  BY <1>9
<1>11. "tree" \in Containers
  BY PdbAssumption DEF Containers
<1>12. S!Open(s, t)
  BY <1>6, <1>9, <1>10, <1>11 DEF S!Open, S!Root
<1> QED BY <1>8, <1>12 DEF Told, S!Step

(* The block that the loader is in has a path, which is not the deepest.    *)
LEMMA BlockPath ==
  ASSUME PdbInv, Loading, ~Twins
  PROVE  \E u \in Paths : Found(u) = Last(stack) /\ Len(u) < MaxDepth
<1>0. /\ Heap /\ Grown /\ Loads /\ Null \notin NodeAddr /\ Used \subseteq NodeAddr
      /\ stack \in Seq(NodeAddr) /\ stack # << >> /\ MaxDepth \in Nat
      /\ \A n \in NodeAddr : \A x \in Ids : Leads(node, n, x, On[n][x])
      /\ \A n \in NodeAddr : node[n].kids \in Seq(NodeAddr)
      /\ Follows(Way, Source, On)
  BY Chart, ChartTight, PdbAssumption DEF PdbInv, Shape, Charted, Used, Loading
<1>1. PICK s, n : s = stack /\ n = Len(s)
  OBVIOUS
<1>2. /\ s \in Seq(NodeAddr) /\ n \in Nat /\ n > 0 /\ DOMAIN s = 1 .. n /\ n <= MaxDepth
      /\ db \in Used /\ s[1] = db /\ node[db].parent = Null /\ Held /\ Holders
      /\ \A i \in 1 .. n : s[i] \in Used /\ Answers(node[s[i]])
      /\ \A i \in 2 .. n : node[s[i]].parent = s[i - 1] /\ node[s[i]].id \in Ids
  BY <1>0, <1>1 DEF Loads, Grown, Answers
<1>3. ASSUME NEW i \in 2 .. n
      PROVE  On[s[i - 1]][node[s[i]].id] = s[i]
  <2>1. PICK m, a, x : m = s[i - 1] /\ a = s[i] /\ x = node[a].id
    OBVIOUS
  <2>2. i \in 1 .. n /\ i - 1 \in 1 .. n
    BY <1>2
  <2>3. m \in Used /\ a \in Used /\ x \in Ids /\ node[a].parent = m /\ Answers(node[m])
    BY <1>2, <2>1, <2>2
  <2>4. a # db
    BY <1>0, <1>2, <2>3
  <2>5. PICK k \in DOMAIN node[m].kids : node[m].kids[k] = a
    BY <1>2, <2>3, <2>4 DEF Holders, ToSet
  <2>6. Leads(node, m, x, On[m][x])
    BY <1>0, <2>3
  <2>7. PICK h \in DOMAIN node[m].kids : On[m][x] = node[m].kids[h] /\ node[On[m][x]].id = x
    BY <2>1, <2>3, <2>5, <2>6 DEF Leads
  <2>8. DOMAIN node[m].kids \subseteq Nat
    <3>1. node[m].kids \in Seq(NodeAddr)
      BY <1>0, <2>3
    <3> QED BY <3>1
  <2>9. h = k
    <3>1. ~ (h < k) /\ ~ (k < h)
      BY <2>1, <2>3, <2>5, <2>7 DEF Twins
    <3> QED BY <2>5, <2>7, <2>8, <3>1
  <2> QED BY <2>1, <2>5, <2>7, <2>9
<1> DEFINE Leading(m, u) == Len(u) = m - 1 /\ Way[u] = s[m]
           B == {m \in 1 .. n : ~ \E u \in Paths : Leading(m, u)}
<1>4. B = {}
  <2> SUFFICES ASSUME B # {} PROVE FALSE
    OBVIOUS
  <2>1. PICK m \in B : \A k \in B : m <= k
    <3>1. B \subseteq Nat
      OBVIOUS
    <3> HIDE DEF B
    <3> QED BY <3>1, LeastNat
  <2>2. CASE m = 1
    <3>1. PICK e \in Paths : e = << >>
      BY PathIs
    <3>2. Len(e) = 0 /\ Way[e] = s[1]
      BY <1>0, <1>2, <3>1 DEF Follows, Source
    <3> QED BY <2>2, <3>1, <3>2
  <2>3. CASE m # 1
    <3>1. m \in 2 .. n /\ m - 1 \in 1 .. n /\ ~ (m <= m - 1)
      BY <1>2, <2>3
    <3>2. m - 1 \notin B
      <4> HIDE DEF B
      <4> QED BY <2>1, <3>1
    <3>3. PICK u \in Paths : Leading(m - 1, u)
      BY <3>1, <3>2
    <3>4. PICK x \in Ids : x = node[s[m]].id
      BY <1>2, <3>1
    <3>5. Len(u) = m - 2 /\ m - 2 \in Nat /\ Len(u) < MaxDepth /\ Way[u] = s[m - 1]
      BY <1>0, <1>2, <3>1, <3>3
    <3>6. PICK z \in Paths : z = Append(u, x) /\ z # << >> /\ Above(z) = u
      BY <3>5, PathLemmas
    <3>7. z[Len(z)] = x /\ Len(z) = m - 1
      <4>1. z[Len(z)] = x
        BY <3>6, PathLemmas
      <4>2. Len(u) = Len(z) - 1 /\ Len(z) \in Nat
        BY <3>6, PathIs
      <4> QED BY <3>1, <3>5, <4>1, <4>2
    <3>8. Way[z] = On[Way[u]][x]
      BY <1>0, <3>6, <3>7 DEF Follows
    <3>9. Way[z] = s[m]
      BY <1>3, <3>1, <3>4, <3>5, <3>8
    <3> QED BY <3>7, <3>9
  <2> QED BY <2>2, <2>3
<1>5. PICK u \in Paths : Leading(n, u)
  <2>1. n \in 1 .. n
    BY <1>2
  <2> QED BY <1>4, <2>1
<1>6. Way[u] = s[n] /\ Len(u) < MaxDepth
  BY <1>0, <1>2, <1>5
<1> QED BY <1>1, <1>6 DEF Way, Last

LEMMA LoadTold ==
  ASSUME PdbInv, Loading, Shape', ~Twins, NEW a, NEW new, Creating(a, Last(stack), new), db' = db,
         new.id \in Ids
  PROVE  Told
<1>1. PICK u \in Paths : Found(u) = Last(stack) /\ Len(u) < MaxDepth
  BY BlockPath
<1>2. Answers(node[Last(stack)]) /\ fate = "ok"
  BY Innermost DEF Answers
<1> QED BY <1>1, <1>2, CreateTold

LEMMA LoadLeafTold ==
  ASSUME PdbInv, Shape', ~Twins, <<db, node>>' # <<db, node>>,
         NEW id \in Ids, NEW v \in Values \cup {Null}, NEW a \in Malloc, LoadLeaf(id, v, a)
  PROVE  Told
<1>1. PICK p, new : p = Last(stack) /\ new = NewNode("string", id, p, v)
  OBVIOUS
<1>2. node' = Created(a, new) /\ db' = db /\ Loading
  BY <1>1 DEF LoadLeaf
<1>3. p \in Used /\ node[p].table /\ p \in NodeAddr
  BY <1>1, <1>2, Innermost DEF Used
<1>4. Fitting("string", id, p, v)
  BY <1>3, PdbAssumption DEF Fitting, Containers
<1>5. Creating(a, p, new)
  BY <1>1, <1>2, <1>3, <1>4, CreatedIs
<1>6. new.id = id
  BY <1>1 DEF NewNode
<1> QED BY <1>1, <1>2, <1>5, <1>6, LoadTold

LEMMA LoadBlockTold ==
  ASSUME PdbInv, Shape', ~Twins, <<db, node>>' # <<db, node>>, fate' = "ok",
         NEW id \in Ids, NEW type \in Containers, NEW a \in Malloc, LoadBlock(type, id, a)
  PROVE  Told
<1>1. PICK p, new : p = Last(stack) /\ new = NewNode(type, id, p, Null)
  OBVIOUS
<1>2. node' = Created(a, new) /\ db' = db /\ Loading
  BY <1>1 DEF LoadBlock, Fails
<1>3. p \in Used /\ node[p].table /\ p \in NodeAddr
  BY <1>1, <1>2, Innermost DEF Used
<1>4. Fitting(type, id, p, Null)
  BY <1>3, PdbAssumption DEF Fitting, Containers
<1>5. Creating(a, p, new)
  BY <1>1, <1>2, <1>3, <1>4, CreatedIs
<1>6. new.id = id
  BY <1>1 DEF NewNode
<1> QED BY <1>1, <1>2, <1>5, <1>6, LoadTold

LEMMA LoadUnsizedTold ==
  ASSUME PdbInv, Shape', ~Twins, <<db, node>>' # <<db, node>>,
         NEW id \in Ids, NEW a \in Malloc, LoadUnsized(id, a)
  PROVE  Told
<1>1. PICK p, r, new : /\ p = Last(stack) /\ r = NewNode("hash", id, p, Null)
                       /\ new = [r EXCEPT !.table = FALSE]
  OBVIOUS
<1>2. node' = Created(a, new) /\ db' = db /\ Loading /\ "hash" \in Kinds
  BY <1>1 DEF LoadUnsized, Fails
<1>3. p \in Used /\ node[p].table
  BY <1>1, <1>2, Innermost
<1>4. new = Untabled(id, p)
  BY <1>1 DEF Untabled
<1>5. Creating(a, p, new)
  BY <1>2, <1>3, <1>4, UntabledIs
<1>6. new.id = id
  <2>1. r = [type |-> "hash", id |-> id, parent |-> p, data |-> Null, kids |-> << >>, table |-> TRUE]
    BY <1>1 DEF NewNode
  <2> QED BY <1>1, <2>1
<1> QED BY <1>1, <1>2, <1>5, <1>6, LoadTold

LEMMA SetTold ==
  ASSUME PdbInv, Shape', <<db, node>>' # <<db, node>>, fate' = "ok",
         NEW path \in Paths, NEW key \in Ids, NEW type \in Kinds, NEW v \in Values,
         NEW a \in Malloc, Set(path, key, type, v, a)
  PROVE  Told
<1>0. PICK p, c, d : /\ p = Walk(path).node /\ c = Child(p, key)
                     /\ d = IF type = "string" THEN v ELSE Null
  OBVIOUS
<1>1. /\ fate = "ok" /\ type # "link" /\ p # Null /\ Walk(path).fate = "ok" /\ Len(path) < MaxDepth
      /\ node[p].table /\ db' = db /\ node[p].type \notin {"string", "link"}
      /\ IF c # Null THEN Overwrite(c, type, v) ELSE node' = Created(a, NewNode(type, key, p, d))
  BY <1>0 DEF Set, Ready, Fails
<1>2. p \in Used /\ p \in NodeAddr /\ Found(path) = p
  BY <1>0, <1>1, Reached
<1>3. Answers(node[p]) /\ Heap /\ Null \notin NodeAddr
  <2>1. Heap
    BY DEF PdbInv, Shape
  <2>2. node[p].type \in Kinds
    BY <1>2, <2>1, UsedIs
  <2> QED BY <1>1, <2>1, <2>2, PdbAssumption DEF Answers, Containers
<1>4. CASE c = Null
  <2>1. PICK new : new = NewNode(type, key, p, d)
    OBVIOUS
  <2>2. Fitting(type, key, p, d) /\ node' = Created(a, new)
    BY <1>0, <1>1, <1>2, <1>4, <2>1, PdbAssumption DEF Fitting, Containers
  <2>3. Creating(a, p, new)
    BY <1>1, <1>2, <2>1, <2>2, CreatedIs
  <2>4. new.id = key
    BY <2>1 DEF NewNode
  <2> QED BY <1>1, <1>2, <1>3, <2>3, <2>4, CreateTold
<1>5. CASE c # Null
  <2>1. PICK z \in Paths : z = Append(path, key) /\ z # << >> /\ Above(z) = path
    BY <1>1, PathLemmas
  <2>2. z[Len(z)] = key
    BY <2>1, PathLemmas
  <2>3. Found(z) = Onward(p, key)
    BY <1>2, <2>1, <2>2, WalkSteps DEF Walks, PdbInv
  <2>4. Way[z] = c
    BY <1>0, <1>2, <1>3, <2>3 DEF Onward, Way
  <2>5. c \in Used
    BY <1>1, <1>5, <2>4, WayUsed
  <2>6. node' # node /\ type \in Kinds \ {"link"}
    BY <1>1
  <2> QED BY <1>1, <1>5, <2>4, <2>5, <2>6, OverwriteTold
<1> QED BY <1>4, <1>5

LEMMA LinkTold ==
  ASSUME PdbInv, Shape', fate' = "ok", NEW path \in Paths, NEW key \in Ids, NEW target \in Used,
         NEW a \in Malloc, Link(path, key, target, a)
  PROVE  Told
<1>0. PICK p, new : p = Walk(path).node /\ new = NewNode("link", key, p, target)
  OBVIOUS
<1>1. /\ fate = "ok" /\ p # Null /\ Walk(path).fate = "ok" /\ Len(path) < MaxDepth
      /\ node[p].table /\ db' = db /\ node[p].type \in Containers
      /\ node' = Created(a, new) /\ "link" \in Kinds /\ target \in NodeAddr
  BY <1>0 DEF Link, Ready, Fails, Used
<1>2. p \in Used /\ p \in NodeAddr /\ Found(path) = p
  BY <1>0, <1>1, Reached
<1>3. Fitting("link", key, p, target)
  BY <1>1, <1>2 DEF Fitting, Containers
<1>4. Creating(a, p, new)
  BY <1>0, <1>1, <1>2, <1>3, CreatedIs
<1>5. new.id = key /\ Answers(node[p])
  BY <1>0, <1>1 DEF NewNode, Answers
<1> QED BY <1>1, <1>2, <1>4, <1>5, CreateTold

LEMMA DelTold ==
  ASSUME PdbInv, Shape', ~Twins, fate' = "ok", NEW path \in Paths, Del(path)
  PROVE  Told
<1>1. PICK w : w = Walk(path).node
  OBVIOUS
<1>2. /\ Walk(path).fate = "ok" /\ w # Null /\ Deleting(w, node[w].parent) /\ db' = db /\ fate = "ok"
  BY <1>1, DelIs DEF Fails, Del, Ready
<1>3. Found(path) = w
  BY <1>1, <1>2, Reached
<1> QED BY <1>2, <1>3, DeleteTold

LEMMA UnloadTold ==
  ASSUME PdbInv, Shape', fate' = "ok", Unload
  PROVE  Told
<1>1. db \in Used /\ Deleting(db, Null) /\ fate = "ok"
  BY UnloadIs DEF Fails, Unload, Ready
<1>2. Heap /\ Grown
  BY <1>1 DEF PdbInv, Shape
<1>3. Used' = Used \ Whole[db]
  BY <1>1, <1>2, Deletes
<1>4. Used' = {}
  BY <1>1, <1>2, <1>3, AllBelow
<1> QED BY <1>1, <1>4, GoneTold

LEMMA NextTold ==
  ASSUME PdbInv, [PdbNext]_pdbVars, <<db, node>>' # <<db, node>>, fate' = "ok", ~Twins
  PROVE  Told
<1>0. Shape'
  BY PdbStep DEF PdbInv
<1>1. ASSUME NEW a \in Malloc, NEW file \in BOOLEAN, Open(a, file) PROVE Told
  BY <1>0, <1>1, OpenTold
<1>2. ASSUME NEW a \in Malloc, NEW id \in Ids, NEW v \in Values \cup {Null}, LoadLeaf(id, v, a)
      PROVE  Told
  BY <1>0, <1>2, LoadLeafTold
<1>3. ASSUME NEW a \in Malloc, NEW id \in Ids, NEW type \in Containers, LoadBlock(type, id, a)
      PROVE  Told
  BY <1>0, <1>3, LoadBlockTold
<1>4. ASSUME NEW a \in Malloc, NEW id \in Ids, LoadUnsized(id, a) PROVE Told
  BY <1>0, <1>4, LoadUnsizedTold
<1>5. ASSUME NEW a \in Malloc, NEW path \in Paths, NEW key \in Ids, NEW type \in Kinds,
             NEW v \in Values, Set(path, key, type, v, a)
      PROVE  Told
  BY <1>0, <1>5, SetTold
<1>6. ASSUME NEW a \in Malloc, NEW path \in Paths, NEW key \in Ids, NEW target \in Used,
             Link(path, key, target, a)
      PROVE  Told
  BY <1>0, <1>6, LinkTold
<1>7. ASSUME LoadClose \/ LoadEnd PROVE Told
  BY <1>7 DEF LoadClose, LoadEnd
<1>8. ASSUME NEW path \in Paths, Query(path) \/ ListRoot(path) PROVE Told
  BY <1>8 DEF Query, ListRoot, Fails
<1>9. ASSUME NEW path \in Paths, Del(path) PROVE Told
  BY <1>0, <1>9, DelTold
<1>10. CASE Unload
  BY <1>0, <1>10, UnloadTold
<1>11. CASE UNCHANGED pdbVars
  BY <1>11 DEF pdbVars
<1> QED BY <1>1, <1>2, <1>3, <1>4, <1>5, <1>6, <1>7, <1>8, <1>9, <1>10, <1>11, Zenon DEF PdbNext

LEMMA SpaceBegins == PdbInit => S!Init
<1> SUFFICES ASSUME PdbInit PROVE S!Init
  OBVIOUS
<1>1. \A q \in Paths : Walk(q) = [node |-> Null, fate |-> "ok"]
  BY DEF PdbInit, Walk
<1>2. \A q \in Paths : Answer(q) = Null
  BY <1>1 DEF Answer
<1> QED BY <1>2 DEF S!Init, Space

(* To those who ask by path the database is a space of names, as long as no *)
(* two children of a container share a name: a load or a set adds a name or *)
(* changes a leaf and nothing else, and a deletion takes exactly what is    *)
(* below the name (pdb.c pdb_set_node, pdb_del).                            *)
THEOREM NamesAreKept == PdbSpec => NamesKept
<1>1. PdbInv /\ [PdbNext]_pdbVars => [<<db, node>>' # <<db, node>> => Kept]_pdbVars
  <2> SUFFICES ASSUME PdbInv, [PdbNext]_pdbVars, <<db, node>>' # <<db, node>>, fate' = "ok", ~Twins
               PROVE  [S!Next]_Space
    BY DEF Kept
  <2> QED BY NextTold, ToldNext
<1> QED BY <1>1, SpaceBegins, PdbAlways, PTL DEF PdbSpec, NamesKept
=============================================================================
