------------------------- MODULE PdbTreeText_proofs -------------------------
(***************************************************************************)
(* That the tree is a dictionary, for every set of addresses and of keys,  *)
(* and that a file is loaded as what its author meant, however long it is. *)
(*                                                                         *)
(* The tree.  The argument never follows a path.  sub says which nodes     *)
(* hang below each side of a node; the parts of Sound say that sub agrees  *)
(* with the pointers, that it is sorted, and that the node looked for is   *)
(* never outside what hangs below the current node of the search.          *)
(*                                                                         *)
(* The text.  What an author may write is a path through the marks, each   *)
(* of which says how many entries there are so far, which blocks are open, *)
(* what has been written of the next entry, and whether the last lexeme    *)
(* ended a string.  TextInv says that what is left of the file is such a   *)
(* path, from the mark that the loader's token, blocks and entries agree   *)
(* with to the mark where the author is, or that the file is read and its  *)
(* last string lost because the file ends where the string does.           *)
(***************************************************************************)
EXTENDS PdbTree, PdbText, TLAPS

-----------------------------------------------------------------------------
(* Type correctness                                                        *)

LEMMA CallShape ==
  ASSUME NEW c \in Calls
  PROVE  /\ c # Idle
         /\ c.key \in Keys
         /\ c.op \in {"add", "get", "del"}
         /\ c.op = "add" => c.data \in Data
BY DEF Calls, Idle

LEMMA RelinkType ==
  ASSUME NEW f \in [Addr -> [Sides -> Addr \cup {Nil}]],
         NEW p \in Addr, NEW n, NEW m \in Addr \cup {Nil}
  PROVE  Relink(f, p, n, m) \in [Addr -> [Sides -> Addr \cup {Nil}]]
BY DEF Relink, Sides

\* No operation stores anything but addresses, keys and data where they belong.
THEOREM TypeCorrect == TreeSpec => []TreeTypeOK
<1>1. TreeInit => TreeTypeOK
  <2> SUFFICES ASSUME TreeInit PROVE TreeTypeOK
    OBVIOUS
  <2>1. 0 \in 0..MaxAfter
    BY TreeAssumption
  <2>2. Leaf \in [Sides -> Addr \cup {Nil}] /\ Bare \in [Sides -> SUBSET Addr]
    BY DEF Leaf, Bare
  <2> QED BY <2>1, <2>2 DEF TreeInit, TreeTypeOK
<1>2. TreeTypeOK /\ [TreeNext]_treeVars => TreeTypeOK'
  <2> SUFFICES ASSUME TreeTypeOK, [TreeNext]_treeVars PROVE TreeTypeOK'
    OBVIOUS
  <2> USE TreeAssumption DEF TreeTypeOK
  <2>1. ASSUME NEW c \in Calls, Start(c) PROVE TreeTypeOK'
    BY <2>1 DEF Start, heap
  <2>2. CASE Descend
    <3>1. cur \in Addr /\ Side(call.key, cur) \in Sides
      BY <2>2 DEF Descend, Side, Sides
    <3>2. cur' \in Addr \cup {Nil}
      BY <3>1, <2>2 DEF Descend
    <3> QED BY <3>2, <2>2 DEF Descend, heap
  <2>3. CASE Duplicate \/ NoMemory \/ Missed \/ NotThere
    BY <2>3 DEF Duplicate, NoMemory, Missed, NotThere, Return, heap, Done, Failed
  <2>4. ASSUME NEW a \in Addr, Attach(a) PROVE TreeTypeOK'
    <3>1. call \in Calls /\ call.op = "add"
      BY <2>4 DEF Attach, Busy, Idle
    <3>2. call.key \in Keys /\ call.data \in Data
      BY <3>1, CallShape
    <3>3. live' \subseteq Addr /\ root' \in Addr \cup {Nil}
      BY <2>4 DEF Attach
    <3>4. kid' \in [Addr -> [Sides -> Addr \cup {Nil}]]
      BY <2>4 DEF Attach
    <3>5. parent' \in [Addr -> Addr \cup {Nil}]
      BY <2>4 DEF Attach
    <3>6. key' \in [Addr -> Keys \cup {Nil}] /\ data' \in [Addr -> Data \cup {Nil}]
      BY <2>4, <3>2 DEF Attach
    <3>7. sub' \in [Addr -> [Sides -> SUBSET Addr]]
      BY <2>4 DEF Attach
    <3> QED BY <3>3, <3>4, <3>5, <3>6, <3>7, <2>4 DEF Attach, Return, Done
  <2>5. CASE Found
    <3>1. data[cur] \in Data \cup {Nil}
      BY <2>5 DEF Found, AtKey
    <3> QED BY <3>1, <2>5 DEF Found, Return, heap
  <2>6. ASSUME NEW t \in BOOLEAN, FreeCur(t), cur \in live
        PROVE  /\ live' \subseteq Addr
               /\ key' \in [Addr -> Keys \cup {Nil}]
               /\ data' \in [Addr -> Data \cup {Nil}]
               /\ sub' \in [Addr -> [Sides -> SUBSET Addr]]
               /\ call' \in Calls \cup {Idle}
               /\ cur' \in Addr \cup {Nil}
               /\ low' \in Addr \cup {Nil}
               /\ ret' \in Data \cup {Nil, Done, Failed}
               /\ wild' \in BOOLEAN
               /\ torn' \in BOOLEAN
               /\ after' \in 0..MaxAfter
    BY <2>6 DEF FreeCur, Return
  <2>7. CASE DelinkOuter
    <3>0. cur \in Addr /\ cur \in live
      BY <2>7 DEF DelinkOuter, AtKey
    <3>1. PICK s \in Sides :
            LET m == kid[cur][Opp(s)]
            IN  /\ root' = IF parent[cur] = Nil THEN m ELSE root
                /\ kid' = [(IF parent[cur] = Nil THEN kid ELSE Relink(kid, parent[cur], cur, m))
                              EXCEPT ![cur] = Leaf]
                /\ parent' = [n \in Addr |-> IF n = cur THEN Nil
                                             ELSE IF n = m THEN parent[cur] ELSE parent[n]]
      BY <2>7 DEF DelinkOuter
    <3> DEFINE m == kid[cur][Opp(s)]
    <3>2. m \in Addr \cup {Nil} /\ parent[cur] \in Addr \cup {Nil}
      BY <3>0 DEF Opp, Sides
    <3> HIDE DEF m
    <3>3. kid' \in [Addr -> [Sides -> Addr \cup {Nil}]]
      <4>1. (IF parent[cur] = Nil THEN kid ELSE Relink(kid, parent[cur], cur, m))
               \in [Addr -> [Sides -> Addr \cup {Nil}]]
        BY <3>2, RelinkType
      <4>2. kid' = [(IF parent[cur] = Nil THEN kid ELSE Relink(kid, parent[cur], cur, m))
                              EXCEPT ![cur] = Leaf]
        BY <3>1 DEF m
      <4> QED BY <4>1, <4>2, <3>0 DEF Leaf
    <3>4. root' \in Addr \cup {Nil} /\ parent' \in [Addr -> Addr \cup {Nil}]
      BY <3>1, <3>2 DEF m
    <3> QED BY <3>3, <3>4, <2>6, <3>0, <2>7 DEF DelinkOuter
  <2>8. CASE DelinkRightUp
    <3>0. cur \in Addr /\ cur \in live
      BY <2>8 DEF DelinkRightUp, AtKey
    <3> DEFINE r == kid[cur]["right"]
               f == IF parent[cur] = Nil THEN kid ELSE Relink(kid, parent[cur], cur, r)
    <3>1. /\ r \in Addr
          /\ root' = IF parent[cur] = Nil THEN r ELSE root
          /\ kid' = [f EXCEPT ![r]["left"] = kid[cur]["left"], ![cur] = Leaf]
          /\ parent' = [parent EXCEPT ![r] = parent[cur], ![cur] = Nil]
      BY <2>8 DEF DelinkRightUp
    <3>2. parent[cur] \in Addr \cup {Nil} /\ kid[cur]["left"] \in Addr \cup {Nil}
      BY <3>0 DEF Sides
    <3>3. f \in [Addr -> [Sides -> Addr \cup {Nil}]]
      BY <3>1, <3>2, RelinkType
    <3> HIDE DEF f, r
    <3>4. kid' \in [Addr -> [Sides -> Addr \cup {Nil}]]
      BY <3>0, <3>1, <3>2, <3>3 DEF Leaf, Sides
    <3>5. root' \in Addr \cup {Nil} /\ parent' \in [Addr -> Addr \cup {Nil}]
      BY <3>1, <3>2
    <3> QED BY <3>4, <3>5, <2>6, <3>0, <2>8 DEF DelinkRightUp
  <2>9. CASE SeekLow
    <3>1. cur \in Addr /\ kid[cur]["right"] \in Addr
      BY <2>9 DEF SeekLow, AtKey
    <3> QED BY <3>1, <2>9 DEF SeekLow, heap, Sides
  <2>10. CASE SeekLower
    BY <2>10 DEF SeekLower, heap, Sides
  <2>11. CASE DelinkLowUp
    <3>0. low \in Addr /\ parent[low] \in Addr
      BY <2>11 DEF DelinkLowUp
    <3>1. CASE cur \in live
      <4> DEFINE f == IF parent[cur] = Nil THEN kid ELSE Relink(kid, parent[cur], cur, low)
                 g == Relink(f, parent[low], low, Nil)
      <4>1. /\ root' = IF parent[cur] = Nil THEN low ELSE root
            /\ kid' = [g EXCEPT ![low] = g[cur], ![cur] = Leaf]
            /\ parent' = [parent EXCEPT ![low] = parent[cur], ![cur] = Nil]
        BY <2>11 DEF DelinkLowUp
      <4>2. cur \in Addr /\ parent[cur] \in Addr \cup {Nil}
        BY <3>1
      <4>3. f \in [Addr -> [Sides -> Addr \cup {Nil}]]
        BY <3>0, <4>2, RelinkType
      <4> HIDE DEF f
      <4>4. g \in [Addr -> [Sides -> Addr \cup {Nil}]]
        BY <3>0, <4>3, RelinkType
      <4> HIDE DEF g
      <4>5. kid' \in [Addr -> [Sides -> Addr \cup {Nil}]]
        BY <4>1, <4>2, <4>4, <3>0 DEF Leaf
      <4>6. root' \in Addr \cup {Nil} /\ parent' \in [Addr -> Addr \cup {Nil}]
        BY <3>0, <4>1, <4>2
      <4> QED BY <4>5, <4>6, <2>6, <3>1, <2>11 DEF DelinkLowUp
    <3> QED BY <3>1, <2>11 DEF DelinkLowUp
  <2>12. CASE ReadFreed
    BY <2>12 DEF ReadFreed, heap
  <2>13. CASE UNCHANGED treeVars
    BY <2>13 DEF treeVars, heap
  <2> QED BY <2>1, <2>2, <2>3, <2>4, <2>5, <2>7, <2>8, <2>9, <2>10, <2>11, <2>12, <2>13
      DEF TreeNext
<1> QED BY <1>1, <1>2, PTL DEF TreeSpec

-----------------------------------------------------------------------------
(* The inductive invariant                                                 *)

\* The node n and all that hangs below it.
Under(f, n) == {n} \cup f[n]["left"] \cup f[n]["right"]
Below(n) == Under(sub, n)

Rooted == IF root = Nil THEN live = {}
          ELSE root \in live /\ parent[root] = Nil /\ live = Below(root)

Linked == \A n \in live, s \in Sides :
            IF kid[n][s] = Nil THEN sub[n][s] = {}
            ELSE /\ kid[n][s] \in live
                 /\ parent[kid[n][s]] = n
                 /\ sub[n][s] = Below(kid[n][s])

Sorted == \A n \in live, s \in Sides : \A m \in sub[n][s] :
            m \in live /\ key[m] # key[n] /\ Side(key[m], n) = s

Hung == \A n \in live : n # root => /\ parent[n] \in live
                                    /\ \E s \in Sides : kid[parent[n]][s] = n

Paths == \A n \in live, s \in Sides : \A m \in sub[n][s] :
           m = kid[n][s] \/ parent[m] \in sub[n][s]

Keyed == \A n \in live : /\ key[n] \in Keys
                         /\ data[n] \in Data
                         /\ \A m \in live : key[m] = key[n] => m = n

\* The search is where the key is, or where it would be.
Aimed == call # Idle =>
           /\ cur # Nil => cur \in live
           /\ \A n \in live : key[n] = call.key => cur # Nil /\ n \in Below(cur)
           /\ \A n \in live, s \in Sides :
                cur \in sub[n][s] => Side(call.key, n) = s /\ key[n] # call.key
           /\ call.op = "add" /\ cur = Nil => root = Nil

Seeking == low # Nil => /\ call \in Calls /\ call.op = "del"
                        /\ low \in live /\ parent[low] \in live
                        /\ cur \in live /\ key[cur] = call.key

Shape == Rooted /\ Linked /\ Sorted /\ Hung /\ Paths /\ Keyed

Sound == ~torn => ~wild /\ Shape /\ Aimed /\ Seeking

-----------------------------------------------------------------------------
(* The operations, one by one                                              *)

LEMMA SideIsASide == ASSUME NEW k, NEW n PROVE Side(k, n) \in Sides
BY DEF Side, Sides

LEMMA BelowSides ==
  ASSUME NEW n, NEW m \in Below(n)
  PROVE  m = n \/ \E s \in Sides : m \in sub[n][s]
BY DEF Below, Under, Sides

\* A heap that is left alone keeps its shape.
LEMMA ShapeKept == ASSUME Shape, UNCHANGED heap PROVE Shape'
BY DEF heap, Shape, Rooted, Linked, Sorted, Hung, Paths, Keyed, Below, Under, Side

\* A step of the search towards the key stays above the key.
LEMMA DescendSound ==
  ASSUME TreeTypeOK, Sound, ~torn, Descend
  PROVE  Sound'
<1> DEFINE t == Side(call.key, cur)
<1>1. /\ cur \in live /\ call.key # key[cur] /\ cur' = kid[cur][t] /\ t \in Sides
      /\ call # Idle /\ low = Nil /\ UNCHANGED <<heap, call, low, ret, wild, torn>>
  BY SideIsASide DEF Descend
<1>2. ~wild /\ Shape /\ Aimed
  BY DEF Sound
<1>3. Shape'
  BY <1>1, <1>2, ShapeKept
<1>4. UNCHANGED <<root, live, kid, parent, key, data, sub>>
  BY <1>1 DEF heap
<1>5. \A n \in live : key[n] = call.key => n \in sub[cur][t]
  <2> SUFFICES ASSUME NEW n \in live, key[n] = call.key PROVE n \in sub[cur][t]
    OBVIOUS
  <2>1. n \in Below(cur) /\ n # cur
    BY <1>1, <1>2 DEF Aimed
  <2>2. PICK s \in Sides : n \in sub[cur][s]
    BY <2>1, BelowSides
  <2>3. s = t
    BY <2>2, <1>1, <1>2 DEF Shape, Sorted
  <2> QED BY <2>2, <2>3
<1>6. ASSUME cur' # Nil
      PROVE  cur' \in live /\ parent[cur'] = cur /\ sub[cur][t] = Below(cur')
  BY <1>1, <1>2, <1>6 DEF Shape, Linked
<1>7. cur' = Nil => sub[cur][t] = {}
  <2>1. kid[cur][t] = Nil => sub[cur][t] = {}
    BY <1>1, <1>2 DEF Shape, Linked
  <2> QED BY <2>1, <1>1
<1>8. \A n \in live : key[n] = call.key => cur' # Nil /\ n \in Below(cur')
  BY <1>5, <1>6, <1>7
<1>9. ASSUME NEW n \in live, NEW s \in Sides, cur' \in sub[n][s]
      PROVE  Side(call.key, n) = s /\ key[n] # call.key
  <2>0. cur' # Nil /\ cur' \in live
    BY <1>1, <1>2, <1>6, <1>9, TreeAssumption DEF Shape, Sorted, TreeTypeOK
  <2>1. CASE cur' = kid[n][s]
    <3>1. n = cur
      BY <2>0, <2>1, <1>2, <1>6 DEF Shape, Linked
    <3>2. cur' \in sub[cur][t] /\ cur' \in sub[cur][s]
      BY <3>1, <1>6, <1>9, <2>0 DEF Below, Under
    <3>3. s = t
      BY <3>2, <1>1, <1>2 DEF Shape, Sorted
    <3> QED BY <3>1, <3>3, <1>1
  <2>2. CASE parent[cur'] \in sub[n][s]
    BY <2>0, <2>2, <1>1, <1>2, <1>6 DEF Aimed
  <2> QED BY <2>1, <2>2, <1>2, <1>9 DEF Shape, Paths
<1>10. call.op = "add" => cur' # Nil
  BY <1>1 DEF Descend, Spot
<1>11. Aimed'
  BY <1>1, <1>4, <1>6, <1>8, <1>9, <1>10 DEF Aimed, Below, Under, Under, Side
<1>12. Seeking'
  BY <1>1 DEF Seeking
<1> QED BY <1>1, <1>2, <1>3, <1>11, <1>12 DEF Sound

\* A search begins at the root, above everything.
LEMMA StartSound ==
  ASSUME TreeTypeOK, Sound, ~torn, NEW c \in Calls, Start(c)
  PROVE  Sound'
<1>1. ~wild /\ Shape /\ Seeking
  BY DEF Sound
<1>2. call = Idle /\ call' = c /\ cur' = root /\ UNCHANGED <<heap, low, ret, wild, torn>>
  BY DEF Start
<1>3. Shape'
  BY <1>1, <1>2, ShapeKept
<1>4. UNCHANGED <<root, live, kid, parent, key, data, sub>>
  BY <1>2 DEF heap
<1>5. \A n \in live, s \in Sides : root \notin sub[n][s]
  <2> SUFFICES ASSUME NEW n \in live, NEW s \in Sides, root \in sub[n][s] PROVE FALSE
    OBVIOUS
  <2>1. root \in live /\ root # Nil
    BY <1>1, TreeAssumption DEF Shape, Sorted, TreeTypeOK
  <2>2. n \in Below(root) /\ parent[root] = Nil
    BY <2>1, <1>1 DEF Shape, Rooted
  <2>3. CASE n = root
    BY <2>3, <1>1 DEF Shape, Sorted
  <2>4. CASE n # root
    <3>1. root = kid[n][s] \/ parent[root] \in sub[n][s]
      BY <1>1 DEF Shape, Paths
    <3>2. Nil \notin live /\ Nil \notin sub[n][s]
      BY <1>1, TreeAssumption DEF TreeTypeOK, Shape, Sorted
    <3>3. root = kid[n][s]
      BY <3>1, <3>2, <2>2
    <3>4. parent[root] = n
      BY <3>3, <2>1, <1>1 DEF Shape, Linked
    <3> QED BY <3>4, <3>2, <2>2
  <2> QED BY <2>3, <2>4
<1>6. Aimed'
  <2>1. cur' # Nil => cur' \in live'
    BY <1>1, <1>2, <1>4 DEF Shape, Rooted
  <2>2. \A n \in live : cur' # Nil /\ n \in Below(root)
    BY <1>1, <1>2 DEF Shape, Rooted
  <2>3. \A n \in live', s \in Sides : cur' \notin sub'[n][s]
    BY <1>2, <1>4, <1>5
  <2> QED BY <2>1, <2>2, <2>3, <1>2, <1>4 DEF Aimed, Below, Under
<1>7. Seeking'
  BY <1>1, <1>2, CallShape, TreeAssumption DEF Seeking, Idle, TreeTypeOK, Calls
<1> QED BY <1>1, <1>2, <1>3, <1>6, <1>7 DEF Sound

\* A new leaf hangs below every node the search went through, on the side
\* the search took.
LEMMA AttachSound ==
  ASSUME TreeTypeOK, Sound, ~torn, NEW a \in Addr, Attach(a)
  PROVE  Sound'
<1> DEFINE t == Side(call.key, cur)
           k == call.key
<1>1. /\ ~wild /\ Shape /\ Aimed
  BY DEF Sound
<1>2. /\ call \in Calls /\ call.op = "add" /\ k \in Keys /\ call.data \in Data /\ call # Idle
      /\ a \notin live /\ a # Nil /\ Spot /\ t \in Sides
  BY CallShape, SideIsASide, TreeAssumption DEF Attach, Busy, Idle, TreeTypeOK
<1>3. /\ live' = live \cup {a}
      /\ root' = IF cur = Nil THEN a ELSE root
      /\ call' = Idle /\ low' = Nil /\ wild' = wild /\ torn' = torn
  BY DEF Attach, Return
<1>4. \A n \in Addr, s \in Sides :
         kid'[n][s] = IF n = a THEN Nil ELSE IF n = cur /\ s = t THEN a ELSE kid[n][s]
  BY DEF Attach
<1>5. \A n \in Addr, s \in Sides :
         sub'[n][s] = IF n = a THEN {}
                      ELSE IF cur \in sub[n][s] \/ (n = cur /\ s = t)
                           THEN sub[n][s] \cup {a} ELSE sub[n][s]
  BY DEF Attach
<1>6. \A n \in Addr : /\ parent'[n] = IF n = a THEN cur ELSE parent[n]
                      /\ key'[n] = IF n = a THEN k ELSE key[n]
                      /\ data'[n] = IF n = a THEN call.data ELSE data[n]
  BY DEF Attach, TreeTypeOK
<1>7. live \subseteq Addr /\ Nil \notin Addr
  BY TreeAssumption DEF TreeTypeOK
<1>8. cur # Nil => cur \in live /\ kid[cur][t] = Nil /\ key[cur] # k /\ sub[cur][t] = {}
  <2>1. cur # Nil => cur \in live /\ kid[cur][t] = Nil /\ key[cur] # k
    BY <1>1, <1>2 DEF Aimed, Spot
  <2> QED BY <2>1, <1>1, <1>2 DEF Shape, Linked
<1>9. cur = Nil => root = Nil /\ live = {}
  BY <1>1, <1>2 DEF Aimed, Shape, Rooted
<1>10. \A n \in live : key[n] # k
  <2> SUFFICES ASSUME NEW n \in live, key[n] = k PROVE FALSE
    OBVIOUS
  <2>1. cur # Nil /\ n \in Below(cur)
    BY <1>1, <1>2 DEF Aimed
  <2>2. n # cur
    BY <2>1, <1>8
  <2>3. PICK s \in Sides : n \in sub[cur][s]
    BY <2>1, <2>2, BelowSides
  <2>4. s = t
    BY <2>1, <2>3, <1>1, <1>8 DEF Shape, Sorted
  <2> QED BY <2>1, <2>3, <2>4, <1>8
<1>11. \A n \in live, s \in Sides : a \notin sub[n][s]
  BY <1>1, <1>2 DEF Shape, Sorted
<1>12. \A n \in live, s \in Sides : kid[n][s] # a
  BY <1>1, <1>2 DEF Shape, Linked
<1>13. \A n \in live, s \in Sides : cur \in sub[n][s] => Side(k, n) = s /\ key[n] # k
  BY <1>1, <1>2 DEF Aimed
<1>14. \A x, n \in live : Side(key[x], n)' = Side(key[x], n)
  BY <1>2, <1>6, <1>7 DEF Side
<1>15. \A n \in live : Side(k, n) = (IF k < key'[n] THEN "left" ELSE "right")
  BY <1>2, <1>6, <1>7 DEF Side
<1>16. ASSUME NEW n \in live
       PROVE  Under(sub', n) = IF cur = n \/ \E s \in Sides : cur \in sub[n][s]
                          THEN Below(n) \cup {a} ELSE Below(n)
  BY <1>2, <1>5, <1>7 DEF Below, Under, Sides
<1>17. cur # Nil => t \in Sides /\ cur \in live
  BY <1>2, <1>8
<1> HIDE DEF t, k
<1>20. Rooted'
  <2>1. CASE cur = Nil
    <3>1. root' = a /\ live' = {a} /\ parent'[a] = Nil
      BY <2>1, <1>2, <1>3, <1>6, <1>9
    <3>2. \A s \in Sides : sub'[a][s] = {}
      BY <1>5
    <3>3. Under(sub', a) = {a}
      BY <3>2 DEF Below, Under, Sides
    <3> QED BY <3>1, <3>3, <1>2 DEF Rooted, Below
  <2>2. CASE cur # Nil
    <3>1. root' = root /\ root # Nil /\ root \in live /\ parent'[root] = Nil /\ cur \in Below(root)
      BY <2>2, <1>1, <1>2, <1>3, <1>6, <1>7, <1>8 DEF Shape, Rooted
    <3>2. cur = root \/ \E s \in Sides : cur \in sub[root][s]
      BY <3>1, BelowSides
    <3>3. Under(sub', root) = Below(root) \cup {a}
      BY <3>1, <3>2, <1>16
    <3>4. live = Below(root)
      BY <3>1, <1>1 DEF Shape, Rooted
    <3> QED BY <3>1, <3>3, <3>4, <1>3 DEF Rooted, Below
  <2> QED BY <2>1, <2>2
<1>21. Linked'
  <2> SUFFICES ASSUME NEW n \in live', NEW s \in Sides
               PROVE  IF kid'[n][s] = Nil THEN sub'[n][s] = {}
                      ELSE /\ kid'[n][s] \in live'
                           /\ parent'[kid'[n][s]] = n
                           /\ sub'[n][s] = Under(sub', kid'[n][s])
    BY DEF Linked, Below
  <2>1. CASE n = a
    BY <2>1, <1>4, <1>5
  <2>2. CASE n = cur /\ s = t /\ n # a
    <3>1. kid'[n][s] = a /\ parent'[a] = n /\ a # Nil
      BY <2>2, <1>2, <1>3, <1>4, <1>6, <1>7
    <3>2. sub'[n][s] = {a}
      BY <2>2, <1>2, <1>3, <1>5, <1>7, <1>8
    <3>3. Under(sub', a) = {a}
      BY <1>5 DEF Below, Under, Sides
    <3> QED BY <3>1, <3>2, <3>3, <1>3 DEF Below
  <2>3. CASE n # a /\ ~(n = cur /\ s = t)
    <3>1. n \in live /\ kid'[n][s] = kid[n][s]
      BY <2>3, <1>3, <1>4, <1>7
    <3>2. CASE kid[n][s] = Nil
      <4>1. sub[n][s] = {}
        BY <3>1, <3>2, <1>1 DEF Shape, Linked
      <4> QED BY <2>3, <3>1, <3>2, <4>1, <1>5, <1>7
    <3>3. CASE kid[n][s] # Nil
      <4> DEFINE x == kid[n][s]
      <4>1. x \in live /\ parent[x] = n /\ sub[n][s] = Below(x)
        BY <3>1, <3>3, <1>1 DEF Shape, Linked
      <4>2. cur \in sub[n][s] <=> cur = x \/ \E q \in Sides : cur \in sub[x][q]
        BY <4>1 DEF Below, Under, Sides
      <4>3. sub'[n][s] = IF cur \in sub[n][s] THEN sub[n][s] \cup {a} ELSE sub[n][s]
        BY <2>3, <3>1, <1>5, <1>7
      <4>4. Under(sub', x) = IF cur \in sub[n][s] THEN Below(x) \cup {a} ELSE Below(x)
        BY <4>1, <4>2, <1>16
      <4>5. parent'[x] = n
        BY <4>1, <1>2, <1>6, <1>7
      <4> HIDE DEF x
      <4>6. sub'[n][s] = Under(sub', x)
        BY <4>1, <4>3, <4>4
      <4> QED BY <3>1, <3>3, <4>1, <4>5, <4>6, <1>3 DEF x, Below
    <3> QED BY <3>2, <3>3
  <2> QED BY <2>1, <2>2, <2>3
<1>22. Sorted'
  <2> SUFFICES ASSUME NEW n \in live', NEW s \in Sides, NEW m \in sub'[n][s]
               PROVE  m \in live' /\ key'[m] # key'[n] /\ Side(key[m], n)' = s
    BY DEF Sorted, Side
  <2>1. n \in live /\ n # a
    BY <1>3, <1>5, <1>2
  <2>2. CASE m = a
    <3>1. cur \in sub[n][s] \/ (n = cur /\ s = t)
      BY <2>1, <2>2, <1>5, <1>7, <1>11
    <3>2. Side(k, n) = s /\ key[n] # k
      BY <3>1, <2>1, <1>8, <1>13, <1>7 DEF t, k
    <3> QED BY <2>1, <2>2, <3>2, <1>2, <1>3, <1>6, <1>7, <1>15 DEF Side
  <2>3. CASE m # a
    <3>1. m \in sub[n][s]
      BY <2>1, <2>3, <1>5, <1>7
    <3>2. m \in live /\ key[m] # key[n] /\ Side(key[m], n) = s
      BY <2>1, <3>1, <1>1 DEF Shape, Sorted
    <3>3. key'[m] = key[m] /\ key'[n] = key[n]
      BY <2>1, <2>3, <3>2, <1>6, <1>7
    <3> QED BY <2>1, <3>2, <3>3, <1>3, <1>14
  <2> QED BY <2>2, <2>3
<1>23. Hung'
  <2> SUFFICES ASSUME NEW n \in live', n # root'
               PROVE  parent'[n] \in live' /\ \E s \in Sides : kid'[parent'[n]][s] = n
    BY DEF Hung
  <2>1. CASE n = a
    <3>1. cur \in live /\ cur # a /\ parent'[n] = cur
      BY <2>1, <1>2, <1>3, <1>6, <1>8
    <3>2. kid'[cur][t] = a
      BY <3>1, <1>2, <1>4, <1>7
    <3> QED BY <2>1, <3>1, <3>2, <1>2, <1>3
  <2>2. CASE n # a
    <3>1. n \in live /\ n # root /\ parent'[n] = parent[n]
      BY <2>2, <1>3, <1>6, <1>7, <1>9
    <3>2. PICK s \in Sides : parent[n] \in live /\ kid[parent[n]][s] = n
      BY <3>1, <1>1 DEF Shape, Hung
    <3>3. ~(parent[n] = cur /\ s = t)
      BY <3>1, <3>2, <1>7, <1>8
    <3>4. kid'[parent[n]][s] = n
      BY <3>2, <3>3, <1>2, <1>4, <1>7
    <3> QED BY <3>1, <3>2, <3>4, <1>3
  <2> QED BY <2>1, <2>2
<1>24. Paths'
  <2> SUFFICES ASSUME NEW n \in live', NEW s \in Sides, NEW m \in sub'[n][s]
               PROVE  m = kid'[n][s] \/ parent'[m] \in sub'[n][s]
    BY DEF Paths
  <2>1. n \in live /\ n # a
    BY <1>3, <1>5, <1>2
  <2>2. CASE m = a
    <3>1. cur \in sub[n][s] \/ (n = cur /\ s = t)
      BY <2>1, <2>2, <1>5, <1>7, <1>11
    <3>2. CASE cur \in sub[n][s]
      BY <2>1, <2>2, <3>2, <1>5, <1>6, <1>7
    <3>3. CASE n = cur /\ s = t
      BY <2>1, <2>2, <3>3, <1>4, <1>7
    <3> QED BY <3>1, <3>2, <3>3
  <2>3. CASE m # a
    <3>1. m \in sub[n][s] /\ sub[n][s] \subseteq sub'[n][s]
      BY <2>1, <2>3, <1>5, <1>7
    <3>2. m \in live /\ parent'[m] = parent[m]
      BY <2>1, <2>3, <3>1, <1>1, <1>6, <1>7 DEF Shape, Sorted
    <3>3. m = kid[n][s] \/ parent[m] \in sub[n][s]
      BY <2>1, <3>1, <1>1 DEF Shape, Paths
    <3>4. m = kid[n][s] => kid'[n][s] = kid[n][s]
      BY <2>1, <3>1, <1>4, <1>7, <1>8
    <3> QED BY <3>1, <3>2, <3>3, <3>4
  <2> QED BY <2>2, <2>3
<1>25. Keyed'
  <2>1. /\ key'[a] = k /\ data'[a] = call.data
        /\ \A n \in live : key'[n] = key[n] /\ data'[n] = data[n]
    BY <1>2, <1>6, <1>7
  <2>2. \A n \in live : key[n] \in Keys /\ data[n] \in Data
                        /\ \A m \in live : key[m] = key[n] => m = n
    BY <1>1 DEF Shape, Keyed
  <2>3. k \in Keys /\ call.data \in Data
    BY <1>2 DEF k
  <2> QED BY <2>1, <2>2, <2>3, <1>3, <1>10 DEF Keyed
<1> QED BY <1>1, <1>3, <1>20, <1>21, <1>22, <1>23, <1>24, <1>25
        DEF Sound, Shape, Aimed, Seeking

\* A node with at most one child is taken out and the child moves up: the
\* sets of nodes below only lose the node itself.
LEMMA DelinkOuterSound ==
  ASSUME TreeTypeOK, Sound, ~torn, DelinkOuter
  PROVE  Sound'
<1> DEFINE p == parent[cur]
<1>1. Shape /\ ~wild
  BY DEF Sound
<1>2. /\ cur \in live /\ live' = live \ {cur} /\ live \subseteq Addr /\ Nil \notin Addr
      /\ call' = Idle /\ low' = Nil /\ wild' = wild /\ torn' = torn
  BY TreeAssumption DEF DelinkOuter, AtKey, FreeCur, Return, TreeTypeOK
<1>3. PICK s \in Sides :
         /\ kid[cur][s] = Nil
         /\ root' = IF p = Nil THEN kid[cur][Opp(s)] ELSE root
         /\ kid' = [(IF p = Nil THEN kid ELSE Relink(kid, p, cur, kid[cur][Opp(s)]))
                       EXCEPT ![cur] = Leaf]
         /\ parent' = [n \in Addr |-> IF n = cur THEN Nil
                                      ELSE IF n = kid[cur][Opp(s)] THEN p ELSE parent[n]]
  BY DEF DelinkOuter
<1> DEFINE m == kid[cur][Opp(s)]
<1>4. Opp(s) \in Sides /\ \A q \in Sides : q = s \/ q = Opp(s)
  BY DEF Opp, Sides
<1>5. \A n \in live' : n \in live /\ n # cur /\ n \in Addr
  BY <1>2
<1>6. \A n \in live', q \in Sides : sub'[n][q] = sub[n][q] \ {cur}
  BY <1>5 DEF DelinkOuter, FreeCur
<1>7. \A n \in live' : /\ key'[n] = key[n] /\ data'[n] = data[n]
                       /\ parent'[n] = IF n = m THEN p ELSE parent[n]
  BY <1>3, <1>5 DEF DelinkOuter, FreeCur, TreeTypeOK
<1>8. \A n \in live, q \in Sides : \A x \in sub[n][q] : x \in live /\ x # n
  BY <1>1 DEF Shape, Sorted
<1>9. m # Nil => /\ m \in live /\ m # cur /\ parent[m] = cur
                 /\ sub[cur][Opp(s)] = Below(m)
  <2>1. m # Nil => m \in live /\ parent[m] = cur /\ sub[cur][Opp(s)] = Below(m)
    BY <1>1, <1>2, <1>4 DEF Shape, Linked
  <2>2. m # Nil => m \in sub[cur][Opp(s)]
    BY <2>1 DEF Below, Under
  <2> QED BY <2>1, <2>2, <1>2, <1>4, <1>8
<1>10. Below(cur) \ {cur} = IF m = Nil THEN {} ELSE Below(m)
  <2>1. sub[cur][s] = {}
    BY <1>1, <1>2, <1>3 DEF Shape, Linked
  <2>2. m = Nil => sub[cur][Opp(s)] = {}
    BY <1>1, <1>2, <1>4 DEF Shape, Linked
  <2>3. Below(cur) \ {cur} = sub[cur][Opp(s)] \ {cur}
    BY <2>1, <1>4 DEF Below, Under, Sides
  <2>4. cur \notin sub[cur][Opp(s)]
    BY <1>2, <1>4, <1>8
  <2> QED BY <2>2, <2>3, <2>4, <1>9
<1>11. \A n \in live' : Under(sub', n) = Below(n) \ {cur}
  BY <1>5, <1>6 DEF Below, Under, Sides
<1>12. p = Nil <=> cur = root
  BY <1>1, <1>2 DEF Shape, Rooted, Hung
<1>13. p # Nil => p \in live /\ p # cur /\ \E q \in Sides : kid[p][q] = cur
  <2>1. p # Nil => p \in live /\ \E q \in Sides : kid[p][q] = cur
    BY <1>1, <1>2, <1>12 DEF Shape, Hung
  <2>2. ASSUME p # Nil, p = cur PROVE FALSE
    <3>1. PICK q \in Sides : kid[cur][q] = cur
      BY <2>1, <2>2
    <3>2. cur \in sub[cur][q]
      BY <3>1, <1>1, <1>2 DEF Shape, Linked, Below, Under
    <3> QED BY <3>2, <1>2, <1>8
  <2> QED BY <2>1, <2>2
<1>14. \A n \in live, q \in Sides : kid[n][q] = cur => n = p
  BY <1>1, <1>2 DEF Shape, Linked
<1>15. \A n \in live', q \in Sides :
          kid'[n][q] = IF kid[n][q] = cur THEN m ELSE kid[n][q]
  <2> SUFFICES ASSUME NEW n \in live', NEW q \in Sides
               PROVE  kid'[n][q] = IF kid[n][q] = cur THEN m ELSE kid[n][q]
    OBVIOUS
  <2> DEFINE f == IF p = Nil THEN kid ELSE Relink(kid, p, cur, m)
  <2>1. m \in Addr \cup {Nil}
    BY <1>2, <1>9
  <2>2. p # Nil => p \in Addr
    BY <1>2, <1>13
  <2>3. f \in [Addr -> [Sides -> Addr \cup {Nil}]]
    BY <2>1, <2>2, RelinkType DEF TreeTypeOK
  <2>4. kid' = [f EXCEPT ![cur] = Leaf]
    BY <1>3
  <2>5. kid'[n][q] = f[n][q]
    <3> HIDE DEF f
    <3> QED BY <2>3, <2>4, <1>5
  <2>6. CASE n # p
    <3>1. f[n][q] = kid[n][q]
      BY <2>6, <2>2, <1>5 DEF Relink, TreeTypeOK
    <3> QED BY <2>5, <2>6, <3>1, <1>5, <1>14
  <2>7. CASE n = p
    <3>1. ~(kid[n]["left"] = cur /\ kid[n]["right"] = cur)
      <4> SUFFICES ASSUME kid[n]["left"] = cur, kid[n]["right"] = cur PROVE FALSE
        OBVIOUS
      <4>1. cur \in sub[n]["left"] /\ cur \in sub[n]["right"]
        BY <1>1, <1>2, <1>5 DEF Shape, Linked, Below, Under, Sides
      <4>2. Side(key[cur], n) = "left" /\ Side(key[cur], n) = "right"
        BY <4>1, <1>1, <1>5 DEF Shape, Sorted, Sides
      <4> QED BY <4>2
    <3>2. p # Nil /\ p \in Addr
      BY <2>7, <1>2, <1>5
    <3>3. f = Relink(kid, p, cur, m)
      BY <3>2
    <3>4. f[n][q] = IF kid[n][q] = cur THEN m ELSE kid[n][q]
      BY <2>7, <3>1, <3>2, <3>3 DEF Relink, Sides, TreeTypeOK
    <3> QED BY <2>5, <3>4
  <2> QED BY <2>6, <2>7
<1>16. root' = IF p = Nil THEN m ELSE root
  BY <1>3
<1> HIDE DEF p, m
<1>20. Rooted'
  <2>1. CASE p = Nil
    <3>1. live' = Below(cur) \ {cur}
      BY <2>1, <1>1, <1>2, <1>12 DEF Shape, Rooted
    <3>2. CASE m = Nil
      BY <2>1, <3>1, <3>2, <1>10, <1>16 DEF Rooted
    <3>3. CASE m # Nil
      <4>1. m \in live' /\ parent'[m] = Nil
        BY <2>1, <3>3, <1>2, <1>7, <1>9
      <4>2. Under(sub', m) = Below(m) \ {cur}
        BY <4>1, <1>11
      <4>3. live' = Below(m) /\ cur \notin live'
        BY <3>1, <3>3, <1>2, <1>10
      <4>4. root' = m
        BY <2>1, <1>16
      <4> QED BY <3>3, <4>1, <4>2, <4>3, <4>4 DEF Rooted, Below
    <3> QED BY <3>2, <3>3
  <2>2. CASE p # Nil
    <3>1. root' = root /\ root # cur /\ root \in live' /\ root # Nil /\ live = Below(root)
      BY <2>2, <1>1, <1>2, <1>12, <1>16 DEF Shape, Rooted
    <3>2. parent[root] = Nil
      BY <3>1, <1>1 DEF Shape, Rooted
    <3>3. root # m
      BY <3>1, <3>2, <1>2, <1>9
    <3>4. parent'[root] = Nil
      BY <3>1, <3>2, <3>3, <1>7
    <3> QED BY <3>1, <3>4, <1>2, <1>11 DEF Rooted, Below
  <2> QED BY <2>1, <2>2
<1>21. Linked'
  <2> SUFFICES ASSUME NEW n \in live', NEW q \in Sides
               PROVE  IF kid'[n][q] = Nil THEN sub'[n][q] = {}
                      ELSE /\ kid'[n][q] \in live'
                           /\ parent'[kid'[n][q]] = n
                           /\ sub'[n][q] = Under(sub', kid'[n][q])
    BY DEF Linked, Below
  <2>0. n \in live /\ n # cur
    BY <1>5
  <2>1. CASE kid[n][q] = cur
    <3>1. sub[n][q] = Below(cur) /\ n = p /\ kid'[n][q] = m
      BY <2>0, <2>1, <1>1, <1>2, <1>14, <1>15 DEF Shape, Linked
    <3>2. sub'[n][q] = IF m = Nil THEN {} ELSE Below(m)
      BY <3>1, <1>6, <1>10
    <3>3. m # Nil => m \in live' /\ parent'[m] = n
      BY <3>1, <1>2, <1>7, <1>9
    <3>4. m # Nil => Under(sub', m) = Below(m) \ {cur}
      BY <3>3, <1>11
    <3>5. m # Nil => cur \notin Below(m)
      BY <1>2, <1>4, <1>8, <1>9
    <3> QED BY <3>1, <3>2, <3>3, <3>4, <3>5
  <2>2. CASE kid[n][q] = Nil
    <3>1. kid'[n][q] = Nil /\ sub[n][q] = {}
      BY <2>0, <2>2, <1>1, <1>2, <1>15 DEF Shape, Linked
    <3> QED BY <3>1, <1>6
  <2>3. CASE kid[n][q] # cur /\ kid[n][q] # Nil
    <3> DEFINE x == kid[n][q]
    <3>1. x \in live /\ parent[x] = n /\ sub[n][q] = Below(x) /\ kid'[n][q] = x
      BY <2>0, <2>3, <1>1, <1>15 DEF Shape, Linked
    <3>2. x \in live' /\ x # Nil
      BY <3>1, <2>3, <1>2
    <3>3. x # m
      BY <3>1, <3>2, <2>0, <1>9
    <3>4. parent'[x] = n
      BY <3>1, <3>2, <3>3, <1>7
    <3>5. sub'[n][q] = Under(sub', x)
      BY <3>1, <3>2, <1>6, <1>11
    <3> HIDE DEF x
    <3> QED BY <3>1, <3>2, <3>4, <3>5
  <2> QED BY <2>1, <2>2, <2>3
<1>22. Sorted'
  <2> SUFFICES ASSUME NEW n \in live', NEW q \in Sides, NEW x \in sub'[n][q]
               PROVE  x \in live' /\ key'[x] # key'[n] /\ Side(key[x], n)' = q
    BY DEF Sorted, Side
  <2>1. n \in live /\ x \in sub[n][q] /\ x # cur
    BY <1>5, <1>6
  <2>2. x \in live' /\ key[x] # key[n] /\ Side(key[x], n) = q
    BY <2>1, <1>1, <1>2 DEF Shape, Sorted
  <2>3. key'[x] = key[x] /\ key'[n] = key[n]
    BY <2>2, <1>7
  <2> QED BY <2>2, <2>3 DEF Side
<1>23. Hung'
  <2> SUFFICES ASSUME NEW n \in live', n # root'
               PROVE  parent'[n] \in live' /\ \E q \in Sides : kid'[parent'[n]][q] = n
    BY DEF Hung
  <2>1. CASE n = m
    <3>1. p # Nil
      BY <2>1, <1>16
    <3>2. PICK q \in Sides : kid[p][q] = cur
      BY <3>1, <1>13
    <3>3. p \in live' /\ parent'[n] = p
      BY <2>1, <3>1, <1>2, <1>7, <1>13
    <3>4. kid'[p][q] = n
      BY <2>1, <3>2, <3>3, <1>15
    <3> QED BY <3>3, <3>4
  <2>2. CASE n # m
    <3>1. n # root /\ n \in live /\ parent'[n] = parent[n]
      BY <2>2, <1>5, <1>7, <1>12, <1>16
    <3>2. PICK q \in Sides : parent[n] \in live /\ kid[parent[n]][q] = n
      BY <3>1, <1>1 DEF Shape, Hung
    <3>3. parent[n] # cur
      BY <2>2, <3>1, <3>2, <1>2, <1>3, <1>4 DEF m
    <3>4. parent[n] \in live'
      BY <3>2, <3>3, <1>2
    <3>5. kid'[parent[n]][q] = n
      BY <3>2, <3>4, <1>5, <1>15
    <3> QED BY <3>1, <3>4, <3>5
  <2> QED BY <2>1, <2>2
<1>24. Paths'
  <2> SUFFICES ASSUME NEW n \in live', NEW q \in Sides, NEW x \in sub'[n][q]
               PROVE  x = kid'[n][q] \/ parent'[x] \in sub'[n][q]
    BY DEF Paths
  <2>1. n \in live /\ n # cur /\ x \in sub[n][q] /\ x # cur /\ x \in live'
    BY <1>2, <1>5, <1>6, <1>8
  <2>2. CASE x = kid[n][q]
    BY <2>1, <2>2, <1>15
  <2>3. CASE parent[x] \in sub[n][q] /\ x # m
    <3>1. parent[x] # cur
      <4> SUFFICES ASSUME parent[x] = cur PROVE FALSE
        OBVIOUS
      <4>1. x # root
        BY <1>1, <1>2, <2>1 DEF Shape, Rooted
      <4>2. \E r \in Sides : kid[cur][r] = x
        BY <4>1, <2>1, <1>1, <1>5 DEF Shape, Hung
      <4> QED BY <4>2, <2>1, <2>3, <1>2, <1>3, <1>4 DEF m
    <3> QED BY <2>1, <2>3, <3>1, <1>6, <1>7
  <2>4. CASE parent[x] \in sub[n][q] /\ x = m
    <3>1. m # Nil /\ cur \in sub[n][q] /\ parent'[x] = p
      BY <2>1, <2>4, <1>2, <1>7, <1>9
    <3>2. cur = kid[n][q] \/ p \in sub[n][q]
      BY <2>1, <3>1, <1>1 DEF Shape, Paths, p
    <3>3. CASE cur = kid[n][q]
      BY <2>1, <2>4, <3>3, <1>15
    <3>4. CASE p \in sub[n][q]
      <4>1. p \in live
        BY <2>1, <3>4, <1>8
      <4>2. p # cur
        BY <4>1, <1>2, <1>13
      <4> QED BY <3>1, <3>4, <4>2, <1>6
    <3> QED BY <3>2, <3>3, <3>4
  <2> QED BY <2>1, <2>2, <2>3, <2>4, <1>1 DEF Shape, Paths
<1>25. Keyed'
  BY <1>1, <1>5, <1>7 DEF Shape, Keyed
<1> QED BY <1>1, <1>2, <1>20, <1>21, <1>22, <1>23, <1>24, <1>25
        DEF Sound, Shape, Aimed, Seeking

-----------------------------------------------------------------------------
(* The invariant is inductive                                              *)

\* An answer that leaves the heap alone leaves it sound.
LEMMA AnswerSound ==
  ASSUME Sound, ~torn, UNCHANGED <<heap, wild>>, call' = Idle, low' = Nil
  PROVE  Sound'
<1>1. Shape /\ ~wild
  BY DEF Sound
<1>2. Shape'
  BY <1>1, ShapeKept
<1> QED BY <1>1, <1>2 DEF Sound, Aimed, Seeking

\* Nothing that is allocated leads to a freed node, and no search leaves the tree.
LEMMA NothingWild == ASSUME TreeTypeOK, Sound, ~torn PROVE ~ReadFreed
<1> SUFFICES ASSUME ReadFreed PROVE FALSE
  OBVIOUS
<1>1. Shape /\ Aimed /\ Seeking /\ call # Idle
  BY DEF Sound, ReadFreed
<1>2. ASSUME NEW n \in live PROVE ~Freed(parent[n]) /\ \A s \in Sides : ~Freed(kid[n][s])
  BY <1>1 DEF Shape, Linked, Hung, Rooted, Freed
<1>3. ~Freed(cur) /\ ~Freed(low)
  BY <1>1 DEF Aimed, Seeking, Freed
<1>4. low # Nil => cur \in live /\ low \in live
  BY <1>1 DEF Seeking
<1>5. CASE Busy("del") /\ AtKey(call.key)
  BY <1>2, <1>3, <1>4, <1>5 DEF ReadFreed, AtKey
<1>6. CASE ~(Busy("del") /\ AtKey(call.key))
  <2>1. low \in live
    BY <1>3, <1>6 DEF ReadFreed
  <2>2. low # Nil
    BY <2>1, TreeAssumption DEF TreeTypeOK
  <2> QED BY <1>2, <1>3, <1>4, <1>6, <2>1, <2>2 DEF ReadFreed
<1> QED BY <1>5, <1>6

\* The search for the leftmost node only meets nodes below the right child.
LEMMA SeekSound ==
  ASSUME TreeTypeOK, Sound, ~torn, SeekLow \/ SeekLower
  PROVE  Sound'
<1>1. ~wild /\ Shape /\ Aimed /\ Seeking
  BY DEF Sound
<1>2. UNCHANGED <<heap, call, cur, ret, wild, torn, after>>
  BY DEF SeekLow, SeekLower
<1>3. UNCHANGED <<root, live, kid, parent, key, data, sub>>
  BY <1>2 DEF heap
<1>4. Shape' /\ Aimed'
  BY <1>1, <1>2, <1>3, ShapeKept DEF Aimed, Below, Under, Side
<1>5. Nil \notin live
  BY TreeAssumption DEF TreeTypeOK
<1>6. call \in Calls /\ call.op = "del" /\ cur \in live /\ key[cur] = call.key
  <2>1. CASE SeekLow
    BY <2>1 DEF SeekLow, Busy, AtKey, TreeTypeOK, Idle
  <2>2. CASE SeekLower
    BY <2>2, <1>1, <1>5 DEF SeekLower, Seeking
  <2> QED BY <2>1, <2>2
<1>7. PICK n \in live : low' = kid[n]["left"] /\ low' # Nil
  BY DEF SeekLow, SeekLower
<1>8. low' \in live /\ parent[low'] = n
  BY <1>1, <1>7 DEF Shape, Linked, Sides
<1> QED BY <1>1, <1>2, <1>3, <1>4, <1>6, <1>7, <1>8 DEF Sound, Seeking

LEMMA SoundInit == TreeInit => Sound
BY TreeAssumption DEF TreeInit, Sound, Shape, Rooted, Linked, Sorted, Hung, Paths, Keyed,
   Aimed, Seeking

LEMMA SoundNext == TreeTypeOK /\ Sound /\ [TreeNext]_treeVars => Sound'
<1> SUFFICES ASSUME TreeTypeOK, Sound, [TreeNext]_treeVars, ~torn' PROVE Sound'
  BY DEF Sound
<1>0. ~torn
  BY DEF TreeNext, treeVars, heap, Start, Descend, Duplicate, NoMemory, Attach, Found, Missed, NotThere,
     DelinkOuter, DelinkRightUp, SeekLow, SeekLower, DelinkLowUp, ReadFreed, FreeCur
<1>1. ASSUME NEW c \in Calls, Start(c) PROVE Sound'
  BY <1>0, <1>1, StartSound
<1>2. CASE Descend
  BY <1>0, <1>2, DescendSound
<1>3. CASE Duplicate \/ NoMemory \/ Found \/ Missed \/ NotThere
  <2>1. UNCHANGED <<heap, wild>> /\ call' = Idle /\ low' = Nil
    BY <1>3 DEF Duplicate, NoMemory, Found, Missed, NotThere, Return
  <2> QED BY <1>0, <2>1, AnswerSound
<1>4. ASSUME NEW a \in Addr, Attach(a) PROVE Sound'
  BY <1>0, <1>4, AttachSound
<1>5. CASE DelinkOuter
  BY <1>0, <1>5, DelinkOuterSound
<1>6. CASE DelinkRightUp \/ DelinkLowUp
  BY <1>6 DEF DelinkRightUp, DelinkLowUp, FreeCur
<1>7. CASE SeekLow \/ SeekLower
  BY <1>0, <1>7, SeekSound
<1>8. CASE ReadFreed
  BY <1>0, <1>8, NothingWild
<1>9. CASE UNCHANGED treeVars
  BY <1>9, <1>0, ShapeKept DEF treeVars, heap, Sound, Aimed, Seeking, Below, Under, Side
<1> QED BY <1>1, <1>2, <1>3, <1>4, <1>5, <1>6, <1>7, <1>8, <1>9 DEF TreeNext

\* No node is lost and none dangles until a node with two children is deleted,
\* whatever the order of additions and deletions and wherever malloc puts them.
THEOREM LinksHold == TreeSpec => []WellLinked
<1>1. TreeTypeOK /\ Sound => WellLinked
  <2> SUFFICES ASSUME TreeTypeOK, Sound, ~torn PROVE WellLinked
    BY DEF WellLinked
  <2>1. Shape /\ ~wild
    BY DEF Sound
  <2>2. root # Nil <=> live # {}
    BY <2>1 DEF Shape, Rooted
  <2>3. \A n \in live : IF n = root THEN parent[n] = Nil
                        ELSE /\ parent[n] \in live
                             /\ \E s \in Sides : kid[parent[n]][s] = n
    BY <2>1 DEF Shape, Rooted, Hung
  <2>4. \A n \in live, s \in Sides : kid[n][s] # Nil => parent[kid[n][s]] = n
    BY <2>1 DEF Shape, Linked
  <2> QED BY <2>1, <2>2, <2>3, <2>4 DEF WellLinked
<1> QED BY <1>1, TypeCorrect, SoundInit, SoundNext, PTL DEF TreeSpec

-----------------------------------------------------------------------------
(* The tree is a dictionary                                                *)

LEMMA StoredAt ==
  ASSUME Keyed, NEW n \in live
  PROVE  Stored(key[n]) = {n}
BY DEF Keyed, Stored

\* What the dictionary holds under the key of a search, at its two ends.
LEMMA AtTheEnd ==
  ASSUME TreeTypeOK, Sound, ~torn, call # Idle
  PROVE  /\ call.key \in Keys
         /\ AtKey(call.key) => Dict[call.key] = data[cur] /\ data[cur] # Nil
         /\ cur = Nil => Dict[call.key] = Nil
<1>1. Keyed /\ Aimed
  BY DEF Sound, Shape
<1>2. call.key \in Keys
  BY CallShape DEF TreeTypeOK
<1>3. ASSUME AtKey(call.key) PROVE Dict[call.key] = data[cur] /\ data[cur] # Nil
  <2>1. cur \in live /\ key[cur] = call.key
    BY <1>3 DEF AtKey
  <2>2. Stored(call.key) = {cur}
    BY <1>1, <2>1, StoredAt
  <2>3. data[cur] # Nil
    BY <1>1, <2>1, TreeAssumption DEF Keyed
  <2> QED BY <1>2, <2>2, <2>3 DEF Dict
<1>4. ASSUME cur = Nil PROVE Dict[call.key] = Nil
  <2>1. Stored(call.key) = {}
    BY <1>1, <1>4 DEF Aimed, Stored
  <2> QED BY <1>2, <2>1 DEF Dict
<1> QED BY <1>2, <1>3, <1>4

LEMMA DictAfterAttach ==
  ASSUME TreeTypeOK, Sound, ~torn, NEW a \in Addr, Attach(a)
  PROVE  Dict[call.key] = Nil /\ Dict' = [Dict EXCEPT ![call.key] = call.data]
<1> DEFINE k == call.key
<1>1. /\ call # Idle /\ call \in Calls /\ k \in Keys /\ a \notin live /\ live' = live \cup {a}
      /\ \A n \in Addr : /\ key'[n] = IF n = a THEN k ELSE key[n]
                         /\ data'[n] = IF n = a THEN call.data ELSE data[n]
  BY CallShape DEF Attach, Busy, Idle, TreeTypeOK
<1>2. Keyed' /\ torn' = torn
  BY AttachSound DEF Sound, Attach, Shape
<1>3. a \in live' /\ key'[a] = k /\ data'[a] = call.data /\ live' \subseteq Addr
  BY <1>1 DEF TreeTypeOK
<1>4. {n \in live' : key'[n] = k} = {a}
  BY <1>2, <1>3 DEF Keyed
<1>5. Stored(k) = {}
  BY <1>1, <1>3, <1>4 DEF Stored, TreeTypeOK
<1>6. ASSUME NEW j \in Keys, j # k
      PROVE  /\ {n \in live' : key'[n] = j} = Stored(j)
             /\ \A n \in Stored(j) : data'[n] = data[n]
  BY <1>1, <1>6 DEF Stored, TreeTypeOK
<1>7. Dict' = [j \in Keys |-> IF j = k THEN call.data ELSE Dict[j]]
  <2>1. Dict' = [j \in Keys |-> IF {n \in live' : key'[n] = j} = {} THEN Nil
                                ELSE data'[CHOOSE n \in {n \in live' : key'[n] = j} : TRUE]]
    BY DEF Dict, Stored
  <2>2. ASSUME NEW j \in Keys
        PROVE  (IF {n \in live' : key'[n] = j} = {} THEN Nil
                ELSE data'[CHOOSE n \in {n \in live' : key'[n] = j} : TRUE])
               = IF j = k THEN call.data ELSE Dict[j]
    <3>1. CASE j = k
      BY <3>1, <1>3, <1>4
    <3>2. CASE j # k
      <4>1. Stored(j) # {} => (CHOOSE n \in Stored(j) : TRUE) \in Stored(j)
        OBVIOUS
      <4> QED BY <3>2, <4>1, <1>6 DEF Dict
    <3> QED BY <3>1, <3>2
  <2> QED BY <2>1, <2>2
<1>8. Dict[k] = Nil
  BY <1>1, <1>5 DEF Dict
<1> HIDE DEF k
<1>9. Dict' = [Dict EXCEPT ![k] = call.data]
  BY <1>7 DEF Dict
<1> QED BY <1>8, <1>9 DEF k

LEMMA DictAfterDelink ==
  ASSUME TreeTypeOK, Sound, ~torn, DelinkOuter
  PROVE  Dict' = [Dict EXCEPT ![call.key] = Nil]
<1> DEFINE k == call.key
<1>1. /\ cur \in live /\ key[cur] = k /\ live' = live \ {cur} /\ live \subseteq Addr
      /\ \A n \in live' : key'[n] = key[n] /\ data'[n] = data[n]
  BY DEF DelinkOuter, AtKey, FreeCur, TreeTypeOK
<1>2. Keyed
  BY DEF Sound, Shape
<1>3. {n \in live' : key'[n] = k} = {}
  BY <1>1, <1>2 DEF Keyed
<1>4. ASSUME NEW j \in Keys, j # k
      PROVE  /\ {n \in live' : key'[n] = j} = Stored(j)
             /\ \A n \in Stored(j) : data'[n] = data[n]
  BY <1>1, <1>4 DEF Stored
<1>5. Dict' = [j \in Keys |-> IF j = k THEN Nil ELSE Dict[j]]
  <2>1. Dict' = [j \in Keys |-> IF {n \in live' : key'[n] = j} = {} THEN Nil
                                ELSE data'[CHOOSE n \in {n \in live' : key'[n] = j} : TRUE]]
    BY DEF Dict, Stored
  <2>2. ASSUME NEW j \in Keys
        PROVE  (IF {n \in live' : key'[n] = j} = {} THEN Nil
                ELSE data'[CHOOSE n \in {n \in live' : key'[n] = j} : TRUE])
               = IF j = k THEN Nil ELSE Dict[j]
    <3>1. CASE j = k
      BY <3>1, <1>3
    <3>2. CASE j # k
      <4>1. Stored(j) # {} => (CHOOSE n \in Stored(j) : TRUE) \in Stored(j)
        OBVIOUS
      <4> QED BY <3>2, <4>1, <1>4 DEF Dict
    <3> QED BY <3>1, <3>2
  <2> QED BY <2>1, <2>2
<1> HIDE DEF k
<1>6. Dict' = [Dict EXCEPT ![k] = Nil]
  BY <1>5 DEF Dict
<1> QED BY <1>6 DEF k

LEMMA DictUntouched ==
  ASSUME UNCHANGED <<live, key, data>> PROVE Dict' = Dict
BY DEF Dict, Stored

\* A step of the tree is a step of the dictionary, or leaves it alone.
LEMMA StepRefines ==
  TreeTypeOK /\ Sound /\ [TreeNext]_treeVars => (~torn' => [D!Next]_(D!vars))
<1> SUFFICES ASSUME TreeTypeOK, Sound, [TreeNext]_treeVars, ~torn' PROVE [D!Next]_(D!vars)
  OBVIOUS
<1> USE DEF D!vars, D!Next
<1>0. ~torn
  BY DEF TreeNext, treeVars, heap, Start, Descend, Duplicate, NoMemory, Attach, Found, Missed, NotThere,
     DelinkOuter, DelinkRightUp, SeekLow, SeekLower, DelinkLowUp, ReadFreed, FreeCur
<1>1. ASSUME NEW c \in Calls, Start(c) PROVE D!Call
  <2>1. Dict' = Dict
    BY <1>1, DictUntouched DEF Start, heap
  <2> QED BY <1>1, <2>1 DEF Start, D!Call, D!Idle, Idle, D!Calls, Calls
<1>2. CASE Descend \/ SeekLow \/ SeekLower
  <2>1. UNCHANGED <<live, key, data, call, ret>>
    BY <1>2 DEF Descend, SeekLow, SeekLower, heap
  <2> QED BY <2>1, DictUntouched
<1>3. ASSUME NEW op, NEW v, Busy(op), Return(v), UNCHANGED heap
      PROVE  Dict' = Dict /\ call.op = op /\ D!Return(v)
  BY <1>3, DictUntouched DEF Busy, Return, heap, D!Return, D!Idle, Idle
<1>4. CASE Duplicate \/ NoMemory
  BY <1>3, <1>4 DEF Duplicate, NoMemory, D!Add, D!Failed, Failed
<1>5. ASSUME NEW a \in Addr, Attach(a) PROVE D!Add
  <2>1. Dict[call.key] = Nil /\ Dict' = [Dict EXCEPT ![call.key] = call.data]
    BY <1>0, <1>5, DictAfterAttach
  <2> QED BY <1>5, <2>1 DEF Attach, Busy, Return, D!Add, D!Return, D!Idle, Idle, D!Done, Done
<1>6. CASE Found
  <2>1. Dict[call.key] = data[cur]
    BY <1>0, <1>6, AtTheEnd DEF Found, Busy, Idle
  <2> QED BY <1>3, <1>6, <2>1 DEF Found, D!Get
<1>7. CASE Missed
  <2>1. Dict[call.key] = Nil
    BY <1>0, <1>7, AtTheEnd DEF Missed, Busy, Idle
  <2> QED BY <1>3, <1>7, <2>1 DEF Missed, D!Get
<1>8. CASE NotThere
  <2>1. Dict[call.key] = Nil
    BY <1>0, <1>8, AtTheEnd DEF NotThere, Busy, Idle
  <2>2. Dict' = [Dict EXCEPT ![call.key] = Nil]
    BY <1>3, <1>8, <2>1 DEF NotThere, Dict
  <2> QED BY <1>3, <1>8, <2>1, <2>2 DEF NotThere, D!Del, D!Failed, Failed
<1>9. CASE DelinkOuter
  <2>1. Dict[call.key] # Nil
    BY <1>0, <1>9, AtTheEnd DEF DelinkOuter, Busy, Idle
  <2>2. Dict' = [Dict EXCEPT ![call.key] = Nil]
    BY <1>0, <1>9, DictAfterDelink
  <2> QED BY <1>9, <2>1, <2>2
          DEF DelinkOuter, Busy, FreeCur, Return, D!Del, D!Return, D!Idle, Idle, D!Done, Done
<1>10. CASE ReadFreed
  BY <1>0, <1>10, NothingWild
<1>11. CASE UNCHANGED treeVars
  BY <1>11, DictUntouched DEF treeVars, heap
<1>12. ~DelinkRightUp /\ ~DelinkLowUp
  BY DEF DelinkRightUp, DelinkLowUp, FreeCur
<1> QED BY <1>1, <1>2, <1>4, <1>5, <1>6, <1>7, <1>8, <1>9, <1>10, <1>11, <1>12 DEF TreeNext

\* The refinement: as long as no node with two children has been deleted, the
\* pointer tree does what the abstract dictionary does.
THEOREM TreeIsDict == TreeSpec => DictUntilTorn
<1>1. TreeInit => D!Init
  BY DEF TreeInit, D!Init, Dict, Stored, D!Idle, Idle
<1> QED BY <1>1, TypeCorrect, SoundInit, SoundNext, StepRefines, PTL DEF TreeSpec, DictUntilTorn

-----------------------------------------------------------------------------
(* The text: what a lexeme, an entry and a mark are.                       *)

Word == {"blank", "newline", "/*", "#", ";", "quoted", "number", "'",
         "{", "}", "(", ")", "[", "]"}
Lexemes == [is : Word, id : Int]
Entries == [is : {"string", "int", "tree", "list", "hash", "end"}, id : Int, value : Int]

(* Where an author is, and whether what was written last ends a string.  A *)
(* hash is written in one go, from its name on.                            *)
Parts == {"fresh", "named", "valued", "empty"}
HashParts == {"hashed", "spaced", "opened", "broken", "indented", "sized"}
Marks == [n : Nat, open : Seq(Blocks), part : Parts \cup HashParts \cup {"int", "figure"},
          cut : BOOLEAN]
Mark(n, blocks, p, c) == [n |-> n, open |-> blocks, part |-> p, cut |-> c]

Goes(a, b, p) == b.n = a.n /\ b.open = a.open /\ b.part = p
Ends(a, b, e, m) == b.n = a.n + 1 /\ b.n <= Len(m) /\ m[b.n] = e /\ b.part = "fresh"

(* The lexeme x takes the author of the entries m from a to b.  What opens *)
(* a block is passed over where the block is open already.                 *)
Passes(a, x, b) ==
  /\ Goes(a, b, a.part)
  /\ \/ a.part \in Parts /\ x.is \in {"blank", "/*"}
     \/ a.part = "fresh" /\ x.is \in {";", "newline", "#", "{", "("}
Names(a, x, b) == /\ a.part = "fresh" /\ x.is = "quoted" /\ x.id = a.n + 1
                  /\ Goes(a, b, "named") \/ Goes(a, b, "hashed")
Values(a, x, b) == /\ a.part = "named" /\ x.is = "quoted"
                   /\ \/ x.id = -(a.n + 1) /\ Goes(a, b, "valued")
                      \/ x.id = 0 /\ Goes(a, b, "empty")
Meant(a) == Entry("string", a.n + 1, IF a.part = "valued" THEN -(a.n + 1) ELSE 0)
EndsString(a, x) == a.part \in Parts \ {"fresh"} /\ x.is \in {";", "newline"}
Strings(a, x, b, m) == /\ EndsString(a, x)
                       /\ Ends(a, b, Meant(a), m) /\ b.open = a.open
Ints(a, x, b, m) ==
  \/ a.part = "named" /\ x.is = "'" /\ Goes(a, b, "int")
  \/ a.part = "int" /\ x.is = "number" /\ Goes(a, b, "figure")
  \/ /\ a.part = "figure" /\ x.is = "'"
     /\ Ends(a, b, Entry("int", a.n + 1, 0), m) /\ b.open = a.open
Begins(a, x, b, m, k) == /\ a.part = "named" /\ x.is = OpenToken[k]
                         /\ Ends(a, b, Entry(k, a.n + 1, 0), m) /\ b.open = Append(a.open, k)
Hashes(a, x, b, m) ==
  \/ a.part = "hashed" /\ x.is = "blank" /\ Goes(a, b, "spaced")
  \/ a.part = "spaced" /\ x.is = "[" /\ Goes(a, b, "opened")
  \/ a.part = "opened" /\ x.is = "newline" /\ Goes(a, b, "broken")
  \/ a.part = "broken" /\ x.is = "blank" /\ Goes(a, b, "indented")
  \/ a.part = "indented" /\ x.is = "number" /\ Goes(a, b, "sized")
  \/ /\ a.part = "sized" /\ x.is = ";"
     /\ Ends(a, b, Entry("hash", a.n + 1, 0), m) /\ b.open = Append(a.open, "hash")
Closes(a, x, b, m) == /\ a.part = "fresh" /\ a.open # << >> /\ x.is = CloseToken[Last(a.open)]
                      /\ Ends(a, b, Ended, m) /\ b.open = Front(a.open)

Moves(a, x, b, m) ==
  \/ Passes(a, x, b) \/ Names(a, x, b) \/ Values(a, x, b)
  \/ Strings(a, x, b, m) \/ Ints(a, x, b, m) \/ Hashes(a, x, b, m) \/ Closes(a, x, b, m)
  \/ Begins(a, x, b, m, "tree") \/ Begins(a, x, b, m, "list")
Writes(a, x, b, m) == Moves(a, x, b, m) /\ (b.cut <=> EndsString(a, x))

(* The lexemes t do.                                                       *)
Along(f, a, t, b, m) == /\ f[0] = a /\ f[Len(t)] = b
                        /\ \A i \in 1 .. Len(t) : Writes(f[i - 1], t[i], f[i], m)
Reaches(a, t, b, m) == \E f \in [0 .. Len(t) -> Marks] : Along(f, a, t, b, m)

(* Where the author is now; and where the loader is, when it has come as   *)
(* far as a: it has loaded that many entries, is in that many blocks, and  *)
(* has in its token what there is of the next entry.                       *)
Here == Mark(Len(meant), open, part, clipped)
Token(a) == CASE a.part = "fresh" -> << >>
              [] a.part \in {"named", "hashed"} -> <<a.n + 1>>
              [] a.part = "valued" -> <<a.n + 1, -(a.n + 1)>>
              [] a.part = "empty" -> <<a.n + 1, 0>>
Agrees(a) == /\ a \in Marks /\ a.part \in Parts \cup {"hashed"}
             /\ Len(loaded) = a.n /\ Len(stack) = Len(a.open) + 1
             /\ tok = Token(a)
             /\ a.part = "hashed" => begun

TextTypes == /\ author \in {"hand", "pdb_write"}
             /\ phase \in {"writing", "loading", "loaded"}
             /\ text \in Seq(Lexemes) /\ meant \in Seq(Entries) /\ loaded \in Seq(Entries)
             /\ open \in Seq(Blocks) /\ part \in Parts /\ stack \in Seq(Blocks)
             /\ clipped \in BOOLEAN /\ begun \in BOOLEAN /\ (begun => tok # << >>)

(* The loader is on the author's way, or has come to the end of the file   *)
(* without the last string.                                                *)
OnTheWay(a) == /\ Agrees(a) /\ Reaches(a, text, Here, meant)
               /\ text = << >> => ~a.cut
Lost == /\ phase # "writing" /\ text = << >> /\ clipped /\ stack # << >>
        /\ Len(meant) = Len(loaded) + 1

TextInv == /\ TextTypes
           /\ author = "pdb_write" => part = "fresh" /\ ~clipped
           /\ phase # "writing" => part = "fresh" /\ open = << >>
           /\ phase = "loaded" => text = << >>
           /\ Len(loaded) <= Len(meant) /\ \A i \in 1 .. Len(loaded) : loaded[i] = meant[i]
           /\ Lost \/ \E a : OnTheWay(a)

-----------------------------------------------------------------------------
(* Paths through the marks.                                                *)

\* No lexeme, or one.
LEMMA Stay == ASSUME NEW a \in Marks, NEW m PROVE Reaches(a, << >>, a, m)
<1>1. [i \in 0 .. 0 |-> a] \in [0 .. Len(<< >>) -> Marks]
  OBVIOUS
<1>2. Along([i \in 0 .. 0 |-> a], a, << >>, a, m)
  BY DEF Along
<1> QED BY <1>1, <1>2 DEF Reaches

LEMMA One ==
  ASSUME NEW a \in Marks, NEW b \in Marks, NEW x, NEW m, Writes(a, x, b, m)
  PROVE  Reaches(a, <<x>>, b, m)
<1> DEFINE f == [i \in 0 .. 1 |-> IF i = 0 THEN a ELSE b]
           t == <<x>>
<1>1. Len(t) = 1 /\ t[1] = x
  OBVIOUS
<1>2. f \in [0 .. 1 -> Marks] /\ f[0] = a /\ f[1] = b
  OBVIOUS
<1> HIDE DEF f, t
<1>3. Along(f, a, t, b, m)
  <2>1. ASSUME NEW i \in 1 .. Len(t) PROVE Writes(f[i - 1], t[i], f[i], m)
    <3>1. i = 1
      BY <1>1, <2>1
    <3>2. f[i - 1] = a /\ t[i] = x /\ f[i] = b
      BY <3>1, <1>1, <1>2
    <3> QED BY <3>2
  <2> QED BY <2>1, <1>1, <1>2 DEF Along
<1>4. Reaches(a, t, b, m)
  BY <1>1, <1>2, <1>3 DEF Reaches
<1> QED BY <1>4 DEF t

\* One path after another is a path.
LEMMA Joined ==
  ASSUME NEW a, NEW b, NEW c, NEW m, NEW t \in Seq(Lexemes), NEW u \in Seq(Lexemes),
         Reaches(a, t, b, m), Reaches(b, u, c, m)
  PROVE  Reaches(a, t \o u, c, m)
<1>1. PICK f \in [0 .. Len(t) -> Marks] : Along(f, a, t, b, m)
  BY DEF Reaches
<1>2. PICK g \in [0 .. Len(u) -> Marks] : Along(g, b, u, c, m)
  BY DEF Reaches
<1> DEFINE h == [i \in 0 .. Len(t) + Len(u) |-> IF i <= Len(t) THEN f[i] ELSE g[i - Len(t)]]
<1>3. PICK v : v = t \o u
  OBVIOUS
<1>4. /\ Len(t) \in Nat /\ Len(u) \in Nat /\ Len(v) = Len(t) + Len(u)
      /\ \A i \in 1 .. Len(t) : v[i] = t[i]
      /\ \A i \in 1 .. Len(u) : v[i + Len(t)] = u[i]
  BY <1>3
<1>5. /\ f[0] = a /\ f[Len(t)] = b /\ g[0] = b /\ g[Len(u)] = c
      /\ \A i \in 1 .. Len(t) : Writes(f[i - 1], t[i], f[i], m)
      /\ \A i \in 1 .. Len(u) : Writes(g[i - 1], u[i], g[i], m)
  BY <1>1, <1>2 DEF Along
<1>6. h \in [0 .. Len(v) -> Marks]
  BY <1>4
<1>7. /\ \A i \in 0 .. Len(t) : h[i] = f[i]
      /\ \A i \in 0 .. Len(u) : h[i + Len(t)] = g[i]
  <2>1. ASSUME NEW i \in 0 .. Len(t) PROVE h[i] = f[i]
    BY <1>4
  <2>2. ASSUME NEW i \in 0 .. Len(u) PROVE h[i + Len(t)] = g[i]
    <3>1. i + Len(t) \in 0 .. Len(t) + Len(u) /\ (i + Len(t)) - Len(t) = i
          /\ (i + Len(t) <= Len(t) <=> i = 0)
      BY <1>4
    <3>2. CASE i = 0
      <4>1. h[i + Len(t)] = f[i + Len(t)] /\ i + Len(t) = Len(t)
        BY <3>1, <3>2, <1>4
      <4> QED BY <4>1, <3>2, <1>5
    <3>3. CASE i # 0
      <4>1. h[i + Len(t)] = g[(i + Len(t)) - Len(t)]
        BY <3>1, <3>3
      <4> QED BY <4>1, <3>1
    <3> QED BY <3>2, <3>3
  <2> QED BY <2>1, <2>2
<1> HIDE DEF h
<1>8. ASSUME NEW i \in 1 .. Len(v) PROVE Writes(h[i - 1], v[i], h[i], m)
  <2>1. CASE i <= Len(t)
    <3>1. i \in 1 .. Len(t) /\ i - 1 \in 0 .. Len(t) /\ i \in 0 .. Len(t)
      BY <2>1, <1>4
    <3>2. h[i - 1] = f[i - 1] /\ v[i] = t[i] /\ h[i] = f[i]
      BY <3>1, <1>4, <1>7
    <3> QED BY <3>1, <3>2, <1>5
  <2>2. CASE ~(i <= Len(t))
    <3>1. PICK j : j = i - Len(t)
      OBVIOUS
    <3>2. j \in 1 .. Len(u) /\ j - 1 \in 0 .. Len(u) /\ j \in 0 .. Len(u)
          /\ i = j + Len(t) /\ i - 1 = (j - 1) + Len(t)
      BY <3>1, <2>2, <1>4
    <3>3. h[i - 1] = g[j - 1] /\ v[i] = u[j] /\ h[i] = g[j]
      BY <3>2, <1>4, <1>7
    <3> QED BY <3>2, <3>3, <1>5
  <2> QED BY <2>1, <2>2
<1>9. h[0] = a /\ h[Len(v)] = c
  <2>1. 0 \in 0 .. Len(t) /\ Len(u) \in 0 .. Len(u)
    BY <1>4
  <2>2. h[Len(u) + Len(t)] = g[Len(u)] /\ h[0] = f[0]
    BY <2>1, <1>7
  <2> QED BY <2>2, <1>4, <1>5
<1>10. Along(h, a, v, c, m)
  BY <1>8, <1>9 DEF Along
<1> QED BY <1>3, <1>6, <1>10 DEF Reaches

\* The first step of a path, and the rest of it.
LEMMA Parted ==
  ASSUME NEW a, NEW b, NEW m, NEW t \in Seq(Lexemes), t # << >>, Reaches(a, t, b, m)
  PROVE  \E c \in Marks : Writes(a, Head(t), c, m) /\ Reaches(c, Tail(t), b, m)
<1>1. PICK f \in [0 .. Len(t) -> Marks] : Along(f, a, t, b, m)
  BY DEF Reaches
<1>2. PICK u : u = Tail(t)
  OBVIOUS
<1>3. /\ Len(t) \in Nat \ {0} /\ Len(u) = Len(t) - 1 /\ Head(t) = t[1]
      /\ \A i \in 1 .. Len(u) : u[i] = t[i + 1]
  BY <1>2
<1>4. PICK g : g = [i \in 0 .. Len(u) |-> f[i + 1]]
  OBVIOUS
<1>5. g \in [0 .. Len(u) -> Marks] /\ \A i \in 0 .. Len(u) : g[i] = f[i + 1]
  BY <1>3, <1>4
<1>6. /\ f[0] = a /\ f[Len(t)] = b
      /\ \A i \in 1 .. Len(t) : Writes(f[i - 1], t[i], f[i], m)
  BY <1>1 DEF Along
<1>7. ASSUME NEW i \in 1 .. Len(u) PROVE Writes(g[i - 1], u[i], g[i], m)
  <2>1. i + 1 \in 1 .. Len(t) /\ i - 1 \in 0 .. Len(u) /\ i \in 0 .. Len(u)
        /\ (i - 1) + 1 = i /\ (i + 1) - 1 = i
    BY <1>3
  <2>2. g[i - 1] = f[i] /\ u[i] = t[i + 1] /\ g[i] = f[i + 1]
    BY <2>1, <1>3, <1>5
  <2>3. Writes(f[(i + 1) - 1], t[i + 1], f[i + 1], m)
    BY <2>1, <1>6
  <2> QED BY <2>1, <2>2, <2>3
<1>8. g[0] = f[1] /\ g[Len(u)] = b /\ f[1] \in Marks
  BY <1>3, <1>5, <1>6
<1>9. Along(g, f[1], u, b, m)
  BY <1>7, <1>8 DEF Along
<1>10. Writes(a, t[1], f[1], m)
  <2>1. 1 \in 1 .. Len(t) /\ 1 - 1 = 0
    BY <1>3
  <2>2. Writes(f[1 - 1], t[1], f[1], m)
    BY <2>1, <1>6
  <2> QED BY <2>1, <2>2, <1>6
<1> QED BY <1>2, <1>3, <1>5, <1>8, <1>9, <1>10 DEF Reaches

\* A path of no lexemes goes nowhere.
LEMMA Still ==
  ASSUME NEW a, NEW b, NEW m, Reaches(a, << >>, b, m)
  PROVE  a = b
BY DEF Reaches, Along

\* More entries leave a path what it is.
LEMMA Longer ==
  ASSUME NEW a, NEW b, NEW m \in Seq(Entries), NEW e \in Seq(Entries),
         NEW t \in Seq(Lexemes), Reaches(a, t, b, m)
  PROVE  Reaches(a, t, b, m \o e)
<1>1. PICK f \in [0 .. Len(t) -> Marks] : Along(f, a, t, b, m)
  BY DEF Reaches
<1>2. PICK l : l = m \o e
  OBVIOUS
<1>3. Len(m) \in Nat /\ Len(l) >= Len(m) /\ Len(l) \in Nat /\ \A i \in 1 .. Len(m) : l[i] = m[i]
  BY <1>2
<1>4. ASSUME NEW p \in Marks, NEW q \in Marks, NEW d, Ends(p, q, d, m) PROVE Ends(p, q, d, l)
  <2>1. q.n \in 1 .. Len(m) /\ q.n <= Len(l)
    BY <1>3, <1>4 DEF Ends, Marks
  <2> QED BY <2>1, <1>3, <1>4 DEF Ends
<1>5. ASSUME NEW i \in 1 .. Len(t) PROVE Writes(f[i - 1], t[i], f[i], l)
  <2>1. f[i - 1] \in Marks /\ f[i] \in Marks /\ Writes(f[i - 1], t[i], f[i], m)
    BY <1>1 DEF Along
  <2> QED BY <2>1, <1>4 DEF Writes, Moves, Strings, Ints, Hashes, Closes, Begins
<1>6. Along(f, a, t, b, l)
  BY <1>1, <1>5 DEF Along
<1> QED BY <1>2, <1>6 DEF Reaches

-----------------------------------------------------------------------------
(* What an author writes.                                                  *)

LEMMA Tokens ==
  /\ DOMAIN OpenToken = {"tree", "list", "hash", "int"}
  /\ OpenToken["tree"] = "{" /\ OpenToken["list"] = "(" /\ OpenToken["hash"] = "["
  /\ OpenToken["int"] = "'"
  /\ Blocks = {"tree", "list", "hash"}
  /\ CloseToken["tree"] = "}" /\ CloseToken["list"] = ")" /\ CloseToken["hash"] = "]"
BY DEF OpenToken, CloseToken, Blocks

LEMMA LexIs == \A w \in Word : Lex(w) \in Lexemes /\ Lex(w).is = w
<1> SUFFICES ASSUME NEW w \in Word PROVE Lex(w) \in Lexemes /\ Lex(w).is = w
  OBVIOUS
<1>1. [is |-> w, id |-> 0] \in [is : Word, id : Int]
  OBVIOUS
<1> QED BY <1>1 DEF Lex, Lexemes

LEMMA QuotedIs == \A i \in Int : Quoted(i) \in Lexemes /\ Quoted(i).is = "quoted" /\ Quoted(i).id = i
<1>1. "quoted" \in Word
  BY DEF Word
<1> QED BY <1>1 DEF Quoted, Lexemes

LEMMA Somewhere == TextTypes => Here \in Marks
BY DEF TextTypes, Here, Mark, Marks

LEMMA Wrote ==
  ASSUME TextInv, phase = "writing", NEW w \in Seq(Lexemes), NEW e \in Seq(Entries),
         text' = text \o w, meant' = meant \o e,
         UNCHANGED <<author, phase, begun, tok, stack, loaded>>,
         open' \in Seq(Blocks), part' \in Parts, clipped' \in BOOLEAN,
         author = "pdb_write" => part' = "fresh" /\ ~clipped',
         Reaches(Here, w, Here', meant')
  PROVE  TextInv'
<1>1. TextTypes'
  BY DEF TextInv, TextTypes
<1>2. PICK a : OnTheWay(a)
  BY DEF TextInv, Lost
<1>3. text \in Seq(Lexemes) /\ meant \in Seq(Entries)
  BY DEF TextInv, TextTypes
<1>4. Reaches(a, text, Here, meant')
  BY <1>2, <1>3, Longer DEF OnTheWay
<1>5. Reaches(a, text', Here', meant')
  BY <1>3, <1>4, Joined
<1>6. Agrees(a)'
  BY <1>2 DEF OnTheWay, Agrees
<1>7. /\ Len(loaded) <= Len(meant) /\ \A i \in 1 .. Len(loaded) : loaded[i] = meant[i]
      /\ Len(loaded) \in Nat /\ Len(meant) \in Nat
  BY DEF TextInv, TextTypes
<1>8. Len(meant') >= Len(meant) /\ \A i \in 1 .. Len(meant) : meant'[i] = meant[i]
  BY <1>3
<1>9. Len(loaded') <= Len(meant') /\ \A i \in 1 .. Len(loaded') : loaded'[i] = meant'[i]
  <2>1. Len(meant') \in Nat
    BY <1>3
  <2> QED BY <2>1, <1>7, <1>8
<1>10. text' = << >> => ~a.cut
  <2>1. text' = << >> => text = << >>
    <3>1. Len(text \o w) = Len(text) + Len(w) /\ Len(text) \in Nat /\ Len(w) \in Nat
      BY <1>3
    <3>2. text' = << >> => Len(text) = 0
      BY <3>1
    <3> QED BY <3>2, <1>3
  <2> QED BY <2>1, <1>2 DEF OnTheWay
<1>11. OnTheWay(a)'
  BY <1>5, <1>6, <1>10 DEF OnTheWay
<1> QED BY <1>1, <1>9, <1>11 DEF TextInv

\* Adding one lexeme.
LEMMA WroteOne ==
  ASSUME TextInv, phase = "writing", NEW x \in Lexemes, NEW e \in Seq(Entries),
         text' = text \o <<x>>, meant' = meant \o e,
         UNCHANGED <<author, phase, begun, tok, stack, loaded>>,
         open' \in Seq(Blocks), part' \in Parts, clipped' \in BOOLEAN,
         author = "pdb_write" => part' = "fresh" /\ ~clipped',
         Writes(Here, x, Here', meant')
  PROVE  TextInv'
<1>1. <<x>> \in Seq(Lexemes) /\ meant' \in Seq(Entries)
  BY DEF TextInv, TextTypes
<1>2. Here \in Marks /\ Here' \in Marks
  BY <1>1, Somewhere DEF TextInv, Here, Mark, Marks
<1>3. Reaches(Here, <<x>>, Here', meant')
  BY <1>2, One
<1> QED BY <1>1, <1>3, Wrote

\* One entry more.
LEMMA LastMeant ==
  ASSUME NEW m \in Seq(Entries), NEW e \in Entries
  PROVE  /\ m \o <<e>> \in Seq(Entries) /\ Len(m \o <<e>>) = Len(m) + 1 /\ Len(m) \in Nat
         /\ (m \o <<e>>)[Len(m) + 1] = e
OBVIOUS

LEMMA NewEnds ==
  ASSUME TextTypes, NEW e \in Entries, NEW a \in Marks, a.n = Len(meant), meant' = meant \o <<e>>,
         part' = "fresh"
  PROVE  Ends(a, Here', e, meant')
BY LastMeant DEF TextTypes, Ends, Here, Mark

LEMMA NoneMore ==
  ASSUME NEW m \in Seq(Entries) PROVE m \o << >> = m
OBVIOUS

LEMMA HandSteps ==
  ASSUME TextInv, ~LooseComments,
         Name \/ Value \/ Terminate \/ Number \/ Begin \/ End \/ Layout
  PROVE  TextInv'
<1>1. /\ TextTypes /\ Here \in Marks /\ text \in Seq(Lexemes) /\ meant \in Seq(Entries)
      /\ Len(meant) \in Nat /\ open \in Seq(Blocks) /\ part \in Parts
      /\ Here.n = Len(meant) /\ Here.open = open /\ Here.part = part /\ Here.cut = clipped
      /\ Here'.n = Len(meant') /\ Here'.open = open' /\ Here'.part = part' /\ Here'.cut = clipped'
  BY Somewhere DEF TextInv, TextTypes, Here, Mark
<1>2. /\ phase = "writing" /\ author = "hand"
      /\ UNCHANGED <<author, phase, begun, tok, stack, loaded>>
  BY DEF Name, Value, Terminate, Number, Begin, End, Layout, Scribble, Put, loaderVars
<1>3. meant \o << >> = meant
  BY <1>1, NoneMore
<1>4. << >> \in Seq(Entries)
  OBVIOUS
<1>5. CASE Name
  <2>1. /\ text' = text \o <<Quoted(Next1)>> /\ meant' = meant \o << >>
        /\ part = "fresh" /\ part' = "named" /\ open' = open /\ clipped' = FALSE
    BY <1>5 DEF Name, Scribble, Put
  <2>2. Quoted(Next1) \in Lexemes
    BY <1>1, QuotedIs DEF Next1
  <2>3. Names(Here, Quoted(Next1), Here')
    BY <1>1, <1>3, <2>1 DEF Names, Goes, Quoted, Next1
  <2> QED BY <1>1, <1>2, <1>4, <2>1, <2>2, <2>3, WroteOne DEF Writes, Moves, EndsString, Parts
<1>6. CASE Value
  <2>1. PICK v \in {-Next1, 0} :
          /\ text' = text \o <<Quoted(v)>> /\ meant' = meant \o << >>
          /\ part = "named" /\ part' = (IF v = 0 THEN "empty" ELSE "valued") /\ open' = open
          /\ clipped' = FALSE
    <3>1. -Next1 # 0
      BY <1>1 DEF Next1
    <3> QED BY <3>1, <1>6 DEF Value, Scribble, Put
  <2>2. Quoted(v) \in Lexemes
    BY <1>1, QuotedIs DEF Next1
  <2>3. Values(Here, Quoted(v), Here')
    BY <1>1, <1>3, <2>1 DEF Values, Goes, Quoted, Next1
  <2>4. part' \in Parts /\ part' # "fresh"
    BY <2>1 DEF Parts
  <2>5. Writes(Here, Quoted(v), Here', meant')
    BY <1>1, <2>1, <2>3 DEF Writes, Moves, EndsString, Quoted
  <2>6. author # "pdb_write" /\ clipped' \in BOOLEAN
    BY <1>2, <2>1
  <2> QED BY <1>1, <1>2, <1>4, <2>1, <2>2, <2>4, <2>5, <2>6, WroteOne
<1>7. CASE Terminate
  <2> DEFINE e == Entry("string", Next1, IF part = "valued" THEN -Next1 ELSE 0)
  <2>1. PICK x \in {Term, Line} :
          /\ text' = text \o <<x>> /\ meant' = meant \o <<e>>
          /\ part # "fresh" /\ part' = "fresh" /\ open' = open /\ clipped' = TRUE
    <3>1. <<e>> # << >> /\ <<e>>[1].is = "string"
      BY DEF Entry
    <3> QED BY <3>1, <1>7 DEF Terminate, Scribble, Put
  <2>2. x \in Lexemes /\ x.is \in {";", "newline"}
    <3>1. ";" \in Word /\ "newline" \in Word
      BY DEF Word
    <3> QED BY <2>1, <3>1, LexIs DEF Term, Line
  <2>3. e \in Entries /\ e = Meant(Here)
    BY <1>1 DEF Entry, Entries, Next1, Meant
  <2>4. <<e>> \in Seq(Entries)
    BY <2>3
  <2> HIDE DEF e
  <2>5. Ends(Here, Here', e, meant')
    BY <1>1, <2>1, <2>3, NewEnds
  <2>6. Strings(Here, x, Here', meant')
    BY <1>1, <2>1, <2>2, <2>3, <2>5 DEF Strings, EndsString
  <2> QED BY <1>1, <1>2, <2>1, <2>2, <2>4, <2>6, WroteOne DEF Writes, Moves, Strings, Parts
<1>8. CASE Number
  <2> DEFINE e == Entry("int", Next1, 0)
             q == Lex("'")
             n == Lex("number")
  <2>1. /\ text' = text \o <<q, n, q>> /\ meant' = meant \o <<e>>
        /\ part = "named" /\ part' = "fresh" /\ open' = open /\ clipped' = FALSE
    <3>1. <<e>>[1].is # "string"
      BY DEF Entry
    <3> QED BY <3>1, <1>8 DEF Number, Scribble, Put
  <2>2. q \in Lexemes /\ n \in Lexemes /\ q.is = "'" /\ n.is = "number"
    BY DEF Lex, Lexemes, Word
  <2>3. e \in Entries /\ e = Entry("int", Here.n + 1, 0)
    BY <1>1 DEF Entry, Entries, Next1
  <2>4. <<e>> \in Seq(Entries) /\ <<q, n, q>> \in Seq(Lexemes) /\ <<q>> \in Seq(Lexemes)
        /\ <<n, q>> \in Seq(Lexemes) /\ <<n>> \in Seq(Lexemes)
    BY <2>2, <2>3
  <2>5. <<q, n, q>> = <<q>> \o (<<n>> \o <<q>>) /\ <<n>> \o <<q>> \in Seq(Lexemes)
    BY <2>4
  <2> HIDE DEF e, q, n
  <2>6. Ends(Here, Here', e, meant')
    BY <1>1, <2>1, <2>3, NewEnds
  <2>7. PICK b, c : /\ b \in Marks /\ Goes(Here, b, "int") /\ ~b.cut
                    /\ c \in Marks /\ Goes(Here, c, "figure") /\ ~c.cut
    <3>1. /\ Mark(Here.n, open, "int", FALSE) \in Marks
          /\ Mark(Here.n, open, "figure", FALSE) \in Marks
      BY <1>1 DEF Mark, Marks
    <3> QED BY <3>1, <1>1 DEF Goes, Mark
  <2>8. /\ Ints(Here, q, b, meant') /\ Ints(b, n, c, meant') /\ Ints(c, q, Here', meant')
    BY <1>1, <2>1, <2>2, <2>3, <2>6, <2>7 DEF Ints, Goes, Ends
  <2>9. /\ Writes(Here, q, b, meant') /\ Writes(b, n, c, meant') /\ Writes(c, q, Here', meant')
    BY <1>1, <2>1, <2>2, <2>7, <2>8 DEF Writes, Moves, EndsString
  <2>10. Here' \in Marks
    BY <1>1, <2>1, <2>3, LastMeant DEF Here, Mark, Marks, Parts
  <2>11. Reaches(Here, <<q>>, b, meant') /\ Reaches(b, <<n>>, c, meant') /\ Reaches(c, <<q>>, Here', meant')
    BY <1>1, <2>7, <2>10, <2>9, One
  <2>12. Reaches(b, <<n>> \o <<q>>, Here', meant')
    BY <2>4, <2>11, Joined
  <2>13. Reaches(Here, <<q>> \o (<<n>> \o <<q>>), Here', meant')
    BY <2>4, <2>5, <2>11, <2>12, Joined
  <2> QED BY <1>1, <1>2, <2>1, <2>4, <2>5, <2>13, Wrote DEF Parts
<1>9. CASE Begin
  <2>1. PICK k \in {"tree", "list"} :
          /\ text' = text \o <<Lex(OpenToken[k])>> /\ meant' = meant \o <<Entry(k, Next1, 0)>>
          /\ open' = Append(open, k) /\ part = "named" /\ part' = "fresh" /\ clipped' = FALSE
    <3>1. \A k \in {"tree", "list"} : <<Entry(k, Next1, 0)>>[1].is # "string"
      BY DEF Entry
    <3> QED BY <3>1, <1>9 DEF Begin, Scribble, Put
  <2> DEFINE e == Entry(k, Next1, 0)
             x == Lex(OpenToken[k])
  <2>2. x \in Lexemes /\ x.is = OpenToken[k]
    <3>1. OpenToken[k] \in Word
      BY Tokens DEF Word
    <3> QED BY <3>1, LexIs
  <2>3. e \in Entries /\ e = Entry(k, Here.n + 1, 0)
    BY <1>1 DEF Entry, Entries, Next1
  <2>4. <<e>> \in Seq(Entries) /\ open' \in Seq(Blocks)
    <3> HIDE DEF e
    <3>1. k \in Blocks
      BY Tokens
    <3> QED BY <1>1, <2>1, <2>3, <3>1
  <2> HIDE DEF e, x
  <2>5. Ends(Here, Here', e, meant')
    BY <1>1, <2>1, <2>3, NewEnds DEF e
  <2>6. Begins(Here, x, Here', meant', k)
    BY <1>1, <2>1, <2>2, <2>3, <2>5 DEF Begins
  <2>7. x.is \notin {";", "newline"}
    BY <2>2, Tokens
  <2>8. Writes(Here, x, Here', meant')
    BY <1>1, <2>1, <2>6, <2>7 DEF Writes, Moves, EndsString
  <2> QED BY <1>1, <1>2, <2>1, <2>2, <2>4, <2>8, WroteOne DEF Parts, e, x
<1>10. CASE End
  <2> DEFINE x == Lex(CloseToken[Last(open)])
  <2>1. /\ text' = text \o <<x>> /\ meant' = meant \o <<Ended>>
        /\ open # << >> /\ open' = Front(open) /\ part = "fresh" /\ part' = "fresh"
        /\ clipped' = FALSE
    <3>1. <<Ended>>[1].is # "string"
      BY DEF Ended, Entry
    <3> QED BY <3>1, <1>10 DEF End, Scribble, Put
  <2>2. Last(open) \in Blocks /\ open' \in Seq(Blocks)
    BY <1>1, <2>1 DEF Last, Front
  <2>3. x \in Lexemes /\ x.is = CloseToken[Last(open)]
    <3>1. CloseToken[Last(open)] \in Word
      BY <2>2, Tokens DEF Word
    <3> QED BY <3>1, LexIs
  <2>4. Ended \in Entries
    BY DEF Ended, Entry, Entries
  <2>5. <<Ended>> \in Seq(Entries)
    BY <2>4
  <2> HIDE DEF x
  <2>6. Ends(Here, Here', Ended, meant')
    BY <1>1, <2>1, <2>4, NewEnds
  <2>7. Closes(Here, x, Here', meant')
    BY <1>1, <2>1, <2>3, <2>6 DEF Closes
  <2> QED BY <1>1, <1>2, <2>1, <2>2, <2>3, <2>5, <2>7, WroteOne DEF Writes, Moves, EndsString, Parts
<1>11. CASE Layout
  <2>1. PICK w \in {"blank", "/*"} \cup (IF part = "fresh" THEN {";", "newline", "#"} ELSE {}) :
          /\ text' = text \o <<Lex(w)>> /\ meant' = meant \o << >>
          /\ open' = open /\ part' = part /\ clipped' = FALSE
    BY <1>11 DEF Layout, Scribble, Put
  <2>2. Lex(w) \in Lexemes /\ Lex(w).is = w
    <3>1. w \in Word
      BY <2>1 DEF Word
    <3> QED BY <3>1, LexIs
  <2>3. Passes(Here, Lex(w), Here')
    BY <1>1, <1>3, <2>1, <2>2 DEF Passes, Goes
  <2>4. Writes(Here, Lex(w), Here', meant')
    BY <1>1, <2>1, <2>2, <2>3 DEF Writes, Moves, EndsString
  <2> QED BY <1>1, <1>2, <1>4, <2>1, <2>2, <2>4, WroteOne
<1> QED BY <1>5, <1>6, <1>7, <1>8, <1>9, <1>10, <1>11

-----------------------------------------------------------------------------
(* What pdb_write writes.                                                  *)

LEMMA Then ==
  ASSUME NEW a \in Marks, NEW b \in Marks, NEW c, NEW m, NEW x \in Lexemes,
         NEW u \in Seq(Lexemes), Writes(a, x, b, m), Reaches(b, u, c, m)
  PROVE  Reaches(a, <<x>> \o u, c, m)
<1>1. <<x>> \in Seq(Lexemes)
  OBVIOUS
<1>2. Reaches(a, <<x>>, b, m)
  BY One
<1> QED BY <1>1, <1>2, Joined

\* The indentation before an entry, and the end of the line.
LEMMA Around ==
  ASSUME NEW a \in Marks, a.part = "fresh", NEW b \in Marks, Goes(a, b, "fresh"), ~b.cut,
         NEW m, NEW d
  PROVE  /\ Indent(d) \in Seq(Lexemes) /\ Reaches(b, Indent(d), b, m)
         /\ <<Line>> \in Seq(Lexemes) /\ Reaches(a, <<Line>>, b, m)
<1>1. Lex("blank") \in Lexemes /\ Lex("blank").is = "blank" /\ Line \in Lexemes /\ Line.is = "newline"
  <2>1. "blank" \in Word /\ "newline" \in Word
    BY DEF Word
  <2> QED BY <2>1, LexIs DEF Line
<1>2. Writes(b, Lex("blank"), b, m) /\ Writes(a, Line, b, m)
  BY <1>1 DEF Writes, Moves, Passes, Goes, EndsString, Parts
<1>3. Reaches(b, <<Lex("blank")>>, b, m) /\ Reaches(a, <<Line>>, b, m) /\ Reaches(b, << >>, b, m)
  BY <1>2, One, Stay
<1>4. <<Line>> \in Seq(Lexemes) /\ <<Lex("blank")>> \in Seq(Lexemes) /\ << >> \in Seq(Lexemes)
  BY <1>1
<1> QED BY <1>3, <1>4 DEF Indent

\* A few lexemes in a row.
LEMMA RowOfOne == \A z \in Lexemes : <<z>> \in Seq(Lexemes)
OBVIOUS

LEMMA RowOfTwo ==
  ASSUME NEW y \in Lexemes, NEW z \in Lexemes
  PROVE  <<y, z>> \in Seq(Lexemes) /\ <<y, z>> = <<y>> \o <<z>>
<1>1. <<y, z>> \in Seq(Lexemes)
  OBVIOUS
<1>2. PICK s, t : s = <<y, z>> /\ t = <<y>> \o <<z>>
  OBVIOUS
<1>3. s \in Seq(Lexemes) /\ Len(s) = 2 /\ s[1] = y /\ s[2] = z
  BY <1>2
<1>4. t \in Seq(Lexemes) /\ Len(t) = 2 /\ t[1] = y /\ t[2] = z
  BY <1>2
<1>5. s = t
  BY <1>3, <1>4
<1> QED BY <1>1, <1>2, <1>5

LEMMA RowOfThree ==
  ASSUME NEW x \in Lexemes, NEW y \in Lexemes, NEW z \in Lexemes
  PROVE  <<x, y, z>> \in Seq(Lexemes) /\ <<x, y, z>> = <<x>> \o <<y, z>>
OBVIOUS

LEMMA RowOfFour ==
  ASSUME NEW w \in Lexemes, NEW x \in Lexemes, NEW y \in Lexemes, NEW z \in Lexemes
  PROVE  <<w, x, y, z>> \in Seq(Lexemes) /\ <<w, x, y, z>> = <<w>> \o <<x, y, z>>
OBVIOUS

LEMMA RowOfSix ==
  ASSUME NEW u \in Lexemes, NEW v \in Lexemes, NEW w \in Lexemes,
         NEW x \in Lexemes, NEW y \in Lexemes, NEW z \in Lexemes
  PROVE  <<u, v, w, x, y, z>> = <<u, v>> \o <<w, x, y, z>> /\ <<u, v, w, x, y, z>> \in Seq(Lexemes)
<1>1. PICK p, q : p = <<u, v>> /\ q = <<w, x, y, z>>
  OBVIOUS
<1>2. p \in Seq(Lexemes) /\ Len(p) = 2 /\ p[1] = u /\ p[2] = v
  BY <1>1
<1>3. q \in Seq(Lexemes) /\ Len(q) = 4 /\ q[1] = w /\ q[2] = x /\ q[3] = y /\ q[4] = z
  BY <1>1
<1>4. PICK t : t = p \o q
  OBVIOUS
<1>5. /\ t \in Seq(Lexemes) /\ Len(t) = Len(p) + Len(q)
      /\ \A i \in 1 .. Len(p) : t[i] = p[i]
      /\ \A i \in 1 .. Len(q) : t[i + Len(p)] = q[i]
  <2>1. p \in Seq(Lexemes) /\ q \in Seq(Lexemes)
    BY <1>2, <1>3
  <2> QED BY <2>1, <1>4
<1>6. /\ t \in Seq(Lexemes) /\ Len(t) = 6
      /\ t[1] = u /\ t[2] = v /\ t[3] = w /\ t[4] = x /\ t[5] = y /\ t[6] = z
  <2>1. t[1 + 2] = q[1] /\ t[2 + 2] = q[2] /\ t[3 + 2] = q[3] /\ t[4 + 2] = q[4]
    BY <1>2, <1>3, <1>5
  <2>2. t[3] = q[1] /\ t[4] = q[2] /\ t[5] = q[3] /\ t[6] = q[4]
    BY <2>1
  <2>3. t[1] = p[1] /\ t[2] = p[2] /\ Len(t) = 6
    BY <1>2, <1>3, <1>5
  <2> QED BY <2>2, <2>3, <1>2, <1>3, <1>5
<1>7. PICK s : s = <<u, v, w, x, y, z>>
  OBVIOUS
<1>8. /\ s \in Seq(Lexemes) /\ Len(s) = 6
      /\ s[1] = u /\ s[2] = v /\ s[3] = w /\ s[4] = x /\ s[5] = y /\ s[6] = z
  BY <1>7
<1>9. s = t
  BY <1>6, <1>8
<1> QED BY <1>1, <1>4, <1>7, <1>8, <1>9

LEMMA LineWritten ==
  ASSUME TextInv, author = "pdb_write", phase = "writing",
         NEW w \in Seq(Lexemes), NEW e \in Entries, NEW d,
         text' = text \o (Indent(d) \o w \o <<Line>>), meant' = meant \o <<e>>,
         UNCHANGED <<author, phase, begun, tok, stack, loaded, part>>,
         open' \in Seq(Blocks), clipped' = FALSE,
         NEW h \in Marks, Goes(h, Here', "fresh"), h.part = "fresh", Reaches(Here, w, h, meant')
  PROVE  TextInv'
<1>1. TextTypes /\ Here \in Marks /\ part = "fresh" /\ <<e>> \in Seq(Entries)
  BY Somewhere DEF TextInv
<1>2. /\ Here' \in Marks /\ Here.part = "fresh" /\ Here'.part = "fresh"
      /\ ~Here.cut /\ ~Here'.cut
  <2>1. Len(meant') \in Nat
    BY <1>1, LastMeant DEF TextTypes
  <2>2. ~clipped
    BY DEF TextInv
  <2>3. part' = "fresh" /\ "fresh" \in Parts
    BY <1>1 DEF Parts
  <2> QED BY <1>1, <2>1, <2>2, <2>3 DEF Here, Mark, Marks
<1>3. /\ Indent(d) \in Seq(Lexemes) /\ Reaches(Here, Indent(d), Here, meant')
      /\ <<Line>> \in Seq(Lexemes) /\ Reaches(h, <<Line>>, Here', meant')
  <2>1. Goes(Here, Here, "fresh")
    BY <1>2 DEF Goes
  <2> QED BY <1>1, <1>2, <2>1, Around
<1>4. PICK u : u = Indent(d) \o w
  OBVIOUS
<1>5. u \in Seq(Lexemes) /\ Reaches(Here, u, h, meant')
  BY <1>3, <1>4, Joined
<1>6. PICK v : v = u \o <<Line>>
  OBVIOUS
<1>7. v \in Seq(Lexemes) /\ Reaches(Here, v, Here', meant')
  <2>1. v \in Seq(Lexemes)
    BY <1>3, <1>5, <1>6
  <2>2. Reaches(Here, u \o <<Line>>, Here', meant')
    BY <1>3, <1>5, Joined
  <2> QED BY <2>1, <2>2, <1>6
<1>8. text' = text \o v
  BY <1>4, <1>6
<1>9. part' \in Parts /\ clipped' \in BOOLEAN
  BY <1>1 DEF Parts
<1> QED BY <1>1, <1>7, <1>8, <1>9, Wrote

LEMMA EntryIs ==
  \A t \in {"string", "int", "tree", "list", "hash", "end"} : \A i, v \in Int : Entry(t, i, v) \in Entries
BY DEF Entry, Entries

\* What an entry is written with.
LEMMA Words == /\ Lex("blank") \in Lexemes /\ Lex("blank").is = "blank"
               /\ Lex("'") \in Lexemes /\ Lex("'").is = "'"
               /\ Lex("number") \in Lexemes /\ Lex("number").is = "number"
               /\ Line \in Lexemes /\ Line.is = "newline"
               /\ Term \in Lexemes /\ Term.is = ";"
<1>1. {"blank", "'", "number", "newline", ";"} \subseteq Word
  BY DEF Word
<1> QED BY <1>1, LexIs DEF Line, Term

LEMMA EntryWrites ==
  ASSUME TextInv, WriteString \/ WriteInt \/ (\E k \in Blocks : WriteBlock(k)) \/ WriteEnd
  PROVE  /\ author = "pdb_write" /\ phase = "writing"
         /\ UNCHANGED <<author, phase, begun, tok, stack, loaded, part>>
         /\ TextTypes /\ Here \in Marks /\ text \in Seq(Lexemes) /\ meant \in Seq(Entries)
         /\ Len(meant) \in Nat /\ open \in Seq(Blocks) /\ part = "fresh"
         /\ Here.n = Len(meant) /\ Here.open = open /\ Here.part = "fresh" /\ ~Here.cut
         /\ Here'.n = Len(meant') /\ Here'.open = open' /\ Here'.part = "fresh" /\ ~Here'.cut
         /\ clipped' = FALSE
<1>1. /\ author = "pdb_write" /\ phase = "writing" /\ clipped' = FALSE
      /\ UNCHANGED <<author, phase, begun, tok, stack, loaded, part>>
  BY DEF WriteString, WriteInt, WriteBlock, WriteEnd, WriteLine, Put, loaderVars
<1>2. part = "fresh" /\ ~clipped /\ TextTypes
  BY <1>1 DEF TextInv
<1> QED BY <1>1, <1>2, Somewhere DEF TextTypes, Here, Mark

\* The marks on the way through an entry.
Stop(p) == Mark(Len(meant), open, p, FALSE)
LEMMA Stops ==
  ASSUME TextTypes, NEW p \in Parts \cup HashParts \cup {"int", "figure"}
  PROVE  /\ Stop(p) \in Marks /\ Stop(p).n = Len(meant) /\ Stop(p).open = open
         /\ Stop(p).part = p /\ ~Stop(p).cut
BY DEF TextTypes, Stop, Mark, Marks

LEMMA NameWritten ==
  ASSUME TextTypes, Here.part = "fresh", NEW m
  PROVE  /\ Quoted(Next1) \in Lexemes
         /\ Writes(Here, Quoted(Next1), Stop("named"), m)
         /\ Writes(Here, Quoted(Next1), Stop("hashed"), m)
         /\ Writes(Stop("named"), Lex("blank"), Stop("named"), m)
<1>1. /\ Stop("named").n = Len(meant) /\ Stop("named").open = open /\ Stop("named").part = "named"
      /\ Stop("hashed").n = Len(meant) /\ Stop("hashed").open = open /\ Stop("hashed").part = "hashed"
      /\ ~Stop("named").cut /\ ~Stop("hashed").cut
  BY Stops DEF Parts, HashParts
<1>2. Here.n = Len(meant) /\ Here.open = open /\ Next1 = Len(meant) + 1 /\ Next1 \in Int
  BY DEF TextTypes, Here, Mark, Next1
<1>3. Quoted(Next1) \in Lexemes /\ Quoted(Next1).is = "quoted" /\ Quoted(Next1).id = Next1
  BY <1>2, QuotedIs
<1>4. /\ Names(Here, Quoted(Next1), Stop("named")) /\ Names(Here, Quoted(Next1), Stop("hashed"))
  BY <1>1, <1>2, <1>3 DEF Names, Goes
<1>5. Passes(Stop("named"), Lex("blank"), Stop("named"))
  BY <1>1, Words DEF Passes, Goes, Parts
<1>6. ~EndsString(Here, Quoted(Next1)) /\ ~EndsString(Stop("named"), Lex("blank"))
  BY <1>3, Words DEF EndsString
<1> QED BY <1>1, <1>3, <1>4, <1>5, <1>6 DEF Writes, Moves

LEMMA WriteStringKeeps == ASSUME TextInv, WriteString PROVE TextInv'
<1>1. /\ author = "pdb_write" /\ phase = "writing"
      /\ UNCHANGED <<author, phase, begun, tok, stack, loaded, part>>
      /\ TextTypes /\ Here \in Marks /\ meant \in Seq(Entries) /\ Len(meant) \in Nat
      /\ open \in Seq(Blocks) /\ part = "fresh" /\ part' = "fresh"
      /\ Here.n = Len(meant) /\ Here.open = open /\ Here.part = "fresh" /\ ~Here.cut
      /\ Here'.n = Len(meant') /\ Here'.open = open' /\ Here'.part = "fresh" /\ clipped' = FALSE
  BY EntryWrites
<1>2. open' = open /\ open' \in Seq(Blocks)
  BY <1>1 DEF WriteString
<1> DEFINE q == Quoted(Next1)
           v == Quoted(-Next1)
           bl == Lex("blank")
<1>3. /\ q \in Lexemes /\ v \in Lexemes /\ v.is = "quoted" /\ v.id = -Next1
      /\ Next1 = Len(meant) + 1 /\ Next1 \in Int
  BY <1>1, QuotedIs DEF Next1
<1>4. /\ Stop("named") \in Marks /\ Stop("named").n = Len(meant)
      /\ Stop("named").open = open /\ Stop("named").part = "named"
      /\ Stop("valued") \in Marks /\ Stop("valued").n = Len(meant)
      /\ Stop("valued").open = open /\ Stop("valued").part = "valued"
      /\ ~Stop("named").cut /\ ~Stop("valued").cut
  BY <1>1, Stops DEF Parts
<1>5. bl \in Lexemes /\ Term \in Lexemes /\ Term.is = ";"
  BY Words
<1>6. /\ Writes(Here, q, Stop("named"), meant')
      /\ Writes(Stop("named"), bl, Stop("named"), meant')
  BY <1>1, NameWritten
\* Behind the semicolon; the end of the line follows.
<1>7. PICK h : /\ Goes(Here', h, "fresh") /\ Goes(h, Here', "fresh") /\ h.part = "fresh"
               /\ h.cut /\ (Here' \in Marks => h \in Marks)
  <2>1. PICK h : h = Mark(Len(meant'), open', "fresh", TRUE)
    OBVIOUS
  <2>2. h.n = Len(meant') /\ h.open = open' /\ h.part = "fresh" /\ h.cut
    BY <2>1 DEF Mark
  <2>3. ASSUME Here' \in Marks PROVE h \in Marks
    <3>1. Len(meant') \in Nat /\ open' \in Seq(Blocks) /\ "fresh" \in Parts
      BY <1>1, <2>3 DEF Marks, Parts
    <3> QED BY <2>1, <3>1 DEF Mark, Marks
  <2> QED BY <1>1, <2>2, <2>3 DEF Goes
<1> HIDE DEF q, v, bl
<1>8. CASE WriteLine(<<q, bl, v, Term>>, Entry("string", Next1, -Next1))
  <2> DEFINE e == Entry("string", Next1, -Next1)
  <2>1. text' = text \o (Indent(Len(open)) \o <<q, bl, v, Term>> \o <<Line>>) /\ meant' = meant \o <<e>>
    BY <1>8 DEF WriteLine, Put
  <2>2. e \in Entries /\ e = Meant(Stop("valued"))
    BY <1>3, <1>4 DEF Entry, Entries, Meant
  <2> HIDE DEF e
  <2>3. Ends(Stop("valued"), h, e, meant') /\ h \in Marks
    <3>1. Ends(Stop("valued"), Here', e, meant')
      BY <1>1, <1>4, <2>1, <2>2, NewEnds
    <3>2. Len(meant') \in Nat
      BY <1>1, <2>1, <2>2, LastMeant
    <3>3. Here' \in Marks
      BY <1>1, <1>2, <3>2 DEF Here, Mark, Marks, Parts
    <3> QED BY <1>7, <3>1, <3>3 DEF Ends, Goes
  <2>4. Writes(Stop("valued"), Term, h, meant')
    BY <1>1, <1>2, <1>4, <1>5, <1>7, <2>2, <2>3 DEF Writes, Moves, Strings, EndsString, Goes, Parts
  <2>5. Writes(Stop("named"), v, Stop("valued"), meant')
    BY <1>3, <1>4 DEF Writes, Moves, Values, EndsString, Goes
  <2>6. /\ <<Term>> \in Seq(Lexemes) /\ <<v, Term>> \in Seq(Lexemes)
        /\ <<bl, v, Term>> \in Seq(Lexemes) /\ <<q, bl, v, Term>> \in Seq(Lexemes)
        /\ <<v, Term>> = <<v>> \o <<Term>> /\ <<bl, v, Term>> = <<bl>> \o <<v, Term>>
        /\ <<q, bl, v, Term>> = <<q>> \o <<bl, v, Term>>
    <3>1. <<Term>> \in Seq(Lexemes)
      BY <1>5, RowOfOne
    <3>2. <<v, Term>> \in Seq(Lexemes) /\ <<v, Term>> = <<v>> \o <<Term>>
      BY <1>3, <1>5, RowOfTwo
    <3>3. <<bl, v, Term>> \in Seq(Lexemes) /\ <<bl, v, Term>> = <<bl>> \o <<v, Term>>
      BY <1>3, <1>5, RowOfThree
    <3>4. <<q, bl, v, Term>> \in Seq(Lexemes) /\ <<q, bl, v, Term>> = <<q>> \o <<bl, v, Term>>
      BY <1>3, <1>5, RowOfFour
    <3> QED BY <3>1, <3>2, <3>3, <3>4
  <2>7. Reaches(Stop("valued"), <<Term>>, h, meant')
    BY <1>4, <2>3, <2>4, One
  <2>8. Reaches(Stop("named"), <<v, Term>>, h, meant')
    BY <1>3, <1>4, <2>5, <2>6, <2>7, Then
  <2>9. Reaches(Stop("named"), <<bl, v, Term>>, h, meant')
    BY <1>4, <1>5, <1>6, <2>6, <2>8, Then
  <2>10. Reaches(Here, <<q, bl, v, Term>>, h, meant')
    BY <1>1, <1>3, <1>4, <1>6, <2>6, <2>9, Then
  <2> QED BY <1>1, <1>2, <1>7, <2>3, <2>1, <2>2, <2>6, <2>10, LineWritten
<1>9. CASE WriteLine(<<q, Term>>, Entry("string", Next1, 0))
  <2> DEFINE e == Entry("string", Next1, 0)
  <2>1. text' = text \o (Indent(Len(open)) \o <<q, Term>> \o <<Line>>) /\ meant' = meant \o <<e>>
    BY <1>9 DEF WriteLine, Put
  <2>2. e \in Entries /\ e = Meant(Stop("named"))
    BY <1>3, <1>4 DEF Entry, Entries, Meant
  <2> HIDE DEF e
  <2>3. Ends(Stop("named"), h, e, meant') /\ h \in Marks
    <3>1. Ends(Stop("named"), Here', e, meant')
      BY <1>1, <1>4, <2>1, <2>2, NewEnds
    <3>2. Len(meant') \in Nat
      BY <1>1, <2>1, <2>2, LastMeant
    <3>3. Here' \in Marks
      BY <1>1, <1>2, <3>2 DEF Here, Mark, Marks, Parts
    <3> QED BY <1>7, <3>1, <3>3 DEF Ends, Goes
  <2>4. Writes(Stop("named"), Term, h, meant')
    BY <1>1, <1>2, <1>4, <1>5, <1>7, <2>2, <2>3 DEF Writes, Moves, Strings, EndsString, Goes, Parts
  <2>5. <<q, Term>> = <<q>> \o <<Term>> /\ <<Term>> \in Seq(Lexemes) /\ <<q, Term>> \in Seq(Lexemes)
    BY <1>3, <1>5, RowOfOne, RowOfTwo
  <2>6. Reaches(Stop("named"), <<Term>>, h, meant')
    BY <1>4, <2>3, <2>4, One
  <2>7. Reaches(Here, <<q>> \o <<Term>>, h, meant')
    BY <1>1, <1>3, <1>4, <1>6, <2>5, <2>6, Then
  <2>8. Reaches(Here, <<q, Term>>, h, meant')
    BY <2>5, <2>7
  <2> QED BY <1>1, <1>2, <1>7, <2>3, <2>1, <2>2, <2>5, <2>8, LineWritten
<1> QED BY <1>8, <1>9 DEF WriteString, q, v, bl

LEMMA WriteIntKeeps == ASSUME TextInv, WriteInt PROVE TextInv'
<1>1. /\ author = "pdb_write" /\ phase = "writing"
      /\ UNCHANGED <<author, phase, begun, tok, stack, loaded, part>>
      /\ TextTypes /\ Here \in Marks /\ meant \in Seq(Entries) /\ Len(meant) \in Nat
      /\ open \in Seq(Blocks) /\ part = "fresh" /\ part' = "fresh"
      /\ Here.n = Len(meant) /\ Here.open = open /\ Here.part = "fresh" /\ ~Here.cut
      /\ Here'.n = Len(meant') /\ Here'.open = open' /\ Here'.part = "fresh" /\ ~Here'.cut
      /\ clipped' = FALSE
  BY EntryWrites
<1> DEFINE q == Quoted(Next1)
           bl == Lex("blank")
           ap == Lex("'")
           n == Lex("number")
           e == Entry("int", Next1, 0)
<1>2. /\ open' = open /\ open' \in Seq(Blocks)
      /\ text' = text \o (Indent(Len(open)) \o <<q, bl, ap, n, ap, Term>> \o <<Line>>)
      /\ meant' = meant \o <<e>>
  BY <1>1 DEF WriteInt, WriteLine, Put
<1>3. /\ q \in Lexemes /\ bl \in Lexemes /\ ap \in Lexemes /\ n \in Lexemes /\ Term \in Lexemes
      /\ ap.is = "'" /\ n.is = "number" /\ Term.is = ";"
      /\ Next1 = Len(meant) + 1 /\ Next1 \in Int
  <2>1. Next1 = Len(meant) + 1 /\ Next1 \in Int
    BY <1>1 DEF Next1
  <2>2. q \in Lexemes
    BY <2>1, QuotedIs
  <2> HIDE DEF q
  <2> QED BY <2>1, <2>2, Words
<1>4. /\ Stop("named") \in Marks /\ Stop("named").n = Len(meant)
      /\ Stop("named").open = open /\ Stop("named").part = "named"
      /\ Stop("int") \in Marks /\ Stop("int").n = Len(meant)
      /\ Stop("int").open = open /\ Stop("int").part = "int"
      /\ Stop("figure") \in Marks /\ Stop("figure").n = Len(meant)
      /\ Stop("figure").open = open /\ Stop("figure").part = "figure"
      /\ ~Stop("int").cut /\ ~Stop("figure").cut
  BY <1>1, Stops DEF Parts
<1>5. /\ Writes(Here, q, Stop("named"), meant')
      /\ Writes(Stop("named"), bl, Stop("named"), meant')
  BY <1>1, NameWritten
<1>6. e \in Entries /\ e = Entry("int", Stop("figure").n + 1, 0)
  <2>1. e \in Entries
    <3>1. Next1 \in Int
      BY <1>3
    <3> HIDE DEF q, bl, ap, n
    <3> QED BY <3>1, EntryIs
  <2>2. Next1 = Stop("figure").n + 1
    BY <1>3, <1>4
  <2> QED BY <2>1, <2>2
<1> HIDE DEF q, bl, ap, n, e
<1>7. Ends(Stop("figure"), Here', e, meant') /\ Here' \in Marks
  BY <1>1, <1>2, <1>4, <1>6, NewEnds, LastMeant DEF Here, Mark, Marks, Parts
<1>8. /\ Writes(Stop("named"), ap, Stop("int"), meant')
      /\ Writes(Stop("int"), n, Stop("figure"), meant')
      /\ Writes(Stop("figure"), ap, Here', meant')
  BY <1>1, <1>2, <1>3, <1>4, <1>6, <1>7 DEF Writes, Moves, Ints, Goes, EndsString, Parts
<1>9. Writes(Here', Term, Here', meant')
  BY <1>1, <1>3 DEF Writes, Moves, Passes, Goes, EndsString
<1>10. <<Term>> \in Seq(Lexemes) /\ Reaches(Here', <<Term>>, Here', meant')
  BY <1>3, <1>7, <1>9, One, RowOfOne
<1>11. <<ap, Term>> \in Seq(Lexemes) /\ Reaches(Stop("figure"), <<ap, Term>>, Here', meant')
  <2>1. <<ap, Term>> \in Seq(Lexemes) /\ <<ap, Term>> = <<ap>> \o <<Term>>
    BY <1>3, RowOfTwo
  <2>2. Reaches(Stop("figure"), <<ap>> \o <<Term>>, Here', meant')
    BY <1>3, <1>4, <1>7, <1>8, <1>10, Then
  <2> QED BY <2>1, <2>2
<1>12. <<n, ap, Term>> \in Seq(Lexemes) /\ Reaches(Stop("int"), <<n, ap, Term>>, Here', meant')
  <2>1. <<n, ap, Term>> \in Seq(Lexemes) /\ <<n, ap, Term>> = <<n>> \o <<ap, Term>>
    BY <1>3, RowOfThree
  <2>2. Reaches(Stop("int"), <<n>> \o <<ap, Term>>, Here', meant')
    BY <1>3, <1>4, <1>8, <1>11, Then
  <2> QED BY <2>1, <2>2
<1>13. <<ap, n, ap, Term>> \in Seq(Lexemes) /\ Reaches(Stop("named"), <<ap, n, ap, Term>>, Here', meant')
  <2>1. <<ap, n, ap, Term>> \in Seq(Lexemes) /\ <<ap, n, ap, Term>> = <<ap>> \o <<n, ap, Term>>
    <3>1. PICK y : y = Term
      OBVIOUS
    <3>2. ap \in Lexemes /\ n \in Lexemes /\ y \in Lexemes
      BY <1>3, <3>1
    <3>3. <<ap, n, ap, y>> \in Seq(Lexemes)
      BY <3>2, RowOfFour
    <3>4. <<ap, n, ap, y>> = <<ap>> \o <<n, ap, y>>
      BY <3>2, RowOfFour
    <3> QED BY <3>1, <3>3, <3>4
  <2>2. Reaches(Stop("named"), <<ap>> \o <<n, ap, Term>>, Here', meant')
    BY <1>3, <1>4, <1>8, <1>12, Then
  <2> QED BY <2>1, <2>2
<1>14. <<q, bl>> \in Seq(Lexemes) /\ Reaches(Here, <<q, bl>>, Stop("named"), meant')
  <2>1. /\ <<q, bl>> \in Seq(Lexemes) /\ <<q, bl>> = <<q>> \o <<bl>> /\ <<bl>> \in Seq(Lexemes)
    BY <1>3, RowOfOne, RowOfTwo
  <2>2. Reaches(Stop("named"), <<bl>>, Stop("named"), meant')
    BY <1>4, <1>5, One
  <2>3. Reaches(Here, <<q>> \o <<bl>>, Stop("named"), meant')
    BY <1>1, <1>3, <1>4, <1>5, <2>1, <2>2, Then
  <2> QED BY <2>1, <2>3
<1>15. /\ <<q, bl, ap, n, ap, Term>> \in Seq(Lexemes)
       /\ Reaches(Here, <<q, bl, ap, n, ap, Term>>, Here', meant')
  <2>1. /\ <<q, bl, ap, n, ap, Term>> = <<q, bl>> \o <<ap, n, ap, Term>>
        /\ <<q, bl, ap, n, ap, Term>> \in Seq(Lexemes)
    BY <1>3, RowOfSix
  <2>2. Reaches(Here, <<q, bl>> \o <<ap, n, ap, Term>>, Here', meant')
    BY <1>13, <1>14, Joined
  <2> QED BY <2>1, <2>2
<1>16. Goes(Here', Here', "fresh")
  BY <1>1 DEF Goes
<1> HIDE DEF Line
<1> QED BY <1>1, <1>2, <1>6, <1>7, <1>15, <1>16, LineWritten

LEMMA WriteBlockKeeps == ASSUME TextInv, NEW k \in Blocks, WriteBlock(k) PROVE TextInv'
<1>1. /\ author = "pdb_write" /\ phase = "writing"
      /\ UNCHANGED <<author, phase, begun, tok, stack, loaded, part>>
      /\ TextTypes /\ Here \in Marks /\ meant \in Seq(Entries) /\ Len(meant) \in Nat
      /\ open \in Seq(Blocks) /\ part = "fresh" /\ part' = "fresh"
      /\ Here.n = Len(meant) /\ Here.open = open /\ Here.part = "fresh" /\ ~Here.cut
      /\ Here'.n = Len(meant') /\ Here'.open = open' /\ Here'.part = "fresh" /\ ~Here'.cut
      /\ clipped' = FALSE
  BY EntryWrites
<1> DEFINE q == Quoted(Next1)
           bl == Lex("blank")
           br == Lex(OpenToken[k])
           n == Lex("number")
           e == Entry(k, Next1, 0)
           w == <<q, bl, br>> \o HashSize(k)
<1>2. /\ open' = Append(open, k) /\ text' = text \o (Indent(Len(open)) \o w \o <<Line>>)
      /\ meant' = meant \o <<e>>
  BY <1>1 DEF WriteBlock, WriteLine, Put
<1>3. open' \in Seq(Blocks)
  BY <1>1, <1>2
<1>4. /\ q \in Lexemes /\ bl \in Lexemes /\ br \in Lexemes /\ n \in Lexemes
      /\ br.is = OpenToken[k] /\ bl.is = "blank" /\ n.is = "number"
      /\ Line \in Lexemes /\ Line.is = "newline" /\ Term \in Lexemes /\ Term.is = ";"
      /\ Next1 = Len(meant) + 1 /\ Next1 \in Int
  <2>1. OpenToken[k] \in Word
    BY Tokens DEF Word
  <2>2. Next1 = Len(meant) + 1 /\ Next1 \in Int
    BY <1>1 DEF Next1
  <2>3. q \in Lexemes
    BY <2>2, QuotedIs
  <2>4. br \in Lexemes /\ br.is = OpenToken[k]
    BY <2>1, LexIs
  <2> HIDE DEF q, br
  <2> QED BY <2>2, <2>3, <2>4, Words
<1>5. /\ Stop("named") \in Marks /\ Stop("named").n = Len(meant)
      /\ Stop("named").open = open /\ Stop("named").part = "named"
  BY <1>1, Stops DEF Parts
<1>6. /\ Writes(Here, q, Stop("named"), meant') /\ Writes(Here, q, Stop("hashed"), meant')
      /\ Writes(Stop("named"), bl, Stop("named"), meant')
  BY <1>1, NameWritten
<1>7. e \in Entries /\ e = Entry(k, Here.n + 1, 0)
  <2>1. k \in {"tree", "list", "hash"}
    BY Tokens
  <2>2. e \in Entries
    <3>1. Next1 \in Int
      BY <1>4
    <3> HIDE DEF q, bl, br, n, w
    <3> QED BY <2>1, <3>1, EntryIs
  <2>3. Next1 = Here.n + 1
    BY <1>1, <1>4
  <2> QED BY <2>2, <2>3
<1>8. Ends(Here, Here', e, meant') /\ Here' \in Marks
  <2>1. Ends(Here, Here', e, meant')
    BY <1>1, <1>2, <1>7, NewEnds
  <2>2. Len(meant') \in Nat
    BY <1>1, <1>2, <1>7, LastMeant
  <2>3. Here' \in Marks
    BY <1>1, <1>3, <2>2 DEF Here, Mark, Marks, Parts
  <2> QED BY <2>1, <2>3
<1> HIDE DEF q, bl, br, n, e
<1>9. <<q, bl, br>> \in Seq(Lexemes) /\ <<q, bl, br>> = <<q>> \o <<bl, br>>
  BY <1>4, RowOfThree
<1>10. /\ <<bl, br>> \in Seq(Lexemes) /\ <<bl, br>> = <<bl>> \o <<br>> /\ <<br>> \in Seq(Lexemes)
  BY <1>4, RowOfOne, RowOfTwo
<1>11. w \in Seq(Lexemes) /\ Reaches(Here, w, Here', meant')
  <2>1. CASE k # "hash"
    <3>1. Begins(Stop("named"), br, Here', meant', k)
      BY <1>1, <1>2, <1>4, <1>5, <1>7, <1>8 DEF Begins, Ends
    <3>2. Writes(Stop("named"), br, Here', meant')
      <4>1. br.is \notin {";", "newline"}
        BY <1>4, Tokens
      <4> QED BY <1>1, <2>1, <3>1, <4>1, Tokens DEF Writes, Moves, EndsString
    <3>3. Reaches(Stop("named"), <<br>>, Here', meant')
      BY <1>5, <1>8, <3>2, One
    <3>4. Reaches(Stop("named"), <<bl>> \o <<br>>, Here', meant')
      BY <1>4, <1>5, <1>6, <1>10, <3>3, Then
    <3>5. Reaches(Here, <<q>> \o <<bl, br>>, Here', meant')
      BY <1>1, <1>4, <1>5, <1>6, <1>10, <3>4, Then
    <3>6. w = <<q, bl, br>>
      BY <2>1, <1>9 DEF HashSize
    <3> QED BY <1>9, <3>5, <3>6
  <2>2. CASE k = "hash"
    <3>1. \A p \in HashParts : /\ Stop(p) \in Marks /\ Stop(p).n = Len(meant)
                               /\ Stop(p).open = open /\ Stop(p).part = p /\ ~Stop(p).cut
      BY <1>1, Stops
    <3>2. /\ Writes(Stop("hashed"), bl, Stop("spaced"), meant')
          /\ Writes(Stop("spaced"), br, Stop("opened"), meant')
          /\ Writes(Stop("opened"), Line, Stop("broken"), meant')
          /\ Writes(Stop("broken"), bl, Stop("indented"), meant')
          /\ Writes(Stop("indented"), n, Stop("sized"), meant')
      BY <1>4, <2>2, <3>1, Tokens DEF HashParts, Parts, Writes, Moves, Hashes, Goes, EndsString
    <3>3. Writes(Stop("sized"), Term, Here', meant')
      BY <1>1, <1>2, <1>4, <1>7, <1>8, <2>2, <3>1 DEF HashParts, Parts, Writes, Moves, Hashes, Ends, EndsString
    <3>4. /\ Stop("hashed") \in Marks /\ Stop("spaced") \in Marks /\ Stop("opened") \in Marks
          /\ Stop("broken") \in Marks /\ Stop("indented") \in Marks /\ Stop("sized") \in Marks
      BY <3>1 DEF HashParts
    <3>5. Reaches(Stop("spaced"), <<br>>, Stop("opened"), meant')
      BY <3>2, <3>4, One
    <3>6. Reaches(Stop("hashed"), <<bl>> \o <<br>>, Stop("opened"), meant')
      BY <1>4, <1>10, <3>2, <3>4, <3>5, Then
    <3>7. Reaches(Here, <<q>> \o <<bl, br>>, Stop("opened"), meant')
      BY <1>1, <1>4, <1>6, <1>10, <3>4, <3>6, Then
    <3>8. /\ Reaches(Stop("opened"), <<Line>>, Stop("broken"), meant')
          /\ Reaches(Stop("broken"), <<bl>>, Stop("indented"), meant')
          /\ Reaches(Stop("sized"), <<Term>>, Here', meant')
      BY <1>8, <3>2, <3>3, <3>4, One
    <3>9. /\ <<Line>> \in Seq(Lexemes) /\ <<bl>> \in Seq(Lexemes) /\ <<Term>> \in Seq(Lexemes)
          /\ <<n, Term>> \in Seq(Lexemes) /\ <<n, Term>> = <<n>> \o <<Term>>
      BY <1>4, RowOfOne, RowOfTwo
    <3>10. Reaches(Stop("indented"), <<n>> \o <<Term>>, Here', meant')
      BY <1>4, <3>2, <3>4, <3>8, <3>9, Then
    <3>11. PICK u : u = <<Line>> \o <<bl>>
      OBVIOUS
    <3>12. u \in Seq(Lexemes) /\ Reaches(Stop("opened"), u, Stop("indented"), meant')
      <4>1. u \in Seq(Lexemes)
        BY <3>9, <3>11
      <4>2. Reaches(Stop("opened"), <<Line>> \o <<bl>>, Stop("indented"), meant')
        BY <3>8, <3>9, Joined
      <4> QED BY <4>1, <4>2, <3>11
    <3>13. PICK v : v = u \o <<n, Term>>
      OBVIOUS
    <3>14. v \in Seq(Lexemes) /\ Reaches(Stop("opened"), v, Here', meant')
      <4>1. v \in Seq(Lexemes)
        BY <3>9, <3>12, <3>13
      <4>2. Reaches(Stop("opened"), u \o <<n, Term>>, Here', meant')
        BY <3>9, <3>10, <3>12, Joined
      <4> QED BY <4>1, <4>2, <3>13
    <3>15. HashSize(k) = v
      <4>1. Len(open) + 1 # 0
        BY <1>1
      <4>2. Indent(Len(open) + 1) = <<bl>>
        BY <4>1 DEF Indent, bl
      <4> QED BY <2>2, <4>2, <3>11, <3>13 DEF HashSize, n
    <3>16. Reaches(Here, <<q, bl, br>> \o v, Here', meant')
      <4>1. Reaches(Here, <<q, bl, br>>, Stop("opened"), meant')
        BY <1>9, <3>7
      <4> QED BY <4>1, <1>9, <3>14, Joined
    <3>17. <<q, bl, br>> \o v \in Seq(Lexemes)
      BY <1>9, <3>14
    <3> QED BY <3>15, <3>16, <3>17
  <2> QED BY <2>1, <2>2
<1>12. Goes(Here', Here', "fresh")
  BY <1>1 DEF Goes
<1> HIDE DEF w
<1> QED BY <1>1, <1>2, <1>3, <1>7, <1>8, <1>11, <1>12, LineWritten

LEMMA WriteEndKeeps == ASSUME TextInv, WriteEnd PROVE TextInv'
<1>1. /\ author = "pdb_write" /\ phase = "writing"
      /\ UNCHANGED <<author, phase, begun, tok, stack, loaded, part>>
      /\ TextTypes /\ Here \in Marks /\ meant \in Seq(Entries) /\ Len(meant) \in Nat
      /\ open \in Seq(Blocks) /\ part = "fresh" /\ part' = "fresh"
      /\ Here.n = Len(meant) /\ Here.open = open /\ Here.part = "fresh" /\ ~Here.cut
      /\ Here'.n = Len(meant') /\ Here'.open = open' /\ Here'.part = "fresh" /\ ~Here'.cut
      /\ clipped' = FALSE
  BY EntryWrites
<1> DEFINE x == Lex(CloseToken[Last(open)])
           d == Len(open) - 1
<1>2. /\ open # << >> /\ open' = Front(open)
      /\ text' = text \o (Indent(d) \o <<x, Line>>) /\ meant' = meant \o <<Ended>>
  BY DEF WriteEnd, Put
<1>3. Last(open) \in Blocks /\ open' \in Seq(Blocks)
  BY <1>1, <1>2 DEF Last, Front
<1>4. /\ x \in Lexemes /\ x.is = CloseToken[Last(open)] /\ Line \in Lexemes
  <2>1. CloseToken[Last(open)] \in Word
    BY <1>3, Tokens DEF Word
  <2> QED BY <2>1, LexIs, Words
<1>5. Ended \in Entries
  BY DEF Ended, Entry, Entries
<1> HIDE DEF x, d
<1>6. Ends(Here, Here', Ended, meant') /\ Here' \in Marks
  <2>1. Ends(Here, Here', Ended, meant')
    BY <1>1, <1>2, <1>5, NewEnds
  <2>2. Len(meant') \in Nat
    BY <1>1, <1>2, <1>5, LastMeant
  <2>3. Here' \in Marks
    BY <1>1, <1>3, <2>2 DEF Here, Mark, Marks, Parts
  <2> QED BY <2>1, <2>3
<1>7. Writes(Here, x, Here', meant')
  BY <1>1, <1>2, <1>4, <1>6 DEF Writes, Moves, Closes, EndsString
<1>8. /\ Indent(d) \in Seq(Lexemes) /\ Reaches(Here, Indent(d), Here, meant')
      /\ <<Line>> \in Seq(Lexemes) /\ Reaches(Here', <<Line>>, Here', meant')
  <2>1. Goes(Here, Here, "fresh") /\ Goes(Here', Here', "fresh")
    BY <1>1 DEF Goes
  <2> QED BY <1>1, <1>6, <2>1, Around
<1>9. <<x, Line>> \in Seq(Lexemes) /\ <<x, Line>> = <<x>> \o <<Line>>
  BY <1>4, RowOfTwo
<1>10. Reaches(Here, <<x, Line>>, Here', meant')
  <2>1. Reaches(Here, <<x>> \o <<Line>>, Here', meant')
    BY <1>1, <1>4, <1>6, <1>7, <1>8, Then
  <2> QED BY <2>1, <1>9
<1>11. PICK v : v = Indent(d) \o <<x, Line>>
  OBVIOUS
<1>12. v \in Seq(Lexemes) /\ Reaches(Here, v, Here', meant')
  <2>1. v \in Seq(Lexemes)
    BY <1>8, <1>9, <1>11
  <2>2. Reaches(Here, Indent(d) \o <<x, Line>>, Here', meant')
    BY <1>8, <1>9, <1>10, Joined
  <2> QED BY <2>1, <2>2, <1>11
<1>13. <<Ended>> \in Seq(Entries)
  BY <1>5
<1> QED BY <1>1, <1>2, <1>3, <1>11, <1>12, <1>13, Wrote DEF Parts

LEMMA LoadKeeps == ASSUME TextInv, Load PROVE TextInv'
<1>1. /\ phase' = "loading" /\ part = "fresh" /\ open = << >>
      /\ UNCHANGED <<text, author, meant, open, part, clipped, begun, tok, stack, loaded>>
  BY DEF Load, writerVars, loaderVars
<1>2. TextTypes'
  BY <1>1 DEF TextInv, TextTypes
<1>3. Here' = Here
  BY <1>1 DEF Here
<1>4. \A a : OnTheWay(a) <=> OnTheWay(a)'
  BY <1>1, <1>3 DEF OnTheWay, Agrees
<1>5. ~Lost
  BY DEF Lost, Load
<1> QED BY <1>1, <1>2, <1>4, <1>5 DEF TextInv

-----------------------------------------------------------------------------
(* What the loader reads.                                                  *)

\* What is allowed where.
LEMMA Allowed ==
  ASSUME NEW a \in Marks, NEW b, NEW x, NEW m, Writes(a, x, b, m)
  PROVE  /\ a.part = "fresh" => \/ Passes(a, x, b)
                                \/ Names(a, x, b)
                                \/ Closes(a, x, b, m) /\ x.is \in {"}", ")", "]"}
         /\ a.part = "named" => \/ Passes(a, x, b) /\ x.is \in {"blank", "/*"}
                                \/ Values(a, x, b)
                                \/ Strings(a, x, b, m)
                                \/ x.is = "'" /\ Goes(a, b, "int")
                                \/ Begins(a, x, b, m, "tree") /\ x.is = "{"
                                \/ Begins(a, x, b, m, "list") /\ x.is = "("
         /\ a.part \in {"valued", "empty"} => \/ Passes(a, x, b) /\ x.is \in {"blank", "/*"}
                                              \/ Strings(a, x, b, m)
         /\ a.part = "hashed" => x.is = "blank" /\ Goes(a, b, "spaced")
<1> USE DEF Writes, Moves
<1>1. CASE a.part = "fresh"
  <2>1. CASE Closes(a, x, b, m)
    <3>1. Last(a.open) \in Blocks
      BY <2>1 DEF Closes, Marks, Last
    <3> QED BY <1>1, <2>1, <3>1, Tokens DEF Closes
  <2> QED BY <1>1, <2>1 DEF Passes, Names, Values, Strings, EndsString, Ints, Hashes, Begins, Parts
<1>2. CASE a.part # "fresh"
  BY <1>2, Tokens DEF Passes, Names, Values, Strings, EndsString, Ints, Hashes, Begins, Closes, Parts
<1> QED BY <1>1, <1>2

LEMMA AllowedInside ==
  ASSUME NEW a, NEW b, NEW x, NEW m, Writes(a, x, b, m)
  PROVE  /\ a.part = "int" => x.is = "number" /\ Goes(a, b, "figure")
         /\ a.part = "figure" => x.is = "'" /\ Ends(a, b, Entry("int", a.n + 1, 0), m) /\ b.open = a.open
         /\ a.part = "spaced" => x.is = "[" /\ Goes(a, b, "opened")
         /\ a.part = "opened" => x.is = "newline" /\ Goes(a, b, "broken")
         /\ a.part = "broken" => x.is = "blank" /\ Goes(a, b, "indented")
         /\ a.part = "indented" => x.is = "number" /\ Goes(a, b, "sized")
         /\ a.part = "sized" => /\ x.is = ";" /\ Ends(a, b, Entry("hash", a.n + 1, 0), m)
                                /\ b.open = Append(a.open, "hash")
         /\ a.part \notin Parts => ~b.cut
BY DEF Writes, Moves, Passes, Names, Values, Strings, EndsString, Ints, Hashes, Begins, Closes, Parts

\* The file does not end in the middle of an entry.
LEMMA GoesOn ==
  ASSUME NEW a \in Marks, NEW t \in Seq(Lexemes), NEW b, NEW m,
         Reaches(a, t, b, m), b.part = "fresh", a.part # "fresh"
  PROVE  /\ t # << >> /\ Head(t) \in Lexemes /\ Tail(t) \in Seq(Lexemes)
         /\ \E c \in Marks : Writes(a, Head(t), c, m) /\ Reaches(c, Tail(t), b, m)
<1>1. t # << >>
  BY Still
<1>2. Head(t) \in Lexemes /\ Tail(t) \in Seq(Lexemes)
  BY <1>1
<1> QED BY <1>1, <1>2, Parted

LEMMA Facing ==
  ASSUME TextInv, Reading
  PROVE  /\ Byte \in Lexemes /\ Tail(text) \in Seq(Lexemes) /\ Here.part = "fresh"
         /\ \E a, c \in Marks : /\ Agrees(a) /\ Writes(a, Byte, c, meant)
                                /\ Reaches(c, Tail(text), Here, meant)
<1>1. text \in Seq(Lexemes) /\ text # << >> /\ Here.part = "fresh"
  BY DEF TextInv, TextTypes, Reading, Here, Mark
<1>2. PICK a : Agrees(a) /\ Reaches(a, text, Here, meant)
  BY <1>1 DEF TextInv, Lost, OnTheWay
<1>3. \E c \in Marks : Writes(a, Head(text), c, meant) /\ Reaches(c, Tail(text), Here, meant)
  BY <1>1, <1>2, Parted
<1>4. a \in Marks
  BY <1>2 DEF Agrees
<1>5. Byte \in Lexemes /\ Tail(text) \in Seq(Lexemes)
  BY <1>1 DEF Byte
<1> QED BY <1>1, <1>2, <1>3, <1>4, <1>5 DEF Byte

\* The loader comes as far as b.
LEMMA Advance ==
  ASSUME TextInv, Reading, UNCHANGED <<phase, author, meant, open, part, clipped>>,
         NEW b \in Marks, b.part \in Parts \cup {"hashed"},
         text' \in Seq(Lexemes), Reaches(b, text', Here, meant), text' = << >> => ~b.cut,
         loaded' \in Seq(Entries), Len(loaded') = b.n, Len(loaded') <= Len(meant),
         \A i \in 1 .. Len(loaded') : loaded'[i] = meant[i],
         stack' \in Seq(Blocks), Len(stack') = Len(b.open) + 1,
         tok' = Token(b), begun' \in BOOLEAN, begun' => tok' # << >>, b.part = "hashed" => begun'
  PROVE  TextInv'
<1>1. TextTypes'
  BY DEF TextInv, TextTypes
<1>2. Here' = Here /\ phase' = "loading"
  BY DEF Here, Reading
<1>3. Agrees(b)'
  BY DEF Agrees
<1>4. Reaches(b, text', Here', meant')
  BY <1>2
<1>5. OnTheWay(b)'
  BY <1>3, <1>4 DEF OnTheWay
<1> QED BY <1>1, <1>2, <1>5 DEF TextInv

\* ... and loads one entry on the way, or none.
LEMMA LoadsOne ==
  ASSUME TextInv, NEW a, NEW b \in Marks, NEW e \in Entries, Agrees(a), Ends(a, b, e, meant),
         loaded' = Append(loaded, e)
  PROVE  /\ loaded' \in Seq(Entries) /\ Len(loaded') = b.n /\ Len(loaded') <= Len(meant)
         /\ \A i \in 1 .. Len(loaded') : loaded'[i] = meant[i]
<1>1. /\ loaded \in Seq(Entries) /\ Len(loaded) = a.n /\ Len(loaded) \in Nat
      /\ \A i \in 1 .. Len(loaded) : loaded[i] = meant[i]
      /\ b.n = a.n + 1 /\ b.n <= Len(meant) /\ meant[b.n] = e
  BY DEF TextInv, TextTypes, Agrees, Ends
<1>2. /\ loaded' \in Seq(Entries) /\ Len(loaded') = Len(loaded) + 1
      /\ loaded'[Len(loaded) + 1] = e /\ \A i \in 1 .. Len(loaded) : loaded'[i] = loaded[i]
  BY <1>1
<1>3. ASSUME NEW i \in 1 .. Len(loaded') PROVE loaded'[i] = meant[i]
  <2>1. CASE i = Len(loaded) + 1
    BY <2>1, <1>1, <1>2
  <2>2. CASE i # Len(loaded) + 1
    <3>1. i \in 1 .. Len(loaded)
      BY <2>2, <1>1, <1>2
    <3> QED BY <3>1, <1>1, <1>2
  <2> QED BY <2>1, <2>2
<1> QED BY <1>1, <1>2, <1>3

LEMMA LoadsNone ==
  ASSUME TextInv, NEW a, Agrees(a), loaded' = loaded
  PROVE  /\ loaded' \in Seq(Entries) /\ Len(loaded') = a.n /\ Len(loaded') <= Len(meant)
         /\ \A i \in 1 .. Len(loaded') : loaded'[i] = meant[i]
BY DEF TextInv, TextTypes, Agrees

\* What is in the token.
LEMMA TokenIs ==
  ASSUME NEW a \in Marks, Agrees(a)
  PROVE  /\ tok = << >> <=> a.part = "fresh"
         /\ a.part \in {"named", "hashed"} => tok = <<a.n + 1>>
         /\ a.part = "valued" => tok = <<a.n + 1, -(a.n + 1)>>
         /\ a.part = "empty" => tok = <<a.n + 1, 0>>
         /\ a.part \in {"fresh", "named", "valued", "empty", "hashed"}
<1>1. a.part \in {"fresh", "named", "valued", "empty", "hashed"} /\ tok = Token(a) /\ a.n \in Nat
  BY DEF Agrees, Parts, Marks
<1>2. <<a.n + 1>> # << >> /\ <<a.n + 1, -(a.n + 1)>> # << >> /\ <<a.n + 1, 0>> # << >>
  OBVIOUS
<1> QED BY <1>1, <1>2 DEF Token

\* A loader that looks at a lexeme, and what it takes it for: a blank after
\* something stands for what follows it, which the author may write there.
LEMMA Sight ==
  ASSUME TextInv, Looking
  PROVE  /\ Byte \in Lexemes /\ Tail(text) \in Seq(Lexemes) /\ Here.part = "fresh"
         /\ Byte.is # "#" /\ Byte.is # "/*"
         /\ \E a, c \in Marks :
              /\ Agrees(a) /\ Writes(a, Byte, c, meant) /\ Reaches(c, Tail(text), Here, meant)
              /\ Byte.is # "blank" => First = Byte.is
              /\ Byte.is = "blank" =>
                   /\ tok # << >> /\ begun /\ a.part # "fresh"
                   /\ Tail(text) # << >> /\ First = Head(Tail(text)).is
                   /\ \E d \in Marks : /\ Writes(c, Head(Tail(text)), d, meant)
                                       /\ Reaches(d, Tail(Tail(text)), Here, meant)
                   /\ a.part # "hashed" => Goes(a, c, a.part)
<1>1. Reading /\ Byte.is # "#" /\ Byte.is # "/*" /\ (Byte.is = "blank" => begun)
  BY DEF Looking, Padding, Comment
<1>2. /\ Byte \in Lexemes /\ Tail(text) \in Seq(Lexemes) /\ Here.part = "fresh"
  BY <1>1, Facing
<1>3. PICK a, c \in Marks : /\ Agrees(a) /\ Writes(a, Byte, c, meant)
                            /\ Reaches(c, Tail(text), Here, meant)
  BY <1>1, Facing
<1>4. ASSUME Byte.is = "blank"
      PROVE  /\ tok # << >> /\ begun /\ a.part # "fresh"
             /\ Tail(text) # << >> /\ First = Head(Tail(text)).is
             /\ \E d \in Marks : /\ Writes(c, Head(Tail(text)), d, meant)
                                 /\ Reaches(d, Tail(Tail(text)), Here, meant)
             /\ a.part # "hashed" => Goes(a, c, a.part)
  <2>1. begun /\ tok # << >> /\ a.part \in {"named", "valued", "empty", "hashed"}
    BY <1>1, <1>3, <1>4, TokenIs DEF TextInv, TextTypes
  <2>2. IF a.part = "hashed" THEN c.part = "spaced" ELSE Goes(a, c, a.part)
    <3>1. ~ Values(a, Byte, c) /\ ~ Strings(a, Byte, c, meant)
      BY <1>4 DEF Values, Strings, EndsString
    <3> QED BY <1>3, <1>4, <2>1, <3>1, Allowed DEF Passes, Goes
  <2>3. c.part # "fresh"
    BY <2>1, <2>2 DEF Goes
  <2>4. /\ Tail(text) # << >>
        /\ \E d \in Marks : /\ Writes(c, Head(Tail(text)), d, meant)
                            /\ Reaches(d, Tail(Tail(text)), Here, meant)
    BY <1>2, <1>3, <2>3, GoesOn
  <2>5. First = Head(Tail(text)).is
    <3>1. text \in Seq(Lexemes) /\ text # << >>
      BY <1>1 DEF TextInv, TextTypes, Reading
    <3>2. Len(text) > 1 /\ text[2] = Head(Tail(text))
      BY <2>4, <3>1
    <3> QED BY <1>4, <3>2 DEF First, Peek
  <2> QED BY <2>1, <2>2, <2>4, <2>5
<1>5. Byte.is # "blank" => First = Byte.is
  BY DEF First
<1> QED BY <1>1, <1>2, <1>3, <1>4, <1>5

LEMMA SkipKeeps == ASSUME TextInv, Skip PROVE TextInv'
<1>1. /\ Reading /\ Byte.is = "blank" /\ ~begun /\ text' = Tail(text)
      /\ UNCHANGED <<phase, author, meant, open, part, clipped, begun, tok, stack, loaded>>
  BY DEF Skip, Padding, writerVars, loaderVars
<1>2. PICK a, c \in Marks : /\ Agrees(a) /\ Writes(a, Byte, c, meant)
                            /\ Reaches(c, Tail(text), Here, meant)
  BY <1>1, Facing
<1>3. a.part \in {"fresh", "named", "valued", "empty"}
  BY <1>1, <1>2, TokenIs DEF Agrees
<1>4. c.n = a.n /\ c.open = a.open /\ c.part = a.part /\ ~c.cut
  <2>1. /\ ~ Values(a, Byte, c) /\ ~ EndsString(a, Byte) /\ ~ Names(a, Byte, c)
    BY <1>1 DEF Values, EndsString, Names
  <2>2. Passes(a, Byte, c) /\ ~c.cut
    BY <1>1, <1>2, <1>3, <2>1, Allowed DEF Strings, Writes
  <2> QED BY <2>2 DEF Passes, Goes
<1>5. /\ text' \in Seq(Lexemes) /\ Reaches(c, text', Here, meant)
  BY <1>1, <1>2, Facing
<1>6. /\ loaded' \in Seq(Entries) /\ Len(loaded') = c.n /\ Len(loaded') <= Len(meant)
      /\ \A i \in 1 .. Len(loaded') : loaded'[i] = meant[i]
  BY <1>1, <1>2, <1>4, LoadsNone
<1>7. /\ stack' \in Seq(Blocks) /\ Len(stack') = Len(c.open) + 1
      /\ tok' = Token(c) /\ begun' \in BOOLEAN /\ ~begun'
  BY <1>1, <1>2, <1>4 DEF Agrees, TextInv, TextTypes, Token
<1> QED BY <1>1, <1>2, <1>3, <1>4, <1>5, <1>6, <1>7, Advance DEF Parts

LEMMA SkipCommentKeeps == ASSUME TextInv, SkipComment PROVE TextInv'
<1>1. /\ Reading /\ Byte.is \in {"#", "/*"} /\ text' = Tail(text) /\ begun' = FALSE
      /\ UNCHANGED <<phase, author, meant, open, part, clipped, tok, stack, loaded>>
  BY DEF SkipComment, Comment, writerVars
<1>2. PICK a, c \in Marks : /\ Agrees(a) /\ Writes(a, Byte, c, meant)
                            /\ Reaches(c, Tail(text), Here, meant)
  BY <1>1, Facing
<1>3. /\ a.part \in {"fresh", "named", "valued", "empty"}
      /\ c.n = a.n /\ c.open = a.open /\ c.part = a.part /\ ~c.cut
  <2>1. /\ ~ Values(a, Byte, c) /\ ~ EndsString(a, Byte) /\ ~ Names(a, Byte, c)
    BY <1>1 DEF Values, EndsString, Names
  <2>2. a.part \in {"fresh", "named", "valued", "empty"} /\ Passes(a, Byte, c) /\ ~c.cut
    BY <1>1, <1>2, <2>1, TokenIs, Allowed DEF Strings, Writes
  <2> QED BY <2>2 DEF Passes, Goes
<1>4. /\ text' \in Seq(Lexemes) /\ Reaches(c, text', Here, meant)
  BY <1>1, <1>2, Facing
<1>5. /\ loaded' \in Seq(Entries) /\ Len(loaded') = c.n /\ Len(loaded') <= Len(meant)
      /\ \A i \in 1 .. Len(loaded') : loaded'[i] = meant[i]
  BY <1>1, <1>2, <1>3, LoadsNone
<1>6. /\ stack' \in Seq(Blocks) /\ Len(stack') = Len(c.open) + 1
      /\ tok' = Token(c) /\ begun' \in BOOLEAN /\ ~begun'
  BY <1>1, <1>2, <1>3 DEF Agrees, TextInv, TextTypes, Token
<1> QED BY <1>1, <1>2, <1>3, <1>4, <1>5, <1>6, Advance DEF Parts

\* Between two entries an end of line or an opening token says nothing.
LEMMA FreshEnd ==
  ASSUME NEW a \in Marks, NEW c, NEW x, NEW m, Writes(a, x, c, m), a.part = "fresh",
         x.is \in {";", "newline", "{", "(", "[", "'"}
  PROVE  c.n = a.n /\ c.open = a.open /\ c.part = "fresh" /\ ~c.cut
<1>1. ~ Names(a, x, c) /\ x.is \notin {"}", ")", "]"} /\ ~ EndsString(a, x)
  BY DEF Names, EndsString
<1>2. Passes(a, x, c) /\ ~c.cut
  BY <1>1, Allowed DEF Writes
<1> QED BY <1>2 DEF Passes, Goes

LEMMA NothingKeeps == ASSUME TextInv, Nothing PROVE TextInv'
<1>1. /\ Looking /\ Reading /\ tok = << >> /\ text' = Tail(text) /\ tok' = << >> /\ begun' = FALSE
      /\ UNCHANGED <<phase, author, meant, open, part, clipped, stack, loaded>>
      /\ Byte.is \in {";", "newline"} \/ First \in {"{", "(", "[", "'"}
  BY Tokens DEF Nothing, Looking, Read, Terminates, Opening, writerVars
<1>2. PICK a, c \in Marks :
        /\ Agrees(a) /\ Writes(a, Byte, c, meant) /\ Reaches(c, Tail(text), Here, meant)
        /\ Byte.is # "blank" => First = Byte.is
        /\ Byte.is = "blank" => tok # << >>
  BY <1>1, Sight
<1>3. a.part = "fresh" /\ Byte.is \in {";", "newline", "{", "(", "[", "'"}
  BY <1>1, <1>2, TokenIs
<1>4. c.n = a.n /\ c.open = a.open /\ c.part = "fresh" /\ ~c.cut
  BY <1>2, <1>3, FreshEnd
<1>5. /\ text' \in Seq(Lexemes) /\ Reaches(c, text', Here, meant)
  BY <1>1, <1>2, Sight
<1>6. /\ loaded' \in Seq(Entries) /\ Len(loaded') = c.n /\ Len(loaded') <= Len(meant)
      /\ \A i \in 1 .. Len(loaded') : loaded'[i] = meant[i]
  BY <1>1, <1>2, <1>4, LoadsNone
<1>7. /\ stack' \in Seq(Blocks) /\ Len(stack') = Len(c.open) + 1
      /\ tok' = Token(c) /\ begun' \in BOOLEAN /\ ~begun'
  BY <1>1, <1>2, <1>3, <1>4 DEF Agrees, TextInv, TextTypes, Token
<1> QED BY <1>1, <1>2, <1>4, <1>5, <1>6, <1>7, Advance DEF Parts

\* The last byte ends a string, which is lost, or nothing.
LEMMA LoseTokenKeeps == ASSUME TextInv, LoseToken PROVE TextInv'
<1>1. /\ Looking /\ Reading /\ text' = << >> /\ tok' = << >> /\ begun' = FALSE
      /\ Tail(text) = << >> /\ Byte.is \in {";", "newline"}
      /\ UNCHANGED <<phase, author, meant, open, part, clipped, stack, loaded>>
  BY DEF LoseToken, AtEof, Looking, Read, Terminates, writerVars
<1>2. PICK a, c \in Marks :
        Agrees(a) /\ Writes(a, Byte, c, meant) /\ Reaches(c, Tail(text), Here, meant)
  BY <1>1, Sight
<1>3. c = Here
  BY <1>1, <1>2, Still
<1>4. << >> \in Seq(Lexemes)
  OBVIOUS
<1>5. CASE a.part = "fresh"
  <2>1. c.n = a.n /\ c.open = a.open /\ c.part = "fresh" /\ ~c.cut
    BY <1>1, <1>2, <1>5, FreshEnd
  <2>2. /\ text' \in Seq(Lexemes) /\ Reaches(c, text', Here, meant)
    BY <1>1, <1>2, <1>4
  <2>3. /\ loaded' \in Seq(Entries) /\ Len(loaded') = c.n /\ Len(loaded') <= Len(meant)
        /\ \A i \in 1 .. Len(loaded') : loaded'[i] = meant[i]
    BY <1>1, <1>2, <2>1, LoadsNone
  <2>4. /\ stack' \in Seq(Blocks) /\ Len(stack') = Len(c.open) + 1
        /\ tok' = Token(c) /\ begun' \in BOOLEAN /\ ~begun'
    BY <1>1, <1>2, <1>5, <2>1 DEF Agrees, TextInv, TextTypes, Token
  <2> QED BY <1>1, <1>2, <2>1, <2>2, <2>3, <2>4, Advance DEF Parts
<1>6. CASE a.part # "fresh"
  <2>1. a.part \in {"named", "valued", "empty", "hashed"} /\ ~ Values(a, Byte, c)
    BY <1>1, <1>2, <1>6, TokenIs DEF Values
  <2>2. Strings(a, Byte, c, meant) /\ c.cut
    BY <1>1, <1>2, <2>1, Allowed DEF Strings, Writes
  <2>3. clipped /\ Len(meant) = Len(loaded) + 1
    BY <1>2, <1>3, <2>2 DEF Strings, Ends, Agrees, Here, Mark
  <2>4. stack # << >> /\ phase = "loading"
    BY <1>1 DEF Reading
  <2>5. Lost'
    BY <1>1, <2>3, <2>4 DEF Lost
  <2>6. TextTypes' /\ Here' = Here
    BY <1>1, <1>4 DEF TextInv, TextTypes, Here
  <2> QED BY <1>1, <2>4, <2>5, <2>6 DEF TextInv
<1> QED BY <1>5, <1>6

\* The name and the value in a token.
LEMMA ParsedIs ==
  ASSUME NEW a \in Marks, Agrees(a), a.part # "fresh"
  PROVE  /\ tok[Min(Parsed)] = a.n + 1
         /\ LET more == Parsed \ {Min(Parsed)}
            IN  (IF more = {} THEN 0 ELSE tok[Min(more)])
                  = (IF a.part = "valued" THEN -(a.n + 1) ELSE 0)
<1>1. /\ a.part \in {"named", "hashed"} => tok = <<a.n + 1>>
      /\ a.part = "valued" => tok = <<a.n + 1, -(a.n + 1)>>
      /\ a.part = "empty" => tok = <<a.n + 1, 0>>
      /\ a.part \in {"named", "valued", "empty", "hashed"} /\ a.n \in Nat
  BY TokenIs DEF Marks
<1>2. ASSUME NEW i \in Int PROVE Min({i}) = i
  BY DEF Min
<1>3. CASE a.part \in {"named", "hashed"}
  <2>1. tok = <<a.n + 1>> /\ a.n + 1 # 0
    BY <1>1, <1>3
  <2>2. Parsed = {1} /\ tok[1] = a.n + 1
    BY <2>1 DEF Parsed
  <2>3. Min(Parsed) = 1 /\ Parsed \ {Min(Parsed)} = {}
    BY <1>2, <2>2
  <2> QED BY <1>3, <2>2, <2>3
<1>4. CASE a.part = "empty"
  <2>1. tok = <<a.n + 1, 0>> /\ a.n + 1 # 0
    BY <1>1, <1>4
  <2>2. Parsed = {1} /\ tok[1] = a.n + 1
    BY <2>1 DEF Parsed
  <2>3. Min(Parsed) = 1 /\ Parsed \ {Min(Parsed)} = {}
    BY <1>2, <2>2
  <2> QED BY <1>4, <2>2, <2>3
<1>5. CASE a.part = "valued"
  <2>1. tok = <<a.n + 1, -(a.n + 1)>> /\ a.n + 1 # 0 /\ -(a.n + 1) # 0
    BY <1>1, <1>5
  <2>2. Parsed = {1, 2} /\ tok[1] = a.n + 1 /\ tok[2] = -(a.n + 1)
    BY <2>1 DEF Parsed
  <2>3. Min({1, 2}) = 1
    BY DEF Min
  <2>4. Min(Parsed) = 1 /\ Parsed \ {Min(Parsed)} = {2}
    BY <2>2, <2>3
  <2>5. Min({2}) = 2
    BY <1>2
  <2> QED BY <1>5, <2>2, <2>4, <2>5
<1> QED BY <1>1, <1>3, <1>4, <1>5

LEMMA LoadStringKeeps == ASSUME TextInv, LoadString PROVE TextInv'
<1> DEFINE value == LET more == Parsed \ {Min(Parsed)} IN IF more = {} THEN 0 ELSE tok[Min(more)]
           e == Entry("string", tok[Min(Parsed)], value)
<1>1. /\ Looking /\ Reading /\ tok # << >> /\ text' = Tail(text) /\ tok' = << >> /\ begun' = FALSE
      /\ UNCHANGED <<phase, author, meant, open, part, clipped, stack>>
      /\ Byte.is \in {";", "newline"} /\ loaded' = Append(loaded, e) /\ text' # << >>
  BY DEF LoadString, AtEof, Looking, Read, Terminates, Create, writerVars
<1>2. PICK a, c \in Marks :
        Agrees(a) /\ Writes(a, Byte, c, meant) /\ Reaches(c, Tail(text), Here, meant)
  BY <1>1, Sight
<1>3. a.part \in {"named", "valued", "empty"} /\ Strings(a, Byte, c, meant)
  <2>1. a.part \in {"named", "valued", "empty", "hashed"}
    BY <1>1, <1>2, TokenIs
  <2>2. ~ Values(a, Byte, c)
    BY <1>1 DEF Values
  <2> QED BY <1>1, <1>2, <2>1, <2>2, Allowed
<1>4. e = Meant(a)
  <2>1. tok[Min(Parsed)] = a.n + 1 /\ value = IF a.part = "valued" THEN -(a.n + 1) ELSE 0
    BY <1>2, <1>3, ParsedIs
  <2> HIDE DEF value
  <2> QED BY <2>1 DEF Meant
<1> HIDE DEF e, value
<1>5. e \in Entries
  <2>1. a.n + 1 \in Int /\ -(a.n + 1) \in Int
    BY <1>2 DEF Agrees, Marks
  <2> QED BY <1>4, <2>1, EntryIs DEF Meant
<1>6. Ends(a, c, e, meant) /\ c.open = a.open /\ c.part = "fresh"
  BY <1>3, <1>4 DEF Strings, Ends
<1>7. /\ text' \in Seq(Lexemes) /\ Reaches(c, text', Here, meant)
  BY <1>1, <1>2, Sight
<1>8. /\ loaded' \in Seq(Entries) /\ Len(loaded') = c.n /\ Len(loaded') <= Len(meant)
      /\ \A i \in 1 .. Len(loaded') : loaded'[i] = meant[i]
  BY <1>1, <1>2, <1>5, <1>6, LoadsOne
<1>9. /\ stack' \in Seq(Blocks) /\ Len(stack') = Len(c.open) + 1
      /\ tok' = Token(c) /\ begun' \in BOOLEAN /\ ~begun'
  BY <1>1, <1>2, <1>6 DEF Agrees, TextInv, TextTypes, Token
<1> QED BY <1>1, <1>2, <1>6, <1>7, <1>8, <1>9, Advance DEF Parts

LEMMA FrontIs ==
  ASSUME NEW s \in Seq(Blocks), s # << >>
  PROVE  Front(s) \in Seq(Blocks) /\ Len(Front(s)) = Len(s) - 1 /\ Len(s) \in Nat \ {0}
<1>1. Len(s) \in Nat \ {0}
  OBVIOUS
<1>2. PICK k \in Nat : k = Len(s) - 1
  BY <1>1
<1>3. SubSeq(s, 1, k) \in Seq(Blocks) /\ Len(SubSeq(s, 1, k)) = k
  BY <1>1, <1>2
<1> QED BY <1>1, <1>2, <1>3 DEF Front

LEMMA PopKeeps == ASSUME TextInv, Pop PROVE TextInv'
<1>1. /\ Looking /\ Reading /\ text' = Tail(text) /\ tok' = << >> /\ begun' = FALSE
      /\ stack' = Front(stack) /\ stack # << >> /\ First \in {"}", ")", "]"}
      /\ loaded' = (IF Len(stack) > 1 THEN Append(loaded, Ended) ELSE loaded)
      /\ UNCHANGED <<phase, author, meant, open, part, clipped>>
  BY Tokens DEF Pop, Looking, Reading, Read, Closing, writerVars
<1>2. PICK a, c \in Marks :
        /\ Agrees(a) /\ Writes(a, Byte, c, meant) /\ Reaches(c, Tail(text), Here, meant)
        /\ Byte.is # "blank" => First = Byte.is
        /\ Byte.is = "blank" =>
             /\ tok # << >> /\ a.part # "fresh" /\ First = Head(Tail(text)).is
             /\ \E d \in Marks : Writes(c, Head(Tail(text)), d, meant)
             /\ a.part # "hashed" => Goes(a, c, a.part)
  BY <1>1, Sight
<1>3. Byte.is # "blank"
  <2> SUFFICES ASSUME Byte.is = "blank" PROVE FALSE
    OBVIOUS
  <2>1. PICK d \in Marks : Writes(c, Head(Tail(text)), d, meant)
    BY <1>2
  <2>2. CASE a.part = "hashed"
    <3>1. c.part = "spaced"
      BY <1>2, <2>2, Allowed DEF Goes
    <3>2. First = "["
      BY <1>2, <2>1, <3>1, AllowedInside
    <3> QED BY <1>1, <3>2
  <2>3. CASE a.part # "hashed"
    <3>1. c.part = a.part /\ a.part \in {"named", "valued", "empty"}
      BY <1>2, <2>3, TokenIs DEF Goes
    <3>2. Writes(c, Head(Tail(text)), d, meant) /\ Head(Tail(text)).is \in {"}", ")", "]"}
      BY <1>1, <1>2, <2>1, <3>1
    <3> QED BY <3>1, <3>2, Allowed DEF Values, Strings, EndsString
  <2> QED BY <2>2, <2>3
<1>4. a.part = "fresh" /\ Closes(a, Byte, c, meant)
  <2>1. Byte.is \in {"}", ")", "]"}
    BY <1>1, <1>2, <1>3
  <2>2. a.part \in {"fresh", "named", "valued", "empty", "hashed"}
    BY <1>2, TokenIs
  <2> QED BY <1>2, <2>1, <2>2, Allowed DEF Passes, Names, Values, Strings, EndsString
<1>5. /\ a.open # << >> /\ Ends(a, c, Ended, meant) /\ c.open = Front(a.open) /\ c.part = "fresh"
      /\ ~c.cut
  BY <1>2, <1>4 DEF Closes, Ends, Writes, EndsString
<1>6. Ended \in Entries
  BY DEF Ended, Entry, Entries
<1>7. Len(stack) > 1 /\ Len(stack') = Len(c.open) + 1 /\ stack' \in Seq(Blocks)
  <2>1. stack \in Seq(Blocks) /\ a.open \in Seq(Blocks) /\ Len(stack) = Len(a.open) + 1
    BY <1>2 DEF TextInv, TextTypes, Agrees, Marks
  <2>2. Len(c.open) = Len(a.open) - 1 /\ Len(a.open) \in Nat \ {0}
    BY <1>5, <2>1, FrontIs
  <2>3. stack' \in Seq(Blocks) /\ Len(stack') = Len(stack) - 1
    BY <1>1, <2>1, FrontIs
  <2> QED BY <2>1, <2>2, <2>3
<1>8. /\ text' \in Seq(Lexemes) /\ Reaches(c, text', Here, meant)
  BY <1>1, <1>2, Sight
<1>9. /\ loaded' \in Seq(Entries) /\ Len(loaded') = c.n /\ Len(loaded') <= Len(meant)
      /\ \A i \in 1 .. Len(loaded') : loaded'[i] = meant[i]
  BY <1>1, <1>2, <1>5, <1>6, <1>7, LoadsOne
<1>10. tok' = Token(c) /\ begun' \in BOOLEAN /\ ~begun'
  BY <1>1, <1>5 DEF Token
<1> QED BY <1>1, <1>2, <1>5, <1>7, <1>8, <1>9, <1>10, Advance DEF Parts

LEMMA LoadIntKeeps == ASSUME TextInv, LoadInt PROVE TextInv'
<1> DEFINE e == Entry("int", tok[Min(Parsed)], 0)
<1>1. /\ Looking /\ Reading /\ tok # << >> /\ tok' = << >> /\ begun' = FALSE /\ First = "'"
      /\ text' = Past("'", Past("number", Past("'", Tail(text))))
      /\ UNCHANGED <<phase, author, meant, open, part, clipped, stack>>
      /\ loaded' = Append(loaded, e)
  BY Tokens DEF LoadInt, Opening, Looking, Read, Create, writerVars
<1>2. PICK a, c \in Marks :
        /\ Agrees(a) /\ Writes(a, Byte, c, meant) /\ Reaches(c, Tail(text), Here, meant)
        /\ Byte.is # "blank" => First = Byte.is
        /\ Byte.is = "blank" =>
             /\ Tail(text) # << >> /\ First = Head(Tail(text)).is
             /\ \E d \in Marks : /\ Writes(c, Head(Tail(text)), d, meant)
                                 /\ Reaches(d, Tail(Tail(text)), Here, meant)
             /\ a.part # "hashed" => Goes(a, c, a.part)
  BY <1>1, Sight
<1>3. Tail(text) \in Seq(Lexemes) /\ Here.part = "fresh" /\ a.part \in {"named", "valued", "empty", "hashed"}
  BY <1>1, <1>2, Sight, TokenIs
\* Past the first apostrophe.
<1>4. \E d \in Marks, t \in Seq(Lexemes) :
         /\ Past("'", Tail(text)) = t /\ Reaches(d, t, Here, meant)
         /\ a.part = "named" /\ Goes(a, d, "int")
  <2>1. CASE Byte.is # "blank"
    <3>1. Byte.is = "'"
      BY <1>1, <1>2, <2>1
    <3>2. a.part = "named" /\ Goes(a, c, "int")
      BY <1>2, <1>3, <3>1, Allowed DEF Values, Strings, EndsString, Passes
    <3>3. c.part = "int"
      BY <3>2 DEF Goes
    <3>4. Head(Tail(text)).is = "number"
      BY <1>2, <1>3, <3>3, GoesOn, AllowedInside
    <3>5. Past("'", Tail(text)) = Tail(text)
      BY <3>4 DEF Past
    <3> QED BY <1>2, <1>3, <3>2, <3>5
  <2>2. CASE Byte.is = "blank"
    <3>1. PICK d \in Marks : /\ Writes(c, Head(Tail(text)), d, meant)
                             /\ Reaches(d, Tail(Tail(text)), Here, meant)
      BY <1>2, <2>2
    <3>2. Tail(text) # << >> /\ Head(Tail(text)).is = "'"
      BY <1>1, <1>2, <2>2
    <3>3. a.part # "hashed"
      <4> SUFFICES ASSUME a.part = "hashed" PROVE FALSE
        OBVIOUS
      <4>1. c.part = "spaced"
        BY <1>2, Allowed DEF Goes
      <4> QED BY <3>1, <3>2, <4>1, AllowedInside
    <3>4. Goes(a, c, a.part) /\ a.part \in {"named", "valued", "empty"}
      BY <1>2, <1>3, <2>2, <3>3
    <3>5. a.part = "named" /\ Goes(a, d, "int")
      <4>1. c.part \in {"named", "valued", "empty"} /\ c.part = a.part
        BY <3>4 DEF Goes
      <4>2. c.part = "named" /\ Goes(c, d, "int")
        BY <3>1, <3>2, <4>1, Allowed DEF Values, Strings, EndsString, Passes
      <4> QED BY <3>4, <4>1, <4>2 DEF Goes
    <3>6. Past("'", Tail(text)) = Tail(Tail(text)) /\ Tail(Tail(text)) \in Seq(Lexemes)
      BY <1>3, <3>2 DEF Past
    <3> QED BY <3>1, <3>5, <3>6
  <2> QED BY <2>1, <2>2
<1>5. PICK d \in Marks, t \in Seq(Lexemes) :
         /\ Past("'", Tail(text)) = t /\ Reaches(d, t, Here, meant)
         /\ a.part = "named" /\ Goes(a, d, "int")
  BY <1>4
\* The number, and the other apostrophe.
<1>6. PICK f \in Marks : /\ t # << >> /\ Head(t).is = "number" /\ Tail(t) \in Seq(Lexemes)
                         /\ Goes(d, f, "figure") /\ Reaches(f, Tail(t), Here, meant)
  <2>1. d.part = "int"
    BY <1>5 DEF Goes
  <2> QED BY <2>1, <1>3, <1>5, GoesOn, AllowedInside
<1>7. PICK u \in Seq(Lexemes) : Past("number", t) = u /\ Reaches(f, u, Here, meant)
  BY <1>6 DEF Past
<1>8. PICK b \in Marks : /\ u # << >> /\ Head(u).is = "'" /\ Tail(u) \in Seq(Lexemes)
                         /\ Ends(f, b, Entry("int", f.n + 1, 0), meant) /\ b.open = f.open
                         /\ Reaches(b, Tail(u), Here, meant) /\ ~b.cut
  <2>1. f.part = "figure" /\ f.part \notin Parts
    BY <1>6 DEF Goes, Parts
  <2> QED BY <2>1, <1>3, <1>7, GoesOn, AllowedInside
<1>9. text' = Tail(u)
  BY <1>1, <1>5, <1>7, <1>8 DEF Past
<1>10. e = Entry("int", a.n + 1, 0) /\ e \in Entries
  <2>1. tok[Min(Parsed)] = a.n + 1
    BY <1>2, <1>5, ParsedIs
  <2>2. a.n + 1 \in Int
    BY <1>2 DEF Marks
  <2> QED BY <2>1, <2>2, EntryIs
<1> HIDE DEF e
<1>11. Ends(a, b, e, meant) /\ b.open = a.open /\ b.part = "fresh"
  BY <1>5, <1>6, <1>8, <1>10 DEF Goes, Ends
<1>12. /\ loaded' \in Seq(Entries) /\ Len(loaded') = b.n /\ Len(loaded') <= Len(meant)
       /\ \A i \in 1 .. Len(loaded') : loaded'[i] = meant[i]
  BY <1>1, <1>2, <1>10, <1>11, LoadsOne
<1>13. /\ stack' \in Seq(Blocks) /\ Len(stack') = Len(b.open) + 1
       /\ tok' = Token(b) /\ begun' \in BOOLEAN /\ ~begun'
  BY <1>1, <1>2, <1>11 DEF Agrees, TextInv, TextTypes, Token
<1>14. text' \in Seq(Lexemes) /\ Reaches(b, text', Here, meant)
  BY <1>8, <1>9
<1> QED BY <1>1, <1>8, <1>11, <1>12, <1>13, <1>14, Advance DEF Parts

\* A block begins where a loader looks at its opening token.
LEMMA Pushed ==
  ASSUME NEW s \in Seq(Blocks), NEW k \in Blocks
  PROVE  Append(s, k) \in Seq(Blocks) /\ Len(Append(s, k)) = Len(s) + 1
OBVIOUS

LEMMA LoadBlockKeeps == ASSUME TextInv, NEW k \in {"tree", "list"}, LoadBlock(k) PROVE TextInv'
<1> DEFINE e == Entry(k, tok[Min(Parsed)], 0)
           x == OpenToken[k]
<1>1. /\ Looking /\ Reading /\ tok # << >> /\ tok' = << >> /\ begun' = FALSE /\ First = x
      /\ text' = Tail(text) /\ stack' = Append(stack, k)
      /\ UNCHANGED <<phase, author, meant, open, part, clipped>>
      /\ loaded' = Append(loaded, e)
  BY DEF LoadBlock, Opening, Looking, Read, Create, writerVars
<1>2. PICK a, c \in Marks :
        /\ Agrees(a) /\ Writes(a, Byte, c, meant) /\ Reaches(c, Tail(text), Here, meant)
        /\ Byte.is # "blank" => First = Byte.is
        /\ Byte.is = "blank" =>
             /\ Tail(text) # << >> /\ First = Head(Tail(text)).is
             /\ \E d \in Marks : /\ Writes(c, Head(Tail(text)), d, meant)
                                 /\ Reaches(d, Tail(Tail(text)), Here, meant)
             /\ a.part # "hashed" => Goes(a, c, a.part)
  BY <1>1, Sight
<1>3. Tail(text) \in Seq(Lexemes) /\ Here.part = "fresh" /\ a.part \in {"named", "valued", "empty", "hashed"}
  BY <1>1, <1>2, Sight, TokenIs
<1>4. x \in {"{", "("} /\ x = OpenToken[k] /\ (x = "{" => k = "tree") /\ (x = "(" => k = "list")
  BY Tokens
<1> HIDE DEF x
<1>5. ASSUME NEW p \in Marks, NEW q \in Marks, NEW y, Writes(p, y, q, meant), y.is = x,
             p.part \in {"named", "valued", "empty", "hashed"}
      PROVE  p.part = "named" /\ Begins(p, y, q, meant, k) /\ ~q.cut
  <2>1. p.part = "named" /\ Begins(p, y, q, meant, k)
    BY <1>4, <1>5, Allowed DEF Values, Strings, EndsString, Passes
  <2>2. ~EndsString(p, y)
    BY <1>4, <1>5 DEF EndsString
  <2> QED BY <1>5, <2>1, <2>2 DEF Writes
\* Where the opening token is still to be read, it is passed over next.
<1>6. \E b \in Marks : /\ a.part = "named" /\ Ends(a, b, Entry(k, a.n + 1, 0), meant)
                       /\ b.open = Append(a.open, k) /\ Reaches(b, Tail(text), Here, meant) /\ ~b.cut
  <2>1. CASE Byte.is # "blank"
    <3>1. Byte.is = x
      BY <1>1, <1>2, <2>1
    <3>2. a.part = "named" /\ Begins(a, Byte, c, meant, k) /\ ~c.cut
      BY <1>2, <1>3, <3>1, <1>5
    <3> QED BY <1>2, <3>2 DEF Begins
  <2>2. CASE Byte.is = "blank"
    <3>1. PICK d \in Marks : /\ Writes(c, Head(Tail(text)), d, meant)
                             /\ Reaches(d, Tail(Tail(text)), Here, meant)
      BY <1>2, <2>2
    <3>2. Tail(text) # << >> /\ Head(Tail(text)).is = x
      BY <1>1, <1>2, <2>2
    <3>3. a.part # "hashed"
      <4> SUFFICES ASSUME a.part = "hashed" PROVE FALSE
        OBVIOUS
      <4>1. c.part = "spaced"
        BY <1>2, Allowed DEF Goes
      <4> QED BY <1>4, <3>1, <3>2, <4>1, AllowedInside
    <3>4. /\ a.part = "named" /\ Ends(a, d, Entry(k, a.n + 1, 0), meant) /\ d.open = Append(a.open, k)
          /\ d.part = "fresh" /\ ~d.cut
      <4>1. c.n = a.n /\ c.open = a.open /\ c.part = a.part
        BY <1>2, <2>2, <3>3 DEF Goes
      <4>2. c.part = "named" /\ Begins(c, Head(Tail(text)), d, meant, k) /\ ~d.cut
        BY <1>3, <3>1, <3>2, <4>1, <1>5
      <4> QED BY <4>1, <4>2 DEF Begins, Ends
    <3>5. ~EndsString(d, Head(Tail(text)))
      BY <3>4 DEF EndsString
    <3>6. Writes(d, Head(Tail(text)), d, meant)
      BY <1>4, <3>2, <3>4, <3>5 DEF Writes, Moves, Passes, Goes
    <3>7. PICK t : t = Tail(text)
      OBVIOUS
    <3>8. /\ t \in Seq(Lexemes) /\ Head(t) \in Lexemes /\ Tail(t) \in Seq(Lexemes)
          /\ t = <<Head(t)>> \o Tail(t)
      BY <1>3, <3>2, <3>7
    <3>9. Reaches(d, <<Head(t)>> \o Tail(t), Here, meant)
      BY <3>1, <3>6, <3>7, <3>8, Then
    <3>10. Reaches(d, Tail(text), Here, meant)
      BY <3>7, <3>8, <3>9
    <3> QED BY <3>4, <3>10
  <2> QED BY <2>1, <2>2
<1>7. PICK b \in Marks : /\ a.part = "named" /\ Ends(a, b, Entry(k, a.n + 1, 0), meant)
                         /\ b.open = Append(a.open, k) /\ Reaches(b, Tail(text), Here, meant) /\ ~b.cut
  BY <1>6
<1>8. e = Entry(k, a.n + 1, 0) /\ e \in Entries /\ b.part = "fresh"
  <2>1. tok[Min(Parsed)] = a.n + 1
    BY <1>2, <1>7, ParsedIs
  <2>2. a.n + 1 \in Int
    BY <1>2 DEF Marks
  <2> QED BY <2>1, <2>2, <1>7, EntryIs DEF Ends
<1> HIDE DEF e
<1>9. /\ loaded' \in Seq(Entries) /\ Len(loaded') = b.n /\ Len(loaded') <= Len(meant)
      /\ \A i \in 1 .. Len(loaded') : loaded'[i] = meant[i]
  BY <1>1, <1>2, <1>7, <1>8, LoadsOne
<1>10. /\ stack' \in Seq(Blocks) /\ Len(stack') = Len(b.open) + 1
  <2>1. k \in Blocks /\ a.open \in Seq(Blocks) /\ stack \in Seq(Blocks) /\ Len(stack) = Len(a.open) + 1
    BY <1>2, Tokens DEF Agrees, Marks, TextInv, TextTypes
  <2>2. Len(b.open) = Len(a.open) + 1
    BY <1>7, <2>1, Pushed
  <2> QED BY <1>1, <2>1, <2>2, Pushed
<1>11. tok' = Token(b) /\ begun' \in BOOLEAN /\ ~begun'
  BY <1>1, <1>8 DEF Token
<1> QED BY <1>1, <1>3, <1>7, <1>8, <1>9, <1>10, <1>11, Advance DEF Parts

LEMMA LoadHashKeeps == ASSUME TextInv, LoadHash PROVE TextInv'
<1> DEFINE e == Entry("hash", tok[Min(Parsed)], 0)
           past == Past("blank", Tail(text))
           size == Past("blank", Past("newline", Tail(past)))
<1>1. /\ Looking /\ Reading /\ tok # << >> /\ tok' = << >> /\ begun' = FALSE /\ First = "["
      /\ text' = Past(";", Past("number", size))
      /\ stack' = IF size # << >> /\ Head(size).is # "number" THEN << >> ELSE Append(stack, "hash")
      /\ UNCHANGED <<phase, author, meant, open, part, clipped>>
      /\ loaded' = Append(loaded, e)
  BY Tokens DEF LoadHash, Opening, Looking, Read, Create, writerVars
<1>2. PICK a, c \in Marks :
        /\ Agrees(a) /\ Writes(a, Byte, c, meant) /\ Reaches(c, Tail(text), Here, meant)
        /\ Byte.is # "blank" => First = Byte.is
        /\ Byte.is = "blank" =>
             /\ Tail(text) # << >> /\ First = Head(Tail(text)).is
             /\ \E d \in Marks : /\ Writes(c, Head(Tail(text)), d, meant)
                                 /\ Reaches(d, Tail(Tail(text)), Here, meant)
             /\ a.part # "hashed" => Goes(a, c, a.part)
  BY <1>1, Sight
<1>3. Tail(text) \in Seq(Lexemes) /\ Here.part = "fresh" /\ a.part \in {"named", "valued", "empty", "hashed"}
  BY <1>1, <1>2, Sight, TokenIs
<1>4. Byte.is = "blank"
  <2> SUFFICES ASSUME Byte.is # "blank" PROVE FALSE
    OBVIOUS
  <2>1. Byte.is = "["
    BY <1>1, <1>2
  <2> QED BY <1>2, <1>3, <2>1, Allowed DEF Values, Strings, EndsString, Passes
<1>5. PICK d \in Marks : /\ Writes(c, Head(Tail(text)), d, meant)
                         /\ Reaches(d, Tail(Tail(text)), Here, meant)
  BY <1>2, <1>4
<1>6. Tail(text) # << >> /\ Head(Tail(text)).is = "["
  BY <1>1, <1>2, <1>4
<1>7. a.part = "hashed"
  <2> SUFFICES ASSUME a.part # "hashed" PROVE FALSE
    OBVIOUS
  <2>1. c.part = a.part /\ a.part \in {"named", "valued", "empty"}
    BY <1>2, <1>3, <1>4 DEF Goes
  <2> QED BY <1>5, <1>6, <2>1, Allowed DEF Values, Strings, EndsString, Passes
<1>8. Goes(a, c, "spaced") /\ Goes(c, d, "opened")
  <2>1. Goes(a, c, "spaced")
    BY <1>2, <1>7, Allowed
  <2>2. c.part = "spaced"
    BY <2>1 DEF Goes
  <2> QED BY <1>5, <2>1, <2>2, AllowedInside
\* The lexemes up to the size, one after another.
<1>9. past = Tail(text) /\ Tail(past) \in Seq(Lexemes) /\ Reaches(d, Tail(past), Here, meant)
  BY <1>3, <1>5, <1>6 DEF Past
<1> HIDE DEF past
<1>10. PICK t \in Seq(Lexemes) : t = Tail(past) /\ Reaches(d, t, Here, meant)
  BY <1>9
<1>11. PICK f \in Marks : /\ t # << >> /\ Head(t).is = "newline" /\ Tail(t) \in Seq(Lexemes)
                          /\ Goes(d, f, "broken") /\ Reaches(f, Tail(t), Here, meant)
  <2>1. d.part = "opened"
    BY <1>8 DEF Goes
  <2> QED BY <2>1, <1>3, <1>10, GoesOn, AllowedInside
<1>12. PICK u \in Seq(Lexemes) : Past("newline", t) = u /\ Reaches(f, u, Here, meant)
  BY <1>11 DEF Past
<1>13. PICK g \in Marks : /\ u # << >> /\ Head(u).is = "blank" /\ Tail(u) \in Seq(Lexemes)
                          /\ Goes(f, g, "indented") /\ Reaches(g, Tail(u), Here, meant)
  <2>1. f.part = "broken"
    BY <1>11 DEF Goes
  <2> QED BY <2>1, <1>3, <1>12, GoesOn, AllowedInside
<1>14. size = Tail(u)
  BY <1>10, <1>12, <1>13 DEF Past
<1> HIDE DEF size
<1>15. PICK h \in Marks : /\ size # << >> /\ Head(size).is = "number" /\ Tail(size) \in Seq(Lexemes)
                          /\ Goes(g, h, "sized") /\ Reaches(h, Tail(size), Here, meant)
  <2>1. g.part = "indented"
    BY <1>13 DEF Goes
  <2> QED BY <2>1, <1>3, <1>13, <1>14, GoesOn, AllowedInside
<1>16. PICK v \in Seq(Lexemes) : Past("number", size) = v /\ Reaches(h, v, Here, meant)
  BY <1>15 DEF Past
<1>17. PICK b \in Marks : /\ v # << >> /\ Head(v).is = ";" /\ Tail(v) \in Seq(Lexemes)
                          /\ Ends(h, b, Entry("hash", h.n + 1, 0), meant)
                          /\ b.open = Append(h.open, "hash") /\ Reaches(b, Tail(v), Here, meant)
                          /\ ~b.cut
  <2>1. h.part = "sized" /\ h.part \notin Parts
    BY <1>15 DEF Goes, Parts
  <2> QED BY <2>1, <1>3, <1>16, GoesOn, AllowedInside
<1>18. text' = Tail(v) /\ stack' = Append(stack, "hash")
  <2>1. text' = Past(";", v)
    BY <1>1, <1>16
  <2> QED BY <2>1, <1>1, <1>15, <1>17 DEF Past
<1>19. h.n = a.n /\ h.open = a.open
  BY <1>8, <1>11, <1>13, <1>15 DEF Goes
<1>20. e = Entry("hash", a.n + 1, 0) /\ e \in Entries
  <2>1. tok[Min(Parsed)] = a.n + 1
    BY <1>2, <1>7, ParsedIs
  <2>2. a.n + 1 \in Int
    BY <1>2 DEF Marks
  <2> QED BY <2>1, <2>2, EntryIs
<1> HIDE DEF e
<1>21. Ends(a, b, e, meant) /\ b.open = Append(a.open, "hash") /\ b.part = "fresh"
  BY <1>17, <1>19, <1>20 DEF Ends
<1>22. /\ loaded' \in Seq(Entries) /\ Len(loaded') = b.n /\ Len(loaded') <= Len(meant)
       /\ \A i \in 1 .. Len(loaded') : loaded'[i] = meant[i]
  BY <1>1, <1>2, <1>20, <1>21, LoadsOne
<1>23. /\ stack' \in Seq(Blocks) /\ Len(stack') = Len(b.open) + 1
  <2>1. "hash" \in Blocks /\ a.open \in Seq(Blocks) /\ stack \in Seq(Blocks) /\ Len(stack) = Len(a.open) + 1
    BY <1>2, Tokens DEF Agrees, Marks, TextInv, TextTypes
  <2>2. Len(b.open) = Len(a.open) + 1
    BY <1>21, <2>1, Pushed
  <2> QED BY <1>18, <2>1, <2>2, Pushed
<1>24. tok' = Token(b) /\ begun' \in BOOLEAN /\ ~begun'
  BY <1>1, <1>21 DEF Token
<1>25. text' \in Seq(Lexemes) /\ Reaches(b, text', Here, meant)
  BY <1>17, <1>18
<1> QED BY <1>1, <1>17, <1>21, <1>22, <1>23, <1>24, <1>25, Advance DEF Parts

\* A longer token.
LEMMA LastAdded ==
  ASSUME NEW S, NEW r \in Seq(S), NEW j \in S
  PROVE  /\ Append(r, j) \in Seq(S) /\ Len(Append(r, j)) = Len(r) + 1
         /\ Append(r, j)[Len(r) + 1] = j
         /\ \A n \in 1 .. Len(r) : Append(r, j)[n] = r[n]
OBVIOUS

LEMMA Same ==
  ASSUME NEW S, NEW s \in Seq(S), NEW t \in Seq(S), Len(s) = Len(t),
         \A n \in 1 .. Len(t) : s[n] = t[n]
  PROVE  s = t
OBVIOUS

LEMMA Lengthened ==
  ASSUME NEW S, NEW i \in S, NEW j \in S
  PROVE  Append(<< >>, i) = <<i>> /\ Append(<<i>>, j) = <<i, j>> /\ <<i>> # << >>
<1>1. Append(<< >>, i) = <<i>>
  <2>1. PICK r, s, t : r = << >> /\ s = Append(r, i) /\ t = <<i>>
    OBVIOUS
  <2>2. r \in Seq(S) /\ Len(r) = 0
    BY <2>1
  <2>3. s \in Seq(S) /\ Len(s) = 1 /\ s[1] = i
    BY <2>1, <2>2, LastAdded
  <2>4. t \in Seq(S) /\ Len(t) = 1 /\ t[1] = i
    BY <2>1
  <2>5. s = t
    BY <2>3, <2>4, Same
  <2> QED BY <2>1, <2>5
<1>2. Append(<<i>>, j) = <<i, j>>
  <2>1. PICK r, s, t : r = <<i>> /\ s = Append(r, j) /\ t = <<i, j>>
    OBVIOUS
  <2>2. r \in Seq(S) /\ Len(r) = 1 /\ r[1] = i
    BY <2>1
  <2>3. /\ s \in Seq(S) /\ Len(s) = Len(r) + 1 /\ s[Len(r) + 1] = j
        /\ \A n \in 1 .. Len(r) : s[n] = r[n]
    BY <2>1, <2>2, LastAdded
  <2>4. s[1] = i /\ s[2] = j /\ Len(s) = 2
    BY <2>2, <2>3
  <2>5. t \in Seq(S) /\ Len(t) = 2 /\ t[1] = i /\ t[2] = j
    BY <2>1
  <2>6. s = t
    BY <2>3, <2>4, <2>5, Same
  <2> QED BY <2>1, <2>6
<1> QED BY <1>1, <1>2

LEMMA CollectKeeps == ASSUME TextInv, Collect PROVE TextInv'
<1>1. /\ Looking /\ Reading /\ text' = Tail(text)
      /\ tok' = (IF Byte.is = "quoted" THEN Append(tok, Byte.id) ELSE tok) /\ begun' = (tok' # << >>)
      /\ UNCHANGED <<phase, author, meant, open, part, clipped, stack, loaded>>
      /\ Byte.is \notin {";", "newline"} /\ First \notin {"{", "(", "[", "'", "}", ")", "]"}
  BY Tokens DEF Collect, Looking, Read, Terminates, Opening, Closing, writerVars
<1>2. PICK a, c \in Marks :
        /\ Agrees(a) /\ Writes(a, Byte, c, meant) /\ Reaches(c, Tail(text), Here, meant)
        /\ Byte.is # "blank" => First = Byte.is
        /\ Byte.is = "blank" =>
             /\ tok # << >> /\ a.part # "fresh" /\ First = Head(Tail(text)).is
             /\ \E d \in Marks : Writes(c, Head(Tail(text)), d, meant)
             /\ a.part # "hashed" => Goes(a, c, a.part)
  BY <1>1, Sight
<1>3. /\ text' \in Seq(Lexemes) /\ Byte.is # "#" /\ Byte.is # "/*"
      /\ a.part \in {"fresh", "named", "valued", "empty", "hashed"} /\ a.n \in Nat
  BY <1>1, <1>2, Sight, TokenIs DEF Marks
\* A hash is not looked at but where it begins.
<1>4. a.part # "hashed"
  <2> SUFFICES ASSUME a.part = "hashed" PROVE FALSE
    OBVIOUS
  <2>1. Byte.is = "blank" /\ c.part = "spaced"
    BY <1>2, Allowed DEF Goes
  <2>2. First = "["
    BY <1>2, <2>1, AllowedInside
  <2> QED BY <1>1, <2>2
<1>5. /\ c.n = a.n /\ c.open = a.open /\ c.part \in Parts \cup {"hashed"}
      /\ tok' = Token(c) /\ (c.part = "hashed" => tok' # << >>)
  <2>1. CASE Byte.is = "blank"
    <3>1. Goes(a, c, a.part) /\ tok' = tok /\ tok = Token(a)
      BY <1>1, <1>2, <1>4, <2>1 DEF Agrees
    <3>2. Token(c) = Token(a)
      BY <3>1 DEF Token, Goes
    <3> QED BY <1>2, <1>4, <3>1, <3>2 DEF Agrees, Goes
  <2>2. CASE Byte.is = "quoted"
    <3>1. tok' = Append(tok, Byte.id)
      BY <1>1, <2>2
    <3>2. CASE a.part = "fresh"
      <4>1. Names(a, Byte, c)
        BY <1>2, <2>2, <3>2, Allowed DEF Passes
      <4>2. Byte.id = a.n + 1 /\ (Goes(a, c, "named") \/ Goes(a, c, "hashed")) /\ tok = << >>
        BY <1>2, <3>2, <4>1, TokenIs DEF Names
      <4>3. tok' = <<a.n + 1>> /\ tok' # << >>
        BY <1>3, <3>1, <4>2, Lengthened
      <4> QED BY <4>2, <4>3 DEF Goes, Token, Parts
    <3>3. CASE a.part = "named"
      <4>1. Values(a, Byte, c)
        BY <1>2, <2>2, <3>3, Allowed DEF Strings, EndsString
      <4>2. /\ \/ Byte.id = -(a.n + 1) /\ Goes(a, c, "valued")
               \/ Byte.id = 0 /\ Goes(a, c, "empty")
            /\ tok = <<a.n + 1>>
        BY <1>2, <3>3, <4>1, TokenIs DEF Values
      <4>3. tok' = <<a.n + 1, Byte.id>>
        <5>1. a.n + 1 \in Int /\ Byte.id \in Int
          BY <1>3, <4>2
        <5>2. Append(<<a.n + 1>>, Byte.id) = <<a.n + 1, Byte.id>>
          BY <5>1, Lengthened
        <5> QED BY <3>1, <4>2, <5>2
      <4> QED BY <4>2, <4>3 DEF Goes, Token, Parts
    <3>4. CASE a.part \in {"valued", "empty"}
      BY <1>2, <2>2, <3>4, Allowed DEF Strings, EndsString
    <3> QED BY <1>3, <1>4, <3>2, <3>3, <3>4
  <2>3. CASE Byte.is \notin {"blank", "quoted"}
    <3>1. ~ Names(a, Byte, c) /\ ~ Values(a, Byte, c) /\ ~ Strings(a, Byte, c, meant)
      BY <1>1, <2>3 DEF Names, Values, Strings, EndsString
    <3>2. First = Byte.is
      BY <1>2, <2>3
    <3>3. ~ Passes(a, Byte, c)
      BY <1>1, <1>3, <2>3, <3>2 DEF Passes
    <3> QED BY <1>1, <1>2, <1>3, <1>4, <3>1, <3>2, <3>3, Allowed
  <2> QED BY <2>1, <2>2, <2>3
<1>6. /\ loaded' \in Seq(Entries) /\ Len(loaded') = c.n /\ Len(loaded') <= Len(meant)
      /\ \A i \in 1 .. Len(loaded') : loaded'[i] = meant[i]
  BY <1>1, <1>2, <1>5, LoadsNone
<1>7. /\ stack' \in Seq(Blocks) /\ Len(stack') = Len(c.open) + 1
  BY <1>1, <1>2, <1>5 DEF Agrees, TextInv, TextTypes
<1>8. begun' \in BOOLEAN /\ (begun' => tok' # << >>) /\ (c.part = "hashed" => begun')
  BY <1>1, <1>5
<1>9. ~c.cut
  BY <1>1, <1>2 DEF Writes, EndsString
<1> QED BY <1>1, <1>2, <1>3, <1>5, <1>6, <1>7, <1>8, <1>9, Advance

LEMMA FinishKeeps == ASSUME TextInv, Finish PROVE TextInv'
<1>1. /\ phase = "loading" /\ phase' = "loaded" /\ (text = << >> \/ stack = << >>)
      /\ UNCHANGED <<text, author, meant, open, part, clipped, begun, tok, stack, loaded>>
  BY DEF Finish, writerVars, loaderVars
<1>2. stack # << >>
  <2>1. CASE Lost
    BY <2>1 DEF Lost
  <2>2. CASE ~Lost
    <3>1. PICK a : Agrees(a)
      BY <2>2 DEF TextInv, OnTheWay
    <3>2. Len(stack) = Len(a.open) + 1 /\ Len(a.open) \in Nat
      BY <3>1 DEF Agrees, Marks
    <3> QED BY <3>2
  <2> QED BY <2>1, <2>2
<1>3. TextTypes' /\ Here' = Here
  BY <1>1 DEF TextInv, TextTypes, Here
<1>4. \A a : OnTheWay(a) <=> OnTheWay(a)'
  BY <1>1, <1>3 DEF OnTheWay, Agrees
<1>5. Lost => Lost'
  BY <1>1 DEF Lost
<1> QED BY <1>1, <1>2, <1>3, <1>4, <1>5 DEF TextInv

-----------------------------------------------------------------------------
LEMMA TextStarts == TextInit => TextInv
<1> SUFFICES ASSUME TextInit PROVE TextInv
  OBVIOUS
<1>1. /\ author \in {"hand", "pdb_write"} /\ phase = "writing" /\ text = << >> /\ meant = << >>
      /\ open = << >> /\ part = "fresh" /\ begun = FALSE /\ tok = << >>
      /\ stack = <<"tree">> /\ loaded = << >> /\ clipped = FALSE
  BY DEF TextInit
<1>2. /\ << >> \in Seq(Lexemes) /\ << >> \in Seq(Entries) /\ << >> \in Seq(Blocks)
      /\ Len(loaded) = 0 /\ Len(meant) = 0 /\ Len(open) = 0
  BY <1>1
<1>3. stack \in Seq(Blocks) /\ Len(stack) = 1
  <2>1. "tree" \in Blocks
    BY Tokens
  <2> QED BY <1>1, <2>1
<1>4. TextTypes
  BY <1>1, <1>2, <1>3 DEF TextTypes, Parts
<1>5. Here \in Marks /\ Here.n = 0 /\ Here.open = << >> /\ Here.part = "fresh" /\ ~Here.cut
  BY <1>1, <1>2, <1>4, Somewhere DEF Here, Mark
<1>6. Agrees(Here)
  <2>1. tok = Token(Here)
    BY <1>1, <1>5 DEF Token
  <2> QED BY <1>2, <1>3, <1>5, <1>1, <2>1 DEF Agrees, Parts
<1>7. Reaches(Here, text, Here, meant)
  BY <1>1, <1>5, Stay
<1>8. \A i \in 1 .. Len(loaded) : loaded[i] = meant[i]
  BY <1>2
<1>9. OnTheWay(Here)
  BY <1>5, <1>6, <1>7 DEF OnTheWay
<1> QED BY <1>1, <1>2, <1>4, <1>8, <1>9 DEF TextInv

LEMMA TextKept == ASSUME ~LooseComments, TextInv, [TextNext]_textVars PROVE TextInv'
<1>1. CASE Name \/ Value \/ Terminate \/ Number \/ Begin \/ End \/ Layout
  BY <1>1, HandSteps
<1>2. CASE WriteString
  BY <1>2, WriteStringKeeps
<1>3. CASE WriteInt
  BY <1>3, WriteIntKeeps
<1>4. CASE \E k \in Blocks : WriteBlock(k)
  BY <1>4, WriteBlockKeeps
<1>5. CASE WriteEnd
  BY <1>5, WriteEndKeeps
<1>6. CASE Load
  BY <1>6, LoadKeeps
<1>7. CASE Skip
  BY <1>7, SkipKeeps
<1>8. CASE SkipComment
  BY <1>8, SkipCommentKeeps
<1>9. CASE Nothing
  BY <1>9, NothingKeeps
<1>10. CASE LoadString
  BY <1>10, LoadStringKeeps
<1>11. CASE LoadInt
  BY <1>11, LoadIntKeeps
<1>12. CASE LoadHash
  BY <1>12, LoadHashKeeps
<1>13. CASE \E k \in {"tree", "list"} : LoadBlock(k)
  BY <1>13, LoadBlockKeeps
<1>14. CASE Pop
  BY <1>14, PopKeeps
<1>15. CASE Collect
  BY <1>15, CollectKeeps
<1>16. CASE Finish
  BY <1>16, FinishKeeps
<1>17. CASE LoseToken
  BY <1>17, LoseTokenKeeps
<1>18. CASE UNCHANGED textVars
  <2>1. UNCHANGED <<author, phase, text, meant, open, part, clipped, begun, tok, stack, loaded>>
    BY <1>18 DEF textVars
  <2>2. TextTypes' /\ Here' = Here
    BY <2>1 DEF TextInv, TextTypes, Here
  <2>3. \A a : OnTheWay(a) <=> OnTheWay(a)'
    BY <2>1, <2>2 DEF OnTheWay, Agrees
  <2>4. Lost <=> Lost'
    BY <2>1 DEF Lost
  <2> QED BY <2>1, <2>2, <2>3, <2>4 DEF TextInv
<1> QED BY <1>1, <1>2, <1>3, <1>4, <1>5, <1>6, <1>7, <1>8, <1>9, <1>10, <1>11, <1>12, <1>13,
           <1>14, <1>15, <1>16, <1>17, <1>18 DEF TextNext

\* At the end of the file the loader is where the author was.
LEMMA AsMeant == TextInv => ReadAsMeant
<1> SUFFICES ASSUME TextInv PROVE ReadAsMeant
  OBVIOUS
<1>1. /\ loaded \in Seq(Entries) /\ meant \in Seq(Entries)
      /\ Len(loaded) <= Len(meant) /\ \A i \in 1 .. Len(loaded) : loaded[i] = meant[i]
      /\ Len(loaded) \in Nat /\ Len(meant) \in Nat
  BY DEF TextInv, TextTypes
<1>2. IsPrefix(loaded, meant)
  <2>1. PICK s : s = SubSeq(meant, 1, Len(loaded))
    OBVIOUS
  <2>2. /\ s \in Seq(Entries) /\ Len(s) = Len(loaded) /\ \A i \in 1 .. Len(loaded) : s[i] = meant[i]
    BY <1>1, <2>1
  <2>3. s = loaded
    BY <1>1, <2>2
  <2> QED BY <1>1, <2>1, <2>3 DEF IsPrefix
<1>3. ASSUME phase = "loaded" PROVE loaded = IF clipped THEN Front(meant) ELSE meant
  <2>1. text = << >>
    BY <1>3 DEF TextInv
  <2>2. CASE Lost
    <3>1. clipped /\ Len(meant) = Len(loaded) + 1
      BY <2>2 DEF Lost
    <3>2. PICK s : s = SubSeq(meant, 1, Len(loaded))
      OBVIOUS
    <3>3. s \in Seq(Entries) /\ Len(s) = Len(loaded) /\ \A i \in 1 .. Len(loaded) : s[i] = meant[i]
      BY <1>1, <3>2
    <3>4. s = loaded
      BY <1>1, <3>3
    <3>5. Front(meant) = s
      <4>1. Len(meant) - 1 = Len(loaded)
        BY <1>1, <3>1
      <4> QED BY <4>1, <3>2 DEF Front
    <3> QED BY <3>1, <3>4, <3>5
  <2>3. CASE ~Lost
    <3>1. PICK a : Agrees(a) /\ Reaches(a, text, Here, meant) /\ ~a.cut
      BY <2>1, <2>3 DEF TextInv, OnTheWay
    <3>2. a = Here
      BY <2>1, <3>1, Still
    <3>3. Len(loaded) = Len(meant) /\ ~clipped
      BY <3>1, <3>2 DEF Agrees, Here, Mark
    <3>4. loaded = meant
      BY <1>1, <3>3
    <3> QED BY <3>3, <3>4
  <2> QED BY <2>2, <2>3
<1> QED BY <1>2, <1>3 DEF ReadAsMeant

\* A file of any length, written by hand in the form of readme.txt with blanks
\* and comments anywhere, or by pdb_write, is loaded as what its author meant,
\* entry by entry and completely at the end, but for a string whose end is the
\* last byte of a file by hand, which is lost (pdb_parse.c pdb_get_token,
\* pdb_types.c pdb_standard_load_node), as long as no comment stands for the end
\* of an entry's line.
THEOREM FilesAreReadAsMeant == ASSUME ~LooseComments PROVE TextSpec => []ReadAsMeant
<1>1. TextInit => TextInv
  BY TextStarts
<1>2. TextInv /\ [TextNext]_textVars => TextInv'
  BY TextKept
<1>3. TextInv => ReadAsMeant
  BY AsMeant
<1> QED BY <1>1, <1>2, <1>3, PTL DEF TextSpec
=============================================================================
