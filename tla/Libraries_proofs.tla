-------------------------- MODULE Libraries_proofs --------------------------
(***************************************************************************)
(* Proofs about Libraries, for any files, addresses, number of plugins and *)
(* of references: the table is exactly what the objects hold, code in use  *)
(* stays mapped, what nobody uses is unmapped, and the mod is the first    *)
(* that can be.                                                            *)
(***************************************************************************)
EXTENDS Libraries, SequenceTheorems, TLAPS

Object == [file : File \ {Self}, handle : Handle, detached : BOOLEAN]
Module == [file : File \cup {NoLib}, refs : Nat, refused : 0 .. 2, dropped : BOOLEAN]
Handles == {plugins[k].handle : k \in DOMAIN plugins}
Lent == {plugins[k].handle : k \in Active}

LibTypes ==
  /\ mapped \in [Handle -> Module]
  /\ plugins \in Seq(Object)
  /\ phase \in {"search", "up", "detach", "delete", "failed", "unmapped", "stale"}
  /\ cand \in [1 .. 4 -> File \cup {NoLib}] /\ entry \subseteq File \ {Self}
  /\ tried \in 0 .. 4 /\ running \in 0 .. 4
  /\ modH \in Handle \cup {NoLib} /\ dropped \in Handle \cup {NoLib}
  /\ table \subseteq Handle

(* The linker maps a library at one address.                               *)
Once == \A h, a \in Handle : mapped[h].file = mapped[a].file => h = a \/ mapped[h].file = NoLib

(* Who holds a handle holds it alone, it is in the table, and a library is *)
(* there, never JASS; an object that was unloaded remembers a handle that  *)
(* is not the mod's.                                                       *)
Holders ==
  /\ table = (Lent \cup {modH, dropped}) \ {NoLib}
  /\ \A h \in table : mapped[h].file \in File \ {Self}
  /\ \A k, j \in Active : plugins[k].handle = plugins[j].handle => k = j
  /\ modH = dropped => modH = NoLib
Apart == \A k \in DOMAIN plugins : /\ plugins[k].handle \notin {modH, dropped}
                                   /\ mapped[plugins[k].handle].file # Self

(* Until two loads of it were refused, a library is open once for its      *)
(* holder and once for the refused load.                                   *)
Counted ==
  \A h \in Handle : mapped[h].file \in File \ {Self} /\ ~mapped[h].dropped /\ mapped[h].refused < 2 =>
    \/ h \in table /\ mapped[h].refs <= mapped[h].refused + 1
    \/ h \in Handles /\ mapped[h].refs <= mapped[h].refused
Flagged == dropped # NoLib => mapped[dropped].dropped

Phases ==
  /\ phase = "search" => plugins = << >> /\ running = 0 /\ \A h \in table : mapped[h].file \notin entry
  /\ phase = "up" => \A k \in DOMAIN plugins : ~plugins[k].detached
  /\ phase = "delete" => Active = {}
  /\ phase \in {"up", "detach", "delete"} => running > 0
  /\ running > 0 => modH # NoLib
  /\ tried = 0 => modH = NoLib
  /\ tried <= 2 => dropped = NoLib

(* While LoadMod searches: what it has passed over, and what keeps the     *)
(* first object of a pair from opening another file.                       *)
Order ==
  /\ phase = "search" => \A c \in 1 .. tried : Usable(c) => Blocked(c)
  /\ phase = "search" /\ tried \in {1, 3} /\ modH # NoLib => cand[tried] \in File \ (entry \cup {Self})
  /\ selfKnown \/ \A c \in 1 .. 4 : cand[c] # Self

LibInv == LibTypes /\ Once /\ Holders /\ Apart /\ CodeStays /\ Counted /\ Flagged /\ Phases /\ Order /\ FirstFound

-----------------------------------------------------------------------------
(* What the operations of the linker do.                                   *)

LEMMA NothingIs ==
  /\ Nothing \in Module /\ Nothing.file = NoLib /\ Nothing.refs = 0 /\ Nothing.refused = 0
  /\ Nothing.dropped = FALSE
BY DEF Nothing, Module

LEMMA Closes ==
  ASSUME NEW m \in [Handle -> Module], NEW h \in Handle, NEW n \in Nat
  PROVE  /\ Closed(m, h, n) \in [Handle -> Module]
         /\ \A a \in Handle \ {h} : Closed(m, h, n)[a] = m[a]
         /\ m[h].refs <= n => Closed(m, h, n)[h] = Nothing
         /\ m[h].refs > n => /\ Closed(m, h, n)[h].file = m[h].file
                             /\ Closed(m, h, n)[h].refs = m[h].refs - n
                             /\ Closed(m, h, n)[h].refused = m[h].refused
                             /\ Closed(m, h, n)[h].dropped = m[h].dropped
<1>1. m[h] \in Module /\ m[h].refs \in Nat
  BY DEF Module
<1>2. m[h].refs > n => [m[h] EXCEPT !.refs = @ - n] \in Module
  BY <1>1 DEF Module
<1>3. /\ m[h].refs <= n => Closed(m, h, n)[h] = Nothing
      /\ m[h].refs > n => Closed(m, h, n)[h] = [m[h] EXCEPT !.refs = @ - n]
  <2>1. CASE m[h].refs <= n
    BY <1>1, <2>1 DEF Closed
  <2>2. CASE m[h].refs > n
    <3>1. ~ (m[h].refs <= n)
      BY <1>1, <2>2
    <3> QED BY <1>1, <3>1 DEF Closed
  <2> QED BY <1>1, <2>1, <2>2
<1>4. Closed(m, h, n)[h] \in Module
  BY <1>1, <1>2, <1>3, NothingIs
<1>5. \A a \in Handle \ {h} : Closed(m, h, n)[a] = m[a]
  BY DEF Closed
<1>6. Closed(m, h, n) \in [Handle -> Module]
  BY <1>4, <1>5 DEF Closed
<1>7. m[h].refs > n => /\ Closed(m, h, n)[h].file = m[h].file
                       /\ Closed(m, h, n)[h].refs = m[h].refs - n
                       /\ Closed(m, h, n)[h].refused = m[h].refused
                       /\ Closed(m, h, n)[h].dropped = m[h].dropped
  BY <1>1, <1>3 DEF Module
<1> QED BY <1>3, <1>5, <1>6, <1>7, <1>1

LEMMA Maps ==
  ASSUME LibTypes, NEW h \in Handle, NEW f \in File, Place(h, f), Once
  PROVE  LET m == Mapping(h, f) IN
         /\ m \in [Handle -> Module]
         /\ \A a \in Handle \ {h} : m[a] = mapped[a] /\ m[a].file # f
         /\ m[h].file = f
         /\ \/ /\ mapped[h].file = f /\ m[h].refs = mapped[h].refs + 1
               /\ m[h].refused = mapped[h].refused /\ m[h].dropped = mapped[h].dropped
            \/ /\ mapped[h].file = NoLib /\ m[h].refs = 1
               /\ m[h].refused = 0 /\ m[h].dropped = FALSE
<1> DEFINE m == Mapping(h, f)
<1>1. mapped[h] \in Module /\ f # NoLib
  BY LibAssumption DEF LibTypes
<1>3. CASE mapped[h].file = f
  <2>1. m[h] = [mapped[h] EXCEPT !.refs = @ + 1]
    BY <1>3 DEF Mapping, LibTypes
  <2>2. /\ m[h].file = f /\ m[h].refs = mapped[h].refs + 1
        /\ m[h].refused = mapped[h].refused /\ m[h].dropped = mapped[h].dropped /\ m[h] \in Module
    BY <1>1, <1>3, <2>1 DEF Module
  <2>3. \A a \in Handle \ {h} : m[a] = mapped[a] /\ m[a].file # f
    BY <1>1, <1>3 DEF Mapping, Once, LibTypes
  <2>4. m \in [Handle -> Module]
    BY <2>2, <2>3 DEF Mapping, LibTypes
  <2> QED BY <1>3, <2>2, <2>3, <2>4
<1>4. CASE mapped[h].file # f
  <2>1. m[h] = OpenOnce(f)
    BY <1>4 DEF Mapping, LibTypes
  <2>2. /\ m[h].file = f /\ m[h].refs = 1
        /\ m[h].refused = 0 /\ m[h].dropped = FALSE /\ m[h] \in Module
    BY <2>1 DEF OpenOnce, Module
  <2>3. mapped[h].file = NoLib /\ At(f) = {}
    BY <1>4 DEF Place, At
  <2>4. \A a \in Handle \ {h} : m[a] = mapped[a] /\ m[a].file # f
    BY <2>3 DEF Mapping, LibTypes, At
  <2>5. m \in [Handle -> Module]
    BY <2>2, <2>4 DEF Mapping, LibTypes
  <2> QED BY <2>2, <2>3, <2>4, <2>5
<1> QED BY <1>3, <1>4

LEMMA Forgets ==
  ASSUME LibTypes, NEW h \in Handle, NEW f \in File, Place(h, f), Once
  PROVE  LET m == Mapping(h, f)
             r == Forgotten(h, f) IN
         /\ r \in [Handle -> Module]
         /\ \A a \in Handle \ {h} : r[a] = m[a]
         /\ r[h].file = m[h].file /\ r[h].refs = m[h].refs /\ r[h].dropped = m[h].dropped
         /\ r[h].refused = IF m[h].refused < 2 THEN m[h].refused + 1 ELSE m[h].refused
<1> DEFINE m == Mapping(h, f)
           r == Forgotten(h, f)
<1>1. m \in [Handle -> Module]
  BY Maps
<1> HIDE DEF m
<1>2. r = [m EXCEPT ![h].refused = IF @ < 2 THEN @ + 1 ELSE @]
  BY DEF Forgotten, m
<1>3. r[h] = [m[h] EXCEPT !.refused = IF @ < 2 THEN @ + 1 ELSE @]
  BY <1>1, <1>2
<1> HIDE DEF r
<1>4. m[h] \in Module
  BY <1>1
<1>5. /\ r[h].file = m[h].file /\ r[h].refs = m[h].refs /\ r[h].dropped = m[h].dropped
      /\ r[h].refused = IF m[h].refused < 2 THEN m[h].refused + 1 ELSE m[h].refused
      /\ r[h] \in Module
  BY <1>3, <1>4 DEF Module
<1>6. \A a \in Handle \ {h} : r[a] = m[a]
  BY <1>1, <1>2
<1>7. r \in [Handle -> Module]
  BY <1>1, <1>2, <1>5, <1>6
<1> QED BY <1>5, <1>6, <1>7 DEF m, r

(* A removed element leaves the others, in their order.                    *)
LEMMA Removes ==
  ASSUME NEW p \in Seq(Object), NEW k \in DOMAIN p, NEW q, q = RemoveAt(p, k)
  PROVE  /\ q \in Seq(Object)
         /\ \A j \in DOMAIN q : \E l \in DOMAIN p \ {k} : q[j] = p[l]
         /\ \A l \in DOMAIN p \ {k} : \E j \in DOMAIN q : q[j] = p[l]
         /\ \A i, j \in DOMAIN q : i # j => \E l, n \in DOMAIN p \ {k} : l # n /\ q[i] = p[l] /\ q[j] = p[n]
<1> DEFINE From(j) == IF j < k THEN j ELSE j + 1
<1>1. k \in 1 .. Len(p) /\ Len(p) \in Nat /\ DOMAIN p = 1 .. Len(p)
  OBVIOUS
<1>2. q \in Seq(Object) /\ Len(q) = Len(p) - 1 /\ \A j \in 1 .. Len(p) - 1 : q[j] = p[From(j)]
  <2> DEFINE s == SubSeq(p, 1, k - 1)
             t == SubSeq(p, k + 1, Len(p))
  <2>1. q = s \o t
    BY DEF RemoveAt
  <2>2. \A i \in 1 .. Len(p) : p[i] \in Object
    OBVIOUS
  <2>3. s \in Seq(Object) /\ Len(s) = k - 1 /\ \A i \in 1 .. k - 1 : s[i] = p[i]
    BY <1>1, <2>2, SubSeqProperties
  <2>4. t \in Seq(Object) /\ Len(t) = Len(p) - k /\ \A i \in 1 .. Len(p) - k : t[i] = p[k + i]
    BY <1>1, <2>2, SubSeqProperties
  <2> HIDE DEF s, t
  <2>5. q \in Seq(Object) /\ Len(q) = (k - 1) + (Len(p) - k)
    <3>1. s \o t \in Seq(Object) /\ Len(s \o t) = Len(s) + Len(t)
      BY <2>3, <2>4, ConcatProperties
    <3>2. Len(s) + Len(t) = (k - 1) + (Len(p) - k)
      BY <1>1, <2>3, <2>4
    <3> QED BY <2>1, <3>1, <3>2, Zenon
  <2>6. \A i \in 1 .. Len(q) : q[i] = IF i <= k - 1 THEN s[i] ELSE t[i - (k - 1)]
    <3>1. \A i \in 1 .. Len(s) + Len(t) : q[i] = IF i <= Len(s) THEN s[i] ELSE t[i - Len(s)]
      BY <2>1, <2>3, <2>4, ConcatProperties
    <3> QED BY <3>1, <2>3, <2>4, <2>5
  <2>7. Len(q) = Len(p) - 1
    BY <1>1, <2>5
  <2>8. ASSUME NEW j \in 1 .. Len(p) - 1 PROVE q[j] = p[From(j)]
    <3>1. CASE j < k
      <4>1. j <= k - 1 /\ j \in 1 .. k - 1 /\ j \in 1 .. Len(q)
        BY <1>1, <2>7, <3>1
      <4> QED BY <2>3, <2>6, <3>1, <4>1
    <3>2. CASE ~ (j < k)
      <4>1. q[j] = t[j - (k - 1)] /\ j - (k - 1) \in 1 .. Len(p) - k
        BY <1>1, <2>6, <2>7, <3>2
      <4>2. k + (j - (k - 1)) = j + 1
        BY <1>1
      <4> QED BY <2>4, <3>2, <4>1, <4>2
    <3> QED BY <3>1, <3>2
  <2> QED BY <2>5, <2>7, <2>8
<1>3. DOMAIN q = 1 .. Len(p) - 1
  BY <1>2
<1>4. \A j \in DOMAIN q : From(j) \in DOMAIN p \ {k} /\ q[j] = p[From(j)]
  BY <1>1, <1>2, <1>3
<1>5. \A i, j \in DOMAIN q : i # j => From(i) # From(j)
  BY <1>1, <1>3
<1>6. ASSUME NEW l \in DOMAIN p \ {k} PROVE \E j \in DOMAIN q : q[j] = p[l]
  <2> DEFINE j == IF l < k THEN l ELSE l - 1
  <2>1. j \in DOMAIN q /\ From(j) = l
    BY <1>1, <1>3
  <2> QED BY <1>4, <2>1
<1>7. \A j \in DOMAIN q : \E l \in DOMAIN p \ {k} : q[j] = p[l]
  BY <1>4
<1>8. ASSUME NEW i \in DOMAIN q, NEW j \in DOMAIN q, i # j
      PROVE  \E l, n \in DOMAIN p \ {k} : l # n /\ q[i] = p[l] /\ q[j] = p[n]
  BY <1>4, <1>5, <1>8
<1> QED BY <1>2, <1>6, <1>7, <1>8

LEMMA Appends ==
  ASSUME NEW p \in Seq(Object), NEW x \in Object
  PROVE  /\ Append(p, x) \in Seq(Object)
         /\ DOMAIN Append(p, x) = DOMAIN p \cup {Len(p) + 1} /\ Len(p) + 1 \notin DOMAIN p
         /\ \A j \in DOMAIN p : Append(p, x)[j] = p[j]
         /\ Append(p, x)[Len(p) + 1] = x
<1>1. Len(p) \in Nat /\ DOMAIN p = 1 .. Len(p)
  OBVIOUS
<1> QED BY <1>1

-----------------------------------------------------------------------------
(* JASS and the holders' libraries are where they are mapped.              *)
LEMMA SelfIs ==
  ASSUME LibInv, selfKnown
  PROVE  SelfHandle \in Handle /\ mapped[SelfHandle].file = Self
BY DEF LibInv, CodeStays, At, SelfHandle

LEMMA WhereItIs ==
  ASSUME LibInv, NEW h \in Handle, NEW f \in File, Place(h, f), Duplicate(h)
  PROVE  mapped[h].file = f /\ (f # Self => h \in table)
<1>1. mapped[h].file \in File
  BY SelfIs, LibAssumption DEF LibInv, Holders, Duplicate
<1>2. mapped[h].file = f
  BY <1>1, LibAssumption DEF Place, At
<1>3. f # Self => h \in table
  BY <1>2, SelfIs DEF Duplicate
<1> QED BY <1>2, <1>3

LEMMA Objects ==
  ASSUME LibTypes
  PROVE  /\ \A k \in DOMAIN plugins : /\ plugins[k] \in Object /\ plugins[k].handle \in Handle
                                      /\ plugins[k].file \in File \ {Self}
         /\ Active \subseteq DOMAIN plugins /\ Lent \subseteq Handles /\ Handles \subseteq Handle
         /\ \A h \in Handle : mapped[h] \in Module /\ mapped[h].refs \in Nat /\ mapped[h].refused \in 0 .. 2
<1>1. \A k \in DOMAIN plugins : plugins[k] \in Object
  BY DEF LibTypes
<1>2. \A h \in Handle : mapped[h] \in Module
  BY DEF LibTypes
<1> QED BY <1>1, <1>2 DEF Object, Active, Lent, Handles, Module

LEMMA NotHeld ==
  ASSUME LibInv, NEW h \in Handle, ~Duplicate(h)
  PROVE  /\ h \notin table /\ h # modH /\ h # dropped
         /\ \A k \in Active : plugins[k].handle # h
BY LibAssumption DEF LibInv, Holders, Duplicate, Lent

(* The plugins stay: nothing said of them alone changes.                   *)
LEMMA SamePlugins ==
  ASSUME plugins' = plugins
  PROVE  Active' = Active /\ Lent' = Lent /\ Handles' = Handles
BY DEF Active, Lent, Handles

LEMMA InitInv == LibInit => LibInv
<1> SUFFICES ASSUME LibInit PROVE LibInv
  OBVIOUS
<1>1. PICK h \in Handle :
         mapped = [a \in Handle |-> IF a = h THEN OpenOnce(Self) ELSE Nothing]
  BY DEF LibInit
<1>2. OpenOnce(Self) \in Module /\ OpenOnce(Self).file = Self /\ Self # NoLib
  BY LibAssumption DEF OpenOnce, Module
<1>3. /\ mapped \in [Handle -> Module] /\ mapped[h].file = Self
      /\ \A a \in Handle \ {h} : mapped[a].file = NoLib
  BY <1>1, <1>2, NothingIs
<1>4. Active = {} /\ Lent = {}
  BY DEF LibInit, Active, Lent
<1>5. LibTypes
  <2>1. << >> \in Seq(Object)
    OBVIOUS
  <2>2. cand \in [1 .. 4 -> File \cup {NoLib}]
    BY DEF LibInit
  <2> QED BY <1>3, <2>1, <2>2 DEF LibInit, LibTypes
<1>6. Once /\ Counted
  BY <1>2, <1>3, LibAssumption DEF Once, Counted
<1>7. Holders /\ Apart /\ Flagged
  BY <1>4 DEF LibInit, Holders, Apart, Flagged
<1>8. CodeStays
  BY <1>3, <1>4 DEF LibInit, CodeStays, At
<1>9. Phases
  BY DEF LibInit, Phases
<1>10. Order /\ FirstFound
  BY LibAssumption DEF LibInit, Order, FirstFound
<1> QED BY <1>5, <1>6, <1>7, <1>8, <1>9, <1>10 DEF LibInv

(* A refused load is counted where the library is.                         *)
LEMMA RefusedLoad ==
  ASSUME LibInv, NEW f \in File, NEW h \in Handle, Place(h, f), Duplicate(h),
         NEW r, r = Forgotten(h, f)
  PROVE  /\ r \in [Handle -> Module]
         /\ \A a \in Handle \ {h} : r[a] = mapped[a]
         /\ r[h].file = f /\ r[h].refs = mapped[h].refs + 1
         /\ r[h].dropped = mapped[h].dropped
         /\ r[h].refused = IF mapped[h].refused < 2 THEN mapped[h].refused + 1 ELSE mapped[h].refused
<1> DEFINE m == Mapping(h, f)
<1>1. mapped[h].file = f /\ LibTypes /\ Once /\ f # NoLib
  BY WhereItIs, LibAssumption DEF LibInv
<1>2. /\ \A a \in Handle \ {h} : m[a] = mapped[a] /\ m[a].file # f
      /\ m[h].file = f
      /\ \/ /\ mapped[h].file = f /\ m[h].refs = mapped[h].refs + 1
            /\ m[h].refused = mapped[h].refused /\ m[h].dropped = mapped[h].dropped
         \/ /\ mapped[h].file = NoLib /\ m[h].refs = 1
            /\ m[h].refused = 0 /\ m[h].dropped = FALSE
  BY <1>1, Maps
<1>3. /\ r \in [Handle -> Module]
      /\ \A a \in Handle \ {h} : r[a] = m[a]
      /\ r[h].file = m[h].file /\ r[h].refs = m[h].refs /\ r[h].dropped = m[h].dropped
      /\ r[h].refused = IF m[h].refused < 2 THEN m[h].refused + 1 ELSE m[h].refused
  BY <1>1, Forgets
<1> HIDE DEF m
<1> QED BY <1>1, <1>2, <1>3

LEMMA PluginRefusedStep ==
  ASSUME LibInv, NEW f \in File, NEW h \in Handle, PluginRefused(f, h), UNCHANGED selfKnown
  PROVE  LibInv'
<1>1. /\ Place(h, f) /\ Duplicate(h) /\ mapped' = Forgotten(h, f)
      /\ UNCHANGED <<table, plugins, phase, cand, entry, tried, modH, running, dropped, selfKnown>>
  BY DEF PluginRefused, Refuse
<1>2. mapped[h].file = f /\ (f # Self => h \in table)
  BY <1>1, WhereItIs
<1>3. LibTypes /\ Once /\ f # NoLib
  BY LibAssumption DEF LibInv
<1>4. /\ mapped' \in [Handle -> Module]
      /\ \A a \in Handle \ {h} : mapped'[a] = mapped[a]
      /\ mapped'[h].file = f /\ mapped'[h].refs = mapped[h].refs + 1
      /\ mapped'[h].dropped = mapped[h].dropped
      /\ mapped'[h].refused = IF mapped[h].refused < 2 THEN mapped[h].refused + 1 ELSE mapped[h].refused
  BY <1>1, RefusedLoad
<1>5. \A a \in Handle : mapped'[a].file = mapped[a].file /\ mapped'[a].dropped = mapped[a].dropped
  BY <1>2, <1>4
<1>6. Active' = Active /\ Lent' = Lent /\ Handles' = Handles
  BY <1>1, SamePlugins
<1>7. LibTypes'
  BY <1>1, <1>4, <1>3 DEF LibTypes
<1>8. Once'
  BY <1>3, <1>5 DEF Once
<1>9. Holders' /\ Apart' /\ Flagged'
  <2>1. \A k \in DOMAIN plugins : plugins[k].handle \in Handle
    BY <1>3, Objects
  <2> QED BY <1>1, <1>3, <1>5, <1>6, <2>1 DEF LibInv, Holders, Apart, Flagged, LibTypes
<1>10. CodeStays'
  <2>1. \A k \in Active : plugins[k].handle \in Handle
    BY <1>3, Objects
  <2>2. modH \in Handle \/ running = 0
    BY <1>3 DEF LibInv, LibTypes, Phases
  <2>3. At(Self)' = At(Self)
    BY <1>5 DEF At
  <2> QED BY <1>1, <1>5, <1>6, <2>1, <2>2, <2>3 DEF LibInv, CodeStays, LibTypes
<1>11. Counted'
  <2>1. mapped[h].refs \in Nat /\ mapped[h].refused \in 0 .. 2
    BY <1>3, Objects
  <2>2. ASSUME f # Self, ~mapped[h].dropped, mapped[h].refused < 2
        PROVE  mapped[h].refs <= mapped[h].refused + 1
    <3>1. mapped[h].file \in File \ {Self}
      BY <1>2, <2>2
    <3> QED BY <2>1, <2>2, <3>1 DEF LibInv, Counted
  <2> QED BY <1>1, <1>2, <1>4, <1>6, <2>1, <2>2 DEF LibInv, Counted
<1>12. Phases' /\ Order' /\ FirstFound'
  <2>1. phase # "search"
    BY DEF PluginRefused, Loads
  <2> QED BY <1>1, <1>6, <2>1 DEF LibInv, Phases, Order, FirstFound, Usable, Blocked
<1> QED BY <1>7, <1>8, <1>9, <1>10, <1>11, <1>12 DEF LibInv

(* What happens at an address nobody holds disturbs nobody.                *)
LEMMA Elsewhere ==
  ASSUME LibInv, NEW h \in Handle, h \notin table, mapped[h].file # Self,
         mapped' \in [Handle -> Module], \A a \in Handle \ {h} : mapped'[a] = mapped[a],
         mapped'[h].file # Self, phase # "search",
         UNCHANGED <<table, plugins, phase, cand, entry, tried, modH, running, dropped, selfKnown>>
  PROVE  LibTypes' /\ Holders' /\ Apart' /\ CodeStays' /\ Flagged' /\ Phases' /\ Order' /\ FirstFound'
<1>0. LibTypes /\ Holders /\ Apart /\ CodeStays /\ Flagged
  BY DEF LibInv
<1>1. Active' = Active /\ Lent' = Lent /\ Handles' = Handles
  BY SamePlugins
<1>2. LibTypes'
  BY <1>0 DEF LibTypes
<1>3. \A k \in DOMAIN plugins : plugins[k].handle \in Handle
  BY <1>0, Objects
<1>4. Holders' /\ Apart'
  <2>1. Holders'
    BY <1>0, <1>1 DEF Holders, LibTypes
  <2>2. ASSUME NEW k \in DOMAIN plugins PROVE mapped'[plugins[k].handle].file # Self
    BY <1>0, <1>3, <2>2 DEF Apart
  <2>3. Apart'
    BY <1>0, <2>2 DEF Apart
  <2> QED BY <2>1, <2>3
<1>5. Flagged'
  BY <1>0, LibAssumption DEF Flagged, Holders, LibTypes
<1>6. CodeStays'
  <2>1. \A k \in Active : plugins[k].handle \in table
    BY <1>0, <1>3, Objects, LibAssumption DEF Holders, Lent
  <2>2. \A k \in Active : mapped'[plugins[k].handle] = mapped[plugins[k].handle]
    BY <1>0, <2>1 DEF LibTypes
  <2>3. running > 0 => modH \in table
    BY <1>0 DEF LibInv, Phases, Holders
  <2>4. running > 0 => mapped'[modH] = mapped[modH]
    BY <1>0, <2>3 DEF LibTypes
  <2>5. At(Self)' = At(Self)
    BY DEF At
  <2> QED BY <1>0, <1>1, <2>2, <2>4, <2>5 DEF CodeStays
<1>7. Phases' /\ Order' /\ FirstFound'
  BY <1>1 DEF LibInv, Phases, Order, FirstFound, Usable, Blocked
<1> QED BY <1>2, <1>4, <1>5, <1>6, <1>7

(* A load that is given up closes all it opened.                           *)
LEMMA GivenUp ==
  ASSUME LibInv, NEW f \in File, NEW h \in Handle, Place(h, f), ~Duplicate(h),
         NEW n \in {2, 3}, mapped' = Closed(Mapping(h, f), h, n),
         UNCHANGED <<table, plugins>>
  PROVE  /\ mapped' \in [Handle -> Module] /\ \A a \in Handle \ {h} : mapped'[a] = mapped[a]
         /\ mapped[h].file \in {NoLib, f} /\ mapped'[h].file \in {NoLib, f}
         /\ Once' /\ Counted'
<1> DEFINE m == Mapping(h, f)
<1>0. LibTypes /\ Once /\ Counted /\ f # NoLib /\ n \in Nat
  BY LibAssumption DEF LibInv
<1>1. /\ m \in [Handle -> Module]
      /\ \A a \in Handle \ {h} : m[a] = mapped[a] /\ m[a].file # f
      /\ m[h].file = f
      /\ \/ /\ mapped[h].file = f /\ m[h].refs = mapped[h].refs + 1
            /\ m[h].refused = mapped[h].refused /\ m[h].dropped = mapped[h].dropped
         \/ /\ mapped[h].file = NoLib /\ m[h].refs = 1
            /\ m[h].refused = 0 /\ m[h].dropped = FALSE
  BY <1>0, Maps
<1>2. mapped' = Closed(m, h, n)
  OBVIOUS
<1> HIDE DEF m
<1>3. /\ mapped' \in [Handle -> Module]
      /\ \A a \in Handle \ {h} : mapped'[a] = m[a]
      /\ m[h].refs <= n => mapped'[h] = Nothing
      /\ m[h].refs > n => /\ mapped'[h].file = m[h].file
                          /\ mapped'[h].refs = m[h].refs - n
                          /\ mapped'[h].refused = m[h].refused
                          /\ mapped'[h].dropped = m[h].dropped
  BY <1>0, <1>1, <1>2, Closes
<1>4. m[h].refs \in Nat /\ mapped[h].refs \in Nat /\ mapped[h].refused \in 0 .. 2
  BY <1>0, <1>1, Objects DEF Module
<1>5. mapped'[h].file \in {NoLib, f} /\ \A a \in Handle \ {h} : mapped'[a] = mapped[a] /\ mapped'[a].file # f
  BY <1>1, <1>3, <1>4, NothingIs
<1>6. Once'
  BY <1>0, <1>5 DEF Once
<1>7. h \notin table
  BY NotHeld
<1>8. Counted'
  <2>1. Handles' = Handles
    BY SamePlugins
  <2>2. ASSUME mapped'[h].file \in File \ {Self}, ~mapped'[h].dropped, mapped'[h].refused < 2
        PROVE  FALSE
    <3>1. m[h].refs > n /\ mapped'[h].file = f
      BY <1>3, <1>4, <1>5, <2>2, NothingIs, LibAssumption
    <3>2. /\ mapped[h].file = f /\ m[h].refs = mapped[h].refs + 1 /\ f # Self
          /\ mapped[h].refused < 2 /\ ~mapped[h].dropped
      BY <1>0, <1>1, <1>3, <2>2, <3>1
    <3>3. mapped[h].refs <= mapped[h].refused
      BY <1>0, <1>7, <3>2 DEF Counted
    <3> QED BY <1>4, <3>1, <3>2, <3>3
  <2> QED BY <1>0, <1>5, <2>1, <2>2 DEF Counted
<1> QED BY <1>1, <1>3, <1>5, <1>6, <1>8

LEMMA AttachRefusesStep ==
  ASSUME LibInv, NEW f \in File, NEW h \in Handle, AttachRefuses(f, h), UNCHANGED selfKnown
  PROVE  LibInv'
<1>1. /\ f # Self /\ Place(h, f) /\ ~Duplicate(h) /\ phase # "search"
      /\ mapped' = Closed(Mapping(h, f), h, 3)
      /\ UNCHANGED <<table, plugins, phase, cand, entry, tried, modH, running, dropped, selfKnown>>
  BY DEF AttachRefuses, Loads
<1>2. /\ mapped' \in [Handle -> Module] /\ \A a \in Handle \ {h} : mapped'[a] = mapped[a]
      /\ mapped[h].file \in {NoLib, f} /\ mapped'[h].file \in {NoLib, f}
      /\ Once' /\ Counted'
  BY <1>1, GivenUp
<1>3. h \notin table /\ Self # NoLib
  BY <1>1, NotHeld, LibAssumption
<1>4. LibTypes' /\ Holders' /\ Apart' /\ CodeStays' /\ Flagged' /\ Phases' /\ Order' /\ FirstFound'
  BY <1>1, <1>2, <1>3, Elsewhere
<1> QED BY <1>2, <1>4 DEF LibInv

LEMMA QueryFailsStep ==
  ASSUME LibInv, NEW f \in File, NEW h \in Handle, QueryFails(f, h), UNCHANGED selfKnown
  PROVE  LibInv'
<1>1. /\ Place(h, f) /\ ~Duplicate(h) /\ phase \in {"up", "detach"}
      /\ mapped' = Closed(Mapping(h, f), h, 2)
      /\ phase' = IF f = Self THEN "unmapped" ELSE phase
      /\ UNCHANGED <<table, plugins, cand, entry, tried, modH, running, dropped, selfKnown>>
  BY DEF QueryFails, Loads
<1>2. /\ mapped' \in [Handle -> Module] /\ \A a \in Handle \ {h} : mapped'[a] = mapped[a]
      /\ mapped[h].file \in {NoLib, f} /\ mapped'[h].file \in {NoLib, f}
      /\ Once' /\ Counted'
  BY <1>1, GivenUp
<1>3. h \notin table /\ Self # NoLib
  BY <1>1, NotHeld, LibAssumption
<1>4. CASE f # Self
  <2>1. LibTypes' /\ Holders' /\ Apart' /\ CodeStays' /\ Flagged' /\ Phases' /\ Order' /\ FirstFound'
    BY <1>1, <1>2, <1>3, <1>4, Elsewhere
  <2> QED BY <1>2, <2>1 DEF LibInv
<1>5. CASE f = Self
  <2>0. LibTypes /\ Holders /\ Apart /\ CodeStays /\ Flagged /\ phase' = "unmapped" /\ phase # "unmapped"
    BY <1>1, <1>5 DEF LibInv
  <2>1. mapped[h].file = Self
    BY <1>1, <1>3, <1>5, <2>0 DEF Place, At, CodeStays
  <2>2. ~selfKnown
    <3> SUFFICES ASSUME selfKnown PROVE FALSE
      OBVIOUS
    <3>1. h = SelfHandle
      BY <1>3, <2>1, SelfIs DEF LibInv, Once
    <3> QED BY <1>1, <3>1 DEF Duplicate
  <2>3. Active' = Active /\ Lent' = Lent /\ Handles' = Handles
    BY <1>1, SamePlugins
  <2>4. LibTypes'
    BY <1>1, <1>2, <2>0 DEF LibTypes
  <2>5. \A k \in DOMAIN plugins : plugins[k].handle \in Handle /\ plugins[k].handle # h
    BY <2>0, <2>1, Objects DEF Apart
  <2>6. Holders' /\ Apart'
    <3>1. Holders'
      BY <1>1, <1>2, <1>3, <2>0, <2>3 DEF Holders, LibTypes
    <3>2. Apart'
      BY <1>1, <1>2, <2>0, <2>5 DEF Apart
    <3> QED BY <3>1, <3>2
  <2>7. Flagged'
    BY <1>1, <1>2, <1>3, <2>0, LibAssumption DEF Flagged, Holders, LibTypes
  <2>8. CodeStays'
    <3>1. \A k \in Active : mapped'[plugins[k].handle] = mapped[plugins[k].handle]
      BY <1>2, <2>0, <2>5, Objects
    <3>2. running > 0 => modH \in table
      BY <2>0 DEF LibInv, Phases, Holders
    <3>3. running > 0 => mapped'[modH] = mapped[modH]
      BY <1>2, <1>3, <2>0, <3>2 DEF LibTypes
    <3> QED BY <1>1, <2>0, <2>2, <2>3, <3>1, <3>3 DEF CodeStays
  <2>9. Phases' /\ Order' /\ FirstFound'
    BY <1>1, <2>0, <2>3 DEF LibInv, Phases, Order, FirstFound, Usable, Blocked
  <2> QED BY <1>2, <2>4, <2>6, <2>7, <2>8, <2>9 DEF LibInv
<1> QED BY <1>4, <1>5

(* An accepted load opens the library once more than its refused loads     *)
(* left it open.                                                           *)
LEMMA OpenedHere ==
  ASSUME LibInv, NEW f \in File, NEW h \in Handle, f # Self, Place(h, f), ~Duplicate(h),
         NEW m, m = Mapping(h, f)
  PROVE  /\ m \in [Handle -> Module]
         /\ \A a \in Handle \ {h} : m[a] = mapped[a] /\ m[a].file # f
         /\ m[h].file = f /\ mapped[h].file \in {NoLib, f}
         /\ ~m[h].dropped /\ m[h].refused < 2 => m[h].refs <= m[h].refused + 1
<1>0. LibTypes /\ Once /\ f # NoLib /\ h \notin table /\ Counted
  BY NotHeld, LibAssumption DEF LibInv
<1>1. /\ m \in [Handle -> Module]
      /\ \A a \in Handle \ {h} : m[a] = mapped[a] /\ m[a].file # f
      /\ m[h].file = f
      /\ \/ /\ mapped[h].file = f /\ m[h].refs = mapped[h].refs + 1
            /\ m[h].refused = mapped[h].refused /\ m[h].dropped = mapped[h].dropped
         \/ /\ mapped[h].file = NoLib /\ m[h].refs = 1
            /\ m[h].refused = 0 /\ m[h].dropped = FALSE
  <2> DEFINE w == Mapping(h, f)
  <2>1. /\ w \in [Handle -> Module]
        /\ \A a \in Handle \ {h} : w[a] = mapped[a] /\ w[a].file # f
        /\ w[h].file = f
        /\ \/ /\ mapped[h].file = f /\ w[h].refs = mapped[h].refs + 1
              /\ w[h].refused = mapped[h].refused /\ w[h].dropped = mapped[h].dropped
           \/ /\ mapped[h].file = NoLib /\ w[h].refs = 1
              /\ w[h].refused = 0 /\ w[h].dropped = FALSE
    BY <1>0, Maps
  <2>2. m = w
    OBVIOUS
  <2> HIDE DEF w
  <2> QED BY <2>1, <2>2
<1>2. mapped[h].refs \in Nat /\ mapped[h].refused \in 0 .. 2
  BY <1>0, Objects
<1>3. ASSUME ~m[h].dropped, m[h].refused < 2 PROVE m[h].refs <= m[h].refused + 1
  <2>1. CASE mapped[h].file = NoLib
    BY <1>0, <1>1, <2>1
  <2>2. CASE mapped[h].file = f
    <3>1. /\ m[h].refs = mapped[h].refs + 1
          /\ m[h].refused = mapped[h].refused /\ m[h].dropped = mapped[h].dropped
      BY <1>0, <1>1, <2>2
    <3>2. mapped[h].refs <= mapped[h].refused
      BY <1>0, <1>3, <2>2, <3>1 DEF Counted
    <3> QED BY <1>2, <3>1, <3>2
  <2> QED BY <1>1, <2>1, <2>2
<1> QED BY <1>1, <1>3

LEMMA AttachStep ==
  ASSUME LibInv, NEW f \in File, NEW h \in Handle, Attach(f, h), UNCHANGED selfKnown
  PROVE  LibInv'
<1> DEFINE x == [file |-> f, handle |-> h, detached |-> FALSE]
           n == Len(plugins) + 1
<1>1. /\ phase \in {"up", "detach"} /\ f # Self /\ Place(h, f) /\ ~Duplicate(h)
      /\ mapped' = Mapping(h, f) /\ table' = table \cup {h}
      /\ plugins' = Append(plugins, x)
      /\ UNCHANGED <<phase, cand, entry, tried, modH, running, dropped, selfKnown>>
  BY DEF Attach, Loads, Load
<1>0. /\ LibTypes /\ Once /\ Holders /\ Apart /\ CodeStays /\ Counted /\ Flagged
      /\ f # NoLib /\ Self # NoLib /\ NoLib \notin Handle
  BY LibAssumption DEF LibInv
<1>2. /\ mapped' \in [Handle -> Module]
      /\ \A a \in Handle \ {h} : mapped'[a] = mapped[a] /\ mapped'[a].file # f
      /\ mapped'[h].file = f /\ mapped[h].file \in {NoLib, f}
      /\ ~mapped'[h].dropped /\ mapped'[h].refused < 2 => mapped'[h].refs <= mapped'[h].refused + 1
  BY <1>1, OpenedHere
<1>3. h \notin table /\ h # modH /\ h # dropped /\ \A k \in Active : plugins[k].handle # h
  BY <1>1, NotHeld
<1>4. x \in Object /\ x.file = f /\ x.handle = h /\ x.detached = FALSE
  BY <1>1 DEF Object
<1> HIDE DEF x
<1>5. /\ plugins' \in Seq(Object)
      /\ DOMAIN plugins' = DOMAIN plugins \cup {n} /\ n \notin DOMAIN plugins
      /\ \A j \in DOMAIN plugins : plugins'[j] = plugins[j]
      /\ plugins'[n] = x
  BY <1>0, <1>1, <1>4, Appends DEF LibTypes
<1> HIDE DEF n
<1>6. Active' = Active \cup {n}
  BY <1>4, <1>5 DEF Active
<1>7. Lent' = Lent \cup {h} /\ Handles' = Handles \cup {h}
  <2>1. Handles' = Handles \cup {h}
    BY <1>4, <1>5 DEF Handles
  <2>2. \A k \in Active : k \in DOMAIN plugins /\ plugins'[k] = plugins[k]
    BY <1>5 DEF Active
  <2>3. Lent' = Lent \cup {h}
    BY <1>4, <1>5, <1>6, <2>2 DEF Lent
  <2> QED BY <2>1, <2>3
<1>8. /\ \A k \in DOMAIN plugins : plugins[k].handle \in Handle
      /\ Active \subseteq DOMAIN plugins
  BY <1>0, Objects
<1>9. LibTypes'
  BY <1>0, <1>1, <1>2, <1>5 DEF LibTypes
<1>10. Once'
  BY <1>0, <1>2 DEF Once
<1>11. Holders'
  <2>1. table' = (Lent' \cup {modH', dropped'}) \ {NoLib}
    BY <1>0, <1>1, <1>7 DEF Holders
  <2>2. \A a \in table' : mapped'[a].file \in File \ {Self}
    BY <1>0, <1>1, <1>2 DEF Holders, LibTypes
  <2>3. \A k, j \in Active' : plugins'[k].handle = plugins'[j].handle => k = j
    BY <1>0, <1>3, <1>4, <1>5, <1>6, <1>8 DEF Holders
  <2> QED BY <1>0, <1>1, <2>1, <2>2, <2>3 DEF Holders
<1>12. Apart'
  <2>1. ASSUME NEW k \in DOMAIN plugins PROVE mapped'[plugins[k].handle].file # Self
    BY <1>0, <1>1, <1>2, <1>8 DEF Apart
  <2> QED BY <1>0, <1>1, <1>2, <1>3, <1>4, <1>5, <2>1 DEF Apart
<1>13. Flagged'
  BY <1>0, <1>1, <1>2, <1>3 DEF Flagged, LibTypes
<1>14. CodeStays'
  <2>1. \A k \in Active : mapped'[plugins[k].handle] = mapped[plugins[k].handle]
    BY <1>2, <1>3, <1>8
  <2>2. \A k \in Active' : mapped'[plugins'[k].handle].file = plugins'[k].file
    BY <1>0, <1>2, <1>4, <1>5, <1>6, <1>8, <2>1 DEF CodeStays
  <2>3. running > 0 => mapped'[modH] = mapped[modH]
    BY <1>0, <1>2, <1>3 DEF LibTypes, LibInv, Phases
  <2>4. At(Self)' = At(Self)
    BY <1>1, <1>2, <1>0 DEF At
  <2> QED BY <1>0, <1>1, <2>2, <2>3, <2>4 DEF CodeStays
<1>15. Counted'
  BY <1>0, <1>1, <1>2, <1>7 DEF Counted
<1>16. Phases' /\ Order' /\ FirstFound'
  <2>1. \A k \in DOMAIN plugins : plugins'[k] = plugins[k]
    BY <1>5
  <2> QED BY <1>1, <1>4, <1>5, <2>1 DEF LibInv, Phases, Order, FirstFound, Usable, Blocked
<1> QED BY <1>9, <1>10, <1>11, <1>12, <1>13, <1>14, <1>15, <1>16 DEF LibInv

LEMMA StopStep ==
  ASSUME LibInv, Stop, UNCHANGED selfKnown
  PROVE  LibInv'
<1>1. /\ phase = "up" /\ phase' = "detach"
      /\ UNCHANGED <<mapped, table, plugins, cand, entry, tried, modH, running, dropped, selfKnown>>
  BY DEF Stop
<1>2. Active' = Active /\ Lent' = Lent /\ Handles' = Handles
  BY <1>1, SamePlugins
<1>3. LibTypes' /\ Once' /\ Holders' /\ Apart' /\ Counted' /\ Flagged'
  BY <1>1, <1>2 DEF LibInv, LibTypes, Once, Holders, Apart, Counted, Flagged
<1>4. CodeStays' /\ Phases' /\ Order' /\ FirstFound'
  <2>1. At(Self)' = At(Self)
    BY <1>1 DEF At
  <2> QED BY <1>1, <1>2, <2>1 DEF LibInv, CodeStays, Phases, Order, FirstFound, Usable, Blocked
<1> QED BY <1>3, <1>4 DEF LibInv

-----------------------------------------------------------------------------
(* Closing                                                                 *)

LEMMA ClosedHere ==
  ASSUME LibInv, NEW h \in Handle, NEW n \in Nat, mapped' = Closed(mapped, h, n)
  PROVE  /\ mapped' \in [Handle -> Module]
         /\ \A a \in Handle \ {h} : mapped'[a] = mapped[a]
         /\ mapped'[h].file \in {NoLib, mapped[h].file}
         /\ mapped'[h].file # NoLib => /\ mapped[h].refs > n
                                       /\ mapped'[h].refused = mapped[h].refused
                                       /\ mapped'[h].refs = mapped[h].refs - n
                                       /\ mapped'[h].dropped = mapped[h].dropped
         /\ Once'
<1>0. LibTypes /\ Once /\ mapped[h].refs \in Nat
  BY Objects DEF LibInv
<1>1. /\ mapped' \in [Handle -> Module]
      /\ \A a \in Handle \ {h} : mapped'[a] = mapped[a]
      /\ mapped[h].refs <= n => mapped'[h] = Nothing
      /\ mapped[h].refs > n => /\ mapped'[h].file = mapped[h].file
                               /\ mapped'[h].refs = mapped[h].refs - n
                               /\ mapped'[h].refused = mapped[h].refused
                               /\ mapped'[h].dropped = mapped[h].dropped
  BY <1>0, Closes DEF LibTypes
<1>2. mapped'[h].file \in {NoLib, mapped[h].file}
  BY <1>0, <1>1, NothingIs
<1>3. Once'
  BY <1>0, <1>1, <1>2 DEF Once
<1>4. mapped'[h].file # NoLib => mapped[h].refs > n
  BY <1>0, <1>1, NothingIs
<1> QED BY <1>1, <1>2, <1>3, <1>4

(* Two closes are enough for the holder and a refused load, three for what *)
(* a plugin that is unloaded and destroyed may have left.                  *)
LEMMA Enough ==
  ASSUME LibInv, NEW h \in Handle, NEW n \in Nat, n >= 2, mapped' = Closed(mapped, h, n),
         mapped'[h].file \in File \ {Self}
  PROVE  mapped'[h].dropped \/ ~ (mapped'[h].refused < 2)
<1>0. LibTypes /\ mapped[h].refs \in Nat /\ mapped[h].refused \in 0 .. 2 /\ NoLib \notin File
  BY Objects, LibAssumption DEF LibInv
<1> SUFFICES ASSUME ~mapped'[h].dropped, mapped'[h].refused < 2 PROVE FALSE
  OBVIOUS
<1>1. /\ mapped[h].refs > n /\ mapped'[h].refused = mapped[h].refused
      /\ mapped'[h].dropped = mapped[h].dropped /\ mapped[h].file \in File \ {Self}
  BY <1>0, ClosedHere
<1>2. mapped[h].refs <= mapped[h].refused + 1
  BY <1>0, <1>1 DEF LibInv, Counted
<1> QED BY <1>0, <1>1, <1>2

(* An object gives up its handle: nobody else loses what it holds.         *)
LEMMA GivesUp ==
  ASSUME LibInv, NEW h \in Handle, mapped[h].file # Self, h # modH, h # dropped,
         mapped' \in [Handle -> Module], \A a \in Handle \ {h} : mapped'[a] = mapped[a],
         mapped'[h].file # Self, table' = table \ {h},
         \A j \in DOMAIN plugins' : \E l \in DOMAIN plugins : plugins'[j].handle = plugins[l].handle,
         \A j \in Active' : \E l \in Active : plugins[l].handle # h /\ plugins'[j] = plugins[l],
         \A i, j \in Active' : i # j =>
            \E l, n \in Active : l # n /\ plugins'[i] = plugins[l] /\ plugins'[j] = plugins[n],
         \A l \in Active : plugins[l].handle # h => \E j \in Active' : plugins'[j] = plugins[l],
         phase \in {"up", "detach", "delete"}, phase' # "search", phase' # "failed",
         UNCHANGED <<cand, entry, tried, modH, running, dropped, selfKnown>>
  PROVE  Holders' /\ Apart' /\ CodeStays' /\ Flagged'
<1>0. LibTypes /\ Holders /\ Apart /\ CodeStays /\ Flagged /\ running > 0 /\ modH # NoLib /\ NoLib \notin Handle
  BY LibAssumption DEF LibInv, Phases
<1>1. Lent' = Lent \ {h}
  BY DEF Lent
<1>2. \A l \in Active : l \in DOMAIN plugins /\ plugins[l].handle \in Handle
  BY <1>0, Objects
<1>3. Holders'
  <2>1. table' = (Lent' \cup {modH', dropped'}) \ {NoLib}
    BY <1>0, <1>1 DEF Holders
  <2>2. \A a \in table' : mapped'[a].file \in File \ {Self}
    BY <1>0 DEF Holders, LibTypes
  <2>3. \A i, j \in Active' : plugins'[i].handle = plugins'[j].handle => i = j
    BY <1>0 DEF Holders
  <2> QED BY <1>0, <2>1, <2>2, <2>3 DEF Holders
<1>4. Apart'
  <2>1. ASSUME NEW l \in DOMAIN plugins
        PROVE  plugins[l].handle \notin {modH, dropped} /\ mapped'[plugins[l].handle].file # Self
    <3>1. plugins[l].handle \in Handle
      BY <1>0, Objects
    <3> QED BY <1>0, <3>1 DEF Apart
  <2> QED BY <2>1 DEF Apart
<1>5. Flagged'
  BY <1>0 DEF Flagged, LibTypes
<1>6. CodeStays'
  <2>1. \A j \in Active' : mapped'[plugins'[j].handle].file = plugins'[j].file
    <3>1. ASSUME NEW l \in Active, plugins[l].handle # h
          PROVE  mapped'[plugins[l].handle].file = plugins[l].file
      BY <1>0, <1>2, <3>1 DEF CodeStays
    <3> QED BY <3>1
  <2>2. mapped'[modH] = mapped[modH]
    BY <1>0 DEF LibTypes
  <2>3. At(Self)' = At(Self)
    BY DEF At
  <2>4. phase # "unmapped"
    OBVIOUS
  <2> QED BY <1>0, <2>1, <2>2, <2>3, <2>4 DEF CodeStays
<1> QED BY <1>3, <1>4, <1>5, <1>6

LEMMA UnloadPluginStep ==
  ASSUME LibInv, NEW k \in DOMAIN plugins, UnloadPlugin(k), UNCHANGED selfKnown
  PROVE  LibInv'
<1> DEFINE h == plugins[k].handle
<1>1. /\ phase = "up" /\ mapped' = Closed(mapped, h, 3) /\ table' = table \ {h}
      /\ plugins' = RemoveAt(plugins, k)
      /\ UNCHANGED <<phase, cand, entry, tried, modH, running, dropped, selfKnown>>
  BY DEF UnloadPlugin
<1>0. /\ LibTypes /\ Counted /\ NoLib # Self /\ NoLib \notin File
      /\ h \in Handle /\ h # modH /\ h # dropped /\ mapped[h].file # Self
  BY Objects, LibAssumption DEF LibInv, Apart
<1> HIDE DEF h
<1>2. /\ plugins' \in Seq(Object)
      /\ \A j \in DOMAIN plugins' : \E l \in DOMAIN plugins \ {k} : plugins'[j] = plugins[l]
      /\ \A l \in DOMAIN plugins \ {k} : \E j \in DOMAIN plugins' : plugins'[j] = plugins[l]
      /\ \A i, j \in DOMAIN plugins' : i # j =>
           \E l, n \in DOMAIN plugins \ {k} : l # n /\ plugins'[i] = plugins[l] /\ plugins'[j] = plugins[n]
  <2> DEFINE Left(q) ==
        /\ q \in Seq(Object)
        /\ \A j \in DOMAIN q : \E l \in DOMAIN plugins \ {k} : q[j] = plugins[l]
        /\ \A l \in DOMAIN plugins \ {k} : \E j \in DOMAIN q : q[j] = plugins[l]
        /\ \A i, j \in DOMAIN q : i # j =>
             \E l, n \in DOMAIN plugins \ {k} : l # n /\ q[i] = plugins[l] /\ q[j] = plugins[n]
  <2>1. plugins \in Seq(Object)
    BY <1>0 DEF LibTypes
  <2>2. \A q : q = RemoveAt(plugins, k) => Left(q)
    BY <2>1, Removes
  <2>3. plugins' = RemoveAt(plugins, k) => Left(plugins')
    <3> HIDE DEF Left
    <3> QED BY <2>2, Zenon
  <2> QED BY <1>1, <2>3
<1>3. \A l \in DOMAIN plugins : ~plugins[l].detached
  BY <1>1 DEF LibInv, Phases
<1>4. Active = DOMAIN plugins /\ Active' = DOMAIN plugins'
  <2>1. ASSUME NEW j \in DOMAIN plugins' PROVE ~plugins'[j].detached
    BY <1>2, <1>3
  <2> QED BY <1>3, <2>1 DEF Active
<1>5. \A l \in DOMAIN plugins \ {k} : plugins[l].handle # h
  BY <1>4 DEF LibInv, Holders, h
<1>6. /\ mapped' \in [Handle -> Module]
      /\ \A a \in Handle \ {h} : mapped'[a] = mapped[a]
      /\ mapped'[h].file \in {NoLib, mapped[h].file} /\ Once'
  BY <1>0, <1>1, ClosedHere
<1>7. Holders' /\ Apart' /\ CodeStays' /\ Flagged'
  <2>1. \A j \in DOMAIN plugins' : \E l \in DOMAIN plugins : plugins'[j].handle = plugins[l].handle
    BY <1>2
  <2>2. \A j \in Active' : \E l \in Active : plugins[l].handle # h /\ plugins'[j] = plugins[l]
    BY <1>2, <1>4, <1>5
  <2>3. \A i, j \in Active' : i # j =>
          \E l, n \in Active : l # n /\ plugins'[i] = plugins[l] /\ plugins'[j] = plugins[n]
    BY <1>2, <1>4
  <2>4. \A l \in Active : plugins[l].handle # h => \E j \in Active' : plugins'[j] = plugins[l]
    BY <1>2, <1>4 DEF h
  <2>5. mapped'[h].file # Self
    BY <1>0, <1>6
  <2> QED BY <1>0, <1>1, <1>6, <2>1, <2>2, <2>3, <2>4, <2>5, GivesUp
<1>8. LibTypes'
  BY <1>0, <1>1, <1>2, <1>6 DEF LibTypes
<1>9. Counted'
  <2>1. mapped'[h].file \in File \ {Self} => mapped'[h].dropped \/ ~ (mapped'[h].refused < 2)
    BY <1>0, <1>1, Enough
  <2>2. \A a \in Handles \ {h} : a \in Handles'
    BY <1>2 DEF Handles, h
  <2> QED BY <1>0, <1>1, <1>6, <2>1, <2>2 DEF Counted
<1>10. Phases' /\ Order' /\ FirstFound'
  BY <1>1, <1>2, <1>3 DEF LibInv, Phases, Order, FirstFound, Usable, Blocked
<1> QED BY <1>6, <1>7, <1>8, <1>9, <1>10 DEF LibInv

LEMMA DetachStep ==
  ASSUME LibInv, NEW k \in DOMAIN plugins, Detach(k), UNCHANGED selfKnown
  PROVE  LibInv'
<1> DEFINE h == plugins[k].handle
<1>1. /\ phase = "detach" /\ k \in Active
      /\ mapped' = Closed(mapped, h, 1) /\ table' = table \ {h}
      /\ plugins' = [plugins EXCEPT ![k].detached = TRUE]
      /\ UNCHANGED <<phase, cand, entry, tried, modH, running, dropped, selfKnown>>
  BY DEF Detach
<1>0. /\ LibTypes /\ Holders /\ Counted /\ NoLib # Self /\ NoLib \notin File
      /\ h \in Handle /\ h # modH /\ h # dropped /\ mapped[h].file # Self
      /\ plugins[k] \in Object
      /\ mapped[h].refs \in Nat /\ mapped[h].refused \in 0 .. 2
  BY Objects, LibAssumption DEF LibInv, Apart
<1> HIDE DEF h
<1>2. /\ plugins' \in Seq(Object) /\ DOMAIN plugins' = DOMAIN plugins
      /\ \A j \in DOMAIN plugins \ {k} : plugins'[j] = plugins[j]
      /\ plugins'[k].handle = h /\ plugins'[k].detached
  <2>1. [plugins[k] EXCEPT !.detached = TRUE] \in Object
    BY <1>0 DEF Object
  <2>2. plugins' = [plugins EXCEPT ![k] = [plugins[k] EXCEPT !.detached = TRUE]]
    BY <1>1
  <2>3. plugins'[k] = [plugins[k] EXCEPT !.detached = TRUE]
    BY <2>2
  <2>4. plugins' \in Seq(Object)
    BY <1>0, <2>1, <2>2 DEF LibTypes
  <2>5. plugins'[k].handle = h /\ plugins'[k].detached
    BY <1>0, <2>3 DEF Object, h
  <2> QED BY <2>2, <2>4, <2>5
<1>3. Active' = Active \ {k}
  BY <1>1, <1>2 DEF Active
<1>4. \A l \in Active \ {k} : l \in DOMAIN plugins /\ plugins[l].handle # h /\ plugins'[l] = plugins[l]
  BY <1>0, <1>1, <1>2 DEF Active, Holders, h
<1>5. Handles' = Handles /\ h \in Handles
  BY <1>2 DEF Handles, h
<1>6. /\ mapped' \in [Handle -> Module]
      /\ \A a \in Handle \ {h} : mapped'[a] = mapped[a]
      /\ mapped'[h].file \in {NoLib, mapped[h].file} /\ Once'
      /\ mapped'[h].file # NoLib => /\ mapped[h].refs > 1
                                    /\ mapped'[h].refused = mapped[h].refused
                                    /\ mapped'[h].refs = mapped[h].refs - 1
                                    /\ mapped'[h].dropped = mapped[h].dropped
  BY <1>0, <1>1, ClosedHere
<1>7. Holders' /\ Apart' /\ CodeStays' /\ Flagged'
  <2>1. \A j \in DOMAIN plugins' : \E l \in DOMAIN plugins : plugins'[j].handle = plugins[l].handle
    BY <1>2 DEF h
  <2>2. \A j \in Active' : \E l \in Active : plugins[l].handle # h /\ plugins'[j] = plugins[l]
    BY <1>3, <1>4
  <2>3. \A i, j \in Active' : i # j =>
          \E l, n \in Active : l # n /\ plugins'[i] = plugins[l] /\ plugins'[j] = plugins[n]
    BY <1>3, <1>4
  <2>4. \A l \in Active : plugins[l].handle # h => \E j \in Active' : plugins'[j] = plugins[l]
    BY <1>3, <1>4 DEF h
  <2>5. mapped'[h].file # Self
    BY <1>0, <1>6
  <2> QED BY <1>0, <1>1, <1>6, <2>1, <2>2, <2>3, <2>4, <2>5, GivesUp
<1>8. LibTypes'
  BY <1>0, <1>1, <1>2, <1>6 DEF LibTypes
<1>9. Counted'
  <2>1. ASSUME mapped'[h].file \in File \ {Self}, ~mapped'[h].dropped, mapped'[h].refused < 2
        PROVE  mapped'[h].refs <= mapped'[h].refused
    <3>1. mapped[h].refs <= mapped[h].refused + 1
      BY <1>0, <1>6, <2>1 DEF Counted
    <3> QED BY <1>0, <1>6, <2>1, <3>1
  <2> QED BY <1>0, <1>1, <1>5, <1>6, <2>1 DEF Counted
<1>10. Phases' /\ Order' /\ FirstFound'
  BY <1>1 DEF LibInv, Phases, Order, FirstFound, Usable, Blocked
<1> QED BY <1>6, <1>7, <1>8, <1>9, <1>10 DEF LibInv

LEMMA DeletePluginStep ==
  ASSUME LibInv, DeletePlugin, UNCHANGED selfKnown
  PROVE  LibInv'
<1> DEFINE h == plugins[1].handle
<1>1. /\ phase \in {"detach", "delete"} /\ Active = {} /\ plugins # << >> /\ phase' = "delete"
      /\ mapped' = Closed(mapped, h, 2) /\ table' = table \ {h}
      /\ plugins' = Tail(plugins)
      /\ UNCHANGED <<cand, entry, tried, modH, running, dropped, selfKnown>>
  BY DEF DeletePlugin
<1>2. 1 \in DOMAIN plugins
  BY <1>1 DEF LibInv, LibTypes
<1>0. /\ LibTypes /\ Holders /\ Counted /\ NoLib # Self /\ NoLib \notin File
      /\ h \in Handle /\ h # modH /\ h # dropped /\ mapped[h].file # Self
  BY <1>2, Objects, LibAssumption DEF LibInv, Apart
<1> HIDE DEF h
<1>3. /\ plugins' \in Seq(Object)
      /\ \A j \in DOMAIN plugins' : \E l \in DOMAIN plugins \ {1} : plugins'[j] = plugins[l]
      /\ \A l \in DOMAIN plugins \ {1} : \E j \in DOMAIN plugins' : plugins'[j] = plugins[l]
  <2>1. plugins \in Seq(Object) /\ Len(plugins) \in Nat /\ DOMAIN plugins = 1 .. Len(plugins)
    BY <1>0 DEF LibTypes
  <2>2. /\ plugins' \in Seq(Object) /\ Len(plugins') = Len(plugins) - 1
        /\ \A j \in 1 .. Len(plugins) - 1 : plugins'[j] = plugins[j + 1]
    BY <1>1, <2>1
  <2>3. DOMAIN plugins' = 1 .. Len(plugins) - 1
    BY <2>2
  <2>4. \A j \in DOMAIN plugins' : j + 1 \in DOMAIN plugins \ {1} /\ plugins'[j] = plugins[j + 1]
    BY <2>1, <2>2, <2>3
  <2>5. \A l \in DOMAIN plugins \ {1} : l - 1 \in DOMAIN plugins' /\ plugins'[l - 1] = plugins[l]
    BY <2>1, <2>2, <2>3
  <2> QED BY <2>2, <2>4, <2>5
<1>4. Active' = {}
  BY <1>1, <1>3 DEF Active
<1>5. /\ mapped' \in [Handle -> Module]
      /\ \A a \in Handle \ {h} : mapped'[a] = mapped[a]
      /\ mapped'[h].file \in {NoLib, mapped[h].file} /\ Once'
  BY <1>0, <1>1, ClosedHere
<1>6. Holders' /\ Apart' /\ CodeStays' /\ Flagged'
  <2>1. \A j \in DOMAIN plugins' : \E l \in DOMAIN plugins : plugins'[j].handle = plugins[l].handle
    BY <1>3
  <2>2. mapped'[h].file # Self
    BY <1>0, <1>5
  <2> QED BY <1>0, <1>1, <1>4, <1>5, <2>1, <2>2, GivesUp
<1>7. LibTypes'
  BY <1>0, <1>1, <1>3, <1>5 DEF LibTypes
<1>8. Counted'
  <2>1. mapped'[h].file \in File \ {Self} => mapped'[h].dropped \/ ~ (mapped'[h].refused < 2)
    BY <1>0, <1>1, Enough
  <2>2. \A a \in Handles \ {h} : a \in Handles'
    BY <1>3 DEF Handles, h
  <2> QED BY <1>0, <1>1, <1>5, <2>1, <2>2 DEF Counted
<1>9. Phases' /\ Order' /\ FirstFound'
  BY <1>1, <1>4 DEF LibInv, Phases, Order, FirstFound, Usable, Blocked
<1> QED BY <1>5, <1>6, <1>7, <1>8, <1>9 DEF LibInv

LEMMA NextMapStep ==
  ASSUME LibInv, NextMap, UNCHANGED selfKnown
  PROVE  LibInv'
<1>1. /\ phase \in {"detach", "delete"} /\ plugins = << >> /\ phase' \in {"search", "stale"}
      /\ mapped' = Closed(mapped, modH, 2) /\ table' = {} /\ modH' = NoLib /\ running' = 0
      /\ tried' = 0 /\ dropped' = NoLib
      /\ UNCHANGED <<plugins, cand, entry, selfKnown>>
  BY DEF NextMap
<1>0. /\ LibTypes /\ Holders /\ CodeStays /\ Counted /\ Flagged /\ NoLib # Self /\ NoLib \notin File
      /\ modH \in Handle /\ modH \in table /\ mapped[modH].file # Self
  BY <1>1, LibAssumption DEF LibInv, LibTypes, Phases, Holders
<1>2. Active = {} /\ Lent = {} /\ Handles = {} /\ Active' = {} /\ Lent' = {}
  BY <1>1 DEF Active, Lent, Handles
<1>3. /\ mapped' \in [Handle -> Module]
      /\ \A a \in Handle \ {modH} : mapped'[a] = mapped[a]
      /\ mapped'[modH].file \in {NoLib, mapped[modH].file} /\ Once'
  BY <1>0, <1>1, ClosedHere
<1>4. LibTypes'
  BY <1>0, <1>1, <1>3 DEF LibTypes
<1>5. Holders' /\ Apart' /\ Flagged'
  BY <1>1, <1>2 DEF Holders, Apart, Flagged
<1>6. CodeStays'
  <2>1. At(Self)' = At(Self)
    BY <1>0, <1>3 DEF At
  <2> QED BY <1>0, <1>1, <1>2, <2>1 DEF CodeStays
<1>7. Counted'
  <2>1. mapped'[modH].file \in File \ {Self} => mapped'[modH].dropped \/ ~ (mapped'[modH].refused < 2)
    BY <1>0, <1>1, Enough
  <2>2. ASSUME NEW a \in Handle \ {modH}, mapped[a].file \in File \ {Self}, mapped[a].refused < 2
        PROVE  mapped[a].dropped
    <3>1. ~mapped[a].dropped => a \in table
      BY <1>0, <1>2, <2>2 DEF Counted
    <3>2. a \in table => a = dropped
      BY <1>0, <1>2 DEF Holders
    <3> QED BY <1>0, <3>1, <3>2, LibAssumption DEF Flagged
  <2> QED BY <1>1, <1>3, <2>1, <2>2 DEF Counted
<1>8. Phases' /\ Order' /\ FirstFound'
  BY <1>0, <1>1 DEF LibInv, Phases, Order, FirstFound, Usable, Blocked
<1> QED BY <1>3, <1>4, <1>5, <1>6, <1>7, <1>8 DEF LibInv

-----------------------------------------------------------------------------
(* LoadMod                                                                 *)

LEMMA Drops ==
  ASSUME NEW m \in [Handle -> Module], NEW d, d = Drop(m)
  PROVE  /\ d \in [Handle -> Module]
         /\ \A h \in Handle : /\ d[h].file = m[h].file /\ d[h].refs = m[h].refs
                              /\ d[h].refused = m[h].refused
                              /\ m[h].dropped => d[h].dropped
                              /\ tried + 1 = 3 /\ h = modH => d[h].dropped
<1> SUFFICES ASSUME NEW h \in Handle
             PROVE  /\ d[h] \in Module
                    /\ d[h].file = m[h].file /\ d[h].refs = m[h].refs
                    /\ d[h].refused = m[h].refused /\ (m[h].dropped => d[h].dropped)
                    /\ tried + 1 = 3 /\ h = modH => d[h].dropped
  BY DEF Drop
<1>1. m[h] \in Module
  OBVIOUS
<1>2. CASE tried + 1 = 3 /\ h = modH
  <2>1. d[h] = [m[h] EXCEPT !.dropped = TRUE]
    BY <1>2 DEF Drop
  <2> QED BY <1>1, <1>2, <2>1 DEF Module
<1>3. CASE ~ (tried + 1 = 3 /\ h = modH)
  <2>1. d[h] = m[h]
    BY <1>3 DEF Drop
  <2> QED BY <1>1, <1>3, <2>1
<1> QED BY <1>2, <1>3

(* What holds while LoadMod looks for the mod.                             *)
LEMMA Searching ==
  ASSUME LibInv, phase = "search", Search
  PROVE  /\ plugins = << >> /\ plugins' = << >> /\ running = 0
         /\ Active = {} /\ Lent = {} /\ Handles = {} /\ Active' = {} /\ Lent' = {} /\ Handles' = {}
         /\ tried' = tried + 1 /\ tried + 1 \in 1 .. 4
         /\ table = {modH, dropped} \ {NoLib}
         /\ \A h \in table : mapped[h].file \in File \ (entry \cup {Self})
         /\ At(Self) # {}
         /\ NoLib \notin File /\ NoLib \notin Handle
         /\ (tried + 1 = 3 => dropped = NoLib) /\ (tried + 1 = 1 => modH = NoLib /\ dropped = NoLib)
<1>1. plugins = << >> /\ plugins' = << >> /\ running = 0
  BY DEF LibInv, Phases, Search
<1>2. Active = {} /\ Lent = {} /\ Handles = {} /\ Active' = {} /\ Lent' = {} /\ Handles' = {}
  BY <1>1 DEF Active, Lent, Handles
<1>3. tried' = tried + 1 /\ tried + 1 \in 1 .. 4
  BY DEF Search, LibInv, LibTypes
<1>4. table = {modH, dropped} \ {NoLib} /\ \A h \in table : mapped[h].file \in File \ (entry \cup {Self})
  BY <1>2 DEF LibInv, Holders, Phases
<1>5. At(Self) # {}
  BY DEF LibInv, CodeStays
<1>6. (tried + 1 = 3 => dropped = NoLib) /\ (tried + 1 = 1 => modH = NoLib /\ dropped = NoLib)
  BY DEF LibInv, LibTypes, Phases
<1> QED BY <1>1, <1>2, <1>3, <1>4, <1>5, <1>6, LibAssumption

(* A step of LoadMod that changes no file and no count of who holds what.  *)
LEMMA TryOpensNothingStep ==
  ASSUME LibInv, TryOpensNothing, UNCHANGED selfKnown
  PROVE  LibInv'
<1>1. /\ Search /\ phase = "search" /\ modH' = Held /\ mapped' = Drop(mapped)
      /\ Held # NoLib \/ cand[tried + 1] = NoLib
      /\ dropped' = IF tried + 1 = 3 THEN modH ELSE dropped
      /\ UNCHANGED <<table, phase, running, cand, entry, selfKnown>>
  BY DEF TryOpensNothing, Search
<1>0. LibTypes /\ Once /\ Holders /\ Counted /\ Flagged /\ Order /\ FirstFound
  BY DEF LibInv
<1>2. /\ plugins = << >> /\ plugins' = << >> /\ running = 0
      /\ Active = {} /\ Lent = {} /\ Handles = {} /\ Active' = {} /\ Lent' = {} /\ Handles' = {}
      /\ tried' = tried + 1 /\ tried + 1 \in 1 .. 4
      /\ table = {modH, dropped} \ {NoLib}
      /\ \A h \in table : mapped[h].file \in File \ (entry \cup {Self})
      /\ At(Self) # {}
      /\ NoLib \notin File /\ NoLib \notin Handle
      /\ (tried + 1 = 3 => dropped = NoLib) /\ (tried + 1 = 1 => modH = NoLib /\ dropped = NoLib)
  BY <1>1, Searching
<1>3. /\ mapped' \in [Handle -> Module]
      /\ \A h \in Handle : /\ mapped'[h].file = mapped[h].file /\ mapped'[h].refs = mapped[h].refs
                           /\ mapped'[h].refused = mapped[h].refused
                           /\ mapped[h].dropped => mapped'[h].dropped
                           /\ tried + 1 = 3 /\ h = modH => mapped'[h].dropped
  BY <1>0, <1>1, Drops DEF LibTypes
<1>4. LibTypes'
  BY <1>0, <1>1, <1>2, <1>3 DEF LibTypes, Held
<1>5. Once'
  BY <1>0, <1>3 DEF Once
<1>6. Holders' /\ Apart'
  BY <1>0, <1>1, <1>2, <1>3 DEF Holders, Apart, Held, LibTypes
<1>7. CodeStays'
  BY <1>1, <1>2, <1>3 DEF CodeStays, At
<1>8. Counted' /\ Flagged'
  <2>1. Counted'
    BY <1>0, <1>1, <1>2, <1>3 DEF Counted
  <2>2. Flagged'
    BY <1>0, <1>1, <1>2, <1>3 DEF Flagged, LibTypes
  <2> QED BY <2>1, <2>2
<1>9. Phases'
  BY <1>0, <1>1, <1>2, <1>3 DEF LibInv, Phases, Held, LibTypes
<1>10. Order' /\ FirstFound'
  <2>1. Usable(tried + 1) => Blocked(tried + 1)
    <3>1. CASE cand[tried + 1] = NoLib
      BY <1>0, <1>2, <3>1 DEF Usable, LibTypes
    <3>2. CASE Held # NoLib
      <4>1. modH # NoLib /\ tried + 1 \in {2, 4}
        BY <1>2, <3>2 DEF Held
      <4>2. tried \in {1, 3} /\ (tried + 1) - 1 = tried
        BY <4>1, <1>0 DEF LibTypes
      <4>3. cand[tried] \in File \ (entry \cup {Self})
        BY <1>0, <1>1, <4>1, <4>2 DEF Order
      <4> QED BY <4>1, <4>2, <4>3 DEF Blocked
    <3> QED BY <1>1, <3>1, <3>2
  <2>2. \A c \in 1 .. tried + 1 : c \in 1 .. tried \/ c = tried + 1
    BY <1>0 DEF LibTypes
  <2>3. \A c \in 1 .. tried' : Usable(c)' => Blocked(c)'
    BY <1>0, <1>1, <1>2, <2>1, <2>2 DEF Order, Usable, Blocked
  <2>4. tried' \in {1, 3} => modH' = NoLib
    BY <1>0, <1>1, <1>2 DEF Held, LibTypes
  <2>5. FirstFound'
    BY <1>1, <1>2 DEF FirstFound
  <2> QED BY <1>0, <1>1, <2>3, <2>4, <2>5 DEF Order
<1> QED BY <1>4, <1>5, <1>6, <1>7, <1>8, <1>9, <1>10 DEF LibInv

LEMMA TryRefusedStep ==
  ASSUME LibInv, NEW h \in Handle, TryRefused(h), UNCHANGED selfKnown
  PROVE  LibInv'
<1> DEFINE f == cand[tried + 1]
           r == Forgotten(h, f)
<1>1. /\ Search /\ phase = "search" /\ modH' = NoLib /\ mapped' = Drop(r)
      /\ Held = NoLib /\ f # NoLib /\ Place(h, f) /\ Duplicate(h)
      /\ dropped' = IF tried + 1 = 3 THEN modH ELSE dropped
      /\ UNCHANGED <<table, phase, running, cand, entry, selfKnown>>
  BY DEF TryRefused, Search
<1>0. LibTypes /\ Once /\ Holders /\ Counted /\ Flagged /\ Order /\ FirstFound
  BY DEF LibInv
<1>2. /\ plugins = << >> /\ plugins' = << >> /\ running = 0
      /\ Active = {} /\ Lent = {} /\ Handles = {} /\ Active' = {} /\ Lent' = {} /\ Handles' = {}
      /\ tried' = tried + 1 /\ tried + 1 \in 1 .. 4
      /\ table = {modH, dropped} \ {NoLib}
      /\ \A a \in table : mapped[a].file \in File \ (entry \cup {Self})
      /\ At(Self) # {}
      /\ NoLib \notin File /\ NoLib \notin Handle
      /\ (tried + 1 = 3 => dropped = NoLib) /\ (tried + 1 = 1 => modH = NoLib /\ dropped = NoLib)
  BY <1>1, Searching
<1>a. f \in File
  BY <1>0, <1>1, <1>2 DEF LibTypes
<1> HIDE DEF f
<1>b. mapped[h].file = f /\ (f # Self => h \in table)
  BY <1>1, <1>a, WhereItIs
<1>c. /\ r \in [Handle -> Module]
      /\ \A a \in Handle \ {h} : r[a] = mapped[a]
      /\ r[h].file = f /\ r[h].refs = mapped[h].refs + 1
      /\ r[h].dropped = mapped[h].dropped
      /\ r[h].refused = IF mapped[h].refused < 2 THEN mapped[h].refused + 1 ELSE mapped[h].refused
  BY <1>1, <1>a, RefusedLoad
<1> HIDE DEF r
<1>3. /\ mapped' \in [Handle -> Module]
      /\ \A a \in Handle : /\ mapped'[a].file = r[a].file /\ mapped'[a].refs = r[a].refs
                           /\ mapped'[a].refused = r[a].refused
                           /\ r[a].dropped => mapped'[a].dropped
                           /\ tried + 1 = 3 /\ a = modH => mapped'[a].dropped
  BY <1>1, <1>c, Drops
<1>d. \A a \in Handle : mapped'[a].file = mapped[a].file /\ (mapped[a].dropped => mapped'[a].dropped)
  BY <1>3, <1>b, <1>c
<1>4. LibTypes'
  BY <1>0, <1>1, <1>2, <1>3 DEF LibTypes
<1>5. Once'
  BY <1>0, <1>d DEF Once
<1>6. Holders' /\ Apart'
  BY <1>0, <1>1, <1>2, <1>d DEF Holders, Apart, Held, LibTypes
<1>7. CodeStays'
  BY <1>1, <1>2, <1>d DEF CodeStays, At
<1>8. Counted' /\ Flagged'
  <2>1. mapped[h].refs \in Nat /\ mapped[h].refused \in 0 .. 2
    BY <1>0, Objects
  <2>2. ASSUME mapped'[h].file \in File \ {Self}, ~mapped'[h].dropped, mapped'[h].refused < 2
        PROVE  h \in table /\ mapped'[h].refs <= mapped'[h].refused + 1
    <3>1. mapped[h].file \in File \ {Self} /\ ~mapped[h].dropped /\ mapped[h].refused < 2
      BY <1>3, <1>c, <1>d, <2>1, <2>2
    <3>2. h \in table /\ mapped[h].refs <= mapped[h].refused + 1
      BY <1>0, <1>2, <3>1 DEF Counted
    <3> QED BY <1>3, <1>c, <2>1, <3>1, <3>2
  <2>3. Counted'
    BY <1>0, <1>1, <1>2, <1>3, <1>c, <1>d, <2>2 DEF Counted
  <2>4. Flagged'
    BY <1>0, <1>1, <1>2, <1>3, <1>d DEF Flagged, LibTypes
  <2> QED BY <2>3, <2>4
<1>9. Phases'
  BY <1>0, <1>1, <1>2, <1>d DEF LibInv, Phases, LibTypes
<1>10. Order' /\ FirstFound'
  <2>1. ~Usable(tried + 1)
    <3>1. CASE f = Self
      BY <1>0, <3>1 DEF Usable, LibTypes, f
    <3>2. CASE f # Self
      BY <1>2, <1>b, <3>2 DEF Usable, f
    <3> QED BY <3>1, <3>2
  <2>2. \A c \in 1 .. tried + 1 : c \in 1 .. tried \/ c = tried + 1
    BY <1>0 DEF LibTypes
  <2>3. \A c \in 1 .. tried' : Usable(c)' => Blocked(c)'
    BY <1>0, <1>1, <1>2, <2>1, <2>2 DEF Order, Usable, Blocked
  <2>4. FirstFound'
    BY <1>1, <1>2 DEF FirstFound
  <2> QED BY <1>0, <1>1, <2>3, <2>4 DEF Order
<1> QED BY <1>4, <1>5, <1>6, <1>7, <1>8, <1>9, <1>10 DEF LibInv

LEMMA TryOpensStep ==
  ASSUME LibInv, NEW h \in Handle, TryOpens(h), UNCHANGED selfKnown
  PROVE  LibInv'
<1> DEFINE f == cand[tried + 1]
           m == Mapping(h, f)
<1>1. /\ Search /\ phase = "search" /\ modH' = h /\ mapped' = Drop(m)
      /\ Held = NoLib /\ f # NoLib /\ Place(h, f) /\ ~Duplicate(h) /\ table' = table \cup {h}
      /\ dropped' = IF tried + 1 = 3 THEN modH ELSE dropped
      /\ UNCHANGED <<cand, entry, selfKnown>>
      /\ f \in entry => running' = tried + 1 /\ phase' = "up"
      /\ f \notin entry => running' = running /\ phase' = phase
  BY DEF TryOpens, Search, Load
<1>0. LibTypes /\ Once /\ Holders /\ Counted /\ Flagged /\ Order /\ FirstFound
  BY DEF LibInv
<1>2. /\ plugins = << >> /\ plugins' = << >> /\ running = 0
      /\ Active = {} /\ Lent = {} /\ Handles = {} /\ Active' = {} /\ Lent' = {} /\ Handles' = {}
      /\ tried' = tried + 1 /\ tried + 1 \in 1 .. 4
      /\ table = {modH, dropped} \ {NoLib}
      /\ \A a \in table : mapped[a].file \in File \ (entry \cup {Self})
      /\ At(Self) # {}
      /\ NoLib \notin File /\ NoLib \notin Handle
      /\ (tried + 1 = 3 => dropped = NoLib) /\ (tried + 1 = 1 => modH = NoLib /\ dropped = NoLib)
  BY <1>1, Searching
<1>a. f \in File \ {Self}
  <2>1. f \in File
    BY <1>0, <1>1, <1>2 DEF LibTypes
  <2>2. ASSUME f = Self PROVE FALSE
    <3>1. selfKnown
      BY <1>0, <1>2, <2>2 DEF Order
    <3>2. SelfHandle \in Handle /\ mapped[SelfHandle].file = Self /\ mapped[h].file = Self
      BY <1>1, <1>2, <2>2, <3>1, SelfIs DEF Place, At
    <3>3. h = SelfHandle
      BY <1>0, <1>2, <3>2, LibAssumption DEF Once
    <3> QED BY <1>1, <3>1, <3>3 DEF Duplicate
  <2> QED BY <2>1, <2>2
<1> HIDE DEF f
<1>b. /\ m \in [Handle -> Module]
      /\ \A a \in Handle \ {h} : m[a] = mapped[a] /\ m[a].file # f
      /\ m[h].file = f /\ mapped[h].file \in {NoLib, f}
      /\ ~m[h].dropped /\ m[h].refused < 2 => m[h].refs <= m[h].refused + 1
  BY <1>1, <1>a, OpenedHere
<1>c. h \notin table /\ h # modH /\ h # dropped
  BY <1>1, NotHeld
<1> HIDE DEF m
<1>3. /\ mapped' \in [Handle -> Module]
      /\ \A a \in Handle : /\ mapped'[a].file = m[a].file /\ mapped'[a].refs = m[a].refs
                           /\ mapped'[a].refused = m[a].refused
                           /\ m[a].dropped => mapped'[a].dropped
                           /\ tried + 1 = 3 /\ a = modH => mapped'[a].dropped
  BY <1>1, <1>b, Drops
<1>d. mapped'[h].file = f /\ \A a \in Handle \ {h} : mapped'[a].file = mapped[a].file /\ mapped'[a].file # f
  BY <1>3, <1>b
<1>4. LibTypes'
  BY <1>0, <1>1, <1>2, <1>3 DEF LibTypes
<1>5. Once'
  BY <1>0, <1>d DEF Once
<1>e. table' = {modH', dropped'} \ {NoLib} /\ modH' # dropped'
  BY <1>0, <1>1, <1>2, <1>c DEF Held, LibTypes
<1>f. \A a \in table' : mapped'[a].file \in File \ {Self}
  BY <1>0, <1>1, <1>2, <1>a, <1>d DEF LibTypes
<1>6. Holders' /\ Apart'
  BY <1>1, <1>2, <1>e, <1>f DEF Holders, Apart
<1>7. CodeStays'
  <2>1. At(Self)' # {}
    BY <1>2, <1>a, <1>b, <1>d, LibAssumption DEF At
  <2> QED BY <1>1, <1>2, <1>d, <2>1 DEF CodeStays, f
<1>8. Counted' /\ Flagged'
  <2>1. ASSUME ~mapped'[h].dropped, mapped'[h].refused < 2 PROVE mapped'[h].refs <= mapped'[h].refused + 1
    BY <1>3, <1>b, <2>1
  <2>2. ASSUME NEW a \in Handle \ {h}, mapped'[a].file \in File \ {Self},
               ~mapped'[a].dropped, mapped'[a].refused < 2
        PROVE  a \in table /\ mapped'[a].refs <= mapped'[a].refused + 1
    <3>1. mapped[a].file \in File \ {Self} /\ ~mapped[a].dropped /\ mapped[a].refused < 2
      BY <1>3, <1>b, <2>2
    <3>2. a \in table /\ mapped[a].refs <= mapped[a].refused + 1
      BY <1>0, <1>2, <3>1 DEF Counted
    <3> QED BY <1>3, <1>b, <3>2
  <2>3. Counted'
    BY <1>1, <2>1, <2>2 DEF Counted
  <2>4. Flagged'
    BY <1>0, <1>1, <1>2, <1>3, <1>b, <1>c DEF Flagged, LibTypes
  <2> QED BY <2>3, <2>4
<1>9. Phases'
  <2>1. f \notin entry => \A a \in table' : mapped'[a].file \notin entry
    BY <1>0, <1>1, <1>2, <1>c, <1>d DEF LibTypes
  <2>2. tried' # 0 /\ (tried' <= 2 => dropped' = NoLib) /\ modH' # NoLib
    BY <1>0, <1>1, <1>2 DEF LibInv, Phases, LibTypes
  <2> QED BY <1>1, <1>2, <2>1, <2>2 DEF Phases
<1>10. Order' /\ FirstFound'
  <2>1. f \notin entry => ~Usable(tried + 1)
    BY DEF Usable, f
  <2>2. \A c \in 1 .. tried + 1 : c \in 1 .. tried \/ c = tried + 1
    BY <1>0 DEF LibTypes
  <2>3. f \notin entry => \A c \in 1 .. tried' : Usable(c)' => Blocked(c)'
    BY <1>0, <1>1, <1>2, <2>1, <2>2 DEF Order, Usable, Blocked
  <2>4. f \notin entry => cand'[tried'] \in File \ (entry' \cup {Self})
    BY <1>1, <1>2, <1>a DEF f
  <2>5. Order'
    BY <1>0, <1>1, <2>3, <2>4 DEF Order
  <2>6. FirstFound'
    <3>1. \A c \in 1 .. (tried + 1) - 1 : c \in 1 .. tried
      BY <1>0 DEF LibTypes
    <3> QED BY <1>0, <1>1, <1>2, <3>1 DEF Order, FirstFound, Usable, Blocked
  <2> QED BY <2>5, <2>6
<1> QED BY <1>4, <1>5, <1>6, <1>7, <1>8, <1>9, <1>10 DEF LibInv

LEMMA LoadModFailsStep ==
  ASSUME LibInv, LoadModFails, UNCHANGED selfKnown
  PROVE  LibInv'
<1>1. /\ phase = "search" /\ tried = 4 /\ phase' = "failed" /\ modH' = NoLib
      /\ mapped' = IF modH = NoLib THEN mapped ELSE Closed(mapped, modH, 2)
      /\ table' = table \ {modH}
      /\ UNCHANGED <<plugins, cand, entry, tried, running, dropped, selfKnown>>
  BY DEF LoadModFails
<1>0. LibTypes /\ Once /\ Holders /\ CodeStays /\ Counted /\ Flagged /\ Order /\ NoLib \notin File /\ NoLib \notin Handle
  BY LibAssumption DEF LibInv
<1>2. /\ plugins = << >> /\ running = 0
      /\ Active = {} /\ Lent = {} /\ Handles = {} /\ Active' = {} /\ Lent' = {} /\ Handles' = {}
  BY <1>1 DEF LibInv, Phases, Active, Lent, Handles
<1>3. table = {modH, dropped} \ {NoLib} /\ table' = {dropped} \ {NoLib}
  BY <1>0, <1>1, <1>2 DEF Holders
<1>4. /\ mapped' \in [Handle -> Module] /\ Once'
      /\ \A a \in Handle : a # modH => mapped'[a] = mapped[a]
      /\ modH # NoLib => /\ mapped'[modH].file \in {NoLib, mapped[modH].file} /\ mapped[modH].file # Self
                         /\ mapped'[modH].file \in File \ {Self} => mapped'[modH].dropped \/ ~ (mapped'[modH].refused < 2)
  <2>1. CASE modH = NoLib
    <3>1. mapped' = mapped
      BY <1>1, <2>1
    <3> QED BY <1>0, <2>1, <3>1 DEF LibTypes, Once
  <2>2. CASE modH # NoLib
    <3>1. modH \in Handle /\ mapped' = Closed(mapped, modH, 2) /\ mapped[modH].file # Self
      BY <1>0, <1>1, <1>3, <2>2 DEF LibTypes, Holders
    <3>2. mapped'[modH].file \in File \ {Self} => mapped'[modH].dropped \/ ~ (mapped'[modH].refused < 2)
      BY <3>1, Enough
    <3> QED BY <3>1, <3>2, ClosedHere
  <2> QED BY <2>1, <2>2
<1>5. LibTypes'
  BY <1>0, <1>1, <1>4 DEF LibTypes
<1>6. Holders' /\ Apart'
  BY <1>0, <1>1, <1>2, <1>3, <1>4 DEF Holders, Apart, LibTypes
<1>7. Flagged'
  BY <1>0, <1>1, <1>4 DEF Flagged, LibTypes, Holders
<1>8. CodeStays'
  <2>1. \A a \in At(Self) : mapped'[a].file = Self
    BY <1>0, <1>4 DEF At
  <2> QED BY <1>0, <1>1, <1>2, <2>1 DEF CodeStays, At
<1>9. Counted'
  BY <1>0, <1>1, <1>2, <1>3, <1>4 DEF Counted
<1>10. Phases' /\ Order' /\ FirstFound'
  BY <1>0, <1>1, <1>2 DEF LibInv, Phases, Order, FirstFound, Usable, Blocked
<1> QED BY <1>4, <1>5, <1>6, <1>7, <1>8, <1>9, <1>10 DEF LibInv


-----------------------------------------------------------------------------
(* The steps together, and what the invariant says.                        *)

LEMMA LibStutterStep ==
  ASSUME LibInv, UNCHANGED libVars
  PROVE  LibInv'
<1>1. UNCHANGED <<mapped, table, plugins, phase, cand, entry, tried, modH, running, dropped, selfKnown>>
  BY DEF libVars
<1>2. LibTypes' /\ Once' /\ CodeStays'
  BY <1>1 DEF LibInv, LibTypes, Once, CodeStays, Active, At
<1>3. Holders' /\ Apart' /\ Flagged'
  BY <1>1 DEF LibInv, Holders, Apart, Flagged, Active, Lent
<1>4. Counted'
  BY <1>1 DEF LibInv, Counted, Handles
<1>5. Phases' /\ Order' /\ FirstFound'
  BY <1>1 DEF LibInv, Phases, Order, FirstFound, Active, Usable, Blocked
<1> QED BY <1>2, <1>3, <1>4, <1>5 DEF LibInv

LEMMA LibStep == LibInv /\ [LibNext]_libVars => LibInv'
<1> SUFFICES ASSUME LibInv, [LibNext]_libVars
             PROVE  LibInv'
  OBVIOUS
<1>1. CASE UNCHANGED libVars
  BY <1>1, LibStutterStep
<1>2. CASE LibNext
  <2>1. UNCHANGED selfKnown
    BY <1>2 DEF LibNext
  <2>2. CASE \E f \in File, h \in Handle : \/ PluginRefused(f, h) \/ QueryFails(f, h)
                                           \/ AttachRefuses(f, h) \/ Attach(f, h)
    BY <2>1, <2>2, PluginRefusedStep, QueryFailsStep, AttachRefusesStep, AttachStep
  <2>3. CASE \E k \in DOMAIN plugins : UnloadPlugin(k) \/ Detach(k)
    BY <2>1, <2>3, UnloadPluginStep, DetachStep
  <2>4. CASE \E h \in Handle : TryRefused(h) \/ TryOpens(h)
    BY <2>1, <2>4, TryRefusedStep, TryOpensStep
  <2>5. CASE TryOpensNothing \/ LoadModFails
    BY <2>1, <2>5, TryOpensNothingStep, LoadModFailsStep
  <2>6. CASE Stop \/ DeletePlugin \/ NextMap
    BY <2>1, <2>6, StopStep, DeletePluginStep, NextMapStep
  <2> QED BY <1>2, <2>2, <2>3, <2>4, <2>5, <2>6 DEF LibNext
<1> QED BY <1>1, <1>2

LEMMA LibAlways == LibSpec => []LibInv
<1>1. LibInit => LibInv
  BY InitInv
<1> QED BY <1>1, LibStep, PTL DEF LibSpec

LEMMA HoldersAreExact == LibInv => TableExact
BY DEF LibInv, LibTypes, Holders, TableExact, Module, Lent

\* A count that is two has no bound, so what is unused was counted less often.
LEMMA CountedAreGone == LibInv => Gone
<1> SUFFICES ASSUME LibInv, NEW h \in Handle, h \notin table, h \notin Handles,
                    mapped[h].file \in File \ {Self}, ~ mapped[h].dropped
             PROVE  mapped[h].refused = 2
  BY DEF Gone, Handles
<1>1. mapped[h] \in Module
  BY DEF LibInv, LibTypes
<1>2. ~ (mapped[h].refused < 2)
  BY DEF LibInv, Counted
<1> QED BY <1>1, <1>2 DEF Module

\* The table of modules is exactly what the CDLL objects hold, the one that
\* LoadMod let go included: setmoduleloaded and setmoduleunloaded (util.cpp) are
\* called for the same handles as dlopen and dlclose, in any order of loads,
\* refusals and unloads.
THEOREM TableIsExact == LibSpec => []TableExact
BY LibAlways, HoldersAreExact, PTL

\* The code of an attached plugin, of the mod and of JASS stays mapped where it
\* was, although an object that is unloaded and destroyed closes its handle up
\* to three times (CDLL.cpp Unload, ~CDLL).
THEOREM LibrariesStay == LibSpec => []CodeStays
<1>1. LibInv => CodeStays
  BY DEF LibInv
<1> QED BY <1>1, LibAlways, PTL

\* What nobody uses is unmapped, so that it starts anew when it is loaded again,
\* but for what LoadMod let go and what was refused twice while it was open
\* (CDLL.cpp:45).
THEOREM UnusedIsGone == LibSpec => []Gone
BY LibAlways, CountedAreGone, PTL

\* LoadMod (CModMgr.cpp:59) takes the first candidate that can be the mod, and
\* fails only if there is none; one is passed over only after another that the
\* same CDLLMod keeps open.
THEOREM FirstModFound == LibSpec => []FirstFound
<1>1. LibInv => FirstFound
  BY DEF LibInv
<1> QED BY <1>1, LibAlways, PTL
=============================================================================
