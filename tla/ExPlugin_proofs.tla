------------------------- MODULE ExPlugin_proofs -------------------------
(***************************************************************************)
(* Proofs about the three machines of EX-Plugin, for any clients, delays,  *)
(* players, accounts, caps, curves, width of int, addresses, entities, and *)
(* depth of calls: that a pending delay is never more than a period late;  *)
(* that no account falls into debt and no level passes the cap, with the   *)
(* exceptions the properties name, and that the bank mirrors the accounts; *)
(* that until the plugin leaves in the middle of a map every site is       *)
(* hooked or lifted by its own hook, each call passes its hook once, and   *)
(* nothing leads to code that is not mapped.                               *)
(***************************************************************************)
EXTENDS TargetDelay, Accounts, ExHooks, FiniteSetTheorems, SequenceTheorems, TLAPS

(* The per-player delays.                                                  *)

(* Between frames, every pending delay will be at most a period late when  *)
(* the think function next runs.  Inside the loop, what it has passed is   *)
(* not due and will be looked at again; what it has not is at most a       *)
(* period late.                                                            *)
BetweenFrames ==
  i = 0 => /\ \A c \in Client : Armed(c) => think = "plugin" /\ due[c] >= nextthink - Period
           /\ think = "plugin" => nextthink >= 1

InLoop ==
  i # 0 => \A c \in Client : Armed(c) =>
             \/ c < i /\ think = "plugin" /\ due[c] >= 0
             \/ c >= i /\ due[c] >= -Period

(* The mod's think function, once there, is never taken for the plugin's.  *)
DelayInv ==
  /\ DelayTypeOK
  /\ i # 0 => think # "mod"
  /\ think # "mod" => BetweenFrames /\ InLoop

LEMMA DelayInitially == DelayInit => DelayInv
  BY DelayParameters DEF DelayInit, DelayInv, DelayTypeOK, BetweenFrames, InLoop,
     Armed, Unarmed, Client

(* Arming a delay, by a player or from inside the loop, keeps the types.   *)
LEMMA ArmTypes ==
  ASSUME DelayTypeOK, NEW c \in Client, NEW wait \in 0 .. MaxWait, Arm(c, wait)
  PROVE  /\ due' \in [Client -> -MaxLate .. Unarmed]
         /\ think' \in {"none", "plugin", "mod"}
         /\ nextthink' \in 0 .. Period
  BY DelayParameters DEF Arm, DelayTypeOK, Unarmed, Armed, Client

LEMMA DelayStep == DelayInv /\ [DelayNext]_delayVars => DelayInv'
<1> SUFFICES ASSUME DelayInv, [DelayNext]_delayVars PROVE DelayInv'
  OBVIOUS
<1> USE DelayParameters DEF DelayInv, Unarmed, Client, Armed
<1>1. ASSUME NEW c \in Client, NEW wait \in 0 .. MaxWait, TargetDelayUseBy(c, wait)
      PROVE  DelayInv'
  <2>1. DelayTypeOK'
    BY <1>1, ArmTypes DEF TargetDelayUseBy, DelayTypeOK
  <2>2. ASSUME think' # "mod" PROVE BetweenFrames' /\ InLoop'
    BY <1>1, <2>2 DEF TargetDelayUseBy, Arm, BetweenFrames, InLoop, DelayTypeOK
  <2> QED BY <1>1, <2>1, <2>2 DEF TargetDelayUseBy
<1>2. ASSUME NEW wait \in 0 .. MaxWait, Rearm(wait) PROVE DelayInv'
  <2>1. DelayTypeOK'
    BY <1>2, ArmTypes DEF Rearm, DelayTypeOK
  <2>2. ASSUME think' # "mod" PROVE BetweenFrames' /\ InLoop'
    BY <1>2, <2>2 DEF Rearm, Arm, BetweenFrames, InLoop, DelayTypeOK
  <2>3. i' # 0 /\ think' # "mod"
    BY <1>2 DEF Rearm, Arm, DelayTypeOK
  <2> QED BY <2>1, <2>2, <2>3
<1>3. CASE UseOriginal
  BY <1>3 DEF UseOriginal, DelayTypeOK
<1>4. CASE Frame
  <2>1. \A c \in Client : /\ Armed(c)' <=> Armed(c)
                          /\ Armed(c) => due'[c] >= due[c] - 1
                          /\ due'[c] \in -MaxLate .. Unarmed
    BY <1>4 DEF Frame, DelayTypeOK
  <2>2. DelayTypeOK'
    <3>1. due' \in [Client -> -MaxLate .. Unarmed]
      BY <1>4, <2>1 DEF Frame
    <3>2. nextthink' \in 0 .. Period
      BY <1>4 DEF Frame, DelayTypeOK
    <3>3. i' \in 0 .. Clients + 1 /\ think' \in {"none", "plugin", "mod"} /\ ignore' \in BOOLEAN
      BY <1>4 DEF Frame, DelayTypeOK
    <3> QED BY <3>1, <3>2, <3>3 DEF DelayTypeOK
  <2>3. ASSUME think' # "mod" PROVE BetweenFrames' /\ InLoop'
    <3>1. think # "mod" /\ i = 0
      BY <1>4, <2>3 DEF Frame, DelayTypeOK
    <3>2. CASE think = "plugin"
      BY <1>4, <2>1, <2>2, <3>1, <3>2 DEF Frame, BetweenFrames, InLoop, DelayTypeOK
    <3>3. CASE think = "none"
      BY <1>4, <2>1, <2>2, <3>1, <3>3 DEF Frame, BetweenFrames, InLoop, DelayTypeOK
    <3> QED BY <3>1, <3>2, <3>3 DEF DelayTypeOK
  <2>4. i' # 0 => think' # "mod"
    BY <1>4 DEF Frame, DelayTypeOK
  <2> QED BY <2>2, <2>3, <2>4
<1>5. CASE StillPending
  BY <1>5 DEF StillPending, DelayTypeOK, BetweenFrames, InLoop
<1>6. CASE NothingPending
  BY <1>6 DEF NothingPending, DelayTypeOK, BetweenFrames, InLoop
<1>7. CASE Fire
  BY <1>7 DEF Fire, DelayTypeOK, BetweenFrames, InLoop
<1>8. CASE ThinkReturns
  BY <1>8 DEF ThinkReturns, DelayTypeOK, BetweenFrames, InLoop
<1>9. CASE UNCHANGED delayVars
  BY <1>9 DEF delayVars, DelayTypeOK, BetweenFrames, InLoop
<1> QED
  BY <1>1, <1>2, <1>3, <1>4, <1>5, <1>6, <1>7, <1>8, <1>9 DEF DelayNext, Loop

(* The types of the delays hold for every number of clients.               *)
THEOREM DelayTypeCorrect == DelaySpec => []DelayTypeOK
<1>1. DelayInv => DelayTypeOK
  BY DEF DelayInv
<1> QED BY <1>1, DelayInitially, DelayStep, PTL DEF DelaySpec

(* A pending delay is never more than a period late (XG-Hook.cpp:685-718), *)
(* whatever the others who share its think function do.                    *)
THEOREM DelaysArePunctual == DelaySpec => []Punctual
<1>1. DelayInv => Punctual
  BY DelayParameters
     DEF DelayInv, Punctual, BetweenFrames, InLoop, DelayTypeOK, Armed, Unarmed, Client
<1> QED BY <1>1, DelayInitially, DelayStep, PTL DEF DelaySpec

-----------------------------------------------------------------------------
(* The accounts and levels.                                                *)

(* Any non-empty set of numbers has a least one.                           *)
LEMMA LeastNat ==
  ASSUME NEW B, B \subseteq Nat, B # {}
  PROVE  \E n \in B : \A m \in B : n <= m
<1> DEFINE R == {p \in Nat \X Nat : p[1] < p[2]}
<1>1. IsWellFoundedOn(R, Nat)
  BY NatLessThanWellFounded, Zenon DEF OpToRel
<1>2. PICK n \in B : \A m \in B : ~ (<<m, n>> \in R)
  <2> HIDE DEF R
  <2> QED BY <1>1, WFMin
<1>3. ASSUME NEW m \in B PROVE n <= m
  <2>1. m \in Nat /\ n \in Nat
    OBVIOUS
  <2>2. m < n => <<m, n>> \in R
    BY <2>1
  <2>3. ~ (m < n)
    BY <2>2, <1>2, Zenon
  <2> QED BY <2>1, <2>3
<1> QED BY <1>3

(* The element that SumFunction takes out of a set first, and what it does *)
(* with the sum of the others.                                             *)
Some(s) == CHOOSE x \in s : TRUE
Sums(f, h, s) == IF s = {} THEN 0 ELSE f[Some(s)] + h[s \ {Some(s)}]

LEMMA Taken ==
  ASSUME NEW S, IsFiniteSet(S), NEW s \in SUBSET S, s # {}
  PROVE  /\ Some(s) \in s /\ s \ {Some(s)} \in SUBSET S
         /\ Cardinality(s) \in Nat /\ Cardinality(s \ {Some(s)}) = Cardinality(s) - 1
<1>1. Some(s) \in s
  BY DEF Some
<1>2. IsFiniteSet(s)
  BY FS_Subset
<1> QED BY <1>1, <1>2, FS_RemoveElement, FS_CardinalityType

(* The recursive equation has a solution ...                               *)
LEMMA SumsExist ==
  ASSUME NEW S, IsFiniteSet(S), NEW f \in [S -> Int]
  PROVE  \E h : h = [s \in SUBSET S |-> Sums(f, h, s)]
<1> DEFINE Upto(h, n) == \A s \in SUBSET S : Cardinality(s) <= n => h[s] = Sums(f, h, s)
           B == {n \in Nat : ~ \E h \in [SUBSET S -> Int] : Upto(h, n)}
<1>0. \A s \in SUBSET S : IsFiniteSet(s) /\ Cardinality(s) \in Nat /\ Cardinality(s) <= Cardinality(S)
  BY FS_Subset, FS_CardinalityType
<1>1. B = {}
  <2> SUFFICES ASSUME B # {} PROVE FALSE
    OBVIOUS
  <2>1. PICK n \in B : \A m \in B : n <= m
    <3>1. B \subseteq Nat
      OBVIOUS
    <3> HIDE DEF B
    <3> QED BY <3>1, LeastNat
  <2>2. n # 0
    <3> DEFINE z == [s \in SUBSET S |-> 0]
    <3>1. \A s \in SUBSET S : Cardinality(s) <= 0 => s = {}
      BY <1>0, FS_EmptySet
    <3>2. z \in [SUBSET S -> Int] /\ Upto(z, 0)
      BY <3>1 DEF Sums
    <3> QED BY <3>2
  <2>3. n - 1 \in Nat /\ n - 1 \notin B
    <3>1. n \in Nat
      OBVIOUS
    <3>2. n - 1 \in Nat /\ ~ (n <= n - 1)
      BY <3>1, <2>2
    <3> HIDE DEF B
    <3> QED BY <2>1, <3>2
  <2>4. PICK h \in [SUBSET S -> Int] : Upto(h, n - 1)
    BY <2>3
  <2> DEFINE g == [s \in SUBSET S |-> IF Cardinality(s) <= n THEN Sums(f, h, s) ELSE 0]
  <2>5. ASSUME NEW s \in SUBSET S PROVE Sums(f, h, s) \in Int
    <3>1. CASE s = {}
      BY <3>1 DEF Sums
    <3>2. CASE s # {}
      <4>1. Some(s) \in S /\ s \ {Some(s)} \in SUBSET S
        BY <3>2, Taken
      <4>2. f[Some(s)] \in Int /\ h[s \ {Some(s)}] \in Int
        BY <4>1
      <4> QED BY <3>2, <4>2 DEF Sums
    <3> QED BY <3>1, <3>2
  <2>6. g \in [SUBSET S -> Int]
    BY <2>5
  <2>7. ASSUME NEW s \in SUBSET S, Cardinality(s) <= n PROVE g[s] = Sums(f, g, s)
    <3>1. g[s] = Sums(f, h, s)
      BY <2>7
    <3>2. CASE s = {}
      BY <3>1, <3>2 DEF Sums
    <3>3. CASE s # {}
      <4> DEFINE r == s \ {Some(s)}
      <4>1. r \in SUBSET S /\ Cardinality(r) <= n - 1 /\ Cardinality(r) <= n
        BY <2>1, <2>7, <3>3, Taken, <1>0
      <4>2. h[r] = Sums(f, h, r)
        BY <2>4, <4>1
      <4>3. g[r] = h[r]
        BY <4>1, <4>2
      <4> QED BY <3>1, <3>3, <4>3 DEF Sums
    <3> QED BY <3>2, <3>3
  <2>8. Upto(g, n)
    BY <2>7
  <2> QED BY <2>1, <2>6, <2>8
<1>2. PICK h \in [SUBSET S -> Int] : Upto(h, Cardinality(S))
  BY <1>1, <1>0
<1>3. h = [s \in SUBSET S |-> Sums(f, h, s)]
  BY <1>0, <1>2
<1> QED BY <1>3

(* ... and SumFunction is what it gives for the whole domain.              *)
LEMMA SumsTo ==
  ASSUME NEW S, IsFiniteSet(S), NEW f \in [S -> Int]
  PROVE  \E h \in [SUBSET S -> Int] :
            /\ \A s \in SUBSET S : h[s] = Sums(f, h, s)
            /\ SumFunction(f) = h[S]
<1> DEFINE h == CHOOSE g : g = [s \in SUBSET S |-> Sums(f, g, s)]
<1>1. SumFunction(f) = h[S]
  BY Zenon DEF SumFunction, SumFunctionOnSet, FoldFunctionOnSet, MapThenFoldSet, Sums, Some
<1>2. h = [s \in SUBSET S |-> Sums(f, h, s)]
  BY SumsExist
<1> HIDE DEF h
<1>3. \A s \in SUBSET S : h[s] = Sums(f, h, s)
  BY <1>2
<1> DEFINE B == {n \in Nat : \E s \in SUBSET S : Cardinality(s) = n /\ h[s] \notin Int}
<1>4. B = {}
  <2> SUFFICES ASSUME B # {} PROVE FALSE
    OBVIOUS
  <2>1. PICK n \in B : \A m \in B : n <= m
    <3>1. B \subseteq Nat
      OBVIOUS
    <3> HIDE DEF B
    <3> QED BY <3>1, LeastNat
  <2>2. PICK s \in SUBSET S : Cardinality(s) = n /\ h[s] \notin Int
    OBVIOUS
  <2>3. s # {}
    BY <1>3, <2>2 DEF Sums
  <2> DEFINE r == s \ {Some(s)}
  <2>4. r \in SUBSET S /\ Cardinality(r) = n - 1 /\ n - 1 \in Nat /\ Some(s) \in s
    <3>1. /\ Some(s) \in s /\ r \in SUBSET S
          /\ Cardinality(s) \in Nat /\ Cardinality(r) = Cardinality(s) - 1
      BY <2>3, Taken
    <3>2. Cardinality(r) \in Nat
      BY <3>1, FS_Subset, FS_CardinalityType
    <3> QED BY <2>2, <3>1, <3>2
  <2>5. h[r] \in Int
    <3>1. n - 1 \notin B
      BY <2>1, <2>4
    <3> QED BY <3>1, <2>4
  <2>6. h[s] = f[Some(s)] + h[r]
    BY <1>3, <2>3 DEF Sums
  <2> QED BY <2>2, <2>4, <2>5, <2>6
<1>5. h \in [SUBSET S -> Int]
  <2>1. \A s \in SUBSET S : Cardinality(s) \in Nat
    BY FS_Subset, FS_CardinalityType
  <2>2. \A s \in SUBSET S : h[s] \in Int
    BY <1>4, <2>1
  <2> QED BY <1>2, <2>2
<1> QED BY <1>1, <1>3, <1>5

(* A change of one value changes the sum as much.                          *)
LEMMA SumChanges ==
  ASSUME NEW S, IsFiniteSet(S), NEW f \in [S -> Int], NEW a \in S, NEW v \in Int
  PROVE  /\ SumFunction(f) \in Int
         /\ SumFunction([f EXCEPT ![a] = v]) = SumFunction(f) - f[a] + v
<1> DEFINE e == [f EXCEPT ![a] = v]
<1>0. e \in [S -> Int] /\ e[a] = v /\ \A x \in S : x # a => e[x] = f[x]
  OBVIOUS
<1> HIDE DEF e
<1>1. PICK h \in [SUBSET S -> Int] : /\ \A s \in SUBSET S : h[s] = Sums(f, h, s)
                                     /\ SumFunction(f) = h[S]
  BY SumsTo
<1>2. PICK g \in [SUBSET S -> Int] : /\ \A s \in SUBSET S : g[s] = Sums(e, g, s)
                                     /\ SumFunction(e) = g[S]
  BY <1>0, SumsTo
<1> DEFINE By(s) == IF a \in s THEN v - f[a] ELSE 0
           B == {n \in Nat : \E s \in SUBSET S : Cardinality(s) = n /\ g[s] # h[s] + By(s)}
<1>3. B = {}
  <2> SUFFICES ASSUME B # {} PROVE FALSE
    OBVIOUS
  <2>1. PICK n \in B : \A m \in B : n <= m
    <3>1. B \subseteq Nat
      OBVIOUS
    <3> HIDE DEF B
    <3> QED BY <3>1, LeastNat
  <2>2. PICK s \in SUBSET S : Cardinality(s) = n /\ g[s] # h[s] + By(s)
    OBVIOUS
  <2>3. s # {}
    <3>1. CASE s = {}
      <4>1. h[s] = 0 /\ g[s] = 0 /\ By(s) = 0
        BY <1>1, <1>2, <3>1 DEF Sums
      <4> QED BY <2>2, <4>1
    <3> QED BY <3>1
  <2> DEFINE x == Some(s)
             r == s \ {x}
  <2>4. r \in SUBSET S /\ Cardinality(r) = n - 1 /\ n - 1 \in Nat /\ x \in s
    <3>1. /\ x \in s /\ r \in SUBSET S
          /\ Cardinality(s) \in Nat /\ Cardinality(r) = Cardinality(s) - 1
      BY <2>3, Taken
    <3>2. Cardinality(r) \in Nat
      BY <3>1, FS_Subset, FS_CardinalityType
    <3> QED BY <2>2, <3>1, <3>2
  <2>5. g[r] = h[r] + By(r)
    <3>1. n - 1 \notin B
      BY <2>1, <2>4
    <3> QED BY <3>1, <2>4
  <2>6. h[s] = f[x] + h[r] /\ g[s] = e[x] + g[r]
    BY <1>1, <1>2, <2>3 DEF Sums
  <2>7. h[r] \in Int /\ f[x] \in Int /\ f[a] \in Int
    BY <2>4
  <2> HIDE DEF x
  <2>8. CASE x = a
    <3>1. a \in s /\ a \notin r
      BY <2>4, <2>8
    <3> QED BY <1>0, <2>2, <2>5, <2>6, <2>7, <2>8, <3>1
  <2>9. CASE x # a
    <3>1. a \in s <=> a \in r
      BY <2>9
    <3>2. e[x] = f[x]
      BY <1>0, <2>4, <2>9
    <3> QED BY <2>2, <2>5, <2>6, <2>7, <3>1, <3>2
  <2> QED BY <2>8, <2>9
<1>4. Cardinality(S) \in Nat /\ S \in SUBSET S
  BY FS_CardinalityType
<1>5. g[S] = h[S] + By(S)
  BY <1>3, <1>4
<1>6. h[S] \in Int /\ f[a] \in Int
  BY <1>4
<1> QED BY <1>1, <1>2, <1>5, <1>6 DEF e

(* The sum of equal values.                                                *)
LEMMA SumOfEquals ==
  ASSUME NEW S, IsFiniteSet(S), NEW k \in Int
  PROVE  SumFunction([x \in S |-> k]) = Cardinality(S) * k
<1> DEFINE f == [x \in S |-> k]
<1>0. f \in [S -> Int] /\ \A x \in S : f[x] = k
  OBVIOUS
<1> HIDE DEF f
<1>1. PICK h \in [SUBSET S -> Int] : /\ \A s \in SUBSET S : h[s] = Sums(f, h, s)
                                     /\ SumFunction(f) = h[S]
  BY <1>0, SumsTo
<1> DEFINE B == {n \in Nat : \E s \in SUBSET S : Cardinality(s) = n /\ h[s] # n * k}
<1>3. B = {}
  <2> SUFFICES ASSUME B # {} PROVE FALSE
    OBVIOUS
  <2>1. PICK n \in B : \A m \in B : n <= m
    <3>1. B \subseteq Nat
      OBVIOUS
    <3> HIDE DEF B
    <3> QED BY <3>1, LeastNat
  <2>2. PICK s \in SUBSET S : Cardinality(s) = n /\ h[s] # n * k
    OBVIOUS
  <2>3. s # {}
    <3>1. CASE s = {}
      <4>1. n = 0 /\ h[s] = 0
        BY <1>1, <2>2, <3>1, FS_EmptySet DEF Sums
      <4>2. 0 * k = 0
        OBVIOUS
      <4> QED BY <2>2, <4>1, <4>2
    <3> QED BY <3>1
  <2> DEFINE x == Some(s)
             r == s \ {x}
  <2>4. r \in SUBSET S /\ Cardinality(r) = n - 1 /\ n - 1 \in Nat /\ x \in s
    <3>1. /\ x \in s /\ r \in SUBSET S
          /\ Cardinality(s) \in Nat /\ Cardinality(r) = Cardinality(s) - 1
      BY <2>3, Taken
    <3>2. Cardinality(r) \in Nat
      BY <3>1, FS_Subset, FS_CardinalityType
    <3> QED BY <2>2, <3>1, <3>2
  <2>5. h[r] = (n - 1) * k
    <3>1. n - 1 \notin B
      BY <2>1, <2>4
    <3> QED BY <3>1, <2>4
  <2>6. h[s] = k + h[r]
    BY <1>0, <1>1, <2>3, <2>4 DEF Sums
  <2>7. k + (n - 1) * k = n * k
    <3>1. n \in Int
      OBVIOUS
    <3> QED BY <3>1
  <2> QED BY <2>2, <2>5, <2>6, <2>7
<1>4. Cardinality(S) \in Nat /\ S \in SUBSET S
  BY FS_CardinalityType
<1>5. h[S] = Cardinality(S) * k
  BY <1>3, <1>4
<1> QED BY <1>1, <1>5 DEF f

(* Whole turns of the modulus do not show.                                 *)
LEMMA ModTurns ==
  ASSUME NEW w \in Nat \ {0}, NEW x \in Int, NEW k \in Int
  PROVE  (x + k * w) % w = x % w
<1> DEFINE p == x \div w
           q == (x + k * w) \div w
           y == x % w
           z == (x + k * w) % w
<1>1. /\ p \in Int /\ q \in Int /\ y \in 0 .. w - 1 /\ z \in 0 .. w - 1
      /\ x = w * p + y /\ x + k * w = w * q + z
  OBVIOUS
<1> HIDE DEF p, q, y, z
<1> DEFINE d == q - k - p
<1>2. w * q = w * (k + p) + w * d /\ w * (k + p) = k * w + w * p
  BY <1>1
<1>3. d \in Int
  BY <1>1
<1> HIDE DEF d
<1>4. k * w \in Int /\ w * p \in Int /\ w * q \in Int /\ w * d \in Int /\ w * (k + p) \in Int
  BY <1>1, <1>3
<1>5. y - z = w * d
  BY <1>1, <1>2, <1>4
<1>6. d >= 1 => w * d >= w
  BY <1>3
<1>7. d <= -1 => w * d <= -w
  BY <1>3
<1>8. d = 0
  BY <1>1, <1>3, <1>5, <1>6, <1>7
<1> QED BY <1>1, <1>5, <1>8 DEF y, z

LEMMA ModAdds ==
  ASSUME NEW w \in Nat \ {0}, NEW x \in Int, NEW y \in Int
  PROVE  /\ (x + y) % w = ((x % w) + y) % w
         /\ (x - y) % w = ((x % w) - y) % w
<1> DEFINE p == x \div w
           r == x % w
<1>1. p \in Int /\ r \in Int /\ x = r + p * w
  OBVIOUS
<1> HIDE DEF p, r
<1>2. ((r + y) + p * w) % w = (r + y) % w /\ ((r - y) + p * w) % w = (r - y) % w
  <2>1. r + y \in Int /\ r - y \in Int
    BY <1>1
  <2>2. \A z \in Int : (z + p * w) % w = z % w
    BY <1>1, ModTurns
  <2> QED BY <2>1, <2>2, Zenon
<1>3. x + y = (r + y) + p * w /\ x - y = (r - y) + p * w
  BY <1>1
<1>4. (x + y) % w = (r + y) % w /\ (x - y) % w = (r - y) % w
  BY <1>2, <1>3
<1> QED BY <1>4 DEF r

(* An offer whose terms still stand could be made again.                   *)
Affordable(s) ==
  /\ login[s] \in Account /\ cap # 0
  /\ level[login[s]] < cap /\ level[login[s]] < MaxLevel
  /\ credits[login[s]] >= Price[curve][cap][level[login[s]] + 1]

AccountInv ==
  /\ AccountTypeOK
  /\ NoDebt
  /\ \A s \in fair : Affordable(s)

(* int arithmetic: the result is an int, and exact if it can be.           *)
LEMMA WrapInCredits == \A n \in Int : Wrap(n) \in Credits
<1> SUFFICES ASSUME NEW n \in Int PROVE Wrap(n) \in Credits
  OBVIOUS
<1> DEFINE h == Width \div 2
<1>1. h \in Int /\ Width \in Nat \ {0} /\ Width = 2 * h
  BY AccountParameters
<1>2. \A x \in Int : x % Width \in 0 .. Width - 1
  BY <1>1
<1>3. (n + h) % Width \in 0 .. Width - 1
  BY <1>1, <1>2
<1> QED BY <1>1, <1>3 DEF Wrap, Credits

LEMMA WrapExact == \A n \in Credits : Wrap(n) = n
<1> SUFFICES ASSUME NEW n \in Credits PROVE Wrap(n) = n
  OBVIOUS
<1> DEFINE h == Width \div 2
<1>1. h \in Int /\ Width \in Nat \ {0} /\ Width = 2 * h
  BY AccountParameters
<1>2. \A x \in 0 .. Width - 1 : x % Width = x
  BY <1>1
<1>3. n \in Int /\ n + h \in 0 .. Width - 1
  BY <1>1 DEF Credits
<1> QED BY <1>1, <1>2, <1>3 DEF Wrap

LEMMA CreditsAreInts == Credits \subseteq Int /\ \A n \in 0 .. Width \div 2 - 1 : n \in Credits
  BY AccountParameters DEF Credits

LEMMA AccountInitially == AccountInit => AccountInv
<1> SUFFICES ASSUME AccountInit PROVE AccountInv
  OBVIOUS
<1>1. Start \in Credits /\ Start >= 0 /\ Start \in Int
  BY AccountParameters, CreditsAreInts
<1>2. bank \in 0 .. Width - 1
  <2>1. Cardinality(Account) \in Nat
    BY FS_CardinalityType, AccountParameters
  <2>2. Cardinality(Account) * Start \in Int
    BY <2>1, <1>1
  <2> QED BY <2>2, AccountParameters DEF AccountInit
<1> QED BY <1>1, <1>2, AccountParameters
        DEF AccountInit, AccountInv, AccountTypeOK, NoDebt, Affordable

(* What stays fair: an offer whose terms are the same after the step.      *)
LEMMA FairOffersStand ==
  ASSUME AccountInv, NEW s \in fair, Terms(s)' = Terms(s)
  PROVE  Affordable(s)'
<1>1. login[s] # "none"
  BY AccountParameters DEF AccountInv, Affordable
<1>2. login'[s] # "none"
  BY <1>1 DEF Terms
<1> QED BY <1>1, <1>2 DEF AccountInv, Terms, cvars, Affordable

(* A slot that is logged in has an account with an int of credits.         *)
LEMMA LoggedIn ==
  ASSUME AccountTypeOK, NEW s \in Slot, login[s] # "none"
  PROVE  /\ login[s] \in Account /\ level[login[s]] \in -1 .. MaxLevel
         /\ credits[login[s]] \in Credits /\ credits[login[s]] \in Int
BY CreditsAreInts DEF AccountTypeOK

LEMMA AccountStep == AccountInv /\ [AccountNext]_accountVars => AccountInv'
<1> SUFFICES ASSUME AccountInv, [AccountNext]_accountVars PROVE AccountInv'
  OBVIOUS
<1> USE DEF AccountInv
<1>0. /\ StillFair \subseteq fair
      /\ \A s \in StillFair : Affordable(s)'
  BY FairOffersStand DEF StillFair
<1>1. ASSUME NEW s \in Slot, BuyLevel(s) PROVE AccountInv'
  <2>1. AccountTypeOK'
    BY <1>1 DEF BuyLevel, cvars, AccountTypeOK
  <2>2. NoDebt'
    BY <1>1 DEF BuyLevel, cvars, NoDebt
  <2>3. \A t \in fair' : Affordable(t)'
    BY <1>1 DEF BuyLevel, cvars, Affordable, AccountTypeOK
  <2> QED BY <2>1, <2>2, <2>3
<1>2. ASSUME NEW s \in Slot, ConfirmYes(s) PROVE AccountInv'
  <2> DEFINE a == login[s]
             price == Price[curve][cap][level[a] + 1]
  <2>1. a \in Account /\ credits[a] \in Int /\ price \in Nat
    <3>1. a \in Account /\ credits[a] \in Int /\ level[a] + 1 \in 0 .. MaxLevel
      BY <1>2, LoggedIn, AccountParameters DEF ConfirmYes
    <3>2. curve \in Curve /\ cap \in Cap
      BY DEF AccountTypeOK
    <3>3. Price[curve][cap] \in [0 .. MaxLevel -> Nat]
      BY <3>2, AccountParameters
    <3> QED BY <3>1, <3>3
  <2>2. AccountTypeOK'
    <3>1. credits' \in [Account -> Credits]
      BY <1>2, <2>1, WrapInCredits DEF ConfirmYes, AccountTypeOK
    <3>2. level' \in [Account -> -1 .. MaxLevel]
      BY <1>2, <2>1, AccountParameters DEF ConfirmYes, AccountTypeOK
    <3>3. bank' \in 0 .. Width - 1
      BY <1>2, <2>1, AccountParameters DEF ConfirmYes, AccountTypeOK
    <3>4. buylevel' \in [Slot -> BOOLEAN] /\ fair' \subseteq {t \in Slot : buylevel'[t]}
      BY <1>2, <1>0 DEF ConfirmYes, AccountTypeOK
    <3>5. excused' \subseteq Account /\ login' = login /\ cap' = cap /\ curve' = curve
      BY <1>2, <2>1 DEF ConfirmYes, cvars, AccountTypeOK
    <3> QED BY <3>1, <3>2, <3>3, <3>4, <3>5 DEF AccountTypeOK
  <2>3. NoDebt'
    <3>1. CASE s \in fair
      <4>1. credits[a] >= price
        BY <3>1 DEF Affordable
      <4>2. credits[a] - price \in Credits /\ credits[a] - price >= 0
        BY <4>1, <2>1, AccountParameters DEF AccountTypeOK, Credits
      <4> QED BY <1>2, <3>1, <4>2, <2>1, WrapExact DEF ConfirmYes, NoDebt, AccountTypeOK
    <3>2. CASE s \notin fair
      BY <1>2, <3>2, <2>1 DEF ConfirmYes, NoDebt, AccountTypeOK
    <3> QED BY <3>1, <3>2
  <2> QED BY <1>0, <1>2, <2>2, <2>3 DEF ConfirmYes
<1>3. ASSUME NEW s \in Slot, ConfirmNo(s) PROVE AccountInv'
  BY <1>0, <1>3 DEF ConfirmNo, cvars, AccountTypeOK, NoDebt
<1>4. ASSUME NEW s \in Slot, NEW a \in Account \cup {"none"}, Login(s, a)
      PROVE  AccountInv'
  BY <1>0, <1>4 DEF Login, cvars, AccountTypeOK, NoDebt
<1>5. ASSUME NEW s \in Slot, NEW to \in Account, NEW n \in Amount, NEW spelt \in BOOLEAN,
             CrTransfer(s, to, n, spelt)
      PROVE  AccountInv'
  <2> DEFINE a == login[s]
             paid == [credits EXCEPT ![a] = @ - n]
  <2>1. /\ a \in Account /\ n \in Int /\ n > 0
        /\ credits \in [Account -> Credits] /\ credits[a] \in Int /\ credits[a] >= n
    BY <1>5, LoggedIn, AccountParameters DEF CrTransfer, AccountTypeOK
  <2>2. credits[a] - n \in Credits /\ credits[a] - n >= 0
    BY <2>1, AccountParameters DEF Credits
  <2>3. paid \in [Account -> Credits]
    BY <2>1, <2>2
  <2>4. paid[to] \in Int /\ Wrap(paid[to] + n) \in Credits
    <3>1. paid[to] \in Int
      BY <2>3, CreditsAreInts
    <3>2. paid[to] + n \in Int
      BY <3>1, <2>1
    <3> QED BY <3>1, <3>2, WrapInCredits
  <2>5. AccountTypeOK'
    BY <1>0, <1>5, <2>3, <2>4 DEF CrTransfer, cvars, AccountTypeOK
  <2>6. NoDebt'
    <3>1. \A b \in Account : paid[b] < 0 => b \in excused
      BY <2>1, <2>2 DEF NoDebt
    <3>2. credits' = [paid EXCEPT ![to] = Wrap(@ + n)]
      BY <1>5 DEF CrTransfer
    <3>3. CASE paid[to] + n \in Credits
      <4>1. Wrap(paid[to] + n) = paid[to] + n
        BY <3>3, WrapExact
      <4>2. credits'[to] < 0 => to \in excused
        BY <3>1, <3>2, <4>1, <2>1, <2>3, <2>4
      <4> QED BY <1>5, <3>1, <3>2, <3>3, <4>2, <2>3 DEF CrTransfer, NoDebt
    <3>4. CASE paid[to] + n \notin Credits
      BY <1>5, <3>1, <3>2, <3>4, <2>3 DEF CrTransfer, NoDebt
    <3> QED BY <3>3, <3>4
  <2> QED BY <1>0, <1>5, <2>5, <2>6 DEF CrTransfer
<1>6. ASSUME NEW s \in Slot, NEW n \in Output, TargetLCUse(s, n) PROVE AccountInv'
  <2> DEFINE a == login[s]
  <2>1. a \in Account /\ n \in Int /\ credits[a] \in Credits /\ credits[a] \in Int
    BY <1>6, LoggedIn, AccountParameters DEF TargetLCUse
  <2>2. AccountTypeOK'
    BY <1>0, <1>6, <2>1, WrapInCredits, AccountParameters DEF TargetLCUse, cvars, AccountTypeOK
  <2>3. NoDebt'
    <3>1. CASE credits[a] + n < Width \div 2
      <4>1. credits[a] + n \in Credits
        BY <1>6, <2>1, <3>1, AccountParameters DEF TargetLCUse, Credits
      <4>2. credits'[a] = credits[a] + n
        BY <1>6, <2>1, <4>1, WrapExact DEF TargetLCUse, AccountTypeOK
      <4>3. credits'[a] < 0 => credits[a] < 0
        BY <1>6, <4>2, <2>1 DEF TargetLCUse
      <4> QED BY <1>6, <2>1, <3>1, <4>3 DEF TargetLCUse, NoDebt, AccountTypeOK
    <3>2. CASE ~(credits[a] + n < Width \div 2)
      BY <1>6, <2>1, <3>2 DEF TargetLCUse, NoDebt, AccountTypeOK
    <3> QED BY <3>1, <3>2
  <2> QED BY <1>0, <1>6, <2>2, <2>3 DEF TargetLCUse
<1>7. ASSUME NEW a \in Account, NEW n \in -1 .. MaxLevel, AccountEdit(a, n)
      PROVE  AccountInv'
  BY <1>0, <1>7 DEF AccountEdit, cvars, AccountTypeOK, NoDebt
<1>8. ASSUME NEW c \in Cap, SetCap(c) PROVE AccountInv'
  BY <1>0, <1>8 DEF SetCap, AccountTypeOK, NoDebt
<1>9. ASSUME NEW q \in Curve, SetCurve(q) PROVE AccountInv'
  BY <1>0, <1>9 DEF SetCurve, AccountTypeOK, NoDebt
<1>10. CASE UNCHANGED accountVars
  BY <1>10 DEF accountVars, cvars, AccountTypeOK, NoDebt, Affordable
<1> QED
  BY <1>1, <1>2, <1>3, <1>4, <1>5, <1>6, <1>7, <1>8, <1>9, <1>10 DEF AccountNext

(* int arithmetic loses whole turns of the width only.                     *)
LEMMA WrapTurns ==
  ASSUME NEW n \in Int
  PROVE  \E k \in Int : Wrap(n) = n + k * Width
<1> DEFINE h == Width \div 2
           q == (n + h) \div Width
           r == (n + h) % Width
<1>1. Width \in Nat \ {0} /\ h \in Int
  BY AccountParameters
<1>2. q \in Int /\ r \in Int /\ n + h = Width * q + r
  BY <1>1
<1>3. Wrap(n) = r - h
  BY DEF Wrap
<1> HIDE DEF h, q, r
<1>4. -q \in Int /\ (-q) * Width = -(Width * q)
  BY <1>1, <1>2
<1>5. Wrap(n) = n + (-q) * Width
  BY <1>1, <1>2, <1>3, <1>4
<1> QED BY <1>4, <1>5

(* What an account receives or pays in int arithmetic, all accounts do.    *)
LEMMA Booked ==
  ASSUME NEW f \in [Account -> Int], NEW a \in Account, NEW n \in Int
  PROVE  LET s == SumFunction(f) IN
         /\ s \in Int
         /\ SumFunction([f EXCEPT ![a] = Wrap(@ + n)]) % Width = ((s % Width) + n) % Width
<1> DEFINE s == SumFunction(f)
           t == SumFunction([f EXCEPT ![a] = Wrap(@ + n)])
<1>1. f[a] \in Int /\ f[a] + n \in Int /\ Width \in Nat \ {0} /\ IsFiniteSet(Account)
  BY AccountParameters
<1>2. PICK k \in Int : Wrap(f[a] + n) = f[a] + n + k * Width
  BY <1>1, WrapTurns
<1>3. k * Width \in Int
  BY <1>1
<1>4. s \in Int /\ t = s - f[a] + Wrap(f[a] + n)
  <2>1. Wrap(f[a] + n) \in Int
    BY <1>1, <1>2, <1>3
  <2> QED BY <1>1, <2>1, SumChanges
<1> HIDE DEF s, t
<1>5. t = (s + n) + k * Width
  BY <1>1, <1>2, <1>3, <1>4
<1>6. s + n \in Int
  BY <1>4
<1>7. t % Width = (s + n) % Width
  BY <1>1, <1>5, <1>6, ModTurns
<1>8. (s + n) % Width = ((s % Width) + n) % Width
  BY <1>1, <1>4, ModAdds
<1> QED BY <1>4, <1>7, <1>8 DEF s, t

LEMMA LedgerInitially == AccountInit => Ledger
<1> SUFFICES ASSUME AccountInit PROVE Ledger
  OBVIOUS
<1>1. Start \in Int /\ IsFiniteSet(Account)
  BY AccountParameters
<1>2. SumFunction(credits) = Cardinality(Account) * Start
  BY <1>1, SumOfEquals DEF AccountInit
<1> QED BY <1>2 DEF AccountInit, Ledger

LEMMA LedgerStep == AccountInv /\ Ledger /\ [AccountNext]_accountVars => Ledger'
<1> SUFFICES ASSUME AccountInv, Ledger, [AccountNext]_accountVars PROVE Ledger'
  OBVIOUS
<1>0. /\ credits \in [Account -> Int] /\ SumFunction(credits) \in Int
      /\ IsFiniteSet(Account) /\ Width \in Nat \ {0}
  <2>1. credits \in [Account -> Int] /\ IsFiniteSet(Account) /\ Width \in Nat \ {0}
    BY CreditsAreInts, AccountParameters DEF AccountInv, AccountTypeOK
  <2>2. CASE Account = {}
    <3>1. credits = [x \in Account |-> 0]
      BY <2>1, <2>2
    <3>2. SumFunction([x \in Account |-> 0]) = Cardinality(Account) * 0
      BY <2>1, SumOfEquals, 0 \in Int
    <3>3. Cardinality(Account) \in Int
      BY <2>1, FS_CardinalityType
    <3> QED BY <2>1, <3>1, <3>2, <3>3
  <2>3. CASE Account # {}
    <3>1. PICK a \in Account : TRUE
      BY <2>3
    <3> QED BY <2>1, <3>1, SumChanges
  <2> QED BY <2>1, <2>2, <2>3
<1>1. ASSUME NEW s \in Slot, ConfirmYes(s) PROVE Ledger'
  <2> DEFINE a == login[s]
             price == Price[curve][cap][level[a] + 1]
  <2>1. a \in Account /\ price \in Nat
    <3>1. a \in Account /\ level[a] + 1 \in 0 .. MaxLevel
      BY <1>1, LoggedIn, AccountParameters DEF ConfirmYes, AccountInv
    <3>2. curve \in Curve /\ cap \in Cap
      BY DEF AccountInv, AccountTypeOK
    <3>3. Price[curve][cap] \in [0 .. MaxLevel -> Nat]
      BY <3>2, AccountParameters
    <3> QED BY <3>1, <3>3
  <2>2. credits' = [credits EXCEPT ![a] = Wrap(@ - price)] /\ bank' = (bank - price) % Width
    BY <1>1 DEF ConfirmYes
  <2> HIDE DEF a, price
  <2>3. credits[a] - price = credits[a] + (-price) /\ -price \in Int
    BY <1>0, <2>1
  <2>4. credits' = [credits EXCEPT ![a] = Wrap(@ + (-price))]
    BY <2>2, <2>3
  <2>5. SumFunction(credits') % Width = ((SumFunction(credits) % Width) + (-price)) % Width
    BY <1>0, <2>1, <2>3, <2>4, Booked
  <2>6. bank + (-price) = bank - price
    BY <2>1 DEF AccountInv, AccountTypeOK
  <2> QED BY <2>2, <2>5, <2>6 DEF Ledger
<1>2. ASSUME NEW s \in Slot, NEW to \in Account, NEW n \in Amount, NEW spelt \in BOOLEAN,
             CrTransfer(s, to, n, spelt)
      PROVE  Ledger'
  <2> DEFINE a == login[s]
             paid == [credits EXCEPT ![a] = @ - n]
  <2>1. a \in Account /\ n \in Int /\ credits[a] \in Int /\ credits[a] - n \in Int
    BY <1>2, LoggedIn, AccountParameters DEF CrTransfer, AccountInv
  <2>2. paid \in [Account -> Int]
    BY <1>0, <2>1
  <2>3. SumFunction(paid) = SumFunction(credits) - n
    <3>1. \A v \in Int : SumFunction([credits EXCEPT ![a] = v])
                             = SumFunction(credits) - credits[a] + v
      BY <1>0, <2>1, SumChanges
    <3>2. paid = [credits EXCEPT ![a] = credits[a] - n]
      OBVIOUS
    <3>3. SumFunction(paid) = SumFunction(credits) - credits[a] + (credits[a] - n)
      BY <2>1, <3>1, <3>2, Zenon
    <3> QED BY <1>0, <2>1, <3>3
  <2>4. credits' = [paid EXCEPT ![to] = Wrap(@ + n)] /\ bank' = bank
    BY <1>2 DEF CrTransfer
  <2> HIDE DEF a, paid
  <2>5. SumFunction(credits') % Width = ((SumFunction(paid) % Width) + n) % Width
    BY <2>1, <2>2, <2>4, Booked
  <2>6. SumFunction(paid) \in Int
    BY <1>0, <2>1, <2>3
  <2>7. ((SumFunction(paid) % Width) + n) % Width = (SumFunction(paid) + n) % Width
    BY <1>0, <2>1, <2>6, ModAdds
  <2>8. SumFunction(paid) + n = SumFunction(credits)
    BY <1>0, <2>1, <2>3
  <2> QED BY <2>4, <2>5, <2>7, <2>8 DEF Ledger
<1>3. ASSUME NEW s \in Slot, NEW n \in Output, TargetLCUse(s, n) PROVE Ledger'
  <2> DEFINE a == login[s]
  <2>1. a \in Account /\ n \in Int
    BY <1>3, LoggedIn, AccountParameters DEF TargetLCUse, AccountInv
  <2>2. credits' = [credits EXCEPT ![a] = Wrap(@ + n)] /\ bank' = (bank + n) % Width
    BY <1>3 DEF TargetLCUse
  <2> HIDE DEF a
  <2>3. SumFunction(credits') % Width = ((SumFunction(credits) % Width) + n) % Width
    BY <1>0, <2>1, <2>2, Booked
  <2> QED BY <2>2, <2>3 DEF Ledger
<1>4. ASSUME UNCHANGED <<credits, bank>> PROVE Ledger'
  BY <1>4 DEF Ledger
<1> QED
  BY <1>1, <1>2, <1>3, <1>4
  DEF AccountNext, BuyLevel, ConfirmNo, Login, AccountEdit, SetCap, SetCurve, accountVars

(* The types hold; in particular every balance is an int.                  *)
THEOREM AccountTypeCorrect == AccountSpec => []AccountTypeOK
<1>1. AccountInv => AccountTypeOK
  BY DEF AccountInv
<1> QED BY <1>1, AccountInitially, AccountStep, PTL DEF AccountSpec

(* No account is in debt that neither overflowed nor confirmed an offer    *)
(* made on other terms (Main.cpp:1021-1118, XG-Hook.cpp:171-217).          *)
THEOREM NobodyOwes == AccountSpec => []NoDebt
<1>1. AccountInv => NoDebt
  BY DEF AccountInv
<1> QED BY <1>1, AccountInitially, AccountStep, PTL DEF AccountSpec

(* No step raises a level above the cap, with the same exception           *)
(* (/buylevel, /confirm and accountedit).                                  *)
THEOREM NoLevelAboveCap == AccountSpec => CapRespected
<1> DEFINE Raise == \A a \in Account : level'[a] > level[a] => level'[a] <= cap \/ a \in excused'
<1>1. AccountInv /\ [AccountNext]_accountVars => [Raise]_accountVars
  <2> SUFFICES ASSUME AccountInv, AccountNext PROVE Raise
    OBVIOUS
  <2>1. level \in [Account -> -1 .. MaxLevel] /\ cap \in Int
    BY AccountParameters DEF AccountInv, AccountTypeOK
  <2>2. ASSUME NEW s \in Slot, ConfirmYes(s) PROVE Raise
    <3>1. CASE s \in fair
      BY <2>1, <2>2, <3>1 DEF AccountInv, Affordable, ConfirmYes, cvars
    <3>2. CASE s \notin fair
      BY <2>1, <2>2, <3>2 DEF ConfirmYes, cvars
    <3> QED BY <3>1, <3>2
  <2>3. ASSUME NEW a \in Account, NEW n \in -1 .. MaxLevel, AccountEdit(a, n) PROVE Raise
    BY <2>1, <2>3 DEF AccountEdit
  <2>4. ASSUME UNCHANGED level PROVE Raise
    BY <2>1, <2>4
  <2> QED
    BY <2>2, <2>3, <2>4
    DEF AccountNext, BuyLevel, ConfirmNo, Login, CrTransfer, TargetLCUse, SetCap,
        SetCurve
<1> QED BY <1>1, AccountInitially, AccountStep, PTL DEF AccountSpec, CapRespected

(* What all accounts hold changes by bought levels and entities alone,     *)
(* whatever wraps and whoever pays whom (Main.cpp:1021-1118,               *)
(* XG-Hook.cpp:171-217).                                                   *)
THEOREM CreditsAddUp == AccountSpec => []Ledger
<1>1. AccountInit => AccountInv /\ Ledger
  BY AccountInitially, LedgerInitially
<1>2. AccountInv /\ Ledger /\ [AccountNext]_accountVars => AccountInv' /\ Ledger'
  BY AccountStep, LedgerStep
<1> QED BY <1>1, <1>2, PTL DEF AccountSpec

-----------------------------------------------------------------------------
(* The code hooks.                                                         *)

(* The calls s under way: the plugin's code is called where it is, only    *)
(* hooks call originals, and the mod's body of a site runs above the hook  *)
(* that lifted it, the hook never.                                         *)
Sure(s, d) ==
  /\ s[d].who \in {"mod", base}
  /\ s[d].fn \in {"use", "think"} => s[d].who = base
  /\ s[d].called => s[d].who = base /\ s[d].fn \in Through
Below(s, d) == \E c \in 1 .. d - 1 : s[c].fn = s[d].fn /\ s[c].called
Placed(s, d) == s[d].fn \in Site => (s[d].who = "mod" <=> Below(s, d))
Frames(s) == \A d \in 1 .. Len(s) : Sure(s, d) /\ (base # "none" => Placed(s, d))

LiftedIn(s, x) == \E d \in 1 .. Len(s) : s[d].fn = x /\ s[d].called

(* What leads into the plugin, leads to where it is.                       *)
Leads ==
  /\ base = "none" => \A x \in Site : code[x] = "mod"
  /\ base # "none" => \A x \in Site : /\ old[x] = "mod"
                                      /\ code[x] = IF LiftedIn(stack, x) THEN "mod" ELSE base
  /\ spawn \subseteq {base}
  /\ \A e \in Ent : use[e] \in {"none", base} /\ thinks[e] \in {"none", "mod", base}

(* Whatever happens, code of the plugin that runs is where the plugin is,  *)
(* and the plugin that is there has saved what it found.                   *)
AtHome(s) == \A d \in 1 .. Len(s) : s[d].who \in {"mod", base}
Saved == base # "none" => \A x \in Site : old[x] # "zero"

HookInv ==
  /\ HookTypeOK /\ AtHome(stack) /\ Saved
  /\ ~left => ~crashed /\ Leads /\ Frames(stack)

-----------------------------------------------------------------------------
(* Pushing and popping calls                                               *)

LEMMA BaseNames == /\ \A b \in Base : b # "mod" /\ b # "none" /\ b # "zero"
                   /\ Through \subseteq Site
BY HookParameters DEF Through, Site

LEMMA CallIsFrame ==
  ASSUME NEW fn \in Site \cup {"use", "think"}, NEW w \in Base \cup {"mod"}
  PROVE  Call(fn, w) \in CallFrame
BY DEF Call, CallFrame

LEMMA Pushed ==
  ASSUME NEW s \in Seq(CallFrame), NEW f \in CallFrame
  PROVE  /\ Append(s, f) \in Seq(CallFrame)
         /\ Len(Append(s, f)) = Len(s) + 1
         /\ Append(s, f)[Len(s) + 1] = f
         /\ \A d \in 1 .. Len(s) : Append(s, f)[d] = s[d]
OBVIOUS

LEMMA Popped ==
  ASSUME NEW s \in Seq(CallFrame), s # <<>>
  PROVE  /\ Pop(s) \in Seq(CallFrame)
         /\ Len(Pop(s)) = Len(s) - 1 /\ Len(s) \in Nat \ {0}
         /\ \A d \in 1 .. Len(s) - 1 : Pop(s)[d] = s[d]
<1>1. Len(s) \in Nat \ {0}
  OBVIOUS
<1> DEFINE n == Len(s) - 1
           q == SubSeq(s, 1, n)
<1>2. n \in Nat /\ \A j \in 1 .. n : s[j] \in CallFrame
  BY <1>1
<1>3. /\ q \in Seq(CallFrame)
      /\ Len(q) = IF 1 <= n THEN n - 1 + 1 ELSE 0
      /\ \A j \in 1 .. n - 1 + 1 : q[j] = s[1 + j - 1]
  BY <1>2, SubSeqProperties
<1>4. Pop(s) = q
  BY DEF Pop
<1> HIDE DEF q, n
<1>5. n - 1 + 1 = n /\ Len(q) = n
  BY <1>2, <1>3
<1>6. \A j \in 1 .. n : 1 + j - 1 = j
  BY <1>2
<1>7. \A j \in 1 .. n : q[j] = s[j]
  BY <1>3, <1>5, <1>6
<1> QED BY <1>1, <1>3, <1>4, <1>5, <1>7 DEF n

LEMMA PushKeeps ==
  ASSUME NEW s \in Seq(CallFrame), Frames(s), NEW fn \in Site \cup {"use", "think"},
         NEW w \in Base \cup {"mod"}, w \in {"mod", base},
         fn \in {"use", "think"} => w = base,
         base # "none" /\ fn \in Site => (w = "mod" <=> LiftedIn(s, fn))
  PROVE  LET p == Append(s, Call(fn, w))
         IN  Frames(p) /\ \A x \in Site : LiftedIn(p, x) <=> LiftedIn(s, x)
<1> DEFINE f == Call(fn, w)
           p == Append(s, f)
           n == Len(s)
<1>1. /\ n \in Nat /\ Len(p) = n + 1 /\ p[n + 1] = f
      /\ \A d \in 1 .. n : p[d] = s[d]
      /\ f.fn = fn /\ f.who = w /\ f.called = FALSE
  BY CallIsFrame, Pushed DEF Call
<1> HIDE DEF p, f
<1>2. ASSUME NEW d \in 1 .. n PROVE Sure(p, d) /\ (base # "none" => Placed(p, d))
  <2>1. p[d] = s[d] /\ \A c \in 1 .. d - 1 : p[c] = s[c]
    BY <1>1
  <2>2. Below(p, d) <=> Below(s, d)
    BY <2>1 DEF Below
  <2> QED BY <2>1, <2>2 DEF Frames, Sure, Placed
<1>3. Sure(p, n + 1)
  BY <1>1 DEF Sure
<1>4. Below(p, n + 1) <=> LiftedIn(s, fn)
  BY <1>1 DEF Below, LiftedIn
<1>5. base # "none" => Placed(p, n + 1)
  BY <1>1, <1>4 DEF Placed
<1>6. ASSUME NEW d \in 1 .. n + 1 PROVE Sure(p, d) /\ (base # "none" => Placed(p, d))
  BY <1>1, <1>2, <1>3, <1>5
<1>7. Frames(p)
  BY <1>1, <1>6 DEF Frames
<1>8. ASSUME NEW x \in Site PROVE LiftedIn(p, x) <=> LiftedIn(s, x)
  BY <1>1 DEF LiftedIn
<1> QED BY <1>7, <1>8 DEF p, f

LEMMA PopKeeps ==
  ASSUME NEW s \in Seq(CallFrame), s # <<>>, Frames(s), base \in Base \cup {"none"}
  PROVE  /\ Frames(Pop(s))
         /\ \A x \in Site : /\ ~s[Len(s)].called => (LiftedIn(Pop(s), x) <=> LiftedIn(s, x))
                            /\ x # s[Len(s)].fn => (LiftedIn(Pop(s), x) <=> LiftedIn(s, x))
         /\ s[Len(s)].called /\ base # "none" => ~LiftedIn(Pop(s), s[Len(s)].fn)
<1> DEFINE p == Pop(s)
           n == Len(s)
<1>1. /\ n \in Nat \ {0} /\ Len(p) = n - 1
      /\ \A d \in 1 .. n - 1 : p[d] = s[d]
  BY Popped
<1> HIDE DEF p
<1>2. ASSUME NEW d \in 1 .. n - 1 PROVE Sure(p, d) /\ (base # "none" => Placed(p, d))
  <2>1. p[d] = s[d] /\ d \in 1 .. n /\ \A c \in 1 .. d - 1 : p[c] = s[c]
    BY <1>1
  <2>2. Below(p, d) <=> Below(s, d)
    BY <2>1 DEF Below
  <2> QED BY <2>1, <2>2 DEF Frames, Sure, Placed
<1>3. Frames(p)
  BY <1>1, <1>2 DEF Frames
<1>4. ASSUME NEW x \in Site, ~s[n].called \/ x # s[n].fn PROVE LiftedIn(p, x) <=> LiftedIn(s, x)
  BY <1>1, <1>4 DEF LiftedIn
<1>5. ASSUME s[n].called, base # "none" PROVE ~LiftedIn(p, s[n].fn)
  <2>1. n \in 1 .. n /\ Sure(s, n) /\ Placed(s, n)
    BY <1>1, <1>5 DEF Frames
  <2>2. s[n].who # "mod" /\ s[n].fn \in Site
    BY <1>5, <2>1, BaseNames DEF Sure
  <2>3. ~Below(s, n)
    BY <2>1, <2>2 DEF Placed
  <2> QED BY <1>1, <2>3 DEF Below, LiftedIn
<1> QED BY <1>3, <1>4, <1>5 DEF p
LEMMA LiftTypes ==
  ASSUME NEW s \in Seq(CallFrame), s # <<>>
  PROVE  LET p == [s EXCEPT ![Len(s)].called = TRUE]
         IN  /\ p \in Seq(CallFrame) /\ Len(p) = Len(s) /\ Len(s) \in 1 .. Len(s)
             /\ \A d \in 1 .. Len(s) : p[d].fn = s[d].fn /\ p[d].who = s[d].who
             /\ \A d \in 1 .. Len(s) - 1 : p[d] = s[d]
             /\ p[Len(s)].called = TRUE
<1> DEFINE n == Len(s)
           p == [s EXCEPT ![n].called = TRUE]
           f == [s[n] EXCEPT !.called = TRUE]
<1>1. n \in Nat \ {0} /\ n \in 1 .. n /\ \A d \in 1 .. n : s[d] \in CallFrame
  OBVIOUS
<1>2. f \in CallFrame /\ f.fn = s[n].fn /\ f.who = s[n].who /\ f.called = TRUE
  BY <1>1 DEF CallFrame
<1>3. p = [s EXCEPT ![n] = f]
  OBVIOUS
<1> HIDE DEF f, p
<1>4. /\ p \in Seq(CallFrame) /\ Len(p) = n
      /\ \A d \in 1 .. n : p[d] = IF d = n THEN f ELSE s[d]
  BY <1>1, <1>2, <1>3, ExceptSeq
<1>5. \A d \in 1 .. n : p[d].fn = s[d].fn /\ p[d].who = s[d].who
  BY <1>2, <1>4
<1>6. (\A d \in 1 .. n - 1 : p[d] = s[d]) /\ p[n].called = TRUE
  BY <1>1, <1>2, <1>4
<1> QED BY <1>1, <1>4, <1>5, <1>6 DEF p

LEMMA LiftKeeps ==
  ASSUME NEW s \in Seq(CallFrame), s # <<>>, Frames(s), s[Len(s)].who = base, s[Len(s)].fn \in Through
  PROVE  LET p == [s EXCEPT ![Len(s)].called = TRUE]
         IN  /\ Frames(p)
             /\ LiftedIn(p, s[Len(s)].fn)
             /\ \A x \in Site : x # s[Len(s)].fn => (LiftedIn(p, x) <=> LiftedIn(s, x))
<1> DEFINE n == Len(s)
           p == [s EXCEPT ![n].called = TRUE]
<1>1. n \in Nat \ {0} /\ n \in 1 .. n
  OBVIOUS
<1>4. /\ Len(p) = n
      /\ \A d \in 1 .. n : p[d].fn = s[d].fn /\ p[d].who = s[d].who
      /\ \A d \in 1 .. n - 1 : p[d] = s[d]
      /\ p[n].called = TRUE
  BY LiftTypes
<1> HIDE DEF p
<1>5. ASSUME NEW d \in 1 .. n PROVE Sure(p, d) /\ (base # "none" => Placed(p, d))
  <2>1. p[d].fn = s[d].fn /\ p[d].who = s[d].who
    BY <1>4
  <2>2. Below(p, d) <=> Below(s, d)
    <3>1. \A c \in 1 .. d - 1 : p[c] = s[c]
      BY <1>1, <1>4
    <3> QED BY <2>1, <3>1 DEF Below
  <2>3. Sure(s, d) /\ (base # "none" => Placed(s, d))
    BY <1>1 DEF Frames
  <2>4. Sure(p, d)
    <3>1. CASE d = n
      BY <2>1, <2>3, <3>1 DEF Sure
    <3>2. CASE d # n
      <4>1. p[d] = s[d]
        BY <1>1, <1>4, <3>2
      <4> QED BY <4>1, <2>3 DEF Sure
    <3> QED BY <3>1, <3>2
  <2> QED BY <2>1, <2>2, <2>3, <2>4 DEF Placed
<1>6. Frames(p)
  BY <1>4, <1>5 DEF Frames
<1>7. LiftedIn(p, s[n].fn)
  BY <1>1, <1>4 DEF LiftedIn
<1>8. ASSUME NEW x \in Site, x # s[n].fn PROVE LiftedIn(p, x) <=> LiftedIn(s, x)
  BY <1>1, <1>4, <1>8 DEF LiftedIn
<1> QED BY <1>6, <1>7, <1>8 DEF p

(* What is said of calls does not change while the plugin stays where it   *)
(* is.                                                                     *)
LEMMA FramesStay ==
  ASSUME NEW p, stack' = p, base' = base, Frames(p) PROVE Frames(stack)'
BY DEF Frames, Sure, Placed, Below

LEMMA LiftedStay ==
  ASSUME NEW p, stack' = p PROVE \A x : LiftedIn(stack, x)' <=> LiftedIn(p, x)
BY DEF LiftedIn

LEMMA NoFrames == stack = <<>> => Frames(stack) /\ \A x : ~LiftedIn(stack, x)
BY DEF Frames, LiftedIn

-----------------------------------------------------------------------------
(* The steps that push a call                                              *)

LEMMA JumpTypes ==
  ASSUME HookTypeOK, NEW s \in Seq(CallFrame), Len(s) < MaxDepth, AtHome(s), base' = base,
         NEW fn \in Site \cup {"use", "think"}, NEW t \in Base \cup {"mod"}, Jump(s, fn, t),
         Len(stack) <= MaxDepth, AtHome(stack)
  PROVE  stack' \in Seq(CallFrame) /\ Len(stack') <= MaxDepth /\ crashed' \in BOOLEAN /\ AtHome(stack)'
<1>1. CASE t = "mod" \/ t = base
  <2>1. stack' = Append(s, Call(fn, t)) /\ crashed' = crashed
    BY <1>1 DEF Jump
  <2>2. /\ stack' \in Seq(CallFrame) /\ Len(stack') = Len(s) + 1
        /\ stack'[Len(s) + 1] = Call(fn, t) /\ \A d \in 1 .. Len(s) : stack'[d] = s[d]
    BY <2>1, CallIsFrame, Pushed
  <2>3. Len(s) \in Nat /\ MaxDepth \in Nat
    BY HookParameters
  <2>4. ASSUME NEW d \in 1 .. Len(s) + 1 PROVE stack'[d].who \in {"mod", base}
    <3>1. CASE d = Len(s) + 1
      BY <1>1, <2>2, <3>1 DEF Call
    <3>2. CASE d # Len(s) + 1
      <4>1. d \in 1 .. Len(s)
        BY <2>3, <3>2
      <4> QED BY <2>2, <4>1 DEF AtHome
    <3> QED BY <3>1, <3>2
  <2> QED BY <2>1, <2>2, <2>3, <2>4 DEF HookTypeOK, AtHome
<1>2. CASE ~(t = "mod" \/ t = base)
  BY <1>2 DEF Jump, HookTypeOK, AtHome
<1> QED BY <1>1, <1>2

(* A call from the top of the stack, to where a site, an entity or the     *)
(* original leads.                                                         *)
LEMMA JumpKeeps ==
  ASSUME HookTypeOK, ~crashed, NEW s \in Seq(CallFrame), Frames(s), base' = base,
         NEW fn \in Site \cup {"use", "think"}, NEW t \in Base \cup {"mod"}, t \in {"mod", base},
         fn \in {"use", "think"} => t = base,
         base # "none" /\ fn \in Site => (t = "mod" <=> LiftedIn(s, fn)),
         Jump(s, fn, t)
  PROVE  /\ ~crashed' /\ Frames(stack)'
         /\ \A x \in Site : LiftedIn(stack, x)' <=> LiftedIn(s, x)
<1> DEFINE p == Append(s, Call(fn, t))
<1>1. stack' = p /\ crashed' = crashed
  BY DEF Jump
<1>2. Frames(p) /\ \A x \in Site : LiftedIn(p, x) <=> LiftedIn(s, x)
  BY PushKeeps
<1> HIDE DEF p
<1>3. Frames(stack)'
  BY <1>1, <1>2, FramesStay
<1> QED BY <1>1, <1>2, <1>3, LiftedStay
-----------------------------------------------------------------------------
(* Each action keeps the invariant.                                        *)

LEMMA HookInitially == HookInit => HookInv
<1> SUFFICES ASSUME HookInit PROVE HookInv
  OBVIOUS
<1>1. HookTypeOK
  <2>1. stack \in Seq(CallFrame) /\ Len(stack) = 0 /\ 0 <= MaxDepth
    <3>1. stack = <<>>
      BY DEF HookInit
    <3> QED BY <3>1, HookParameters
  <2>2. /\ code \in [Site -> Base \cup {"mod"}] /\ old \in [Site -> Base \cup {"mod", "zero"}]
        /\ use \in [Ent -> Base \cup {"none"}] /\ thinks \in [Ent -> Base \cup {"none", "mod"}]
    BY DEF HookInit
  <2> QED BY <2>1, <2>2, HookParameters DEF HookInit, HookTypeOK
<1>2. Leads
  BY DEF HookInit, Leads
<1> QED BY <1>1, <1>2, NoFrames DEF HookInit, HookInv, AtHome, Saved

LEMMA AttachKeeps == ASSUME HookInv, NEW b \in Base, JASS_Attach(b) PROVE HookInv'
<1>1. HookTypeOK' /\ AtHome(stack)' /\ Saved'
  <2>1. HookTypeOK'
    BY DEF HookInv, HookTypeOK, JASS_Attach
  <2>2. Len(stack') = 0
    BY DEF JASS_Attach, idle
  <2>3. \A x \in Site : old'[x] # "zero"
    BY BaseNames DEF HookInv, HookTypeOK, JASS_Attach
  <2> QED BY <2>1, <2>2, <2>3 DEF AtHome, Saved
<1>2. ASSUME ~left' PROVE ~crashed' /\ Leads' /\ Frames(stack)'
  <2>1. ~left /\ base = "none" /\ stack = <<>> /\ stack' = <<>> /\ base' = b
    BY <1>2 DEF JASS_Attach, idle
  <2>2. Leads
    BY <2>1 DEF HookInv
  <2>3. Frames(stack)' /\ \A x : ~LiftedIn(stack, x)'
    BY <2>1 DEF Frames, LiftedIn
  <2>4. \A x \in Site : old'[x] = "mod" /\ code'[x] = b
    BY <2>1, <2>2 DEF JASS_Attach, Leads
  <2>5. \A e \in Ent : use'[e] \in {"none", b} /\ thinks'[e] \in {"none", "mod", b}
    BY <2>1, <2>2 DEF JASS_Attach, Leads
  <2>6. spawn' = {b} /\ ~crashed' /\ b # "none"
    BY BaseNames DEF JASS_Attach
  <2> QED BY <2>1, <2>3, <2>4, <2>5, <2>6 DEF Leads
<1> QED BY <1>1, <1>2 DEF HookInv

LEMMA DetachKeeps == ASSUME HookInv, JASS_Detach PROVE HookInv'
<1>1. HookTypeOK' /\ left'
  BY DEF HookInv, HookTypeOK, JASS_Detach
<1>2. Len(stack') = 0 /\ base' = "none"
  BY DEF JASS_Detach, idle
<1> QED BY <1>1, <1>2 DEF HookInv, AtHome, Saved

LEMMA MapEndsKeeps == ASSUME HookInv, MapEnds PROVE HookInv'
<1>1. HookTypeOK'
  BY DEF HookInv, HookTypeOK, MapEnds
<1>2. stack' = <<>> /\ base' = "none"
  BY DEF MapEnds, idle
<1>3. Frames(stack)'
  BY <1>2 DEF Frames
<1>4. Leads' /\ ~crashed'
  BY DEF MapEnds, Leads
<1>5. Len(stack') = 0
  BY <1>2
<1> QED BY <1>1, <1>2, <1>3, <1>4, <1>5 DEF HookInv, AtHome, Saved

(* A step that leaves calls, code and the plugin alone.                    *)
LEMMA QuietKeeps ==
  ASSUME HookInv, ~left, UNCHANGED <<code, old, base, spawn, stack>>,
         \A e \in Ent : use'[e] \in {"none", base} /\ thinks'[e] \in {"none", "mod", base}
  PROVE  Leads' /\ Frames(stack)'
<1>1. Leads /\ Frames(stack)
  BY DEF HookInv
<1>2. Frames(stack)'
  BY <1>1, FramesStay
<1>3. \A x : LiftedIn(stack, x)' <=> LiftedIn(stack, x)
  BY LiftedStay
<1> QED BY <1>1, <1>2, <1>3 DEF Leads

LEMMA FreeKeeps == ASSUME HookInv, NEW e \in Ent, FreeEntity(e) PROVE HookInv'
<1>1. HookTypeOK' /\ AtHome(stack)' /\ Saved'
  BY DEF HookInv, HookTypeOK, AtHome, Saved, FreeEntity
<1>2. ASSUME ~left' PROVE ~crashed' /\ Leads' /\ Frames(stack)'
  <2>1. ~left /\ ~crashed /\ Leads
    BY <1>2 DEF HookInv, FreeEntity
  <2>2. \A x \in Ent : use'[x] \in {"none", base} /\ thinks'[x] \in {"none", "mod", base}
    BY <2>1 DEF FreeEntity, Leads, HookInv, HookTypeOK
  <2> QED BY <2>1, <2>2, QuietKeeps DEF FreeEntity
<1> QED BY <1>1, <1>2 DEF HookInv

LEMMA SpawnKeeps ==
  ASSUME HookInv, NEW e \in Ent, NEW f \in Base, SP_target_level_change(e, f) PROVE HookInv'
<1>1. HookTypeOK' /\ AtHome(stack)' /\ Saved'
  BY DEF HookInv, HookTypeOK, AtHome, Saved, SP_target_level_change
<1>2. ASSUME ~left' PROVE ~crashed' /\ Leads' /\ Frames(stack)'
  <2>1. ~left /\ ~crashed /\ Leads
    BY <1>2 DEF HookInv, SP_target_level_change
  <2>2. f = base
    BY <2>1 DEF SP_target_level_change, Leads
  <2>3. \A x \in Ent : use'[x] \in {"none", base} /\ thinks'[x] \in {"none", "mod", base}
    BY <2>1, <2>2 DEF SP_target_level_change, Leads, HookInv, HookTypeOK
  <2> QED BY <2>1, <2>2, <2>3, QuietKeeps DEF SP_target_level_change
<1> QED BY <1>1, <1>2 DEF HookInv

LEMMA CallsKeeps == ASSUME HookInv, NEW x \in Site, Calls(x) PROVE HookInv'
<1>1. /\ stack \in Seq(CallFrame) /\ Len(stack) < MaxDepth /\ Len(stack) <= MaxDepth
      /\ code[x] \in Base \cup {"mod"} /\ Jump(stack, x, code[x])
      /\ UNCHANGED <<code, old, base, spawn, use, thinks, left>>
  <2>1. Len(stack) # MaxDepth /\ Len(stack) < MaxDepth
    BY DEF Calls, ModRuns, Shallow
  <2> QED BY <2>1 DEF Calls, HookInv, HookTypeOK
<1>2. HookTypeOK' /\ AtHome(stack)' /\ Saved'
  <2>1. /\ stack' \in Seq(CallFrame) /\ Len(stack') <= MaxDepth /\ crashed' \in BOOLEAN
        /\ AtHome(stack)' /\ base' = base
    BY <1>1, JumpTypes DEF HookInv
  <2> QED BY <1>1, <2>1 DEF HookInv, HookTypeOK, Saved
<1>3. ASSUME ~left' PROVE ~crashed' /\ Leads' /\ Frames(stack)'
  <2>1. HookTypeOK /\ ~left /\ ~crashed /\ Leads /\ Frames(stack)
    BY <1>1, <1>3 DEF HookInv
  <2>2. /\ code[x] \in {"mod", base}
        /\ base # "none" => (code[x] = "mod" <=> LiftedIn(stack, x))
    BY <2>1, BaseNames DEF Leads, HookTypeOK
  <2>3. x \notin {"use", "think"}
    BY DEF Site
  <2>4. /\ ~crashed' /\ Frames(stack)'
        /\ \A y \in Site : LiftedIn(stack, y)' <=> LiftedIn(stack, y)
    BY <1>1, <2>1, <2>2, <2>3, JumpKeeps
  <2> QED BY <1>1, <2>1, <2>4 DEF Leads
<1> QED BY <1>2, <1>3 DEF HookInv
LEMMA UseKeeps == ASSUME HookInv, NEW e \in Ent, UseEntity(e) PROVE HookInv'
<1>1. /\ stack \in Seq(CallFrame) /\ Len(stack) < MaxDepth /\ Len(stack) <= MaxDepth
      /\ use[e] \in Base \cup {"mod"} /\ use[e] # "mod" /\ Jump(stack, "use", use[e])
      /\ UNCHANGED <<code, old, base, spawn, use, thinks, left>>
  <2>1. Len(stack) # MaxDepth /\ Len(stack) < MaxDepth /\ use[e] # "none"
    BY DEF UseEntity, ModRuns, Shallow
  <2> QED BY <2>1, BaseNames DEF UseEntity, HookInv, HookTypeOK
<1>2. HookTypeOK' /\ AtHome(stack)' /\ Saved'
  <2>1. /\ stack' \in Seq(CallFrame) /\ Len(stack') <= MaxDepth /\ crashed' \in BOOLEAN
        /\ AtHome(stack)' /\ base' = base
    BY <1>1, JumpTypes DEF HookInv
  <2> QED BY <1>1, <2>1 DEF HookInv, HookTypeOK, Saved
<1>3. ASSUME ~left' PROVE ~crashed' /\ Leads' /\ Frames(stack)'
  <2>1. HookTypeOK /\ ~left /\ ~crashed /\ Leads /\ Frames(stack)
    BY <1>1, <1>3 DEF HookInv
  <2>2. use[e] = base
    BY <1>1, <2>1 DEF Leads, UseEntity
  <2>3. "use" \notin Site
    BY DEF Site
  <2>4. /\ ~crashed' /\ Frames(stack)'
        /\ \A y \in Site : LiftedIn(stack, y)' <=> LiftedIn(stack, y)
    BY <1>1, <2>1, <2>2, <2>3, JumpKeeps
  <2> QED BY <1>1, <2>1, <2>4 DEF Leads
<1> QED BY <1>2, <1>3 DEF HookInv

LEMMA ThinkKeeps == ASSUME HookInv, NEW e \in Ent, TargetDelayThink(e) PROVE HookInv'
<1>1. /\ stack \in Seq(CallFrame) /\ Len(stack) < MaxDepth /\ Len(stack) <= MaxDepth
      /\ thinks[e] \in Base \cup {"mod"} /\ thinks[e] \notin {"mod", "none"}
      /\ Jump(stack, "think", thinks[e])
      /\ UNCHANGED <<code, old, base, spawn, use, left>>
  <2>1. Len(stack) # MaxDepth /\ Len(stack) < MaxDepth /\ thinks[e] \notin {"none", "mod"}
    BY DEF TargetDelayThink, ModRuns, Shallow
  <2> QED BY <2>1 DEF TargetDelayThink, HookInv, HookTypeOK
<1>2. thinks' = [thinks EXCEPT ![e] = "none"] /\ thinks' \in [Ent -> Base \cup {"none", "mod"}]
  BY DEF TargetDelayThink, HookInv, HookTypeOK
<1>3. HookTypeOK' /\ AtHome(stack)' /\ Saved'
  <2>1. /\ stack' \in Seq(CallFrame) /\ Len(stack') <= MaxDepth /\ crashed' \in BOOLEAN
        /\ AtHome(stack)' /\ base' = base
    BY <1>1, JumpTypes DEF HookInv
  <2> QED BY <1>1, <1>2, <2>1 DEF HookInv, HookTypeOK, Saved
<1>4. ASSUME ~left' PROVE ~crashed' /\ Leads' /\ Frames(stack)'
  <2>1. HookTypeOK /\ ~left /\ ~crashed /\ Leads /\ Frames(stack)
    BY <1>1, <1>4 DEF HookInv
  <2>2. thinks[e] = base
    BY <1>1, <2>1 DEF Leads
  <2>3. "think" \notin Site
    BY DEF Site
  <2>4. /\ ~crashed' /\ Frames(stack)'
        /\ \A y \in Site : LiftedIn(stack, y)' <=> LiftedIn(stack, y)
    BY <1>1, <2>1, <2>2, <2>3, JumpKeeps
  <2>5. \A x \in Ent : thinks'[x] \in {"none", "mod", base}
    BY <1>2, <2>1 DEF Leads, HookTypeOK
  <2> QED BY <1>1, <2>1, <2>4, <2>5 DEF Leads
<1> QED BY <1>3, <1>4 DEF HookInv

(* The innermost call is of the mod, or of the plugin where it is.         *)
LEMMA TopHome ==
  ASSUME HookInv, stack # <<>>
  PROVE  /\ top \in CallFrame /\ top = stack[Len(stack)]
         /\ top.who # "mod" => top.who = base /\ top.who \in Base /\ base # "none"
         /\ base # "mod" /\ Len(stack) \in Nat \ {0} /\ Len(stack) \in 1 .. Len(stack)
<1>1. stack \in Seq(CallFrame) /\ base \in Base \cup {"none"}
  BY DEF HookInv, HookTypeOK
<1>2. Len(stack) \in Nat \ {0} /\ Len(stack) \in 1 .. Len(stack) /\ stack[Len(stack)] \in CallFrame
  BY <1>1
<1>3. stack[Len(stack)].who \in {"mod", base}
  BY <1>2 DEF HookInv, AtHome
<1>4. stack[Len(stack)].who \in Base \cup {"mod"}
  BY <1>2 DEF CallFrame
<1> QED BY <1>1, <1>2, <1>3, <1>4, BaseNames DEF top

(* The running hook lifts its site and calls the original: only the plugin *)
(* where it is, for a site that is not lifted.                             *)
LEMMA OriginalKeeps == ASSUME HookInv, HookCallsOriginal PROVE HookInv'
<1> DEFINE n == Len(stack)
           x == stack[n].fn
           p == [stack EXCEPT ![n].called = TRUE]
<1>1. /\ stack \in Seq(CallFrame) /\ stack # <<>> /\ n \in Nat \ {0} /\ n \in 1 .. n
      /\ n < MaxDepth /\ x \in Through /\ x \in Site /\ stack[n].who # "mod" /\ stack[n].called = FALSE
  <2>1. stack \in Seq(CallFrame) /\ stack # <<>> /\ n < MaxDepth
    BY DEF HookInv, HookTypeOK, HookCallsOriginal, HookRuns, Shallow, idle
  <2>2. n \in Nat \ {0} /\ n \in 1 .. n /\ stack[n] \in CallFrame
    BY <2>1
  <2>3. x \in Through /\ stack[n].who # "mod" /\ ~stack[n].called
    BY DEF HookCallsOriginal, HookRuns, top
  <2> QED BY <2>1, <2>2, <2>3, BaseNames DEF CallFrame
<1>2. /\ code' = [code EXCEPT ![x] = old[x]] /\ Jump(p, x, old[x])
      /\ UNCHANGED <<old, base, spawn, use, thinks, left>>
  BY DEF HookCallsOriginal, top
<1> HIDE DEF p
<1>3. /\ p \in Seq(CallFrame) /\ Len(p) = n
      /\ \A d \in 1 .. n : p[d].who = stack[d].who
  BY <1>1, LiftTypes DEF p
<1>4. stack[n].who = base /\ base # "none" /\ base \in Base /\ old[x] \in Base \cup {"mod"}
  <2>1. stack[n].who \in Base /\ stack[n].who = base
    BY <1>1, TopHome
  <2>2. base # "none" /\ base \in Base
    BY <2>1, BaseNames
  <2> QED BY <1>1, <2>1, <2>2 DEF HookInv, HookTypeOK, Saved
<1>5. HookTypeOK' /\ AtHome(stack)' /\ Saved'
  <2>1. AtHome(p) /\ AtHome(stack) /\ HookTypeOK
    BY <1>3 DEF HookInv, AtHome
  <2>2. /\ stack' \in Seq(CallFrame) /\ Len(stack') <= MaxDepth /\ crashed' \in BOOLEAN
        /\ AtHome(stack)'
    BY <1>1, <1>2, <1>3, <1>4, <2>1, JumpTypes DEF HookTypeOK
  <2>3. code' \in [Site -> Base \cup {"mod"}]
    BY <1>1, <1>2, <1>4, <2>1 DEF HookTypeOK
  <2> QED BY <1>2, <2>1, <2>2, <2>3 DEF HookTypeOK, HookInv, Saved
<1>6. ASSUME ~left' PROVE ~crashed' /\ Leads' /\ Frames(stack)'
  <2>1. HookTypeOK /\ ~left /\ ~crashed /\ Leads /\ Frames(stack)
    BY <1>2, <1>6 DEF HookInv
  <2>3. /\ Frames(p) /\ LiftedIn(p, x)
        /\ \A y \in Site : y # x => (LiftedIn(p, y) <=> LiftedIn(stack, y))
    BY <1>1, <1>4, <2>1, LiftKeeps DEF p
  <2>4. old[x] = "mod" /\ x \notin {"use", "think"}
    BY <1>1, <1>4, <2>1 DEF Leads, Site
  <2>6. /\ ~crashed' /\ Frames(stack)'
        /\ \A y \in Site : LiftedIn(stack, y)' <=> LiftedIn(p, y)
    BY <1>1, <1>2, <1>3, <1>4, <2>1, <2>3, <2>4, JumpKeeps
  <2>7. ASSUME NEW y \in Site PROVE code'[y] = IF LiftedIn(stack, y)' THEN "mod" ELSE base
    <3>1. CASE y = x
      BY <1>2, <2>1, <2>3, <2>4, <2>6, <3>1 DEF HookTypeOK
    <3>2. CASE y # x
      <4>1. code'[y] = code[y] /\ (LiftedIn(stack, y)' <=> LiftedIn(stack, y))
        BY <1>2, <2>1, <2>3, <2>6, <3>2 DEF HookTypeOK
      <4> QED BY <1>4, <2>1, <4>1 DEF Leads
    <3> QED BY <3>1, <3>2
  <2>8. Leads'
    BY <1>2, <1>4, <2>1, <2>7 DEF Leads
  <2> QED BY <2>6, <2>8
<1> QED BY <1>5, <1>6 DEF HookInv

-----------------------------------------------------------------------------
(* The steps that pop a call                                               *)

LEMMA PopTypes ==
  ASSUME HookInv, stack # <<>>, stack' = Pop(stack), base' = base
  PROVE  stack' \in Seq(CallFrame) /\ Len(stack') <= MaxDepth /\ AtHome(stack)'
<1> DEFINE n == Len(stack)
<1>1. stack \in Seq(CallFrame) /\ n <= MaxDepth /\ MaxDepth \in Nat
  BY HookParameters DEF HookInv, HookTypeOK
<1>2. /\ stack' \in Seq(CallFrame) /\ Len(stack') = n - 1 /\ n \in Nat \ {0}
      /\ \A d \in 1 .. n - 1 : stack'[d] = stack[d]
  BY <1>1, Popped
<1>3. ASSUME NEW d \in 1 .. n - 1 PROVE stack'[d].who \in {"mod", base'}
  BY <1>2 DEF HookInv, AtHome
<1> QED BY <1>1, <1>2, <1>3 DEF AtHome

(* The innermost call ends; a hook that called the original writes its     *)
(* jump again.                                                             *)
LEMMA PopLeads ==
  ASSUME HookInv, ~left, stack # <<>>, stack' = Pop(stack),
         UNCHANGED <<old, base, spawn>>,
         code' = IF top.called THEN [code EXCEPT ![top.fn] = base] ELSE code,
         \A e \in Ent : use'[e] \in {"none", base} /\ thinks'[e] \in {"none", "mod", base}
  PROVE  Leads' /\ Frames(stack)'
<1> DEFINE p == Pop(stack)
<1>1. /\ stack \in Seq(CallFrame) /\ base \in Base \cup {"none"} /\ code \in [Site -> Base \cup {"mod"}]
      /\ Leads /\ Frames(stack)
  BY DEF HookInv, HookTypeOK
<1>2. /\ Frames(p)
      /\ \A x \in Site : /\ ~top.called => (LiftedIn(p, x) <=> LiftedIn(stack, x))
                         /\ x # top.fn => (LiftedIn(p, x) <=> LiftedIn(stack, x))
      /\ top.called /\ base # "none" => ~LiftedIn(p, top.fn)
  BY <1>1, PopKeeps DEF top
<1> HIDE DEF p
<1>3. Frames(stack)' /\ \A x : LiftedIn(stack, x)' <=> LiftedIn(p, x)
  BY <1>2, FramesStay, LiftedStay DEF p
<1>4. ASSUME base # "none", NEW x \in Site PROVE code'[x] = IF LiftedIn(stack, x)' THEN "mod" ELSE base
  <2>1. code[x] = IF LiftedIn(stack, x) THEN "mod" ELSE base
    BY <1>1, <1>4 DEF Leads
  <2>2. CASE top.called /\ x = top.fn
    BY <1>1, <1>2, <1>3, <1>4, <2>2
  <2>3. CASE ~(top.called /\ x = top.fn)
    <3>1. code'[x] = code[x]
      BY <1>1, <2>3
    <3>2. LiftedIn(stack, x)' <=> LiftedIn(stack, x)
      BY <1>2, <1>3, <2>3
    <3> QED BY <2>1, <3>1, <3>2
  <2> QED BY <2>2, <2>3
<1>5. ASSUME base = "none", NEW x \in Site PROVE code'[x] = "mod"
  <2>1. Sure(stack, Len(stack))
    BY <1>1, TopHome DEF Frames
  <2>2. ~top.called
    BY <1>5, <2>1, TopHome DEF Sure
  <2> QED BY <1>1, <1>5, <2>2 DEF Leads
<1> QED BY <1>1, <1>3, <1>4, <1>5 DEF Leads

LEMMA ModReturnKeeps == ASSUME HookInv, NEW e \in Ent, ModReturns(e) PROVE HookInv'
<1>1. stack # <<>> /\ stack' = Pop(stack) /\ UNCHANGED <<code, old, base, spawn, use, crashed, left>>
  BY DEF ModReturns, idle
<1>2. thinks' \in [Ent -> Base \cup {"none", "mod"}]
  BY DEF ModReturns, HookInv, HookTypeOK
<1>3. HookTypeOK' /\ AtHome(stack)' /\ Saved'
  BY <1>1, <1>2, PopTypes DEF HookInv, HookTypeOK, Saved
<1>4. ASSUME ~left' PROVE ~crashed' /\ Leads' /\ Frames(stack)'
  <2>1. HookTypeOK /\ ~left /\ ~crashed /\ Leads /\ Frames(stack)
    BY <1>1, <1>4 DEF HookInv
  <2>2. Sure(stack, Len(stack))
    BY <1>1, <2>1, TopHome DEF Frames
  <2>3. ~top.called
    BY <1>1, <2>2, TopHome DEF Sure, ModReturns
  <2>4. \A x \in Ent : use'[x] \in {"none", base} /\ thinks'[x] \in {"none", "mod", base}
    BY <1>1, <2>1 DEF ModReturns, Leads, HookTypeOK
  <2> QED BY <1>1, <2>1, <2>3, <2>4, PopLeads
<1> QED BY <1>3, <1>4 DEF HookInv

LEMMA HookReturnKeeps == ASSUME HookInv, HookReturns PROVE HookInv'
<1>1. /\ stack # <<>> /\ stack' = Pop(stack) /\ top.called
      /\ code' = [code EXCEPT ![top.fn] = top.who]
      /\ UNCHANGED <<old, base, spawn, use, thinks, crashed, left>>
  BY DEF HookReturns, idle
<1>2. code' \in [Site -> Base \cup {"mod"}]
  BY <1>1, TopHome DEF CallFrame, HookInv, HookTypeOK
<1>3. HookTypeOK' /\ AtHome(stack)' /\ Saved'
  BY <1>1, <1>2, PopTypes DEF HookInv, HookTypeOK, Saved
<1>4. ASSUME ~left' PROVE ~crashed' /\ Leads' /\ Frames(stack)'
  <2>1. HookTypeOK /\ ~left /\ ~crashed /\ Leads /\ Frames(stack)
    BY <1>1, <1>4 DEF HookInv
  <2>2. Sure(stack, Len(stack))
    BY <1>1, <2>1, TopHome DEF Frames
  <2>3. top.who = base
    BY <1>1, <2>2, TopHome DEF Sure
  <2>4. \A x \in Ent : use'[x] \in {"none", base} /\ thinks'[x] \in {"none", "mod", base}
    BY <1>1, <2>1 DEF Leads
  <2> QED BY <1>1, <2>1, <2>3, <2>4, PopLeads
<1> QED BY <1>3, <1>4 DEF HookInv

LEMMA DelayUseKeeps == ASSUME HookInv, NEW e \in Ent, TargetDelayUse(e) PROVE HookInv'
<1>1. /\ stack # <<>> /\ stack' = Pop(stack) /\ ~top.called /\ top.who # "mod"
      /\ UNCHANGED <<code, old, base, spawn, use, crashed, left>>
  BY DEF TargetDelayUse, HookRuns, idle
<1>2. top.who = base /\ top.who \in Base
  BY <1>1, TopHome
<1>3. thinks' = [thinks EXCEPT ![e] = IF @ = "none" THEN base ELSE @]
  BY <1>2 DEF TargetDelayUse
<1>4. HookTypeOK' /\ AtHome(stack)' /\ Saved'
  <2>1. thinks' \in [Ent -> Base \cup {"none", "mod"}]
    BY <1>2, <1>3 DEF HookInv, HookTypeOK
  <2> QED BY <1>1, <2>1, PopTypes DEF HookInv, HookTypeOK, Saved
<1>5. ASSUME ~left' PROVE ~crashed' /\ Leads' /\ Frames(stack)'
  <2>1. HookTypeOK /\ ~left /\ ~crashed /\ Leads
    BY <1>1, <1>5 DEF HookInv
  <2>2. \A x \in Ent : use'[x] \in {"none", base} /\ thinks'[x] \in {"none", "mod", base}
    BY <1>1, <1>3, <2>1 DEF Leads, HookTypeOK
  <2> QED BY <1>1, <2>1, <2>2, PopLeads
<1> QED BY <1>4, <1>5 DEF HookInv

LEMMA PrintKeeps == ASSUME HookInv, Use_Target_Print PROVE HookInv'
<1>1. /\ stack # <<>> /\ stack' = Pop(stack) /\ ~top.called
      /\ UNCHANGED <<code, old, base, spawn, use, thinks, crashed, left>>
  BY DEF Use_Target_Print, HookRuns, idle
<1>2. HookTypeOK' /\ AtHome(stack)' /\ Saved'
  BY <1>1, PopTypes DEF HookInv, HookTypeOK, Saved
<1>3. ASSUME ~left' PROVE ~crashed' /\ Leads' /\ Frames(stack)'
  <2>1. ~left /\ ~crashed /\ Leads
    BY <1>1, <1>3 DEF HookInv
  <2>2. \A x \in Ent : use'[x] \in {"none", base} /\ thinks'[x] \in {"none", "mod", base}
    BY <1>1, <2>1 DEF Leads
  <2> QED BY <1>1, <2>1, <2>2, PopLeads
<1> QED BY <1>2, <1>3 DEF HookInv

LEMMA PowerupKeeps == ASSUME HookInv, NEW e \in Ent, SP_target_powerup(e) PROVE HookInv'
<1>1. /\ stack # <<>> /\ stack' = Pop(stack) /\ ~top.called /\ top.who # "mod"
      /\ use' = [use EXCEPT ![e] = top.who]
      /\ UNCHANGED <<code, old, base, spawn, thinks, crashed, left>>
  BY DEF SP_target_powerup, HookRuns, idle
<1>2. top.who = base /\ top.who \in Base
  BY <1>1, TopHome
<1>3. HookTypeOK' /\ AtHome(stack)' /\ Saved'
  <2>1. use' \in [Ent -> Base \cup {"none"}]
    BY <1>1, <1>2 DEF HookInv, HookTypeOK
  <2> QED BY <1>1, <2>1, PopTypes DEF HookInv, HookTypeOK, Saved
<1>4. ASSUME ~left' PROVE ~crashed' /\ Leads' /\ Frames(stack)'
  <2>1. HookTypeOK /\ ~left /\ ~crashed /\ Leads
    BY <1>1, <1>4 DEF HookInv
  <2>2. \A x \in Ent : use'[x] \in {"none", base} /\ thinks'[x] \in {"none", "mod", base}
    BY <1>1, <1>2, <2>1 DEF Leads, HookTypeOK
  <2> QED BY <1>1, <2>1, <2>2, PopLeads
<1> QED BY <1>3, <1>4 DEF HookInv

LEMMA EntityReturnKeeps ==
  ASSUME HookInv, NEW e \in Ent, NEW again \in BOOLEAN, EntityReturns(e, again) PROVE HookInv'
<1>1. /\ stack # <<>> /\ stack' = Pop(stack) /\ top.fn \in {"use", "think"}
      /\ thinks' = [thinks EXCEPT ![e] = IF again THEN top.who ELSE @]
      /\ UNCHANGED <<code, old, base, spawn, use, crashed, left>>
  BY DEF EntityReturns, idle
<1>2. HookTypeOK' /\ AtHome(stack)' /\ Saved'
  <2>1. thinks' \in [Ent -> Base \cup {"none", "mod"}]
    <3>1. top.who \in Base \cup {"mod"}
      BY <1>1, TopHome DEF CallFrame
    <3> QED BY <1>1, <3>1 DEF HookInv, HookTypeOK
  <2> QED BY <1>1, <2>1, PopTypes DEF HookInv, HookTypeOK, Saved
<1>3. ASSUME ~left' PROVE ~crashed' /\ Leads' /\ Frames(stack)'
  <2>1. HookTypeOK /\ ~left /\ ~crashed /\ Leads /\ Frames(stack)
    BY <1>1, <1>3 DEF HookInv
  <2>2. Sure(stack, Len(stack))
    BY <1>1, <2>1, TopHome DEF Frames
  <2>3. top.who = base /\ ~top.called
    BY <1>1, <2>2, TopHome DEF Sure, Through
  <2>4. \A x \in Ent : use'[x] \in {"none", base} /\ thinks'[x] \in {"none", "mod", base}
    BY <1>1, <2>1, <2>3 DEF Leads, HookTypeOK
  <2> QED BY <1>1, <2>1, <2>3, <2>4, PopLeads
<1> QED BY <1>2, <1>3 DEF HookInv

-----------------------------------------------------------------------------
LEMMA StutterKeeps == HookInv /\ UNCHANGED hookVars => HookInv'
BY DEF hookVars, HookInv, HookTypeOK, AtHome, Saved, Leads, Frames, Sure, Placed, Below, LiftedIn

LEMMA HookStep == HookInv /\ [HookNext]_hookVars => HookInv'
<1> SUFFICES ASSUME HookInv, [HookNext]_hookVars PROVE HookInv'
  OBVIOUS
<1>1. CASE \E b \in Base : JASS_Attach(b)
  BY <1>1, AttachKeeps
<1>2. CASE JASS_Detach \/ MapEnds
  BY <1>2, DetachKeeps, MapEndsKeeps
<1>3. CASE \E s \in Site : Calls(s)
  BY <1>3, CallsKeeps
<1>4. CASE HookCallsOriginal \/ HookReturns \/ Use_Target_Print
  BY <1>4, OriginalKeeps, HookReturnKeeps, PrintKeeps
<1>5. CASE \E e \in Ent : \/ ModReturns(e) \/ TargetDelayUse(e) \/ SP_target_powerup(e)
                        \/ UseEntity(e) \/ TargetDelayThink(e) \/ FreeEntity(e)
  BY <1>5, ModReturnKeeps, DelayUseKeeps, PowerupKeeps, UseKeeps, ThinkKeeps, FreeKeeps
<1>6. CASE \E e \in Ent, again \in BOOLEAN : EntityReturns(e, again)
  BY <1>6, EntityReturnKeeps
<1>7. CASE \E e \in Ent, f \in Base : SP_target_level_change(e, f)
  BY <1>7, SpawnKeeps
<1>8. CASE UNCHANGED hookVars
  BY <1>8, StutterKeeps
<1> QED BY <1>1, <1>2, <1>3, <1>4, <1>5, <1>6, <1>7, <1>8 DEF HookNext

(* What is reachable: all of the following from one invariant.             *)
LEMMA HookInvariant == HookSpec => []HookInv
BY HookInitially, HookStep, PTL DEF HookSpec

(* For any addresses, entities and depth of nested calls: as long as the   *)
(* plugin stays until the map ends, every overwritten function holds the   *)
(* jump into the plugin, except while its own hook calls the original      *)
(* (G_Damage and TargetDelayUse, XG-Hook.cpp: the old bytes, the call, the *)
(* jump again), when it holds the mod's code.                              *)
THEOREM HooksHold == HookSpec => []Hooked
<1>1. HookInv => Hooked
  <2> SUFFICES ASSUME HookInv PROVE Hooked
    OBVIOUS
  <2>1. HookTypeOK
    BY DEF HookInv
  <2>2. ASSUME NEW s PROVE Lifted(s) <=> LiftedIn(stack, s)
    BY <2>1 DEF Lifted, LiftedIn, HookTypeOK
  <2>3. ASSUME base # "none", ~left, NEW s \in Site PROVE code[s] = IF Lifted(s) THEN "mod" ELSE base
    BY <2>2, <2>3 DEF HookInv, Leads
  <2> QED BY <2>1, <2>3 DEF Hooked
<1> QED BY <1>1, HookInvariant, PTL

(* For any nesting of the hooked functions: the mod's body of a function   *)
(* runs above the hook of that function, and no hook runs above its own    *)
(* call of the original (XG-Hook.cpp, the hooks that share one jump).      *)
THEOREM CallsIntercepted == HookSpec => []Intercepted
<1>1. HookInv => Intercepted
  <2> SUFFICES ASSUME HookInv, base # "none", ~left, NEW d \in DOMAIN stack
               PROVE  /\ stack[d].fn \in Site /\ stack[d].who = "mod" => Below(stack, d)
                      /\ stack[d].who # "mod" /\ stack[d].fn \in Site => ~Below(stack, d)
    BY DEF Intercepted, Below
  <2>1. d \in 1 .. Len(stack)
    BY DEF HookInv, HookTypeOK
  <2>2. Placed(stack, d)
    BY <2>1 DEF HookInv, Frames
  <2> QED BY <2>2 DEF Placed
<1> QED BY <1>1, HookInvariant, PTL

(* Over any number of maps: as long as JASS closes the plugin only when    *)
(* the map ends, no jump, spawn function or entity (InitHooks and          *)
(* JASS_Attach, Main.cpp:134) leads to code that is not mapped, and the    *)
(* process does not go there.                                              *)
THEOREM NothingLeadsAstray == HookSpec => []NothingDangles
<1>1. HookInv => NothingDangles
  <2> SUFFICES ASSUME HookInv, ~left PROVE Pointers \subseteq {base} /\ ~crashed
    BY DEF NothingDangles
  <2>1. ~crashed /\ Leads
    BY DEF HookInv
  <2>2. \A s \in Site : code[s] \in {"mod", base}
    BY <2>1 DEF Leads
  <2> QED BY <2>1, <2>2 DEF Pointers, Leads
<1> QED BY <1>1, HookInvariant, PTL

=============================================================================
