---------------------------- MODULE FoldTheorems ----------------------------
(***************************************************************************)
(* Induction on the naturals, and what it gives about the folds of the     *)
(* community modules: that the recursive function a fold is defined by     *)
(* exists.  The folds of a module are then shown to take one more item by  *)
(* citing FoldExists for the operator they fold.                           *)
(***************************************************************************)
EXTENDS Integers, SequencesExt, FiniteSetTheorems, WellFoundedInduction, NaturalsInduction, TLAPS

LEMMA LeastNatural ==
  ASSUME NEW S \in SUBSET Nat, S # {}
  PROVE  \E n \in S : \A m \in S : n <= m
<1> DEFINE Below == {p \in Nat \X Nat : p[1] < p[2]}
<1>1. IsWellFoundedOn(Below, Nat)
  BY NatLessThanWellFounded DEF OpToRel
<1>2. PICK n \in S : \A m \in S : <<m, n>> \notin Below
  <2> HIDE DEF Below
  <2> QED BY <1>1, WFMin
<1>3. \A m \in S : ~(m < n)
  BY <1>2
<1> QED BY <1>3

LEMMA Induction ==
  ASSUME NEW S, 0 \in S, \A n \in Nat : n \in S => n + 1 \in S
  PROVE  Nat \subseteq S
<1> SUFFICES ASSUME Nat \ S # {} PROVE FALSE
  OBVIOUS
<1>1. PICK n \in Nat \ S : \A m \in Nat \ S : n <= m
  BY LeastNatural
<1> QED BY <1>1, n - 1 \in Nat \/ n = 0

LEMMA MaxIsLargest ==
  ASSUME NEW n \in Nat, NEW t \in SUBSET (1..n), t # {}
  PROVE  /\ Max(t) \in t
         /\ \A m \in t : m <= Max(t)
<1> DEFINE Left == {k \in Nat : n - k \in t}
<1>1. PICK l \in Left : \A k \in Left : l <= k
  <2>1. PICK m \in t : TRUE
    OBVIOUS
  <2>2. n - m \in Left
    BY <2>1, n - (n - m) = m, n - m \in Nat
  <2>3. Left \in SUBSET Nat /\ Left # {}
    BY <2>2
  <2> QED BY <2>3, LeastNatural
<1>2. ASSUME NEW k \in t PROVE k <= n - l
  <2>1. n - k \in Left
    BY n - (n - k) = k, n - k \in Nat
  <2> QED BY <1>1, <2>1
<1>3. n - l \in t
  BY <1>1
<1> QED BY <1>2, <1>3 DEF Max

LEMMA MaxOfRange ==
  ASSUME NEW n \in Nat \ {0}
  PROVE  /\ Max(1..n) = n
         /\ (1..n) \ {n} = 1..n - 1
<1>1. Max(1..n) \in 1..n /\ \A m \in 1..n : m <= Max(1..n)
  BY MaxIsLargest, 1..n \in SUBSET (1..n), n \in 1..n
<1>2. Max(1..n) = n
  BY <1>1, n \in 1..n
<1> QED BY <1>2

LEMMA RangesInside ==
  ASSUME NEW n \in Nat, NEW k \in 1..n
  PROVE  /\ 1..k \in SUBSET (1..n) /\ 1..k # {} /\ k \in Nat \ {0}
         /\ k - 1 \in 0..n /\ Max(1..k) = k /\ (1..k) \ {k} = 1..k - 1
BY MaxOfRange, k \in 1..k

(***************************************************************************)
(* A fold over a finite set T: step takes a value of V and an element to a *)
(* value of V, and pick says which element of a set is taken last.         *)
(***************************************************************************)
IsStep(step, V, T) == step \in [V \X T -> V]
IsPick(pick, T) == \A t \in SUBSET T : t # {} => pick[t] \in t
IsFoldOver(g, T, V, base, step, pick) ==
  /\ g \in [SUBSET T -> V]
  /\ \A t \in SUBSET T :
       g[t] = IF t = {} THEN base ELSE step[<<g[t \ {pick[t]}], pick[t]>>]

LEMMA FoldOverExists ==
  ASSUME NEW T, NEW V, NEW base, NEW step, NEW pick, IsFiniteSet(T),
         base \in V, IsStep(step, V, T), IsPick(pick, T)
  PROVE  \E g : IsFoldOver(g, T, V, base, step, pick)
<1> DEFINE Taken(g, t) == IF t = {} THEN base ELSE step[<<g[t \ {pick[t]}], pick[t]>>]
           Upto(g, m) == \A t \in SUBSET T : Cardinality(t) <= m => g[t] = Taken(g, t)
           S == {m \in Nat : \E g \in [SUBSET T -> V] : Upto(g, m)}
<1>1. \A t \in SUBSET T : IsFiniteSet(t) /\ Cardinality(t) \in Nat
  BY FS_Subset, FS_CardinalityType
<1>2. 0 \in S
  <2> DEFINE g == [t \in SUBSET T |-> base]
  <2>1. \A t \in SUBSET T : Cardinality(t) <= 0 => t = {}
    BY <1>1, FS_EmptySet
  <2>2. g \in [SUBSET T -> V] /\ Upto(g, 0)
    BY <2>1
  <2> HIDE DEF Upto, g
  <2> QED BY <2>2
<1>3. ASSUME NEW m \in Nat, m \in S PROVE m + 1 \in S
  <2>1. PICK g \in [SUBSET T -> V] : Upto(g, m)
    BY <1>3
  <2> DEFINE h == [t \in SUBSET T |-> Taken(g, t)]
  <2>2. ASSUME NEW t \in SUBSET T PROVE Taken(g, t) \in V
    <3>1. CASE t # {}
      <4>1. pick[t] \in T /\ t \ {pick[t]} \in SUBSET T
        BY <3>1 DEF IsPick
      <4>2. <<g[t \ {pick[t]}], pick[t]>> \in V \X T
        BY <4>1
      <4> QED BY <3>1, <4>2 DEF IsStep
    <3> QED BY <3>1
  <2>3. ASSUME NEW t \in SUBSET T, Cardinality(t) <= m + 1 PROVE h[t] = Taken(h, t)
    <3>1. CASE t # {}
      <4>1. pick[t] \in t /\ t \ {pick[t]} \in SUBSET T
        BY <3>1 DEF IsPick
      <4>2. Cardinality(t \ {pick[t]}) = Cardinality(t) - 1
        BY <1>1, <4>1, FS_RemoveElement
      <4>3. Cardinality(t \ {pick[t]}) <= m
        BY <1>1, <2>3, <4>2
      <4>4. g[t \ {pick[t]}] = Taken(g, t \ {pick[t]})
        BY <2>1, <4>1, <4>3
      <4>5. h[t \ {pick[t]}] = g[t \ {pick[t]}]
        BY <4>1, <4>4
      <4> QED BY <3>1, <4>5
    <3> QED BY <3>1
  <2>4. h \in [SUBSET T -> V]
    <3> HIDE DEF Taken
    <3> QED BY <2>2
  <2>5. Upto(h, m + 1)
    <3> HIDE DEF h, Taken
    <3> QED BY <2>3
  <2> HIDE DEF h, Upto
  <2> QED BY <2>4, <2>5
<1>4. Nat \subseteq S
  <2> HIDE DEF S
  <2> QED BY <1>2, <1>3, Induction
<1>5. PICK g \in [SUBSET T -> V] : Upto(g, Cardinality(T))
  BY <1>1, <1>4
<1>6. \A t \in SUBSET T : Cardinality(t) <= Cardinality(T)
  BY FS_Subset
<1>7. IsFoldOver(g, T, V, base, step, pick)
  BY <1>5, <1>6 DEF IsFoldOver
<1> QED BY <1>7

(* A fold of n items, by their numbers: the largest is taken last.         *)
IsFold(g, n, V, base, step) ==
  /\ g \in [SUBSET (1..n) -> V]
  /\ \A t \in SUBSET (1..n) :
       g[t] = IF t = {} THEN base ELSE step[<<g[t \ {Max(t)}], Max(t)>>]

LEMMA FoldExists ==
  ASSUME NEW V, NEW base, NEW step, NEW n, base \in V, IsStep(step, V, 1..n), n \in Nat
  PROVE  \E g : IsFold(g, n, V, base, step)
<1> DEFINE pick == [t \in SUBSET (1..n) |-> Max(t)]
<1>1. IsPick(pick, 1..n)
  BY MaxIsLargest DEF IsPick
<1>2. IsFiniteSet(1..n)
  BY FS_Interval
<1>3. PICK g : IsFoldOver(g, 1..n, V, base, step, pick)
  <2> HIDE DEF pick
  <2> QED BY <1>1, <1>2, FoldOverExists
<1>4. IsFold(g, n, V, base, step)
  BY <1>3 DEF IsFold, IsFoldOver
<1> QED BY <1>4

(* How a fold takes its last item.                                         *)
LEMMA FoldPrefix ==
  ASSUME NEW V, NEW base, NEW step, NEW n, NEW g, n \in Nat,
         IsFold(g, n, V, base, step)
  PROVE  /\ g[1..0] = base
         /\ \A k \in 1..n : g[1..k] = step[<<g[1..k - 1], k>>]
         /\ \A k \in 0..n : g[1..k] \in V
<1>1. g[1..0] = base
  BY 1..0 = {}, {} \in SUBSET (1..n) DEF IsFold
<1>2. ASSUME NEW k \in 1..n PROVE g[1..k] = step[<<g[1..k - 1], k>>]
  <2>1. Max(1..k) = k /\ (1..k) \ {k} = 1..k - 1
    BY MaxOfRange
  <2>2. 1..k \in SUBSET (1..n) /\ 1..k # {}
    BY k \in 1..k
  <2> QED BY <2>1, <2>2 DEF IsFold
<1>3. ASSUME NEW k \in 0..n PROVE g[1..k] \in V
  BY 1..k \in SUBSET (1..n) DEF IsFold
<1> QED BY <1>1, <1>2, <1>3

(* Two functions that take each next item alike agree on all of them.      *)
LEMMA FoldsAgree ==
  ASSUME NEW n, NEW f, NEW g, n \in Nat, f[1..0] = g[1..0],
         \A k \in 1..n : f[1..k - 1] = g[1..k - 1] => f[1..k] = g[1..k]
  PROVE  f[1..n] = g[1..n]
<1> DEFINE S == {k \in Nat : k <= n => f[1..k] = g[1..k]}
<1>1. 0 \in S
  OBVIOUS
<1>2. ASSUME NEW k \in Nat, k \in S PROVE k + 1 \in S
  BY <1>2, k + 1 <= n => k + 1 \in 1..n, (k + 1) - 1 = k
<1>3. Nat \subseteq S
  <2> HIDE DEF S
  <2> QED BY <1>1, <1>2, Induction
<1> QED BY <1>3

(***************************************************************************)
(* The fold of a sequence s of items of S, by a step from V \X S to V.     *)
(***************************************************************************)
OnItems(step, V, s) == [p \in V \X (1..Len(s)) |-> step[<<p[1], s[p[2]]>>]]
FoldOf(v, V, base, step, s) ==
  \E g : IsFold(g, Len(s), V, base, OnItems(step, V, s)) /\ v = g[1..Len(s)]

(* What the fold operator of the library chooses is the fold, if it takes  *)
(* each next item as the step does.                                        *)
LEMMA ChosenIsFold ==
  ASSUME NEW V, NEW base, NEW step, NEW S, NEW s, NEW f, s \in Seq(S),
         base \in V, IsStep(step, V, S), f[1..0] = base,
         \A k \in 1..Len(s) : f[1..k - 1] \in V => f[1..k] = step[<<f[1..k - 1], s[k]>>]
  PROVE  FoldOf(f[1..Len(s)], V, base, step, s)
<1> DEFINE n == Len(s)
           on == OnItems(step, V, s)
<1>1. n \in Nat /\ \A k \in 1..n : s[k] \in S
  OBVIOUS
<1>2. IsStep(on, V, 1..n)
  BY <1>1 DEF IsStep, OnItems
<1>3. PICK g : IsFold(g, n, V, base, on)
  <2> HIDE DEF n, on
  <2> QED BY <1>1, <1>2, FoldExists
<1>4. /\ g[1..0] = base
      /\ \A k \in 1..n : g[1..k] = on[<<g[1..k - 1], k>>]
      /\ \A k \in 0..n : g[1..k] \in V
  <2> HIDE DEF n, on
  <2> QED BY <1>1, <1>3, FoldPrefix
<1>5. ASSUME NEW k \in 1..n, f[1..k - 1] = g[1..k - 1] PROVE f[1..k] = g[1..k]
  <2>1. g[1..k - 1] \in V
    BY <1>1, <1>4, k - 1 \in 0..n
  <2>2. on[<<g[1..k - 1], k>>] = step[<<g[1..k - 1], s[k]>>]
    BY <2>1 DEF OnItems
  <2> QED BY <1>4, <1>5, <2>1, <2>2
<1>6. f[1..n] = g[1..n]
  <2>1. n \in Nat /\ f[1..0] = g[1..0]
    BY <1>1, <1>4
  <2> HIDE DEF n
  <2> QED BY <2>1, <1>5, FoldsAgree
<1> QED BY <1>3, <1>6 DEF FoldOf

LEMMA FoldOfNone ==
  ASSUME NEW V, NEW base, NEW step, NEW v, FoldOf(v, V, base, step, <<>>)
  PROVE  v = base
<1>1. PICK g : IsFold(g, 0, V, base, OnItems(step, V, <<>>)) /\ v = g[1..0]
  BY Len(<<>>) = 0 DEF FoldOf
<1> QED BY <1>1, FoldPrefix

IsLonger(longer, s, e) == longer = Append(s, e)

LEMMA FoldOfLonger ==
  ASSUME NEW V, NEW base, NEW step, NEW S, NEW s, NEW e, NEW v, NEW w, NEW longer,
         s \in Seq(S), e \in S, base \in V, IsStep(step, V, S), IsLonger(longer, s, e),
         FoldOf(v, V, base, step, s), FoldOf(w, V, base, step, longer)
  PROVE  v \in V /\ w = step[<<v, e>>]
<1> DEFINE n == Len(s)
<1>1. /\ n \in Nat /\ longer \in Seq(S) /\ Len(longer) = n + 1 /\ longer[n + 1] = e
      /\ \A k \in 1..n : longer[k] = s[k]
  BY DEF IsLonger
<1>2. PICK f : IsFold(f, n, V, base, OnItems(step, V, s)) /\ v = f[1..n]
  BY DEF FoldOf
<1>3. PICK g : IsFold(g, n + 1, V, base, OnItems(step, V, longer)) /\ w = g[1..n + 1]
  BY <1>1 DEF FoldOf
<1>4. /\ f[1..0] = base
      /\ \A k \in 1..n : f[1..k] = OnItems(step, V, s)[<<f[1..k - 1], k>>]
      /\ \A k \in 0..n : f[1..k] \in V
  <2> HIDE DEF n
  <2> QED BY <1>1, <1>2, FoldPrefix
<1>5. /\ g[1..0] = base
      /\ \A k \in 1..n + 1 : g[1..k] = OnItems(step, V, longer)[<<g[1..k - 1], k>>]
      /\ \A k \in 0..n + 1 : g[1..k] \in V
  <2>1. n + 1 \in Nat
    BY <1>1
  <2> HIDE DEF n
  <2> QED BY <1>3, <2>1, FoldPrefix
<1>6. ASSUME NEW k \in 1..n, f[1..k - 1] = g[1..k - 1] PROVE f[1..k] = g[1..k]
  <2>1. f[1..k - 1] \in V /\ k \in 1..n + 1 /\ k \in 1..Len(longer)
    BY <1>1, <1>4, k - 1 \in 0..n
  <2>2. longer[k] = s[k]
    BY <1>1
  <2>3. OnItems(step, V, s)[<<f[1..k - 1], k>>] = step[<<f[1..k - 1], s[k]>>]
    BY <2>1 DEF OnItems
  <2>4. OnItems(step, V, longer)[<<f[1..k - 1], k>>] = step[<<f[1..k - 1], s[k]>>]
    BY <2>1, <2>2 DEF OnItems
  <2>5. g[1..k] = OnItems(step, V, longer)[<<g[1..k - 1], k>>]
    BY <1>5, <2>1
  <2> QED BY <1>4, <1>6, <2>3, <2>4, <2>5
<1>7. f[1..n] = g[1..n]
  <2>1. n \in Nat /\ f[1..0] = g[1..0]
    BY <1>1, <1>4, <1>5
  <2> HIDE DEF n
  <2> QED BY <2>1, <1>6, FoldsAgree
<1>8. f[1..n] \in V /\ n + 1 \in 1..n + 1 /\ (n + 1) - 1 = n
  BY <1>1, <1>4, n \in 0..n
<1>9. g[1..n + 1] = OnItems(step, V, longer)[<<g[1..n], n + 1>>]
  BY <1>5, <1>8
<1>10. OnItems(step, V, longer)[<<g[1..n], n + 1>>] = step[<<f[1..n], e>>]
  <2>1. <<g[1..n], n + 1>> \in V \X (1..Len(longer))
    BY <1>1, <1>7, <1>8
  <2> QED BY <1>1, <1>7, <2>1 DEF OnItems
<1> QED BY <1>2, <1>3, <1>8, <1>9, <1>10

-----------------------------------------------------------------------------
(* The sum of what f gives to the elements of a finite set, as the library *)
(* takes it: whichever element CHOOSE picks first.                         *)
ChosenOf(t) == CHOOSE i \in t : TRUE
Added(h, f, t) == IF t = {} THEN 0 ELSE f[ChosenOf(t)] + h[t \ {ChosenOf(t)}]
IsSum(h, f) == h = [t \in SUBSET DOMAIN f |-> Added(h, f, t)]
Summable(f) == IsFiniteSet(DOMAIN f) /\ f \in [DOMAIN f -> Int]

LEMMA ChosenInside ==
  ASSUME NEW T, NEW t \in SUBSET T, t # {}
  PROVE  ChosenOf(t) \in t /\ ChosenOf(t) \in T /\ t \ {ChosenOf(t)} \in SUBSET T
BY DEF ChosenOf

LEMMA SumExists ==
  ASSUME NEW f, Summable(f)
  PROVE  \E h : IsSum(h, f)
<1> DEFINE T == DOMAIN f
           pick == [t \in SUBSET T |-> ChosenOf(t)]
           step == [p \in Int \X T |-> f[p[2]] + p[1]]
<1>1. PICK g : IsFoldOver(g, T, Int, 0, step, pick)
  <2>1. IsPick(pick, T)
    BY ChosenInside DEF IsPick
  <2>2. IsStep(step, Int, T)
    BY DEF IsStep, Summable
  <2>3. IsFiniteSet(T) /\ 0 \in Int
    BY DEF Summable
  <2> HIDE DEF step, pick, T
  <2> QED BY <2>1, <2>2, <2>3, FoldOverExists
<1>2. ASSUME NEW t \in SUBSET T PROVE g[t] = Added(g, f, t)
  <2>1. CASE t = {}
    BY <1>1, <2>1 DEF IsFoldOver, Added
  <2>2. CASE t # {}
    <3>1. ChosenOf(t) \in T /\ t \ {ChosenOf(t)} \in SUBSET T /\ pick[t] = ChosenOf(t)
      BY <2>2, ChosenInside
    <3>2. g[t \ {ChosenOf(t)}] \in Int
      BY <1>1, <3>1 DEF IsFoldOver
    <3>3. g[t] = step[<<g[t \ {ChosenOf(t)}], ChosenOf(t)>>]
      <4> HIDE DEF step, pick
      <4> QED BY <1>1, <2>2, <3>1 DEF IsFoldOver
    <3> QED BY <2>2, <3>1, <3>2, <3>3 DEF Added
  <2> QED BY <2>1, <2>2
<1>3. g \in [SUBSET T -> Int]
  BY <1>1 DEF IsFoldOver
<1>4. IsSum(g, f)
  <2> HIDE DEF pick, step
  <2> QED BY <1>2, <1>3 DEF IsSum
<1> QED BY <1>4

(* The order does not matter: any element may be taken first.              *)
LEMMA SumOfAny ==
  ASSUME NEW f, NEW h, Summable(f), IsSum(h, f)
  PROVE  /\ h[{}] = 0
         /\ \A t \in SUBSET DOMAIN f : h[t] \in Int
         /\ \A t \in SUBSET DOMAIN f, i \in DOMAIN f : i \in t => h[t] = f[i] + h[t \ {i}]
<1> DEFINE T == DOMAIN f
           Fine(t) == /\ h[t] \in Int
                      /\ \A i \in T : i \in t => h[t] = f[i] + h[t \ {i}]
           S == {m \in Nat : \A t \in SUBSET T : Cardinality(t) <= m => Fine(t)}
<1>1. \A t \in SUBSET T : IsFiniteSet(t) /\ Cardinality(t) \in Nat
  BY FS_Subset, FS_CardinalityType DEF Summable
<1>2. \A t \in SUBSET T : h[t] = Added(h, f, t)
  BY DEF IsSum
<1>3. Fine({})
  <2>1. {} \in SUBSET T /\ Added(h, f, {}) = 0
    BY DEF Added
  <2> QED BY <1>2, <2>1
<1>4. 0 \in S
  <2>1. \A t \in SUBSET T : Cardinality(t) <= 0 => t = {}
    BY <1>1, FS_EmptySet
  <2> HIDE DEF Fine
  <2> QED BY <1>3, <2>1
<1>5. ASSUME NEW m \in Nat, m \in S PROVE m + 1 \in S
  <2> SUFFICES ASSUME NEW t \in SUBSET T, Cardinality(t) <= m + 1, t # {} PROVE Fine(t)
    <3> HIDE DEF Fine
    <3> QED BY <1>3
  <2>1. ASSUME NEW s \in SUBSET T, NEW i \in s, s \subseteq t
        PROVE  Fine(s \ {i}) /\ i \in T
    <3>1. s \ {i} \in SUBSET T /\ s \ {i} \subseteq t \ {i} /\ i \in t
      BY <2>1
    <3>2. Cardinality(t \ {i}) = Cardinality(t) - 1 /\ IsFiniteSet(t \ {i})
      BY <1>1, <3>1, FS_RemoveElement
    <3>3. Cardinality(s \ {i}) <= Cardinality(t \ {i})
      BY <3>1, <3>2, FS_Subset
    <3>4. Cardinality(s \ {i}) <= m
      BY <1>1, <3>1, <3>2, <3>3
    <3> HIDE DEF Fine
    <3> QED BY <1>5, <3>1, <3>4
  <2> DEFINE c == ChosenOf(t)
  <2>2. c \in t /\ c \in T
    BY ChosenInside
  <2>3. h[t] = f[c] + h[t \ {c}]
    BY <1>2 DEF Added
  <2> HIDE DEF c
  <2>4. h[t \ {c}] \in Int /\ f[c] \in Int
    BY <2>1, <2>2 DEF Summable
  <2>5. ASSUME NEW i \in T, i \in t, i # c PROVE h[t] = f[i] + h[t \ {i}]
    <3>1. Fine(t \ {c}) /\ Fine(t \ {i})
      <4> HIDE DEF Fine
      <4> QED BY <2>1, <2>2, <2>5
    <3>2. h[t \ {c}] = f[i] + h[(t \ {c}) \ {i}]
      BY <2>5, <3>1
    <3>3. h[t \ {i}] = f[c] + h[(t \ {i}) \ {c}]
      BY <2>2, <2>5, <3>1
    <3>4. h[(t \ {c}) \ {i}] = h[(t \ {i}) \ {c}]
      BY (t \ {c}) \ {i} = (t \ {i}) \ {c}
    <3>5. f[i] \in Int /\ f[c] \in Int
      BY <2>2 DEF Summable
    <3>6. h[(t \ {i}) \ {c}] \in Int
      <4>1. Fine((t \ {i}) \ {c})
        <5>1. t \ {i} \in SUBSET T /\ c \in t \ {i} /\ t \ {i} \subseteq t
          BY <2>2, <2>5
        <5> HIDE DEF Fine
        <5> QED BY <2>1, <5>1
      <4> QED BY <4>1
    <3> DEFINE a == h[(t \ {c}) \ {i}]
               b == h[(t \ {i}) \ {c}]
               both == h[t \ {c}]
               rest == h[t \ {i}]
    <3> HIDE DEF a, b, both, rest
    <3>7. h[t] = f[c] + both /\ both = f[i] + a /\ rest = f[c] + b /\ a = b /\ b \in Int
      BY <2>3, <3>2, <3>3, <3>4, <3>6 DEF a, b, both, rest
    <3>8. h[t] = f[i] + rest
      BY <3>5, <3>7
    <3> QED BY <3>8 DEF rest
  <2>6. \A i \in T : i \in t /\ i = c => h[t] = f[i] + h[t \ {i}]
    BY <2>3, Zenon
  <2>7. \A i \in T : i \in t => h[t] = f[i] + h[t \ {i}]
    BY <2>5, <2>6, Zenon
  <2>8. h[t] \in Int
    BY <2>3, <2>4
  <2> QED BY <2>7, <2>8
<1>6. Nat \subseteq S
  <2> HIDE DEF S
  <2> QED BY <1>4, <1>5, Induction
<1>7. \A t \in SUBSET T : Fine(t)
  <2> HIDE DEF Fine
  <2> QED BY <1>1, <1>6
<1> QED BY <1>2, <1>7 DEF Added

LEMMA SumIsSum ==
  ASSUME NEW f, Summable(f)
  PROVE  \E h : IsSum(h, f) /\ SumFunction(f) = h[DOMAIN f]
<1> DEFINE c == CHOOSE h : IsSum(h, f)
<1>1. SumFunction(f) = c[DOMAIN f]
  BY DEF SumFunction, SumFunctionOnSet, FoldFunctionOnSet, MapThenFoldSet, IsSum, Added, ChosenOf
<1>2. IsSum(c, f)
  BY SumExists
<1> HIDE DEF c
<1> QED BY <1>1, <1>2

LEMMA SumIsInteger ==
  ASSUME NEW f, Summable(f)
  PROVE  SumFunction(f) \in Int
<1>1. PICK h : IsSum(h, f) /\ SumFunction(f) = h[DOMAIN f]
  BY SumIsSum
<1> QED BY <1>1, SumOfAny, DOMAIN f \in SUBSET DOMAIN f

(* The numbers of a range, added one after the other.                      *)
IsRange(f, n) == n \in Nat /\ DOMAIN f = 0..n - 1 /\ Summable(f)
Below(h, k) == h[0..k - 1]
SumRecurs(h, f, k) ==
  /\ Below(h, k + 1) = f[k] + Below(h, k) /\ Below(h, 0) = 0
  /\ f[k] \in Int /\ Below(h, k) \in Int

LEMMA SumTakes ==
  ASSUME NEW f, NEW h, NEW n, NEW k, IsRange(f, n), IsSum(h, f), k \in 0..n - 1
  PROVE  SumRecurs(h, f, k)
<1> DEFINE t == 0..k
           r == 0..k - 1
<1>1. k \in t /\ t \in SUBSET DOMAIN f /\ r \in SUBSET DOMAIN f /\ r = t \ {k} /\ k \in DOMAIN f
  BY DEF IsRange
<1>2. Summable(f)
  BY DEF IsRange
<1>3. h[t] = f[k] + h[r]
  <2> HIDE DEF t, r
  <2> QED BY <1>1, <1>2, SumOfAny
<1>4. h[{}] = 0 /\ h[r] \in Int /\ f[k] \in Int
  <2> HIDE DEF t, r
  <2> QED BY <1>1, <1>2, SumOfAny DEF Summable
<1>5. Below(h, k + 1) = h[t] /\ Below(h, k) = h[r] /\ Below(h, 0) = h[{}]
  <2>1. (k + 1) - 1 = k /\ 0..0 - 1 = {}
    BY DEF IsRange
  <2> QED BY <2>1, Zenon DEF Below
<1> HIDE DEF t, r
<1> QED BY <1>3, <1>4, <1>5 DEF SumRecurs

(* One more number at the end of a range.                                  *)
LEMMA SumOfRange ==
  ASSUME NEW n \in Nat, NEW f, NEW g, IsRange(f, n), IsRange(g, n + 1),
         \A i \in 0..n - 1 : g[i] = f[i]
  PROVE  SumFunction(g) = SumFunction(f) + g[n]
<1>1. PICK hf : IsSum(hf, f) /\ SumFunction(f) = Below(hf, n)
  BY SumIsSum DEF IsRange, Below
<1>2. PICK hg : IsSum(hg, g) /\ SumFunction(g) = Below(hg, n + 1)
  BY SumIsSum DEF IsRange, Below
<1> DEFINE S == {k \in Nat : k <= n => Below(hf, k) = Below(hg, k)}
<1>3. 0 \in S
  <2>1. hf[{}] = 0 /\ hg[{}] = 0
    BY <1>1, <1>2, SumOfAny DEF IsRange
  <2> QED BY <2>1, 0..0 - 1 = {} DEF Below
<1>4. ASSUME NEW k \in Nat, k \in S PROVE k + 1 \in S
  <2> SUFFICES ASSUME k + 1 <= n PROVE Below(hf, k + 1) = Below(hg, k + 1)
    OBVIOUS
  <2>1. k \in 0..n - 1 /\ k \in 0..(n + 1) - 1
    OBVIOUS
  <2>2. SumRecurs(hf, f, k) /\ SumRecurs(hg, g, k)
    BY <1>1, <1>2, <2>1, SumTakes
  <2>3. Below(hf, k) = Below(hg, k)
    BY <1>4, k <= n
  <2> QED BY <2>1, <2>2, <2>3 DEF SumRecurs
<1>5. Nat \subseteq S
  <2> HIDE DEF S
  <2> QED BY <1>3, <1>4, Induction
<1>6. Below(hf, n) = Below(hg, n)
  BY <1>5
<1>7. n \in 0..(n + 1) - 1
  OBVIOUS
<1>8. SumRecurs(hg, g, n)
  BY <1>2, <1>7, SumTakes
<1> QED BY <1>1, <1>2, <1>6, <1>8 DEF SumRecurs

-----------------------------------------------------------------------------
(* Sequences, item by item.                                                *)

LEMMA SequenceInduction ==
  ASSUME NEW S, NEW Good, <<>> \in Good,
         \A s \in Seq(S), e \in S : s \in Good => Append(s, e) \in Good
  PROVE  Seq(S) \subseteq Good
<1> DEFINE N == {n \in Nat : \A s \in Seq(S) : Len(s) = n => s \in Good}
<1>1. 0 \in N
  BY \A s \in Seq(S) : Len(s) = 0 => s = <<>>
<1>2. ASSUME NEW n \in Nat, n \in N PROVE n + 1 \in N
  <2> SUFFICES ASSUME NEW s \in Seq(S), Len(s) = n + 1 PROVE s \in Good
    OBVIOUS
  <2> DEFINE r == [k \in 1..n |-> s[k]]
  <2>1. r \in Seq(S) /\ Len(r) = n /\ s[n + 1] \in S
    OBVIOUS
  <2>2. s = Append(r, s[n + 1])
    <3>1. Append(r, s[n + 1]) \in Seq(S) /\ Len(Append(r, s[n + 1])) = n + 1
      BY <2>1
    <3>2. \A k \in 1..n + 1 : s[k] = Append(r, s[n + 1])[k]
      BY <2>1
    <3> HIDE DEF r
    <3> QED BY <3>1, <3>2
  <2> HIDE DEF r
  <2> QED BY <1>2, <2>1, <2>2
<1>3. Nat \subseteq N
  <2> HIDE DEF N
  <2> QED BY <1>1, <1>2, Induction
<1> QED BY <1>3, \A s \in Seq(S) : Len(s) \in Nat

LEMMA AppendIsConcat ==
  ASSUME NEW S, NEW s \in Seq(S), NEW e
  PROVE  s \o <<e>> = Append(s, e)
<1> DEFINE T == S \cup {e}
<1>1. s \in Seq(T) /\ e \in T
  OBVIOUS
<1> HIDE DEF T
<1>2. <<e>> \in Seq(T) /\ s \o <<e>> \in Seq(T) /\ Append(s, e) \in Seq(T)
  BY <1>1
<1>3. Len(s \o <<e>>) = Len(Append(s, e))
  BY <1>1, <1>2
<1>4. \A k \in 1..Len(Append(s, e)) : (s \o <<e>>)[k] = Append(s, e)[k]
  BY <1>1, <1>2
<1> QED BY <1>2, <1>3, <1>4

LEMMA AppendsAreConcat ==
  ASSUME NEW S, NEW s \in Seq(S), NEW d, NEW e
  PROVE  Append(s, d) \o <<e>> = s \o <<d, e>>
<1> DEFINE T == S \cup {d, e}
           a == Append(s, d) \o <<e>>
           b == s \o <<d, e>>
<1>1. s \in Seq(T) /\ d \in T /\ e \in T
  OBVIOUS
<1> HIDE DEF T
<1>2. <<e>> \in Seq(T) /\ <<d, e>> \in Seq(T) /\ Append(s, d) \in Seq(T)
  BY <1>1
<1>3. a \in Seq(T) /\ b \in Seq(T) /\ Len(a) = Len(s) + 2 /\ Len(b) = Len(s) + 2
  BY <1>1, <1>2
<1>4. \A k \in 1..Len(s) + 2 : a[k] = b[k]
  BY <1>1, <1>2
<1> HIDE DEF a, b
<1>5. a = b
  BY <1>3, <1>4
<1> QED BY <1>5 DEF a, b

(* A sequence of whatever its items are.                                   *)
IsSequence(s) == s \in Seq(Range(s))

LEMMA Narrowed ==
  ASSUME NEW S, NEW s \in Seq(S)
  PROVE  IsSequence(s) /\ Range(s) \subseteq S
BY DEF IsSequence, Range

LEMMA Widened ==
  ASSUME NEW s, NEW S, IsSequence(s), Range(s) \subseteq S
  PROVE  s \in Seq(S)
BY DEF IsSequence

LEMMA RangeOfLonger ==
  ASSUME NEW S, NEW s \in Seq(S), NEW e \in S
  PROVE  Append(s, e) \in Seq(S) /\ Range(Append(s, e)) = Range(s) \cup {e}
<1>1. /\ Append(s, e) \in Seq(S) /\ DOMAIN Append(s, e) = 1..Len(s) + 1
      /\ DOMAIN s = 1..Len(s) /\ Len(s) \in Nat
      /\ \A k \in 1..Len(s) : Append(s, e)[k] = s[k]
      /\ Append(s, e)[Len(s) + 1] = e
  OBVIOUS
<1>2. \A k \in 1..Len(s) + 1 : k \in 1..Len(s) \/ k = Len(s) + 1
  BY <1>1
<1>3. \A k \in 1..Len(s) : k \in 1..Len(s) + 1
  BY <1>1
<1> QED BY <1>1, <1>2, <1>3, Len(s) + 1 \in 1..Len(s) + 1 DEF Range

LEMMA Concatenated ==
  ASSUME NEW S, NEW r \in Seq(S), NEW s \in Seq(S), NEW e \in S
  PROVE  /\ r \o Append(s, e) = Append(r \o s, e)
         /\ r \o <<>> = r
         /\ r \o s \in Seq(S) /\ Append(s, e) \in Seq(S)
<1>1. /\ r \o Append(s, e) \in Seq(S) /\ Append(r \o s, e) \in Seq(S)
      /\ Len(r \o Append(s, e)) = Len(r) + Len(s) + 1
      /\ Len(Append(r \o s, e)) = Len(r) + Len(s) + 1
      /\ Len(r) \in Nat /\ Len(s) \in Nat
  OBVIOUS
<1>2. \A k \in 1..Len(r) + Len(s) + 1 : (r \o Append(s, e))[k] = Append(r \o s, e)[k]
  OBVIOUS
<1>3. r \o <<>> = r
  OBVIOUS
<1> QED BY <1>1, <1>2, <1>3

=============================================================================
