-------------------------- MODULE Rv32MachineProofs --------------------------
(***************************************************************************)
(* The two-hart machine of tools/rv32iss.py, for every memory, register    *)
(* file size, budget and set of device answers: what one hart does is its  *)
(* own, and the trace records it.  The machine's steps are folded over the *)
(* trace here, so most lemmas say what one more row does to a fold.        *)
(***************************************************************************)
EXTENDS Rv32Machine, FoldTheorems

(***************************************************************************)
(* The items with some values in a field: one more item is kept, or not.   *)
(***************************************************************************)
Keep(field, values, S) ==
  [p \in Seq(S) \X S |-> IF p[2][field] \in values THEN Append(p[1], p[2]) ELSE p[1]]

LEMMA KeptIsFold ==
  ASSUME NEW field, NEW values, NEW S, NEW s \in Seq(S)
  PROVE  FoldOf(Kept(s, field, values), Seq(S), <<>>, Keep(field, values, S), s)
<1> DEFINE n == Len(s)
           Takes(g, t) ==
              IF t = {} THEN <<>>
              ELSE IF s[Max(t)][field] \in values
                   THEN Append(g[t \ {Max(t)}], s[Max(t)])
                   ELSE g[t \ {Max(t)}]
           Folds(g) == g = [t \in SUBSET (1..n) |-> Takes(g, t)]
           on == OnItems(Keep(field, values, S), Seq(S), s)
<1>0. n \in Nat /\ \A k \in 1..n : s[k] \in S
  OBVIOUS
<1>1. Kept(s, field, values) = (CHOOSE g : Folds(g))[1..n]
  <2>1. DOMAIN s = 1..n
    OBVIOUS
  <2> QED BY <2>1 DEF Kept, FoldLeft, MapThenFoldSet
<1>2. IsStep(Keep(field, values, S), Seq(S), S) /\ <<>> \in Seq(S)
  BY DEF IsStep, Keep
<1>3. PICK g : IsFold(g, n, Seq(S), <<>>, on)
  <2>1. IsStep(on, Seq(S), 1..n)
    BY <1>0, <1>2 DEF IsStep, OnItems
  <2> HIDE DEF n, on
  <2> QED BY <1>0, <1>2, <2>1, FoldExists
<1>4. Folds(g)
  <2>1. ASSUME NEW t \in SUBSET (1..n) PROVE g[t] = Takes(g, t)
    <3>1. CASE t = {}
      BY <1>3, <3>1 DEF IsFold
    <3>2. CASE t # {}
      <4>1. Max(t) \in 1..n /\ t \ {Max(t)} \in SUBSET (1..n)
        BY <1>0, <3>2, MaxIsLargest
      <4>2. <<g[t \ {Max(t)}], Max(t)>> \in Seq(S) \X (1..n)
        BY <1>3, <4>1 DEF IsFold
      <4>3. g[t] = on[<<g[t \ {Max(t)}], Max(t)>>]
        BY <1>3, <3>2 DEF IsFold
      <4>4. on[<<g[t \ {Max(t)}], Max(t)>>] = Keep(field, values, S)[<<g[t \ {Max(t)}], s[Max(t)]>>]
        BY <4>2 DEF OnItems
      <4> QED BY <1>0, <3>2, <4>1, <4>2, <4>3, <4>4 DEF Keep
    <3> QED BY <3>1, <3>2
  <2> HIDE DEF Takes
  <2> QED BY <1>3, <2>1 DEF IsFold
<1> DEFINE f == CHOOSE h : Folds(h)
<1>5. Folds(f)
  <2> HIDE DEF Folds
  <2> QED BY <1>4
<1> HIDE DEF f
<1>6. f[1..0] = <<>>
  BY <1>5, 1..0 = {}, {} \in SUBSET (1..n)
<1>7. ASSUME NEW k \in 1..n, f[1..k - 1] \in Seq(S)
      PROVE  f[1..k] = Keep(field, values, S)[<<f[1..k - 1], s[k]>>]
  <2>1. /\ Max(1..k) = k /\ (1..k) \ {k} = 1..k - 1
        /\ 1..k \in SUBSET (1..n) /\ 1..k # {}
    BY <1>0, RangesInside
  <2>2. f[1..k] = Takes(f, 1..k)
    <3> HIDE DEF Takes
    <3> QED BY <1>5, <2>1
  <2> QED BY <1>0, <1>7, <2>1, <2>2 DEF Keep
<1>8. FoldOf(f[1..n], Seq(S), <<>>, Keep(field, values, S), s)
  BY <1>2, <1>6, <1>7, ChosenIsFold
<1> QED BY <1>1, <1>8 DEF f

LEMMA KeptNone ==
  ASSUME NEW field, NEW values
  PROVE  Kept(<<>>, field, values) = <<>>
<1>1. FoldOf(Kept(<<>>, field, values), Seq({}), <<>>, Keep(field, values, {}), <<>>)
  BY KeptIsFold, <<>> \in Seq({})
<1> QED BY <1>1, FoldOfNone

LEMMA KeptLonger ==
  ASSUME NEW field, NEW values, NEW S, NEW s \in Seq(S), NEW e \in S
  PROVE  /\ Kept(s, field, values) \in Seq(S)
         /\ Kept(Append(s, e), field, values) =
              IF e[field] \in values THEN Append(Kept(s, field, values), e)
                                    ELSE Kept(s, field, values)
<1> DEFINE V == Seq(S)
           longer == Append(s, e)
           step == Keep(field, values, S)
           none == <<>>
           kept == Kept(s, field, values)
           more == Kept(longer, field, values)
<1>1. IsStep(step, V, S) /\ none \in V /\ s \in V /\ longer \in V
  BY DEF IsStep, Keep
<1>2. FoldOf(kept, V, none, step, s) /\ FoldOf(more, V, none, step, longer)
  <2> HIDE DEF longer
  <2> QED BY <1>1, KeptIsFold
<1>3. IsLonger(longer, s, e)
  BY DEF IsLonger
<1>4. kept \in V /\ more = step[<<kept, e>>]
  <2> HIDE DEF longer, V, step, none, kept, more
  <2> QED BY <1>1, <1>2, <1>3, FoldOfLonger
<1> QED BY <1>4 DEF Keep

LEMMA KeptTwo ==
  ASSUME NEW field, NEW values, NEW S, NEW r \in Seq(S), NEW s \in Seq(S)
  PROVE  Kept(r \o s, field, values) = Kept(r, field, values) \o Kept(s, field, values)
<1> DEFINE Good == {t \in Seq(S) : Kept(r \o t, field, values) =
                                      Kept(r, field, values) \o Kept(t, field, values)}
<1>1. <<>> \in Good
  <2>1. Kept(r, field, values) \in Seq(S)
    <3>1. CASE S = {}
      BY <3>1, KeptNone
    <3>2. CASE S # {}
      BY <3>2, KeptLonger
    <3> QED BY <3>1, <3>2
  <2> QED BY <2>1, KeptNone
<1>2. ASSUME NEW t \in Seq(S), NEW e \in S, t \in Good PROVE Append(t, e) \in Good
  <2>1. /\ Kept(r, field, values) \in Seq(S) /\ Kept(t, field, values) \in Seq(S)
        /\ Kept(Append(t, e), field, values) =
             IF e[field] \in values THEN Append(Kept(t, field, values), e)
                                   ELSE Kept(t, field, values)
    BY KeptLonger
  <2>2. /\ r \o Append(t, e) = Append(r \o t, e) /\ Append(t, e) \in Seq(S)
        /\ r \o t \in Seq(S)
    BY Concatenated
  <2>3. Kept(Append(r \o t, e), field, values) =
          IF e[field] \in values THEN Append(Kept(r \o t, field, values), e)
                                ELSE Kept(r \o t, field, values)
    <3> DEFINE u == r \o t
    <3>1. u \in Seq(S)
      BY <2>2
    <3> HIDE DEF u
    <3>2. Kept(Append(u, e), field, values) =
            IF e[field] \in values THEN Append(Kept(u, field, values), e)
                                  ELSE Kept(u, field, values)
      BY <3>1, KeptLonger
    <3> QED BY <3>2 DEF u
  <2>4. Kept(r, field, values) \o Append(Kept(t, field, values), e) =
          Append(Kept(r, field, values) \o Kept(t, field, values), e)
    BY <2>1, Concatenated
  <2> QED BY <1>2, <2>1, <2>2, <2>3, <2>4
<1>3. Seq(S) \subseteq Good
  <2> HIDE DEF Good
  <2> QED BY <1>1, <1>2, SequenceInduction
<1> QED BY <1>3

(* Which items are kept.                                                   *)
LEMMA KeptThose ==
  ASSUME NEW field, NEW values, NEW S, NEW s \in Seq(S)
  PROVE  Kept(s, field, values) \in Seq({e \in Range(s) : e[field] \in values})
<1> DEFINE Good == {t \in Seq(S) :
                      Kept(t, field, values) \in Seq({e \in Range(t) : e[field] \in values})}
<1>1. <<>> \in Good
  <2>1. \A X : <<>> \in Seq(X)
    OBVIOUS
  <2>2. Kept(<<>>, field, values) \in Seq({e \in Range(<<>>) : e[field] \in values})
    BY <2>1, KeptNone
  <2> QED BY <2>1, <2>2
<1>2. ASSUME NEW t \in Seq(S), NEW e \in S, t \in Good PROVE Append(t, e) \in Good
  <2>1. Kept(Append(t, e), field, values) =
             IF e[field] \in values THEN Append(Kept(t, field, values), e)
                                   ELSE Kept(t, field, values)
    BY KeptLonger
  <2>2. Append(t, e) \in Seq(S) /\ Range(Append(t, e)) = Range(t) \cup {e}
    BY RangeOfLonger
  <2> DEFINE A == {x \in Range(t) : x[field] \in values}
             B == {x \in Range(t) \cup {e} : x[field] \in values}
  <2>3. Kept(t, field, values) \in Seq(B)
    <3>1. Kept(t, field, values) \in Seq(A) /\ A \subseteq B
      BY <1>2
    <3> HIDE DEF A, B
    <3> QED BY <3>1
  <2>4. e[field] \in values => Append(Kept(t, field, values), e) \in Seq(B)
    <3>1. e[field] \in values => e \in B
      OBVIOUS
    <3> HIDE DEF B
    <3> QED BY <2>3, <3>1
  <2>5. Kept(Append(t, e), field, values) \in Seq({x \in Range(Append(t, e)) : x[field] \in values})
    BY <2>1, <2>2, <2>3, <2>4
  <2> QED BY <2>2, <2>5
<1>3. Seq(S) \subseteq Good
  <2> HIDE DEF Good
  <2> QED BY <1>1, <1>2, SequenceInduction
<1> QED BY <1>3

-----------------------------------------------------------------------------
(* In particular the items of some harts.                                  *)

LEMMA ItemsOfNone ==
  ASSUME NEW ids
  PROVE  ItemsOf(<<>>, ids) = <<>>
BY KeptNone DEF ItemsOf

LEMMA ItemsOfLonger ==
  ASSUME NEW ids, NEW S, NEW s \in Seq(S), NEW e \in S
  PROVE  /\ ItemsOf(s, ids) \in Seq(S)
         /\ ItemsOf(Append(s, e), ids) =
              IF e.hart \in ids THEN Append(ItemsOf(s, ids), e) ELSE ItemsOf(s, ids)
<1>1. e["hart"] = e.hart
  OBVIOUS
<1>2. /\ Kept(s, "hart", ids) \in Seq(S)
      /\ Kept(Append(s, e), "hart", ids) =
           IF e["hart"] \in ids THEN Append(Kept(s, "hart", ids), e) ELSE Kept(s, "hart", ids)
  BY KeptLonger
<1> QED BY <1>1, <1>2, Zenon DEF ItemsOf

LEMMA ItemsOfTwo ==
  ASSUME NEW ids, NEW S, NEW r \in Seq(S), NEW s \in Seq(S)
  PROVE  ItemsOf(r \o s, ids) = ItemsOf(r, ids) \o ItemsOf(s, ids)
BY KeptTwo DEF ItemsOf

LEMMA ItemsOfThose ==
  ASSUME NEW ids, NEW S, NEW s \in Seq(S)
  PROVE  ItemsOf(s, ids) \in Seq({e \in Range(s) : e.hart \in ids})
<1>1. {e \in Range(s) : e["hart"] \in ids} = {e \in Range(s) : e.hart \in ids}
  OBVIOUS
<1> QED BY <1>1, KeptThose, Zenon DEF ItemsOf

LEMMA ItemsOfItems ==
  ASSUME NEW A, NEW B, NEW C, C = A \cap B, NEW S, NEW s \in Seq(S)
  PROVE  ItemsOf(ItemsOf(s, A), B) = ItemsOf(s, C)
<1> DEFINE Good == {t \in Seq(S) : ItemsOf(ItemsOf(t, A), B) = ItemsOf(t, C)}
<1>1. <<>> \in Good
  BY ItemsOfNone
<1>2. ASSUME NEW t \in Seq(S), NEW e \in S, t \in Good PROVE Append(t, e) \in Good
  <2>1. /\ ItemsOf(Append(t, e), A) =
             IF e.hart \in A THEN Append(ItemsOf(t, A), e) ELSE ItemsOf(t, A)
        /\ ItemsOf(Append(t, e), C) =
             IF e.hart \in C THEN Append(ItemsOf(t, C), e)
                                   ELSE ItemsOf(t, C)
        /\ ItemsOf(t, A) \in Seq(S)
    BY ItemsOfLonger
  <2>2. ItemsOf(Append(ItemsOf(t, A), e), B) =
             IF e.hart \in B THEN Append(ItemsOf(ItemsOf(t, A), B), e)
                            ELSE ItemsOf(ItemsOf(t, A), B)
    BY <2>1, ItemsOfLonger
  <2>3. Append(t, e) \in Seq(S) /\ ItemsOf(ItemsOf(t, A), B) = ItemsOf(t, C)
    BY <1>2
  <2>4. ItemsOf(ItemsOf(Append(t, e), A), B) = ItemsOf(Append(t, e), C)
    <3>1. CASE e.hart \in A
      <4>1. e.hart \in C <=> e.hart \in B
        BY <3>1
      <4> QED BY <2>1, <2>2, <2>3, <3>1, <4>1
    <3>2. CASE e.hart \notin A
      <4>1. e.hart \notin C
        BY <3>2
      <4> QED BY <2>1, <2>3, <3>2, <4>1
    <3> QED BY <3>1, <3>2
  <2> QED BY <2>3, <2>4
<1>3. Seq(S) \subseteq Good
  <2> HIDE DEF Good
  <2> QED BY <1>1, <1>2, SequenceInduction
<1> QED BY <1>3

LEMMA ItemsOfNobody ==
  ASSUME NEW S, NEW s \in Seq(S)
  PROVE  ItemsOf(s, {}) = <<>>
<1>1. ItemsOf(s, {}) \in Seq({e \in Range(s) : e.hart \in {}})
  BY ItemsOfThose
<1>2. {e \in Range(s) : e.hart \in {}} = {}
  OBVIOUS
<1> QED BY <1>1, <1>2

-----------------------------------------------------------------------------
(* The rows that end a budget: one for each hart that still runs.          *)

EndRow(hs, h) == HaltRow(h, "budget", hs[h].pc, None)
EndRows(hs, m) == [k \in 1..m |-> HaltRow(k - 1, "budget", hs[k - 1].pc, None)]

LEMMA EndRowsOfOne ==
  ASSUME NEW hs, NEW h \in Harts
  PROVE  ItemsOf(EndRows(hs, HART_COUNT), {h}) = <<EndRow(hs, h)>>
<1> DEFINE S == {EndRow(hs, g) : g \in Nat}
           P(m) == ItemsOf(EndRows(hs, m), {h}) = IF h < m THEN <<EndRow(hs, h)>> ELSE <<>>
           N == {m \in Nat : P(m)}
<1>1. h \in Nat /\ HART_COUNT \in Nat /\ h < HART_COUNT
  BY MachineAssumption DEF Harts
<1>2. ASSUME NEW m \in Nat PROVE EndRows(hs, m) \in Seq(S) /\ Len(EndRows(hs, m)) = m
  <2>1. \A k \in 1..m : EndRow(hs, k - 1) \in S
    OBVIOUS
  <2>2. EndRows(hs, m) = [k \in 1..m |-> EndRow(hs, k - 1)]
    BY DEF EndRows, EndRow
  <2> HIDE DEF S
  <2> QED BY <2>1, <2>2
<1>3. 0 \in N
  <2>1. EndRows(hs, 0) = <<>>
    <3>1. EndRows(hs, 0) \in Seq(S) /\ Len(EndRows(hs, 0)) = 0
      BY <1>2
    <3> HIDE DEF S
    <3> QED BY <3>1
  <2> QED BY <1>1, <2>1, ItemsOfNone
<1>4. ASSUME NEW m \in Nat, m \in N PROVE m + 1 \in N
  <2>1. EndRow(hs, m) \in S /\ EndRow(hs, m).hart = m
    BY DEF EndRow, HaltRow, Row
  <2>2. EndRows(hs, m + 1) = Append(EndRows(hs, m), EndRow(hs, m))
    <3> DEFINE longer == Append(EndRows(hs, m), EndRow(hs, m))
    <3>1. longer \in Seq(S) /\ Len(longer) = m + 1
      <4> HIDE DEF S
      <4> QED BY <1>2, <2>1
    <3>2. ASSUME NEW k \in 1..m + 1 PROVE longer[k] = EndRows(hs, m + 1)[k]
      <4>1. EndRows(hs, m + 1)[k] = EndRow(hs, k - 1)
        BY DEF EndRows, EndRow
      <4>2. k \in 1..m => EndRows(hs, m)[k] = EndRow(hs, k - 1)
        BY DEF EndRows, EndRow
      <4>3. CASE k \in 1..m
        <5> HIDE DEF S
        <5> QED BY <1>2, <2>1, <4>1, <4>2, <4>3
      <4>4. CASE k = m + 1
        <5>1. longer[m + 1] = EndRow(hs, m) /\ k - 1 = m
          <6> HIDE DEF S
          <6> QED BY <1>2, <2>1, <4>4
        <5> QED BY <4>1, <4>4, <5>1
      <4>5. k \in 1..m \/ k = m + 1
        OBVIOUS
      <4> HIDE DEF longer
      <4> QED BY <4>3, <4>4, <4>5
    <3>3. EndRows(hs, m + 1) \in Seq(S) /\ Len(EndRows(hs, m + 1)) = m + 1
      BY <1>2, m + 1 \in Nat
    <3> HIDE DEF longer, S
    <3>4. longer = EndRows(hs, m + 1)
      BY <3>1, <3>2, <3>3
    <3> QED BY <3>4 DEF longer
  <2>3. ItemsOf(EndRows(hs, m + 1), {h}) =
          IF m = h THEN Append(ItemsOf(EndRows(hs, m), {h}), EndRow(hs, m))
                   ELSE ItemsOf(EndRows(hs, m), {h})
    <3>1. EndRows(hs, m) \in Seq(S)
      BY <1>2
    <3>2. EndRow(hs, m).hart \in {h} <=> m = h
      BY <2>1
    <3> HIDE DEF S
    <3>3. ItemsOf(Append(EndRows(hs, m), EndRow(hs, m)), {h}) =
            IF EndRow(hs, m).hart \in {h}
            THEN Append(ItemsOf(EndRows(hs, m), {h}), EndRow(hs, m))
            ELSE ItemsOf(EndRows(hs, m), {h})
      BY <2>1, <3>1, ItemsOfLonger
    <3> QED BY <2>2, <3>2, <3>3
  <2>4. CASE m = h
    <3>1. ItemsOf(EndRows(hs, m), {h}) = <<>>
      BY <1>1, <1>4, <2>4
    <3> QED BY <2>3, <2>4, <3>1
  <2>5. CASE m # h
    BY <1>1, <1>4, <2>3, <2>5
  <2> QED BY <2>4, <2>5
<1>5. Nat \subseteq N
  <2> HIDE DEF N
  <2> QED BY <1>3, <1>4, Induction
<1> QED BY <1>1, <1>5

LEMMA BudgetRowsOfOne ==
  ASSUME NEW hs, NEW h \in Harts
  PROVE  ItemsOf(BudgetRows(hs), {h}) =
           IF hs[h].halted = "no" THEN <<EndRow(hs, h)>> ELSE <<>>
<1> DEFINE S == {EndRow(hs, g) : g \in Nat}
           running == {g \in Harts : hs[g].halted = "no"}
<1>1. EndRows(hs, HART_COUNT) \in Seq(S)
  <2>1. \A k \in 1..HART_COUNT : EndRow(hs, k - 1) \in S
    OBVIOUS
  <2>2. EndRows(hs, HART_COUNT) = [k \in 1..HART_COUNT |-> EndRow(hs, k - 1)]
    BY DEF EndRows, EndRow
  <2> HIDE DEF S
  <2> QED BY <2>1, <2>2, MachineAssumption
<1>2. BudgetRows(hs) = ItemsOf(EndRows(hs, HART_COUNT), running)
  BY DEF BudgetRows, EndRows
<1> HIDE DEF S
<1>3. CASE hs[h].halted = "no"
  <2>1. {h} = running \cap {h}
    BY <1>3
  <2>2. ItemsOf(BudgetRows(hs), {h}) = ItemsOf(EndRows(hs, HART_COUNT), {h})
    <3> HIDE DEF running
    <3> QED BY <1>1, <1>2, <2>1, ItemsOfItems
  <2> QED BY <1>3, <2>2, EndRowsOfOne
<1>4. CASE hs[h].halted # "no"
  <2>1. {} = running \cap {h}
    BY <1>4
  <2>2. ItemsOf(BudgetRows(hs), {h}) = ItemsOf(EndRows(hs, HART_COUNT), {})
    <3> HIDE DEF running
    <3> QED BY <1>1, <1>2, <2>1, ItemsOfItems
  <2> QED BY <1>1, <1>4, <2>2, ItemsOfNobody
<1> QED BY <1>3, <1>4

LEMMA BudgetRowsAre ==
  ASSUME NEW hs
  PROVE  BudgetRows(hs) \in Seq({EndRow(hs, h) : h \in {g \in Harts : hs[g].halted = "no"}})
<1> DEFINE running == {g \in Harts : hs[g].halted = "no"}
           rows == EndRows(hs, HART_COUNT)
           all == {EndRow(hs, g) : g \in Harts}
           some == {EndRow(hs, g) : g \in running}
<1>1. rows \in Seq(all)
  <2>1. \A k \in 1..HART_COUNT : EndRow(hs, k - 1) \in all
    BY MachineAssumption DEF Harts
  <2>2. rows = [k \in 1..HART_COUNT |-> EndRow(hs, k - 1)]
    BY DEF EndRows, EndRow
  <2> HIDE DEF all, rows
  <2> QED BY <2>1, <2>2, MachineAssumption
<1>2. BudgetRows(hs) \in Seq({e \in Range(rows) : e.hart \in running})
  <2>1. BudgetRows(hs) = ItemsOf(rows, running)
    BY DEF BudgetRows, EndRows
  <2> HIDE DEF rows, all, running
  <2> QED BY <1>1, <2>1, ItemsOfThose
<1>3. {e \in Range(rows) : e.hart \in running} \subseteq some
  <2>1. Range(rows) \subseteq all
    <3> HIDE DEF rows, all
    <3> QED BY <1>1, Narrowed
  <2>2. \A g : EndRow(hs, g).hart = g
    BY DEF EndRow, HaltRow, Row
  <2> HIDE DEF rows
  <2> QED BY <2>1, <2>2
<1>4. BudgetRows(hs) \in Seq(some)
  <2> HIDE DEF rows, some, running
  <2> QED BY <1>2, <1>3
<1> QED BY <1>4

-----------------------------------------------------------------------------
(* What every outcome of an instruction has in common.                     *)

IsHart(h) ==
  /\ h = [x |-> h.x, pc |-> h.pc, halted |-> h.halted, mem |-> h.mem]
  /\ h.x = [n \in Registers |-> h.x[n]]

OfHart(id, cs) == IsSequence(cs) /\ \A c \in Range(cs) : c.hart = id

WrittenBack(x, r) ==
  IF r.rd \in {None, 0} THEN x ELSE [x EXCEPT ![r.rd] = r.rd_value]

Ordinary(id, h, o) ==
  /\ IsHart(o.hart)
  /\ o.row.hart = id /\ o.row.pc = h.pc /\ o.row.halt = o.hart.halted
  /\ o.row.halt # "budget"
  /\ o.row.halt # "no" => o.hart = [h EXCEPT !.halted = o.row.halt]
  /\ o.hart.x = WrittenBack(h.x, o.row)
  /\ OfHart(id, o.calls)

LEMMA NoCalls ==
  ASSUME NEW id
  PROVE  OfHart(id, <<>>)
BY DEF OfHart, IsSequence, Range

LEMMA OneCall ==
  ASSUME NEW id, NEW c, c.hart = id
  PROVE  OfHart(id, <<c>>)
<1>1. <<c>> \in Seq({c})
  OBVIOUS
<1>2. Range(<<c>>) \subseteq {c} /\ IsSequence(<<c>>)
  BY <1>1, Narrowed
<1> QED BY <1>2 DEF OfHart

LEMMA Halting ==
  ASSUME NEW id, NEW h, IsHart(h), NEW reason, NEW word, NEW cs, OfHart(id, cs),
         reason \notin {"no", "budget"}
  PROVE  Ordinary(id, h, RecordHalt(id, h, reason, word, cs))
BY DEF Ordinary, IsHart, RecordHalt, Outcome, HaltRow, Row, WrittenBack, None

LEMMA Retiring ==
  ASSUME NEW id, NEW h, NEW next, NEW word, NEW rd, NEW value,
         IsHart(h), h.halted = "no", IsHart(next), next.halted = "no",
         next.x = IF rd \in {None, 0} THEN h.x ELSE [h.x EXCEPT ![rd] = value]
  PROVE  Ordinary(id, h, Retire(id, h, next, word, rd, value))
BY NoCalls DEF Ordinary, Retire, Outcome, Row, WrittenBack

(* A register file after a write, as it reads back.                        *)
LEMMA WritingBack ==
  ASSUME NEW h, NEW rd, NEW value, NEW w, IsHart(h), w = reg_write(h, rd, value)
  PROVE  /\ IsHart(w) /\ w.halted = h.halted /\ w.pc = h.pc
         /\ w.x = IF rd \in {None, 0} THEN h.x ELSE [h.x EXCEPT ![rd] = reg_read(w, rd)]
<1>1. CASE rd = 0
  BY <1>1 DEF reg_write
<1>2. CASE rd # 0
  <2>1. w = [h EXCEPT !.x[rd] = w32(value)]
    BY <1>2 DEF reg_write
  <2>2. IsHart(w) /\ w.halted = h.halted /\ w.pc = h.pc /\ w.x = [h.x EXCEPT ![rd] = w32(value)]
    BY <2>1 DEF IsHart
  <2>3. reg_read(w, rd) = w.x[rd]
    BY <1>2 DEF reg_read
  <2>4. rd = None => w.x = h.x
    BY <2>2 DEF IsHart, None, Registers
  <2>5. [h.x EXCEPT ![rd] = w.x[rd]] = w.x
    BY <2>2 DEF IsHart
  <2> QED BY <1>2, <2>2, <2>3, <2>4, <2>5
<1> QED BY <1>1, <1>2

LEMMA ComputeIsOrdinary ==
  ASSUME NEW id, NEW h, NEW i, NEW word, IsHart(h), h.halted = "no",
         NEW o \in Compute(id, h, i, word)
  PROVE  Ordinary(id, h, o)
<1>1. PICK result : o \in WriteBack(id, h, i, word, result)
  BY DEF Compute
<1> DEFINE w == reg_write(h, i.rd, result)
           next == Advance(w)
<1>2. o = Retire(id, h, next, word, i.rd, reg_read(next, i.rd))
  BY <1>1 DEF WriteBack
<1>3. /\ IsHart(w) /\ w.halted = "no"
      /\ w.x = IF i.rd \in {None, 0} THEN h.x
               ELSE [h.x EXCEPT ![i.rd] = reg_read(w, i.rd)]
  <2> DEFINE rd == i.rd
  <2>1. w = reg_write(h, rd, result)
    OBVIOUS
  <2> HIDE DEF w, rd
  <2>2. /\ IsHart(w) /\ w.halted = h.halted /\ w.pc = h.pc
        /\ w.x = IF rd \in {None, 0} THEN h.x ELSE [h.x EXCEPT ![rd] = reg_read(w, rd)]
    BY <2>1, WritingBack
  <2> QED BY <2>2 DEF rd
<1> HIDE DEF w
<1>4. /\ IsHart(next) /\ next.halted = "no" /\ next.x = w.x
      /\ reg_read(next, i.rd) = reg_read(w, i.rd)
  BY <1>3 DEF IsHart, reg_read, Advance
<1> HIDE DEF next
<1> QED BY <1>2, <1>3, <1>4, Retiring

LEMMA JumpIsOrdinary ==
  ASSUME NEW id, NEW h, NEW i, NEW word, IsHart(h), h.halted = "no",
         NEW o \in Jump(id, h, i, word)
  PROVE  Ordinary(id, h, o)
<1>1. PICK target : LET next == reg_write([h EXCEPT !.pc = target], i.rd, h.pc + 4)
                    IN o = Retire(id, h, next, word, i.rd, reg_read(next, i.rd))
  BY DEF Jump
<1> DEFINE m == [h EXCEPT !.pc = target]
           next == reg_write(m, i.rd, h.pc + 4)
<1>2. IsHart(m) /\ m.halted = "no" /\ m.x = h.x
  BY DEF IsHart
<1> HIDE DEF m
<1>3. /\ IsHart(next) /\ next.halted = "no"
      /\ next.x = IF i.rd \in {None, 0} THEN h.x
                  ELSE [h.x EXCEPT ![i.rd] = reg_read(next, i.rd)]
  <2>1. next = reg_write(m, i.rd, h.pc + 4)
    OBVIOUS
  <2> HIDE DEF next
  <2> QED BY <1>2, <2>1, WritingBack
<1>4. o = Retire(id, h, next, word, i.rd, reg_read(next, i.rd))
  BY <1>1 DEF m
<1> HIDE DEF next
<1> QED BY <1>3, <1>4, Retiring

LEMMA BranchIsOrdinary ==
  ASSUME NEW id, NEW h, NEW i, NEW word, IsHart(h), h.halted = "no",
         NEW o \in Branch(id, h, i, word)
  PROVE  Ordinary(id, h, o)
<1>1. PICK target : o = Retire(id, h, [h EXCEPT !.pc = target], word, 0, 0)
  <2>1. PICK next : /\ o = Retire(id, h, next, word, 0, 0)
                    /\ next = IF Taken(i.op, Source1(h, i), Source2(h, i))
                              THEN [h EXCEPT !.pc = w32(@ + i.imm)] ELSE Advance(h)
    BY DEF Branch
  <2> QED BY <2>1 DEF Advance
<1> DEFINE m == [h EXCEPT !.pc = target]
<1>2. IsHart(m) /\ m.halted = "no" /\ m.x = IF 0 \in {None, 0} THEN h.x ELSE [h.x EXCEPT ![0] = 0]
  BY DEF IsHart
<1>3. o = Retire(id, h, m, word, 0, 0)
  BY <1>1
<1> HIDE DEF m
<1> QED BY <1>2, <1>3, Retiring

LEMMA FenceIsOrdinary ==
  ASSUME NEW id, NEW h, NEW word, IsHart(h), h.halted = "no"
  PROVE  Ordinary(id, h, Retire(id, h, Advance(h), word, 0, 0))
<1> DEFINE m == Advance(h)
<1>1. IsHart(m) /\ m.halted = "no" /\ m.x = IF 0 \in {None, 0} THEN h.x ELSE [h.x EXCEPT ![0] = 0]
  BY DEF IsHart, Advance
<1> HIDE DEF m
<1>2. Ordinary(id, h, Retire(id, h, m, word, 0, 0))
  BY <1>1, Retiring
<1> QED BY <1>2 DEF m

(* A transfer is done, or it faults; its calls are the hart's.             *)
IsTransfer(id, t) == t.fault \in {"no", "illegal", "bus"} /\ OfHart(id, t.calls)

LEMMA DeviceTransfers ==
  ASSUME NEW id, NEW addr, NEW is_write, NEW value, NEW size,
         NEW t \in DispatchDevice(id, addr, is_write, value, size)
  PROVE  /\ IsTransfer(id, t)
         /\ t = [fault |-> t.fault, word |-> t.word, value |-> t.value, calls |-> t.calls]
<1>1. CASE DeviceAnswers = {}
  BY <1>1, NoCalls DEF DispatchDevice, Fault, IsTransfer
<1>2. CASE DeviceAnswers # {}
  <2> DEFINE sent == IF is_write THEN value % BYTE^size ELSE w32(value)
             made(answer) == Call(id, addr, is_write, sent, size, answer)
  <2>1. PICK answer \in DeviceAnswers :
          t = IF answer = None THEN Fault("bus", None, <<made(answer)>>)
                               ELSE Transfer(w32(answer), <<made(answer)>>)
    BY <1>2 DEF DispatchDevice
  <2>2. made(answer).hart = id
    BY DEF Call
  <2> HIDE DEF made
  <2> QED BY <2>1, <2>2, OneCall DEF Fault, Transfer, IsTransfer
<1> QED BY <1>1, <1>2

LEMMA ReadTransfers ==
  ASSUME NEW id, NEW h, NEW addr, NEW size, NEW word,
         NEW t \in MemRead(id, h, addr, size, word)
  PROVE  IsTransfer(id, t)
<1>1. \/ t = Fault("illegal", word, <<>>) \/ t = Fault("bus", word, <<>>)
      \/ \E v : t = Transfer(v, <<>>)
      \/ \E d \in DispatchDevice(id, addr, FALSE, 0, size) :
           t = IF d.fault = "no" THEN [d EXCEPT !.value = Lane(@, addr, size)] ELSE d
  BY DEF MemRead, Checked
<1>2. ASSUME NEW d \in DispatchDevice(id, addr, FALSE, 0, size),
             t = IF d.fault = "no" THEN [d EXCEPT !.value = Lane(@, addr, size)] ELSE d
      PROVE  IsTransfer(id, t)
  <2>1. /\ IsTransfer(id, d)
        /\ d = [fault |-> d.fault, word |-> d.word, value |-> d.value, calls |-> d.calls]
    BY DeviceTransfers
  <2>2. t.fault = d.fault /\ t.calls = d.calls
    BY <1>2, <2>1
  <2> QED BY <2>1, <2>2 DEF IsTransfer
<1>3. \A reason \in {"illegal", "bus"} : IsTransfer(id, Fault(reason, word, <<>>))
  BY NoCalls DEF Fault, IsTransfer
<1>4. \A v : IsTransfer(id, Transfer(v, <<>>))
  BY NoCalls DEF Transfer, IsTransfer
<1> QED BY <1>1, <1>2, <1>3, <1>4

LEMMA WriteTransfers ==
  ASSUME NEW id, NEW addr, NEW size, NEW value, NEW word,
         NEW t \in MemWrite(id, addr, size, value, word)
  PROVE  IsTransfer(id, t)
<1>1. \/ t = Fault("illegal", word, <<>>) \/ t = Fault("bus", word, <<>>)
      \/ t = Transfer(value, <<>>)
      \/ t \in DispatchDevice(id, addr, TRUE, value, size)
  BY DEF MemWrite, Checked
<1>2. \A reason \in {"illegal", "bus"} : IsTransfer(id, Fault(reason, word, <<>>))
  BY NoCalls DEF Fault, IsTransfer
<1>3. IsTransfer(id, Transfer(value, <<>>))
  BY NoCalls DEF Transfer, IsTransfer
<1>4. ASSUME t \in DispatchDevice(id, addr, TRUE, value, size) PROVE IsTransfer(id, t)
  BY <1>4, DeviceTransfers
<1> QED BY <1>1, <1>2, <1>3, <1>4

LEMMA LoadIsOrdinary ==
  ASSUME NEW id, NEW h, NEW i, NEW word, IsHart(h), h.halted = "no",
         NEW o \in Load(id, h, i, word)
  PROVE  Ordinary(id, h, o)
<1>1. PICK addr, size, result, t :
        /\ t \in MemRead(id, h, addr, size, word)
        /\ LET after == Advance(reg_write(h, i.rd, result))
           IN o = IF t.fault # "no" THEN RecordHalt(id, h, t.fault, t.word, t.calls)
                  ELSE Outcome(after, Row(id, h.pc, word, i.rd, reg_read(after, i.rd),
                                          i.op, addr, size, t.value, "no"), t.calls)
  BY DEF Load
<1>2. IsTransfer(id, t)
  BY <1>1, ReadTransfers
<1>3. CASE t.fault # "no"
  <2>1. t.fault \notin {"no", "budget"} /\ OfHart(id, t.calls)
    BY <1>2, <1>3 DEF IsTransfer
  <2>2. o = RecordHalt(id, h, t.fault, t.word, t.calls)
    BY <1>1, <1>3
  <2> QED BY <2>1, <2>2, Halting
<1>4. CASE t.fault = "no"
  <2> DEFINE rd == i.rd
             w == reg_write(h, rd, result)
             next == Advance(w)
  <2>1. w = reg_write(h, rd, result)
    OBVIOUS
  <2>2. o = Outcome(next, Row(id, h.pc, word, rd, reg_read(next, rd),
                              i.op, addr, size, t.value, "no"), t.calls)
    BY <1>1, <1>4
  <2> HIDE DEF w, rd
  <2>3. /\ IsHart(w) /\ w.halted = h.halted
        /\ w.x = IF rd \in {None, 0} THEN h.x ELSE [h.x EXCEPT ![rd] = reg_read(w, rd)]
    BY <2>1, WritingBack
  <2>4. /\ IsHart(next) /\ next.halted = "no" /\ next.x = w.x
        /\ reg_read(next, rd) = reg_read(w, rd)
    BY <2>3 DEF IsHart, reg_read, Advance
  <2> HIDE DEF next
  <2>5. OfHart(id, t.calls)
    BY <1>2 DEF IsTransfer
  <2> QED BY <2>2, <2>3, <2>4, <2>5 DEF Ordinary, Outcome, Row, WrittenBack
<1> QED BY <1>3, <1>4

LEMMA StoreIsOrdinary ==
  ASSUME NEW id, NEW h, NEW i, NEW word, IsHart(h), h.halted = "no",
         NEW o \in Store(id, h, i, word)
  PROVE  Ordinary(id, h, o)
<1>1. PICK addr, size, value, stored, lanes, t :
        /\ t \in MemWrite(id, addr, size, value, word)
        /\ stored = h \/ \E mem : stored = [h EXCEPT !.mem = mem]
        /\ o = IF t.fault # "no" THEN RecordHalt(id, h, t.fault, t.word, t.calls)
               ELSE Outcome(Advance(stored), Row(id, h.pc, word, None, None,
                                       i.op, addr, size, lanes, "no"), t.calls)
  <2> DEFINE size == STORES[i.op]
             addr == w32(Source1(h, i) + i.imm)
             value == Source2(h, i)
             stored == IF addr < RAM_BYTES
                       THEN [h EXCEPT !.mem = Merged(@, addr, size, value)] ELSE h
  <2>1. PICK t \in MemWrite(id, addr, size, value, word) :
          o = IF t.fault # "no" THEN RecordHalt(id, h, t.fault, t.word, t.calls)
              ELSE Outcome(Advance(stored), Row(id, h.pc, word, None, None,
                             i.op, addr, size, Lanes(addr, size, value), "no"), t.calls)
    BY DEF Store
  <2>2. stored = h \/ \E mem : stored = [h EXCEPT !.mem = mem]
    OBVIOUS
  <2> HIDE DEF size, addr, value, stored
  <2> QED BY <2>1, <2>2
<1>2. IsTransfer(id, t)
  BY <1>1, WriteTransfers
<1>3. CASE t.fault # "no"
  <2>1. t.fault \notin {"no", "budget"} /\ OfHart(id, t.calls)
    BY <1>2, <1>3 DEF IsTransfer
  <2>2. o = RecordHalt(id, h, t.fault, t.word, t.calls)
    BY <1>1, <1>3
  <2> QED BY <2>1, <2>2, Halting
<1>4. CASE t.fault = "no"
  <2> DEFINE next == Advance(stored)
  <2>1. o = Outcome(next, Row(id, h.pc, word, None, None, i.op, addr, size, lanes, "no"),
                    t.calls)
    BY <1>1, <1>4
  <2>2. IsHart(next) /\ next.halted = "no" /\ next.x = h.x
    <3>1. ASSUME NEW mem, stored = [h EXCEPT !.mem = mem]
          PROVE  IsHart(stored) /\ stored.halted = "no" /\ stored.x = h.x
      BY <3>1 DEF IsHart
    <3>2. IsHart(stored) /\ stored.halted = "no" /\ stored.x = h.x
      BY <1>1, <3>1
    <3> QED BY <3>2 DEF IsHart, Advance
  <2> HIDE DEF next
  <2>3. OfHart(id, t.calls)
    BY <1>2 DEF IsTransfer
  <2> QED BY <2>1, <2>2, <2>3 DEF Ordinary, Outcome, Row, WrittenBack
<1> QED BY <1>3, <1>4

LEMMA OutcomesAreOrdinary ==
  ASSUME NEW id, NEW h, IsHart(h), h.halted = "no", NEW o \in Outcomes(id, h)
  PROVE  Ordinary(id, h, o)
<1>1. \/ \E reason \in {"illegal", "bus"} : \E word : o = RecordHalt(id, h, reason, word, <<>>)
      \/ \E i, word : o \in Executed(id, h, i, word)
  BY DEF Outcomes
<1>2. ASSUME NEW reason \in {"illegal", "bus", "ecall", "ebreak"}, NEW word,
             o = RecordHalt(id, h, reason, word, <<>>)
      PROVE  Ordinary(id, h, o)
  <2>1. reason \notin {"no", "budget"}
    OBVIOUS
  <2> QED BY <1>2, <2>1, NoCalls, Halting
<1>3. ASSUME NEW i, NEW word, o \in Executed(id, h, i, word) PROVE Ordinary(id, h, o)
  <2>1. \/ i.op \in {"ecall", "ebreak"} /\ o = RecordHalt(id, h, i.op, word, <<>>)
        \/ o \in Compute(id, h, i, word) \/ o \in Load(id, h, i, word)
        \/ o \in Store(id, h, i, word) \/ o \in Branch(id, h, i, word)
        \/ o \in Jump(id, h, i, word) \/ o = Retire(id, h, Advance(h), word, 0, 0)
    BY <1>3 DEF Executed
  <2>2. CASE i.op \in {"ecall", "ebreak"} /\ o = RecordHalt(id, h, i.op, word, <<>>)
    BY <1>2, <2>2
  <2>3. CASE o \in Compute(id, h, i, word)
    BY <2>3, ComputeIsOrdinary
  <2>4. CASE o \in Load(id, h, i, word)
    BY <2>4, LoadIsOrdinary
  <2>5. CASE o \in Store(id, h, i, word)
    BY <2>5, StoreIsOrdinary
  <2>6. CASE o \in Branch(id, h, i, word)
    BY <2>6, BranchIsOrdinary
  <2>7. CASE o \in Jump(id, h, i, word)
    BY <2>7, JumpIsOrdinary
  <2>8. CASE o = Retire(id, h, Advance(h), word, 0, 0)
    BY <2>8, FenceIsOrdinary
  <2> QED BY <2>1, <2>2, <2>3, <2>4, <2>5, <2>6, <2>7, <2>8
<1> QED BY <1>1, <1>2, <1>3

-----------------------------------------------------------------------------
(* What a step of the machine does to one hart, its rows and its calls.    *)

LEMMA ItemsOfAll ==
  ASSUME NEW ids, NEW S, NEW s \in Seq(S), \A e \in S : e.hart \in ids
  PROVE  ItemsOf(s, ids) = s
<1> DEFINE Good == {t \in Seq(S) : ItemsOf(t, ids) = t}
<1>1. <<>> \in Good
  BY ItemsOfNone
<1>2. ASSUME NEW t \in Seq(S), NEW e \in S, t \in Good PROVE Append(t, e) \in Good
  <2>1. ItemsOf(Append(t, e), ids) = Append(ItemsOf(t, ids), e)
    BY ItemsOfLonger
  <2>2. Append(t, e) \in Seq(S)
    OBVIOUS
  <2> QED BY <1>2, <2>1, <2>2
<1>3. Seq(S) \subseteq Good
  <2> HIDE DEF Good
  <2> QED BY <1>1, <1>2, SequenceInduction
<1> QED BY <1>3

LEMMA CallsOfOne ==
  ASSUME NEW h, NEW g, NEW cs, OfHart(h, cs)
  PROVE  ItemsOf(cs, {g}) = IF g = h THEN cs ELSE <<>>
<1>1. cs \in Seq(Range(cs)) /\ \A c \in Range(cs) : c.hart = h
  BY DEF OfHart, IsSequence
<1>2. CASE g = h
  <2>1. \A c \in Range(cs) : c.hart \in {g}
    BY <1>1, <1>2
  <2> QED BY <1>1, <1>2, <2>1, ItemsOfAll
<1>3. CASE g # h
  <2>1. {c \in Range(cs) : c.hart \in {g}} = {}
    BY <1>1, <1>3
  <2>2. ItemsOf(cs, {g}) \in Seq({c \in Range(cs) : c.hart \in {g}})
    BY <1>1, ItemsOfThose
  <2> QED BY <1>3, <2>1, <2>2
<1> QED BY <1>2, <1>3

LEMMA ItemsOfJoined ==
  ASSUME NEW r, NEW s, NEW ids, IsSequence(r), IsSequence(s)
  PROVE  /\ ItemsOf(r \o s, ids) = ItemsOf(r, ids) \o ItemsOf(s, ids)
         /\ IsSequence(r \o s) /\ IsSequence(ItemsOf(r, ids))
         /\ Range(r \o s) = Range(r) \cup Range(s)
         /\ r \o <<>> = r /\ <<>> \o r = r
<1> DEFINE S == Range(r) \cup Range(s)
<1>1. r \in Seq(S) /\ s \in Seq(S)
  BY DEF IsSequence
<1>2. r \o s \in Seq(S) /\ r \o <<>> = r /\ <<>> \o r = r
  <2> HIDE DEF S
  <2> QED BY <1>1
<1>3. ItemsOf(r, ids) \in Seq({e \in Range(r) : e.hart \in ids})
  BY ItemsOfThose DEF IsSequence
<1>4. IsSequence(r \o s) /\ IsSequence(ItemsOf(r, ids))
  <2> HIDE DEF S
  <2> QED BY <1>2, <1>3, Narrowed
<1>5. Range(r \o s) = Range(r) \cup Range(s)
  <2>1. /\ DOMAIN (r \o s) = 1..Len(r) + Len(s) /\ DOMAIN r = 1..Len(r) /\ DOMAIN s = 1..Len(s)
        /\ Len(r) \in Nat /\ Len(s) \in Nat
        /\ \A k \in 1..Len(r) : (r \o s)[k] = r[k]
        /\ \A k \in 1..Len(s) : (r \o s)[k + Len(r)] = s[k]
    <3> HIDE DEF S
    <3> QED BY <1>1
  <2>2. ASSUME NEW k \in 1..Len(r) + Len(s) PROVE k \in 1..Len(r) \/ k - Len(r) \in 1..Len(s)
    BY <2>1
  <2>3. ASSUME NEW k \in 1..Len(r) PROVE k \in 1..Len(r) + Len(s)
    BY <2>1
  <2>4. ASSUME NEW k \in 1..Len(s) PROVE k + Len(r) \in 1..Len(r) + Len(s)
    BY <2>1
  <2>5. ASSUME NEW k \in 1..Len(r) + Len(s) PROVE (r \o s)[k] \in Range(r) \cup Range(s)
    <3>1. CASE k \in 1..Len(r)
      BY <2>1, <3>1 DEF Range
    <3>2. CASE k - Len(r) \in 1..Len(s)
      <4>1. (r \o s)[k] = s[k - Len(r)]
        BY <2>1, <3>2, (k - Len(r)) + Len(r) = k
      <4> QED BY <2>1, <3>2, <4>1 DEF Range
    <3> QED BY <2>2, <3>1, <3>2
  <2>6. Range(r \o s) \subseteq Range(r) \cup Range(s)
    BY <2>1, <2>5 DEF Range
  <2>7. Range(r) \subseteq Range(r \o s)
    BY <2>1, <2>3 DEF Range
  <2>8. Range(s) \subseteq Range(r \o s)
    BY <2>1, <2>4 DEF Range
  <2> QED BY <2>6, <2>7, <2>8
<1>6. ItemsOf(r \o s, ids) = ItemsOf(r, ids) \o ItemsOf(s, ids)
  <2> HIDE DEF S
  <2> QED BY <1>1, ItemsOfTwo
<1> QED BY <1>2, <1>4, <1>5, <1>6

LEMMA ItemsOfMore ==
  ASSUME NEW s, NEW e, NEW g, IsSequence(s)
  PROVE  /\ ItemsOf(Append(s, e), {g}) =
              IF e.hart = g THEN Append(ItemsOf(s, {g}), e) ELSE ItemsOf(s, {g})
         /\ IsSequence(Append(s, e)) /\ Range(Append(s, e)) = Range(s) \cup {e}
<1> DEFINE S == Range(s) \cup {e}
<1>1. s \in Seq(S) /\ e \in S
  BY DEF IsSequence
<1>2. Append(s, e) \in Seq(S) /\ Range(Append(s, e)) = Range(s) \cup {e}
  <2> HIDE DEF S
  <2> QED BY <1>1, RangeOfLonger
<1>3. ItemsOf(Append(s, e), {g}) =
        IF e.hart \in {g} THEN Append(ItemsOf(s, {g}), e) ELSE ItemsOf(s, {g})
  <2> HIDE DEF S
  <2> QED BY <1>1, ItemsOfLonger, ZenonT(60)
<1>4. IsSequence(Append(s, e))
  BY <1>2 DEF IsSequence
<1> QED BY <1>2, <1>3, <1>4

ShapeOK ==
  /\ harts = [h \in Harts |-> harts[h]]
  /\ \A h \in Harts : IsHart(harts[h])
  /\ IsSequence(trace) /\ IsSequence(calls)
  /\ steps \in Nat /\ max_steps \in Nat

Idle == UNCHANGED machineVars
Ended == BudgetSpent /\ HaltAtBudget
Stepped(h) == /\ h \in Active /\ ~BudgetSpent
             /\ \E o \in Outcomes(h, harts[h]) : Take(h, o)

LEMMA WaysToStep ==
  ASSUME [Next]_vars
  PROVE  /\ max_steps' = max_steps
         /\ Idle \/ Ended \/ \E h \in Harts : Stepped(h)
<1>1. ASSUME NEW h \in Harts, Step(h)
      PROVE  Idle \/ Ended \/ \E g \in Harts : Stepped(g)
  BY <1>1 DEF Step, Idle, Ended, Stepped
<1>2. CASE Next
  <2>1. \A h \in Active : h \in Harts
    BY DEF Active
  <2>2. CASE Finish
    BY <2>2 DEF Finish, Idle
  <2>3. CASE OutOfBudget
    BY <2>3 DEF OutOfBudget, Ended
  <2>4. CASE RoundRobin
    BY <1>1, <2>1, <2>4 DEF RoundRobin, Idle
  <2>5. CASE RandomChoice
    BY <1>1, <2>1, <2>5 DEF RandomChoice
  <2>6. CASE Scripted
    BY <1>1, <2>6 DEF Scripted, Idle
  <2>7. CASE ClientStep
    BY <1>1, <2>7 DEF ClientStep
  <2> QED BY <1>2, <2>2, <2>3, <2>4, <2>5, <2>6, <2>7 DEF Next, RunNext
<1>3. CASE UNCHANGED vars
  BY <1>3 DEF vars, Idle, machineVars
<1> QED BY <1>2, <1>3

(* A hart that still runs when the budget is spent is stopped, and has a   *)
(* last row for it.                                                        *)
EndedHart(x) == IF x.halted = "no" THEN [x EXCEPT !.halted = "budget"] ELSE x
EndedRows(hs, g) == IF hs[g].halted = "no" THEN <<EndRow(hs, g)>> ELSE <<>>

LEMMA EndedIsHart ==
  ASSUME NEW x, IsHart(x)
  PROVE  IsHart(EndedHart(x))
BY DEF EndedHart, IsHart

LEMMA BudgetRowsAreRows ==
  ASSUME NEW hs
  PROVE  IsSequence(BudgetRows(hs))
<1> DEFINE S == {EndRow(hs, h) : h \in {g \in Harts : hs[g].halted = "no"}}
<1>1. BudgetRows(hs) \in Seq(S)
  BY BudgetRowsAre
<1> HIDE DEF S
<1> QED BY <1>1, Narrowed

LEMMA EndingEffects ==
  ASSUME ShapeOK, HaltAtBudget, max_steps' = max_steps
  PROVE  /\ ShapeOK'
         /\ \A g \in Harts : /\ harts'[g] = EndedHart(harts[g])
                             /\ RowsOf(g)' = RowsOf(g) \o EndedRows(harts, g)
                             /\ CallsOf(g)' = CallsOf(g)
<1>1. /\ harts' = Stopped(harts) /\ trace' = trace \o BudgetRows(harts)
      /\ steps' = steps /\ calls' = calls
  BY DEF HaltAtBudget
<1>2. \A g \in Harts : harts'[g] = EndedHart(harts[g]) /\ IsHart(harts'[g])
  BY <1>1 DEF Stopped, EndedHart, ShapeOK, IsHart
<1>3. harts' = [g \in Harts |-> harts'[g]]
  BY <1>1 DEF Stopped
<1>4. IsSequence(trace) /\ IsSequence(BudgetRows(harts))
  BY BudgetRowsAreRows DEF ShapeOK
<1>5. IsSequence(trace')
  BY <1>1, <1>4, ItemsOfJoined
<1>6. ASSUME NEW g \in Harts PROVE RowsOf(g)' = RowsOf(g) \o EndedRows(harts, g)
  <2>1. ItemsOf(trace', {g}) = ItemsOf(trace, {g}) \o ItemsOf(BudgetRows(harts), {g})
    BY <1>1, <1>4, ItemsOfJoined
  <2>2. ItemsOf(BudgetRows(harts), {g}) = EndedRows(harts, g)
    BY BudgetRowsOfOne DEF EndedRows
  <2> QED BY <2>1, <2>2 DEF RowsOf
<1>7. ASSUME NEW g \in Harts PROVE CallsOf(g)' = CallsOf(g)
  BY <1>1 DEF CallsOf
<1>8. ShapeOK'
  BY <1>1, <1>2, <1>3, <1>5 DEF ShapeOK
<1> QED BY <1>2, <1>6, <1>7, <1>8

After(h, o) == [harts EXCEPT ![h] = o.hart]
Spends(o) == o.row.halt = "no" /\ steps + 1 >= max_steps

LEMMA TakingEffects ==
  ASSUME ShapeOK, NEW h \in Harts, harts[h].halted = "no",
         NEW o \in Outcomes(h, harts[h]), Take(h, o), max_steps' = max_steps
  PROVE  /\ ShapeOK'
         /\ \A g \in Harts :
              LET ran == IF g = h THEN o.hart ELSE harts[g]
                  rows == IF g = h THEN Append(RowsOf(g), o.row) ELSE RowsOf(g)
              IN /\ harts'[g] = IF Spends(o) THEN EndedHart(ran) ELSE ran
                 /\ RowsOf(g)' = IF Spends(o) /\ ran.halted = "no"
                                 THEN rows \o <<HaltRow(g, "budget", ran.pc, None)>>
                                 ELSE rows
                 /\ CallsOf(g)' = IF g = h THEN CallsOf(g) \o o.calls ELSE CallsOf(g)
<1> DEFINE after == After(h, o)
           ended == IF Spends(o) THEN BudgetRows(after) ELSE <<>>
<1>1. /\ harts' = IF Spends(o) THEN Stopped(after) ELSE after
      /\ trace' = Append(trace, o.row) \o ended
      /\ steps' \in Nat
      /\ calls' = calls \o o.calls
  BY DEF Take, After, Spends, ShapeOK
<1>2. Ordinary(h, harts[h], o)
  BY OutcomesAreOrdinary DEF ShapeOK
<1>3. \A g \in Harts : after[g] = (IF g = h THEN o.hart ELSE harts[g]) /\ IsHart(after[g])
  BY <1>2 DEF After, ShapeOK, Ordinary
<1>4. after = [g \in Harts |-> after[g]]
  BY DEF After, ShapeOK
<1> HIDE DEF after
<1>5. \A g \in Harts : /\ harts'[g] = IF Spends(o) THEN EndedHart(after[g]) ELSE after[g]
                       /\ IsHart(harts'[g])
  <2>1. ASSUME NEW g \in Harts PROVE IsHart(EndedHart(after[g]))
    BY <1>3, EndedIsHart
  <2>2. \A g \in Harts : Stopped(after)[g] = EndedHart(after[g])
    BY DEF Stopped, EndedHart
  <2> QED BY <1>1, <1>3, <2>1, <2>2
<1>6. harts' = [g \in Harts |-> harts'[g]]
  <2>1. Stopped(after) = [g \in Harts |-> Stopped(after)[g]]
    BY DEF Stopped
  <2>2. CASE Spends(o)
    BY <1>1, <2>1, <2>2
  <2>3. CASE ~Spends(o)
    BY <1>1, <1>4, <2>3
  <2> QED BY <2>2, <2>3
<1>7. IsSequence(trace) /\ IsSequence(calls) /\ IsSequence(o.calls) /\ OfHart(h, o.calls)
  BY <1>2 DEF ShapeOK, Ordinary, OfHart
<1>8. IsSequence(ended)
  <2>1. IsSequence(<<>>)
    BY NoCalls DEF OfHart
  <2> QED BY <2>1, BudgetRowsAreRows
<1> HIDE DEF ended
<1>9. IsSequence(Append(trace, o.row))
  BY <1>7, ItemsOfMore
<1>10. ASSUME NEW g \in Harts
       PROVE  RowsOf(g)' = (IF g = h THEN Append(RowsOf(g), o.row) ELSE RowsOf(g))
                             \o ItemsOf(ended, {g})
  <2>1. ItemsOf(trace', {g}) = ItemsOf(Append(trace, o.row), {g}) \o ItemsOf(ended, {g})
    BY <1>1, <1>8, <1>9, ItemsOfJoined
  <2>2. ItemsOf(Append(trace, o.row), {g}) =
          IF g = h THEN Append(ItemsOf(trace, {g}), o.row) ELSE ItemsOf(trace, {g})
    <3>1. o.row.hart = h
      BY <1>2 DEF Ordinary
    <3>2. ItemsOf(Append(trace, o.row), {g}) =
            IF o.row.hart = g THEN Append(ItemsOf(trace, {g}), o.row) ELSE ItemsOf(trace, {g})
      BY <1>7, ItemsOfMore
    <3> QED BY <3>1, <3>2
  <2> QED BY <2>1, <2>2 DEF RowsOf
<1>11. ASSUME NEW g \in Harts
       PROVE  ItemsOf(ended, {g}) = IF Spends(o) /\ after[g].halted = "no"
                                    THEN <<HaltRow(g, "budget", after[g].pc, None)>> ELSE <<>>
  BY BudgetRowsOfOne, ItemsOfNone DEF ended, EndRow
<1>12. ASSUME NEW g \in Harts
       PROVE  (IF g = h THEN Append(RowsOf(g), o.row) ELSE RowsOf(g)) \o <<>> =
              (IF g = h THEN Append(RowsOf(g), o.row) ELSE RowsOf(g))
  <2>1. IsSequence(RowsOf(g)) /\ RowsOf(g) \o <<>> = RowsOf(g)
    <3>1. IsSequence(RowsOf(g))
      BY <1>7, ItemsOfJoined DEF RowsOf
    <3> QED BY <3>1, ItemsOfJoined
  <2>2. Append(RowsOf(g), o.row) \o <<>> = Append(RowsOf(g), o.row)
    BY <2>1, ItemsOfMore, ItemsOfJoined
  <2> QED BY <2>1, <2>2
<1>13. ASSUME NEW g \in Harts
       PROVE  CallsOf(g)' = IF g = h THEN CallsOf(g) \o o.calls ELSE CallsOf(g)
  <2>1. ItemsOf(calls', {g}) = ItemsOf(calls, {g}) \o ItemsOf(o.calls, {g})
    BY <1>1, <1>7, ItemsOfJoined
  <2>2. ItemsOf(o.calls, {g}) = IF g = h THEN o.calls ELSE <<>>
    BY <1>7, CallsOfOne
  <2>3. ItemsOf(calls, {g}) \o <<>> = ItemsOf(calls, {g})
    <3>1. IsSequence(ItemsOf(calls, {g}))
      BY <1>7, ItemsOfJoined
    <3> QED BY <3>1, ItemsOfJoined
  <2> QED BY <2>1, <2>2, <2>3 DEF CallsOf
<1>14. IsSequence(trace') /\ IsSequence(calls')
  BY <1>1, <1>7, <1>8, <1>9, ItemsOfJoined
<1>15. ShapeOK'
  BY <1>1, <1>5, <1>6, <1>14 DEF ShapeOK
<1>16. ASSUME NEW g \in Harts
       PROVE  RowsOf(g)' = LET ran == IF g = h THEN o.hart ELSE harts[g]
                               rows == IF g = h THEN Append(RowsOf(g), o.row) ELSE RowsOf(g)
                           IN IF Spends(o) /\ ran.halted = "no"
                              THEN rows \o <<HaltRow(g, "budget", ran.pc, None)>> ELSE rows
  BY <1>3, <1>10, <1>11, <1>12
<1> QED BY <1>3, <1>5, <1>13, <1>15, <1>16

-----------------------------------------------------------------------------
(* The machine's harts run as if each were alone.                          *)

(* Rv32Hart has the machine's instructions.                                *)
LEMMA SameInstructions ==
  ASSUME NEW g, NEW id, NEW h
  PROVE  Lone(g)!Outcomes(id, h) = Outcomes(id, h)
BY DEF
     w32, s32, sign_extend, Bit, Bitwise2, And, Or, Xor, Int01, OPS,
     OPIMM, OpResult, OpImmResult, BRANCHES, Taken, None, BYTE, Registers,
     LOADS, STORES, reg_read, reg_write, BytesAt, Row, HaltRow,
     Outcome, RecordHalt, Retire, Fault, Transfer, Call, DispatchDevice,
     Checked, Lane, MemRead, MemWrite, Merged, Advance, Source1, Source2,
     WriteBack, Compute, Load, Lanes, Store, Branch, Jump, Executed,
     Misaligned, OutOfRange, Fetched, Outcomes, SumFunction,
     SumFunctionOnSet, FoldFunctionOnSet, MapThenFoldSet,
     Lone!w32, Lone!s32, Lone!sign_extend, Lone!Bit, Lone!Bitwise2,
     Lone!And, Lone!Or, Lone!Xor, Lone!Int01, Lone!OPS, Lone!OPIMM,
     Lone!OpResult, Lone!OpImmResult, Lone!BRANCHES, Lone!Taken,
     Lone!None, Lone!BYTE, Lone!Registers, Lone!LOADS, Lone!STORES,
     Lone!reg_read, Lone!reg_write, Lone!BytesAt, Lone!Row,
     Lone!HaltRow, Lone!Outcome, Lone!RecordHalt, Lone!Retire, Lone!Fault,
     Lone!Transfer, Lone!Call, Lone!DispatchDevice, Lone!Checked,
     Lone!Lane, Lone!MemRead, Lone!MemWrite, Lone!Merged, Lone!Advance,
     Lone!Source1, Lone!Source2, Lone!WriteBack, Lone!Compute, Lone!Load,
     Lone!Lanes, Lone!Store, Lone!Branch, Lone!Jump, Lone!Executed,
     Lone!Misaligned, Lone!OutOfRange, Lone!Fetched, Lone!Outcomes,
     Lone!SumFunction, Lone!SumFunctionOnSet, Lone!FoldFunctionOnSet, Lone!MapThenFoldSet

LEMMA SameHaltRow ==
  ASSUME NEW g, NEW id, NEW pc
  PROVE  Lone(g)!HaltRow(id, "budget", pc, Lone(g)!None) = HaltRow(id, "budget", pc, None)
BY DEF HaltRow, Lone!HaltRow, Row, Lone!Row, None, Lone!None

LoneStep(g) == [Lone(g)!AloneNext]_<<harts[g], RowsOf(g), CallsOf(g)>>

LEMMA EndsAlone ==
  ASSUME NEW g, harts[g].halted = "no",
         harts'[g] = [harts[g] EXCEPT !.halted = "budget"],
         RowsOf(g)' = Append(RowsOf(g), HaltRow(g, "budget", harts[g].pc, None)),
         CallsOf(g)' = CallsOf(g)
  PROVE  LoneStep(g)
<1>1. Lone(g)!AloneBudget
  BY SameHaltRow DEF Lone!AloneBudget, Lone!Running
<1> QED BY <1>1 DEF LoneStep, Lone!AloneNext

LEMMA RetiresAndEndsAlone ==
  ASSUME NEW g, NEW o, harts[g].halted = "no", o \in Outcomes(g, harts[g]), o.row.halt = "no",
         harts'[g] = [o.hart EXCEPT !.halted = "budget"],
         RowsOf(g)' = RowsOf(g) \o <<o.row, HaltRow(g, "budget", o.hart.pc, None)>>,
         CallsOf(g)' = CallsOf(g) \o o.calls
  PROVE  LoneStep(g)
<1>1. o \in Lone(g)!Outcomes(g, harts[g])
  BY SameInstructions
<1>2. Lone(g)!HaltRow(g, "budget", o.hart.pc, Lone(g)!None) = HaltRow(g, "budget", o.hart.pc, None)
  BY SameHaltRow
<1>3. Lone(g)!AloneBudget
  BY <1>1, <1>2 DEF Lone!AloneBudget, Lone!Running
<1> QED BY <1>3 DEF LoneStep, Lone!AloneNext

LEMMA StepsOfOneHart ==
  ASSUME ShapeOK, [Next]_vars, NEW g \in Harts
  PROVE  LoneStep(g) /\ ShapeOK'
<1>1. max_steps' = max_steps
  BY WaysToStep
<1>2. CASE Idle
  <2>1. UNCHANGED <<harts[g], RowsOf(g), CallsOf(g)>>
    BY <1>2 DEF Idle, machineVars, RowsOf, CallsOf
  <2>2. ShapeOK'
    BY <1>1, <1>2 DEF Idle, machineVars, ShapeOK
  <2> QED BY <2>1, <2>2 DEF LoneStep
<1>3. CASE Ended
  <2>1. /\ ShapeOK' /\ harts'[g] = EndedHart(harts[g])
        /\ RowsOf(g)' = RowsOf(g) \o EndedRows(harts, g)
        /\ CallsOf(g)' = CallsOf(g)
    BY <1>1, <1>3, EndingEffects DEF Ended
  <2>2. IsSequence(RowsOf(g))
    BY ItemsOfJoined DEF ShapeOK, RowsOf
  <2>3. CASE harts[g].halted = "no"
    <3>1. RowsOf(g)' = Append(RowsOf(g), HaltRow(g, "budget", harts[g].pc, None))
      <4> DEFINE e == HaltRow(g, "budget", harts[g].pc, None)
      <4>1. RowsOf(g)' = RowsOf(g) \o <<e>>
        BY <2>1, <2>3 DEF EndedRows, EndRow
      <4>2. RowsOf(g) \o <<e>> = Append(RowsOf(g), e)
        <5> HIDE DEF e
        <5> QED BY <2>2, AppendIsConcat DEF IsSequence
      <4> QED BY <4>1, <4>2
    <3>2. harts'[g] = [harts[g] EXCEPT !.halted = "budget"]
      BY <2>1, <2>3 DEF EndedHart
    <3> QED BY <2>1, <2>3, <3>1, <3>2, EndsAlone
  <2>4. CASE harts[g].halted # "no"
    <3>1. RowsOf(g)' = RowsOf(g)
      BY <2>1, <2>2, <2>4, ItemsOfJoined DEF EndedRows
    <3> QED BY <2>1, <2>4, <3>1 DEF LoneStep, EndedHart
  <2> QED BY <2>3, <2>4
<1>4. ASSUME NEW h \in Harts, Stepped(h)
      PROVE  LoneStep(g) /\ ShapeOK'
  <2>1. harts[h].halted = "no"
    BY <1>4 DEF Stepped, Active
  <2>2. PICK o \in Outcomes(h, harts[h]) : Take(h, o)
    BY <1>4 DEF Stepped
  <2> DEFINE ran == IF g = h THEN o.hart ELSE harts[g]
             rows == IF g = h THEN Append(RowsOf(g), o.row) ELSE RowsOf(g)
  <2>3. /\ ShapeOK'
        /\ harts'[g] = IF Spends(o) THEN EndedHart(ran) ELSE ran
        /\ RowsOf(g)' = IF Spends(o) /\ ran.halted = "no"
                        THEN rows \o <<HaltRow(g, "budget", ran.pc, None)>> ELSE rows
        /\ CallsOf(g)' = IF g = h THEN CallsOf(g) \o o.calls ELSE CallsOf(g)
    BY <1>1, <2>1, <2>2, TakingEffects
  <2>4. IsSequence(RowsOf(g))
    BY ItemsOfJoined DEF ShapeOK, RowsOf
  <2>5. CASE ~(Spends(o) /\ ran.halted = "no")
    <3>1. harts'[g] = ran /\ RowsOf(g)' = rows
      BY <2>3, <2>5 DEF EndedHart
    <3>2. CASE g = h
      <4>1. Lone(g)!AloneStep
        BY <2>1, <2>2, <2>3, <3>1, <3>2, SameInstructions DEF Lone!AloneStep, Lone!Running
      <4> QED BY <2>3, <4>1 DEF LoneStep, Lone!AloneNext
    <3>3. CASE g # h
      BY <2>3, <3>1, <3>3 DEF LoneStep
    <3> QED BY <3>2, <3>3
  <2>6. CASE Spends(o) /\ ran.halted = "no"
    <3> DEFINE e == HaltRow(g, "budget", ran.pc, None)
    <3>1. harts'[g] = [ran EXCEPT !.halted = "budget"] /\ RowsOf(g)' = rows \o <<e>>
      BY <2>3, <2>6 DEF EndedHart
    <3>2. CASE g = h
      <4>1. ran = o.hart /\ rows = Append(RowsOf(g), o.row) /\ o \in Outcomes(g, harts[g])
        BY <3>2
      <4>2. Append(RowsOf(g), o.row) \o <<e>> = RowsOf(g) \o <<o.row, e>>
        <5> HIDE DEF e
        <5> QED BY <2>4, AppendsAreConcat DEF IsSequence
      <4>3. o.row.halt = "no"
        BY <2>6 DEF Spends
      <4>4. LoneStep(g)
        <5>1. harts[g].halted = "no" /\ CallsOf(g)' = CallsOf(g) \o o.calls
          BY <2>1, <2>3, <3>2
        <5>2. /\ harts'[g] = [o.hart EXCEPT !.halted = "budget"]
              /\ RowsOf(g)' = RowsOf(g) \o <<o.row, HaltRow(g, "budget", o.hart.pc, None)>>
          BY <3>1, <4>1, <4>2
        <5> QED BY <4>1, <4>3, <5>1, <5>2, RetiresAndEndsAlone
      <4> QED BY <2>3, <4>4
    <3>3. CASE g # h
      <4>1. ran = harts[g] /\ rows = RowsOf(g) /\ CallsOf(g)' = CallsOf(g)
        BY <2>3, <3>3
      <4>2. RowsOf(g) \o <<e>> = Append(RowsOf(g), e)
        <5> HIDE DEF e
        <5> QED BY <2>4, AppendIsConcat DEF IsSequence
      <4>3. LoneStep(g)
        <5>1. harts[g].halted = "no" /\ harts'[g] = [harts[g] EXCEPT !.halted = "budget"]
          BY <2>6, <3>1, <4>1
        <5>2. RowsOf(g)' = Append(RowsOf(g), HaltRow(g, "budget", harts[g].pc, None))
          <6>1. e = HaltRow(g, "budget", harts[g].pc, None)
            BY <4>1
          <6> HIDE DEF e
          <6> QED BY <3>1, <4>1, <4>2, <6>1
        <5> QED BY <4>1, <5>1, <5>2, EndsAlone
      <4> QED BY <2>3, <4>3
    <3> QED BY <3>2, <3>3
  <2> QED BY <2>5, <2>6
<1> QED BY <1>2, <1>3, <1>4, WaysToStep

(* What is loaded is memory, an image for each hart.                       *)
LEMMA LoadedAtInit ==
  ASSUME Init
  PROVE  /\ \E load \in [Harts -> Images] : harts = [h \in Harts |-> HartWith(load[h])]
         /\ max_steps \in Nat
<1>1. PICK s \in Setups : /\ harts = [h \in Harts |-> HartWith(s.images[h])]
                          /\ max_steps = s.max_steps
  BY DEF Init
<1>2. s.images \in [Harts -> Memories] /\ s.max_steps \in Nat
  BY MachineAssumption
<1>3. s.images \in [Harts -> Images]
  BY <1>2 DEF Images
<1> QED BY <1>1, <1>2, <1>3

(* And every image of every load is memory.                                *)
LEMMA ImagesAreMemories == Images \subseteq Memories
<1> SUFFICES ASSUME NEW s \in Setups, NEW h \in Harts PROVE s.images[h] \in Memories
  BY DEF Images
<1>1. s.images \in [Harts -> Memories]
  BY MachineAssumption
<1> QED BY <1>1

LEMMA StartsAlone ==
  ASSUME Init
  PROVE  ShapeOK /\ \A h \in Harts : Lone(h)!AloneInit
<1>1. PICK load \in [Harts -> Images] : harts = [h \in Harts |-> HartWith(load[h])]
  BY LoadedAtInit
<1>2. \A image : IsHart(HartWith(image))
  BY DEF IsHart, HartWith
<1>3. IsSequence(<<>>)
  BY NoCalls DEF OfHart
<1>4. ShapeOK
  BY <1>1, <1>2, <1>3, LoadedAtInit DEF Init, ShapeOK
<1>5. ASSUME NEW h \in Harts PROVE Lone(h)!AloneInit
  <2>1. load[h] \in Images /\ harts[h] = Lone(h)!HartWith(load[h])
    BY <1>1 DEF HartWith, Lone!HartWith, Registers, Lone!Registers
  <2>2. RowsOf(h) = <<>> /\ CallsOf(h) = <<>>
    BY ItemsOfNone DEF Init, RowsOf, CallsOf
  <2> QED BY <2>1, <2>2 DEF Lone!AloneInit
<1> QED BY <1>4, <1>5

(* tools/tests/test_rv32iss.py:355: "final registers and private memories     *)
(* ignore schedule".  Whatever the schedule, the client or the budget,     *)
(* each hart takes the steps it could take alone: the machine implements   *)
(* one Rv32Hart for each of its harts.                                     *)
THEOREM SchedulesDoNotMatter == Spec => ScheduleIndependent
<1>1. ASSUME ShapeOK, [Next]_vars
      PROVE  \A h \in Harts : [Lone(h)!AloneNext]_<<harts[h], RowsOf(h), CallsOf(h)>>
  <2>1. \A h \in Harts : LoneStep(h)
    BY <1>1, StepsOfOneHart
  <2> QED BY <2>1 DEF LoneStep
<1>2. ASSUME ShapeOK, [Next]_vars PROVE ShapeOK'
  <2>1. 0 \in Harts
    BY MachineAssumption DEF Harts
  <2> QED BY <1>2, <2>1, StepsOfOneHart
<1> QED BY <1>1, <1>2, StartsAlone, PTL DEF Spec, ScheduleIndependent

-----------------------------------------------------------------------------
(* What a hart's rows say of it.                                           *)

(* x, with rows, becomes y, with more: by an instruction, because the      *)
(* budget is spent, or by both.                                            *)
Executes(g, x, y, rows, more, o) ==
  /\ x.halted = "no" /\ o \in Outcomes(g, x) /\ Ordinary(g, x, o)
  /\ y = o.hart /\ IsLonger(more, rows, o.row)
IsStopped(g, x, y, rows, more) ==
  /\ x.halted = "no" /\ y = [x EXCEPT !.halted = "budget"]
  /\ IsLonger(more, rows, HaltRow(g, "budget", x.pc, None))
HartMoves(g, x, y, rows, more) ==
  \/ x = y /\ rows = more
  \/ \E o : Executes(g, x, y, rows, more, o)
  \/ IsStopped(g, x, y, rows, more)
  \/ \E o, z, most : /\ Executes(g, x, z, rows, most, o)
                     /\ IsStopped(g, z, y, most, more)

LEMMA MovesOfOneHart ==
  ASSUME ShapeOK, [Next]_vars, NEW g \in Harts
  PROVE  /\ ShapeOK' /\ IsSequence(RowsOf(g)) /\ IsHart(harts[g])
         /\ HartMoves(g, harts[g], harts'[g], RowsOf(g), RowsOf(g)')
<1>1. LoneStep(g) /\ ShapeOK'
  BY StepsOfOneHart
<1>2. IsSequence(RowsOf(g)) /\ IsHart(harts[g])
  BY ItemsOfJoined DEF ShapeOK, RowsOf
<1>3. CASE UNCHANGED <<harts[g], RowsOf(g), CallsOf(g)>>
  <2>1. harts[g] = harts'[g] /\ RowsOf(g) = RowsOf(g)'
    BY <1>3
  <2> QED BY <1>1, <1>2, <2>1 DEF HartMoves
<1>4. CASE Lone(g)!AloneStep
  <2>1. harts[g].halted = "no"
    BY <1>4 DEF Lone!AloneStep, Lone!Running
  <2>2. PICK o \in Outcomes(g, harts[g]) :
          harts'[g] = o.hart /\ RowsOf(g)' = Append(RowsOf(g), o.row)
    BY <1>4, SameInstructions DEF Lone!AloneStep
  <2>3. Executes(g, harts[g], harts'[g], RowsOf(g), RowsOf(g)', o)
    BY <1>2, <2>1, <2>2, OutcomesAreOrdinary DEF Executes, IsLonger
  <2> QED BY <1>1, <1>2, <2>3 DEF HartMoves
<1>5. CASE Lone(g)!AloneBudget
  <2>1. harts[g].halted = "no"
    BY <1>5 DEF Lone!AloneBudget, Lone!Running
  <2>2. CASE /\ harts'[g] = [harts[g] EXCEPT !.halted = "budget"]
             /\ RowsOf(g)' = Append(RowsOf(g), HaltRow(g, "budget", harts[g].pc, None))
    <3>1. IsStopped(g, harts[g], harts'[g], RowsOf(g), RowsOf(g)')
      BY <2>1, <2>2 DEF IsStopped, IsLonger
    <3> QED BY <1>1, <1>2, <3>1 DEF HartMoves
  <2>3. ASSUME NEW o \in Outcomes(g, harts[g]), o.row.halt = "no",
               harts'[g] = [o.hart EXCEPT !.halted = "budget"],
               RowsOf(g)' = RowsOf(g) \o <<o.row, HaltRow(g, "budget", o.hart.pc, None)>>
        PROVE  HartMoves(g, harts[g], harts'[g], RowsOf(g), RowsOf(g)')
    <3> DEFINE most == Append(RowsOf(g), o.row)
               e == HaltRow(g, "budget", o.hart.pc, None)
    <3>1. Ordinary(g, harts[g], o)
      BY <1>2, <2>1, OutcomesAreOrdinary
    <3>2. Executes(g, harts[g], o.hart, RowsOf(g), most, o)
      BY <2>1, <3>1 DEF Executes, IsLonger
    <3>3. RowsOf(g)' = Append(most, e)
      <4>1. most \o <<e>> = RowsOf(g) \o <<o.row, e>> /\ most \o <<e>> = Append(most, e)
        <5>1. IsSequence(most)
          BY <1>2, ItemsOfMore
        <5>2. most \o <<e>> = Append(most, e)
          <6> HIDE DEF e, most
          <6> QED BY <5>1, AppendIsConcat DEF IsSequence
        <5>3. most \o <<e>> = RowsOf(g) \o <<o.row, e>>
          <6> HIDE DEF e
          <6> QED BY <1>2, AppendsAreConcat DEF IsSequence
        <5> QED BY <5>2, <5>3
      <4> QED BY <2>3, <4>1
    <3>4. IsStopped(g, o.hart, harts'[g], most, RowsOf(g)')
      BY <2>3, <3>1, <3>3 DEF IsStopped, Ordinary, IsLonger
    <3> HIDE DEF most
    <3> QED BY <3>2, <3>4 DEF HartMoves
  <2>4. \/ /\ harts'[g] = [harts[g] EXCEPT !.halted = "budget"]
           /\ RowsOf(g)' = Append(RowsOf(g), HaltRow(g, "budget", harts[g].pc, None))
        \/ \E o \in Outcomes(g, harts[g]) :
             /\ o.row.halt = "no"
             /\ harts'[g] = [o.hart EXCEPT !.halted = "budget"]
             /\ RowsOf(g)' = RowsOf(g) \o <<o.row, HaltRow(g, "budget", o.hart.pc, None)>>
    <3>1. Lone(g)!Outcomes(g, harts[g]) = Outcomes(g, harts[g])
      BY SameInstructions
    <3>2. \A pc : Lone(g)!HaltRow(g, "budget", pc, Lone(g)!None) = HaltRow(g, "budget", pc, None)
      BY SameHaltRow
    <3>3. \/ /\ harts'[g] = [harts[g] EXCEPT !.halted = "budget"]
             /\ RowsOf(g)' =
                  Append(RowsOf(g), Lone(g)!HaltRow(g, "budget", harts[g].pc, Lone(g)!None))
          \/ \E o \in Lone(g)!Outcomes(g, harts[g]) :
               /\ o.row.halt = "no"
               /\ harts'[g] = [o.hart EXCEPT !.halted = "budget"]
               /\ RowsOf(g)' =
                    RowsOf(g) \o <<o.row, Lone(g)!HaltRow(g, "budget", o.hart.pc, Lone(g)!None)>>
      BY <1>5 DEF Lone!AloneBudget
    <3> QED BY <3>1, <3>2, <3>3
  <2> QED BY <1>1, <1>2, <2>2, <2>3, <2>4
<1> QED BY <1>1, <1>3, <1>4, <1>5 DEF LoneStep, Lone!AloneNext

LastIsHalt(x, rows) ==
  /\ \A k \in 1..Len(rows) - 1 : Retired(rows[k])
  /\ x.halted # "no" =>
       rows # <<>> /\ Last(rows).halt = x.halted /\ Last(rows).pc = x.pc
  /\ x.halted = "no" /\ rows # <<>> => Retired(Last(rows))

LEMMA OneMoreRow ==
  ASSUME NEW x, NEW y, NEW rows, NEW r, NEW more, IsLonger(more, rows, r),
         IsSequence(rows), LastIsHalt(x, rows), x.halted = "no",
         r.halt = y.halted, y.halted # "no" => r.pc = y.pc
  PROVE  LastIsHalt(y, more) /\ IsSequence(more)
<1> DEFINE S == Range(rows) \cup {r}
           n == Len(rows)
<1>1. rows \in Seq(S) /\ r \in S
  BY DEF IsSequence
<1>2. /\ n \in Nat /\ more \in Seq(S) /\ Len(more) = n + 1 /\ more[n + 1] = r
      /\ \A k \in 1..n : more[k] = rows[k]
      /\ more # <<>> /\ (n # 0 => rows # <<>>)
  <2> HIDE DEF S
  <2> QED BY <1>1 DEF IsLonger
<1>3. ASSUME NEW k \in 1..n PROVE Retired(rows[k])
  <2>1. rows # <<>>
    BY <1>2
  <2>2. k \in 1..n - 1 \/ rows[k] = Last(rows)
    BY <1>2 DEF Last
  <2> QED BY <2>1, <2>2 DEF LastIsHalt
<1>4. Last(more) = r
  BY <1>2 DEF Last
<1>5. \A k \in 1..Len(more) - 1 : Retired(more[k])
  BY <1>2, <1>3, (n + 1) - 1 = n
<1>6. IsSequence(more)
  BY <1>2, Narrowed
<1> QED BY <1>2, <1>4, <1>5, <1>6 DEF LastIsHalt, Retired

LEMMA MovesKeepHaltLast ==
  ASSUME NEW g, NEW x, NEW y, NEW rows, NEW more, HartMoves(g, x, y, rows, more),
         IsHart(x), IsSequence(rows), LastIsHalt(x, rows)
  PROVE  LastIsHalt(y, more)
<1>1. ASSUME NEW z, NEW most, NEW o, Executes(g, x, z, rows, most, o)
      PROVE  LastIsHalt(z, most) /\ IsSequence(most) /\ IsHart(z)
  <2>1. /\ x.halted = "no" /\ z = o.hart /\ IsLonger(most, rows, o.row) /\ IsHart(z)
        /\ o.row.halt = z.halted /\ o.row.pc = x.pc
        /\ z.halted # "no" => z = [x EXCEPT !.halted = o.row.halt]
    BY <1>1 DEF Executes, Ordinary
  <2>2. z.halted # "no" => o.row.pc = z.pc
    BY <2>1 DEF IsHart
  <2> QED BY <2>1, <2>2, OneMoreRow
<1>2. ASSUME NEW w, NEW z, NEW part, NEW most, IsStopped(g, w, z, part, most),
             IsHart(w), IsSequence(part), LastIsHalt(w, part)
      PROVE  LastIsHalt(z, most)
  <2>1. w.halted = "no" /\ IsLonger(most, part, HaltRow(g, "budget", w.pc, None))
    BY <1>2 DEF IsStopped
  <2>2. z.halted = "budget" /\ z.pc = w.pc
    BY <1>2 DEF IsStopped, IsHart
  <2>3. /\ HaltRow(g, "budget", w.pc, None).halt = "budget"
        /\ HaltRow(g, "budget", w.pc, None).pc = w.pc
    BY DEF HaltRow, Row
  <2> QED BY <1>2, <2>1, <2>2, <2>3, OneMoreRow
<1> QED BY <1>1, <1>2 DEF HartMoves

(* A hart has a halt row exactly when it has halted, and it is its last    *)
(* row: nothing is traced of a hart after it, and the budget, which stops  *)
(* every running hart at once, adds one to no hart that has halted.        *)
THEOREM HaltRowsAreLast == Spec => []HaltRowIsLast
<1> DEFINE Inv == ShapeOK /\ \A g \in Harts : LastIsHalt(harts[g], RowsOf(g))
<1>1. Init => Inv
  <2> SUFFICES ASSUME Init PROVE Inv
    OBVIOUS
  <2>1. ShapeOK
    BY StartsAlone
  <2>2. ASSUME NEW g \in Harts PROVE LastIsHalt(harts[g], RowsOf(g))
    <3>1. RowsOf(g) = <<>> /\ harts[g].halted = "no"
      BY ItemsOfNone DEF Init, RowsOf, HartWith
    <3> QED BY <3>1 DEF LastIsHalt
  <2> QED BY <2>1, <2>2
<1>2. Inv /\ [Next]_vars => Inv'
  <2> SUFFICES ASSUME Inv, [Next]_vars PROVE Inv'
    OBVIOUS
  <2>1. ASSUME NEW g \in Harts PROVE ShapeOK' /\ LastIsHalt(harts'[g], RowsOf(g)')
    BY MovesOfOneHart, MovesKeepHaltLast
  <2>2. 0 \in Harts
    BY MachineAssumption DEF Harts
  <2> QED BY <2>1, <2>2
<1>3. Inv => HaltRowIsLast
  BY DEF HaltRowIsLast, LastIsHalt
<1> QED BY <1>1, <1>2, <1>3, PTL DEF Spec

-----------------------------------------------------------------------------
(* The registers, as the rows tell them.                                   *)

Values(S) == [Registers -> {0} \cup {r.rd_value : r \in S}]
Writes(S) == [p \in Values(S) \X S |-> WrittenBack(p[1], p[2])]
Zeros == [n \in Registers |-> 0]

LEMMA ReplayedIsFold ==
  ASSUME NEW S, NEW s \in Seq(S)
  PROVE  FoldOf(Replayed(s), Values(S), Zeros, Writes(S), s)
<1> DEFINE n == Len(s)
           V == Values(S)
           Takes(g, t) ==
              IF t = {} THEN Zeros
              ELSE IF s[Max(t)].rd \in {None, 0} THEN g[t \ {Max(t)}]
              ELSE [g[t \ {Max(t)}] EXCEPT ![s[Max(t)].rd] = s[Max(t)].rd_value]
           Folds(g) == g = [t \in SUBSET (1..n) |-> Takes(g, t)]
           on == OnItems(Writes(S), V, s)
<1>0. n \in Nat /\ \A k \in 1..n : s[k] \in S
  OBVIOUS
<1>1. Replayed(s) = (CHOOSE g : Folds(g))[1..n]
  <2>1. DOMAIN s = 1..n
    OBVIOUS
  <2> QED BY <2>1 DEF Replayed, Zeros, FoldLeft, MapThenFoldSet
<1>2. IsStep(Writes(S), V, S) /\ Zeros \in V
  <2>1. ASSUME NEW x \in V, NEW r \in S PROVE WrittenBack(x, r) \in V
    BY DEF WrittenBack, Values
  <2> QED BY <2>1 DEF IsStep, Writes, Zeros, Values
<1>3. PICK g : IsFold(g, n, V, Zeros, on)
  <2>1. IsStep(on, V, 1..n)
    BY <1>0, <1>2 DEF IsStep, OnItems
  <2> HIDE DEF n, on, V
  <2> QED BY <1>0, <1>2, <2>1, FoldExists
<1> HIDE DEF V
<1>4. Folds(g)
  <2>1. ASSUME NEW t \in SUBSET (1..n) PROVE g[t] = Takes(g, t)
    <3>1. CASE t = {}
      BY <1>3, <3>1 DEF IsFold
    <3>2. CASE t # {}
      <4>1. Max(t) \in 1..n /\ t \ {Max(t)} \in SUBSET (1..n)
        BY <1>0, <3>2, MaxIsLargest
      <4>2. <<g[t \ {Max(t)}], Max(t)>> \in V \X (1..n)
        BY <1>3, <4>1 DEF IsFold
      <4>3. g[t] = on[<<g[t \ {Max(t)}], Max(t)>>]
        BY <1>3, <3>2 DEF IsFold
      <4>4. on[<<g[t \ {Max(t)}], Max(t)>>] = Writes(S)[<<g[t \ {Max(t)}], s[Max(t)]>>]
        BY <4>2 DEF OnItems
      <4>5. g[t] = WrittenBack(g[t \ {Max(t)}], s[Max(t)])
        BY <1>0, <4>1, <4>2, <4>3, <4>4 DEF Writes, V
      <4> QED BY <3>2, <4>5 DEF WrittenBack
    <3> QED BY <3>1, <3>2
  <2> HIDE DEF Takes
  <2> QED BY <1>3, <2>1 DEF IsFold
<1> DEFINE f == CHOOSE h : Folds(h)
<1>5. Folds(f)
  <2> HIDE DEF Folds
  <2> QED BY <1>4
<1> HIDE DEF f
<1>6. f[1..0] = Zeros
  BY <1>5, 1..0 = {}, {} \in SUBSET (1..n)
<1>7. ASSUME NEW k \in 1..n, f[1..k - 1] \in V
      PROVE  f[1..k] = Writes(S)[<<f[1..k - 1], s[k]>>]
  <2>1. /\ Max(1..k) = k /\ (1..k) \ {k} = 1..k - 1
        /\ 1..k \in SUBSET (1..n) /\ 1..k # {}
    BY <1>0, RangesInside
  <2>2. f[1..k] = Takes(f, 1..k)
    <3> HIDE DEF Takes
    <3> QED BY <1>5, <2>1
  <2>3. f[1..k] = WrittenBack(f[1..k - 1], s[k])
    BY <2>1, <2>2 DEF WrittenBack
  <2> QED BY <1>0, <1>7, <2>3 DEF Writes, V
<1>8. FoldOf(f[1..n], V, Zeros, Writes(S), s)
  BY <1>2, <1>6, <1>7, ChosenIsFold
<1> QED BY <1>1, <1>8 DEF f, V

LEMMA ReplayedNone == Replayed(<<>>) = Zeros
<1>1. FoldOf(Replayed(<<>>), Values({}), Zeros, Writes({}), <<>>)
  BY ReplayedIsFold, <<>> \in Seq({})
<1> QED BY <1>1, FoldOfNone

LEMMA ReplayedMore ==
  ASSUME NEW rows, NEW r, NEW more, IsSequence(rows), IsLonger(more, rows, r)
  PROVE  Replayed(more) = WrittenBack(Replayed(rows), r) /\ IsSequence(more)
<1> DEFINE S == Range(rows) \cup {r}
           V == Values(S)
           step == Writes(S)
<1>1. rows \in Seq(S) /\ r \in S
  BY DEF IsSequence
<1>2. more \in Seq(S) /\ IsSequence(more)
  <2> HIDE DEF S
  <2>1. more \in Seq(S)
    BY <1>1 DEF IsLonger
  <2> QED BY <2>1, Narrowed
<1>3. IsStep(step, V, S) /\ Zeros \in V
  <2> HIDE DEF S
  <2>1. ASSUME NEW x \in V, NEW e \in S PROVE WrittenBack(x, e) \in V
    BY DEF WrittenBack, Values
  <2> QED BY <2>1 DEF IsStep, Writes, Zeros, Values
<1>4. FoldOf(Replayed(rows), V, Zeros, step, rows) /\ FoldOf(Replayed(more), V, Zeros, step, more)
  <2> HIDE DEF S
  <2> QED BY <1>1, <1>2, ReplayedIsFold
<1>5. Replayed(rows) \in V /\ Replayed(more) = step[<<Replayed(rows), r>>]
  <2> HIDE DEF S, V, step
  <2> QED BY <1>1, <1>3, <1>4, FoldOfLonger
<1>6. step[<<Replayed(rows), r>>] = WrittenBack(Replayed(rows), r)
  <2> HIDE DEF S
  <2> QED BY <1>1, <1>5 DEF Writes
<1> QED BY <1>2, <1>5, <1>6

LEMMA MovesKeepRegisters ==
  ASSUME NEW g, NEW x, NEW y, NEW rows, NEW more, HartMoves(g, x, y, rows, more),
         IsHart(x), IsSequence(rows), x.x = Replayed(rows)
  PROVE  y.x = Replayed(more)
<1>1. ASSUME NEW z, NEW most, NEW o, Executes(g, x, z, rows, most, o)
      PROVE  z.x = Replayed(most) /\ IsSequence(most) /\ IsHart(z)
  BY <1>1, ReplayedMore DEF Executes, Ordinary
<1>2. ASSUME NEW w, NEW z, NEW part, NEW most, IsStopped(g, w, z, part, most),
             IsHart(w), IsSequence(part), w.x = Replayed(part)
      PROVE  z.x = Replayed(most)
  <2> DEFINE r == HaltRow(g, "budget", w.pc, None)
  <2>1. IsLonger(most, part, r) /\ z.x = w.x
    BY <1>2 DEF IsStopped, IsHart
  <2>2. \A v : WrittenBack(v, r) = v
    BY DEF WrittenBack, HaltRow, Row, None
  <2> HIDE DEF r
  <2> QED BY <1>2, <2>1, <2>2, ReplayedMore
<1> QED BY <1>1, <1>2 DEF HartMoves

(* docs/cpu-contract.md: the trace is what two implementations are         *)
(* compared by.  It is a complete record: the rd columns of a hart's rows, *)
(* replayed from zeroed registers, are its registers, at every moment and  *)
(* for every program, schedule and device.                                 *)
THEOREM RegistersAreTraced == Spec => []RegistersFollowTrace
<1> DEFINE Inv == ShapeOK /\ \A g \in Harts : harts[g].x = Replayed(RowsOf(g))
<1>1. Init => Inv
  <2> SUFFICES ASSUME Init PROVE Inv
    OBVIOUS
  <2>1. ShapeOK
    BY StartsAlone
  <2>2. ASSUME NEW g \in Harts PROVE harts[g].x = Replayed(RowsOf(g))
    <3>1. RowsOf(g) = <<>> /\ harts[g].x = Zeros
      BY ItemsOfNone DEF Init, RowsOf, HartWith, Zeros
    <3> QED BY <3>1, ReplayedNone
  <2> QED BY <2>1, <2>2
<1>2. Inv /\ [Next]_vars => Inv'
  <2> SUFFICES ASSUME Inv, [Next]_vars PROVE Inv'
    OBVIOUS
  <2>1. ASSUME NEW g \in Harts PROVE ShapeOK' /\ harts'[g].x = Replayed(RowsOf(g)')
    BY MovesOfOneHart, MovesKeepRegisters
  <2>2. 0 \in Harts
    BY MachineAssumption DEF Harts
  <2>3. \A g \in Harts : Replayed(RowsOf(g)') = Replayed(RowsOf(g))'
    OBVIOUS
  <2> QED BY <2>1, <2>2
<1>3. Inv => RegistersFollowTrace
  BY DEF RegistersFollowTrace
<1> QED BY <1>1, <1>2, <1>3, PTL DEF Spec

-----------------------------------------------------------------------------
(* The budget.                                                             *)

RetiredRows(t) == {k \in DOMAIN t : Retired(t[k])}

LEMMA EndingRetiresNone ==
  ASSUME NEW t, NEW b, IsSequence(t), IsSequence(b), \A r \in Range(b) : ~Retired(r)
  PROVE  RetiredRows(t \o b) = RetiredRows(t)
<1> DEFINE S == Range(t) \cup Range(b)
<1>1. t \in Seq(S) /\ b \in Seq(S)
  BY DEF IsSequence
<1>2. /\ DOMAIN (t \o b) = 1..Len(t) + Len(b) /\ DOMAIN t = 1..Len(t) /\ DOMAIN b = 1..Len(b)
      /\ Len(t) \in Nat /\ Len(b) \in Nat
      /\ \A k \in 1..Len(t) : (t \o b)[k] = t[k]
      /\ \A k \in 1..Len(b) : (t \o b)[k + Len(t)] = b[k]
  <2> HIDE DEF S
  <2> QED BY <1>1
<1>3. ASSUME NEW k \in 1..Len(t) + Len(b), k \notin 1..Len(t) PROVE ~Retired((t \o b)[k])
  <2>1. k - Len(t) \in 1..Len(b) /\ (k - Len(t)) + Len(t) = k
    BY <1>2, <1>3
  <2>2. (t \o b)[k] = b[k - Len(t)]
    BY <1>2, <2>1
  <2> QED BY <1>2, <2>1, <2>2 DEF Range
<1>4. \A k \in 1..Len(t) : k \in 1..Len(t) + Len(b)
  BY <1>2
<1> QED BY <1>2, <1>3, <1>4 DEF RetiredRows

LEMMA RowRetires ==
  ASSUME NEW t, NEW r, IsSequence(t)
  PROVE  /\ Cardinality(RetiredRows(t)) \in Nat
         /\ Cardinality(RetiredRows(Append(t, r))) =
              IF Retired(r) THEN Cardinality(RetiredRows(t)) + 1
                            ELSE Cardinality(RetiredRows(t))
<1> DEFINE S == Range(t) \cup {r}
           n == Len(t)
           more == Append(t, r)
           A == RetiredRows(t)
<1>1. t \in Seq(S) /\ r \in S
  BY DEF IsSequence
<1>2. /\ n \in Nat /\ DOMAIN t = 1..n /\ DOMAIN more = 1..n + 1 /\ more[n + 1] = r
      /\ \A k \in 1..n : more[k] = t[k]
  <2> HIDE DEF S
  <2> QED BY <1>1
<1>3. IsFiniteSet(A) /\ n + 1 \notin A
  <2>1. A \in SUBSET (1..n) /\ IsFiniteSet(1..n)
    BY <1>2, FS_Interval DEF RetiredRows
  <2>2. n + 1 \notin 1..n
    BY <1>2
  <2> HIDE DEF A
  <2> QED BY <2>1, <2>2, FS_Subset
<1>4. RetiredRows(more) = IF Retired(r) THEN A \cup {n + 1} ELSE A
  <2> HIDE DEF more
  <2>1. 1..n + 1 = (1..n) \cup {n + 1}
    BY <1>2
  <2> QED BY <1>2, <2>1 DEF RetiredRows
<1>5. Cardinality(A \cup {n + 1}) = Cardinality(A) + 1 /\ Cardinality(A) \in Nat
  <2> HIDE DEF A, n
  <2> QED BY <1>3, FS_AddElement, FS_CardinalityType
<1> QED BY <1>4, <1>5

BudgetOK ==
  /\ steps = Cardinality(RetiredRows(trace))
  /\ steps <= max_steps
  /\ BudgetSpent /\ trace # <<>> => Active = {}
  /\ \A r \in Range(trace) : r.halt = "budget" => BudgetSpent

LEMMA EveryoneStops ==
  ASSUME NEW hs, hs = [h \in Harts |-> hs[h]], \A h \in Harts : IsHart(hs[h])
  PROVE  \A h \in Harts : Stopped(hs)[h].halted # "no"
BY DEF Stopped, IsHart

LEMMA BudgetRowsSayBudget ==
  ASSUME NEW hs
  PROVE  IsSequence(BudgetRows(hs)) /\ \A r \in Range(BudgetRows(hs)) : r.halt = "budget"
<1> DEFINE S == {EndRow(hs, h) : h \in {g \in Harts : hs[g].halted = "no"}}
<1>1. BudgetRows(hs) \in Seq(S)
  BY BudgetRowsAre
<1>2. \A h : EndRow(hs, h).halt = "budget"
  BY DEF EndRow, HaltRow, Row
<1>3. \A r \in S : r.halt = "budget"
  BY <1>2
<1> HIDE DEF S
<1> QED BY <1>1, <1>3, Narrowed

LEMMA StepsKeepTheBudget ==
  ASSUME ShapeOK, BudgetOK, [Next]_vars
  PROVE  BudgetOK'
<1>1. max_steps' = max_steps
  BY WaysToStep
<1>2. CASE Idle
  BY <1>1, <1>2 DEF Idle, machineVars, BudgetOK, BudgetSpent, Active
<1>3. CASE Ended
  <2>1. /\ harts' = Stopped(harts) /\ trace' = trace \o BudgetRows(harts)
        /\ steps' = steps /\ BudgetSpent
    BY <1>3 DEF Ended, HaltAtBudget
  <2>2. BudgetSpent'
    BY <1>1, <2>1 DEF BudgetSpent
  <2>3. \A r \in Range(BudgetRows(harts)) : ~Retired(r)
    BY BudgetRowsSayBudget DEF Retired
  <2>4. RetiredRows(trace') = RetiredRows(trace)
    BY <2>1, <2>3, BudgetRowsSayBudget, EndingRetiresNone DEF ShapeOK
  <2>5. Active' = {}
    BY <2>1, EveryoneStops DEF ShapeOK, Active
  <2> QED BY <1>1, <2>1, <2>2, <2>4, <2>5 DEF BudgetOK
<1>4. ASSUME NEW h \in Harts, Stepped(h) PROVE BudgetOK'
  <2>1. PICK o \in Outcomes(h, harts[h]) : Take(h, o)
    BY <1>4 DEF Stepped
  <2>2. harts[h].halted = "no" /\ steps < max_steps /\ steps \in Nat /\ max_steps \in Nat
    BY <1>4 DEF Stepped, Active, BudgetSpent, ShapeOK
  <2> DEFINE after == After(h, o)
             ended == IF Spends(o) THEN BudgetRows(after) ELSE <<>>
             rows == Append(trace, o.row)
  <2>3. /\ harts' = IF Spends(o) THEN Stopped(after) ELSE after
        /\ trace' = rows \o ended
        /\ steps' = IF Retired(o.row) THEN steps + 1 ELSE steps
    BY <2>1 DEF Take, After, Spends, Retired
  <2>4. Ordinary(h, harts[h], o)
    BY <2>2, OutcomesAreOrdinary DEF ShapeOK
  <2>5. IsSequence(trace) /\ IsSequence(rows) /\ Range(rows) = Range(trace) \cup {o.row}
    BY ItemsOfMore DEF ShapeOK
  <2>6. IsSequence(ended) /\ \A r \in Range(ended) : r.halt = "budget" /\ Spends(o)
    <3>1. CASE Spends(o)
      BY <3>1, BudgetRowsSayBudget
    <3>2. CASE ~Spends(o)
      <4>1. ended = <<>> /\ IsSequence(<<>>) /\ Range(<<>>) = {}
        BY <3>2 DEF IsSequence, Range
      <4> QED BY <4>1
    <3> QED BY <3>1, <3>2
  <2> HIDE DEF ended
  <2>7. steps' = Cardinality(RetiredRows(trace'))
    <3>1. RetiredRows(trace') = RetiredRows(rows)
      <4>1. \A r \in Range(ended) : ~Retired(r)
        BY <2>6 DEF Retired
      <4> HIDE DEF rows
      <4> QED BY <2>3, <2>5, <2>6, <4>1, EndingRetiresNone
    <3> QED BY <2>3, <2>5, <3>1, RowRetires DEF BudgetOK
  <2>8. steps' <= max_steps'
    BY <1>1, <2>2, <2>3
  <2>9. BudgetSpent' => Spends(o)
    BY <1>1, <2>2, <2>3 DEF BudgetSpent, Spends, Retired
  <2>10. Spends(o) => BudgetSpent' /\ Active' = {}
    <3> SUFFICES ASSUME Spends(o) PROVE BudgetSpent' /\ Active' = {}
      OBVIOUS
    <3>1. BudgetSpent'
      BY <1>1, <2>3 DEF BudgetSpent, Spends, Retired
    <3>2. after = [g \in Harts |-> after[g]] /\ \A g \in Harts : IsHart(after[g])
      BY <2>4 DEF After, ShapeOK, Ordinary
    <3>3. \A g \in Harts : Stopped(after)[g].halted # "no"
      <4> HIDE DEF after
      <4> QED BY <3>2, EveryoneStops
    <3> HIDE DEF after
    <3> QED BY <2>3, <3>1, <3>3 DEF Active
  <2>11. \A r \in Range(trace') : r.halt = "budget" => BudgetSpent'
    <3>1. Range(trace') = Range(trace) \cup {o.row} \cup Range(ended)
      <4>1. Range(trace') = Range(rows) \cup Range(ended)
        <5> HIDE DEF rows
        <5> QED BY <2>3, <2>5, <2>6, ItemsOfJoined
      <4> QED BY <2>5, <4>1
    <3>2. \A r \in Range(trace) : r.halt # "budget"
      BY <2>2 DEF BudgetOK, BudgetSpent
    <3> QED BY <2>4, <2>6, <2>10, <3>1, <3>2 DEF Ordinary
  <2> QED BY <2>7, <2>8, <2>9, <2>10, <2>11 DEF BudgetOK
<1> QED BY <1>2, <1>3, <1>4, WaysToStep

(* tools/rv32iss.py, Machine.step and _halt_at_budget: max_steps is a      *)
(* budget of all harts together, and it is exact.  steps counts the        *)
(* retirement rows and never passes it; the retirement that reaches it     *)
(* leaves no hart running, and none is stopped for it earlier.             *)
THEOREM TheBudgetIsExact == Spec => []BudgetIsExact
<1>1. Init => ShapeOK /\ BudgetOK
  <2> SUFFICES ASSUME Init PROVE ShapeOK /\ BudgetOK
    OBVIOUS
  <2>1. /\ steps = 0 /\ trace = <<>> /\ max_steps \in Nat
    BY LoadedAtInit DEF Init
  <2>2. RetiredRows(trace) = {} /\ Range(trace) = {}
    BY <2>1 DEF RetiredRows, Range
  <2>3. Cardinality({}) = 0
    BY FS_EmptySet
  <2>4. steps = Cardinality(RetiredRows(trace)) /\ steps <= max_steps
    BY <2>1, <2>2, <2>3
  <2> QED BY <2>1, <2>2, <2>4, StartsAlone DEF BudgetOK
<1>2. ASSUME ShapeOK, BudgetOK, [Next]_vars PROVE ShapeOK' /\ BudgetOK'
  <2>1. 0 \in Harts
    BY MachineAssumption DEF Harts
  <2> QED BY <1>2, <2>1, StepsOfOneHart, StepsKeepTheBudget
<1>3. BudgetOK => BudgetIsExact
  BY DEF BudgetOK, BudgetIsExact, RetiredRows
<1> QED BY <1>1, <1>2, <1>3, PTL DEF Spec

-----------------------------------------------------------------------------
(***************************************************************************)
(* What the instructions of tools/rv32iss.py compute is in range, and what *)
(* the trace says of memory, of the flow of control and of the devices:    *)
(* for every memory, program, device, schedule and budget, at words of 4,  *)
(* 8, 16 or 32 bits.                                                       *)
(*                                                                         *)
(* First the arithmetic: powers of two, bytes and their lanes, each family *)
(* of the ALU.  Then one lemma per instruction family: its outcomes are    *)
(* typed, and its row tells the memory and the pc after it.  Then the      *)
(* folds of the trace, and what an instruction asks of a device.           *)
(***************************************************************************)


(* The powers of two a word, a byte or a shift may need.                   *)
LEMMA PowersOfTwo ==
  ASSUME NEW n \in 0..31
  PROVE  2^n \in Nat /\ 2^n >= 1
<1>1. /\ 2^0 = 1 /\ 2^1 = 2 /\ 2^2 = 4 /\ 2^3 = 8 /\ 2^4 = 16 /\ 2^5 = 32 /\ 2^6 = 64
      /\ 2^7 = 128 /\ 2^8 = 256 /\ 2^9 = 512 /\ 2^10 = 1024 /\ 2^11 = 2048
      /\ 2^12 = 4096 /\ 2^13 = 8192 /\ 2^14 = 16384 /\ 2^15 = 32768 /\ 2^16 = 65536
      /\ 2^17 = 131072 /\ 2^18 = 262144 /\ 2^19 = 524288 /\ 2^20 = 1048576
      /\ 2^21 = 2097152 /\ 2^22 = 4194304 /\ 2^23 = 8388608 /\ 2^24 = 16777216
      /\ 2^25 = 33554432 /\ 2^26 = 67108864 /\ 2^27 = 134217728 /\ 2^28 = 268435456
      /\ 2^29 = 536870912 /\ 2^30 = 1073741824 /\ 2^31 = 2147483648
  BY SMT
<1> DEFINE Good(m) == 2^m \in Nat /\ 2^m >= 1
<1>2. /\ Good(0) /\ Good(1) /\ Good(2) /\ Good(3) /\ Good(4) /\ Good(5) /\ Good(6) /\ Good(7)
      /\ Good(8) /\ Good(9) /\ Good(10) /\ Good(11) /\ Good(12) /\ Good(13) /\ Good(14)
      /\ Good(15) /\ Good(16) /\ Good(17) /\ Good(18) /\ Good(19) /\ Good(20) /\ Good(21)
      /\ Good(22) /\ Good(23) /\ Good(24) /\ Good(25) /\ Good(26) /\ Good(27) /\ Good(28)
      /\ Good(29) /\ Good(30) /\ Good(31)
  BY SMT
<1> HIDE DEF Good
<1>3. n \in {0, 1, 2, 3, 4, 5, 6, 7, 8, 9, 10, 11, 12, 13, 14, 15, 16, 17, 18, 19, 20, 21,
             22, 23, 24, 25, 26, 27, 28, 29, 30, 31}
  BY SMT
<1>4. Good(n)
  BY <1>2, <1>3
<1> QED BY <1>4 DEF Good

Sized(xlen, b) == XLEN = xlen /\ BYTE = b /\ 2^XLEN = b^4

LEMMA Sizes ==
  Sized(4, 2) \/ Sized(8, 4) \/ Sized(16, 16) \/ Sized(32, 256)
<1>1. PICK k \in 2..5 : XLEN = 2^k
  BY XlenAssumption
<1>2. k = 2 \/ k = 3 \/ k = 4 \/ k = 5
  BY SMT
<1>3. /\ 4 \div 4 = 1 /\ 8 \div 4 = 2 /\ 16 \div 4 = 4 /\ 32 \div 4 = 8
  BY SMT
<1>4. /\ 2^1 = 2 /\ 2^2 = 4 /\ 2^3 = 8 /\ 2^4 = 16 /\ 2^5 = 32 /\ 2^8 = 256
  BY SMT
<1>5. /\ 2^4 = 2^4 /\ 2^8 = 4^4 /\ 2^16 = 16^4 /\ 2^32 = 256^4
  BY SMT
<1>6. CASE k = 2
  <2>1. XLEN = 4 /\ XLEN \div 4 = 1
    BY <1>1, <1>3, <1>4, <1>6, Zenon
  <2>2. BYTE = 2
    BY <2>1, <1>4, Zenon DEF BYTE
  <2> QED BY <2>1, <2>2, Zenon DEF Sized
<1>7. CASE k = 3
  <2>1. XLEN = 8 /\ XLEN \div 4 = 2
    BY <1>1, <1>3, <1>4, <1>7, Zenon
  <2>2. BYTE = 4
    BY <2>1, <1>4, Zenon DEF BYTE
  <2> QED BY <1>5, <2>1, <2>2, Zenon DEF Sized
<1>8. CASE k = 4
  <2>1. XLEN = 16 /\ XLEN \div 4 = 4
    BY <1>1, <1>3, <1>4, <1>8, Zenon
  <2>2. BYTE = 16
    BY <2>1, <1>4, Zenon DEF BYTE
  <2> QED BY <1>5, <2>1, <2>2, Zenon DEF Sized
<1>9. CASE k = 5
  <2>1. XLEN = 32 /\ XLEN \div 4 = 8
    BY <1>1, <1>3, <1>4, <1>9, Zenon
  <2>2. BYTE = 256
    BY <2>1, <1>4, Zenon DEF BYTE
  <2> QED BY <1>5, <2>1, <2>2, Zenon DEF Sized
<1> QED BY <1>2, <1>6, <1>7, <1>8, <1>9

(* The byte j of the low s bytes of v, put p bytes up in a word of four    *)
(* bytes of base b, is the byte t = p + j there.                           *)
ByteKept(v, b, s, p, j, t) ==
  ((((v % b^s) * b^p) % b^4) \div b^t) % b = (v \div b^j) % b
LanesKept(v, b) ==
  /\ ByteKept(v, b, 1, 0, 0, 0) /\ ByteKept(v, b, 1, 1, 0, 1)
  /\ ByteKept(v, b, 1, 2, 0, 2) /\ ByteKept(v, b, 1, 3, 0, 3)
  /\ ByteKept(v, b, 2, 0, 0, 0) /\ ByteKept(v, b, 2, 0, 1, 1)
  /\ ByteKept(v, b, 2, 2, 0, 2) /\ ByteKept(v, b, 2, 2, 1, 3)
  /\ ByteKept(v, b, 4, 0, 0, 0) /\ ByteKept(v, b, 4, 0, 1, 1)
  /\ ByteKept(v, b, 4, 0, 2, 2) /\ ByteKept(v, b, 4, 0, 3, 3)

LEMMA LanesKeepBytes ==
  ASSUME NEW v, v \in Nat
  PROVE  LanesKept(v, 2) /\ LanesKept(v, 4) /\ LanesKept(v, 16) /\ LanesKept(v, 256)
<1>1. LanesKept(v, 2)
  BY SMT DEF LanesKept, ByteKept
<1>2. LanesKept(v, 4)
  BY SMT DEF LanesKept, ByteKept
<1>3. LanesKept(v, 16)
  BY SMT DEF LanesKept, ByteKept
<1>4. LanesKept(v, 256)
  <2>1. /\ ByteKept(v, 256, 1, 0, 0, 0) /\ ByteKept(v, 256, 1, 1, 0, 1)
        /\ ByteKept(v, 256, 1, 2, 0, 2) /\ ByteKept(v, 256, 1, 3, 0, 3)
    BY SMT DEF ByteKept
  <2>2. /\ ByteKept(v, 256, 2, 0, 0, 0) /\ ByteKept(v, 256, 2, 0, 1, 1)
        /\ ByteKept(v, 256, 2, 2, 0, 2) /\ ByteKept(v, 256, 2, 2, 1, 3)
    BY SMT DEF ByteKept
  <2>3. ByteKept(v, 256, 4, 0, 0, 0)
    BY SMT DEF ByteKept
  <2>4. ByteKept(v, 256, 4, 0, 1, 1)
    BY SMT DEF ByteKept
  <2>5. ByteKept(v, 256, 4, 0, 2, 2)
    BY SMT DEF ByteKept
  <2>6. ByteKept(v, 256, 4, 0, 3, 3)
    BY SMT DEF ByteKept
  <2> QED BY <2>1, <2>2, <2>3, <2>4, <2>5, <2>6, SMT DEF LanesKept
<1> QED BY <1>1, <1>2, <1>3, <1>4, Zenon

LEMMA AnyLane ==
  ASSUME NEW v, NEW b, NEW s, NEW p, NEW j, NEW t, LanesKept(v, b),
         s \in {1, 2, 4}, p \in 0..3, p % s = 0, j \in 0..s - 1, t = p + j
  PROVE  ByteKept(v, b, s, p, j, t)
<1>1. \/ s = 1 /\ j = 0 /\ t = p /\ p \in {0, 1, 2, 3}
      \/ s = 2 /\ p = 0 /\ t = j /\ j \in {0, 1}
      \/ s = 2 /\ p = 2 /\ j = 0 /\ t = 2
      \/ s = 2 /\ p = 2 /\ j = 1 /\ t = 3
      \/ s = 4 /\ p = 0 /\ t = j /\ j \in {0, 1, 2, 3}
  BY SMT
<1> QED BY <1>1, ZenonT(60) DEF LanesKept

LEMMA WordSizes ==
  /\ XLEN \in {4, 8, 16, 32} /\ BYTE \in {2, 4, 16, 256}
  /\ 2^XLEN \in Nat /\ 2^XLEN >= 16 /\ 2^XLEN = BYTE^4
  /\ BYTE^0 = 1 /\ BYTE^1 = BYTE /\ BYTE^2 \in Nat /\ BYTE^2 >= 1 /\ BYTE^3 \in Nat /\ BYTE^3 >= 1
<1>1. ASSUME NEW xlen, NEW b, Sized(xlen, b)
      PROVE  /\ XLEN = xlen /\ BYTE = b /\ 2^XLEN = b^4 /\ BYTE^4 = b^4
             /\ BYTE^0 = b^0 /\ BYTE^1 = b^1 /\ BYTE^2 = b^2 /\ BYTE^3 = b^3
  BY <1>1, Zenon DEF Sized
<1>2. CASE Sized(4, 2)
  <2>1. /\ XLEN = 4 /\ BYTE = 2 /\ 2^XLEN = 2^4 /\ BYTE^4 = 2^4
        /\ BYTE^0 = 2^0 /\ BYTE^1 = 2^1 /\ BYTE^2 = 2^2 /\ BYTE^3 = 2^3
    BY <1>1, <1>2, Zenon
  <2> QED BY <2>1, SMT
<1>3. CASE Sized(8, 4)
  <2>1. /\ XLEN = 8 /\ BYTE = 4 /\ 2^XLEN = 4^4 /\ BYTE^4 = 4^4
        /\ BYTE^0 = 4^0 /\ BYTE^1 = 4^1 /\ BYTE^2 = 4^2 /\ BYTE^3 = 4^3
    BY <1>1, <1>3, Zenon
  <2> QED BY <2>1, SMT
<1>4. CASE Sized(16, 16)
  <2>1. /\ XLEN = 16 /\ BYTE = 16 /\ 2^XLEN = 16^4 /\ BYTE^4 = 16^4
        /\ BYTE^0 = 16^0 /\ BYTE^1 = 16^1 /\ BYTE^2 = 16^2 /\ BYTE^3 = 16^3
    BY <1>1, <1>4, Zenon
  <2> QED BY <2>1, SMT
<1>5. CASE Sized(32, 256)
  <2>1. /\ XLEN = 32 /\ BYTE = 256 /\ 2^XLEN = 256^4 /\ BYTE^4 = 256^4
        /\ BYTE^0 = 256^0 /\ BYTE^1 = 256^1 /\ BYTE^2 = 256^2 /\ BYTE^3 = 256^3
    BY <1>1, <1>5, Zenon
  <2> QED BY <2>1, SMT
<1> QED BY Sizes, <1>2, <1>3, <1>4, <1>5

(* What is cut to a word is one.                                           *)
LEMMA CutToWord ==
  ASSUME NEW v \in Int
  PROVE  w32(v) \in Word
<1> DEFINE w == 2^XLEN
<1>1. w \in Nat /\ w >= 1
  BY WordSizes
<1>2. v % w \in 0..w - 1
  <2> HIDE DEF w
  <2> QED BY <1>1
<1> QED BY <1>2 DEF w32, Word

LEMMA PowerOfWord ==
  ASSUME NEW n \in 0..XLEN - 1
  PROVE  2^n \in Nat /\ 2^n >= 1
<1>1. n \in 0..31
  BY WordSizes
<1> QED BY <1>1, PowersOfTwo

LEMMA Shifts ==
  ASSUME NEW v \in Int, NEW n \in 0..XLEN - 1
  PROVE  v * 2^n \in Int /\ v \div 2^n \in Int
<1> DEFINE p == 2^n
<1>1. p \in Nat /\ p >= 1
  BY PowerOfWord
<1>2. v * p \in Int /\ v \div p \in Int
  <2> HIDE DEF p
  <2> QED BY <1>1, SMT
<1> QED BY <1>2

LEMMA SignedWord ==
  ASSUME NEW v \in Int
  PROVE  s32(v) \in Int
<1>1. 2^XLEN \in Int /\ v - 2^XLEN \in Int
  BY WordSizes
<1> QED BY <1>1, Zenon DEF s32

LEMMA Bits ==
  ASSUME NEW v \in Int, NEW n \in 0..XLEN - 1
  PROVE  Bit(v, n) \in 0..1
<1> DEFINE q == v \div 2^n
<1>1. q \in Int
  BY Shifts
<1>2. q % 2 \in 0..1
  <2> HIDE DEF q
  <2> QED BY <1>1
<1> QED BY <1>2 DEF Bit

LEMMA SumOfBits ==
  ASSUME NEW f, f = [i \in 0..XLEN - 1 |-> f[i]], \A i \in 0..XLEN - 1 : f[i] \in Int
  PROVE  SumFunction(f) \in Int
<1>1. IsFiniteSet(0..XLEN - 1)
  <2>1. XLEN = 4 \/ XLEN = 8 \/ XLEN = 16 \/ XLEN = 32
    BY WordSizes, Zenon
  <2>2. XLEN - 1 \in Int
    BY <2>1, SMT
  <2> QED BY <2>2, 0 \in Int, FS_Interval, Zenon
<1> QED BY <1>1, SumIsInteger DEF Summable

LEMMA Bitwise ==
  ASSUME NEW a \in Int, NEW b \in Int
  PROVE  And(a, b) \in Int /\ Or(a, b) \in Int /\ Xor(a, b) \in Int
<1>1. \A i \in 0..XLEN - 1 : /\ Bit(a, i) \in 0..1 /\ Bit(b, i) \in 0..1
                            /\ 2^i \in Int
  BY Bits, PowerOfWord
<1>2. And(a, b) \in Int
  <2> DEFINE f == [i \in 0..XLEN - 1 |-> (Bit(a, i) * Bit(b, i)) * 2^i]
  <2>1. And(a, b) = SumFunction(f)
    BY DEF And, Bitwise2
  <2>2. \A i \in 0..XLEN - 1 : f[i] \in Int
    BY <1>1
  <2>3. f = [i \in 0..XLEN - 1 |-> f[i]]
    OBVIOUS
  <2> HIDE DEF f
  <2> QED BY <2>1, <2>2, <2>3, SumOfBits
<1>3. Or(a, b) \in Int
  <2> DEFINE f == [i \in 0..XLEN - 1 |->
                     (IF Bit(a, i) + Bit(b, i) > 0 THEN 1 ELSE 0) * 2^i]
  <2>1. Or(a, b) = SumFunction(f)
    BY DEF Or, Bitwise2
  <2>2. \A i \in 0..XLEN - 1 : f[i] \in Int
    BY <1>1
  <2>3. f = [i \in 0..XLEN - 1 |-> f[i]]
    OBVIOUS
  <2> HIDE DEF f
  <2> QED BY <2>1, <2>2, <2>3, SumOfBits
<1>4. Xor(a, b) \in Int
  <2> DEFINE f == [i \in 0..XLEN - 1 |-> ((Bit(a, i) + Bit(b, i)) % 2) * 2^i]
  <2>1. Xor(a, b) = SumFunction(f)
    BY DEF Xor, Bitwise2
  <2>2. \A i \in 0..XLEN - 1 : f[i] \in Int
    BY <1>1
  <2>3. f = [i \in 0..XLEN - 1 |-> f[i]]
    OBVIOUS
  <2> HIDE DEF f
  <2> QED BY <2>1, <2>2, <2>3, SumOfBits
<1> QED BY <1>2, <1>3, <1>4

LEMMA ShiftAmount ==
  ASSUME NEW v \in Int
  PROVE  v % XLEN \in 0..XLEN - 1
BY WordSizes

LEMMA Comparison ==
  ASSUME NEW holds \in BOOLEAN
  PROVE  Int01(holds) \in Int
BY DEF Int01

LEMMA ResultOfOp ==
  ASSUME NEW op \in OPS, NEW a \in Int, NEW b \in Int
  PROVE  OpResult(op, a, b) \in Int
<1> DEFINE n == b % XLEN
<1>1. n \in 0..XLEN - 1 /\ s32(a) \in Int /\ s32(b) \in Int
  BY ShiftAmount, SignedWord
<1>2. a * 2^n \in Int /\ a \div 2^n \in Int /\ s32(a) \div 2^n \in Int
  <2> HIDE DEF n
  <2> QED BY <1>1, Shifts
<1>3. /\ a + b \in Int /\ a - b \in Int
      /\ And(a, b) \in Int /\ Or(a, b) \in Int /\ Xor(a, b) \in Int
      /\ Int01(s32(a) < s32(b)) \in Int /\ Int01(a < b) \in Int
  BY Bitwise DEF Int01
<1> QED BY <1>2, <1>3, Zenon DEF OpResult, OPS

LEMMA ResultOfOpImm ==
  ASSUME NEW op \in OPIMM, NEW a \in Int, NEW b \in Int
  PROVE  OpImmResult(op, a, b) \in Int
<1> DEFINE n == b % XLEN
<1>1. /\ n \in 0..XLEN - 1 /\ s32(a) \in Int
      /\ w32(b) \in Int
  BY ShiftAmount, SignedWord, CutToWord DEF Word
<1>2. a * 2^n \in Int /\ a \div 2^n \in Int /\ s32(a) \div 2^n \in Int
  <2> HIDE DEF n
  <2> QED BY <1>1, Shifts
<1>3. /\ a + b \in Int
      /\ And(a, w32(b)) \in Int /\ Or(a, w32(b)) \in Int /\ Xor(a, w32(b)) \in Int
      /\ Int01(s32(a) < b) \in Int /\ Int01(a < w32(b)) \in Int
  BY <1>1, Bitwise DEF Int01
<1> QED BY <1>2, <1>3, Zenon DEF OpImmResult, OPIMM
-----------------------------------------------------------------------------
(* What an instruction makes of a hart whose registers hold words.         *)

Reasons == {"no", "ebreak", "ecall", "illegal", "budget", "bus"}
Typed(h) ==
  /\ IsHart(h)
  /\ h.x \in [Registers -> Word] /\ h.x[0] = 0 /\ h.pc \in Word
  /\ h.halted \in Reasons /\ h.mem \in Memories

(* The row tells what happens to the memory, and where the pc goes.        *)
Told(h, o) ==
  /\ o.hart.mem = StoredByRow(h.mem, o.row)
  /\ o.row.halt = "no" => o.hart.pc = Successor(h.x, o.row)

IsInstruction(i, word) ==
  /\ word \in DOMAIN Decoded /\ i = Decoded[word]
  /\ i.rd \in Registers /\ i.rs1 \in Registers /\ i.rs2 \in Registers /\ i.imm \in Int

LEMMA FirstRegister == 0 \in Registers
BY InstructionsAssumption DEF Registers

LEMMA Sources ==
  ASSUME NEW h, Typed(h), NEW i, NEW word, IsInstruction(i, word)
  PROVE  /\ Source1(h, i) = h.x[i.rs1] /\ Source1(h, i) \in Word
         /\ Source2(h, i) = h.x[i.rs2] /\ Source2(h, i) \in Word
BY DEF Typed, IsInstruction, Source1, Source2, reg_read

LEMMA WordsAreIntegers == Word \subseteq Int /\ Word \subseteq Nat
BY DEF Word

LEMMA Writing ==
  ASSUME NEW h, Typed(h), NEW rd \in Registers, NEW v \in Int, NEW w, w = reg_write(h, rd, v)
  PROVE  Typed(w) /\ w.pc = h.pc /\ w.mem = h.mem /\ w.halted = h.halted
<1>1. CASE rd = 0
  BY <1>1 DEF reg_write
<1>2. CASE rd # 0
  <2>1. w = [h EXCEPT !.x[rd] = w32(v)] /\ w32(v) \in Word
    BY <1>2, CutToWord DEF reg_write
  <2> QED BY <1>2, <2>1, FirstRegister DEF Typed, IsHart
<1> QED BY <1>1, <1>2

LEMMA Going ==
  ASSUME NEW h, Typed(h), NEW v \in Int, NEW w, w = [h EXCEPT !.pc = w32(v)]
  PROVE  /\ Typed(w) /\ w.pc = w32(v) /\ w.mem = h.mem /\ w.x = h.x /\ w.halted = h.halted
<1>1. w32(v) \in Word
  BY CutToWord
<1> QED BY <1>1 DEF Typed, IsHart

LEMMA Advancing ==
  ASSUME NEW h, Typed(h), NEW w, w = Advance(h)
  PROVE  /\ Typed(w) /\ w.pc = w32(h.pc + 4) /\ w.mem = h.mem /\ w.halted = h.halted
<1>1. h.pc + 4 \in Int
  <2>1. h.pc \in Int
    BY WordsAreIntegers DEF Typed
  <2> QED BY <2>1
<1>2. w = [h EXCEPT !.pc = w32(h.pc + 4)]
  BY DEF Advance
<1> QED BY <1>1, <1>2, Going

(* Where an instruction that is no branch and no jump leads.               *)
LEMMA PassesOn ==
  ASSUME NEW x, NEW r, Decoded[r.word].op \notin BRANCHES \cup {"jal", "jalr"}
  PROVE  Successor(x, r) = w32(r.pc + 4)
BY DEF Successor

LEMMA HaltIsTold ==
  ASSUME NEW id, NEW h, Typed(h), NEW word, NEW cs,
         NEW reason \in {"illegal", "bus", "ecall", "ebreak"},
         NEW o, o = RecordHalt(id, h, reason, word, cs)
  PROVE  Typed(o.hart) /\ Told(h, o)
<1>1. o.hart = [h EXCEPT !.halted = reason] /\ o.row.mem_op = "" /\ o.row.halt = reason
  BY DEF RecordHalt, Outcome, HaltRow, Row
<1>2. "" \notin DOMAIN STORES
  BY DEF STORES
<1>3. o.hart.mem = h.mem /\ Typed(o.hart)
  BY <1>1 DEF Typed, IsHart, Reasons
<1> QED BY <1>1, <1>2, <1>3 DEF Told, StoredByRow

LEMMA RetireIsTold ==
  ASSUME NEW id, NEW h, NEW next, Typed(next), next.mem = h.mem, NEW word, NEW rd, NEW value,
         NEW o, o = Retire(id, h, next, word, rd, value),
         next.pc = Successor(h.x, o.row)
  PROVE  Typed(o.hart) /\ Told(h, o)
<1>1. o.hart = next /\ o.row.mem_op = ""
  BY DEF Retire, Outcome, Row
<1>2. "" \notin DOMAIN STORES
  BY DEF STORES
<1> QED BY <1>1, <1>2 DEF Told, StoredByRow

LEMMA ComputeIsTold ==
  ASSUME NEW id, NEW h, Typed(h), NEW i, NEW word, IsInstruction(i, word),
         i.op \in OPS \cup OPIMM \cup {"lui", "auipc"},
         NEW o \in Compute(id, h, i, word)
  PROVE  Typed(o.hart) /\ Told(h, o)
<1> DEFINE result ==
      IF i.op \in OPS THEN OpResult(i.op, Source1(h, i), Source2(h, i))
      ELSE IF i.op \in OPIMM THEN OpImmResult(i.op, Source1(h, i), i.imm)
      ELSE IF i.op = "lui" THEN i.imm * 2^U_SHIFT
      ELSE h.pc + i.imm * 2^U_SHIFT
<1>1. result \in Int
  <2>1. Source1(h, i) \in Int /\ Source2(h, i) \in Int /\ h.pc \in Int /\ i.imm \in Int
    BY Sources, WordsAreIntegers DEF Typed, IsInstruction
  <2>2. i.imm * 2^U_SHIFT \in Int
    BY <2>1, Shifts, InstructionsAssumption
  <2>3. i.op \in OPS => OpResult(i.op, Source1(h, i), Source2(h, i)) \in Int
    BY <2>1, ResultOfOp
  <2>4. i.op \in OPIMM => OpImmResult(i.op, Source1(h, i), i.imm) \in Int
    BY <2>1, ResultOfOpImm
  <2>5. h.pc + i.imm * 2^U_SHIFT \in Int
    BY <2>1, <2>2
  <2> QED BY <2>2, <2>3, <2>4, <2>5
<1> DEFINE w == reg_write(h, i.rd, result)
           next == Advance(w)
<1>2. o = Retire(id, h, next, word, i.rd, reg_read(next, i.rd))
  BY DEF Compute, WriteBack
<1>3. Typed(w) /\ w.pc = h.pc /\ w.mem = h.mem
  <2>1. i.rd \in Registers /\ w = reg_write(h, i.rd, result)
    BY DEF IsInstruction
  <2> HIDE DEF result, w
  <2> QED BY <1>1, <2>1, Writing
<1>4. Typed(next) /\ next.pc = w32(h.pc + 4) /\ next.mem = h.mem
  <2> HIDE DEF w
  <2> QED BY <1>3, Advancing
<1>5. o.row.word = word /\ o.row.pc = h.pc
  BY <1>2 DEF Retire, Outcome, Row
<1>6. Decoded[o.row.word].op \notin BRANCHES \cup {"jal", "jalr"}
  BY <1>5 DEF IsInstruction, OPS, OPIMM, BRANCHES
<1>7. Successor(h.x, o.row) = w32(h.pc + 4)
  BY <1>5, <1>6, PassesOn
<1> HIDE DEF next
<1> QED BY <1>2, <1>4, <1>7, RetireIsTold

LEMMA BytePowers ==
  ASSUME NEW n \in 0..4
  PROVE  BYTE^n \in Nat /\ BYTE^n >= 1
<1>1. n = 0 \/ n = 1 \/ n = 2 \/ n = 3 \/ n = 4
  BY SMT
<1>2. /\ BYTE^0 \in Nat /\ BYTE^0 >= 1 /\ BYTE^1 \in Nat /\ BYTE^1 >= 1
      /\ BYTE^2 \in Nat /\ BYTE^2 >= 1 /\ BYTE^3 \in Nat /\ BYTE^3 >= 1
      /\ BYTE^4 \in Nat /\ BYTE^4 >= 1
  BY WordSizes
<1> QED BY <1>1, <1>2, Zenon

LEMMA DivisionAndRemainder ==
  ASSUME NEW v \in Int, NEW p \in Nat, p >= 1
  PROVE  v \div p \in Int /\ v % p \in 0..p - 1
BY SMT

LEMMA LaneIsInteger ==
  ASSUME NEW v \in Int, NEW addr \in Nat, NEW size \in {1, 2, 4}
  PROVE  Lane(v, addr, size) \in Int
<1> DEFINE p == BYTE^(addr % 4)
           q == BYTE^size
<1>1. p \in Nat /\ p >= 1 /\ q \in Nat /\ q >= 1
  BY BytePowers, addr % 4 \in 0..4, size \in 0..4
<1>2. (v \div p) % q \in Int
  <2> HIDE DEF p, q
  <2>1. v \div p \in Int
    BY <1>1, DivisionAndRemainder
  <2> QED BY <1>1, <2>1, DivisionAndRemainder
<1> QED BY <1>2 DEF Lane

LEMMA BytesAreInteger ==
  ASSUME NEW mem \in Memories, NEW addr \in Nat, NEW size \in {1, 2, 4}, addr + size <= RAM_BYTES
  PROVE  BytesAt(mem, addr, size) \in Int
<1> DEFINE f == [i \in 0..size - 1 |-> mem[addr + i] * BYTE^i]
<1>1. ASSUME NEW i \in 0..size - 1 PROVE f[i] \in Int
  <2>1. addr + i \in 0..RAM_BYTES - 1 /\ i \in 0..4
    BY RegionsAssumption
  <2>2. mem[addr + i] \in Int
    BY <2>1, WordSizes DEF Memories
  <2>3. BYTE^i \in Int
    BY <2>1, BytePowers
  <2> QED BY <2>2, <2>3
<1>2. IsFiniteSet(0..size - 1)
  <2>1. size - 1 \in Int
    OBVIOUS
  <2> QED BY <2>1, 0 \in Int, FS_Interval, Zenon
<1>3. DOMAIN f = 0..size - 1 /\ f = [i \in 0..size - 1 |-> f[i]]
  OBVIOUS
<1>4. BytesAt(mem, addr, size) = SumFunction(f)
  BY DEF BytesAt
<1> HIDE DEF f
<1> QED BY <1>1, <1>2, <1>3, <1>4, SumIsInteger DEF Summable

(* A transfer that is done gives a number.                                 *)
Gives(t) == t.fault \in {"no", "illegal", "bus"} /\ (t.fault = "no" => t.value \in Int)

IsAnswered(D) ==
  \A t \in D :
    \/ t = Fault("bus", None, <<>>)
    \/ \E answer \in DeviceAnswers : \E call :
         t = IF answer = None THEN Fault("bus", None, <<call>>)
                              ELSE Transfer(w32(answer), <<call>>)

LEMMA DevicesAnswer ==
  ASSUME NEW id, NEW addr, NEW value, NEW size
  PROVE  /\ IsAnswered(DispatchDevice(id, addr, FALSE, value, size))
         /\ IsAnswered(DispatchDevice(id, addr, TRUE, value, size))
<1>1. CASE DeviceAnswers = {}
  BY <1>1 DEF DispatchDevice, IsAnswered
<1>2. CASE DeviceAnswers # {}
  BY <1>2 DEF DispatchDevice, IsAnswered
<1> QED BY <1>1, <1>2

LEMMA DeviceGives ==
  ASSUME NEW D, IsAnswered(D), NEW t \in D
  PROVE  /\ Gives(t)
         /\ t = [fault |-> t.fault, word |-> t.word, value |-> t.value, calls |-> t.calls]
<1>1. CASE t = Fault("bus", None, <<>>)
  BY <1>1 DEF Fault, Gives
<1>2. ASSUME NEW answer \in DeviceAnswers, NEW call,
             t = IF answer = None THEN Fault("bus", None, <<call>>)
                                  ELSE Transfer(w32(answer), <<call>>)
      PROVE  /\ Gives(t)
             /\ t = [fault |-> t.fault, word |-> t.word, value |-> t.value, calls |-> t.calls]
  <2>1. w32(answer) \in Int
    BY InstructionsAssumption, CutToWord, WordsAreIntegers
  <2> QED BY <1>2, <2>1 DEF Fault, Transfer, Gives
<1> QED BY <1>1, <1>2 DEF IsAnswered

LEMMA ReadGives ==
  ASSUME NEW id, NEW h, Typed(h), NEW addr \in Nat, NEW size \in {1, 2, 4}, NEW word,
         NEW t \in MemRead(id, h, addr, size, word)
  PROVE  Gives(t)
<1>1. \/ t = Fault("illegal", word, <<>>) \/ t = Fault("bus", word, <<>>)
      \/ addr + size <= RAM_BYTES /\ t = Transfer(BytesAt(h.mem, addr, size), <<>>)
      \/ \E d \in DispatchDevice(id, addr, FALSE, 0, size) :
           t = IF d.fault = "no" THEN [d EXCEPT !.value = Lane(@, addr, size)] ELSE d
  BY DEF MemRead, Checked
<1>2. ASSUME addr + size <= RAM_BYTES, t = Transfer(BytesAt(h.mem, addr, size), <<>>)
      PROVE  Gives(t)
  <2>1. BytesAt(h.mem, addr, size) \in Int
    BY <1>2, BytesAreInteger DEF Typed
  <2> QED BY <1>2, <2>1 DEF Transfer, Gives
<1>3. ASSUME NEW d \in DispatchDevice(id, addr, FALSE, 0, size),
             t = IF d.fault = "no" THEN [d EXCEPT !.value = Lane(@, addr, size)] ELSE d
      PROVE  Gives(t)
  <2>1. /\ Gives(d)
        /\ d = [fault |-> d.fault, word |-> d.word, value |-> d.value, calls |-> d.calls]
    BY DevicesAnswer, DeviceGives, Zenon
  <2>2. CASE d.fault = "no"
    <3>1. Lane(d.value, addr, size) \in Int
      BY <2>1, <2>2, LaneIsInteger DEF Gives
    <3>2. t.fault = "no" /\ t.value = Lane(d.value, addr, size)
      BY <1>3, <2>1, <2>2
    <3> QED BY <3>1, <3>2 DEF Gives
  <2> QED BY <1>3, <2>1, <2>2
<1>4. \A reason \in {"illegal", "bus"} : Gives(Fault(reason, word, <<>>))
  BY DEF Fault, Gives
<1> QED BY <1>1, <1>2, <1>3, <1>4

(* No access that is done was misaligned.                                  *)
LEMMA WriteGives ==
  ASSUME NEW id, NEW addr, NEW size, NEW value, NEW word,
         NEW t \in MemWrite(id, addr, size, value, word)
  PROVE  t.fault \in {"no", "illegal", "bus"} /\ (t.fault = "no" => addr % size = 0)
<1>1. CASE addr % size = 0
  <2>1. \/ t = Fault("bus", word, <<>>) \/ t = Transfer(value, <<>>)
        \/ t \in DispatchDevice(id, addr, TRUE, value, size)
    BY <1>1 DEF MemWrite, Checked
  <2>2. t.fault \in {"no", "illegal", "bus"}
    <3>1. t \in DispatchDevice(id, addr, TRUE, value, size) => t.fault \in {"no", "illegal", "bus"}
      BY DevicesAnswer, DeviceGives, Zenon DEF Gives
    <3>2. Fault("bus", word, <<>>).fault = "bus" /\ Transfer(value, <<>>).fault = "no"
      BY DEF Fault, Transfer
    <3> QED BY <2>1, <3>1, <3>2, Zenon
  <2> QED BY <1>1, <2>2
<1>2. CASE addr % size # 0
  <2>1. t = Fault("illegal", word, <<>>)
    BY <1>2 DEF MemWrite, Checked
  <2> QED BY <2>1 DEF Fault
<1> QED BY <1>1, <1>2

LEMMA ExtendedSign ==
  ASSUME NEW v \in Int, NEW size \in {1, 2}
  PROVE  sign_extend(v, size * (XLEN \div 4)) \in Int
<1> DEFINE bits == size * (XLEN \div 4)
<1>1. bits \in 0..31
  BY WordSizes
<1>2. 2^bits \in Int
  <2> HIDE DEF bits
  <2> QED BY <1>1, PowersOfTwo
<1> QED BY <1>2 DEF sign_extend

LEMMA LoadIsTold ==
  ASSUME NEW id, NEW h, Typed(h), NEW i, NEW word, IsInstruction(i, word),
         i.op \in DOMAIN LOADS, NEW o \in Load(id, h, i, word)
  PROVE  Typed(o.hart) /\ Told(h, o)
<1> DEFINE size == LOADS[i.op]
           addr == w32(Source1(h, i) + i.imm)
           loaded(raw) == IF i.op \in {"lb", "lh"}
                          THEN sign_extend(raw, size * (XLEN \div 4)) ELSE raw
           after(raw) == Advance(reg_write(h, i.rd, loaded(raw)))
<1>1. size \in {1, 2, 4} /\ (i.op \in {"lb", "lh"} => size \in {1, 2})
  BY DEF LOADS
<1>2. addr \in Nat
  <2>1. Source1(h, i) + i.imm \in Int
    <3>1. Source1(h, i) \in Int /\ i.imm \in Int
      BY Sources, WordsAreIntegers DEF IsInstruction
    <3> QED BY <3>1
  <2> QED BY <2>1, CutToWord, WordsAreIntegers
<1>3. PICK t \in MemRead(id, h, addr, size, word) :
        o = IF t.fault # "no" THEN RecordHalt(id, h, t.fault, t.word, t.calls)
            ELSE Outcome(after(t.value),
                         Row(id, h.pc, word, i.rd, reg_read(after(t.value), i.rd),
                             i.op, addr, size, t.value, "no"), t.calls)
  BY DEF Load
<1>4. t.fault \in {"no", "illegal", "bus"} /\ (t.fault = "no" => t.value \in Int)
  <2> HIDE DEF addr, size
  <2> QED BY <1>1, <1>2, ReadGives DEF Gives
<1>5. CASE t.fault # "no"
  <2>1. t.fault \in {"illegal", "bus", "ecall", "ebreak"}
    BY <1>4, <1>5
  <2>2. o = RecordHalt(id, h, t.fault, t.word, t.calls)
    BY <1>3, <1>5
  <2> QED BY <2>1, <2>2, HaltIsTold
<1>6. CASE t.fault = "no"
  <2> DEFINE w == reg_write(h, i.rd, loaded(t.value))
  <2>1. loaded(t.value) \in Int
    BY <1>1, <1>4, <1>6, ExtendedSign
  <2> HIDE DEF loaded
  <2>2. Typed(w) /\ w.pc = h.pc /\ w.mem = h.mem
    <3>1. i.rd \in Registers /\ w = reg_write(h, i.rd, loaded(t.value))
      BY DEF IsInstruction
    <3> HIDE DEF w
    <3> QED BY <2>1, <3>1, Writing
  <2>3. /\ Typed(after(t.value)) /\ after(t.value).pc = w32(h.pc + 4)
        /\ after(t.value).mem = h.mem
    <3> HIDE DEF w
    <3>1. /\ Typed(Advance(w)) /\ Advance(w).pc = w32(h.pc + 4) /\ Advance(w).mem = h.mem
      BY <2>2, Advancing
    <3> QED BY <3>1 DEF w
  <2> HIDE DEF after, size, addr
  <2>4. /\ o.hart = after(t.value) /\ o.row.word = word /\ o.row.pc = h.pc
        /\ o.row.mem_op = i.op
    BY <1>3, <1>6 DEF Outcome, Row
  <2>5. o.row.mem_op \notin DOMAIN STORES
    BY <2>4 DEF STORES, LOADS
  <2>6. Decoded[o.row.word].op \notin BRANCHES \cup {"jal", "jalr"}
    BY <2>4 DEF IsInstruction, LOADS, BRANCHES
  <2>7. Successor(h.x, o.row) = w32(h.pc + 4)
    BY <2>4, <2>6, PassesOn
  <2> QED BY <2>3, <2>4, <2>5, <2>7 DEF Told, StoredByRow
<1> QED BY <1>5, <1>6

(* The lanes of the row, taken one by one, are the bytes that were stored. *)
LEMMA LanesTell ==
  ASSUME NEW v \in Nat, NEW addr \in Nat, NEW size \in {1, 2, 4}, addr % size = 0,
         NEW a \in addr..addr + size - 1
  PROVE  (Lanes(addr, size, v) \div BYTE^(a % 4)) % BYTE = (v \div BYTE^(a - addr)) % BYTE
<1> DEFINE p == addr % 4
           j == a - addr
           t == a % 4
<1>1. LanesKept(v, BYTE)
  <2>1. BYTE = 2 \/ BYTE = 4 \/ BYTE = 16 \/ BYTE = 256
    BY WordSizes
  <2> QED BY <2>1, LanesKeepBytes
<1>2. p \in 0..3 /\ p % size = 0 /\ j \in 0..size - 1 /\ t = p + j
  BY SMT
<1>3. ByteKept(v, BYTE, size, p, j, t)
  <2> HIDE DEF p, j, t
  <2> QED BY <1>1, <1>2, AnyLane
<1>4. Lanes(addr, size, v) = ((v % BYTE^size) * BYTE^p) % BYTE^4
  BY WordSizes, Zenon DEF Lanes, w32
<1> QED BY <1>3, <1>4, Zenon DEF ByteKept

LEMMA StoreIsTold ==
  ASSUME NEW id, NEW h, Typed(h), NEW i, NEW word, IsInstruction(i, word),
         i.op \in DOMAIN STORES, NEW o \in Store(id, h, i, word)
  PROVE  Typed(o.hart) /\ Told(h, o)
<1> DEFINE size == STORES[i.op]
           addr == w32(Source1(h, i) + i.imm)
           value == Source2(h, i)
           stored == IF addr < RAM_BYTES
                     THEN [h EXCEPT !.mem = Merged(@, addr, size, value)] ELSE h
<1>1. size \in {1, 2, 4}
  BY DEF STORES
<1>2. addr \in Nat /\ value \in Nat
  <2>1. Source1(h, i) + i.imm \in Int
    <3>1. Source1(h, i) \in Int /\ i.imm \in Int
      BY Sources, WordsAreIntegers DEF IsInstruction
    <3> QED BY <3>1
  <2> QED BY <2>1, CutToWord, Sources, WordsAreIntegers
<1>3. PICK t \in MemWrite(id, addr, size, value, word) :
        o = IF t.fault # "no" THEN RecordHalt(id, h, t.fault, t.word, t.calls)
            ELSE Outcome(Advance(stored), Row(id, h.pc, word, None, None, i.op, addr, size,
                                              Lanes(addr, size, value), "no"), t.calls)
  BY DEF Store
<1> HIDE DEF addr, size, value
<1>4. t.fault \in {"no", "illegal", "bus"} /\ (t.fault = "no" => addr % size = 0)
  BY WriteGives
<1>5. CASE t.fault # "no"
  <2>1. t.fault \in {"illegal", "bus", "ecall", "ebreak"}
    BY <1>4, <1>5
  <2>2. o = RecordHalt(id, h, t.fault, t.word, t.calls)
    BY <1>3, <1>5
  <2> QED BY <2>1, <2>2, HaltIsTold
<1>6. CASE t.fault = "no"
  <2> DEFINE merged == Merged(h.mem, addr, size, value)
             next == Advance(stored)
  <2>1. merged \in Memories
    <3>1. \A a \in DOMAIN h.mem : (value \div BYTE^(a - addr)) % BYTE \in 0..BYTE - 1
                                    \/ a \notin addr..addr + size - 1
      <4>1. ASSUME NEW a \in addr..addr + size - 1
            PROVE  (value \div BYTE^(a - addr)) % BYTE \in 0..BYTE - 1
        <5> DEFINE p == BYTE^(a - addr)
        <5>1. p \in Nat /\ p >= 1 /\ BYTE \in Nat /\ BYTE >= 1
          <6>1. a - addr \in 0..4
            BY <1>1, <1>2
          <6> QED BY <6>1, BytePowers, WordSizes
        <5>2. (value \div p) % BYTE \in 0..BYTE - 1
          <6> HIDE DEF p
          <6>1. value \div p \in Int
            BY <1>2, <5>1, DivisionAndRemainder
          <6> QED BY <5>1, <6>1, DivisionAndRemainder
        <5> QED BY <5>2
      <4> QED BY <4>1
    <3>2. h.mem \in Memories
      BY DEF Typed
    <3> QED BY <3>1, <3>2 DEF Merged, Memories
  <2>2. /\ Typed(stored) /\ stored.pc = h.pc
        /\ stored.mem = IF addr < RAM_BYTES THEN merged ELSE h.mem
    <3> HIDE DEF merged
    <3>1. stored = IF addr < RAM_BYTES THEN [h EXCEPT !.mem = merged] ELSE h
      BY DEF merged
    <3> HIDE DEF stored
    <3> QED BY <2>1, <3>1 DEF Typed, IsHart
  <2>3. Typed(next) /\ next.pc = w32(h.pc + 4) /\ next.mem = stored.mem
    <3> HIDE DEF stored
    <3> QED BY <2>2, Advancing
  <2>4. /\ o.hart = next /\ o.row.word = word /\ o.row.pc = h.pc
        /\ o.row.mem_op = i.op /\ o.row.addr = addr /\ o.row.size = size
        /\ o.row.value = Lanes(addr, size, value)
    BY <1>3, <1>6 DEF Outcome, Row
  <2>5. \A a \in addr..addr + size - 1 :
          (o.row.value \div BYTE^(a % 4)) % BYTE = (value \div BYTE^(a - addr)) % BYTE
    BY <1>1, <1>2, <1>4, <1>6, <2>4, LanesTell
  <2> HIDE DEF next, stored
  <2>6. merged = [a \in DOMAIN h.mem |-> IF a \in addr..addr + size - 1
                                         THEN (o.row.value \div BYTE^(a % 4)) % BYTE
                                         ELSE h.mem[a]]
    BY <2>5, Zenon DEF Merged
  <2>7. StoredByRow(h.mem, o.row) = IF addr < RAM_BYTES THEN merged ELSE h.mem
    <3> HIDE DEF merged
    <3> QED BY <2>4, <2>6, Zenon DEF StoredByRow
  <2>8. Decoded[o.row.word].op \notin BRANCHES \cup {"jal", "jalr"}
    BY <2>4 DEF IsInstruction, STORES, BRANCHES
  <2>9. Successor(h.x, o.row) = w32(h.pc + 4)
    BY <2>4, <2>8, PassesOn
  <2> HIDE DEF merged
  <2> QED BY <2>2, <2>3, <2>4, <2>7, <2>9 DEF Told
<1> QED BY <1>5, <1>6

LEMMA BranchIsTold ==
  ASSUME NEW id, NEW h, Typed(h), NEW i, NEW word, IsInstruction(i, word),
         i.op \in BRANCHES, NEW o \in Branch(id, h, i, word)
  PROVE  Typed(o.hart) /\ Told(h, o)
<1> DEFINE taken == Taken(i.op, h.x[i.rs1], h.x[i.rs2])
           next == IF taken THEN [h EXCEPT !.pc = w32(@ + i.imm)] ELSE Advance(h)
<1>1. o = Retire(id, h, next, word, 0, 0)
  BY Sources, Zenon DEF Branch
<1>2. h.pc + i.imm \in Int
  <2>1. h.pc \in Int /\ i.imm \in Int
    BY WordsAreIntegers DEF Typed, IsInstruction
  <2> QED BY <2>1
<1>3. /\ Typed(next) /\ next.mem = h.mem
      /\ next.pc = IF taken THEN w32(h.pc + i.imm) ELSE w32(h.pc + 4)
  <2> HIDE DEF taken
  <2>1. CASE taken
    <3>1. next = [h EXCEPT !.pc = w32(h.pc + i.imm)]
      BY <2>1
    <3> QED BY <1>2, <2>1, <3>1, Going
  <2>2. CASE ~taken
    <3>1. next = Advance(h)
      BY <2>2
    <3> QED BY <2>2, <3>1, Advancing
  <2> QED BY <2>1, <2>2
<1>4. o.row.word = word /\ o.row.pc = h.pc
  BY <1>1 DEF Retire, Outcome, Row
<1>5. Decoded[o.row.word] = i
  BY <1>4 DEF IsInstruction
<1>6. i.op # "jal" /\ i.op # "jalr"
  BY DEF BRANCHES
<1>7. Successor(h.x, o.row) = w32(IF taken THEN h.pc + i.imm ELSE h.pc + 4)
  <2>1. Successor(h.x, o.row) =
          w32(IF i.op \in BRANCHES /\ taken THEN h.pc + i.imm
              ELSE IF i.op = "jal" THEN h.pc + i.imm
              ELSE IF i.op = "jalr" THEN ((h.x[i.rs1] + i.imm) \div 2) * 2
              ELSE h.pc + 4)
    BY <1>4, <1>5, Zenon DEF Successor
  <2> HIDE DEF taken
  <2> QED BY <1>6, <2>1
<1> HIDE DEF taken
<1>8. next.pc = Successor(h.x, o.row)
  BY <1>3, <1>7
<1> HIDE DEF next
<1> QED BY <1>1, <1>3, <1>8, RetireIsTold

LEMMA JumpIsTold ==
  ASSUME NEW id, NEW h, Typed(h), NEW i, NEW word, IsInstruction(i, word),
         i.op \in {"jal", "jalr"}, NEW o \in Jump(id, h, i, word)
  PROVE  Typed(o.hart) /\ Told(h, o)
<1> DEFINE sum == h.x[i.rs1] + i.imm
           to == IF i.op = "jal" THEN h.pc + i.imm ELSE sum - (sum % 2)
           there == [h EXCEPT !.pc = w32(to)]
           next == reg_write(there, i.rd, h.pc + 4)
<1>1. h.pc \in Int /\ i.imm \in Int /\ h.x[i.rs1] \in Int
  BY WordsAreIntegers, Sources DEF Typed, IsInstruction
<1>2. to \in Int /\ h.pc + 4 \in Int /\ sum - (sum % 2) = (sum \div 2) * 2
  BY <1>1
<1>3. o = Retire(id, h, next, word, i.rd, reg_read(next, i.rd))
  <2>1. Source1(h, i) = h.x[i.rs1]
    BY Sources
  <2>2. w32(to) = IF i.op = "jal" THEN w32(h.pc + i.imm) ELSE w32(sum - (sum % 2))
    OBVIOUS
  <2> QED BY <2>1, <2>2, Zenon DEF Jump
<1>4. Typed(there) /\ there.pc = w32(to) /\ there.mem = h.mem
  <2> HIDE DEF to
  <2> QED BY <1>2, Going
<1>5. Typed(next) /\ next.pc = w32(to) /\ next.mem = h.mem
  <2>1. i.rd \in Registers /\ h.pc + 4 \in Int /\ next = reg_write(there, i.rd, h.pc + 4)
    BY <1>1 DEF IsInstruction
  <2> HIDE DEF sum, to, next, there
  <2> QED BY <1>4, <2>1, Writing
<1>6. o.row.word = word /\ o.row.pc = h.pc
  BY <1>3 DEF Retire, Outcome, Row
<1>7. Decoded[o.row.word] = i
  BY <1>6 DEF IsInstruction
<1>8. i.op \notin BRANCHES
  BY DEF BRANCHES
<1>9. Successor(h.x, o.row) = w32(to)
  <2>1. Successor(h.x, o.row) =
          w32(IF i.op \in BRANCHES /\ Taken(i.op, h.x[i.rs1], h.x[i.rs2]) THEN h.pc + i.imm
              ELSE IF i.op = "jal" THEN h.pc + i.imm
              ELSE IF i.op = "jalr" THEN (sum \div 2) * 2
              ELSE h.pc + 4)
    BY <1>6, <1>7, Zenon DEF Successor
  <2>2. i.op = "jal" \/ (i.op # "jal" /\ i.op = "jalr")
    OBVIOUS
  <2> QED BY <1>2, <1>8, <2>1, <2>2
<1> HIDE DEF to, next
<1>10. next.pc = Successor(h.x, o.row)
  BY <1>5, <1>9
<1> QED BY <1>3, <1>5, <1>10, RetireIsTold

LEMMA FenceIsTold ==
  ASSUME NEW id, NEW h, Typed(h), NEW i, NEW word, IsInstruction(i, word),
         i.op = "fence", NEW o, o = Retire(id, h, Advance(h), word, 0, 0)
  PROVE  Typed(o.hart) /\ Told(h, o)
<1> DEFINE next == Advance(h)
<1>1. Typed(next) /\ next.pc = w32(h.pc + 4) /\ next.mem = h.mem
  BY Advancing
<1>2. o.row.word = word /\ o.row.pc = h.pc
  BY DEF Retire, Outcome, Row
<1>3. Decoded[o.row.word].op \notin BRANCHES \cup {"jal", "jalr"}
  BY <1>2 DEF IsInstruction, BRANCHES
<1>4. Successor(h.x, o.row) = w32(h.pc + 4)
  BY <1>2, <1>3, PassesOn
<1>5. o = Retire(id, h, next, word, 0, 0)
  OBVIOUS
<1> HIDE DEF next
<1> QED BY <1>1, <1>4, <1>5, RetireIsTold

LEMMA OutcomesAreTold ==
  ASSUME NEW id, NEW h, Typed(h), NEW o \in Outcomes(id, h)
  PROVE  Typed(o.hart) /\ Told(h, o)
<1> DEFINE word == Fetched(h)
           i == Decoded[word]
<1>1. \/ \E reason \in {"illegal", "bus"} : \E w : o = RecordHalt(id, h, reason, w, <<>>)
      \/ word \in DOMAIN Decoded /\ o \in Executed(id, h, i, word)
  BY DEF Outcomes
<1>2. ASSUME NEW reason \in {"illegal", "bus"}, NEW w, o = RecordHalt(id, h, reason, w, <<>>)
      PROVE  Typed(o.hart) /\ Told(h, o)
  BY <1>2, HaltIsTold
<1>3. ASSUME word \in DOMAIN Decoded, o \in Executed(id, h, i, word)
      PROVE  Typed(o.hart) /\ Told(h, o)
  <2>1. IsInstruction(i, word)
    BY <1>3, InstructionsAssumption DEF IsInstruction
  <2> HIDE DEF word, i
  <2>2. CASE i.op \in {"ecall", "ebreak"}
    <3>1. o = RecordHalt(id, h, i.op, word, <<>>)
      BY <1>3, <2>2 DEF Executed
    <3>2. i.op \in {"illegal", "bus", "ecall", "ebreak"}
      BY <2>2
    <3> QED BY <3>1, <3>2, HaltIsTold
  <2>3. CASE i.op \in OPS \cup OPIMM \cup {"lui", "auipc"}
    <3>1. o \in Compute(id, h, i, word)
      BY <1>3, <2>3 DEF Executed, OPS, OPIMM
    <3> QED BY <2>1, <2>3, <3>1, ComputeIsTold
  <2>4. CASE i.op \in DOMAIN LOADS
    <3>1. o \in Load(id, h, i, word)
      BY <1>3, <2>4 DEF Executed, OPS, OPIMM, LOADS
    <3> QED BY <2>1, <2>4, <3>1, LoadIsTold
  <2>5. CASE i.op \in DOMAIN STORES
    <3>1. o \in Store(id, h, i, word)
      BY <1>3, <2>5 DEF Executed, OPS, OPIMM, LOADS, STORES
    <3> QED BY <2>1, <2>5, <3>1, StoreIsTold
  <2>6. CASE i.op \in BRANCHES
    <3>1. o \in Branch(id, h, i, word)
      BY <1>3, <2>6 DEF Executed, OPS, OPIMM, LOADS, STORES, BRANCHES
    <3> QED BY <2>1, <2>6, <3>1, BranchIsTold
  <2>7. CASE i.op \in {"jal", "jalr"}
    <3>1. o \in Jump(id, h, i, word)
      BY <1>3, <2>7 DEF Executed, OPS, OPIMM, LOADS, STORES, BRANCHES
    <3> QED BY <2>1, <2>7, <3>1, JumpIsTold
  <2>8. CASE i.op = "fence"
    <3>1. o = Retire(id, h, Advance(h), word, 0, 0)
      BY <1>3, <2>8 DEF Executed, OPS, OPIMM, LOADS, STORES, BRANCHES
    <3> QED BY <2>1, <2>8, <3>1, FenceIsTold
  <2>9. \/ i.op \in {"ecall", "ebreak"} \/ i.op \in OPS \cup OPIMM \cup {"lui", "auipc"}
        \/ i.op \in DOMAIN LOADS \/ i.op \in DOMAIN STORES \/ i.op \in BRANCHES
        \/ i.op \in {"jal", "jalr"} \/ i.op = "fence"
    BY <1>3, Zenon DEF Executed
  <2> QED BY <2>2, <2>3, <2>4, <2>5, <2>6, <2>7, <2>8, <2>9
<1> QED BY <1>1, <1>2, <1>3
-----------------------------------------------------------------------------
(* What a hart's moves make of it: it is stopped where it is, or an        *)
(* outcome of its instruction is taken.                                    *)

LEMMA StoppedIsTold ==
  ASSUME NEW g, NEW x, NEW y, NEW rows, NEW more, IsStopped(g, x, y, rows, more), Typed(x)
  PROVE  /\ Typed(y) /\ y.pc = x.pc /\ y.mem = x.mem
         /\ \E r : /\ IsLonger(more, rows, r)
                   /\ r.pc = x.pc /\ ~Retired(r) /\ \A mem : StoredByRow(mem, r) = mem
<1> DEFINE r == HaltRow(g, "budget", x.pc, None)
<1>1. y = [x EXCEPT !.halted = "budget"] /\ IsLonger(more, rows, r)
  BY DEF IsStopped
<1>2. Typed(y) /\ y.pc = x.pc /\ y.mem = x.mem
  BY <1>1 DEF Typed, IsHart, Reasons
<1>3. r.pc = x.pc /\ r.halt = "budget" /\ r.mem_op = ""
  BY DEF HaltRow, Row
<1>4. \A mem : StoredByRow(mem, r) = mem
  BY <1>3 DEF StoredByRow, STORES
<1> HIDE DEF r
<1> QED BY <1>1, <1>2, <1>3, <1>4 DEF Retired

LEMMA ExecutedIsTold ==
  ASSUME NEW g, NEW x, NEW y, NEW rows, NEW more, NEW o, Executes(g, x, y, rows, more, o),
         Typed(x)
  PROVE  /\ Typed(y) /\ IsLonger(more, rows, o.row)
         /\ o.row.pc = x.pc /\ y.mem = StoredByRow(x.mem, o.row)
         /\ Retired(o.row) => y.pc = Successor(x.x, o.row)
<1>1. o \in Outcomes(g, x) /\ y = o.hart /\ IsLonger(more, rows, o.row) /\ o.row.pc = x.pc
  BY DEF Executes, Ordinary
<1> QED BY <1>1, OutcomesAreTold DEF Told, Retired

LEMMA MovesKeepTyped ==
  ASSUME NEW g, NEW x, NEW y, NEW rows, NEW more, HartMoves(g, x, y, rows, more), Typed(x)
  PROVE  Typed(y)
BY StoppedIsTold, ExecutedIsTold DEF HartMoves

LEMMA StartsTyped ==
  ASSUME Init, NEW g \in Harts
  PROVE  Typed(harts[g])
<1>1. PICK load \in [Harts -> Images] : harts = [h \in Harts |-> HartWith(load[h])]
  BY LoadedAtInit
<1>2. 0 \in Word
  BY WordSizes DEF Word
<1>3. load[g] \in Memories /\ harts[g] = HartWith(load[g])
  BY <1>1, ImagesAreMemories
<1> QED BY <1>2, <1>3, FirstRegister DEF HartWith, Typed, IsHart, Reasons

LEMMA StepsKeepTyped ==
  ASSUME ShapeOK, [Next]_vars, NEW g \in Harts, Typed(harts[g])
  PROVE  Typed(harts'[g])
BY MovesOfOneHart, MovesKeepTyped

(* Registers, pc and memory never leave their ranges, whatever the program *)
(* computes and whatever a device returns: every result is cut to a word,  *)
(* x0 stays zero, a store leaves bytes.                                    *)
THEOREM TypeCorrect == Spec => []TypeOK
<1> DEFINE Turns == next_hart \in Harts /\ status \in {"running", "returned", "raised"}
           Inv == ShapeOK /\ (\A g \in Harts : Typed(harts[g])) /\ Turns
<1>1. Init => Inv
  <2>1. 0 \in Harts
    BY MachineAssumption DEF Harts
  <2> QED BY <2>1, StartsTyped, StartsAlone DEF Init
<1>2. Inv /\ [Next]_vars => Inv'
  <2> SUFFICES ASSUME Inv, [Next]_vars PROVE Inv'
    OBVIOUS
  <2>1. ASSUME NEW g \in Harts PROVE ShapeOK' /\ Typed(harts'[g])
    BY MovesOfOneHart, StepsKeepTyped
  <2>2. 0 \in Harts
    BY MachineAssumption DEF Harts
  <2>3. next_hart' \in Harts
    <3>1. next_hart' = next_hart \/ next_hart' = (next_hart + 1) % HART_COUNT
      <4>1. CASE Next
        BY <4>1 DEF Next, RunNext, Finish, OutOfBudget, RoundRobin, RandomChoice, Scripted,
                    ClientStep
      <4>2. CASE UNCHANGED vars
        BY <4>2 DEF vars
      <4> QED BY <4>1, <4>2
    <3>2. (next_hart + 1) % HART_COUNT \in Harts
      BY MachineAssumption DEF Harts
    <3> QED BY <3>1, <3>2
  <2>4. status' \in {"running", "returned", "raised"}
    <3>1. ASSUME NEW h, Step(h) PROVE status' = status \/ status' = "raised"
      BY <3>1 DEF Step
    <3>2. CASE Next
      <4>1. CASE Finish \/ OutOfBudget
        BY <4>1 DEF Finish, OutOfBudget, Return
      <4>2. CASE RoundRobin
        BY <3>1, <4>2 DEF RoundRobin
      <4>3. CASE RandomChoice
        BY <3>1, <4>3 DEF RandomChoice
      <4>4. CASE Scripted
        BY <3>1, <4>4 DEF Scripted
      <4>5. CASE ClientStep
        BY <3>1, <4>5 DEF ClientStep
      <4> QED BY <3>2, <4>1, <4>2, <4>3, <4>4, <4>5 DEF Next, RunNext
    <3>3. CASE UNCHANGED vars
      BY <3>3 DEF vars
    <3> QED BY <3>2, <3>3
  <2> QED BY <2>1, <2>2, <2>3, <2>4
<1>3. Inv => TypeOK
  BY DEF ShapeOK, Typed, Reasons, TypeOK
<1> QED BY <1>1, <1>2, <1>3, PTL DEF Spec

-----------------------------------------------------------------------------
(* The memory, as the rows tell it.                                        *)

Recorded(image, rows) == FoldLeft(StoredByRow, image, rows)

IsImage(image) == image = [a \in DOMAIN image |-> image[a]]
ByteOf(r, a) == (r.value \div BYTE^(a % 4)) % BYTE
Bytes(image, S) ==
  {image[a] : a \in DOMAIN image}
    \cup {ByteOf(p[1], p[2]) : p \in S \X DOMAIN image}
Stores(image, S) == [DOMAIN image -> Bytes(image, S)]
Storing(image, S) == [p \in Stores(image, S) \X S |-> StoredByRow(p[1], p[2])]

LEMMA StoringIsStep ==
  ASSUME NEW image, IsImage(image), NEW S
  PROVE  IsStep(Storing(image, S), Stores(image, S), S) /\ image \in Stores(image, S)
<1>1. ASSUME NEW mem \in Stores(image, S), NEW r \in S
      PROVE  StoredByRow(mem, r) \in Stores(image, S)
  <2>1. CASE r.mem_op \in DOMAIN STORES /\ r.addr < RAM_BYTES
    <3> DEFINE byte(a) == IF a \in r.addr..r.addr + r.size - 1
                          THEN (r.value \div BYTE^(a % 4)) % BYTE ELSE mem[a]
    <3>1. ASSUME NEW a \in DOMAIN image PROVE byte(a) \in Bytes(image, S)
      <4>1. (r.value \div BYTE^(a % 4)) % BYTE
              \in {ByteOf(p[1], p[2]) : p \in S \X DOMAIN image}
        <5>1. /\ <<r, a>> \in S \X DOMAIN image
              /\ <<r, a>>[1] = r /\ <<r, a>>[2] = a
          OBVIOUS
        <5> QED BY <5>1, Zenon DEF ByteOf
      <4>2. (r.value \div BYTE^(a % 4)) % BYTE \in Bytes(image, S)
        BY <4>1, Zenon DEF Bytes
      <4>3. mem[a] \in Bytes(image, S)
        BY DEF Stores
      <4> QED BY <4>2, <4>3, Zenon
    <3>2. StoredByRow(mem, r) = [a \in DOMAIN image |-> byte(a)]
      <4>1. DOMAIN mem = DOMAIN image
        BY DEF Stores
      <4> QED BY <2>1, <4>1, Zenon DEF StoredByRow
    <3> HIDE DEF byte
    <3> QED BY <3>1, <3>2, Zenon DEF Stores
  <2>2. CASE ~(r.mem_op \in DOMAIN STORES /\ r.addr < RAM_BYTES)
    BY <2>2, Zenon DEF StoredByRow
  <2> QED BY <2>1, <2>2
<1>2. image \in Stores(image, S)
  <2>1. \A a \in DOMAIN image : image[a] \in Bytes(image, S)
    BY Zenon DEF Bytes
  <2> QED BY <2>1, Zenon DEF Stores, IsImage
<1> QED BY <1>1, <1>2 DEF IsStep, Storing

LEMMA RecordedIsFold ==
  ASSUME NEW image, IsImage(image), NEW S, NEW s \in Seq(S)
  PROVE  FoldOf(Recorded(image, s), Stores(image, S), image, Storing(image, S), s)
<1> DEFINE n == Len(s)
           V == Stores(image, S)
           Takes(g, t) == IF t = {} THEN image ELSE StoredByRow(g[t \ {Max(t)}], s[Max(t)])
           Folds(g) == g = [t \in SUBSET (1..n) |-> Takes(g, t)]
           on == OnItems(Storing(image, S), V, s)
<1>0. n \in Nat /\ \A k \in 1..n : s[k] \in S
  OBVIOUS
<1>1. Recorded(image, s) = (CHOOSE g : Folds(g))[1..n]
  <2>1. DOMAIN s = 1..n
    OBVIOUS
  <2> QED BY <2>1 DEF Recorded, FoldLeft, MapThenFoldSet
<1>2. IsStep(Storing(image, S), V, S) /\ image \in V
  BY StoringIsStep
<1>3. PICK g : IsFold(g, n, V, image, on)
  <2>1. IsStep(on, V, 1..n)
    BY <1>0, <1>2 DEF IsStep, OnItems
  <2> HIDE DEF n, on, V
  <2> QED BY <1>0, <1>2, <2>1, FoldExists
<1> HIDE DEF V
<1>4. Folds(g)
  <2>1. ASSUME NEW t \in SUBSET (1..n) PROVE g[t] = Takes(g, t)
    <3>1. CASE t = {}
      BY <1>3, <3>1 DEF IsFold
    <3>2. CASE t # {}
      <4>1. Max(t) \in 1..n /\ t \ {Max(t)} \in SUBSET (1..n)
        BY <1>0, <3>2, MaxIsLargest
      <4>2. <<g[t \ {Max(t)}], Max(t)>> \in V \X (1..n)
        BY <1>3, <4>1 DEF IsFold
      <4>3. g[t] = on[<<g[t \ {Max(t)}], Max(t)>>]
        BY <1>3, <3>2 DEF IsFold
      <4>4. on[<<g[t \ {Max(t)}], Max(t)>>]
              = Storing(image, S)[<<g[t \ {Max(t)}], s[Max(t)]>>]
        BY <4>2 DEF OnItems
      <4>5. g[t] = StoredByRow(g[t \ {Max(t)}], s[Max(t)])
        BY <1>0, <4>1, <4>2, <4>3, <4>4 DEF Storing, V
      <4> QED BY <3>2, <4>5
    <3> QED BY <3>1, <3>2
  <2> HIDE DEF Takes
  <2> QED BY <1>3, <2>1 DEF IsFold
<1> DEFINE f == CHOOSE h : Folds(h)
<1>5. Folds(f)
  <2> HIDE DEF Folds
  <2> QED BY <1>4
<1> HIDE DEF f
<1>6. f[1..0] = image
  BY <1>5, 1..0 = {}, {} \in SUBSET (1..n)
<1>7. ASSUME NEW k \in 1..n, f[1..k - 1] \in V
      PROVE  f[1..k] = Storing(image, S)[<<f[1..k - 1], s[k]>>]
  <2>1. /\ Max(1..k) = k /\ (1..k) \ {k} = 1..k - 1
        /\ 1..k \in SUBSET (1..n) /\ 1..k # {}
    BY <1>0, RangesInside
  <2>2. f[1..k] = Takes(f, 1..k)
    <3> HIDE DEF Takes
    <3> QED BY <1>5, <2>1
  <2>3. f[1..k] = StoredByRow(f[1..k - 1], s[k])
    BY <2>1, <2>2
  <2> QED BY <1>0, <1>7, <2>3 DEF Storing, V
<1>8. FoldOf(f[1..n], V, image, Storing(image, S), s)
  BY <1>2, <1>6, <1>7, ChosenIsFold
<1> QED BY <1>1, <1>8 DEF f, V

LEMMA RecordedNone ==
  ASSUME NEW image, IsImage(image)
  PROVE  Recorded(image, <<>>) = image
<1>1. <<>> \in Seq({})
  OBVIOUS
<1>2. FoldOf(Recorded(image, <<>>), Stores(image, {}), image, Storing(image, {}), <<>>)
  BY <1>1, RecordedIsFold
<1> QED BY <1>2, FoldOfNone

LEMMA RecordedMore ==
  ASSUME NEW image, IsImage(image), NEW rows, NEW r, NEW more,
         IsSequence(rows), IsLonger(more, rows, r)
  PROVE  Recorded(image, more) = StoredByRow(Recorded(image, rows), r) /\ IsSequence(more)
<1> DEFINE S == Range(rows) \cup {r}
           V == Stores(image, S)
           step == Storing(image, S)
<1>1. rows \in Seq(S) /\ r \in S
  BY DEF IsSequence
<1>2. more \in Seq(S) /\ IsSequence(more)
  <2> HIDE DEF S
  <2>1. more \in Seq(S)
    BY <1>1 DEF IsLonger
  <2> QED BY <2>1, Narrowed
<1>3. IsStep(step, V, S) /\ image \in V
  BY StoringIsStep
<1>4. /\ FoldOf(Recorded(image, rows), V, image, step, rows)
      /\ FoldOf(Recorded(image, more), V, image, step, more)
  <2> HIDE DEF S
  <2> QED BY <1>1, <1>2, RecordedIsFold
<1>5. Recorded(image, rows) \in V /\ Recorded(image, more) = step[<<Recorded(image, rows), r>>]
  <2> HIDE DEF S, V, step
  <2> QED BY <1>1, <1>3, <1>4, FoldOfLonger
<1>6. step[<<Recorded(image, rows), r>>] = StoredByRow(Recorded(image, rows), r)
  <2> HIDE DEF S
  <2> QED BY <1>1, <1>5 DEF Storing
<1> QED BY <1>2, <1>5, <1>6

LEMMA MovesKeepMemory ==
  ASSUME NEW g, NEW x, NEW y, NEW rows, NEW more, HartMoves(g, x, y, rows, more),
         Typed(x), IsSequence(rows), NEW image, IsImage(image),
         x.mem = Recorded(image, rows)
  PROVE  y.mem = Recorded(image, more)
<1>1. ASSUME NEW z, NEW most, NEW o, Executes(g, x, z, rows, most, o)
      PROVE  Typed(z) /\ IsSequence(most) /\ z.mem = Recorded(image, most)
  BY <1>1, ExecutedIsTold, RecordedMore
<1>2. ASSUME NEW w, NEW z, NEW part, NEW most, IsStopped(g, w, z, part, most),
             Typed(w), IsSequence(part), w.mem = Recorded(image, part)
      PROVE  z.mem = Recorded(image, most)
  <2>1. PICK r : IsLonger(most, part, r) /\ \A mem : StoredByRow(mem, r) = mem
    BY <1>2, StoppedIsTold
  <2>2. z.mem = w.mem
    BY <1>2, StoppedIsTold
  <2> QED BY <1>2, <2>1, <2>2, RecordedMore
<1> QED BY <1>1, <1>2 DEF HartMoves

(* docs/cpu-contract.md, section 6: the trace tells the memory too.  The   *)
(* stores of a hart's rows, their lanes laid one by one over the image the *)
(* hart started from, give its RAM: no store is unrecorded, and none       *)
(* reaches the RAM of another hart.                                        *)
THEOREM MemoryIsTraced == Spec => []MemoryFollowsTrace
<1> DEFINE Tells(h, rows) == \E image \in Images : h.mem = Recorded(image, rows)
           Inv == ShapeOK /\ \A g \in Harts : Typed(harts[g]) /\ Tells(harts[g], RowsOf(g))
<1>0. \A image \in Images : IsImage(image)
  BY ImagesAreMemories DEF Memories, IsImage
<1>1. Init => Inv
  <2> SUFFICES ASSUME Init PROVE Inv
    OBVIOUS
  <2>1. ShapeOK
    BY StartsAlone
  <2>2. ASSUME NEW g \in Harts PROVE Typed(harts[g]) /\ Tells(harts[g], RowsOf(g))
    <3>1. PICK load \in [Harts -> Images] : harts = [h \in Harts |-> HartWith(load[h])]
      BY LoadedAtInit
    <3>2. RowsOf(g) = <<>> /\ harts[g].mem = load[g] /\ load[g] \in Images
      BY <3>1, ItemsOfNone DEF Init, RowsOf, HartWith
    <3>3. Recorded(load[g], <<>>) = load[g]
      BY <1>0, <3>2, RecordedNone
    <3> QED BY <3>2, <3>3, StartsTyped
  <2> QED BY <2>1, <2>2
<1>2. Inv /\ [Next]_vars => Inv'
  <2> SUFFICES ASSUME Inv, [Next]_vars PROVE Inv'
    OBVIOUS
  <2>1. ASSUME NEW g \in Harts
        PROVE  /\ ShapeOK' /\ Typed(harts'[g])
               /\ \E image \in Images : harts'[g].mem = Recorded(image, RowsOf(g)')
    <3>1. PICK image \in Images : harts[g].mem = Recorded(image, RowsOf(g))
      OBVIOUS
    <3>2. harts'[g].mem = Recorded(image, RowsOf(g)')
      BY <1>0, <3>1, MovesOfOneHart, MovesKeepMemory
    <3> QED BY <3>2, MovesOfOneHart, StepsKeepTyped
  <2>2. 0 \in Harts
    BY MachineAssumption DEF Harts
  <2>3. \A g \in Harts : \A image : Recorded(image, RowsOf(g)') = Recorded(image, RowsOf(g))'
    OBVIOUS
  <2> QED BY <2>1, <2>2
<1>3. Inv => MemoryFollowsTrace
  BY DEF MemoryFollowsTrace, Recorded
<1> QED BY <1>1, <1>2, <1>3, PTL DEF Spec

-----------------------------------------------------------------------------
(* The pc, as the rows tell it.                                            *)

Leads(h, rows) ==
  \A k \in DOMAIN rows : Retired(rows[k]) =>
    Successor(Replayed(SubSeq(rows, 1, k - 1)), rows[k]) =
      IF k < Len(rows) THEN rows[k + 1].pc ELSE h.pc

LEMMA SamePrefixes ==
  ASSUME NEW S, NEW s \in Seq(S), NEW t \in Seq(S), NEW k \in 0..Len(s),
         Len(s) <= Len(t), \A j \in 1..Len(s) : t[j] = s[j]
  PROVE  /\ SubSeq(t, 1, k) = SubSeq(s, 1, k)
         /\ k = Len(s) => SubSeq(t, 1, k) = s
<1>1. /\ SubSeq(t, 1, k) \in Seq(S) /\ Len(SubSeq(t, 1, k)) = k
      /\ SubSeq(s, 1, k) \in Seq(S) /\ Len(SubSeq(s, 1, k)) = k
  OBVIOUS
<1>2. \A j \in 1..k : SubSeq(t, 1, k)[j] = s[j] /\ SubSeq(s, 1, k)[j] = s[j]
  OBVIOUS
<1>3. SubSeq(t, 1, k) = SubSeq(s, 1, k)
  BY <1>1, <1>2
<1>4. k = Len(s) => SubSeq(t, 1, k) = s
  BY <1>1, <1>2
<1> QED BY <1>3, <1>4

LEMMA LongerLeads ==
  ASSUME NEW x, NEW y, NEW rows, NEW r, NEW more, IsSequence(rows), IsLonger(more, rows, r),
         Leads(x, rows), r.pc = x.pc,
         Retired(r) => Successor(Replayed(rows), r) = y.pc
  PROVE  Leads(y, more) /\ IsSequence(more)
<1> DEFINE S == Range(rows) \cup {r}
           n == Len(rows)
<1>1. rows \in Seq(S) /\ r \in S
  BY DEF IsSequence
<1>2. /\ n \in Nat /\ more \in Seq(S) /\ Len(more) = n + 1 /\ more[n + 1] = r
      /\ \A k \in 1..n : more[k] = rows[k]
      /\ DOMAIN rows = 1..n /\ DOMAIN more = 1..n + 1
      /\ rows = [k \in 1..n |-> rows[k]]
  <2> HIDE DEF S
  <2> QED BY <1>1 DEF IsLonger
<1>3. IsSequence(more)
  BY <1>2, Narrowed
<1>4. ASSUME NEW k \in 1..n + 1
      PROVE  SubSeq(more, 1, k - 1) = IF k = n + 1 THEN rows ELSE SubSeq(rows, 1, k - 1)
  <2>1. k - 1 \in 0..n
    BY <1>2
  <2>2. /\ SubSeq(more, 1, k - 1) = SubSeq(rows, 1, k - 1)
        /\ k - 1 = n => SubSeq(more, 1, k - 1) = rows
    <3>1. /\ Len(rows) <= Len(more) /\ \A j \in 1..Len(rows) : more[j] = rows[j]
          /\ k - 1 \in 0..Len(rows) /\ rows \in Seq(S) /\ more \in Seq(S)
      <4> HIDE DEF S
      <4> QED BY <1>1, <1>2, <2>1
    <3> HIDE DEF S
    <3> QED BY <3>1, SamePrefixes
  <2>3. k = n + 1 => k - 1 = n
    BY <1>2
  <2> QED BY <2>2, <2>3
<1>6. ASSUME NEW k \in 1..n + 1, Retired(more[k])
      PROVE  Successor(Replayed(SubSeq(more, 1, k - 1)), more[k]) =
               IF k < Len(more) THEN more[k + 1].pc ELSE y.pc
  <2>1. CASE k = n + 1
    <3>1. ~(k < Len(more)) /\ more[k] = r /\ SubSeq(more, 1, k - 1) = rows
      BY <1>2, <1>4, <2>1
    <3> QED BY <1>6, <3>1
  <2>2. CASE k # n + 1
    <3>1. k \in 1..n /\ k < Len(more) /\ more[k] = rows[k]
      BY <1>2, <2>2
    <3>2. Successor(Replayed(SubSeq(rows, 1, k - 1)), rows[k]) =
            IF k < n THEN rows[k + 1].pc ELSE x.pc
      BY <1>2, <1>6, <3>1 DEF Leads
    <3>3. more[k + 1].pc = IF k < n THEN rows[k + 1].pc ELSE x.pc
      <4>1. CASE k < n
        <5>1. k + 1 \in 1..n
          BY <1>2, <4>1
        <5> QED BY <1>2, <4>1, <5>1
      <4>2. CASE ~(k < n)
        <5>1. k + 1 = n + 1
          BY <1>2, <3>1, <4>2
        <5> QED BY <1>2, <4>2, <5>1
      <4> QED BY <4>1, <4>2
    <3>4. SubSeq(more, 1, k - 1) = SubSeq(rows, 1, k - 1)
      BY <1>4, <2>2
    <3> HIDE DEF n
    <3> QED BY <3>1, <3>2, <3>3, <3>4
  <2> QED BY <2>1, <2>2
<1> QED BY <1>2, <1>3, <1>6 DEF Leads

LEMMA MovesKeepLeading ==
  ASSUME NEW g, NEW x, NEW y, NEW rows, NEW more, HartMoves(g, x, y, rows, more),
         Typed(x), IsSequence(rows), x.x = Replayed(rows), Leads(x, rows)
  PROVE  Leads(y, more)
<1>1. ASSUME NEW z, NEW most, NEW o, Executes(g, x, z, rows, most, o)
      PROVE  Typed(z) /\ IsSequence(most) /\ Leads(z, most)
  BY <1>1, ExecutedIsTold, LongerLeads
<1>2. ASSUME NEW w, NEW z, NEW part, NEW most, IsStopped(g, w, z, part, most),
             Typed(w), IsSequence(part), Leads(w, part)
      PROVE  Leads(z, most)
  BY <1>2, StoppedIsTold, LongerLeads
<1> QED BY <1>1, <1>2 DEF HartMoves

(* docs/cpu-contract.md: the trace tells the control flow.  With the       *)
(* registers replayed up to a row, the instruction of the row leads to the *)
(* pc of the next row of that hart, or of the hart: no instruction is left *)
(* out, and none is traced twice.                                          *)
THEOREM PcIsTraced == Spec => []PcFollowsTrace
<1> DEFINE Tells(h, rows) == Typed(h) /\ h.x = Replayed(rows) /\ Leads(h, rows)
           Inv == ShapeOK /\ \A g \in Harts : Tells(harts[g], RowsOf(g))
<1>1. Init => Inv
  <2> SUFFICES ASSUME Init PROVE Inv
    OBVIOUS
  <2>1. ShapeOK
    BY StartsAlone
  <2>2. ASSUME NEW g \in Harts PROVE Tells(harts[g], RowsOf(g))
    <3>1. RowsOf(g) = <<>> /\ harts[g].x = Zeros
      BY ItemsOfNone DEF Init, RowsOf, HartWith, Zeros
    <3>2. Leads(harts[g], <<>>)
      BY DEF Leads
    <3> QED BY <3>1, <3>2, ReplayedNone, StartsTyped
  <2> QED BY <2>1, <2>2
<1>2. Inv /\ [Next]_vars => Inv'
  <2> SUFFICES ASSUME Inv, [Next]_vars PROVE Inv'
    OBVIOUS
  <2>1. ASSUME NEW g \in Harts
        PROVE  /\ ShapeOK' /\ Typed(harts'[g])
               /\ harts'[g].x = Replayed(RowsOf(g)') /\ Leads(harts'[g], RowsOf(g)')
    <3>1. /\ Typed(harts[g]) /\ harts[g].x = Replayed(RowsOf(g))
          /\ Leads(harts[g], RowsOf(g))
      OBVIOUS
    <3> QED BY <3>1, MovesOfOneHart, MovesKeepRegisters, MovesKeepLeading, StepsKeepTyped
  <2>2. 0 \in Harts
    BY MachineAssumption DEF Harts
  <2>3. \A g \in Harts : /\ Replayed(RowsOf(g)') = Replayed(RowsOf(g))'
                         /\ Leads(harts'[g], RowsOf(g)') = Leads(harts[g], RowsOf(g))'
    OBVIOUS
  <2> QED BY <2>1, <2>2
<1>3. Inv => PcFollowsTrace
  BY DEF PcFollowsTrace, Leads
<1> QED BY <1>1, <1>2, <1>3, PTL DEF Spec

-----------------------------------------------------------------------------
(* The device's side: what an instruction asks of it, and what its row     *)
(* says of the answer.                                                     *)

(* The low s bytes of v fit where they are put, p bytes up; and a lane of  *)
(* a word is that lane of the number the word was cut from.                *)
LaneFits(v, b, s, p) ==
  /\ ((v % b^s) * b^p) % b^4 = (v % b^s) * b^p
  /\ ((v % b^4) \div b^p) % b^s = (v \div b^p) % b^s
LanesFit(v, b) ==
  /\ LaneFits(v, b, 1, 0) /\ LaneFits(v, b, 1, 1) /\ LaneFits(v, b, 1, 2)
  /\ LaneFits(v, b, 1, 3) /\ LaneFits(v, b, 2, 0) /\ LaneFits(v, b, 2, 2)
  /\ LaneFits(v, b, 4, 0)

LEMMA AllLanesFit ==
  ASSUME NEW v \in Int
  PROVE  LanesFit(v, 2) /\ LanesFit(v, 4) /\ LanesFit(v, 16) /\ LanesFit(v, 256)
<1>1. LanesFit(v, 2)
  BY SMT DEF LanesFit, LaneFits
<1>2. LanesFit(v, 4)
  BY SMT DEF LanesFit, LaneFits
<1>3. LanesFit(v, 16)
  BY SMT DEF LanesFit, LaneFits
<1>4. LanesFit(v, 256)
  <2>1. LaneFits(v, 256, 1, 0) /\ LaneFits(v, 256, 4, 0)
    BY SMT DEF LaneFits
  <2>2. LaneFits(v, 256, 1, 1)
    BY SMT DEF LaneFits
  <2>3. LaneFits(v, 256, 1, 2)
    BY SMT DEF LaneFits
  <2>4. LaneFits(v, 256, 1, 3)
    <3>1. ((v % 256^1) * 256^3) % 256^4 = (v % 256^1) * 256^3
      BY SMT
    <3>2. ((v % 256^4) \div 256^3) % 256^1 = (v \div 256^3) % 256^1
      <4> DEFINE q == v \div 256^4
                 r == v % 256^4
      <4>1. q \in Int /\ r \in Int /\ v = 256 * (256^3 * q) + r
        BY SMT
      <4> HIDE DEF q, r
      <4>2. v \div 256^3 = 256 * q + r \div 256^3
        BY <4>1, SMT
      <4> DEFINE s == r \div 256^3
      <4>3. s \in Int /\ v \div 256^3 = 256 * q + s
        BY <4>1, <4>2, SMT
      <4> HIDE DEF s
      <4>4. (v \div 256^3) % 256^1 = s % 256^1
        BY <4>1, <4>3, SMT
      <4> QED BY <4>4 DEF s, r
    <3> QED BY <3>1, <3>2, Zenon DEF LaneFits
  <2>5. LaneFits(v, 256, 2, 0)
    BY SMT DEF LaneFits
  <2>6. LaneFits(v, 256, 2, 2)
    BY SMT DEF LaneFits
  <2> QED BY <2>1, <2>2, <2>3, <2>4, <2>5, <2>6, SMT DEF LanesFit
<1> QED BY <1>1, <1>2, <1>3, <1>4, Zenon

LEMMA LanesAndWords ==
  ASSUME NEW v \in Int, NEW addr \in Nat, NEW size \in {1, 2, 4}, addr % size = 0
  PROVE  /\ Lanes(addr, size, v) = (v % BYTE^size) * BYTE^(addr % 4)
         /\ Lane(w32(v), addr, size) = Lane(v, addr, size)
<1> DEFINE p == addr % 4
<1>1. LanesFit(v, BYTE)
  <2>1. BYTE = 2 \/ BYTE = 4 \/ BYTE = 16 \/ BYTE = 256
    BY WordSizes
  <2> QED BY <2>1, AllLanesFit
<1>2. \/ size = 1 /\ p \in {0, 1, 2, 3}
      \/ size = 2 /\ p \in {0, 2}
      \/ size = 4 /\ p = 0
  BY SMT
<1>3. LaneFits(v, BYTE, size, p)
  <2> HIDE DEF p
  <2> QED BY <1>1, <1>2, Zenon DEF LanesFit
<1>4. w32(v) = v % BYTE^4 /\ \A n : w32(n) = n % BYTE^4
  BY WordSizes, Zenon DEF w32
<1> QED BY <1>3, <1>4, Zenon DEF LaneFits, Lanes, Lane

DeviceAddresses == DEVICE_BASE..2^XLEN - 1

(* c is the one call of the transfer t: for these bytes, and answered if   *)
(* and only if the transfer was done.                                      *)
Reached(t, c, id, addr, size) ==
  /\ t.calls = <<c>> /\ c.hart = id /\ c.addr = addr /\ c.size = size
  /\ addr >= DEVICE_BASE /\ addr % size = 0
  /\ c.answer \in DeviceAnswers
  /\ c.answer = None => t.fault = "bus"
  /\ c.answer # None => t.fault = "no"

ReadAnswers(D, id, addr, size) ==
  \A t \in D :
    \/ t = Fault("bus", None, <<>>)
    \/ \E c : /\ Reached(t, c, id, addr, size) /\ c.is_write = FALSE
              /\ t = IF c.answer = None THEN Fault("bus", None, <<c>>)
                                        ELSE Transfer(w32(c.answer), <<c>>)
WriteAnswers(D, id, addr, size, value) ==
  \A t \in D :
    \/ t = Fault("bus", None, <<>>)
    \/ \E c : /\ Reached(t, c, id, addr, size) /\ c.is_write = TRUE
              /\ c.value = value % BYTE^size

LEMMA DeviceIsReached ==
  ASSUME NEW id, NEW addr, NEW value, NEW size, addr >= DEVICE_BASE, addr % size = 0
  PROVE  /\ ReadAnswers(DispatchDevice(id, addr, FALSE, value, size), id, addr, size)
         /\ WriteAnswers(DispatchDevice(id, addr, TRUE, value, size), id, addr, size, value)
<1>1. CASE DeviceAnswers = {}
  BY <1>1 DEF DispatchDevice, ReadAnswers, WriteAnswers
<1>2. CASE DeviceAnswers # {}
  <2>1. ASSUME NEW t \in DispatchDevice(id, addr, FALSE, value, size)
        PROVE  \E c : /\ Reached(t, c, id, addr, size) /\ c.is_write = FALSE
                      /\ t = IF c.answer = None THEN Fault("bus", None, <<c>>)
                                                ELSE Transfer(w32(c.answer), <<c>>)
    <3>1. PICK answer \in DeviceAnswers :
            t = IF answer = None
                THEN Fault("bus", None, <<Call(id, addr, FALSE, w32(value), size, answer)>>)
                ELSE Transfer(w32(answer), <<Call(id, addr, FALSE, w32(value), size, answer)>>)
      BY <1>2 DEF DispatchDevice
    <3> DEFINE c == Call(id, addr, FALSE, w32(value), size, answer)
    <3>2. /\ c.hart = id /\ c.addr = addr /\ c.size = size /\ c.is_write = FALSE
          /\ c.answer = answer
      BY DEF Call
    <3>3. t = IF answer = None THEN Fault("bus", None, <<c>>) ELSE Transfer(w32(answer), <<c>>)
      BY <3>1
    <3> HIDE DEF c
    <3>4. t.calls = <<c>> /\ t.fault = IF answer = None THEN "bus" ELSE "no"
      BY <3>3 DEF Fault, Transfer
    <3> QED BY <3>2, <3>3, <3>4 DEF Reached
  <2>2. ASSUME NEW t \in DispatchDevice(id, addr, TRUE, value, size)
        PROVE  \E c : /\ Reached(t, c, id, addr, size) /\ c.is_write = TRUE
                      /\ c.value = value % BYTE^size
    <3> DEFINE sent == value % BYTE^size
    <3>1. PICK answer \in DeviceAnswers :
            t = IF answer = None
                THEN Fault("bus", None, <<Call(id, addr, TRUE, sent, size, answer)>>)
                ELSE Transfer(w32(answer), <<Call(id, addr, TRUE, sent, size, answer)>>)
      BY <1>2 DEF DispatchDevice
    <3> DEFINE c == Call(id, addr, TRUE, sent, size, answer)
    <3>2. /\ c.hart = id /\ c.addr = addr /\ c.size = size /\ c.is_write = TRUE
          /\ c.answer = answer /\ c.value = sent
      BY DEF Call
    <3>3. t = IF answer = None THEN Fault("bus", None, <<c>>) ELSE Transfer(w32(answer), <<c>>)
      BY <3>1
    <3> HIDE DEF c
    <3>4. t.calls = <<c>> /\ t.fault = IF answer = None THEN "bus" ELSE "no"
      BY <3>3 DEF Fault, Transfer
    <3>5. Reached(t, c, id, addr, size)
      BY <3>2, <3>4 DEF Reached
    <3> QED BY <3>2, <3>5
  <2> QED BY <2>1, <2>2, Zenon DEF ReadAnswers, WriteAnswers
<1> QED BY <1>1, <1>2

(* A transfer that is done either was not of the device's, or is in a call. *)
HasRead(t, id, addr, size) ==
  \/ t.calls = <<>> /\ (t.fault = "no" => addr < DEVICE_BASE)
  \/ \E c : /\ Reached(t, c, id, addr, size) /\ c.is_write = FALSE
            /\ t.fault = "no" => t.value = Lane(w32(c.answer), addr, size)
HasWritten(t, id, addr, size, value) ==
  \/ t.calls = <<>> /\ (t.fault = "no" => addr < DEVICE_BASE)
  \/ \E c : /\ Reached(t, c, id, addr, size) /\ c.is_write = TRUE
            /\ c.value = value % BYTE^size

LEMMA ReadReaches ==
  ASSUME NEW id, NEW h, NEW addr \in Nat, NEW size \in {1, 2, 4}, NEW word,
         NEW t \in MemRead(id, h, addr, size, word)
  PROVE  HasRead(t, id, addr, size)
<1>1. \/ t = Fault("illegal", word, <<>>) \/ t = Fault("bus", word, <<>>)
      \/ addr + size <= RAM_BYTES /\ t = Transfer(BytesAt(h.mem, addr, size), <<>>)
      \/ /\ addr % size = 0 /\ addr >= DEVICE_BASE
         /\ \E d \in DispatchDevice(id, addr, FALSE, 0, size) :
              t = IF d.fault = "no" THEN [d EXCEPT !.value = Lane(@, addr, size)] ELSE d
  BY DEF MemRead, Checked
<1>2. CASE t = Fault("illegal", word, <<>>) \/ t = Fault("bus", word, <<>>)
  BY <1>2 DEF Fault, HasRead
<1>3. CASE addr + size <= RAM_BYTES /\ t = Transfer(BytesAt(h.mem, addr, size), <<>>)
  <2>1. t.calls = <<>>
    BY <1>3 DEF Transfer
  <2>2. addr < DEVICE_BASE
    BY <1>3, RegionsAssumption
  <2> QED BY <2>1, <2>2 DEF HasRead
<1>4. ASSUME addr % size = 0, addr >= DEVICE_BASE,
             NEW d \in DispatchDevice(id, addr, FALSE, 0, size),
             t = IF d.fault = "no" THEN [d EXCEPT !.value = Lane(@, addr, size)] ELSE d
      PROVE  \/ t.calls = <<>> /\ (t.fault = "no" => addr < DEVICE_BASE)
             \/ \E c : /\ Reached(t, c, id, addr, size) /\ c.is_write = FALSE
                       /\ t.fault = "no" => t.value = Lane(w32(c.answer), addr, size)
  <2>1. CASE d = Fault("bus", None, <<>>)
    BY <1>4, <2>1 DEF Fault
  <2>2. ASSUME NEW c, Reached(d, c, id, addr, size), c.is_write = FALSE,
               d = IF c.answer = None THEN Fault("bus", None, <<c>>)
                                      ELSE Transfer(w32(c.answer), <<c>>)
        PROVE  /\ Reached(t, c, id, addr, size)
               /\ t.fault = "no" => t.value = Lane(w32(c.answer), addr, size)
    <3>1. CASE c.answer = None
      <4>1. t = d /\ d.fault = "bus"
        BY <1>4, <2>2, <3>1 DEF Fault
      <4> QED BY <2>2, <4>1
    <3>2. CASE c.answer # None
      <4>1. /\ t = [d EXCEPT !.value = Lane(d.value, addr, size)] /\ d.fault = "no"
            /\ d = Transfer(w32(c.answer), <<c>>)
        BY <1>4, <2>2, <3>2 DEF Transfer
      <4>2. /\ t.calls = d.calls /\ t.fault = d.fault
            /\ t.value = Lane(w32(c.answer), addr, size)
        BY <4>1 DEF Transfer
      <4> QED BY <2>2, <4>2 DEF Reached
    <3> QED BY <3>1, <3>2
  <2>3. \/ d = Fault("bus", None, <<>>)
        \/ \E c : /\ Reached(d, c, id, addr, size) /\ c.is_write = FALSE
                  /\ d = IF c.answer = None THEN Fault("bus", None, <<c>>)
                                            ELSE Transfer(w32(c.answer), <<c>>)
    <3>1. ReadAnswers(DispatchDevice(id, addr, FALSE, 0, size), id, addr, size)
      BY <1>4, DeviceIsReached
    <3> QED BY <1>4, <3>1, Zenon DEF ReadAnswers
  <2> QED BY <2>1, <2>2, <2>3
<1> QED BY <1>1, <1>2, <1>3, <1>4 DEF HasRead

LEMMA WriteReaches ==
  ASSUME NEW id, NEW addr \in Nat, NEW size \in {1, 2, 4}, NEW value, NEW word,
         NEW t \in MemWrite(id, addr, size, value, word)
  PROVE  HasWritten(t, id, addr, size, value)
<1>1. \/ t = Fault("illegal", word, <<>>) \/ t = Fault("bus", word, <<>>)
      \/ addr + size <= RAM_BYTES /\ t = Transfer(value, <<>>)
      \/ /\ addr % size = 0 /\ addr >= DEVICE_BASE
         /\ t \in DispatchDevice(id, addr, TRUE, value, size)
  BY DEF MemWrite, Checked
<1>2. CASE t = Fault("illegal", word, <<>>) \/ t = Fault("bus", word, <<>>)
  BY <1>2 DEF Fault, HasWritten
<1>3. CASE addr + size <= RAM_BYTES /\ t = Transfer(value, <<>>)
  <2>1. t.calls = <<>>
    BY <1>3 DEF Transfer
  <2>2. addr < DEVICE_BASE
    BY <1>3, RegionsAssumption
  <2> QED BY <2>1, <2>2 DEF HasWritten
<1>4. ASSUME addr % size = 0, addr >= DEVICE_BASE,
             t \in DispatchDevice(id, addr, TRUE, value, size)
      PROVE  \/ t.calls = <<>> /\ t.fault = "bus"
             \/ \E c : /\ Reached(t, c, id, addr, size) /\ c.is_write = TRUE
                       /\ c.value = value % BYTE^size
  <2>1. \/ t = Fault("bus", None, <<>>)
        \/ \E c : /\ Reached(t, c, id, addr, size) /\ c.is_write = TRUE
                  /\ c.value = value % BYTE^size
    <3>1. WriteAnswers(DispatchDevice(id, addr, TRUE, value, size), id, addr, size, value)
      BY <1>4, DeviceIsReached
    <3> QED BY <1>4, <3>1, Zenon DEF WriteAnswers
  <2>2. t = Fault("bus", None, <<>>) => t.calls = <<>> /\ t.fault = "bus"
    BY DEF Fault
  <2> QED BY <2>1, <2>2
<1> QED BY <1>1, <1>2, <1>3, <1>4 DEF HasWritten

(* What an outcome asked of the device, and what its row says of it.       *)
Asked(id, o) ==
  \/ o.calls = <<>> /\ o.row.addr \notin DeviceAddresses
  \/ \E c : /\ o.calls = <<c>> /\ c.hart = id /\ c.addr % c.size = 0
            /\ c.answer \in DeviceAnswers
            /\ c.answer = None => /\ o.hart.halted = "bus"
                                  /\ o.row.addr \notin DeviceAddresses
            /\ c.answer # None => o.row.addr \in DeviceAddresses /\ Matches(o.row, c)

LEMMA NoneIsNoDevice == None \notin DeviceAddresses
BY RegionsAssumption DEF None, DeviceAddresses

LEMMA HaltAsks ==
  ASSUME NEW id, NEW h, NEW reason, NEW word, NEW cs,
         NEW o, o = RecordHalt(id, h, reason, word, cs)
  PROVE  o.row.addr = None /\ o.calls = cs /\ (IsHart(h) => o.hart.halted = reason)
BY DEF RecordHalt, Outcome, HaltRow, Row, IsHart

LEMMA RetireAsks ==
  ASSUME NEW id, NEW h, NEW next, NEW word, NEW rd, NEW value,
         NEW o, o = Retire(id, h, next, word, rd, value)
  PROVE  Asked(id, o)
<1>1. o.row.addr = None /\ o.calls = <<>>
  BY DEF Retire, Outcome, Row
<1> QED BY <1>1, NoneIsNoDevice DEF Asked

(* An address is a word: below the first device, or a device's.            *)
LEMMA AddressOf ==
  ASSUME NEW h, Typed(h), NEW i, NEW word, IsInstruction(i, word),
         NEW addr, addr = w32(Source1(h, i) + i.imm)
  PROVE  addr \in Nat /\ (addr \in DeviceAddresses <=> addr >= DEVICE_BASE)
<1>1. Source1(h, i) \in Int /\ i.imm \in Int
  BY Sources, WordsAreIntegers DEF IsInstruction
<1>2. Source1(h, i) + i.imm \in Int
  BY <1>1
<1>3. addr \in Word /\ addr \in Nat
  BY <1>2, CutToWord, WordsAreIntegers
<1>4. 2^XLEN \in Int
  BY WordSizes
<1> QED BY <1>3, <1>4, RegionsAssumption DEF Word, DeviceAddresses

LEMMA LoadAsks ==
  ASSUME NEW id, NEW h, Typed(h), NEW i, NEW word, IsInstruction(i, word),
         i.op \in DOMAIN LOADS, NEW o \in Load(id, h, i, word)
  PROVE  Asked(id, o)
<1> DEFINE size == LOADS[i.op]
           addr == w32(Source1(h, i) + i.imm)
<1>1. size \in {1, 2, 4} /\ i.op \notin DOMAIN STORES
  BY DEF LOADS, STORES
<1>2. PICK t \in MemRead(id, h, addr, size, word) : \E next, value :
        o = IF t.fault # "no" THEN RecordHalt(id, h, t.fault, t.word, t.calls)
            ELSE Outcome(next, Row(id, h.pc, word, i.rd, value, i.op, addr, size,
                                   t.value, "no"), t.calls)
  BY DEF Load
<1>3. addr = w32(Source1(h, i) + i.imm)
  OBVIOUS
<1> HIDE DEF size, addr
<1>4. addr \in Nat /\ (addr \in DeviceAddresses <=> addr >= DEVICE_BASE)
  BY <1>3, AddressOf
<1>5. \/ t.calls = <<>> /\ (t.fault = "no" => addr < DEVICE_BASE)
      \/ \E c : /\ Reached(t, c, id, addr, size) /\ c.is_write = FALSE
                /\ t.fault = "no" => t.value = Lane(w32(c.answer), addr, size)
  <2>1. HasRead(t, id, addr, size)
    BY <1>1, <1>2, <1>4, ReadReaches
  <2> QED BY <2>1, Zenon DEF HasRead
<1>6. CASE t.fault # "no"
  <2>1. o.row.addr \notin DeviceAddresses /\ o.calls = t.calls /\ o.hart.halted = t.fault
    BY <1>2, <1>6, HaltAsks, NoneIsNoDevice DEF Typed
  <2> QED BY <1>5, <1>6, <2>1 DEF Asked, Reached
<1>7. CASE t.fault = "no"
  <2>1. /\ o.calls = t.calls /\ o.row.hart = id /\ o.row.addr = addr /\ o.row.size = size
        /\ o.row.mem_op = i.op /\ o.row.value = t.value
    BY <1>2, <1>7 DEF Outcome, Row
  <2>2. CASE t.calls = <<>> /\ addr < DEVICE_BASE
    <3>1. addr \notin DeviceAddresses
      BY <1>4, <2>2, RegionsAssumption
    <3> QED BY <2>1, <2>2, <3>1 DEF Asked
  <2>3. ASSUME NEW c, Reached(t, c, id, addr, size), c.is_write = FALSE,
               t.value = Lane(w32(c.answer), addr, size)
        PROVE  Asked(id, o)
    <3>1. /\ t.calls = <<c>> /\ c.hart = id /\ c.addr = addr /\ c.size = size
          /\ addr >= DEVICE_BASE /\ addr % size = 0 /\ c.answer \in DeviceAnswers
          /\ c.answer # None
      BY <1>7, <2>3 DEF Reached
    <3>2. Lane(w32(c.answer), addr, size) = Lane(c.answer, addr, size)
      BY <1>1, <1>4, <3>1, InstructionsAssumption, LanesAndWords
    <3>3. Matches(o.row, c)
      <4>1. o.row.value = Lane(c.answer, c.addr, c.size)
        BY <2>1, <2>3, <3>1, <3>2, Zenon
      <4>2. o.row.mem_op \notin DOMAIN STORES
        BY <1>1, <2>1
      <4>3. c.is_write = (o.row.mem_op \in DOMAIN STORES)
        <5>1. (o.row.mem_op \in DOMAIN STORES) = FALSE
          BY <4>2
        <5> QED BY <2>3, <5>1, Zenon
      <4> QED BY <2>1, <2>3, <3>1, <4>1, <4>3 DEF Matches
    <3> QED BY <1>4, <2>1, <3>1, <3>3 DEF Asked
  <2> QED BY <1>5, <1>7, <2>2, <2>3
<1> QED BY <1>6, <1>7

LEMMA StoreAsks ==
  ASSUME NEW id, NEW h, Typed(h), NEW i, NEW word, IsInstruction(i, word),
         i.op \in DOMAIN STORES, NEW o \in Store(id, h, i, word)
  PROVE  Asked(id, o)
<1> DEFINE size == STORES[i.op]
           addr == w32(Source1(h, i) + i.imm)
           value == Source2(h, i)
<1>1. size \in {1, 2, 4} /\ value \in Int
  <2>1. size \in {1, 2, 4}
    BY DEF STORES
  <2>2. value \in Int
    BY Sources, WordsAreIntegers
  <2> QED BY <2>1, <2>2
<1>2. PICK t \in MemWrite(id, addr, size, value, word) : \E next :
        o = IF t.fault # "no" THEN RecordHalt(id, h, t.fault, t.word, t.calls)
            ELSE Outcome(next, Row(id, h.pc, word, None, None, i.op, addr, size,
                                   Lanes(addr, size, value), "no"), t.calls)
  BY DEF Store
<1>3. addr = w32(Source1(h, i) + i.imm)
  OBVIOUS
<1> HIDE DEF size, addr, value
<1>4. addr \in Nat /\ (addr \in DeviceAddresses <=> addr >= DEVICE_BASE)
  BY <1>3, AddressOf
<1>5. \/ t.calls = <<>> /\ (t.fault = "no" => addr < DEVICE_BASE)
      \/ \E c : /\ Reached(t, c, id, addr, size) /\ c.is_write = TRUE
                /\ c.value = value % BYTE^size
  <2>1. HasWritten(t, id, addr, size, value)
    BY <1>1, <1>2, <1>4, WriteReaches
  <2> QED BY <2>1, Zenon DEF HasWritten
<1>6. CASE t.fault # "no"
  <2>1. o.row.addr \notin DeviceAddresses /\ o.calls = t.calls /\ o.hart.halted = t.fault
    BY <1>2, <1>6, HaltAsks, NoneIsNoDevice DEF Typed
  <2> QED BY <1>5, <1>6, <2>1 DEF Asked, Reached
<1>7. CASE t.fault = "no"
  <2>1. /\ o.calls = t.calls /\ o.row.hart = id /\ o.row.addr = addr /\ o.row.size = size
        /\ o.row.mem_op = i.op /\ o.row.value = Lanes(addr, size, value)
    BY <1>2, <1>7 DEF Outcome, Row
  <2>2. CASE t.calls = <<>> /\ addr < DEVICE_BASE
    <3>1. addr \notin DeviceAddresses
      BY <1>4, <2>2, RegionsAssumption
    <3> QED BY <2>1, <2>2, <3>1 DEF Asked
  <2>3. ASSUME NEW c, Reached(t, c, id, addr, size), c.is_write = TRUE,
               c.value = value % BYTE^size
        PROVE  Asked(id, o)
    <3>1. /\ t.calls = <<c>> /\ c.hart = id /\ c.addr = addr /\ c.size = size
          /\ addr >= DEVICE_BASE /\ addr % size = 0 /\ c.answer \in DeviceAnswers
          /\ c.answer # None
      BY <1>7, <2>3 DEF Reached
    <3>2. Lanes(addr, size, value) = (value % BYTE^size) * BYTE^(addr % 4)
      BY <1>1, <1>4, <3>1, LanesAndWords
    <3>3. Matches(o.row, c)
      <4>1. o.row.value = c.value * BYTE^(o.row.addr % 4)
        BY <2>1, <2>3, <3>2, Zenon
      <4> QED BY <2>1, <2>3, <3>1, <4>1, Zenon DEF Matches
    <3> QED BY <1>4, <2>1, <3>1, <3>3 DEF Asked
  <2> QED BY <1>5, <1>7, <2>2, <2>3
<1> QED BY <1>6, <1>7

LEMMA OutcomesAsk ==
  ASSUME NEW id, NEW h, Typed(h), NEW o \in Outcomes(id, h)
  PROVE  Asked(id, o)
<1> DEFINE word == Fetched(h)
           i == Decoded[word]
<1>1. \/ \E reason \in {"illegal", "bus"} : \E w : o = RecordHalt(id, h, reason, w, <<>>)
      \/ word \in DOMAIN Decoded /\ o \in Executed(id, h, i, word)
  BY DEF Outcomes
<1>2. ASSUME NEW reason, NEW w, o = RecordHalt(id, h, reason, w, <<>>)
      PROVE  Asked(id, o)
  BY <1>2, HaltAsks, NoneIsNoDevice DEF Asked
<1>3. ASSUME word \in DOMAIN Decoded, o \in Executed(id, h, i, word)
      PROVE  Asked(id, o)
  <2>1. IsInstruction(i, word)
    BY <1>3, InstructionsAssumption DEF IsInstruction
  <2> HIDE DEF word, i
  <2>2. CASE i.op \in DOMAIN LOADS
    <3>1. o \in Load(id, h, i, word)
      BY <1>3, <2>2 DEF Executed, OPS, OPIMM, LOADS
    <3> QED BY <2>1, <2>2, <3>1, LoadAsks
  <2>3. CASE i.op \in DOMAIN STORES
    <3>1. o \in Store(id, h, i, word)
      BY <1>3, <2>3 DEF Executed, OPS, OPIMM, LOADS, STORES
    <3> QED BY <2>1, <2>3, <3>1, StoreAsks
  <2>4. CASE i.op \notin DOMAIN LOADS \cup DOMAIN STORES
    <3>1. \/ o = RecordHalt(id, h, i.op, word, <<>>)
          \/ o \in Compute(id, h, i, word) \/ o \in Branch(id, h, i, word)
          \/ o \in Jump(id, h, i, word) \/ o = Retire(id, h, Advance(h), word, 0, 0)
      BY <1>3, <2>4, Zenon DEF Executed
    <3>2. \/ o = RecordHalt(id, h, i.op, word, <<>>)
          \/ \E next, rd, value : o = Retire(id, h, next, word, rd, value)
      BY <3>1, Zenon DEF Compute, WriteBack, Branch, Jump
    <3> QED BY <1>2, <3>2, RetireAsks
  <2> QED BY <2>2, <2>3, <2>4
<1> QED BY <1>1, <1>2, <1>3

-----------------------------------------------------------------------------
(* The calls and the rows, paired.                                         *)

LEMMA KeptOfLonger ==
  ASSUME NEW field, NEW values, NEW s, NEW e, IsSequence(s)
  PROVE  /\ IsSequence(Kept(s, field, values))
         /\ Kept(Append(s, e), field, values) =
              IF e[field] \in values THEN Append(Kept(s, field, values), e)
                                    ELSE Kept(s, field, values)
<1> DEFINE S == Range(s) \cup {e}
<1>1. s \in Seq(S) /\ e \in S
  BY DEF IsSequence
<1> HIDE DEF S
<1>2. /\ Kept(s, field, values) \in Seq(S)
      /\ Kept(Append(s, e), field, values) =
           IF e[field] \in values THEN Append(Kept(s, field, values), e)
                                 ELSE Kept(s, field, values)
  BY <1>1, KeptLonger
<1> QED BY <1>2, Narrowed

(* Rows of no device, after the others, are not kept.                      *)
LEMMA KeptBefore ==
  ASSUME NEW field, NEW values, NEW r, NEW s, IsSequence(r), IsSequence(s),
         \A e \in Range(s) : e[field] \notin values
  PROVE  Kept(r \o s, field, values) = Kept(r, field, values)
<1> DEFINE S == Range(r) \cup Range(s)
<1>1. r \in Seq(S) /\ s \in Seq(S) /\ s \in Seq(Range(s)) /\ r \in Seq(Range(r))
  BY DEF IsSequence
<1>2. {e \in Range(s) : e[field] \in values} = {}
  OBVIOUS
<1>3. Kept(s, field, values) \in Seq({})
  BY <1>1, <1>2, KeptThose
<1>4. Kept(r \o s, field, values) = Kept(r, field, values) \o Kept(s, field, values)
  <2> HIDE DEF S
  <2> QED BY <1>1, KeptTwo
<1>5. Kept(r, field, values) \in Seq({e \in Range(r) : e[field] \in values})
  BY <1>1, KeptThose
<1> QED BY <1>3, <1>4, <1>5

Pairs(rows, asked) ==
  /\ IsSequence(rows) /\ IsSequence(asked) /\ Len(rows) = Len(asked)
  /\ \A k \in DOMAIN rows : Matches(rows[k], asked[k])

LEMMA OnePairMore ==
  ASSUME NEW rows, NEW asked, Pairs(rows, asked), NEW r, NEW c, Matches(r, c)
  PROVE  Pairs(Append(rows, r), Append(asked, c))
<1> DEFINE S == Range(rows) \cup Range(asked) \cup {r, c}
           n == Len(rows)
           more == Append(rows, r)
           most == Append(asked, c)
<1>1. rows \in Seq(S) /\ asked \in Seq(S) /\ r \in S /\ c \in S /\ Len(rows) = Len(asked)
  BY DEF Pairs, IsSequence
<1>2. /\ n \in Nat /\ DOMAIN more = 1..n + 1 /\ Len(more) = n + 1 /\ Len(most) = n + 1
      /\ more[n + 1] = r /\ most[n + 1] = c /\ more \in Seq(S) /\ most \in Seq(S)
      /\ \A k \in 1..n : more[k] = rows[k] /\ most[k] = asked[k]
      /\ DOMAIN rows = 1..n
  <2> HIDE DEF S
  <2> QED BY <1>1
<1>3. IsSequence(more) /\ IsSequence(most)
  <2> HIDE DEF S, more, most
  <2> QED BY <1>2, Narrowed
<1>4. ASSUME NEW k \in 1..n + 1 PROVE Matches(more[k], most[k])
  <2>1. k = n + 1 \/ k \in 1..n
    BY <1>2
  <2> HIDE DEF more, most
  <2> QED BY <1>2, <2>1 DEF Pairs
<1> QED BY <1>2, <1>3, <1>4 DEF Pairs

Answers == DeviceAnswers \ {None}
CallsOK ==
  /\ Pairs(DeviceRows, AnsweredCalls)
  /\ \A c \in Range(calls) : /\ c.hart \in Harts /\ c.addr % c.size = 0
                             /\ c.answer = None => harts[c.hart].halted = "bus"

LEMMA BudgetRowsReachNone ==
  ASSUME NEW hs
  PROVE  /\ IsSequence(BudgetRows(hs))
         /\ \A r \in Range(BudgetRows(hs)) : r["addr"] \notin DeviceAddresses
<1> DEFINE S == {EndRow(hs, h) : h \in {g \in Harts : hs[g].halted = "no"}}
<1>1. BudgetRows(hs) \in Seq(S)
  BY BudgetRowsAre
<1>2. \A h : EndRow(hs, h)["addr"] = None
  BY DEF EndRow, HaltRow, Row
<1>3. \A r \in S : r["addr"] \notin DeviceAddresses
  BY <1>2, NoneIsNoDevice
<1> HIDE DEF S
<1> QED BY <1>1, <1>3, Narrowed

LEMMA DeviceRowsAre == DeviceRows = Kept(trace, "addr", DeviceAddresses)
BY DEF DeviceRows, DeviceAddresses

LEMMA StepsKeepCalls ==
  ASSUME ShapeOK, \A g \in Harts : Typed(harts[g]), CallsOK, [Next]_vars
  PROVE  CallsOK'
<1>0. IsSequence(trace) /\ IsSequence(calls)
  BY DEF ShapeOK
<1>1. CASE Idle
  BY <1>1 DEF Idle, machineVars, CallsOK, DeviceRows, AnsweredCalls
<1>2. CASE Ended
  <2>1. /\ harts' = Stopped(harts) /\ trace' = trace \o BudgetRows(harts) /\ calls' = calls
    BY <1>2 DEF Ended, HaltAtBudget
  <2>2. Kept(trace', "addr", DeviceAddresses) = Kept(trace, "addr", DeviceAddresses)
    BY <1>0, <2>1, BudgetRowsReachNone, KeptBefore
  <2>3. DeviceRows' = DeviceRows /\ AnsweredCalls' = AnsweredCalls
    BY <2>1, <2>2 DEF DeviceRows, DeviceAddresses, AnsweredCalls
  <2>4. \A g \in Harts : harts[g].halted = "bus" => harts'[g].halted = "bus"
    BY <2>1 DEF Stopped
  <2> QED BY <2>1, <2>3, <2>4 DEF CallsOK
<1>3. ASSUME NEW h \in Harts, Stepped(h) PROVE CallsOK'
  <2>1. PICK o \in Outcomes(h, harts[h]) : Take(h, o)
    BY <1>3 DEF Stepped
  <2>2. harts[h].halted = "no"
    BY <1>3 DEF Stepped, Active
  <2> DEFINE after == After(h, o)
             ended == IF Spends(o) THEN BudgetRows(after) ELSE <<>>
             rows == Append(trace, o.row)
  <2>3. /\ harts' = IF Spends(o) THEN Stopped(after) ELSE after
        /\ trace' = rows \o ended
        /\ calls' = calls \o o.calls
    BY <2>1 DEF Take, After, Spends
  <2>4. Asked(h, o)
    BY OutcomesAsk
  <2>5. \A g \in Harts : after[g] = IF g = h THEN o.hart ELSE harts[g]
    BY DEF After, ShapeOK
  <2>6. \A g \in Harts : after[g].halted = "bus" => harts'[g].halted = "bus"
    <3> HIDE DEF after
    <3> QED BY <2>3 DEF Stopped
  <2>7. \A g \in Harts : harts[g].halted = "bus" => harts'[g].halted = "bus"
    <3> HIDE DEF after
    <3> QED BY <2>2, <2>5, <2>6
  <2>8. IsSequence(ended) /\ \A r \in Range(ended) : r["addr"] \notin DeviceAddresses
    <3>1. IsSequence(<<>>) /\ Range(<<>>) = {}
      BY DEF IsSequence, Range
    <3> HIDE DEF after
    <3> QED BY <3>1, BudgetRowsReachNone
  <2> HIDE DEF ended
  <2>9. IsSequence(rows)
    BY <1>0, ItemsOfMore
  <2>10. Kept(trace', "addr", DeviceAddresses) = Kept(rows, "addr", DeviceAddresses)
    <3> HIDE DEF rows
    <3> QED BY <2>3, <2>8, <2>9, KeptBefore
  <2>11. DeviceRows' = IF o.row["addr"] \in DeviceAddresses THEN Append(DeviceRows, o.row)
                                                            ELSE DeviceRows
    <3> DEFINE r == o.row
    <3>1. Kept(rows, "addr", DeviceAddresses) =
            IF o.row["addr"] \in DeviceAddresses
            THEN Append(Kept(trace, "addr", DeviceAddresses), o.row)
            ELSE Kept(trace, "addr", DeviceAddresses)
      <4> HIDE DEF r
      <4>1. Kept(Append(trace, r), "addr", DeviceAddresses) =
              IF r["addr"] \in DeviceAddresses
              THEN Append(Kept(trace, "addr", DeviceAddresses), r)
              ELSE Kept(trace, "addr", DeviceAddresses)
        BY <1>0, KeptOfLonger
      <4> QED BY <4>1, Zenon DEF r
    <3>2. DeviceRows' = Kept(trace', "addr", DeviceAddresses)
      BY DEF DeviceRows, DeviceAddresses
    <3> HIDE DEF rows
    <3> QED BY <2>10, <3>1, <3>2, DeviceRowsAre, Zenon
  <2>12. o.row["addr"] = o.row.addr
    OBVIOUS
  <2>13. CASE o.calls = <<>> /\ o.row.addr \notin DeviceAddresses
    <3>1. calls' = calls
      <4>1. calls \o <<>> = calls
        BY <1>0, ItemsOfJoined
      <4> QED BY <2>3, <2>13, <4>1
    <3>2. DeviceRows' = DeviceRows /\ AnsweredCalls' = AnsweredCalls
      BY <2>11, <2>12, <2>13, <3>1 DEF AnsweredCalls
    <3> HIDE DEF rows, after
    <3> QED BY <2>7, <3>1, <3>2 DEF CallsOK
  <2>14. ASSUME NEW c, o.calls = <<c>>, c.hart = h, c.addr % c.size = 0,
                c.answer \in DeviceAnswers,
                c.answer = None => o.hart.halted = "bus" /\ o.row.addr \notin DeviceAddresses,
                c.answer # None => o.row.addr \in DeviceAddresses /\ Matches(o.row, c)
         PROVE  CallsOK'
    <3>1. calls' = Append(calls, c) /\ Range(calls') = Range(calls) \cup {c}
      <4>1. calls \o <<c>> = Append(calls, c)
        BY <1>0, AppendIsConcat DEF IsSequence
      <4>2. Range(Append(calls, c)) = Range(calls) \cup {c}
        BY <1>0, ItemsOfMore
      <4> QED BY <2>3, <2>14, <4>1, <4>2
    <3>2. AnsweredCalls' = IF c.answer # None THEN Append(AnsweredCalls, c) ELSE AnsweredCalls
      <4>1. Kept(Append(calls, c), "answer", Answers) =
              IF c["answer"] \in Answers THEN Append(Kept(calls, "answer", Answers), c)
                                         ELSE Kept(calls, "answer", Answers)
        BY <1>0, KeptOfLonger
      <4>2. c["answer"] = c.answer /\ (c.answer \in Answers <=> c.answer # None)
        BY <2>14 DEF Answers
      <4>3. /\ AnsweredCalls = Kept(calls, "answer", Answers)
            /\ AnsweredCalls' = Kept(calls', "answer", Answers)
        BY DEF AnsweredCalls, Answers
      <4> QED BY <3>1, <4>1, <4>2, <4>3
    <3>3. Pairs(DeviceRows', AnsweredCalls')
      <4>1. Pairs(DeviceRows, AnsweredCalls)
        BY DEF CallsOK
      <4>2. CASE c.answer # None
        <5>1. /\ DeviceRows' = Append(DeviceRows, o.row)
              /\ AnsweredCalls' = Append(AnsweredCalls, c) /\ Matches(o.row, c)
          BY <2>11, <2>12, <2>14, <3>2, <4>2
        <5> QED BY <4>1, <5>1, OnePairMore
      <4>3. CASE c.answer = None
        <5>1. DeviceRows' = DeviceRows /\ AnsweredCalls' = AnsweredCalls
          BY <2>11, <2>12, <2>14, <3>2, <4>3
        <5> QED BY <4>1, <5>1
      <4> QED BY <4>2, <4>3
    <3>4. c.answer = None => harts'[h].halted = "bus"
      <4> HIDE DEF after
      <4> QED BY <2>5, <2>6, <2>14
    <3>5. ASSUME NEW d \in Range(calls')
          PROVE  /\ d.hart \in Harts /\ d.addr % d.size = 0
                 /\ d.answer = None => harts'[d.hart].halted = "bus"
      <4>1. CASE d = c
        BY <2>14, <3>4, <4>1
      <4>2. CASE d \in Range(calls)
        <5> HIDE DEF after, rows
        <5> QED BY <2>7, <4>2 DEF CallsOK
      <4> QED BY <3>1, <3>5, <4>1, <4>2
    <3>6. Range(calls)' = Range(calls')
      OBVIOUS
    <3> HIDE DEF after, rows
    <3> QED BY <3>3, <3>5 DEF CallsOK
  <2> HIDE DEF after, rows
  <2> QED BY <2>4, <2>13, <2>14, Zenon DEF Asked
<1> QED BY <1>1, <1>2, <1>3, WaysToStep

(* tools/rv32iss.py, _dispatch_device, mem_read and mem_write: a device is *)
(* asked once for each load or store that reaches it, in the order of the  *)
(* rows, with the lanes the row shows, and never misaligned; if it does    *)
(* not answer there is no such row, and the hart has a bus halt.           *)
THEOREM DeviceCallsAreTraced == Spec => []DeviceCallsTraced
<1> DEFINE Inv == ShapeOK /\ (\A g \in Harts : Typed(harts[g])) /\ CallsOK
<1>1. Init => Inv
  <2> SUFFICES ASSUME Init PROVE Inv
    OBVIOUS
  <2>1. trace = <<>> /\ calls = <<>>
    BY DEF Init
  <2>2. DeviceRows = <<>> /\ AnsweredCalls = <<>>
    BY <2>1, KeptNone DEF DeviceRows, AnsweredCalls
  <2>3. Pairs(<<>>, <<>>) /\ Range(<<>>) = {}
    BY DEF Pairs, IsSequence, Range
  <2> QED BY <2>1, <2>2, <2>3, StartsAlone, StartsTyped DEF CallsOK
<1>2. Inv /\ [Next]_vars => Inv'
  <2> SUFFICES ASSUME Inv, [Next]_vars PROVE Inv'
    OBVIOUS
  <2>1. ASSUME NEW g \in Harts PROVE ShapeOK' /\ Typed(harts'[g])
    BY MovesOfOneHart, StepsKeepTyped
  <2>2. 0 \in Harts
    BY MachineAssumption DEF Harts
  <2> QED BY <2>1, <2>2, StepsKeepCalls
<1>3. Inv => DeviceCallsTraced
  BY DEF CallsOK, Pairs, DeviceCallsTraced
<1> QED BY <1>1, <1>2, <1>3, PTL DEF Spec

=============================================================================
