----------------------------- MODULE WValueProofs -----------------------------
(***************************************************************************)
(* Proof that the values of the method channel are counted right, whatever *)
(* the callers make, keep, put into one another and give up, and however   *)
(* deep what is given up goes.                                             *)
(***************************************************************************)
EXTENDS WValue, FiniteSetTheorems, WellFoundedInduction, TLAPS

-----------------------------------------------------------------------------
(***************************************************************************)
(* Recursion over the natural numbers, and the loops.                      *)
(***************************************************************************)
\* A set of numbers with the successor of each of its numbers has all.
LEMMA AllNumbers ==
  ASSUME NEW T, 0 \in T, \A n \in Nat : n \in T => n + 1 \in T
  PROVE  Nat \subseteq T
<1> SUFFICES ASSUME Nat \ T # {} PROVE FALSE
  OBVIOUS
<1> DEFINE R == {ss \in Nat \X Nat : ss[1] < ss[2]}
           U == Nat \ T
<1>1. IsWellFoundedOn(R, Nat)
  BY NatLessThanWellFounded DEF OpToRel
<1>2. PICK x \in U : \A y \in U : <<y, x>> \notin R
  <2>1. U \subseteq Nat /\ U # {}
    OBVIOUS
  <2> HIDE DEF U, R
  <2> QED BY <1>1, <2>1, WFMin
<1>3. x \in Nat /\ x # 0
  BY <1>2
<1>4. x - 1 \in Nat /\ <<x - 1, x>> \in R
  BY <1>3
<1>5. x - 1 \in T
  BY <1>2, <1>4
<1>6. (x - 1) + 1 \in T
  BY <1>4, <1>5
<1> QED BY <1>2, <1>3, <1>6

\* f holds the first k results of a loop.
Walk(f, op, base, seq, k) ==
  /\ f = [i \in 0 .. k |-> f[i]]
  /\ f[0] = base
  /\ \A i \in 1 .. k : f[i] = op[f[i - 1]][seq[i]]

\* However far a loop goes.
LEMMA WalksExist ==
  ASSUME NEW op, NEW base, NEW seq
  PROVE  \A k \in Nat : \E f : Walk(f, op, base, seq, k)
<1> DEFINE T == {k \in Nat : \E f : Walk(f, op, base, seq, k)}
<1>1. 0 \in T
  <2> DEFINE f == [i \in 0 .. 0 |-> base]
  <2>1. Walk(f, op, base, seq, 0)
    BY DEF Walk
  <2> QED BY <2>1
<1>2. ASSUME NEW k \in Nat, k \in T PROVE k + 1 \in T
  <2>1. PICK f : Walk(f, op, base, seq, k)
    BY <1>2
  <2> DEFINE g == [i \in 0 .. k + 1 |-> IF i <= k THEN f[i]
                                       ELSE op[f[k]][seq[k + 1]]]
  <2>2. g = [i \in 0 .. k + 1 |-> g[i]] /\ g[0] = base
    <3>1. 0 <= k /\ 0 \in 0 .. k + 1 /\ f[0] = base
      BY <2>1 DEF Walk
    <3> QED BY <3>1
  <2>3. ASSUME NEW i \in 1 .. k + 1 PROVE g[i] = op[g[i - 1]][seq[i]]
    <3>1. CASE i \in 1 .. k
      <4>1. i - 1 \in 0 .. k + 1 /\ i - 1 <= k /\ i <= k /\ i \in 0 .. k + 1
        BY <3>1
      <4>2. g[i] = f[i] /\ g[i - 1] = f[i - 1]
        BY <4>1
      <4>3. f[i] = op[f[i - 1]][seq[i]]
        BY <2>1, <3>1 DEF Walk
      <4> QED BY <4>2, <4>3
    <3>2. CASE i = k + 1
      <4>1. i - 1 = k /\ ~(i <= k) /\ k \in 0 .. k + 1 /\ i \in 0 .. k + 1
        BY <3>2
      <4>2. g[i] = op[f[k]][seq[i]] /\ g[k] = f[k]
        BY <3>2, <4>1
      <4> QED BY <4>1, <4>2
    <3> QED BY <3>1, <3>2
  <2>4. Walk(g, op, base, seq, k + 1)
    <3> HIDE DEF g
    <3> QED BY <2>2, <2>3 DEF Walk
  <2> QED BY <2>4
<1>3. Nat \subseteq T
  <2> HIDE DEF T
  <2> QED BY <1>1, <1>2, AllNumbers
<1> QED BY <1>3

\* A longer walk starts like a shorter one.
LEMMA WalksAgree ==
  ASSUME NEW op, NEW base, NEW seq, NEW k \in Nat, NEW l \in Nat, k <= l,
         NEW f, Walk(f, op, base, seq, k), NEW g, Walk(g, op, base, seq, l)
  PROVE  \A i \in 0 .. k : f[i] = g[i]
<1> DEFINE T == {i \in Nat : i <= k => f[i] = g[i]}
<1>1. 0 \in T
  BY DEF Walk
<1>2. ASSUME NEW i \in Nat, i \in T, i + 1 <= k PROVE f[i + 1] = g[i + 1]
  <2>1. i + 1 \in 1 .. k /\ i + 1 \in 1 .. l /\ (i + 1) - 1 = i /\ i <= k
    BY <1>2
  <2>2. /\ f[i + 1] = op[f[(i + 1) - 1]][seq[i + 1]]
        /\ g[i + 1] = op[g[(i + 1) - 1]][seq[i + 1]]
    BY <2>1 DEF Walk
  <2> QED BY <1>2, <2>1, <2>2
<1>3. Nat \subseteq T
  <2>1. \A i \in Nat : i \in T => i + 1 \in T
    BY <1>2
  <2> HIDE DEF T
  <2> QED BY <1>1, <2>1, AllNumbers
<1> QED BY <1>3

\* f holds all results of a loop without an end.
Endless(f, op, base, seq) ==
  /\ f = [i \in Nat |-> f[i]]
  /\ f[0] = base
  /\ \A i \in Nat : f[i + 1] = op[f[i]][seq[i + 1]]

LEMMA EndlessWalk ==
  ASSUME NEW op, NEW base, NEW seq
  PROVE  \E f : Endless(f, op, base, seq)
<1> DEFINE W(k) == CHOOSE f : Walk(f, op, base, seq, k)
           f == [i \in Nat |-> W(i)[i]]
<1>1. ASSUME NEW k \in Nat PROVE Walk(W(k), op, base, seq, k)
  <2>1. \E g : Walk(g, op, base, seq, k)
    BY WalksExist
  <2> QED BY <2>1
<1>2. f = [i \in Nat |-> f[i]]
  <2> HIDE DEF W
  <2>1. f \in [Nat -> {W(i)[i] : i \in Nat}]
    OBVIOUS
  <2> HIDE DEF f
  <2> QED BY <2>1
<1>3. f[0] = base
  BY <1>1 DEF Walk
<1>4. ASSUME NEW i \in Nat PROVE f[i + 1] = op[f[i]][seq[i + 1]]
  <2>1. /\ Walk(W(i), op, base, seq, i)
        /\ Walk(W(i + 1), op, base, seq, i + 1)
    BY <1>1
  <2> HIDE DEF W
  <2>2. W(i)[i] = W(i + 1)[i]
    <3>1. i <= i + 1 /\ i + 1 \in Nat /\ i \in 0 .. i
      OBVIOUS
    <3> QED BY <2>1, <3>1, WalksAgree
  <2>3. W(i + 1)[i + 1] = op[W(i + 1)[i]][seq[i + 1]]
    <3>1. i + 1 \in 1 .. i + 1 /\ (i + 1) - 1 = i
      OBVIOUS
    <3> QED BY <2>1, <3>1 DEF Walk
  <2> QED BY <2>2, <2>3
<1> HIDE DEF f
<1>5. Endless(f, op, base, seq)
  BY <1>2, <1>3, <1>4, Zenon DEF Endless
<1> QED BY <1>5

\* What a loop computes, step by step.
LEMMA ThroughIs ==
  ASSUME NEW op, NEW base, NEW seq, Len(seq) \in Nat
  PROVE  \E f : Walk(f, op, base, seq, Len(seq))
                /\ Through(op, base, seq) = f[Len(seq)]
<1> DEFINE k == Len(seq)
           D(f) == [i \in 0 .. k |-> IF i = 0 THEN base
                                            ELSE op[f[i - 1]][seq[i]]]
           done == CHOOSE f : f = D(f)
<1>1. PICK f : Walk(f, op, base, seq, k)
  BY WalksExist
<1>2. f = D(f)
  <2>1. \A i \in 0 .. k : f[i] = IF i = 0 THEN base ELSE op[f[i - 1]][seq[i]]
    BY <1>1 DEF Walk
  <2>2. f = [i \in 0 .. k |-> f[i]]
    BY <1>1, Zenon DEF Walk
  <2> QED BY <2>1, <2>2, Zenon
<1>3. done = D(done)
  BY <1>2, Zenon
<1>4. Through(op, base, seq) = done[k]
  BY DEF Through
<1> HIDE DEF done
<1>5. Walk(done, op, base, seq, k)
  <2>1. \A i \in 0 .. k :
          done[i] = IF i = 0 THEN base ELSE op[done[i - 1]][seq[i]]
    BY <1>3
  <2>2. done = [i \in 0 .. k |-> done[i]]
    BY <1>3
  <2> HIDE DEF k
  <2>3. done[0] = base
    <3>1. 0 \in 0 .. k
      BY DEF k
    <3> QED BY <2>1, <3>1
  <2>4. \A i \in 1 .. k : done[i] = op[done[i - 1]][seq[i]]
    BY <2>1 DEF k
  <2> QED BY <2>2, <2>3, <2>4, Zenon DEF Walk
<1> QED BY <1>4, <1>5

\* A loop over seq goes from one set of good[0], good[1], ... to the next.
LEMMA ThroughStays ==
  ASSUME NEW op, NEW base, NEW seq, Len(seq) \in Nat, NEW good,
         base \in good[0],
         \A i \in 1 .. Len(seq) :
           \A x \in good[i - 1] : op[x][seq[i]] \in good[i]
  PROVE  Through(op, base, seq) \in good[Len(seq)]
<1> DEFINE k == Len(seq)
<1>1. PICK f : Walk(f, op, base, seq, k) /\ Through(op, base, seq) = f[k]
  BY ThroughIs
<1> DEFINE T == {i \in Nat : i <= k => f[i] \in good[i]}
<1>2. 0 \in T
  BY <1>1 DEF Walk
<1>3. ASSUME NEW i \in Nat, i \in T, i + 1 <= k PROVE f[i + 1] \in good[i + 1]
  <2>1. i + 1 \in 1 .. k /\ (i + 1) - 1 = i /\ i <= k
    BY <1>3
  <2>2. f[i + 1] = op[f[(i + 1) - 1]][seq[i + 1]]
    BY <1>1, <2>1 DEF Walk
  <2>3. f[i] \in good[(i + 1) - 1]
    BY <1>3, <2>1
  <2> QED BY <2>1, <2>2, <2>3
<1>4. Nat \subseteq T
  <2>1. \A i \in Nat : i \in T => i + 1 \in T
    BY <1>3
  <2> HIDE DEF T
  <2> QED BY <1>2, <2>1, AllNumbers
<1> QED BY <1>1, <1>4
-----------------------------------------------------------------------------
(***************************************************************************)
(* Types, and the two recursive operations.                                *)
(***************************************************************************)
Cell == [kind : Kind, content : Scalars \cup {<<>>}, ref_count : Nat,
         keys : Seq(Value), values : Seq(Value)]

LEMMA HeapIs ==
  /\ Heap = [Value -> Cell]
  /\ Nothing \in Cell
  /\ Nothing.kind = "none" /\ Nothing.ref_count = 0
  /\ Nothing.keys = <<>> /\ Nothing.values = <<>> /\ Nothing.content = <<>>
BY DEF Heap, Cell, Nothing, Kind

LEMMA CellIs ==
  ASSUME NEW hp \in Heap, NEW v \in Value
  PROVE  /\ hp[v] \in Cell /\ hp[v].kind \in Kind /\ hp[v].ref_count \in Nat
         /\ hp[v].keys \in Seq(Value) /\ hp[v].values \in Seq(Value)
         /\ Len(hp[v].keys) \in Nat /\ Len(hp[v].values) \in Nat
         /\ DOMAIN hp[v].keys = 1 .. Len(hp[v].keys)
         /\ DOMAIN hp[v].values = 1 .. Len(hp[v].values)
BY HeapIs DEF Cell

\* The keys of a map, then its values.
LEMMA EntriesAre ==
  ASSUME NEW hp \in Heap, NEW v \in Value
  PROVE  /\ Entries(hp, v) \in Seq(Value)
         /\ Len(Entries(hp, v)) = Len(hp[v].keys) + Len(hp[v].values)
         /\ Len(Entries(hp, v)) \in Nat
         /\ \A i \in 1 .. Len(hp[v].keys) : Entries(hp, v)[i] = hp[v].keys[i]
         /\ \A i \in 1 .. Len(hp[v].values) :
              Entries(hp, v)[Len(hp[v].keys) + i] = hp[v].values[i]
<1>1. /\ hp[v].keys \in Seq(Value) /\ hp[v].values \in Seq(Value)
      /\ Len(hp[v].keys) \in Nat /\ Len(hp[v].values) \in Nat
  BY CellIs
<1> DEFINE e == Entries(hp, v)
           k == hp[v].keys
           l == hp[v].values
<1> HIDE DEF k, l
<1>2. e = k \o l /\ k \in Seq(Value) /\ l \in Seq(Value)
  BY <1>1 DEF Entries, k, l
<1> HIDE DEF e
<1>3. e \in Seq(Value) /\ Len(e) = Len(k) + Len(l) /\ Len(e) \in Nat
  BY <1>2
<1>4. \A i \in 1 .. Len(k) : e[i] = k[i]
  BY <1>2
<1>5. \A i \in 1 .. Len(l) : e[Len(k) + i] = l[i]
  BY <1>2
<1> QED BY <1>3, <1>4, <1>5, Zenon DEF e, k, l

\* The operations that give up one reference.
Giving == [Heap -> [Value -> Heap]]

UnrefBase == [hp \in Heap |-> [v \in Value |-> hp]]

UnrefStep(u) ==
  [hp \in Heap |-> [v \in Value |->
     IF hp[v].ref_count > 1 THEN [hp EXCEPT ![v].ref_count = @ - 1]
     ELSE Through(u, [hp EXCEPT ![v] = Nothing], Entries(hp, v))]]

LEMMA CountedDown ==
  ASSUME NEW hp \in Heap, NEW v \in Value, hp[v].ref_count > 1
  PROVE  [hp EXCEPT ![v].ref_count = @ - 1] \in Heap
<1>1. hp[v].ref_count - 1 \in Nat
  BY CellIs
<1>2. [hp[v] EXCEPT !.ref_count = @ - 1] \in Cell
  <2>1. hp[v] \in Cell
    BY CellIs
  <2> QED BY <1>1, <2>1 DEF Cell
<1> QED BY <1>2, HeapIs

LEMMA Freed ==
  ASSUME NEW hp \in Heap, NEW v \in Value
  PROVE  [hp EXCEPT ![v] = Nothing] \in Heap
BY HeapIs

LEMMA UnrefStepType ==
  ASSUME NEW u \in Giving
  PROVE  UnrefStep(u) \in Giving
<1> SUFFICES ASSUME NEW hp \in Heap, NEW v \in Value
             PROVE  (IF hp[v].ref_count > 1
                       THEN [hp EXCEPT ![v].ref_count = @ - 1]
                       ELSE Through(u, [hp EXCEPT ![v] = Nothing],
                                    Entries(hp, v))) \in Heap
  BY DEF UnrefStep, Giving
<1>1. CASE hp[v].ref_count > 1
  BY <1>1, CountedDown
<1>2. CASE ~(hp[v].ref_count > 1)
  <2> DEFINE e == Entries(hp, v)
             b == [hp EXCEPT ![v] = Nothing]
             good == [i \in Nat |-> Heap]
  <2>1. b \in Heap
    BY Freed
  <2>2. e \in Seq(Value) /\ Len(e) \in Nat
    BY EntriesAre
  <2> HIDE DEF e, b
  <2>3. b \in good[0] /\ good[Len(e)] = Heap
    BY <2>1, <2>2
  <2>4. \A i \in 1 .. Len(e) : \A x \in good[i - 1] : u[x][e[i]] \in good[i]
    <3> SUFFICES ASSUME NEW i \in 1 .. Len(e), NEW x \in good[i - 1]
                 PROVE  u[x][e[i]] \in good[i]
      OBVIOUS
    <3>1. i \in Nat /\ i - 1 \in Nat /\ e[i] \in Value
      BY <2>2
    <3> QED BY <3>1 DEF Giving
  <2> HIDE DEF good
  <2>5. Through(u, b, e) \in good[Len(e)]
    BY <2>2, <2>3, <2>4, ThroughStays
  <2>6. Through(u, b, e) \in Heap
    BY <2>3, <2>5
  <2> QED BY <1>2, <2>6 DEF b, e
<1> QED BY <1>1, <1>2

\* What webview_value_unref computes, one level after the other.
LEMMA UnrefIs ==
  /\ Unref[0] = UnrefBase
  /\ \A n \in Nat : Unref[n] \in Giving /\ Unref[n + 1] = UnrefStep(Unref[n])
<1> DEFINE op == [u \in Giving |-> [i \in Nat |-> UnrefStep(u)]]
           seq == [i \in Nat |-> i]
<1>0. PICK f : Endless(f, op, UnrefBase, seq)
  <2> HIDE DEF op, seq
  <2> QED BY EndlessWalk
<1>1. /\ f = [i \in Nat |-> f[i]]
      /\ f[0] = UnrefBase
      /\ \A i \in Nat : f[i + 1] = op[f[i]][seq[i + 1]]
  <2> HIDE DEF op, seq
  <2> QED BY <1>0, Zenon DEF Endless
<1>2. \A n \in Nat : f[n] \in Giving => f[n + 1] = UnrefStep(f[n])
  <2> SUFFICES ASSUME NEW n \in Nat, f[n] \in Giving
               PROVE  f[n + 1] = UnrefStep(f[n])
    OBVIOUS
  <2>1. n + 1 \in Nat
    OBVIOUS
  <2>2. op[f[n]][seq[n + 1]] = UnrefStep(f[n])
    <3>1. seq[n + 1] = n + 1
      BY <2>1
    <3> HIDE DEF seq
    <3> QED BY <2>1, <3>1
  <2> HIDE DEF op, seq
  <2> QED BY <1>1, <2>2
<1>3. \A n \in Nat : f[n] \in Giving
  <2> DEFINE T == {n \in Nat : f[n] \in Giving}
  <2>1. 0 \in T
    BY <1>1 DEF UnrefBase, Giving
  <2>2. \A n \in Nat : n \in T => n + 1 \in T
    BY <1>2, UnrefStepType
  <2>3. Nat \subseteq T
    <3> HIDE DEF T
    <3> QED BY <2>1, <2>2, AllNumbers
  <2> QED BY <2>3
<1> DEFINE E(g, depth) ==
             [hp \in Heap |-> [v \in Value |->
                CASE depth = 0 -> hp
                  [] depth > 0 /\ hp[v].ref_count > 1 ->
                       [hp EXCEPT ![v].ref_count = @ - 1]
                  [] OTHER -> Through(g[depth - 1], [hp EXCEPT ![v] = Nothing],
                                      Entries(hp, v))]]
<1>4. \A g : E(g, 0) = UnrefBase
  BY DEF UnrefBase
<1>5. \A g : \A n \in Nat : E(g, n + 1) = UnrefStep(g[n])
  <2> SUFFICES ASSUME NEW g, NEW n \in Nat
               PROVE  E(g, n + 1) = UnrefStep(g[n])
    OBVIOUS
  <2>1. n + 1 # 0 /\ n + 1 > 0 /\ (n + 1) - 1 = n
    OBVIOUS
  <2> QED BY <2>1 DEF UnrefStep
<1>6. Unref = CHOOSE g : g = [depth \in Nat |-> E(g, depth)]
  BY DEF Unref
<1> HIDE DEF E
<1>7. f = [depth \in Nat |-> E(f, depth)]
  <2>1. ASSUME NEW depth \in Nat PROVE f[depth] = E(f, depth)
    <3>1. CASE depth = 0
      BY <1>1, <1>4, <3>1
    <3>2. CASE depth # 0
      <4>1. depth - 1 \in Nat /\ (depth - 1) + 1 = depth
        BY <3>2
      <4> QED BY <1>2, <1>3, <1>5, <4>1
    <3> QED BY <3>1, <3>2
  <2>2. f = [i \in Nat |-> f[i]]
    BY <1>1
  <2> QED BY <2>1, <2>2, Zenon
<1>8. Unref = [depth \in Nat |-> E(Unref, depth)]
  BY <1>6, <1>7
<1>9. Unref[0] = UnrefBase /\ \A n \in Nat : Unref[n + 1] = UnrefStep(Unref[n])
  <2>1. \A depth \in Nat : Unref[depth] = E(Unref, depth)
    BY <1>8
  <2> QED BY <1>4, <1>5, <2>1
<1>10. \A n \in Nat : Unref[n] \in Giving
  <2> DEFINE T == {n \in Nat : Unref[n] \in Giving}
  <2>1. 0 \in T
    BY <1>9 DEF UnrefBase, Giving
  <2>2. \A n \in Nat : n \in T => n + 1 \in T
    BY <1>9, UnrefStepType
  <2>3. Nat \subseteq T
    <3> HIDE DEF T
    <3> QED BY <2>1, <2>2, AllNumbers
  <2> QED BY <2>3
<1> QED BY <1>9, <1>10

\* The comparisons of two values.
Comparing == [Heap -> [Value -> [Value -> BOOLEAN]]]

EqualsBase ==
  [hp \in Heap |-> [a \in Value |-> [b \in Value |-> Alike(hp, a, b)]]]

EqualsStep(same) ==
  [hp \in Heap |-> [a \in Value |-> [b \in Value |->
     Alike(hp, a, b) /\ AlikeInside(same, hp, a, b)]]]

\* What webview_value_equals computes, one level after the other.
LEMMA EqualsIs ==
  /\ Equals[0] = EqualsBase
  /\ \A n \in Nat : Equals[n + 1] = EqualsStep(Equals[n])
<1> DEFINE op == [q \in Comparing |-> [i \in Nat |-> EqualsStep(q)]]
           seq == [i \in Nat |-> i]
<1>1. PICK f : Endless(f, op, EqualsBase, seq)
  <2> HIDE DEF op, seq
  <2> QED BY EndlessWalk
<1>2. /\ f = [i \in Nat |-> f[i]]
      /\ f[0] = EqualsBase
      /\ \A i \in Nat : f[i + 1] = op[f[i]][seq[i + 1]]
  <2> HIDE DEF op, seq
  <2> QED BY <1>1, Zenon DEF Endless
<1>3. \A n \in Nat : f[n] \in Comparing => f[n + 1] = EqualsStep(f[n])
  <2> SUFFICES ASSUME NEW n \in Nat, f[n] \in Comparing
               PROVE  f[n + 1] = EqualsStep(f[n])
    OBVIOUS
  <2>1. n + 1 \in Nat
    OBVIOUS
  <2>2. op[f[n]][seq[n + 1]] = EqualsStep(f[n])
    <3>1. seq[n + 1] = n + 1
      BY <2>1
    <3> HIDE DEF seq
    <3> QED BY <2>1, <3>1
  <2> HIDE DEF op, seq
  <2> QED BY <1>2, <2>2
<1>4. EqualsBase \in Comparing /\ \A q : EqualsStep(q) \in Comparing
  <2>1. \A hp, a, b : Alike(hp, a, b) \in BOOLEAN
    BY DEF Alike
  <2>2. \A q, hp, a, b :
          (Alike(hp, a, b) /\ AlikeInside(q, hp, a, b)) \in BOOLEAN
    OBVIOUS
  <2>3. EqualsBase \in Comparing
    BY <2>1 DEF EqualsBase, Comparing
  <2>4. ASSUME NEW q PROVE EqualsStep(q) \in Comparing
    BY <2>2 DEF EqualsStep, Comparing
  <2> QED BY <2>3, <2>4
<1>5. \A n \in Nat : f[n] \in Comparing
  <2> DEFINE T == {n \in Nat : f[n] \in Comparing}
  <2>1. 0 \in T
    BY <1>2, <1>4
  <2>2. \A n \in Nat : n \in T => n + 1 \in T
    BY <1>3, <1>4
  <2>3. Nat \subseteq T
    <3> HIDE DEF T
    <3> QED BY <2>1, <2>2, AllNumbers
  <2> QED BY <2>3
<1> DEFINE E(g, depth) ==
             [hp \in Heap |-> [a \in Value |-> [b \in Value |->
                IF depth = 0 THEN Alike(hp, a, b)
                ELSE Alike(hp, a, b) /\ AlikeInside(g[depth - 1], hp, a, b)]]]
<1>6. \A g : E(g, 0) = EqualsBase
  BY DEF EqualsBase
<1>7. \A g : \A n \in Nat : E(g, n + 1) = EqualsStep(g[n])
  <2> SUFFICES ASSUME NEW g, NEW n \in Nat
               PROVE  E(g, n + 1) = EqualsStep(g[n])
    OBVIOUS
  <2>1. n + 1 # 0 /\ (n + 1) - 1 = n
    OBVIOUS
  <2> QED BY <2>1 DEF EqualsStep
<1>8. Equals = CHOOSE g : g = [depth \in Nat |-> E(g, depth)]
  BY DEF Equals
<1> HIDE DEF E
<1>9. f = [depth \in Nat |-> E(f, depth)]
  <2>1. ASSUME NEW depth \in Nat PROVE f[depth] = E(f, depth)
    <3>1. CASE depth = 0
      BY <1>2, <1>6, <3>1
    <3>2. CASE depth # 0
      <4>1. depth - 1 \in Nat /\ (depth - 1) + 1 = depth
        BY <3>2
      <4> QED BY <1>3, <1>5, <1>7, <4>1
    <3> QED BY <3>1, <3>2
  <2>2. f = [i \in Nat |-> f[i]]
    BY <1>2
  <2> QED BY <2>1, <2>2, Zenon
<1>10. Equals = [depth \in Nat |-> E(Equals, depth)]
  BY <1>8, <1>9
<1>11. \A depth \in Nat : Equals[depth] = E(Equals, depth)
  BY <1>10
<1> QED BY <1>6, <1>7, <1>11

\* Values that are the same have the same content.
LEMMA SameContent ==
  ASSUME NEW n \in Nat, NEW hp \in Heap, NEW a \in Value, NEW b \in Value,
         Equals[n][hp][a][b]
  PROVE  hp[a].content = hp[b].content
<1>1. CASE n = 0
  BY <1>1, EqualsIs DEF EqualsBase, Alike
<1>2. CASE n # 0
  <2>1. n - 1 \in Nat /\ (n - 1) + 1 = n
    BY <1>2
  <2>2. Equals[n] = EqualsStep(Equals[n - 1])
    BY <2>1, EqualsIs
  <2> DEFINE q == Equals[n - 1]
  <2> HIDE DEF q
  <2>3. EqualsStep(q)[hp][a][b] = (Alike(hp, a, b) /\ AlikeInside(q, hp, a, b))
    BY DEF EqualsStep
  <2>4. Alike(hp, a, b)
    BY <2>2, <2>3, Zenon DEF q
  <2> QED BY <2>4 DEF Alike
<1> QED BY <1>1, <1>2

\* A set of numbers with a member has a least one.
LEMMA LeastNumber ==
  ASSUME NEW S, S \subseteq Nat, S # {}
  PROVE  \E x \in S : \A y \in S : x <= y
<1> DEFINE R == {ss \in Nat \X Nat : ss[1] < ss[2]}
<1>1. IsWellFoundedOn(R, Nat)
  BY NatLessThanWellFounded DEF OpToRel
<1>2. PICK x \in S : \A y \in S : <<y, x>> \notin R
  <2> HIDE DEF R
  <2> QED BY <1>1, WFMin
<1>3. ASSUME NEW y \in S PROVE x <= y
  <2>1. x \in Nat /\ y \in Nat /\ <<y, x>> \notin R
    BY <1>2
  <2> QED BY <2>1
<1> QED BY <1>3

\* webview_value_lookup_index finds a key of the map with the key's content,
\* or nothing.
LEMMA LookedUp ==
  ASSUME ValueConstants, NEW hp \in Heap, NEW m \in Value, NEW key \in Value,
         NEW i, i = webview_value_lookup_index(hp, m, key)
  PROVE  \/ i = 0
         \/ /\ i \in 1 .. Len(hp[m].keys)
            /\ hp[m].keys[i] \in Value
            /\ hp[hp[m].keys[i]].content = hp[key].content
<1> DEFINE same == Equals[MaxValues]
           equal == {j \in DOMAIN hp[m].keys : same[hp][hp[m].keys[j]][key]}
<1>1. i = IF equal = {} THEN 0 ELSE CHOOSE j \in equal : \A l \in equal : j <= l
  BY Zenon DEF webview_value_lookup_index, LookUp
<1>2. /\ DOMAIN hp[m].keys = 1 .. Len(hp[m].keys)
      /\ Len(hp[m].keys) \in Nat /\ hp[m].keys \in Seq(Value)
  BY CellIs
<1>3. CASE equal = {}
  BY <1>1, <1>3
<1>4. CASE equal # {}
  <2>1. equal \subseteq Nat
    BY <1>2
  <2> HIDE DEF equal
  <2>2. \E j \in equal : \A l \in equal : j <= l
    BY <1>4, <2>1, LeastNumber
  <2>3. i \in equal
    BY <1>1, <1>4, <2>2
  <2>4. i \in 1 .. Len(hp[m].keys) /\ same[hp][hp[m].keys[i]][key]
    BY <1>2, <2>3 DEF equal
  <2>5. hp[m].keys[i] \in Value
    BY <1>2, <2>4
  <2>6. MaxValues \in Nat
    BY DEF ValueConstants
  <2> QED BY <2>4, <2>5, <2>6, SameContent
<1> QED BY <1>3, <1>4
-----------------------------------------------------------------------------
(***************************************************************************)
(* Counting the places that hold a value.  X are the places that are about *)
(* to be overwritten: what they hold has been given up.                    *)
(***************************************************************************)
HeldAt(hp, place, w) ==
  place[3] \in DOMAIN Row(hp, place) /\ Row(hp, place)[place[3]] = w

Refs(hp, w, X) == Cardinality(Places(hp, w) \ X)

LEMMA PlacesAre ==
  ASSUME NEW hp, NEW w
  PROVE  Places(hp, w) = {place \in Place : HeldAt(hp, place, w)}
BY Zenon DEF Places, HeldAt

LEMMA PlaceFinite == ASSUME ValueConstants PROVE IsFiniteSet(Place)
<1> DEFINE K == {"keys", "values"}
           I == 1 .. MaxItems + MaxEntries
<1>1. MaxValues \in Nat /\ MaxItems + MaxEntries \in Int
  BY DEF ValueConstants
<1>2. IsFiniteSet(Value) /\ IsFiniteSet(I)
  BY <1>1, FS_Interval DEF Value
<1>3. IsFiniteSet(K)
  <2>1. K = {"keys"} \cup {"values"}
    OBVIOUS
  <2>2. IsFiniteSet({"keys"})
    BY FS_Singleton, Zenon
  <2>3. IsFiniteSet({"keys"} \cup {"values"})
    BY <2>2, FS_AddElement, Zenon
  <2> QED BY <2>1, <2>3, Zenon
<1> HIDE DEF K, I
<1> DEFINE VK == Value \X K
<1>4. IsFiniteSet(VK)
  BY <1>2, <1>3, FS_Product
<1> HIDE DEF VK
<1>5. IsFiniteSet(VK \X I)
  BY <1>2, <1>4, FS_Product
<1> DEFINE g == [x \in Place |-> <<<<x[1], x[2]>>, x[3]>>]
<1>6. g \in Injection(Place, VK \X I)
  <2>1. g \in [Place -> VK \X I]
    BY DEF Place, VK, K, I
  <2>2. \A x, y \in Place : g[x] = g[y] => x = y
    BY DEF Place
  <2> HIDE DEF g
  <2> QED BY <2>1, <2>2 DEF Injection, IsInjective
<1> QED BY <1>5, <1>6, FS_Injection

LEMMA RefsType ==
  ASSUME ValueConstants, NEW hp, NEW w, NEW X
  PROVE  /\ IsFiniteSet(Places(hp, w) \ X) /\ Refs(hp, w, X) \in Nat
         /\ Refs(hp, w, X) > 0 <=> Places(hp, w) \ X # {}
<1>1. Places(hp, w) \ X \in SUBSET Place
  BY PlacesAre
<1>2. IsFiniteSet(Places(hp, w) \ X)
  BY <1>1, PlaceFinite, FS_Subset
<1>3. Refs(hp, w, X) \in Nat
  BY <1>2, FS_CardinalityType DEF Refs
<1>4. Refs(hp, w, X) = 0 <=> Places(hp, w) \ X = {}
  BY <1>2, FS_EmptySet DEF Refs
<1> QED BY <1>2, <1>3, <1>4

\* Nothing but the rows says what is where.
LEMMA SameRows ==
  ASSUME NEW hp, NEW hp2, NEW w,
         \A v \in Value : /\ hp2[v].keys = hp[v].keys
                          /\ hp2[v].values = hp[v].values
  PROVE  Places(hp2, w) = Places(hp, w)
<1>1. ASSUME NEW place \in Place
      PROVE  HeldAt(hp2, place, w) <=> HeldAt(hp, place, w)
  <2>1. place[1] \in Value
    BY DEF Place
  <2>2. Row(hp2, place) = Row(hp, place)
    BY <2>1 DEF Row
  <2> QED BY <2>2 DEF HeldAt
<1> QED BY <1>1, PlacesAre

\* A value is put where another one is about to be overwritten, or nothing is.
Puts(hp, hp2, place, v, X) ==
  /\ place \in Place
  /\ \A w \in Value : HeldAt(hp2, place, w) <=> w = v
  /\ \A other \in Place \ {place} : \A w \in Value :
       HeldAt(hp2, other, w) <=> HeldAt(hp, other, w)
  /\ \/ X = {place}
     \/ X = {} /\ \A w \in Value : ~HeldAt(hp, place, w)

LEMMA PutCounts ==
  ASSUME ValueConstants, NEW hp, NEW hp2, NEW place, NEW v \in Value, NEW X,
         Puts(hp, hp2, place, v, X), NEW w \in Value
  PROVE  Refs(hp2, w, {}) = Refs(hp, w, X) + (IF w = v THEN 1 ELSE 0)
<1> DEFINE S == Places(hp, w) \ X
           S2 == Places(hp2, w)
<1>1. place \notin S
  BY PlacesAre DEF Puts
<1>2. S2 = IF w = v THEN S \cup {place} ELSE S
  <2>1. ASSUME NEW q
        PROVE  q \in S2 <=> (q \in S \/ (w = v /\ q = place))
    <3>1. q \in S2 <=> q \in Place /\ HeldAt(hp2, q, w)
      BY PlacesAre
    <3>2. q \in S <=> q \in Place /\ HeldAt(hp, q, w) /\ q \notin X
      BY PlacesAre
    <3> HIDE DEF S, S2
    <3>3. CASE q = place
      BY <1>1, <3>1, <3>3 DEF Puts
    <3>4. CASE q # place
      BY <3>1, <3>2, <3>4 DEF Puts
    <3> QED BY <3>3, <3>4
  <2> HIDE DEF S, S2
  <2>2. CASE w = v
    BY <2>1, <2>2
  <2>3. CASE w # v
    BY <2>1, <2>3
  <2> QED BY <2>2, <2>3
<1>3. IsFiniteSet(S) /\ Cardinality(S) \in Nat
  BY RefsType DEF Refs
<1>4. Cardinality(S2) = Cardinality(S) + (IF w = v THEN 1 ELSE 0)
  <2> HIDE DEF S, S2
  <2>1. Cardinality(S \cup {place}) = Cardinality(S) + 1
    BY <1>1, <1>3, FS_AddElement
  <2> QED BY <1>2, <1>3, <2>1
<1>5. S2 \ {} = S2
  OBVIOUS
<1> QED BY <1>4, <1>5 DEF Refs
-----------------------------------------------------------------------------
(***************************************************************************)
(* The count of each value is what is owed of it and the places that hold  *)
(* it.                                                                     *)
(***************************************************************************)
Plus(g, v) == [g EXCEPT ![v] = @ + 1]

Owed == [Value -> Nat]

Shaped(c) ==
  /\ c.kind = "none" => c = Nothing
  /\ c.kind = "scalar" => c.keys = <<>> /\ c.values = <<>>
  /\ c.kind = "list" => c.keys = <<>> /\ Len(c.values) <= MaxItems
  /\ c.kind = "map" => Len(c.keys) = Len(c.values) /\ Len(c.keys) <= MaxEntries

WellShaped(hp) == \A v \in Value : Shaped(hp[v])

Tallied(hp, owed, X) ==
  /\ hp \in Heap /\ owed \in Owed
  /\ \A v \in Value : /\ hp[v].ref_count = owed[v] + Refs(hp, v, X)
                      /\ Exists(hp, v) <=> hp[v].ref_count > 0

Counted(hp, owed, X) == Tallied(hp, owed, X) /\ WellShaped(hp)

LEMMA PlusType ==
  ASSUME NEW g \in Owed, NEW v \in Value
  PROVE  /\ Plus(g, v) \in Owed
         /\ \A w \in Value : Plus(g, v)[w] = g[w] + (IF w = v THEN 1 ELSE 0)
         /\ \A w \in Value : g[w] \in Nat
BY DEF Plus, Owed

\* The places of a heap are within the bounds.
LEMMA PlaceOf ==
  ASSUME ValueConstants, NEW hp \in Heap, WellShaped(hp), NEW v \in Value
  PROVE  /\ \A i \in 1 .. Len(hp[v].keys) : <<v, "keys", i>> \in Place
         /\ \A i \in 1 .. Len(hp[v].values) : <<v, "values", i>> \in Place
<1>1. Len(hp[v].keys) \in Nat /\ Len(hp[v].values) \in Nat
  BY CellIs
<1>2. /\ Len(hp[v].keys) <= MaxItems + MaxEntries
      /\ Len(hp[v].values) <= MaxItems + MaxEntries
  <2>1. MaxItems \in Nat /\ MaxEntries \in Nat
    BY DEF ValueConstants
  <2>2. Shaped(hp[v]) /\ hp[v].kind \in Kind
    BY CellIs DEF WellShaped
  <2>3. CASE hp[v].kind = "none"
    <3>1. hp[v].keys = <<>> /\ hp[v].values = <<>>
      BY <2>2, <2>3, HeapIs DEF Shaped
    <3> QED BY <2>1, <3>1
  <2>4. CASE hp[v].kind = "scalar"
    BY <2>1, <2>2, <2>4 DEF Shaped
  <2>5. CASE hp[v].kind = "list"
    BY <1>1, <2>1, <2>2, <2>5 DEF Shaped
  <2>6. CASE hp[v].kind = "map"
    BY <1>1, <2>1, <2>2, <2>6 DEF Shaped
  <2> QED BY <2>2, <2>3, <2>4, <2>5, <2>6 DEF Kind
<1>3. MaxItems + MaxEntries \in Nat
  BY DEF ValueConstants
<1>4. /\ 1 .. Len(hp[v].keys) \subseteq 1 .. MaxItems + MaxEntries
      /\ 1 .. Len(hp[v].values) \subseteq 1 .. MaxItems + MaxEntries
  BY <1>1, <1>2, <1>3
<1> QED BY <1>4, Zenon DEF Place
-----------------------------------------------------------------------------
(***************************************************************************)
(* Giving up a reference.  A are values that stay, each because something  *)
(* is still owed of it or one of A holds it; X are places of theirs.       *)
(***************************************************************************)
Living(hp) == {v \in Value : Exists(hp, v)}

Same(hp, r, v) ==
  /\ r[v].kind = hp[v].kind /\ r[v].content = hp[v].content
  /\ r[v].keys = hp[v].keys /\ r[v].values = hp[v].values

\* Values are freed or stay as they are, but for the count; those of A stay.
Keeps(hp, r, A) ==
  \A v \in Value : /\ Same(hp, r, v) \/ ~Exists(r, v)
                   /\ v \in A => Same(hp, r, v)

Standing(hp, g, X, A) ==
  \A a \in A : \/ g[a] > 0
               \/ \E place \in Places(hp, a) \ X : place[1] \in A

HeldBy(X, A) == \A place \in X : place[1] \in A

CanGive(hp, v, g, X, A) ==
  /\ v \in Value /\ g \in Owed /\ A \subseteq Value
  /\ Counted(hp, Plus(g, v), X)
  /\ Standing(hp, g, X, A) /\ HeldBy(X, A)

GaveUp(hp, r, g, X, A) == Counted(r, g, X) /\ Keeps(hp, r, A)

\* What u does with values of which n at most are alive.
GivesUp(u, n) ==
  \A hp \in Heap, v \in Value, g \in Owed : \A X, A :
    CanGive(hp, v, g, X, A) /\ Cardinality(Living(hp)) <= n
      => GaveUp(hp, u[hp][v], g, X, A)

LEMMA LivingFinite ==
  ASSUME ValueConstants, NEW hp
  PROVE  IsFiniteSet(Living(hp)) /\ Cardinality(Living(hp)) \in Nat
<1>1. IsFiniteSet(Value)
  BY FS_Interval DEF ValueConstants, Value
<1>2. Living(hp) \in SUBSET Value
  BY DEF Living
<1>3. IsFiniteSet(Living(hp))
  BY <1>1, <1>2, FS_Subset
<1> QED BY <1>3, FS_CardinalityType

LEMMA KeepsLiving ==
  ASSUME ValueConstants, NEW hp, NEW r, NEW A, Keeps(hp, r, A)
  PROVE  /\ Living(r) \subseteq Living(hp)
         /\ Cardinality(Living(r)) <= Cardinality(Living(hp))
<1>1. Living(r) \subseteq Living(hp)
  BY DEF Living, Exists, Keeps, Same
<1> QED BY <1>1, LivingFinite, FS_Subset

LEMMA KeepsOn ==
  ASSUME NEW hp, NEW r, NEW q, NEW A, Keeps(hp, r, A), Keeps(r, q, A)
  PROVE  Keeps(hp, q, A)
<1> SUFFICES ASSUME NEW v \in Value
             PROVE  /\ Same(hp, q, v) \/ ~Exists(q, v)
                    /\ v \in A => Same(hp, q, v)
  BY DEF Keeps
<1>1. /\ Same(hp, r, v) \/ ~Exists(r, v)
      /\ v \in A => Same(hp, r, v)
      /\ Same(r, q, v) \/ ~Exists(q, v)
      /\ v \in A => Same(r, q, v)
  BY DEF Keeps
<1> QED BY <1>1 DEF Same, Exists

\* A row of a value that is the same holds the same.
LEMMA SameAt ==
  ASSUME NEW hp, NEW r, NEW place, NEW w, Same(hp, r, place[1])
  PROVE  HeldAt(r, place, w) <=> HeldAt(hp, place, w)
<1>1. Row(r, place) = Row(hp, place)
  BY DEF Row, Same
<1> QED BY <1>1 DEF HeldAt

LEMMA StandsOn ==
  ASSUME NEW hp, NEW r, NEW g \in Owed, NEW g2 \in Owed, NEW X,
         NEW A, A \subseteq Value, Keeps(hp, r, A), Standing(hp, g, X, A),
         \A w \in Value : g[w] <= g2[w]
  PROVE  Standing(r, g2, X, A)
<1> SUFFICES ASSUME NEW a \in A, ~(g2[a] > 0)
             PROVE  \E place \in Places(r, a) \ X : place[1] \in A
  BY DEF Standing
<1>1. ~(g[a] > 0)
  BY DEF Owed
<1>2. PICK place \in Places(hp, a) \ X : place[1] \in A
  BY <1>1 DEF Standing
<1>3. Same(hp, r, place[1])
  BY <1>2 DEF Keeps
<1>4. place \in Places(r, a)
  BY <1>2, <1>3, SameAt, PlacesAre
<1> QED BY <1>2, <1>4

\* Nothing of A loses its last reference.
LEMMA StandsFast ==
  ASSUME ValueConstants, NEW hp, NEW v, NEW g, NEW X, NEW A,
         CanGive(hp, v, g, X, A), v \in A
  PROVE  hp[v].ref_count > 1
<1>1. /\ g[v] \in Nat /\ Plus(g, v)[v] = g[v] + 1
      /\ hp[v].ref_count = Plus(g, v)[v] + Refs(hp, v, X)
      /\ Refs(hp, v, X) \in Nat
  BY PlusType, RefsType DEF CanGive, Counted, Tallied
<1>2. g[v] > 0 \/ Places(hp, v) \ X # {}
  BY DEF CanGive, Standing
<1>3. g[v] > 0 \/ Refs(hp, v, X) > 0
  BY <1>2, RefsType
<1> QED BY <1>1, <1>3

\* One of several references.
LEMMA GivenOne ==
  ASSUME ValueConstants, NEW hp, NEW v, NEW g, NEW X, NEW A,
         CanGive(hp, v, g, X, A), hp[v].ref_count > 1
  PROVE  GaveUp(hp, [hp EXCEPT ![v].ref_count = @ - 1], g, X, A)
<1> DEFINE r == [hp EXCEPT ![v].ref_count = @ - 1]
<1>1. hp \in Heap /\ v \in Value /\ g \in Owed
  BY DEF CanGive, Counted, Tallied
<1>2. r \in Heap
  BY <1>1, CountedDown
<1>3. \A w \in Value : /\ Same(hp, r, w)
                       /\ w # v => r[w] = hp[w]
                       /\ r[v].ref_count = hp[v].ref_count - 1
  BY <1>1, HeapIs DEF Same, Cell
<1> HIDE DEF r
<1>4. Keeps(hp, r, A)
  BY <1>3 DEF Keeps
<1>5. Tallied(r, g, X)
  <2> SUFFICES ASSUME NEW w \in Value
               PROVE  /\ r[w].ref_count = g[w] + Refs(r, w, X)
                      /\ Exists(r, w) <=> r[w].ref_count > 0
    BY <1>1, <1>2 DEF Tallied
  <2>1. Refs(r, w, X) = Refs(hp, w, X) /\ Refs(hp, w, X) \in Nat
    <3>1. Places(r, w) = Places(hp, w)
      BY <1>3, SameRows DEF Same
    <3> QED BY <3>1, RefsType DEF Refs
  <2>2. /\ hp[w].ref_count = Plus(g, v)[w] + Refs(hp, w, X)
        /\ Exists(hp, w) <=> hp[w].ref_count > 0
    BY DEF CanGive, Counted, Tallied
  <2>3. Plus(g, v)[w] = g[w] + (IF w = v THEN 1 ELSE 0) /\ g[w] \in Nat
    BY <1>1, PlusType
  <2>4. Exists(r, w) <=> Exists(hp, w)
    BY <1>3 DEF Same, Exists
  <2>5. CASE w = v
    BY <1>3, <2>1, <2>2, <2>3, <2>4, <2>5
  <2>6. CASE w # v
    BY <1>3, <2>1, <2>2, <2>3, <2>4, <2>6
  <2> QED BY <2>5, <2>6
<1>6. WellShaped(r)
  <2> SUFFICES ASSUME NEW w \in Value PROVE Shaped(r[w])
    BY DEF WellShaped
  <2>1. Shaped(hp[w]) /\ Same(hp, r, w)
    BY <1>3 DEF CanGive, Counted, WellShaped
  <2>2. CASE w # v
    BY <1>3, <2>1, <2>2
  <2>3. CASE w = v
    <3>1. r[w].kind # "none"
      <4>1. Exists(hp, v)
        BY <1>1, CellIs DEF CanGive, Counted, Tallied
      <4> QED BY <2>1, <2>3, <4>1 DEF Same, Exists
    <3> QED BY <2>1, <3>1 DEF Same, Shaped
  <2> QED BY <2>2, <2>3
<1> QED BY <1>4, <1>5, <1>6 DEF GaveUp, Counted, r
-----------------------------------------------------------------------------
(***************************************************************************)
(* Giving up the values of a sequence, one after the other.                *)
(***************************************************************************)
From(e, i, w) == {j \in i + 1 .. Len(e) : e[j] = w}

\* What is owed when the first i of e have been given up.
Due(g, e, i) == [w \in Value |-> g[w] + Cardinality(From(e, i, w))]

LEMMA FromType ==
  ASSUME NEW e, Len(e) \in Nat, NEW i \in Nat, NEW w
  PROVE  IsFiniteSet(From(e, i, w)) /\ Cardinality(From(e, i, w)) \in Nat
<1>1. From(e, i, w) \in SUBSET (i + 1 .. Len(e))
  BY DEF From
<1>2. IsFiniteSet(i + 1 .. Len(e))
  BY FS_Interval
<1>3. IsFiniteSet(From(e, i, w))
  BY <1>1, <1>2, FS_Subset
<1> QED BY <1>3, FS_CardinalityType

LEMMA LeftType ==
  ASSUME NEW g \in Owed, NEW e, Len(e) \in Nat, NEW i \in Nat
  PROVE  /\ Due(g, e, i) \in Owed
         /\ \A w \in Value :
              /\ Due(g, e, i)[w] = g[w] + Cardinality(From(e, i, w))
              /\ g[w] <= Due(g, e, i)[w]
<1>1. \A w \in Value : g[w] \in Nat /\ Cardinality(From(e, i, w)) \in Nat
  BY FromType DEF Owed
<1>2. \A w \in Value : Due(g, e, i)[w] = g[w] + Cardinality(From(e, i, w))
  BY DEF Due
<1>3. Due(g, e, i) = [w \in Value |-> Due(g, e, i)[w]]
  BY DEF Due
<1>4. \A w \in Value : /\ Due(g, e, i)[w] \in Nat
                       /\ g[w] <= Due(g, e, i)[w]
  BY <1>1, <1>2
<1>5. Due(g, e, i) \in Owed
  BY <1>3, <1>4 DEF Owed
<1> QED BY <1>2, <1>4, <1>5

LEMMA LeftStep ==
  ASSUME NEW g \in Owed, NEW e, Len(e) \in Nat, NEW i \in 1 .. Len(e),
         e[i] \in Value
  PROVE  Due(g, e, i - 1) = Plus(Due(g, e, i), e[i])
<1>1. i \in Nat /\ i - 1 \in Nat /\ (i - 1) + 1 = i
  OBVIOUS
<1>2. Due(g, e, i - 1) \in Owed /\ Due(g, e, i) \in Owed
  BY <1>1, LeftType
<1>3. Plus(Due(g, e, i), e[i]) \in Owed
  BY <1>2, PlusType
<1>4. ASSUME NEW w \in Value
      PROVE  Due(g, e, i - 1)[w] = Plus(Due(g, e, i), e[i])[w]
  <2> DEFINE S == From(e, i, w)
             S1 == From(e, i - 1, w)
  <2>1. S1 = IF w = e[i] THEN S \cup {i} ELSE S
    BY <1>1 DEF From
  <2>2. i \notin S
    BY DEF From
  <2>3. IsFiniteSet(S) /\ Cardinality(S) \in Nat
    BY <1>1, FromType
  <2>4. /\ Due(g, e, i - 1)[w] = g[w] + Cardinality(S1)
        /\ Due(g, e, i)[w] = g[w] + Cardinality(S)
    BY <1>1, LeftType
  <2>5. Plus(Due(g, e, i), e[i])[w]
          = Due(g, e, i)[w] + (IF w = e[i] THEN 1 ELSE 0)
    BY <1>2, PlusType
  <2>6. g[w] \in Nat
    BY DEF Owed
  <2> HIDE DEF S, S1
  <2>7. Cardinality(S \cup {i}) = Cardinality(S) + 1
    BY <2>2, <2>3, FS_AddElement
  <2>8. CASE w = e[i]
    BY <2>1, <2>3, <2>4, <2>5, <2>6, <2>7, <2>8
  <2>9. CASE w # e[i]
    BY <2>1, <2>3, <2>4, <2>5, <2>6, <2>9
  <2> QED BY <2>8, <2>9
<1> QED BY <1>2, <1>3, <1>4 DEF Owed

LEMMA LeftNone ==
  ASSUME NEW g \in Owed, NEW e, Len(e) \in Nat
  PROVE  Due(g, e, Len(e)) = g
<1>1. \A w \in Value : From(e, Len(e), w) = {}
  <2>1. Len(e) + 1 .. Len(e) = {}
    OBVIOUS
  <2> QED BY <2>1 DEF From
<1>2. ASSUME NEW w \in Value PROVE Due(g, e, Len(e))[w] = g[w]
  <2>1. Cardinality(From(e, Len(e), w)) = 0
    BY <1>1, FS_EmptySet
  <2>2. Due(g, e, Len(e))[w] = g[w] + Cardinality(From(e, Len(e), w))
    BY LeftType
  <2>3. g[w] \in Nat
    BY DEF Owed
  <2> QED BY <2>1, <2>2, <2>3
<1>3. Due(g, e, Len(e)) \in Owed
  BY LeftType
<1> QED BY <1>2, <1>3 DEF Owed

\* A value after the other is given up.
LEMMA GiveAll ==
  ASSUME ValueConstants, NEW u, NEW n \in Nat, GivesUp(u, n),
         NEW e \in Seq(Value), NEW g \in Owed, NEW X, NEW A, A \subseteq Value,
         HeldBy(X, A), NEW hp, Counted(hp, Due(g, e, 0), X),
         Standing(hp, g, X, A), Cardinality(Living(hp)) <= n
  PROVE  GaveUp(hp, Through(u, hp, e), g, X, A)
<1> DEFINE k == Len(e)
           good == [i \in 0 .. k |->
                      {r \in Heap : /\ Counted(r, Due(g, e, i), X)
                                    /\ Keeps(hp, r, A)}]
<1>1. k \in Nat
  OBVIOUS
<1>2. hp \in Heap /\ Keeps(hp, hp, A)
  BY DEF Counted, Tallied, Keeps, Same
<1>3. hp \in good[0]
  BY <1>1, <1>2
<1>4. ASSUME NEW i \in 1 .. k, NEW r \in good[i - 1]
      PROVE  u[r][e[i]] \in good[i]
  <2>1. i - 1 \in 0 .. k /\ i \in 0 .. k /\ i \in Nat /\ e[i] \in Value
    BY <1>1
  <2>2. r \in Heap /\ Counted(r, Due(g, e, i - 1), X) /\ Keeps(hp, r, A)
    BY <2>1
  <2>3. Due(g, e, i) \in Owed /\ \A w \in Value : g[w] <= Due(g, e, i)[w]
    BY <1>1, <2>1, LeftType
  <2>4. Counted(r, Plus(Due(g, e, i), e[i]), X)
    BY <1>1, <2>1, <2>2, LeftStep
  <2>5. Standing(r, Due(g, e, i), X, A)
    BY <2>2, <2>3, StandsOn
  <2>6. CanGive(r, e[i], Due(g, e, i), X, A)
    BY <2>1, <2>3, <2>4, <2>5 DEF CanGive
  <2>7. Cardinality(Living(r)) <= n
    BY <2>2, KeepsLiving, LivingFinite
  <2>8. GaveUp(r, u[r][e[i]], Due(g, e, i), X, A)
    <3> HIDE DEF good, k
    <3> QED BY <2>1, <2>2, <2>3, <2>6, <2>7, Zenon DEF GivesUp
  <2>9. Keeps(hp, u[r][e[i]], A)
    BY <2>2, <2>8, KeepsOn DEF GaveUp
  <2>10. u[r][e[i]] \in Heap
    BY <2>8 DEF GaveUp, Counted, Tallied
  <2> QED BY <2>1, <2>8, <2>9, <2>10 DEF GaveUp
<1> HIDE DEF good
<1>5. Through(u, hp, e) \in good[k]
  BY <1>1, <1>3, <1>4, ThroughStays
<1>6. k \in 0 .. k
  BY <1>1
<1>7. /\ Counted(Through(u, hp, e), Due(g, e, k), X)
      /\ Keeps(hp, Through(u, hp, e), A)
  BY <1>5, <1>6 DEF good
<1>8. Due(g, e, k) = g
  BY <1>1, LeftNone
<1> QED BY <1>7, <1>8 DEF GaveUp
-----------------------------------------------------------------------------
(***************************************************************************)
(* Freeing a value, and webview_value_unref as a whole.                    *)
(***************************************************************************)
Own(hp, v, w) == {place \in Places(hp, w) : place[1] = v}

\* What a value holds is what it gives up.
LEMMA OwnCount ==
  ASSUME ValueConstants, NEW hp \in Heap, WellShaped(hp), NEW v \in Value,
         NEW w \in Value
  PROVE  Cardinality(Own(hp, v, w)) = Cardinality(From(Entries(hp, v), 0, w))
<1> DEFINE e == Entries(hp, v)
           k == Len(hp[v].keys)
           l == Len(hp[v].values)
           S == From(e, 0, w)
           T == Own(hp, v, w)
           F(j) == IF j <= k THEN <<v, "keys", j>> ELSE <<v, "values", j - k>>
           f == [j \in S |-> F(j)]
<1>1. /\ k \in Nat /\ l \in Nat /\ Len(e) = k + l
      /\ \A i \in 1 .. k : e[i] = hp[v].keys[i]
      /\ \A i \in 1 .. l : e[k + i] = hp[v].values[i]
      /\ DOMAIN hp[v].keys = 1 .. k /\ DOMAIN hp[v].values = 1 .. l
  BY CellIs, EntriesAre
<1>2. /\ \A i \in 1 .. k : <<v, "keys", i>> \in Place
      /\ \A i \in 1 .. l : <<v, "values", i>> \in Place
  BY PlaceOf
<1>3. \A j : j \in S <=> j \in 1 .. k + l /\ e[j] = w
  BY <1>1 DEF From
<1>4. \A i \in 1 .. k : <<v, "keys", i>> \in T <=> hp[v].keys[i] = w
  BY <1>1, <1>2, PlacesAre DEF Own, HeldAt, Row
<1>5. \A i \in 1 .. l : <<v, "values", i>> \in T <=> hp[v].values[i] = w
  BY <1>1, <1>2, PlacesAre DEF Own, HeldAt, Row
<1>6. ASSUME NEW place \in T
      PROVE  \/ \E i \in 1 .. k : place = <<v, "keys", i>>
             \/ \E i \in 1 .. l : place = <<v, "values", i>>
  <2>1. place \in Place /\ place[1] = v /\ HeldAt(hp, place, w)
    BY PlacesAre DEF Own
  <2>2. place = <<v, place[2], place[3]>> /\ place[2] \in {"keys", "values"}
    BY <2>1 DEF Place
  <2>3. CASE place[2] = "keys"
    <3>1. place[3] \in 1 .. k
      BY <1>1, <2>1, <2>3 DEF HeldAt, Row
    <3> QED BY <2>2, <2>3, <3>1
  <2>4. CASE place[2] = "values"
    <3>1. place[3] \in 1 .. l
      BY <1>1, <2>1, <2>4 DEF HeldAt, Row
    <3> QED BY <2>2, <2>4, <3>1
  <2> QED BY <2>2, <2>3, <2>4
<1> HIDE DEF e, k, l, S, T
<1>7. ASSUME NEW j \in S PROVE F(j) \in T
  <2>1. j \in 1 .. k + l /\ e[j] = w
    BY <1>3
  <2>2. CASE j <= k
    <3>1. j \in 1 .. k
      BY <1>1, <2>1, <2>2
    <3> QED BY <1>1, <1>4, <2>1, <2>2, <3>1
  <2>3. CASE ~(j <= k)
    <3>1. j - k \in 1 .. l /\ k + (j - k) = j
      BY <1>1, <2>1, <2>3
    <3>2. e[k + (j - k)] = hp[v].values[j - k]
      BY <1>1, <3>1
    <3> QED BY <1>5, <2>1, <2>3, <3>1, <3>2
  <2> QED BY <2>2, <2>3
<1>8. ASSUME NEW i \in S, NEW j \in S, F(i) = F(j) PROVE i = j
  <2>1. i \in Int /\ j \in Int /\ k \in Int
    BY <1>1, <1>3
  <2> QED BY <1>8, <2>1
<1>9. ASSUME NEW place \in T PROVE \E j \in S : F(j) = place
  <2>1. CASE \E i \in 1 .. k : place = <<v, "keys", i>>
    <3>1. PICK i \in 1 .. k : place = <<v, "keys", i>>
      BY <2>1
    <3>2. i \in 1 .. k + l /\ i <= k
      BY <1>1
    <3>4. e[i] = w
      BY <1>1, <1>4, <3>1
    <3>3. i \in S
      BY <1>3, <3>2, <3>4
    <3> QED BY <3>1, <3>2, <3>3
  <2>2. CASE \E i \in 1 .. l : place = <<v, "values", i>>
    <3>1. PICK i \in 1 .. l : place = <<v, "values", i>>
      BY <2>2
    <3>2. k + i \in 1 .. k + l /\ ~(k + i <= k) /\ (k + i) - k = i
      BY <1>1
    <3>3. e[k + i] = w
      BY <1>1, <1>5, <3>1
    <3>4. k + i \in S /\ F(k + i) = place
      BY <1>3, <3>1, <3>2, <3>3
    <3> QED BY <3>4
  <2> QED BY <1>6, <2>1, <2>2
<1> HIDE DEF F
<1>10. f \in [S -> T]
  BY <1>7
<1>11. \A i, j \in S : f[i] = f[j] => i = j
  BY <1>8
<1>12. \A place \in T : \E j \in S : f[j] = place
  BY <1>9
<1> HIDE DEF f
<1>13. ExistsBijection(S, T)
  BY <1>10, <1>11, <1>12, Zenon
     DEF ExistsBijection, Bijection, Injection, Surjection, IsInjective
<1>14. IsFiniteSet(S)
  BY <1>1, FromType DEF S
<1> QED BY <1>13, <1>14, FS_Bijection DEF S, T, e

\* The value that loses its last reference owes those it held.
LEMMA FreedOwes ==
  ASSUME ValueConstants, NEW hp, NEW v, NEW g, NEW X, NEW A,
         CanGive(hp, v, g, X, A), ~(hp[v].ref_count > 1),
         NEW b, b = [hp EXCEPT ![v] = Nothing]
  PROVE  /\ Counted(b, Due(g, Entries(hp, v), 0), X)
         /\ Keeps(hp, b, A)
         /\ Cardinality(Living(hp)) = Cardinality(Living(b)) + 1
<1> DEFINE e == Entries(hp, v)
<1>1. /\ hp \in Heap /\ v \in Value /\ g \in Owed /\ A \subseteq Value
      /\ WellShaped(hp) /\ Tallied(hp, Plus(g, v), X)
  BY DEF CanGive, Counted, Tallied
<1>2. e \in Seq(Value) /\ Len(e) \in Nat
  BY <1>1, EntriesAre
<1>3. v \notin A
  BY StandsFast
<1>4. hp[v].ref_count = 1 /\ g[v] = 0 /\ Refs(hp, v, X) = 0 /\ Exists(hp, v)
  <2>1. /\ g[v] \in Nat /\ Plus(g, v)[v] = g[v] + 1
        /\ hp[v].ref_count = Plus(g, v)[v] + Refs(hp, v, X)
        /\ Refs(hp, v, X) \in Nat /\ hp[v].ref_count \in Nat
        /\ Exists(hp, v) <=> hp[v].ref_count > 0
    BY <1>1, PlusType, RefsType, CellIs DEF Tallied
  <2> QED BY <2>1
<1>5. /\ b \in Heap /\ b[v] = Nothing
      /\ \A w \in Value : w # v => b[w] = hp[w]
  BY <1>1, Freed, HeapIs
<1>6. \A w \in Value : w # v => Same(hp, b, w)
  BY <1>5 DEF Same
<1>7. Keeps(hp, b, A)
  BY <1>3, <1>5, <1>6, HeapIs DEF Keeps, Exists
<1>8. ASSUME NEW w \in Value
      PROVE  Refs(hp, w, X) = Refs(b, w, X) + Cardinality(From(e, 0, w))
  <2> DEFINE S == Places(hp, w) \ X
             T == Places(b, w) \ X
             O == Own(hp, v, w)
  <2>1. ASSUME NEW place
        PROVE  place \in T <=> place \in S /\ place[1] # v
    <3>1. CASE place \in Place /\ place[1] = v
      <4>1. ~HeldAt(b, place, w)
        BY <1>5, <3>1, HeapIs DEF HeldAt, Row
      <4> QED BY <3>1, <4>1, PlacesAre
    <3>2. CASE place \in Place /\ place[1] # v
      <4>1. place[1] \in Value
        BY <3>2 DEF Place
      <4>2. HeldAt(b, place, w) <=> HeldAt(hp, place, w)
        BY <1>6, <3>2, <4>1, SameAt
      <4> QED BY <3>2, <4>2, PlacesAre
    <3>3. CASE place \notin Place
      BY <3>3, PlacesAre
    <3> QED BY <3>1, <3>2, <3>3
  <2>2. ASSUME NEW place
        PROVE  place \in O <=> place \in S /\ place[1] = v
    BY <1>3 DEF Own, CanGive, HeldBy
  <2>3. IsFiniteSet(S) /\ IsFiniteSet(T)
    BY RefsType
  <2> HIDE DEF S, T, O
  <2>4. S = T \cup O /\ T \cap O = {} /\ O \in SUBSET S
    BY <2>1, <2>2
  <2>5. IsFiniteSet(O)
    BY <2>3, <2>4, FS_Subset
  <2>6. Cardinality(S) = Cardinality(T) + Cardinality(O) - Cardinality({})
    BY <2>3, <2>4, <2>5, FS_Union
  <2>7. /\ Cardinality(T) \in Nat /\ Cardinality(O) \in Nat
        /\ Cardinality({}) = 0
    BY <2>3, <2>5, FS_CardinalityType, FS_EmptySet
  <2>8. Cardinality(O) = Cardinality(From(e, 0, w))
    BY <1>1, OwnCount DEF O
  <2> QED BY <2>6, <2>7, <2>8 DEF Refs, S, T
<1>9. Tallied(b, Due(g, e, 0), X)
  <2> HIDE DEF e
  <2>1. Due(g, e, 0) \in Owed
    BY <1>1, <1>2, LeftType
  <2> SUFFICES ASSUME NEW w \in Value
               PROVE  /\ b[w].ref_count = Due(g, e, 0)[w] + Refs(b, w, X)
                      /\ Exists(b, w) <=> b[w].ref_count > 0
    BY <1>5, <2>1 DEF Tallied
  <2> DEFINE c == Cardinality(From(e, 0, w))
             rb == Refs(b, w, X)
             rh == Refs(hp, w, X)
  <2>5. Due(g, e, 0)[w] = g[w] + c
    BY <1>1, <1>2, LeftType
  <2>6. c \in Nat
    BY <1>2, FromType
  <2>7. rb \in Nat /\ rh \in Nat
    BY RefsType
  <2>8. g[w] \in Nat
    BY <1>1 DEF Owed
  <2>9. rh = rb + c
    BY <1>8
  <2> HIDE DEF c, rb, rh
  <2>2. Due(g, e, 0)[w] = g[w] + c /\ g[w] \in Nat
    BY <2>5, <2>8
  <2>3. CASE w = v
    <3>1. rh = 0
      BY <1>4, <2>3 DEF rh
    <3>2. c = 0 /\ rb = 0
      BY <2>6, <2>7, <2>9, <3>1
    <3>3. Due(g, e, 0)[w] + rb = 0
      BY <1>4, <2>2, <2>3, <3>2
    <3> QED BY <1>5, <2>3, <3>3, HeapIs DEF Exists, rb
  <2>4. CASE w # v
    <3>1. /\ hp[w].ref_count = Plus(g, v)[w] + rh
          /\ Exists(hp, w) <=> hp[w].ref_count > 0
      BY <1>1 DEF Tallied, rh
    <3>2. Plus(g, v)[w] = g[w]
      BY <1>1, <2>2, <2>4, PlusType
    <3>3. b[w] = hp[w]
      BY <1>5, <2>4
    <3>4. hp[w].ref_count = Due(g, e, 0)[w] + rb
      BY <2>2, <2>6, <2>7, <2>9, <3>1, <3>2
    <3> QED BY <3>1, <3>3, <3>4 DEF Exists, rb
  <2> QED BY <2>3, <2>4
<1>10. WellShaped(b)
  <2> SUFFICES ASSUME NEW w \in Value PROVE Shaped(b[w])
    BY DEF WellShaped
  <2>1. CASE w = v
    BY <1>5, <2>1, HeapIs DEF Shaped
  <2>2. CASE w # v
    BY <1>1, <1>5, <2>2 DEF WellShaped
  <2> QED BY <2>1, <2>2
<1>11. Cardinality(Living(hp)) = Cardinality(Living(b)) + 1
  <2>1. Living(b) = Living(hp) \ {v} /\ v \in Living(hp)
    BY <1>1, <1>4, <1>5, HeapIs DEF Living, Exists
  <2>2. IsFiniteSet(Living(hp)) /\ Cardinality(Living(hp)) \in Nat
    BY LivingFinite
  <2>3. Cardinality(Living(hp) \ {v}) = Cardinality(Living(hp)) - 1
    BY <2>1, <2>2, FS_RemoveElement
  <2> DEFINE c == Cardinality(Living(hp))
             d == Cardinality(Living(b))
  <2>4. d = c - 1
    BY <2>1, <2>3, Zenon
  <2>5. c \in Nat
    BY <2>2
  <2> HIDE DEF c, d
  <2>6. c = d + 1
    BY <2>4, <2>5
  <2> QED BY <2>6 DEF c, d
<1> QED BY <1>7, <1>9, <1>10, <1>11 DEF Counted

LEMMA LivingBound ==
  ASSUME ValueConstants, NEW hp
  PROVE  Cardinality(Living(hp)) <= MaxValues
<1>1. Living(hp) \in SUBSET (1 .. MaxValues)
  BY DEF Living, Value
<1>2. /\ IsFiniteSet(1 .. MaxValues)
      /\ Cardinality(1 .. MaxValues) = MaxValues
  BY FS_Interval DEF ValueConstants
<1> QED BY <1>1, <1>2, FS_Subset

LEMMA BaseGives ==
  ASSUME ValueConstants
  PROVE  GivesUp(UnrefBase, 0)
<1> SUFFICES ASSUME NEW hp \in Heap, NEW v \in Value, NEW g \in Owed,
                    NEW X, NEW A, CanGive(hp, v, g, X, A),
                    Cardinality(Living(hp)) <= 0
             PROVE  FALSE
  BY DEF GivesUp
<1>1. Living(hp) = {}
  BY LivingFinite, FS_EmptySet
<1>2. /\ g[v] \in Nat /\ Plus(g, v)[v] = g[v] + 1
      /\ hp[v].ref_count = Plus(g, v)[v] + Refs(hp, v, X)
      /\ Refs(hp, v, X) \in Nat
      /\ Exists(hp, v) <=> hp[v].ref_count > 0
  BY PlusType, RefsType DEF CanGive, Counted, Tallied
<1>3. v \in Living(hp)
  BY <1>2 DEF Living
<1> QED BY <1>1, <1>3

LEMMA StepGives ==
  ASSUME ValueConstants, NEW u, NEW n \in Nat, GivesUp(u, n)
  PROVE  GivesUp(UnrefStep(u), n + 1)
<1> SUFFICES ASSUME NEW hp \in Heap, NEW v \in Value, NEW g \in Owed,
                    NEW X, NEW A, CanGive(hp, v, g, X, A),
                    Cardinality(Living(hp)) <= n + 1
             PROVE  GaveUp(hp, UnrefStep(u)[hp][v], g, X, A)
  BY DEF GivesUp
<1> DEFINE b == [hp EXCEPT ![v] = Nothing]
           e == Entries(hp, v)
<1>1. UnrefStep(u)[hp][v] = IF hp[v].ref_count > 1
                              THEN [hp EXCEPT ![v].ref_count = @ - 1]
                              ELSE Through(u, b, e)
  BY DEF UnrefStep
<1>2. CASE hp[v].ref_count > 1
  <2>1. GaveUp(hp, [hp EXCEPT ![v].ref_count = @ - 1], g, X, A)
    BY <1>2, GivenOne
  <2> QED BY <1>1, <1>2, <2>1
<1>3. CASE ~(hp[v].ref_count > 1)
  <2>1. UnrefStep(u)[hp][v] = Through(u, b, e)
    BY <1>1, <1>3
  <2> HIDE DEF b
  <2>2. /\ Counted(b, Due(g, e, 0), X) /\ Keeps(hp, b, A)
        /\ Cardinality(Living(hp)) = Cardinality(Living(b)) + 1
    BY <1>3, FreedOwes DEF b
  <2>3. Cardinality(Living(b)) \in Nat /\ Cardinality(Living(b)) <= n
    BY <2>2, LivingFinite
  <2>4. A \subseteq Value /\ Standing(hp, g, X, A) /\ HeldBy(X, A)
    BY DEF CanGive
  <2>5. Standing(b, g, X, A)
    <3>1. \A w \in Value : g[w] <= g[w]
      BY DEF Owed
    <3> QED BY <2>2, <2>4, <3>1, StandsOn
  <2>6. e \in Seq(Value)
    BY EntriesAre
  <2> HIDE DEF e
  <2>7. GaveUp(b, Through(u, b, e), g, X, A)
    BY <2>2, <2>3, <2>4, <2>5, <2>6, GiveAll
  <2> QED BY <2>1, <2>2, <2>7, KeepsOn DEF GaveUp
<1> QED BY <1>2, <1>3

\* However deep what is given up goes.
LEMMA UnrefGives ==
  ASSUME ValueConstants
  PROVE  GivesUp(Unref[MaxValues], MaxValues)
<1> DEFINE T == {n \in Nat : GivesUp(Unref[n], n)}
<1>1. 0 \in T
  BY BaseGives, UnrefIs
<1>2. ASSUME NEW n \in Nat, n \in T PROVE n + 1 \in T
  <2>1. GivesUp(UnrefStep(Unref[n]), n + 1)
    BY <1>2, StepGives
  <2> QED BY <2>1, UnrefIs
<1>3. Nat \subseteq T
  <2> HIDE DEF T
  <2> QED BY <1>1, <1>2, AllNumbers
<1> QED BY <1>3 DEF ValueConstants

\* webview_value_unref gives up one reference to a value, those to what it
\* held if it was the last, and nothing else.
LEMMA UnrefGiven ==
  ASSUME ValueConstants, NEW hp, NEW v, NEW g, NEW X, NEW A,
         CanGive(hp, v, g, X, A)
  PROVE  GaveUp(hp, webview_value_unref(hp, v), g, X, A)
<1>1. hp \in Heap /\ v \in Value /\ g \in Owed
  BY DEF CanGive, Counted, Tallied
<1>2. Cardinality(Living(hp)) <= MaxValues
  BY LivingBound
<1>3. GivesUp(Unref[MaxValues], MaxValues)
  BY UnrefGives
<1>4. GaveUp(hp, Unref[MaxValues][hp][v], g, X, A)
  BY <1>1, <1>2, <1>3, Zenon DEF GivesUp
<1> QED BY <1>4, Zenon DEF webview_value_unref
-----------------------------------------------------------------------------
(***************************************************************************)
(* Making a value, and taking one more reference to it.                    *)
(***************************************************************************)
LEMMA FreshIs ==
  ASSUME NEW hp, FreeIn(hp) # {}
  PROVE  Fresh(hp) \in Value /\ ~Exists(hp, Fresh(hp))
<1>1. FreeIn(hp) \subseteq Nat
  BY DEF FreeIn, Value
<1>2. \E v \in FreeIn(hp) : \A w \in FreeIn(hp) : v <= w
  BY <1>1, LeastNumber
<1>3. Fresh(hp) \in FreeIn(hp)
  BY <1>2 DEF Fresh
<1> QED BY <1>3 DEF FreeIn

\* A value that is not there is owed to nobody, and nothing holds it.
LEMMA NothingOwed ==
  ASSUME ValueConstants, NEW hp, NEW g, NEW X, Tallied(hp, g, X),
         NEW v \in Value
  PROVE  /\ hp[v].ref_count \in Nat /\ g[v] \in Nat /\ Refs(hp, v, X) \in Nat
         /\ hp[v].ref_count = g[v] + Refs(hp, v, X)
         /\ ~Exists(hp, v) =>
              hp[v].ref_count = 0 /\ g[v] = 0 /\ Refs(hp, v, X) = 0
<1>1. hp[v].ref_count \in Nat /\ g[v] \in Nat /\ Refs(hp, v, X) \in Nat
  BY CellIs, RefsType DEF Tallied, Owed
<1>2. /\ hp[v].ref_count = g[v] + Refs(hp, v, X)
      /\ Exists(hp, v) <=> hp[v].ref_count > 0
  BY DEF Tallied
<1> QED BY <1>1, <1>2

\* What a place that counts holds is there.
LEMMA HeldExists ==
  ASSUME ValueConstants, NEW hp, NEW g, NEW X, Tallied(hp, g, X),
         NEW v \in Value, NEW place, place \in Places(hp, v) \ X
  PROVE  Exists(hp, v)
<1>1. Refs(hp, v, X) > 0
  BY RefsType
<1> QED BY <1>1, NothingOwed

\* What is made of the free cell f.
Built(hp, r, f, kind, content) ==
  /\ f \in Value /\ ~Exists(hp, f)
  /\ r[f].kind = kind /\ r[f].content = content /\ r[f].ref_count = 1
  /\ r[f].keys = <<>> /\ r[f].values = <<>>
  /\ \A w \in Value : w # f => r[w] = hp[w]

LEMMA NewMade ==
  ASSUME NEW hp \in Heap, FreeIn(hp) # {},
         NEW kind \in Kind, NEW content \in Scalars \cup {<<>>}
  PROVE  /\ webview_value_new(hp, kind, content) \in Heap
         /\ Built(hp, webview_value_new(hp, kind, content), Fresh(hp), kind,
                  content)
<1> DEFINE f == Fresh(hp)
           c == [Nothing EXCEPT !.kind = kind, !.content = content,
                                !.ref_count = 1]
<1>1. f \in Value /\ ~Exists(hp, f)
  BY FreshIs
<1>2. /\ c \in Cell /\ c.kind = kind /\ c.content = content
      /\ c.ref_count = 1 /\ c.keys = <<>> /\ c.values = <<>>
  BY HeapIs DEF Cell
<1>3. webview_value_new(hp, kind, content) = [hp EXCEPT ![f] = c]
  BY Zenon DEF webview_value_new
<1> HIDE DEF f, c
<1> DEFINE r == [hp EXCEPT ![f] = c]
<1>4. r \in Heap /\ r[f] = c /\ \A w \in Value : w # f => r[w] = hp[w]
  BY <1>1, <1>2, HeapIs
<1> HIDE DEF r
<1>5. Built(hp, r, f, kind, content)
  BY <1>1, <1>2, <1>4 DEF Built
<1> QED BY <1>3, <1>4, <1>5 DEF r, f

LEMMA NewCounted ==
  ASSUME ValueConstants, NEW hp, NEW g, Counted(hp, g, {}), FreeIn(hp) # {},
         NEW kind \in {"scalar", "list", "map"},
         NEW content \in Scalars \cup {<<>>},
         NEW r, r = webview_value_new(hp, kind, content)
  PROVE  /\ Built(hp, r, Fresh(hp), kind, content)
         /\ Counted(r, Plus(g, Fresh(hp)), {})
<1> DEFINE f == Fresh(hp)
<1>1. hp \in Heap /\ g \in Owed /\ kind \in Kind /\ WellShaped(hp)
  BY DEF Counted, Tallied, Kind
<1>2. r \in Heap /\ Built(hp, r, f, kind, content)
  BY <1>1, NewMade
<1> HIDE DEF f
<1>3. f \in Value /\ ~Exists(hp, f)
  BY <1>2 DEF Built
<1>4. hp[f].keys = <<>> /\ hp[f].values = <<>>
  BY <1>1, <1>3, HeapIs DEF WellShaped, Shaped, Exists
<1>5. \A w \in Value : /\ r[w].keys = hp[w].keys
                       /\ r[w].values = hp[w].values
  BY <1>2, <1>4 DEF Built
<1>6. Tallied(r, Plus(g, f), {})
  <2> SUFFICES ASSUME NEW w \in Value
               PROVE  /\ r[w].ref_count = Plus(g, f)[w] + Refs(r, w, {})
                      /\ Exists(r, w) <=> r[w].ref_count > 0
    BY <1>1, <1>2, <1>3, PlusType DEF Tallied
  <2>1. Places(r, w) = Places(hp, w)
    BY <1>5, SameRows
  <2>2. Refs(r, w, {}) = Refs(hp, w, {})
    BY <2>1, Zenon DEF Refs
  <2>3. /\ hp[w].ref_count \in Nat /\ g[w] \in Nat /\ Refs(hp, w, {}) \in Nat
        /\ hp[w].ref_count = g[w] + Refs(hp, w, {})
        /\ ~Exists(hp, w) => g[w] = 0 /\ Refs(hp, w, {}) = 0
    BY NothingOwed DEF Counted
  <2>4. Plus(g, f)[w] = g[w] + (IF w = f THEN 1 ELSE 0)
    BY <1>1, <1>3, PlusType
  <2>5. CASE w = f
    <3>1. r[w].ref_count = 1 /\ r[w].kind = kind
      BY <1>2, <2>5 DEF Built
    <3>2. Plus(g, f)[w] = 1 /\ Refs(r, w, {}) = 0
      BY <1>3, <2>2, <2>3, <2>4, <2>5
    <3> QED BY <3>1, <3>2 DEF Exists
  <2>6. CASE w # f
    <3>1. r[w] = hp[w]
      BY <1>2, <2>6 DEF Built
    <3>2. Exists(hp, w) <=> hp[w].ref_count > 0
      BY DEF Counted, Tallied
    <3> QED BY <2>2, <2>3, <2>4, <2>6, <3>1, <3>2 DEF Exists
  <2> QED BY <2>5, <2>6
<1>7. WellShaped(r)
  <2> SUFFICES ASSUME NEW w \in Value PROVE Shaped(r[w])
    BY DEF WellShaped
  <2>1. CASE w = f
    <3>1. MaxItems \in Nat /\ MaxEntries \in Nat
      BY DEF ValueConstants
    <3>2. /\ r[w].kind = kind /\ r[w].keys = <<>> /\ r[w].values = <<>>
      BY <1>2, <2>1 DEF Built
    <3> QED BY <3>1, <3>2 DEF Shaped
  <2>2. CASE w # f
    BY <1>1, <1>2, <2>2 DEF WellShaped, Built
  <2> QED BY <2>1, <2>2
<1> QED BY <1>2, <1>6, <1>7 DEF Counted, f

LEMMA RefCounted ==
  ASSUME ValueConstants, NEW hp, NEW g, NEW v \in Value, Counted(hp, g, {}),
         Exists(hp, v), NEW r, r = webview_value_ref(hp, v)
  PROVE  /\ Counted(r, Plus(g, v), {}) /\ Keeps(hp, r, Value)
         /\ \A w \in Value : Exists(r, w) <=> Exists(hp, w)
<1>1. hp \in Heap /\ g \in Owed /\ WellShaped(hp)
  BY DEF Counted, Tallied
<1>2. hp[v] \in Cell /\ hp[v].ref_count + 1 \in Nat
  BY <1>1, CellIs
<1>3. [hp[v] EXCEPT !.ref_count = @ + 1] \in Cell
  BY <1>2 DEF Cell
<1>4. r = [hp EXCEPT ![v].ref_count = @ + 1]
  BY DEF webview_value_ref
<1>5. r \in Heap
  BY <1>1, <1>3, <1>4, HeapIs
<1>6. \A w \in Value : /\ Same(hp, r, w)
                       /\ w # v => r[w] = hp[w]
                       /\ r[v].ref_count = hp[v].ref_count + 1
  BY <1>1, <1>4, HeapIs DEF Same, Cell
<1>7. Keeps(hp, r, Value)
  BY <1>6 DEF Keeps
<1>8. ASSUME NEW w \in Value PROVE Exists(r, w) <=> Exists(hp, w)
  BY <1>6 DEF Same, Exists
<1>9. Tallied(r, Plus(g, v), {})
  <2> SUFFICES ASSUME NEW w \in Value
               PROVE  /\ r[w].ref_count = Plus(g, v)[w] + Refs(r, w, {})
                      /\ Exists(r, w) <=> r[w].ref_count > 0
    BY <1>1, <1>5, PlusType DEF Tallied
  <2>1. Places(r, w) = Places(hp, w)
    BY <1>6, SameRows DEF Same
  <2>2. Refs(r, w, {}) = Refs(hp, w, {})
    BY <2>1, Zenon DEF Refs
  <2>3. /\ hp[w].ref_count \in Nat /\ g[w] \in Nat /\ Refs(hp, w, {}) \in Nat
        /\ hp[w].ref_count = g[w] + Refs(hp, w, {})
        /\ Exists(hp, w) <=> hp[w].ref_count > 0
    BY NothingOwed DEF Counted, Tallied
  <2>4. Plus(g, v)[w] = g[w] + (IF w = v THEN 1 ELSE 0)
    BY <1>1, PlusType
  <2>5. CASE w = v
    BY <1>6, <1>8, <2>2, <2>3, <2>4, <2>5
  <2>6. CASE w # v
    BY <1>6, <1>8, <2>2, <2>3, <2>4, <2>6
  <2> QED BY <2>5, <2>6
<1>10. WellShaped(r)
  <2> SUFFICES ASSUME NEW w \in Value PROVE Shaped(r[w])
    BY DEF WellShaped
  <2>1. Shaped(hp[w]) /\ Same(hp, r, w)
    BY <1>1, <1>6 DEF WellShaped
  <2>2. CASE w # v
    BY <1>6, <2>1, <2>2
  <2>3. CASE w = v
    <3>1. r[w].kind # "none"
      BY <2>1, <2>3 DEF Same, Exists
    <3> QED BY <2>1, <3>1 DEF Same, Shaped
  <2> QED BY <2>2, <2>3
<1> QED BY <1>7, <1>8, <1>9, <1>10 DEF Counted
-----------------------------------------------------------------------------
(***************************************************************************)
(* Putting a value into a list or a map, at the end or over another one.   *)
(***************************************************************************)
\* The rows of all values are the same, but for one of m.
Only(hp, r, m, row) ==
  \A u \in Value : /\ u # m \/ row # "keys" => r[u].keys = hp[u].keys
                   /\ u # m \/ row # "values" => r[u].values = hp[u].values

RowOf(hp, m, row) == IF row = "keys" THEN hp[m].keys ELSE hp[m].values

\* new is old with v at i, added at the end or put over what was there.
Slots(old, new, i, v) ==
  /\ i \in DOMAIN new /\ new[i] = v
  /\ \A j : j # i => /\ j \in DOMAIN new <=> j \in DOMAIN old
                     /\ j \in DOMAIN old => new[j] = old[j]

LEMMA RowPut ==
  ASSUME NEW hp, NEW r, NEW m \in Value, NEW row \in {"keys", "values"},
         NEW i, NEW v \in Value, NEW X, <<m, row, i>> \in Place,
         Only(hp, r, m, row),
         Slots(RowOf(hp, m, row), RowOf(r, m, row), i, v),
         \/ X = {<<m, row, i>>}
         \/ X = {} /\ i \notin DOMAIN RowOf(hp, m, row)
  PROVE  Puts(hp, r, <<m, row, i>>, v, X)
<1> DEFINE p == <<m, row, i>>
<1>1. Row(hp, p) = RowOf(hp, m, row) /\ Row(r, p) = RowOf(r, m, row)
  BY DEF Row, RowOf
<1>2. \A w \in Value : HeldAt(r, p, w) <=> w = v
  BY <1>1 DEF HeldAt, Slots
<1>3. ASSUME NEW q \in Place \ {p}, NEW w \in Value
      PROVE  HeldAt(r, q, w) <=> HeldAt(hp, q, w)
  <2>1. /\ q[1] \in Value /\ q[2] \in {"keys", "values"}
        /\ q = <<q[1], q[2], q[3]>>
    BY DEF Place
  <2>2. CASE q[1] = m /\ q[2] = row
    <3>1. q[3] # i
      BY <2>1, <2>2
    <3>2. Row(hp, q) = RowOf(hp, m, row) /\ Row(r, q) = RowOf(r, m, row)
      BY <2>1, <2>2 DEF Row, RowOf
    <3> QED BY <3>1, <3>2 DEF HeldAt, Slots
  <2>3. CASE q[1] # m \/ q[2] # row
    <3>1. Row(r, q) = Row(hp, q)
      BY <2>1, <2>3 DEF Row, Only
    <3> QED BY <3>1 DEF HeldAt
  <2> QED BY <2>2, <2>3
<1>4. X = {p} \/ (X = {} /\ \A w \in Value : ~HeldAt(hp, p, w))
  BY <1>1 DEF HeldAt
<1> QED BY <1>2, <1>3, <1>4 DEF Puts

LEMMA AppendSlots ==
  ASSUME NEW old \in Seq(Value), NEW v \in Value
  PROVE  /\ Append(old, v) \in Seq(Value) /\ Len(Append(old, v)) = Len(old) + 1
         /\ Len(old) + 1 \notin DOMAIN old
         /\ Slots(old, Append(old, v), Len(old) + 1, v)
<1> DEFINE new == Append(old, v)
<1>1. /\ new \in Seq(Value) /\ Len(new) = Len(old) + 1 /\ Len(old) \in Nat
      /\ DOMAIN old = 1 .. Len(old) /\ DOMAIN new = 1 .. Len(old) + 1
      /\ new[Len(old) + 1] = v
      /\ \A j \in 1 .. Len(old) : new[j] = old[j]
  OBVIOUS
<1> HIDE DEF new
<1>2. Len(old) + 1 \notin DOMAIN old /\ Len(old) + 1 \in DOMAIN new
  BY <1>1
<1>3. ASSUME NEW j, j # Len(old) + 1
      PROVE  /\ j \in DOMAIN new <=> j \in DOMAIN old
             /\ j \in DOMAIN old => new[j] = old[j]
  BY <1>1, <1>3
<1>4. Slots(old, new, Len(old) + 1, v)
  BY <1>1, <1>2, <1>3 DEF Slots
<1> QED BY <1>1, <1>2, <1>4 DEF new

LEMMA OverSlots ==
  ASSUME NEW old \in Seq(Value), NEW v \in Value, NEW i \in 1 .. Len(old),
         NEW new, new = [old EXCEPT ![i] = v]
  PROVE  new \in Seq(Value) /\ Len(new) = Len(old) /\ Slots(old, new, i, v)
BY DEF Slots

SameCounts(hp, r) ==
  \A w \in Value : r[w].kind = hp[w].kind /\ r[w].ref_count = hp[w].ref_count

\* What is put somewhere is no longer owed.
LEMMA PutTallied ==
  ASSUME ValueConstants, NEW hp, NEW r \in Heap, NEW g \in Owed,
         NEW v \in Value, NEW X, NEW place, Tallied(hp, Plus(g, v), X),
         Puts(hp, r, place, v, X), SameCounts(hp, r)
  PROVE  Tallied(r, g, {})
<1> SUFFICES ASSUME NEW w \in Value
             PROVE  /\ r[w].ref_count = g[w] + Refs(r, w, {})
                    /\ Exists(r, w) <=> r[w].ref_count > 0
  BY DEF Tallied
<1>1. /\ hp[w].ref_count = Plus(g, v)[w] + Refs(hp, w, X)
      /\ Exists(hp, w) <=> hp[w].ref_count > 0
  BY DEF Tallied
<1>2. Plus(g, v)[w] = g[w] + (IF w = v THEN 1 ELSE 0) /\ g[w] \in Nat
  BY PlusType
<1>3. Refs(r, w, {}) = Refs(hp, w, X) + (IF w = v THEN 1 ELSE 0)
  BY PutCounts
<1>4. Refs(hp, w, X) \in Nat
  BY RefsType
<1>5. Exists(r, w) <=> r[w].ref_count > 0
  BY <1>1 DEF Exists, SameCounts
<1>6. r[w].ref_count = hp[w].ref_count
  BY DEF SameCounts
<1> QED BY <1>1, <1>2, <1>3, <1>4, <1>5, <1>6

\* A cell whose rows, kind and content are given.
Altered(hp, r, m, keys, values) ==
  /\ r \in Heap
  /\ r[m].keys = keys /\ r[m].values = values
  /\ \A w \in Value : /\ r[w].kind = hp[w].kind /\ r[w].content = hp[w].content
                      /\ r[w].ref_count = hp[w].ref_count
                      /\ w # m => r[w] = hp[w]

LEMMA AlteredKeys ==
  ASSUME NEW hp \in Heap, NEW m \in Value, NEW keys \in Seq(Value),
         NEW r, r = [hp EXCEPT ![m].keys = keys]
  PROVE  Altered(hp, r, m, keys, hp[m].values)
<1> DEFINE c == [hp[m] EXCEPT !.keys = keys]
<1>1. hp[m] \in Cell
  BY CellIs
<1>2. /\ c \in Cell /\ c.kind = hp[m].kind /\ c.content = hp[m].content
      /\ c.ref_count = hp[m].ref_count /\ c.keys = keys
      /\ c.values = hp[m].values
  BY <1>1 DEF Cell
<1>3. r = [hp EXCEPT ![m] = c]
  OBVIOUS
<1> HIDE DEF c
<1>4. r \in Heap /\ r[m] = c /\ \A w \in Value : w # m => r[w] = hp[w]
  BY <1>2, <1>3, HeapIs
<1> QED BY <1>2, <1>4 DEF Altered

LEMMA AlteredValues ==
  ASSUME NEW hp \in Heap, NEW m \in Value, NEW values \in Seq(Value),
         NEW r, r = [hp EXCEPT ![m].values = values]
  PROVE  Altered(hp, r, m, hp[m].keys, values)
<1> DEFINE c == [hp[m] EXCEPT !.values = values]
<1>1. hp[m] \in Cell
  BY CellIs
<1>2. /\ c \in Cell /\ c.kind = hp[m].kind /\ c.content = hp[m].content
      /\ c.ref_count = hp[m].ref_count /\ c.values = values
      /\ c.keys = hp[m].keys
  BY <1>1 DEF Cell
<1>3. r = [hp EXCEPT ![m] = c]
  OBVIOUS
<1> HIDE DEF c
<1>4. r \in Heap /\ r[m] = c /\ \A w \in Value : w # m => r[w] = hp[w]
  BY <1>2, <1>3, HeapIs
<1> QED BY <1>2, <1>4 DEF Altered

\* Only m can have lost its shape.
LEMMA AlteredShaped ==
  ASSUME NEW hp, NEW r, NEW m, NEW keys, NEW values,
         WellShaped(hp), Altered(hp, r, m, keys, values), Shaped(r[m])
  PROVE  WellShaped(r)
<1> SUFFICES ASSUME NEW w \in Value PROVE Shaped(r[w])
  BY DEF WellShaped
<1>1. CASE w = m
  BY <1>1
<1>2. CASE w # m
  BY <1>2 DEF Altered, WellShaped
<1> QED BY <1>1, <1>2

LEMMA AppendTaken ==
  ASSUME ValueConstants, NEW hp, NEW g \in Owed, NEW list \in Value,
         NEW v \in Value, Counted(hp, Plus(g, v), {}), hp[list].kind = "list",
         Len(hp[list].values) < MaxItems,
         NEW r, r = webview_value_append_take(hp, list, v)
  PROVE  /\ Counted(r, g, {})
         /\ Altered(hp, r, list, hp[list].keys, Append(hp[list].values, v))
<1> DEFINE old == hp[list].values
           new == Append(old, v)
           i == Len(old) + 1
<1>1. /\ hp \in Heap /\ WellShaped(hp) /\ Tallied(hp, Plus(g, v), {})
      /\ old \in Seq(Value) /\ Len(old) \in Nat /\ MaxItems \in Nat
      /\ MaxEntries \in Nat
  BY CellIs DEF Counted, Tallied, ValueConstants
<1>2. /\ new \in Seq(Value) /\ Len(new) = i
      /\ i \notin DOMAIN old /\ Slots(old, new, i, v)
  BY <1>1, AppendSlots
<1>3. r = [hp EXCEPT ![list].values = new]
  BY DEF webview_value_append_take
<1>4. i \in 1 .. MaxItems + MaxEntries /\ i <= MaxItems
  BY <1>1
<1> HIDE DEF old, new, i
<1>5. Altered(hp, r, list, hp[list].keys, new)
  BY <1>1, <1>2, <1>3, AlteredValues
<1>6. <<list, "values", i>> \in Place
  BY <1>4, Zenon DEF Place
<1>7. Tallied(r, g, {})
  <2>1. Only(hp, r, list, "values")
    BY <1>5 DEF Altered, Only
  <2>2. RowOf(hp, list, "values") = old /\ RowOf(r, list, "values") = new
    BY <1>5 DEF Altered, RowOf, old
  <2>3. Puts(hp, r, <<list, "values", i>>, v, {})
    BY <1>2, <1>6, <2>1, <2>2, RowPut
  <2>4. r \in Heap /\ SameCounts(hp, r)
    BY <1>5 DEF Altered, SameCounts
  <2> QED BY <1>1, <2>3, <2>4, PutTallied
<1>8. Shaped(r[list])
  <2>1. /\ r[list].kind = "list" /\ r[list].keys = hp[list].keys
        /\ r[list].values = new
    BY <1>5 DEF Altered
  <2>2. hp[list].keys = <<>>
    BY <1>1 DEF WellShaped, Shaped
  <2> QED BY <1>2, <1>4, <2>1, <2>2 DEF Shaped
<1>9. WellShaped(r)
  BY <1>1, <1>5, <1>8, AlteredShaped
<1> QED BY <1>5, <1>7, <1>9 DEF Counted, old, new

\* A new entry of a map.
LEMMA EntryAdded ==
  ASSUME ValueConstants, NEW hp, NEW g \in Owed, NEW m \in Value,
         NEW key \in Value, NEW v \in Value,
         Counted(hp, Plus(Plus(g, v), key), {}), hp[m].kind = "map",
         Len(hp[m].keys) < MaxEntries,
         NEW r, r = [hp EXCEPT ![m].keys = Append(@, key),
                               ![m].values = Append(@, v)]
  PROVE  /\ Counted(r, g, {})
         /\ Altered(hp, r, m, Append(hp[m].keys, key), Append(hp[m].values, v))
<1> DEFINE keys == hp[m].keys
           values == hp[m].values
           keys2 == Append(keys, key)
           values2 == Append(values, v)
           i == Len(keys) + 1
           h == [hp EXCEPT ![m].keys = keys2]
           place == <<m, "keys", i>>
           place2 == <<m, "values", i>>
<1>1. /\ hp \in Heap /\ WellShaped(hp) /\ Tallied(hp, Plus(Plus(g, v), key), {})
      /\ keys \in Seq(Value) /\ Len(keys) \in Nat /\ MaxItems \in Nat
      /\ MaxEntries \in Nat /\ values \in Seq(Value) /\ Len(values) = Len(keys)
  BY CellIs DEF Counted, Tallied, ValueConstants, WellShaped, Shaped
<1>2. /\ keys2 \in Seq(Value) /\ Len(keys2) = i
      /\ i \notin DOMAIN keys /\ Slots(keys, keys2, i, key)
  BY <1>1, AppendSlots
<1>3. /\ values2 \in Seq(Value) /\ Len(values2) = i
      /\ i \notin DOMAIN values /\ Slots(values, values2, i, v)
  BY <1>1, AppendSlots
<1>4. r = [h EXCEPT ![m].values = values2]
  OBVIOUS
<1>5. i \in 1 .. MaxItems + MaxEntries /\ i <= MaxEntries
  BY <1>1
<1> HIDE DEF keys2, values2, i, h
<1>6. Altered(hp, h, m, keys2, values)
  BY <1>1, <1>2, AlteredKeys DEF h
<1> HIDE DEF keys, values
<1>7. Altered(h, r, m, keys2, values2)
  <2>1. h \in Heap /\ h[m].keys = keys2
    BY <1>6 DEF Altered
  <2> QED BY <1>3, <1>4, <2>1, AlteredValues
<1>8. place \in Place /\ place2 \in Place
  BY <1>5, Zenon DEF Place
<1> HIDE DEF place, place2
<1>9. Tallied(h, Plus(g, v), {})
  <2>1. Only(hp, h, m, "keys")
    BY <1>6 DEF Altered, Only, values
  <2>2. RowOf(hp, m, "keys") = keys /\ RowOf(h, m, "keys") = keys2
    BY <1>6 DEF Altered, RowOf, keys
  <2>3. Puts(hp, h, place, key, {})
    BY <1>2, <1>8, <2>1, <2>2, RowPut DEF place
  <2>4. h \in Heap /\ SameCounts(hp, h)
    BY <1>6 DEF Altered, SameCounts
  <2>5. Plus(g, v) \in Owed
    BY PlusType
  <2> QED BY <1>1, <2>3, <2>4, <2>5, PutTallied
<1>10. Tallied(r, g, {})
  <2>1. Only(h, r, m, "values")
    <3>1. h[m].keys = keys2
      BY <1>6 DEF Altered
    <3> QED BY <1>7, <3>1 DEF Altered, Only
  <2>2. RowOf(h, m, "values") = values /\ RowOf(r, m, "values") = values2
    BY <1>6, <1>7 DEF Altered, RowOf
  <2>3. Puts(h, r, place2, v, {})
    BY <1>3, <1>8, <2>1, <2>2, RowPut DEF place2
  <2>4. r \in Heap /\ SameCounts(h, r)
    BY <1>7 DEF Altered, SameCounts
  <2> QED BY <1>9, <2>3, <2>4, PutTallied
<1>11. Shaped(r[m])
  <2>1. r[m].kind = "map" /\ r[m].keys = keys2 /\ r[m].values = values2
    BY <1>6, <1>7 DEF Altered
  <2> QED BY <1>2, <1>3, <1>5, <2>1 DEF Shaped
<1>12. Altered(hp, r, m, keys2, values2)
  <2>1. r \in Heap /\ r[m].keys = keys2 /\ r[m].values = values2
    BY <1>7, Zenon DEF Altered
  <2>2. ASSUME NEW w \in Value
        PROVE  /\ r[w].kind = hp[w].kind /\ r[w].content = hp[w].content
               /\ r[w].ref_count = hp[w].ref_count
               /\ w # m => r[w] = hp[w]
    <3>1. /\ r[w].kind = h[w].kind /\ r[w].content = h[w].content
          /\ r[w].ref_count = h[w].ref_count
          /\ w # m => r[w] = h[w]
      BY <1>7, Zenon DEF Altered
    <3>2. /\ h[w].kind = hp[w].kind /\ h[w].content = hp[w].content
          /\ h[w].ref_count = hp[w].ref_count
          /\ w # m => h[w] = hp[w]
      BY <1>6, Zenon DEF Altered
    <3> QED BY <3>1, <3>2, Zenon
  <2> QED BY <2>1, <2>2, Zenon DEF Altered
<1>13. WellShaped(r)
  BY <1>1, <1>11, <1>12, AlteredShaped
<1> QED BY <1>10, <1>12, <1>13 DEF Counted, keys, values, keys2, values2
-----------------------------------------------------------------------------
(***************************************************************************)
(* webview_value_set_take.  m stays while what it held is given up: it is  *)
(* among A, values that stand without what m holds.                        *)
(***************************************************************************)
Mine(m) == {place \in Place : place[1] = m}

Rooted(hp, g, m, A) ==
  /\ m \in A /\ A \subseteq Value
  /\ Standing(hp, g, Mine(m), A)

\* Values are freed or keep their kinds.
Tidy(hp, r) == \A w \in Value : r[w].kind = hp[w].kind \/ ~Exists(r, w)

\* The values of A keep their rows, but for m.
RootedOn(hp, r, m, A) ==
  \A w \in A : w # m => r[w].keys = hp[w].keys /\ r[w].values = hp[w].values

LEMMA RootedStays ==
  ASSUME NEW hp, NEW r, NEW g, NEW m, NEW A, Rooted(hp, g, m, A),
         RootedOn(hp, r, m, A)
  PROVE  Rooted(r, g, m, A)
<1> SUFFICES ASSUME NEW a \in A, ~(g[a] > 0)
             PROVE  \E place \in Places(r, a) \ Mine(m) : place[1] \in A
  BY DEF Rooted, Standing
<1>1. PICK place \in Places(hp, a) \ Mine(m) : place[1] \in A
  BY DEF Rooted, Standing
<1>2. place \in Place /\ HeldAt(hp, place, a) /\ place[1] # m
  BY <1>1, PlacesAre DEF Mine
<1>3. Row(r, place) = Row(hp, place)
  BY <1>1, <1>2 DEF Row, RootedOn
<1>4. HeldAt(r, place, a)
  BY <1>2, <1>3 DEF HeldAt
<1>5. place \in Places(r, a)
  BY <1>2, <1>4, PlacesAre
<1> QED BY <1>1, <1>5

\* A place that is about to be overwritten no longer counts; what it holds is
\* owed instead.
LEMMA OldOwed ==
  ASSUME ValueConstants, NEW hp, NEW g \in Owed, Counted(hp, g, {}),
         NEW place \in Place, NEW old \in Value, HeldAt(hp, place, old)
  PROVE  Counted(hp, Plus(g, old), {place})
<1>1. hp \in Heap /\ WellShaped(hp) /\ Plus(g, old) \in Owed
  BY PlusType DEF Counted, Tallied
<1>2. Puts(hp, hp, place, old, {place})
  BY DEF Puts, HeldAt
<1>3. ASSUME NEW w \in Value
      PROVE  /\ hp[w].ref_count = Plus(g, old)[w] + Refs(hp, w, {place})
             /\ Exists(hp, w) <=> hp[w].ref_count > 0
  <2>1. /\ hp[w].ref_count = g[w] + Refs(hp, w, {})
        /\ Exists(hp, w) <=> hp[w].ref_count > 0
    BY DEF Counted, Tallied
  <2>2. Refs(hp, w, {}) = Refs(hp, w, {place}) + (IF w = old THEN 1 ELSE 0)
    BY <1>2, PutCounts
  <2>3. Plus(g, old)[w] = g[w] + (IF w = old THEN 1 ELSE 0) /\ g[w] \in Nat
    BY PlusType
  <2>4. Refs(hp, w, {place}) \in Nat
    BY RefsType
  <2> QED BY <2>1, <2>2, <2>3, <2>4
<1> QED BY <1>1, <1>3 DEF Counted, Tallied

\* One of the two values of an entry is given up, while its place counts no
\* longer.
LEMMA OldGiven ==
  ASSUME ValueConstants, NEW hp, NEW g \in Owed, NEW m, NEW A,
         NEW new \in Value, Counted(hp, Plus(g, new), {}), Rooted(hp, g, m, A),
         NEW row \in {"keys", "values"}, NEW i \in 1 .. Len(RowOf(hp, m, row)),
         NEW u, u = webview_value_unref(hp, RowOf(hp, m, row)[i])
  PROVE  /\ <<m, row, i>> \in Place
         /\ GaveUp(hp, u, Plus(g, new), {<<m, row, i>>}, A)
         /\ u \in Heap /\ m \in Value /\ Same(hp, u, m)
<1> DEFINE old == RowOf(hp, m, row)
           place == <<m, row, i>>
<1>1. /\ hp \in Heap /\ WellShaped(hp) /\ m \in Value /\ m \in A
      /\ A \subseteq Value
  BY DEF Counted, Tallied, Rooted
<1>2. old \in Seq(Value) /\ old[i] \in Value /\ DOMAIN old = 1 .. Len(old)
  <2>1. old \in Seq(Value)
    BY <1>1, CellIs DEF RowOf
  <2> HIDE DEF old
  <2> QED BY <2>1 DEF old
<1>3. place \in Place /\ HeldAt(hp, place, old[i])
  <2>1. CASE row = "keys"
    <3>1. place \in Place
      BY <1>1, <2>1, PlaceOf DEF RowOf
    <3> QED BY <1>2, <2>1, <3>1 DEF HeldAt, Row, RowOf
  <2>2. CASE row = "values"
    <3>1. place \in Place
      BY <1>1, <2>2, PlaceOf DEF RowOf
    <3> QED BY <1>2, <2>2, <3>1 DEF HeldAt, Row, RowOf
  <2> QED BY <2>1, <2>2
<1>4. Plus(g, new) \in Owed /\ \A w \in Value : g[w] <= Plus(g, new)[w]
  <2>1. ASSUME NEW w \in Value PROVE g[w] <= Plus(g, new)[w]
    <3>1. /\ g[w] \in Nat
          /\ Plus(g, new)[w] = g[w] + (IF w = new THEN 1 ELSE 0)
      BY PlusType
    <3> QED BY <3>1
  <2> QED BY <2>1, PlusType
<1> HIDE DEF place
<1>5. CanGive(hp, old[i], Plus(g, new), {place}, A)
  <2>1. Counted(hp, Plus(Plus(g, new), old[i]), {place})
    BY <1>2, <1>3, <1>4, OldOwed
  <2>2. place[1] = m /\ place \in Mine(m)
    BY <1>3 DEF Mine, place
  <2>3. HeldBy({place}, A)
    BY <1>1, <2>2 DEF HeldBy
  <2>4. Standing(hp, Plus(g, new), {place}, A)
    <3> SUFFICES ASSUME NEW a \in A
                 PROVE  \/ Plus(g, new)[a] > 0
                        \/ \E q \in Places(hp, a) \ {place} : q[1] \in A
      BY DEF Standing
    <3>1. CASE g[a] > 0
      <4>1. /\ g[a] \in Nat /\ Plus(g, new)[a] \in Nat
            /\ g[a] <= Plus(g, new)[a]
        BY <1>1, <1>4 DEF Owed
      <4> QED BY <3>1, <4>1
    <3>2. CASE \E q \in Places(hp, a) \ Mine(m) : q[1] \in A
      BY <2>2, <3>2
    <3> QED BY <3>1, <3>2 DEF Rooted, Standing
  <2> QED BY <1>1, <1>2, <1>4, <2>1, <2>3, <2>4 DEF CanGive
<1>6. GaveUp(hp, u, Plus(g, new), {place}, A)
  BY <1>5, UnrefGiven
<1>7. u \in Heap /\ Same(hp, u, m)
  BY <1>1, <1>6 DEF GaveUp, Counted, Tallied, Keeps
<1> QED BY <1>1, <1>3, <1>6, <1>7 DEF place

\* Another one is put in its place.
PutInto(u, r, m, row, i, new) ==
  /\ Altered(u, r, m, r[m].keys, r[m].values) /\ Only(u, r, m, row)
  /\ RowOf(r, m, row) = [RowOf(u, m, row) EXCEPT ![i] = new]

LEMMA NewPut ==
  ASSUME ValueConstants, NEW hp, NEW g \in Owed, NEW m \in Value, NEW A,
         NEW new \in Value, Counted(hp, Plus(g, new), {}), Rooted(hp, g, m, A),
         hp[m].kind = "map", NEW row \in {"keys", "values"},
         NEW i \in 1 .. Len(RowOf(hp, m, row)), <<m, row, i>> \in Place,
         NEW u, GaveUp(hp, u, Plus(g, new), {<<m, row, i>>}, A),
         NEW r, PutInto(u, r, m, row, i, new)
  PROVE  /\ Counted(r, g, {}) /\ Tidy(hp, r) /\ RootedOn(hp, r, m, A)
         /\ r[m].kind = "map"
         /\ Len(r[m].keys) = Len(hp[m].keys)
         /\ row = "keys" => r[m].values = hp[m].values
<1> DEFINE old == RowOf(hp, m, row)
           place == <<m, row, i>>
<1>1. /\ hp \in Heap /\ WellShaped(hp) /\ m \in A /\ A \subseteq Value
  BY DEF Counted, Tallied, Rooted
<1>11. /\ Altered(u, r, m, r[m].keys, r[m].values) /\ Only(u, r, m, row)
      /\ RowOf(r, m, row) = [RowOf(u, m, row) EXCEPT ![i] = new]
  BY DEF PutInto
<1>2. old \in Seq(Value)
  BY <1>1, CellIs DEF RowOf
<1> HIDE DEF place
<1>7. /\ u \in Heap /\ WellShaped(u) /\ Tallied(u, Plus(g, new), {place})
      /\ Keeps(hp, u, A)
  BY DEF GaveUp, Counted, Tallied, place
<1>8. Same(hp, u, m)
  BY <1>1, <1>7 DEF Keeps
<1>9. RowOf(u, m, row) = old
  BY <1>8 DEF Same, RowOf
<1> HIDE DEF old
<1>10. Slots(old, RowOf(r, m, row), i, new) /\ Len(RowOf(r, m, row)) = Len(old)
  <2>1. RowOf(r, m, row) = [old EXCEPT ![i] = new]
    BY <1>11, <1>9
  <2>2. i \in 1 .. Len(old)
    BY DEF old
  <2> DEFINE now == RowOf(r, m, row)
  <2>3. now = [old EXCEPT ![i] = new]
    BY <2>1
  <2> HIDE DEF now
  <2>4. Slots(old, now, i, new) /\ Len(now) = Len(old)
    BY <1>2, <2>2, <2>3, OverSlots
  <2> QED BY <2>4 DEF now
<1>12. Puts(u, r, place, new, {place})
  BY <1>11, <1>1, <1>9, <1>10, RowPut DEF place
<1>13. Tallied(r, g, {})
  <2>1. r \in Heap /\ SameCounts(u, r)
    BY <1>11 DEF Altered, SameCounts
  <2> QED BY <1>7, <1>12, <2>1, PutTallied
<1>14. /\ Len(r[m].keys) = Len(hp[m].keys)
       /\ Len(r[m].values) = Len(hp[m].values)
  <2>1. CASE row = "keys"
    BY <1>11, <1>8, <1>10, <2>1 DEF RowOf, old, Only, Same
  <2>2. CASE row = "values"
    BY <1>11, <1>8, <1>10, <2>2 DEF RowOf, old, Only, Same
  <2> QED BY <2>1, <2>2
<1>15. WellShaped(r)
  <2>1. r[m].kind = "map"
    BY <1>11, <1>1, <1>8 DEF Altered, Same
  <2>2. Shaped(hp[m])
    BY <1>1 DEF WellShaped
  <2>3. Shaped(r[m])
    BY <1>14, <2>1, <2>2 DEF Shaped
  <2> QED BY <1>11, <1>7, <2>3, AlteredShaped
<1>16. Tidy(hp, r)
  <2> SUFFICES ASSUME NEW w \in Value
               PROVE  r[w].kind = hp[w].kind \/ ~Exists(r, w)
    BY DEF Tidy
  <2>1. u[w].kind = hp[w].kind \/ ~Exists(u, w)
    BY <1>7 DEF Keeps, Same
  <2>2. r[w].kind = u[w].kind
    BY <1>11 DEF Altered
  <2> QED BY <2>1, <2>2 DEF Exists
<1>17. RootedOn(hp, r, m, A)
  <2> SUFFICES ASSUME NEW w \in A, w # m
               PROVE  r[w].keys = hp[w].keys /\ r[w].values = hp[w].values
    BY DEF RootedOn
  <2>1. Same(hp, u, w)
    BY <1>1, <1>7 DEF Keeps
  <2>2. r[w] = u[w]
    BY <1>11, <1>1 DEF Altered
  <2> QED BY <2>1, <2>2 DEF Same
<1>18. r[m].kind = "map" /\ (row = "keys" => r[m].values = hp[m].values)
  BY <1>11, <1>1, <1>8 DEF Altered, Only, Same
<1> QED BY <1>13, <1>14, <1>15, <1>16, <1>17, <1>18 DEF Counted

LEMMA PlusSwap ==
  ASSUME NEW g \in Owed, NEW a \in Value, NEW b \in Value
  PROVE  Plus(Plus(g, a), b) = Plus(Plus(g, b), a)
<1>1. Plus(g, a) \in Owed /\ Plus(g, b) \in Owed
  BY PlusType
<1>2. Plus(Plus(g, a), b) \in Owed /\ Plus(Plus(g, b), a) \in Owed
  BY <1>1, PlusType
<1>3. ASSUME NEW w \in Value
      PROVE  Plus(Plus(g, a), b)[w] = Plus(Plus(g, b), a)[w]
  <2>1. /\ Plus(Plus(g, a), b)[w] = Plus(g, a)[w] + (IF w = b THEN 1 ELSE 0)
        /\ Plus(Plus(g, b), a)[w] = Plus(g, b)[w] + (IF w = a THEN 1 ELSE 0)
    BY <1>1, PlusType
  <2>2. /\ Plus(g, a)[w] = g[w] + (IF w = a THEN 1 ELSE 0)
        /\ Plus(g, b)[w] = g[w] + (IF w = b THEN 1 ELSE 0) /\ g[w] \in Nat
    BY PlusType
  <2> QED BY <2>1, <2>2
<1> QED BY <1>2, <1>3 DEF Owed

LEMMA PlusMore ==
  ASSUME NEW g \in Owed, NEW v \in Value, NEW w \in Value
  PROVE  /\ g[w] <= Plus(g, v)[w] /\ Plus(g, v)[v] > 0
         /\ g[w] > 0 => Plus(g, v)[w] > 0
<1>1. /\ g[w] \in Nat /\ Plus(g, v)[w] = g[w] + (IF w = v THEN 1 ELSE 0)
      /\ g[v] \in Nat /\ Plus(g, v)[v] = g[v] + 1
  BY PlusType
<1> QED BY <1>1

\* The more is owed, the better m stands.
LEMMA RootedMore ==
  ASSUME NEW hp, NEW g \in Owed, NEW m, NEW A, NEW v \in Value,
         Rooted(hp, g, m, A)
  PROVE  Rooted(hp, Plus(g, v), m, A)
<1>1. \A a \in A : g[a] > 0 => Plus(g, v)[a] > 0
  BY PlusMore DEF Rooted
<1> QED BY <1>1, Zenon DEF Rooted, Standing

LEMMA RootedAlone ==
  ASSUME NEW hp, NEW g, NEW m \in Value, g[m] > 0
  PROVE  Rooted(hp, g, m, {m})
<1>1. Standing(hp, g, Mine(m), {m})
  BY Zenon DEF Standing
<1> QED BY <1>1 DEF Rooted

LEMMA AlteredTidy ==
  ASSUME NEW hp, NEW r, NEW m, NEW keys, NEW values,
         Altered(hp, r, m, keys, values)
  PROVE  Tidy(hp, r)
BY DEF Altered, Tidy

\* What a map is like after an entry has been put into it.
Entered(hp, r, m) ==
  /\ Tidy(hp, r)
  /\ r[m].kind = "map" /\ Len(r[m].keys) <= Len(hp[m].keys) + 1

\* An entry is replaced: first its key, then its value.
KeyOver(hp, m, i, key) ==
  [webview_value_unref(hp, hp[m].keys[i]) EXCEPT ![m].keys[i] = key]

ValueOver(hp, old, m, i, v) ==
  [webview_value_unref(hp, old) EXCEPT ![m].values[i] = v]

Over(hp, r, g, m, A) ==
  /\ Counted(r, g, {}) /\ Tidy(hp, r) /\ RootedOn(hp, r, m, A)
  /\ r[m].kind = "map" /\ Len(r[m].keys) = Len(hp[m].keys)

LEMMA KeyReplaced ==
  ASSUME ValueConstants, NEW hp, NEW g \in Owed, NEW m, NEW A,
         NEW key \in Value, Counted(hp, Plus(g, key), {}), Rooted(hp, g, m, A),
         hp[m].kind = "map", NEW i \in 1 .. Len(hp[m].keys)
  PROVE  /\ Over(hp, KeyOver(hp, m, i, key), g, m, A)
         /\ KeyOver(hp, m, i, key)[m].values = hp[m].values
<1> DEFINE u == webview_value_unref(hp, hp[m].keys[i])
           keys == [u[m].keys EXCEPT ![i] = key]
           r == KeyOver(hp, m, i, key)
<1>1. hp \in Heap /\ m \in Value
  BY DEF Counted, Tallied, Rooted
<1>2. RowOf(hp, m, "keys") = hp[m].keys /\ i \in 1 .. Len(RowOf(hp, m, "keys"))
  BY DEF RowOf
<1>3. u = webview_value_unref(hp, RowOf(hp, m, "keys")[i])
  BY <1>2
<1>4. r = [u EXCEPT ![m].keys = keys]
  BY DEF KeyOver
<1> HIDE DEF u, r
<1>5. /\ <<m, "keys", i>> \in Place
      /\ GaveUp(hp, u, Plus(g, key), {<<m, "keys", i>>}, A)
      /\ u \in Heap /\ Same(hp, u, m)
  BY <1>2, <1>3, OldGiven
<1>6. keys \in Seq(Value)
  BY <1>1, <1>5, CellIs DEF Same
<1> HIDE DEF keys
<1>7. Altered(u, r, m, keys, u[m].values)
  BY <1>1, <1>4, <1>5, <1>6, AlteredKeys
<1>8. PutInto(u, r, m, "keys", i, key)
  <2>1. RowOf(r, m, "keys") = [RowOf(u, m, "keys") EXCEPT ![i] = key]
    BY <1>7 DEF RowOf, Altered, keys
  <2> QED BY <1>7, <2>1 DEF PutInto, Altered, Only
<1>9. /\ Counted(r, g, {}) /\ Tidy(hp, r) /\ RootedOn(hp, r, m, A)
      /\ r[m].kind = "map" /\ Len(r[m].keys) = Len(hp[m].keys)
      /\ r[m].values = hp[m].values
  BY <1>1, <1>2, <1>5, <1>8, NewPut
<1> QED BY <1>9 DEF Over, r

LEMMA ValueReplaced ==
  ASSUME ValueConstants, NEW hp, NEW g \in Owed, NEW m, NEW A,
         NEW v \in Value, Counted(hp, Plus(g, v), {}), Rooted(hp, g, m, A),
         hp[m].kind = "map", NEW i \in 1 .. Len(hp[m].values)
  PROVE  Over(hp, ValueOver(hp, hp[m].values[i], m, i, v), g, m, A)
<1> DEFINE u == webview_value_unref(hp, hp[m].values[i])
           values == [u[m].values EXCEPT ![i] = v]
           r == ValueOver(hp, hp[m].values[i], m, i, v)
<1>1. hp \in Heap /\ m \in Value
  BY DEF Counted, Tallied, Rooted
<1>2. /\ RowOf(hp, m, "values") = hp[m].values
      /\ i \in 1 .. Len(RowOf(hp, m, "values"))
  BY DEF RowOf
<1>3. u = webview_value_unref(hp, RowOf(hp, m, "values")[i])
  BY <1>2
<1>4. r = [u EXCEPT ![m].values = values]
  BY DEF ValueOver
<1> HIDE DEF u, r
<1>5. /\ <<m, "values", i>> \in Place
      /\ GaveUp(hp, u, Plus(g, v), {<<m, "values", i>>}, A)
      /\ u \in Heap /\ Same(hp, u, m)
  BY <1>2, <1>3, OldGiven
<1>6. values \in Seq(Value)
  BY <1>1, <1>5, CellIs DEF Same
<1> HIDE DEF values
<1>7. Altered(u, r, m, u[m].keys, values)
  BY <1>1, <1>4, <1>5, <1>6, AlteredValues
<1>8. PutInto(u, r, m, "values", i, v)
  <2>1. RowOf(r, m, "values") = [RowOf(u, m, "values") EXCEPT ![i] = v]
    BY <1>7 DEF RowOf, Altered, values
  <2> QED BY <1>7, <2>1 DEF PutInto, Altered, Only
<1>9. /\ Counted(r, g, {}) /\ Tidy(hp, r) /\ RootedOn(hp, r, m, A)
      /\ r[m].kind = "map" /\ Len(r[m].keys) = Len(hp[m].keys)
  BY <1>1, <1>2, <1>5, <1>8, NewPut
<1> QED BY <1>9 DEF Over, r

LEMMA EntryReplaced ==
  ASSUME ValueConstants, NEW hp, NEW g \in Owed, NEW m, NEW A,
         NEW key \in Value, NEW v \in Value,
         Counted(hp, Plus(Plus(g, v), key), {}), Rooted(hp, g, m, A),
         hp[m].kind = "map", NEW i \in 1 .. Len(hp[m].keys),
         NEW h, h = KeyOver(hp, m, i, key),
         NEW r, r = ValueOver(h, hp[m].values[i], m, i, v)
  PROVE  Counted(r, g, {}) /\ Entered(hp, r, m)
<1>1. Plus(g, v) \in Owed /\ Rooted(hp, Plus(g, v), m, A)
  BY PlusType, RootedMore
<1>2. Over(hp, h, Plus(g, v), m, A) /\ h[m].values = hp[m].values
  BY <1>1, KeyReplaced
<1>3. hp \in Heap /\ m \in Value /\ Shaped(hp[m])
  BY DEF Counted, Tallied, Rooted, WellShaped
<1>4. Len(h[m].values) = Len(hp[m].keys) /\ i \in 1 .. Len(h[m].values)
  BY <1>2, <1>3 DEF Shaped
<1>5. Rooted(h, g, m, A)
  BY <1>2, RootedStays DEF Over
<1>6. r = ValueOver(h, h[m].values[i], m, i, v)
  BY <1>2
<1>7. Over(h, r, g, m, A)
  <2>1. Counted(h, Plus(g, v), {}) /\ h[m].kind = "map"
    BY <1>2 DEF Over
  <2> QED BY <1>4, <1>5, <1>6, <2>1, ValueReplaced
<1>8. Tidy(hp, r)
  BY <1>2, <1>7 DEF Over, Tidy, Exists
<1>9. Len(r[m].keys) = Len(hp[m].keys) /\ Len(hp[m].keys) \in Nat
  BY <1>2, <1>3, <1>7, CellIs DEF Over
<1> QED BY <1>7, <1>8, <1>9 DEF Entered, Over

\* webview_value_set_take takes over what is owed of the key and the value.
LEMMA SetTaken ==
  ASSUME ValueConstants, NEW hp, NEW g \in Owed, NEW m, NEW A,
         NEW key \in Value, NEW v \in Value,
         Counted(hp, Plus(Plus(g, v), key), {}), Rooted(hp, g, m, A),
         hp[m].kind = "map", Len(hp[m].keys) < MaxEntries,
         NEW r, r = webview_value_set_take(hp, m, key, v)
  PROVE  /\ Counted(r, g, {}) /\ Entered(hp, r, m)
         /\ webview_value_lookup_index(hp, m, key) = 0 =>
              Altered(hp, r, m, Append(hp[m].keys, key),
                      Append(hp[m].values, v))
<1> DEFINE i == webview_value_lookup_index(hp, m, key)
           keys == Append(hp[m].keys, key)
           values == Append(hp[m].values, v)
<1>1. hp \in Heap /\ m \in Value /\ hp[m].keys \in Seq(Value)
  BY CellIs DEF Counted, Tallied, Rooted
<1>2. i = 0 \/ i \in 1 .. Len(hp[m].keys)
  BY <1>1, LookedUp
<1>3. CASE i = 0
  <2>1. r = [hp EXCEPT ![m].keys = Append(@, key), ![m].values = Append(@, v)]
    BY <1>3 DEF webview_value_set_take
  <2>2. Counted(r, g, {}) /\ Altered(hp, r, m, keys, values)
    BY <1>1, <2>1, EntryAdded
  <2>3. Len(keys) = Len(hp[m].keys) + 1
    BY <1>1
  <2> HIDE DEF i, keys, values
  <2>4. r[m].kind = "map" /\ r[m].keys = keys
    BY <1>1, <2>2 DEF Altered
  <2>5. Tidy(hp, r) /\ Len(r[m].keys) <= Len(hp[m].keys) + 1
    <3>1. Len(hp[m].keys) \in Nat
      BY <1>1
    <3> QED BY <2>2, <2>3, <2>4, <3>1, AlteredTidy
  <2> QED BY <2>2, <2>4, <2>5 DEF Entered, keys, values
<1>4. CASE i # 0
  <2>1. r = ValueOver(KeyOver(hp, m, i, key), hp[m].values[i], m, i, v)
    BY <1>4, Zenon DEF webview_value_set_take, KeyOver, ValueOver
  <2>2. i \in 1 .. Len(hp[m].keys)
    BY <1>2, <1>4
  <2> HIDE DEF i
  <2>3. Counted(r, g, {}) /\ Entered(hp, r, m)
    BY <2>1, <2>2, EntryReplaced
  <2> QED BY <1>4, <2>3 DEF i
<1> QED BY <1>3, <1>4
-----------------------------------------------------------------------------
(***************************************************************************)
(* Cells that are free.                                                    *)
(***************************************************************************)
Spare(hp) == Cardinality(FreeIn(hp))

LEMMA RoomType ==
  ASSUME ValueConstants, NEW hp
  PROVE  /\ IsFiniteSet(FreeIn(hp)) /\ Spare(hp) \in Nat
         /\ Spare(hp) > 0 <=> FreeIn(hp) # {}
<1>1. IsFiniteSet(Value)
  BY FS_Interval DEF ValueConstants, Value
<1>2. FreeIn(hp) \in SUBSET Value
  BY DEF FreeIn
<1>3. IsFiniteSet(FreeIn(hp))
  BY <1>1, <1>2, FS_Subset
<1>4. Spare(hp) \in Nat /\ (Spare(hp) = 0 <=> FreeIn(hp) = {})
  BY <1>3, FS_CardinalityType, FS_EmptySet DEF Spare
<1> QED BY <1>3, <1>4

\* What frees values but makes none leaves no less room.
LEMMA TidyRoom ==
  ASSUME ValueConstants, NEW hp, NEW r, Tidy(hp, r)
  PROVE  Spare(hp) <= Spare(r)
<1>1. FreeIn(hp) \subseteq FreeIn(r)
  BY DEF FreeIn, Exists, Tidy
<1> QED BY <1>1, RoomType, FS_Subset DEF Spare

LEMMA KeepsTidy ==
  ASSUME NEW hp, NEW r, NEW A, Keeps(hp, r, A)
  PROVE  Tidy(hp, r)
BY DEF Keeps, Same, Tidy

LEMMA TidyOn ==
  ASSUME NEW hp, NEW r, NEW q, Tidy(hp, r), Tidy(r, q)
  PROVE  Tidy(hp, q)
BY DEF Tidy, Exists

\* A value that is made takes one.
LEMMA MadeRoom ==
  ASSUME ValueConstants, NEW hp, NEW r, NEW f, NEW kind, NEW content,
         Built(hp, r, f, kind, content), kind # "none"
  PROVE  Spare(r) + 1 = Spare(hp) /\ Exists(r, f)
<1>1. f \in FreeIn(hp) /\ Exists(r, f)
  BY DEF Built, FreeIn, Exists
<1>2. FreeIn(r) = FreeIn(hp) \ {f}
  BY <1>1 DEF Built, FreeIn, Exists
<1> DEFINE n == Cardinality(FreeIn(hp))
           k == Cardinality(FreeIn(r))
<1>3. n \in Nat /\ k \in Nat
  BY RoomType DEF Spare
<1>4. k = n - 1
  BY <1>1, <1>2, RoomType, FS_RemoveElement
<1> HIDE DEF n, k
<1>5. k + 1 = n
  BY <1>3, <1>4
<1> QED BY <1>1, <1>5 DEF Spare, n, k

\* A value that is made holds nothing, and no row is touched.
LEMMA MadeRows ==
  ASSUME NEW hp \in Heap, WellShaped(hp), NEW r, NEW f, NEW kind, NEW content,
         Built(hp, r, f, kind, content)
  PROVE  /\ \A w \in Value : /\ r[w].keys = hp[w].keys
                             /\ r[w].values = hp[w].values
         /\ \A w \in Value : Exists(hp, w) => w # f /\ r[w] = hp[w]
<1>1. hp[f].keys = <<>> /\ hp[f].values = <<>>
  BY HeapIs DEF WellShaped, Shaped, Exists, Built
<1> QED BY <1>1 DEF Built

\* A root stays one when a value is made or one more reference is taken.
LEMMA RootedRows ==
  ASSUME NEW hp, NEW r, NEW g, NEW m, NEW A, Rooted(hp, g, m, A),
         \A w \in Value : /\ r[w].keys = hp[w].keys
                          /\ r[w].values = hp[w].values
  PROVE  Rooted(r, g, m, A)
<1>1. RootedOn(hp, r, m, A)
  BY DEF RootedOn, Rooted
<1> QED BY <1>1, RootedStays

\* What a list or a map holds is there.
LEMMA HeldInRow ==
  ASSUME ValueConstants, NEW hp, NEW g, Counted(hp, g, {}), NEW m \in Value
  PROVE  /\ \A i \in 1 .. Len(hp[m].keys) :
              hp[m].keys[i] \in Value /\ Exists(hp, hp[m].keys[i])
         /\ \A i \in 1 .. Len(hp[m].values) :
              hp[m].values[i] \in Value /\ Exists(hp, hp[m].values[i])
<1>1. /\ hp \in Heap /\ WellShaped(hp) /\ Tallied(hp, g, {})
      /\ hp[m].keys \in Seq(Value) /\ hp[m].values \in Seq(Value)
  BY CellIs DEF Counted, Tallied
<1>2. ASSUME NEW i \in 1 .. Len(hp[m].keys)
      PROVE  hp[m].keys[i] \in Value /\ Exists(hp, hp[m].keys[i])
  <2> DEFINE v == hp[m].keys[i]
             place == <<m, "keys", i>>
  <2>1. v \in Value
    BY <1>1
  <2>2. place \in Place
    BY <1>1, PlaceOf
  <2>3. HeldAt(hp, place, v)
    BY <1>1 DEF HeldAt, Row
  <2> HIDE DEF v, place
  <2>4. place \in Places(hp, v) \ {}
    BY <2>2, <2>3, PlacesAre
  <2>5. Exists(hp, v)
    BY <1>1, <2>1, <2>4, HeldExists
  <2> QED BY <2>1, <2>5 DEF v
<1>3. ASSUME NEW i \in 1 .. Len(hp[m].values)
      PROVE  hp[m].values[i] \in Value /\ Exists(hp, hp[m].values[i])
  <2> DEFINE v == hp[m].values[i]
             place == <<m, "values", i>>
  <2>1. v \in Value
    BY <1>1
  <2>2. place \in Place
    BY <1>1, PlaceOf
  <2>3. HeldAt(hp, place, v)
    BY <1>1 DEF HeldAt, Row
  <2> HIDE DEF v, place
  <2>4. place \in Places(hp, v) \ {}
    BY <2>2, <2>3, PlacesAre
  <2>5. Exists(hp, v)
    BY <1>1, <2>1, <2>4, HeldExists
  <2> QED BY <2>1, <2>5 DEF v
<1> QED BY <1>2, <1>3
-----------------------------------------------------------------------------
(***************************************************************************)
(* The operations that take their own references.                          *)
(***************************************************************************)
LEMMA AppendCounted ==
  ASSUME ValueConstants, NEW hp, NEW g \in Owed, Counted(hp, g, {}),
         NEW m \in Value, NEW v \in Value, Exists(hp, v), hp[m].kind = "list",
         Len(hp[m].values) < MaxItems,
         NEW r, r = webview_value_append(hp, m, v)
  PROVE  /\ Counted(r, g, {}) /\ Tidy(hp, r)
         /\ r[m].kind = "list" /\ Len(r[m].values) = Len(hp[m].values) + 1
<1> DEFINE h == webview_value_ref(hp, v)
<1>1. Counted(h, Plus(g, v), {}) /\ Keeps(hp, h, Value)
  BY RefCounted
<1>2. h[m].kind = "list" /\ h[m].values = hp[m].values
  BY <1>1 DEF Keeps, Same
<1>3. r = webview_value_append_take(h, m, v)
  BY Zenon DEF webview_value_append
<1> HIDE DEF h
<1>4. /\ Counted(r, g, {})
      /\ Altered(h, r, m, h[m].keys, Append(h[m].values, v))
  BY <1>1, <1>2, <1>3, AppendTaken
<1>5. h[m].values \in Seq(Value)
  BY <1>1, CellIs DEF Counted, Tallied
<1>6. Len(r[m].values) = Len(hp[m].values) + 1
  BY <1>2, <1>4, <1>5 DEF Altered
<1>7. Tidy(hp, r)
  <2>1. Tidy(hp, h)
    BY <1>1, KeepsTidy
  <2>2. Tidy(h, r)
    BY <1>4, AlteredTidy
  <2> QED BY <2>1, <2>2, TidyOn
<1> QED BY <1>2, <1>4, <1>6, <1>7 DEF Altered

LEMMA SetCounted ==
  ASSUME ValueConstants, NEW hp, NEW g \in Owed, NEW m, NEW A,
         Counted(hp, g, {}), Rooted(hp, g, m, A),
         NEW key \in Value, NEW v \in Value, Exists(hp, key), Exists(hp, v),
         hp[m].kind = "map", Len(hp[m].keys) < MaxEntries,
         NEW r, r = webview_value_set(hp, m, key, v)
  PROVE  Counted(r, g, {}) /\ Entered(hp, r, m)
<1> DEFINE h == webview_value_ref(hp, key)
           h2 == webview_value_ref(h, v)
<1>1. /\ Counted(h, Plus(g, key), {}) /\ Keeps(hp, h, Value)
      /\ Exists(h, v) /\ Plus(g, key) \in Owed /\ m \in Value
  BY RefCounted, PlusType DEF Rooted
<1>2. r = webview_value_set_take(h2, m, key, v)
  BY Zenon DEF webview_value_set
<1> HIDE DEF h
<1>3. Counted(h2, Plus(Plus(g, key), v), {}) /\ Keeps(h, h2, Value)
  BY <1>1, RefCounted
<1> HIDE DEF h2
<1>4. Counted(h2, Plus(Plus(g, v), key), {})
  BY <1>3, PlusSwap
<1>5. Keeps(hp, h2, Value)
  BY <1>1, <1>3, KeepsOn
<1>6. Rooted(h2, g, m, A)
  BY <1>5, RootedRows DEF Keeps, Same
<1>7. h2[m].kind = "map" /\ h2[m].keys = hp[m].keys
  BY <1>1, <1>5 DEF Keeps, Same
<1>8. Counted(r, g, {}) /\ Entered(h2, r, m)
  BY <1>2, <1>4, <1>6, <1>7, SetTaken
<1>9. Tidy(hp, r)
  <2>1. Tidy(hp, h2) /\ Tidy(h2, r)
    BY <1>5, <1>8, KeepsTidy DEF Entered
  <2> QED BY <2>1, TidyOn
<1> QED BY <1>7, <1>8, <1>9 DEF Entered

\* The map has got a new entry, and nothing was given up for it.
Extended(hp, r, m, f, content, v) ==
  /\ r[m].keys = Append(hp[m].keys, f)
  /\ r[m].values = Append(hp[m].values, v)
  /\ f \in Value /\ r[f].content = content
  /\ \A w \in Value : Exists(hp, w) => r[w].content = hp[w].content

LEMMA SetStringCounted ==
  ASSUME ValueConstants, NEW hp, NEW g \in Owed, NEW m, NEW A,
         Counted(hp, g, {}), Rooted(hp, g, m, A), FreeIn(hp) # {},
         NEW content \in Scalars, NEW v \in Value, Exists(hp, v),
         hp[m].kind = "map", Len(hp[m].keys) < MaxEntries,
         NEW r, r = webview_value_set_string(hp, m, content, v)
  PROVE  /\ Counted(r, g, {}) /\ r[m].kind = "map" /\ Spare(hp) <= Spare(r) + 1
         /\ Len(r[m].keys) <= Len(hp[m].keys) + 1
         /\ (\A i \in 1 .. Len(hp[m].keys) :
               hp[hp[m].keys[i]].content # content)
              => Extended(hp, r, m, Fresh(hp), content, v)
<1> DEFINE f == Fresh(hp)
           h == webview_value_new(hp, "scalar", content)
           h2 == webview_value_ref(h, v)
<1> HIDE DEF h2
<1>1. /\ Built(hp, h, f, "scalar", content)
      /\ Counted(h, Plus(g, f), {}) /\ hp \in Heap /\ WellShaped(hp)
      /\ m \in Value /\ Exists(hp, m)
  <2>1. Built(hp, h, f, "scalar", content) /\ Counted(h, Plus(g, f), {})
    <3> HIDE DEF f, h
    <3> QED BY NewCounted DEF f, h
  <2>2. hp \in Heap /\ WellShaped(hp) /\ m \in Value /\ Exists(hp, m)
    BY DEF Counted, Tallied, Rooted, Exists
  <2> QED BY <2>1, <2>2
<1>2. r = webview_value_set_take(h2, m, f, v)
  BY Zenon DEF webview_value_set_string, h2
<1> HIDE DEF h, f
<1>3. /\ f \in Value /\ Spare(h) + 1 = Spare(hp)
      /\ \A w \in Value : h[w].keys = hp[w].keys /\ h[w].values = hp[w].values
      /\ \A w \in Value : Exists(hp, w) => w # f /\ h[w] = hp[w]
  <2>1. Spare(h) + 1 = Spare(hp)
    BY <1>1, MadeRoom
  <2>2. f \in Value
    BY <1>1 DEF Built
  <2> QED BY <1>1, <2>1, <2>2, MadeRows
<1>4. Counted(h2, Plus(Plus(g, f), v), {}) /\ Keeps(h, h2, Value)
  <2>1. Exists(h, v) /\ Plus(g, f) \in Owed
    BY <1>3, PlusType DEF Exists
  <2> QED BY <1>1, <2>1, RefCounted DEF h2
<1>5. Counted(h2, Plus(Plus(g, v), f), {})
  BY <1>3, <1>4, PlusSwap
<1>6. Rooted(h2, g, m, A)
  <2>1. Rooted(h, g, m, A)
    BY <1>3, RootedRows
  <2> QED BY <1>4, <2>1, RootedRows DEF Keeps, Same
<1>7. /\ h2[m].kind = "map" /\ h2[m].keys = hp[m].keys
      /\ h2[m].values = hp[m].values
  BY <1>1, <1>3, <1>4 DEF Keeps, Same
<1>8. /\ Counted(r, g, {}) /\ Entered(h2, r, m)
      /\ webview_value_lookup_index(h2, m, f) = 0 =>
           Altered(h2, r, m, Append(h2[m].keys, f), Append(h2[m].values, v))
  BY <1>2, <1>3, <1>5, <1>6, <1>7, SetTaken
<1>9. Spare(hp) <= Spare(r) + 1
  <2>1. Spare(h) <= Spare(r)
    <3>1. Tidy(h, h2) /\ Tidy(h2, r)
      BY <1>4, <1>8, KeepsTidy DEF Entered
    <3>2. Tidy(h, r)
      BY <3>1, TidyOn
    <3> QED BY <3>2, TidyRoom
  <2>2. Spare(h) \in Nat /\ Spare(r) \in Nat /\ Spare(hp) \in Nat
    BY RoomType
  <2> QED BY <1>3, <2>1, <2>2
<1>10. ASSUME \A i \in 1 .. Len(hp[m].keys) :
                hp[hp[m].keys[i]].content # content
       PROVE  Extended(hp, r, m, f, content, v)
  <2>1. /\ h2[f].content = content
        /\ \A w \in Value : Exists(hp, w) => h2[w].content = hp[w].content
    <3>1. \A w \in Value : h2[w].content = h[w].content
      BY <1>4 DEF Keeps, Same
    <3>2. h[f].content = content
      BY <1>1 DEF Built
    <3> QED BY <1>3, <3>1, <3>2
  <2>2. webview_value_lookup_index(h2, m, f) = 0
    <3> DEFINE j == webview_value_lookup_index(h2, m, f)
    <3> SUFFICES ASSUME j # 0 PROVE FALSE
      OBVIOUS
    <3>1. h2 \in Heap
      BY <1>4 DEF Counted, Tallied
    <3>2. /\ j \in 1 .. Len(h2[m].keys)
          /\ h2[h2[m].keys[j]].content = h2[f].content
      BY <1>1, <1>3, <3>1, LookedUp
    <3> HIDE DEF j
    <3>3. hp[m].keys[j] \in Value /\ Exists(hp, hp[m].keys[j])
      BY <1>1, <1>7, <3>2, HeldInRow
    <3> QED BY <1>7, <1>10, <2>1, <3>2, <3>3
  <2>3. Altered(h2, r, m, Append(hp[m].keys, f), Append(hp[m].values, v))
    BY <1>7, <1>8, <2>2
  <2> QED BY <1>3, <2>1, <2>3 DEF Altered, Extended
<1> QED BY <1>7, <1>8, <1>9, <1>10 DEF Entered, f
-----------------------------------------------------------------------------
(***************************************************************************)
(* decode_to_wvalue.  The list or the map m is owed, so it stays.          *)
(***************************************************************************)
\* What was made for m is given up again.
LEMMA MadeGivenUp ==
  ASSUME ValueConstants, NEW hp, NEW g \in Owed, NEW v \in Value,
         Counted(hp, Plus(g, v), {}), NEW m \in Value, g[m] > 0,
         NEW r, r = webview_value_unref(hp, v)
  PROVE  Counted(r, g, {}) /\ Tidy(hp, r) /\ Same(hp, r, m)
<1>1. Standing(hp, g, {}, {m}) /\ HeldBy({}, {m}) /\ {m} \subseteq Value
  BY DEF Standing, HeldBy
<1>2. CanGive(hp, v, g, {}, {m})
  BY <1>1 DEF CanGive
<1>3. GaveUp(hp, r, g, {}, {m})
  BY <1>2, UnrefGiven
<1>4. Keeps(hp, r, {m}) /\ Counted(r, g, {})
  BY <1>3 DEF GaveUp
<1> QED BY <1>4, KeepsTidy DEF Keeps

\* m has grown by an item, for which k values were made at most.
Grown(hp, r, g, m, k) ==
  /\ Counted(r, g, {}) /\ Spare(hp) <= Spare(r) + k
  /\ r[m].kind = hp[m].kind
  /\ webview_value_get_len(r, m) <= webview_value_get_len(hp, m) + 1

LEMMA DecodedGrows ==
  ASSUME ValueConstants, NEW hp, NEW g \in Owed, Counted(hp, g, {}),
         NEW m \in Value, g[m] > 0, hp[m].kind = "list",
         Len(hp[m].values) < MaxItems, NEW content \in Scalars,
         FreeIn(hp) # {}
  PROVE  Grown(hp, Decoded(hp, m, content), g, m, 1)
<1> DEFINE f == Fresh(hp)
           h == webview_value_new(hp, "scalar", content)
           h2 == webview_value_append(h, m, f)
           r == webview_value_unref(h2, f)
<1>1. /\ Built(hp, h, f, "scalar", content) /\ Counted(h, Plus(g, f), {})
      /\ hp \in Heap /\ WellShaped(hp) /\ Exists(hp, m)
  <2>1. Built(hp, h, f, "scalar", content) /\ Counted(h, Plus(g, f), {})
    <3> HIDE DEF f, h
    <3> QED BY NewCounted DEF f, h
  <2>2. hp \in Heap /\ WellShaped(hp) /\ Exists(hp, m)
    BY DEF Counted, Tallied, Exists
  <2> QED BY <2>1, <2>2
<1>2. Decoded(hp, m, content) = r
  BY Zenon DEF Decoded
<1> HIDE DEF h, f, r
<1>3. f \in Value /\ Spare(h) + 1 = Spare(hp) /\ Exists(h, f) /\ h[m] = hp[m]
  <2>1. Spare(h) + 1 = Spare(hp) /\ Exists(h, f)
    BY <1>1, MadeRoom
  <2>2. f \in Value
    BY <1>1 DEF Built
  <2>3. h[m] = hp[m]
    BY <1>1, MadeRows
  <2> QED BY <2>1, <2>2, <2>3
<1>4. Plus(g, f) \in Owed
  BY <1>3, PlusType
<1>5. /\ Counted(h2, Plus(g, f), {}) /\ Tidy(h, h2) /\ h2[m].kind = "list"
      /\ Len(h2[m].values) = Len(hp[m].values) + 1
  <2> HIDE DEF h2
  <2> QED BY <1>1, <1>3, <1>4, AppendCounted DEF h2
<1> HIDE DEF h2
<1>6. Counted(r, g, {}) /\ Tidy(h2, r) /\ Same(h2, r, m)
  BY <1>3, <1>5, MadeGivenUp DEF r
<1>7. Spare(hp) <= Spare(r) + 1
  <2>1. Spare(h) <= Spare(h2) /\ Spare(h2) <= Spare(r)
    BY <1>5, <1>6, TidyRoom
  <2>2. /\ Spare(hp) \in Nat /\ Spare(h) \in Nat /\ Spare(h2) \in Nat
        /\ Spare(r) \in Nat
    BY RoomType
  <2> QED BY <1>3, <2>1, <2>2
<1>8. /\ r[m].kind = "list"
      /\ webview_value_get_len(r, m) <= webview_value_get_len(hp, m) + 1
  <2>1. Len(hp[m].values) + 1 \in Nat
    BY <1>1, CellIs
  <2> QED BY <1>5, <1>6, <2>1 DEF webview_value_get_len, Same
<1> QED BY <1>2, <1>6, <1>7, <1>8 DEF Grown

LEMMA DecodedEntryGrows ==
  ASSUME ValueConstants, NEW hp, NEW g \in Owed, Counted(hp, g, {}),
         NEW m \in Value, g[m] > 0, hp[m].kind = "map",
         Len(hp[m].keys) < MaxEntries, NEW key \in Scalars,
         NEW content \in Scalars, Spare(hp) >= 2
  PROVE  Grown(hp, DecodedEntry(hp, m, key, content), g, m, 2)
<1> DEFINE k == Fresh(hp)
           h == webview_value_new(hp, "scalar", key)
           f == Fresh(h)
           h2 == webview_value_new(h, "scalar", content)
           h3 == webview_value_set(h2, m, k, f)
           h4 == webview_value_unref(h3, k)
           r == webview_value_unref(h4, f)
<1>1. DecodedEntry(hp, m, key, content) = r
  BY Zenon DEF DecodedEntry
<1>2. /\ Built(hp, h, k, "scalar", key) /\ Counted(h, Plus(g, k), {})
      /\ hp \in Heap /\ WellShaped(hp) /\ Exists(hp, m)
  <2>1. Built(hp, h, k, "scalar", key) /\ Counted(h, Plus(g, k), {})
    <3> HIDE DEF k, h
    <3>1. FreeIn(hp) # {}
      BY RoomType
    <3> QED BY <3>1, NewCounted DEF k, h
  <2>2. hp \in Heap /\ WellShaped(hp) /\ Exists(hp, m)
    BY DEF Counted, Tallied, Exists
  <2> QED BY <2>1, <2>2
<1> HIDE DEF r, h4, h3, h2, f, h, k
<1>3. k \in Value /\ Spare(h) + 1 = Spare(hp) /\ Exists(h, k) /\ h[m] = hp[m]
  <2>1. Spare(h) + 1 = Spare(hp) /\ Exists(h, k)
    BY <1>2, MadeRoom
  <2>2. k \in Value
    BY <1>2 DEF Built
  <2>3. h[m] = hp[m]
    BY <1>2, MadeRows
  <2> QED BY <2>1, <2>2, <2>3
<1>4. /\ Plus(g, k) \in Owed /\ h \in Heap /\ WellShaped(h) /\ FreeIn(h) # {}
      /\ Spare(hp) \in Nat /\ Spare(h) \in Nat
  <2>1. Spare(hp) \in Nat /\ Spare(h) \in Nat
    BY RoomType
  <2>2. FreeIn(h) # {}
    BY <1>3, <2>1, RoomType
  <2>3. Plus(g, k) \in Owed /\ h \in Heap /\ WellShaped(h)
    BY <1>2, <1>3, PlusType DEF Counted, Tallied
  <2> QED BY <2>1, <2>2, <2>3
<1>5. /\ Built(h, h2, f, "scalar", content)
      /\ Counted(h2, Plus(Plus(g, k), f), {})
  BY <1>2, <1>4, NewCounted DEF f, h2
<1>6. /\ f \in Value /\ Spare(h2) + 1 = Spare(h) /\ Exists(h2, f)
      /\ Exists(h2, k) /\ h2[m] = hp[m]
  <2>1. Spare(h2) + 1 = Spare(h) /\ Exists(h2, f)
    BY <1>5, MadeRoom
  <2>2. f \in Value
    BY <1>5 DEF Built
  <2>3. \A w \in Value : Exists(h, w) => h2[w] = h[w]
    BY <1>4, <1>5, MadeRows
  <2> QED BY <1>2, <1>3, <2>1, <2>2, <2>3 DEF Exists
<1>7. /\ Plus(Plus(g, k), f) \in Owed /\ Plus(g, f) \in Owed
      /\ Plus(Plus(g, k), f)[m] > 0 /\ Plus(g, f)[m] > 0
      /\ Plus(Plus(g, k), f) = Plus(Plus(g, f), k)
  <2>1. Plus(Plus(g, k), f) \in Owed /\ Plus(g, f) \in Owed
    BY <1>3, <1>4, <1>6, PlusType
  <2>2. Plus(g, k)[m] > 0 /\ Plus(g, f)[m] > 0
    BY <1>3, <1>6, PlusMore
  <2>3. Plus(Plus(g, k), f)[m] > 0
    BY <1>4, <1>6, <2>2, PlusMore
  <2>4. Plus(Plus(g, k), f) = Plus(Plus(g, f), k)
    BY <1>3, <1>6, PlusSwap
  <2> QED BY <2>1, <2>2, <2>3, <2>4
<1>8. Counted(h3, Plus(Plus(g, f), k), {}) /\ Entered(h2, h3, m)
  <2>1. Rooted(h2, Plus(Plus(g, k), f), m, {m})
    BY <1>7, RootedAlone
  <2>2. Counted(h3, Plus(Plus(g, k), f), {}) /\ Entered(h2, h3, m)
    BY <1>3, <1>5, <1>6, <1>7, <2>1, SetCounted DEF h3
  <2> QED BY <1>7, <2>2
<1>9. Counted(h4, Plus(g, f), {}) /\ Tidy(h3, h4) /\ Same(h3, h4, m)
  BY <1>3, <1>7, <1>8, MadeGivenUp DEF h4
<1>10. Counted(r, g, {}) /\ Tidy(h4, r) /\ Same(h4, r, m)
  BY <1>6, <1>9, MadeGivenUp DEF r
<1>11. Spare(hp) <= Spare(r) + 2
  <2>1. /\ Spare(h2) <= Spare(h3) /\ Spare(h3) <= Spare(h4)
        /\ Spare(h4) <= Spare(r)
    BY <1>8, <1>9, <1>10, TidyRoom DEF Entered
  <2>2. /\ Spare(h2) \in Nat /\ Spare(h3) \in Nat /\ Spare(h4) \in Nat
        /\ Spare(r) \in Nat
    BY RoomType
  <2> QED BY <1>3, <1>4, <1>6, <2>1, <2>2
<1>12. /\ r[m].kind = "map"
       /\ webview_value_get_len(r, m) <= webview_value_get_len(hp, m) + 1
  <2>1. r[m].kind = h3[m].kind /\ r[m].keys = h3[m].keys
    BY <1>9, <1>10 DEF Same
  <2>2. /\ h3[m].kind = "map"
        /\ Len(h3[m].keys) <= Len(hp[m].keys) + 1
    BY <1>6, <1>8 DEF Entered
  <2> QED BY <2>1, <2>2 DEF webview_value_get_len
<1> QED BY <1>1, <1>10, <1>11, <1>12 DEF Grown
-----------------------------------------------------------------------------
LEMMA DistinctAre ==
  ASSUME NEW n \in Nat, NEW s \in Distinct(n)
  PROVE  /\ Len(s) \in Nat /\ Len(s) <= n
         /\ \A i \in 1 .. Len(s) : s[i] \in Scalars
         /\ \A i, j \in 1 .. Len(s) : s[i] = s[j] => i = j
<1>1. s \in UNION {[1 .. k -> Scalars] : k \in 0 .. n} /\ IsInjective(s)
  BY DEF Distinct, BoundedSeq, SeqOf
<1>2. PICK k \in 0 .. n : s \in [1 .. k -> Scalars]
  BY <1>1
<1>3. Len(s) = k /\ k \in Nat /\ k <= n /\ DOMAIN s = 1 .. Len(s)
  BY <1>2
<1> QED BY <1>1, <1>2, <1>3 DEF IsInjective

\* The list or the map after some items, and room for the others.
Loaded(r, owed, m, kind, len, room) ==
  /\ Counted(r, owed, {}) /\ r[m].kind = kind
  /\ webview_value_get_len(r, m) <= len /\ Spare(r) >= room

LoadItem(m, kind) ==
  [rest \in Heap |-> [s \in Scalars |->
     IF kind = "list" THEN Decoded(rest, m, s)
                      ELSE DecodedEntry(rest, m, s, s)]]

LEMMA ItemLoaded ==
  ASSUME ValueConstants, NEW g \in Owed, NEW m \in Value, g[m] > 0,
         NEW kind \in {"list", "map"}, NEW n \in Nat, n <= MaxLen(kind),
         NEW i \in 1 .. n, NEW r \in Heap,
         Loaded(r, g, m, kind, i - 1, 2 * (n - (i - 1))), NEW s \in Scalars
  PROVE  /\ LoadItem(m, kind)[r][s] \in Heap
         /\ Loaded(LoadItem(m, kind)[r][s], g, m, kind, i, 2 * (n - i))
<1> DEFINE q == LoadItem(m, kind)[r][s]
<1>1. q = IF kind = "list" THEN Decoded(r, m, s) ELSE DecodedEntry(r, m, s, s)
  BY DEF LoadItem
<1> HIDE DEF q
<1>2. /\ Spare(r) \in Nat /\ Spare(q) \in Nat /\ Spare(r) >= 2 * (n - (i - 1))
      /\ Spare(r) >= 2 /\ FreeIn(r) # {}
      /\ Counted(r, g, {}) /\ r[m].kind = kind
  <2>1. /\ Spare(r) >= 2 * (n - (i - 1)) /\ Counted(r, g, {})
        /\ r[m].kind = kind
    BY DEF Loaded
  <2>2. /\ Spare(r) \in Nat /\ Spare(q) \in Nat
        /\ Spare(r) > 0 <=> FreeIn(r) # {}
    BY RoomType
  <2> QED BY <2>1, <2>2
<1>3. /\ webview_value_get_len(r, m) < MaxLen(kind)
      /\ webview_value_get_len(r, m) + 1 <= i /\ i \in Int
  <2>1. webview_value_get_len(r, m) \in Nat
    BY CellIs DEF webview_value_get_len
  <2>2. MaxLen(kind) \in Nat
    BY DEF MaxLen, ValueConstants
  <2>3. webview_value_get_len(r, m) <= i - 1
    BY DEF Loaded
  <2> HIDE DEF webview_value_get_len, MaxLen
  <2> QED BY <2>1, <2>2, <2>3
<1>4. Grown(r, q, g, m, 2)
  <2>1. CASE kind = "list"
    <3>1. Len(r[m].values) < MaxItems
      BY <1>2, <1>3, <2>1 DEF webview_value_get_len, MaxLen
    <3>2. Grown(r, q, g, m, 1)
      BY <1>1, <1>2, <2>1, <3>1, DecodedGrows
    <3> QED BY <1>2, <3>2 DEF Grown
  <2>2. CASE kind = "map"
    <3>1. Len(r[m].keys) < MaxEntries
      BY <1>2, <1>3, <2>2 DEF webview_value_get_len, MaxLen
    <3>2. q = DecodedEntry(r, m, s, s)
      BY <1>1, <2>2
    <3> QED BY <1>2, <2>2, <3>1, <3>2, DecodedEntryGrows
  <2> QED BY <2>1, <2>2
<1>5. /\ Counted(q, g, {}) /\ q[m].kind = kind /\ Spare(r) <= Spare(q) + 2
      /\ webview_value_get_len(q, m) <= webview_value_get_len(r, m) + 1
  BY <1>2, <1>4 DEF Grown
<1>6. webview_value_get_len(q, m) <= i
  <2>1. webview_value_get_len(r, m) \in Nat
    BY CellIs DEF webview_value_get_len
  <2>2. q \in Heap
    BY <1>5 DEF Counted, Tallied
  <2>3. webview_value_get_len(q, m) \in Nat
    BY <2>2, CellIs DEF webview_value_get_len
  <2> QED BY <1>3, <1>5, <2>1, <2>3
<1>7. Spare(q) >= 2 * (n - i)
  BY <1>2, <1>5
<1> QED BY <1>5, <1>6, <1>7 DEF Loaded, Counted, Tallied, q

\* decode_to_wvalue makes a value that is owed, and what it holds is owed to
\* nobody else.
LEMMA DecodeCounted ==
  ASSUME ValueConstants, NEW hp, NEW g \in Owed, Counted(hp, g, {}),
         NEW kind \in {"list", "map"}, NEW items \in Distinct(MaxLen(kind)),
         Spare(hp) > 2 * Len(items)
  PROVE  /\ Fresh(hp) \in Value /\ ~Exists(hp, Fresh(hp))
         /\ Counted(decode_to_wvalue(hp, kind, items), Plus(g, Fresh(hp)), {})
<1> DEFINE m == Fresh(hp)
           base == webview_value_new(hp, kind, <<>>)
           n == Len(items)
           owed == Plus(g, m)
           good == [i \in 0 .. n |->
                      {r \in Heap : Loaded(r, owed, m, kind, i, 2 * (n - i))}]
           op == LoadItem(m, kind)
<1>1. /\ n \in Nat /\ n <= MaxLen(kind)
      /\ \A i \in 1 .. n : items[i] \in Scalars
  <2>1. MaxLen(kind) \in Nat
    BY DEF MaxLen, ValueConstants
  <2> QED BY <2>1, DistinctAre
<1>2. decode_to_wvalue(hp, kind, items) = Through(op, base, items)
  BY Zenon DEF decode_to_wvalue, LoadItem
<1>3. Built(hp, base, m, kind, <<>>) /\ Counted(base, owed, {})
  <2>1. Spare(hp) > 0
    BY <1>1, RoomType
  <2>2. FreeIn(hp) # {}
    BY <2>1, RoomType
  <2> HIDE DEF base, m, owed
  <2> QED BY <2>2, NewCounted DEF base, m, owed
<1> HIDE DEF base, m, op, n
<1>4. /\ m \in Value /\ ~Exists(hp, m) /\ owed \in Owed /\ owed[m] > 0
      /\ base[m].kind = kind /\ base[m].keys = <<>> /\ base[m].values = <<>>
      /\ Spare(base) + 1 = Spare(hp)
  <2>1. /\ m \in Value /\ ~Exists(hp, m)
        /\ base[m].kind = kind /\ base[m].keys = <<>> /\ base[m].values = <<>>
    BY <1>3 DEF Built
  <2>2. owed \in Owed /\ owed[m] > 0
    BY <2>1, PlusType, PlusMore
  <2>3. Spare(base) + 1 = Spare(hp)
    BY <1>3, MadeRoom
  <2> QED BY <2>1, <2>2, <2>3
<1> HIDE DEF owed
<1>5. base \in good[0]
  <2>1. webview_value_get_len(base, m) <= 0
    BY <1>4 DEF webview_value_get_len
  <2>2. Spare(base) >= 2 * (n - 0)
    <3>1. Spare(base) \in Nat /\ Spare(hp) \in Nat /\ Spare(hp) > 2 * n
      BY RoomType DEF n
    <3> QED BY <1>1, <1>4, <3>1
  <2>3. base \in Heap /\ 0 \in 0 .. n
    BY <1>1, <1>3 DEF Counted, Tallied
  <2> QED BY <1>3, <1>4, <2>1, <2>2, <2>3 DEF Loaded
<1>6. ASSUME NEW i \in 1 .. n, NEW r \in good[i - 1]
      PROVE  op[r][items[i]] \in good[i]
  <2>1. i - 1 \in 0 .. n /\ i \in 0 .. n
    BY <1>1
  <2>2. r \in Heap /\ Loaded(r, owed, m, kind, i - 1, 2 * (n - (i - 1)))
    BY <2>1
  <2>3. /\ op[r][items[i]] \in Heap
        /\ Loaded(op[r][items[i]], owed, m, kind, i, 2 * (n - i))
    BY <1>1, <1>4, <2>2, ItemLoaded DEF op
  <2> QED BY <2>1, <2>3
<1> HIDE DEF good
<1>7. Through(op, base, items) \in good[n]
  BY <1>1, <1>5, <1>6, ThroughStays DEF n
<1>8. Counted(Through(op, base, items), owed, {})
  <2>1. n \in 0 .. n
    BY <1>1
  <2> QED BY <1>7, <2>1 DEF good, Loaded
<1> QED BY <1>2, <1>4, <1>8 DEF owed, m
-----------------------------------------------------------------------------
(***************************************************************************)
(* initCallback: the map of an event holds a reference to each datum, and  *)
(* so does the function that makes it.                                     *)
(***************************************************************************)
LEMMA LeftAppend ==
  ASSUME NEW g \in Owed, NEW e \in Seq(Value), NEW v \in Value
  PROVE  Due(g, Append(e, v), 0) = Plus(Due(g, e, 0), v)
<1> DEFINE e2 == Append(e, v)
           k == Len(e)
<1>1. /\ e2 \in Seq(Value) /\ Len(e2) = k + 1 /\ k \in Nat /\ e2[k + 1] = v
      /\ \A j \in 1 .. k : e2[j] = e[j]
  OBVIOUS
<1> HIDE DEF e2
<1>2. Due(g, e2, 0) \in Owed /\ Due(g, e, 0) \in Owed
  BY <1>1, LeftType
<1>3. Plus(Due(g, e, 0), v) \in Owed
  BY <1>2, PlusType
<1>4. ASSUME NEW w \in Value
      PROVE  Due(g, e2, 0)[w] = Plus(Due(g, e, 0), v)[w]
  <2> DEFINE S == From(e, 0, w)
             S2 == From(e2, 0, w)
  <2>1. S2 = IF w = v THEN S \cup {k + 1} ELSE S
    <3>1. /\ S2 = {j \in 1 .. k + 1 : e2[j] = w}
          /\ S = {j \in 1 .. k : e[j] = w}
      BY <1>1 DEF From
    <3>2. \A j \in 1 .. k + 1 : j = k + 1 \/ j \in 1 .. k
      BY <1>1
    <3> HIDE DEF S, S2
    <3> QED BY <1>1, <3>1, <3>2
  <2>2. k + 1 \notin S
    BY <1>1 DEF From
  <2>3. IsFiniteSet(S) /\ Cardinality(S) \in Nat
    BY <1>1, FromType
  <2>4. /\ Due(g, e2, 0)[w] = g[w] + Cardinality(S2)
        /\ Due(g, e, 0)[w] = g[w] + Cardinality(S)
    BY <1>1, LeftType
  <2>5. Plus(Due(g, e, 0), v)[w] = Due(g, e, 0)[w] + (IF w = v THEN 1 ELSE 0)
    BY <1>2, PlusType
  <2>6. g[w] \in Nat
    BY DEF Owed
  <2> HIDE DEF S, S2
  <2>7. Cardinality(S \cup {k + 1}) = Cardinality(S) + 1
    BY <2>2, <2>3, FS_AddElement
  <2>8. CASE w = v
    BY <2>1, <2>3, <2>4, <2>5, <2>6, <2>7, <2>8
  <2>9. CASE w # v
    BY <2>1, <2>3, <2>4, <2>5, <2>6, <2>9
  <2> QED BY <2>8, <2>9
<1> QED BY <1>2, <1>3, <1>4 DEF Owed, e2

\* The map of an event after the first i of the data: of each of its values
\* one more reference is owed.
Telling(r, g, m, data, i, room) ==
  /\ Counted(r, Due(g, r[m].values, 0), {})
  /\ r[m].kind = "map" /\ Len(r[m].keys) = i
  /\ \A j \in 1 .. i : r[r[m].keys[j]].content = data[j]
  /\ Spare(r) >= room

LEMMA DatumTold ==
  ASSUME ValueConstants, NEW g \in Owed, NEW m \in Value, g[m] > 0,
         NEW data \in Distinct(MaxEntries), NEW i \in 1 .. Len(data),
         NEW r \in Heap,
         Telling(r, g, m, data, i - 1, 2 * (Len(data) - (i - 1)))
  PROVE  /\ Datum(r, m, data[i]) \in Heap
         /\ Telling(Datum(r, m, data[i]), g, m, data, i, 2 * (Len(data) - i))
<1> DEFINE n == Len(data)
           s == data[i]
           owed == Due(g, r[m].values, 0)
           d == Fresh(r)
           h == webview_value_new(r, "scalar", s)
           f == Fresh(h)
           q == webview_value_set_string(h, m, s, d)
<1>1. /\ n \in Nat /\ n <= MaxEntries /\ MaxEntries \in Nat /\ s \in Scalars
      /\ \A j \in 1 .. i - 1 : j \in 1 .. n /\ data[j] # s
  <2>1. MaxEntries \in Nat
    BY DEF ValueConstants
  <2>2. /\ n \in Nat /\ n <= MaxEntries /\ s \in Scalars
        /\ \A j, k \in 1 .. n : data[j] = data[k] => j = k
    BY <2>1, DistinctAre
  <2> HIDE DEF n
  <2> QED BY <2>1, <2>2 DEF n
<1>2. Datum(r, m, s) = q
  BY Zenon DEF Datum
<1> HIDE DEF q, f, h, d
<1>3. /\ Counted(r, owed, {}) /\ r[m].kind = "map" /\ Len(r[m].keys) = i - 1
      /\ \A j \in 1 .. i - 1 : r[r[m].keys[j]].content = data[j]
      /\ Spare(r) >= 2 * (n - (i - 1))
  BY DEF Telling
<1> HIDE DEF n, s
<1>4. /\ r[m].values \in Seq(Value) /\ r[m].keys \in Seq(Value)
      /\ i \in 1 .. n /\ WellShaped(r)
  BY <1>3, CellIs DEF n, Counted
<1>5. owed \in Owed /\ owed[m] > 0
  <2>1. Len(r[m].values) \in Nat
    BY CellIs
  <2>2. owed \in Owed /\ g[m] <= owed[m]
    BY <2>1, LeftType
  <2> HIDE DEF owed
  <2>3. owed[m] \in Nat /\ g[m] \in Nat
    BY <2>2 DEF Owed
  <2> QED BY <2>2, <2>3
<1> HIDE DEF owed
<1>6. /\ Spare(r) \in Nat /\ Spare(r) >= 2 /\ FreeIn(r) # {}
  <2>1. Spare(r) \in Nat /\ (Spare(r) > 0 <=> FreeIn(r) # {})
    BY RoomType
  <2>2. Spare(r) >= 2
    BY <1>1, <1>3, <1>4, <2>1
  <2> QED BY <2>1, <2>2
<1>7. Built(r, h, d, "scalar", s) /\ Counted(h, Plus(owed, d), {})
  BY <1>1, <1>3, <1>6, NewCounted DEF h, d
<1>8. /\ d \in Value /\ Exists(h, d) /\ Spare(h) + 1 = Spare(r)
      /\ h[m] = r[m]
      /\ \A w \in Value : Exists(r, w) => h[w] = r[w]
  <2>1. Exists(h, d) /\ Spare(h) + 1 = Spare(r)
    BY <1>7, MadeRoom
  <2>2. d \in Value
    BY <1>7 DEF Built
  <2>3. \A w \in Value : Exists(r, w) => h[w] = r[w]
    BY <1>4, <1>7, MadeRows
  <2>4. Exists(r, m)
    BY <1>3 DEF Exists
  <2> QED BY <2>1, <2>2, <2>3, <2>4
<1>9. Plus(owed, d) \in Owed /\ Rooted(h, Plus(owed, d), m, {m})
  <2>1. Plus(owed, d) \in Owed /\ Plus(owed, d)[m] > 0
    BY <1>5, <1>8, PlusType, PlusMore
  <2> QED BY <2>1, RootedAlone
<1>10. /\ Spare(h) \in Nat /\ FreeIn(h) # {}
  <2>1. Spare(h) \in Nat /\ (Spare(h) > 0 <=> FreeIn(h) # {})
    BY RoomType
  <2> QED BY <1>6, <1>8, <2>1
\* The keys so far are other ones.
<1>11. \A j \in 1 .. i - 1 : /\ r[m].keys[j] \in Value
                             /\ Exists(h, r[m].keys[j])
                             /\ h[r[m].keys[j]].content = data[j]
  <2> SUFFICES ASSUME NEW j \in 1 .. i - 1
               PROVE  /\ r[m].keys[j] \in Value
                      /\ Exists(h, r[m].keys[j])
                      /\ h[r[m].keys[j]].content = data[j]
    OBVIOUS
  <2>1. r[m].keys[j] \in Value /\ Exists(r, r[m].keys[j])
    BY <1>3, HeldInRow
  <2> QED BY <1>3, <1>8, <2>1 DEF Exists
<1>12. /\ h[m].kind = "map" /\ Len(h[m].keys) < MaxEntries
       /\ \A j \in 1 .. Len(h[m].keys) : h[h[m].keys[j]].content # s
  <2>1. h[m].kind = "map" /\ h[m].keys = r[m].keys /\ Len(h[m].keys) = i - 1
    BY <1>3, <1>8
  <2>2. i - 1 < MaxEntries
    BY <1>1, <1>4
  <2> QED BY <1>1, <1>11, <2>1, <2>2
<1>13. /\ Counted(q, Plus(owed, d), {}) /\ q[m].kind = "map"
       /\ Spare(h) <= Spare(q) + 1 /\ Extended(h, q, m, f, s, d)
  <2> DEFINE o == Plus(owed, d)
             A == {m}
  <2>1. q = webview_value_set_string(h, m, s, d)
    BY DEF q
  <2>2. o \in Owed /\ Rooted(h, o, m, A) /\ Counted(h, o, {})
    BY <1>7, <1>9
  <2>3. s \in Scalars /\ d \in Value /\ Exists(h, d) /\ FreeIn(h) # {}
    BY <1>1, <1>8, <1>10
  <2> HIDE DEF o, A
  <2>4. /\ Counted(q, o, {}) /\ q[m].kind = "map" /\ Spare(h) <= Spare(q) + 1
        /\ Extended(h, q, m, Fresh(h), s, d)
    BY <1>12, <2>1, <2>2, <2>3, SetStringCounted
  <2> QED BY <2>4 DEF o, f
<1>14. Counted(q, Due(g, q[m].values, 0), {})
  <2>1. q[m].values = Append(r[m].values, d)
    BY <1>8, <1>13 DEF Extended
  <2>2. Due(g, Append(r[m].values, d), 0) = Plus(owed, d)
    BY <1>4, <1>8, LeftAppend DEF owed
  <2> QED BY <1>13, <2>1, <2>2
<1>15. /\ Len(q[m].keys) = i
       /\ \A j \in 1 .. i : q[q[m].keys[j]].content = data[j]
  <2>1. /\ q[m].keys = Append(r[m].keys, f) /\ f \in Value
        /\ q[f].content = s
        /\ \A w \in Value : Exists(h, w) => q[w].content = h[w].content
    BY <1>8, <1>13 DEF Extended
  <2> DEFINE keys == r[m].keys
  <2>2. keys \in Seq(Value) /\ Len(keys) = i - 1 /\ i \in Nat
    BY <1>3, <1>4
  <2>3. \A j \in 1 .. i - 1 : q[keys[j]].content = data[j]
    BY <1>11, <2>1
  <2>4. q[m].keys = Append(keys, f)
    BY <2>1
  <2> HIDE DEF keys
  <2>5. /\ Len(q[m].keys) = i /\ q[m].keys[i] = f
        /\ \A j \in 1 .. i - 1 : q[m].keys[j] = keys[j]
    BY <2>1, <2>2, <2>4
  <2>6. \A j \in 1 .. i : j = i \/ j \in 1 .. i - 1
    BY <2>2
  <2> QED BY <2>1, <2>3, <2>5, <2>6 DEF s
<1>16. Spare(q) >= 2 * (n - i)
  <2>1. Spare(q) \in Nat
    BY RoomType
  <2>2. Spare(r) <= Spare(q) + 2
    BY <1>6, <1>8, <1>10, <1>13, <2>1
  <2>3. Spare(r) >= 2 * (n - (i - 1)) /\ i \in Int /\ n \in Int
    BY <1>1, <1>3, <1>4
  <2> QED BY <1>6, <2>1, <2>2, <2>3
<1>17. q \in Heap
  BY <1>13 DEF Counted, Tallied
<1> QED BY <1>2, <1>13, <1>14, <1>15, <1>16, <1>17 DEF Telling, n, s

\* What is made to tell an event is given up to the last reference.
LEMMA EventCounted ==
  ASSUME ValueConstants, NEW hp, NEW g \in Owed, Counted(hp, g, {}),
         NEW data \in Distinct(MaxEntries), Spare(hp) > 2 * Len(data)
  PROVE  Counted(Event(hp, data), g, {})
<1> DEFINE m == Fresh(hp)
           base == webview_value_new(hp, "map", <<>>)
           n == Len(data)
           owed == Plus(g, m)
           good == [i \in 0 .. n |->
                      {r \in Heap : Telling(r, owed, m, data, i, 2 * (n - i))}]
           op == [rest \in Heap |-> [s \in Scalars |-> Datum(rest, m, s)]]
           told == EventMap(hp, data)
           q == Through(Unref[MaxValues], told, told[m].values)
<1>1. n \in Nat /\ \A i \in 1 .. n : data[i] \in Scalars
  <2>1. MaxEntries \in Nat
    BY DEF ValueConstants
  <2> QED BY <2>1, DistinctAre
<1>2. Event(hp, data) = webview_value_unref(q, m)
  BY Zenon DEF Event
<1>3. told = Through(op, base, data)
  BY Zenon DEF EventMap
<1> HIDE DEF told, q
<1>4. Built(hp, base, m, "map", <<>>) /\ Counted(base, owed, {})
  <2>1. Spare(hp) > 0
    BY <1>1, RoomType
  <2>2. FreeIn(hp) # {}
    BY <2>1, RoomType
  <2> HIDE DEF base, m, owed
  <2> QED BY <2>2, NewCounted DEF base, m, owed
<1> HIDE DEF base, m, n
<1>5. /\ m \in Value /\ owed \in Owed /\ owed[m] > 0
      /\ base[m].kind = "map" /\ base[m].keys = <<>> /\ base[m].values = <<>>
      /\ Spare(base) + 1 = Spare(hp)
  <2>1. /\ m \in Value /\ base[m].kind = "map" /\ base[m].keys = <<>>
        /\ base[m].values = <<>>
    BY <1>4 DEF Built
  <2>2. owed \in Owed /\ owed[m] > 0
    BY <2>1, PlusType, PlusMore
  <2>3. Spare(base) + 1 = Spare(hp)
    BY <1>4, MadeRoom
  <2> QED BY <2>1, <2>2, <2>3
<1> HIDE DEF owed
<1>6. base \in good[0]
  <2>1. Due(owed, base[m].values, 0) = owed
    <3>1. Len(base[m].values) = 0
      BY <1>5
    <3> QED BY <1>5, <3>1, LeftNone
  <2>2. Spare(base) >= 2 * (n - 0)
    <3>1. Spare(base) \in Nat /\ Spare(hp) \in Nat /\ Spare(hp) > 2 * n
      BY RoomType DEF n
    <3> QED BY <1>1, <1>5, <3>1
  <2>3. base \in Heap /\ 0 \in 0 .. n
    BY <1>1, <1>4 DEF Counted, Tallied
  <2>4. Telling(base, owed, m, data, 0, 2 * (n - 0))
    BY <1>4, <1>5, <2>1, <2>2 DEF Telling
  <2> QED BY <2>3, <2>4
<1>7. ASSUME NEW i \in 1 .. n, NEW r \in good[i - 1]
      PROVE  op[r][data[i]] \in good[i]
  <2>1. i - 1 \in 0 .. n /\ i \in 0 .. n
    BY <1>1
  <2>2. r \in Heap /\ Telling(r, owed, m, data, i - 1, 2 * (n - (i - 1)))
    BY <2>1
  <2>3. op[r][data[i]] = Datum(r, m, data[i])
    BY <1>1, <2>2
  <2>4. /\ Datum(r, m, data[i]) \in Heap
        /\ Telling(Datum(r, m, data[i]), owed, m, data, i, 2 * (n - i))
    BY <1>5, <2>2, DatumTold DEF n
  <2> HIDE DEF op
  <2> QED BY <2>1, <2>3, <2>4
<1> HIDE DEF good, op
<1>8. told \in good[n]
  BY <1>1, <1>3, <1>6, <1>7, ThroughStays DEF n
<1>9. told \in Heap /\ Counted(told, Due(owed, told[m].values, 0), {})
  <2>1. n \in 0 .. n
    BY <1>1
  <2> QED BY <1>8, <2>1 DEF good, Telling
<1>10. GaveUp(told, q, owed, {}, {m})
  <2>1. Standing(told, owed, {}, {m}) /\ HeldBy({}, {m}) /\ {m} \subseteq Value
    BY <1>5 DEF Standing, HeldBy
  <2>2. Cardinality(Living(told)) <= MaxValues /\ MaxValues \in Nat
    BY LivingBound DEF ValueConstants
  <2>3. told[m].values \in Seq(Value)
    BY <1>5, <1>9, CellIs
  <2> QED BY <1>5, <1>9, <2>1, <2>2, <2>3, UnrefGives, GiveAll DEF q
<1>11. CanGive(q, m, g, {}, {})
  <2>1. Standing(q, g, {}, {}) /\ HeldBy({}, {})
    BY DEF Standing, HeldBy
  <2> QED BY <1>5, <1>10, <2>1 DEF CanGive, GaveUp, owed
<1>12. GaveUp(q, webview_value_unref(q, m), g, {}, {})
  BY <1>11, UnrefGiven
<1> QED BY <1>2, <1>12 DEF GaveUp
-----------------------------------------------------------------------------
(***************************************************************************)
(* What the callers reach.                                                 *)
(***************************************************************************)
LEMMA EntryPlace ==
  ASSUME ValueConstants, NEW hp, NEW g, Counted(hp, g, {}), NEW v \in Value,
         NEW w \in ToSet(Entries(hp, v))
  PROVE  /\ w \in Value /\ Exists(hp, w)
         /\ \E place \in Places(hp, w) : place[1] = v
<1> DEFINE e == Entries(hp, v)
           k == hp[v].keys
           l == hp[v].values
<1>1. /\ hp \in Heap /\ WellShaped(hp)
  BY DEF Counted, Tallied
<1>2. /\ e \in Seq(Value) /\ Len(e) = Len(k) + Len(l) /\ Len(e) \in Nat
      /\ \A i \in 1 .. Len(k) : e[i] = k[i]
      /\ \A i \in 1 .. Len(l) : e[Len(k) + i] = l[i]
  BY <1>1, EntriesAre
<1>3. /\ Len(k) \in Nat /\ Len(l) \in Nat
      /\ DOMAIN k = 1 .. Len(k) /\ DOMAIN l = 1 .. Len(l)
  BY <1>1, CellIs
<1>4. \E i \in 1 .. Len(e) : w = e[i]
  <2>1. w \in ToSet(e)
    OBVIOUS
  <2>2. e \in Seq(Value)
    BY <1>2
  <2> HIDE DEF e
  <2>3. DOMAIN e = 1 .. Len(e)
    BY <2>2
  <2> QED BY <2>1, <2>3, Zenon DEF ToSet
<1> HIDE DEF e
<1>5. \/ \E i \in 1 .. Len(k) : w = k[i]
      \/ \E i \in 1 .. Len(l) : w = l[i]
  <2>1. PICK i \in 1 .. Len(e) : w = e[i]
    BY <1>4
  <2> HIDE DEF k, l
  <2>2. CASE i <= Len(k)
    <3>1. i \in 1 .. Len(k)
      BY <1>2, <1>3, <2>2
    <3> QED BY <1>2, <2>1, <3>1
  <2>3. CASE ~(i <= Len(k))
    <3>1. PICK j \in 1 .. Len(l) : Len(k) + j = i
      <4>1. i - Len(k) \in 1 .. Len(l) /\ Len(k) + (i - Len(k)) = i
        BY <1>2, <1>3, <2>3
      <4> QED BY <4>1
    <3>2. e[Len(k) + j] = l[j]
      BY <1>2
    <3> QED BY <2>1, <3>1, <3>2
  <2> QED BY <2>2, <2>3
<1>6. w \in Value /\ Exists(hp, w)
  BY <1>5, HeldInRow
<1>7. CASE \E i \in 1 .. Len(k) : w = k[i]
  <2>1. PICK i \in 1 .. Len(k) : w = k[i]
    BY <1>7
  <2> DEFINE place == <<v, "keys", i>>
  <2>2. place \in Place
    BY <1>1, PlaceOf
  <2>3. HeldAt(hp, place, w)
    BY <1>3, <2>1 DEF HeldAt, Row
  <2>4. place[1] = v
    OBVIOUS
  <2> HIDE DEF place
  <2>5. place \in Places(hp, w)
    BY <2>2, <2>3, PlacesAre
  <2> QED BY <1>6, <2>4, <2>5
<1>8. CASE \E i \in 1 .. Len(l) : w = l[i]
  <2>1. PICK i \in 1 .. Len(l) : w = l[i]
    BY <1>8
  <2> DEFINE place == <<v, "values", i>>
  <2>2. place \in Place
    BY <1>1, PlaceOf
  <2>3. HeldAt(hp, place, w)
    BY <1>3, <2>1 DEF HeldAt, Row
  <2>4. place[1] = v
    OBVIOUS
  <2> HIDE DEF place
  <2>5. place \in Places(hp, w)
    BY <2>2, <2>3, PlacesAre
  <2> QED BY <1>6, <2>4, <2>5
<1> QED BY <1>5, <1>7, <1>8

\* What the callers hold.
Roots(g) == {v \in Value : g[v] > 0}

\* Nothing that is gone is reached.
LEMMA ReachedExists ==
  ASSUME ValueConstants, NEW hp, NEW g, Counted(hp, g, {}),
         NEW v \in Below(hp, Roots(g))
  PROVE  v \in Value /\ Exists(hp, v)
<1> DEFINE S == Living(hp)
<1>1. S \subseteq Value
  BY DEF Living
<1>2. Roots(g) \subseteq S
  <2> SUFFICES ASSUME NEW w \in Value, g[w] > 0 PROVE Exists(hp, w)
    BY DEF Roots, Living
  <2>1. /\ g[w] \in Nat /\ (~Exists(hp, w) => g[w] = 0)
    BY NothingOwed DEF Counted
  <2> QED BY <2>1
<1>3. ASSUME NEW w \in S PROVE ToSet(Entries(hp, w)) \subseteq S
  BY <1>1, EntryPlace DEF Living
<1>4. S \in Closed(hp, Roots(g))
  BY <1>1, <1>2, <1>3, Zenon DEF Closed
<1>5. v \in S /\ v \in Value
  BY <1>4, Zenon DEF Below
<1> QED BY <1>5 DEF Living

\* A value that is reached is held by a caller, or by values that are reached
\* without what it holds itself.
LEMMA ReachedRooted ==
  ASSUME ValueConstants, NEW hp, NEW g, Counted(hp, g, {}),
         NEW m \in Below(hp, Roots(g))
  PROVE  \E A : Rooted(hp, g, m, A)
<1> DEFINE C == {S \in SUBSET Value :
                   /\ Roots(g) \subseteq S
                   /\ \A v \in S : v # m => ToSet(Entries(hp, v)) \subseteq S}
           A == {v \in Value : \A S \in C : v \in S}
<1>1. A \in C
  <2>1. A \subseteq Value /\ Roots(g) \subseteq A
    BY DEF Roots
  <2>2. ASSUME NEW v \in A, v # m, NEW w \in ToSet(Entries(hp, v))
        PROVE  w \in A
    <3>1. w \in Value
      BY EntryPlace
    <3>2. ASSUME NEW S \in C PROVE w \in S
      BY <2>2
    <3> QED BY <3>1, <3>2
  <2> HIDE DEF A
  <2> QED BY <2>1, <2>2
<1>2. \A S \in C : A \subseteq S
  OBVIOUS
<1>3. m \in A
  <2> SUFFICES ASSUME m \notin A PROVE FALSE
    OBVIOUS
  <2>1. A \in Closed(hp, Roots(g))
    <3>1. A \subseteq Value /\ Roots(g) \subseteq A
      BY <1>1
    <3>2. \A v \in A : ToSet(Entries(hp, v)) \subseteq A
      BY <1>1
    <3> HIDE DEF A
    <3> QED BY <3>1, <3>2, Zenon DEF Closed
  <2> HIDE DEF A
  <2> QED BY <2>1, Zenon DEF Below
<1>4. ASSUME NEW a \in A, ~(g[a] > 0)
      PROVE  \E place \in Places(hp, a) \ Mine(m) : place[1] \in A
  <2> SUFFICES ASSUME \A place \in Places(hp, a) \ Mine(m) : place[1] \notin A
               PROVE  FALSE
    OBVIOUS
  <2> DEFINE B == A \ {a}
  <2>1. B \in SUBSET Value /\ Roots(g) \subseteq B
    BY <1>1, <1>4 DEF Roots
  <2>2. ASSUME NEW v \in B, v # m, NEW w \in ToSet(Entries(hp, v))
        PROVE  w \in B
    <3>1. v \in A /\ v \in Value /\ w \in A
      BY <1>1, <2>2
    <3>2. PICK place \in Places(hp, w) : place[1] = v
      BY <3>1, EntryPlace
    <3>3. place \notin Mine(m)
      BY <2>2, <3>2 DEF Mine
    <3>4. w # a
      BY <3>1, <3>2, <3>3
    <3> QED BY <3>1, <3>4
  <2>3. B \in C
    <3> HIDE DEF B, A
    <3> QED BY <2>1, <2>2
  <2>4. a \in B
    BY <1>2, <2>3
  <2> QED BY <2>4
<1> HIDE DEF C
<1>5. A \subseteq Value
  OBVIOUS
<1> HIDE DEF A
<1>6. Rooted(hp, g, m, A)
  BY <1>3, <1>4, <1>5 DEF Rooted, Standing
<1> QED BY <1>6
-----------------------------------------------------------------------------
(***************************************************************************)
(* The steps of the callers.                                               *)
(***************************************************************************)
HeldBound == held \in [Value -> 0 .. MaxHeld]

ValueInv == Counted(heap, held, {}) /\ HeldBound

LEMMA InitCounted ==
  ASSUME ValueConstants, InitValue
  PROVE  ValueInv
<1>1. heap \in Heap /\ \A v \in Value : heap[v] = Nothing
  <2>1. heap \in [Value -> Cell]
    BY HeapIs DEF InitValue
  <2> QED BY <2>1, HeapIs DEF InitValue
<1>2. held \in Owed /\ HeldBound /\ \A v \in Value : held[v] = 0
  BY DEF InitValue, Owed, HeldBound, ValueConstants
<1>3. WellShaped(heap)
  BY <1>1, HeapIs DEF WellShaped, Shaped
<1>4. ASSUME NEW v \in Value
      PROVE  /\ heap[v].ref_count = held[v] + Refs(heap, v, {})
             /\ Exists(heap, v) <=> heap[v].ref_count > 0
  <2>1. ASSUME NEW place \in Place PROVE ~HeldAt(heap, place, v)
    <3>1. place[1] \in Value
      BY DEF Place
    <3>2. Row(heap, place) = <<>>
      BY <1>1, <3>1, HeapIs DEF Row
    <3>3. DOMAIN <<>> = {}
      OBVIOUS
    <3> QED BY <3>2, <3>3 DEF HeldAt
  <2>2. Places(heap, v) \ {} = {}
    BY <2>1, PlacesAre
  <2>3. Refs(heap, v, {}) = 0
    BY <2>2, FS_EmptySet DEF Refs
  <2>4. heap[v].ref_count = 0 /\ ~Exists(heap, v)
    BY <1>1, HeapIs DEF Exists
  <2> QED BY <1>2, <2>3, <2>4
<1>5. Tallied(heap, held, {})
  BY <1>1, <1>2, <1>4 DEF Tallied
<1> QED BY <1>2, <1>3, <1>5 DEF ValueInv, Counted

LEMMA InvMeans ==
  ASSUME ValueConstants, ValueInv
  PROVE  ValueTypeOK /\ EveryReferenceCounted
<1>1. heap \in Heap /\ held \in [Value -> 0 .. MaxHeld]
  BY DEF ValueInv, HeldBound, Counted, Tallied
<1>2. ASSUME NEW v \in Value
      PROVE  webview_value_get_len(heap, v) <= MaxLen(heap[v].kind)
  <2>1. /\ Shaped(heap[v]) /\ heap[v].kind \in Kind
        /\ MaxItems \in Nat /\ MaxEntries \in Nat
    BY <1>1, CellIs DEF ValueInv, Counted, WellShaped, ValueConstants
  <2>2. CASE heap[v].kind = "none"
    <3>1. heap[v].values = <<>>
      BY <2>1, <2>2, HeapIs DEF Shaped
    <3> QED BY <2>1, <2>2, <3>1 DEF webview_value_get_len, MaxLen
  <2>3. CASE heap[v].kind = "scalar"
    BY <2>1, <2>3 DEF Shaped, webview_value_get_len, MaxLen
  <2>4. CASE heap[v].kind = "list"
    BY <2>1, <2>4 DEF Shaped, webview_value_get_len, MaxLen
  <2>5. CASE heap[v].kind = "map"
    BY <2>1, <2>5 DEF Shaped, webview_value_get_len, MaxLen
  <2> QED BY <2>1, <2>2, <2>3, <2>4, <2>5 DEF Kind
<1>3. ASSUME NEW v \in Value
      PROVE  /\ heap[v].ref_count = held[v] + Cardinality(Places(heap, v))
             /\ Exists(heap, v) <=> heap[v].ref_count > 0
  <2>1. /\ heap[v].ref_count = held[v] + Refs(heap, v, {})
        /\ Exists(heap, v) <=> heap[v].ref_count > 0
    BY DEF ValueInv, Counted, Tallied
  <2>2. Places(heap, v) \ {} = Places(heap, v)
    OBVIOUS
  <2>3. Refs(heap, v, {}) = Cardinality(Places(heap, v))
    BY <2>2, Zenon DEF Refs
  <2> QED BY <2>1, <2>3
<1> QED BY <1>1, <1>2, <1>3 DEF ValueTypeOK, EveryReferenceCounted

\* What is known of the values that the callers reach.
LEMMA ReachedKnown ==
  ASSUME ValueConstants, ValueInv, NEW v \in Reached
  PROVE  /\ v \in Value /\ Exists(heap, v)
         /\ \E A : Rooted(heap, held, v, A)
<1>1. Counted(heap, held, {})
  BY DEF ValueInv
<1>2. v \in Below(heap, Roots(held))
  BY Zenon DEF Reached, Roots
<1> QED BY <1>1, <1>2, ReachedExists, ReachedRooted

\* A value is made, by itself or out of the arguments of a call: it is owed.
LEMMA NewHeld ==
  ASSUME ValueConstants, ValueInv, NEW f, f \in Value, ~Exists(heap, f),
         held' = [held EXCEPT ![f] = 1], Counted(heap', Plus(held, f), {})
  PROVE  ValueInv'
<1>1. held \in Owed /\ held[f] = 0 /\ held \in [Value -> 0 .. MaxHeld]
  BY NothingOwed DEF ValueInv, Counted, Tallied, HeldBound
<1>2. held' = Plus(held, f)
  BY <1>1 DEF Plus
<1>3. held' \in [Value -> 0 .. MaxHeld]
  <2>1. 1 \in 0 .. MaxHeld
    BY DEF ValueConstants
  <2> QED BY <1>1, <2>1
<1> QED BY <1>2, <1>3 DEF ValueInv, HeldBound

LEMMA MakeKeeps ==
  ASSUME ValueConstants, ValueInv, NEW kind \in {"scalar", "list", "map"},
         NEW content \in Scalars \cup {<<>>}, MakeValue(kind, content)
  PROVE  ValueInv'
<1> DEFINE f == Fresh(heap)
<1>1. /\ Built(heap, heap', f, kind, content)
      /\ Counted(heap', Plus(held, f), {})
  BY NewCounted DEF MakeValue, ValueInv
<1>2. f \in Value /\ ~Exists(heap, f) /\ held' = [held EXCEPT ![f] = 1]
  BY <1>1 DEF Built, MakeValue
<1> HIDE DEF f
<1> QED BY <1>1, <1>2, NewHeld

LEMMA DecodeKeeps ==
  ASSUME ValueConstants, ValueInv, NEW kind \in {"list", "map"},
         NEW items \in Distinct(MaxLen(kind)), DecodeValue(kind, items)
  PROVE  ValueInv'
<1> DEFINE f == Fresh(heap)
<1>1. /\ Spare(heap) > 2 * Len(items) /\ Counted(heap, held, {})
      /\ held \in Owed
  BY DEF DecodeValue, Spare, ValueInv, Counted, Tallied
<1>2. /\ f \in Value /\ ~Exists(heap, f)
      /\ Counted(decode_to_wvalue(heap, kind, items), Plus(held, f), {})
  BY <1>1, DecodeCounted
<1>3. /\ heap' = decode_to_wvalue(heap, kind, items)
      /\ held' = [held EXCEPT ![f] = 1]
  BY Zenon DEF DecodeValue
<1> HIDE DEF f
<1> QED BY <1>2, <1>3, NewHeld

LEMMA TellKeeps ==
  ASSUME ValueConstants, ValueInv, NEW data \in Distinct(MaxEntries),
         Tell(data)
  PROVE  ValueInv'
<1>1. /\ Spare(heap) > 2 * Len(data) /\ Counted(heap, held, {})
      /\ held \in Owed
  BY DEF Tell, Spare, ValueInv, Counted, Tallied
<1>2. Counted(Event(heap, data), held, {})
  BY <1>1, EventCounted
<1>3. heap' = Event(heap, data) /\ held' = held
  BY Zenon DEF Tell
<1> QED BY <1>2, <1>3 DEF ValueInv, HeldBound

LEMMA RefKeeps ==
  ASSUME ValueConstants, ValueInv, NEW v \in Reached, RefValue(v)
  PROVE  ValueInv'
<1>1. v \in Value /\ Exists(heap, v) /\ Counted(heap, held, {})
  BY ReachedKnown DEF ValueInv
<1>2. Counted(heap', Plus(held, v), {}) /\ held' = Plus(held, v)
  BY <1>1, RefCounted DEF RefValue, Plus
<1>3. held' \in [Value -> 0 .. MaxHeld]
  <2>1. held \in [Value -> 0 .. MaxHeld] /\ held[v] < MaxHeld
    BY DEF ValueInv, HeldBound, RefValue
  <2>2. held[v] + 1 \in 0 .. MaxHeld
    BY <1>1, <2>1 DEF ValueConstants
  <2> QED BY <1>2, <2>1, <2>2 DEF Plus
<1> QED BY <1>2, <1>3 DEF ValueInv, HeldBound

LEMMA UnrefKeeps ==
  ASSUME ValueConstants, ValueInv, NEW v \in Reached, UnrefValue(v)
  PROVE  ValueInv'
<1> DEFINE g == [held EXCEPT ![v] = @ - 1]
<1>1. v \in Value /\ Counted(heap, held, {})
  BY ReachedKnown DEF ValueInv
<1>2. held \in [Value -> 0 .. MaxHeld] /\ held[v] > 0
  BY DEF ValueInv, HeldBound, UnrefValue
<1>3. g \in [Value -> 0 .. MaxHeld] /\ g \in Owed /\ Plus(g, v) = held
  <2>1. held[v] - 1 \in 0 .. MaxHeld /\ (held[v] - 1) + 1 = held[v]
    BY <1>1, <1>2 DEF ValueConstants
  <2>2. g \in [Value -> 0 .. MaxHeld]
    BY <1>2, <2>1
  <2>3. 0 .. MaxHeld \subseteq Nat
    BY DEF ValueConstants
  <2>4. g \in Owed
    BY <2>2, <2>3 DEF Owed
  <2>5. Plus(g, v) = held
    BY <1>1, <1>2, <2>1 DEF Plus
  <2> QED BY <2>2, <2>4, <2>5
<1>4. held' = g /\ heap' = webview_value_unref(heap, v)
  BY Zenon DEF UnrefValue
<1> HIDE DEF g
<1>5. CanGive(heap, v, g, {}, {})
  <2>1. Standing(heap, g, {}, {}) /\ HeldBy({}, {})
    BY DEF Standing, HeldBy
  <2> QED BY <1>1, <1>3, <2>1 DEF CanGive
<1>6. GaveUp(heap, heap', g, {}, {})
  BY <1>4, <1>5, UnrefGiven
<1> QED BY <1>3, <1>4, <1>6 DEF GaveUp, ValueInv, HeldBound

LEMMA AppendKeeps ==
  ASSUME ValueConstants, ValueInv, NEW v \in Reached,
         NEW list \in OfKind(Reached, "list"), AppendValue(list, v)
  PROVE  ValueInv'
<1>1. /\ v \in Value /\ Exists(heap, v) /\ Counted(heap, held, {})
      /\ held \in Owed
  BY ReachedKnown DEF ValueInv, Counted, Tallied
<1>2. list \in Value /\ heap[list].kind = "list"
  BY ReachedKnown DEF OfKind
<1>3. Len(heap[list].values) < MaxItems
  BY <1>2 DEF AppendValue, Takes, webview_value_get_len, MaxLen
<1>4. heap' = webview_value_append(heap, list, v) /\ held' = held
  BY Zenon DEF AppendValue
<1>5. Counted(heap', held, {})
  BY <1>1, <1>2, <1>3, <1>4, AppendCounted
<1> QED BY <1>4, <1>5 DEF ValueInv, HeldBound

LEMMA SetKeeps ==
  ASSUME ValueConstants, ValueInv, NEW v \in Reached,
         NEW m \in OfKind(Reached, "map"),
         NEW key \in OfKind(Reached, "scalar"), SetValue(m, key, v)
  PROVE  ValueInv'
<1>1. /\ v \in Value /\ Exists(heap, v) /\ Counted(heap, held, {})
      /\ held \in Owed /\ key \in Value /\ Exists(heap, key)
  BY ReachedKnown DEF ValueInv, Counted, Tallied, OfKind
<1>2. heap[m].kind = "map"
  BY DEF OfKind
<1>3. PICK A : Rooted(heap, held, m, A)
  BY ReachedKnown DEF OfKind
<1>4. Len(heap[m].keys) < MaxEntries
  BY <1>2 DEF SetValue, Takes, webview_value_get_len, MaxLen
<1>5. heap' = webview_value_set(heap, m, key, v) /\ held' = held
  BY Zenon DEF SetValue
<1>6. Counted(heap', held, {})
  BY <1>1, <1>2, <1>3, <1>4, <1>5, SetCounted
<1> QED BY <1>5, <1>6 DEF ValueInv, HeldBound

LEMMA SetStringKeeps ==
  ASSUME ValueConstants, ValueInv, NEW v \in Reached,
         NEW m \in OfKind(Reached, "map"), NEW content \in Scalars,
         SetString(m, content, v)
  PROVE  ValueInv'
<1>1. /\ v \in Value /\ Exists(heap, v) /\ Counted(heap, held, {})
      /\ held \in Owed
  BY ReachedKnown DEF ValueInv, Counted, Tallied
<1>2. heap[m].kind = "map"
  BY DEF OfKind
<1>3. PICK A : Rooted(heap, held, m, A)
  BY ReachedKnown DEF OfKind
<1>4. Len(heap[m].keys) < MaxEntries /\ FreeIn(heap) # {}
  BY <1>2 DEF SetString, Takes, webview_value_get_len, MaxLen
<1>5. heap' = webview_value_set_string(heap, m, content, v) /\ held' = held
  BY Zenon DEF SetString
<1>6. Counted(heap', held, {})
  BY <1>1, <1>2, <1>3, <1>4, <1>5, SetStringCounted
<1> QED BY <1>5, <1>6 DEF ValueInv, HeldBound

LEMMA NextValueKeeps ==
  ASSUME ValueConstants, ValueInv, [NextValue]_valueVars
  PROVE  ValueInv'
<1>1. CASE UNCHANGED valueVars
  BY <1>1, Zenon DEF valueVars, ValueInv, HeldBound
<1>2. CASE \E content \in Scalars : MakeValue("scalar", content)
  BY <1>2, MakeKeeps
<1>3. ASSUME NEW kind \in {"list", "map"},
             \/ MakeValue(kind, <<>>)
             \/ \E items \in Distinct(MaxLen(kind)) : DecodeValue(kind, items)
      PROVE  ValueInv'
  <2>1. CASE MakeValue(kind, <<>>)
    BY <2>1, MakeKeeps
  <2>2. CASE \E items \in Distinct(MaxLen(kind)) : DecodeValue(kind, items)
    BY <2>2, DecodeKeeps
  <2> QED BY <1>3, <2>1, <2>2
<1>4. CASE \E data \in Distinct(MaxEntries) : Tell(data)
  BY <1>4, TellKeeps
<1>5. ASSUME NEW v \in Reached,
             \/ RefValue(v) \/ UnrefValue(v)
             \/ \E list \in OfKind(Reached, "list") : AppendValue(list, v)
             \/ \E m \in OfKind(Reached, "map") :
                  \/ \E key \in OfKind(Reached, "scalar") : SetValue(m, key, v)
                  \/ \E content \in Scalars : SetString(m, content, v)
      PROVE  ValueInv'
  <2>1. CASE RefValue(v)
    BY <2>1, RefKeeps
  <2>2. CASE UnrefValue(v)
    BY <2>2, UnrefKeeps
  <2>3. CASE \E list \in OfKind(Reached, "list") : AppendValue(list, v)
    BY <2>3, AppendKeeps
  <2>4. ASSUME NEW m \in OfKind(Reached, "map"),
               \/ \E key \in OfKind(Reached, "scalar") : SetValue(m, key, v)
               \/ \E content \in Scalars : SetString(m, content, v)
        PROVE  ValueInv'
    <3>1. CASE \E key \in OfKind(Reached, "scalar") : SetValue(m, key, v)
      BY <3>1, SetKeeps
    <3>2. CASE \E content \in Scalars : SetString(m, content, v)
      BY <3>2, SetStringKeeps
    <3> QED BY <2>4, <3>1, <3>2
  <2> QED BY <1>5, <2>1, <2>2, <2>3, <2>4
<1> QED BY <1>1, <1>2, <1>3, <1>4, <1>5, Zenon DEF NextValue

LEMMA ValueSteps == ValueSpec => []ValueInv
<1>1. InitValue => ValueInv
  BY ValueConstants, InitCounted
<1>2. ValueInv /\ [NextValue]_valueVars => ValueInv'
  BY ValueConstants, NextValueKeeps
<1> QED BY <1>1, <1>2, PTL DEF ValueSpec

\* The values and what the callers hold of them stay of their types, and no
\* list or map grows past its bound (webview_value.h).
THEOREM ValueTypeCorrect == ValueSpec => []ValueTypeOK
<1>1. ValueInv => ValueTypeOK
  BY ValueConstants, InvMeans
<1> QED BY <1>1, ValueSteps, PTL

\* The count of every value is the number of references to it, whatever is
\* made, decoded, told, kept, put into lists and maps, replaced there and given
\* up, however deep and for any number of values: none is freed while something
\* refers to it, and none is left behind (webview_value_unref,
\* webview_value_set_take, decode_to_wvalue, initCallback).
THEOREM ReferencesAreCounted == ValueSpec => []EveryReferenceCounted
<1>1. ValueInv => EveryReferenceCounted
  BY ValueConstants, InvMeans
<1> QED BY <1>1, ValueSteps, PTL
===============================================================================
