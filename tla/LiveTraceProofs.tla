---------------------------- MODULE LiveTraceProofs ----------------------------
(***************************************************************************)
(* Proofs about the bounded live trace of LiveTrace, for every chain,      *)
(* budget, depth and breadth, and about the lots and rows that             *)
(* LotExpansion makes of a sealed trace, for every worker and batch size.  *)
(***************************************************************************)
EXTENDS LotExpansion, SequenceTheorems, CommonLemmas

-----------------------------------------------------------------------------
(* The transfers of a chain have places and amounts.                       *)
LEMMA ChainTyped ==
    ASSUME chain \in Histories
    PROVE  /\ chain \in Seq(Range(chain)) /\ Len(chain) \in Nat /\ DOMAIN chain = 1..Len(chain)
           /\ \A i \in DOMAIN chain : chain[i].amount \in Nat
  BY LiveTraceAssumption

(* Every rank in a finite set of numbers is the rank of one of them.       *)
LEMMA OrderedTyped ==
    ASSUME NEW n \in Nat, NEW S \in SUBSET (1..n)
    PROVE  /\ InOrder(S) \in Seq(S)
           /\ \A j, k \in 1..Len(InOrder(S)) : InOrder(S)[j] = InOrder(S)[k] => j = k
  <1> DEFINE upTo(i) == {j \in S : j <= i}
             c == Cardinality(S)
             rank == [i \in S |-> Cardinality(upTo(i))]
  <1>1. IsFiniteSet(S) /\ c \in Nat
    <2>1. IsFiniteSet(1..n)
      BY FS_Interval
    <2>2. QED
      BY <2>1, FS_Subset, FS_CardinalityType
  <1>2. \A i \in S : upTo(i) \in SUBSET S /\ i \in upTo(i)
    OBVIOUS
  <1>3. ASSUME NEW i \in S
        PROVE  IsFiniteSet(upTo(i)) /\ Cardinality(upTo(i)) \in 1..c
    <2>1. IsFiniteSet(upTo(i)) /\ Cardinality(upTo(i)) \in Nat /\ Cardinality(upTo(i)) <= c
      BY <1>1, FS_Subset, FS_CardinalityType
    <2>2. Cardinality(upTo(i)) # 0
      BY <1>2, <2>1, FS_EmptySet
    <2>3. QED
      BY <1>1, <2>1, <2>2
  <1>4. rank \in [S -> 1..c]
    BY <1>3
  <1>5. ASSUME NEW i \in S, NEW j \in S, i < j
        PROVE  rank[i] # rank[j]
    <2>0. S \in SUBSET Nat
      OBVIOUS
    <2>1. upTo(i) \in SUBSET upTo(j) /\ j \notin upTo(i) /\ j \in upTo(j)
      <3>1. \A k \in S : k <= i => k <= j
        BY <1>5, <2>0
      <3>2. ~(j <= i) /\ j <= j
        BY <1>5, <2>0
      <3>3. QED
        BY <3>1, <3>2
    <2> HIDE DEF upTo
    <2>2. Cardinality(upTo(i)) # Cardinality(upTo(j))
      BY <1>3, <2>1, FS_Subset
    <2>3. QED
      BY <2>2
  <1>6. rank \in Injection(S, 1..c)
    <2>1. \A i, j \in S : rank[i] = rank[j] => i = j
      <3> HIDE DEF rank
      <3>1. QED
        BY <1>5
    <2> HIDE DEF rank
    <2>2. QED
      BY <1>4, <2>1 DEF Injection, IsInjective
  <1>7. rank \in Surjection(S, 1..c)
    <2>1. IsFiniteSet(1..c) /\ Cardinality(1..c) = c
      BY <1>1, FS_Interval
    <2> HIDE DEF rank
    <2>2. QED
      BY <1>6, <2>1, FS_Injection
  <1>8. ASSUME NEW k \in 1..c
        PROVE  InOrder(S)[k] \in S /\ Cardinality(upTo(InOrder(S)[k])) = k
    <2>1. \E i \in S : rank[i] = k
      <3> HIDE DEF rank
      <3>1. QED
        BY <1>7 DEF Surjection
    <2>2. \E i \in S : Cardinality(upTo(i)) = k
      BY <2>1
    <2>3. InOrder(S)[k] = CHOOSE i \in S : Cardinality(upTo(i)) = k
      BY DEF InOrder
    <2> HIDE DEF upTo
    <2>4. QED
      BY <2>2, <2>3
  <1>9. DOMAIN InOrder(S) = 1..c
    BY DEF InOrder
  <1>10. InOrder(S) \in [1..c -> S]
    BY <1>8 DEF InOrder
  <1>11. InOrder(S) \in Seq(S) /\ Len(InOrder(S)) = c
    BY <1>1, <1>10
  <1> HIDE DEF upTo, c
  <1>12. QED
    BY <1>8, <1>11

(* Any integers can be walked with, whether they make sense or not.        *)
Places == [balance : Int, attributed : Int, residual : Int]

LEMMA QuotientTyped ==
    ASSUME NEW n \in Int, NEW d \in Int, d > 0
    PROVE  n \div d \in Int /\ n % d \in Int
  BY Z3

LEMMA AllocationTyped ==
    ASSUME NEW p \in Places, NEW o \in Nat, p.balance > 0
    PROVE  AllocateProportional(p, o) \in Places
  <1>1. PICK b \in Int, a \in Int, r \in Int : b = p.balance /\ a = p.attributed /\ r = p.residual
    BY DEF Places
  <1>2. o * a + r \in Int /\ b > 0
    BY <1>1, Z3
  <1>3. (o * a + r) \div b \in Int /\ (o * a + r) % b \in Int
    BY <1>2, QuotientTyped
  <1>4. Numerator(p, o) = o * a + r
    BY <1>1 DEF Numerator
  <1>5. Share(p, o) \in Int /\ Numerator(p, o) % p.balance \in Int
    BY <1>1, <1>3, <1>4 DEF Share
  <1>6. PICK s \in Int, m \in Int : s = Share(p, o) /\ m = Numerator(p, o) % p.balance
    BY <1>5
  <1>7. b - o \in Int /\ a - s \in Int /\ (IF o = b THEN 0 ELSE m) \in Int
    BY <1>1, <1>6
  <1>8. AllocateProportional(p, o) =
          [balance |-> b - o, attributed |-> a - s, residual |-> IF o = b THEN 0 ELSE m]
    BY <1>1, <1>6 DEF AllocateProportional
  <1>9. QED
    BY <1>7, <1>8 DEF Places

(* The walk of an attribution that does not raise takes what is attributed *)
(* down, step by step, from the amount that arrived.                       *)
LEMMA WalkTyped ==
    ASSUME chain \in Histories, NEW out \in Seq(DOMAIN chain), NEW amount \in Nat,
           ~Raises(out, amount)
    PROVE  /\ \A k \in 0..Len(out) : Walk(out, amount)[k].attributed \in 0..amount
           /\ Walk(out, amount)[0].attributed = amount
           /\ \A k \in 1..Len(out) :
                 Walk(out, amount)[k].attributed <= Walk(out, amount)[k - 1].attributed
  <1> DEFINE n == Len(out)
             sent(k) == chain[out[k]].amount
             Sums(f) == f = [k \in 0..Len(out) |-> IF k = 0 THEN 0 ELSE f[k - 1] + sent(k)]
             total == CHOOSE f : Sums(f)
             all == total[Len(out)]
             first == [balance |-> IF amount >= all THEN amount ELSE all,
                       attributed |-> amount, residual |-> 0]
             after(p, o) == IF p.balance <= 0 \/ p.attributed <= 0 THEN p
                            ELSE AllocateProportional(p, o)
             Steps(f) == f = [k \in 0..Len(out) |->
                                IF k = 0 THEN first
                                ELSE IF f[k - 1].balance <= 0 \/ f[k - 1].attributed <= 0
                                THEN f[k - 1]
                                ELSE AllocateProportional(f[k - 1], sent(k))]
             pos == CHOOSE f : Steps(f)
  <1>1. n \in Nat /\ \A k \in 1..n : sent(k) \in Nat
    BY ChainTyped
  <1>2. Sums(total)
    <2> DEFINE step == [j \in 1..n |-> [x \in Nat |-> x + sent(j)]]
    <2>0. step \in [1..n -> [Nat -> Nat]]
      <3>1. \A j \in 1..n, x \in Nat : x + sent(j) \in Nat
        <4> HIDE DEF sent
        <4>1. QED
          BY <1>1
      <3> HIDE DEF sent
      <3>2. QED
        BY <3>1
    <2>1. PICK f : StepsFrom(f, n, Nat, 0, step)
      <3> HIDE DEF step, n
      <3>1. QED
        BY <1>1, <2>0, RecursionSolved
    <2>2. ASSUME NEW k \in 1..n
          PROVE  f[k] = f[k - 1] + sent(k)
      <3> HIDE DEF step, sent
      <3>1. k - 1 \in 0..n
        BY <1>1
      <3>2. f \in [0..n -> Nat] /\ f[k] = step[k][f[k - 1]]
        BY <2>1 DEF StepsFrom
      <3>3. f[k - 1] \in Nat
        BY <3>1, <3>2
      <3>4. QED
        BY <3>2, <3>3 DEF step
    <2>3. Sums(f)
      BY <1>1, <2>1, <2>2 DEF StepsFrom
    <2> HIDE DEF Sums
    <2>4. QED
      BY <2>3
  <1>3. all \in Nat
    <2> DEFINE good == {k \in 0..n : total[k] \in Nat}
    <2>1. /\ \A k \in 1..n : total[k] = total[k - 1] + sent(k)
          /\ total[0] = 0
      <3> HIDE DEF total
      <3>1. QED
        BY <1>1, <1>2
    <2> HIDE DEF total
    <2>2. ASSUME NEW k \in 1..n, k - 1 \in good
          PROVE  k \in good
      <3>1. PICK a \in Nat, b \in Nat : a = total[k - 1] /\ b = sent(k)
        <4> HIDE DEF sent
        <4>1. QED
          BY <1>1, <2>2
      <3>2. total[k] = a + b
        BY <2>1, <3>1
      <3>3. k \in 0..n
        BY <1>1
      <3>4. QED
        BY <3>2, <3>3
    <2>3. 0 \in good
      BY <1>1, <2>1
    <2>4. good = 0..n
      <3> HIDE DEF good
      <3>0. good \in SUBSET (0..n)
        BY DEF good
      <3>1. QED
        BY <1>1, <2>2, <2>3, <3>0, WholeInterval
    <2>5. QED
      BY <1>1, <2>4
  <1>4. first \in Position
    BY <1>3 DEF Position
  <1>5. ASSUME NEW q \in Places, NEW o \in Nat
        PROVE  after(q, o) \in Places
    <2>1. CASE q.balance <= 0 \/ q.attributed <= 0
      BY <2>1
    <2>2. CASE ~(q.balance <= 0 \/ q.attributed <= 0)
      <3>1. q.balance > 0
        BY <2>2 DEF Places
      <3>2. QED
        BY <2>2, <3>1, AllocationTyped
    <2>3. QED
      BY <2>1, <2>2
  <1>6. first \in Places
    BY <1>4 DEF Position, Places
  <1> HIDE DEF first, total
  <1>7. Steps(pos)
    <2> DEFINE step == [j \in 1..n |-> [x \in Places |-> after(x, sent(j))]]
    <2>1. step \in [1..n -> [Places -> Places]]
      <3> HIDE DEF sent, after
      <3>1. \A j \in 1..n, x \in Places : after(x, sent(j)) \in Places
        BY <1>1, <1>5
      <3>2. QED
        BY <3>1
    <2>2. PICK f : StepsFrom(f, n, Places, first, step)
      <3> HIDE DEF step, n
      <3>1. QED
        BY <1>1, <1>6, <2>1, RecursionSolved
    <2>3. ASSUME NEW k \in 1..n
          PROVE  f[k] = after(f[k - 1], sent(k))
      <3>1. f[k - 1] \in Places
        BY <1>1, <2>2 DEF StepsFrom
      <3> HIDE DEF sent, after
      <3>2. QED
        BY <2>2, <3>1 DEF StepsFrom
    <2>4. Steps(f)
      <3>1. f[0] = first /\ f \in [0..n -> Places]
        BY <2>2 DEF StepsFrom
      <3> HIDE DEF sent
      <3>2. QED
        BY <1>1, <2>3, <3>1
    <2> HIDE DEF Steps
    <2>5. QED
      BY <2>4
  <1>8. Walk(out, amount) = pos
    BY DEF Walk, first, total
  <1>9. /\ pos[0] = first
        /\ \A k \in 1..n : pos[k] = after(pos[k - 1], sent(k))
    <2>1. pos = [k \in 0..n |-> IF k = 0 THEN first ELSE after(pos[k - 1], sent(k))]
      <3> HIDE DEF pos, sent
      <3>1. QED
        BY <1>7
    <2> HIDE DEF pos, sent, after
    <2>2. 0 \in 0..n /\ \A k \in 1..n : k \in 0..n /\ k # 0
      BY <1>1
    <2>3. QED
      BY <2>1, <2>2
  <1> HIDE DEF pos
  <1>10. ASSUME NEW k \in 1..n, pos[k - 1] \in Position
         PROVE  pos[k] \in Position /\ pos[k].attributed <= pos[k - 1].attributed
    <2>1. CASE pos[k - 1].balance <= 0 \/ pos[k - 1].attributed <= 0
      BY <1>9, <1>10, <2>1 DEF Position
    <2>2. CASE ~(pos[k - 1].balance <= 0 \/ pos[k - 1].attributed <= 0)
      <3>1. pos[k - 1].balance > 0 /\ pos[k - 1].attributed > 0
        BY <1>10, <2>2 DEF Position
      <3>2. ConsistentEvidence(pos[k - 1], sent(k)) /\ ~CreatesValue(pos[k - 1], sent(k))
        BY <1>8, <3>1 DEF Raises
      <3>3. /\ pos[k] = AllocateProportional(pos[k - 1], sent(k))
            /\ sent(k) \in Nat
        BY <1>1, <1>9, <2>2
      <3> HIDE DEF sent
      <3>4. /\ Share(pos[k - 1], sent(k)) \in Nat
            /\ pos[k] \in Position
            /\ pos[k].attributed + Share(pos[k - 1], sent(k)) = pos[k - 1].attributed
        BY <1>10, <3>2, <3>3, AllocationStep
      <3>5. QED
        BY <1>10, <3>4 DEF Position
    <2>3. QED
      BY <2>1, <2>2
  <1>11. \A k \in 0..n : pos[k] \in Position /\ pos[k].attributed <= amount
    <2> DEFINE good == {k \in 0..n : pos[k] \in Position /\ pos[k].attributed <= amount}
    <2>1. 0 \in good
      BY <1>1, <1>4, <1>9 DEF first
    <2>2. ASSUME NEW k \in 1..n, k - 1 \in good
          PROVE  k \in good
      BY <1>10, <2>2 DEF Position
    <2>3. good = 0..n
      <3> HIDE DEF good
      <3>0. good \in SUBSET (0..n)
        BY DEF good
      <3>1. QED
        BY <1>1, <2>1, <2>2, <3>0, WholeInterval
    <2>4. QED
      BY <2>3
  <1>12. /\ \A k \in 0..n : pos[k].attributed \in 0..amount
         /\ \A k \in 1..n : pos[k].attributed <= pos[k - 1].attributed
    BY <1>1, <1>10, <1>11 DEF Position
  <1>13. QED
    BY <1>8, <1>9, <1>12 DEF first

-----------------------------------------------------------------------------
(* Totals of edges are sums of their values.                              *)
Value(S) == [e \in S |-> e.value]

(* The fold that makes a total is a sum.                                  *)
LEMMA TotalOfAll ==
    ASSUME NEW S, IsFiniteSet(S), \A e \in S : e.value \in Int
    PROVE  \E sum : IsSum(sum, S, Value(S)) /\ Total(S) = sum[S]
  <1> DEFINE Folds(f) == f = [s \in SUBSET S |->
                                IF s = {} THEN 0
                                ELSE (CHOOSE x \in s : TRUE).value + f[s \ {CHOOSE x \in s : TRUE}]]
             iter == CHOOSE f : Folds(f)
             w == Value(S)
  <1>1. w \in [S -> Int]
    BY DEF Value
  <1>2. \A s \in SUBSET S : s # {} => Chosen(s) \in S /\ w[Chosen(s)] = Chosen(s).value
    BY DEF Chosen, Value
  <1>3. ASSUME NEW f
        PROVE  Folds(f) <=> f = [s \in SUBSET S |-> IF s = {} THEN 0
                                                    ELSE w[Chosen(s)] + f[s \ {Chosen(s)}]]
    <2> HIDE DEF w
    <2>1. ASSUME NEW s \in SUBSET S
          PROVE  (IF s = {} THEN 0 ELSE (CHOOSE x \in s : TRUE).value + f[s \ {CHOOSE x \in s : TRUE}])
                   = (IF s = {} THEN 0 ELSE w[Chosen(s)] + f[s \ {Chosen(s)}])
      BY <1>2 DEF Chosen
    <2>2. [s \in SUBSET S |-> IF s = {} THEN 0
                               ELSE (CHOOSE x \in s : TRUE).value + f[s \ {CHOOSE x \in s : TRUE}]]
            = [s \in SUBSET S |-> IF s = {} THEN 0 ELSE w[Chosen(s)] + f[s \ {Chosen(s)}]]
      BY <2>1
    <2>3. QED
      BY <2>2
  <1>4. PICK sum : IsSum(sum, S, w)
    <2> HIDE DEF w
    <2>1. QED
      BY <1>1, SumExists
  <1> HIDE DEF w
  <1>5. sum = [s \in SUBSET S |-> IF s = {} THEN 0 ELSE w[Chosen(s)] + sum[s \ {Chosen(s)}]]
    BY <1>4 DEF IsSum
  <1>6. Folds(iter)
    <2>1. Folds(sum)
      BY <1>3, <1>5
    <2> HIDE DEF Folds
    <2>2. QED
      BY <2>1
  <1>7. iter = [s \in SUBSET S |-> IF s = {} THEN 0 ELSE w[Chosen(s)] + iter[s \ {Chosen(s)}]]
    <2> HIDE DEF iter, Folds
    <2>1. QED
      BY <1>3, <1>6
  <1>8. Total(S) = iter[S]
    BY DEF Total, MapThenSumSet, MapThenFoldSet
  <1> HIDE DEF iter, Folds
  <1>9. IsSum(iter, S, w)
    BY <1>1, <1>7, FoldIsSum
  <1>10. QED
    BY <1>8, <1>9 DEF w

(* One sum gives the total of a finite set of edges and of each part.      *)
LEMMA TotalIsSum ==
    ASSUME NEW S, IsFiniteSet(S), \A e \in S : e.value \in Int
    PROVE  \E sum : /\ IsSum(sum, S, Value(S))
                    /\ \A s \in SUBSET S : Total(s) = sum[s]
  <1>1. PICK sum : IsSum(sum, S, Value(S))
    BY TotalOfAll
  <1>2. Value(S) \in [S -> Int]
    BY DEF Value
  <1>3. ASSUME NEW T \in SUBSET S
        PROVE  Total(T) = sum[T]
    <2>1. IsFiniteSet(T) /\ \A e \in T : e.value \in Int
      BY FS_Subset
    <2>2. PICK part : IsSum(part, T, Value(T)) /\ Total(T) = part[T]
      BY <2>1, TotalOfAll
    <2>3. Value(T) \in [T -> Int] /\ \A e \in T : Value(T)[e] = Value(S)[e]
      BY <2>1 DEF Value
    <2>4. \A s \in SUBSET T : part[s] = sum[s]
      BY <1>1, <1>2, <2>2, <2>3, SumsAgree
    <2>5. QED
      BY <2>2, <2>4
  <1>4. QED
    BY <1>1, <1>3

LEMMA TotalOfNone == Total({}) = 0
  <1>1. IsFiniteSet({}) /\ \A e \in {} : e.value \in Int
    BY FS_EmptySet
  <1>2. PICK sum : IsSum(sum, {}, Value({})) /\ Total({}) = sum[{}]
    BY <1>1, TotalOfAll
  <1>3. QED
    BY <1>2 DEF IsSum

LEMMA TotalOfUnion ==
    ASSUME NEW A, IsFiniteSet(A), NEW B, IsFiniteSet(B), A \cap B = {},
           \A e \in A \cup B : e.value \in Int
    PROVE  /\ Total(A) \in Int /\ Total(B) \in Int
           /\ Total(A \cup B) = Total(A) + Total(B)
  <1> DEFINE S == A \cup B
  <1>1. IsFiniteSet(S)
    BY FS_Union
  <1>2. PICK sum : IsSum(sum, S, Value(S)) /\ \A s \in SUBSET S : Total(s) = sum[s]
    BY <1>1, TotalIsSum
  <1>3. Value(S) \in [S -> Int] /\ A \in SUBSET S /\ B \in SUBSET S
    BY DEF Value
  <1> HIDE DEF S
  <1>4. sum[A \cup B] = sum[A] + sum[B]
    <2> DEFINE w == Value(S)
    <2>1. w \in [S -> Int] /\ IsSum(sum, S, w)
      BY <1>2, <1>3
    <2> HIDE DEF w
    <2>2. QED
      BY <1>1, <1>3, <2>1, SumOfUnion
  <1>5. sum[A] \in Int /\ sum[B] \in Int
    BY <1>2, <1>3 DEF IsSum
  <1>6. Total(A) = sum[A] /\ Total(B) = sum[B] /\ Total(A \cup B) = sum[A \cup B]
    BY <1>2, <1>3
  <1>7. QED
    BY <1>4, <1>5, <1>6

LEMMA TotalOfOne ==
    ASSUME NEW e, e.value \in Int
    PROVE  Total({e}) = e.value
  <1>1. IsFiniteSet({e}) /\ \A f \in {e} : f.value \in Int
    BY FS_Singleton
  <1>2. PICK sum : IsSum(sum, {e}, Value({e})) /\ Total({e}) = sum[{e}]
    BY <1>1, TotalOfAll
  <1>3. Chosen({e}) = e
    BY DEF Chosen
  <1>4. sum[{e}] = Value({e})[e] + sum[{e} \ {e}]
    <2> DEFINE w == Value({e}) S == {e}
    <2>1. S # {} /\ S \in SUBSET S /\ Chosen(S) = e
      BY <1>3
    <2> HIDE DEF w, S
    <2>2. IsSum(sum, S, w)
      BY <1>2 DEF w, S
    <2>3. sum[S] = w[e] + sum[S \ {e}]
      BY <2>1, <2>2 DEF IsSum
    <2>4. QED
      BY <2>3 DEF w, S
  <1>5. {e} \ {e} = {} /\ Value({e})[e] = e.value
    BY DEF Value
  <1>6. sum[{}] = 0
    BY <1>2 DEF IsSum
  <1>7. PICK v \in Int : v = e.value
    OBVIOUS
  <1>8. sum[{e}] = v + 0
    BY <1>4, <1>5, <1>6, <1>7
  <1>9. QED
    BY <1>2, <1>7, <1>8

LEMMA TotalIsNatural ==
    ASSUME NEW S, IsFiniteSet(S), \A e \in S : e.value \in Nat
    PROVE  Total(S) \in Nat
  <1>1. PICK sum : IsSum(sum, S, Value(S)) /\ Total(S) = sum[S]
    BY TotalOfAll
  <1>2. Value(S) \in [S -> Nat]
    BY DEF Value
  <1>3. QED
    BY <1>1, <1>2, SumIsNatural

UpTo(edge, n) == {edge[k] : k \in 1..n}

(* What the steps of a walk take away is what is left less at its end.     *)
LEMMA TotalOfSteps ==
    ASSUME NEW n \in Nat, NEW edge, NEW left \in [0..n -> Nat],
           \A k \in 1..n : edge[k].value = left[k - 1] - left[k],
           \A j, k \in 1..n : edge[j] = edge[k] => j = k
    PROVE  /\ IsFiniteSet(UpTo(edge, n))
           /\ Total(UpTo(edge, n)) + left[n] = left[0]
  <1> DEFINE upTo(m) == {edge[k] : k \in 1..m}
             good == {m \in 0..n : IsFiniteSet(upTo(m)) /\ Total(upTo(m)) = left[0] - left[m]}
  <1>1. \A k \in 0..n : left[k] \in Nat
    OBVIOUS
  <1>2. \A k \in 1..n : edge[k].value \in Int
    BY <1>1
  <1>3. 0 \in good
    <2>1. upTo(0) = {}
      OBVIOUS
    <2>2. left[0] - left[0] = 0 /\ 0 \in 0..n
      BY <1>1
    <2> HIDE DEF upTo
    <2>3. IsFiniteSet(upTo(0)) /\ Total(upTo(0)) = 0
      BY <2>1, TotalOfNone, FS_EmptySet
    <2>4. QED
      BY <2>2, <2>3
  <1>4. ASSUME NEW m \in 1..n, m - 1 \in good
        PROVE  m \in good
    <2>0. 1..m = (1..(m - 1)) \cup {m} /\ m \notin 1..(m - 1)
      OBVIOUS
    <2>1. upTo(m) = upTo(m - 1) \cup {edge[m]}
      BY <2>0
    <2>2. upTo(m - 1) \cap {edge[m]} = {}
      <3>1. \A k \in 1..(m - 1) : k \in 1..n /\ k # m
        OBVIOUS
      <3>2. QED
        BY <3>1
    <2>3. IsFiniteSet(upTo(m - 1)) /\ Total(upTo(m - 1)) = left[0] - left[m - 1]
      BY <1>4
    <2>4. \A e \in upTo(m - 1) \cup {edge[m]} : e.value \in Int
      <3>1. \A k \in 1..(m - 1) : k \in 1..n
        OBVIOUS
      <3>2. QED
        BY <1>2, <3>1
    <2>5. IsFiniteSet({edge[m]}) /\ Total({edge[m]}) = edge[m].value
      BY <1>2, TotalOfOne, FS_Singleton
    <2> HIDE DEF upTo
    <2>6. IsFiniteSet(upTo(m))
      <3>1. IsFiniteSet(upTo(m - 1) \cup {edge[m]})
        BY <2>3, <2>5, FS_Union
      <3>2. QED
        BY <2>1, <3>1
    <2>7. Total(upTo(m)) = Total(upTo(m - 1)) + Total({edge[m]})
      BY <2>1, <2>2, <2>3, <2>4, <2>5, TotalOfUnion
    <2>8. PICK a \in Nat, b \in Nat, c \in Nat : a = left[0] /\ b = left[m - 1] /\ c = left[m]
      BY <1>1
    <2>9. Total(upTo(m)) = (a - b) + (b - c)
      BY <2>3, <2>5, <2>7, <2>8
    <2>10. Total(upTo(m)) = left[0] - left[m]
      BY <2>8, <2>9
    <2>11. QED
      BY <2>6, <2>10
  <1>5. good = 0..n
    <2> HIDE DEF good
    <2>0. good \in SUBSET (0..n)
      BY DEF good
    <2>1. QED
      BY <1>3, <1>4, <2>0, WholeInterval
  <1>6. IsFiniteSet(upTo(n)) /\ Total(upTo(n)) = left[0] - left[n]
    BY <1>5
  <1> HIDE DEF upTo, good
  <1>7. Total(upTo(n)) + left[n] = left[0]
    BY <1>1, <1>6
  <1>8. QED
    BY <1>6, <1>7 DEF upTo, UpTo

-----------------------------------------------------------------------------
(* The address at the end of a path.                                       *)
Source(path) == IF path = <<>> THEN Root ELSE chain[Last(path)].dst

LEMMA OutgoingTyped ==
    ASSUME chain \in Histories, NEW path \in Seq(DOMAIN chain)
    PROVE  /\ Outgoing(path) \in Seq(DOMAIN chain)
           /\ \A k \in 1..Len(Outgoing(path)) : chain[Outgoing(path)[k]].src = Source(path)
           /\ \A j, k \in 1..Len(Outgoing(path)) : Outgoing(path)[j] = Outgoing(path)[k] => j = k
  <1> DEFINE S == {i \in DOMAIN chain : /\ chain[i].src = Source(path)
                                        /\ (IF path = <<>> THEN 0 ELSE Last(path)) < i
                                        /\ i <= SeenUpTo(path)}
  <1>1. Outgoing(path) = InOrder(S)
    BY DEF Outgoing, Source
  <1>2. S \in SUBSET (1..Len(chain)) /\ Len(chain) \in Nat
    BY ChainTyped
  <1>3. \A i \in S : i \in DOMAIN chain /\ chain[i].src = Source(path)
    OBVIOUS
  <1> HIDE DEF S
  <1>4. /\ InOrder(S) \in Seq(S)
        /\ \A j, k \in 1..Len(InOrder(S)) : InOrder(S)[j] = InOrder(S)[k] => j = k
    BY <1>2, OrderedTyped
  <1>5. \A k \in 1..Len(InOrder(S)) : InOrder(S)[k] \in S
    BY <1>4
  <1>6. InOrder(S) \in Seq(DOMAIN chain)
    BY <1>3, <1>4, <1>5
  <1>7. QED
    BY <1>1, <1>3, <1>4, <1>5, <1>6

(* What arrives over a path leaves over edges of its own, or stays.        *)
LEMMA EdgesOverTyped ==
    ASSUME chain \in Histories, NEW path \in Seq(DOMAIN chain), NEW out \in Seq(DOMAIN chain),
           \A j, k \in 1..Len(out) : out[j] = out[k] => j = k,
           NEW amount \in Nat, ~Raises(out, amount)
    PROVE  /\ IsFiniteSet(EdgesOver(path, out, amount))
           /\ Left(out, amount) \in Nat
           /\ Total(EdgesOver(path, out, amount)) + Left(out, amount) = amount
           /\ \A e \in EdgesOver(path, out, amount) :
                 /\ e = Edge(e.path, e.value, e.order) /\ e.value \in 0..amount /\ e.order \in Nat
                 /\ \E k \in 1..Len(out) : e.path = Append(path, out[k])
           /\ \A e, f \in EdgesOver(path, out, amount) :
                 (e.path = f.path => e = f) /\ (e.order = f.order => e = f)
  <1> DEFINE n == Len(out)
             left == [k \in 0..n |-> Walk(out, amount)[k].attributed]
             edge == [k \in 1..n |-> Edge(Append(path, out[k]), left[k - 1] - left[k], k)]
  <1>1. /\ out \in Seq(DOMAIN chain) /\ n \in Nat /\ DOMAIN out = 1..n
        /\ \A k \in 1..n : out[k] \in DOMAIN chain
        /\ \A j, k \in 1..n : out[j] = out[k] => j = k
    OBVIOUS
  <1>2. /\ left \in [0..n -> Nat] /\ \A k \in 0..n : left[k] <= amount
        /\ left[0] = amount /\ \A k \in 1..n : left[k] <= left[k - 1]
        /\ \A k \in 0..n : left[k] = Walk(out, amount)[k].attributed
    <2>1. /\ \A k \in 0..n : Walk(out, amount)[k].attributed \in 0..amount
          /\ Walk(out, amount)[0].attributed = amount
          /\ \A k \in 1..n : Walk(out, amount)[k].attributed <= Walk(out, amount)[k - 1].attributed
      BY WalkTyped
    <2>2. QED
      BY <1>1, <2>1
  <1>3. EdgesOver(path, out, amount) = UpTo(edge, n)
    <2>1. EdgesOver(path, out, amount) =
            {Edge(Append(path, out[k]),
                  Walk(out, amount)[k - 1].attributed - Walk(out, amount)[k].attributed, k) :
             k \in DOMAIN out}
      BY DEF EdgesOver
    <2> HIDE DEF n
    <2>2. \A k \in 1..n : edge[k] = Edge(Append(path, out[k]),
                  Walk(out, amount)[k - 1].attributed - Walk(out, amount)[k].attributed, k)
      <3> HIDE DEF left
      <3>1. \A k \in 1..n : k \in 0..n /\ k - 1 \in 0..n
        BY <1>1
      <3>2. QED
        BY <1>2, <3>1
    <2> HIDE DEF edge
    <2>3. DOMAIN out = 1..n
      BY <1>1
    <2>4. EdgesOver(path, out, amount) =
            {Edge(Append(path, out[k]),
                  Walk(out, amount)[k - 1].attributed - Walk(out, amount)[k].attributed, k) :
             k \in 1..n}
      BY <2>1, <2>3
    <2>5. \A e : e \in EdgesOver(path, out, amount) <=> \E k \in 1..n : e = edge[k]
      <3> HIDE DEF left
      <3>1. QED
        BY <2>2, <2>4
    <2>6. \A e : e \in UpTo(edge, n) <=> \E k \in 1..n : e = edge[k]
      BY DEF UpTo
    <2>7. QED
      BY <2>5, <2>6
  <1>4. Left(out, amount) = left[n]
    <2> HIDE DEF left
    <2>1. QED
      BY <1>1, <1>2 DEF Left
  <1> HIDE DEF n, left
  <1>5. ASSUME NEW k \in 1..n
        PROVE  /\ edge[k].path = Append(path, out[k]) /\ edge[k].order = k
               /\ edge[k].value = left[k - 1] - left[k]
               /\ edge[k].value \in 0..amount
               /\ edge[k] = Edge(edge[k].path, edge[k].value, edge[k].order)
    <2>0. k \in 0..n /\ k - 1 \in 0..n
      BY <1>1
    <2>1. left[k - 1] \in Nat /\ left[k] \in Nat /\ left[k] <= left[k - 1] /\ left[k - 1] <= amount
      BY <1>2, <2>0
    <2>2. left[k - 1] - left[k] \in 0..amount
      BY <2>1
    <2>3. QED
      BY <2>2 DEF Edge
  <1>6. \A j, k \in 1..n : edge[j].path = edge[k].path => j = k
    <2>1. ASSUME NEW j \in 1..n, NEW k \in 1..n, edge[j].path = edge[k].path
          PROVE  j = k
      <3>1. Append(path, out[j]) = Append(path, out[k])
        BY <1>5, <2>1
      <3>2. out[j] = out[k]
        BY <1>1, <3>1, AppendInjective
      <3>3. QED
        BY <1>1, <3>2
    <2>2. QED
      BY <2>1
  <1> HIDE DEF edge
  <1>7. /\ IsFiniteSet(UpTo(edge, n))
        /\ Total(UpTo(edge, n)) + left[n] = left[0]
    <2>1. \A j, k \in 1..n : edge[j] = edge[k] => j = k
      BY <1>6
    <2>2. \A k \in 1..n : edge[k].value = left[k - 1] - left[k]
      BY <1>5
    <2>3. n \in Nat /\ left \in [0..n -> Nat]
      BY <1>1, <1>2
    <2>4. QED
      BY <2>1, <2>2, <2>3, TotalOfSteps
  <1>8. left[n] \in Nat
    BY <1>1, <1>2
  <1>9. \A e \in EdgesOver(path, out, amount) :
                 /\ e = Edge(e.path, e.value, e.order) /\ e.value \in 0..amount /\ e.order \in Nat
                 /\ \E k \in 1..n : e.path = Append(path, out[k])
    <2>1. ASSUME NEW k \in 1..n
          PROVE  /\ edge[k] = Edge(edge[k].path, edge[k].value, edge[k].order)
                 /\ edge[k].value \in 0..amount /\ edge[k].order \in Nat
                 /\ \E j \in 1..n : edge[k].path = Append(path, out[j])
      <3>1. k \in Nat
        BY <1>1
      <3>2. /\ edge[k].path = Append(path, out[k]) /\ edge[k].order = k
            /\ edge[k].value \in 0..amount
            /\ edge[k] = Edge(edge[k].path, edge[k].value, edge[k].order)
        BY <1>5
      <3>3. \E j \in 1..n : edge[k].path = Append(path, out[j])
        BY <3>2
      <3>4. QED
        BY <3>1, <3>2, <3>3
    <2>2. \A e \in UpTo(edge, n) : \E k \in 1..n : e = edge[k]
      BY DEF UpTo
    <2>3. ASSUME NEW e \in EdgesOver(path, out, amount)
          PROVE  /\ e = Edge(e.path, e.value, e.order)
                 /\ e.value \in 0..amount /\ e.order \in Nat
                 /\ \E k \in 1..n : e.path = Append(path, out[k])
      <3>1. PICK k \in 1..n : e = edge[k]
        BY <1>3, <2>2
      <3>2. QED
        BY <2>1, <3>1
    <2>4. QED
      BY <2>3
  <1>10. \A e, f \in EdgesOver(path, out, amount) :
                 (e.path = f.path => e = f) /\ (e.order = f.order => e = f)
    <2>1. \A j, k \in 1..n : /\ edge[j].path = edge[k].path => edge[j] = edge[k]
                             /\ edge[j].order = edge[k].order => edge[j] = edge[k]
      BY <1>5, <1>6
    <2>2. QED
      BY <1>3, <2>1 DEF UpTo
  <1>11. QED
    BY <1>2, <1>3, <1>4, <1>7, <1>8, <1>9, <1>10 DEF n

LEMMA EdgesTyped ==
    ASSUME chain \in Histories, NEW path \in Seq(DOMAIN chain), NEW amount \in Nat,
           ~Raises(Outgoing(path), amount)
    PROVE  /\ IsFiniteSet(Edges(path, amount))
           /\ Stays(path, amount) \in Nat
           /\ Total(Edges(path, amount)) + Stays(path, amount) = amount
           /\ \A e \in Edges(path, amount) :
                 /\ e = Edge(e.path, e.value, e.order) /\ e.value \in 0..amount /\ e.order \in Nat
                 /\ \E t \in DOMAIN chain : e.path = Append(path, t) /\ chain[t].src = Source(path)
           /\ \A e, f \in Edges(path, amount) :
                 (e.path = f.path => e = f) /\ (e.order = f.order => e = f)
  <1> DEFINE out == Outgoing(path)
  <1>1. /\ out \in Seq(DOMAIN chain)
        /\ \A k \in 1..Len(out) : chain[out[k]].src = Source(path)
        /\ \A j, k \in 1..Len(out) : out[j] = out[k] => j = k
    BY OutgoingTyped
  <1>2. Edges(path, amount) = EdgesOver(path, out, amount) /\ Stays(path, amount) = Left(out, amount)
    BY DEF Edges, Stays
  <1>3. ~Raises(out, amount)
    OBVIOUS
  <1> HIDE DEF out
  <1>4. /\ IsFiniteSet(EdgesOver(path, out, amount))
        /\ Left(out, amount) \in Nat
        /\ Total(EdgesOver(path, out, amount)) + Left(out, amount) = amount
        /\ \A e \in EdgesOver(path, out, amount) :
              /\ e = Edge(e.path, e.value, e.order) /\ e.value \in 0..amount /\ e.order \in Nat
              /\ \E k \in 1..Len(out) : e.path = Append(path, out[k])
        /\ \A e, f \in EdgesOver(path, out, amount) :
              (e.path = f.path => e = f) /\ (e.order = f.order => e = f)
    BY <1>1, <1>3, EdgesOverTyped
  <1>5. ASSUME NEW e \in Edges(path, amount)
        PROVE  \E t \in DOMAIN chain : e.path = Append(path, t) /\ chain[t].src = Source(path)
    <2>1. PICK k \in 1..Len(out) : e.path = Append(path, out[k])
      BY <1>2, <1>4
    <2>2. out[k] \in DOMAIN chain /\ chain[out[k]].src = Source(path)
      BY <1>1
    <2>3. QED
      BY <2>1, <2>2
  <1>6. QED
    BY <1>2, <1>4, <1>5

-----------------------------------------------------------------------------
(* A schedule follows some of the edges and parks the others; on the       *)
(* dominant path of TRON it follows one at most.                           *)
LEMMA DeferralTyped ==
    ASSUME NEW e, NEW amount, NEW visited, NEW windowed
    PROVE  Deferral(e, amount, visited, windowed) \in Reasons \cup {"none"}
  BY DEF Deferral, Reasons

LEMMA Scheduled ==
    ASSUME NEW edges, IsFiniteSet(edges), \A e \in edges : e.value \in Nat /\ e.order \in Nat,
           \A e, f \in edges : e.order = f.order => e = f,
           NEW amount, NEW visited, NEW windowed, NEW budget \in Nat,
           NEW plan, plan = Schedule(edges, amount, visited, windowed, budget)
    PROVE  /\ plan.follow \subseteq edges
           /\ {p.edge : p \in plan.park} = edges \ plan.follow
           /\ \A p \in plan.park : p = Parked(p.edge, p.reason) /\ p.reason \in Reasons
           /\ \A e \in plan.follow : Deferral(e, amount, visited, windowed) = "none"
           /\ engine = "TRON" /\ strategy = "dominant_fund_flow" =>
                 \A e, f \in plan.follow : e = f
  <1> DEFINE reason(e) == Deferral(e, amount, visited, windowed)
             candidates == {e \in edges : reason(e) = "none"}
             before(e) == {f \in candidates : RanksBefore(f, e)}
             follow == {e \in candidates : Cardinality(before(e)) < Limit(budget)}
             why(e) == IF e \notin candidates THEN reason(e)
                       ELSE IF budget <= 0 THEN "address_budget" ELSE "breadth_cap"
             park == {Parked(e, why(e)) : e \in edges \ follow}
  <1>1. plan = [follow |-> follow, park |-> park]
    BY DEF Schedule
  <1>2. plan.follow = follow /\ plan.park = park
    <2> HIDE DEF follow, park
    <2>1. QED
      BY <1>1
  <1>3. \A e \in edges : why(e) \in Reasons
    <2>1. \A e \in edges : reason(e) \in Reasons \cup {"none"}
      BY DeferralTyped
    <2> HIDE DEF reason
    <2>2. QED
      BY <2>1 DEF Reasons
  <1>4. follow \subseteq edges /\ \A e \in follow : reason(e) = "none"
    <2> HIDE DEF reason, before
    <2>1. QED
      OBVIOUS
  <1>5. /\ {p.edge : p \in park} = edges \ follow
        /\ \A p \in park : p = Parked(p.edge, p.reason) /\ p.reason \in Reasons
    <2> HIDE DEF follow, why
    <2>1. \A e \in edges : /\ Parked(e, why(e)).edge = e /\ Parked(e, why(e)).reason = why(e)
      BY DEF Parked
    <2>2. \A p \in park : \E e \in edges \ follow : p = Parked(e, why(e))
      OBVIOUS
    <2>3. \A e \in edges \ follow : Parked(e, why(e)) \in park
      OBVIOUS
    <2> HIDE DEF park
    <2>4. \A p \in park : p.edge \in edges \ follow
      BY <2>1, <2>2
    <2>5. \A e \in edges \ follow : \E p \in park : p.edge = e
      BY <2>1, <2>3
    <2>6. {p.edge : p \in park} = edges \ follow
      BY <2>4, <2>5
    <2>7. \A p \in park : p = Parked(p.edge, p.reason) /\ p.reason \in Reasons
      BY <1>3, <2>1, <2>2
    <2>8. QED
      BY <2>6, <2>7
  <1>6. ASSUME engine = "TRON", strategy = "dominant_fund_flow", NEW e \in follow, NEW f \in follow
        PROVE  e = f
    <2>1. Limit(budget) <= 1 /\ Limit(budget) \in Int
      BY <1>6, LiveTraceAssumption DEF Limit
    <2>2. ASSUME NEW g \in follow
          PROVE  \A h \in candidates : ~RanksBefore(h, g)
      <3>1. before(g) \in SUBSET edges
        <4> HIDE DEF reason
        <4>1. QED
          OBVIOUS
      <3>2. IsFiniteSet(before(g)) /\ Cardinality(before(g)) \in Nat
        <4> HIDE DEF before
        <4>1. QED
          BY <3>1, FS_Subset, FS_CardinalityType
      <3>3. Cardinality(before(g)) < Limit(budget)
        <4> HIDE DEF before, candidates
        <4>1. QED
          OBVIOUS
      <3>4. before(g) = {}
        <4> HIDE DEF before
        <4>1. Cardinality(before(g)) = 0
          BY <2>1, <3>2, <3>3
        <4>2. QED
          BY <3>2, <4>1, FS_EmptySet
      <3>5. QED
        <4> HIDE DEF candidates
        <4>1. QED
          BY <3>4
    <2>3. e \in candidates /\ f \in candidates /\ e \in edges /\ f \in edges
      <3> HIDE DEF reason, before
      <3>1. QED
        OBVIOUS
    <2>4. ~RanksBefore(e, f) /\ ~RanksBefore(f, e)
      <3> HIDE DEF candidates, follow
      <3>1. QED
        BY <2>2, <2>3
    <2>5. e.order = f.order
      BY <1>6, <2>3, <2>4 DEF RanksBefore
    <2>6. QED
      BY <2>3, <2>5
  <1> HIDE DEF follow, park, reason
  <1>7. QED
    BY <1>2, <1>4, <1>5, <1>6 DEF reason

-----------------------------------------------------------------------------
LEMMA PathAppended ==
    ASSUME NEW S, NEW path \in Seq(S), NEW t \in S
    PROVE  /\ Append(path, t) \in Seq(S) \ {<<>>}
           /\ Len(path) \in Nat /\ Len(Append(path, t)) = Len(path) + 1
           /\ Last(Append(path, t)) = t /\ Front(Append(path, t)) = path
  <1>1. /\ Append(path, t) \in Seq(S) /\ Append(path, t) # <<>>
        /\ Len(path) \in Nat /\ Len(Append(path, t)) = Len(path) + 1
        /\ Append(path, t)[Len(path) + 1] = t
        /\ \A i \in 1..Len(path) : Append(path, t)[i] = path[i]
    BY AppendProperties
  <1>2. Last(Append(path, t)) = t
    BY <1>1 DEF Last
  <1>3. Front(Append(path, t)) = SubSeq(Append(path, t), 1, Len(path))
    BY <1>1 DEF Front
  <1> DEFINE front == SubSeq(Append(path, t), 1, Len(path))
  <1>4. \A i \in 1..Len(path) : Append(path, t)[i] \in S
    BY <1>1
  <1>5. /\ front \in Seq(S) /\ Len(front) = Len(path)
        /\ \A i \in 1..Len(path) : front[i] = path[i]
    <2>1. /\ front \in Seq(S) /\ Len(front) = IF 1 <= Len(path) THEN Len(path) - 1 + 1 ELSE 0
          /\ \A i \in 1..(Len(path) - 1 + 1) : front[i] = Append(path, t)[1 + i - 1]
      BY <1>1, <1>4, SubSeqProperties
    <2> HIDE DEF front
    <2>2. QED
      BY <1>1, <2>1
  <1> HIDE DEF front
  <1>6. front = path
    BY <1>1, <1>5
  <1>7. QED
    BY <1>1, <1>2, <1>3, <1>6 DEF front

(* What has been seen, and what somebody will still follow.                *)
Parks == {p.edge : p \in parked}
Walked == {h.edge : h \in hops}
Open == pending \cup Frontier

LEMMA InitialTrace == TraceInit => TraceInv
  <1> SUFFICES ASSUME TraceInit
               PROVE  TraceInv
    OBVIOUS
  <1>1. Seen = {} /\ Frontier = {} /\ pending = {}
    BY DEF TraceInit, Seen, Frontier, QueuedHops
  <1>2. TraceTypeOK
    BY <1>1, LiveTraceAssumption DEF TraceInit, TraceTypeOK
  <1>3. TraceTyped
    BY <1>1, FS_EmptySet DEF TraceInit, TraceTyped, Strategies
  <1>4. WithinBounds /\ ValueAccounted
    BY LiveTraceAssumption DEF TraceInit, WithinBounds, ValueAccounted, Succeeds
  <1>5. EdgesApart /\ PendingIsOpen /\ OnePathWalked
    BY <1>1 DEF EdgesApart, PendingIsOpen, OnePathWalked
  <1>6. QED
    BY <1>2, <1>3, <1>4, <1>5 DEF TraceInv

(* A step that leaves the edges and what stays as they are.                *)
LEMMA EdgesKept ==
    ASSUME TraceInv, UNCHANGED <<inputs, pending, parked, hops, queried, stationary>>,
           phase' \in {"walking", "closed", "sealed", "discarded"},
           phase' = "walking" => phase = "walking",
           terminal' \in FailureKinds \cup {"none", "depth_exhausted", "stationary_funds",
                                            "trail_dissipated"},
           phase' = "walking" => terminal' = "none",
           Succeeds' => Succeeds
    PROVE  TraceInv'
  <1>1. Seen' = Seen /\ Frontier' = Frontier
    BY DEF Seen, Frontier, QueuedHops
  <1>2. chain' = chain /\ engine' = engine /\ strategy' = strategy
    BY DEF inputs
  <1>3. TraceTypeOK'
    BY <1>1, <1>2 DEF TraceInv, TraceTypeOK, IsEdge
  <1>4. TraceTyped'
    BY <1>1, <1>2 DEF TraceInv, TraceTyped, Arrivals
  <1>5. WithinBounds'
    BY <1>2 DEF TraceInv, WithinBounds, Depth, Destination, Visited
  <1>6. ValueAccounted'
    BY <1>1 DEF TraceInv, ValueAccounted
  <1>7. EdgesApart'
    BY <1>1 DEF TraceInv, EdgesApart
  <1>8. PendingIsOpen'
    BY <1>2 DEF TraceInv, PendingIsOpen, Depth, Destination, Visited
  <1>9. OnePathWalked'
    BY <1>1, <1>2 DEF TraceInv, OnePathWalked, Visited
  <1>10. QED
    BY <1>3, <1>4, <1>5, <1>6, <1>7, <1>8, <1>9 DEF TraceInv

LEMMA CloseStep ==
    ASSUME TraceInv, Close
    PROVE  TraceInv'
  <1>1. /\ phase = "walking" /\ phase' = "closed" /\ terminal = "none"
        /\ UNCHANGED <<inputs, pending, parked, hops, queried, stationary>>
        /\ terminal' \in {"depth_exhausted", "stationary_funds", "trail_dissipated"}
    BY DEF Close, TraceInv, TraceTyped
  <1>2. Succeeds
    BY <1>1 DEF Succeeds, FailureKinds
  <1>3. QED
    BY <1>1, <1>2, EdgesKept

LEMMA SealStep ==
    ASSUME TraceInv, Seal
    PROVE  TraceInv'
  <1>1. /\ phase = "closed" /\ phase' \in {"sealed", "discarded"} /\ terminal' = terminal
        /\ UNCHANGED <<inputs, pending, parked, hops, queried, stationary>>
    BY DEF Seal
  <1>2. Succeeds' => Succeeds
    BY <1>1 DEF Succeeds
  <1>3. terminal \in FailureKinds \cup {"none", "depth_exhausted", "stationary_funds",
                                        "trail_dissipated"}
    BY DEF TraceInv, TraceTypeOK
  <1>4. QED
    BY <1>1, <1>2, <1>3, EdgesKept

LEMMA RaisesStep ==
    ASSUME TraceInv, AttributionRaises
    PROVE  TraceInv'
  <1>1. /\ phase' = "discarded" /\ terminal' = terminal
        /\ UNCHANGED <<inputs, pending, parked, hops, queried, stationary>>
    BY DEF AttributionRaises
  <1>2. ~Succeeds'
    BY <1>1 DEF Succeeds
  <1>3. terminal \in FailureKinds \cup {"none", "depth_exhausted", "stationary_funds",
                                        "trail_dissipated"}
    BY DEF TraceInv, TraceTypeOK
  <1>4. QED
    BY <1>1, <1>2, <1>3, EdgesKept

LEMMA StutterStep ==
    ASSUME TraceInv, UNCHANGED traceVars
    PROVE  TraceInv'
  <1>1. /\ chain' = chain /\ engine' = engine /\ strategy' = strategy /\ phase' = phase
        /\ pending' = pending /\ parked' = parked /\ hops' = hops /\ queried' = queried
        /\ stationary' = stationary /\ terminal' = terminal
    BY DEF traceVars
  <1>2. Seen' = Seen /\ Frontier' = Frontier
    BY <1>1 DEF Seen, Frontier, QueuedHops
  <1>3. TraceTypeOK' /\ TraceTyped'
    BY <1>1, <1>2 DEF TraceInv, TraceTypeOK, IsEdge, TraceTyped, Arrivals
  <1>4. WithinBounds' /\ PendingIsOpen'
    BY <1>1 DEF TraceInv, WithinBounds, PendingIsOpen, Depth, Destination, Visited
  <1>5. ValueAccounted'
    BY <1>1, <1>2 DEF TraceInv, ValueAccounted, Succeeds
  <1>6. EdgesApart' /\ OnePathWalked'
    BY <1>1, <1>2 DEF TraceInv, EdgesApart, OnePathWalked, Visited
  <1>7. QED
    BY <1>3, <1>4, <1>5, <1>6 DEF TraceInv

(* A trace that fails has no edges.                                        *)
LEMMA FailStep ==
    ASSUME TraceInv, NEW kind \in FailureKinds, Fails(kind)
    PROVE  TraceInv'
  <1>1. /\ phase' = "closed" /\ terminal' = kind /\ pending' = {} /\ parked' = {} /\ hops' = {}
        /\ stationary' = 0 /\ queried' = queried
        /\ chain' = chain /\ engine' = engine /\ strategy' = strategy
    BY DEF Fails, inputs
  <1>2. Seen' = {} /\ Frontier' = {}
    BY <1>1 DEF Seen, Frontier, QueuedHops
  <1>3. TraceTypeOK'
    BY <1>1, <1>2, LiveTraceAssumption DEF TraceInv, TraceTypeOK
  <1>4. TraceTyped'
    BY <1>1, <1>2, FS_EmptySet DEF TraceInv, TraceTyped
  <1>5. WithinBounds' /\ ValueAccounted'
    BY <1>1 DEF TraceInv, WithinBounds, ValueAccounted, Succeeds
  <1>6. EdgesApart' /\ PendingIsOpen' /\ OnePathWalked'
    BY <1>1, <1>2 DEF EdgesApart, PendingIsOpen, OnePathWalked
  <1>7. QED
    BY <1>3, <1>4, <1>5, <1>6 DEF TraceInv

-----------------------------------------------------------------------------
(* A pending edge becomes a hop, is parked, or both, and stays on the       *)
(* frontier.                                                                *)
Moves(e) ==
    /\ phase = "walking" /\ e \in pending
    /\ UNCHANGED <<inputs, phase, queried, stationary, terminal>>
    /\ pending' = pending \ {e}
    /\ \/ parked' = parked
       \/ \E r \in Reasons : parked' = parked \cup {Parked(e, r)}
    /\ \/ hops' = hops
       \/ \E s \in {"queued", "deferred"} :
             /\ hops' = hops \cup {Hop(e, s)}
             /\ s = "deferred" => Depth(e) < MaxDepth /\ Destination(e) # Nowhere

LEMMA MoveStep ==
    ASSUME TraceInv, NEW e, Moves(e),
           e \in Frontier'
    PROVE  TraceInv'
  <1>1. /\ TraceTypeOK /\ TraceTyped /\ WithinBounds /\ ValueAccounted
        /\ EdgesApart /\ PendingIsOpen /\ OnePathWalked
    BY DEF TraceInv
  <1>2. /\ phase = "walking" /\ phase' = phase /\ e \in pending /\ e \in Seen
        /\ chain' = chain /\ engine' = engine /\ strategy' = strategy
        /\ queried' = queried /\ stationary' = stationary /\ terminal' = terminal
        /\ pending' = pending \ {e}
    BY DEF Moves, inputs, Seen
  <1>3. /\ parked \subseteq parked' /\ hops \subseteq hops'
        /\ \A p \in parked' : p \in parked \/ (p.edge = e /\ p \in [edge : Seen, reason : Reasons])
    BY <1>2 DEF Moves, Parked
  <1>4. ASSUME NEW h \in hops', h \notin hops
        PROVE  /\ h.edge = e /\ h \in [edge : Seen, state : {"queued", "expanded", "deferred"}]
               /\ h.state # "queued" => Depth(e) < MaxDepth /\ Destination(e) # Nowhere
    BY <1>2, <1>4 DEF Moves, Hop
  <1>5. Frontier \subseteq Frontier'
    BY <1>3 DEF Frontier, QueuedHops
  <1>6. Frontier' = Frontier \cup {e}
    <2>1. \A f \in Frontier' : f \in Frontier \/ f = e
      BY <1>3, <1>4 DEF Frontier, QueuedHops
    <2>2. QED
      BY <1>5, <2>1
  <1>7. Seen' = Seen
    <2>1. Seen' \subseteq Seen
      BY <1>2, <1>3, <1>4 DEF Seen
    <2>2. \A f \in Seen : f \in Seen' \/ f = e
      BY <1>2, <1>3 DEF Seen
    <2>3. e \in Seen'
      <3>1. Frontier' \subseteq Seen'
        BY DEF Frontier, Seen, QueuedHops
      <3>2. QED
        BY <3>1
    <2>4. QED
      BY <2>1, <2>2, <2>3
  <1>8. TraceTypeOK'
    <2>1. \A f \in pending \cup Frontier : IsEdge(f)
      BY <1>1 DEF TraceTypeOK
    <2>2. \A f \in pending' \cup Frontier' : IsEdge(f)'
      BY <1>2, <1>6, <2>1 DEF IsEdge
    <2>3. \A p \in parked' : p.reason \in Reasons
      BY <1>1, <1>3 DEF TraceTypeOK
    <2>4. QED
      BY <1>1, <1>2, <2>2, <2>3 DEF TraceTypeOK
  <1>9. TraceTyped'
    <2>1. parked' \subseteq [edge : Seen, reason : Reasons]
      BY <1>1, <1>3 DEF TraceTyped
    <2>2. hops' \subseteq [edge : Seen, state : {"queued", "expanded", "deferred"}]
      BY <1>1, <1>4 DEF TraceTyped
    <2>3. QED
      BY <1>1, <1>2, <1>7, <2>1, <2>2 DEF TraceTyped, Arrivals
  <1>10. WithinBounds'
    <2>1. ASSUME NEW h \in hops'
          PROVE  /\ Depth(h.edge) <= MaxDepth
                 /\ h.state # "queued" =>
                      /\ Depth(h.edge) < MaxDepth /\ Last(h.edge.path) <= WindowEnd
                      /\ Destination(h.edge) \notin Visited(Front(h.edge.path))
      <3>1. CASE h \in hops
        BY <1>1, <3>1 DEF WithinBounds
      <3>2. CASE h \notin hops
        BY <1>1, <1>2, <1>4, <3>2 DEF PendingIsOpen
      <3>3. QED
        BY <3>1, <3>2
    <2>2. QED
      BY <1>1, <1>2, <2>1 DEF WithinBounds, Depth, Destination, Visited
  <1>11. ValueAccounted'
    <2>1. pending' \cup Frontier' = pending \cup Frontier
      BY <1>2, <1>6
    <2>2. QED
      BY <1>1, <1>2, <2>1 DEF ValueAccounted, Succeeds
  <1>12. EdgesApart'
    <2>1. \A f \in pending' : f \notin Walked' \cup Parks'
      BY <1>1, <1>2, <1>3, <1>4 DEF EdgesApart, Walked, Parks
    <2>2. \A f \in Seen : Len(f.path) = 1 \/ \E h \in hops' : h.edge.path = Front(f.path)
      BY <1>1, <1>3 DEF EdgesApart
    <2>3. QED
      BY <1>1, <1>7, <2>1, <2>2 DEF EdgesApart, Walked, Parks
  <1>13. PendingIsOpen'
    BY <1>1, <1>2 DEF PendingIsOpen, Depth, Destination, Visited
  <1>14. OnePathWalked'
    BY <1>1, <1>2, <1>7 DEF OnePathWalked, Visited
  <1>15. QED
    BY <1>8, <1>9, <1>10, <1>11, <1>12, <1>13, <1>14 DEF TraceInv

LEMMA NotFollowedStep ==
    ASSUME TraceInv, NEW e \in pending, NotFollowed(e)
    PROVE  TraceInv'
  <1>1. Moves(e)
    BY DEF NotFollowed, Walking, Moves, Reasons
  <1>2. Parked(e, "address_budget") \in parked' /\ Parked(e, "address_budget").edge = e
    BY DEF NotFollowed, Parked
  <1>3. e \in Frontier'
    BY <1>2 DEF Frontier
  <1>4. QED
    BY <1>1, <1>3, MoveStep

LEMMA LeftAtDepthStep ==
    ASSUME TraceInv, NEW e \in pending, LeftAtDepth(e)
    PROVE  TraceInv'
  <1>1. Moves(e)
    BY DEF LeftAtDepth, Walking, Moves
  <1>2. Hop(e, "queued") \in hops' /\ Hop(e, "queued").edge = e /\ Hop(e, "queued").state = "queued"
    BY DEF LeftAtDepth, Hop
  <1>3. e \in Frontier'
    BY <1>2 DEF Frontier, QueuedHops
  <1>4. QED
    BY <1>1, <1>3, MoveStep

LEMMA BackOffStep ==
    ASSUME TraceInv, NEW e \in pending, BackOff(e)
    PROVE  TraceInv'
  <1>1. Moves(e)
    BY DEF BackOff, Followed, Walking, Moves, Reasons
  <1>2. Parked(e, "provider_backoff") \in parked' /\ Parked(e, "provider_backoff").edge = e
    BY DEF BackOff, Parked
  <1>3. e \in Frontier'
    BY <1>2 DEF Frontier
  <1>4. QED
    BY <1>1, <1>3, MoveStep

-----------------------------------------------------------------------------
(* What leaves the end of a path are arrivals one transfer further.        *)
LEMMA EdgesArrive ==
    ASSUME chain \in Histories, NEW path \in Seq(DOMAIN chain), NEW amount \in 0..Amount,
           ~Raises(Outgoing(path), amount), NEW t \in Edges(path, amount)
    PROVE  /\ t \in Arrivals /\ Front(t.path) = path /\ Depth(t) = Len(path) + 1
           /\ t.path = Append(path, Last(t.path))
           /\ Last(t.path) \in DOMAIN chain /\ Last(t.path) \in Nat
           /\ chain[Last(t.path)].src = Source(path)
  <1>1. amount \in Nat /\ Amount \in Nat /\ amount <= Amount
    BY LiveTraceAssumption
  <1>2. /\ t = Edge(t.path, t.value, t.order) /\ t.value \in 0..amount /\ t.order \in Nat
        /\ \E i \in DOMAIN chain : t.path = Append(path, i) /\ chain[i].src = Source(path)
    BY <1>1, EdgesTyped
  <1>3. PICK i \in DOMAIN chain : t.path = Append(path, i) /\ chain[i].src = Source(path)
    BY <1>2
  <1>4. /\ t.path \in Seq(DOMAIN chain) \ {<<>>} /\ Len(t.path) = Len(path) + 1
        /\ Last(t.path) = i /\ Front(t.path) = path
    BY <1>3, PathAppended
  <1>5. t.value \in 0..Amount
    BY <1>1, <1>2
  <1>6. t \in Arrivals
    BY <1>2, <1>4, <1>5 DEF Arrivals, Edge
  <1>7. i \in Nat
    BY ChainTyped
  <1>8. QED
    BY <1>3, <1>4, <1>6, <1>7 DEF Depth

(* The addresses of a path hold those before its end, and its end.         *)
LEMMA VisitedGrows ==
    ASSUME NEW path \in Seq(DOMAIN chain) \ {<<>>}
    PROVE  /\ Visited(Front(path)) \subseteq Visited(path)
           /\ chain[Last(path)].dst \in Visited(path)
  <1>1. Len(path) \in Nat /\ Len(path) >= 1 /\ DOMAIN path = 1..Len(path)
    BY EmptySeq
  <1>2. \A i \in 1..(Len(path) - 1) : path[i] \in DOMAIN chain
    BY <1>1
  <1>3. /\ Len(Front(path)) = Len(path) - 1 /\ DOMAIN Front(path) = 1..(Len(path) - 1)
        /\ \A i \in 1..(Len(path) - 1) : Front(path)[i] = path[i]
    <2>1. PICK n \in Nat : n = Len(path) - 1
      <3>1. Len(path) - 1 \in Nat
        BY <1>1
      <3>2. QED
        BY <3>1
    <2>2. /\ SubSeq(path, 1, n) \in Seq(DOMAIN chain)
          /\ Len(SubSeq(path, 1, n)) = IF 1 <= n THEN n - 1 + 1 ELSE 0
          /\ \A i \in 1..(n - 1 + 1) : SubSeq(path, 1, n)[i] = path[1 + i - 1]
      <3>1. \A i \in 1..n : path[i] \in DOMAIN chain
        BY <1>2, <2>1
      <3>2. QED
        BY <3>1, SubSeqProperties
    <2>3. Front(path) = SubSeq(path, 1, n)
      BY <2>1 DEF Front
    <2>4. n - 1 + 1 = n /\ \A i \in 1..n : 1 + i - 1 = i
      OBVIOUS
    <2>5. /\ Front(path) \in Seq(DOMAIN chain) /\ Len(Front(path)) = n
          /\ \A i \in 1..n : Front(path)[i] = path[i]
      <3>1. Len(Front(path)) = n
        BY <2>2, <2>3
      <3>2. \A i \in 1..n : SubSeq(path, 1, n)[i] = path[i]
        BY <2>2, <2>4
      <3>3. QED
        BY <2>2, <2>3, <3>1, <3>2
    <2>6. DOMAIN Front(path) = 1..n
      BY <2>5
    <2>7. QED
      BY <2>1, <2>5, <2>6
  <1>4. \A i \in DOMAIN Front(path) : i \in DOMAIN path /\ Front(path)[i] = path[i]
    BY <1>1, <1>3
  <1>5. Last(path) = path[Len(path)] /\ Len(path) \in DOMAIN path
    BY <1>1 DEF Last
  <1>6. QED
    BY <1>4, <1>5 DEF Visited

LEMMA ExpandStep ==
    ASSUME TraceInv, NEW e \in pending, Expand(e)
    PROVE  TraceInv'
  <1> DEFINE E == Edges(e.path, e.value)
             plan == Schedule(E, e.value, Visited(e.path), TRUE, BudgetLeft(queried + 1))
             F == plan.follow
             stays == Stays(e.path, e.value)
  <1>1. CASE Raises(Outgoing(e.path), e.value)
    BY <1>1, RaisesStep DEF Expand
  <1>2. ASSUME ~Raises(Outgoing(e.path), e.value)
        PROVE  TraceInv'
    <2>1. /\ TraceTypeOK /\ TraceTyped /\ WithinBounds /\ ValueAccounted
          /\ EdgesApart /\ PendingIsOpen /\ OnePathWalked
      BY DEF TraceInv
    <2>2. /\ phase = "walking" /\ phase' = phase /\ terminal' = terminal /\ terminal = "none"
          /\ chain' = chain /\ engine' = engine /\ strategy' = strategy
          /\ Destination(e) # Nowhere /\ Depth(e) < MaxDepth /\ queried < AddressBudget
          /\ pending' = (pending \ {e}) \cup F
          /\ parked' = parked \cup plan.park
          /\ hops' = hops \cup {Hop(e, "expanded")}
          /\ queried' = queried + 1
          /\ stationary' = stationary + stays
      BY <1>2, <2>1 DEF Expand, Followed, Walking, WithinBudget, inputs, TraceTyped
    <2>3. /\ e \in Seen /\ e \in Arrivals /\ chain \in Histories
          /\ e.path \in Seq(DOMAIN chain) \ {<<>>} /\ e.value \in 0..Amount /\ e.value \in Nat
          /\ Source(e.path) = Destination(e) /\ Len(e.path) \in Nat /\ Len(e.path) >= 1
      BY <2>1, EmptySeq, LiveTraceAssumption DEF TraceTyped, Seen, Arrivals, Source, Destination
    <2>4. /\ IsFiniteSet(E) /\ stays \in Nat /\ Total(E) + stays = e.value
          /\ \A f \in E : f.value \in 0..e.value /\ f.order \in Nat
          /\ \A f, g \in E : (f.path = g.path => f = g) /\ (f.order = g.order => f = g)
      BY <1>2, <2>3, EdgesTyped
    <2>5. ASSUME NEW f \in E
          PROVE  /\ f \in Arrivals /\ Front(f.path) = e.path /\ Depth(f) = Len(e.path) + 1
                 /\ f.path = Append(e.path, Last(f.path))
                 /\ Last(f.path) \in DOMAIN chain /\ Last(f.path) \in Nat
                 /\ chain[Last(f.path)].src = Destination(e)
      BY <1>2, <2>3, EdgesArrive
    <2>6. BudgetLeft(queried + 1) \in Nat
      BY <2>1, LiveTraceAssumption DEF BudgetLeft, TraceTypeOK
    <2>7. /\ F \subseteq E /\ {p.edge : p \in plan.park} = E \ F
          /\ \A p \in plan.park : p = Parked(p.edge, p.reason) /\ p.reason \in Reasons
          /\ \A f \in F : Deferral(f, e.value, Visited(e.path), TRUE) = "none"
          /\ engine = "TRON" /\ strategy = "dominant_fund_flow" => \A f, g \in F : f = g
      <3> DEFINE amount == e.value visited == Visited(e.path) budget == BudgetLeft(queried + 1)
                 windowed == TRUE
      <3>1. \A f \in E : f.value \in Nat /\ f.order \in Nat
        BY <2>3, <2>4
      <3>2. IsFiniteSet(E) /\ \A f, g \in E : f.order = g.order => f = g
        BY <2>4
      <3>3. plan = Schedule(E, amount, visited, windowed, budget) /\ budget \in Nat
        BY <2>6
      <3> HIDE DEF E, amount, visited, windowed, budget, plan
      <3>4. /\ plan.follow \subseteq E
            /\ {p.edge : p \in plan.park} = E \ plan.follow
            /\ \A p \in plan.park : p = Parked(p.edge, p.reason) /\ p.reason \in Reasons
            /\ \A f \in plan.follow : Deferral(f, amount, visited, windowed) = "none"
            /\ engine = "TRON" /\ strategy = "dominant_fund_flow" =>
                 \A f, g \in plan.follow : f = g
        BY <3>1, <3>2, <3>3, Scheduled
      <3>5. QED
        BY <3>4 DEF amount, visited, windowed
    <2> HIDE DEF E, plan, stays
    <2>8. ASSUME NEW f \in E, NEW g \in Seen
          PROVE  f.path # g.path
      <3>1. SUFFICES ASSUME f.path = g.path
                     PROVE  FALSE
        OBVIOUS
      <3>2. Len(g.path) # 1
        BY <2>3, <2>5, <3>1 DEF Depth
      <3>3. PICK h \in hops : h.edge.path = e.path
        BY <2>1, <2>5, <3>1, <3>2 DEF EdgesApart
      <3>4. h.edge \in Walked /\ h.edge \in Seen
        BY DEF Walked, Seen
      <3>5. h.edge = e
        BY <2>1, <2>3, <3>3, <3>4 DEF EdgesApart
      <3>6. QED
        BY <2>1, <3>4, <3>5 DEF EdgesApart, Walked
    <2>9. E \cap Seen = {}
      BY <2>8
    <2>10. Parks' = Parks \cup (E \ F) /\ Walked' = Walked \cup {e}
      <3>1. \A p \in plan.park : p.edge \in E \ F
        BY <2>7
      <3>2. \A f \in E \ F : \E p \in plan.park : p.edge = f
        BY <2>7
      <3>3. Parks' = Parks \cup (E \ F)
        BY <2>2, <3>1, <3>2 DEF Parks
      <3>4. Hop(e, "expanded").edge = e
        BY DEF Hop
      <3>5. Walked' = Walked \cup {e}
        BY <2>2, <3>4 DEF Walked
      <3>6. QED
        BY <3>3, <3>5
    <2>11. Seen' = Seen \cup E
      <3>1. Seen = pending \cup Parks \cup Walked /\ Seen' = pending' \cup Parks' \cup Walked'
        BY DEF Seen, Parks, Walked
      <3>2. QED
        BY <2>2, <2>7, <2>10, <3>1
    <2>12. Frontier' = Frontier \cup (E \ F)
      <3>1. QueuedHops' = QueuedHops
        BY <2>2 DEF QueuedHops, Hop
      <3>2. Frontier = {h.edge : h \in QueuedHops} \cup Parks
        BY DEF Frontier, Parks
      <3>3. Frontier' = {h.edge : h \in QueuedHops'} \cup Parks'
        BY DEF Frontier, Parks
      <3>4. QED
        BY <2>10, <3>1, <3>2, <3>3
    <2>13. Frontier \subseteq Seen /\ e \notin Frontier /\ Frontier' \subseteq Seen'
      <3>1. \A f \in Frontier : f \in Parks \cup Walked
        BY DEF Frontier, Parks, Walked, QueuedHops
      <3>2. Parks \cup Walked \subseteq Seen /\ e \notin Parks \cup Walked
        BY <2>1 DEF Seen, EdgesApart, Parks, Walked
      <3>3. QED
        BY <2>11, <2>12, <3>1, <3>2
    <2>14. Seen' \subseteq Arrivals /\ IsFiniteSet(Seen')
      <3>1. IsFiniteSet(Seen \cup E)
        BY <2>1, <2>4, FS_Union DEF TraceTyped
      <3>2. QED
        BY <2>1, <2>5, <2>11, <3>1 DEF TraceTyped
    <2>15. /\ stationary' \in Nat
           /\ stationary' + Total(pending' \cup Frontier') = Amount
           /\ stationary' \in 0..Amount
      <3> DEFINE rest == (pending \cup Frontier) \ {e}
      <3>1. /\ pending \cup Frontier = rest \cup {e} /\ rest \cap {e} = {}
            /\ pending' \cup Frontier' = rest \cup E /\ rest \cap E = {}
            /\ rest \subseteq Seen
        BY <2>2, <2>7, <2>9, <2>12, <2>13 DEF Seen
      <3> HIDE DEF rest
      <3>2. IsFiniteSet(rest) /\ \A f \in rest : f.value \in Nat
        BY <2>1, <3>1, FS_Subset, LiveTraceAssumption DEF TraceTyped, Arrivals
      <3>3. IsFiniteSet({e}) /\ Total({e}) = e.value
        <4>1. e.value \in Int
          BY <2>3
        <4>2. Total({e}) = e.value
          BY <4>1, TotalOfOne
        <4>3. QED
          BY <4>2, FS_Singleton
      <3>4. Total(rest \cup {e}) = Total(rest) + Total({e})
        <4>1. \A f \in rest \cup {e} : f.value \in Int
          BY <2>3, <3>2
        <4>2. QED
          BY <3>1, <3>2, <3>3, <4>1, TotalOfUnion
      <3>5. Total(rest \cup E) = Total(rest) + Total(E) /\ Total(E) \in Int
        <4>1. \A f \in rest \cup E : f.value \in Int
          BY <2>4, <3>2
        <4>2. QED
          BY <2>4, <3>1, <3>2, <4>1, TotalOfUnion
      <3>6. Total(rest) \in Nat /\ Total(rest \cup E) \in Nat
        <4>1. \A f \in rest \cup E : f.value \in Nat
          BY <2>4, <3>2
        <4>2. IsFiniteSet(rest \cup E)
          BY <2>4, <3>2, FS_Union
        <4>3. Total(rest) \in Nat
          BY <3>2, TotalIsNatural
        <4>4. Total(rest \cup E) \in Nat
          BY <4>1, <4>2, TotalIsNatural
        <4>5. QED
          BY <4>3, <4>4
      <3>7. stationary + Total(rest \cup {e}) = Amount
        BY <2>1, <2>2, <3>1 DEF ValueAccounted, Succeeds, FailureKinds
      <3>8. stationary \in Nat /\ stationary' = stationary + stays /\ stays \in Nat
        BY <2>1, <2>2, <2>4 DEF TraceTyped
      <3>9. PICK v \in Nat, r \in Nat, x \in Int : v = e.value /\ r = Total(rest) /\ x = Total(E)
        BY <2>3, <3>5, <3>6
      <3>10. stationary + r + v = Amount /\ x + stays = v /\ Total(rest \cup E) = r + x
        BY <2>4, <3>3, <3>4, <3>5, <3>7, <3>8, <3>9
      <3>11. stationary' + Total(rest \cup E) = Amount
        BY <3>8, <3>9, <3>10
      <3>12. QED
        <4>1. PICK t \in Nat : t = Total(rest \cup E)
          BY <3>6
        <4>2. stationary' \in Nat
          BY <3>8
        <4>3. stationary' + t = Amount
          BY <3>11, <4>1
        <4>4. stationary' \in 0..Amount
          BY <4>1, <4>2, <4>3, LiveTraceAssumption
        <4>5. QED
          BY <3>1, <3>11, <4>2, <4>4
    <2>16. TraceTypeOK'
      <3>1. \A f \in pending' \cup Frontier' : f \in Arrivals
        BY <2>13, <2>14 DEF Seen
      <3>2. \A f \in pending' \cup Frontier' : IsEdge(f)'
        BY <2>2, <3>1 DEF IsEdge, Arrivals
      <3>3. \A p \in parked' : p.reason \in Reasons
        BY <2>1, <2>2, <2>7 DEF TraceTypeOK
      <3>4. QED
        BY <2>1, <2>2, <2>15, <3>2, <3>3 DEF TraceTypeOK
    <2>17. TraceTyped'
      <3>1. \A p \in plan.park : p \in [edge : Seen', reason : Reasons]
        <4>1. \A p \in plan.park : p.edge \in Seen'
          BY <2>7, <2>11
        <4>2. QED
          BY <2>7, <4>1 DEF Parked
      <3>2. parked' \subseteq [edge : Seen', reason : Reasons]
        BY <2>1, <2>2, <2>11, <3>1 DEF TraceTyped
      <3>3. hops' \subseteq [edge : Seen', state : {"queued", "expanded", "deferred"}]
        BY <2>1, <2>2, <2>3, <2>11 DEF TraceTyped, Hop
      <3>4. Arrivals' = Arrivals
        BY <2>2 DEF Arrivals
      <3>5. QED
        BY <2>1, <2>2, <2>14, <2>15, <3>2, <3>3, <3>4 DEF TraceTyped
    <2>18. WithinBounds'
      <3>1. queried' <= AddressBudget
        BY <2>1, <2>2, LiveTraceAssumption DEF TraceTypeOK
      <3>2. /\ Last(e.path) <= WindowEnd /\ Depth(e) <= MaxDepth
            /\ Destination(e) \notin Visited(Front(e.path))
        BY <2>1, <2>2 DEF PendingIsOpen
      <3>3. ASSUME NEW h \in hops'
            PROVE  /\ Depth(h.edge) <= MaxDepth
                   /\ h.state # "queued" =>
                        /\ Depth(h.edge) < MaxDepth /\ Last(h.edge.path) <= WindowEnd
                        /\ Destination(h.edge) \notin Visited(Front(h.edge.path))
        <4>1. CASE h \in hops
          BY <2>1, <4>1 DEF WithinBounds
        <4>2. CASE h \notin hops
          <5>1. h.edge = e
            BY <2>2, <4>2 DEF Hop
          <5>2. QED
            BY <2>2, <3>2, <5>1
        <4>3. QED
          BY <4>1, <4>2
      <3>4. QED
        BY <2>2, <3>1, <3>3 DEF WithinBounds, Depth, Destination, Visited
    <2>19. ValueAccounted'
      BY <2>15 DEF ValueAccounted
    <2>20. EdgesApart'
      <3>1. \A f, g \in Seen' : f.path = g.path => f = g
        BY <2>1, <2>4, <2>8, <2>11 DEF EdgesApart
      <3>2. \A f \in pending' : f \notin Walked' \cup Parks'
        <4>1. \A f \in pending : f \notin Walked \cup Parks
          BY <2>1 DEF EdgesApart, Walked, Parks
        <4>2. pending \subseteq Seen /\ Walked \subseteq Seen /\ Parks \subseteq Seen
          BY DEF Seen, Walked, Parks
        <4>3. QED
          BY <2>2, <2>3, <2>7, <2>9, <2>10, <4>1, <4>2
      <3>3. ASSUME NEW f \in Seen'
            PROVE  Len(f.path) = 1 \/ \E h \in hops' : h.edge.path = Front(f.path)
        <4>1. CASE f \in Seen
          BY <2>1, <2>2, <4>1 DEF EdgesApart
        <4>2. CASE f \in E
          <5>1. Hop(e, "expanded") \in hops' /\ Hop(e, "expanded").edge.path = Front(f.path)
            BY <2>2, <2>5, <4>2 DEF Hop
          <5>2. QED
            BY <5>1
        <4>3. QED
          BY <2>11, <4>1, <4>2
      <3>4. QED
        BY <3>1, <3>2, <3>3 DEF EdgesApart, Walked, Parks
    <2>21. PendingIsOpen'
      <3>1. ASSUME NEW f \in pending'
            PROVE  /\ Depth(f) <= MaxDepth /\ Last(f.path) <= WindowEnd
                   /\ Destination(f) = Nowhere \/ Destination(f) \notin Visited(Front(f.path))
        <4>1. CASE f \in pending
          BY <2>1, <4>1 DEF PendingIsOpen
        <4>2. CASE f \in F
          <5>1. f \in E /\ Front(f.path) = e.path /\ Depth(f) \in Nat /\ Last(f.path) \in Nat
            BY <2>3, <2>5, <2>7, <4>2
          <5>2. /\ ~(Depth(f) > MaxDepth) /\ ~(Last(f.path) > WindowEnd)
                /\ ~(Destination(f) # Nowhere /\ Destination(f) \in Visited(e.path))
            BY <2>7, <4>2 DEF Deferral
          <5>3. QED
            BY <5>1, <5>2, LiveTraceAssumption
        <4>3. QED
          BY <2>2, <4>1, <4>2
      <3>2. QED
        BY <2>2, <3>1 DEF PendingIsOpen, Depth, Destination, Visited
    <2>22. OnePathWalked'
      <3>1. SUFFICES ASSUME engine = "TRON", strategy = "dominant_fund_flow"
                     PROVE  /\ \A f, g \in pending' : f = g
                            /\ \A f \in pending', g \in Seen' :
                                  chain[Last(g.path)].src \in Visited(Front(f.path))
                            /\ \A f, g \in Seen' : Last(f.path) = Last(g.path) => f = g
        BY <2>2 DEF OnePathWalked, Visited
      <3>2. /\ \A f \in pending : f = e
            /\ \A g \in Seen : chain[Last(g.path)].src \in Visited(Front(e.path))
            /\ \A f, g \in Seen : Last(f.path) = Last(g.path) => f = g
        BY <2>1, <3>1 DEF OnePathWalked
      <3>3. pending' = F
        BY <2>2, <3>2
      <3>4. /\ Visited(Front(e.path)) \subseteq Visited(e.path)
            /\ Destination(e) \in Visited(e.path)
            /\ Destination(e) \notin Visited(Front(e.path))
        BY <2>1, <2>2, <2>3, VisitedGrows DEF PendingIsOpen, Destination
      <3>5. \A f, g \in pending' : f = g
        BY <2>7, <3>1, <3>3
      <3>6. ASSUME NEW f \in pending', NEW g \in Seen'
            PROVE  chain[Last(g.path)].src \in Visited(Front(f.path))
        <4>1. Front(f.path) = e.path
          BY <2>5, <2>7, <3>3
        <4>2. chain[Last(g.path)].src \in Visited(e.path)
          BY <2>5, <2>11, <3>2, <3>4
        <4>3. QED
          BY <4>1, <4>2
      <3>7. ASSUME NEW f \in E, NEW g \in Seen, Last(f.path) = Last(g.path)
            PROVE  FALSE
        BY <2>5, <3>2, <3>4, <3>7
      <3>8. ASSUME NEW f \in E, NEW g \in E, Last(f.path) = Last(g.path)
            PROVE  f = g
        BY <2>4, <2>5, <3>8
      <3>9. \A f, g \in Seen' : Last(f.path) = Last(g.path) => f = g
        BY <2>11, <3>2, <3>7, <3>8
      <3>10. QED
        BY <3>5, <3>6, <3>9
    <2>23. QED
      BY <2>16, <2>17, <2>18, <2>19, <2>20, <2>21, <2>22 DEF TraceInv
  <1>3. QED
    BY <1>1, <1>2

-----------------------------------------------------------------------------
(* The payment is confirmed, and what leaves the root is planned: to be    *)
(* followed, or, when only the payment is verified, left as queued hops.   *)
Starts(visited, windowed, budget) ==
    LET edges == Edges(<<>>, Amount)
        plan == Schedule(edges, Amount, visited, windowed, budget)
    IN  /\ phase = "seed" /\ ~Raises(Outgoing(<<>>), Amount)
        /\ phase' \in {"walking", "closed"}
        /\ UNCHANGED inputs
        /\ queried' = 1 /\ parked' = plan.park /\ stationary' = Stays(<<>>, Amount)
        /\ \/ pending' = plan.follow /\ hops' = {}
           \/ pending' = {} /\ hops' = {Hop(e, "queued") : e \in plan.follow}
        /\ terminal' \in {"none", "depth_exhausted", "stationary_funds", "trail_dissipated"}
        /\ phase' = "walking" => terminal' = "none"

LEMMA StartStep ==
    ASSUME TraceInv, NEW visited, NEW windowed, NEW budget \in Nat,
           Starts(visited, windowed, budget)
    PROVE  /\ TraceTypeOK' /\ TraceTyped' /\ ValueAccounted' /\ EdgesApart' /\ OnePathWalked'
           /\ \A e \in Seen' : /\ Front(e.path) = <<>> /\ Depth(e) = 1
                               /\ Last(e.path) \in Nat
           /\ \A e \in pending' : Deferral(e, Amount, visited, windowed) = "none"
  <1> DEFINE E == Edges(<<>>, Amount)
             plan == Schedule(E, Amount, visited, windowed, budget)
             F == plan.follow
             stays == Stays(<<>>, Amount)
  <1>1. /\ phase = "seed" /\ phase' \in {"walking", "closed"}
        /\ chain' = chain /\ engine' = engine /\ strategy' = strategy
        /\ queried' = 1 /\ parked' = plan.park /\ stationary' = stays
        /\ \/ pending' = F /\ hops' = {}
           \/ pending' = {} /\ hops' = {Hop(e, "queued") : e \in F}
        /\ terminal' \in {"none", "depth_exhausted", "stationary_funds", "trail_dissipated"}
        /\ phase' = "walking" => terminal' = "none"
    BY DEF Starts, inputs
  <1>2. /\ ~Raises(Outgoing(<<>>), Amount) /\ Amount \in Nat /\ chain \in Histories
        /\ engine \in {"TRON", "EVM"} /\ strategy \in Strategies
        /\ <<>> \in Seq(DOMAIN chain) /\ Source(<<>>) = Root /\ Len(<<>>) = 0
    BY LiveTraceAssumption DEF Starts, TraceInv, TraceTyped, Source
  <1>3. /\ IsFiniteSet(E) /\ stays \in Nat /\ Total(E) + stays = Amount
        /\ \A f \in E : f.value \in 0..Amount /\ f.order \in Nat
        /\ \A f, g \in E : (f.path = g.path => f = g) /\ (f.order = g.order => f = g)
    BY <1>2, EdgesTyped
  <1>4. ASSUME NEW f \in E
        PROVE  /\ f \in Arrivals /\ Front(f.path) = <<>> /\ Depth(f) = 1
               /\ f.path = Append(<<>>, Last(f.path))
               /\ Last(f.path) \in DOMAIN chain /\ Last(f.path) \in Nat
               /\ chain[Last(f.path)].src = Root
    <2>1. Amount \in 0..Amount
      BY <1>2
    <2>2. 0 + 1 = 1
      OBVIOUS
    <2>3. /\ f \in Arrivals /\ Front(f.path) = <<>> /\ Depth(f) = Len(<<>>) + 1
          /\ f.path = Append(<<>>, Last(f.path))
          /\ Last(f.path) \in DOMAIN chain /\ Last(f.path) \in Nat
          /\ chain[Last(f.path)].src = Source(<<>>)
      BY <1>2, <2>1, EdgesArrive
    <2>4. QED
      BY <1>2, <2>2, <2>3
  <1>5. /\ F \subseteq E /\ {p.edge : p \in plan.park} = E \ F
        /\ \A p \in plan.park : p = Parked(p.edge, p.reason) /\ p.reason \in Reasons
        /\ \A f \in F : Deferral(f, Amount, visited, windowed) = "none"
        /\ engine = "TRON" /\ strategy = "dominant_fund_flow" => \A f, g \in F : f = g
    <2>1. \A f \in E : f.value \in Nat /\ f.order \in Nat
      BY <1>2, <1>3
    <2>2. IsFiniteSet(E) /\ \A f, g \in E : f.order = g.order => f = g
      BY <1>3
    <2>3. plan = Schedule(E, Amount, visited, windowed, budget)
      OBVIOUS
    <2> HIDE DEF E, plan
    <2>4. QED
      BY <2>1, <2>2, <2>3, Scheduled
  <1> HIDE DEF E, plan, stays
  <1>6. Parks' = E \ F
    BY <1>1, <1>5 DEF Parks
  <1>7. /\ Walked' = F \ pending' /\ pending' \subseteq F /\ pending' \cap Walked' = {}
        /\ {h.edge : h \in QueuedHops'} = Walked'
        /\ \A h \in hops' : h.edge \in F /\ h = Hop(h.edge, "queued") /\ h.state = "queued"
    <2>1. \A f \in F : Hop(f, "queued").edge = f /\ Hop(f, "queued").state = "queued"
      BY DEF Hop
    <2>2. CASE pending' = F /\ hops' = {}
      BY <2>2 DEF Walked, QueuedHops
    <2>3. CASE pending' = {} /\ hops' = {Hop(e, "queued") : e \in F}
      <3>1. \A h \in hops' : h.edge \in F /\ h = Hop(h.edge, "queued") /\ h.state = "queued"
        BY <2>1, <2>3
      <3>2. QueuedHops' = hops'
        BY <3>1 DEF QueuedHops
      <3>3. \A f \in F : \E h \in hops' : h.edge = f
        BY <2>1, <2>3
      <3>4. {h.edge : h \in hops'} = F
        BY <3>1, <3>3
      <3>5. QED
        BY <2>3, <3>1, <3>2, <3>4 DEF Walked
    <2>4. QED
      BY <1>1, <2>2, <2>3
  <1>8. Seen' = E
    <2>1. Seen' = pending' \cup Parks' \cup Walked'
      BY DEF Seen, Parks, Walked
    <2>2. QED
      BY <1>5, <1>6, <1>7, <2>1
  <1>9. pending' \cup Frontier' = E
    <2>1. Frontier' = {h.edge : h \in QueuedHops'} \cup Parks'
      BY DEF Frontier, Parks
    <2>2. QED
      BY <1>5, <1>6, <1>7, <2>1
  <1>10. stationary' + Total(pending' \cup Frontier') = Amount /\ stationary' \in 0..Amount
    <2>1. PICK t \in Nat : t = Total(E)
      <3>1. \A f \in E : f.value \in Nat
        BY <1>2, <1>3
      <3>2. Total(E) \in Nat
        BY <1>3, <3>1, TotalIsNatural
      <3>3. QED
        BY <3>2
    <2>2. t + stays = Amount
      BY <1>3, <2>1
    <2>3. stays + t = Amount /\ stays \in 0..Amount
      BY <1>2, <1>3, <2>2
    <2>4. QED
      BY <1>1, <1>9, <2>1, <2>3
  <1>11. TraceTypeOK'
    <2>1. \A f \in pending' \cup Frontier' : f \in Arrivals
      BY <1>4, <1>9
    <2>2. \A f \in pending' \cup Frontier' : IsEdge(f)'
      BY <1>1, <2>1 DEF IsEdge, Arrivals
    <2>3. \A p \in parked' : p.reason \in Reasons
      BY <1>1, <1>5
    <2>4. QED
      BY <1>1, <1>10, <2>2, <2>3 DEF TraceTypeOK
  <1>12. TraceTyped'
    <2>1. \A p \in plan.park : p.edge \in E
      BY <1>5
    <2>2. parked' \subseteq [edge : Seen', reason : Reasons]
      BY <1>1, <1>5, <1>8, <2>1 DEF Parked
    <2>3. hops' \subseteq [edge : Seen', state : {"queued", "expanded", "deferred"}]
      BY <1>5, <1>7, <1>8 DEF Hop
    <2>4. Arrivals' = Arrivals
      BY <1>1 DEF Arrivals
    <2>5. stationary' \in Nat
      BY <1>1, <1>3
    <2>6. QED
      BY <1>1, <1>2, <1>3, <1>4, <1>8, <2>2, <2>3, <2>4, <2>5 DEF TraceTyped
  <1>13. ValueAccounted'
    BY <1>10 DEF ValueAccounted
  <1>14. EdgesApart'
    <2>1. \A f, g \in Seen' : f.path = g.path => f = g
      BY <1>3, <1>8
    <2>2. \A f \in pending' : f \notin Walked' \cup Parks'
      BY <1>6, <1>7
    <2>3. \A f \in Seen' : Len(f.path) = 1
      BY <1>4, <1>8 DEF Depth
    <2>4. QED
      BY <2>1, <2>2, <2>3 DEF EdgesApart, Walked, Parks
  <1>15. OnePathWalked'
    <2>1. SUFFICES ASSUME engine = "TRON", strategy = "dominant_fund_flow"
                   PROVE  /\ \A f, g \in pending' : f = g
                          /\ \A f \in pending', g \in Seen' :
                                chain[Last(g.path)].src \in Visited(Front(f.path))
                          /\ \A f, g \in Seen' : Last(f.path) = Last(g.path) => f = g
      BY <1>1 DEF OnePathWalked, Visited
    <2>2. \A f, g \in pending' : f = g
      BY <1>5, <1>7, <2>1
    <2>3. \A f \in pending', g \in Seen' : chain[Last(g.path)].src \in Visited(Front(f.path))
      BY <1>4, <1>8 DEF Visited
    <2>4. \A f, g \in Seen' : Last(f.path) = Last(g.path) => f = g
      BY <1>3, <1>4, <1>8
    <2>5. QED
      BY <2>2, <2>3, <2>4
  <1>16. \A f \in Seen' : Front(f.path) = <<>> /\ Depth(f) = 1 /\ Last(f.path) \in Nat
    BY <1>4, <1>8
  <1>17. \A f \in pending' : Deferral(f, Amount, visited, windowed) = "none"
    BY <1>5, <1>7
  <1>18. QED
    BY <1>11, <1>12, <1>13, <1>14, <1>15, <1>16, <1>17

LEMMA VerifyStep ==
    ASSUME TraceInv, Verify
    PROVE  TraceInv'
  <1>1. CASE Raises(Outgoing(<<>>), Amount)
    BY <1>1, RaisesStep DEF Verify
  <1>2. ASSUME ~Raises(Outgoing(<<>>), Amount)
        PROVE  TraceInv'
    <2>1. BudgetLeft(1) \in Nat
      BY LiveTraceAssumption DEF BudgetLeft
    <2>2. hops = {} /\ terminal = "none" /\ phase = "seed"
      BY DEF Verify, TraceInv, TraceTyped, Seen
    <2>3. Starts({Root}, TRUE, BudgetLeft(1)) /\ hops' = {} /\ queried' = 1 /\ chain' = chain
      BY <1>2, <2>2 DEF Verify, Starts, inputs
    <2> DEFINE visited == {Root} windowed == TRUE budget == BudgetLeft(1)
    <2>4. Starts(visited, windowed, budget) /\ budget \in Nat
      BY <2>1, <2>3
    <2> HIDE DEF visited, windowed, budget
    <2>5. /\ TraceTypeOK' /\ TraceTyped' /\ ValueAccounted' /\ EdgesApart' /\ OnePathWalked'
          /\ \A e \in Seen' : /\ Front(e.path) = <<>> /\ Depth(e) = 1
                               /\ Last(e.path) \in Nat
          /\ \A e \in pending' : Deferral(e, Amount, visited, windowed) = "none"
      BY <2>4, StartStep
    <2>6. WithinBounds'
      BY <2>3, LiveTraceAssumption DEF WithinBounds
    <2>7. ASSUME NEW e \in pending'
          PROVE  /\ Depth(e) <= MaxDepth /\ Last(e.path) <= WindowEnd
                 /\ Destination(e) = Nowhere \/ Destination(e) \notin Visited(Front(e.path))
      <3>1. e \in Seen'
        BY DEF Seen
      <3>2. Front(e.path) = <<>> /\ Depth(e) = 1 /\ Last(e.path) \in Nat
        BY <2>5, <3>1
      <3>3. Visited(<<>>) = {Root}
        BY DEF Visited
      <3>4. Deferral(e, Amount, visited, windowed) = "none"
        BY <2>5
      <3>5. /\ ~(Depth(e) > MaxDepth) /\ ~(Last(e.path) > WindowEnd)
            /\ ~(Destination(e) # Nowhere /\ Destination(e) \in {Root})
        BY <3>4 DEF Deferral, visited, windowed
      <3>6. QED
        BY <3>2, <3>3, <3>5, LiveTraceAssumption
    <2>8. PendingIsOpen'
      BY <2>3, <2>7 DEF PendingIsOpen, Depth, Destination, Visited
    <2>9. QED
      BY <2>5, <2>6, <2>8 DEF TraceInv
  <1>3. QED
    BY <1>1, <1>2

LEMMA VerifyOnlyStep ==
    ASSUME TraceInv, VerifyOnly
    PROVE  TraceInv'
  <1>1. CASE Raises(Outgoing(<<>>), Amount)
    BY <1>1, RaisesStep DEF VerifyOnly
  <1>2. ASSUME ~Raises(Outgoing(<<>>), Amount)
        PROVE  TraceInv'
    <2>1. AddressBudget \in Nat
      BY LiveTraceAssumption
    <2>2. pending = {} /\ pending' = {} /\ phase = "seed"
      BY <1>2 DEF VerifyOnly, TraceInv, TraceTyped, Seen
    <2>3. /\ Starts({}, FALSE, AddressBudget) /\ queried' = 1 /\ chain' = chain
          /\ \A h \in hops' : h.state = "queued"
      <3> DEFINE E == Edges(<<>>, Amount)
                 plan == Schedule(E, Amount, {}, FALSE, AddressBudget)
      <3>1. /\ phase' = "closed" /\ queried' = 1 /\ UNCHANGED inputs
            /\ hops' = {Hop(e, "queued") : e \in plan.follow} /\ parked' = plan.park
            /\ stationary' = Stays(<<>>, Amount)
            /\ terminal' = IF plan.follow # {} THEN "depth_exhausted"
                           ELSE IF E = {} THEN "stationary_funds"
                           ELSE "trail_dissipated"
        BY <1>2 DEF VerifyOnly
      <3>2. Starts({}, FALSE, AddressBudget) <=>
              /\ phase = "seed" /\ ~Raises(Outgoing(<<>>), Amount)
              /\ phase' \in {"walking", "closed"}
              /\ UNCHANGED inputs
              /\ queried' = 1 /\ parked' = plan.park /\ stationary' = Stays(<<>>, Amount)
              /\ \/ pending' = plan.follow /\ hops' = {}
                 \/ pending' = {} /\ hops' = {Hop(e, "queued") : e \in plan.follow}
              /\ terminal' \in {"none", "depth_exhausted", "stationary_funds",
                                "trail_dissipated"}
              /\ phase' = "walking" => terminal' = "none"
        BY DEF Starts
      <3> HIDE DEF E, plan
      <3>3. terminal' \in {"none", "depth_exhausted", "stationary_funds", "trail_dissipated"}
        BY <3>1
      <3>4. Starts({}, FALSE, AddressBudget)
        BY <1>2, <2>2, <3>1, <3>2, <3>3
      <3>5. \A h \in hops' : h.state = "queued"
        BY <3>1 DEF Hop
      <3>6. QED
        BY <3>1, <3>4, <3>5 DEF inputs
    <2> DEFINE visited == {} windowed == FALSE
    <2>4. Starts(visited, windowed, AddressBudget)
      BY <2>3
    <2> HIDE DEF visited, windowed
    <2>5. /\ TraceTypeOK' /\ TraceTyped' /\ ValueAccounted' /\ EdgesApart' /\ OnePathWalked'
          /\ \A e \in Seen' : /\ Front(e.path) = <<>> /\ Depth(e) = 1
                               /\ Last(e.path) \in Nat
          /\ \A e \in pending' : Deferral(e, Amount, visited, windowed) = "none"
      BY <2>1, <2>4, StartStep
    <2>6. WithinBounds'
      <3>1. \A h \in hops' : Depth(h.edge) = 1
        BY <2>5 DEF Seen
      <3>2. \A h \in hops' : Depth(h.edge) <= MaxDepth
        BY <3>1, LiveTraceAssumption
      <3>3. QED
        BY <2>3, <3>2, LiveTraceAssumption DEF WithinBounds, Depth
    <2>7. PendingIsOpen'
      BY <2>2 DEF PendingIsOpen
    <2>8. QED
      BY <2>5, <2>6, <2>7 DEF TraceInv
  <1>3. QED
    BY <1>1, <1>2

-----------------------------------------------------------------------------
LEMMA TraceStepKeeps ==
    ASSUME TraceInv, [TraceStep]_traceVars
    PROVE  TraceInv'
  <1>1. CASE SeedFails
    BY <1>1, FailStep DEF SeedFails
  <1>2. CASE Verify
    BY <1>2, VerifyStep
  <1>3. CASE VerifyOnly
    BY <1>3, VerifyOnlyStep
  <1>4. CASE Close
    BY <1>4, CloseStep
  <1>5. CASE Seal
    BY <1>5, SealStep
  <1>6. ASSUME NEW e \in pending,
               NotFollowed(e) \/ LeftAtDepth(e) \/ Expand(e) \/ BackOff(e) \/ Misconfigured(e)
        PROVE  TraceInv'
    <2>1. CASE NotFollowed(e)
      BY <2>1, NotFollowedStep
    <2>2. CASE LeftAtDepth(e)
      BY <2>2, LeftAtDepthStep
    <2>3. CASE Expand(e)
      BY <2>3, ExpandStep
    <2>4. CASE BackOff(e)
      BY <2>4, BackOffStep
    <2>5. CASE Misconfigured(e)
      <3>1. "provider_error" \in FailureKinds /\ Fails("provider_error")
        BY <2>5 DEF Misconfigured, FailureKinds
      <3>2. QED
        BY <3>1, FailStep
    <2>6. QED
      BY <1>6, <2>1, <2>2, <2>3, <2>4, <2>5
  <1>7. CASE UNCHANGED traceVars
    BY <1>7, StutterStep
  <1>8. QED
    BY <1>1, <1>2, <1>3, <1>4, <1>5, <1>6, <1>7 DEF TraceStep

LEMMA TraceInvariant == TraceSpec => []TraceInv
  <1>1. TraceInv /\ [TraceStep \/ TraceDone]_traceVars => TraceInv'
    <2>1. TraceDone => UNCHANGED traceVars
      BY DEF TraceDone
    <2>2. QED
      BY <2>1, TraceStepKeeps
  <1>2. QED
    BY <1>1, InitialTrace, PTL DEF TraceSpec

(* engine_bridge.py: phases, terminal kinds, edges and amounts stay well    *)
(* formed, whatever transfers are on the chain.                             *)
THEOREM TraceTypeCorrect == TraceSpec => []TraceTypeOK
  <1>1. TraceInv => TraceTypeOK
    BY DEF TraceInv
  <1>2. QED
    BY <1>1, TraceInvariant, PTL

(* _attribute_live_outgoing_edges, _schedule_live_edges and the loop of     *)
(* _live_tron_bounded_trace_result and run_trace: for every chain, amount   *)
(* and parameter, and whichever providers fail, no base unit of the payment *)
(* is lost or counted on two branches.                                      *)
THEOREM NoValueIsLost == TraceSpec => []ValueAccounted
  <1>1. TraceInv => ValueAccounted
    BY DEF TraceInv
  <1>2. QED
    BY <1>1, TraceInvariant, PTL

(* The same loops: a trace of any size asks for no more addresses than its  *)
(* budget, goes no deeper than its depth, asks for nothing after its window *)
(* and never comes back to an address of the same path.                     *)
THEOREM WalkIsBounded == TraceSpec => []WithinBounds
  <1>1. TraceInv => WithinBounds
    BY DEF TraceInv
  <1>2. QED
    BY <1>1, TraceInvariant, PTL

LEMMA ArrivalFields ==
    ASSUME chain \in Histories, NEW e \in Arrivals
    PROVE  /\ e.path \in Seq(DOMAIN chain) \ {<<>>} /\ e.value \in 0..Amount /\ e.value \in Nat
           /\ Last(e.path) \in DOMAIN chain
  <1>1. e.path \in Seq(DOMAIN chain) /\ e.path # <<>> /\ e.value \in 0..Amount
    BY DEF Arrivals
  <1>2. Len(e.path) \in 1..Len(e.path)
    BY <1>1
  <1>3. e.path[Len(e.path)] \in DOMAIN chain
    BY <1>1, <1>2
  <1>4. Amount \in Nat
    BY LiveTraceAssumption
  <1>5. QED
    BY <1>1, <1>3, <1>4 DEF Last

(* _add_evidence_projection: a trace of the dominant flow on TRON that ends *)
(* is never discarded for references that collide, on any chain, unless it  *)
(* met two transfers of one transaction without an event_index.             *)
THEOREM DominantTraceIsSealed == TraceSpec => []DominantPathSeals
  <1>1. TraceInv => DominantPathSeals
    <2>1. SUFFICES ASSUME TraceInv, engine = "TRON", strategy = "dominant_fund_flow",
                          \A e, f \in Seen : ~OneTransaction(e, f)
                   PROVE  Sealable
      BY DEF DominantPathSeals
    <2>2. ASSUME NEW e \in Seen, NEW f \in Seen, EventRef(e) = EventRef(f)
          PROVE  e = f
      <3> DEFINE t == Last(e.path) u == Last(f.path)
      <3>1. t \in DOMAIN chain /\ u \in DOMAIN chain /\ chain \in Histories
        BY <2>1, ArrivalFields DEF TraceInv, TraceTyped
      <3>2. chain[t].tx = chain[u].tx /\ Suffix(e) = Suffix(f)
        BY <2>1, <2>2 DEF EventRef
      <3>3. t # u => chain[t].log # 0
        BY <2>1, <3>2 DEF OneTransaction
      <3>4. t # u => /\ chain[u].log # 0
                     /\ chain[t].log # chain[u].log
        BY <3>1, <3>2, <3>3, LiveTraceAssumption
      <3>5. t = u
        BY <3>2, <3>3, <3>4 DEF Suffix
      <3>6. QED
        BY <2>1, <3>5 DEF TraceInv, OnePathWalked
    <2>3. Frontier \subseteq Seen /\ {h.edge : h \in hops} \subseteq Seen
      BY DEF Frontier, Seen, QueuedHops
    <2>4. QED
      BY <2>2, <2>3 DEF Sealable, RefsUnique
  <1>2. QED
    BY <1>1, TraceInvariant, PTL

-----------------------------------------------------------------------------
(* A trace that has ended has nothing pending, one that failed nothing.    *)
LEMMA InitialEnd == TraceInit => EndIsClean
  BY DEF TraceInit, EndIsClean, FailureKinds

LEMMA EndStep ==
    ASSUME TraceInv, EndIsClean, [TraceStep]_traceVars
    PROVE  EndIsClean'
  <1>1. /\ phase \in {"seed", "walking"} => terminal = "none"
        /\ phase = "seed" => Seen = {}
        /\ "none" \notin FailureKinds
    BY DEF TraceInv, TraceTyped, FailureKinds
  <1>2. \A kind : Fails(kind) => EndIsClean'
    BY DEF Fails, EndIsClean, Seen
  <1>3. CASE SeedFails
    BY <1>2, <1>3 DEF SeedFails
  <1>4. CASE AttributionRaises
    BY <1>4 DEF AttributionRaises, EndIsClean, Seen
  <1>5. CASE Verify
    BY <1>1, <1>4, <1>5 DEF Verify, EndIsClean
  <1>6. CASE VerifyOnly
    <2>1. CASE AttributionRaises
      BY <1>4, <2>1
    <2>2. CASE ~AttributionRaises
      <3>1. /\ phase = "seed" /\ pending' = pending
            /\ terminal' \in {"depth_exhausted", "trail_dissipated", "stationary_funds"}
        BY <1>6, <2>2 DEF VerifyOnly
      <3>2. pending' = {}
        BY <1>1, <3>1 DEF Seen
      <3>3. QED
        BY <3>1, <3>2 DEF EndIsClean, FailureKinds
    <2>3. QED
      BY <2>1, <2>2
  <1>7. CASE Close
    BY <1>7 DEF Close, EndIsClean, FailureKinds
  <1>8. CASE Seal
    BY <1>8 DEF Seal, EndIsClean, Seen
  <1>9. ASSUME NEW e \in pending,
               NotFollowed(e) \/ LeftAtDepth(e) \/ Expand(e) \/ BackOff(e) \/ Misconfigured(e)
        PROVE  EndIsClean'
    <2>1. CASE Misconfigured(e)
      BY <1>2, <2>1 DEF Misconfigured
    <2>2. CASE AttributionRaises
      BY <1>4, <2>2
    <2>3. CASE ~Misconfigured(e) /\ ~AttributionRaises
      <3>1. phase = "walking" /\ phase' = phase /\ terminal' = terminal
        BY <1>9, <2>3 DEF NotFollowed, LeftAtDepth, Expand, BackOff, Followed, Walking
      <3>2. QED
        BY <1>1, <3>1 DEF EndIsClean
    <2>4. QED
      BY <2>1, <2>2, <2>3
  <1>10. CASE UNCHANGED traceVars
    BY <1>10 DEF traceVars, EndIsClean, Seen
  <1>11. QED
    BY <1>3, <1>5, <1>6, <1>7, <1>8, <1>9, <1>10 DEF TraceStep

-----------------------------------------------------------------------------
(* What lots hold is a sum, too.                                           *)
Kept(held, S) == [k \in S |-> held[k].remaining]

LEMMA RemainingOfAll ==
    ASSUME NEW held, NEW S, IsFiniteSet(S), \A k \in S : held[k].remaining \in Int
    PROVE  \E sum : IsSum(sum, S, Kept(held, S)) /\ Remaining(held, S) = sum[S]
  <1> DEFINE Folds(f) == f = [s \in SUBSET S |->
                                IF s = {} THEN 0
                                ELSE held[CHOOSE x \in s : TRUE].remaining
                                       + f[s \ {CHOOSE x \in s : TRUE}]]
             iter == CHOOSE f : Folds(f)
             w == Kept(held, S)
  <1>1. w \in [S -> Int]
    BY DEF Kept
  <1>2. \A s \in SUBSET S : s # {} => Chosen(s) \in S /\ w[Chosen(s)] = held[Chosen(s)].remaining
    BY DEF Chosen, Kept
  <1>3. ASSUME NEW f
        PROVE  Folds(f) <=> f = [s \in SUBSET S |-> IF s = {} THEN 0
                                                    ELSE w[Chosen(s)] + f[s \ {Chosen(s)}]]
    <2> HIDE DEF w
    <2>1. ASSUME NEW s \in SUBSET S
          PROVE  (IF s = {} THEN 0
                  ELSE held[CHOOSE x \in s : TRUE].remaining + f[s \ {CHOOSE x \in s : TRUE}])
                   = (IF s = {} THEN 0 ELSE w[Chosen(s)] + f[s \ {Chosen(s)}])
      BY <1>2 DEF Chosen
    <2>2. [s \in SUBSET S |-> IF s = {} THEN 0
                               ELSE held[CHOOSE x \in s : TRUE].remaining
                                      + f[s \ {CHOOSE x \in s : TRUE}]]
            = [s \in SUBSET S |-> IF s = {} THEN 0 ELSE w[Chosen(s)] + f[s \ {Chosen(s)}]]
      BY <2>1
    <2>3. QED
      BY <2>2
  <1>4. PICK sum : IsSum(sum, S, w)
    <2> HIDE DEF w
    <2>1. QED
      BY <1>1, SumExists
  <1> HIDE DEF w
  <1>5. sum = [s \in SUBSET S |-> IF s = {} THEN 0 ELSE w[Chosen(s)] + sum[s \ {Chosen(s)}]]
    BY <1>4 DEF IsSum
  <1>6. Folds(iter)
    <2>1. Folds(sum)
      BY <1>3, <1>5
    <2> HIDE DEF Folds
    <2>2. QED
      BY <2>1
  <1>7. iter = [s \in SUBSET S |-> IF s = {} THEN 0 ELSE w[Chosen(s)] + iter[s \ {Chosen(s)}]]
    <2> HIDE DEF iter, Folds
    <2>1. QED
      BY <1>3, <1>6
  <1>8. Remaining(held, S) = iter[S]
    BY DEF Remaining, MapThenSumSet, MapThenFoldSet
  <1> HIDE DEF iter, Folds
  <1>9. IsSum(iter, S, w)
    BY <1>1, <1>7, FoldIsSum
  <1>10. QED
    BY <1>8, <1>9 DEF w

LEMMA RemainingOfUnion ==
    ASSUME NEW held, NEW A, IsFiniteSet(A), NEW B, IsFiniteSet(B), A \cap B = {},
           \A k \in A \cup B : held[k].remaining \in Int
    PROVE  /\ Remaining(held, A) \in Int /\ Remaining(held, B) \in Int
           /\ Remaining(held, A \cup B) = Remaining(held, A) + Remaining(held, B)
  <1> DEFINE S == A \cup B
             w == Kept(held, S)
  <1>1. IsFiniteSet(S) /\ A \in SUBSET S /\ B \in SUBSET S /\ S \in SUBSET S
    BY FS_Union
  <1>2. PICK sum : IsSum(sum, S, w) /\ Remaining(held, S) = sum[S]
    BY <1>1, RemainingOfAll
  <1>3. w \in [S -> Int]
    BY DEF Kept
  <1>4. ASSUME NEW T \in SUBSET S
        PROVE  Remaining(held, T) = sum[T] /\ sum[T] \in Int
    <2>1. IsFiniteSet(T) /\ \A k \in T : held[k].remaining \in Int
      BY <1>1, FS_Subset
    <2>2. PICK part : IsSum(part, T, Kept(held, T)) /\ Remaining(held, T) = part[T]
      BY <2>1, RemainingOfAll
    <2>3. Kept(held, T) \in [T -> Int] /\ \A k \in T : Kept(held, T)[k] = w[k]
      BY <2>1 DEF Kept
    <2> DEFINE v == Kept(held, T)
    <2>4. v \in [T -> Int] /\ (\A k \in T : v[k] = w[k]) /\ IsSum(part, T, v)
      BY <2>2, <2>3
    <2> HIDE DEF v, w, S
    <2>5. \A s \in SUBSET T : part[s] = sum[s]
      BY <1>1, <1>2, <1>3, <2>4, SumsAgree
    <2>6. sum[T] \in Int
      BY <1>2 DEF IsSum
    <2>7. QED
      BY <2>2, <2>5, <2>6
  <1> HIDE DEF w
  <1>5. sum[A \cup B] = sum[A] + sum[B]
    <2> HIDE DEF S
    <2>1. QED
      BY <1>1, <1>2, <1>3, SumOfUnion
  <1>6. Remaining(held, A \cup B) = sum[A \cup B]
    BY <1>2
  <1>7. QED
    BY <1>1, <1>4, <1>5, <1>6

LEMMA RemainingOfOne ==
    ASSUME NEW held, NEW k, held[k].remaining \in Int
    PROVE  Remaining(held, {k}) = held[k].remaining
  <1>1. IsFiniteSet({k}) /\ \A j \in {k} : held[j].remaining \in Int
    BY FS_Singleton
  <1> DEFINE S == {k} w == Kept(held, S)
  <1>2. PICK sum : IsSum(sum, S, w) /\ Remaining(held, S) = sum[S]
    BY <1>1, RemainingOfAll
  <1>3. S # {} /\ S \in SUBSET S /\ Chosen(S) = k /\ S \ {k} = {} /\ w[k] = held[k].remaining
    BY DEF Chosen, Kept
  <1>4. sum[S] = w[k] + sum[S \ {k}] /\ sum[{}] = 0
    <2> HIDE DEF w, S
    <2>1. QED
      BY <1>2, <1>3 DEF IsSum
  <1>5. PICK v \in Int : v = held[k].remaining
    OBVIOUS
  <1> HIDE DEF w
  <1>6. sum[S] = v + 0
    BY <1>3, <1>4, <1>5
  <1>7. QED
    BY <1>2, <1>5, <1>6

LEMMA RemainingOfNone == \A held : Remaining(held, {}) = 0
  <1>1. ASSUME NEW held
        PROVE  Remaining(held, {}) = 0
    <2>1. IsFiniteSet({}) /\ \A j \in {} : held[j].remaining \in Int
      BY FS_EmptySet
    <2>2. PICK sum : IsSum(sum, {}, Kept(held, {})) /\ Remaining(held, {}) = sum[{}]
      BY <2>1, RemainingOfAll
    <2>3. QED
      BY <2>2 DEF IsSum
  <1>2. QED
    BY <1>1

(* The sum is of what is held, and nothing else.                           *)
LEMMA RemainingSame ==
    ASSUME NEW held, NEW now, NEW S, IsFiniteSet(S),
           \A k \in S : held[k].remaining \in Int /\ now[k].remaining = held[k].remaining
    PROVE  Remaining(now, S) = Remaining(held, S)
  <1> DEFINE w == Kept(held, S) v == Kept(now, S)
  <1>1. \A k \in S : held[k].remaining \in Int /\ now[k].remaining \in Int
    OBVIOUS
  <1>2. PICK sum : IsSum(sum, S, w) /\ Remaining(held, S) = sum[S]
    BY <1>1, RemainingOfAll
  <1>3. PICK part : IsSum(part, S, v) /\ Remaining(now, S) = part[S]
    BY <1>1, RemainingOfAll
  <1>4. w \in [S -> Int] /\ v \in [S -> Int] /\ \A k \in S : v[k] = w[k]
    BY DEF Kept
  <1>5. S \in SUBSET S
    OBVIOUS
  <1> HIDE DEF w, v
  <1>6. \A s \in SUBSET S : part[s] = sum[s]
    BY <1>2, <1>3, <1>4, <1>5, SumsAgree
  <1>7. QED
    BY <1>2, <1>3, <1>5, <1>6

(* The elements of a finite set in some order, each once.                  *)
LEMMA SeqOfSet ==
    ASSUME NEW S, IsFiniteSet(S)
    PROVE  /\ SetToSeq(S) \in Seq(S)
           /\ \A j, k \in 1..Len(SetToSeq(S)) : SetToSeq(S)[j] = SetToSeq(S)[k] => j = k
           /\ \A e \in S : \E k \in 1..Len(SetToSeq(S)) : SetToSeq(S)[k] = e
  <1> DEFINE c == Cardinality(S) f == SetToSeq(S)
  <1>1. c \in Nat /\ ExistsBijection(1..c, S)
    BY FS_CardinalityType
  <1>2. \E g \in [1..c -> S] : IsInjective(g)
    BY <1>1 DEF ExistsBijection, Bijection, Injection
  <1>3. f \in [1..c -> S] /\ IsInjective(f)
    BY <1>2 DEF SetToSeq
  <1> HIDE DEF f
  <1>4. \A j, k \in 1..c : f[j] = f[k] => j = k
    BY <1>3 DEF IsInjective
  <1>5. f \in Injection(1..c, S)
    BY <1>3 DEF Injection
  <1>6. f \in Surjection(1..c, S)
    <2>1. IsFiniteSet(1..c) /\ Cardinality(1..c) = c
      BY <1>1, FS_Interval
    <2>2. QED
      BY <1>5, <2>1, FS_Injection
  <1>7. \A e \in S : \E k \in 1..c : f[k] = e
    BY <1>6 DEF Surjection
  <1>8. f \in Seq(S) /\ Len(f) = c
    BY <1>1, <1>3
  <1>9. QED
    BY <1>4, <1>7, <1>8 DEF f

LEMMA TotalOfPositive ==
    ASSUME NEW S, IsFiniteSet(S), \A e \in S : e.value \in Nat
    PROVE  LET P == {e \in S : e.value > 0} IN IsFiniteSet(P) /\ Total(P) = Total(S)
  <1> DEFINE P == {e \in S : e.value > 0}
             Z == S \ P
             w == Value(Z)
             none == [s \in SUBSET Z |-> 0]
  <1>1. P \cup Z = S /\ P \cap Z = {} /\ P \in SUBSET S /\ Z \in SUBSET S
    OBVIOUS
  <1>2. IsFiniteSet(P) /\ IsFiniteSet(Z)
    BY <1>1, FS_Subset
  <1>3. \A e \in Z : e.value = 0
    OBVIOUS
  <1>4. \A e \in P \cup Z : e.value \in Int
    OBVIOUS
  <1> HIDE DEF P, Z
  <1>5. Total(S) = Total(P) + Total(Z) /\ Total(P) \in Int
    BY <1>1, <1>2, <1>4, TotalOfUnion
  <1>6. Total(Z) = 0
    <2>1. PICK sum : IsSum(sum, Z, w) /\ Total(Z) = sum[Z]
      BY <1>2, <1>4, TotalOfAll
    <2>2. w \in [Z -> Int] /\ \A e \in Z : w[e] = 0
      BY <1>3 DEF Value
    <2> HIDE DEF w
    <2>3. /\ none \in [SUBSET Z -> Int] /\ \A s \in SUBSET Z : none[s] = 0
          /\ \A s \in SUBSET Z : s # {} => Chosen(s) \in Z /\ s \ {Chosen(s)} \in SUBSET Z
      BY DEF Chosen
    <2> HIDE DEF none
    <2>4. IsSum(none, Z, w)
      <3>1. ASSUME NEW s \in SUBSET Z, s # {}
            PROVE  none[s] = w[Chosen(s)] + none[s \ {Chosen(s)}]
        <4>1. none[s] = 0 /\ w[Chosen(s)] = 0 /\ none[s \ {Chosen(s)}] = 0
          BY <2>2, <2>3, <3>1
        <4>2. QED
          BY <4>1
      <3>2. none[{}] = 0
        BY <2>3
      <3>3. QED
        BY <2>3, <3>1, <3>2 DEF IsSum
    <2>5. Z \in SUBSET Z /\ \A e \in Z : w[e] = w[e]
      OBVIOUS
    <2>6. \A s \in SUBSET Z : sum[s] = none[s]
      BY <1>2, <2>1, <2>2, <2>4, <2>5, SumsAgree
    <2>7. QED
      BY <2>1, <2>3, <2>5, <2>6
  <1>7. PICK t \in Int : t = Total(P)
    BY <1>5
  <1>8. Total(S) = t + 0
    BY <1>5, <1>6, <1>7
  <1>9. QED
    BY <1>2, <1>7, <1>8 DEF P

(* Lots that hold the values of a sequence of edges hold their total.      *)
Following(a, n) == (a + 1)..(a + n)

Holds(held, a, n, edge) ==
    \A k \in 1..n : edge[k].value \in Nat /\ held[a + k].remaining = edge[k].value

EachOnce(edge, n) == \A j, k \in 1..n : edge[j] = edge[k] => j = k

LEMMA RemainingIsTotal ==
    ASSUME NEW held, NEW a \in Nat, NEW n \in Nat, NEW edge,
           Holds(held, a, n, edge), EachOnce(edge, n)
    PROVE  Remaining(held, Following(a, n)) = Total(UpTo(edge, n))
  <1> DEFINE ids(m) == (a + 1)..(a + m)
             upTo(m) == {edge[k] : k \in 1..m}
             good == {m \in 0..n : IsFiniteSet(upTo(m)) /\ Remaining(held, ids(m)) = Total(upTo(m))}
  <1> USE DEF Holds, EachOnce
  <1>1. \A m \in 0..n : \A i \in ids(m) : held[i].remaining \in Int
    <2>1. ASSUME NEW m \in 0..n, NEW i \in ids(m)
          PROVE  held[i].remaining \in Int
      <3>1. i - a \in 1..n /\ a + (i - a) = i
        OBVIOUS
      <3>2. PICK k \in 1..n : a + k = i
        BY <3>1
      <3>3. QED
        BY <3>2
    <2>2. QED
      BY <2>1
  <1>2. 0 \in good
    <2>1. upTo(0) = {} /\ ids(0) = {} /\ 0 \in 0..n
      OBVIOUS
    <2> HIDE DEF upTo, ids
    <2>2. IsFiniteSet(upTo(0)) /\ Total(upTo(0)) = 0 /\ Remaining(held, ids(0)) = 0
      BY <2>1, TotalOfNone, RemainingOfNone, FS_EmptySet
    <2>3. QED
      BY <2>1, <2>2
  <1>3. ASSUME NEW m \in 1..n, m - 1 \in good
        PROVE  m \in good
    <2>0. 1..m = (1..(m - 1)) \cup {m} /\ m \notin 1..(m - 1) /\ m \in 0..n /\ m - 1 \in 0..n
      OBVIOUS
    <2>1. upTo(m) = upTo(m - 1) \cup {edge[m]}
      BY <2>0
    <2>2. upTo(m - 1) \cap {edge[m]} = {}
      <3>1. \A k \in 1..(m - 1) : k \in 1..n /\ k # m
        OBVIOUS
      <3>2. QED
        BY <3>1
    <2>3. IsFiniteSet(upTo(m - 1)) /\ Remaining(held, ids(m - 1)) = Total(upTo(m - 1))
      BY <1>3
    <2>4. \A e \in upTo(m - 1) \cup {edge[m]} : e.value \in Int
      <3>1. \A k \in 1..(m - 1) : k \in 1..n
        OBVIOUS
      <3>2. QED
        BY <3>1
    <2>5. ids(m) = ids(m - 1) \cup {a + m} /\ ids(m - 1) \cap {a + m} = {}
      OBVIOUS
    <2>6. IsFiniteSet(ids(m - 1))
      <3>1. a + 1 \in Int /\ a + (m - 1) \in Int
        OBVIOUS
      <3>2. QED
        BY <3>1, FS_Interval
    <2>7. PICK v \in Nat : v = edge[m].value /\ v = held[a + m].remaining
      OBVIOUS
    <2>8. \A i \in ids(m - 1) \cup {a + m} : held[i].remaining \in Int
      BY <1>1, <2>0, <2>5
    <2> HIDE DEF upTo, ids
    <2>9. IsFiniteSet({edge[m]}) /\ Total({edge[m]}) = v
      <3>1. edge[m].value \in Int
        BY <2>7
      <3>2. Total({edge[m]}) = edge[m].value
        BY <3>1, TotalOfOne
      <3>3. QED
        BY <2>7, <3>2, FS_Singleton
    <2>10. IsFiniteSet({a + m}) /\ Remaining(held, {a + m}) = v
      <3>1. held[a + m].remaining \in Int
        BY <2>7
      <3>2. Remaining(held, {a + m}) = held[a + m].remaining
        BY <3>1, RemainingOfOne
      <3>3. QED
        BY <2>7, <3>2, FS_Singleton
    <2>11. IsFiniteSet(upTo(m))
      <3>1. IsFiniteSet(upTo(m - 1) \cup {edge[m]})
        BY <2>3, <2>9, FS_Union
      <3>2. QED
        BY <2>1, <3>1
    <2>12. Total(upTo(m)) = Total(upTo(m - 1)) + Total({edge[m]})
      BY <2>1, <2>2, <2>3, <2>4, <2>9, TotalOfUnion
    <2>13. Remaining(held, ids(m)) = Remaining(held, ids(m - 1)) + Remaining(held, {a + m})
      BY <2>5, <2>6, <2>8, <2>10, RemainingOfUnion
    <2>14. QED
      BY <2>0, <2>3, <2>9, <2>10, <2>11, <2>12, <2>13
  <1>4. good = 0..n
    <2> HIDE DEF good
    <2>0. good \in SUBSET (0..n)
      BY DEF good
    <2>1. QED
      BY <1>2, <1>3, <2>0, WholeInterval
  <1>5. Remaining(held, ids(n)) = Total(upTo(n))
    <2>1. n \in good
      <3> HIDE DEF good
      <3>1. QED
        BY <1>4
    <2> HIDE DEF upTo, ids
    <2>2. QED
      BY <2>1
  <1>6. QED
    BY <1>5 DEF UpTo, Following

(* The transfers that left the holder of a lot since.                      *)
LEMMA OutgoingSinceTyped ==
    ASSUME chain \in Histories, NEW lot
    PROVE  /\ OutgoingSince(lot) \in Seq(DOMAIN chain)
           /\ \A j, k \in 1..Len(OutgoingSince(lot)) :
                 OutgoingSince(lot)[j] = OutgoingSince(lot)[k] => j = k
  <1> DEFINE t == Last(lot.path)
             S == {i \in DOMAIN chain : chain[i].src = chain[t].dst /\ t <= i}
  <1>1. OutgoingSince(lot) = InOrder(S)
    BY DEF OutgoingSince
  <1>2. S \in SUBSET (1..Len(chain)) /\ Len(chain) \in Nat
    BY ChainTyped
  <1>3. \A i \in S : i \in DOMAIN chain
    OBVIOUS
  <1> HIDE DEF S
  <1>4. /\ InOrder(S) \in Seq(S)
        /\ \A j, k \in 1..Len(InOrder(S)) : InOrder(S)[j] = InOrder(S)[k] => j = k
    BY <1>2, OrderedTyped
  <1>5. InOrder(S) \in Seq(DOMAIN chain)
    BY <1>3, <1>4
  <1>6. QED
    BY <1>1, <1>4, <1>5

-----------------------------------------------------------------------------
(* The worker on the rows and lots of a sealed trace.                      *)
LEMMA InitialLots == TraceInit /\ LotsInit => LotsInv
  <1> SUFFICES ASSUME TraceInit, LotsInit
               PROVE  LotsInv
    OBVIOUS
  <1>1. TraceInv /\ EndIsClean
    BY InitialTrace, InitialEnd
  <1>2. lots = <<>> /\ items = <<>> /\ batch = <<>> /\ DOMAIN items = {}
    BY DEF LotsInit
  <1>3. LotsTyped
    BY <1>2 DEF LotsTyped
  <1>4. NoneUntilSealed /\ BatchIsOpen
    BY <1>2 DEF NoneUntilSealed, BatchIsOpen
  <1>5. ValueSpentOnce
    BY <1>1, <1>2 DEF ValueSpentOnce, TraceInv
  <1>6. QED
    BY <1>1, <1>3, <1>4, <1>5 DEF LotsInv

LEMMA RowFields ==
    ASSUME LotsTyped, NEW t \in DOMAIN items
    PROVE  /\ items[t] \in RowRecords /\ items[t].lot \in DOMAIN lots /\ items[t].priority \in Nat
           /\ items[t].state \in {"queued", "leased", "deferred", "completed"}
           /\ items[t].reason \in Reasons \cup {"none"}
  <1>1. items[t] \in RowRecords
    BY DEF LotsTyped
  <1>2. QED
    BY <1>1 DEF RowRecords

(* The rows keep their lots and values, and none is reopened.              *)
LEMMA RowsKept ==
    ASSUME LotsInv, UNCHANGED <<traceVars, lots>>,
           NEW row, items' = [t \in DOMAIN items |-> row[t]],
           \A t \in DOMAIN items :
              /\ row[t] \in RowRecords
              /\ row[t].lot = items[t].lot /\ row[t].priority = items[t].priority
              /\ row[t].state # "completed" => items[t].state # "completed",
           batch' \in Seq(DOMAIN items), BatchIsOpen'
    PROVE  LotsInv'
  <1>1. /\ LotsTyped /\ TraceInv /\ EndIsClean /\ ValueSpentOnce /\ NoneUntilSealed
        /\ chain' = chain /\ phase' = phase /\ lots' = lots /\ stationary' = stationary
    BY DEF LotsInv, traceVars
  <1>2. TraceInv'
    BY <1>1, StutterStep
  <1>3. EndIsClean'
    BY DEF LotsInv, traceVars, EndIsClean, Seen
  <1>4. DOMAIN items' = DOMAIN items /\ \A t \in DOMAIN items : items'[t] = row[t]
    OBVIOUS
  <1>5. LotsTyped'
    <2>1. LotRecords' = LotRecords /\ RowRecords' = RowRecords
      BY <1>1 DEF LotRecords, RowRecords, Named
    <2>2. items' \in [DOMAIN items -> RowRecords]
      OBVIOUS
    <2>3. QED
      BY <1>1, <1>4, <2>1, <2>2 DEF LotsTyped
  <1>6. NoneUntilSealed'
    <2>1. SUFFICES ASSUME phase # "sealed"
                   PROVE  lots' = <<>> /\ items' = <<>> /\ batch' = <<>>
      BY <1>1 DEF NoneUntilSealed
    <2>2. lots = <<>> /\ items = <<>>
      BY <1>1, <2>1 DEF NoneUntilSealed
    <2>3. DOMAIN items = {}
      BY <2>2
    <2>4. batch' = <<>>
      BY <2>3
    <2>5. items' = [t \in {} |-> row[t]]
      BY <2>3
    <2>6. items' = <<>>
      BY <2>5
    <2>7. QED
      BY <1>1, <2>2, <2>4, <2>6
  <1>7. ValueSpentOnce'
    <2>1. ValueAccounted'
      BY <1>2 DEF TraceInv
    <2>2. SUFFICES ASSUME DOMAIN items # {}
                   PROVE  /\ stationary + Remaining(lots, DOMAIN lots) = Amount
                          /\ \A t \in DOMAIN items :
                               row[t].state # "completed" =>
                                 /\ lots[row[t].lot].state = "queued"
                                 /\ lots[row[t].lot].remaining = row[t].priority
                                 /\ Last(lots[row[t].lot].path) = t
                          /\ \A t, u \in DOMAIN items : row[t].lot = row[u].lot => t = u
      BY <1>1, <1>4, <2>1 DEF ValueSpentOnce
    <2>3. QED
      BY <1>1, <2>2 DEF ValueSpentOnce
  <1>8. QED
    BY <1>2, <1>3, <1>5, <1>6, <1>7 DEF LotsInv

LEMMA BatchParts ==
    ASSUME LotsTyped, BatchIsOpen, batch # <<>>
    PROVE  /\ Head(batch) \in DOMAIN items /\ items[Head(batch)].state # "completed"
           /\ Tail(batch) \in Seq(DOMAIN items)
           /\ \A k \in DOMAIN Tail(batch) :
                /\ Tail(batch)[k] \in DOMAIN items /\ Tail(batch)[k] # Head(batch)
                /\ items[Tail(batch)[k]].state # "completed"
           /\ \A j, k \in DOMAIN Tail(batch) : Tail(batch)[j] = Tail(batch)[k] => j = k
  <1>1. /\ batch \in Seq(DOMAIN items) /\ Len(batch) \in Nat /\ Len(batch) >= 1
        /\ DOMAIN batch = 1..Len(batch)
    BY DEF LotsTyped
  <1>2. /\ Head(batch) = batch[1] /\ Tail(batch) \in Seq(DOMAIN items)
        /\ DOMAIN Tail(batch) = 1..(Len(batch) - 1)
        /\ \A k \in 1..(Len(batch) - 1) : Tail(batch)[k] = batch[k + 1]
    BY <1>1
  <1>3. 1 \in DOMAIN batch /\ \A k \in 1..(Len(batch) - 1) : k + 1 \in DOMAIN batch /\ k + 1 # 1
    BY <1>1
  <1>4. \A k \in DOMAIN batch : batch[k] \in DOMAIN items
    BY <1>1
  <1>5. \A j, k \in 1..(Len(batch) - 1) : j + 1 = k + 1 => j = k
    BY <1>1
  <1>6. QED
    BY <1>2, <1>3, <1>4, <1>5 DEF BatchIsOpen

LEMMA DeferItemStep ==
    ASSUME LotsInv, DeferItem, UNCHANGED traceVars
    PROVE  LotsInv'
  <1> DEFINE t == Head(batch)
             row == [u \in DOMAIN items |->
                       IF u = t THEN [items[t] EXCEPT !.state = "deferred", !.reason = "provider_backoff"]
                       ELSE items[u]]
  <1>1. LotsTyped /\ BatchIsOpen /\ batch # <<>> /\ lots' = lots /\ batch' = Tail(batch)
    BY DEF LotsInv, DeferItem
  <1>2. /\ t \in DOMAIN items /\ items[t].state # "completed"
        /\ Tail(batch) \in Seq(DOMAIN items)
        /\ \A k \in DOMAIN Tail(batch) : /\ Tail(batch)[k] \in DOMAIN items /\ Tail(batch)[k] # t
                                         /\ items[Tail(batch)[k]].state # "completed"
        /\ \A j, k \in DOMAIN Tail(batch) : Tail(batch)[j] = Tail(batch)[k] => j = k
    BY <1>1, BatchParts
  <1> HIDE DEF t
  <1>3. /\ row[t] \in RowRecords
        /\ row[t].lot = items[t].lot /\ row[t].priority = items[t].priority
    <2>1. items[t] \in RowRecords /\ "provider_backoff" \in Reasons \cup {"none"}
      BY <1>1, <1>2, RowFields DEF Reasons
    <2>2. row[t] = [items[t] EXCEPT !.state = "deferred", !.reason = "provider_backoff"]
      BY <1>2
    <2> HIDE DEF row
    <2>3. QED
      BY <2>1, <2>2 DEF RowRecords
  <1>4. \A u \in DOMAIN items : u # t => row[u] = items[u]
    OBVIOUS
  <1>5. items' = row
    <2>1. items' = Deferred(t)
      BY DEF DeferItem, t
    <2>2. items = [u \in DOMAIN items |-> items[u]]
      BY <1>1 DEF LotsTyped
    <2>3. QED
      BY <1>2, <2>1, <2>2 DEF Deferred
  <1>6. DOMAIN row = DOMAIN items
    OBVIOUS
  <1> HIDE DEF row
  <1>7. ASSUME NEW u \in DOMAIN items
        PROVE  /\ row[u] \in RowRecords
               /\ row[u].lot = items[u].lot /\ row[u].priority = items[u].priority
               /\ row[u].state # "completed" => items[u].state # "completed"
    <2>1. CASE u = t
      BY <1>2, <1>3, <2>1
    <2>2. CASE u # t
      BY <1>1, <1>4, <2>2, RowFields
    <2>3. QED
      BY <2>1, <2>2
  <1>8. BatchIsOpen'
    BY <1>1, <1>2, <1>4, <1>5 DEF BatchIsOpen
  <1>9. items' = [u \in DOMAIN items |-> row[u]]
    BY <1>5 DEF row
  <1>10. QED
    BY <1>1, <1>2, <1>7, <1>8, <1>9, RowsKept

LEMMA AbandonStep ==
    ASSUME LotsInv, AbandonBatch, UNCHANGED traceVars
    PROVE  LotsInv'
  <1>1. LotsTyped /\ batch' = <<>> /\ lots' = lots /\ items' = items
    BY DEF LotsInv, AbandonBatch
  <1>2. items' = [t \in DOMAIN items |-> items[t]]
    BY <1>1 DEF LotsTyped
  <1>3. \A t \in DOMAIN items : items[t] \in RowRecords
    BY <1>1, RowFields
  <1>4. BatchIsOpen' /\ batch' \in Seq(DOMAIN items)
    BY <1>1 DEF BatchIsOpen
  <1>5. QED
    BY <1>1, <1>2, <1>3, <1>4, RowsKept

LEMMA StartBatchStep ==
    ASSUME LotsInv, StartCycleOfBatch, UNCHANGED traceVars
    PROVE  LotsInv'
  <1>1. LotsTyped /\ lots' = lots
    BY DEF LotsInv, StartCycleOfBatch
  <1>2. PICK back \in SUBSET {t \in DOMAIN items : Recoverable(t)} :
          /\ batch' \in FirstReady(back)
          /\ items' = [t \in DOMAIN items |->
                         IF t \in Range(batch') THEN Leased(items[t])
                         ELSE IF t \in back THEN Released(items[t]) ELSE items[t]]
    BY DEF StartCycleOfBatch
  <1> DEFINE R == Ready(back)
             n == Cardinality(R)
             m == IF n <= BatchSize THEN n ELSE BatchSize
             row == [t \in DOMAIN items |->
                       IF t \in Range(batch') THEN Leased(items[t])
                       ELSE IF t \in back THEN Released(items[t]) ELSE items[t]]
  <1>3. R \in SUBSET DOMAIN items /\ \A t \in R : items[t].state # "completed"
    BY DEF Ready, Recoverable
  <1>4. \A t \in back : t \in DOMAIN items /\ items[t].state # "completed"
    BY DEF Recoverable
  <1>5. m \in Nat
    <2>1. R \in SUBSET (1..Len(chain)) /\ Len(chain) \in Nat
      <3>1. DOMAIN items \subseteq 1..Len(chain) /\ Len(chain) \in Nat
        BY <1>1, ChainTyped DEF LotsTyped, LotsInv, TraceInv, TraceTyped
      <3>2. QED
        BY <1>3, <3>1
    <2>2. n \in Nat
      <3> HIDE DEF R
      <3>1. IsFiniteSet(1..Len(chain))
        BY <2>1, FS_Interval
      <3>2. IsFiniteSet(R)
        BY <2>1, <3>1, FS_Subset
      <3>3. QED
        BY <3>2, FS_CardinalityType
    <2>3. QED
      BY <2>2, LotExpansionAssumption
  <1>6. /\ batch' \in [1..m -> R]
        /\ \A k \in DOMAIN batch', t \in R :
              LeasedBefore(t, batch'[k]) <=> \E j \in 1..(k - 1) : batch'[j] = t
    BY <1>2 DEF FirstReady
  <1> HIDE DEF R, m
  <1>7. /\ batch' \in Seq(DOMAIN items) /\ DOMAIN batch' = 1..m
        /\ \A k \in 1..m : batch'[k] \in R
    BY <1>3, <1>5, <1>6
  <1>8. ASSUME NEW t \in DOMAIN items
        PROVE  ~LeasedBefore(t, t)
    <2>1. items[t].priority \in Nat /\ items[t].lot \in DOMAIN lots
      BY <1>1, RowFields
    <2>2. lots[items[t].lot].path \in Seq(DOMAIN chain) /\ t \in Int
      <3>1. lots[items[t].lot] \in LotRecords
        BY <1>1, <2>1 DEF LotsTyped
      <3>2. DOMAIN chain = 1..Len(chain) /\ Len(chain) \in Nat
        BY ChainTyped DEF LotsInv, TraceInv, TraceTyped
      <3>3. t \in DOMAIN chain
        BY <1>1 DEF LotsTyped
      <3>4. QED
        BY <3>1, <3>2, <3>3 DEF LotRecords
    <2>3. Len(lots[items[t].lot].path) \in Nat
      BY <2>2
    <2>4. QED
      BY <2>1, <2>2, <2>3 DEF LeasedBefore
  <1>9. ASSUME NEW j \in 1..m, NEW k \in 1..m, batch'[j] = batch'[k], j < k
        PROVE  FALSE
    <2>1. j \in 1..(k - 1)
      BY <1>5, <1>9
    <2>2. batch'[k] \in R /\ batch'[k] \in DOMAIN items /\ k \in DOMAIN batch'
      BY <1>3, <1>7
    <2>3. LeasedBefore(batch'[k], batch'[k])
      BY <1>6, <1>9, <2>1, <2>2
    <2>4. QED
      BY <1>8, <2>2, <2>3
  <1>10. \A j, k \in DOMAIN batch' : batch'[j] = batch'[k] => j = k
    <2>1. ASSUME NEW j \in 1..m, NEW k \in 1..m, batch'[j] = batch'[k], j # k
          PROVE  FALSE
      <3>1. j < k \/ k < j
        BY <1>5, <2>1
      <3>2. QED
        BY <1>9, <2>1, <3>1
    <2>2. QED
      BY <1>7, <2>1
  <1>11. \A t \in Range(batch') : t \in R
    BY <1>7 DEF Range
  <1>12. ASSUME NEW t \in DOMAIN items
         PROVE  /\ Leased(items[t]) \in RowRecords /\ Released(items[t]) \in RowRecords
                /\ Leased(items[t]).lot = items[t].lot /\ Released(items[t]).lot = items[t].lot
                /\ Leased(items[t]).priority = items[t].priority
                /\ Released(items[t]).priority = items[t].priority
                /\ Leased(items[t]).state = "leased"
    <2>1. items[t] \in RowRecords
      BY <1>1, RowFields
    <2>2. /\ Leased(items[t]) \in RowRecords /\ Leased(items[t]).lot = items[t].lot
          /\ Leased(items[t]).priority = items[t].priority /\ Leased(items[t]).state = "leased"
      BY <2>1 DEF Leased, RowRecords
    <2>3. /\ Released(items[t]) \in RowRecords /\ Released(items[t]).lot = items[t].lot
          /\ Released(items[t]).priority = items[t].priority
      BY <2>1 DEF Released, RowRecords
    <2>4. QED
      BY <2>2, <2>3
  <1>13. ASSUME NEW t \in DOMAIN items
         PROVE  /\ row[t] \in RowRecords
                /\ row[t].lot = items[t].lot /\ row[t].priority = items[t].priority
                /\ row[t].state # "completed" => items[t].state # "completed"
                /\ t \in Range(batch') => row[t].state = "leased"
    <2>1. CASE t \in Range(batch')
      <3>1. items[t].state # "completed" /\ row[t] = Leased(items[t])
        BY <1>3, <1>11, <2>1
      <3> HIDE DEF row
      <3>2. QED
        BY <1>12, <3>1
    <2>2. CASE t \notin Range(batch') /\ t \in back
      <3>1. items[t].state # "completed" /\ row[t] = Released(items[t])
        BY <1>4, <2>2
      <3> HIDE DEF row
      <3>2. QED
        BY <1>12, <2>2, <3>1
    <2>3. CASE t \notin Range(batch') /\ t \notin back
      <3>1. row[t] = items[t] /\ items[t] \in RowRecords
        BY <1>1, <2>3, RowFields
      <3> HIDE DEF row
      <3>2. QED
        BY <2>3, <3>1
    <2>4. QED
      BY <2>1, <2>2, <2>3
  <1>14. items' = [t \in DOMAIN items |-> row[t]] /\ \A t \in DOMAIN items : items'[t] = row[t]
    BY <1>2
  <1> HIDE DEF row
  <1>15. BatchIsOpen'
    <2>1. ASSUME NEW k \in DOMAIN batch'
          PROVE  items'[batch'[k]].state # "completed"
      <3>1. batch'[k] \in DOMAIN items /\ batch'[k] \in Range(batch')
        BY <1>3, <1>7 DEF Range
      <3>2. QED
        BY <1>13, <1>14, <3>1
    <2>2. QED
      BY <1>10, <2>1 DEF BatchIsOpen
  <1>16. QED
    BY <1>1, <1>7, <1>13, <1>14, <1>15, RowsKept

(* A trace is sealed once, when it has closed and its references differ.   *)
LEMMA SealedOnce ==
    ASSUME TraceStep
    PROVE  phase # "sealed" /\ (phase' = "sealed" => Seal /\ Sealable)
  <1>1. \A kind : Fails(kind) => phase' = "closed"
    BY DEF Fails
  <1>2. AttributionRaises => phase' = "discarded"
    BY DEF AttributionRaises
  <1>3. CASE SeedFails
    BY <1>1, <1>3 DEF SeedFails
  <1>4. CASE Verify
    BY <1>2, <1>4 DEF Verify
  <1>5. CASE VerifyOnly
    BY <1>2, <1>5 DEF VerifyOnly
  <1>6. CASE Close
    BY <1>6 DEF Close
  <1>7. CASE Seal
    BY <1>7 DEF Seal
  <1>8. ASSUME NEW e \in pending,
               NotFollowed(e) \/ LeftAtDepth(e) \/ Expand(e) \/ BackOff(e) \/ Misconfigured(e)
        PROVE  phase # "sealed" /\ phase' # "sealed"
    <2>1. phase = "walking"
      BY <1>8 DEF NotFollowed, LeftAtDepth, Expand, BackOff, Misconfigured, Followed, Walking
    <2>2. CASE Misconfigured(e) \/ AttributionRaises
      BY <1>1, <1>2, <2>1, <2>2 DEF Misconfigured
    <2>3. CASE ~(Misconfigured(e) \/ AttributionRaises)
      <3>1. phase' = phase
        BY <1>8, <2>3 DEF NotFollowed, LeftAtDepth, Expand, BackOff
      <3>2. QED
        BY <2>1, <3>1
    <2>4. QED
      BY <2>2, <2>3
  <1>9. QED
    BY <1>3, <1>4, <1>5, <1>6, <1>7, <1>8 DEF TraceStep

(* What a sealed trace has on its frontier: arrivals of all that does not  *)
(* stay, with the hop or the park that says why.                           *)
LEMMA SealedFrontier ==
    ASSUME TraceInv, EndIsClean, Seal
    PROVE  /\ IsFiniteSet(Frontier) /\ Frontier \subseteq Arrivals
           /\ Frontier # {} => stationary + Total(Frontier) = Amount
           /\ \A e \in Frontier : Hop(e, "queued") \in hops \/
                 \E p \in parked : p.edge = e
           /\ \A p \in parked : p.reason \in Reasons
  <1>1. /\ phase = "closed" /\ pending = {} /\ ValueAccounted
        /\ IsFiniteSet(Seen) /\ Seen \subseteq Arrivals
        /\ hops \subseteq [edge : Seen, state : {"queued", "expanded", "deferred"}]
        /\ parked \subseteq [edge : Seen, reason : Reasons]
    BY DEF TraceInv, TraceTyped, EndIsClean, Seal
  <1>2. Frontier \subseteq Seen
    BY DEF Frontier, Seen, QueuedHops
  <1>3. IsFiniteSet(Frontier) /\ Frontier \subseteq Arrivals
    BY <1>1, <1>2, FS_Subset
  <1>4. ASSUME Frontier # {}
        PROVE  stationary + Total(Frontier) = Amount
    <2>1. terminal \notin FailureKinds
      BY <1>2, <1>4 DEF EndIsClean
    <2>2. pending \cup Frontier = Frontier
      BY <1>1
    <2>3. Succeeds
      BY <1>1, <2>1 DEF Succeeds
    <2>4. QED
      BY <1>1, <2>2, <2>3 DEF ValueAccounted
  <1>5. \A h \in QueuedHops : h = Hop(h.edge, "queued")
    BY <1>1 DEF QueuedHops, Hop
  <1>6. ASSUME NEW e \in Frontier
        PROVE  Hop(e, "queued") \in hops \/ \E p \in parked : p.edge = e
    <2>1. CASE \E h \in QueuedHops : h.edge = e
      BY <1>5, <2>1 DEF QueuedHops
    <2>2. CASE \E p \in parked : p.edge = e
      BY <2>2
    <2>3. QED
      BY <2>1, <2>2 DEF Frontier
  <1>7. \A p \in parked : p.reason \in Reasons
    BY <1>1
  <1>8. QED
    BY <1>3, <1>4, <1>6, <1>7

LEMMA LotTyped ==
    ASSUME NEW e, e.path \in Seq(DOMAIN chain) \ {<<>>}, e.value \in 0..Amount,
           NEW ancestry \in SUBSET Named
    PROVE  /\ AttributedLot(e, ancestry) \in LotRecords
           /\ AttributedLot(e, ancestry).path = e.path
           /\ AttributedLot(e, ancestry).remaining = e.value
           /\ AttributedLot(e, ancestry).state = "queued"
  BY DEF AttributedLot, LotRecords

LEMMA LotRowTyped ==
    ASSUME NEW k \in DOMAIN lots', NEW e, e.value \in Nat,
           NEW state \in {"queued", "leased", "deferred", "completed"},
           NEW reason \in Reasons \cup {"none"}
    PROVE  /\ FrontierItem(k, e, state, reason) \in RowRecords'
           /\ FrontierItem(k, e, state, reason).lot = k
           /\ FrontierItem(k, e, state, reason).priority = e.value
           /\ FrontierItem(k, e, state, reason).state = state
  BY DEF FrontierItem, RowRecords

LEMMA LotsSealedStep ==
    ASSUME LotsInv, Seal, LotsSealed, phase' = "sealed", TraceInv', EndIsClean'
    PROVE  LotsInv'
  <1> DEFINE sealed == SetToSeq(Frontier)
             lot(e) == CHOOSE k \in DOMAIN sealed : sealed[k] = e
             arrived(t) == CHOOSE e \in Frontier : Last(e.path) = t
             reason(e) == (CHOOSE p \in parked : p.edge = e).reason
             ends == {Last(e.path) : e \in Frontier}
             born(k) == AttributedLot(sealed[k], {chain[Last(sealed[k].path)].src,
                                                  chain[Last(sealed[k].path)].dst})
             row(t) == IF Hop(arrived(t), "queued") \in hops THEN Queued(lot(arrived(t)), arrived(t))
                       ELSE FrontierItem(lot(arrived(t)), arrived(t), "deferred", reason(arrived(t)))
  <1>1. /\ TraceInv /\ EndIsClean /\ NoneUntilSealed /\ chain \in Histories
        /\ phase = "closed" /\ chain' = chain /\ stationary' = stationary
    BY DEF LotsInv, Seal, inputs, TraceInv, TraceTyped
  <1>2. /\ lots' = [k \in DOMAIN sealed |-> born(k)]
        /\ items' = [t \in ends |-> row(t)]
        /\ batch' = batch
    BY DEF LotsSealed
  <1>3. batch' = <<>> /\ DOMAIN batch' = {}
    BY <1>1, <1>2 DEF NoneUntilSealed
  <1>4. /\ IsFiniteSet(Frontier) /\ Frontier \subseteq Arrivals
        /\ Frontier # {} => stationary + Total(Frontier) = Amount
        /\ \A e \in Frontier : Hop(e, "queued") \in hops \/ \E p \in parked : p.edge = e
        /\ \A p \in parked : p.reason \in Reasons
    BY <1>1, SealedFrontier
  <1>5. /\ sealed \in Seq(Frontier)
        /\ \A j, k \in 1..Len(sealed) : sealed[j] = sealed[k] => j = k
        /\ \A e \in Frontier : \E k \in 1..Len(sealed) : sealed[k] = e
    BY <1>4, SeqOfSet
  <1> HIDE DEF sealed
  <1>6. /\ Len(sealed) \in Nat /\ DOMAIN sealed = 1..Len(sealed)
        /\ \A k \in DOMAIN sealed : sealed[k] \in Frontier
    BY <1>5
  <1>7. \A e \in Frontier : lot(e) \in DOMAIN sealed /\ sealed[lot(e)] = e
    BY <1>5, <1>6
  <1>8. ASSUME NEW k \in DOMAIN sealed
        PROVE  /\ born(k) \in LotRecords /\ born(k).path = sealed[k].path
               /\ born(k).remaining = sealed[k].value /\ born(k).state = "queued"
               /\ sealed[k].value \in Nat
    <2> DEFINE e == sealed[k] t == Last(e.path)
    <2>1. e \in Arrivals
      BY <1>4, <1>6
    <2> HIDE DEF e
    <2>2. /\ e.path \in Seq(DOMAIN chain) \ {<<>>} /\ e.value \in 0..Amount /\ e.value \in Nat
          /\ t \in DOMAIN chain
      BY <1>1, <2>1, ArrivalFields
    <2>3. {chain[t].src, chain[t].dst} \in SUBSET Named
      BY <2>2 DEF Named
    <2> DEFINE ancestry == {chain[t].src, chain[t].dst}
    <2>4. born(k) = AttributedLot(e, ancestry)
      BY DEF e
    <2>5. ancestry \in SUBSET Named
      BY <2>3
    <2> HIDE DEF ancestry, born
    <2>6. /\ AttributedLot(e, ancestry) \in LotRecords
          /\ AttributedLot(e, ancestry).path = e.path
          /\ AttributedLot(e, ancestry).remaining = e.value
          /\ AttributedLot(e, ancestry).state = "queued"
      BY <2>2, <2>5, LotTyped
    <2>7. QED
      BY <2>2, <2>4, <2>6 DEF e
  <1>9. ASSUME NEW t \in ends
        PROVE  arrived(t) \in Frontier /\ Last(arrived(t).path) = t
    BY <1>9
  <1> HIDE DEF born, lot, arrived
  <1>10. /\ DOMAIN lots' = DOMAIN sealed /\ Len(lots') = Len(sealed)
         /\ \A k \in DOMAIN sealed : lots'[k] = born(k)
         /\ lots' \in Seq(LotRecords)
    <2>1. lots' \in [1..Len(sealed) -> LotRecords]
      BY <1>2, <1>6, <1>8
    <2>2. lots' \in Seq(LotRecords) /\ Len(lots') = Len(sealed)
      BY <1>6, <2>1
    <2>3. QED
      BY <1>2, <2>2
  <1>11. ASSUME NEW t \in ends
         PROVE  /\ row(t) \in RowRecords' /\ row(t).lot = lot(arrived(t))
                /\ row(t).priority = arrived(t).value /\ row(t).state \in {"queued", "deferred"}
    <2> DEFINE e == arrived(t)
    <2>1. e \in Frontier
      BY <1>9
    <2>2. lot(e) \in DOMAIN lots' /\ e \in Arrivals
      BY <1>4, <1>7, <1>10, <2>1
    <2>3. e.value \in Nat
      BY <1>1, <2>2, ArrivalFields
    <2>4. CASE Hop(e, "queued") \in hops
      <3>1. row(t) = FrontierItem(lot(e), e, "queued", "none")
        BY <2>4 DEF Queued
      <3> HIDE DEF row, e
      <3>2. QED
        BY <2>2, <2>3, <3>1, LotRowTyped DEF e
    <2>5. CASE Hop(e, "queued") \notin hops
      <3>1. reason(e) \in Reasons
        <4> HIDE DEF e
        <4>1. QED
          BY <1>4, <2>1, <2>5
      <3>2. row(t) = FrontierItem(lot(e), e, "deferred", reason(e))
        BY <2>5
      <3> HIDE DEF row, e, reason
      <3>3. QED
        BY <2>2, <2>3, <3>1, <3>2, LotRowTyped DEF e
    <2>6. QED
      BY <2>4, <2>5
  <1>12. DOMAIN items' = ends /\ \A t \in ends : items'[t] = row(t)
    BY <1>2
  <1>13. items' \in [ends -> RowRecords']
    <2> HIDE DEF row, ends
    <2>1. QED
      BY <1>2, <1>11
  <1>14. ends \subseteq DOMAIN chain
    BY <1>1, <1>4, ArrivalFields
  <1> HIDE DEF row
  <1>15. LotsTyped'
    <2>1. LotRecords' = LotRecords
      BY <1>1 DEF LotRecords, Named
    <2>2. QED
      BY <1>1, <1>3, <1>10, <1>12, <1>13, <1>14, <2>1 DEF LotsTyped
  <1>16. NoneUntilSealed' /\ BatchIsOpen'
    BY <1>3 DEF NoneUntilSealed, BatchIsOpen
  <1>17. Remaining(lots', DOMAIN lots') = Total(Frontier)
    <2> DEFINE held == lots' n == Len(sealed) a == 0
    <2>1. n \in Nat /\ a \in Nat
      BY <1>6
    <2>2. Holds(held, a, n, sealed)
      BY <1>6, <1>8, <1>10 DEF Holds
    <2>3. EachOnce(sealed, n)
      BY <1>5 DEF EachOnce
    <2>4. Following(a, n) = DOMAIN lots'
      BY <1>6, <1>10 DEF Following
    <2> HIDE DEF held, n, a
    <2>5. Remaining(held, Following(a, n)) = Total(UpTo(sealed, n))
      BY <2>1, <2>2, <2>3, RemainingIsTotal
    <2>6. UpTo(sealed, n) = Frontier
      BY <1>5, <1>6 DEF UpTo, n
    <2>7. QED
      BY <2>4, <2>5, <2>6 DEF held
  <1>18. ASSUME NEW t \in ends
         PROVE  LET own == lots'[items'[t].lot] IN
                own.state = "queued" /\ own.remaining = items'[t].priority /\ Last(own.path) = t
    <2> DEFINE e == arrived(t) k == lot(e)
    <2>1. e \in Frontier /\ Last(e.path) = t
      BY <1>9
    <2>2. items'[t].lot = k /\ items'[t].priority = e.value
      BY <1>11, <1>12
    <2> HIDE DEF e
    <2>3. k \in DOMAIN sealed /\ sealed[k] = e
      BY <1>7, <2>1
    <2> HIDE DEF k
    <2>4. lots'[k].path = e.path /\ lots'[k].remaining = e.value /\ lots'[k].state = "queued"
      BY <1>8, <1>10, <2>3
    <2>5. QED
      BY <2>1, <2>2, <2>4
  <1>19. ASSUME NEW t \in ends, NEW u \in ends, items'[t].lot = items'[u].lot
         PROVE  t = u
    BY <1>18, <1>19
  <1>20. ValueSpentOnce'
    <2>1. ValueAccounted'
      BY DEF TraceInv
    <2>2. ends # {} => stationary' + Remaining(lots', DOMAIN lots') = Amount
      BY <1>1, <1>4, <1>17
    <2> HIDE DEF ends
    <2>3. QED
      BY <1>12, <1>18, <1>19, <2>1, <2>2 DEF ValueSpentOnce
  <1>21. QED
    BY <1>15, <1>16, <1>20 DEF LotsInv

LEMMA LotsTraceStep ==
    ASSUME LotsInv, TraceStep,
           IF phase' = "sealed" /\ engine = "TRON" /\ chain \in WorkedHistories
           THEN LotsSealed ELSE UNCHANGED <<lots, items, batch>>
    PROVE  LotsInv'
  <1>1. TraceInv /\ EndIsClean /\ NoneUntilSealed
    BY DEF LotsInv
  <1>2. TraceInv' /\ EndIsClean'
    BY <1>1, TraceStepKeeps, EndStep
  <1>3. phase # "sealed" /\ (phase' = "sealed" => Seal)
    BY SealedOnce
  <1>4. CASE phase' = "sealed" /\ LotsSealed
    BY <1>2, <1>3, <1>4, LotsSealedStep
  <1>5. CASE UNCHANGED <<lots, items, batch>>
    <2>1. lots' = <<>> /\ items' = <<>> /\ batch' = <<>>
      BY <1>1, <1>3, <1>5 DEF NoneUntilSealed
    <2>2. DOMAIN items' = {} /\ DOMAIN batch' = {}
      BY <2>1
    <2>3. LotsTyped'
      BY <2>1, <2>2 DEF LotsTyped
    <2>4. NoneUntilSealed' /\ BatchIsOpen'
      BY <2>1, <2>2 DEF NoneUntilSealed, BatchIsOpen
    <2>5. ValueSpentOnce'
      BY <1>2, <2>2 DEF ValueSpentOnce, TraceInv
    <2>6. QED
      BY <1>2, <2>3, <2>4, <2>5 DEF LotsInv
  <1>6. QED
    BY <1>4, <1>5

-----------------------------------------------------------------------------
(* The edges of what leaves a lot: each over a transfer of its own, and    *)
(* together with what stays as much as the lot holds.                      *)
Positive(E) == {e \in E : e.value > 0}

LEMMA ChildrenTyped ==
    ASSUME chain \in Histories, NEW lot \in LotRecords,
           ~Raises(OutgoingSince(lot), lot.remaining),
           NEW E, E = ChildEdges(lot)
    PROVE  /\ IsFiniteSet(E)
           /\ \A e, f \in E : e.order = f.order => e = f
           /\ \A e \in E : /\ e.value \in Nat /\ e.value <= lot.remaining /\ e.value \in 0..Amount
                           /\ e.order \in Nat
                           /\ e.path \in Seq(DOMAIN chain) \ {<<>>} /\ Last(e.path) \in DOMAIN chain
           /\ \A e, f \in E : Last(e.path) = Last(f.path) => e = f
           /\ Stationary(lot) \in 0..lot.remaining /\ Total(E) \in Nat
           /\ Total(E) + Stationary(lot) = lot.remaining
           /\ IsFiniteSet(Positive(E)) /\ Total(Positive(E)) = Total(E)
  <1> DEFINE out == OutgoingSince(lot) path == lot.path amount == lot.remaining
  <1>1. /\ path \in Seq(DOMAIN chain) /\ amount \in 0..Amount /\ amount \in Nat /\ Amount \in Nat
    BY LiveTraceAssumption DEF LotRecords
  <1>2. /\ out \in Seq(DOMAIN chain)
        /\ \A j, k \in 1..Len(out) : out[j] = out[k] => j = k
    BY OutgoingSinceTyped
  <1>3. E = EdgesOver(path, out, amount) /\ Stationary(lot) = Left(out, amount)
    BY DEF ChildEdges, Stationary
  <1>4. ~Raises(out, amount)
    OBVIOUS
  <1> HIDE DEF out, path, amount
  <1>5. /\ IsFiniteSet(EdgesOver(path, out, amount))
        /\ Left(out, amount) \in Nat
        /\ Total(EdgesOver(path, out, amount)) + Left(out, amount) = amount
        /\ \A e \in EdgesOver(path, out, amount) :
              /\ e.value \in 0..amount /\ e.order \in Nat
              /\ \E k \in 1..Len(out) : e.path = Append(path, out[k])
        /\ \A e, f \in EdgesOver(path, out, amount) :
              (e.path = f.path => e = f) /\ (e.order = f.order => e = f)
    BY <1>1, <1>2, <1>4, EdgesOverTyped
  <1>6. ASSUME NEW e \in E
        PROVE  /\ e.value \in Nat /\ e.value <= amount /\ e.value \in 0..Amount /\ e.order \in Nat
               /\ e.path = Append(path, Last(e.path)) /\ Last(e.path) \in DOMAIN chain
               /\ e.path \in Seq(DOMAIN chain) \ {<<>>}
    <2>1. e.value \in 0..amount /\ e.order \in Nat
      BY <1>3, <1>5
    <2>2. PICK k \in 1..Len(out) : e.path = Append(path, out[k])
      BY <1>3, <1>5
    <2>3. PICK t \in DOMAIN chain : t = out[k]
      BY <1>2
    <2>4. Append(path, t) \in Seq(DOMAIN chain) \ {<<>>} /\ Last(Append(path, t)) = t
      BY <1>1, PathAppended
    <2>5. QED
      BY <1>1, <2>1, <2>2, <2>3, <2>4
  <1>7. \A e, f \in E : Last(e.path) = Last(f.path) => e = f
    <2>1. ASSUME NEW e \in E, NEW f \in E, Last(e.path) = Last(f.path)
          PROVE  e = f
      <3>1. e.path = f.path
        BY <1>6, <2>1
      <3>2. QED
        BY <1>3, <1>5, <3>1
    <2>2. QED
      BY <2>1
  <1>8. IsFiniteSet(E) /\ \A e \in E : e.value \in Nat
    BY <1>3, <1>5, <1>6
  <1>9. Total(E) \in Nat
    BY <1>8, TotalIsNatural
  <1>10. IsFiniteSet(Positive(E)) /\ Total(Positive(E)) = Total(E)
    BY <1>8, TotalOfPositive DEF Positive
  <1>11. PICK t \in Nat, s \in Nat : t = Total(E) /\ s = Left(out, amount)
    BY <1>3, <1>5, <1>9
  <1>12. t + s = amount
    BY <1>3, <1>5, <1>11
  <1>13. s \in 0..amount
    BY <1>11, <1>12, <1>1
  <1>14. QED
    BY <1>3, <1>5, <1>6, <1>7, <1>8, <1>9, <1>10, <1>11, <1>13 DEF amount, out

(* A lot is spent, and lots of its children added: what is held changes    *)
(* by what stays.                                                          *)
LEMMA RemainingOfExpansion ==
    ASSUME NEW old, NEW now, NEW n \in Nat, NEW m \in Nat, NEW id \in 1..n,
           NEW rest \in Nat,
           \A k \in 1..n : old[k].remaining \in Nat,
           \A k \in 1..n : k # id => now[k].remaining = old[k].remaining,
           now[id].remaining = rest,
           \A k \in Following(n, m) : now[k].remaining \in Int,
           Remaining(now, Following(n, m)) + rest = old[id].remaining
    PROVE  Remaining(now, 1..n \cup Following(n, m)) = Remaining(old, 1..n)
  <1> DEFINE others == (1..n) \ {id} born == (n + 1)..(n + m)
  <1>1. /\ 1..n \cup born = (others \cup {id}) \cup born /\ (others \cup {id}) \cap born = {}
        /\ 1..n = others \cup {id} /\ others \cap {id} = {}
    OBVIOUS
  <1>2. IsFiniteSet(others) /\ IsFiniteSet(born) /\ IsFiniteSet({id}) /\ IsFiniteSet(others \cup {id})
    <2>1. IsFiniteSet(1..n)
      <3>1. 1 \in Int /\ n \in Int
        OBVIOUS
      <3>2. QED
        BY <3>1, FS_Interval
    <2>2. IsFiniteSet(born)
      <3>1. n + 1 \in Int /\ n + m \in Int
        OBVIOUS
      <3>2. QED
        BY <3>1, FS_Interval
    <2>3. others \in SUBSET (1..n)
      OBVIOUS
    <2>4. IsFiniteSet(others)
      BY <2>1, <2>3, FS_Subset
    <2>5. QED
      BY <1>1, <2>1, <2>2, <2>4, FS_Singleton
  <1>3. /\ \A k \in others : old[k].remaining \in Int /\ now[k].remaining = old[k].remaining
        /\ old[id].remaining \in Int /\ now[id].remaining \in Int
        /\ \A k \in others \cup {id} : old[k].remaining \in Int /\ now[k].remaining \in Int
    OBVIOUS
  <1>4. born = Following(n, m) /\ \A i \in born : now[i].remaining \in Int
    BY DEF Following
  <1> HIDE DEF others, born
  <1>5. Remaining(now, others) = Remaining(old, others)
    BY <1>2, <1>3, RemainingSame
  <1>6. /\ Remaining(old, others) \in Int
        /\ Remaining(old, others \cup {id}) = Remaining(old, others) + Remaining(old, {id})
    BY <1>1, <1>2, <1>3, RemainingOfUnion
  <1>7. Remaining(now, others \cup {id}) = Remaining(now, others) + Remaining(now, {id})
    BY <1>1, <1>2, <1>3, RemainingOfUnion
  <1>8. \A k \in (others \cup {id}) \cup born : now[k].remaining \in Int
    BY <1>3, <1>4
  <1>9. /\ Remaining(now, born) \in Int
        /\ Remaining(now, (others \cup {id}) \cup born)
             = Remaining(now, others \cup {id}) + Remaining(now, born)
    BY <1>1, <1>2, <1>8, RemainingOfUnion
  <1>10. Remaining(old, {id}) = old[id].remaining
    BY <1>3, RemainingOfOne
  <1>11. Remaining(now, {id}) = rest
    <2>1. Remaining(now, {id}) = now[id].remaining
      BY <1>3, RemainingOfOne
    <2>2. QED
      BY <2>1
  <1>12. Remaining(now, born) + rest = old[id].remaining
    BY <1>4
  <1>13. PICK r \in Int, t \in Int : r = Remaining(old, others) /\ t = Remaining(now, born)
    BY <1>6, <1>9
  <1>14. Remaining(now, (others \cup {id}) \cup born) = (r + rest) + t
    BY <1>5, <1>7, <1>9, <1>11, <1>13
  <1>15. t + rest = old[id].remaining
    BY <1>12, <1>13
  <1>16. Remaining(old, others \cup {id}) = r + (t + rest)
    BY <1>6, <1>10, <1>13, <1>15
  <1>17. Remaining(now, (others \cup {id}) \cup born) = Remaining(old, others \cup {id})
    BY <1>13, <1>14, <1>16
  <1>18. QED
    BY <1>1, <1>4, <1>17

LEMMA LotFields ==
    ASSUME LotsTyped, NEW k \in DOMAIN lots
    PROVE  /\ lots[k] \in LotRecords
           /\ lots[k].path \in Seq(DOMAIN chain) \ {<<>>}
           /\ lots[k].remaining \in 0..Amount /\ lots[k].remaining \in Nat
           /\ lots[k].ancestry \in SUBSET Named
  <1>1. lots[k] \in LotRecords /\ Amount \in Nat
    BY LiveTraceAssumption DEF LotsTyped
  <1>2. QED
    BY <1>1 DEF LotRecords

LEMMA SpentTyped ==
    ASSUME NEW lot \in LotRecords, NEW rest \in 0..Amount
    PROVE  Spent(lot, rest) \in LotRecords /\ Spent(lot, rest).remaining = rest
  BY DEF Spent, LotRecords

(* Where the lots of an expansion are.                                     *)
LEMMA Joined ==
    ASSUME NEW S, NEW n \in Nat, NEW m \in Nat, NEW f \in [1..n -> S], NEW g \in [1..m -> S]
    PROVE  /\ f \o g \in Seq(S) /\ Len(f \o g) = n + m /\ DOMAIN (f \o g) = 1..(n + m)
           /\ \A k \in 1..n : (f \o g)[k] = f[k]
           /\ \A k \in 1..m : (f \o g)[n + k] = g[k]
  <1>1. f \in Seq(S) /\ g \in Seq(S) /\ Len(f) = n /\ Len(g) = m
    OBVIOUS
  <1>2. QED
    BY <1>1

LEMMA ExpandItemStep ==
    ASSUME LotsInv, ExpandItem, UNCHANGED traceVars
    PROVE  LotsInv'
  <1> DEFINE item == Head(batch)
             id == items[item].lot
             lot == lots[id]
             E == ChildEdges(lot)
             rest == Stationary(lot)
             plan == Schedule(E, lot.remaining, lot.ancestry, FALSE, AddressBudget)
             children == SetToSeq({e \in E : e.value > 0})
             ends == {Last(e.path) : e \in Range(children)}
             child == [t \in ends |-> CHOOSE k \in DOMAIN children : Last(children[k].path) = t]
             born(k) == AttributedLot(children[k], lot.ancestry \cup {Destination(children[k])})
             row(k) == IF children[k] \in plan.follow THEN Queued(Len(lots) + k, children[k])
                       ELSE FrontierItem(Len(lots) + k, children[k], "deferred",
                                         (CHOOSE p \in plan.park : p.edge = children[k]).reason)
             written == [t \in DOMAIN items \cup DOMAIN child |->
                           IF t \in DOMAIN child THEN Upsert(t, row(child[t])) ELSE items[t]]
             left == [lots EXCEPT ![id] = Spent(lot, rest)]
             added == [k \in DOMAIN children |-> born(k)]
             n == Len(lots)
             m == Len(children)
  <1>1. /\ TraceInv /\ EndIsClean /\ LotsTyped /\ NoneUntilSealed /\ BatchIsOpen /\ ValueSpentOnce
        /\ chain \in Histories
    BY DEF LotsInv, TraceInv, TraceTyped
  <1>2. /\ chain' = chain /\ phase' = phase /\ stationary' = stationary
        /\ TraceInv' /\ EndIsClean'
    BY <1>1, StutterStep DEF traceVars, EndIsClean, Seen
  <1>3. /\ batch # <<>> /\ items[item].state = "leased"
        /\ ~Raises(OutgoingSince(lot), lot.remaining)
        /\ lots' = left \o added
        /\ items' = [written EXCEPT ![item].state = "completed"]
        /\ batch' = Tail(batch)
    BY DEF ExpandItem
  <1>4. /\ item \in DOMAIN items /\ Tail(batch) \in Seq(DOMAIN items)
        /\ \A k \in DOMAIN Tail(batch) :
              /\ Tail(batch)[k] \in DOMAIN items /\ Tail(batch)[k] # item
              /\ items[Tail(batch)[k]].state # "completed"
        /\ \A j, k \in DOMAIN Tail(batch) : Tail(batch)[j] = Tail(batch)[k] => j = k
    BY <1>1, <1>3, BatchParts
  <1> HIDE DEF item
  <1>5. id \in DOMAIN lots /\ lots \in Seq(LotRecords) /\ n \in Nat /\ DOMAIN lots = 1..n
    BY <1>1, <1>4, RowFields DEF LotsTyped
  <1> HIDE DEF id
  <1>6. /\ lot \in LotRecords /\ lot.remaining \in 0..Amount /\ lot.remaining \in Nat
        /\ lot.ancestry \in SUBSET Named
    BY <1>1, <1>5, LotFields
  <1> HIDE DEF lot
  <1>7. phase = "sealed"
    BY <1>1, <1>3 DEF NoneUntilSealed
  <1>8. /\ IsFiniteSet(E)
        /\ \A e, f \in E : e.order = f.order => e = f
        /\ \A e \in E : /\ e.value \in Nat /\ e.value \in 0..Amount /\ e.order \in Nat
                        /\ e.path \in Seq(DOMAIN chain) \ {<<>>} /\ Last(e.path) \in DOMAIN chain
        /\ \A e, f \in E : Last(e.path) = Last(f.path) => e = f
        /\ rest \in 0..lot.remaining /\ Total(E) + rest = lot.remaining
        /\ IsFiniteSet(Positive(E)) /\ Total(Positive(E)) = Total(E)
    BY <1>1, <1>3, <1>6, ChildrenTyped
  <1> HIDE DEF E, rest
  <1>9. rest \in 0..Amount /\ rest \in Nat
    BY <1>6, <1>8, LiveTraceAssumption
  <1>10. /\ children \in Seq(Positive(E))
         /\ \A j, k \in 1..m : children[j] = children[k] => j = k
         /\ \A e \in Positive(E) : \E k \in 1..m : children[k] = e
    BY <1>8, SeqOfSet DEF Positive
  <1> HIDE DEF children
  <1>11. /\ m \in Nat /\ DOMAIN children = 1..m
         /\ \A k \in 1..m : children[k] \in Positive(E) /\ children[k] \in E
    BY <1>10 DEF Positive
  <1>12. UpTo(children, m) = Positive(E)
    <2> HIDE DEF m
    <2>1. QED
      BY <1>10, <1>11 DEF UpTo
  <1> HIDE DEF n, m
  <1>13. ASSUME NEW k \in 1..m
         PROVE  /\ born(k) \in LotRecords /\ born(k).path = children[k].path
                /\ born(k).remaining = children[k].value /\ born(k).state = "queued"
    <2> DEFINE e == children[k] ancestry == lot.ancestry \cup {Destination(e)}
    <2>1. e \in E
      BY <1>11
    <2>2. Last(e.path) \in DOMAIN chain /\ e.path \in Seq(DOMAIN chain) \ {<<>>} /\ e.value \in 0..Amount
      BY <1>8, <2>1
    <2>3. Destination(e) \in Named
      BY <2>2 DEF Destination, Named
    <2>4. ancestry \in SUBSET Named
      BY <1>6, <2>3
    <2>5. born(k) = AttributedLot(e, ancestry)
      OBVIOUS
    <2> HIDE DEF e, ancestry, born
    <2>6. /\ AttributedLot(e, ancestry) \in LotRecords
          /\ AttributedLot(e, ancestry).path = e.path
          /\ AttributedLot(e, ancestry).remaining = e.value
          /\ AttributedLot(e, ancestry).state = "queued"
      BY <2>2, <2>4, LotTyped
    <2>7. QED
      BY <2>5, <2>6 DEF e
  <1> HIDE DEF born
  <1>14. /\ lots' \in Seq(LotRecords) /\ Len(lots') = n + m /\ DOMAIN lots' = 1..(n + m)
         /\ \A k \in 1..n : k # id => lots'[k] = lots[k]
         /\ lots'[id].remaining = rest
         /\ \A k \in 1..m : lots'[n + k] = born(k)
    <2>1. Spent(lot, rest) \in LotRecords /\ Spent(lot, rest).remaining = rest
      BY <1>6, <1>9, SpentTyped
    <2>2. lots \in [1..n -> LotRecords]
      BY <1>5 DEF n
    <2>3. /\ left \in [1..n -> LotRecords] /\ left[id] = Spent(lot, rest)
          /\ \A k \in 1..n : k # id => left[k] = lots[k]
      BY <1>5, <2>1, <2>2
    <2>4. added \in [1..m -> LotRecords] /\ \A k \in 1..m : added[k] = born(k)
      BY <1>11, <1>13
    <2> HIDE DEF left, added
    <2>5. /\ left \o added \in Seq(LotRecords) /\ Len(left \o added) = n + m
          /\ DOMAIN (left \o added) = 1..(n + m)
          /\ \A k \in 1..n : (left \o added)[k] = left[k]
          /\ \A k \in 1..m : (left \o added)[n + k] = added[k]
      BY <1>5, <1>11, <2>3, <2>4, Joined
    <2>6. QED
      BY <1>3, <1>5, <2>1, <2>3, <2>4, <2>5
  <1> HIDE DEF left, added
  <1>15. Remaining(lots', DOMAIN lots') = Remaining(lots, DOMAIN lots)
    <2> DEFINE now == lots'
    <2>1. \A k \in 1..m : children[k].value \in Nat /\ now[n + k].remaining = children[k].value
      BY <1>8, <1>11, <1>13, <1>14
    <2>2. /\ \A k \in 1..n : lots[k].remaining \in Nat
          /\ \A k \in 1..n : k # id => now[k].remaining = lots[k].remaining
          /\ now[id].remaining = rest /\ id \in 1..n
      BY <1>1, <1>5, <1>14, LotFields
    <2>3. \A k \in Following(n, m) : now[k].remaining \in Int
      <3>1. ASSUME NEW i \in Following(n, m)
            PROVE  now[i].remaining \in Int
        <4>1. i - n \in 1..m /\ n + (i - n) = i
          BY <1>5, <1>11 DEF Following
        <4>2. PICK k \in 1..m : n + k = i
          BY <4>1
        <4> HIDE DEF now
        <4>3. QED
          BY <2>1, <4>2
      <3>2. QED
        BY <3>1
    <2> HIDE DEF now
    <2>4. Remaining(now, Following(n, m)) = Total(UpTo(children, m))
      <3>1. n \in Nat /\ m \in Nat
        BY <1>5, <1>11
      <3>2. Holds(now, n, m, children) /\ EachOnce(children, m)
        BY <1>10, <2>1 DEF Holds, EachOnce
      <3>3. QED
        BY <3>1, <3>2, RemainingIsTotal
    <2>5. Remaining(now, Following(n, m)) + rest = lots[id].remaining
      BY <1>8, <1>12, <2>4 DEF lot
    <2>6. Remaining(now, 1..n \cup Following(n, m)) = Remaining(lots, 1..n)
      <3>1. n \in Nat /\ m \in Nat /\ rest \in Nat
        BY <1>5, <1>9, <1>11
      <3> HIDE DEF row, written, child, ends
      <3>2. QED
        BY <2>2, <2>3, <2>5, <3>1, RemainingOfExpansion
    <2>7. 1..(n + m) = 1..n \cup Following(n, m)
      BY <1>5, <1>11 DEF Following
    <2>8. QED
      BY <1>5, <1>14, <2>6, <2>7 DEF now
  <1>16. ASSUME NEW t \in ends
         PROVE  /\ child[t] \in 1..m /\ Last(children[child[t]].path) = t /\ t \in DOMAIN chain
    <2>1. \E k \in DOMAIN children : Last(children[k].path) = t
      BY DEF Range
    <2>2. child[t] \in DOMAIN children /\ Last(children[child[t]].path) = t
      BY <2>1
    <2> HIDE DEF child
    <2>3. QED
      BY <1>8, <1>11, <2>2
  <1>16a. DOMAIN child = ends
    OBVIOUS
  <1> HIDE DEF ends, child
  <1>17. ASSUME NEW k \in 1..m
         PROVE  /\ row(k) \in RowRecords' /\ row(k).lot = n + k
                /\ row(k).priority = children[k].value
                /\ row(k).state \in {"queued", "deferred"}
    <2> DEFINE e == children[k] j == Len(lots) + k visited == lot.ancestry windowed == FALSE
               why == (CHOOSE p \in plan.park : p.edge = e).reason
    <2>1. j = n + k /\ j \in DOMAIN lots' /\ e \in E
      BY <1>5, <1>11, <1>14 DEF n
    <2>2. e.value \in Nat
      BY <1>8, <2>1
    <2>3. /\ {p.edge : p \in plan.park} = E \ plan.follow
          /\ \A p \in plan.park : p.reason \in Reasons
      <3>1. plan = Schedule(E, lot.remaining, visited, windowed, AddressBudget)
        OBVIOUS
      <3>2. AddressBudget \in Nat
        BY LiveTraceAssumption
      <3> HIDE DEF plan, visited, windowed
      <3>3. \A f \in E : f.value \in Nat /\ f.order \in Nat
        BY <1>8
      <3>4. QED
        BY <1>8, <3>1, <3>2, <3>3, Scheduled
    <2>4. CASE e \in plan.follow
      <3>1. row(k) = FrontierItem(j, e, "queued", "none")
        BY <2>4 DEF Queued
      <3> HIDE DEF row, e, j
      <3>2. QED
        BY <2>1, <2>2, <3>1, LotRowTyped DEF e
    <2>5. CASE e \notin plan.follow
      <3>1. why \in Reasons
        <4> HIDE DEF plan, e
        <4>1. \E p \in plan.park : p.edge = e
          BY <2>1, <2>3, <2>5
        <4>2. QED
          BY <2>3, <4>1
      <3>2. row(k) = FrontierItem(j, e, "deferred", why)
        BY <2>5
      <3> HIDE DEF row, e, j, why
      <3>3. QED
        BY <2>1, <2>2, <3>1, <3>2, LotRowTyped DEF e
    <2>6. QED
      BY <2>4, <2>5
  <1> HIDE DEF row, plan
  <1>18. ASSUME NEW t \in ends
         PROVE  /\ written[t] \in RowRecords'
                /\ written[t].lot = n + child[t]
                /\ written[t].priority = children[child[t]].value
                /\ written[t].state \in {"queued", "deferred"}
    <2>1. written[t] = row(child[t])
      BY <1>16a DEF Upsert
    <2> HIDE DEF written
    <2>2. QED
      BY <1>16, <1>17, <2>1
  <1>19. ASSUME NEW t \in DOMAIN items, t \notin ends
         PROVE  /\ written[t] \in RowRecords' /\ written[t] = items[t]
                /\ written[t].lot = items[t].lot /\ items[t].lot \in 1..n
    <2>1. written[t] = items[t]
      BY <1>19, <1>16a
    <2>2. items[t] \in RowRecords /\ items[t].lot \in DOMAIN lots
      BY <1>1, RowFields
    <2>3. DOMAIN lots \subseteq DOMAIN lots'
      BY <1>5, <1>11, <1>14
    <2>4. items[t] \in RowRecords'
      BY <2>2, <2>3 DEF RowRecords
    <2> HIDE DEF written
    <2>5. QED
      BY <1>5, <2>1, <2>2, <2>4
  <1>20. written = [t \in DOMAIN items \cup ends |-> written[t]]
         /\ DOMAIN written = DOMAIN items \cup ends
    BY <1>16a
  <1> HIDE DEF written
  <1>21. \A t \in DOMAIN items \cup ends : written[t] \in RowRecords'
    BY <1>18, <1>19
  <1>22. /\ DOMAIN items' = DOMAIN items \cup ends
         /\ \A t \in DOMAIN items \cup ends : t # item => items'[t] = written[t]
         /\ items'[item] = [written[item] EXCEPT !.state = "completed"]
         /\ items' = [t \in DOMAIN items \cup ends |-> items'[t]]
    BY <1>3, <1>4, <1>20
  <1>23. /\ items'[item] \in RowRecords' /\ items'[item].lot = written[item].lot
         /\ items'[item].state = "completed"
    <2>1. written[item] \in RowRecords'
      BY <1>4, <1>21
    <2>2. QED
      BY <1>22, <2>1 DEF RowRecords
  <1>24. \A t \in DOMAIN items \cup ends : items'[t] \in RowRecords' /\ items'[t].lot = written[t].lot
    BY <1>21, <1>22, <1>23
  <1>25. LotsTyped'
    <2>1. LotRecords' = LotRecords
      BY <1>2 DEF LotRecords, Named
    <2>2. DOMAIN items' \subseteq DOMAIN chain
      BY <1>1, <1>16, <1>22 DEF LotsTyped
    <2>3. items' \in [DOMAIN items' -> RowRecords']
      BY <1>22, <1>24
    <2>4. batch' \in Seq(DOMAIN items')
      BY <1>3, <1>4, <1>22
    <2>5. QED
      BY <1>2, <1>14, <2>1, <2>2, <2>3, <2>4 DEF LotsTyped
  <1>26. NoneUntilSealed'
    BY <1>2, <1>7 DEF NoneUntilSealed
  <1>27. BatchIsOpen'
    <2>1. ASSUME NEW k \in DOMAIN Tail(batch)
          PROVE  items'[Tail(batch)[k]].state # "completed"
      <3> DEFINE t == Tail(batch)[k]
      <3>1. t \in DOMAIN items /\ t # item /\ items[t].state # "completed"
        BY <1>4
      <3> HIDE DEF t
      <3>2. items'[t] = written[t]
        BY <1>22, <3>1
      <3>3. CASE t \in ends
        BY <1>18, <3>2, <3>3 DEF t
      <3>4. CASE t \notin ends
        BY <1>19, <3>1, <3>2, <3>4 DEF t
      <3>5. QED
        BY <3>3, <3>4
    <2>2. QED
      BY <1>3, <1>4, <2>1 DEF BatchIsOpen
  <1>28. ASSUME NEW t \in DOMAIN items', items'[t].state # "completed"
         PROVE  LET own == lots'[items'[t].lot] IN
                own.state = "queued" /\ own.remaining = items'[t].priority /\ Last(own.path) = t
    <2>1. t # item /\ t \in DOMAIN items \cup ends /\ items'[t] = written[t]
      BY <1>22, <1>23, <1>28
    <2>2. CASE t \in ends
      <3>1. child[t] \in 1..m /\ Last(children[child[t]].path) = t
        BY <1>16, <2>2
      <3>2. items'[t].lot = n + child[t] /\ items'[t].priority = children[child[t]].value
        BY <1>18, <2>1, <2>2
      <3>3. lots'[n + child[t]] = born(child[t])
        BY <1>14, <3>1
      <3>4. /\ born(child[t]).path = children[child[t]].path
            /\ born(child[t]).remaining = children[child[t]].value
            /\ born(child[t]).state = "queued"
        BY <1>13, <3>1
      <3>5. QED
        BY <3>1, <3>2, <3>3, <3>4
    <2>3. CASE t \notin ends
      <3>1. t \in DOMAIN items /\ items'[t] = items[t] /\ items[t].lot \in 1..n
        BY <1>19, <2>1, <2>3
      <3>2. items[t].lot # id
        BY <1>1, <1>4, <2>1, <3>1 DEF ValueSpentOnce, id
      <3>3. lots'[items[t].lot] = lots[items[t].lot]
        BY <1>14, <3>1, <3>2
      <3>4. /\ lots[items[t].lot].state = "queued"
            /\ lots[items[t].lot].remaining = items[t].priority
            /\ Last(lots[items[t].lot].path) = t
        BY <1>1, <1>28, <3>1 DEF ValueSpentOnce
      <3>5. QED
        BY <3>1, <3>3, <3>4
    <2>4. QED
      BY <2>1, <2>2, <2>3
  <1>29. ASSUME NEW t \in DOMAIN items', NEW u \in DOMAIN items', items'[t].lot = items'[u].lot
         PROVE  t = u
    <2>1. /\ t \in DOMAIN items \cup ends /\ u \in DOMAIN items \cup ends
          /\ written[t].lot = written[u].lot
      BY <1>22, <1>24, <1>29
    <2>2. ASSUME NEW v \in ends
          PROVE  written[v].lot = n + child[v] /\ child[v] \in 1..m
                 /\ Last(children[child[v]].path) = v
      BY <1>16, <1>18
    <2>3. CASE t \in ends /\ u \in ends
      <3>1. n + child[t] = n + child[u]
        BY <2>1, <2>2, <2>3
      <3>2. PICK j \in 1..m, k \in 1..m : j = child[t] /\ k = child[u]
        BY <2>2, <2>3
      <3>3. j = k
        BY <1>5, <1>11, <3>1, <3>2
      <3>4. QED
        BY <2>2, <2>3, <3>2, <3>3
    <2>4. ASSUME NEW v \in ends, NEW w \in DOMAIN items, w \notin ends
          PROVE  written[v].lot # written[w].lot
      <3>1. PICK k \in 1..m : written[v].lot = n + k
        BY <2>2
      <3>2. written[w].lot \in 1..n
        BY <1>19, <2>4
      <3>3. n + k \notin 1..n
        BY <1>5, <1>11
      <3>4. QED
        BY <3>1, <3>2, <3>3
    <2>5. CASE t \notin ends /\ u \notin ends
      <3>1. items[t].lot = items[u].lot /\ t \in DOMAIN items /\ u \in DOMAIN items
        BY <1>19, <2>1, <2>5
      <3>2. QED
        BY <1>1, <3>1 DEF ValueSpentOnce
    <2>6. CASE t \in ends /\ u \notin ends
      BY <2>1, <2>4, <2>6
    <2>7. CASE t \notin ends /\ u \in ends
      <3>1. t \in DOMAIN items /\ written[u].lot # written[t].lot
        BY <2>1, <2>4, <2>7
      <3>2. QED
        BY <2>1, <3>1
    <2>8. QED
      BY <2>3, <2>5, <2>6, <2>7
  <1>30. ValueSpentOnce'
    <2>1. ValueAccounted'
      BY <1>2 DEF TraceInv
    <2>2. stationary + Remaining(lots, DOMAIN lots) = Amount
      BY <1>1, <1>4 DEF ValueSpentOnce
    <2>3. stationary' + Remaining(lots', DOMAIN lots') = Amount
      BY <1>2, <1>15, <2>2
    <2>4. QED
      BY <1>28, <1>29, <2>1, <2>3 DEF ValueSpentOnce
  <1>31. QED
    BY <1>2, <1>25, <1>26, <1>27, <1>30 DEF LotsInv

LEMMA LotsStepKeeps ==
    ASSUME LotsInv, [LotsStep]_lotVars
    PROVE  LotsInv'
  <1>1. CASE TraceStep /\ (IF phase' = "sealed" /\ engine = "TRON" /\ chain \in WorkedHistories
                           THEN LotsSealed ELSE UNCHANGED <<lots, items, batch>>)
    BY <1>1, LotsTraceStep
  <1>2. CASE StartCycleOfBatch /\ UNCHANGED traceVars
    BY <1>2, StartBatchStep
  <1>3. CASE DeferItem /\ UNCHANGED traceVars
    BY <1>3, DeferItemStep
  <1>4. CASE ExpandItem /\ UNCHANGED traceVars
    BY <1>4, ExpandItemStep
  <1>5. CASE AbandonBatch /\ UNCHANGED traceVars
    BY <1>5, AbandonStep
  <1>6. CASE UNCHANGED lotVars
    <2>1. UNCHANGED traceVars /\ lots' = lots /\ items' = items /\ batch' = batch
      BY <1>6 DEF lotVars
    <2>2. LotsTyped /\ BatchIsOpen
      BY DEF LotsInv
    <2>3. items' = [t \in DOMAIN items |-> items[t]] /\ batch' \in Seq(DOMAIN items)
      BY <2>1, <2>2 DEF LotsTyped
    <2>4. \A t \in DOMAIN items : items[t] \in RowRecords
      BY <2>2, RowFields
    <2>5. BatchIsOpen'
      BY <2>1, <2>2 DEF BatchIsOpen
    <2>6. QED
      BY <2>1, <2>3, <2>4, <2>5, RowsKept
  <1>7. QED
    BY <1>1, <1>2, <1>3, <1>4, <1>5, <1>6 DEF LotsStep, WorkerStep

LEMMA LotsInvariant == LotsSpec => []LotsInv
  BY InitialLots, LotsStepKeeps, PTL DEF LotsSpec

(* repository.py and live_tron_resume.py: lots and rows stay well formed,   *)
(* a row names a lot there is, and a batch rows there are.                  *)
THEOREM LotsTypeCorrect == LotsSpec => []LotsTypeOK
  <1>1. LotsInv => LotsTypeOK
    <2>1. SUFFICES ASSUME LotsInv
                   PROVE  LotsTypeOK
      OBVIOUS
    <2>2. LotsTyped
      BY <2>1 DEF LotsInv
    <2>3. \A k \in DOMAIN lots : lots[k].path \in Seq(DOMAIN chain) /\ lots[k].remaining \in 0..Amount
      <3>1. ASSUME NEW k \in DOMAIN lots
            PROVE  lots[k].path \in Seq(DOMAIN chain) /\ lots[k].remaining \in 0..Amount
        <4>1. lots[k].path \in Seq(DOMAIN chain) \ {<<>>} /\ lots[k].remaining \in 0..Amount
          BY <2>2, LotFields
        <4>2. QED
          BY <4>1
      <3>2. QED
        BY <3>1
    <2>4. \A t \in DOMAIN items :
            /\ items[t].lot \in DOMAIN lots
            /\ items[t].state \in {"queued", "leased", "deferred", "completed"}
            /\ items[t].reason \in Reasons \cup {"none"}
      BY <2>2, RowFields
    <2>5. \A k \in DOMAIN batch : batch[k] \in DOMAIN items
      BY <2>2 DEF LotsTyped
    <2>6. QED
      BY <2>3, <2>4, <2>5 DEF LotsTypeOK
  <1>2. QED
    BY <1>1, LotsInvariant, PTL

(* _add_trace_lots_and_frontier and expand_live_tron_frontier_item: what    *)
(* was paid is stationary or in exactly one lot, and no lot is spent twice, *)
(* for every chain, parameters and batch size, and however the worker's     *)
(* cycles fail, are abandoned, recover leases or meet on joining routes.    *)
THEOREM NoLotIsSpentTwice == LotsSpec => []ValueSpentOnce
  <1>1. LotsInv => ValueSpentOnce
    BY DEF LotsInv
  <1>2. QED
    BY <1>1, LotsInvariant, PTL

(* The worker leaves a trace as it was sealed: what is proved of a trace   *)
(* alone holds of one whose lots are worked.                               *)
THEOREM WorkerKeepsTrace == LotsSpec => TraceSpec
  <1>1. [LotsStep]_lotVars => [TraceStep \/ TraceDone]_traceVars
    BY DEF LotsStep, lotVars
  <1>2. QED
    BY <1>1, PTL DEF LotsSpec, TraceSpec
=============================================================================
