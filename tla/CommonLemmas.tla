------------------------------ MODULE CommonLemmas ------------------------------
(***************************************************************************)
(* Facts that the proofs of several components need: about numbers,        *)
(* sequences, recursion over an interval, sums over finite sets, and one   *)
(* step of an allocation.                                                  *)
(***************************************************************************)
EXTENDS Allocation, Sequences, FiniteSets, FiniteSetTheorems, WellFoundedInduction, TLAPS

(* A set of numbers has a least one, and a bounded one a greatest.         *)
LEMMA SetHasMinimum ==
    ASSUME NEW T \in SUBSET Nat, T # {}
    PROVE  \E x \in T : \A y \in T : x <= y
  <1>1. \E x \in T : \A y \in T : ~(<<y, x>> \in OpToRel(<, Nat))
    BY NatLessThanWellFounded, WFMin, Zenon
  <1>2. PICK x \in T : \A y \in T : ~(<<y, x>> \in OpToRel(<, Nat))
    BY <1>1, Zenon
  <1>3. \A y \in T : ~(y < x)
    BY <1>2, Zenon DEF OpToRel
  <1>4. QED
    BY <1>3

LEMMA SetHasMaximum ==
    ASSUME NEW n \in Nat, NEW ids \in SUBSET (0..n), ids # {}
    PROVE  \E i \in ids : \A j \in ids : j <= i
  <1> DEFINE T == {n - i : i \in ids}
  <1>1. T \in SUBSET Nat
    <2>1. \A i \in ids : n - i \in Nat
      OBVIOUS
    <2>2. QED
      BY <2>1
  <1>2. T # {}
    OBVIOUS
  <1>3. PICK x \in T : \A y \in T : x <= y
    <2> HIDE DEF T
    <2>1. QED
      BY <1>1, <1>2, SetHasMinimum
  <1>4. PICK i \in ids : x = n - i
    BY <1>3
  <1>5. \A j \in ids : n - i <= n - j
    BY <1>3, <1>4
  <1>6. QED
    BY <1>5

(* What a sequence is after one element is appended.                       *)
LEMMA Appended ==
    ASSUME NEW S, NEW s \in Seq(S), NEW e \in S
    PROVE  /\ Append(s, e) \in Seq(S) /\ Len(Append(s, e)) = Len(s) + 1 /\ Len(s) \in Nat
           /\ Append(s, e)[Len(s) + 1] = e
           /\ DOMAIN s = 1..Len(s) /\ DOMAIN Append(s, e) = 1..(Len(s) + 1)
           /\ \A i \in 1..Len(s) : Append(s, e)[i] = s[i]
  OBVIOUS

-----------------------------------------------------------------------------
(* What holds at 0 and is handed on holds throughout an interval.          *)
LEMMA WholeInterval ==
    ASSUME NEW n \in Nat, NEW good \in SUBSET (0..n), 0 \in good,
           \A k \in 1..n : k - 1 \in good => k \in good
    PROVE  good = 0..n
  <1> DEFINE bad == (0..n) \ good
  <1>1. SUFFICES ASSUME bad # {}
                 PROVE  FALSE
    OBVIOUS
  <1>2. bad \in SUBSET Nat
    OBVIOUS
  <1>3. PICK m \in bad : \A k \in bad : m <= k
    <2> HIDE DEF bad
    <2>1. QED
      BY <1>1, <1>2, SetHasMinimum
  <1>4. m \in 1..n /\ m - 1 \in 0..n /\ m - 1 \notin bad
    BY <1>3
  <1>5. QED
    BY <1>3, <1>4

StepsFrom(f, n, V, v0, step) ==
    f \in [0..n -> V] /\ f[0] = v0 /\ \A k \in 1..n : f[k] = step[k][f[k - 1]]

(* A recursion over an interval has a solution: the least number to which  *)
(* there is none would be one more than a number to which there is one.    *)
LEMMA RecursionSolved ==
    ASSUME NEW V, NEW n \in Nat, NEW v0 \in V, NEW step \in [1..n -> [V -> V]]
    PROVE  \E f : StepsFrom(f, n, V, v0, step)
  <1> DEFINE Solves(f, m) == f[0] = v0 /\ \A k \in 1..m : f[k] = step[k][f[k - 1]]
             Unsolved == {m \in 0..n : ~\E f \in [0..m -> V] : Solves(f, m)}
  <1>1. 0 \notin Unsolved
    <2>1. [k \in 0..0 |-> v0] \in [0..0 -> V] /\ Solves([k \in 0..0 |-> v0], 0)
      OBVIOUS
    <2>2. QED
      BY <2>1
  <1>2. ASSUME NEW m \in 1..n, m - 1 \notin Unsolved
        PROVE  m \notin Unsolved
    <2>1. PICK f \in [0..(m - 1) -> V] : Solves(f, m - 1)
      BY <1>2
    <2> DEFINE g == [k \in 0..m |-> IF k = m THEN step[m][f[m - 1]] ELSE f[k]]
    <2>2. step[m][f[m - 1]] \in V
      OBVIOUS
    <2>3. g \in [0..m -> V]
      BY <2>2
    <2>4. \A k \in 0..(m - 1) : g[k] = f[k]
      OBVIOUS
    <2>5. g[m] = step[m][g[m - 1]]
      OBVIOUS
    <2>6. g[0] = v0
      BY <2>1, <2>4
    <2>7. ASSUME NEW k \in 1..m
          PROVE  g[k] = step[k][g[k - 1]]
      <3>1. CASE k = m
        BY <2>5, <3>1
      <3>2. CASE k # m
        <4>1. k \in 1..(m - 1) /\ k - 1 \in 0..(m - 1) /\ k \in 0..(m - 1)
          BY <3>2
        <4>2. QED
          BY <2>1, <2>4, <4>1
      <3>3. QED
        BY <3>1, <3>2
    <2> HIDE DEF g
    <2>8. Solves(g, m)
      BY <2>6, <2>7
    <2>9. QED
      BY <2>3, <2>8
  <1>3. Unsolved = {}
    <2> HIDE DEF Unsolved
    <2>1. SUFFICES ASSUME Unsolved # {}
                   PROVE  FALSE
      OBVIOUS
    <2>2. Unsolved \in SUBSET (0..n)
      BY DEF Unsolved
    <2>3. PICK m \in Unsolved : \A k \in Unsolved : m <= k
      BY <2>1, <2>2, SetHasMinimum
    <2>4. m \in 1..n
      BY <1>1, <2>2, <2>3
    <2>5. m - 1 \notin Unsolved
      BY <2>2, <2>3, <2>4
    <2>6. QED
      BY <1>2, <2>3, <2>4, <2>5
  <1>4. QED
    BY <1>3 DEF StepsFrom

-----------------------------------------------------------------------------
(* Sums over finite sets, as the folds of the community modules compute    *)
(* them: an element is chosen, and the rest summed up.                     *)
Chosen(s) == CHOOSE x \in s : TRUE

IsSum(sum, S, w) ==
    /\ sum \in [SUBSET S -> Int]
    /\ sum[{}] = 0
    /\ \A s \in SUBSET S : s # {} => sum[s] = w[Chosen(s)] + sum[s \ {Chosen(s)}]

(* What is taken out of a finite set leaves a smaller one.                 *)
LEMMA OneLess ==
    ASSUME NEW s, IsFiniteSet(s), NEW x \in s
    PROVE  /\ IsFiniteSet(s \ {x})
           /\ Cardinality(s) \in Nat /\ Cardinality(s \ {x}) = Cardinality(s) - 1
           /\ Cardinality(s \ {x}) \in Nat
  BY FS_RemoveElement, FS_CardinalityType

(* There is a sum of all subsets: of those of at most m elements, from     *)
(* those of fewer.                                                         *)
LEMMA SumExists ==
    ASSUME NEW S, IsFiniteSet(S), NEW w \in [S -> Int]
    PROVE  \E sum : IsSum(sum, S, w)
  <1> DEFINE Small(m) == {s \in SUBSET S : Cardinality(s) <= m}
             Sums(f, m) == /\ f[{}] = 0
                           /\ \A s \in Small(m) : s # {} => f[s] = w[Chosen(s)] + f[s \ {Chosen(s)}]
             Solved(m) == \E f \in [Small(m) -> Int] : Sums(f, m)
             Unsolved == {m \in Nat : ~Solved(m)}
  <1>1. \A s \in SUBSET S : /\ IsFiniteSet(s) /\ Cardinality(s) \in Nat
                            /\ Cardinality(s) = 0 <=> s = {}
    BY FS_Subset, FS_CardinalityType, FS_EmptySet
  <1>2. \A s \in SUBSET S : s # {} => /\ Chosen(s) \in s
                                      /\ s \ {Chosen(s)} \in SUBSET S
                                      /\ Cardinality(s \ {Chosen(s)}) = Cardinality(s) - 1
    BY <1>1, OneLess DEF Chosen
  <1>3. 0 \notin Unsolved
    <2>1. \A s \in Small(0) : s = {}
      BY <1>1
    <2>2. {} \in Small(0)
      BY <1>1
    <2>3. [s \in Small(0) |-> 0] \in [Small(0) -> Int] /\ Sums([s \in Small(0) |-> 0], 0)
      BY <2>1, <2>2
    <2>4. QED
      BY <2>3
  <1>4. ASSUME NEW m \in Nat \ {0}, m - 1 \notin Unsolved
        PROVE  m \notin Unsolved
    <2>0. Solved(m - 1)
      <3> HIDE DEF Solved
      <3>1. m - 1 \in Nat
        OBVIOUS
      <3>2. QED
        BY <1>4, <3>1
    <2>1. PICK f \in [Small(m - 1) -> Int] : Sums(f, m - 1)
      BY <2>0
    <2> DEFINE g == [s \in Small(m) |-> IF s \in Small(m - 1) THEN f[s]
                                        ELSE w[Chosen(s)] + f[s \ {Chosen(s)}]]
    <2>2. Small(m - 1) \subseteq Small(m)
      BY <1>1
    <2>3. {} \in Small(m - 1)
      BY <1>1
    <2>4. ASSUME NEW s \in Small(m), s # {}
          PROVE  w[Chosen(s)] \in Int /\ s \ {Chosen(s)} \in Small(m - 1)
      <3>1. s \in SUBSET S /\ Cardinality(s) <= m /\ Cardinality(s) \in Nat
        BY <1>1
      <3>2. Chosen(s) \in S /\ Cardinality(s \ {Chosen(s)}) <= m - 1
        BY <1>2, <2>4, <3>1
      <3>3. QED
        BY <3>1, <3>2
    <2> HIDE DEF Small
    <2>5. g \in [Small(m) -> Int]
      <3>1. \A s \in Small(m - 1) : f[s] \in Int
        OBVIOUS
      <3>2. \A s \in Small(m) : s \notin Small(m - 1) =>
               w[Chosen(s)] \in Int /\ f[s \ {Chosen(s)}] \in Int
        BY <2>3, <2>4, <3>1
      <3>3. ASSUME NEW s \in Small(m)
            PROVE  g[s] \in Int
        <4>1. CASE s \in Small(m - 1)
          BY <3>1, <4>1
        <4>2. CASE s \notin Small(m - 1)
          <5>1. g[s] = w[Chosen(s)] + f[s \ {Chosen(s)}]
            BY <4>2
          <5>2. PICK a \in Int, b \in Int : a = w[Chosen(s)] /\ b = f[s \ {Chosen(s)}]
            BY <3>2, <4>2
          <5> HIDE DEF g
          <5>3. g[s] = a + b
            BY <5>1, <5>2
          <5>4. QED
            BY <5>3
        <4>3. QED
          BY <4>1, <4>2
      <3>4. QED
        BY <3>3
    <2>6. \A s \in Small(m - 1) : g[s] = f[s]
      BY <2>2
    <2>7. ASSUME NEW s \in Small(m), s # {}
          PROVE  g[s] = w[Chosen(s)] + g[s \ {Chosen(s)}]
      <3>1. g[s \ {Chosen(s)}] = f[s \ {Chosen(s)}]
        BY <2>4, <2>6, <2>7
      <3>2. CASE s \in Small(m - 1)
        BY <2>1, <2>6, <2>7, <3>1, <3>2
      <3>3. CASE s \notin Small(m - 1)
        BY <3>1, <3>3
      <3>4. QED
        BY <3>2, <3>3
    <2>8. g[{}] = 0
      BY <2>1, <2>3, <2>6
    <2> HIDE DEF g
    <2>9. Sums(g, m)
      BY <2>7, <2>8
    <2>10. QED
      BY <2>5, <2>9
  <1>5. Unsolved = {}
    <2> HIDE DEF Unsolved
    <2>1. SUFFICES ASSUME Unsolved # {}
                   PROVE  FALSE
      OBVIOUS
    <2>2. Unsolved \in SUBSET Nat
      BY DEF Unsolved
    <2>3. PICK m \in Unsolved : \A k \in Unsolved : m <= k
      BY <2>1, <2>2, SetHasMinimum
    <2>4. m \in Nat \ {0} /\ m - 1 \in Nat
      BY <1>3, <2>2, <2>3
    <2>5. m - 1 \notin Unsolved
      BY <2>2, <2>3, <2>4
    <2>6. QED
      BY <1>4, <2>3, <2>4, <2>5
  <1>6. Cardinality(S) \in Nat /\ Small(Cardinality(S)) = SUBSET S
    <2>1. Cardinality(S) \in Nat /\ \A s \in SUBSET S : Cardinality(s) <= Cardinality(S)
      BY FS_CardinalityType, FS_Subset
    <2>2. QED
      BY <2>1
  <1>7. PICK f \in [Small(Cardinality(S)) -> Int] : Sums(f, Cardinality(S))
    BY <1>5, <1>6
  <1>8. IsSum(f, S, w)
    BY <1>6, <1>7 DEF IsSum
  <1>9. QED
    BY <1>8

(* The order in which elements are chosen does not matter.                 *)
LEMMA SumSplits ==
    ASSUME NEW S, IsFiniteSet(S), NEW w \in [S -> Int], NEW sum, IsSum(sum, S, w),
           NEW s \in SUBSET S, NEW x \in s
    PROVE  sum[s] = w[x] + sum[s \ {x}]
  <1> DEFINE Splits(t) == \A y \in t : sum[t] = w[y] + sum[t \ {y}]
             Bad == {n \in Nat : \E t \in SUBSET S : Cardinality(t) = n /\ ~Splits(t)}
  <1>1. \A t \in SUBSET S : IsFiniteSet(t) /\ Cardinality(t) \in Nat
    BY FS_Subset, FS_CardinalityType
  <1>2. ASSUME NEW n \in Nat, n \in Bad, \A k \in Bad : n <= k
        PROVE  FALSE
    <2>1. PICK t \in SUBSET S : Cardinality(t) = n /\ ~Splits(t)
      BY <1>2
    <2>2. PICK y \in t : sum[t] # w[y] + sum[t \ {y}]
      BY <2>1
    <2> DEFINE c == Chosen(t)
    <2>3. c \in t /\ sum[t] = w[c] + sum[t \ {c}]
      BY <2>2 DEF IsSum, Chosen
    <2>4. c # y
      BY <2>2, <2>3
    <2>5. /\ t \ {c} \in SUBSET S /\ t \ {y} \in SUBSET S
          /\ Cardinality(t \ {c}) = n - 1 /\ Cardinality(t \ {y}) = n - 1
          /\ n - 1 \in Nat
      BY <1>1, <2>1, <2>3, OneLess
    <2>6. n - 1 \notin Bad
      BY <1>2, <2>5
    <2> HIDE DEF c
    <2>7. Splits(t \ {c}) /\ Splits(t \ {y})
      BY <2>5, <2>6
    <2>8. /\ sum[t \ {c}] = w[y] + sum[(t \ {c}) \ {y}]
          /\ sum[t \ {y}] = w[c] + sum[(t \ {y}) \ {c}]
      BY <2>3, <2>4, <2>7
    <2>9. (t \ {c}) \ {y} = (t \ {y}) \ {c} /\ (t \ {c}) \ {y} \in SUBSET S
      OBVIOUS
    <2>10. w[y] \in Int /\ w[c] \in Int /\ sum[(t \ {c}) \ {y}] \in Int
      BY <2>3, <2>9 DEF IsSum
    <2>11. PICK r \in Int : r = sum[(t \ {c}) \ {y}]
      BY <2>10
    <2>12. sum[t \ {c}] = w[y] + r /\ sum[t \ {y}] = w[c] + r
      BY <2>8, <2>9, <2>11
    <2>13. sum[t] = w[c] + (w[y] + r) /\ w[y] + sum[t \ {y}] = w[y] + (w[c] + r)
      BY <2>3, <2>12
    <2>14. QED
      BY <2>2, <2>10, <2>13
  <1>3. Bad = {}
    <2> HIDE DEF Bad
    <2>1. Bad \in SUBSET Nat
      BY DEF Bad
    <2>2. QED
      BY <1>2, <2>1, SetHasMinimum
  <1>4. Splits(s)
    BY <1>1, <1>3
  <1>5. QED
    BY <1>4

(* Sums of a set are equal, whatever larger sets they were made for.       *)
LEMMA SumsAgree ==
    ASSUME NEW S, IsFiniteSet(S), NEW w \in [S -> Int], NEW sum, IsSum(sum, S, w),
           NEW T \in SUBSET S, NEW v \in [T -> Int], NEW part, IsSum(part, T, v),
           \A x \in T : v[x] = w[x]
    PROVE  \A s \in SUBSET T : part[s] = sum[s]
  <1> DEFINE Bad == {n \in Nat : \E t \in SUBSET T : Cardinality(t) = n /\ part[t] # sum[t]}
  <1>1. \A t \in SUBSET T : IsFiniteSet(t) /\ Cardinality(t) \in Nat
    BY FS_Subset, FS_CardinalityType
  <1>2. ASSUME NEW n \in Nat, n \in Bad, \A k \in Bad : n <= k
        PROVE  FALSE
    <2>1. PICK t \in SUBSET T : Cardinality(t) = n /\ part[t] # sum[t]
      BY <1>2
    <2>2. t # {}
      BY <2>1 DEF IsSum
    <2> DEFINE c == Chosen(t)
    <2>3. c \in t
      BY <2>2 DEF Chosen
    <2>4. part[t] = v[c] + part[t \ {c}] /\ sum[t] = w[c] + sum[t \ {c}]
      BY <2>1, <2>2 DEF IsSum
    <2>5. t \ {c} \in SUBSET T /\ Cardinality(t \ {c}) = n - 1 /\ n - 1 \in Nat
      BY <1>1, <2>1, <2>3, OneLess
    <2>6. n - 1 \notin Bad
      BY <1>2, <2>5
    <2> HIDE DEF c
    <2>7. part[t \ {c}] = sum[t \ {c}]
      BY <2>5, <2>6
    <2>8. QED
      BY <2>1, <2>3, <2>4, <2>7
  <1>3. Bad = {}
    <2> HIDE DEF Bad
    <2>1. Bad \in SUBSET Nat
      BY DEF Bad
    <2>2. QED
      BY <1>2, <2>1, SetHasMinimum
  <1>4. QED
    BY <1>1, <1>3

(* A function that sums up subset by subset, as a fold does, is their sum. *)
LEMMA FoldIsSum ==
    ASSUME NEW S, IsFiniteSet(S), NEW w \in [S -> Int], NEW f,
           f = [s \in SUBSET S |-> IF s = {} THEN 0 ELSE w[Chosen(s)] + f[s \ {Chosen(s)}]]
    PROVE  IsSum(f, S, w)
  <1> DEFINE Bad == {n \in Nat : \E t \in SUBSET S : Cardinality(t) = n /\ f[t] \notin Int}
  <1>1. \A t \in SUBSET S : IsFiniteSet(t) /\ Cardinality(t) \in Nat
    BY FS_Subset, FS_CardinalityType
  <1>2. \A t \in SUBSET S : f[t] = IF t = {} THEN 0 ELSE w[Chosen(t)] + f[t \ {Chosen(t)}]
    BY Zenon
  <1>3. ASSUME NEW n \in Nat, n \in Bad, \A k \in Bad : n <= k
        PROVE  FALSE
    <2>1. PICK t \in SUBSET S : Cardinality(t) = n /\ f[t] \notin Int
      BY <1>3
    <2>2. t # {}
      BY <1>2, <2>1
    <2> DEFINE c == Chosen(t)
    <2>3. c \in t
      BY <2>2 DEF Chosen
    <2>4. f[t] = w[c] + f[t \ {c}]
      BY <1>2, <2>2
    <2>5. t \ {c} \in SUBSET S /\ Cardinality(t \ {c}) = n - 1 /\ n - 1 \in Nat
      <3>1. IsFiniteSet(t)
        BY <1>1
      <3> HIDE DEF c
      <3>2. Cardinality(t \ {c}) = Cardinality(t) - 1 /\ Cardinality(t \ {c}) \in Nat
        BY <2>3, <3>1, OneLess
      <3>3. QED
        BY <2>1, <3>2
    <2>6. n - 1 \notin Bad
      <3> HIDE DEF Bad
      <3>1. QED
        BY <1>3, <2>5
    <2> HIDE DEF c
    <2>7. f[t \ {c}] \in Int /\ w[c] \in Int
      BY <2>3, <2>5, <2>6
    <2>8. PICK a \in Int, b \in Int : a = f[t \ {c}] /\ b = w[c]
      BY <2>7
    <2>9. f[t] = b + a
      BY <2>4, <2>8
    <2>10. QED
      BY <2>1, <2>9
  <1>4. Bad = {}
    <2> HIDE DEF Bad
    <2>1. Bad \in SUBSET Nat
      BY DEF Bad
    <2>2. QED
      BY <1>3, <2>1, SetHasMinimum
  <1>5. \A t \in SUBSET S : f[t] \in Int
    BY <1>1, <1>4
  <1>6. DOMAIN f = SUBSET S /\ f = [t \in DOMAIN f |-> f[t]]
    BY Zenon
  <1>7. f \in [SUBSET S -> Int]
    BY <1>5, <1>6
  <1>8. QED
    BY <1>2, <1>7 DEF IsSum

LEMMA SumOfUnion ==
    ASSUME NEW S, IsFiniteSet(S), NEW w \in [S -> Int], NEW sum, IsSum(sum, S, w),
           NEW A \in SUBSET S, NEW B \in SUBSET S, A \cap B = {}
    PROVE  sum[A \cup B] = sum[A] + sum[B]
  <1> DEFINE Adds(t) == sum[A \cup t] = sum[A] + sum[t]
             Bad == {n \in Nat : \E t \in SUBSET B : Cardinality(t) = n /\ ~Adds(t)}
  <1>1. \A t \in SUBSET S : IsFiniteSet(t) /\ Cardinality(t) \in Nat /\ sum[t] \in Int
    BY FS_Subset, FS_CardinalityType DEF IsSum
  <1>2. ASSUME NEW n \in Nat, n \in Bad, \A k \in Bad : n <= k
        PROVE  FALSE
    <2>1. PICK t \in SUBSET B : Cardinality(t) = n /\ ~Adds(t)
      BY <1>2
    <2>2. t # {}
      <3>1. A \cup {} = A /\ sum[{}] = 0 /\ sum[A] \in Int
        BY <1>1 DEF IsSum
      <3>2. Adds({})
        BY <3>1
      <3>3. QED
        BY <2>1, <3>2
    <2>3. PICK c \in t : TRUE
      BY <2>2
    <2>4. /\ t \in SUBSET S /\ t \ {c} \in SUBSET B /\ t \ {c} \in SUBSET S
          /\ A \cup t \in SUBSET S /\ c \in A \cup t /\ c \in S
      BY <2>3
    <2>5. Cardinality(t \ {c}) = n - 1 /\ n - 1 \in Nat
      BY <1>1, <2>1, <2>3, <2>4, OneLess
    <2>6. n - 1 \notin Bad
      BY <1>2, <2>5
    <2>7. Adds(t \ {c})
      BY <2>4, <2>5, <2>6
    <2>8. (A \cup t) \ {c} = A \cup (t \ {c})
      <3>1. c \notin A
        BY <2>3
      <3>2. QED
        BY <3>1
    <2> HIDE DEF Adds, Bad
    <2>9. sum[A \cup t] = w[c] + sum[(A \cup t) \ {c}] /\ sum[t] = w[c] + sum[t \ {c}]
      <3>1. ASSUME NEW s \in SUBSET S, NEW x \in s
            PROVE  sum[s] = w[x] + sum[s \ {x}]
        BY SumSplits
      <3>2. QED
        BY <2>3, <2>4, <3>1
    <2> USE DEF Adds, Bad
    <2>10. PICK x \in Int, y \in Int, z \in Int :
              x = sum[A] /\ y = sum[t \ {c}] /\ z = w[c]
      BY <1>1, <2>4
    <2>11. sum[A \cup t] = z + (x + y) /\ sum[t] = z + y
      BY <2>7, <2>8, <2>9, <2>10
    <2>12. QED
      BY <2>1, <2>10, <2>11
  <1>3. Bad = {}
    <2> HIDE DEF Bad
    <2>1. Bad \in SUBSET Nat
      BY DEF Bad
    <2>2. QED
      BY <1>2, <2>1, SetHasMinimum
  <1>4. IsFiniteSet(B) /\ Cardinality(B) \in Nat
    BY <1>1
  <1>5. Adds(B)
    BY <1>3, <1>4
  <1>6. QED
    BY <1>5

LEMMA SumIsNatural ==
    ASSUME NEW S, IsFiniteSet(S), NEW w \in [S -> Nat], NEW sum, IsSum(sum, S, w),
           NEW s \in SUBSET S
    PROVE  sum[s] \in Nat
  <1> DEFINE Bad == {n \in Nat : \E t \in SUBSET S : Cardinality(t) = n /\ sum[t] \notin Nat}
  <1>1. \A t \in SUBSET S : IsFiniteSet(t) /\ Cardinality(t) \in Nat
    BY FS_Subset, FS_CardinalityType
  <1>2. ASSUME NEW n \in Nat, n \in Bad, \A k \in Bad : n <= k
        PROVE  FALSE
    <2>1. PICK t \in SUBSET S : Cardinality(t) = n /\ sum[t] \notin Nat
      BY <1>2
    <2>2. t # {}
      BY <2>1 DEF IsSum
    <2> DEFINE c == Chosen(t)
    <2>3. c \in t
      BY <2>2 DEF Chosen
    <2>4. sum[t] = w[c] + sum[t \ {c}]
      BY <2>1, <2>2 DEF IsSum
    <2>5. t \ {c} \in SUBSET S /\ Cardinality(t \ {c}) = n - 1 /\ n - 1 \in Nat
      <3>1. IsFiniteSet(t)
        BY <1>1
      <3> HIDE DEF c
      <3>2. Cardinality(t \ {c}) = Cardinality(t) - 1 /\ Cardinality(t \ {c}) \in Nat
        BY <2>3, <3>1, OneLess
      <3>3. QED
        BY <2>1, <3>2
    <2>6. n - 1 \notin Bad
      BY <1>2, <2>5
    <2> HIDE DEF c
    <2>7. sum[t \ {c}] \in Nat /\ w[c] \in Nat
      BY <2>3, <2>5, <2>6
    <2>8. PICK a \in Nat, b \in Nat : a = sum[t \ {c}] /\ b = w[c]
      BY <2>7
    <2>9. sum[t] = b + a
      BY <2>4, <2>8
    <2>10. QED
      BY <2>1, <2>9
  <1>3. Bad = {}
    <2> HIDE DEF Bad
    <2>1. Bad \in SUBSET Nat
      BY DEF Bad
    <2>2. QED
      BY <1>2, <2>1, SetHasMinimum
  <1>4. QED
    BY <1>1, <1>3

-----------------------------------------------------------------------------
(* What \div and % mean: the quotient and remainder of a division.         *)
LEMMA Division ==
    ASSUME NEW n \in Nat, NEW d \in Nat, d > 0
    PROVE  /\ n \div d \in Nat
           /\ n % d \in Nat
           /\ n = d * (n \div d) + (n % d)
           /\ n % d < d
  BY Z3

(* Paying a share, remainder carried in or not, takes the attributed       *)
(* amount down at least as far as proportion demands: it never exceeds the *)
(* balance that the transfer leaves behind.                                *)
LEMMA ShareKeepsWithinBalance ==
    ASSUME NEW b \in Nat, NEW a \in Nat, NEW r \in Nat, NEW o \in Nat,
           b > 0, a <= b, o <= b
    PROVE  a - ((o * a + r) \div b) <= b - o
  <1> DEFINE n == o * a + r
             q == n \div b
             m == n % b
  <1>1. n \in Nat
    BY Z3
  <1>2. q \in Nat /\ m \in Nat /\ n = b * q + m /\ m < b
    BY <1>1, Division
  <1>3. (b - o) \in Nat /\ (b - a) \in Nat
    BY Z3
  <1>4. (b - o) * (b - a) >= 0
    BY <1>3, Z3
  <1>5. SUFFICES ASSUME a - q >= b - o + 1
                 PROVE  FALSE
    BY <1>2
  <1> HIDE DEF n, q, m
  <1>6. b * (a - q) >= b * (b - o + 1)
    BY <1>2, <1>5, Z3
  <1>7. b * (a - q) = b * a - b * q /\ b * (b - o + 1) = b * b - b * o + b
    BY <1>2, Z3
  <1>8. (b - o) * (b - a) = b * b - b * a - o * b + o * a
    BY Z3
  <1>9. n >= o * a
    BY Z3 DEF n
  <1>10. QED
    BY <1>2, <1>4, <1>6, <1>7, <1>8, <1>9, Z3

(* One allocation step: conservation, the bound above and typing, as facts *)
(* about any position whose evidence is consistent.                        *)
LEMMA AllocationStep ==
    ASSUME NEW p \in Position, NEW o \in Nat,
           ConsistentEvidence(p, o), ~CreatesValue(p, o)
    PROVE  /\ Share(p, o) \in Nat
           /\ AllocateProportional(p, o) \in Position
           /\ AllocateProportional(p, o).attributed + Share(p, o) = p.attributed
           /\ AllocateProportional(p, o).balance = p.balance - o
           /\ AllocateProportional(p, o).attributed <= p.balance - o
  <1> DEFINE b == p.balance
             a == p.attributed
             r == p.residual
  <1>1. b \in Nat /\ a \in Nat /\ r \in Nat /\ b > 0 /\ a <= b /\ o <= b
    BY DEF Position, ConsistentEvidence
  <1>2. Numerator(p, o) \in Nat
    BY <1>1, Z3 DEF Numerator
  <1>3. CASE o = b
    BY <1>1, <1>3 DEF Share, AllocateProportional, Position
  <1>4. CASE o # b
    <2>1. Share(p, o) = (o * a + r) \div b
      BY <1>4 DEF Share, Numerator
    <2>2. Share(p, o) \in Nat /\ Numerator(p, o) % b \in Nat
      BY <1>1, <1>2, <1>4, Division DEF Share
    <2>3. a - Share(p, o) <= b - o
      BY <1>1, <2>1, ShareKeepsWithinBalance
    <2>4. a - Share(p, o) \in Nat
      BY <1>1, <2>2 DEF CreatesValue
    <2>5. b - o \in Nat
      BY <1>1
    <2>6. AllocateProportional(p, o)
            = [balance |-> b - o, attributed |-> a - Share(p, o),
               residual |-> Numerator(p, o) % b]
      BY <1>4 DEF AllocateProportional
    <2>7. QED
      BY <1>1, <2>2, <2>3, <2>4, <2>5, <2>6 DEF Position
  <1>5. QED
    BY <1>3, <1>4
=============================================================================
