------------------------------ MODULE Induction ------------------------------
(***************************************************************************)
(* Induction over the natural numbers, stated with sets: what holds at 0   *)
(* and passes from n to n + 1 is a set of numbers, and that set is Nat.    *)
(* The other proof modules use it to unroll the recursive functions of the *)
(* model (a replay dart by dart, a match leg by leg) and to reason about   *)
(* records of any length.                                                  *)
(***************************************************************************)
EXTENDS Integers, Functions, FiniteSetTheorems, WellFoundedInduction, TLAPS

(* Every set of numbers that is not empty has a least one: among the       *)
(* intervals 0..n that it bounds, one lies strictly within no other.       *)
LEMMA LeastNumber ==
    ASSUME NEW T \in SUBSET Nat, T # {}
    PROVE  \E n \in T : \A m \in T : n <= m
<1>1. PICK k \in T : TRUE
  OBVIOUS
<1> DEFINE U == {0..n : n \in {m \in T : m <= k}}
<1>2. IsFiniteSet(0..k)
  BY FS_Interval
<1>3. U \subseteq SUBSET (0..k) /\ U # {}
  OBVIOUS
<1>4. PICK x \in U : \A y \in U : ~(<<y, x>> \in StrictSubsetOrdering(0..k))
  <2> HIDE DEF U
  <2>1. IsWellFoundedOn(StrictSubsetOrdering(0..k), SUBSET (0..k))
    BY <1>2, FS_FiniteSubsetsOfFinite, FS_StrictSubsetOrderingWellFounded
  <2> QED BY <1>3, <2>1, WFMin
<1>5. PICK n \in T : n <= k /\ x = 0..n
  OBVIOUS
<1>6. ASSUME NEW m \in T, m < n
      PROVE  FALSE
  <2>1. 0..m \in U
    BY <1>5, <1>6
  <2>2. 0..m \subseteq 0..n /\ 0..m # 0..n
    BY <1>6
  <2>3. <<0..m, x>> \in StrictSubsetOrdering(0..k)
    BY <1>3, <1>5, <2>1, <2>2 DEF StrictSubsetOrdering
  <2> QED BY <1>4, <2>1, <2>3
<1> QED BY <1>6

(* The principle of induction.                                             *)
LEMMA Induction ==
    ASSUME NEW T \in SUBSET Nat, 0 \in T, \A n \in T : n + 1 \in T
    PROVE  T = Nat
<1>1. SUFFICES ASSUME Nat \ T # {}
               PROVE  FALSE
  OBVIOUS
<1>2. PICK n \in Nat \ T : \A m \in Nat \ T : n <= m
  BY <1>1, LeastNumber
<1>3. n # 0 /\ n - 1 \in Nat
  OBVIOUS
<1>4. n - 1 \in T
  BY <1>2, <1>3
<1> QED BY <1>3, <1>4

(* Over the subsets of a finite set: what holds of each as soon as it      *)
(* holds of it without any one of its elements holds of them all.          *)
LEMMA SubsetInduction ==
    ASSUME NEW S, IsFiniteSet(S), NEW T \in SUBSET SUBSET S,
           \A s \in SUBSET S : (\A x \in s : s \ {x} \in T) => s \in T
    PROVE  T = SUBSET S
<1> DEFINE U == {n \in Nat : \A s \in SUBSET S : Cardinality(s) = n => s \in T}
<1>1. \A s \in SUBSET S : IsFiniteSet(s) /\ Cardinality(s) \in Nat
  BY FS_Subset, FS_CardinalityType
<1>2. 0 \in U
  <2>1. \A s \in SUBSET S : Cardinality(s) = 0 => s = {}
    BY <1>1, FS_EmptySet
  <2>2. {} \in T
    OBVIOUS
  <2> QED BY <2>1, <2>2
<1>3. ASSUME NEW n \in U
      PROVE  n + 1 \in U
  <2>1. SUFFICES ASSUME NEW s \in SUBSET S, Cardinality(s) = n + 1
                 PROVE  s \in T
    OBVIOUS
  <2>2. \A x \in s : Cardinality(s \ {x}) = n /\ s \ {x} \in SUBSET S
    BY <1>1, <2>1, FS_RemoveElement
  <2>3. \A x \in s : s \ {x} \in T
    BY <2>2
  <2> QED BY <2>3
<1>4. U = Nat
  <2> HIDE DEF U
  <2>1. U \in SUBSET Nat
    BY DEF U
  <2> QED BY <1>2, <1>3, <2>1, Induction
<1>5. \A s \in SUBSET S : s \in T
  BY <1>1, <1>4
<1> QED BY <1>5
-----------------------------------------------------------------------------
(***************************************************************************)
(* The sum of w[x] over the x of a finite set, taken in the order of       *)
(* MapThenSumSet, whose definition this repeats for a function.            *)
(***************************************************************************)
One(s) == CHOOSE x \in s : TRUE

IsSum(sum, w, S) ==
    sum = [s \in SUBSET S |-> IF s = {} THEN 0 ELSE w[One(s)] + sum[s \ {One(s)}]]

Total(w, S) == (CHOOSE sum : IsSum(sum, w, S))[S]

(* There is such a function, for every finite set.                         *)
LEMMA SumsExist ==
    ASSUME NEW S, IsFiniteSet(S), NEW w
    PROVE  \E sum : IsSum(sum, w, S)
<1> DEFINE Small(n) == {s \in SUBSET S : Cardinality(s) <= n}
           Partial(sum, n) == sum = [s \in Small(n) |-> IF s = {} THEN 0
                                                ELSE w[One(s)] + sum[s \ {One(s)}]]
           T == {n \in Nat : \E sum : Partial(sum, n)}
<1>1. \A s \in SUBSET S : /\ IsFiniteSet(s) /\ Cardinality(s) \in Nat
                          /\ s # {} => One(s) \in s
  BY FS_Subset, FS_CardinalityType DEF One
<1>2. ASSUME NEW s \in SUBSET S, s # {}
      PROVE  /\ s \ {One(s)} \in SUBSET S
             /\ Cardinality(s \ {One(s)}) = Cardinality(s) - 1
  BY <1>1, <1>2, FS_RemoveElement
<1>3. 0 \in T
  <2>1. Partial([s \in Small(0) |-> 0], 0)
    BY <1>1, FS_EmptySet
  <2> QED BY <2>1
<1>4. ASSUME NEW n \in T
      PROVE  n + 1 \in T
  <2>1. PICK sum : Partial(sum, n)
    OBVIOUS
  <2> DEFINE more == [s \in Small(n + 1) |-> IF s = {} THEN 0
                                             ELSE w[One(s)] + sum[s \ {One(s)}]]
  <2>2. \A s \in Small(n) : s \in Small(n + 1) /\ more[s] = sum[s]
    <3>1. SUFFICES ASSUME NEW s \in Small(n)
                   PROVE  s \in Small(n + 1) /\ more[s] = sum[s]
      OBVIOUS
    <3>2. s \in Small(n + 1)
      BY <1>1
    <3>3. more[s] = IF s = {} THEN 0 ELSE w[One(s)] + sum[s \ {One(s)}]
      BY <3>2
    <3>4. sum[s] = IF s = {} THEN 0 ELSE w[One(s)] + sum[s \ {One(s)}]
      BY <2>1
    <3> QED BY <3>2, <3>3, <3>4
  <2>3. ASSUME NEW s \in Small(n + 1), s # {}
        PROVE  more[s] = w[One(s)] + more[s \ {One(s)}]
    <3>1. s \ {One(s)} \in Small(n)
      BY <1>1, <1>2, <2>3
    <3> QED BY <2>2, <2>3, <3>1
  <2>4. Partial(more, n + 1)
    <3> DEFINE big == [s \in Small(n + 1) |-> IF s = {} THEN 0
                                              ELSE w[One(s)] + more[s \ {One(s)}]]
    <3>1. \A s \in Small(n + 1) : more[s] = big[s]
      BY <2>3
    <3>2. more = big
      BY <3>1
    <3> QED BY <3>2
  <2> HIDE DEF more, Partial
  <2> QED BY <2>4
<1>5. T = Nat
  <2> HIDE DEF T
  <2>1. T \in SUBSET Nat
    BY DEF T
  <2> QED BY <1>3, <1>4, <2>1, Induction
<1>6. PICK n \in Nat : n = Cardinality(S)
  BY FS_CardinalityType
<1>7. Small(n) = SUBSET S
  BY <1>6, FS_Subset
<1>8. PICK sum : Partial(sum, n)
  BY <1>5
<1>9. IsSum(sum, w, S)
  BY <1>7, <1>8 DEF IsSum
<1> QED BY <1>9

(* Two functions that agree on a set have the same sum over it, whatever   *)
(* larger sets the sums are part of.                                       *)
LEMMA SumsAgree ==
    ASSUME NEW S, NEW sum, NEW w, IsSum(sum, w, S), NEW R, NEW other, NEW v, IsSum(other, v, R),
           NEW s, IsFiniteSet(s), s \subseteq S, s \subseteq R, \A x \in s : w[x] = v[x]
    PROVE  sum[s] = other[s]
<1> DEFINE T == {r \in SUBSET s : sum[r] = other[r]}
           Step(f, u, r) == f[r] = IF r = {} THEN 0 ELSE u[One(r)] + f[r \ {One(r)}]
<1>1. \A r \in SUBSET s : Step(sum, w, r) /\ Step(other, v, r)
  BY DEF IsSum
<1>2. ASSUME NEW r \in SUBSET s, \A x \in r : r \ {x} \in T
      PROVE  r \in T
  <2>1. r # {} => One(r) \in r
    BY DEF One
  <2>2. r # {} => r \ {One(r)} \in T /\ w[One(r)] = v[One(r)]
    BY <1>2, <2>1
  <2> QED BY <1>1, <2>2
<1>3. T = SUBSET s
  <2> HIDE DEF T
  <2>1. T \in SUBSET SUBSET s
    BY DEF T
  <2> QED BY <1>2, <2>1, SubsetInduction
<1>4. s \in T
  BY <1>3
<1> QED BY <1>4

(* Any such function of a larger set gives the total of the smaller.       *)
LEMMA TotalIs ==
    ASSUME NEW S, IsFiniteSet(S), NEW w, NEW R, S \subseteq R, NEW sum, IsSum(sum, w, R)
    PROVE  sum[S] = Total(w, S)
<1>1. IsSum(CHOOSE f : IsSum(f, w, S), w, S)
  BY SumsExist
<1> QED BY <1>1, SumsAgree DEF Total

(* Totals of functions that agree on the set are equal.                    *)
LEMMA SameTotal ==
    ASSUME NEW S, IsFiniteSet(S), NEW w, NEW v, \A x \in S : w[x] = v[x]
    PROVE  Total(w, S) = Total(v, S)
<1>1. PICK sum, other : IsSum(sum, w, S) /\ IsSum(other, v, S)
  BY SumsExist
<1>2. sum[S] = other[S]
  BY <1>1, SumsAgree
<1> QED BY <1>1, <1>2, TotalIs

(* A sum is that of what is left when any one element is taken out, plus   *)
(* that element's weight.                                                  *)
LEMMA TotalOf ==
    ASSUME NEW S, IsFiniteSet(S), NEW w, \A x \in S : w[x] \in Int
    PROVE  /\ Total(w, {}) = 0
           /\ Total(w, S) \in Int
           /\ \A x \in S : Total(w, S) = w[x] + Total(w, S \ {x})
<1>1. PICK sum : IsSum(sum, w, S)
  BY SumsExist
<1>2. \A s \in SUBSET S : IsFiniteSet(s) /\ sum[s] = Total(w, s) /\ (s # {} => One(s) \in s)
  BY <1>1, FS_Subset, TotalIs DEF One
<1>3. \A s \in SUBSET S : sum[s] = IF s = {} THEN 0 ELSE w[One(s)] + sum[s \ {One(s)}]
  BY <1>1 DEF IsSum
<1>4. \A s \in SUBSET S : sum[s] \in Int
  <2> DEFINE T == {s \in SUBSET S : sum[s] \in Int}
  <2>1. ASSUME NEW s \in SUBSET S, \A x \in s : s \ {x} \in T
        PROVE  s \in T
    <3>1. CASE s = {}
      <4>1. sum[s] = 0
        BY <1>3, <3>1
      <4> QED BY <4>1
    <3>2. CASE s # {}
      <4>1. One(s) \in s /\ w[One(s)] \in Int /\ sum[s \ {One(s)}] \in Int
        BY <1>2, <2>1, <3>2
      <4>2. PICK a \in Int, b \in Int : a = w[One(s)] /\ b = sum[s \ {One(s)}]
        BY <4>1
      <4>3. sum[s] = a + b
        BY <1>3, <3>2, <4>2
      <4>4. sum[s] \in Int
        BY <4>2, <4>3
      <4> QED BY <4>4
    <3> QED BY <3>1, <3>2
  <2>2. T = SUBSET S
    <3> HIDE DEF T
    <3>1. T \in SUBSET SUBSET S
      BY DEF T
    <3> QED BY <2>1, <3>1, SubsetInduction
  <2> QED BY <2>2
<1>5. \A s \in SUBSET S : \A x \in s : sum[s] = w[x] + sum[s \ {x}]
  <2> DEFINE T == {s \in SUBSET S : \A x \in s : sum[s] = w[x] + sum[s \ {x}]}
  <2>1. ASSUME NEW s \in SUBSET S, \A x \in s : s \ {x} \in T
        PROVE  s \in T
    <3>1. SUFFICES ASSUME NEW x \in s
                   PROVE  sum[s] = w[x] + sum[s \ {x}]
      OBVIOUS
    <3>2. PICK y : y \in s /\ y = One(s) /\ sum[s] = w[y] + sum[s \ {y}]
      BY <1>2, <1>3
    <3>3. CASE x = y
      BY <3>2, <3>3
    <3>4. CASE x # y
      <4>1. PICK rest : rest = (s \ {y}) \ {x} /\ rest = (s \ {x}) \ {y}
        OBVIOUS
      <4>2. sum[s \ {y}] = w[x] + sum[rest] /\ sum[s \ {x}] = w[y] + sum[rest]
        BY <2>1, <3>2, <3>4, <4>1
      <4>3. rest \in SUBSET S /\ w[x] \in Int /\ w[y] \in Int
        BY <3>2, <4>1
      <4>4. PICK a \in Int, b \in Int, c \in Int : a = w[x] /\ b = w[y] /\ c = sum[rest]
        BY <1>4, <4>3
      <4>5. sum[s] = b + (a + c) /\ sum[s \ {x}] = b + c
        BY <3>2, <4>2, <4>4
      <4> QED BY <4>4, <4>5
    <3> QED BY <3>3, <3>4
  <2>2. T = SUBSET S
    <3> HIDE DEF T
    <3>1. T \in SUBSET SUBSET S
      BY DEF T
    <3> QED BY <2>1, <3>1, SubsetInduction
  <2> QED BY <2>2
<1>6. Total(w, {}) = 0
  <2>1. {} \in SUBSET S
    OBVIOUS
  <2> QED BY <1>2, <1>3, <2>1
<1>7. S \in SUBSET S /\ \A x \in S : S \ {x} \in SUBSET S
  OBVIOUS
<1>8. Total(w, S) \in Int
  BY <1>2, <1>4, <1>7
<1>9. \A x \in S : Total(w, S) = w[x] + Total(w, S \ {x})
  BY <1>2, <1>5, <1>7
<1> QED BY <1>6, <1>8, <1>9

(***************************************************************************)
(* Sums of a function over a finite set: over sets apart, over the image   *)
(* of a set, over an interval and over rows of numbers.                    *)
(***************************************************************************)

(* Induction over an interval.                                             *)
LEMMA UpTo ==
    ASSUME NEW n \in Nat, NEW T, 0 \in T, \A i \in 0..n - 1 : i \in T => i + 1 \in T
    PROVE  0..n \subseteq T
<1> DEFINE U == {k \in Nat : k > n \/ k \in T}
<1>1. 0 \in U
  OBVIOUS
<1>2. \A k \in U : k + 1 \in U
  OBVIOUS
<1>3. U = Nat
  <2> HIDE DEF U
  <2>1. U \in SUBSET Nat
    BY DEF U
  <2> QED BY <1>1, <1>2, <2>1, Induction
<1> QED BY <1>3

(* The sum over two sets that share no element.                            *)
LEMMA TotalUnion ==
    ASSUME NEW A, IsFiniteSet(A), NEW B, IsFiniteSet(B), A \cap B = {},
           NEW w, \A x \in A \cup B : w[x] \in Int
    PROVE  /\ Total(w, A) \in Int /\ Total(w, B) \in Int
           /\ Total(w, A \cup B) = Total(w, A) + Total(w, B)
<1> DEFINE T == {s \in SUBSET B : Total(w, A \cup s) = Total(w, A) + Total(w, s)}
<1>1. \A s \in SUBSET B : IsFiniteSet(s) /\ IsFiniteSet(A \cup s)
  BY FS_Subset, FS_Union
<1>2. Total(w, A) \in Int /\ \A s \in SUBSET B : Total(w, s) \in Int
  BY <1>1, TotalOf
<1>3. ASSUME NEW s \in SUBSET B, \A x \in s : s \ {x} \in T
      PROVE  s \in T
  <2>1. CASE s = {}
    <3>1. Total(w, {}) = 0
      BY <1>1, TotalOf
    <3>2. Total(w, A \cup s) = Total(w, A) + Total(w, s)
      BY <1>2, <2>1, <3>1
    <3> QED BY <3>2
  <2>2. CASE s # {}
    <3>1. PICK x : x \in s
      BY <2>2
    <3>2. PICK r : r = s \ {x}
      OBVIOUS
    <3>20. x \in A \cup s /\ r \in SUBSET B /\ (A \cup s) \ {x} = A \cup r
      BY <3>1, <3>2
    <3>3. \A y \in A \cup s : w[y] \in Int
      OBVIOUS
    <3>4. Total(w, A \cup s) = w[x] + Total(w, A \cup r)
      <4>1. PICK u : u = A \cup s
        OBVIOUS
      <4>2. IsFiniteSet(u) /\ x \in u /\ u \ {x} = A \cup r /\ \A y \in u : w[y] \in Int
        BY <1>1, <3>20, <3>3, <4>1
      <4>3. Total(w, u) = w[x] + Total(w, u \ {x})
        BY <4>2, TotalOf
      <4> QED BY <4>1, <4>2, <4>3
    <3>5. Total(w, s) = w[x] + Total(w, r)
      BY <1>1, <3>1, <3>2, <3>3, TotalOf
    <3>6. Total(w, A \cup r) = Total(w, A) + Total(w, r)
      BY <1>3, <3>1, <3>2
    <3>7. w[x] \in Int /\ Total(w, r) \in Int
      BY <1>2, <3>1, <3>20
    <3> QED BY <1>2, <3>4, <3>5, <3>6, <3>7
  <2> QED BY <2>1, <2>2
<1>4. T = SUBSET B
  <2> HIDE DEF T
  <2>1. T \in SUBSET SUBSET B
    BY DEF T
  <2> QED BY <1>3, <2>1, SubsetInduction
<1>5. B \in T
  BY <1>4
<1> QED BY <1>2, <1>5

OneToOne(f, S, R) ==
    /\ \A y : y \in R <=> \E x \in S : y = f[x]
    /\ \A x, y \in S : f[x] = f[y] => x = y

(* A sum may be taken over the images of the elements, if they differ.     *)
LEMMA TotalImage ==
    ASSUME NEW S, IsFiniteSet(S), NEW f, NEW R, OneToOne(f, S, R),
           NEW w, NEW v, \A x \in S : v[x] = w[f[x]] /\ v[x] \in Int
    PROVE  IsFiniteSet(R) /\ Total(w, R) = Total(v, S)
<1> DEFINE Im(s) == {f[x] : x \in s}
<1> DEFINE T == {s \in SUBSET S : IsFiniteSet(Im(s)) /\ Total(w, Im(s)) = Total(v, s)}
<1>0. R = {f[x] : x \in S} /\ \A x, y \in S : f[x] = f[y] => x = y
  BY DEF OneToOne
<1>1. \A s \in SUBSET S : IsFiniteSet(s) /\ \A x \in s : v[x] \in Int
  BY FS_Subset
<1>2. ASSUME NEW s \in SUBSET S, \A x \in s : s \ {x} \in T
      PROVE  s \in T
  <2>1. CASE s = {}
    <3>1. Im(s) = {}
      BY <2>1
    <3>2. IsFiniteSet(Im(s)) /\ \A y \in Im(s) : w[y] \in Int
      BY <3>1, FS_EmptySet
    <3>3. Total(w, Im(s)) = 0 /\ Total(v, s) = 0
      BY <1>1, <2>1, <3>1, <3>2, TotalOf
    <3> QED BY <3>2, <3>3
  <2>2. CASE s # {}
    <3>1. PICK x : x \in s
      BY <2>2
    <3>2. PICK r, m, e : r = s \ {x} /\ m = Im(r) /\ e = f[x]
      OBVIOUS
    <3>3. IsFiniteSet(m) /\ Total(w, m) = Total(v, r)
      BY <1>2, <3>1, <3>2
    <3>4. PICK n : n = Im(s)
      OBVIOUS
    <3>41. n = m \cup {e}
      BY <3>1, <3>2, <3>4
    <3>42. e \notin m
      BY <1>0, <3>1, <3>2
    <3>5. IsFiniteSet(n) /\ n \ {e} = m /\ e \in n
      BY <3>3, <3>41, <3>42, FS_AddElement
    <3>6. \A y \in n : w[y] \in Int
      BY <3>4, <1>1
    <3>7. Total(w, n) = w[e] + Total(w, m)
      BY <3>5, <3>6, TotalOf
    <3>8. Total(v, s) = v[x] + Total(v, r)
      <4>1. IsFiniteSet(s) /\ \A y \in s : v[y] \in Int
        BY <1>1
      <4>2. Total(v, s) = v[x] + Total(v, s \ {x})
        BY <3>1, <4>1, TotalOf
      <4> QED BY <3>2, <4>2
    <3>9. v[x] = w[e]
      BY <3>1, <3>2
    <3>10. IsFiniteSet(n) /\ Total(w, n) = Total(v, s)
      BY <3>3, <3>5, <3>7, <3>8, <3>9
    <3> QED BY <3>4, <3>10
  <2> QED BY <2>1, <2>2
<1>3. T = SUBSET S
  <2> HIDE DEF T
  <2>1. T \in SUBSET SUBSET S
    BY DEF T
  <2> QED BY <1>2, <2>1, SubsetInduction
<1>4. S \in T
  BY <1>3
<1> QED BY <1>0, <1>4

(* What weighs nothing adds nothing.                                       *)
LEMMA TotalZero ==
    ASSUME NEW S, IsFiniteSet(S), NEW w, \A x \in S : w[x] = 0
    PROVE  Total(w, S) = 0
<1> DEFINE T == {s \in SUBSET S : Total(w, s) = 0}
<1>1. \A s \in SUBSET S : IsFiniteSet(s) /\ \A x \in s : w[x] \in Int /\ w[x] = 0
  BY FS_Subset
<1>2. ASSUME NEW s \in SUBSET S, \A x \in s : s \ {x} \in T
      PROVE  s \in T
  <2>1. CASE s = {}
    BY <1>1, <2>1, TotalOf
  <2>2. CASE s # {}
    <3>1. PICK x : x \in s
      BY <2>2
    <3>2. Total(w, s) = w[x] + Total(w, s \ {x}) /\ Total(w, s \ {x}) = 0 /\ w[x] = 0
      BY <1>1, <1>2, <3>1, TotalOf
    <3>3. Total(w, s) = 0
      BY <3>2
    <3> QED BY <3>3
  <2> QED BY <2>1, <2>2
<1>3. T = SUBSET S
  <2> HIDE DEF T
  <2>1. T \in SUBSET SUBSET S
    BY DEF T
  <2> QED BY <1>2, <2>1, SubsetInduction
<1> QED BY <1>3

(* So elements that weigh nothing may be left out.                         *)
LEMMA TotalWithout ==
    ASSUME NEW S, IsFiniteSet(S), NEW w, \A x \in S : w[x] \in Int,
           NEW R \in SUBSET S, \A x \in S \ R : w[x] = 0
    PROVE  IsFiniteSet(R) /\ Total(w, S) = Total(w, R)
<1>0. PICK Z : Z = S \ R
  OBVIOUS
<1>1. S = R \cup Z /\ R \cap Z = {} /\ Z \subseteq S /\ R \subseteq S /\ \A x \in Z : w[x] = 0
  BY <1>0
<1>2. IsFiniteSet(R) /\ IsFiniteSet(Z)
  BY <1>1, FS_Subset
<1>3. Total(w, S) = Total(w, R) + Total(w, Z) /\ Total(w, R) \in Int
  BY <1>1, <1>2, TotalUnion
<1>4. Total(w, Z) = 0
  BY <1>1, <1>2, TotalZero
<1> QED BY <1>2, <1>3, <1>4

(* The sum of the first n + 1 of a series.                                 *)
LEMMA TotalNext ==
    ASSUME NEW n \in Nat, NEW w, \A i \in 1..n + 1 : w[i] \in Int
    PROVE  /\ Total(w, 1..n) \in Int
           /\ Total(w, 1..n + 1) = Total(w, 1..n) + w[n + 1]
<1>1. PICK A, B : A = 1..n /\ B = 1..n + 1 /\ A = B \ {n + 1} /\ n + 1 \in B
  OBVIOUS
<1>2. IsFiniteSet(A) /\ IsFiniteSet(B)
  <2>1. n + 1 \in Int
    OBVIOUS
  <2> QED BY <1>1, <2>1, FS_Interval
<1>3. (\A x \in A : w[x] \in Int) /\ \A x \in B : w[x] \in Int
  BY <1>1
<1>4. Total(w, A) \in Int /\ Total(w, B) = w[n + 1] + Total(w, A)
  <2>1. Total(w, A) \in Int
    BY <1>2, <1>3, TotalOf
  <2>2. PICK x : x = n + 1
    OBVIOUS
  <2>3. Total(w, B) = w[x] + Total(w, B \ {x})
    BY <1>1, <1>2, <1>3, <2>2, TotalOf
  <2> QED BY <1>1, <2>1, <2>2, <2>3
<1>5. w[n + 1] \in Int
  BY <1>1, <1>3
<1> QED BY <1>1, <1>4, <1>5

Row(len, i) == {<<i, j>> : j \in 1..len[i]}

Pairs(len, n) == UNION {Row(len, i) : i \in 1..n}

(* The numbers w, row by row.                                              *)
InRows(w, v, sums, len, n) ==
    /\ \A i \in 1..n : len[i] \in Nat
    /\ \A i \in 1..n : \A j \in 1..len[i] : w[<<i, j>>] = v[i][j] /\ v[i][j] \in Int
    /\ \A i \in 1..n : sums[i] = Total(v[i], 1..len[i])

(* A sum over pairs is the sum of the sums of its rows.                    *)
LEMMA TotalRows ==
    ASSUME NEW n \in Nat, NEW len, NEW w, NEW v, NEW sums, InRows(w, v, sums, len, n)
    PROVE  IsFiniteSet(Pairs(len, n)) /\ Total(w, Pairs(len, n)) = Total(sums, 1..n)
<1> DEFINE T == {k \in 0..n : /\ IsFiniteSet(Pairs(len, k))
                              /\ Total(w, Pairs(len, k)) = Total(sums, 1..k)}
<1>0. /\ \A i \in 1..n : len[i] \in Nat
      /\ \A i \in 1..n : \A j \in 1..len[i] : w[<<i, j>>] = v[i][j] /\ v[i][j] \in Int
      /\ \A i \in 1..n : sums[i] = Total(v[i], 1..len[i])
  BY DEF InRows
<1>1. \A i \in 1..n : sums[i] \in Int /\ IsFiniteSet(1..len[i])
  <2> SUFFICES ASSUME NEW i \in 1..n
               PROVE  sums[i] \in Int /\ IsFiniteSet(1..len[i])
    OBVIOUS
  <2>1. PICK m \in Nat, row \in {v[i]} : m = len[i] /\ row = v[i]
    BY <1>0
  <2>2. PICK M : M = 1..m
    OBVIOUS
  <2>3. IsFiniteSet(M)
    BY <2>2, FS_Interval
  <2>4. \A j \in M : row[j] \in Int
    BY <1>0, <2>1, <2>2
  <2>5. Total(row, M) \in Int
    BY <2>3, <2>4, TotalOf
  <2> QED BY <1>0, <2>1, <2>2, <2>3, <2>5
<1>2. 0 \in T
  <2>1. Pairs(len, 0) = {} /\ 1..0 = {}
    BY DEF Pairs
  <2>2. IsFiniteSet({}) /\ Total(w, {}) = 0 /\ Total(sums, {}) = 0
    BY FS_EmptySet, TotalZero
  <2>3. IsFiniteSet(Pairs(len, 0)) /\ Total(w, Pairs(len, 0)) = Total(sums, 1..0)
    BY <2>1, <2>2
  <2>4. 0 \in 0..n
    OBVIOUS
  <2> QED BY <2>3, <2>4
<1>3. ASSUME NEW k \in 0..n - 1, k \in T
      PROVE  k + 1 \in T
  <2>1. PICK i \in 1..n, A \in {Pairs(len, k)}, R \in {Row(len, k + 1)} :
            i = k + 1 /\ A = Pairs(len, k) /\ R = Row(len, i)
    OBVIOUS
  <2>2. PICK m \in Nat, row \in {v[i]} : m = len[i] /\ row = v[i]
    BY <1>0
  <2>3. R = {<<i, j>> : j \in 1..m}
    BY <2>1, <2>2 DEF Row
  <2>4. Pairs(len, i) = A \cup R
    <3>1. \A h \in 1..i : h \in 1..k \/ h = i
      BY <2>1
    <3>2. \A h \in 1..k : h \in 1..i
      BY <2>1
    <3> QED BY <2>1, <3>1, <3>2 DEF Pairs
  <2>5. A \cap R = {}
    <3>1. \A p \in A : p[1] \in 1..k
      BY <2>1 DEF Pairs, Row
    <3>2. \A p \in R : p[1] = k + 1
      BY <2>1, <2>3
    <3>3. ~(k + 1 \in 1..k)
      OBVIOUS
    <3> QED BY <3>1, <3>2, <3>3
  <2>6. PICK f : f = [j \in 1..m |-> <<i, j>>]
    OBVIOUS
  <2>7. /\ \A y : y \in R <=> \E j \in 1..m : y = f[j]
        /\ \A x, y \in 1..m : f[x] = f[y] => x = y
    BY <2>3, <2>6
  <2>8. \A j \in 1..m : row[j] = w[f[j]] /\ row[j] \in Int
    BY <1>0, <2>2, <2>6
  <2>9. IsFiniteSet(1..m)
    BY FS_Interval
  <2>10. IsFiniteSet(R) /\ Total(w, R) = Total(row, 1..m)
    <3>1. PICK M : M = 1..m
      OBVIOUS
    <3>2. OneToOne(f, M, R) /\ IsFiniteSet(M) /\ \A j \in M : row[j] = w[f[j]] /\ row[j] \in Int
      BY <2>7, <2>8, <2>9, <3>1 DEF OneToOne
    <3>3. IsFiniteSet(R) /\ Total(w, R) = Total(row, M)
      BY <3>2, TotalImage
    <3> QED BY <3>1, <3>3
  <2>11. IsFiniteSet(A) /\ Total(w, A) = Total(sums, 1..k)
    BY <1>3, <2>1
  <2>12. \A p \in A \cup R : w[p] \in Int
    <3>1. \A p \in R : w[p] \in Int
      BY <2>7, <2>8
    <3>2. \A h \in 1..k : h \in 1..n
      OBVIOUS
    <3>3. \A p \in A : w[p] \in Int
      BY <1>0, <2>1, <3>2 DEF Pairs, Row
    <3> QED BY <3>1, <3>3
  <2>13. /\ Total(w, A) \in Int /\ Total(w, R) \in Int
         /\ Total(w, A \cup R) = Total(w, A) + Total(w, R)
    BY <2>5, <2>10, <2>11, <2>12, TotalUnion
  <2>14. Total(sums, 1..k) \in Int /\ Total(sums, 1..k + 1) = Total(sums, 1..k) + sums[k + 1]
    <3>1. \A h \in 1..k + 1 : sums[h] \in Int
      BY <1>1
    <3> QED BY <3>1, TotalNext
  <2>15. IsFiniteSet(A \cup R)
    BY <2>10, <2>11, FS_Union
  <2>16. sums[i] = Total(row, 1..m)
    BY <1>0, <2>2
  <2>17. Total(w, Pairs(len, i)) = Total(sums, 1..i)
    BY <2>1, <2>4, <2>10, <2>11, <2>13, <2>14, <2>16
  <2>18. IsFiniteSet(Pairs(len, i))
    BY <2>4, <2>15
  <2>19. i \in T
    BY <2>17, <2>18
  <2> QED BY <2>1, <2>19
<1> HIDE DEF T
<1>4. 0..n \subseteq T
  BY <1>2, <1>3, UpTo
<1> QED BY <1>4 DEF T

(* A sum of natural numbers is one.                                        *)
LEMMA TotalNat ==
    ASSUME NEW S, IsFiniteSet(S), NEW w, \A x \in S : w[x] \in Nat
    PROVE  Total(w, S) \in Nat
<1> DEFINE T == {s \in SUBSET S : Total(w, s) \in Nat}
<1>1. ASSUME NEW s \in SUBSET S, \A x \in s : s \ {x} \in T
      PROVE  s \in T
  <2>1. IsFiniteSet(s) /\ \A x \in s : w[x] \in Int
    BY FS_Subset
  <2>2. /\ Total(w, {}) = 0
        /\ \A x \in s : Total(w, s) = w[x] + Total(w, s \ {x})
    BY <2>1, TotalOf
  <2>3. CASE s = {}
    BY <2>2, <2>3
  <2>4. ASSUME NEW x \in s
        PROVE  s \in T
    <3>1. PICK k, m : k = w[x] /\ m = Total(w, s \ {x})
      OBVIOUS
    <3>2. k \in Nat /\ m \in Nat
      BY <1>1, <2>4, <3>1
    <3>3. Total(w, s) = k + m /\ k + m \in Nat
      BY <2>2, <2>4, <3>1, <3>2
    <3> QED BY <3>3
  <2> QED BY <2>3, <2>4
<1> HIDE DEF T
<1>2. T \in SUBSET SUBSET S
  BY DEF T
<1>3. T = SUBSET S
  BY <1>1, <1>2, SubsetInduction
<1> QED BY <1>3 DEF T
-----------------------------------------------------------------------------
(***************************************************************************)
(* Counting as a sum, sums and counts over the image of a set, and over    *)
(* the parts that a function sorts a set into.                             *)
(***************************************************************************)

(* To count is to weigh everything one.                                    *)
LEMMA CountIsTotal ==
    ASSUME NEW S, IsFiniteSet(S), NEW w, \A x \in S : w[x] = 1
    PROVE  Cardinality(S) = Total(w, S)
<1> DEFINE T == {s \in SUBSET S : Cardinality(s) = Total(w, s)}
<1>1. ASSUME NEW s \in SUBSET S, \A x \in s : s \ {x} \in T
      PROVE  s \in T
  <2>1. IsFiniteSet(s) /\ \A x \in s : w[x] \in Int
    BY FS_Subset
  <2>2. /\ Total(w, {}) = 0
        /\ \A x \in s : Total(w, s) = w[x] + Total(w, s \ {x})
    BY <2>1, TotalOf
  <2>3. CASE s = {}
    BY <2>2, <2>3, FS_EmptySet
  <2>4. ASSUME NEW x \in s
        PROVE  s \in T
    <3>1. PICK k, n, m : k = Cardinality(s \ {x}) /\ m = Total(w, s \ {x}) /\ n = Cardinality(s)
      OBVIOUS
    <3>2. n \in Nat /\ k = n - 1
      BY <2>1, <2>4, <3>1, FS_RemoveElement, FS_CardinalityType
    <3>3. k = m
      BY <1>1, <2>4, <3>1
    <3>4. Total(w, s) = 1 + m
      BY <2>2, <2>4, <3>1
    <3>5. n = Total(w, s)
      BY <3>2, <3>3, <3>4
    <3> QED BY <3>1, <3>5
  <2> QED BY <2>3, <2>4
<1>2. T = SUBSET S
  <2> HIDE DEF T
  <2>1. T \in SUBSET SUBSET S
    BY DEF T
  <2> QED BY <1>1, <2>1, SubsetInduction
<1> QED BY <1>2

(* A set and its image are as many, if the images differ.                  *)
LEMMA ImageCount ==
    ASSUME NEW S, IsFiniteSet(S), NEW f, NEW R, OneToOne(f, S, R)
    PROVE  IsFiniteSet(R) /\ Cardinality(R) = Cardinality(S)
<1>1. PICK v, w : v = [x \in S |-> 1] /\ w = [y \in R |-> 1]
  OBVIOUS
<1>2. \A x \in S : f[x] \in R
  BY DEF OneToOne
<1>3. \A x \in S : v[x] = w[f[x]] /\ v[x] \in Int
  BY <1>1, <1>2
<1>4. IsFiniteSet(R) /\ Total(w, R) = Total(v, S)
  BY <1>3, TotalImage
<1>5. Cardinality(S) = Total(v, S)
  BY <1>1, CountIsTotal
<1>6. Cardinality(R) = Total(w, R)
  BY <1>1, <1>4, CountIsTotal
<1> QED BY <1>4, <1>5, <1>6

(* What is one to one on a set is so on a part of it.                      *)
LEMMA PartOneToOne ==
    ASSUME NEW f, NEW S, NEW R, OneToOne(f, S, R), NEW P \in SUBSET S,
           NEW Q, \A y : y \in Q <=> \E x \in P : y = f[x]
    PROVE  OneToOne(f, P, Q)
BY DEF OneToOne

(* The parts that g sorts a set into, and the sums of each.                *)
Sorted(sums, w, g, S, R) ==
    /\ \A x \in S : g[x] \in R /\ w[x] \in Int
    /\ \A y \in R : sums[y] = Total(w, {x \in S : g[x] = y})

(* A sum over a set is that of the sums over its parts.                    *)
LEMMA TotalBy ==
    ASSUME NEW S, IsFiniteSet(S), NEW R, IsFiniteSet(R), NEW g, NEW w, NEW sums,
           Sorted(sums, w, g, S, R)
    PROVE  /\ \A y \in R : sums[y] \in Int
           /\ Total(w, S) = Total(sums, R)
<1>a. /\ \A x \in S : g[x] \in R
      /\ \A x \in S : w[x] \in Int
      /\ \A y \in R : sums[y] = Total(w, {x \in S : g[x] = y})
  BY DEF Sorted
<1> USE <1>a
<1> DEFINE In(r) == {x \in S : g[x] \in r}
<1> DEFINE T == {r \in SUBSET R : Total(w, In(r)) = Total(sums, r)}
<1>1. \A P \in SUBSET S : IsFiniteSet(P) /\ Total(w, P) \in Int
  <2> SUFFICES ASSUME NEW P \in SUBSET S
               PROVE  IsFiniteSet(P) /\ Total(w, P) \in Int
    OBVIOUS
  <2>1. IsFiniteSet(P) /\ \A x \in P : w[x] \in Int
    BY FS_Subset
  <2> QED BY <2>1, TotalOf
<1>2. \A y \in R : sums[y] \in Int
  <2> SUFFICES ASSUME NEW y \in R
               PROVE  sums[y] \in Int
    OBVIOUS
  <2>1. PICK P : P = {x \in S : g[x] = y}
    OBVIOUS
  <2>2. sums[y] = Total(w, P) /\ P \in SUBSET S
    BY <2>1
  <2> QED BY <1>1, <2>2
<1>3. ASSUME NEW r \in SUBSET R, \A y \in r : r \ {y} \in T
      PROVE  r \in T
  <2>1. IsFiniteSet(r) /\ \A y \in r : sums[y] \in Int
    BY <1>2, FS_Subset
  <2>2. CASE r = {}
    <3>1. In(r) = {}
      BY <2>2
    <3>2. Total(w, {}) = 0 /\ Total(sums, {}) = 0
      BY FS_EmptySet, TotalZero
    <3> QED BY <2>2, <3>1, <3>2
  <2>3. ASSUME NEW y \in r
        PROVE  r \in T
    <3>1. PICK A, B, C : /\ A = In(r \ {y}) /\ B = {x \in S : g[x] = y}
                         /\ C = In(r)
      OBVIOUS
    <3>2. A \cap B = {} /\ A \cup B = C /\ A \in SUBSET S /\ B \in SUBSET S
      BY <2>3, <3>1
    <3>3. \A x \in A \cup B : w[x] \in Int
      BY <3>2
    <3>4. Total(w, C) = Total(w, A) + Total(w, B) /\ Total(w, A) \in Int /\ Total(w, B) \in Int
      BY <1>1, <3>2, <3>3, TotalUnion
    <3>5. Total(w, A) = Total(sums, r \ {y})
      BY <1>3, <2>3, <3>1
    <3>6. Total(w, B) = sums[y]
      BY <2>3, <3>1
    <3>7. Total(sums, r) = sums[y] + Total(sums, r \ {y})
      BY <2>1, <2>3, TotalOf
    <3>8. Total(w, C) = Total(sums, r)
      BY <3>4, <3>5, <3>6, <3>7
    <3> QED BY <3>1, <3>8
  <2> QED BY <2>2, <2>3
<1>4. T = SUBSET R
  <2> HIDE DEF T
  <2>1. T \in SUBSET SUBSET R
    BY DEF T
  <2> QED BY <1>3, <2>1, SubsetInduction
<1>5. In(R) = S
  OBVIOUS
<1>6. R \in T
  BY <1>4
<1> HIDE DEF In
<1>7. Total(w, In(R)) = Total(sums, R)
  BY <1>6
<1> HIDE DEF T
<1> QED BY <1>2, <1>5, <1>7

(* Nor do the parts lose or gain anything in number.                       *)
LEMMA CountBy ==
    ASSUME NEW S, IsFiniteSet(S), NEW R, IsFiniteSet(R), NEW g, \A x \in S : g[x] \in R,
           NEW sums, \A y \in R : sums[y] = Cardinality({x \in S : g[x] = y})
    PROVE  Cardinality(S) = Total(sums, R)
<1>1. PICK w : w = [x \in S |-> 1]
  OBVIOUS
<1>2. ASSUME NEW y \in R
      PROVE  sums[y] = Total(w, {x \in S : g[x] = y})
  <2>1. PICK P : P = {x \in S : g[x] = y}
    OBVIOUS
  <2>2. IsFiniteSet(P) /\ \A x \in P : w[x] = 1
    BY <1>1, <2>1, FS_Subset
  <2>3. Cardinality(P) = Total(w, P)
    BY <2>2, CountIsTotal
  <2> QED BY <2>1, <2>3
<1>3. \A x \in S : w[x] \in Int
  BY <1>1
<1>4. Total(w, S) = Total(sums, R)
  <2>1. Sorted(sums, w, g, S, R)
    BY <1>2, <1>3 DEF Sorted
  <2> QED BY <2>1, TotalBy
<1>5. Cardinality(S) = Total(w, S)
  BY <1>1, CountIsTotal
<1> QED BY <1>4, <1>5

(* The sum of a function, as the community modules have it.                *)
LEMMA SumIs ==
    ASSUME NEW w, IsFiniteSet(DOMAIN w)
    PROVE  SumFunction(w) = Total(w, DOMAIN w)
<1>1. PICK S : S = DOMAIN w
  OBVIOUS
<1> DEFINE Solves(sum) ==
             sum = [s \in SUBSET S |->
                      IF s = {} THEN 0
                      ELSE w[CHOOSE x \in s : TRUE] + sum[s \ {CHOOSE x \in s : TRUE}]]
           sum == CHOOSE f : Solves(f)
<1>2. SumFunction(w) = sum[S]
  BY <1>1 DEF SumFunction, SumFunctionOnSet, FoldFunctionOnSet, MapThenFoldSet
<1>3. \A f : Solves(f) <=> IsSum(f, w, S)
  BY DEF IsSum, One
<1>4. IsSum(sum, w, S)
  <2>1. PICK f : IsSum(f, w, S)
    BY <1>1, SumsExist
  <2>2. \E g : Solves(g)
    <3>1. Solves(f)
      BY <1>3, <2>1
    <3> HIDE DEF Solves
    <3> QED BY <3>1
  <2> HIDE DEF Solves
  <2>3. Solves(sum)
    BY <2>2
  <2> QED BY <1>3, <2>3
<1>5. sum[S] = Total(w, S)
  <2> HIDE DEF sum
  <2> QED BY <1>1, <1>4, TotalIs
<1> QED BY <1>1, <1>2, <1>5
=============================================================================
