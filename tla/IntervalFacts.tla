----------------------------- MODULE IntervalFacts -----------------------------
(***************************************************************************)
(* Facts about intervals of numbers, and about the recursive functions on  *)
(* them: every argument here is one about a least element.                 *)
(***************************************************************************)
EXTENDS Integers, FiniteSetsExt, TLAPS, WellFoundedInduction, NaturalsInduction

(* A set of natural numbers has a least one. *)
LEMMA LeastNumber ==
    ASSUME NEW S \in SUBSET Nat, S # {}
    PROVE  \E n \in S : \A m \in S : n <= m
<1> DEFINE Before == {ss \in Nat \X Nat : ss[1] < ss[2]}
<1>1. IsWellFoundedOn(Before, Nat)
  BY NatLessThanWellFounded DEF OpToRel
<1> HIDE DEF Before
<1>2. PICK n \in S : \A m \in S : <<m, n>> \notin Before
  BY <1>1, WFMin
<1>3. ASSUME NEW m \in S PROVE n <= m
  <2>1. m \in Nat /\ n \in Nat /\ <<m, n>> \notin Before
    BY <1>2
  <2>2. ~(m < n)
    BY <2>1 DEF Before
  <2>3. QED
    BY <2>1, <2>2
<1>4. QED
  BY <1>3

(* A set that has 0 and, with every number below n, the next one, has all of *)
(* the numbers up to n: it has no least one that is missing.                 *)
LEMMA UpTo ==
    ASSUME NEW n \in Nat, NEW S, 0 \in S, \A i \in 0 .. n - 1 : i \in S => i + 1 \in S
    PROVE  \A i \in 0 .. n : i \in S
<1> DEFINE Missing == {i \in 0 .. n : i \notin S}
<1>1. Missing \in SUBSET Nat
  OBVIOUS
<1>2. CASE Missing # {}
  <2> HIDE DEF Missing
  <2>1. PICK i \in Missing : \A j \in Missing : i <= j
    BY <1>1, <1>2, LeastNumber
  <2>2. i \in 0 .. n /\ i \notin S /\ i # 0
    BY <2>1 DEF Missing
  <2>3. i - 1 \in 0 .. n - 1 /\ i - 1 \in 0 .. n /\ (i - 1) + 1 = i /\ ~(i <= i - 1)
    BY <2>2
  <2>4. i - 1 \notin S
    BY <2>2, <2>3
  <2>5. i - 1 \in Missing
    BY <2>3, <2>4 DEF Missing
  <2>6. QED
    BY <2>1, <2>3, <2>5
<1>3. CASE Missing = {}
  BY <1>3
<1>4. QED
  BY <1>2, <1>3

(* A function that is defined by its value at 0, and at every other number by  *)
(* its value at the one before ...                                             *)
Recursive(f, n, S, base, step) ==
    /\ f \in [0 .. n -> S] /\ f[0] = base
    /\ \A i \in 1 .. n : f[i] = step[i][f[i - 1]]

(* ... exists.                                                                 *)
LEMMA Recursion ==
    ASSUME NEW n \in Nat, NEW S, NEW base \in S, NEW step \in [1 .. n -> [S -> S]]
    PROVE  \E f : Recursive(f, n, S, base, step)
<1> DEFINE Partial(k, f) == /\ f \in [0 .. k -> S]
                            /\ f = [i \in 0 .. k |-> IF i = 0 THEN base ELSE step[i][f[i - 1]]]
           Some == {k \in 0 .. n : \E f : Partial(k, f)}
<1>1. 0 \in Some
  <2>1. Partial(0, [i \in 0 .. 0 |-> base])
    OBVIOUS
  <2> HIDE DEF Partial
  <2>2. QED
    BY <2>1
<1>2. ASSUME NEW k \in 0 .. n - 1, k \in Some
      PROVE  k + 1 \in Some
  <2>1. PICK f : Partial(k, f)
    BY <1>2
  <2> DEFINE g == [i \in 0 .. k + 1 |-> IF i = k + 1 THEN step[k + 1][f[k]] ELSE f[i]]
  <2>2. f[k] \in S /\ step[k + 1][f[k]] \in S
    <3>1. k + 1 \in 1 .. n /\ k \in 0 .. k
      OBVIOUS
    <3>2. QED
      BY <2>1, <3>1
  <2>3. ASSUME NEW i \in 0 .. k + 1
        PROVE  g[i] \in S /\ g[i] = IF i = 0 THEN base ELSE step[i][g[i - 1]]
    <3>1. CASE i = k + 1
      <4>1. i # 0 /\ i - 1 = k /\ k \in 0 .. k + 1 /\ k # k + 1
        BY <3>1
      <4>2. QED
        BY <2>2, <3>1, <4>1
    <3>2. CASE i # k + 1
      <4>1. i \in 0 .. k /\ g[i] = f[i]
        BY <3>2
      <4>2. f[i] \in S /\ f[i] = IF i = 0 THEN base ELSE step[i][f[i - 1]]
        BY <2>1, <4>1
      <4>3. i # 0 => i - 1 \in 0 .. k + 1 /\ i - 1 # k + 1
        BY <4>1
      <4>4. i # 0 => g[i - 1] = f[i - 1]
        BY <4>3
      <4>5. QED
        BY <4>1, <4>2, <4>4
    <3>3. QED
      BY <3>1, <3>2
  <2>4. Partial(k + 1, g)
    BY <2>3
  <2>5. k + 1 \in 0 .. n
    OBVIOUS
  <2> HIDE DEF g, Partial
  <2>6. QED
    BY <2>4, <2>5
<1> HIDE DEF Some, Partial
<1>3. n \in Some
  <2>1. \A k \in 0 .. n : k \in Some
    BY <1>1, <1>2, UpTo
  <2>2. QED
    BY <2>1
<1>4. PICK f : Partial(n, f)
  BY <1>3 DEF Some
<1>5. Recursive(f, n, S, base, step)
  BY <1>4 DEF Partial, Recursive
<1>6. QED
  BY <1>5

(* The greatest element of a set of numbers up to n. *)
LEMMA MaxFacts ==
    ASSUME NEW n \in Nat, NEW S \in SUBSET (0 .. n), S # {}
    PROVE  Max(S) \in S /\ \A m \in S : m <= Max(S)
<1> DEFINE Below == {n - m : m \in S}
<1>1. Below \in SUBSET Nat /\ Below # {}
  <2>1. ASSUME NEW m \in S PROVE n - m \in Nat
    <3>1. m \in 0 .. n
      OBVIOUS
    <3>2. QED
      BY <3>1
  <2>2. QED
    BY <2>1
<1>2. PICK d \in Below : \A e \in Below : d <= e
  BY <1>1, LeastNumber
<1>3. PICK k \in S : d = n - k
  BY <1>2
<1>4. ASSUME NEW m \in S PROVE k >= m
  <2>1. n - k <= n - m
    BY <1>2, <1>3
  <2>2. QED
    BY <2>1
<1>5. Max(S) \in S /\ \A m \in S : Max(S) >= m
  BY <1>4 DEF Max
<1>6. QED
  BY <1>5

LEMMA MinOfTwo ==
    ASSUME NEW a \in Int, NEW b \in Int
    PROVE  Min({a, b}) = IF a <= b THEN a ELSE b
BY DEF Min

(* Multiples of a number, in their order. *)
LEMMA Multiples ==
    ASSUME NEW a \in Int, NEW b \in Int, a <= b, NEW c \in Nat
    PROVE  a * c \in Int /\ b * c \in Int /\ a * c <= b * c
<1>1. (b - a) * c >= 0
  OBVIOUS
<1>2. (b - a) * c = b * c - a * c
  OBVIOUS
<1>3. QED
  BY <1>1, <1>2

================================================================================
