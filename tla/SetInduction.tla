---------------------------- MODULE SetInduction ----------------------------
(***************************************************************************)
(* Induction and recursion in a first-order form: the predicate is a set,  *)
(* and the step of a recursion is a function. The components' proofs use   *)
(* them where the library's theorems would take an operator. Sorting is    *)
(* treated at the end.                                                     *)
(***************************************************************************)
EXTENDS Sorting, FiniteSetsExt, FiniteSetTheorems, TLAPS

-----------------------------------------------------------------------------
\* Induction over the naturals: a set that has 0 and is closed under the successor.
LEMMA NatSetInduction ==
    ASSUME NEW S, 0 \in S, \A n \in Nat : n \in S => n + 1 \in S
    PROVE  Nat \subseteq S
<1> DEFINE T == Nat \ S
           R == OpToRel(<, Nat)
<1>1. SUFFICES ASSUME T # {} PROVE FALSE
  OBVIOUS
<1>2. PICK x \in T : \A y \in T : <<y, x>> \notin R
  <2>1. IsWellFoundedOn(R, Nat)
    BY NatLessThanWellFounded
  <2> HIDE DEF R, T
  <2>2. T \subseteq Nat
    BY DEF T
  <2> QED
    BY <1>1, <2>1, <2>2, WFMin
<1>3. \A y \in Nat : y < x => y \in S
  BY <1>2 DEF OpToRel
<1>4. x # 0 /\ x \in Nat
  OBVIOUS
<1>5. x - 1 \in Nat /\ x - 1 < x /\ (x - 1) + 1 = x
  BY <1>4
<1> QED
  BY <1>3, <1>5

\* The first n + 1 values of the recursion that starts in a and steps by g.
Run(h, n, S, a, g) ==
    /\ h \in [0 .. n -> S]
    /\ h[0] = a
    /\ \A m \in 0 .. n : m # n => h[m + 1] = g[<<m, h[m]>>]

\* All of them.
NatRun(f, S, a, g) ==
    /\ f \in [Nat -> S]
    /\ f[0] = a
    /\ \A n \in Nat : f[n + 1] = g[<<n, f[n]>>]

\* A recursion over the naturals has a value everywhere.
LEMMA NatRecursion ==
    ASSUME NEW S, NEW a \in S, NEW g \in [Nat \X S -> S]
    PROVE  \E f : NatRun(f, S, a, g)
<1>1. \A n \in Nat : \E h : Run(h, n, S, a, g)
  <2> DEFINE Q == {n \in Nat : \E h : Run(h, n, S, a, g)}
  <2>1. 0 \in Q
    <3>1. Run([i \in 0 .. 0 |-> a], 0, S, a, g)
      BY DEF Run
    <3> QED
      BY <3>1
  <2>2. ASSUME NEW n \in Nat, n \in Q PROVE n + 1 \in Q
    <3>1. PICK h : Run(h, n, S, a, g)
      BY <2>2
    <3> DEFINE k == [i \in 0 .. (n + 1) |-> IF i = n + 1 THEN g[<<n, h[n]>>] ELSE h[i]]
    <3>2. /\ h \in [0 .. n -> S] /\ h[0] = a /\ h[n] \in S
          /\ \A m \in 0 .. n : m # n => h[m + 1] = g[<<m, h[m]>>]
      BY <3>1 DEF Run
    <3>3. k \in [0 .. (n + 1) -> S] /\ k[0] = a
      BY <3>2
    <3>4. ASSUME NEW m \in 0 .. (n + 1), m # n + 1 PROVE k[m + 1] = g[<<m, k[m]>>]
      <4>1. m \in 0 .. n /\ m + 1 \in 0 .. (n + 1) /\ (m + 1 = n + 1 <=> m = n)
        BY <3>4
      <4>2. k[m] = h[m] /\ k[m + 1] = IF m = n THEN g[<<n, h[n]>>] ELSE h[m + 1]
        BY <3>4, <4>1
      <4> QED
        BY <3>2, <4>1, <4>2
    <3>5. Run(k, n + 1, S, a, g)
      BY <3>3, <3>4 DEF Run
    <3> QED
      BY <3>5
  <2> HIDE DEF Q
  <2>3. Nat \subseteq Q
    BY <2>1, <2>2, NatSetInduction
  <2> QED
    BY <2>3 DEF Q
<1>2. ASSUME NEW n \in Nat, NEW h, NEW k, Run(h, n, S, a, g), Run(k, n + 1, S, a, g)
      PROVE  h[n] = k[n]
  <2> DEFINE Q == {i \in Nat : i <= n => h[i] = k[i]}
  <2>1. 0 \in Q
    BY <1>2 DEF Run
  <2>2. ASSUME NEW i \in Nat, i \in Q PROVE i + 1 \in Q
    <3> SUFFICES ASSUME i + 1 <= n PROVE h[i + 1] = k[i + 1]
      OBVIOUS
    <3>1. i \in 0 .. n /\ i # n /\ i \in 0 .. (n + 1) /\ i # n + 1
      OBVIOUS
    <3>2. h[i + 1] = g[<<i, h[i]>>] /\ k[i + 1] = g[<<i, k[i]>>]
      BY <1>2, <3>1 DEF Run
    <3>3. h[i] = k[i]
      BY <2>2, <3>1
    <3> QED
      BY <3>2, <3>3
  <2> HIDE DEF Q
  <2>3. Nat \subseteq Q
    BY <2>1, <2>2, NatSetInduction
  <2> QED
    BY <2>3 DEF Q
<1> DEFINE pick(n) == CHOOSE h : Run(h, n, S, a, g)
           f == [n \in Nat |-> pick(n)[n]]
<1>3. \A n \in Nat : Run(pick(n), n, S, a, g)
  BY <1>1
<1> HIDE DEF pick
<1>4. f \in [Nat -> S] /\ f[0] = a
  BY <1>3 DEF Run
<1>5. ASSUME NEW n \in Nat PROVE f[n + 1] = g[<<n, f[n]>>]
  <2>1. Run(pick(n), n, S, a, g) /\ Run(pick(n + 1), n + 1, S, a, g)
    BY <1>3
  <2>2. pick(n)[n] = pick(n + 1)[n]
    BY <1>2, <2>1
  <2>3. pick(n + 1)[n + 1] = g[<<n, pick(n + 1)[n]>>]
    BY <2>1 DEF Run
  <2> QED
    BY <2>2, <2>3
<1>6. NatRun(f, S, a, g)
  BY <1>4, <1>5 DEF NatRun
<1> QED
  BY <1>6

-----------------------------------------------------------------------------
\* Powers of two, by counting subsets.
LEMMA PowerOfTwo ==
    /\ 2 ^ 0 = 1
    /\ \A n \in Nat : 2 ^ n \in Nat /\ 2 ^ (n + 1) = 2 * 2 ^ n
<1>1. ASSUME NEW n \in Nat PROVE Cardinality(SUBSET (1 .. n)) = 2 ^ n /\ IsFiniteSet(SUBSET (1 .. n))
  <2>1. IsFiniteSet(1 .. n) /\ Cardinality(1 .. n) = n
    BY FS_Interval
  <2> QED
    BY <2>1, FS_SUBSET
<1>2. ASSUME NEW n \in Nat PROVE 2 ^ n \in Nat
  BY <1>1, FS_CardinalityType
<1>3. ASSUME NEW n \in Nat PROVE 2 ^ (n + 1) = 2 * 2 ^ n
  <2> DEFINE A == SUBSET (1 .. n)
             add == [T \in A |-> T \cup {n + 1}]
             B == {add[T] : T \in A}
  <2>1. SUBSET (1 .. (n + 1)) = A \cup B
    <3>1. ASSUME NEW T \in SUBSET (1 .. (n + 1)) PROVE T \in A \cup B
      <4>1. CASE n + 1 \in T
        <5>1. T \ {n + 1} \in A /\ T = (T \ {n + 1}) \cup {n + 1}
          BY <4>1
        <5> QED
          BY <5>1
      <4>2. CASE n + 1 \notin T
        <5>1. T \subseteq 1 .. n
          BY <4>2
        <5> QED
          BY <5>1
      <4> QED
        BY <4>1, <4>2
    <3>2. ASSUME NEW T \in A PROVE T \subseteq 1 .. (n + 1) /\ add[T] \subseteq 1 .. (n + 1)
      <4>1. T \subseteq 1 .. n /\ n + 1 \in 1 .. (n + 1) /\ 1 .. n \subseteq 1 .. (n + 1)
        OBVIOUS
      <4> QED
        BY <4>1
    <3>3. A \cup B \subseteq SUBSET (1 .. (n + 1))
      BY <3>2
    <3> QED
      BY <3>1, <3>3
  <2>2. A \cap B = {}
    <3>1. \A T \in A : n + 1 \notin T /\ n + 1 \in add[T]
      <4>1. n + 1 \notin 1 .. n
        OBVIOUS
      <4> QED
        BY <4>1
    <3> QED
      BY <3>1
  <2>3. add \in Bijection(A, B)
    <3>1. ASSUME NEW T \in A, NEW U \in A, add[T] = add[U] PROVE T = U
      <4>1. T = add[T] \ {n + 1} /\ U = add[U] \ {n + 1}
        OBVIOUS
      <4> QED
        BY <3>1, <4>1
    <3>2. add \in [A -> B] /\ DOMAIN add = A /\ \A U \in B : \E T \in A : add[T] = U
      OBVIOUS
    <3> HIDE DEF A, B, add
    <3> QED
      BY <3>1, <3>2 DEF Bijection, Injection, Surjection, IsInjective
  <2>4. IsFiniteSet(A) /\ Cardinality(A) = 2 ^ n
    BY <1>1
  <2> HIDE DEF A, B, add
  <2>5. IsFiniteSet(B) /\ Cardinality(B) = 2 ^ n
    BY <2>3, <2>4, FS_Bijection DEF ExistsBijection
  <2>6. Cardinality(A \cup B) = 2 ^ n + 2 ^ n - 0
    BY <2>2, <2>4, <2>5, FS_Union, FS_EmptySet
  <2>7. Cardinality(SUBSET (1 .. (n + 1))) = 2 ^ (n + 1)
    BY <1>1
  <2>8. 2 ^ (n + 1) = 2 ^ n + 2 ^ n - 0
    BY <2>1, <2>6, <2>7
  <2>9. 2 ^ n \in Nat
    BY <1>2
  <2> QED
    BY <2>8, <2>9
<1>4. 2 ^ 0 = 1
  OBVIOUS
<1> QED
  BY <1>2, <1>3, <1>4

\* Powers of two do not fall.
LEMMA PowerOfTwoGrows ==
    ASSUME NEW m \in Nat, NEW n \in Nat, m <= n
    PROVE  2 ^ m <= 2 ^ n
<1> DEFINE Q == {k \in Nat : 2 ^ m <= 2 ^ (m + k)}
<1>1. 0 \in Q
  BY PowerOfTwo
<1>2. ASSUME NEW k \in Nat, k \in Q PROVE k + 1 \in Q
  <2>1. m + k \in Nat /\ m + (k + 1) = (m + k) + 1
    OBVIOUS
  <2>2. 2 ^ ((m + k) + 1) = 2 * 2 ^ (m + k) /\ 2 ^ (m + k) \in Nat /\ 2 ^ m \in Nat
    BY <2>1, PowerOfTwo
  <2> QED
    BY <1>2, <2>1, <2>2
<1> HIDE DEF Q
<1>3. n - m \in Q
  BY <1>1, <1>2, NatSetInduction
<1> QED
  BY <1>3 DEF Q

-----------------------------------------------------------------------------
\* The values of the recursion that starts in a and takes the elements of a set out one
\* by one, as first says.
SubsetRun(h, D, V, a, g, first) ==
    /\ h \in [SUBSET D -> V]
    /\ \A s \in SUBSET D : h[s] = IF s = {} THEN a ELSE g[<<first[s], h[s \ {first[s]}]>>]

\* A recursion over the subsets of a finite set has a value everywhere.
LEMMA SubsetRecursion ==
    ASSUME NEW D, IsFiniteSet(D), NEW V, NEW a \in V, NEW g \in [D \X V -> V],
           NEW first, \A s \in SUBSET D : s # {} => first[s] \in s
    PROVE  \E h : SubsetRun(h, D, V, a, g, first)
<1> DEFINE val(h, s) == IF s = {} THEN a ELSE g[<<first[s], h[s \ {first[s]}]>>]
           Q == {n \in Nat : \E h \in [SUBSET D -> V] :
                                 \A s \in SUBSET D : Cardinality(s) <= n => h[s] = val(h, s)}
<1>1. ASSUME NEW s \in SUBSET D
      PROVE  /\ IsFiniteSet(s) /\ Cardinality(s) \in Nat /\ (Cardinality(s) = 0 <=> s = {})
             /\ Cardinality(s) <= Cardinality(D)
             /\ s # {} => /\ s \ {first[s]} \in SUBSET D
                          /\ Cardinality(s \ {first[s]}) = Cardinality(s) - 1
                          /\ first[s] \in D
  <2>1. IsFiniteSet(s) /\ Cardinality(s) <= Cardinality(D)
    BY FS_Subset
  <2>2. Cardinality(s) \in Nat /\ (Cardinality(s) = 0 <=> s = {})
    BY <2>1, FS_CardinalityType, FS_EmptySet
  <2>3. s # {} => Cardinality(s \ {first[s]}) = Cardinality(s) - 1
    BY <2>1, FS_RemoveElement
  <2> QED
    BY <2>1, <2>2, <2>3
<1>2. 0 \in Q
  <2>1. [s \in SUBSET D |-> a] \in [SUBSET D -> V]
    OBVIOUS
  <2>2. ASSUME NEW s \in SUBSET D, Cardinality(s) <= 0 PROVE s = {}
    <3>1. Cardinality(s) \in Nat /\ (Cardinality(s) = 0 <=> s = {})
      BY <1>1
    <3> QED
      BY <2>2, <3>1
  <2> QED
    BY <2>1, <2>2
<1>3. ASSUME NEW n \in Nat, n \in Q PROVE n + 1 \in Q
  <2>1. PICK h \in [SUBSET D -> V] : \A s \in SUBSET D : Cardinality(s) <= n => h[s] = val(h, s)
    BY <1>3
  <2> DEFINE k == [s \in SUBSET D |-> IF Cardinality(s) <= n THEN h[s] ELSE val(h, s)]
  <2>2. \A s \in SUBSET D : val(h, s) \in V
    BY <1>1
  <2>3. k \in [SUBSET D -> V]
    BY <2>2
  <2>4. ASSUME NEW s \in SUBSET D, Cardinality(s) <= n + 1 PROVE k[s] = val(k, s)
    <3>1. k[s] = val(h, s)
      BY <2>1
    <3>2. s # {} => k[s \ {first[s]}] = h[s \ {first[s]}]
      <4>1. /\ Cardinality(s) \in Nat
            /\ s # {} => /\ s \ {first[s]} \in SUBSET D
                         /\ Cardinality(s \ {first[s]}) = Cardinality(s) - 1
        BY <1>1
      <4>2. s # {} => Cardinality(s \ {first[s]}) <= n
        BY <2>4, <4>1
      <4> QED
        BY <4>1, <4>2
    <3> QED
      BY <3>1, <3>2
  <2> HIDE DEF k, val
  <2> QED
    BY <2>3, <2>4
<1> HIDE DEF Q
<1>4. Cardinality(D) \in Nat /\ Cardinality(D) \in Q
  BY <1>2, <1>3, NatSetInduction, FS_CardinalityType
<1>5. PICK h \in [SUBSET D -> V] :
          \A s \in SUBSET D : Cardinality(s) <= Cardinality(D) => h[s] = val(h, s)
  BY <1>4 DEF Q
<1>6. \A s \in SUBSET D : h[s] = val(h, s)
  <2> HIDE DEF val
  <2> QED
    BY <1>1, <1>5
<1>7. SubsetRun(h, D, V, a, g, first)
  BY <1>6 DEF SubsetRun
<1> QED
  BY <1>7

-----------------------------------------------------------------------------
(* The sum of the values of a function with a finite domain.               *)

\* h sums f over the subsets of D, whatever the order of the summands.
Sums(h, f, D) ==
    /\ h \in [SUBSET D -> Nat]
    /\ h[{}] = 0
    /\ \A s \in SUBSET D : \A x \in s : h[s] = f[x] + h[s \ {x}]

\* The fold that takes one element after the other is such a sum.
LEMMA SumFunctionSums ==
    ASSUME NEW D, IsFiniteSet(D), NEW f \in [D -> Nat]
    PROVE  \E h : Sums(h, f, D) /\ SumFunction(f) = h[D]
<1> DEFINE first == [s \in SUBSET D |-> IF s = {} THEN D ELSE CHOOSE x \in s : TRUE]
           g == [p \in D \X Nat |-> f[p[1]] + p[2]]
           Folded(h) == h = [s \in SUBSET D |->
                                IF s = {} THEN 0
                                ELSE f[CHOOSE x \in s : TRUE] + h[s \ {CHOOSE x \in s : TRUE}]]
<1>1. /\ \A s \in SUBSET D : s # {} => first[s] \in s
      /\ g \in [D \X Nat -> Nat] /\ 0 \in Nat
  OBVIOUS
<1>2. PICK h : SubsetRun(h, D, Nat, 0, g, first)
  <2> HIDE DEF first, g
  <2> QED
    BY <1>1, SubsetRecursion
<1>3. Folded(h)
  BY <1>2 DEF SubsetRun
<1>4. PICK k : Folded(k) /\ SumFunction(f) = k[D]
  <2>1. SumFunction(f) = (CHOOSE k : Folded(k))[D]
    BY DEF SumFunction, SumFunctionOnSet, FoldFunctionOnSet, MapThenFoldSet
  <2> QED
    BY <1>3, <2>1
<1>5. /\ DOMAIN k = SUBSET D /\ k[{}] = 0
      /\ \A s \in SUBSET D : s # {} => \E c \in s : k[s] = f[c] + k[s \ {c}]
  BY <1>4
<1>6. ASSUME NEW s \in SUBSET D
      PROVE  /\ Cardinality(s) \in Nat /\ (Cardinality(s) = 0 <=> s = {})
             /\ Cardinality(s) <= Cardinality(D)
             /\ \A x \in s : Cardinality(s \ {x}) = Cardinality(s) - 1
  <2>1. IsFiniteSet(s) /\ Cardinality(s) <= Cardinality(D)
    BY FS_Subset
  <2> QED
    BY <2>1, FS_CardinalityType, FS_EmptySet, FS_RemoveElement
\* Two elements may be taken out in either order.
<1> DEFINE Summed(s) == k[s] \in Nat /\ \A x \in s : k[s] = f[x] + k[s \ {x}]
           Q == {n \in Nat : \A s \in SUBSET D : Cardinality(s) <= n => Summed(s)}
<1> HIDE DEF Folded
<1>7. 0 \in Q
  <2> SUFFICES ASSUME NEW s \in SUBSET D, Cardinality(s) <= 0 PROVE Summed(s)
    OBVIOUS
  <2>1. s = {}
    BY <1>6
  <2> QED
    BY <1>5, <2>1
<1>8. ASSUME NEW n \in Nat, n \in Q PROVE n + 1 \in Q
  <2> SUFFICES ASSUME NEW s \in SUBSET D, Cardinality(s) <= n + 1 PROVE Summed(s)
    OBVIOUS
  <2>1. \A t \in SUBSET D : Cardinality(t) <= n => Summed(t)
    BY <1>8
  <2> HIDE DEF Q
  <2>2. CASE s = {}
    BY <1>5, <2>2
  <2>3. CASE s # {}
    <3>1. PICK c \in s : k[s] = f[c] + k[s \ {c}]
      BY <1>5, <2>3
    <3>2. \A x \in s : s \ {x} \in SUBSET D /\ Cardinality(s \ {x}) <= n
      BY <1>6
    <3>3. \A x \in s : Summed(s \ {x})
      BY <2>1, <3>2
    <3>4. k[s] \in Nat
      <4>1. f[c] \in Nat /\ k[s \ {c}] \in Nat
        BY <3>3
      <4> QED
        BY <3>1, <4>1
    <3>5. ASSUME NEW x \in s PROVE k[s] = f[x] + k[s \ {x}]
      <4>1. CASE x = c
        BY <3>1, <4>1
      <4>2. CASE x # c
        <5>1. /\ k[s \ {c}] = f[x] + k[(s \ {c}) \ {x}]
              /\ k[s \ {x}] = f[c] + k[(s \ {x}) \ {c}]
          BY <3>3, <4>2
        <5>2. (s \ {c}) \ {x} = (s \ {x}) \ {c} /\ (s \ {c}) \ {x} \in SUBSET D
          OBVIOUS
        <5>3. Cardinality((s \ {c}) \ {x}) <= n
          <6>1. (s \ {c}) \in SUBSET D /\ x \in s \ {c}
            BY <4>2
          <6>2. /\ Cardinality((s \ {c}) \ {x}) = Cardinality(s \ {c}) - 1
                /\ Cardinality(s \ {c}) \in Nat /\ Cardinality(s \ {c}) <= n
            BY <1>6, <3>2, <6>1
          <6> QED
            BY <6>2
        <5>4. k[(s \ {c}) \ {x}] \in Nat
          BY <2>1, <5>2, <5>3
        <5>5. f[x] \in Nat /\ f[c] \in Nat
          OBVIOUS
        <5>6. \E m \in Nat : k[s] = f[c] + (f[x] + m) /\ k[s \ {x}] = f[c] + m
          BY <3>1, <5>1, <5>2, <5>4
        <5> HIDE DEF Summed
        <5> QED
          BY <5>5, <5>6
      <4> QED
        BY <4>1, <4>2
    <3> QED
      BY <3>4, <3>5
  <2> QED
    BY <2>2, <2>3
<1> HIDE DEF Q
<1>9. Cardinality(D) \in Q
  BY <1>7, <1>8, NatSetInduction, FS_CardinalityType
<1>10. \A s \in SUBSET D : Summed(s)
  BY <1>6, <1>9 DEF Q
<1>11. k \in [SUBSET D -> Nat]
  <2>1. k = [s \in SUBSET D |-> k[s]]
    BY <1>4 DEF Folded
  <2> QED
    BY <1>10, <2>1
<1> QED
  BY <1>4, <1>5, <1>10, <1>11 DEF Sums

\* Sums over the same subset agree when the summands do.
LEMMA SumsAgree ==
    ASSUME NEW D, IsFiniteSet(D), NEW E \in SUBSET D, NEW f, NEW e, NEW h, NEW k,
           Sums(h, f, D), Sums(k, e, E), \A x \in E : e[x] = f[x]
    PROVE  \A s \in SUBSET E : h[s] = k[s]
<1> DEFINE Q == {n \in Nat : \A s \in SUBSET E : Cardinality(s) <= n => h[s] = k[s]}
<1>1. ASSUME NEW s \in SUBSET E
      PROVE  /\ Cardinality(s) \in Nat /\ (Cardinality(s) = 0 <=> s = {})
             /\ Cardinality(s) <= Cardinality(D)
             /\ \A x \in s : Cardinality(s \ {x}) = Cardinality(s) - 1
  <2>1. IsFiniteSet(s) /\ Cardinality(s) <= Cardinality(D)
    BY FS_Subset
  <2> QED
    BY <2>1, FS_CardinalityType, FS_EmptySet, FS_RemoveElement
<1>2. 0 \in Q
  <2> SUFFICES ASSUME NEW s \in SUBSET E, Cardinality(s) <= 0 PROVE h[s] = k[s]
    OBVIOUS
  <2>1. s = {}
    BY <1>1
  <2> QED
    BY <2>1 DEF Sums
<1>3. ASSUME NEW n \in Nat, n \in Q PROVE n + 1 \in Q
  <2> SUFFICES ASSUME NEW s \in SUBSET E, Cardinality(s) <= n + 1 PROVE h[s] = k[s]
    OBVIOUS
  <2>1. \A t \in SUBSET E : Cardinality(t) <= n => h[t] = k[t]
    BY <1>3
  <2> HIDE DEF Q
  <2>2. CASE s = {}
    BY <2>2 DEF Sums
  <2>3. CASE s # {}
    <3>1. PICK x \in s : TRUE
      BY <2>3
    <3>2. s \ {x} \in SUBSET E /\ Cardinality(s \ {x}) <= n
      BY <1>1
    <3>3. h[s \ {x}] = k[s \ {x}] /\ f[x] = e[x]
      BY <2>1, <3>2
    <3>4. h[s] = f[x] + h[s \ {x}] /\ k[s] = e[x] + k[s \ {x}]
      BY DEF Sums
    <3> QED
      BY <3>3, <3>4
  <2> QED
    BY <2>2, <2>3
<1> HIDE DEF Q
<1>4. Cardinality(D) \in Q
  BY <1>2, <1>3, NatSetInduction, FS_CardinalityType
<1> QED
  BY <1>1, <1>4 DEF Q

\* A summand can be taken out of the sum.
LEMMA SumRemove ==
    ASSUME NEW D, IsFiniteSet(D), NEW f \in [D -> Nat], NEW x \in D
    PROVE  /\ SumFunction([y \in D \ {x} |-> f[y]]) \in Nat
           /\ SumFunction(f) = f[x] + SumFunction([y \in D \ {x} |-> f[y]])
<1> DEFINE E == D \ {x}
           e == [y \in E |-> f[y]]
<1>1. IsFiniteSet(E) /\ E \in SUBSET D /\ e \in [E -> Nat]
  BY FS_Subset
<1>2. PICK h : Sums(h, f, D) /\ SumFunction(f) = h[D]
  BY SumFunctionSums
<1>3. PICK k : Sums(k, e, E) /\ SumFunction(e) = k[E]
  <2> HIDE DEF E, e
  <2> QED
    BY <1>1, SumFunctionSums
<1>4. \A y \in E : e[y] = f[y]
  OBVIOUS
<1>5. h[E] = k[E]
  <2> HIDE DEF E, e
  <2> QED
    BY <1>1, <1>2, <1>3, <1>4, SumsAgree
<1>6. h[D] = f[x] + h[E] /\ h[E] \in Nat
  BY <1>1, <1>2 DEF Sums
<1> QED
  BY <1>2, <1>3, <1>5, <1>6

LEMMA SumEmpty ==
    ASSUME NEW f, DOMAIN f = {}, f = [x \in {} |-> f[x]]
    PROVE  SumFunction(f) = 0
<1>1. f \in [{} -> Nat] /\ IsFiniteSet({})
  BY FS_EmptySet
<1>2. PICK h : Sums(h, f, {}) /\ SumFunction(f) = h[{}]
  BY <1>1, SumFunctionSums
<1> QED
  BY <1>2 DEF Sums

LEMMA ImageFinite ==
    ASSUME NEW S, IsFiniteSet(S), NEW T, NEW f \in [S -> T]
    PROVE  IsFiniteSet({f[x] : x \in S})
<1>1. f \in [S -> {f[x] : x \in S}]
  OBVIOUS
<1>2. f \in Surjection(S, {f[x] : x \in S})
  BY <1>1 DEF Surjection
<1> QED
  BY <1>2, FS_Surjection

\* Induction over a finite set: a set of subsets that has the empty one and is closed
\* under adding an element.
LEMMA FiniteInduction ==
    ASSUME NEW D, IsFiniteSet(D), NEW Q, {} \in Q,
           \A T \in SUBSET D : T \in Q => \A x \in D \ T : T \cup {x} \in Q
    PROVE  D \in Q
<1> DEFINE P == {n \in Nat : \A T \in SUBSET D : Cardinality(T) = n => T \in Q}
<1>1. \A T \in SUBSET D : /\ IsFiniteSet(T) /\ Cardinality(T) \in Nat
                          /\ Cardinality(T) = 0 <=> T = {}
  BY FS_Subset, FS_CardinalityType, FS_EmptySet
<1>2. 0 \in P
  BY <1>1
<1>3. ASSUME NEW n \in Nat, n \in P PROVE n + 1 \in P
  <2>1. SUFFICES ASSUME NEW T \in SUBSET D, Cardinality(T) = n + 1 PROVE T \in Q
    OBVIOUS
  <2>2. PICK x \in T : TRUE
    BY <1>1, <2>1
  <2>3. Cardinality(T \ {x}) = n
    <3>1. Cardinality(T \ {x}) = Cardinality(T) - 1
      BY <1>1, <2>1, <2>2, FS_RemoveElement
    <3> QED
      BY <2>1, <3>1
  <2>4. T \ {x} \in Q
    BY <1>3, <2>3
  <2>5. x \in D \ (T \ {x}) /\ (T \ {x}) \cup {x} = T
    BY <2>2
  <2> QED
    BY <2>4, <2>5
<1> HIDE DEF P
<1>4. Nat \subseteq P
  BY <1>2, <1>3, NatSetInduction
<1> QED
  BY <1>1, <1>4 DEF P

LEMMA SumType ==
    ASSUME NEW D, IsFiniteSet(D), NEW f \in [D -> Nat]
    PROVE  SumFunction(f) \in Nat
<1>1. PICK h : Sums(h, f, D) /\ SumFunction(f) = h[D]
  BY SumFunctionSums
<1> QED
  BY <1>1 DEF Sums

\* A summand can be added to the sum.
LEMMA SumAdd ==
    ASSUME NEW D, IsFiniteSet(D), NEW f \in [D -> Nat], NEW T \in SUBSET D, NEW x \in D \ T
    PROVE  SumFunction([y \in T \cup {x} |-> f[y]]) = f[x] + SumFunction([y \in T |-> f[y]])
<1> DEFINE U == T \cup {x}
           e == [y \in U |-> f[y]]
<1>1. IsFiniteSet(U) /\ e \in [U -> Nat] /\ x \in U /\ e[x] = f[x]
  BY FS_Subset
<1>2. SumFunction(e) = e[x] + SumFunction([y \in U \ {x} |-> e[y]])
  <2> HIDE DEF U, e
  <2> QED
    BY <1>1, SumRemove
<1>3. [y \in U \ {x} |-> e[y]] = [y \in T |-> f[y]]
  OBVIOUS
<1> QED
  BY <1>1, <1>2, <1>3

\* The sum over two sets apart is the sum of their sums.
LEMMA SumUnion ==
    ASSUME NEW A, IsFiniteSet(A), NEW B, IsFiniteSet(B), A \cap B = {},
           NEW f \in [A \cup B -> Nat]
    PROVE  /\ SumFunction([x \in A |-> f[x]]) \in Nat
           /\ SumFunction([x \in B |-> f[x]]) \in Nat
           /\ SumFunction(f) = SumFunction([x \in A |-> f[x]]) + SumFunction([x \in B |-> f[x]])
<1> DEFINE D == A \cup B
           S(T) == SumFunction([x \in T |-> f[x]])
           Q == {T \in SUBSET B : S(A \cup T) = S(A) + S(T)}
<1>1. IsFiniteSet(D)
  BY FS_Union
<1>2. \A T \in SUBSET D : S(T) \in Nat
  <2> TAKE T \in SUBSET D
  <2>1. IsFiniteSet(T) /\ [x \in T |-> f[x]] \in [T -> Nat]
    BY <1>1, FS_Subset
  <2> QED
    BY <2>1, SumType
<1>3. \A T \in SUBSET D : \A x \in D \ T : S(T \cup {x}) = f[x] + S(T)
  BY <1>1, SumAdd
<1>4. {} \in Q
  <2>1. S({}) = 0
    BY SumEmpty
  <2>2. A \cup {} = A /\ S(A) \in Nat
    BY <1>2
  <2> HIDE DEF S
  <2> QED
    BY <2>1, <2>2
<1>5. ASSUME NEW T \in SUBSET B, T \in Q, NEW x \in B \ T PROVE T \cup {x} \in Q
  <2>1. A \cup (T \cup {x}) = (A \cup T) \cup {x} /\ x \in D \ (A \cup T) /\ A \cup T \in SUBSET D
        /\ T \in SUBSET D /\ x \in D \ T /\ A \in SUBSET D
    OBVIOUS
  <2>2. S(A \cup (T \cup {x})) = f[x] + S(A \cup T) /\ S(T \cup {x}) = f[x] + S(T)
    <3> HIDE DEF S, D
    <3> QED
      BY <1>3, <2>1
  <2>3. f[x] \in Nat /\ S(A) \in Nat /\ S(T) \in Nat /\ S(A \cup T) = S(A) + S(T)
    BY <1>2, <1>5, <2>1
  <2> HIDE DEF S
  <2> QED
    BY <2>2, <2>3
<1>6. B \in Q
  <2> HIDE DEF Q
  <2> QED
    BY <1>4, <1>5, FiniteInduction
<1>7. S(A \cup B) = S(A) + S(B) /\ S(A) \in Nat /\ S(B) \in Nat
  BY <1>2, <1>6
<1>8. f = [x \in A \cup B |-> f[x]]
  OBVIOUS
<1> QED
  BY <1>7, <1>8

\* Part of the summands sums to no more.
LEMMA SumPart ==
    ASSUME NEW D, IsFiniteSet(D), NEW f \in [D -> Nat], NEW E \in SUBSET D
    PROVE  SumFunction([x \in E |-> f[x]]) <= SumFunction(f)
<1>1. IsFiniteSet(E) /\ IsFiniteSet(D \ E) /\ E \cap (D \ E) = {} /\ E \cup (D \ E) = D
  BY FS_Subset
<1>2. /\ SumFunction([x \in E |-> f[x]]) \in Nat
      /\ SumFunction([x \in D \ E |-> f[x]]) \in Nat
      /\ SumFunction(f) = SumFunction([x \in E |-> f[x]]) + SumFunction([x \in D \ E |-> f[x]])
  <2>1. \A A, B : IsFiniteSet(A) /\ IsFiniteSet(B) /\ A \cap B = {} /\ f \in [A \cup B -> Nat] =>
            /\ SumFunction([x \in A |-> f[x]]) \in Nat
            /\ SumFunction([x \in B |-> f[x]]) \in Nat
            /\ SumFunction(f) = SumFunction([x \in A |-> f[x]]) + SumFunction([x \in B |-> f[x]])
    BY SumUnion
  <2>2. f \in [E \cup (D \ E) -> Nat]
    BY <1>1
  <2> QED
    BY <1>1, <2>1, <2>2
<1> QED
  BY <1>2

\* b gives the summands of f other names.
Renames(b, D, f, E, g) ==
    /\ b \in [D -> E]
    /\ \A x, y \in D : b[x] = b[y] => x = y
    /\ \A e \in E : \E x \in D : b[x] = e
    /\ \A x \in D : f[x] = g[b[x]]

\* The sum does not depend on the names of the summands.
LEMMA SumRenamed ==
    ASSUME NEW D, IsFiniteSet(D), NEW f \in [D -> Nat], NEW E, NEW g \in [E -> Nat],
           NEW b, Renames(b, D, f, E, g)
    PROVE  SumFunction(f) = SumFunction(g)
<1> DEFINE Img(T) == {b[x] : x \in T}
           F(T) == SumFunction([x \in T |-> f[x]])
           G(U) == SumFunction([y \in U |-> g[y]])
           Q == {T \in SUBSET D : F(T) = G(Img(T))}
<1>1. IsFiniteSet(E)
  <2>1. IsFiniteSet({b[x] : x \in D})
    <3>1. b \in [D -> E]
      BY DEF Renames
    <3> QED
      BY <3>1, ImageFinite
  <2>2. E = {b[x] : x \in D}
    BY DEF Renames
  <2> QED
    BY <2>1, <2>2
<1>a. \A T \in SUBSET D : \A x \in D \ T : F(T \cup {x}) = f[x] + F(T)
  BY SumAdd
<1>b. \A U \in SUBSET E : \A y \in E \ U : G(U \cup {y}) = g[y] + G(U)
  BY <1>1, SumAdd
<1>2. {} \in Q
  <2>1. F({}) = 0 /\ G({}) = 0 /\ Img({}) = {}
    BY SumEmpty
  <2> HIDE DEF F, G, Img
  <2> QED
    BY <2>1
<1>3. ASSUME NEW T \in SUBSET D, T \in Q, NEW x \in D \ T PROVE T \cup {x} \in Q
  <2>1. Img(T \cup {x}) = Img(T) \cup {b[x]} /\ Img(T) \in SUBSET E /\ b[x] \in E \ Img(T)
    BY DEF Renames
  <2>2. F(T \cup {x}) = f[x] + F(T)
    <3> HIDE DEF F
    <3> QED
      BY <1>a
  <2>3. G(Img(T) \cup {b[x]}) = g[b[x]] + G(Img(T))
    <3> HIDE DEF Img, G
    <3> QED
      BY <1>b, <2>1
  <2> HIDE DEF F, G, Img
  <2>4. F(T) = G(Img(T)) /\ f[x] = g[b[x]]
    BY <1>3 DEF Renames
  <2> QED
    BY <2>1, <2>2, <2>3, <2>4
<1>4. D \in Q
  <2> HIDE DEF Q
  <2> QED
    BY <1>2, <1>3, FiniteInduction
<1>5. Img(D) = E
  BY DEF Renames
<1>6. f = [x \in D |-> f[x]] /\ g = [y \in E |-> g[y]]
  OBVIOUS
<1>7. F(D) = G(E)
  <2> HIDE DEF F, G, Img
  <2> QED
    BY <1>4, <1>5
<1> QED
  BY <1>6, <1>7

-----------------------------------------------------------------------------
(* Sorting a finite set by a total order.                                  *)

LEMMA RankedLists ==
    ASSUME NEW S, IsFiniteSet(S), NEW R, TotalOn(S, R)
    PROVE  Lists(Ranked(S, R), S, R)
<1> DEFINE Lower(x) == {y \in S : <<y, x>> \in R}
           n == Cardinality(S)
           place == [x \in S |-> Cardinality(Lower(x))]
<1>1. n \in Nat
  BY FS_CardinalityType
<1>2. ASSUME NEW x \in S PROVE IsFiniteSet(Lower(x)) /\ place[x] \in 0 .. (n - 1)
  <2>1. Lower(x) \in SUBSET S /\ x \notin Lower(x)
    BY DEF TotalOn
  <2>2. /\ IsFiniteSet(Lower(x)) /\ Cardinality(Lower(x)) <= n
        /\ n = Cardinality(Lower(x)) => S = Lower(x)
    BY <2>1, FS_Subset
  <2>3. Cardinality(Lower(x)) \in Nat /\ Cardinality(Lower(x)) # n
    BY <2>1, <2>2, FS_CardinalityType
  <2> QED
    BY <1>1, <2>2, <2>3
<1>3. ASSUME NEW x \in S, NEW y \in S, <<x, y>> \in R PROVE place[x] < place[y]
  <2>1. Lower(x) \in SUBSET Lower(y) /\ x \in Lower(y) /\ x \notin Lower(x)
    BY <1>3 DEF TotalOn
  <2> HIDE DEF Lower
  <2>2. IsFiniteSet(Lower(x)) /\ IsFiniteSet(Lower(y))
    BY <1>2
  <2>3. /\ Cardinality(Lower(x)) <= Cardinality(Lower(y))
        /\ Cardinality(Lower(y)) = Cardinality(Lower(x)) => Lower(y) = Lower(x)
    BY <2>1, <2>2, FS_Subset
  <2>4. Cardinality(Lower(x)) \in Nat /\ Cardinality(Lower(y)) \in Nat
    BY <2>2, FS_CardinalityType
  <2> QED
    BY <2>1, <2>3, <2>4
<1> HIDE DEF Lower
<1>4. place \in Injection(S, 0 .. (n - 1))
  <2>1. ASSUME NEW x \in S, NEW y \in S, x # y PROVE place[x] # place[y]
    <3> HIDE DEF place
    <3>1. place[x] \in 0 .. (n - 1) /\ place[y] \in 0 .. (n - 1)
      BY <1>2
    <3>2. place[x] < place[y] \/ place[y] < place[x]
      BY <1>3, <2>1 DEF TotalOn
    <3> QED
      BY <1>1, <3>1, <3>2
  <2>2. place \in [S -> 0 .. (n - 1)]
    BY <1>2
  <2> QED
    BY <2>1, <2>2 DEF Injection, IsInjective
<1>5. \A k \in 0 .. (n - 1) : \E x \in S : place[x] = k
  <2>1. IsFiniteSet(0 .. (n - 1)) /\ Cardinality(0 .. (n - 1)) = n
    BY <1>1, FS_Interval
  <2> HIDE DEF place
  <2>2. place \in Surjection(S, 0 .. (n - 1))
    BY <1>4, <2>1, FS_Injection
  <2> QED
    BY <2>2 DEF Surjection
<1> DEFINE s == Ranked(S, R)
<1>6. s = [i \in 1 .. n |-> CHOOSE x \in S : Cardinality({y \in S : <<y, x>> \in R}) = i - 1]
  BY DEF Ranked
<1>7. ASSUME NEW i \in 1 .. n PROVE s[i] \in S /\ place[s[i]] = i - 1
  <2>1. i - 1 \in 0 .. (n - 1)
    BY <1>1
  <2>2. \E x \in S : Cardinality({y \in S : <<y, x>> \in R}) = i - 1
    BY <1>5, <2>1 DEF Lower
  <2>3. s[i] = CHOOSE x \in S : Cardinality({y \in S : <<y, x>> \in R}) = i - 1
    BY <1>6
  <2>4. s[i] \in S /\ Cardinality({y \in S : <<y, s[i]>> \in R}) = i - 1
    <3> HIDE DEF s
    <3> QED
      BY <2>2, <2>3
  <2> QED
    BY <2>4 DEF Lower
<1>8. s \in Seq(S) /\ Len(s) = n
  <2>1. s = [i \in 1 .. n |-> s[i]]
    BY <1>6
  <2>2. \A i \in 1 .. n : s[i] \in S
    BY <1>7
  <2> HIDE DEF s, n
  <2>3. Len([i \in 1 .. n |-> s[i]]) = n
    BY <1>1
  <2>4. [i \in 1 .. n |-> s[i]] \in Seq(S)
    BY <1>1, <2>2
  <2> QED
    BY <2>1, <2>3, <2>4
<1> HIDE DEF s
<1>9. ASSUME NEW x \in S PROVE \E i \in 1 .. n : s[i] = x
  <2>1. place[x] \in 0 .. (n - 1) /\ place[x] + 1 \in 1 .. n /\ (place[x] + 1) - 1 = place[x]
    BY <1>1, <1>2
  <2>2. s[place[x] + 1] \in S /\ place[s[place[x] + 1]] = place[x]
    BY <1>7, <2>1
  <2>3. s[place[x] + 1] = x
    BY <1>4, <2>2 DEF Injection, IsInjective
  <2> QED
    BY <2>1, <2>3
<1>10. ASSUME NEW i \in 1 .. n, NEW j \in 1 .. n, i < j PROVE <<s[i], s[j]>> \in R
  <2>1. s[i] \in S /\ s[j] \in S /\ place[s[i]] < place[s[j]]
    BY <1>1, <1>7, <1>10
  <2>2. ~(place[s[j]] < place[s[i]]) /\ s[i] # s[j]
    BY <1>1, <1>7, <2>1, <1>10
  <2> QED
    BY <1>3, <2>1, <2>2 DEF TotalOn
<1> QED
  BY <1>8, <1>9, <1>10 DEF Lists, s

\* The element at a place of a list has that many before it.
LEMMA ListPlaces ==
    ASSUME NEW S, IsFiniteSet(S), NEW R, TotalOn(S, R), NEW s, Lists(s, S, R),
           NEW i \in 1 .. Len(s)
    PROVE  Cardinality({y \in S : <<y, s[i]>> \in R}) = i - 1
<1>1. /\ s \in Seq(S) /\ Len(s) \in Nat /\ \A j \in 1 .. Len(s) : s[j] \in S
      /\ \A x \in S : \E j \in 1 .. Len(s) : s[j] = x
      /\ \A j, k \in 1 .. Len(s) : j < k => <<s[j], s[k]>> \in R
  BY DEF Lists
<1> DEFINE Lower == {y \in S : <<y, s[i]>> \in R}
           f == [j \in 1 .. (i - 1) |-> s[j]]
<1>2. f \in [1 .. (i - 1) -> Lower]
  <2>1. ASSUME NEW j \in 1 .. (i - 1) PROVE s[j] \in Lower
    <3>1. j \in 1 .. Len(s) /\ j < i
      BY <1>1
    <3> QED
      BY <1>1, <3>1
  <2> QED
    BY <2>1
<1>3. ASSUME NEW y \in Lower PROVE \E j \in 1 .. (i - 1) : f[j] = y
  <2>1. PICK j \in 1 .. Len(s) : s[j] = y
    BY <1>1
  <2>2. ~(i < j) /\ i # j
    BY <1>1, <2>1 DEF TotalOn
  <2>3. j \in 1 .. (i - 1)
    BY <1>1, <2>2
  <2> QED
    BY <2>1, <2>3
<1>4. ASSUME NEW j \in 1 .. (i - 1), NEW k \in 1 .. (i - 1), f[j] = f[k] PROVE j = k
  <2>a. s[j] = s[k]
    BY <1>4
  <2>b. Len(s) \in Nat
    BY <1>1
  <2>1. j \in 1 .. Len(s) /\ k \in 1 .. Len(s)
    BY <2>b
  <2>2. ~(j < k) /\ ~(k < j)
    BY <1>1, <2>a, <2>1 DEF TotalOn
  <2> QED
    BY <2>2
<1> HIDE DEF f
<1>5. f \in Bijection(1 .. (i - 1), Lower)
  BY <1>2, <1>3, <1>4 DEF Bijection, Injection, Surjection, IsInjective
<1>6. ExistsBijection(1 .. (i - 1), Lower)
  BY <1>5 DEF ExistsBijection
<1>7. IsFiniteSet(1 .. (i - 1)) /\ Cardinality(1 .. (i - 1)) = i - 1
  <2>1. PICK m \in Nat : m = i - 1
    BY <1>1
  <2>2. IsFiniteSet(1 .. m) /\ Cardinality(1 .. m) = m
    BY FS_Interval
  <2> QED
    BY <2>1, <2>2
<1>8. Cardinality(1 .. (i - 1)) = Cardinality(Lower)
  BY <1>6, <1>7, FS_Bijection
<1> QED
  BY <1>7, <1>8

\* So there is one list of a set.
LEMMA ListsUnique ==
    ASSUME NEW S, IsFiniteSet(S), NEW R, TotalOn(S, R), NEW s, NEW t,
           Lists(s, S, R), Lists(t, S, R)
    PROVE  s = t
<1>1. /\ s \in Seq(S) /\ t \in Seq(S) /\ Len(s) = Len(t) /\ Len(s) \in Nat
      /\ \A i \in 1 .. Len(s) : s[i] \in S /\ t[i] \in S
      /\ \A j, k \in 1 .. Len(s) : j < k => <<s[j], s[k]>> \in R
      /\ \A x \in S : \E j \in 1 .. Len(s) : s[j] = x
  BY DEF Lists
<1>2. ASSUME NEW i \in 1 .. Len(s) PROVE s[i] = t[i]
  <2>1. PICK j \in 1 .. Len(s) : s[j] = t[i]
    BY <1>1
  <2>2. Cardinality({y \in S : <<y, s[j]>> \in R}) = j - 1
    BY ListPlaces
  <2>3. Cardinality({y \in S : <<y, t[i]>> \in R}) = i - 1
    BY <1>1, ListPlaces
  <2>4. i = j
    BY <1>1, <2>1, <2>2, <2>3
  <2> QED
    BY <2>1, <2>4
<1>3. s = [i \in 1 .. Len(s) |-> s[i]] /\ t = [i \in 1 .. Len(s) |-> t[i]]
  BY <1>1
<1> QED
  BY <1>2, <1>3

\* An element above all others goes to the end.
LEMMA ListsAppend ==
    ASSUME NEW S, IsFiniteSet(S), NEW R, NEW s, Lists(s, S, R), NEW x, x \notin S,
           \A y \in S : <<y, x>> \in R
    PROVE  Lists(Append(s, x), S \cup {x}, R)
<1>a. PICK T : T = S \cup {x}
  OBVIOUS
<1>1. /\ s \in Seq(S) /\ s \in Seq(T) /\ x \in T /\ Len(s) = Cardinality(S) /\ Len(s) \in Nat
      /\ \A i \in 1 .. Len(s) : s[i] \in S
      /\ \A j, k \in 1 .. Len(s) : j < k => <<s[j], s[k]>> \in R
      /\ \A y \in S : \E j \in 1 .. Len(s) : s[j] = y
  BY <1>a DEF Lists
<1>c. Append(s, x) \in Seq(T)
  <2>1. s \in Seq(T) /\ x \in T
    BY <1>1
  <2> QED
    BY <2>1
<1>b. PICK t \in Seq(T) : t = Append(s, x)
  BY <1>c
<1>2. /\ Len(t) = Len(s) + 1 /\ t[Len(s) + 1] = x
      /\ \A i \in 1 .. Len(s) : t[i] = s[i]
  BY <1>1, <1>b
<1>3. Cardinality(T) = Len(s) + 1
  BY <1>a, <1>1, FS_AddElement
<1>4. \A y \in T : \E i \in 1 .. Len(t) : t[i] = y
  <2>1. \A y \in S : \E i \in 1 .. Len(t) : t[i] = y
    <3> SUFFICES ASSUME NEW y \in S PROVE \E i \in 1 .. Len(t) : t[i] = y
      OBVIOUS
    <3>1. PICK j \in 1 .. Len(s) : s[j] = y
      BY <1>1
    <3>2. j \in 1 .. Len(t) /\ t[j] = y
      BY <1>1, <1>2, <3>1
    <3> QED
      BY <3>2
  <2>2. Len(s) + 1 \in 1 .. Len(t)
    BY <1>1, <1>2
  <2> QED
    BY <1>a, <1>2, <2>1, <2>2
<1>5. ASSUME NEW i \in 1 .. Len(t), NEW j \in 1 .. Len(t), i < j PROVE <<t[i], t[j]>> \in R
  <2>1. i \in 1 .. Len(s) /\ t[i] = s[i] /\ s[i] \in S
    BY <1>1, <1>2, <1>5
  <2>2. CASE j = Len(s) + 1
    BY <1>2, <2>1, <2>2
  <2>3. CASE j # Len(s) + 1
    <3>1. j \in 1 .. Len(s)
      BY <1>1, <1>2, <2>3
    <3> QED
      BY <1>1, <1>2, <1>5, <2>1, <3>1
  <2> QED
    BY <2>2, <2>3
<1>6. Lists(t, T, R)
  BY <1>2, <1>3, <1>4, <1>5 DEF Lists
<1> QED
  BY <1>a, <1>b, <1>6

-----------------------------------------------------------------------------
\* A finite set of integers that is not empty has a smallest and a largest element.
LEMMA Extremes ==
    ASSUME NEW S \in SUBSET Int, IsFiniteSet(S), S # {}
    PROVE  /\ Min(S) \in S /\ \A y \in S : Min(S) <= y
           /\ Max(S) \in S /\ \A y \in S : y <= Max(S)
<1> DEFINE R == {p \in Int \X Int : p[1] < p[2]}
<1>1. TotalOn(S, R)
  BY DEF TotalOn
<1>2. PICK s : Lists(s, S, R)
  <2> HIDE DEF R
  <2> QED
    BY <1>1, RankedLists
<1>a. /\ s \in Seq(S)
      /\ \A x \in S : \E i \in 1 .. Len(s) : s[i] = x
      /\ \A i, j \in 1 .. Len(s) : i < j => <<s[i], s[j]>> \in R
  <2> HIDE DEF R
  <2> QED
    BY <1>2 DEF Lists
<1>b. Len(s) \in Nat /\ \A i \in 1 .. Len(s) : s[i] \in S
  BY <1>a
<1>3. /\ Len(s) \in Nat /\ \A i \in 1 .. Len(s) : s[i] \in S /\ s[i] \in Int
      /\ \A x \in S : \E i \in 1 .. Len(s) : s[i] = x
      /\ \A i, j \in 1 .. Len(s) : i < j => s[i] < s[j]
  BY <1>a, <1>b
<1>4. Len(s) >= 1
  <2>1. PICK x \in S : TRUE
    OBVIOUS
  <2>2. PICK i \in 1 .. Len(s) : s[i] = x
    BY <1>3
  <2> QED
    BY <1>3
<1>5. \E x \in S : \A y \in S : x <= y
  <2>1. 1 \in 1 .. Len(s)
    BY <1>3, <1>4
  <2>2. ASSUME NEW i \in 1 .. Len(s) PROVE s[1] <= s[i]
    <3>1. i = 1 \/ 1 < i
      BY <1>3
    <3> QED
      BY <1>3, <2>1, <3>1
  <2>3. \A y \in S : s[1] <= y
    BY <1>3, <2>2
  <2> QED
    BY <1>3, <2>1, <2>3
<1>6. \E x \in S : \A y \in S : x >= y
  <2>1. Len(s) \in 1 .. Len(s)
    BY <1>3, <1>4
  <2>2. ASSUME NEW i \in 1 .. Len(s) PROVE s[Len(s)] >= s[i]
    <3>1. i = Len(s) \/ i < Len(s)
      BY <1>3
    <3> QED
      BY <1>3, <2>1, <3>1
  <2>3. \A y \in S : s[Len(s)] >= y
    BY <1>3, <2>2
  <2> QED
    BY <1>3, <2>1, <2>3
<1>7. Min(S) \in S /\ \A y \in S : Min(S) <= y
  BY <1>5 DEF Min
<1>8. Max(S) \in S /\ \A y \in S : Max(S) >= y
  BY <1>6 DEF Max
<1> QED
  BY <1>7, <1>8
=============================================================================
