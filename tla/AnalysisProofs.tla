---------------------------- MODULE AnalysisProofs ----------------------------
(***************************************************************************)
(* Proofs about two of the analyses, for any log and any request.          *)
(* Prediction: a prediction is what the executions show after the longest  *)
(* context that they have, and a holdout is tested on what completes       *)
(* later. BottleneckAnalysis: the starts and completions of an activity    *)
(* are paired in the order in which they come.                             *)
(***************************************************************************)
EXTENDS Prediction, BottleneckAnalysis, SetInduction, SequenceTheorems


-----------------------------------------------------------------------------
\* Counting.

\* Tagging pairs with a key keeps their number.
LEMMA TaggedCount ==
    ASSUME NEW X, IsFiniteSet(X), NEW A, NEW B, X \in SUBSET (A \X B), NEW k
    PROVE  /\ IsFiniteSet({[execution |-> x[1], at |-> x[2], key |-> k] : x \in X})
           /\ Cardinality({[execution |-> x[1], at |-> x[2], key |-> k] : x \in X})
                = Cardinality(X)
<1> DEFINE tag == [x \in X |-> [execution |-> x[1], at |-> x[2], key |-> k]]
           T == {[execution |-> x[1], at |-> x[2], key |-> k] : x \in X}
<1>1. tag \in [X -> T] /\ \A t \in T : \E x \in X : tag[x] = t
  OBVIOUS
<1>2. ASSUME NEW x \in X, NEW y \in X, tag[x] = tag[y] PROVE x = y
  <2>1. x[1] = y[1] /\ x[2] = y[2]
    BY <1>2
  <2> QED
    BY <2>1
<1> HIDE DEF tag
<1>3. tag \in Bijection(X, T)
  BY <1>1, <1>2 DEF Bijection, Injection, Surjection, IsInjective
<1> HIDE DEF T
<1>4. ExistsBijection(X, T)
  BY <1>3 DEF ExistsBijection
<1> QED
  BY <1>4, FS_Bijection DEF T

\* The sizes of the parts of a set, one part for each value, add up to its size.
LEMMA FiberSum ==
    ASSUME NEW S, IsFiniteSet(S), NEW f, DOMAIN f = S
    PROVE  SumFunction([a \in {f[s] : s \in S} |-> Cardinality({s \in S : f[s] = a})])
             = Cardinality(S)
<1> DEFINE D == {f[s] : s \in S}
           Part(a) == {s \in S : f[s] = a}
           sizes == [a \in D |-> Cardinality(Part(a))]
           Within(T) == {s \in S : f[s] \in T}
           Total(T) == SumFunction([a \in T |-> sizes[a]])
           Q == {T \in SUBSET D : Total(T) = Cardinality(Within(T))}
<1>1. IsFiniteSet(D)
  <2> DEFINE g == [s \in S |-> f[s]]
  <2>1. g \in [S -> D]
    OBVIOUS
  <2>3. D = {g[s] : s \in S}
    OBVIOUS
  <2> HIDE DEF g, D
  <2>2. IsFiniteSet({g[s] : s \in S})
    BY <2>1, ImageFinite
  <2> QED
    BY <2>2, <2>3
<1>2. \A a : IsFiniteSet(Part(a)) /\ Cardinality(Part(a)) \in Nat
  BY FS_Subset, FS_CardinalityType
<1>3. \A T : IsFiniteSet(Within(T)) /\ Cardinality(Within(T)) \in Nat
  BY FS_Subset, FS_CardinalityType
<1>4. sizes \in [D -> Nat]
  BY <1>2
<1>5. {} \in Q
  <2>1. Within({}) = {}
    OBVIOUS
  <2>2. Total({}) = 0
    <3> DEFINE e == [a \in {} |-> sizes[a]]
    <3>1. DOMAIN e = {} /\ e = [x \in {} |-> e[x]]
      OBVIOUS
    <3> HIDE DEF e
    <3>2. SumFunction(e) = 0
      BY <3>1, SumEmpty
    <3> QED
      BY <3>2 DEF e
  <2>3. Cardinality({}) = 0
    BY FS_EmptySet
  <2> QED
    BY <2>1, <2>2, <2>3
<1>a. \A T \in SUBSET D : \A x \in D \ T : Total(T \cup {x}) = sizes[x] + Total(T)
  <2> HIDE DEF D, sizes
  <2> QED
    BY <1>1, <1>4, SumAdd
<1>6. ASSUME NEW T \in SUBSET D, T \in Q, NEW x \in D \ T PROVE T \cup {x} \in Q
  <2> HIDE DEF D, sizes, Within, Total
  <2>1. Total(T) = Cardinality(Within(T))
    BY <1>6
  <2>2. Total(T \cup {x}) = sizes[x] + Total(T)
    BY <1>a
  <2>3. Within(T \cup {x}) = Part(x) \cup Within(T) /\ Part(x) \cap Within(T) = {}
    BY DEF Within
  <2>4. sizes[x] = Cardinality(Part(x))
    BY DEF sizes
  <2> HIDE DEF Part
  <2>5. Cardinality(Within(T \cup {x}))
          = Cardinality(Part(x)) + Cardinality(Within(T)) - Cardinality(Part(x) \cap Within(T))
    BY <1>2, <1>3, <2>3, FS_Union
  <2>6. Cardinality(Part(x) \cap Within(T)) = 0
    BY <2>3, FS_EmptySet
  <2>7. Cardinality(Within(T \cup {x})) = Cardinality(Part(x)) + Cardinality(Within(T))
    BY <1>2, <1>3, <2>5, <2>6
  <2>8. T \cup {x} \in SUBSET D
    OBVIOUS
  <2> QED
    BY <2>1, <2>2, <2>4, <2>7, <2>8
<1>7. D \in Q
  <2> HIDE DEF D, Q
  <2> QED
    BY <1>1, <1>5, <1>6, FiniteInduction
<1>8. Within(D) = S
  OBVIOUS
<1>9. [a \in D |-> sizes[a]] = sizes
  BY <1>4
<1> QED
  BY <1>7, <1>8, <1>9

\* The values of a finite part of the domain of a function.
LEMMA ValuesFinite ==
    ASSUME NEW S, IsFiniteSet(S), NEW v \in [S -> Int], NEW T \in SUBSET S
    PROVE  /\ IsFiniteSet(T) /\ Cardinality(T) \in Nat /\ Cardinality(T) <= Cardinality(S)
           /\ {v[t] : t \in T} \in SUBSET Int /\ IsFiniteSet({v[t] : t \in T})
<1> DEFINE w == [t \in T |-> v[t]]
<1>1. IsFiniteSet(T) /\ Cardinality(T) <= Cardinality(S)
  BY FS_Subset
<1>2. w \in [T -> Int]
  OBVIOUS
<1>3. {v[t] : t \in T} = {w[t] : t \in T}
  OBVIOUS
<1> HIDE DEF w
<1>4. IsFiniteSet({w[t] : t \in T})
  BY <1>1, <1>2, ImageFinite
<1> QED
  BY <1>1, <1>3, <1>4, FS_CardinalityType

\* At each place of the values in increasing order, fewer lie below than the place says,
\* and above no more than come after it.
LEMMA AscendingRanks ==
    ASSUME NEW S, IsFiniteSet(S), NEW v \in [S -> Int], NEW k \in 1 .. Cardinality(S)
    PROVE  LET a == Ascending(v)[k]
           IN /\ a \in Int
              /\ Cardinality({s \in S : v[s] < a}) < k
              /\ Cardinality({s \in S : v[s] > a}) <= Cardinality(S) - k
<1> DEFINE n == Cardinality(S)
           Up(x) == {s \in S : v[s] <= x}
           Reaching == {t \in S : Cardinality(Up(v[t])) >= k}
           Values(T) == {v[t] : t \in T}
           a == Ascending(v)[k]
           Under == {s \in S : v[s] < a}
           Over == {s \in S : v[s] > a}
<1>1. n \in Nat /\ k \in 1 .. n /\ k \in Nat
  BY FS_CardinalityType
<1>2. \A T \in SUBSET S : /\ IsFiniteSet(T) /\ Cardinality(T) \in Nat /\ Cardinality(T) <= n
                          /\ Values(T) \in SUBSET Int /\ IsFiniteSet(Values(T))
  BY ValuesFinite
<1>3. DOMAIN v = S
  OBVIOUS
<1>4. a = Min(Values(Reaching))
  BY <1>3 DEF Ascending
<1>5. \A x : Up(x) \in SUBSET S
  OBVIOUS
<1>6. Reaching # {}
  <2>1. S # {}
    BY <1>1, FS_EmptySet
  <2>2. Values(S) # {} /\ Values(S) \in SUBSET Int /\ IsFiniteSet(Values(S))
    BY <1>2, <2>1
  <2>3. Max(Values(S)) \in Values(S) /\ \A y \in Values(S) : y <= Max(Values(S))
    <3> HIDE DEF Values
    <3> QED
      BY <2>2, Extremes
  <2>4. PICK t \in S : v[t] = Max(Values(S))
    BY <2>3
  <2>5. Up(v[t]) = S
    BY <2>3, <2>4
  <2> QED
    BY <1>1, <2>5
<1>7. PICK t \in Reaching : a = v[t]
  <2>1. Reaching \in SUBSET S
    OBVIOUS
  <2>2. Values(Reaching) # {}
    BY <1>6
  <2> HIDE DEF Reaching, Values
  <2>3. Values(Reaching) \in SUBSET Int /\ IsFiniteSet(Values(Reaching))
    BY <1>2, <2>1
  <2>4. Min(Values(Reaching)) \in Values(Reaching)
    BY <2>2, <2>3, Extremes
  <2> QED
    BY <1>4, <2>4 DEF Values
<1>8. \A u \in Reaching : a <= v[u]
  <2>1. Reaching \in SUBSET S
    OBVIOUS
  <2>2. Values(Reaching) # {}
    BY <1>6
  <2> HIDE DEF Reaching, Values
  <2>3. Values(Reaching) \in SUBSET Int /\ IsFiniteSet(Values(Reaching))
    BY <1>2, <2>1
  <2>4. \A y \in Values(Reaching) : Min(Values(Reaching)) <= y
    BY <2>2, <2>3, Extremes
  <2> QED
    BY <1>4, <2>4 DEF Values
<1> HIDE DEF a, n
<1>9. a \in Int /\ Cardinality(Up(a)) \in Nat /\ Cardinality(Up(a)) >= k
  BY <1>2, <1>5, <1>7
<1>10. Cardinality(Over) <= n - k
  <2>1. Over = S \ Up(a) /\ Up(a) = S \cap Up(a)
    BY <1>9
  <2>2. Cardinality(S \ Up(a)) = n - Cardinality(S \cap Up(a))
    <3> HIDE DEF Up
    <3> QED
      BY FS_Difference DEF n
  <2> QED
    BY <1>1, <1>9, <2>1, <2>2
<1>11. Cardinality(Under) < k
  <2>1. CASE Under = {}
    BY <1>1, <2>1, FS_EmptySet
  <2>2. CASE Under # {}
    <3>1. Under \in SUBSET S
      OBVIOUS
    <3>2. Values(Under) # {} /\ Values(Under) \in SUBSET Int /\ IsFiniteSet(Values(Under))
      BY <1>2, <2>2, <3>1
    <3>3. Max(Values(Under)) \in Values(Under)
          /\ \A y \in Values(Under) : y <= Max(Values(Under))
      <4> HIDE DEF Values, Under
      <4> QED
        BY <3>2, Extremes
    <3>4. PICK u \in Under : v[u] = Max(Values(Under))
      BY <3>3
    <3>5. \A s \in Under : v[s] <= v[u]
      BY <3>3, <3>4
    <3>6. v[u] < a /\ u \in S /\ v[u] \in Int
      BY <1>9
    <3>7. Up(v[u]) = Under
      BY <1>9, <3>5, <3>6
    <3>8. u \notin Reaching
      BY <1>8, <1>9, <3>6
    <3>9. ~(Cardinality(Under) >= k)
      BY <3>6, <3>7, <3>8
    <3>10. Cardinality(Under) \in Nat
      BY <1>2, <3>1
    <3> HIDE DEF Under
    <3> QED
      BY <1>1, <3>9, <3>10
  <2> QED
    BY <2>1, <2>2
<1> QED
  BY <1>9, <1>10, <1>11 DEF a, n

\* So the interval leaves out at most 5 percent on either side, to the nearest place.
LEMMA AscendingCovers ==
    ASSUME NEW S, IsFiniteSet(S), S # {}, NEW v \in [S -> Int]
    PROVE  LET values == Ascending(v)
           IN /\ Len(values) = Cardinality(S)
              /\ 20 * Cardinality({s \in S : v[s] < Lower(values)}) <= Len(values) + 9
              /\ 20 * Cardinality({s \in S : v[s] > Upper(values)}) <= Len(values) + 9
<1> DEFINE n == Cardinality(S)
           values == Ascending(v)
           low == (2 * (n - 1) + 20) \div 40 + 1
           high == (38 * (n - 1) + 20) \div 40 + 1
<1>1. n \in Nat /\ n >= 1
  BY FS_CardinalityType, FS_EmptySet
<1>2. Len(values) = n
  <2>1. DOMAIN v = S
    OBVIOUS
  <2>2. DOMAIN values = 1 .. n
    BY <2>1 DEF Ascending
  <2>3. \E f : values = [i \in 1 .. n |-> f[i]]
    <3>1. values = [i \in 1 .. n |-> values[i]]
      BY <2>1 DEF Ascending
    <3> QED
      BY <3>1
  <2> HIDE DEF values, n
  <2>4. PICK f : values = [i \in 1 .. n |-> f[i]]
    BY <2>3
  <2> QED
    BY <1>1, <2>4
<1> HIDE DEF values, n
<1>3. low \in 1 .. n /\ 20 * (low - 1) <= n + 9
  BY <1>1
<1>4. high \in 1 .. n /\ 20 * (n - high) <= n + 9
  BY <1>1
<1>5. Lower(values) = values[low] /\ Upper(values) = values[high]
  BY <1>2 DEF Lower, Upper
<1> HIDE DEF low, high
<1>6. ASSUME NEW k \in 1 .. n
      PROVE  /\ values[k] \in Int
             /\ Cardinality({s \in S : v[s] < values[k]}) < k
             /\ Cardinality({s \in S : v[s] > values[k]}) <= n - k
  BY AscendingRanks DEF values, n
<1>7. \A x : /\ Cardinality({s \in S : v[s] < x}) \in Nat
             /\ Cardinality({s \in S : v[s] > x}) \in Nat
  BY ValuesFinite
<1>8. 20 * Cardinality({s \in S : v[s] < values[low]}) <= n + 9
  <2> DEFINE c == Cardinality({s \in S : v[s] < values[low]})
  <2>1. c \in Nat /\ c < low
    BY <1>3, <1>6, <1>7
  <2> HIDE DEF c
  <2>2. 20 * c <= n + 9
    BY <1>1, <1>3, <2>1
  <2> QED
    BY <2>2 DEF c
<1>9. 20 * Cardinality({s \in S : v[s] > values[high]}) <= n + 9
  <2> DEFINE c == Cardinality({s \in S : v[s] > values[high]})
  <2>1. c \in Nat /\ c <= n - high
    BY <1>4, <1>6, <1>7
  <2> HIDE DEF c
  <2>2. 20 * c <= n + 9
    BY <1>1, <1>4, <2>1
  <2> QED
    BY <2>2 DEF c
<1> QED
  BY <1>2, <1>5, <1>8, <1>9 DEF values, n

-----------------------------------------------------------------------------
\* Contexts and their keys.

LEMMA PathType ==
    ASSUME NEW e \in ExecutionRecords
    PROVE  /\ ActivityPath(e) \in Seq(Int) /\ Len(ActivityPath(e)) = Len(e.events)
           /\ Len(e.events) \in Nat /\ DOMAIN e.events = 1 .. Len(e.events)
           /\ \A i \in 1 .. Len(e.events) : /\ ActivityPath(e)[i] = e.events[i].activity
                                            /\ e.events[i] \in PathEvents
<1>1. PICK t \in Seq(PathEvents) : t = e.events
  BY DEF ExecutionRecords
<1>2. /\ Len(t) \in Nat /\ DOMAIN t = 1 .. Len(t)
      /\ \A i \in 1 .. Len(t) : t[i] \in PathEvents /\ t[i].activity \in Int
  <2>1. /\ Len(t) \in Nat /\ DOMAIN t = 1 .. Len(t)
        /\ \A i \in 1 .. Len(t) : t[i] \in PathEvents
    OBVIOUS
  <2>2. \A event \in PathEvents : event.activity \in Int
    BY DEF PathEvents
  <2> QED
    BY <2>1, <2>2
<1>3. ActivityPath(e) = [i \in 1 .. Len(t) |-> t[i].activity]
  BY <1>1, <1>2 DEF ActivityPath
<1>4. [i \in 1 .. Len(t) |-> t[i].activity] \in Seq(Int)
  BY <1>2
<1>5. Len([i \in 1 .. Len(t) |-> t[i].activity]) = Len(t)
  BY <1>2
<1> QED
  BY <1>1, <1>2, <1>3, <1>4, <1>5

\* The o elements before a position of a sequence.
LEMMA ContextBefore ==
    ASSUME NEW s \in Seq(Int), NEW i \in 1 .. Len(s) + 1, NEW o \in 0 .. i - 1
    PROVE  LET context == SubSeq(s, i - o, i - 1)
           IN /\ context \in Seq(Int) /\ Len(context) = o
              /\ o = 0 => context = <<>>
              /\ o > 0 => context # <<>> /\ Last(context) = s[i - 1]
<1> DEFINE m == i - o
           n == i - 1
<1>1. /\ Len(s) \in Nat /\ i \in Int /\ o \in Int /\ m \in Int /\ n \in Int
      /\ \A l \in m .. n : s[l] \in Int
  OBVIOUS
<1>2. n - m + 1 = o /\ (m <= n <=> o > 0) /\ (n < m <=> o = 0) /\ (o > 0 => m + o - 1 = i - 1)
  BY <1>1
<1>3. PICK context : context = SubSeq(s, m, n)
  OBVIOUS
<1>4. /\ SubSeq(s, m, n) \in Seq(Int)
      /\ Len(SubSeq(s, m, n)) = IF m <= n THEN n - m + 1 ELSE 0
      /\ \A l \in 1 .. n - m + 1 : SubSeq(s, m, n)[l] = s[m + l - 1]
  <2> HIDE DEF m, n
  <2> QED
    BY <1>1, SubSeqProperties
<1>5. o = 0 => SubSeq(s, m, n) = <<>>
  <2> HIDE DEF m, n
  <2> QED
    BY <1>1, <1>2, SubSeqEmpty
<1> HIDE DEF m, n
<1>6. context \in Seq(Int) /\ Len(context) = o
  BY <1>1, <1>2, <1>3, <1>4
<1>7. ASSUME o > 0 PROVE context # <<>> /\ Last(context) = s[i - 1]
  <2>1. o \in 1 .. n - m + 1
    BY <1>1, <1>2, <1>7
  <2>2. context[o] = s[m + o - 1]
    BY <1>3, <1>4, <2>1
  <2>3. context # <<>>
    BY <1>6, <1>7
  <2> QED
    BY <1>2, <1>6, <1>7, <2>2, <2>3 DEF Last
<1> QED
  BY <1>3, <1>5, <1>6, <1>7 DEF m, n

\* The last o elements.
LEMMA ContextAtEnd ==
    ASSUME NEW s \in Seq(Int), NEW o \in 0 .. Len(s)
    PROVE  LET context == SubSeq(s, Len(s) - o + 1, Len(s))
           IN /\ context \in Seq(Int) /\ Len(context) = o
              /\ o = 0 => context = <<>>
              /\ o > 0 => context # <<>> /\ Last(context) = Last(s)
<1> DEFINE l == Len(s) + 1
<1>1. l \in 1 .. Len(s) + 1 /\ o \in 0 .. l - 1
  OBVIOUS
<1>2. l - o = Len(s) - o + 1 /\ l - 1 = Len(s)
  OBVIOUS
<1>3. /\ SubSeq(s, l - o, l - 1) \in Seq(Int) /\ Len(SubSeq(s, l - o, l - 1)) = o
      /\ o = 0 => SubSeq(s, l - o, l - 1) = <<>>
      /\ o > 0 => /\ SubSeq(s, l - o, l - 1) # <<>>
                  /\ Last(SubSeq(s, l - o, l - 1)) = s[l - 1]
  <2> HIDE DEF l
  <2> QED
    BY <1>1, ContextBefore
<1>4. o > 0 => Last(s) = s[Len(s)]
  BY DEF Last
<1> QED
  BY <1>2, <1>3, <1>4

\* Whether two contexts are one to an encoding.
SameContext(encoding, mine, asked, before, length, size, objects) ==
    IF encoding = "sequential" THEN mine = asked
    ELSE /\ before = length /\ size = objects
         /\ Len(mine) = Len(asked) /\ (mine # <<>> => Last(mine) = Last(asked))

LEMMA KeysMatch ==
    ASSUME NEW encoding \in Encodings, NEW mine \in Seq(Int), NEW asked \in Seq(Int),
           NEW before, NEW length, NEW size, NEW objects
    PROVE  FeatureKey(mine, encoding, before, size) = FeatureKey(asked, encoding, length, objects)
           <=> SameContext(encoding, mine, asked, before, length, size, objects)
<1>1. CASE encoding = "sequential"
  BY <1>1 DEF FeatureKey, SameContext
<1>2. CASE encoding = "tabular"
  <2> DEFINE a == IF mine = <<>> THEN NoValue ELSE Last(mine)
             b == IF asked = <<>> THEN NoValue ELSE Last(asked)
  <2>1. FeatureKey(mine, encoding, before, size) = <<a, Len(mine), before, size>>
    BY <1>2 DEF FeatureKey
  <2>2. FeatureKey(asked, encoding, length, objects) = <<b, Len(asked), length, objects>>
    BY <1>2 DEF FeatureKey
  <2>3. Len(mine) = Len(asked) => (a = b <=> (mine # <<>> => Last(mine) = Last(asked)))
    OBVIOUS
  <2> HIDE DEF a, b
  <2>4. <<a, Len(mine), before, size>> = <<b, Len(asked), length, objects>>
          <=> a = b /\ Len(mine) = Len(asked) /\ before = length /\ size = objects
    OBVIOUS
  <2>5. SameContext(encoding, mine, asked, before, length, size, objects)
          <=> /\ before = length /\ size = objects
              /\ Len(mine) = Len(asked) /\ (mine # <<>> => Last(mine) = Last(asked))
    BY <1>2 DEF SameContext
  <2> QED
    BY <2>1, <2>2, <2>3, <2>4, <2>5
<1> QED
  BY <1>1, <1>2 DEF Encodings

LEMMA MinOfTwo ==
    ASSUME NEW a \in Nat, NEW b \in Nat
    PROVE  (a <= b /\ Min({a, b}) = a) \/ (b <= a /\ Min({a, b}) = b)
<1> DEFINE S == {a, b}
<1>1. S \in SUBSET Int /\ S # {} /\ IsFiniteSet(S)
  <2>1. IsFiniteSet({a}) /\ S = {a} \cup {b}
    BY FS_Singleton
  <2>2. IsFiniteSet({a} \cup {b})
    BY <2>1, FS_AddElement
  <2> QED
    BY <2>1, <2>2
<1>2. Min(S) \in S /\ \A y \in S : Min(S) <= y
  <2> HIDE DEF S
  <2> QED
    BY <1>1, Extremes
<1> QED
  BY <1>2

\* The key of the context of o activities before the event i.
KeyAt(e, p, i, o) ==
    FeatureKey(SubSeq(ActivityPath(e), i - o, i - 1), p.feature_encoding, i - 1, e.objects)

LEMMA SampleForm ==
    ASSUME NEW executions \in Seq(ExecutionRecords), NEW p, p.maximum_order \in Nat
    PROVE  \A s : s \in Samples(executions, p) <=>
               \E n \in DOMAIN executions :
                   \E i \in 1 .. Len(executions[n].events), o \in Nat :
                       /\ o < i /\ o <= p.maximum_order
                       /\ s = [execution |-> n, at |-> i, key |-> KeyAt(executions[n], p, i, o)]
<1> DEFINE Of(n, c) == [execution |-> n, at |-> c[1],
                        key |-> FeatureKey(SubSeq(ActivityPath(executions[n]), c[1] - c[2], c[1] - 1),
                                           p.feature_encoding, c[1] - 1, executions[n].objects)]
           C(n) == ContextsOf(ActivityPath(executions[n]), p.maximum_order)
<1>1. Samples(executions, p) = UNION {{Of(n, c) : c \in C(n)} : n \in DOMAIN executions}
  BY DEF Samples
<1>2. ASSUME NEW n \in DOMAIN executions
      PROVE  \A c : c \in C(n) <=> \E i \in 1 .. Len(executions[n].events), o \in Nat :
                                       o < i /\ o <= p.maximum_order /\ c = <<i, o>>
  <2> DEFINE path == ActivityPath(executions[n])
             mo == p.maximum_order
             l == Len(executions[n].events)
             Orders(i) == 0 .. Min({mo, i - 1})
  <2>1. executions[n] \in ExecutionRecords
    OBVIOUS
  <2>2. DOMAIN path = 1 .. l /\ l \in Nat
    BY <2>1, PathType
  <2>3. C(n) = UNION {{<<i, o>> : o \in Orders(i)} : i \in DOMAIN path}
    BY DEF ContextsOf
  <2>4. ASSUME NEW i \in 1 .. l PROVE \A o : o \in Orders(i) <=> o \in Nat /\ o < i /\ o <= mo
    <3>1. i - 1 \in Nat /\ mo \in Nat /\ i \in Nat
      BY <2>2
    <3>2. PICK m : m = Min({mo, i - 1})
      OBVIOUS
    <3>3. (mo <= i - 1 /\ m = mo) \/ (i - 1 <= mo /\ m = i - 1)
      <4> HIDE DEF mo
      <4> QED
        BY <3>1, <3>2, MinOfTwo
    <3>4. \A o : o \in 0 .. m <=> o \in Nat /\ o < i /\ o <= mo
      <4> HIDE DEF mo, l, path, C, Orders
      <4> QED
        BY <3>1, <3>3
    <3> QED
      BY <3>2, <3>4
  <2>5. \A c : c \in C(n) <=> \E i \in 1 .. l : \E o \in Orders(i) : c = <<i, o>>
    <3> HIDE DEF Orders, path, C, l
    <3>1. \A c : c \in C(n) <=> \E i \in DOMAIN path : \E o \in Orders(i) : c = <<i, o>>
      BY <2>3
    <3> QED
      BY <2>2, <3>1
  <2> HIDE DEF path, mo, l, C, Orders
  <2>6. \A c : c \in C(n) <=> \E i \in 1 .. l, o \in Nat : o < i /\ o <= mo /\ c = <<i, o>>
    BY <2>4, <2>5
  <2> QED
    BY <2>6 DEF mo, l
<1>3. \A n, i, o : Of(n, <<i, o>>) =
          [execution |-> n, at |-> i, key |-> KeyAt(executions[n], p, i, o)]
  BY DEF KeyAt
<1> HIDE DEF C, Of
<1>4. \A s : s \in Samples(executions, p)
               <=> \E n \in DOMAIN executions : \E c \in C(n) : s = Of(n, c)
  BY <1>1
<1>5. ASSUME NEW s, NEW n \in DOMAIN executions, NEW c \in C(n), s = Of(n, c)
      PROVE  \E i \in 1 .. Len(executions[n].events), o \in Nat :
                 /\ o < i /\ o <= p.maximum_order
                 /\ s = [execution |-> n, at |-> i, key |-> KeyAt(executions[n], p, i, o)]
  <2>1. PICK i \in 1 .. Len(executions[n].events), o \in Nat :
            o < i /\ o <= p.maximum_order /\ c = <<i, o>>
    BY <1>2
  <2>2. s = [execution |-> n, at |-> i, key |-> KeyAt(executions[n], p, i, o)]
    BY <1>3, <1>5, <2>1
  <2> QED
    BY <2>1, <2>2
<1>6. ASSUME NEW s, NEW n \in DOMAIN executions,
             NEW i \in 1 .. Len(executions[n].events), NEW o \in Nat,
             o < i /\ o <= p.maximum_order,
             s = [execution |-> n, at |-> i, key |-> KeyAt(executions[n], p, i, o)]
      PROVE  \E c \in C(n) : s = Of(n, c)
  <2>1. <<i, o>> \in C(n)
    BY <1>2, <1>6
  <2>2. s = Of(n, <<i, o>>)
    BY <1>3, <1>6
  <2> QED
    BY <2>1, <2>2
<1> QED
  BY <1>4, <1>5, <1>6

LEMMA JobType ==
    ASSUME NEW j, IsJob(j)
    PROVE  /\ j.executions \in Seq(ExecutionRecords)
           /\ DOMAIN j.executions = 1 .. Len(j.executions) /\ Len(j.executions) \in Nat
           /\ \A n \in DOMAIN j.executions : j.executions[n] \in ExecutionRecords
           /\ j.path \in Seq(Int) /\ Len(j.path) \in Nat
           /\ j.parameters.maximum_order \in Nat
           /\ j.target \in Targets /\ j.asked \in Targets
<1>1. j.executions \in Seq(ExecutionRecords) /\ j.path \in Seq(Int)
  BY DEF IsJob
<1> QED
  BY <1>1 DEF IsJob

\* The events of executions, a finite set.
LEMMA PositionsFinite ==
    ASSUME NEW executions \in Seq(ExecutionRecords)
    PROVE  /\ IsFiniteSet(Positions(executions))
           /\ Positions(executions) \in SUBSET (Nat \X Nat)
           /\ \A x : x \in Positions(executions) <=>
                  /\ x = <<x[1], x[2]>>
                  /\ x[1] \in DOMAIN executions
                  /\ x[2] \in 1 .. Len(executions[x[1]].events)
<1> DEFINE l(n) == Len(executions[n].events)
           D == DOMAIN executions
<1>1. /\ D = 1 .. Len(executions) /\ Len(executions) \in Nat /\ IsFiniteSet(D)
      /\ \A n \in D : l(n) \in Nat /\ DOMAIN executions[n].events = 1 .. l(n)
  <2>1. D = 1 .. Len(executions) /\ Len(executions) \in Nat
        /\ \A n \in D : executions[n] \in ExecutionRecords
    OBVIOUS
  <2>2. IsFiniteSet(1 .. Len(executions))
    BY <2>1, FS_Interval
  <2> QED
    BY <2>1, <2>2, PathType
<1>2. Positions(executions) = UNION {{n} \X (1 .. l(n)) : n \in D}
  BY <1>1 DEF Positions
<1> HIDE DEF l, D
<1>3. \A x : x \in Positions(executions) <=>
                 x = <<x[1], x[2]>> /\ x[1] \in D /\ x[2] \in 1 .. l(x[1])
  BY <1>2
<1>4. IsFiniteSet(Positions(executions))
  <2> DEFINE f == [n \in D |-> {n} \X (1 .. l(n))]
             F == {f[n] : n \in D}
  <2>1. \A n \in D : IsFiniteSet({n} \X (1 .. l(n)))
    <3> TAKE n \in D
    <3>1. IsFiniteSet({n})
      BY FS_Singleton
    <3>2. IsFiniteSet(1 .. l(n))
      BY <1>1, FS_Interval
    <3> QED
      BY <3>1, <3>2, FS_Product
  <2>2. f \in [D -> SUBSET (Nat \X Nat)]
    BY <1>1
  <2>3. Positions(executions) = UNION F
    BY <1>2
  <2>4. \A T \in F : IsFiniteSet(T)
    BY <2>1
  <2>5. IsFiniteSet(F)
    <3> HIDE DEF f
    <3>1. IsFiniteSet(D)
      BY <1>1
    <3>2. IsFiniteSet({f[n] : n \in D})
      BY <3>1, <2>2, ImageFinite
    <3> QED
      BY <3>2
  <2> HIDE DEF F
  <2> QED
    BY <2>3, <2>4, <2>5, FS_UNION
<1>5. Positions(executions) \in SUBSET (Nat \X Nat)
  <2>1. ASSUME NEW x \in Positions(executions) PROVE x \in Nat \X Nat
    <3>1. x = <<x[1], x[2]>> /\ x[1] \in D /\ x[2] \in 1 .. l(x[1])
      BY <1>3
    <3>2. x[1] \in Nat /\ x[2] \in Nat
      BY <1>1, <3>1
    <3> QED
      BY <3>1, <3>2
  <2> QED
    BY <2>1
<1> QED
  BY <1>3, <1>4, <1>5 DEF l, D

-----------------------------------------------------------------------------
\* The samples of a context are the places where it occurs.

AskedKey(j, o) ==
    FeatureKey(SubSeq(j.path, Len(j.path) - o + 1, Len(j.path)), j.parameters.feature_encoding,
               Len(j.path), j.objects)

Tagged(X, k) == {[execution |-> x[1], at |-> x[2], key |-> k] : x \in X}

\* A request that fit or predict accepts.
Accepted(j) == IsJob(j) /\ j.parameters.feature_encoding \in Encodings

\* Whether the activities before an event are those that are asked for.
Matches(j, e, i, o) ==
    IF j.parameters.feature_encoding = "sequential"
    THEN SubSeq(ActivityPath(e), i - o, i - 1) = SubSeq(j.path, Len(j.path) - o + 1, Len(j.path))
    ELSE i = Len(j.path) + 1 /\ e.objects = j.objects /\ (o > 0 => ActivityPath(e)[i - 1] = Last(j.path))

LEMMA OccurrencesForm ==
    ASSUME NEW j, Accepted(j), NEW o
    PROVE  Occurrences(j, o) =
               {x \in Positions(j.executions) :
                   x[2] > o /\ Matches(j, j.executions[x[1]], x[2], o)}
  BY DEF Occurrences, Matches

LEMMA KeysOfMatches ==
    ASSUME NEW j, Accepted(j), NEW o \in 0 .. Len(j.path),
           NEW e \in ExecutionRecords, NEW i \in 1 .. Len(e.events), NEW q \in 0 .. i - 1
    PROVE  KeyAt(e, j.parameters, i, q) = AskedKey(j, o) <=> q = o /\ Matches(j, e, i, o)
<1> DEFINE mine == SubSeq(ActivityPath(e), i - q, i - 1)
           asked == SubSeq(j.path, Len(j.path) - o + 1, Len(j.path))
           encoding == j.parameters.feature_encoding
<1>1. j.path \in Seq(Int) /\ Len(j.path) \in Nat /\ encoding \in Encodings
  BY JobType DEF Accepted
<1>2. ActivityPath(e) \in Seq(Int) /\ Len(ActivityPath(e)) = Len(e.events) /\ Len(e.events) \in Nat
  BY PathType
<1>3. /\ mine \in Seq(Int) /\ Len(mine) = q
      /\ q = 0 => mine = <<>>
      /\ q > 0 => mine # <<>> /\ Last(mine) = ActivityPath(e)[i - 1]
  <2>1. i \in 1 .. Len(ActivityPath(e)) + 1
    BY <1>2
  <2> QED
    BY <1>2, <2>1, ContextBefore
<1>4. /\ asked \in Seq(Int) /\ Len(asked) = o
      /\ o = 0 => asked = <<>>
      /\ o > 0 => asked # <<>> /\ Last(asked) = Last(j.path)
  BY <1>1, ContextAtEnd
<1>5. KeyAt(e, j.parameters, i, q) = FeatureKey(mine, encoding, i - 1, e.objects)
  BY DEF KeyAt
<1>6. AskedKey(j, o) = FeatureKey(asked, encoding, Len(j.path), j.objects)
  BY DEF AskedKey
<1>7. Matches(j, e, i, q) <=>
          IF encoding = "sequential"
          THEN mine = SubSeq(j.path, Len(j.path) - q + 1, Len(j.path))
          ELSE i = Len(j.path) + 1 /\ e.objects = j.objects
                   /\ (q > 0 => ActivityPath(e)[i - 1] = Last(j.path))
  BY DEF Matches
<1>8. SubSeq(j.path, Len(j.path) - q + 1, Len(j.path)) = asked \/ q # o
  OBVIOUS
<1> HIDE DEF mine, asked, encoding
<1>9. FeatureKey(mine, encoding, i - 1, e.objects)
        = FeatureKey(asked, encoding, Len(j.path), j.objects)
      <=> SameContext(encoding, mine, asked, i - 1, Len(j.path), e.objects, j.objects)
  BY <1>1, <1>3, <1>4, KeysMatch
<1>10. SameContext(encoding, mine, asked, i - 1, Len(j.path), e.objects, j.objects)
         => q = o
  BY <1>3, <1>4 DEF SameContext
<1>11. ASSUME q = o
       PROVE  SameContext(encoding, mine, asked, i - 1, Len(j.path), e.objects, j.objects)
                <=> Matches(j, e, i, q)
  <2>1. i = Len(j.path) + 1 <=> i - 1 = Len(j.path)
    BY <1>1, <1>2
  <2>2. mine # <<>> <=> q > 0
    BY <1>3
  <2>3. q > 0 => Last(mine) = ActivityPath(e)[i - 1] /\ Last(asked) = Last(j.path)
    BY <1>3, <1>4, <1>11
  <2>4. Len(mine) = Len(asked)
    BY <1>3, <1>4, <1>11
  <2>5. CASE encoding = "sequential"
    BY <1>7, <1>8, <1>11, <2>5 DEF SameContext
  <2>6. CASE encoding # "sequential"
    BY <1>7, <1>11, <2>1, <2>2, <2>3, <2>4, <2>6 DEF SameContext
  <2> QED
    BY <2>5, <2>6
<1> QED
  BY <1>5, <1>6, <1>9, <1>10, <1>11

LEMMA SamplesOfKey ==
    ASSUME NEW j, Accepted(j), NEW o \in 0 .. Len(j.path), o <= j.parameters.maximum_order
    PROVE  {s \in Samples(j.executions, j.parameters) : s.key = AskedKey(j, o)}
             = Tagged(Occurrences(j, o), AskedKey(j, o))
<1> DEFINE ex == j.executions
           p == j.parameters
           k == AskedKey(j, o)
           Fits(n, i) == Matches(j, ex[n], i, o)
<1>1. /\ ex \in Seq(ExecutionRecords) /\ p.maximum_order \in Nat /\ j.path \in Seq(Int)
      /\ Len(j.path) \in Nat
      /\ \A n \in DOMAIN ex : ex[n] \in ExecutionRecords
  BY JobType DEF Accepted
<1>2. ASSUME NEW n \in DOMAIN ex, NEW i \in 1 .. Len(ex[n].events), NEW q \in Nat, q < i
      PROVE  KeyAt(ex[n], p, i, q) = k <=> q = o /\ Fits(n, i)
  <2>1. PICK e \in ExecutionRecords : e = ex[n]
    BY <1>1
  <2>2. i \in 1 .. Len(e.events) /\ q \in 0 .. i - 1
    <3>1. Len(e.events) \in Nat
      BY PathType
    <3> QED
      BY <1>2, <2>1, <3>1
  <2>3. KeyAt(e, j.parameters, i, q) = AskedKey(j, o) <=> q = o /\ Matches(j, e, i, o)
    BY <2>2, KeysOfMatches
  <2> QED
    BY <2>1, <2>3
<1>3. \A x : x \in Occurrences(j, o) <=>
          /\ x = <<x[1], x[2]>> /\ x[1] \in DOMAIN ex /\ x[2] \in 1 .. Len(ex[x[1]].events)
          /\ x[2] > o /\ Fits(x[1], x[2])
  BY <1>1, OccurrencesForm, PositionsFinite
<1> HIDE DEF k, Fits
<1>4. ASSUME NEW s \in Samples(ex, p), s.key = k PROVE s \in Tagged(Occurrences(j, o), k)
  <2>a. PICK n \in DOMAIN ex : \E i \in 1 .. Len(ex[n].events), q \in Nat :
            q < i /\ s = [execution |-> n, at |-> i, key |-> KeyAt(ex[n], p, i, q)]
    <3> HIDE DEF ex, p
    <3> QED
      BY <1>1, SampleForm
  <2>1. PICK i \in 1 .. Len(ex[n].events), q \in Nat :
            q < i /\ s = [execution |-> n, at |-> i, key |-> KeyAt(ex[n], p, i, q)]
    BY <2>a
  <2>2. KeyAt(ex[n], p, i, q) = k
    BY <1>4, <2>1
  <2>3. q = o /\ Fits(n, i)
    BY <1>2, <2>1, <2>2
  <2>4. i > o
    <3>1. Len(ex[n].events) \in Nat
      BY <1>1, PathType
    <3> QED
      BY <2>1, <2>3, <3>1
  <2>5. <<n, i>> \in Occurrences(j, o)
    BY <1>3, <2>3, <2>4
  <2>6. s = [execution |-> <<n, i>>[1], at |-> <<n, i>>[2], key |-> k]
    BY <2>1, <2>2
  <2> QED
    BY <2>5, <2>6 DEF Tagged
<1>5. ASSUME NEW x \in Occurrences(j, o)
      PROVE  LET s == [execution |-> x[1], at |-> x[2], key |-> k]
             IN s \in Samples(ex, p) /\ s.key = k
  <2>1. /\ x[1] \in DOMAIN ex /\ x[2] \in 1 .. Len(ex[x[1]].events)
        /\ x[2] > o /\ Fits(x[1], x[2])
    BY <1>3
  <2>2. o \in Nat /\ o < x[2] /\ o <= p.maximum_order
    <3>1. Len(ex[x[1]].events) \in Nat
      BY <1>1, <2>1, PathType
    <3> QED
      BY <1>1, <2>1, <3>1
  <2>3. KeyAt(ex[x[1]], p, x[2], o) = k
    BY <1>2, <2>1, <2>2
  <2> HIDE DEF ex, p
  <2>4. [execution |-> x[1], at |-> x[2], key |-> k] \in Samples(ex, p)
    BY <1>1, <2>1, <2>2, <2>3, SampleForm
  <2> QED
    BY <2>4
<1> QED
  BY <1>4, <1>5 DEF Tagged, k

\* The samples that tell what is asked.
TellingSamples(j) ==
    {s \in Samples(j.executions, j.parameters) :
        j.asked \in {"Outcome", "Risk"} =>
            OutcomeOf(j.executions[s.execution], j.parameters) # NoValue}

LEMMA TellingOfKey ==
    ASSUME NEW j, Accepted(j), NEW o \in 0 .. Len(j.path), o <= j.parameters.maximum_order
    PROVE  {s \in TellingSamples(j) : s.key = AskedKey(j, o)}
             = Tagged(Answering(j, o), AskedKey(j, o))
<1> DEFINE k == AskedKey(j, o)
           Tells(n) == j.asked \in {"Outcome", "Risk"} =>
                           OutcomeOf(j.executions[n], j.parameters) # NoValue
           S == Samples(j.executions, j.parameters)
           X == Occurrences(j, o)
<1>1. {s \in S : s.key = k} = Tagged(X, k)
  BY SamplesOfKey
<1>2. TellingSamples(j) = {s \in S : Tells(s.execution)}
  BY DEF TellingSamples
<1>3. Answering(j, o) = {x \in X : Tells(x[1])}
  BY DEF Answering
<1> HIDE DEF k, Tells, S, X
<1>4. {s \in {t \in S : Tells(t.execution)} : s.key = k} = {s \in Tagged(X, k) : Tells(s.execution)}
  BY <1>1
<1>5. {s \in Tagged(X, k) : Tells(s.execution)} = Tagged({x \in X : Tells(x[1])}, k)
  BY DEF Tagged
<1> QED
  BY <1>2, <1>3, <1>4, <1>5 DEF k

LEMMA AnsweringFinite ==
    ASSUME NEW j, Accepted(j), NEW o
    PROVE  /\ IsFiniteSet(Answering(j, o)) /\ Answering(j, o) \in SUBSET (Nat \X Nat)
           /\ \A x \in Answering(j, o) : /\ x[1] \in DOMAIN j.executions
                                         /\ x[2] \in 1 .. Len(j.executions[x[1]].events)
<1>1. j.executions \in Seq(ExecutionRecords)
  BY JobType DEF Accepted
<1>2. Answering(j, o) \in SUBSET Positions(j.executions)
  BY DEF Answering, Occurrences
<1>3. /\ IsFiniteSet(Positions(j.executions))
      /\ Positions(j.executions) \in SUBSET (Nat \X Nat)
      /\ \A x \in Positions(j.executions) : /\ x[1] \in DOMAIN j.executions
                                            /\ x[2] \in 1 .. Len(j.executions[x[1]].events)
  BY <1>1, PositionsFinite
<1> QED
  BY <1>2, <1>3, FS_Subset

\* What is learned from the executions of a request, for what it asks.
Learned(j) == BuildArtifact(j.executions, j.parameters, j.asked)

\* The parts of an artifact, and the samples they are taken from.
LEMMA LearnedParts ==
    ASSUME NEW j, Accepted(j)
    PROVE  LET art == Learned(j)
               S == Samples(j.executions, j.parameters)
               T == TellingSamples(j)
               next == [s \in S |-> j.executions[s.execution].events[s.at].activity]
               remaining == [s \in S |-> RemainingAt(j.executions[s.execution], s.at)]
               of(k) == {s \in T : s.key = k}
           IN /\ art.target = j.asked
              /\ art.maximum_order = j.parameters.maximum_order
              /\ art.feature_encoding = j.parameters.feature_encoding
              /\ Known(art, j.asked) = {s.key : s \in T}
              /\ T \in SUBSET S
              /\ j.asked = "NextActivity" => \A k \in {s.key : s \in T} :
                     art.next_counts[k] = [a \in {next[s] : s \in of(k)} |->
                                              Cardinality({s \in of(k) : next[s] = a})]
              /\ j.asked = "RemainingTime" => \A k \in {s.key : s \in T} :
                     art.remaining[k] = Ascending([s \in of(k) |-> remaining[s]])
              /\ j.asked \in {"Outcome", "Risk"} => \A k \in {s.key : s \in T} :
                     art.binary[k][2] = Cardinality(of(k))
<1> DEFINE art == Learned(j)
           S == Samples(j.executions, j.parameters)
           T == TellingSamples(j)
           next == [s \in S |-> j.executions[s.execution].events[s.at].activity]
           remaining == [s \in S |-> RemainingAt(j.executions[s.execution], s.at)]
           of(k) == {s \in T : s.key = k}
           W == {s \in S : OutcomeOf(j.executions[s.execution], j.parameters) # NoValue}
<1>1. j.asked \in Targets
  BY JobType DEF Accepted
<1>2. /\ art.target = j.asked
      /\ art.maximum_order = j.parameters.maximum_order
      /\ art.feature_encoding = j.parameters.feature_encoding
  BY DEF Learned, BuildArtifact
<1>3. art.next_counts = [k \in {s.key : s \in S} |->
          [a \in {j.executions[s.execution].events[s.at].activity : s \in {t \in S : t.key = k}} |->
              Cardinality({s \in {t \in S : t.key = k} :
                              j.executions[s.execution].events[s.at].activity = a})]]
  BY DEF Learned, BuildArtifact
<1>4. art.remaining = [k \in {s.key : s \in S} |->
          Ascending([s \in {t \in S : t.key = k} |->
                        RemainingAt(j.executions[s.execution], s.at)])]
  BY DEF Learned, BuildArtifact
<1>5. art.binary = [k \in {s.key : s \in W} |->
          <<Cardinality({s \in {t \in W : t.key = k} :
                            OutcomeOf(j.executions[s.execution], j.parameters)}),
            Cardinality({t \in W : t.key = k})>>]
  BY DEF Learned, BuildArtifact
<1>6. T \in SUBSET S /\ (j.asked \in {"NextActivity", "RemainingTime"} => T = S)
        /\ (j.asked \in {"Outcome", "Risk"} => T = W)
  BY DEF TellingSamples
<1>7. Known(art, j.asked) = {s.key : s \in T}
  <2>1. DOMAIN art.next_counts = {s.key : s \in S} /\ DOMAIN art.remaining = {s.key : s \in S}
          /\ DOMAIN art.binary = {s.key : s \in W}
    BY <1>3, <1>4, <1>5
  <2> HIDE DEF art, S, T, W
  <2>2. CASE j.asked = "NextActivity"
    BY <1>6, <2>1, <2>2 DEF Known
  <2>3. CASE j.asked = "RemainingTime"
    BY <1>6, <2>1, <2>3 DEF Known
  <2>4. CASE j.asked \in {"Outcome", "Risk"}
    BY <1>6, <2>1, <2>4 DEF Known
  <2> QED
    BY <1>1, <2>2, <2>3, <2>4 DEF Targets
<1>8. ASSUME j.asked = "NextActivity", NEW k \in {s.key : s \in T}
      PROVE  art.next_counts[k] = [a \in {next[s] : s \in of(k)} |->
                                      Cardinality({s \in of(k) : next[s] = a})]
  <2>1. T = S
    BY <1>6, <1>8
  <2> HIDE DEF art, S, T, W
  <2>2. {j.executions[s.execution].events[s.at].activity : s \in {t \in S : t.key = k}}
          = {next[s] : s \in of(k)}
    BY <2>1
  <2>3. \A a : {s \in {t \in S : t.key = k} :
                  j.executions[s.execution].events[s.at].activity = a} = {s \in of(k) : next[s] = a}
    BY <2>1
  <2>4. art.next_counts[k] =
          [a \in {j.executions[s.execution].events[s.at].activity : s \in {t \in S : t.key = k}} |->
              Cardinality({s \in {t \in S : t.key = k} :
                              j.executions[s.execution].events[s.at].activity = a})]
    BY <1>3, <1>8, <2>1
  <2> QED
    BY <2>2, <2>3, <2>4
<1>9. ASSUME j.asked = "RemainingTime", NEW k \in {s.key : s \in T}
      PROVE  art.remaining[k] = Ascending([s \in of(k) |-> remaining[s]])
  <2>1. T = S
    BY <1>6, <1>9
  <2> HIDE DEF art, S, T, W
  <2>2. [s \in {t \in S : t.key = k} |-> RemainingAt(j.executions[s.execution], s.at)]
          = [s \in of(k) |-> remaining[s]]
    BY <2>1
  <2>3. art.remaining[k] =
            Ascending([s \in {t \in S : t.key = k} |-> RemainingAt(j.executions[s.execution], s.at)])
    BY <1>4, <1>9, <2>1
  <2> QED
    BY <2>2, <2>3
<1>10. ASSUME j.asked \in {"Outcome", "Risk"}, NEW k \in {s.key : s \in T}
       PROVE  art.binary[k][2] = Cardinality(of(k))
  <2>1. T = W
    BY <1>6, <1>10
  <2> HIDE DEF art, S, T, W
  <2> QED
    BY <1>5, <1>10, <2>1
<1> HIDE DEF art, S, T, W
<1> QED
  BY <1>2, <1>6, <1>7, <1>8, <1>9, <1>10 DEF art, S, T

\* Backing off finds the longest context that occurs.
LEMMA BackoffLongest ==
    ASSUME NEW j, Accepted(j), NEW order, order # NoValue,
           order = BackoffOrder(j.path, j.objects, Learned(j), j.asked)
    PROVE  /\ order \in 0 .. Len(j.path) /\ order <= j.parameters.maximum_order
           /\ SuffixKey(j.path, order, Learned(j), j.objects) = AskedKey(j, order)
           /\ AskedKey(j, order) \in {s.key : s \in TellingSamples(j)}
           /\ \A o \in order + 1 .. Min({j.parameters.maximum_order, Len(j.path)}) :
                  Answering(j, o) = {}
<1> DEFINE mo == j.parameters.maximum_order
           l == Len(j.path)
           limit == Min({mo, l})
           keys == {s.key : s \in TellingSamples(j)}
           orders == {o \in 0 .. limit : AskedKey(j, o) \in keys}
<1>1. mo \in Nat /\ l \in Nat
  BY JobType DEF Accepted
<1>2. (mo <= l /\ limit = mo) \/ (l <= mo /\ limit = l)
  <2> HIDE DEF mo, l
  <2> QED
    BY <1>1, MinOfTwo
<1> HIDE DEF limit
<1>3. limit \in Nat /\ \A o \in 0 .. limit : o \in 0 .. l /\ o <= mo
  <2> HIDE DEF mo, l
  <2> QED
    BY <1>1, <1>2
<1>4. \A o : SuffixKey(j.path, o, Learned(j), j.objects) = AskedKey(j, o)
  <2>1. Learned(j).feature_encoding = j.parameters.feature_encoding
    BY LearnedParts
  <2> QED
    BY <2>1 DEF SuffixKey, AskedKey
<1>5. order = IF orders = {} THEN NoValue ELSE Max(orders)
  <2>1. Learned(j).maximum_order = mo /\ Known(Learned(j), j.asked) = keys
    BY LearnedParts
  <2>2. orders = {o \in 0 .. Min({Learned(j).maximum_order, Len(j.path)}) :
                     SuffixKey(j.path, o, Learned(j), j.objects) \in Known(Learned(j), j.asked)}
    BY <1>4, <2>1 DEF limit
  <2> QED
    BY <2>2 DEF BackoffOrder
<1>6. orders # {} /\ orders \in SUBSET Int /\ IsFiniteSet(orders)
  <2>1. orders \in SUBSET (0 .. limit)
    OBVIOUS
  <2>2. IsFiniteSet(0 .. limit)
    BY <1>3, FS_Interval
  <2>3. IsFiniteSet(orders)
    <3> HIDE DEF orders
    <3> QED
      BY <2>1, <2>2, FS_Subset
  <2>4. orders \in SUBSET Int
    BY <1>3
  <2> QED
    BY <1>5, <2>3, <2>4
<1>7. order \in orders /\ \A o \in orders : o <= order
  <2> HIDE DEF orders
  <2> QED
    BY <1>5, <1>6, Extremes
<1>8. order \in 0 .. limit /\ AskedKey(j, order) \in keys
  BY <1>7
<1>9. ASSUME NEW o \in order + 1 .. limit PROVE Answering(j, o) = {}
  <2>1. o \in 0 .. limit /\ ~(o <= order)
    BY <1>3, <1>8
  <2>2. AskedKey(j, o) \notin keys
    BY <1>7, <2>1
  <2>3. o \in 0 .. l /\ o <= mo
    BY <1>3, <2>1
  <2>4. {s \in TellingSamples(j) : s.key = AskedKey(j, o)} = Tagged(Answering(j, o), AskedKey(j, o))
    BY <2>3, TellingOfKey
  <2>5. Tagged(Answering(j, o), AskedKey(j, o)) = {}
    BY <2>2, <2>4
  <2> QED
    BY <2>5 DEF Tagged
<1> HIDE DEF keys, mo, l, orders
<1>10. order \in 0 .. l /\ order <= mo
  BY <1>3, <1>8
<1> QED
  BY <1>4, <1>8, <1>9, <1>10 DEF keys, mo, l, limit

\* The samples of the context that answers, counted.
LEMMA PartsOfTagged ==
    ASSUME NEW X, IsFiniteSet(X), X \in SUBSET (Nat \X Nat), NEW k
    PROVE  /\ IsFiniteSet(Tagged(X, k)) /\ Cardinality(Tagged(X, k)) = Cardinality(X)
           /\ \A Y \in SUBSET X : Cardinality(Tagged(Y, k)) = Cardinality(Y)
<1>1. \A Y \in SUBSET X : IsFiniteSet(Tagged(Y, k)) /\ Cardinality(Tagged(Y, k)) = Cardinality(Y)
  <2> TAKE Y \in SUBSET X
  <2>1. IsFiniteSet(Y) /\ Y \in SUBSET (Nat \X Nat)
    BY FS_Subset
  <2> QED
    BY <2>1, TaggedCount DEF Tagged
<1> QED
  BY <1>1

\* What the code counts for a context: every position once, after the longest one known.
\* More than AnswersContext says, which leaves out what the documentation asks otherwise.
CountsContext(j, answer) ==
    LET order == answer.order
        prediction == answer.prediction
        activity(x) == j.executions[x[1]].events[x[2]].activity
    IN /\ \A o \in order + 1 .. Min({j.parameters.maximum_order, Len(j.path)}) : Answering(j, o) = {}
       /\ prediction.support = Cardinality(Answering(j, order))
       /\ j.asked = "NextActivity" =>
              prediction.candidates = [a \in {activity(x) : x \in Answering(j, order)} |->
                  Cardinality({x \in Answering(j, order) : activity(x) = a})]
       /\ j.asked = "RemainingTime" => CoversRemaining(j, order, prediction)

LEMMA CountsAnswer ==
    ASSUME NEW j, Accepted(j), NEW answer, CountsContext(j, answer)
    PROVE  AnswersContext(j, answer)
<1> DEFINE X == Answering(j, answer.order)
           activity(x) == j.executions[x[1]].events[x[2]].activity
           candidates == answer.prediction.candidates
<1>1. ASSUME j.asked = "NextActivity" PROVE RanksFollowing(j, X, candidates)
  <2>1. candidates = [a \in {activity(x) : x \in X} |-> Cardinality({x \in X : activity(x) = a})]
    BY <1>1 DEF CountsContext
  <2>2. X \in SUBSET Positions(j.executions)
    BY DEF Answering, Occurrences
  <2> HIDE DEF X, candidates
  <2>3. DOMAIN candidates = {activity(x) : x \in X}
    BY <2>1
  <2>4. \A a \in {activity(x) : x \in X} : candidates[a] = Cardinality({x \in X : activity(x) = a})
    BY <2>1
  <2>5. {activity(x) : x \in X} \subseteq {activity(x) : x \in Positions(j.executions)}
    BY <2>2
  <2> QED
    BY <2>3, <2>4, <2>5 DEF RanksFollowing
<1> HIDE DEF X, candidates
<1> QED
  BY <1>1 DEF AnswersContext, CountsContext, X, candidates

\* What predict answers with the executions' own artifact.
LEMMA AnswerSound ==
    ASSUME NEW j, Accepted(j), NEW order, order # NoValue,
           order = BackoffOrder(j.path, j.objects, Learned(j), j.asked)
    PROVE  CountsContext(j, [order |-> order,
                              prediction |-> Predicted(Learned(j), j.asked,
                                  SuffixKey(j.path, order, Learned(j), j.objects))])
<1> DEFINE k == AskedKey(j, order)
           X == Answering(j, order)
           art == Learned(j)
           prediction == Predicted(art, j.asked, k)
           T == TellingSamples(j)
           S == Samples(j.executions, j.parameters)
           P == {s \in T : s.key = k}
           activity(x) == j.executions[x[1]].events[x[2]].activity
           next == [s \in S |-> j.executions[s.execution].events[s.at].activity]
           remaining == [s \in S |-> RemainingAt(j.executions[s.execution], s.at)]
<1>1. /\ order \in 0 .. Len(j.path) /\ order <= j.parameters.maximum_order
      /\ SuffixKey(j.path, order, art, j.objects) = k
      /\ k \in {s.key : s \in T}
      /\ \A o \in order + 1 .. Min({j.parameters.maximum_order, Len(j.path)}) : Answering(j, o) = {}
  BY BackoffLongest
<1>2. P = Tagged(X, k)
  BY <1>1, TellingOfKey
<1>3. IsFiniteSet(X) /\ X \in SUBSET (Nat \X Nat)
      /\ \A x \in X : x[1] \in DOMAIN j.executions /\ x[2] \in 1 .. Len(j.executions[x[1]].events)
  BY AnsweringFinite
<1>4. /\ IsFiniteSet(P) /\ Cardinality(P) = Cardinality(X)
      /\ \A Y \in SUBSET X : Cardinality(Tagged(Y, k)) = Cardinality(Y)
  <2> HIDE DEF P, X, k
  <2> QED
    BY <1>2, <1>3, PartsOfTagged
<1>5. P \in SUBSET S /\ P # {}
  <2>1. T \in SUBSET S
    BY DEF TellingSamples
  <2> QED
    BY <1>1, <2>1
<1>6. CASE j.asked = "NextActivity"
  <2> DEFINE counts == [a \in {next[s] : s \in P} |-> Cardinality({s \in P : next[s] = a})]
  <2>1. art.next_counts[k] = counts
    BY <1>1, <1>6, LearnedParts
  <2>2. prediction = [support |-> SumFunction(art.next_counts[k]),
                      candidates |-> art.next_counts[k]]
    BY <1>6 DEF Predicted
  <2>3. SumFunction(counts) = Cardinality(P)
    <3> DEFINE f == [s \in P |-> next[s]]
    <3>1. counts = [a \in {f[s] : s \in P} |-> Cardinality({s \in P : f[s] = a})]
      <4>1. {f[s] : s \in P} = {next[s] : s \in P}
        OBVIOUS
      <4>2. \A a : {s \in P : f[s] = a} = {s \in P : next[s] = a}
        OBVIOUS
      <4> QED
        BY <4>1, <4>2
    <3>2. DOMAIN f = P
      OBVIOUS
    <3> HIDE DEF f, counts, P
    <3> QED
      BY <1>4, <3>1, <3>2, FiberSum
  <2>4. \A x \in X : /\ [execution |-> x[1], at |-> x[2], key |-> k] \in P
                     /\ next[[execution |-> x[1], at |-> x[2], key |-> k]] = activity(x)
    <3>1. \A x \in X : [execution |-> x[1], at |-> x[2], key |-> k] \in P
      BY <1>2 DEF Tagged
    <3> QED
      BY <1>5, <3>1
  <2>5. {next[s] : s \in P} = {activity(x) : x \in X}
    <3> HIDE DEF next, P, X, k
    <3>1. P = {[execution |-> x[1], at |-> x[2], key |-> k] : x \in X}
      BY <1>2 DEF Tagged
    <3>2. {next[s] : s \in P} = {next[[execution |-> x[1], at |-> x[2], key |-> k]] : x \in X}
      BY <3>1
    <3> QED
      BY <2>4, <3>2
  <2>6. ASSUME NEW a PROVE Cardinality({s \in P : next[s] = a}) = Cardinality({x \in X : activity(x) = a})
    <3> HIDE DEF next, P, X, k
    <3>1. {s \in P : next[s] = a} = Tagged({x \in X : activity(x) = a}, k)
      <4>1. P = {[execution |-> x[1], at |-> x[2], key |-> k] : x \in X}
        BY <1>2 DEF Tagged
      <4> QED
        BY <2>4, <4>1 DEF Tagged
    <3>2. {x \in X : activity(x) = a} \in SUBSET X
      OBVIOUS
    <3> QED
      BY <1>4, <3>1, <3>2
  <2>7. counts = [a \in {activity(x) : x \in X} |-> Cardinality({x \in X : activity(x) = a})]
    BY <2>5, <2>6
  <2> HIDE DEF counts, P, X, k, art, prediction
  <2>8. prediction.support = Cardinality(X) /\ prediction.candidates = counts
    BY <1>4, <2>1, <2>2, <2>3
  <2> QED
    BY <1>1, <1>6, <2>7, <2>8 DEF CountsContext, X, k, art, prediction
<1>7. CASE j.asked = "RemainingTime"
  <2> DEFINE v == [s \in P |-> remaining[s]]
             values == Ascending(v)
             Left(x) == RemainingAt(j.executions[x[1]], x[2])
  <2>1. art.remaining[k] = values
    BY <1>1, <1>7, LearnedParts
  <2>2. /\ prediction.support = Len(art.remaining[k])
        /\ prediction.interval = <<Lower(art.remaining[k]), Upper(art.remaining[k])>>
    BY <1>7 DEF Predicted
  <2>3. \A x \in X : /\ [execution |-> x[1], at |-> x[2], key |-> k] \in P
                     /\ v[[execution |-> x[1], at |-> x[2], key |-> k]] = Left(x)
    <3>1. \A x \in X : [execution |-> x[1], at |-> x[2], key |-> k] \in P
      BY <1>2 DEF Tagged
    <3> QED
      BY <1>5, <3>1
  <2>4. v \in [P -> Int]
    <3>1. ASSUME NEW x \in X PROVE Left(x) \in Int
      <4>1. PICK e \in ExecutionRecords : e = j.executions[x[1]]
        <5>1. \A n \in DOMAIN j.executions : j.executions[n] \in ExecutionRecords
          BY JobType DEF Accepted
        <5> QED
          BY <1>3, <5>1
      <4>2. x[2] \in 1 .. Len(e.events) /\ Len(e.events) \in Nat
            /\ \A i \in 1 .. Len(e.events) : e.events[i] \in PathEvents
        BY <1>3, <4>1, PathType
      <4>3. Last(e.events) = e.events[Len(e.events)] /\ Len(e.events) \in 1 .. Len(e.events)
        BY <4>2 DEF Last
      <4>4. Last(e.events).at \in Nat /\ e.events[x[2]].at \in Nat
        BY <4>2, <4>3 DEF PathEvents
      <4> DEFINE d == Last(e.events).at - e.events[x[2]].at
      <4>5. d \in Int
        BY <4>4
      <4>6. {d, 0} \in SUBSET Int /\ {d, 0} # {} /\ IsFiniteSet({d, 0})
        <5> HIDE DEF d
        <5>1. IsFiniteSet({d}) /\ {d, 0} = {d} \cup {0}
          BY FS_Singleton
        <5>2. IsFiniteSet({d} \cup {0})
          BY <5>1, FS_AddElement
        <5> QED
          BY <4>5, <5>1, <5>2
      <4>7. Max({d, 0}) \in Int
        <5> HIDE DEF d
        <5> QED
          BY <4>6, Extremes
      <4> QED
        BY <4>1, <4>7 DEF RemainingAt
    <3>2. \A s \in P : \E x \in X : s = [execution |-> x[1], at |-> x[2], key |-> k]
      BY <1>2 DEF Tagged
    <3>3. \A s \in P : v[s] \in Int
      <4> HIDE DEF v, P, X, k, Left
      <4> QED
        BY <2>3, <3>1, <3>2
    <3> QED
      BY <3>3
  <2> HIDE DEF v
  <2>5. /\ Len(values) = Cardinality(P)
        /\ 20 * Cardinality({s \in P : v[s] < Lower(values)}) <= Len(values) + 9
        /\ 20 * Cardinality({s \in P : v[s] > Upper(values)}) <= Len(values) + 9
    <3> HIDE DEF P
    <3> QED
      BY <1>4, <1>5, <2>4, AscendingCovers
  <2>6. ASSUME NEW c
        PROVE  /\ Cardinality({s \in P : v[s] < c}) = Cardinality({x \in X : Left(x) < c})
               /\ Cardinality({s \in P : v[s] > c}) = Cardinality({x \in X : Left(x) > c})
    <3> HIDE DEF P, X, k, Left
    <3>1. P = {[execution |-> x[1], at |-> x[2], key |-> k] : x \in X}
      BY <1>2 DEF Tagged
    <3>2. {s \in P : v[s] < c} = Tagged({x \in X : Left(x) < c}, k)
      BY <2>3, <3>1 DEF Tagged
    <3>3. {s \in P : v[s] > c} = Tagged({x \in X : Left(x) > c}, k)
      BY <2>3, <3>1 DEF Tagged
    <3>4. {x \in X : Left(x) < c} \in SUBSET X /\ {x \in X : Left(x) > c} \in SUBSET X
      OBVIOUS
    <3> QED
      BY <1>4, <3>2, <3>3, <3>4
  <2>7. /\ prediction.support = Cardinality(X)
        /\ 20 * Cardinality({x \in X : Left(x) < prediction.interval[1]}) <= prediction.support + 9
        /\ 20 * Cardinality({x \in X : Left(x) > prediction.interval[2]}) <= prediction.support + 9
    <3> HIDE DEF P, X, k, Left, art, prediction, values
    <3>1. /\ prediction.support = Len(values)
          /\ prediction.interval[1] = Lower(values) /\ prediction.interval[2] = Upper(values)
      BY <2>1, <2>2
    <3>2. /\ {x \in X : Left(x) < prediction.interval[1]} = {x \in X : Left(x) < Lower(values)}
          /\ {x \in X : Left(x) > prediction.interval[2]} = {x \in X : Left(x) > Upper(values)}
      BY <3>1
    <3>3. Cardinality({s \in P : v[s] < Lower(values)}) = Cardinality({x \in X : Left(x) < Lower(values)})
      BY <2>6
    <3>4. Cardinality({s \in P : v[s] > Upper(values)}) = Cardinality({x \in X : Left(x) > Upper(values)})
      BY <2>6
    <3> QED
      BY <1>4, <2>5, <3>1, <3>2, <3>3, <3>4
  <2> HIDE DEF values, P, X, k, art, prediction
  <2>8. CoversRemaining(j, order, prediction)
    BY <2>7 DEF CoversRemaining, X
  <2> DEFINE answer == [order |-> order, prediction |-> prediction]
  <2>9. answer.order = order /\ answer.prediction = prediction
    OBVIOUS
  <2> HIDE DEF answer
  <2>10. CoversRemaining(j, answer.order, answer.prediction)
    BY <2>8, <2>9
  <2>11. CountsContext(j, answer)
    BY <1>1, <1>7, <2>7, <2>9, <2>10 DEF CountsContext, X
  <2>12. answer = [order |-> order,
                   prediction |-> Predicted(art, j.asked,
                                            SuffixKey(j.path, order, art, j.objects))]
    BY <1>1 DEF answer, prediction
  <2> QED
    BY <2>11, <2>12 DEF art
<1>8. CASE j.asked \in {"Outcome", "Risk"}
  <2>1. art.binary[k][2] = Cardinality(P)
    BY <1>1, <1>8, LearnedParts
  <2>2. prediction.support = art.binary[k][2]
    BY <1>8 DEF Predicted
  <2> HIDE DEF P, X, k, art, prediction
  <2> QED
    BY <1>1, <1>4, <1>8, <2>1, <2>2 DEF CountsContext, X, k, art, prediction
<1>9. j.asked \in Targets
  BY JobType DEF Accepted
<1> QED
  BY <1>6, <1>7, <1>8, <1>9 DEF Targets

-----------------------------------------------------------------------------
\* The temporal holdout.

LEMMA IntervalCounted ==
    ASSUME NEW n \in Nat
    PROVE  IsFiniteSet(1 .. n) /\ Cardinality(1 .. n) = n
<1>1. IsFiniteSet(1 .. n) /\ Cardinality(1 .. n) = (IF 1 > n THEN 0 ELSE n - 1 + 1)
  BY FS_Interval
<1> QED
  BY <1>1

\* When an execution completes.
LEMMA CompletedType ==
    ASSUME NEW e \in ExecutionRecords
    PROVE  CompletedAt(e) \in Int
<1>1. Len(e.events) \in Nat /\ DOMAIN e.events = 1 .. Len(e.events)
      /\ (\A i \in 1 .. Len(e.events) : e.events[i] \in PathEvents)
  BY PathType
<1>2. e.events # <<>> => Len(e.events) \in 1 .. Len(e.events)
  BY DEF ExecutionRecords
<1>3. e.events # <<>> => Last(e.events).at \in Nat
  BY <1>1, <1>2 DEF Last, PathEvents
<1> QED
  BY <1>3 DEF CompletedAt

\* Executions that the provider names apart are in one order of completion.
LEMMA OrderTotal ==
    ASSUME NEW ex \in Seq(ExecutionRecords),
           \A m, n \in DOMAIN ex : m # n => ex[m].id # ex[n].id
    PROVE  TotalOn(DOMAIN ex, CompletionOrder(ex))
<1> DEFINE D == DOMAIN ex
           R == CompletionOrder(ex)
           at(n) == CompletedAt(ex[n])
           id(n) == ex[n].id
<1>1. \A n \in D : at(n) \in Int /\ id(n) \in Int
  <2> TAKE n \in D
  <2>1. ex[n] \in ExecutionRecords
    OBVIOUS
  <2>2. id(n) \in Int
    BY <2>1 DEF ExecutionRecords
  <2>3. at(n) \in Int
    BY <2>1, CompletedType
  <2> QED
    BY <2>2, <2>3
<1>2. \A m, n \in D : <<m, n>> \in R <=> at(m) < at(n) \/ (at(m) = at(n) /\ id(m) < id(n))
  BY DEF CompletionOrder
<1>3. \A m, n \in D : m # n => id(m) # id(n)
  OBVIOUS
<1> HIDE DEF D, R, at, id
<1>4. \A x \in D : <<x, x>> \notin R
  BY <1>1, <1>2
<1>5. \A x, y \in D : x # y => <<x, y>> \in R \/ <<y, x>> \in R
  BY <1>1, <1>2, <1>3
<1>6. \A x, y, z \in D : <<x, y>> \in R /\ <<y, z>> \in R => <<x, z>> \in R
  BY <1>1, <1>2
<1> QED
  BY <1>4, <1>5, <1>6 DEF TotalOn, D, R

\* The holdout orders the executions that there are, all of them, by completion.
LEMMA ByCompletionOrders ==
    ASSUME NEW ex \in Seq(ExecutionRecords),
           \A m, n \in DOMAIN ex : m # n => ex[m].id # ex[n].id
    PROVE  LET ordered == ByCompletion(ex)
           IN /\ ordered \in Seq(ExecutionRecords) /\ Len(ordered) = Len(ex)
              /\ ToSet(ordered) = ToSet(ex)
              /\ \A i, k \in 1 .. Len(ordered) :
                     i < k => CompletedAt(ordered[i]) <= CompletedAt(ordered[k])
<1> DEFINE D == DOMAIN ex
           R == CompletionOrder(ex)
           rank == Ranked(D, R)
           ordered == ByCompletion(ex)
<1>1. D = 1 .. Len(ex) /\ Len(ex) \in Nat /\ \A n \in D : ex[n] \in ExecutionRecords
  OBVIOUS
<1>2. IsFiniteSet(D) /\ Cardinality(D) = Len(ex)
  <2> HIDE DEF D
  <2> QED
    BY <1>1, IntervalCounted
<1>3. Lists(rank, D, R)
  <2>1. TotalOn(D, R)
    BY OrderTotal
  <2> HIDE DEF D, R
  <2> QED
    BY <1>2, <2>1, RankedLists
<1>4. ordered = [k \in DOMAIN rank |-> ex[rank[k]]]
  BY DEF ByCompletion
<1> HIDE DEF ordered, rank, R
<1>5. /\ rank \in Seq(D) /\ Len(rank) = Len(ex) /\ DOMAIN rank = D
      /\ \A k \in D : rank[k] \in D
      /\ \A n \in D : \E k \in D : rank[k] = n
      /\ \A i, k \in D : i < k => <<rank[i], rank[k]>> \in R
  <2>1. rank \in Seq(D) /\ Len(rank) = Cardinality(D)
        /\ (\A n \in D : \E k \in 1 .. Len(rank) : rank[k] = n)
        /\ (\A i, k \in 1 .. Len(rank) : i < k => <<rank[i], rank[k]>> \in R)
    BY <1>3 DEF Lists
  <2>2. Len(rank) = Len(ex) /\ 1 .. Len(rank) = D
    BY <1>1, <1>2, <2>1
  <2>3. DOMAIN rank = D /\ \A k \in D : rank[k] \in D
    <3> HIDE DEF D
    <3>1. DOMAIN rank = 1 .. Len(rank) /\ \A k \in 1 .. Len(rank) : rank[k] \in D
      BY <2>1
    <3> QED
      BY <2>2, <3>1
  <2> HIDE DEF D
  <2> QED
    BY <2>1, <2>2, <2>3
<1>6. DOMAIN ordered = D /\ \A k \in D : ordered[k] = ex[rank[k]]
  BY <1>4, <1>5
<1>7. ordered \in Seq(ExecutionRecords) /\ Len(ordered) = Len(ex)
  <2>1. ordered = [k \in 1 .. Len(ex) |-> ex[rank[k]]]
    BY <1>1, <1>4, <1>5
  <2>2. \A k \in 1 .. Len(ex) : ex[rank[k]] \in ExecutionRecords
    BY <1>1, <1>5
  <2> QED
    BY <1>1, <2>1, <2>2
<1>8. ToSet(ordered) = ToSet(ex)
  <2>1. ToSet(ordered) = {ordered[k] : k \in D} /\ ToSet(ex) = {ex[n] : n \in D}
    BY <1>6 DEF ToSet
  <2> HIDE DEF D
  <2>2. \A k \in D : ordered[k] \in {ex[n] : n \in D}
    BY <1>5, <1>6
  <2>3. \A n \in D : ex[n] \in {ordered[k] : k \in D}
    <3> TAKE n \in D
    <3>1. PICK k \in D : rank[k] = n
      BY <1>5
    <3>2. ordered[k] = ex[n]
      BY <1>6, <3>1
    <3> QED
      BY <3>2
  <2> QED
    BY <2>1, <2>2, <2>3
<1>9. ASSUME NEW i \in 1 .. Len(ordered), NEW k \in 1 .. Len(ordered), i < k
      PROVE  CompletedAt(ordered[i]) <= CompletedAt(ordered[k])
  <2>1. i \in D /\ k \in D
    BY <1>1, <1>7
  <2>2. <<rank[i], rank[k]>> \in R /\ rank[i] \in D /\ rank[k] \in D
    BY <1>5, <1>9, <2>1
  <2>3. CompletedAt(ex[rank[i]]) < CompletedAt(ex[rank[k]])
           \/ CompletedAt(ex[rank[i]]) = CompletedAt(ex[rank[k]])
    BY <2>2 DEF CompletionOrder, R
  <2>4. \A n \in D : CompletedAt(ex[n]) \in Int
    BY <1>1, CompletedType
  <2> QED
    BY <1>6, <2>1, <2>2, <2>3, <2>4
<1> QED
  BY <1>7, <1>8, <1>9 DEF ordered

\* A sequence cut in two.
LEMMA Halves ==
    ASSUME NEW S, NEW s \in Seq(S), NEW k \in 0 .. Len(s)
    PROVE  LET front == SubSeq(s, 1, k)
               back == SubSeq(s, k + 1, Len(s))
           IN /\ front \in Seq(S) /\ Len(front) = k
              /\ back \in Seq(S) /\ Len(back) = Len(s) - k
              /\ \A i \in 1 .. Len(front) : front[i] = s[i]
              /\ \A i \in 1 .. Len(back) : back[i] = s[k + i] /\ k + i \in 1 .. Len(s)
              /\ ToSet(front) \cup ToSet(back) = ToSet(s)
<1> DEFINE front == SubSeq(s, 1, k)
           back == SubSeq(s, k + 1, Len(s))
<1>1. Len(s) \in Nat /\ k \in Int /\ k >= 0 /\ k <= Len(s) /\ \A i \in 1 .. Len(s) : s[i] \in S
  OBVIOUS
<1>2. /\ front \in Seq(S) /\ Len(front) = (IF 1 <= k THEN k - 1 + 1 ELSE 0)
      /\ \A i \in 1 .. k - 1 + 1 : front[i] = s[1 + i - 1]
  <2>1. \A i \in 1 .. k : s[i] \in S
    BY <1>1
  <2> QED
    BY <1>1, <2>1, SubSeqProperties
<1>3. /\ back \in Seq(S)
      /\ Len(back) = (IF k + 1 <= Len(s) THEN Len(s) - (k + 1) + 1 ELSE 0)
      /\ \A i \in 1 .. Len(s) - (k + 1) + 1 : back[i] = s[k + 1 + i - 1]
  <2>1. \A i \in k + 1 .. Len(s) : s[i] \in S
    BY <1>1
  <2>2. k + 1 \in Int /\ Len(s) \in Int
    BY <1>1
  <2> QED
    BY <2>1, <2>2, SubSeqProperties
<1> HIDE DEF front, back
<1>4. Len(front) = k /\ \A i \in 1 .. Len(front) : front[i] = s[i]
  <2>1. Len(front) = k
    BY <1>1, <1>2
  <2>2. ASSUME NEW i \in 1 .. Len(front) PROVE front[i] = s[i]
    <3>1. i \in 1 .. k - 1 + 1 /\ 1 + i - 1 = i
      BY <1>1, <2>1
    <3> QED
      BY <1>2, <3>1
  <2> QED
    BY <2>1, <2>2
<1>5. Len(back) = Len(s) - k
      /\ \A i \in 1 .. Len(back) : back[i] = s[k + i] /\ k + i \in 1 .. Len(s)
  <2>1. Len(back) = Len(s) - k
    BY <1>1, <1>3
  <2>2. ASSUME NEW i \in 1 .. Len(back) PROVE back[i] = s[k + i] /\ k + i \in 1 .. Len(s)
    <3>1. i \in 1 .. Len(s) - (k + 1) + 1 /\ k + 1 + i - 1 = k + i /\ k + i \in 1 .. Len(s)
      BY <1>1, <2>1
    <3> QED
      BY <1>3, <3>1
  <2> QED
    BY <2>1, <2>2
<1>6. ToSet(front) \cup ToSet(back) = ToSet(s)
  <2>1. /\ ToSet(front) = {front[i] : i \in 1 .. Len(front)}
        /\ ToSet(back) = {back[i] : i \in 1 .. Len(back)}
        /\ ToSet(s) = {s[i] : i \in 1 .. Len(s)}
    <3>1. DOMAIN front = 1 .. Len(front) /\ DOMAIN back = 1 .. Len(back) /\ DOMAIN s = 1 .. Len(s)
      BY <1>2, <1>3
    <3> QED
      BY <3>1 DEF ToSet
  <2>2. ASSUME NEW i \in 1 .. Len(s)
        PROVE  s[i] \in {front[m] : m \in 1 .. Len(front)} \cup {back[m] : m \in 1 .. Len(back)}
    <3>1. CASE i <= k
      <4>1. i \in 1 .. Len(front)
        BY <1>4, <3>1
      <4> QED
        BY <1>4, <4>1
    <3>2. CASE i > k
      <4>1. i - k \in 1 .. Len(back) /\ k + (i - k) = i
        BY <1>1, <1>5, <3>2
      <4> QED
        BY <1>5, <4>1
    <3> QED
      BY <1>1, <3>1, <3>2
  <2>3. \A i \in 1 .. Len(front) : i \in 1 .. Len(s)
    BY <1>1, <1>4
  <2> QED
    BY <1>4, <1>5, <2>1, <2>2, <2>3
<1> QED
  BY <1>2, <1>3, <1>4, <1>5, <1>6 DEF front, back

\* The events of executions, counted.
LEMMA PositionsCounted ==
    ASSUME NEW tests \in Seq(ExecutionRecords)
    PROVE  Cardinality(Positions(tests)) = SumFunction([n \in DOMAIN tests |-> Len(tests[n].events)])
<1> DEFINE D == DOMAIN tests
           l == [n \in D |-> Len(tests[n].events)]
           Of(T) == UNION {{n} \X (1 .. l[n]) : n \in T}
           Total(T) == SumFunction([n \in T |-> l[n]])
           Q == {T \in SUBSET D : IsFiniteSet(Of(T)) /\ Cardinality(Of(T)) = Total(T)}
<1>1. IsFiniteSet(D) /\ l \in [D -> Nat] /\ \A n \in D : DOMAIN tests[n].events = 1 .. l[n]
  <2>1. D = 1 .. Len(tests) /\ Len(tests) \in Nat /\ \A n \in D : tests[n] \in ExecutionRecords
    OBVIOUS
  <2>2. IsFiniteSet(D)
    BY <2>1, FS_Interval
  <2>3. \A n \in D : l[n] \in Nat /\ DOMAIN tests[n].events = 1 .. l[n]
    BY <2>1, PathType
  <2>4. l \in [D -> Nat]
    BY <2>3
  <2> QED
    BY <2>2, <2>3, <2>4
<1>2. Positions(tests) = Of(D)
  BY <1>1 DEF Positions
<1> HIDE DEF D, l
<1>3. {} \in Q
  <2>1. Of({}) = {}
    OBVIOUS
  <2>2. Total({}) = 0
    BY SumEmpty
  <2>3. IsFiniteSet({}) /\ Cardinality({}) = 0
    BY FS_EmptySet
  <2> HIDE DEF Of, Total
  <2> QED
    BY <2>1, <2>2, <2>3
<1>4. \A T \in SUBSET D : \A x \in D \ T : Total(T \cup {x}) = l[x] + Total(T)
  <2> HIDE DEF Q, Of
  <2> QED
    BY <1>1, SumAdd
<1>5. ASSUME NEW T \in SUBSET D, T \in Q, NEW x \in D \ T
      PROVE  T \cup {x} \in Q
  <2> DEFINE mine == {x} \X (1 .. l[x])
  <2>1. Of(T \cup {x}) = Of(T) \cup mine
    OBVIOUS
  <2>2. Of(T) \cap mine = {}
    BY <1>5
  <2>3. l[x] \in Nat
    BY <1>1
  <2>4. IsFiniteSet(mine) /\ Cardinality(mine) = l[x]
    <3>1. IsFiniteSet({x}) /\ Cardinality({x}) = 1
      BY FS_Singleton
    <3>2. IsFiniteSet(1 .. l[x]) /\ Cardinality(1 .. l[x]) = l[x]
      BY <2>3, IntervalCounted
    <3>3. IsFiniteSet(mine) /\ Cardinality(mine) = Cardinality({x}) * Cardinality(1 .. l[x])
      BY <3>1, <3>2, FS_Product
    <3> HIDE DEF mine
    <3> QED
      BY <2>3, <3>1, <3>2, <3>3
  <2>5. Total(T \cup {x}) = l[x] + Total(T)
    BY <1>4
  <2>6. IsFiniteSet(Of(T)) /\ Cardinality(Of(T)) = Total(T)
    BY <1>5
  <2> HIDE DEF mine, Of, Total
  <2>7. /\ IsFiniteSet(Of(T) \cup mine)
        /\ Cardinality(Of(T) \cup mine)
             = Cardinality(Of(T)) + Cardinality(mine) - Cardinality(Of(T) \cap mine)
    BY <2>4, <2>6, FS_Union
  <2>8. Cardinality(Of(T) \cap mine) = 0
    BY <2>2, FS_EmptySet
  <2>9. Cardinality(Of(T)) \in Nat
    BY <2>6, FS_CardinalityType
  <2>10. Cardinality(Of(T) \cup mine) = Total(T \cup {x})
    BY <2>3, <2>4, <2>5, <2>6, <2>7, <2>8, <2>9
  <2>11. IsFiniteSet(Of(T \cup {x})) /\ Cardinality(Of(T \cup {x})) = Total(T \cup {x})
    BY <2>1, <2>7, <2>10
  <2> QED
    BY <2>11
<1>6. D \in Q
  <2> HIDE DEF Q
  <2> QED
    BY <1>1, <1>3, <1>5, FiniteInduction
<1>7. [n \in D |-> l[n]] = l
  BY <1>1
<1> QED
  BY <1>2, <1>6, <1>7 DEF l, D

\* With sequences, an artifact of executions that are not all empty answers every prefix:
\* it knows the context of no activities.
LEMMA EveryPrefixAnswered ==
    ASSUME NEW train \in Seq(ExecutionRecords), NEW tests \in Seq(ExecutionRecords),
           NEW p, p.maximum_order \in Nat, p.feature_encoding = "sequential",
           \E e \in ToSet(train) : e.events # <<>>
    PROVE  Evaluated(tests, BuildArtifact(train, p, "NextActivity"), "NextActivity", p)
             = Positions(tests)
<1> DEFINE art == BuildArtifact(train, p, "NextActivity")
           S == Samples(train, p)
<1>1. /\ art.maximum_order = p.maximum_order /\ art.feature_encoding = "sequential"
      /\ DOMAIN art.next_counts = {s.key : s \in S}
  BY DEF BuildArtifact
<1>2. <<>> \in {s.key : s \in S}
  <2>1. PICK n \in DOMAIN train : train[n].events # <<>>
    BY DEF ToSet
  <2>2. train[n] \in ExecutionRecords
    OBVIOUS
  <2>3. 1 \in 1 .. Len(train[n].events)
    BY <2>1, <2>2 DEF ExecutionRecords
  <2>4. KeyAt(train[n], p, 1, 0) = <<>>
    <3>1. SubSeq(ActivityPath(train[n]), 1 - 0, 1 - 1) = <<>>
      BY SubSeqEmpty
    <3> QED
      BY <3>1 DEF KeyAt, FeatureKey
  <2>5. [execution |-> n, at |-> 1, key |-> KeyAt(train[n], p, 1, 0)] \in S
    <3>1. 0 \in Nat /\ 0 < 1 /\ 0 <= p.maximum_order
      OBVIOUS
    <3> QED
      BY <2>3, <3>1, SampleForm
  <2>6. [execution |-> n, at |-> 1, key |-> KeyAt(train[n], p, 1, 0)].key = <<>>
    BY <2>4
  <2> QED
    BY <2>5, <2>6
<1> HIDE DEF art, S
<1>3. ASSUME NEW x \in Positions(tests)
      PROVE  BackoffOrder(SubSeq(ActivityPath(tests[x[1]]), 1, x[2] - 1), tests[x[1]].objects,
                          art, "NextActivity") # NoValue
  <2> DEFINE path == SubSeq(ActivityPath(tests[x[1]]), 1, x[2] - 1)
             objects == tests[x[1]].objects
             limit == Min({art.maximum_order, Len(path)})
             orders == {o \in 0 .. limit :
                            SuffixKey(path, o, art, objects) \in Known(art, "NextActivity")}
  <2>1. x[1] \in DOMAIN tests /\ x[2] \in 1 .. Len(tests[x[1]].events)
    BY PositionsFinite
  <2>2. Len(path) \in Nat
    <3>1. tests[x[1]] \in ExecutionRecords
      BY <2>1
    <3>2. ActivityPath(tests[x[1]]) \in Seq(Int) /\ Len(ActivityPath(tests[x[1]])) = Len(tests[x[1]].events)
      BY <3>1, PathType
    <3>3. \A i \in 1 .. x[2] - 1 : ActivityPath(tests[x[1]])[i] \in Int
      <4>1. \A i \in 1 .. Len(ActivityPath(tests[x[1]])) : ActivityPath(tests[x[1]])[i] \in Int
        BY <3>2
      <4>2. \A i \in 1 .. x[2] - 1 : i \in 1 .. Len(ActivityPath(tests[x[1]]))
        BY <2>1, <3>1, <3>2, PathType
      <4> QED
        BY <4>1, <4>2
    <3>4. path \in Seq(Int)
      BY <2>1, <3>3, SubSeqProperties
    <3> HIDE DEF path
    <3> QED
      BY <3>4
  <2> HIDE DEF path
  <2>3. limit \in Nat
    BY <1>1, <2>2, MinOfTwo
  <2>4. SuffixKey(path, 0, art, objects) = <<>>
    <3>1. SubSeq(path, Len(path) - 0 + 1, Len(path)) = <<>>
      BY <2>2, SubSeqEmpty
    <3> QED
      BY <1>1, <3>1 DEF SuffixKey, FeatureKey
  <2>5. Known(art, "NextActivity") = {s.key : s \in S}
    BY <1>1 DEF Known
  <2> HIDE DEF limit, objects
  <2>6. 0 \in orders /\ orders \in SUBSET (0 .. limit)
    BY <1>2, <2>3, <2>4, <2>5
  <2>7. BackoffOrder(path, objects, art, "NextActivity") = (IF orders = {} THEN NoValue ELSE Max(orders))
    BY DEF BackoffOrder, limit
  <2> HIDE DEF orders
  <2>8. Max(orders) \in Int
    <3>1. IsFiniteSet(0 .. limit)
      BY <2>3, FS_Interval
    <3>2. IsFiniteSet(orders)
      BY <2>6, <3>1, FS_Subset
    <3>3. 0 .. limit \in SUBSET Int
      BY <2>3
    <3>4. orders \in SUBSET Int /\ orders # {}
      BY <2>6, <3>3
    <3> QED
      BY <3>2, <3>4, Extremes
  <2>9. NoValue \notin Int
    BY JobsAssumption
  <2> QED
    BY <2>6, <2>7, <2>8, <2>9 DEF path, objects
<1> QED
  BY <1>3 DEF Evaluated, art

\* The holdout by the order of completion, which TestsLater takes where the executions
\* begin in that order.
TestsLast(j, answer) ==
    LET train == answer.train
        test == answer.test
    IN /\ ToSet(train) \cup ToSet(test) = ToSet(j.executions)
       /\ Len(train) + Len(test) = Len(j.executions)
       /\ \A e \in ToSet(train), f \in ToSet(test) : CompletedAt(e) <= CompletedAt(f)
       /\ answer.hits <= answer.evaluated
       /\ j.parameters.feature_encoding = "sequential" /\ j.target = "NextActivity"
            /\ (\E e \in ToSet(train) : e.events # <<>>) =>
              answer.evaluated = SumFunction([n \in DOMAIN test |-> Len(test[n].events)])

LEMMA LastIsLater ==
    ASSUME NEW j, IsJob(j), NEW answer, TestsLast(j, answer)
    PROVE  TestsLater(j, answer)
<1>1. ASSUME NEW e \in ExecutionRecords PROVE BeganAt(e) \in Int /\ CompletedAt(e) \in Int
  <2>1. e.events \in Seq(PathEvents)
    BY DEF ExecutionRecords
  <2>2. CASE e.events = <<>>
    BY <2>2 DEF BeganAt, CompletedAt
  <2>3. CASE e.events # <<>>
    <3>1. Len(e.events) \in Nat \ {0}
      BY <2>1, <2>3
    <3>2. e.events[1] \in PathEvents /\ e.events[Len(e.events)] \in PathEvents
      BY <2>1, <3>1
    <3>3. e.events[1].at \in Nat /\ e.events[Len(e.events)].at \in Nat
      BY <3>2 DEF PathEvents
    <3> QED
      BY <2>3, <3>3 DEF BeganAt, CompletedAt, Last
  <2> QED
    BY <2>2, <2>3
<1>2. ASSUME Chronological(j.executions),
             NEW e \in ToSet(answer.train), NEW f \in ToSet(answer.test)
      PROVE  BeganAt(e) <= BeganAt(f)
  <2>1. e \in ToSet(j.executions) /\ f \in ToSet(j.executions)
    BY DEF TestsLast
  <2>2. PICK m \in DOMAIN j.executions : e = j.executions[m]
    BY <2>1 DEF ToSet
  <2>3. PICK n \in DOMAIN j.executions : f = j.executions[n]
    BY <2>1 DEF ToSet
  <2>4. j.executions \in Seq(ExecutionRecords)
    BY DEF IsJob
  <2>5. e \in ExecutionRecords /\ f \in ExecutionRecords
    BY <2>2, <2>3, <2>4
  <2>6. CompletedAt(e) <= CompletedAt(f)
    BY DEF TestsLast
  <2>7. BeganAt(f) < BeganAt(e) => CompletedAt(f) < CompletedAt(e)
    BY <1>2, <2>2, <2>3 DEF Chronological
  <2>8. BeganAt(e) \in Int /\ BeganAt(f) \in Int /\ CompletedAt(e) \in Int /\ CompletedAt(f) \in Int
    BY <1>1, <2>5
  <2> QED
    BY <2>6, <2>7, <2>8
<1> QED
  BY <1>2 DEF TestsLast, TestsLater

\* The parts of a holdout and what is counted on them.
LEMMA HoldoutSound ==
    ASSUME NEW j, IsJob(j), NEW split \in 0 .. Len(j.executions)
    PROVE  LET ordered == ByCompletion(j.executions)
               n == Len(ordered)
               tests == SubSeq(ordered, split + 1, n)
               artifact == BuildArtifact(SubSeq(ordered, 1, split), j.parameters, j.target)
               evaluated == Evaluated(tests, artifact, j.target, j.parameters)
           IN TestsLast(j, [train |-> SubSeq(ordered, 1, split), test |-> tests,
                             evaluated |-> Cardinality(evaluated),
                             hits |-> Cardinality({e \in evaluated :
                                         Hit(tests, artifact, j.target, e[1], e[2])})])
<1> DEFINE ordered == ByCompletion(j.executions)
           n == Len(ordered)
           train == SubSeq(ordered, 1, split)
           tests == SubSeq(ordered, split + 1, n)
           artifact == BuildArtifact(train, j.parameters, j.target)
           evaluated == Evaluated(tests, artifact, j.target, j.parameters)
           hit == {e \in evaluated : Hit(tests, artifact, j.target, e[1], e[2])}
           answer == [train |-> train, test |-> tests, evaluated |-> Cardinality(evaluated),
                      hits |-> Cardinality(hit)]
<1>1. /\ j.executions \in Seq(ExecutionRecords) /\ j.parameters.maximum_order \in Nat
      /\ \A m, i \in DOMAIN j.executions : m # i => j.executions[m].id # j.executions[i].id
  BY DEF IsJob
<1>2. /\ ordered \in Seq(ExecutionRecords) /\ n = Len(j.executions)
      /\ ToSet(ordered) = ToSet(j.executions)
      /\ \A i, k \in 1 .. n : i < k => CompletedAt(ordered[i]) <= CompletedAt(ordered[k])
  BY <1>1, ByCompletionOrders
<1>3. n \in Nat /\ split \in 0 .. n
  BY <1>2
<1> HIDE DEF ordered
<1>4. /\ train \in Seq(ExecutionRecords) /\ Len(train) = split
      /\ tests \in Seq(ExecutionRecords) /\ Len(tests) = n - split
      /\ \A i \in 1 .. Len(train) : train[i] = ordered[i]
      /\ \A i \in 1 .. Len(tests) : tests[i] = ordered[split + i] /\ split + i \in 1 .. n
      /\ ToSet(train) \cup ToSet(tests) = ToSet(ordered)
  BY <1>2, <1>3, Halves
<1> HIDE DEF n, train, tests
<1>5. Len(train) + Len(tests) = Len(j.executions)
  BY <1>2, <1>3, <1>4
<1>6. ASSUME NEW e \in ToSet(train), NEW f \in ToSet(tests)
      PROVE  CompletedAt(e) <= CompletedAt(f)
  <2>1. DOMAIN train = 1 .. Len(train) /\ DOMAIN tests = 1 .. Len(tests)
    BY <1>4
  <2>2. PICK i \in 1 .. Len(train) : e = train[i]
    BY <2>1 DEF ToSet
  <2>3. PICK k \in 1 .. Len(tests) : f = tests[k]
    BY <2>1 DEF ToSet
  <2>4. i \in 1 .. n /\ split + k \in 1 .. n /\ i < split + k
    BY <1>3, <1>4
  <2> QED
    BY <1>2, <1>4, <2>2, <2>3, <2>4 DEF n
<1>7. IsFiniteSet(Positions(tests))
  BY <1>4, PositionsFinite
<1>8. Cardinality(hit) <= Cardinality(evaluated)
  <2>1. evaluated \in SUBSET Positions(tests)
    BY DEF Evaluated
  <2> HIDE DEF evaluated
  <2>2. IsFiniteSet(evaluated)
    BY <1>7, <2>1, FS_Subset
  <2>3. hit \in SUBSET evaluated
    OBVIOUS
  <2> HIDE DEF hit
  <2> QED
    BY <2>2, <2>3, FS_Subset
<1>9. ASSUME j.parameters.feature_encoding = "sequential", j.target = "NextActivity",
             \E e \in ToSet(train) : e.events # <<>>
      PROVE  Cardinality(evaluated) = SumFunction([i \in DOMAIN tests |-> Len(tests[i].events)])
  <2>1. evaluated = Positions(tests)
    BY <1>1, <1>4, <1>9, EveryPrefixAnswered
  <2> HIDE DEF evaluated
  <2> QED
    BY <1>4, <2>1, PositionsCounted
<1>10. answer.train = train /\ answer.test = tests /\ answer.evaluated = Cardinality(evaluated)
       /\ answer.hits = Cardinality(hit)
  OBVIOUS
<1> HIDE DEF answer, hit, evaluated, artifact
<1>11. TestsLast(j, answer)
  BY <1>2, <1>4, <1>5, <1>6, <1>8, <1>9, <1>10 DEF TestsLast
<1> QED
  BY <1>11 DEF answer, hit, evaluated, artifact, train, tests, n, ordered

-----------------------------------------------------------------------------
\* The system.

\* What fit leaves for predict, and what an artifact that predict takes may be.
KeptFromExecutions ==
    step = "keep" => fitted = Sealed(BuildArtifact(job.executions, job.parameters, job.target))
UsedFromExecutions ==
    step = "predict" /\ Usable(Used) /\ Used.content.target = job.asked =>
        Used.content = Learned(job)

PredictionIInv ==
    /\ job \in Jobs
    /\ step \in {"fit", "keep", "predict", "evaluate", "done"}
    /\ step \in {"fit", "keep", "predict"} => job.holdout = NoValue
    /\ step = "evaluate" => job.holdout # NoValue
    /\ step \in {"keep", "predict"} => job.parameters.feature_encoding \in Encodings
    /\ KeptFromExecutions
    /\ UsedFromExecutions
    /\ PredictionSound

\* A damaged or foreign artifact is not usable, and predict fits its own without one.
LEMMA KeptIsUsed ==
    ASSUME PredictionIInv, KeepArtifact
    PROVE  UsedFromExecutions'
<1> DEFINE content == BuildArtifact(job.executions, job.parameters, job.target)
<1>1. /\ fitted = Sealed(content) /\ job' = job
      /\ fitted' = CASE job.edit = "damage" -> [fitted EXCEPT !.content.maximum_order = @ + 1]
                     [] job.edit = "graph" -> Sealed([fitted.content EXCEPT !.feature_encoding = "graph"])
                     [] job.edit = "drop" -> NoValue
                     [] OTHER -> fitted
  BY DEF KeepArtifact, PredictionIInv, KeptFromExecutions
<1>2. content.maximum_order = job.parameters.maximum_order /\ content.target = job.target
      /\ DOMAIN content = {"target", "maximum_order", "feature_encoding", "next_counts",
                           "remaining", "binary"}
  BY DEF BuildArtifact
<1>3. job.parameters.maximum_order \in Nat
  BY JobsAssumption DEF PredictionIInv, IsJob
<1>4. SUFFICES ASSUME Usable(Used)', (Used.content.target = job.asked)'
               PROVE  (Used.content = Learned(job))'
  BY DEF UsedFromExecutions
<1>5. Used' = IF fitted' # NoValue THEN fitted'
              ELSE Sealed(BuildArtifact(job'.executions, job'.parameters, job'.asked))
  BY DEF Used
<1>6. CASE fitted' = NoValue
  BY <1>5, <1>6 DEF Sealed, Learned
<1>7. CASE fitted' # NoValue
  <2>1. Used' = fitted'
    BY <1>5, <1>7
  <2>2. fitted'.content_hash = fitted'.content /\ fitted'.content.feature_encoding \in Encodings
        /\ fitted'.content.target = job.asked
    BY <1>1, <1>4, <2>1 DEF Usable
  <2> HIDE DEF content
  <2>3. job.edit # "damage"
    <3> SUFFICES ASSUME job.edit = "damage" PROVE FALSE
      OBVIOUS
    <3>1. fitted' = [fitted EXCEPT !.content.maximum_order = @ + 1]
      BY <1>1
    <3>2. fitted'.content_hash = content
          /\ fitted'.content = [content EXCEPT !.maximum_order = @ + 1]
      BY <1>1, <3>1 DEF Sealed
    <3>3. fitted'.content.maximum_order = content.maximum_order + 1
      BY <1>2, <3>2
    <3> QED
      BY <1>2, <1>3, <2>2, <3>2, <3>3
  <2>4. job.edit # "graph"
    <3> SUFFICES ASSUME job.edit = "graph" PROVE FALSE
      OBVIOUS
    <3>1. fitted' = Sealed([fitted.content EXCEPT !.feature_encoding = "graph"])
      BY <1>1
    <3>2. fitted'.content = [content EXCEPT !.feature_encoding = "graph"]
      BY <1>1, <3>1 DEF Sealed
    <3>3. fitted'.content.feature_encoding = "graph"
      BY <1>2, <3>2
    <3> QED
      BY <2>2, <3>3 DEF Encodings
  <2>5. job.edit # "drop"
    BY <1>1, <1>7
  <2>6. fitted' = fitted
    BY <1>1, <2>3, <2>4, <2>5
  <2>7. fitted.content = content
    BY <1>1 DEF Sealed
  <2>8. job.target = job.asked
    BY <1>2, <2>2, <2>6, <2>7
  <2> QED
    BY <1>1, <2>1, <2>6, <2>7, <2>8 DEF Learned, content
<1> QED
  BY <1>6, <1>7

\* What predict answers comes from the executions.
LEMMA PredictSound ==
    ASSUME PredictionIInv, Predict
    PROVE  PredictionSound'
<1> DEFINE art == Used.content
           order == BackoffOrder(job.path, job.objects, art, job.asked)
           key == SuffixKey(job.path, order, art, job.objects)
<1>1. step' = "done" /\ job' = job /\ job.holdout = NoValue
  BY DEF Predict, PredictionIInv, Answer, Error
<1>2. SUFFICES ASSUME forecast'.code = "ok" PROVE AnswersContext(job, forecast'.value)
  BY <1>1 DEF PredictionSound, PredictionFromContext, HoldoutIsLater
<1>3. /\ Usable(Used) /\ art.target = job.asked /\ order # NoValue
      /\ forecast' = [code |-> "ok",
                      value |-> [order |-> order, prediction |-> Predicted(art, job.asked, key)]]
  BY <1>2 DEF Predict, Answer, Error
<1>4. art = Learned(job)
  BY <1>3 DEF Predict, PredictionIInv, UsedFromExecutions
<1>5. Accepted(job)
  BY JobsAssumption DEF Accepted, PredictionIInv, Predict
<1> HIDE DEF art
<1>6. CountsContext(job, [order |-> order, prediction |-> Predicted(art, job.asked, key)])
  BY <1>3, <1>4, <1>5, AnswerSound
<1>7. forecast'.value = [order |-> order, prediction |-> Predicted(art, job.asked, key)]
  BY <1>3
<1> QED
  BY <1>5, <1>6, <1>7, CountsAnswer

\* What the holdout answers.
LEMMA EvaluateSound ==
    ASSUME PredictionIInv, Evaluate
    PROVE  PredictionSound'
<1> DEFINE ordered == ByCompletion(job.executions)
           n == Len(ordered)
           Tests(split) == SubSeq(ordered, split + 1, n)
           Artifact(split) == BuildArtifact(SubSeq(ordered, 1, split), job.parameters, job.target)
           Found(split) == Evaluated(Tests(split), Artifact(split), job.target, job.parameters)
           Answers(split) == [train |-> SubSeq(ordered, 1, split), test |-> Tests(split),
                              evaluated |-> Cardinality(Found(split)),
                              hits |-> Cardinality({e \in Found(split) :
                                  Hit(Tests(split), Artifact(split), job.target, e[1], e[2])})]
<1>1. step' = "done" /\ job' = job /\ job.holdout # NoValue
  BY DEF Evaluate, PredictionIInv, Answer, Error
<1>2. SUFFICES ASSUME forecast'.code = "ok" PROVE TestsLater(job, forecast'.value)
  BY <1>1 DEF PredictionSound, PredictionFromContext, HoldoutIsLater
<1>3. PICK split \in Splits(n, job.holdout) :
          forecast' = [code |-> "ok", value |-> Answers(split)]
  <2>1. \/ \E code \in {"InvalidRequest", "ProviderError", "InsufficientData"} : Error(code)
        \/ \E split \in Splits(n, job.holdout) : Answer(Answers(split))
    BY Zenon DEF Evaluate
  <2> HIDE DEF n, Answers
  <2> QED
    BY <1>2, <2>1 DEF Answer, Error
<1>4. IsJob(job)
  BY JobsAssumption DEF PredictionIInv
<1>5. n = Len(job.executions)
  <2>1. /\ job.executions \in Seq(ExecutionRecords)
        /\ \A m, i \in DOMAIN job.executions : m # i => job.executions[m].id # job.executions[i].id
    BY <1>4 DEF IsJob
  <2> QED
    BY <2>1, ByCompletionOrders
<1>6. split \in 0 .. Len(job.executions)
  BY <1>3, <1>5 DEF Splits
<1>7. TestsLast(job, Answers(split))
  BY <1>4, <1>6, HoldoutSound
<1> QED
  BY <1>3, <1>4, <1>7, LastIsLater

\* The invariant holds of every behaviour.
THEOREM PredictionInvariant == PredictionSpec => []PredictionIInv
<1>1. PredictionInit => PredictionIInv
  BY DEF PredictionInit, PredictionFrom, PredictionIInv, KeptFromExecutions, UsedFromExecutions,
         PredictionSound, PredictionFromContext, HoldoutIsLater
<1>2. PredictionIInv /\ [PredictionNext]_predictionVars => PredictionIInv'
  <2> SUFFICES ASSUME PredictionIInv, [PredictionNext]_predictionVars
               PROVE  PredictionIInv'
    OBVIOUS
  <2>1. CASE Fit
    <3>1. CASE step' = "done" /\ forecast'.code # "ok" /\ job' = job
      BY <3>1 DEF PredictionIInv, KeptFromExecutions, UsedFromExecutions,
                  PredictionSound, PredictionFromContext, HoldoutIsLater
    <3>2. CASE /\ step' = "keep" /\ job' = job
               /\ job.parameters.feature_encoding \in Encodings
               /\ fitted' = Sealed(BuildArtifact(job.executions, job.parameters, job.target))
      <4>1. job.holdout = NoValue
        BY <2>1 DEF Fit, PredictionIInv
      <4> QED
        BY <3>2, <4>1 DEF PredictionIInv, KeptFromExecutions, UsedFromExecutions,
                          PredictionSound, PredictionFromContext, HoldoutIsLater
    <3> QED
      BY <2>1, <3>1, <3>2 DEF Fit, Error
  <2>2. CASE KeepArtifact
    <3>1. UsedFromExecutions'
      BY <2>2, KeptIsUsed
    <3>2. step = "keep" /\ step' = "predict" /\ job' = job
      BY <2>2 DEF KeepArtifact
    <3> QED
      BY <3>1, <3>2 DEF PredictionIInv, KeptFromExecutions,
                        PredictionSound, PredictionFromContext, HoldoutIsLater
  <2>3. CASE Predict
    <3>1. PredictionSound'
      BY <2>3, PredictSound
    <3>2. step' = "done" /\ job' = job
      BY <2>3 DEF Predict, Answer, Error
    <3> QED
      BY <3>1, <3>2 DEF PredictionIInv, KeptFromExecutions, UsedFromExecutions
  <2>4. CASE PredictFails
    BY <2>4 DEF PredictFails, Error, PredictionIInv, KeptFromExecutions, UsedFromExecutions,
                PredictionSound, PredictionFromContext, HoldoutIsLater
  <2>5. CASE Evaluate
    <3>1. PredictionSound'
      BY <2>5, EvaluateSound
    <3>2. step' = "done" /\ job' = job
      BY <2>5 DEF Evaluate, Answer, Error
    <3> QED
      BY <3>1, <3>2 DEF PredictionIInv, KeptFromExecutions, UsedFromExecutions
  <2>6. CASE UNCHANGED predictionVars
    <3>1. Used' = Used
      BY <2>6 DEF predictionVars, Used
    <3> QED
      BY <2>6, <3>1 DEF predictionVars, PredictionIInv, KeptFromExecutions, UsedFromExecutions,
                        PredictionSound, PredictionFromContext, HoldoutIsLater, Usable
  <2> QED
    BY <2>1, <2>2, <2>3, <2>4, <2>5, <2>6 DEF PredictionNext
<1> QED
  BY <1>1, <1>2, PTL DEF PredictionSpec

\* A prediction is what the executions show after the longest context that occurs in
\* them, and a holdout is tested on executions that complete no earlier than those it
\* learns from (fit, predict, backoff_key and evaluate_temporal_holdout).
THEOREM PredictionsSound == PredictionSpec => []PredictionSound
<1>1. PredictionIInv => PredictionSound
  BY DEF PredictionIInv
<1> QED
  BY <1>1, PredictionInvariant, PTL

-----------------------------------------------------------------------------
\* The pairing of starts and completions.

\* Sequences grow at the end and shrink at the head.
LEMMA QueueSteps ==
    ASSUME NEW B, NEW q \in Seq(B)
    PROVE  /\ Len(q) \in Nat /\ DOMAIN q = 1 .. Len(q) /\ \A k \in 1 .. Len(q) : q[k] \in B
           /\ \A b \in B : /\ Append(q, b) \in Seq(B) /\ Len(Append(q, b)) = Len(q) + 1
                           /\ \A k \in 1 .. Len(q) : Append(q, b)[k] = q[k]
                           /\ Append(q, b)[Len(q) + 1] = b
           /\ q # <<>> => /\ Len(q) >= 1 /\ Head(q) = q[1] /\ Head(q) \in B
                          /\ Tail(q) \in Seq(B) /\ Len(Tail(q)) = Len(q) - 1
                          /\ \A k \in 1 .. Len(q) - 1 : Tail(q)[k] = q[k + 1]
           /\ q = <<>> => Len(q) = 0
<1>1. /\ Len(q) \in Nat /\ DOMAIN q = 1 .. Len(q) /\ \A k \in 1 .. Len(q) : q[k] \in B
  OBVIOUS
<1>2. ASSUME NEW b \in B
      PROVE  /\ Append(q, b) \in Seq(B) /\ Len(Append(q, b)) = Len(q) + 1
             /\ \A k \in 1 .. Len(q) : Append(q, b)[k] = q[k]
             /\ Append(q, b)[Len(q) + 1] = b
  OBVIOUS
<1>3. ASSUME q # <<>>
      PROVE  /\ Len(q) >= 1 /\ Head(q) = q[1] /\ Head(q) \in B
             /\ Tail(q) \in Seq(B) /\ Len(Tail(q)) = Len(q) - 1
             /\ \A k \in 1 .. Len(q) - 1 : Tail(q)[k] = q[k + 1]
  <2>1. Len(q) >= 1 /\ Head(q) = q[1] /\ Head(q) \in B
    BY <1>3
  <2>2. Tail(q) \in Seq(B) /\ Len(Tail(q)) = Len(q) - 1
    BY <1>3
  <2>3. \A k \in 1 .. Len(q) - 1 : Tail(q)[k] = q[k + 1]
    BY <1>3
  <2> QED
    BY <2>1, <2>2, <2>3
<1>4. q = <<>> => Len(q) = 0
  OBVIOUS
<1> QED
  BY <1>1, <1>2, <1>3, <1>4

\* An event counts for its activity and its lifecycle.
LEMMA OccurredStep ==
    ASSUME NEW points, NEW a, NEW lifecycles, NEW n \in Nat
    PROVE  /\ Occurred(points, a, lifecycles, n) \in Nat
           /\ Occurred(points, a, lifecycles, 0) = 0
           /\ Occurred(points, a, lifecycles, n + 1)
                = IF points[n + 1].activity = a /\ points[n + 1].lifecycle \in lifecycles
                  THEN Occurred(points, a, lifecycles, n) + 1
                  ELSE Occurred(points, a, lifecycles, n)
<1> DEFINE Is(i) == points[i].activity = a /\ points[i].lifecycle \in lifecycles
           Of(m) == {i \in 1 .. m : Is(i)}
<1>1. IsFiniteSet(Of(n)) /\ Cardinality(Of(n)) \in Nat
  <2>1. IsFiniteSet(1 .. n)
    BY FS_Interval
  <2> QED
    BY <2>1, FS_Subset, FS_CardinalityType
<1>2. Of(0) = {} /\ Cardinality({}) = 0
  BY FS_EmptySet
<1>3. n + 1 \notin Of(n) /\ Of(n + 1) = IF Is(n + 1) THEN Of(n) \cup {n + 1} ELSE Of(n)
  <2> HIDE DEF Is
  <2> QED
    OBVIOUS
<1>4. Cardinality(Of(n) \cup {n + 1}) = Cardinality(Of(n)) + 1
  <2> HIDE DEF Of
  <2> QED
    BY <1>1, <1>3, FS_AddElement
<1>5. \A m : Occurred(points, a, lifecycles, m) = Cardinality(Of(m))
  BY DEF Occurred
<1>6. Cardinality(Of(n + 1)) = IF Is(n + 1) THEN Cardinality(Of(n)) + 1 ELSE Cardinality(Of(n))
  <2> HIDE DEF Of, Is
  <2> QED
    BY <1>3, <1>4
<1> HIDE DEF Of
<1> QED
  BY <1>1, <1>2, <1>5, <1>6

\* A completion is skipped when it is the first to exceed the starts.
LEMMA SkippedStep ==
    ASSUME NEW points, NEW a, NEW n \in Nat
    PROVE  /\ Skipped(points, a, n) \in Nat
           /\ Occurred(points, a, Completes, n) - Occurred(points, a, Starts, n)
                <= Skipped(points, a, n)
           /\ Skipped(points, a, 0) = 0
           /\ LET surplus == Occurred(points, a, Completes, n + 1)
                               - Occurred(points, a, Starts, n + 1)
              IN Skipped(points, a, n + 1)
                   = IF surplus > Skipped(points, a, n) THEN surplus ELSE Skipped(points, a, n)
<1> DEFINE over(m) == Occurred(points, a, Completes, m) - Occurred(points, a, Starts, m)
           Of(m) == {0} \cup {over(k) : k \in 1 .. m}
<1>1. \A m \in Nat : over(m) \in Int
  BY OccurredStep
<1>2. over(0) = 0
  BY OccurredStep
<1>3. ASSUME NEW m \in Nat
      PROVE  /\ Of(m) \in SUBSET Int /\ IsFiniteSet(Of(m)) /\ Of(m) # {}
  <2> DEFINE f == [k \in 1 .. m |-> over(k)]
  <2>1. f \in [1 .. m -> Int]
    <3> HIDE DEF over
    <3> QED
      BY <1>1
  <2>2. IsFiniteSet({f[k] : k \in 1 .. m})
    <3>1. IsFiniteSet(1 .. m)
      BY FS_Interval
    <3> HIDE DEF f
    <3> QED
      BY <2>1, <3>1, ImageFinite
  <2>3. {f[k] : k \in 1 .. m} = {over(k) : k \in 1 .. m}
    OBVIOUS
  <2>4. IsFiniteSet(Of(m))
    <3>1. IsFiniteSet({0})
      BY FS_Singleton
    <3> QED
      BY <2>2, <2>3, <3>1, FS_Union
  <2>5. Of(m) \in SUBSET Int
    <3> HIDE DEF over
    <3> QED
      BY <1>1
  <2> QED
    BY <2>4, <2>5
<1>4. \A m : Skipped(points, a, m) = Max(Of(m))
  BY DEF Skipped
<1>5. ASSUME NEW m \in Nat
      PROVE  Max(Of(m)) \in Of(m) /\ \A y \in Of(m) : y <= Max(Of(m))
  <2>1. Of(m) \in SUBSET Int /\ IsFiniteSet(Of(m)) /\ Of(m) # {}
    BY <1>3
  <2> HIDE DEF Of
  <2> QED
    BY <2>1, Extremes
<1> HIDE DEF over
<1>6. Max(Of(n)) \in Nat
  <2>1. 0 <= Max(Of(n)) /\ Max(Of(n)) \in Int
    BY <1>3, <1>5
  <2> QED
    BY <2>1
<1>7. over(n) <= Max(Of(n))
  <2>1. over(n) \in Of(n)
    <3>1. CASE n = 0
      BY <1>2, <3>1
    <3>2. CASE n # 0
      BY <3>2
    <3> QED
      BY <3>1, <3>2
  <2> QED
    BY <1>5, <2>1
<1>8. Max(Of(0)) = 0
  <2>1. Of(0) = {0}
    OBVIOUS
  <2>2. Max(Of(0)) \in Of(0)
    BY <1>5
  <2> QED
    BY <2>1, <2>2
<1>9. Max(Of(n + 1)) = IF over(n + 1) > Max(Of(n)) THEN over(n + 1) ELSE Max(Of(n))
  <2>1. Of(n + 1) = Of(n) \cup {over(n + 1)}
    OBVIOUS
  <2>2. n + 1 \in Nat
    OBVIOUS
  <2>3. over(n + 1) \in Int
    BY <1>1, <2>2
  <2>4. Max(Of(n)) \in Of(n) /\ \A y \in Of(n) : y <= Max(Of(n))
    BY <1>5
  <2>5. Max(Of(n + 1)) \in Of(n + 1) /\ \A y \in Of(n + 1) : y <= Max(Of(n + 1))
    BY <1>5, <2>2
  <2>6. Of(n) \in SUBSET Int
    BY <1>3
  <2> HIDE DEF Of
  <2>7. /\ Max(Of(n)) \in Int /\ Max(Of(n + 1)) \in Int
        /\ Max(Of(n)) <= Max(Of(n + 1)) /\ over(n + 1) <= Max(Of(n + 1))
        /\ Max(Of(n + 1)) = over(n + 1) \/ Max(Of(n + 1)) <= Max(Of(n))
    BY <2>1, <2>3, <2>4, <2>5, <2>6
  <2> QED
    BY <2>3, <2>7
<1> HIDE DEF Of
<1> QED
  BY <1>4, <1>6, <1>7, <1>8, <1>9 DEF over

\* The instances of an activity.
DoneOf(done, a) == Cardinality({i \in DOMAIN done : done[i].activity = a})

LEMMA DoneStep ==
    ASSUME NEW D, NEW done \in Seq(D), NEW d \in D, NEW a
    PROVE  /\ DoneOf(done, a) \in Nat
           /\ DoneOf(Append(done, d), a)
                = IF d.activity = a THEN DoneOf(done, a) + 1 ELSE DoneOf(done, a)
<1> DEFINE l == Len(done)
           more == Append(done, d)
           Of(s, m) == {i \in 1 .. m : s[i].activity = a}
<1>1. /\ l \in Nat /\ DOMAIN done = 1 .. l /\ Len(more) = l + 1 /\ DOMAIN more = 1 .. l + 1
      /\ \A k \in 1 .. l : more[k] = done[k]
      /\ more[l + 1] = d
  BY QueueSteps
<1>2. DoneOf(done, a) = Cardinality(Of(done, l)) /\ DoneOf(more, a) = Cardinality(Of(more, l + 1))
  BY <1>1 DEF DoneOf
<1> HIDE DEF l, more
<1>3. IsFiniteSet(Of(done, l)) /\ Cardinality(Of(done, l)) \in Nat
  <2>1. IsFiniteSet(1 .. l)
    BY <1>1, FS_Interval
  <2> QED
    BY <2>1, FS_Subset, FS_CardinalityType
<1>4. /\ l + 1 \notin Of(done, l)
      /\ Of(more, l + 1) = IF d.activity = a THEN Of(done, l) \cup {l + 1} ELSE Of(done, l)
  <2>1. \A i : i \in 1 .. l + 1 <=> i \in 1 .. l \/ i = l + 1
    BY <1>1
  <2>2. l + 1 \notin 1 .. l
    BY <1>1
  <2> QED
    BY <1>1, <2>1, <2>2
<1>5. Cardinality(Of(done, l) \cup {l + 1}) = Cardinality(Of(done, l)) + 1
  <2> HIDE DEF Of
  <2> QED
    BY <1>3, <1>4, FS_AddElement
<1>6. Cardinality(Of(more, l + 1))
        = IF d.activity = a THEN Cardinality(Of(done, l)) + 1 ELSE Cardinality(Of(done, l))
  <2> HIDE DEF Of
  <2> QED
    BY <1>4, <1>5
<1> QED
  BY <1>2, <1>3, <1>6 DEF more

-----------------------------------------------------------------------------
\* One event.

\* The events of an object in the order of their times.
Timed(points) ==
    /\ Len(points) \in Nat /\ DOMAIN points = 1 .. Len(points)
    /\ \A i \in 1 .. Len(points) : points[i].at \in Int
    /\ \A i, j \in 1 .. Len(points) : i <= j => points[i].at <= points[j].at

Begins(points, requested) == {Begun(points, i, requested) : i \in 1 .. Len(points)}
Pairs(points, requested) ==
    {Instance(b, points[k], requested) : b \in Begins(points, requested), k \in 1 .. Len(points)}
PairingStates(points, requested) ==
    [open : [Performed(points) -> Seq(Begins(points, requested))], done : Seq(Pairs(points, requested))]

LEMMA RecordTypes ==
    ASSUME NEW points, Timed(points), NEW requested
    PROVE  /\ \A b \in Begins(points, requested) : b.ready \in Int /\ b.start \in Int
           /\ \A d \in Pairs(points, requested) :
                  d.ready \in Int /\ d.start \in Int /\ d.complete \in Int
           /\ \A b \in Begins(points, requested), k \in 1 .. Len(points) :
                  LET d == Instance(b, points[k], requested)
                  IN /\ d \in Pairs(points, requested) /\ d.activity = points[k].activity
                     /\ d.ready = b.ready /\ d.start = b.start /\ d.complete = points[k].at
           /\ \A n \in Nat : n + 1 \in 1 .. Len(points) =>
                  LET b == Begun(points, n + 1, requested)
                  IN /\ b \in Begins(points, requested)
                     /\ b.start = points[n + 1].at /\ b.ready <= b.start
<1> DEFINE before(i) == IF i = 1 THEN 1 ELSE i - 1
<1>1. \A i \in 1 .. Len(points) : before(i) \in 1 .. Len(points) /\ before(i) <= i
  BY DEF Timed
<1>2. \A i : /\ Begun(points, i, requested).ready = points[before(i)].at
             /\ Begun(points, i, requested).start = points[i].at
  BY DEF Begun
<1> HIDE DEF before
<1>3. \A b, e : LET d == Instance(b, e, requested)
                IN /\ d.activity = e.activity /\ d.complete = e.at
                   /\ d.ready = b.ready /\ d.start = b.start
  BY DEF Instance
<1>4. ASSUME NEW b \in Begins(points, requested) PROVE b.ready \in Int /\ b.start \in Int
  <2>1. PICK i \in 1 .. Len(points) : b = Begun(points, i, requested)
    BY DEF Begins
  <2> QED
    BY <1>1, <1>2, <2>1 DEF Timed
<1>5. ASSUME NEW d \in Pairs(points, requested)
      PROVE  d.ready \in Int /\ d.start \in Int /\ d.complete \in Int
  <2>1. PICK b \in Begins(points, requested), k \in 1 .. Len(points) :
            d = Instance(b, points[k], requested)
    BY DEF Pairs
  <2>2. d.ready = b.ready /\ d.start = b.start /\ d.complete = points[k].at
    BY <1>3, <2>1
  <2> QED
    BY <1>4, <2>2 DEF Timed
<1>6. ASSUME NEW b \in Begins(points, requested), NEW k \in 1 .. Len(points)
      PROVE  Instance(b, points[k], requested) \in Pairs(points, requested)
  BY DEF Pairs
<1>7. ASSUME NEW n \in Nat, n + 1 \in 1 .. Len(points)
      PROVE  LET b == Begun(points, n + 1, requested)
             IN /\ b \in Begins(points, requested)
                /\ b.start = points[n + 1].at /\ b.ready <= b.start
  <2>1. points[before(n + 1)].at <= points[n + 1].at
    BY <1>1, <1>7 DEF Timed
  <2>2. Begun(points, n + 1, requested) \in Begins(points, requested)
    BY <1>7 DEF Begins
  <2> QED
    BY <1>2, <2>1, <2>2
<1> QED
  BY <1>3, <1>4, <1>5, <1>6, <1>7

\* What holds of an activity after n events: its queue, its instances, and their numbers.
QueueSound(points, n, a, q, done) ==
    /\ \A k \in 1 .. Len(q) : /\ q[k].ready <= q[k].start
                              /\ \A j \in n + 1 .. Len(points) : q[k].start <= points[j].at
    /\ \A k, l \in 1 .. Len(q) : k < l => q[k].start <= q[l].start
    /\ \A i \in 1 .. Len(done), k \in 1 .. Len(q) :
           done[i].activity = a => done[i].start <= q[k].start
    /\ Len(q) + DoneOf(done, a) = Occurred(points, a, Starts, n)
    /\ DoneOf(done, a) = Occurred(points, a, Completes, n) - Skipped(points, a, n)

DoneSound(points, n, done) ==
    /\ \A i \in 1 .. Len(done) :
           Timely(done[i]) /\ \A j \in n + 1 .. Len(points) : done[i].complete <= points[j].at
    /\ \A i, j \in 1 .. Len(done) : i < j /\ done[i].activity = done[j].activity =>
           done[i].start <= done[j].start /\ done[i].complete <= done[j].complete

Paired(points, requested, n, state) ==
    /\ state \in PairingStates(points, requested)
    /\ \A a \in Performed(points) : QueueSound(points, n, a, state.open[a], state.done)
    /\ DoneSound(points, n, state.done)

\* The numbers of an activity at a step, as the cases of the step need them.
LEMMA CountsStep ==
    ASSUME NEW points, NEW a, NEW n \in Nat, NEW q, NEW done, NEW l \in Nat, NEW m \in Nat,
           Len(q) \in Nat, DoneOf(done, a) \in Nat,
           Len(q) + DoneOf(done, a) = Occurred(points, a, Starts, n),
           DoneOf(done, a) = Occurred(points, a, Completes, n) - Skipped(points, a, n),
           LET e == points[n + 1]
           IN \/ /\ e.activity = a /\ e.lifecycle \in Starts
                 /\ l = Len(q) + 1 /\ m = DoneOf(done, a)
              \/ /\ e.activity = a /\ e.lifecycle \in Completes /\ Len(q) > 0
                 /\ l = Len(q) - 1 /\ m = DoneOf(done, a) + 1
              \/ /\ ~(e.activity = a /\ e.lifecycle \in Starts)
                 /\ e.activity = a /\ e.lifecycle \in Completes => Len(q) = 0
                 /\ l = Len(q) /\ m = DoneOf(done, a)
    PROVE  /\ l + m = Occurred(points, a, Starts, n + 1)
           /\ m = Occurred(points, a, Completes, n + 1) - Skipped(points, a, n + 1)
<1> DEFINE e == points[n + 1]
           S(k) == Occurred(points, a, Starts, k)
           C(k) == Occurred(points, a, Completes, k)
           M(k) == Skipped(points, a, k)
<1>1. /\ S(n) \in Nat
      /\ S(n + 1) = IF e.activity = a /\ e.lifecycle \in Starts THEN S(n) + 1 ELSE S(n)
  BY OccurredStep
<1>2. /\ C(n) \in Nat
      /\ C(n + 1) = IF e.activity = a /\ e.lifecycle \in Completes THEN C(n) + 1 ELSE C(n)
  BY OccurredStep
<1>3. /\ M(n) \in Nat /\ C(n) - S(n) <= M(n)
      /\ M(n + 1) = IF C(n + 1) - S(n + 1) > M(n) THEN C(n + 1) - S(n + 1) ELSE M(n)
  BY SkippedStep
<1>4. ~(e.lifecycle \in Starts /\ e.lifecycle \in Completes)
  BY DEF Starts, Completes
<1>5. Len(q) + DoneOf(done, a) = S(n) /\ DoneOf(done, a) = C(n) - M(n)
  OBVIOUS
<1> DEFINE begins == e.activity = a /\ e.lifecycle \in Starts
           ends == e.activity = a /\ e.lifecycle \in Completes
<1>6. \/ begins /\ l = Len(q) + 1 /\ m = DoneOf(done, a)
      \/ ends /\ Len(q) > 0 /\ l = Len(q) - 1 /\ m = DoneOf(done, a) + 1
      \/ ~begins /\ (ends => Len(q) = 0) /\ l = Len(q) /\ m = DoneOf(done, a)
  OBVIOUS
<1>7. /\ S(n + 1) = (IF begins THEN S(n) + 1 ELSE S(n))
      /\ C(n + 1) = (IF ends THEN C(n) + 1 ELSE C(n))
      /\ ~(begins /\ ends)
  BY <1>1, <1>2, <1>4
<1> SUFFICES l + m = S(n + 1) /\ m = C(n + 1) - M(n + 1)
  OBVIOUS
<1> HIDE DEF S, C, M, begins, ends, e
<1>8. CASE begins /\ l = Len(q) + 1 /\ m = DoneOf(done, a)
  <2>1. S(n + 1) = S(n) + 1 /\ C(n + 1) = C(n)
    BY <1>7, <1>8
  <2>2. S(n) \in Nat /\ C(n) \in Nat /\ M(n) \in Nat
    BY <1>1, <1>2, <1>3
  <2>3. ~(C(n + 1) - S(n + 1) > M(n))
    BY <1>3, <1>5, <1>8, <2>1, <2>2
  <2>4. M(n + 1) = M(n)
    BY <1>3, <2>3
  <2> QED
    BY <1>5, <1>8, <2>1, <2>2, <2>4
<1>9. CASE ends /\ Len(q) > 0 /\ l = Len(q) - 1 /\ m = DoneOf(done, a) + 1
  <2>1. S(n + 1) = S(n) /\ C(n + 1) = C(n) + 1
    BY <1>7, <1>9
  <2>2. S(n) \in Nat /\ C(n) \in Nat /\ M(n) \in Nat
    BY <1>1, <1>2, <1>3
  <2>3. ~(C(n + 1) - S(n + 1) > M(n))
    <3>1. Len(q) \in Nat /\ DoneOf(done, a) \in Nat /\ Len(q) > 0
      BY <1>9
    <3>2. S(n) > DoneOf(done, a) /\ C(n) = DoneOf(done, a) + M(n)
      BY <1>5, <2>2, <3>1
    <3>3. C(n) + 1 - S(n) <= M(n)
      BY <2>2, <3>1, <3>2
    <3> QED
      BY <2>1, <2>2, <3>3
  <2>4. M(n + 1) = M(n)
    BY <1>3, <2>3
  <2> QED
    BY <1>5, <1>9, <2>1, <2>2, <2>4
<1>10. CASE ~begins /\ (ends => Len(q) = 0) /\ l = Len(q) /\ m = DoneOf(done, a)
  <2>1. S(n + 1) = S(n) /\ S(n) \in Nat /\ C(n) \in Nat /\ M(n) \in Nat
    BY <1>1, <1>2, <1>3, <1>7, <1>10
  <2>2. CASE ends
    <3>1. Len(q) = 0 /\ C(n + 1) = C(n) + 1
      BY <1>7, <1>10, <2>2
    <3>2. S(n) = DoneOf(done, a)
      BY <1>5, <3>1
    <3>3. C(n) = S(n) + M(n)
      BY <1>5, <2>1, <3>2
    <3>4. C(n + 1) - S(n + 1) = M(n) + 1
      BY <2>1, <3>1, <3>3
    <3>5. M(n + 1) = M(n) + 1
      BY <1>3, <2>1, <3>4
    <3> QED
      BY <1>10, <2>1, <3>1, <3>2, <3>3, <3>5
  <2>3. CASE ~ends
    <3>1. C(n + 1) = C(n)
      BY <1>7, <2>3
    <3>2. M(n + 1) = M(n)
      BY <1>3, <2>1, <3>1
    <3> QED
      BY <1>5, <1>10, <2>1, <3>1, <3>2
  <2> QED
    BY <2>2, <2>3
<1> QED
  BY <1>6, <1>8, <1>9, <1>10

\* An event that is none of the activity's.
LEMMA QueueOther ==
    ASSUME NEW points, Timed(points), NEW requested, NEW n \in Nat, n + 1 \in 1 .. Len(points),
           NEW a, NEW q \in Seq(Begins(points, requested)),
           NEW done \in Seq(Pairs(points, requested)), QueueSound(points, n, a, q, done),
           ~(points[n + 1].activity = a /\ points[n + 1].lifecycle \in Starts),
           points[n + 1].activity = a /\ points[n + 1].lifecycle \in Completes => q = <<>>
    PROVE  QueueSound(points, n + 1, a, q, done)
<1>1. Len(q) \in Nat
  OBVIOUS
<1>2. DoneOf(done, a) \in Nat
  <2>1. Begun(points, n + 1, requested) \in Begins(points, requested)
    BY RecordTypes
  <2>2. \E d : d \in Pairs(points, requested)
    BY <2>1, RecordTypes
  <2> QED
    BY <2>2, DoneStep
<1>3. /\ Len(q) + DoneOf(done, a) = Occurred(points, a, Starts, n)
      /\ DoneOf(done, a) = Occurred(points, a, Completes, n) - Skipped(points, a, n)
  BY DEF QueueSound
<1>4. q = <<>> => Len(q) = 0
  OBVIOUS
<1>5. /\ Len(q) + DoneOf(done, a) = Occurred(points, a, Starts, n + 1)
      /\ DoneOf(done, a) = Occurred(points, a, Completes, n + 1) - Skipped(points, a, n + 1)
  BY <1>1, <1>2, <1>3, <1>4, CountsStep
<1>6. \A j : j \in (n + 1) + 1 .. Len(points) => j \in n + 1 .. Len(points)
  BY DEF Timed
<1> QED
  BY <1>5, <1>6 DEF QueueSound

\* The instance of another activity.
LEMMA QueueApart ==
    ASSUME NEW points, Timed(points), NEW requested, NEW n \in Nat,
           NEW a, NEW q \in Seq(Begins(points, requested)),
           NEW done \in Seq(Pairs(points, requested)), QueueSound(points, n, a, q, done),
           NEW d \in Pairs(points, requested), d.activity # a
    PROVE  QueueSound(points, n, a, q, Append(done, d))
<1> DEFINE more == Append(done, d)
<1>1. /\ Len(done) \in Nat /\ Len(more) = Len(done) + 1
      /\ \A i \in 1 .. Len(done) : more[i] = done[i]
      /\ more[Len(done) + 1] = d
  BY QueueSteps
<1>2. DoneOf(more, a) = DoneOf(done, a)
  BY DoneStep
<1> HIDE DEF more
<1>3. ASSUME NEW i \in 1 .. Len(more), NEW k \in 1 .. Len(q), more[i].activity = a
      PROVE  more[i].start <= q[k].start
  <2>1. i \in 1 .. Len(done)
    BY <1>1, <1>3
  <2> QED
    BY <1>1, <1>3, <2>1 DEF QueueSound
<1>4. QueueSound(points, n, a, q, more)
  BY <1>2, <1>3 DEF QueueSound
<1> QED
  BY <1>4 DEF more

\* A start waits at the end of the queue.
LEMMA QueueStart ==
    ASSUME NEW points, Timed(points), NEW requested, NEW n \in Nat, n + 1 \in 1 .. Len(points),
           NEW a, NEW q \in Seq(Begins(points, requested)),
           NEW done \in Seq(Pairs(points, requested)), QueueSound(points, n, a, q, done),
           DoneSound(points, n, done),
           points[n + 1].activity = a, points[n + 1].lifecycle \in Starts
    PROVE  LET b == Begun(points, n + 1, requested)
           IN /\ Append(q, b) \in Seq(Begins(points, requested))
              /\ QueueSound(points, n + 1, a, Append(q, b), done)
<1> DEFINE b == Begun(points, n + 1, requested)
           p == Append(q, b)
           B == Begins(points, requested)
           D == Pairs(points, requested)
<1>1. b \in B /\ b.start = points[n + 1].at /\ b.ready <= b.start
  BY RecordTypes
<1>a. b.start \in Int /\ b.ready \in Int
  BY <1>1, RecordTypes
<1> HIDE DEF b
<1>2. /\ Len(q) \in Nat /\ p \in Seq(B) /\ Len(p) = Len(q) + 1
      /\ \A k \in 1 .. Len(q) : p[k] = q[k] /\ q[k] \in B
      /\ p[Len(q) + 1] = b
  <2> HIDE DEF B
  <2>1. q \in Seq(B) /\ b \in B
    BY <1>1 DEF B
  <2> QED
    BY <2>1, QueueSteps
<1>3. DoneOf(done, a) \in Nat
  <2>1. \E d : d \in D
    BY <1>1, RecordTypes
  <2> QED
    BY <2>1, DoneStep
<1> HIDE DEF p
<1>4. /\ Len(p) + DoneOf(done, a) = Occurred(points, a, Starts, n + 1)
      /\ DoneOf(done, a) = Occurred(points, a, Completes, n + 1) - Skipped(points, a, n + 1)
  <2>1. /\ Len(q) + DoneOf(done, a) = Occurred(points, a, Starts, n)
        /\ DoneOf(done, a) = Occurred(points, a, Completes, n) - Skipped(points, a, n)
    BY DEF QueueSound
  <2>2. Len(p) \in Nat
    BY <1>2
  <2> QED
    BY <1>2, <1>3, <2>1, <2>2, CountsStep
<1>5. \A k \in 1 .. Len(p) : k \in 1 .. Len(q) \/ (k = Len(q) + 1 /\ p[k] = b)
  BY <1>2
<1>6. \A k \in 1 .. Len(q) : q[k].start <= b.start /\ q[k].ready <= q[k].start
  <2>1. n + 1 \in n + 1 .. Len(points)
    OBVIOUS
  <2> QED
    BY <1>1, <2>1 DEF QueueSound
<1>7. ASSUME NEW k \in 1 .. Len(p)
      PROVE  /\ p[k].ready <= p[k].start
             /\ \A j \in (n + 1) + 1 .. Len(points) : p[k].start <= points[j].at
  <2>1. CASE k \in 1 .. Len(q)
    BY <1>2, <2>1 DEF QueueSound, Timed
  <2>2. CASE p[k] = b
    <3>1. \A j \in (n + 1) + 1 .. Len(points) : j \in 1 .. Len(points) /\ n + 1 <= j
      BY DEF Timed
    <3> QED
      BY <1>1, <2>2, <3>1 DEF Timed
  <2> QED
    BY <1>5, <2>1, <2>2
<1>8. ASSUME NEW k \in 1 .. Len(p), NEW l \in 1 .. Len(p), k < l PROVE p[k].start <= p[l].start
  <2>1. k \in 1 .. Len(q)
    BY <1>2, <1>8
  <2>2. CASE l \in 1 .. Len(q)
    BY <1>2, <1>8, <2>1, <2>2 DEF QueueSound
  <2>3. CASE p[l] = b
    BY <1>2, <1>6, <2>1, <2>3
  <2> QED
    BY <1>5, <2>2, <2>3
<1>9. ASSUME NEW i \in 1 .. Len(done), NEW k \in 1 .. Len(p), done[i].activity = a
      PROVE  done[i].start <= p[k].start
  <2>1. CASE k \in 1 .. Len(q)
    BY <1>2, <1>9, <2>1 DEF QueueSound
  <2>2. CASE p[k] = b
    <3>1. done[i].start <= done[i].complete /\ done[i].complete <= points[n + 1].at
      <4>1. n + 1 \in n + 1 .. Len(points)
        OBVIOUS
      <4> QED
        BY <4>1 DEF DoneSound, Timely
    <3>2. done[i].start \in Int /\ done[i].complete \in Int /\ points[n + 1].at \in Int
      <4>1. done[i] \in D
        OBVIOUS
      <4> QED
        BY <4>1, RecordTypes DEF Timed
    <3>3. done[i].start <= points[n + 1].at
      BY <3>1, <3>2
    <3> QED
      BY <1>1, <2>2, <3>3
  <2> QED
    BY <1>5, <2>1, <2>2
<1>10. QueueSound(points, n + 1, a, p, done)
  BY <1>4, <1>7, <1>8, <1>9 DEF QueueSound
<1> QED
  BY <1>2, <1>10 DEF p, b

\* A completion takes the head of the queue, which started before it.
LEMMA QueueComplete ==
    ASSUME NEW points, Timed(points), NEW requested, NEW n \in Nat, n + 1 \in 1 .. Len(points),
           NEW a, NEW q \in Seq(Begins(points, requested)),
           NEW done \in Seq(Pairs(points, requested)), QueueSound(points, n, a, q, done),
           DoneSound(points, n, done),
           points[n + 1].activity = a, points[n + 1].lifecycle \in Completes, q # <<>>
    PROVE  LET d == Instance(Head(q), points[n + 1], requested)
           IN /\ ~(points[n + 1].at < Head(q).start)
              /\ d \in Pairs(points, requested) /\ d.activity = a
              /\ Tail(q) \in Seq(Begins(points, requested))
              /\ QueueSound(points, n + 1, a, Tail(q), Append(done, d))
              /\ DoneSound(points, n + 1, Append(done, d))
<1> DEFINE h == Head(q)
           d == Instance(h, points[n + 1], requested)
           B == Begins(points, requested)
           D == Pairs(points, requested)
           t == Tail(q)
           more == Append(done, d)
<1>1. /\ Len(q) \in Nat /\ Len(q) >= 1 /\ h = q[1] /\ h \in B
      /\ t \in Seq(B) /\ Len(t) = Len(q) - 1
      /\ \A k \in 1 .. Len(t) : t[k] = q[k + 1]
      /\ \A k \in 1 .. Len(q) : q[k] \in B
  BY QueueSteps
<1> HIDE DEF h, t
<1>2. /\ d \in D /\ d.activity = a
      /\ d.ready = h.ready /\ d.start = h.start /\ d.complete = points[n + 1].at
  BY <1>1, RecordTypes
<1> HIDE DEF d
<1>3. /\ Len(done) \in Nat /\ Len(more) = Len(done) + 1
      /\ \A i \in 1 .. Len(done) : more[i] = done[i] /\ done[i] \in D
      /\ more[Len(done) + 1] = d
  <2> HIDE DEF D
  <2>1. done \in Seq(D) /\ d \in D
    BY <1>2 DEF D
  <2> QED
    BY <2>1, QueueSteps
<1>4. DoneOf(done, a) \in Nat /\ DoneOf(more, a) = DoneOf(done, a) + 1
  BY <1>2, DoneStep
<1> HIDE DEF more
<1>5. /\ \A b \in B : b.ready \in Int /\ b.start \in Int
      /\ \A x \in D : x.ready \in Int /\ x.start \in Int /\ x.complete \in Int
      /\ points[n + 1].at \in Int
  BY RecordTypes DEF Timed
<1>6. n + 1 \in n + 1 .. Len(points) /\ 1 \in 1 .. Len(q)
  BY <1>1
<1>7. h.ready <= h.start /\ h.start <= points[n + 1].at
  BY <1>1, <1>6 DEF QueueSound
<1>8. /\ Len(t) + DoneOf(more, a) = Occurred(points, a, Starts, n + 1)
      /\ DoneOf(more, a) = Occurred(points, a, Completes, n + 1) - Skipped(points, a, n + 1)
  <2>1. /\ Len(q) + DoneOf(done, a) = Occurred(points, a, Starts, n)
        /\ DoneOf(done, a) = Occurred(points, a, Completes, n) - Skipped(points, a, n)
    BY DEF QueueSound
  <2>2. Len(t) \in Nat /\ DoneOf(more, a) \in Nat /\ Len(q) > 0
    BY <1>1, <1>4
  <2> QED
    BY <1>1, <1>4, <2>1, <2>2, CountsStep
<1>9. \A i \in 1 .. Len(more) : (i \in 1 .. Len(done) /\ more[i] = done[i])
                               \/ (i = Len(done) + 1 /\ more[i] = d)
  BY <1>3
<1>10. \A j \in (n + 1) + 1 .. Len(points) : j \in n + 1 .. Len(points) /\ j \in 1 .. Len(points)
                                            /\ n + 1 <= j /\ points[n + 1].at <= points[j].at
  BY DEF Timed
<1>11. \A k \in 1 .. Len(t) : k + 1 \in 1 .. Len(q) /\ 1 < k + 1 /\ t[k] = q[k + 1]
  BY <1>1
<1>12. QueueSound(points, n + 1, a, t, more)
  <2>1. ASSUME NEW k \in 1 .. Len(t)
        PROVE  /\ t[k].ready <= t[k].start
               /\ \A j \in (n + 1) + 1 .. Len(points) : t[k].start <= points[j].at
    BY <1>10, <1>11 DEF QueueSound
  <2>2. ASSUME NEW k \in 1 .. Len(t), NEW l \in 1 .. Len(t), k < l PROVE t[k].start <= t[l].start
    <3>1. k + 1 < l + 1
      BY <2>2
    <3> QED
      BY <1>11, <3>1 DEF QueueSound
  <2>3. ASSUME NEW i \in 1 .. Len(more), NEW k \in 1 .. Len(t), more[i].activity = a
        PROVE  more[i].start <= t[k].start
    <3>1. CASE i \in 1 .. Len(done) /\ more[i] = done[i]
      BY <1>11, <2>3, <3>1 DEF QueueSound
    <3>2. CASE more[i] = d
      <4>1. q[1].start <= q[k + 1].start
        BY <1>6, <1>11 DEF QueueSound
      <4> QED
        BY <1>1, <1>2, <1>11, <3>2, <4>1
    <3> QED
      BY <1>9, <3>1, <3>2
  <2> QED
    BY <1>8, <2>1, <2>2, <2>3 DEF QueueSound
<1>13. DoneSound(points, n + 1, more)
  <2>1. ASSUME NEW i \in 1 .. Len(more)
        PROVE  /\ Timely(more[i])
               /\ \A j \in (n + 1) + 1 .. Len(points) : more[i].complete <= points[j].at
    <3>1. CASE i \in 1 .. Len(done) /\ more[i] = done[i]
      BY <1>10, <3>1 DEF DoneSound
    <3>2. CASE more[i] = d
      BY <1>2, <1>7, <1>10, <3>2 DEF Timely
    <3> QED
      BY <1>9, <3>1, <3>2
  <2>2. ASSUME NEW i \in 1 .. Len(more), NEW j \in 1 .. Len(more), i < j,
               more[i].activity = more[j].activity
        PROVE  more[i].start <= more[j].start /\ more[i].complete <= more[j].complete
    <3>1. i \in 1 .. Len(done) /\ more[i] = done[i]
      BY <1>3, <2>2
    <3>2. CASE j \in 1 .. Len(done) /\ more[j] = done[j]
      BY <2>2, <3>1, <3>2 DEF DoneSound
    <3>3. CASE more[j] = d
      <4>1. done[i].start <= q[1].start
        BY <1>2, <1>6, <2>2, <3>1, <3>3 DEF QueueSound
      <4>2. done[i].complete <= points[n + 1].at
        BY <1>6, <3>1 DEF DoneSound
      <4> QED
        BY <1>1, <1>2, <3>1, <3>3, <4>1, <4>2
    <3> QED
      BY <1>9, <3>2, <3>3
  <2> QED
    BY <2>1, <2>2 DEF DoneSound
<1>14. ~(points[n + 1].at < h.start)
  BY <1>1, <1>5, <1>7
<1> QED
  BY <1>1, <1>2, <1>12, <1>13, <1>14 DEF h, t, d, more

\* Without a new instance.
LEMMA DoneWaits ==
    ASSUME NEW points, NEW n \in Nat, NEW done, DoneSound(points, n, done), Len(points) \in Nat
    PROVE  DoneSound(points, n + 1, done)
<1>1. \A j : j \in (n + 1) + 1 .. Len(points) => j \in n + 1 .. Len(points)
  OBVIOUS
<1> QED
  BY <1>1 DEF DoneSound

LEMMA PairPointSound ==
    ASSUME NEW points, Timed(points), NEW requested, NEW n \in Nat, n + 1 \in 1 .. Len(points),
           NEW state, Paired(points, requested, n, state)
    PROVE  Paired(points, requested, n + 1, PairPoint(state, points, n + 1, requested))
<1> DEFINE e == points[n + 1]
           P == Performed(points)
           B == Begins(points, requested)
           D == Pairs(points, requested)
           queue == state.open[e.activity]
           b == Begun(points, n + 1, requested)
           d == Instance(Head(queue), e, requested)
           next == PairPoint(state, points, n + 1, requested)
<1>1. /\ e.activity \in P /\ state.open \in [P -> Seq(B)] /\ state.done \in Seq(D)
      /\ state = [open |-> state.open, done |-> state.done]
      /\ queue \in Seq(B)
  <2>1. e.activity \in P
    BY DEF Performed, Timed
  <2>2. /\ state.open \in [P -> Seq(B)] /\ state.done \in Seq(D)
        /\ state = [open |-> state.open, done |-> state.done]
    BY DEF Paired, PairingStates
  <2> QED
    BY <2>1, <2>2
<1>2. /\ \A a \in P : QueueSound(points, n, a, state.open[a], state.done)
      /\ DoneSound(points, n, state.done)
  BY DEF Paired
<1>3. \A a \in P : state.open[a] \in Seq(B)
  BY <1>1
<1>4. CASE e.lifecycle \in Starts
  <2> DEFINE open == [state.open EXCEPT ![e.activity] = Append(queue, b)]
  <2>1. next = [open |-> open, done |-> state.done]
    <3>1. next = [state EXCEPT !.open[e.activity] = Append(@, b)]
      BY <1>4 DEF PairPoint
    <3> HIDE DEF next, b
    <3> QED
      BY <1>1, <3>1
  <2>2. Append(queue, b) \in Seq(B) /\ QueueSound(points, n + 1, e.activity, Append(queue, b), state.done)
    BY <1>1, <1>2, <1>4, QueueStart
  <2>3. open \in [P -> Seq(B)] /\ open[e.activity] = Append(queue, b)
        /\ \A a \in P : a # e.activity => open[a] = state.open[a]
    <3> HIDE DEF b, P, B
    <3> QED
      BY <1>1, <2>2
  <2>4. ASSUME NEW a \in P PROVE QueueSound(points, n + 1, a, open[a], state.done)
    <3>1. CASE a = e.activity
      BY <2>2, <2>3, <3>1
    <3>2. CASE a # e.activity
      <4>1. QueueSound(points, n + 1, a, state.open[a], state.done)
        BY <1>1, <1>2, <1>3, <3>2, QueueOther
      <4> QED
        BY <2>3, <3>2, <4>1
    <3> QED
      BY <3>1, <3>2
  <2>5. DoneSound(points, n + 1, state.done)
    BY <1>2, DoneWaits DEF Timed
  <2> HIDE DEF open, next
  <2>6. Paired(points, requested, n + 1, next)
    BY <1>1, <2>1, <2>3, <2>4, <2>5 DEF Paired, PairingStates
  <2> QED
    BY <2>6 DEF next
<1>5. CASE e.lifecycle \notin Starts /\ e.lifecycle \in Completes /\ queue # <<>>
  <2> DEFINE open == [state.open EXCEPT ![e.activity] = Tail(queue)]
             done == Append(state.done, d)
  <2>1. /\ ~(e.at < Head(queue).start) /\ d \in D /\ d.activity = e.activity
        /\ Tail(queue) \in Seq(B)
        /\ QueueSound(points, n + 1, e.activity, Tail(queue), done)
        /\ DoneSound(points, n + 1, done)
    BY <1>1, <1>2, <1>5, QueueComplete
  <2>2. next = [open |-> open, done |-> done]
    BY <1>5, <2>1 DEF PairPoint
  <2>3. open \in [P -> Seq(B)] /\ open[e.activity] = Tail(queue)
        /\ \A a \in P : a # e.activity => open[a] = state.open[a]
    <3> HIDE DEF P, B
    <3> QED
      BY <1>1, <2>1
  <2>4. done \in Seq(D)
    <3> HIDE DEF D, d
    <3> QED
      BY <1>1, <2>1
  <2>5. ASSUME NEW a \in P PROVE QueueSound(points, n + 1, a, open[a], done)
    <3>1. CASE a = e.activity
      BY <2>1, <2>3, <3>1
    <3>2. CASE a # e.activity
      <4>1. QueueSound(points, n + 1, a, state.open[a], state.done)
        BY <1>1, <1>2, <1>3, <3>2, QueueOther
      <4>2. QueueSound(points, n + 1, a, state.open[a], done)
        <5> HIDE DEF d
        <5> QED
          BY <1>1, <1>3, <2>1, <3>2, <4>1, QueueApart
      <4> QED
        BY <2>3, <3>2, <4>2
    <3> QED
      BY <3>1, <3>2
  <2> HIDE DEF open, next, done
  <2>6. Paired(points, requested, n + 1, next)
    BY <2>1, <2>2, <2>3, <2>4, <2>5 DEF Paired, PairingStates
  <2> QED
    BY <2>6 DEF next
<1>6. CASE e.lifecycle \notin Starts /\ ~(e.lifecycle \in Completes /\ queue # <<>>)
  <2>1. next = state
    BY <1>6 DEF PairPoint
  <2>2. ASSUME NEW a \in P PROVE QueueSound(points, n + 1, a, state.open[a], state.done)
    <3>1. e.activity = a /\ e.lifecycle \in Completes => state.open[a] = <<>>
      BY <1>6
    <3>2. ~(e.activity = a /\ e.lifecycle \in Starts)
      BY <1>6
    <3> QED
      BY <1>1, <1>2, <1>3, <3>1, <3>2, QueueOther
  <2>3. DoneSound(points, n + 1, state.done)
    BY <1>2, DoneWaits DEF Timed
  <2>4. state \in PairingStates(points, requested)
    BY DEF Paired
  <2>5. Paired(points, requested, n + 1, state)
    BY <2>2, <2>3, <2>4 DEF Paired
  <2> QED
    BY <2>1, <2>5
<1> QED
  BY <1>4, <1>5, <1>6

-----------------------------------------------------------------------------
\* All events.

LEMMA NothingPairedSound ==
    ASSUME NEW points, Timed(points), NEW requested
    PROVE  Paired(points, requested, 0, NothingPaired(points))
<1> DEFINE none == NothingPaired(points)
<1>1. none \in PairingStates(points, requested)
  BY DEF NothingPaired, PairingStates
<1>2. none.done = <<>> /\ \A a \in Performed(points) : none.open[a] = <<>>
  BY DEF NothingPaired
<1>3. Len(<<>>) = 0 /\ 1 .. 0 = {}
  OBVIOUS
<1>4. \A a : DoneOf(<<>>, a) = 0
  BY FS_EmptySet DEF DoneOf
<1>5. ASSUME NEW a \in Performed(points) PROVE QueueSound(points, 0, a, <<>>, <<>>)
  <2>1. /\ Occurred(points, a, Starts, 0) = 0 /\ Occurred(points, a, Completes, 0) = 0
        /\ Skipped(points, a, 0) = 0
    BY OccurredStep, SkippedStep
  <2> QED
    BY <1>3, <1>4, <2>1 DEF QueueSound
<1>6. DoneSound(points, 0, <<>>)
  BY <1>3 DEF DoneSound
<1> HIDE DEF none
<1> QED
  BY <1>1, <1>2, <1>5, <1>6 DEF Paired, none

LEMMA InstancesSound ==
    ASSUME NEW points, Timed(points), NEW requested
    PROVE  LET done == InstancesOf(points, requested)
           IN /\ done \in Seq(Pairs(points, requested))
              /\ \A i \in DOMAIN done : Timely(done[i])
              /\ PairedInOrder(points, done)
<1> DEFINE l == Len(points)
           S == PairingStates(points, requested)
           none == NothingPaired(points)
           Recursion(f) == f = [i \in 0 .. l |-> IF i = 0 THEN none
                                                ELSE PairPoint(f[i - 1], points, i, requested)]
           g == [p \in Nat \X S |-> IF PairPoint(p[2], points, p[1] + 1, requested) \in S
                                    THEN PairPoint(p[2], points, p[1] + 1, requested) ELSE none]
           Step(s, n) == PairPoint(s, points, n + 1, requested)
<1>1. l \in Nat
  BY DEF Timed
<1>2. Paired(points, requested, 0, none) /\ none \in S
  BY NothingPairedSound DEF Paired
<1>3. ASSUME NEW n \in Nat, n + 1 <= l, NEW s, Paired(points, requested, n, s)
      PROVE  Paired(points, requested, n + 1, Step(s, n)) /\ Step(s, n) \in S
  <2>1. n + 1 \in 1 .. Len(points)
    BY <1>1, <1>3
  <2>2. Paired(points, requested, n + 1, Step(s, n))
    BY <1>3, <2>1, PairPointSound
  <2> QED
    BY <2>2 DEF Paired
<1>4. g \in [Nat \X S -> S]
  <2> HIDE DEF S, none
  <2> QED
    BY <1>2
<1>5. PICK f : NatRun(f, S, none, g)
  <2> HIDE DEF S, none, g
  <2> QED
    BY <1>2, <1>4, NatRecursion
<1>6. /\ f \in [Nat -> S] /\ f[0] = none
      /\ \A n \in Nat : f[n + 1] = IF Step(f[n], n) \in S THEN Step(f[n], n) ELSE none
  <2>1. /\ f \in [Nat -> S] /\ f[0] = none /\ \A n \in Nat : f[n + 1] = g[<<n, f[n]>>]
    <3> HIDE DEF S, none, g
    <3> QED
      BY <1>5 DEF NatRun
  <2>2. \A n \in Nat, s \in S : g[<<n, s>>] = IF Step(s, n) \in S THEN Step(s, n) ELSE none
    <3> HIDE DEF S, none
    <3> QED
      OBVIOUS
  <2> HIDE DEF S, none, g, Step
  <2> QED
    BY <2>1, <2>2
<1> HIDE DEF g, S, none, Step
<1> DEFINE Q == {n \in Nat : n <= l => Paired(points, requested, n, f[n])}
<1>7. Nat \subseteq Q
  <2>1. 0 \in Q
    BY <1>2, <1>6
  <2>2. ASSUME NEW n \in Nat, n \in Q PROVE n + 1 \in Q
    <3> SUFFICES ASSUME n + 1 <= l PROVE Paired(points, requested, n + 1, f[n + 1])
      OBVIOUS
    <3>1. Paired(points, requested, n, f[n])
      BY <1>1, <2>2
    <3> QED
      BY <1>3, <1>6, <3>1
  <2> HIDE DEF Q
  <2> QED
    BY <2>1, <2>2, NatSetInduction
<1>8. \A n \in Nat : n + 1 <= l => f[n + 1] = Step(f[n], n)
  BY <1>1, <1>3, <1>6, <1>7
<1>9. Recursion([i \in 0 .. l |-> f[i]])
  <2> DEFINE h == [i \in 0 .. l |-> f[i]]
  <2> SUFFICES ASSUME NEW i \in 0 .. l
               PROVE  h[i] = IF i = 0 THEN none ELSE PairPoint(h[i - 1], points, i, requested)
    OBVIOUS
  <2>1. CASE i = 0
    BY <1>6, <2>1
  <2>2. CASE i # 0
    <3>1. i - 1 \in Nat /\ i - 1 \in 0 .. l /\ (i - 1) + 1 = i /\ i <= l
      BY <1>1, <2>2
    <3>2. f[i] = Step(f[i - 1], i - 1)
      BY <1>8, <3>1
    <3>3. Step(f[i - 1], i - 1) = PairPoint(f[i - 1], points, i, requested)
      BY <3>1 DEF Step
    <3> QED
      BY <2>2, <3>1, <3>2, <3>3
  <2> QED
    BY <2>1, <2>2
<1>10. PICK h : Recursion(h) /\ InstancesOf(points, requested) = h[l].done
  BY <1>9 DEF InstancesOf, none
<1> DEFINE R == {n \in Nat : n <= l => Paired(points, requested, n, h[n])}
<1>11. Nat \subseteq R
  <2>1. 0 \in R
    <3>1. h[0] = none
      BY <1>1, <1>10
    <3> QED
      BY <1>2, <3>1
  <2>2. ASSUME NEW n \in Nat, n \in R PROVE n + 1 \in R
    <3> SUFFICES ASSUME n + 1 <= l PROVE Paired(points, requested, n + 1, h[n + 1])
      OBVIOUS
    <3>1. Paired(points, requested, n, h[n])
      BY <1>1, <2>2
    <3>2. n + 1 \in 0 .. l /\ n + 1 # 0 /\ (n + 1) - 1 = n
      BY <1>1
    <3>3. h[n + 1] = PairPoint(h[n], points, n + 1, requested)
      BY <1>10, <3>2
    <3> QED
      BY <1>3, <3>1, <3>3 DEF Step
  <2> HIDE DEF R
  <2> QED
    BY <2>1, <2>2, NatSetInduction
<1>12. Paired(points, requested, l, h[l])
  BY <1>1, <1>11
<1> DEFINE done == InstancesOf(points, requested)
<1>13. /\ done \in Seq(Pairs(points, requested))
       /\ \A a \in Performed(points) : QueueSound(points, l, a, h[l].open[a], done)
       /\ DoneSound(points, l, done)
  BY <1>10, <1>12 DEF Paired, PairingStates
<1> HIDE DEF done
<1>14. DOMAIN done = 1 .. Len(done)
  BY <1>13
<1>15. PairedInOrder(points, done)
  BY <1>13, <1>14 DEF PairedInOrder, QueueSound, DoneSound, DoneOf
<1>16. \A i \in DOMAIN done : Timely(done[i])
  BY <1>13, <1>14 DEF DoneSound
<1> QED
  BY <1>13, <1>15, <1>16 DEF done

-----------------------------------------------------------------------------
\* All objects.

LEMMA PointsTimed ==
    ASSUME NEW observations, Observed(observations), NEW object
    PROVE  Timed(PointsOf(observations, object))
<1> DEFINE own == {o \in observations : o.object = object[1] /\ o.object_type = object[2]}
           E == EventsOf(observations, object)
           R == PointOrder(E)
           points == Ranked(E, R)
<1>1. E = {o.source : o \in own} \cup {o.target : o \in own}
  BY DEF EventsOf
<1>2. IsFiniteSet(E)
  <2> DEFINE f == [o \in own |-> o.source]
             t == [o \in own |-> o.target]
             F == {o.source : o \in own}
             T == {o.target : o \in own}
  <2>1. IsFiniteSet(own)
    BY FS_Subset DEF Observed
  <2>2. f \in [own -> F] /\ t \in [own -> T]
    OBVIOUS
  <2>3. {f[o] : o \in own} = F /\ {t[o] : o \in own} = T
    OBVIOUS
  <2>4. E = F \cup T
    BY <1>1
  <2> HIDE DEF f, t, F, T, own
  <2>5. IsFiniteSet({f[o] : o \in own})
    BY <2>1, <2>2, ImageFinite
  <2>6. IsFiniteSet({t[o] : o \in own})
    BY <2>1, <2>2, ImageFinite
  <2>7. IsFiniteSet(F) /\ IsFiniteSet(T)
    BY <2>3, <2>5, <2>6
  <2> QED
    BY <2>4, <2>7, FS_Union
<1>3. E \subseteq EventsIn(observations)
  BY <1>1 DEF EventsIn
<1>4. /\ \A e \in E : e.at \in Int /\ e.id \in Int
      /\ \A e, f \in E : e.id = f.id => e = f
  BY <1>3 DEF Observed
<1> HIDE DEF E
<1>5. \A e, f \in E : <<e, f>> \in R <=> e.at < f.at \/ (e.at = f.at /\ e.id < f.id)
  BY DEF PointOrder
<1> HIDE DEF R
<1>6. TotalOn(E, R)
  <2>1. \A e \in E : <<e, e>> \notin R
    BY <1>4, <1>5
  <2>2. \A e, f \in E : e # f => <<e, f>> \in R \/ <<f, e>> \in R
    BY <1>4, <1>5
  <2>3. \A e, f, h \in E : <<e, f>> \in R /\ <<f, h>> \in R => <<e, h>> \in R
    BY <1>4, <1>5
  <2> QED
    BY <2>1, <2>2, <2>3 DEF TotalOn
<1>7. Lists(points, E, R)
  BY <1>2, <1>6, RankedLists
<1>8. PointsOf(observations, object) = points
  BY DEF PointsOf, E, R
<1> HIDE DEF points
<1>9. /\ points \in Seq(E) /\ Len(points) \in Nat /\ DOMAIN points = 1 .. Len(points)
      /\ \A i \in 1 .. Len(points) : points[i] \in E
  BY <1>7 DEF Lists
<1>10. ASSUME NEW i \in 1 .. Len(points), NEW j \in 1 .. Len(points), i <= j
       PROVE  points[i].at <= points[j].at
  <2>1. CASE i = j
    BY <1>4, <1>9, <2>1
  <2>2. CASE i < j
    <3>1. <<points[i], points[j]>> \in R
      BY <1>7, <2>2 DEF Lists
    <3> QED
      BY <1>4, <1>5, <1>9, <3>1
  <2> QED
    BY <1>9, <1>10, <2>1, <2>2
<1>11. Timed(points)
  BY <1>4, <1>9, <1>10 DEF Timed
<1> QED
  BY <1>8, <1>11

\* One sequence after the other.
LEMMA FlattenType ==
    ASSUME NEW T, NEW seqs \in Seq(Seq(T))
    PROVE  FlattenSeq(seqs) \in Seq(T)
<1> DEFINE l == Len(seqs)
           g == [p \in Nat \X Seq(T) |-> IF p[1] + 1 \in 1 .. l THEN p[2] \o seqs[p[1] + 1] ELSE p[2]]
           Flat(f) == f = [i \in 1 .. l |-> IF i = 1 THEN seqs[i] ELSE f[i - 1] \o seqs[i]]
<1>1. l \in Nat /\ \A i \in 1 .. l : seqs[i] \in Seq(T)
  OBVIOUS
<1>2. CASE l = 0
  <2>1. seqs = <<>>
    BY <1>2
  <2>2. FlattenSeq(seqs) = seqs
    BY <1>2 DEF FlattenSeq
  <2>3. <<>> \in Seq(T)
    OBVIOUS
  <2> QED
    BY <2>1, <2>2, <2>3
<1>3. CASE l # 0
  <2>1. g \in [Nat \X Seq(T) -> Seq(T)]
    <3>1. \A s, t \in Seq(T) : s \o t \in Seq(T)
      OBVIOUS
    <3> QED
      BY <1>1, <3>1
  <2>2. <<>> \in Seq(T)
    OBVIOUS
  <2>3. PICK f : NatRun(f, Seq(T), <<>>, g)
    <3> HIDE DEF g
    <3> QED
      BY <2>1, <2>2, NatRecursion
  <2>4. f \in [Nat -> Seq(T)] /\ f[0] = <<>> /\ \A n \in Nat : f[n + 1] = g[<<n, f[n]>>]
    <3> HIDE DEF g
    <3> QED
      BY <2>3 DEF NatRun
  <2>5. \A i \in 1 .. l : f[i] = f[i - 1] \o seqs[i]
    <3> TAKE i \in 1 .. l
    <3>1. i - 1 \in Nat /\ (i - 1) + 1 = i
      BY <1>1
    <3>2. f[i] = g[<<i - 1, f[i - 1]>>] /\ f[i - 1] \in Seq(T)
      <4> HIDE DEF g
      <4> QED
        BY <2>4, <3>1
    <3> QED
      BY <3>1, <3>2
  <2>6. Flat([i \in 1 .. l |-> f[i]])
    <3> DEFINE h == [i \in 1 .. l |-> f[i]]
    <3> SUFFICES ASSUME NEW i \in 1 .. l
                 PROVE  h[i] = IF i = 1 THEN seqs[i] ELSE h[i - 1] \o seqs[i]
      OBVIOUS
    <3>1. CASE i = 1
      <4>1. f[i] = <<>> \o seqs[i]
        <5>1. f[i] = f[i - 1] \o seqs[i]
          BY <2>5
        <5>2. i - 1 = 0
          BY <3>1
        <5> QED
          BY <2>4, <5>1, <5>2
      <4>2. \A s \in Seq(T) : <<>> \o s = s
        OBVIOUS
      <4> QED
        BY <1>1, <3>1, <4>1, <4>2
    <3>2. CASE i # 1
      <4>1. i - 1 \in 1 .. l
        BY <1>1, <3>2
      <4> QED
        BY <2>5, <3>2, <4>1
    <3> QED
      BY <3>1, <3>2
  <2>7. PICK h : Flat(h) /\ FlattenSeq(seqs) = h[l]
    BY <1>3, <2>6 DEF FlattenSeq
  <2> DEFINE Q == {n \in Nat : n + 1 <= l => h[n + 1] \in Seq(T)}
  <2>8. 0 \in Q
    BY <1>1, <2>7
  <2>9. ASSUME NEW n \in Nat, n \in Q PROVE n + 1 \in Q
    <3> SUFFICES ASSUME (n + 1) + 1 <= l PROVE h[(n + 1) + 1] \in Seq(T)
      OBVIOUS
    <3>1. h[n + 1] \in Seq(T)
      BY <1>1, <2>9
    <3>2. (n + 1) + 1 \in 1 .. l /\ (n + 1) + 1 # 1 /\ ((n + 1) + 1) - 1 = n + 1
      BY <1>1
    <3>3. h[(n + 1) + 1] = h[n + 1] \o seqs[(n + 1) + 1]
      BY <2>7, <3>2
    <3>4. \A s, t \in Seq(T) : s \o t \in Seq(T)
      OBVIOUS
    <3> QED
      BY <1>1, <3>1, <3>2, <3>3, <3>4
  <2>10. Nat \subseteq Q
    <3> HIDE DEF Q
    <3> QED
      BY <2>8, <2>9, NatSetInduction
  <2>11. l - 1 \in Nat /\ (l - 1) + 1 = l
    BY <1>1, <1>3
  <2>12. h[(l - 1) + 1] \in Seq(T)
    <3>1. (l - 1) + 1 <= l
      BY <1>1
    <3>2. l - 1 \in Q
      BY <2>10, <2>11
    <3> QED
      BY <3>1, <3>2
  <2> QED
    BY <2>7, <2>11, <2>12
<1> QED
  BY <1>2, <1>3

\* Every instance of a view is timely.
LEMMA LifecycleTimely ==
    ASSUME NEW observations, Observed(observations), NEW requested
    PROVE  \A i \in DOMAIN LifecycleInstances(observations, requested) :
               Timely(LifecycleInstances(observations, requested)[i])
<1> DEFINE objects == Listed({<<o.object, o.object_type>> : o \in observations}, LexBefore)
           Of(k) == InstancesOf(PointsOf(observations, objects[k]), requested)
           T == {d \in UNION {Pairs(PointsOf(observations, objects[k]), requested) : k \in DOMAIN objects} :
                     Timely(d)}
           seqs == [k \in DOMAIN objects |-> Of(k)]
           all == LifecycleInstances(observations, requested)
<1>1. all = FlattenSeq(seqs)
  BY DEF LifecycleInstances
<1>2. \E n \in Nat : DOMAIN objects = 1 .. n
  <2> DEFINE S == {<<o.object, o.object_type>> : o \in observations}
             f == [o \in observations |-> <<o.object, o.object_type>>]
  <2>1. f \in [observations -> S] /\ {f[o] : o \in observations} = S
    OBVIOUS
  <2>2. IsFiniteSet(S)
    <3> HIDE DEF f, S
    <3>1. IsFiniteSet(observations)
      BY DEF Observed
    <3>2. IsFiniteSet({f[o] : o \in observations})
      BY <2>1, <3>1, ImageFinite
    <3> QED
      BY <2>1, <3>2
  <2>3. DOMAIN objects = 1 .. Cardinality(S)
    BY DEF Listed
  <2> HIDE DEF S, objects
  <2> QED
    BY <2>2, <2>3, FS_CardinalityType
<1> HIDE DEF objects
<1>3. ASSUME NEW k \in DOMAIN objects PROVE Of(k) \in Seq(T)
  <2> DEFINE points == PointsOf(observations, objects[k])
  <2>1. Timed(points)
    BY PointsTimed
  <2> HIDE DEF points
  <2>2. /\ InstancesOf(points, requested) \in Seq(Pairs(points, requested))
        /\ \A i \in DOMAIN InstancesOf(points, requested) : Timely(InstancesOf(points, requested)[i])
    BY <2>1, InstancesSound
  <2>3. Of(k) = InstancesOf(points, requested)
    BY DEF points
  <2>4. \A d \in Pairs(points, requested) : Timely(d) => d \in T
    BY DEF points
  <2> HIDE DEF Of, T
  <2>5. PICK n \in Nat : DOMAIN Of(k) = 1 .. n
    BY <2>2, <2>3
  <2>6. \A i \in 1 .. n : Of(k)[i] \in T
    BY <2>2, <2>3, <2>4, <2>5
  <2>7. Of(k) = [i \in 1 .. n |-> Of(k)[i]]
    BY <2>2, <2>3, <2>5
  <2> QED
    BY <2>6, <2>7
<1>4. seqs \in Seq(Seq(T))
  <2> HIDE DEF Of, T
  <2> QED
    BY <1>2, <1>3
<1>5. all \in Seq(T)
  <2> HIDE DEF seqs, T, all
  <2> QED
    BY <1>1, <1>4, FlattenType
<1>6. \A i \in DOMAIN all : all[i] \in T
  <2> HIDE DEF all, T
  <2> QED
    BY <1>5
<1> QED
  BY <1>6

-----------------------------------------------------------------------------
\* A call of analyze.

AfterPairing == {"waiting_causes", "resource_pressure", "patterns", "cascades", "changes",
                 "hypotheses", "finish"}

\* The input is one that the provider can deliver, and from the pairing on every phase
\* reads the instances of its observations.
BottleneckIInv ==
    /\ input \in Inputs
    /\ DOMAIN result = DOMAIN NoResult
    /\ phase \in AfterPairing =>
           result.instances = LifecycleInstances(input.observations, input.request.resource_attribute)

\* The parts of a result that the phases after the pairing fill.
LEMMA PartKeepsInstances ==
    ASSUME DOMAIN result = DOMAIN NoResult, NEW value,
           NEW field \in DOMAIN NoResult \ {"instances"},
           result' = [result EXCEPT ![field] = value]
    PROVE  DOMAIN result' = DOMAIN NoResult /\ result'.instances = result.instances
<1>1. "instances" \in DOMAIN NoResult
  BY DEF NoResult
<1> QED
  BY <1>1

\* What a phase with no part in the instances leaves of the invariant.
LEMMA PhaseKeeps ==
    ASSUME BottleneckIInv, input' = input,
           DOMAIN result' = DOMAIN NoResult, result'.instances = result.instances,
           phase' \in AfterPairing => phase \in AfterPairing
    PROVE  BottleneckIInv'
BY DEF BottleneckIInv

\* The invariant holds of every behaviour.
THEOREM BottleneckInvariant == BottleneckSpec => []BottleneckIInv
<1>1. BottleneckInit => BottleneckIInv
  BY DEF BottleneckInit, BottleneckFrom, BottleneckIInv, AfterPairing
<1>2. BottleneckIInv /\ [BottleneckNext]_bottleneckVars => BottleneckIInv'
  <2> SUFFICES ASSUME BottleneckIInv, [BottleneckNext]_bottleneckVars
               PROVE  BottleneckIInv'
    OBVIOUS
  <2>1. /\ DOMAIN result = DOMAIN NoResult
        /\ {"distributions", "signals", "synchronization", "instances", "warnings",
            "waiting_causes", "resource_pressure", "patterns", "cascades", "changes",
            "hypotheses", "diagnostics"} \subseteq DOMAIN NoResult
    BY DEF BottleneckIInv, NoResult
  <2>2. CASE result' = result /\ input' = input
             /\ (phase' \in AfterPairing => phase \in AfterPairing)
    BY <2>1, <2>2, PhaseKeeps
  <2>3. CASE StopContext
    BY <2>2, <2>3 DEF StopContext
  <2>4. CASE Validate
    BY <2>2, <2>4 DEF Validate, During, AfterPairing
  <2>5. CASE Observe
    BY <2>2, <2>5 DEF Observe, Advance, AfterPairing
  <2>6. CASE Signals
    <3>1. DOMAIN result' = DOMAIN NoResult /\ result'.instances = result.instances
      BY <2>1, <2>6 DEF Signals
    <3> QED
      BY <2>6, <3>1, PhaseKeeps DEF Signals, Advance, During, AfterPairing
  <2>7. CASE Synchronize
    <3>1. DOMAIN result' = DOMAIN NoResult /\ result'.instances = result.instances
      BY <2>1, <2>7 DEF Synchronize
    <3> QED
      BY <2>7, <3>1, PhaseKeeps DEF Synchronize, Advance, During, AfterPairing
  <2>8. CASE PairLifecycles
    <3>1. /\ DOMAIN result' = DOMAIN NoResult
          /\ result'.instances
                = LifecycleInstances(input.observations, input.request.resource_attribute)
      BY <2>1, <2>8 DEF PairLifecycles
    <3>2. input' = input
      BY <2>8 DEF PairLifecycles
    <3> QED
      BY <3>1, <3>2 DEF BottleneckIInv
  <2>9. CASE AttributeWaits
    <3>1. DOMAIN result' = DOMAIN NoResult /\ result'.instances = result.instances
      BY <2>1, <2>9, PartKeepsInstances DEF AttributeWaits
    <3> QED
      BY <2>9, <3>1, PhaseKeeps DEF AttributeWaits, During, AfterPairing
  <2>10. CASE MeasurePressure
    <3>1. DOMAIN result' = DOMAIN NoResult /\ result'.instances = result.instances
      BY <2>1, <2>10, PartKeepsInstances DEF MeasurePressure
    <3> QED
      BY <2>10, <3>1, PhaseKeeps DEF MeasurePressure, During, AfterPairing
  <2>11. CASE FindPatterns
    <3>1. DOMAIN result' = DOMAIN NoResult /\ result'.instances = result.instances
      BY <2>1, <2>11, PartKeepsInstances DEF FindPatterns
    <3> QED
      BY <2>11, <3>1, PhaseKeeps DEF FindPatterns, During, AfterPairing
  <2>12. CASE FindCascades
    <3>1. DOMAIN result' = DOMAIN NoResult /\ result'.instances = result.instances
      BY <2>1, <2>12, PartKeepsInstances DEF FindCascades
    <3> QED
      BY <2>12, <3>1, PhaseKeeps DEF FindCascades, During, AfterPairing
  <2>13. CASE CompareBaseline
    <3>1. \/ result' = result
          \/ \E changes : result' = [result EXCEPT !.changes = changes]
      BY <2>13 DEF CompareBaseline
    <3>2. DOMAIN result' = DOMAIN NoResult /\ result'.instances = result.instances
      BY <2>1, <3>1, PartKeepsInstances
    <3> QED
      BY <2>13, <3>2, PhaseKeeps DEF CompareBaseline, During, AfterPairing
  <2>14. CASE TestHypotheses
    <3>1. \E tests : result' = [result EXCEPT !.hypotheses = tests]
      BY <2>14 DEF TestHypotheses
    <3>2. DOMAIN result' = DOMAIN NoResult /\ result'.instances = result.instances
      BY <2>1, <3>1, PartKeepsInstances
    <3> QED
      BY <2>14, <3>2, PhaseKeeps DEF TestHypotheses, During, AfterPairing
  <2>15. CASE FinishAnalysis
    <3>1. DOMAIN result' = DOMAIN NoResult /\ result'.instances = result.instances
      BY <2>1, <2>15, PartKeepsInstances DEF FinishAnalysis
    <3> QED
      BY <2>15, <3>1, PhaseKeeps DEF FinishAnalysis
  <2>16. CASE UNCHANGED bottleneckVars
    BY <2>2, <2>16 DEF bottleneckVars
  <2> QED
    BY <2>3, <2>4, <2>5, <2>6, <2>7, <2>8, <2>9, <2>10, <2>11, <2>12, <2>13, <2>14, <2>15, <2>16
    DEF BottleneckNext
<1> QED
  BY <1>1, <1>2, PTL DEF BottleneckSpec

\* Of one activity of an object, who starts first completes first; every completion that
\* finds a start ends one of its own, and what the later phases read of an instance comes
\* in the order ready, start, complete (lifecycle_instances).
THEOREM InstancesPaired == BottleneckSpec => []PairsInOrder
<1>1. BottleneckIInv => PairsInOrder
  <2> SUFFICES ASSUME BottleneckIInv, phase = "waiting_causes"
               PROVE  /\ \A o \in input.observations :
                             LET points == PointsOf(input.observations, <<o.object, o.object_type>>)
                             IN PairedInOrder(points,
                                    InstancesOf(points, input.request.resource_attribute))
                      /\ \A i \in DOMAIN result.instances : Timely(Inst(i))
    BY DEF PairsInOrder
  <2>1. Observed(input.observations)
    BY InputsAssumption DEF BottleneckIInv
  <2>2. result.instances
          = LifecycleInstances(input.observations, input.request.resource_attribute)
    BY DEF BottleneckIInv, AfterPairing
  <2>3. \A object, requested :
            PairedInOrder(PointsOf(input.observations, object),
                          InstancesOf(PointsOf(input.observations, object), requested))
    BY <2>1, PointsTimed, InstancesSound
  <2>4. \A i \in DOMAIN result.instances : Timely(Inst(i))
    BY <2>1, <2>2, LifecycleTimely DEF Inst
  <2> QED
    BY <2>3, <2>4
<1> QED
  BY <1>1, BottleneckInvariant, PTL
=============================================================================
