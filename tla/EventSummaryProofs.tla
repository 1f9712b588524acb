------------------------- MODULE EventSummaryProofs -------------------------
(***************************************************************************)
(* Proofs about EventSummary for every number of windows, all contents of  *)
(* them and all sizes of the integers, whatever order and cut the server   *)
(* sends them in. First what the counters do when cases are added, then    *)
(* that the builders are the summary of the events taken so far.           *)
(***************************************************************************)
EXTENDS EventSummary, SetInduction

-----------------------------------------------------------------------------
(* Counters.                                                               *)

Where(f, x) == {d \in DOMAIN f : f[d] = x}

LEMMA TallyParts ==
    ASSUME NEW f, IsFiniteSet(DOMAIN f)
    PROVE  /\ Tally(f) = [x \in Range(f) |-> Cardinality(Where(f, x))]
           /\ \A x : x \in Range(f) <=> Where(f, x) # {}
           /\ \A x : /\ IsFiniteSet(Where(f, x)) /\ Cardinality(Where(f, x)) \in Nat
                     /\ Cardinality(Where(f, x)) <= Cardinality(DOMAIN f)
           /\ \A x : x \notin Range(f) => Cardinality(Where(f, x)) = 0
<1>1. Tally(f) = [x \in Range(f) |-> Cardinality(Where(f, x))]
  BY DEF Tally, Where
<1>2. \A x : x \in Range(f) <=> Where(f, x) # {}
  BY DEF Where, Range
<1>3. \A x : Where(f, x) \in SUBSET DOMAIN f
  BY DEF Where
<1>4. \A x : /\ IsFiniteSet(Where(f, x)) /\ Cardinality(Where(f, x)) \in Nat
             /\ Cardinality(Where(f, x)) <= Cardinality(DOMAIN f)
  BY <1>3, FS_Subset, FS_CardinalityType
<1>5. \A x : x \notin Range(f) => Cardinality(Where(f, x)) = 0
  BY <1>2, FS_EmptySet
<1> QED
  BY <1>1, <1>2, <1>4, <1>5

\* The counter of the one and the other is the sum of the counters.
LEMMA TallyUnion ==
    ASSUME NEW f, IsFiniteSet(DOMAIN f), NEW g, IsFiniteSet(DOMAIN g),
           DOMAIN f \cap DOMAIN g = {}, NEW h, DOMAIN h = DOMAIN f \cup DOMAIN g,
           \A d \in DOMAIN f : h[d] = f[d], \A e \in DOMAIN g : h[e] = g[e]
    PROVE  Tally(h) = Tally(f) (+) Tally(g)
<1>1. IsFiniteSet(DOMAIN h)
  BY FS_Union
<1>2. /\ Range(h) = Range(f) \cup Range(g)
      /\ \A x : Where(h, x) = Where(f, x) \cup Where(g, x)
      /\ \A x : Where(f, x) \cap Where(g, x) = {}
  BY DEF Range, Where
<1>3. \A x : Cardinality(Where(h, x)) = Cardinality(Where(f, x)) + Cardinality(Where(g, x))
  <2> TAKE x
  <2>1. /\ IsFiniteSet(Where(f, x)) /\ IsFiniteSet(Where(g, x))
        /\ Cardinality(Where(f, x)) \in Nat /\ Cardinality(Where(g, x)) \in Nat
    BY TallyParts
  <2>2. Cardinality(Where(f, x) \cup Where(g, x)) =
            Cardinality(Where(f, x)) + Cardinality(Where(g, x))
                - Cardinality(Where(f, x) \cap Where(g, x))
    BY <2>1, FS_Union
  <2>3. Cardinality(Where(f, x) \cap Where(g, x)) = 0
    BY <1>2, FS_EmptySet
  <2>4. Where(h, x) = Where(f, x) \cup Where(g, x)
    BY <1>2
  <2> QED
    BY <2>1, <2>2, <2>3, <2>4
<1>4. /\ Tally(f) = [x \in Range(f) |-> Cardinality(Where(f, x))]
      /\ Tally(g) = [x \in Range(g) |-> Cardinality(Where(g, x))]
      /\ \A x : x \notin Range(f) => Cardinality(Where(f, x)) = 0
      /\ \A x : x \notin Range(g) => Cardinality(Where(g, x)) = 0
  BY TallyParts
<1>5. Tally(h) = [x \in Range(h) |-> Cardinality(Where(h, x))]
  BY <1>1, TallyParts
<1>6. Tally(h) = [x \in DOMAIN Tally(f) \cup DOMAIN Tally(g) |->
                      (IF x \in DOMAIN Tally(f) THEN Tally(f)[x] ELSE 0)
                      + (IF x \in DOMAIN Tally(g) THEN Tally(g)[x] ELSE 0)]
  <2>1. \A x \in Range(h) :
            Cardinality(Where(h, x)) =
                (IF x \in Range(f) THEN Cardinality(Where(f, x)) ELSE 0)
                + (IF x \in Range(g) THEN Cardinality(Where(g, x)) ELSE 0)
    BY <1>3, <1>4
  <2>2. Tally(h) = [x \in Range(f) \cup Range(g) |->
                        (IF x \in Range(f) THEN Cardinality(Where(f, x)) ELSE 0)
                        + (IF x \in Range(g) THEN Cardinality(Where(g, x)) ELSE 0)]
    BY <1>2, <1>5, <2>1
  <2>3. /\ DOMAIN Tally(f) = Range(f) /\ DOMAIN Tally(g) = Range(g)
        /\ \A x \in Range(f) : Tally(f)[x] = Cardinality(Where(f, x))
        /\ \A x \in Range(g) : Tally(g)[x] = Cardinality(Where(g, x))
    BY <1>4
  <2> QED
    BY <2>2, <2>3
<1> QED
  BY <1>6 DEF (+)

\* What is counted once for each of n cases counts n times.
LEMMA TallyCopies ==
    ASSUME NEW C, IsFiniteSet(C), C # {}, NEW s, IsFiniteSet(DOMAIN s),
           NEW g, DOMAIN g = C \X DOMAIN s, \A c \in C, d \in DOMAIN s : g[<<c, d>>] = s[d]
    PROVE  Tally(g) = Copies(Tally(s), Cardinality(C))
<1>1. IsFiniteSet(DOMAIN g)
  BY FS_Product
<1>a. \A q \in DOMAIN g : g[q] = s[q[2]] /\ q[2] \in DOMAIN s
  OBVIOUS
<1>b. \A d \in DOMAIN s : \E q \in DOMAIN g : q[2] = d
  <2> TAKE d \in DOMAIN s
  <2>1. PICK c \in C : TRUE
    OBVIOUS
  <2>2. <<c, d>> \in DOMAIN g /\ <<c, d>>[2] = d
    OBVIOUS
  <2> QED
    BY <2>2
<1>2. Range(g) = Range(s) /\ \A x : Where(g, x) = C \X Where(s, x)
  <2>1. Range(g) = Range(s)
    BY <1>a, <1>b DEF Range
  <2>2. ASSUME NEW x PROVE Where(g, x) = C \X Where(s, x)
    BY <1>a DEF Where
  <2> QED
    BY <2>1, <2>2
<1>3. \A x : Cardinality(C \X Where(s, x)) = Cardinality(C) * Cardinality(Where(s, x))
  BY TallyParts, FS_Product
<1>4. /\ Tally(s) = [x \in Range(s) |-> Cardinality(Where(s, x))]
      /\ Tally(g) = [x \in Range(g) |-> Cardinality(Where(g, x))]
  BY <1>1, TallyParts
<1> QED
  BY <1>2, <1>3, <1>4 DEF Copies

\* Distinct things are counted once each, one thing as often as it occurs.
LEMMA TallyDistinct ==
    ASSUME NEW S
    PROVE  Tally([x \in S |-> x]) = SetToBag(S)
<1> DEFINE f == [x \in S |-> x]
<1>1. Range(f) = S
  BY DEF Range
<1>2. \A x \in S : {i \in DOMAIN f : f[i] = x} = {x}
  OBVIOUS
<1>3. \A x \in S : Cardinality({i \in DOMAIN f : f[i] = x}) = 1
  BY <1>2, FS_Singleton
<1> HIDE DEF f
<1>4. Tally(f) = [x \in S |-> 1]
  BY <1>1, <1>3 DEF Tally
<1> QED
  BY <1>4 DEF f, SetToBag

LEMMA TallyConstant ==
    ASSUME NEW C, IsFiniteSet(C), C # {}, NEW p, NEW f, DOMAIN f = C, \A c \in C : f[c] = p
    PROVE  Tally(f) = Copies(SetToBag({p}), Cardinality(C))
<1>1. Range(f) = {p}
  BY DEF Range
<1>2. {c \in C : f[c] = p} = C
  OBVIOUS
<1>3. Tally(f) = [x \in {p} |-> Cardinality(C)]
  BY <1>1, <1>2 DEF Tally
<1>4. Cardinality(C) * 1 = Cardinality(C)
  BY FS_CardinalityType
<1> QED
  BY <1>3, <1>4 DEF Copies, SetToBag

-----------------------------------------------------------------------------
(* Adding cases of one path to a summary.                                  *)

\* Finitely many cases, each with a trace.
CaseLog(K) == /\ K = [c \in DOMAIN K |-> K[c]] /\ IsFiniteSet(DOMAIN K)
              /\ \A c \in DOMAIN K : IsTrace(K[c])

\* L has the cases of K and those of C besides, which follow the path.
Grown(L, K, C, path) ==
    /\ CaseLog(L) /\ CaseLog(K)
    /\ DOMAIN L = DOMAIN K \cup C /\ DOMAIN K \cap C = {} /\ C # {}
    /\ \A c \in DOMAIN K : L[c] = K[c]
    /\ \A c \in C : Path(L[c]) = path

LEMMA TraceParts ==
    ASSUME NEW t, IsTrace(t)
    PROVE  /\ Len(t) \in Nat /\ Len(t) > 0 /\ DOMAIN t = 1 .. Len(t)
           /\ \A i \in 1 .. Len(t) : t[i].activity \in STRING /\ t[i].at \in Nat
           /\ \A i \in 1 .. Len(t) - 1 : t[i + 1].at - t[i].at \in Nat
           /\ Path(t) \in Seq(STRING) /\ Len(Path(t)) = Len(t) /\ Path(t) # <<>>
           /\ \A i \in 1 .. Len(t) : Path(t)[i] = t[i].activity
           /\ Head(t) = t[1] /\ Last(t) = t[Len(t)]
           /\ Head(Path(t)) = t[1].activity /\ Last(Path(t)) = t[Len(t)].activity
<1>1. t \in Seq(TracedEvents) /\ t # <<>> /\ \A i \in 1 .. Len(t) - 1 : t[i].at <= t[i + 1].at
  BY DEF IsTrace
<1>2. Len(t) \in Nat /\ Len(t) > 0 /\ DOMAIN t = 1 .. Len(t)
  BY <1>1
<1>3. \A e \in TracedEvents : e.activity \in STRING /\ e.at \in Nat
  BY DEF TracedEvents
<1>4. \A i \in 1 .. Len(t) : t[i].activity \in STRING /\ t[i].at \in Nat
  BY <1>1, <1>2, <1>3
<1>5. \A i \in 1 .. Len(t) - 1 : t[i + 1].at - t[i].at \in Nat
  <2> TAKE i \in 1 .. Len(t) - 1
  <2>1. i \in 1 .. Len(t) /\ i + 1 \in 1 .. Len(t)
    BY <1>2
  <2> QED
    BY <1>1, <1>4, <2>1
<1>6. Path(t) = [i \in 1 .. Len(t) |-> t[i].activity]
  BY <1>2 DEF Path
<1>7. /\ Path(t) \in Seq(STRING) /\ Len(Path(t)) = Len(t) /\ Path(t) # <<>>
      /\ \A i \in 1 .. Len(t) : Path(t)[i] = t[i].activity
  BY <1>2, <1>4, <1>6
<1>8. Head(t) = t[1] /\ Last(t) = t[Len(t)] /\ 1 \in 1 .. Len(t) /\ Len(t) \in 1 .. Len(t)
  BY <1>1, <1>2 DEF Last
<1>9. Head(Path(t)) = Path(t)[1] /\ Last(Path(t)) = Path(t)[Len(t)]
  BY <1>7 DEF Last
<1> QED
  BY <1>2, <1>4, <1>5, <1>7, <1>8, <1>9

LEMMA EventsFinite ==
    ASSUME NEW K, CaseLog(K)
    PROVE  /\ IsFiniteSet(EventsOf(K)) /\ IsFiniteSet(EdgesOf(K))
           /\ EdgesOf(K) \in SUBSET EventsOf(K)
           /\ \A c, i : <<c, i>> \in EventsOf(K) <=> c \in DOMAIN K /\ i \in 1 .. Len(K[c])
           /\ \A c, i : <<c, i>> \in EdgesOf(K) <=> c \in DOMAIN K /\ i \in 1 .. Len(K[c]) - 1
           /\ \A e \in EventsOf(K) : e = <<e[1], e[2]>>
<1>1. \A c \in DOMAIN K : DOMAIN K[c] = 1 .. Len(K[c]) /\ Len(K[c]) \in Nat
  BY TraceParts DEF CaseLog
<1> DEFINE f == [c \in DOMAIN K |-> {c} \X (1 .. Len(K[c]))]
<1>2. EventsOf(K) = UNION {f[c] : c \in DOMAIN K}
  BY <1>1 DEF EventsOf
<1>3. \A c \in DOMAIN K : IsFiniteSet(f[c])
  <2> TAKE c \in DOMAIN K
  <2>1. IsFiniteSet({c})
    BY FS_Singleton
  <2>2. IsFiniteSet(1 .. Len(K[c]))
    <3>1. 1 \in Int /\ Len(K[c]) \in Int
      BY <1>1
    <3> QED
      BY <3>1, FS_Interval
  <2> QED
    BY <2>1, <2>2, FS_Product
<1>4. IsFiniteSet({f[c] : c \in DOMAIN K})
  <2>1. PICK D : D = DOMAIN K
    OBVIOUS
  <2>2. IsFiniteSet(D)
    BY <2>1 DEF CaseLog
  <2> DEFINE T == {f[c] : c \in D}
  <2>3. f \in [D -> T]
    BY <2>1
  <2>4. IsFiniteSet(T)
    <3> HIDE DEF f, T
    <3>1. T = {f[c] : c \in D}
      BY DEF T
    <3>2. IsFiniteSet({f[c] : c \in D})
      BY <2>2, <2>3, ImageFinite
    <3> QED
      BY <3>1, <3>2
  <2> QED
    BY <2>1, <2>4
<1>5. IsFiniteSet(EventsOf(K))
  <2>1. \A T \in {f[c] : c \in DOMAIN K} : IsFiniteSet(T)
    BY <1>3
  <2> HIDE DEF f
  <2> QED
    BY <1>2, <1>4, <2>1, FS_UNION
<1>6. \A c, i : <<c, i>> \in EventsOf(K) <=> c \in DOMAIN K /\ i \in 1 .. Len(K[c])
  BY <1>1 DEF EventsOf
<1>7. \A e \in EventsOf(K) : e = <<e[1], e[2]>>
  BY DEF EventsOf
<1>8. EdgesOf(K) \in SUBSET EventsOf(K)
  BY DEF EdgesOf
<1>9. \A c, i : <<c, i>> \in EdgesOf(K) <=> c \in DOMAIN K /\ i \in 1 .. Len(K[c]) - 1
  <2> TAKE c, i
  <2>1. <<c, i>> \in EdgesOf(K) <=> <<c, i>> \in EventsOf(K) /\ i < Len(K[c])
    BY DEF EdgesOf
  <2>2. <<c, i>> \in EventsOf(K) <=> c \in DOMAIN K /\ i \in 1 .. Len(K[c])
    BY <1>6
  <2>3. c \in DOMAIN K => (i \in 1 .. Len(K[c]) /\ i < Len(K[c]) <=> i \in 1 .. Len(K[c]) - 1)
    BY <1>1
  <2> QED
    BY <2>1, <2>2, <2>3
<1> QED
  BY <1>5, <1>6, <1>7, <1>8, <1>9, FS_Subset

LEMMA GrownShape ==
    ASSUME NEW L, NEW K, NEW C, NEW path, Grown(L, K, C, path)
    PROVE  /\ IsFiniteSet(C) /\ Cardinality(C) \in Nat
           /\ path \in Seq(STRING) /\ path # <<>> /\ Len(path) \in Nat /\ DOMAIN path = 1 .. Len(path)
           /\ \A c \in C : /\ Len(L[c]) = Len(path)
                           /\ \A i \in 1 .. Len(path) : L[c][i].activity = path[i]
                           /\ Head(L[c]).activity = Head(path)
                           /\ Last(L[c]).activity = Last(path)
           /\ EventsOf(L) = EventsOf(K) \cup (C \X (1 .. Len(path)))
           /\ EventsOf(K) \cap (C \X (1 .. Len(path))) = {}
           /\ EdgesOf(L) = EdgesOf(K) \cup (C \X (1 .. Len(path) - 1))
           /\ EdgesOf(K) \cap (C \X (1 .. Len(path) - 1)) = {}
<1>1. IsFiniteSet(C) /\ Cardinality(C) \in Nat
  <2>1. C \in SUBSET DOMAIN L /\ IsFiniteSet(DOMAIN L)
    BY DEF Grown, CaseLog
  <2> QED
    BY <2>1, FS_Subset, FS_CardinalityType
<1>2. \A c \in C : /\ path = Path(L[c]) /\ IsTrace(L[c])
  BY DEF Grown, CaseLog
<1>3. PICK some \in C : TRUE
  BY DEF Grown
<1>4. /\ path \in Seq(STRING) /\ path # <<>> /\ Len(path) \in Nat /\ DOMAIN path = 1 .. Len(path)
  <2>1. path \in Seq(STRING) /\ path # <<>>
    BY <1>2, <1>3, TraceParts
  <2> QED
    BY <2>1
<1>5. \A c \in C : /\ Len(L[c]) = Len(path)
                   /\ \A i \in 1 .. Len(path) : L[c][i].activity = path[i]
                   /\ Head(L[c]).activity = Head(path)
                   /\ Last(L[c]).activity = Last(path)
  BY <1>2, TraceParts
<1>6. /\ CaseLog(L) /\ CaseLog(K) /\ DOMAIN L = DOMAIN K \cup C /\ DOMAIN K \cap C = {}
      /\ \A c \in DOMAIN K : L[c] = K[c]
  BY DEF Grown
<1>a. /\ \A c, i : <<c, i>> \in EventsOf(L) <=> c \in DOMAIN L /\ i \in 1 .. Len(L[c])
      /\ \A c, i : <<c, i>> \in EventsOf(K) <=> c \in DOMAIN K /\ i \in 1 .. Len(K[c])
      /\ \A e \in EventsOf(L) : e = <<e[1], e[2]>>
      /\ \A e \in EventsOf(K) : e = <<e[1], e[2]>>
      /\ \A c, i : <<c, i>> \in EdgesOf(L) <=> c \in DOMAIN L /\ i \in 1 .. Len(L[c]) - 1
      /\ \A c, i : <<c, i>> \in EdgesOf(K) <=> c \in DOMAIN K /\ i \in 1 .. Len(K[c]) - 1
      /\ EdgesOf(L) \in SUBSET EventsOf(L) /\ EdgesOf(K) \in SUBSET EventsOf(K)
  BY <1>6, EventsFinite
<1>7. EventsOf(L) = EventsOf(K) \cup (C \X (1 .. Len(path)))
  <2>1. ASSUME NEW e \in EventsOf(L) PROVE e \in EventsOf(K) \cup (C \X (1 .. Len(path)))
    <3>1. e = <<e[1], e[2]>> /\ e[1] \in DOMAIN L /\ e[2] \in 1 .. Len(L[e[1]])
      BY <1>a
    <3>2. CASE e[1] \in DOMAIN K
      BY <1>6, <1>a, <3>1, <3>2
    <3>3. CASE e[1] \in C
      BY <1>5, <3>1, <3>3
    <3> QED
      BY <1>6, <3>1, <3>2, <3>3
  <2>2. ASSUME NEW e \in EventsOf(K) PROVE e \in EventsOf(L)
    BY <1>6, <1>a
  <2>3. ASSUME NEW c \in C, NEW i \in 1 .. Len(path) PROVE <<c, i>> \in EventsOf(L)
    BY <1>5, <1>6, <1>a
  <2> QED
    BY <2>1, <2>2, <2>3
<1>8. EventsOf(K) \cap (C \X (1 .. Len(path))) = {}
  BY <1>6, <1>a
<1>9. EdgesOf(L) = EdgesOf(K) \cup (C \X (1 .. Len(path) - 1))
  <2>1. ASSUME NEW e \in EdgesOf(L) PROVE e \in EdgesOf(K) \cup (C \X (1 .. Len(path) - 1))
    <3>1. e = <<e[1], e[2]>> /\ e[1] \in DOMAIN L /\ e[2] \in 1 .. Len(L[e[1]]) - 1
      BY <1>a
    <3>2. CASE e[1] \in DOMAIN K
      BY <1>6, <1>a, <3>1, <3>2
    <3>3. CASE e[1] \in C
      BY <1>5, <3>1, <3>3
    <3> QED
      BY <1>6, <3>1, <3>2, <3>3
  <2>2. ASSUME NEW e \in EdgesOf(K) PROVE e \in EdgesOf(L)
    BY <1>6, <1>a
  <2>3. ASSUME NEW c \in C, NEW i \in 1 .. Len(path) - 1 PROVE <<c, i>> \in EdgesOf(L)
    BY <1>5, <1>6, <1>a
  <2> QED
    BY <2>1, <2>2, <2>3
<1>10. EdgesOf(K) \cap (C \X (1 .. Len(path) - 1)) = {}
  BY <1>6, <1>a
<1> QED
  BY <1>1, <1>4, <1>5, <1>7, <1>8, <1>9, <1>10

\* What the counters count.
Followed(K) == [c \in DOMAIN K |-> Path(K[c])]
Starts(K) == [c \in DOMAIN K |-> Head(K[c]).activity]
Ends(K) == [c \in DOMAIN K |-> Last(K[c]).activity]

\* The numbers of cases and events.
LEMMA GrownCounts ==
    ASSUME NEW L, NEW K, NEW C, NEW path, Grown(L, K, C, path), NEW n, n = Cardinality(C)
    PROVE  /\ Cardinality(DOMAIN K) \in Nat
           /\ Cardinality(EventsOf(K)) \in Nat
           /\ Cardinality(DOMAIN L) = Cardinality(DOMAIN K) + n
           /\ Cardinality(EventsOf(L)) = Cardinality(EventsOf(K)) + n * Len(path)
<1>1. /\ IsFiniteSet(C) /\ n \in Nat
      /\ Len(path) \in Nat
      /\ \A c \in C : Head(L[c]).activity = Head(path) /\ Last(L[c]).activity = Last(path)
      /\ EventsOf(L) = EventsOf(K) \cup (C \X (1 .. Len(path)))
      /\ EventsOf(K) \cap (C \X (1 .. Len(path))) = {}
  BY GrownShape
<1>2. /\ DOMAIN L = DOMAIN K \cup C /\ DOMAIN K \cap C = {}
      /\ \A c \in DOMAIN K : L[c] = K[c]
      /\ \A c \in C : Path(L[c]) = path
      /\ IsFiniteSet(DOMAIN K) /\ CaseLog(K) /\ C # {}
  BY DEF Grown, CaseLog
<1>3. Cardinality(DOMAIN K) \in Nat /\ Cardinality(DOMAIN L) = Cardinality(DOMAIN K) + n
  <2>1. /\ Cardinality(DOMAIN K) \in Nat
        /\ Cardinality(DOMAIN L) = Cardinality(DOMAIN K) + n - Cardinality(DOMAIN K \cap C)
    BY <1>1, <1>2, FS_CardinalityType, FS_Union
  <2>2. Cardinality(DOMAIN K \cap C) = 0
    BY <1>2, FS_EmptySet
  <2> QED
    BY <1>1, <2>1, <2>2
<1>4. /\ Cardinality(EventsOf(K)) \in Nat
      /\ Cardinality(EventsOf(L)) = Cardinality(EventsOf(K)) + n * Len(path)
  <2>1. IsFiniteSet(1 .. Len(path)) /\ Cardinality(1 .. Len(path)) = Len(path)
    BY <1>1, FS_Interval
  <2>2. /\ IsFiniteSet(C \X (1 .. Len(path)))
        /\ Cardinality(C \X (1 .. Len(path))) = n * Len(path)
    BY <1>1, <2>1, FS_Product
  <2>3. IsFiniteSet(EventsOf(K)) /\ Cardinality(EventsOf(K)) \in Nat
    BY <1>2, EventsFinite, FS_CardinalityType
  <2>4. Cardinality(EventsOf(L)) =
            Cardinality(EventsOf(K)) + Cardinality(C \X (1 .. Len(path)))
                - Cardinality(EventsOf(K) \cap (C \X (1 .. Len(path))))
    BY <1>1, <2>2, <2>3, FS_Union
  <2>5. Cardinality(EventsOf(K) \cap (C \X (1 .. Len(path)))) = 0
    BY <1>1, FS_EmptySet
  <2> QED
    BY <1>1, <2>2, <2>3, <2>4, <2>5
<1> QED
  BY <1>3, <1>4

\* The counters of whole cases.
LEMMA GrownCases ==
    ASSUME NEW L, NEW K, NEW C, NEW path, Grown(L, K, C, path), NEW n, n = Cardinality(C)
    PROVE  /\ Tally(Followed(L)) = Tally(Followed(K)) (+) Copies(SetToBag({path}), n)
           /\ Tally(Starts(L)) = Tally(Starts(K)) (+) Copies(SetToBag({Head(path)}), n)
           /\ Tally(Ends(L)) = Tally(Ends(K)) (+) Copies(SetToBag({Last(path)}), n)
<1>1. /\ IsFiniteSet(C) /\ n \in Nat
      /\ Len(path) \in Nat
      /\ \A c \in C : Head(L[c]).activity = Head(path) /\ Last(L[c]).activity = Last(path)
      /\ EventsOf(L) = EventsOf(K) \cup (C \X (1 .. Len(path)))
      /\ EventsOf(K) \cap (C \X (1 .. Len(path))) = {}
  BY GrownShape
<1>2. /\ DOMAIN L = DOMAIN K \cup C /\ DOMAIN K \cap C = {}
      /\ \A c \in DOMAIN K : L[c] = K[c]
      /\ \A c \in C : Path(L[c]) = path
      /\ IsFiniteSet(DOMAIN K) /\ CaseLog(K) /\ C # {}
  BY DEF Grown, CaseLog
<1>3. ASSUME NEW h, DOMAIN h = DOMAIN L, NEW f, DOMAIN f = DOMAIN K, NEW v,
             \A c \in DOMAIN K : h[c] = f[c], \A c \in C : h[c] = v
      PROVE  Tally(h) = Tally(f) (+) Copies(SetToBag({v}), n)
  <2> DEFINE g == [c \in C |-> v]
  <2>1. DOMAIN g = C /\ \A c \in C : g[c] = v
    OBVIOUS
  <2> HIDE DEF g
  <2>2. Tally(g) = Copies(SetToBag({v}), n)
    BY <1>1, <1>2, <2>1, TallyConstant
  <2>3. /\ IsFiniteSet(DOMAIN f) /\ IsFiniteSet(DOMAIN g) /\ DOMAIN f \cap DOMAIN g = {}
        /\ DOMAIN h = DOMAIN f \cup DOMAIN g
        /\ \A c \in DOMAIN f : h[c] = f[c]
        /\ \A c \in DOMAIN g : h[c] = g[c]
    BY <1>1, <1>2, <1>3, <2>1
  <2>4. Tally(h) = Tally(f) (+) Tally(g)
    BY <2>3, TallyUnion
  <2> QED
    BY <2>2, <2>4
<1>4. Tally(Followed(L)) = Tally(Followed(K)) (+) Copies(SetToBag({path}), n)
  <2>1. /\ DOMAIN Followed(L) = DOMAIN L /\ DOMAIN Followed(K) = DOMAIN K
        /\ \A c \in DOMAIN K : Followed(L)[c] = Followed(K)[c]
        /\ \A c \in C : Followed(L)[c] = path
    BY <1>2 DEF Followed
  <2> QED
    BY <1>3, <2>1
<1>5. Tally(Starts(L)) = Tally(Starts(K)) (+) Copies(SetToBag({Head(path)}), n)
  <2>1. /\ DOMAIN Starts(L) = DOMAIN L /\ DOMAIN Starts(K) = DOMAIN K
        /\ \A c \in DOMAIN K : Starts(L)[c] = Starts(K)[c]
        /\ \A c \in C : Starts(L)[c] = Head(path)
    BY <1>1, <1>2 DEF Starts
  <2> QED
    BY <1>3, <2>1
<1>6. Tally(Ends(L)) = Tally(Ends(K)) (+) Copies(SetToBag({Last(path)}), n)
  <2>1. /\ DOMAIN Ends(L) = DOMAIN L /\ DOMAIN Ends(K) = DOMAIN K
        /\ \A c \in DOMAIN K : Ends(L)[c] = Ends(K)[c]
        /\ \A c \in C : Ends(L)[c] = Last(path)
    BY <1>1, <1>2 DEF Ends
  <2> QED
    BY <1>3, <2>1
<1> QED
  BY <1>4, <1>5, <1>6

\* The counters of events and of edges.
LEMMA GrownEvents ==
    ASSUME NEW L, NEW K, NEW C, NEW path, Grown(L, K, C, path), NEW n, n = Cardinality(C)
    PROVE  /\ Tally([e \in EventsOf(L) |-> ActivityAt(L, e)])
                  = Tally([e \in EventsOf(K) |-> ActivityAt(K, e)]) (+) Copies(Tally(path), n)
           /\ Tally([e \in EdgesOf(L) |-> EdgeAt(L, e)])
                  = Tally([e \in EdgesOf(K) |-> EdgeAt(K, e)]) (+) Copies(Tally(Pairs(path)), n)
<1>1. /\ IsFiniteSet(C) /\ n \in Nat
      /\ Len(path) \in Nat /\ DOMAIN path = 1 .. Len(path)
      /\ \A c \in C : \A i \in 1 .. Len(path) : L[c][i].activity = path[i]
      /\ EventsOf(L) = EventsOf(K) \cup (C \X (1 .. Len(path)))
      /\ EventsOf(K) \cap (C \X (1 .. Len(path))) = {}
      /\ EdgesOf(L) = EdgesOf(K) \cup (C \X (1 .. Len(path) - 1))
      /\ EdgesOf(K) \cap (C \X (1 .. Len(path) - 1)) = {}
  BY GrownShape
<1>2. /\ \A c \in DOMAIN K : L[c] = K[c]
      /\ CaseLog(K) /\ C # {}
  BY DEF Grown
<1>3. /\ IsFiniteSet(EventsOf(K)) /\ IsFiniteSet(EdgesOf(K))
      /\ EdgesOf(K) \in SUBSET EventsOf(K)
      /\ \A e \in EventsOf(K) : e = <<e[1], e[2]>> /\ e[1] \in DOMAIN K
  BY <1>2, EventsFinite
<1>4. ASSUME NEW s, IsFiniteSet(DOMAIN s),
             NEW h, NEW f, IsFiniteSet(DOMAIN f), DOMAIN h = DOMAIN f \cup (C \X DOMAIN s),
             DOMAIN f \cap (C \X DOMAIN s) = {},
             \A e \in DOMAIN f : h[e] = f[e],
             \A c \in C, i \in DOMAIN s : h[<<c, i>>] = s[i]
      PROVE  Tally(h) = Tally(f) (+) Copies(Tally(s), n)
  <2> DEFINE g == [q \in C \X DOMAIN s |-> s[q[2]]]
  <2>1. /\ DOMAIN g = C \X DOMAIN s
        /\ \A c \in C, i \in DOMAIN s : g[<<c, i>>] = s[i]
        /\ \A q \in DOMAIN g : g[q] = h[q]
    BY <1>4
  <2> HIDE DEF g
  <2>2. IsFiniteSet(DOMAIN g)
    BY <1>1, <1>4, <2>1, FS_Product
  <2>3. Tally(g) = Copies(Tally(s), n)
    BY <1>1, <1>2, <1>4, <2>1, TallyCopies
  <2>4. Tally(h) = Tally(f) (+) Tally(g)
    BY <1>4, <2>1, <2>2, TallyUnion
  <2> QED
    BY <2>3, <2>4
<1>5. Tally([e \in EventsOf(L) |-> ActivityAt(L, e)])
          = Tally([e \in EventsOf(K) |-> ActivityAt(K, e)]) (+) Copies(Tally(path), n)
  <2> DEFINE h == [e \in EventsOf(L) |-> ActivityAt(L, e)]
             f == [e \in EventsOf(K) |-> ActivityAt(K, e)]
  <2>1. DOMAIN h = EventsOf(L) /\ DOMAIN f = EventsOf(K)
    OBVIOUS
  <2>2. ASSUME NEW e \in EventsOf(K) PROVE h[e] = f[e]
    BY <1>1, <1>2, <1>3 DEF ActivityAt
  <2>3. ASSUME NEW c \in C, NEW i \in DOMAIN path PROVE h[<<c, i>>] = path[i]
    <3>1. <<c, i>> \in EventsOf(L) /\ L[c][i].activity = path[i]
      BY <1>1
    <3> QED
      BY <3>1 DEF ActivityAt
  <2>4. IsFiniteSet(DOMAIN path)
    <3>1. 1 \in Int /\ Len(path) \in Int
      BY <1>1
    <3> QED
      BY <1>1, <3>1, FS_Interval
  <2> HIDE DEF h, f
  <2>5. /\ IsFiniteSet(DOMAIN f) /\ DOMAIN h = DOMAIN f \cup (C \X DOMAIN path)
        /\ DOMAIN f \cap (C \X DOMAIN path) = {}
        /\ \A e \in DOMAIN f : h[e] = f[e]
    BY <1>1, <1>3, <2>1, <2>2
  <2>6. Tally(h) = Tally(f) (+) Copies(Tally(path), n)
    BY <1>4, <2>3, <2>4, <2>5
  <2> QED
    BY <2>6 DEF h, f
<1>6. Tally([e \in EdgesOf(L) |-> EdgeAt(L, e)])
          = Tally([e \in EdgesOf(K) |-> EdgeAt(K, e)]) (+) Copies(Tally(Pairs(path)), n)
  <2> DEFINE h == [e \in EdgesOf(L) |-> EdgeAt(L, e)]
             f == [e \in EdgesOf(K) |-> EdgeAt(K, e)]
             s == Pairs(path)
  <2>1. DOMAIN h = EdgesOf(L) /\ DOMAIN f = EdgesOf(K) /\ DOMAIN s = 1 .. Len(path) - 1
    BY DEF Pairs
  <2>2. ASSUME NEW e \in EdgesOf(K) PROVE h[e] = f[e]
    BY <1>1, <1>2, <1>3 DEF EdgeAt, ActivityAt
  <2>3. ASSUME NEW c \in C, NEW i \in DOMAIN s PROVE h[<<c, i>>] = s[i]
    <3>1. /\ <<c, i>> \in EdgesOf(L) /\ i \in 1 .. Len(path) /\ i + 1 \in 1 .. Len(path)
      BY <1>1, <2>1
    <3>2. L[c][i].activity = path[i] /\ L[c][i + 1].activity = path[i + 1]
      BY <1>1, <3>1
    <3>3. h[<<c, i>>] = <<path[i], path[i + 1]>>
      BY <3>1, <3>2 DEF EdgeAt, ActivityAt
    <3>4. s[i] = <<path[i], path[i + 1]>>
      BY <2>1 DEF Pairs
    <3> QED
      BY <3>3, <3>4
  <2>4. IsFiniteSet(DOMAIN s)
    <3>1. 1 \in Int /\ Len(path) - 1 \in Int
      BY <1>1
    <3> QED
      BY <2>1, <3>1, FS_Interval
  <2> HIDE DEF h, f, s
  <2>5. /\ IsFiniteSet(DOMAIN f) /\ DOMAIN h = DOMAIN f \cup (C \X DOMAIN s)
        /\ DOMAIN f \cap (C \X DOMAIN s) = {}
        /\ \A e \in DOMAIN f : h[e] = f[e]
    BY <1>1, <1>3, <2>1, <2>2
  <2>6. Tally(h) = Tally(f) (+) Copies(Tally(s), n)
    BY <1>4, <2>3, <2>4, <2>5
  <2> QED
    BY <2>6 DEF h, f, s
<1> QED
  BY <1>5, <1>6

\* The activities of each case, each once.
Presence(K) == {<<e[1], ActivityAt(K, e)>> : e \in EventsOf(K)}

LEMMA PresenceFinite ==
    ASSUME NEW K, CaseLog(K)
    PROVE  IsFiniteSet(Presence(K)) /\ Cardinality(Presence(K)) <= Cardinality(EventsOf(K))
<1> DEFINE f == [e \in EventsOf(K) |-> <<e[1], ActivityAt(K, e)>>]
<1>1. IsFiniteSet(EventsOf(K))
  BY EventsFinite
<1>2. f \in Surjection(EventsOf(K), Presence(K))
  BY DEF Surjection, Presence
<1> HIDE DEF f
<1> QED
  BY <1>1, <1>2, FS_Surjection

LEMMA GrownPresence ==
    ASSUME NEW L, NEW K, NEW C, NEW path, Grown(L, K, C, path), NEW n, n = Cardinality(C)
    PROVE  Tally([q \in Presence(L) |-> q[2]])
               = Tally([q \in Presence(K) |-> q[2]]) (+) Copies(SetToBag(ToSet(path)), n)
<1>1. /\ IsFiniteSet(C) /\ n \in Nat
      /\ Len(path) \in Nat /\ DOMAIN path = 1 .. Len(path)
      /\ \A c \in C : \A i \in 1 .. Len(path) : L[c][i].activity = path[i]
      /\ EventsOf(L) = EventsOf(K) \cup (C \X (1 .. Len(path)))
  BY GrownShape
<1>2. /\ \A c \in DOMAIN K : L[c] = K[c]
      /\ DOMAIN K \cap C = {} /\ CaseLog(K) /\ CaseLog(L) /\ C # {}
  BY DEF Grown
<1>3. \A e \in EventsOf(K) : e = <<e[1], e[2]>> /\ e[1] \in DOMAIN K
  BY <1>2, EventsFinite
<1> DEFINE A == ToSet(path)
           s == [a \in A |-> a]
<1>4. \A a : a \in A <=> \E i \in 1 .. Len(path) : path[i] = a
  BY <1>1 DEF ToSet
<1>5. IsFiniteSet(A)
  <2>1. A \in SUBSET A /\ path \in [1 .. Len(path) -> A]
    <3>1. path \in Seq(STRING)
      BY GrownShape
    <3> QED
      BY <1>4, <3>1
  <2>2. IsFiniteSet(1 .. Len(path))
    <3>1. 1 \in Int /\ Len(path) \in Int
      BY <1>1
    <3> QED
      BY <3>1, FS_Interval
  <2>3. path \in Surjection(1 .. Len(path), A)
    BY <1>4, <2>1 DEF Surjection
  <2> HIDE DEF A
  <2> QED
    BY <2>2, <2>3, FS_Surjection
<1>6. Presence(L) = Presence(K) \cup (C \X A)
  <2>1. ASSUME NEW e \in EventsOf(L)
        PROVE  <<e[1], ActivityAt(L, e)>> \in Presence(K) \cup (C \X A)
    <3>1. CASE e \in EventsOf(K)
      BY <1>2, <1>3, <3>1 DEF Presence, ActivityAt
    <3>2. CASE e \in C \X (1 .. Len(path))
      <4>1. e[1] \in C /\ e[2] \in 1 .. Len(path)
        BY <3>2
      <4>2. ActivityAt(L, e) = path[e[2]]
        BY <1>1, <4>1 DEF ActivityAt
      <4> QED
        BY <1>4, <4>1, <4>2
    <3> QED
      BY <1>1, <3>1, <3>2
  <2>2. ASSUME NEW e \in EventsOf(K)
        PROVE  <<e[1], ActivityAt(K, e)>> \in Presence(L)
    <3>1. e \in EventsOf(L) /\ ActivityAt(L, e) = ActivityAt(K, e)
      BY <1>1, <1>2, <1>3 DEF ActivityAt
    <3> QED
      BY <3>1 DEF Presence
  <2>3. ASSUME NEW c \in C, NEW a \in A PROVE <<c, a>> \in Presence(L)
    <3>1. PICK i \in 1 .. Len(path) : path[i] = a
      BY <1>4
    <3>2. <<c, i>> \in EventsOf(L) /\ <<c, i>>[1] = c /\ <<c, i>>[2] = i
      BY <1>1
    <3>3. ActivityAt(L, <<c, i>>) = a
      BY <1>1, <3>1, <3>2 DEF ActivityAt
    <3> QED
      BY <3>2, <3>3 DEF Presence
  <2> HIDE DEF A
  <2>4. Presence(L) \subseteq Presence(K) \cup (C \X A)
    BY <2>1 DEF Presence
  <2>5. Presence(K) \subseteq Presence(L)
    BY <2>2 DEF Presence
  <2> QED
    BY <2>3, <2>4, <2>5
<1>7. Presence(K) \cap (C \X A) = {}
  BY <1>2, <1>3 DEF Presence
<1> DEFINE h == [q \in Presence(L) |-> q[2]]
           f == [q \in Presence(K) |-> q[2]]
           g == [q \in C \X A |-> q[2]]
<1>8. /\ DOMAIN h = DOMAIN f \cup DOMAIN g /\ DOMAIN f \cap DOMAIN g = {}
      /\ IsFiniteSet(DOMAIN f) /\ IsFiniteSet(DOMAIN g)
      /\ \A q \in DOMAIN f : h[q] = f[q]
      /\ \A q \in DOMAIN g : h[q] = g[q]
  <2>1. IsFiniteSet(C \X A) /\ IsFiniteSet(Presence(K))
    BY <1>1, <1>2, <1>5, FS_Product, PresenceFinite
  <2> HIDE DEF A
  <2> QED
    BY <1>6, <1>7, <2>1
<1>9. Tally(g) = Copies(SetToBag(A), n)
  <2>1. DOMAIN g = C \X DOMAIN s /\ IsFiniteSet(DOMAIN s)
        /\ \A c \in C, a \in DOMAIN s : g[<<c, a>>] = s[a]
    <3> HIDE DEF A
    <3> QED
      BY <1>5
  <2>2. Tally(s) = SetToBag(A)
    BY TallyDistinct
  <2> HIDE DEF s, g, A
  <2>3. Tally(g) = Copies(Tally(s), Cardinality(C))
    BY <1>1, <1>2, <2>1, TallyCopies
  <2> QED
    BY <2>2, <2>3
<1>10. Tally(h) = Tally(f) (+) Tally(g)
  <2> HIDE DEF h, f, g
  <2> QED
    BY <1>8, TallyUnion
<1> QED
  BY <1>9, <1>10

-----------------------------------------------------------------------------
(* Durations.                                                              *)

EdgeNames(K) == {EdgeAt(K, e) : e \in EdgesOf(K)}
EdgesOn(K, x) == {d \in EdgesOf(K) : EdgeAt(K, d) = x}
EdgeTotal(K, x) == SumFunction([e \in EdgesOn(K, x) |-> Elapsed(K, e)])

\* The timestamps are those of the cases, in some order of the cases.
Stamped(L, C, path, ids, stamps) ==
    /\ ids \in [1 .. Cardinality(C) -> C]
    /\ \A j, k \in 1 .. Cardinality(C) : ids[j] = ids[k] => j = k
    /\ \A c \in C : \E k \in 1 .. Cardinality(C) : ids[k] = c
    /\ DOMAIN stamps = 1 .. Cardinality(C) /\ Len(stamps) = Cardinality(C)
    /\ \A k \in 1 .. Cardinality(C) : \A i \in 1 .. Len(path) : stamps[k][i] = L[ids[k]][i].at

LEMMA ElapsedNat ==
    ASSUME NEW K, CaseLog(K)
    PROVE  /\ \A e \in EdgesOf(K) : Elapsed(K, e) \in Nat
           /\ \A x : IsFiniteSet(EdgesOn(K, x)) /\ EdgesOn(K, x) \in SUBSET EdgesOf(K)
           /\ \A x : [e \in EdgesOn(K, x) |-> Elapsed(K, e)] \in [EdgesOn(K, x) -> Nat]
           /\ \A x : EdgeTotal(K, x) \in Nat
           /\ \A x : x \in EdgeNames(K) <=> EdgesOn(K, x) # {}
           /\ \A x : x \notin EdgeNames(K) => EdgeTotal(K, x) = 0
<1>1. ASSUME NEW e \in EdgesOf(K) PROVE Elapsed(K, e) \in Nat
  <2>1. e = <<e[1], e[2]>>
    BY EventsFinite
  <2>2. e[1] \in DOMAIN K /\ e[2] \in 1 .. Len(K[e[1]]) - 1
    BY <2>1, EventsFinite
  <2>3. IsTrace(K[e[1]])
    BY <2>2 DEF CaseLog
  <2> QED
    BY <2>2, <2>3, TraceParts DEF Elapsed
<1>2. \A x : EdgesOn(K, x) \in SUBSET EdgesOf(K)
  BY DEF EdgesOn
<1>3. \A x : IsFiniteSet(EdgesOn(K, x))
  BY <1>2, EventsFinite, FS_Subset
<1>4. \A x : [e \in EdgesOn(K, x) |-> Elapsed(K, e)] \in [EdgesOn(K, x) -> Nat]
  BY <1>1, <1>2
<1>5. \A x : EdgeTotal(K, x) \in Nat
  BY <1>3, <1>4, SumType DEF EdgeTotal
<1>6. \A x : x \in EdgeNames(K) <=> EdgesOn(K, x) # {}
  BY DEF EdgeNames, EdgesOn
<1>7. ASSUME NEW x, x \notin EdgeNames(K) PROVE EdgeTotal(K, x) = 0
  <2> DEFINE f == [e \in EdgesOn(K, x) |-> Elapsed(K, e)]
  <2>1. DOMAIN f = {} /\ f = [e \in {} |-> f[e]]
    BY <1>6, <1>7
  <2> HIDE DEF f
  <2>2. SumFunction(f) = 0
    BY <2>1, SumEmpty
  <2> QED
    BY <2>2 DEF f, EdgeTotal
<1> QED
  BY <1>1, <1>2, <1>3, <1>4, <1>5, <1>6, <1>7

\* The places of an edge on a path.
PlacesOf(edge, path) == {i \in DOMAIN Pairs(path) : Pairs(path)[i] = edge}

\* The time the new cases spend on an edge is what the timestamps say.
LEMMA StampedTotal ==
    ASSUME NEW L, NEW K, NEW C, NEW path, Grown(L, K, C, path),
           NEW ids, NEW stamps, Stamped(L, C, path, ids, stamps), NEW x
    PROVE  LET new == C \X PlacesOf(x, path)
           IN /\ [e \in new |-> Elapsed(L, e)] \in [new -> Nat]
              /\ SumFunction([e \in new |-> Elapsed(L, e)]) = EdgeDuration(x, path, stamps)
<1> DEFINE n == Cardinality(C)
           at == PlacesOf(x, path)
           D == (1 .. n) \X at
           E == C \X at
           f == [q \in D |-> stamps[q[1]][q[2] + 1] - stamps[q[1]][q[2]]]
           g == [e \in E |-> Elapsed(L, e)]
           b == [q \in D |-> <<ids[q[1]], q[2]>>]
<1>1. /\ IsFiniteSet(C) /\ n \in Nat /\ Len(path) \in Nat
      /\ \A c \in C : Len(L[c]) = Len(path)
  BY GrownShape
<1>2. at \in SUBSET (1 .. Len(path) - 1)
  BY DEF PlacesOf, Pairs
<1>3. IsFiniteSet(at)
  <2>1. 1 \in Int /\ Len(path) - 1 \in Int
    BY <1>1
  <2>2. IsFiniteSet(1 .. Len(path) - 1)
    BY <2>1, FS_Interval
  <2> HIDE DEF at
  <2> QED
    BY <1>2, <2>2, FS_Subset
<1>4. IsFiniteSet(D)
  <2>1. IsFiniteSet(1 .. n)
    <3>1. 1 \in Int /\ n \in Int
      BY <1>1
    <3> QED
      BY <3>1, FS_Interval
  <2> HIDE DEF at, n
  <2> QED
    BY <1>3, <2>1, FS_Product
<1>5. \A c \in C, i \in 1 .. Len(path) - 1 :
          L[c][i + 1].at - L[c][i].at \in Nat
  <2> TAKE c \in C, i \in 1 .. Len(path) - 1
  <2>1. IsTrace(L[c])
    BY DEF Grown, CaseLog
  <2> QED
    BY <1>1, <2>1, TraceParts
<1>6. g \in [E -> Nat]
  <2>1. ASSUME NEW e \in E PROVE Elapsed(L, e) \in Nat
    <3>1. e[1] \in C /\ e[2] \in 1 .. Len(path) - 1
      BY <1>2
    <3> QED
      BY <1>5, <3>1 DEF Elapsed
  <2> HIDE DEF E
  <2> QED
    BY <2>1
<1>7. \A q \in D : /\ q[1] \in 1 .. n /\ q[2] \in at /\ q[2] \in 1 .. Len(path)
                   /\ q[2] + 1 \in 1 .. Len(path) /\ q[2] \in 1 .. Len(path) - 1
  BY <1>1, <1>2
<1>8. ASSUME NEW q \in D
      PROVE  /\ b[q] = <<ids[q[1]], q[2]>> /\ b[q] \in E /\ f[q] = g[b[q]] /\ f[q] \in Nat
  <2>1. b[q] = <<ids[q[1]], q[2]>> /\ ids[q[1]] \in C
    BY <1>7 DEF Stamped
  <2>2. b[q] \in E
    BY <1>7, <2>1
  <2>3. g[b[q]] = L[ids[q[1]]][q[2] + 1].at - L[ids[q[1]]][q[2]].at
    BY <2>1, <2>2 DEF Elapsed
  <2>4. f[q] = L[ids[q[1]]][q[2] + 1].at - L[ids[q[1]]][q[2]].at
    BY <1>7 DEF Stamped
  <2> QED
    BY <1>6, <2>1, <2>2, <2>3, <2>4
<1>9. f \in [D -> Nat]
  <2> HIDE DEF D
  <2> QED
    BY <1>8
<1>10. Renames(b, D, f, E, g)
  <2>1. b \in [D -> E]
    <3> HIDE DEF D, E
    <3> QED
      BY <1>8
  <2>2. ASSUME NEW q \in D, NEW r \in D, b[q] = b[r] PROVE q = r
    <3>1. q[2] = r[2] /\ ids[q[1]] = ids[r[1]]
      BY <1>8, <2>2
    <3>2. q[1] = r[1]
      BY <1>7, <3>1 DEF Stamped
    <3> QED
      BY <3>1, <3>2
  <2>3. ASSUME NEW e \in E PROVE \E q \in D : b[q] = e
    <3>1. PICK k \in 1 .. n : ids[k] = e[1]
      BY DEF Stamped
    <3>2. <<k, e[2]>> \in D /\ e = <<e[1], e[2]>>
      OBVIOUS
    <3>3. b[<<k, e[2]>>] = e
      BY <3>1, <3>2
    <3> QED
      BY <3>2, <3>3
  <2> HIDE DEF D, E, f, g, b
  <2> QED
    BY <1>8, <2>1, <2>2, <2>3 DEF Renames
<1>11. SumFunction(f) = SumFunction(g)
  <2> HIDE DEF D, E, f, g, b
  <2> QED
    BY <1>4, <1>6, <1>9, <1>10, SumRenamed
<1>12. EdgeDuration(x, path, stamps) = SumFunction(f)
  BY DEF EdgeDuration, Stamped, PlacesOf
<1> QED
  BY <1>6, <1>11, <1>12

LEMMA GrownDuration ==
    ASSUME NEW L, NEW K, NEW C, NEW path, Grown(L, K, C, path),
           NEW ids, NEW stamps, Stamped(L, C, path, ids, stamps)
    PROVE  /\ EdgeNames(L) = EdgeNames(K) \cup ToSet(Pairs(path))
           /\ \A x : EdgeTotal(L, x) = EdgeTotal(K, x) + EdgeDuration(x, path, stamps)
<1>1. /\ IsFiniteSet(C) /\ Len(path) \in Nat
      /\ \A c \in C : \A i \in 1 .. Len(path) : L[c][i].activity = path[i]
      /\ EdgesOf(L) = EdgesOf(K) \cup (C \X (1 .. Len(path) - 1))
      /\ EdgesOf(K) \cap (C \X (1 .. Len(path) - 1)) = {}
  BY GrownShape
<1>2. /\ \A c \in DOMAIN K : L[c] = K[c]
      /\ CaseLog(K) /\ CaseLog(L) /\ C # {}
  BY DEF Grown
<1>3. \A e \in EdgesOf(K) : e = <<e[1], e[2]>> /\ e[1] \in DOMAIN K
  BY <1>2, EventsFinite
<1>4. \A e \in EdgesOf(K) : EdgeAt(L, e) = EdgeAt(K, e) /\ Elapsed(L, e) = Elapsed(K, e)
  BY <1>2, <1>3 DEF EdgeAt, ActivityAt, Elapsed
<1>5. DOMAIN Pairs(path) = 1 .. Len(path) - 1
  BY DEF Pairs
<1>6. ASSUME NEW c \in C, NEW i \in 1 .. Len(path) - 1
      PROVE  EdgeAt(L, <<c, i>>) = Pairs(path)[i] /\ <<c, i>> \in EdgesOf(L)
  <2>1. i \in 1 .. Len(path) /\ i + 1 \in 1 .. Len(path)
    BY <1>1
  <2>2. Pairs(path)[i] = <<path[i], path[i + 1]>>
    BY <1>5 DEF Pairs
  <2> QED
    BY <1>1, <2>1, <2>2 DEF EdgeAt, ActivityAt
<1>7. EdgeNames(L) = EdgeNames(K) \cup ToSet(Pairs(path))
  <2>1. ASSUME NEW e \in EdgesOf(L) PROVE EdgeAt(L, e) \in EdgeNames(K) \cup ToSet(Pairs(path))
    <3>1. CASE e \in EdgesOf(K)
      BY <1>4, <3>1 DEF EdgeNames
    <3>2. CASE e \in C \X (1 .. Len(path) - 1)
      <4>1. e = <<e[1], e[2]>> /\ e[1] \in C /\ e[2] \in 1 .. Len(path) - 1
        BY <3>2
      <4>2. EdgeAt(L, e) = Pairs(path)[e[2]]
        BY <1>6, <4>1
      <4> QED
        BY <1>5, <4>1, <4>2 DEF ToSet
    <3> QED
      BY <1>1, <3>1, <3>2
  <2>2. ASSUME NEW e \in EdgesOf(K) PROVE EdgeAt(K, e) \in EdgeNames(L)
    BY <1>1, <1>4 DEF EdgeNames
  <2>3. ASSUME NEW i \in 1 .. Len(path) - 1 PROVE Pairs(path)[i] \in EdgeNames(L)
    <3>1. PICK c \in C : TRUE
      BY <1>2
    <3> QED
      BY <1>6, <3>1 DEF EdgeNames
  <2>4. EdgeNames(L) \subseteq EdgeNames(K) \cup ToSet(Pairs(path))
    BY <2>1 DEF EdgeNames
  <2>5. EdgeNames(K) \subseteq EdgeNames(L)
    BY <2>2 DEF EdgeNames
  <2>6. ToSet(Pairs(path)) \subseteq EdgeNames(L)
    BY <1>5, <2>3 DEF ToSet
  <2> QED
    BY <2>4, <2>5, <2>6
<1>8. ASSUME NEW x
      PROVE  EdgeTotal(L, x) = EdgeTotal(K, x) + EdgeDuration(x, path, stamps)
  <2> DEFINE A == EdgesOn(K, x)
             B == C \X PlacesOf(x, path)
             f == [e \in A \cup B |-> Elapsed(L, e)]
  <2>1. EdgesOn(L, x) = A \cup B
    <3>1. \A e \in EdgesOf(K) : e \in EdgesOn(L, x) <=> e \in A
      BY <1>1, <1>4 DEF EdgesOn
    <3>2. ASSUME NEW c \in C, NEW i \in 1 .. Len(path) - 1
          PROVE  <<c, i>> \in EdgesOn(L, x) <=> <<c, i>> \in B
      BY <1>5, <1>6 DEF EdgesOn, PlacesOf
    <3>3. A \subseteq EdgesOf(K) /\ B \subseteq C \X (1 .. Len(path) - 1)
      BY <1>5 DEF EdgesOn, PlacesOf
    <3>4. EdgesOn(L, x) \subseteq EdgesOf(K) \cup (C \X (1 .. Len(path) - 1))
      BY <1>1 DEF EdgesOn
    <3>5. ASSUME NEW e \in C \X (1 .. Len(path) - 1) PROVE e \in EdgesOn(L, x) <=> e \in B
      BY <3>2
    <3> HIDE DEF A, B
    <3> QED
      BY <3>1, <3>3, <3>4, <3>5
  <2>2. A \cap B = {} /\ IsFiniteSet(A) /\ IsFiniteSet(B)
    <3>1. A \subseteq EdgesOf(K) /\ B \subseteq C \X (1 .. Len(path) - 1)
      BY <1>5 DEF EdgesOn, PlacesOf
    <3>2. IsFiniteSet(A)
      BY <1>2, ElapsedNat
    <3>3. IsFiniteSet(1 .. Len(path) - 1)
      <4>1. 1 \in Int /\ Len(path) - 1 \in Int
        BY <1>1
      <4> QED
        BY <4>1, FS_Interval
    <3>4. IsFiniteSet(PlacesOf(x, path))
      <4>1. PlacesOf(x, path) \in SUBSET (1 .. Len(path) - 1)
        BY <1>5 DEF PlacesOf
      <4> QED
        BY <3>3, <4>1, FS_Subset
    <3>5. IsFiniteSet(B)
      BY <1>1, <3>4, FS_Product
    <3> HIDE DEF A, B
    <3> QED
      BY <1>1, <3>1, <3>2, <3>5
  <2>3. f \in [A \cup B -> Nat]
    <3>1. \A e \in A : Elapsed(K, e) \in Nat /\ Elapsed(L, e) = Elapsed(K, e)
      BY <1>2, <1>4, ElapsedNat DEF EdgesOn
    <3>2. [e \in B |-> Elapsed(L, e)] \in [B -> Nat]
      BY StampedTotal
    <3>3. \A e \in B : Elapsed(L, e) \in Nat
      <4> HIDE DEF B
      <4> QED
        BY <3>2
    <3> HIDE DEF A, B
    <3> QED
      BY <3>1, <3>3
  <2>4. [e \in A |-> f[e]] = [e \in A |-> Elapsed(K, e)]
    BY <1>4 DEF EdgesOn
  <2>5. [e \in B |-> f[e]] = [e \in B |-> Elapsed(L, e)]
    OBVIOUS
  <2>6. SumFunction([e \in B |-> Elapsed(L, e)]) = EdgeDuration(x, path, stamps)
    BY StampedTotal
  <2>7. SumFunction(f) = SumFunction([e \in A |-> f[e]]) + SumFunction([e \in B |-> f[e]])
    <3> HIDE DEF A, B, f
    <3> QED
      BY <2>2, <2>3, SumUnion
  <2>8. EdgeTotal(L, x) = SumFunction(f)
    BY <2>1 DEF EdgeTotal
  <2>9. EdgeTotal(K, x) = SumFunction([e \in A |-> Elapsed(K, e)])
    BY DEF EdgeTotal
  <2> HIDE DEF A, B, f
  <2> QED
    BY <2>4, <2>5, <2>6, <2>7, <2>8, <2>9
<1> QED
  BY <1>7, <1>8

-----------------------------------------------------------------------------
(* The summary of more cases.                                              *)

PayloadOf(packed, cases, events) ==
    IF packed THEN cases * (IdBytes + HeaderBytes) + events * StampBytes ELSE 0

LEMMA SummaryShape ==
    ASSUME NEW K, NEW packed
    PROVE  SummaryOf(K, packed) =
               [cases |-> Cardinality(DOMAIN K),
                events |-> Cardinality(EventsOf(K)),
                payload |-> PayloadOf(packed, Cardinality(DOMAIN K), Cardinality(EventsOf(K))),
                variants |-> Tally(Followed(K)),
                occurrence |-> Tally([e \in EventsOf(K) |-> ActivityAt(K, e)]),
                present |-> Tally([q \in Presence(K) |-> q[2]]),
                start |-> Tally(Starts(K)),
                end |-> Tally(Ends(K)),
                dfg |-> Tally([e \in EdgesOf(K) |-> EdgeAt(K, e)]),
                duration |-> [x \in EdgeNames(K) |-> EdgeTotal(K, x)]]
BY DEF SummaryOf, PayloadOf, Followed, Starts, Ends, Presence, EdgeNames, EdgeTotal, EdgesOn

LEMMA PayloadGrows ==
    ASSUME NEW c \in Nat, NEW e \in Nat, NEW n \in Nat, NEW l \in Nat, NEW packed
    PROVE  PayloadOf(packed, c + n, e + n * l) =
               PayloadOf(packed, c, e)
               + (IF packed THEN n * (IdBytes + HeaderBytes + StampBytes * l) ELSE 0)
<1>1. IdBytes \in Nat /\ HeaderBytes \in Nat /\ StampBytes \in Nat
  BY SizeAssumption
<1> DEFINE a == IdBytes + HeaderBytes
           s == StampBytes
<1>2. a \in Nat /\ s \in Nat
  BY <1>1
<1>3. (c + n) * a + (e + n * l) * s = (c * a + e * s) + n * (a + s * l)
  <2> HIDE DEF a, s
  <2>1. (c + n) * a = c * a + n * a
    BY <1>2
  <2>2. (e + n * l) * s = e * s + (n * l) * s
    BY <1>2
  <2>3. n * (a + s * l) = n * a + n * (s * l)
    BY <1>2
  <2>4. n * (s * l) = (n * l) * s
    BY <1>2
  <2>5. c * a \in Int /\ n * a \in Int /\ e * s \in Int /\ (n * l) * s \in Int
    BY <1>2
  <2> QED
    BY <2>1, <2>2, <2>3, <2>4, <2>5
<1> QED
  BY <1>3 DEF PayloadOf

LEMMA SummaryGrows ==
    ASSUME NEW L, NEW K, NEW C, NEW path, Grown(L, K, C, path),
           NEW ids, NEW stamps, Stamped(L, C, path, ids, stamps), NEW packed
    PROVE  SummaryOf(L, packed) =
               AddCases(SummaryOf(K, packed), path, stamps,
                        IF packed
                        THEN Len(stamps) * (IdBytes + HeaderBytes + StampBytes * Len(path))
                        ELSE 0)
<1>a. PICK n : n = Cardinality(C)
  OBVIOUS
<1> DEFINE b == SummaryOf(K, packed)
           payload == IF packed THEN n * (IdBytes + HeaderBytes + StampBytes * Len(path)) ELSE 0
<1>1. Len(stamps) = n
  BY <1>a DEF Stamped
<1>2. n \in Nat /\ Len(path) \in Nat
  BY <1>a, GrownShape
<1>3. /\ b.cases = Cardinality(DOMAIN K) /\ b.events = Cardinality(EventsOf(K))
      /\ b.payload = PayloadOf(packed, Cardinality(DOMAIN K), Cardinality(EventsOf(K)))
      /\ b.variants = Tally(Followed(K))
      /\ b.occurrence = Tally([e \in EventsOf(K) |-> ActivityAt(K, e)])
      /\ b.present = Tally([q \in Presence(K) |-> q[2]])
      /\ b.start = Tally(Starts(K))
      /\ b.end = Tally(Ends(K))
      /\ b.dfg = Tally([e \in EdgesOf(K) |-> EdgeAt(K, e)])
      /\ b.duration = [x \in EdgeNames(K) |-> EdgeTotal(K, x)]
  BY SummaryShape
<1> HIDE DEF b
<1>4. /\ Cardinality(DOMAIN L) = b.cases + n
      /\ Cardinality(EventsOf(L)) = b.events + n * Len(path)
      /\ Tally(Followed(L))
             = b.variants (+) Copies(SetToBag({path}), n)
      /\ Tally(Starts(L))
             = b.start (+) Copies(SetToBag({Head(path)}), n)
      /\ Tally(Ends(L))
             = b.end (+) Copies(SetToBag({Last(path)}), n)
  <2>1. /\ Cardinality(DOMAIN L) = Cardinality(DOMAIN K) + n
        /\ Cardinality(EventsOf(L)) = Cardinality(EventsOf(K)) + n * Len(path)
    BY <1>a, GrownCounts
  <2>2. /\ Tally(Followed(L)) = Tally(Followed(K)) (+) Copies(SetToBag({path}), n)
        /\ Tally(Starts(L)) = Tally(Starts(K)) (+) Copies(SetToBag({Head(path)}), n)
        /\ Tally(Ends(L)) = Tally(Ends(K)) (+) Copies(SetToBag({Last(path)}), n)
    BY <1>a, GrownCases
  <2> QED
    BY <1>3, <2>1, <2>2
<1>5. /\ Tally([e \in EventsOf(L) |-> ActivityAt(L, e)])
             = b.occurrence (+) Copies(Tally(path), n)
      /\ Tally([e \in EdgesOf(L) |-> EdgeAt(L, e)])
             = b.dfg (+) Copies(Tally(Pairs(path)), n)
  BY <1>a, <1>3, GrownEvents
<1>6. Tally([q \in Presence(L) |-> q[2]]) = b.present (+) Copies(SetToBag(ToSet(path)), n)
  BY <1>a, <1>3, GrownPresence
<1>7. PayloadOf(packed, Cardinality(DOMAIN L), Cardinality(EventsOf(L))) = b.payload + payload
  <2>1. Cardinality(DOMAIN K) \in Nat /\ Cardinality(EventsOf(K)) \in Nat
    BY <1>a, GrownCounts
  <2>2. PayloadOf(packed, Cardinality(DOMAIN K) + n, Cardinality(EventsOf(K)) + n * Len(path))
            = PayloadOf(packed, Cardinality(DOMAIN K), Cardinality(EventsOf(K))) + payload
    <3>1. PICK d, e : d = Cardinality(DOMAIN K) /\ e = Cardinality(EventsOf(K))
      OBVIOUS
    <3>2. d \in Nat /\ e \in Nat
      BY <2>1, <3>1
    <3>3. PayloadOf(packed, d + n, e + n * Len(path)) = PayloadOf(packed, d, e) + payload
      <4>1. \A cc, ee, nn, ll \in Nat :
                PayloadOf(packed, cc + nn, ee + nn * ll) =
                    PayloadOf(packed, cc, ee)
                    + (IF packed THEN nn * (IdBytes + HeaderBytes + StampBytes * ll) ELSE 0)
        BY PayloadGrows
      <4> QED
        BY <1>2, <3>2, <4>1
    <3> QED
      BY <3>1, <3>3
  <2>3. b.cases = Cardinality(DOMAIN K) /\ b.events = Cardinality(EventsOf(K))
    BY <1>3
  <2> QED
    BY <1>3, <1>4, <2>2, <2>3
<1>8. [x \in EdgeNames(L) |-> EdgeTotal(L, x)]
          = [e \in DOMAIN b.duration \cup ToSet(Pairs(path)) |->
                Duration(b, e) + EdgeDuration(e, path, stamps)]
  <2>1. \A x : Duration(b, x) = EdgeTotal(K, x)
    <3>1. CaseLog(K)
      BY DEF Grown
    <3>2. \A x : x \notin EdgeNames(K) => EdgeTotal(K, x) = 0
      BY <3>1, ElapsedNat
    <3> QED
      BY <1>3, <3>2 DEF Duration
  <2>2. DOMAIN b.duration = EdgeNames(K)
    BY <1>3
  <2>3. /\ EdgeNames(L) = EdgeNames(K) \cup ToSet(Pairs(path))
        /\ \A x : EdgeTotal(L, x) = EdgeTotal(K, x) + EdgeDuration(x, path, stamps)
    BY GrownDuration
  <2> QED
    BY <2>1, <2>2, <2>3
<1>9. SummaryOf(L, packed) = AddCases(b, path, stamps, payload)
  <2> HIDE DEF payload
  <2> QED
    BY <1>1, <1>4, <1>5, <1>6, <1>7, <1>8, SummaryShape DEF AddCases
<1> QED
  BY <1>1, <1>9 DEF b

\* No cases at all: a builder as it is made.
LEMMA SummaryEmpty ==
    ASSUME NEW K, DOMAIN K = {}, NEW packed
    PROVE  SummaryOf(K, packed) = NewBuilder
<1>1. EventsOf(K) = {} /\ EdgesOf(K) = {} /\ Presence(K) = {} /\ EdgeNames(K) = {}
  BY DEF EventsOf, EdgesOf, Presence, EdgeNames
<1>2. Cardinality({}) = 0
  BY FS_EmptySet
<1>3. \A f : DOMAIN f = {} => Tally(f) = EmptyBag
  <2> TAKE f
  <2> HAVE DOMAIN f = {}
  <2>1. Range(f) = {}
    BY DEF Range
  <2>2. Tally(f) = [x \in {} |-> Cardinality({i \in DOMAIN f : f[i] = x})]
    BY <2>1 DEF Tally
  <2>3. SetToBag({}) = [x \in {} |-> 1]
    BY DEF SetToBag
  <2> QED
    BY <2>2, <2>3 DEF EmptyBag
<1>4. /\ Tally(Followed(K)) = EmptyBag
      /\ Tally([e \in EventsOf(K) |-> ActivityAt(K, e)]) = EmptyBag
      /\ Tally([q \in Presence(K) |-> q[2]]) = EmptyBag
      /\ Tally(Starts(K)) = EmptyBag
      /\ Tally(Ends(K)) = EmptyBag
      /\ Tally([e \in EdgesOf(K) |-> EdgeAt(K, e)]) = EmptyBag
  BY <1>1, <1>3 DEF Followed, Starts, Ends
<1>5. PayloadOf(packed, 0, 0) = 0
  BY SizeAssumption DEF PayloadOf
<1>6. [x \in EdgeNames(K) |-> EdgeTotal(K, x)] = <<>>
  BY <1>1
<1> QED
  BY <1>1, <1>2, <1>4, <1>5, <1>6, SummaryShape DEF NewBuilder

-----------------------------------------------------------------------------
(* Totals that do not fit.                                                 *)

\* The cases of K are cases of M, or the first events of cases of M.
PartOf(K, M) ==
    /\ CaseLog(K) /\ CaseLog(M)
    /\ DOMAIN K \subseteq DOMAIN M
    /\ \A c \in DOMAIN K : /\ Len(K[c]) <= Len(M[c])
                           /\ \A i \in 1 .. Len(K[c]) : K[c][i] = M[c][i]

LEMMA PartCounts ==
    ASSUME NEW K, NEW M, PartOf(K, M)
    PROVE  /\ Cardinality(DOMAIN K) \in Nat /\ Cardinality(EventsOf(K)) \in Nat
           /\ Cardinality(DOMAIN M) \in Nat /\ Cardinality(EventsOf(M)) \in Nat
           /\ Cardinality(DOMAIN K) <= Cardinality(DOMAIN M)
           /\ EventsOf(K) \in SUBSET EventsOf(M)
           /\ EdgesOf(K) \in SUBSET EdgesOf(M)
           /\ Cardinality(EventsOf(K)) <= Cardinality(EventsOf(M))
<1>1. /\ CaseLog(K) /\ CaseLog(M) /\ DOMAIN K \in SUBSET DOMAIN M
      /\ IsFiniteSet(DOMAIN K) /\ IsFiniteSet(DOMAIN M)
      /\ \A c \in DOMAIN K : Len(K[c]) <= Len(M[c]) /\ IsTrace(K[c]) /\ IsTrace(M[c])
  BY DEF PartOf, CaseLog
<1>2. \A c \in DOMAIN K : Len(K[c]) \in Nat /\ Len(M[c]) \in Nat
  BY <1>1, TraceParts
<1>3. /\ IsFiniteSet(EventsOf(K)) /\ IsFiniteSet(EventsOf(M))
      /\ \A e \in EventsOf(K) : e = <<e[1], e[2]>>
      /\ EdgesOf(K) \in SUBSET EventsOf(K)
      /\ \A c, i : <<c, i>> \in EventsOf(K) <=> c \in DOMAIN K /\ i \in 1 .. Len(K[c])
      /\ \A c, i : <<c, i>> \in EdgesOf(K) <=> c \in DOMAIN K /\ i \in 1 .. Len(K[c]) - 1
  BY <1>1, EventsFinite
<1>4. /\ \A c, i : <<c, i>> \in EventsOf(M) <=> c \in DOMAIN M /\ i \in 1 .. Len(M[c])
      /\ \A c, i : <<c, i>> \in EdgesOf(M) <=> c \in DOMAIN M /\ i \in 1 .. Len(M[c]) - 1
  BY <1>1, EventsFinite
<1>5. EventsOf(K) \in SUBSET EventsOf(M)
  <2>1. ASSUME NEW e \in EventsOf(K) PROVE e \in EventsOf(M)
    <3>1. e = <<e[1], e[2]>> /\ e[1] \in DOMAIN K /\ e[2] \in 1 .. Len(K[e[1]])
      BY <1>3
    <3>2. e[1] \in DOMAIN M /\ e[2] \in 1 .. Len(M[e[1]])
      BY <1>1, <1>2, <3>1
    <3> QED
      BY <1>4, <3>1, <3>2
  <2> QED
    BY <2>1
<1>6. EdgesOf(K) \in SUBSET EdgesOf(M)
  <2>1. ASSUME NEW e \in EdgesOf(K) PROVE e \in EdgesOf(M)
    <3>1. e = <<e[1], e[2]>>
      BY <1>3
    <3>2. e[1] \in DOMAIN K /\ e[2] \in 1 .. Len(K[e[1]]) - 1
      BY <1>3, <3>1
    <3>3. e[1] \in DOMAIN M /\ e[2] \in 1 .. Len(M[e[1]]) - 1
      BY <1>1, <1>2, <3>2
    <3> QED
      BY <1>4, <3>1, <3>3
  <2> QED
    BY <2>1
<1> QED
  BY <1>1, <1>3, <1>5, <1>6, FS_Subset, FS_CardinalityType

LEMMA TallyAtMost ==
    ASSUME NEW f, IsFiniteSet(DOMAIN f), NEW m \in Nat, Cardinality(DOMAIN f) <= m
    PROVE  AtMost(m, Tally(f))
<1>1. /\ Tally(f) = [x \in Range(f) |-> Cardinality(Where(f, x))]
      /\ \A x : /\ Cardinality(Where(f, x)) \in Nat
                /\ Cardinality(Where(f, x)) <= Cardinality(DOMAIN f)
  BY TallyParts
<1>2. Cardinality(DOMAIN f) \in Nat
  BY FS_CardinalityType
<1>3. ASSUME NEW x \in Range(f) PROVE Tally(f)[x] <= m
  BY <1>1, <1>2
<1> QED
  BY <1>1, <1>3 DEF AtMost

LEMMA PartTotal ==
    ASSUME NEW K, NEW M, PartOf(K, M), NEW x
    PROVE  /\ EdgeTotal(K, x) \in Nat /\ EdgeTotal(M, x) \in Nat
           /\ EdgeTotal(K, x) <= EdgeTotal(M, x)
           /\ x \in EdgeNames(K) => x \in EdgeNames(M)
<1>1. CaseLog(K) /\ CaseLog(M) /\ EdgesOf(K) \in SUBSET EdgesOf(M)
  BY PartCounts DEF PartOf
<1>2. ASSUME NEW e \in EdgesOf(K)
      PROVE  EdgeAt(K, e) = EdgeAt(M, e) /\ Elapsed(K, e) = Elapsed(M, e)
  <2>1. e = <<e[1], e[2]>>
    BY <1>1, EventsFinite
  <2>2. e[1] \in DOMAIN K /\ e[2] \in 1 .. Len(K[e[1]]) - 1
    BY <1>1, <2>1, EventsFinite
  <2>3. Len(K[e[1]]) \in Nat
    BY <2>2, TraceParts DEF PartOf, CaseLog
  <2>4. e[2] \in 1 .. Len(K[e[1]]) /\ e[2] + 1 \in 1 .. Len(K[e[1]])
    BY <2>2, <2>3
  <2>5. K[e[1]][e[2]] = M[e[1]][e[2]] /\ K[e[1]][e[2] + 1] = M[e[1]][e[2] + 1]
    BY <2>2, <2>4 DEF PartOf
  <2> QED
    BY <2>5 DEF EdgeAt, ActivityAt, Elapsed
<1> DEFINE D == EdgesOn(M, x)
           E == EdgesOn(K, x)
           f == [e \in D |-> Elapsed(M, e)]
<1>3. E \in SUBSET D
  BY <1>1, <1>2 DEF EdgesOn
<1>4. [e \in E |-> f[e]] = [e \in E |-> Elapsed(K, e)]
  BY <1>1, <1>2, <1>3 DEF EdgesOn
<1>5. IsFiniteSet(D) /\ f \in [D -> Nat]
  BY <1>1, ElapsedNat
<1>6. SumFunction([e \in E |-> f[e]]) <= SumFunction(f)
  <2> HIDE DEF D, E, f
  <2> QED
    BY <1>3, <1>5, SumPart
<1>7. EdgeTotal(K, x) <= EdgeTotal(M, x)
  <2>1. EdgeTotal(M, x) = SumFunction(f)
    BY DEF EdgeTotal
  <2>2. EdgeTotal(K, x) = SumFunction([e \in E |-> Elapsed(K, e)])
    BY DEF EdgeTotal
  <2> HIDE DEF D, E, f
  <2> QED
    BY <1>4, <1>6, <2>1, <2>2
<1>8. EdgeTotal(K, x) \in Nat /\ EdgeTotal(M, x) \in Nat
  BY <1>1, ElapsedNat
<1>9. x \in EdgeNames(K) => x \in EdgeNames(M)
  BY <1>1, <1>2 DEF EdgeNames
<1> QED
  BY <1>7, <1>8, <1>9

LEMMA PayloadMonotone ==
    ASSUME NEW c \in Nat, NEW e \in Nat, NEW d \in Nat, NEW f \in Nat, c <= d, e <= f, NEW packed
    PROVE  /\ PayloadOf(packed, c, e) \in Nat /\ PayloadOf(packed, d, f) \in Nat
           /\ PayloadOf(packed, c, e) <= PayloadOf(packed, d, f)
<1>1. IdBytes \in Nat /\ HeaderBytes \in Nat /\ StampBytes \in Nat
  BY SizeAssumption
<1>2. \A m, n, a \in Nat : m <= n => m * a \in Nat /\ n * a \in Nat /\ m * a <= n * a
  <2> TAKE m, n, a \in Nat
  <2> HAVE m <= n
  <2>1. PICK k \in Nat : n = m + k
    <3>1. n - m \in Nat /\ n = m + (n - m)
      OBVIOUS
    <3> QED
      BY <3>1
  <2>2. n * a = m * a + k * a
    BY <2>1
  <2>3. k * a \in Nat /\ m * a \in Nat
    OBVIOUS
  <2> QED
    BY <2>2, <2>3
<1> DEFINE a == IdBytes + HeaderBytes
           s == StampBytes
<1>3. a \in Nat /\ s \in Nat
  BY <1>1
<1> HIDE DEF a, s
<1>4. /\ c * a \in Nat /\ d * a \in Nat /\ c * a <= d * a
      /\ e * s \in Nat /\ f * s \in Nat /\ e * s <= f * s
  BY <1>2, <1>3
<1>5. /\ PayloadOf(packed, c, e) = IF packed THEN c * a + e * s ELSE 0
      /\ PayloadOf(packed, d, f) = IF packed THEN d * a + f * s ELSE 0
  BY DEF PayloadOf, a, s
<1> QED
  BY <1>4, <1>5

\* A total that does not fit for a part does not fit for the whole.
LEMMA PartFits ==
    ASSUME NEW K, NEW M, PartOf(K, M), NEW packed, CountsFit(SummaryOf(M, packed))
    PROVE  CountsFit(SummaryOf(K, packed))
<1>1. PICK k : k = SummaryOf(K, packed)
  OBVIOUS
<1>2. PICK m : m = SummaryOf(M, packed)
  OBVIOUS
<1>3. /\ k.cases = Cardinality(DOMAIN K) /\ k.events = Cardinality(EventsOf(K))
      /\ k.payload = PayloadOf(packed, Cardinality(DOMAIN K), Cardinality(EventsOf(K)))
      /\ k.variants = Tally(Followed(K))
      /\ k.occurrence = Tally([e \in EventsOf(K) |-> ActivityAt(K, e)])
      /\ k.present = Tally([q \in Presence(K) |-> q[2]])
      /\ k.start = Tally(Starts(K)) /\ k.end = Tally(Ends(K))
      /\ k.dfg = Tally([e \in EdgesOf(K) |-> EdgeAt(K, e)])
      /\ k.duration = [x \in EdgeNames(K) |-> EdgeTotal(K, x)]
  BY <1>1, SummaryShape
<1>4. /\ m.cases = Cardinality(DOMAIN M) /\ m.events = Cardinality(EventsOf(M))
      /\ m.payload = PayloadOf(packed, Cardinality(DOMAIN M), Cardinality(EventsOf(M)))
      /\ m.duration = [x \in EdgeNames(M) |-> EdgeTotal(M, x)]
  BY <1>2, SummaryShape
<1>5. /\ m.cases \in 0 .. MaxCount /\ m.events \in 0 .. MaxCount /\ m.payload \in 0 .. MaxCount
      /\ AtMost(MaxDuration, m.duration)
  BY <1>2 DEF CountsFit
<1>6. MaxCount \in Nat /\ MaxDuration \in Nat
  BY SizeAssumption
<1>7. /\ Cardinality(DOMAIN K) \in Nat /\ Cardinality(EventsOf(K)) \in Nat
      /\ Cardinality(DOMAIN M) \in Nat /\ Cardinality(EventsOf(M)) \in Nat
      /\ Cardinality(DOMAIN K) <= Cardinality(DOMAIN M)
      /\ Cardinality(EventsOf(K)) <= Cardinality(EventsOf(M))
  BY PartCounts
<1>8. /\ Cardinality(DOMAIN K) <= MaxCount
      /\ Cardinality(EventsOf(K)) <= MaxCount
      /\ k.cases \in 0 .. MaxCount /\ k.events \in 0 .. MaxCount
  BY <1>3, <1>4, <1>5, <1>6, <1>7
<1>9. k.payload \in 0 .. MaxCount
  <2>1. PICK c, e, d, f : /\ c = Cardinality(DOMAIN K) /\ e = Cardinality(EventsOf(K))
                          /\ d = Cardinality(DOMAIN M) /\ f = Cardinality(EventsOf(M))
    OBVIOUS
  <2>2. c \in Nat /\ e \in Nat /\ d \in Nat /\ f \in Nat /\ c <= d /\ e <= f
    BY <1>7, <2>1
  <2>3. /\ PayloadOf(packed, c, e) \in Nat /\ PayloadOf(packed, d, f) \in Nat
        /\ PayloadOf(packed, c, e) <= PayloadOf(packed, d, f)
    BY <2>2, PayloadMonotone
  <2>4. k.payload = PayloadOf(packed, c, e) /\ m.payload = PayloadOf(packed, d, f)
    BY <1>3, <1>4, <2>1
  <2> QED
    BY <1>5, <1>6, <2>3, <2>4
<1>10. /\ IsFiniteSet(DOMAIN K) /\ CaseLog(K)
       /\ IsFiniteSet(EventsOf(K)) /\ IsFiniteSet(EdgesOf(K)) /\ IsFiniteSet(Presence(K))
       /\ Cardinality(EdgesOf(K)) <= MaxCount /\ Cardinality(Presence(K)) <= MaxCount
  <2>1. CaseLog(K) /\ IsFiniteSet(DOMAIN K)
    BY DEF PartOf, CaseLog
  <2>2. IsFiniteSet(EventsOf(K)) /\ IsFiniteSet(EdgesOf(K)) /\ EdgesOf(K) \in SUBSET EventsOf(K)
    BY <2>1, EventsFinite
  <2>3. Cardinality(EdgesOf(K)) <= Cardinality(EventsOf(K)) /\ Cardinality(EdgesOf(K)) \in Nat
    BY <2>2, FS_Subset, FS_CardinalityType
  <2>4. /\ IsFiniteSet(Presence(K)) /\ Cardinality(Presence(K)) <= Cardinality(EventsOf(K))
        /\ Cardinality(Presence(K)) \in Nat
    BY <2>1, PresenceFinite, FS_CardinalityType
  <2> QED
    BY <1>6, <1>7, <1>8, <2>1, <2>2, <2>3, <2>4
<1>11. /\ AtMost(MaxCount, k.variants) /\ AtMost(MaxCount, k.start) /\ AtMost(MaxCount, k.end)
  <2>1. DOMAIN Followed(K) = DOMAIN K /\ DOMAIN Starts(K) = DOMAIN K /\ DOMAIN Ends(K) = DOMAIN K
    BY DEF Followed, Starts, Ends
  <2> QED
    BY <1>3, <1>6, <1>8, <1>10, <2>1, TallyAtMost
<1>12. AtMost(MaxCount, k.occurrence)
  <2> DEFINE f == [e \in EventsOf(K) |-> ActivityAt(K, e)]
  <2>1. DOMAIN f = EventsOf(K)
    OBVIOUS
  <2> HIDE DEF f
  <2>2. AtMost(MaxCount, Tally(f))
    BY <1>6, <1>8, <1>10, <2>1, TallyAtMost
  <2> QED
    BY <1>3, <2>2 DEF f
<1>13. AtMost(MaxCount, k.present)
  <2> DEFINE f == [q \in Presence(K) |-> q[2]]
  <2>1. DOMAIN f = Presence(K)
    OBVIOUS
  <2> HIDE DEF f
  <2>2. AtMost(MaxCount, Tally(f))
    BY <1>6, <1>10, <2>1, TallyAtMost
  <2> QED
    BY <1>3, <2>2 DEF f
<1>14. AtMost(MaxCount, k.dfg)
  <2> DEFINE f == [e \in EdgesOf(K) |-> EdgeAt(K, e)]
  <2>1. DOMAIN f = EdgesOf(K)
    OBVIOUS
  <2> HIDE DEF f
  <2>2. AtMost(MaxCount, Tally(f))
    BY <1>6, <1>10, <2>1, TallyAtMost
  <2> QED
    BY <1>3, <2>2 DEF f
<1>15. AtMost(MaxDuration, k.duration)
  <2>1. ASSUME NEW x \in EdgeNames(K) PROVE EdgeTotal(K, x) <= MaxDuration
    <3>1. /\ EdgeTotal(K, x) \in Nat /\ EdgeTotal(M, x) \in Nat
          /\ EdgeTotal(K, x) <= EdgeTotal(M, x) /\ x \in EdgeNames(M)
      BY PartTotal
    <3>2. EdgeTotal(M, x) <= MaxDuration
      BY <1>4, <1>5, <3>1 DEF AtMost
    <3> QED
      BY <1>6, <3>1, <3>2
  <2> QED
    BY <1>3, <2>1 DEF AtMost
<1> QED
  BY <1>1, <1>8, <1>9, <1>11, <1>12, <1>13, <1>14, <1>15 DEF CountsFit

-----------------------------------------------------------------------------
(* Batches on the wire.                                                    *)

\* A number reads as itself in its own byte order, and in the other one only if its
\* bytes are the same both ways.
LEMMA BytesRead ==
    ASSUME NEW n \in Nat, n < Base * Base, NEW o \in ByteOrders
    PROVE  /\ ReadInteger(Bytes(n, o), o) = n
           /\ \A p \in ByteOrders : ReadInteger(Bytes(n, o), p) = n => p = o \/ Ambiguous(n)
<1>1. Base \in Nat /\ Base > 1
  BY SizeAssumption
<1>2. PICK q, r : q = n \div Base /\ r = n % Base
  OBVIOUS
<1>3. q \in Nat /\ r \in 0 .. Base - 1 /\ n = Base * q + r
  BY <1>1, <1>2
<1>4. n = q * Base + r
  BY <1>1, <1>3
<1>5. ASSUME r * Base + q = n PROVE q = r
  <2>1. r * Base + q = q * Base + r
    BY <1>4, <1>5
  <2>2. q \in Int /\ r \in Int
    BY <1>3
  <2>3. (q - r) * (Base - 1) = (q * Base - r * Base) - (q - r)
    BY <1>1, <2>2
  <2>4. q * Base \in Int /\ r * Base \in Int
    BY <1>1, <2>2
  <2>5. (q - r) * (Base - 1) = 0
    BY <2>1, <2>2, <2>3, <2>4
  <2>6. \A a, b \in Int : a * b = 0 => a = 0 \/ b = 0
    OBVIOUS
  <2>7. q - r = 0 \/ Base - 1 = 0
    BY <1>1, <2>2, <2>5, <2>6
  <2> QED
    BY <1>1, <2>2, <2>7
<1>6. /\ Bytes(n, "big") = <<q, r>> /\ Bytes(n, "little") = <<r, q>>
  BY <1>2 DEF Bytes
<1>7. /\ ReadInteger(<<q, r>>, "big") = q * Base + r
      /\ ReadInteger(<<q, r>>, "little") = r * Base + q
      /\ ReadInteger(<<r, q>>, "big") = r * Base + q
      /\ ReadInteger(<<r, q>>, "little") = q * Base + r
  BY DEF ReadInteger
<1>8. q = r => Ambiguous(n)
  BY <1>6 DEF Ambiguous
<1>9. ReadInteger(Bytes(n, o), o) = n
  BY <1>4, <1>6, <1>7 DEF ByteOrders
<1>10. ASSUME NEW p \in ByteOrders, ReadInteger(Bytes(n, o), p) = n PROVE p = o \/ Ambiguous(n)
  BY <1>5, <1>6, <1>7, <1>8, <1>10 DEF ByteOrders
<1> QED
  BY <1>9, <1>10

\* What a server that keeps its word sends: cases of one path.
Honest(path, traces) ==
    /\ path \in Seq(STRING) /\ path # <<>> /\ Len(path) < Base * Base
    /\ Len(traces) \in Nat \ {0} /\ DOMAIN traces = 1 .. Len(traces)
    /\ \A k \in 1 .. Len(traces) : IsTrace(traces[k]) /\ Len(traces[k]) = Len(path)

LEMMA WireShape ==
    ASSUME NEW path, NEW traces, Honest(path, traces), NEW order \in ByteOrders,
           NEW wire, wire = Wire(path, traces, order)
    PROVE  /\ wire.activity_path = path
           /\ wire.activity_count = Len(path) /\ Len(path) \in Nat /\ Len(path) > 0
           /\ DOMAIN path = 1 .. Len(path)
           /\ wire.case_count = Len(traces) /\ wire.case_ids = Len(traces)
           /\ DOMAIN wire.records = 1 .. Len(traces)
           /\ Len(wire.records) = Len(traces)
           /\ \A k \in 1 .. Len(traces) :
                  /\ wire.records[k].header = Bytes(Len(path), order)
                  /\ \A i \in 1 .. Len(path) :
                         wire.records[k].stamps[i] = Bytes(traces[k][i].at, order)
<1>1. /\ Len(path) \in Nat /\ Len(path) > 0 /\ DOMAIN path = 1 .. Len(path)
      /\ Len(traces) \in Nat /\ DOMAIN traces = 1 .. Len(traces)
  BY DEF Honest
<1> DEFINE rec(k) == [header |-> Bytes(Len(path), order),
                      stamps |-> [i \in DOMAIN path |-> Bytes(traces[k][i].at, order)]]
           records == [k \in 1 .. Len(traces) |-> rec(k)]
<1>2. /\ wire.activity_path = path /\ wire.activity_count = Len(path)
      /\ wire.case_count = Len(traces) /\ wire.case_ids = Len(traces)
      /\ wire.records = records
  BY <1>1 DEF Wire
<1>3. DOMAIN records = 1 .. Len(traces) /\ Len(records) = Len(traces)
  <2> HIDE DEF rec
  <2> QED
    BY <1>1
<1>4. \A k \in 1 .. Len(traces) :
          /\ records[k].header = Bytes(Len(path), order)
          /\ \A i \in 1 .. Len(path) : records[k].stamps[i] = Bytes(traces[k][i].at, order)
  BY <1>1
<1> HIDE DEF records
<1> QED
  BY <1>1, <1>2, <1>3, <1>4

\* The timestamps of its cases.
TimesOf(traces, n) == [k \in 1 .. Len(traces) |-> [i \in 1 .. n |-> traces[k][i].at]]

\* Such a batch is decoded to its timestamps, or refused because the length of its path
\* reads the same both ways.
LEMMA DecodeHonest ==
    ASSUME NEW path, NEW traces, Honest(path, traces), NEW order \in ByteOrders,
           NEW wire, wire = Wire(path, traces, order)
    PROVE  /\ Decode(wire) = Absent => Ambiguous(Len(path))
           /\ Decode(wire) # Absent => Decode(wire) = TimesOf(traces, Len(path))
<1>1. /\ wire.activity_path = path
      /\ wire.activity_count = Len(path) /\ Len(path) \in Nat /\ Len(path) > 0
      /\ DOMAIN path = 1 .. Len(path)
      /\ wire.case_count = Len(traces) /\ wire.case_ids = Len(traces)
      /\ DOMAIN wire.records = 1 .. Len(traces)
      /\ Len(wire.records) = Len(traces)
      /\ \A k \in 1 .. Len(traces) :
             /\ wire.records[k].header = Bytes(Len(path), order)
             /\ \A i \in 1 .. Len(path) :
                    wire.records[k].stamps[i] = Bytes(traces[k][i].at, order)
  BY WireShape
<1>2. Len(path) < Base * Base /\ Len(traces) \in Nat /\ Len(traces) > 0
  BY DEF Honest
<1>3. order \in OrdersOf(wire) /\ \A o \in OrdersOf(wire) : o = order \/ Ambiguous(Len(path))
  <2>1. wire.records[1].header = Bytes(Len(path), order)
    BY <1>1, <1>2
  <2>2. /\ ReadInteger(Bytes(Len(path), order), order) = Len(path)
        /\ \A p \in ByteOrders :
               ReadInteger(Bytes(Len(path), order), p) = Len(path) => p = order \/ Ambiguous(Len(path))
    BY <1>1, <1>2, BytesRead
  <2> QED
    BY <1>1, <2>1, <2>2 DEF OrdersOf
<1>4. \A k \in 1 .. Len(traces) : \A i \in 1 .. Len(path) :
          ReadInteger(wire.records[k].stamps[i], order) = traces[k][i].at /\ traces[k][i].at \in Int
  <2> TAKE k \in 1 .. Len(traces)
  <2> TAKE i \in 1 .. Len(path)
  <2>1. IsTrace(traces[k]) /\ Len(traces[k]) = Len(path)
    BY DEF Honest
  <2>2. traces[k] \in Seq(TracedEvents) /\ i \in 1 .. Len(traces[k])
    BY <2>1 DEF IsTrace
  <2>3. traces[k][i] \in TracedEvents
    BY <2>2
  <2>4. traces[k][i].at \in 0 .. Base * Base - 1
    BY <2>3 DEF TracedEvents
  <2>5. traces[k][i].at \in Nat /\ traces[k][i].at < Base * Base
    <3>1. Base * Base \in Nat
      BY SizeAssumption
    <3> QED
      BY <2>4, <3>1
  <2> QED
    BY <1>1, <2>5, BytesRead
<1>5. Shaped(wire, order)
  <2>1. \A k \in 1 .. Len(traces) : ReadInteger(wire.records[k].header, order) = wire.activity_count
    BY <1>1, <1>2, BytesRead
  <2> QED
    BY <1>1, <1>2, <2>1 DEF Shaped
<1>6. Timestamps(wire, order) = TimesOf(traces, Len(path))
  BY <1>1, <1>4 DEF Timestamps, TimesOf
<1>7. Timestamps(wire, order) # Absent
  <2> DEFINE row(k) == [i \in 1 .. Len(path) |-> traces[k][i].at]
  <2>1. \A k \in 1 .. Len(traces) : row(k) \in Seq(Int)
    BY <1>1, <1>4
  <2> HIDE DEF row
  <2>2. [k \in 1 .. Len(traces) |-> row(k)] \in Seq(Seq(Int))
    BY <1>2, <2>1
  <2> QED
    BY <1>6, <2>2, SizeAssumption DEF row, TimesOf
<1>8. CASE OrdersOf(wire) = {order}
  <2>1. Cardinality(OrdersOf(wire)) = 1 /\ (CHOOSE o \in OrdersOf(wire) : TRUE) = order
    BY <1>8, FS_Singleton
  <2>2. Decode(wire) = Timestamps(wire, order)
    BY <1>5, <2>1 DEF Decode
  <2> QED
    BY <1>6, <1>7, <2>2
<1>9. CASE OrdersOf(wire) # {order}
  <2>1. Ambiguous(Len(path))
    BY <1>3, <1>9
  <2>2. PICK o \in OrdersOf(wire) : o # order
    BY <1>3, <1>9
  <2>3. Cardinality(OrdersOf(wire)) # 1
    <3>1. ASSUME Cardinality(OrdersOf(wire)) = 1 PROVE FALSE
      <4>1. IsFiniteSet(ByteOrders)
        <5>1. ByteOrders = {"little"} \cup {"big"}
          BY DEF ByteOrders
        <5>2. IsFiniteSet({"little"}) /\ IsFiniteSet({"big"})
          BY FS_Singleton
        <5> QED
          BY <5>1, <5>2, FS_Union
      <4>2. IsFiniteSet(OrdersOf(wire))
        <5>1. OrdersOf(wire) \in SUBSET ByteOrders
          BY DEF OrdersOf
        <5> QED
          BY <4>1, <5>1, FS_Subset
      <4>3. PICK x : OrdersOf(wire) = {x}
        BY <3>1, <4>2, FS_Singleton
      <4> QED
        BY <1>3, <2>2, <4>3
    <3> QED
      BY <3>1
  <2>4. Decode(wire) = Absent
    BY <2>3 DEF Decode
  <2> QED
    BY <2>1, <2>4
<1> QED
  BY <1>8, <1>9

\* A batch whose dimensions do not describe its payload is refused.
LEMMA DecodeMisshapen ==
    ASSUME NEW path, NEW traces, Honest(path, traces), NEW order \in ByteOrders,
           NEW wire, wire = Wire(path, traces, order), NEW other \in Misshapen(wire)
    PROVE  Decode(other) = Absent
<1>1. /\ wire.activity_path = path
      /\ wire.activity_count = Len(path) /\ Len(path) \in Nat /\ Len(path) > 0
      /\ wire.case_count = Len(traces) /\ wire.case_ids = Len(traces)
      /\ DOMAIN wire.records = 1 .. Len(traces)
      /\ Len(wire.records) = Len(traces)
      /\ Len(traces) \in Nat /\ Len(traces) > 0
  BY WireShape DEF Honest
<1>2. SUFFICES ASSUME Decode(other) # Absent PROVE FALSE
  OBVIOUS
<1>3. PICK o : Shaped(other, o)
  BY <1>2 DEF Decode
<1>4. /\ other.activity_count > 0 /\ Len(other.activity_path) = other.activity_count
      /\ other.case_ids = other.case_count /\ Len(other.records) = other.case_count
      /\ \A k \in DOMAIN other.records :
             ReadInteger(other.records[k].header, o) = other.activity_count
  BY <1>3 DEF Shaped
<1>5. \/ other = [wire EXCEPT !.activity_count = @ - 1]
      \/ other = [wire EXCEPT !.case_count = @ - 1]
      \/ other = [wire EXCEPT !.case_ids = @ - 1]
      \/ other = [wire EXCEPT !.records[Len(wire.records)].header = <<0, 0>>]
  BY DEF Misshapen
<1>6. wire = [activity_path |-> wire.activity_path, activity_count |-> wire.activity_count,
              case_count |-> wire.case_count, case_ids |-> wire.case_ids,
              records |-> wire.records]
  BY DEF Wire
<1>7. CASE other = [wire EXCEPT !.activity_count = @ - 1]
  <2>1. other.activity_count = wire.activity_count - 1 /\ other.activity_path = wire.activity_path
    BY <1>6, <1>7
  <2> QED
    BY <1>1, <1>4, <2>1
<1>8. CASE other = [wire EXCEPT !.case_count = @ - 1]
  <2>1. other.case_count = wire.case_count - 1 /\ other.case_ids = wire.case_ids
    BY <1>6, <1>8
  <2> QED
    BY <1>1, <1>4, <2>1
<1>9. CASE other = [wire EXCEPT !.case_ids = @ - 1]
  <2>1. other.case_ids = wire.case_ids - 1 /\ other.case_count = wire.case_count
    BY <1>6, <1>9
  <2>2. wire.case_ids = Len(traces) /\ wire.case_count = Len(traces) /\ Len(traces) \in Nat
    BY <1>1
  <2>3. other.case_ids = other.case_count
    BY <1>4
  <2> QED
    BY <2>1, <2>2, <2>3
<1>10. CASE other = [wire EXCEPT !.records[Len(wire.records)].header = <<0, 0>>]
  <2> DEFINE m == Len(wire.records)
  <2>1. m \in DOMAIN wire.records
    BY <1>1
  <2>2. other.records = [wire.records EXCEPT ![m].header = <<0, 0>>]
        /\ other.activity_count = wire.activity_count
    BY <1>6, <1>10
  <2>3. m \in DOMAIN other.records /\ other.records[m] = [wire.records[m] EXCEPT !.header = <<0, 0>>]
    BY <2>1, <2>2
  <2>4. wire.records[m] = [header |-> wire.records[m].header, stamps |-> wire.records[m].stamps]
    BY <1>1, <2>1 DEF Wire
  <2>5. other.records[m].header = <<0, 0>>
    <3> HIDE DEF m
    <3> QED
      BY <2>3, <2>4
  <2>6. ReadInteger(<<0, 0>>, o) = 0
    BY SizeAssumption DEF ReadInteger
  <2>7. ReadInteger(other.records[m].header, o) = other.activity_count
    BY <1>4, <2>3
  <2>8. other.activity_count = Len(path)
    BY <1>1, <2>2
  <2>9. Len(path) = 0
    BY <2>5, <2>6, <2>7, <2>8, Zenon
  <2> QED
    BY <1>1, <2>9
<1> QED
  BY <1>5, <1>7, <1>8, <1>9, <1>10

\* The sequence of a set names each element once.
LEMMA SetToSeqNames ==
    ASSUME NEW C, IsFiniteSet(C), NEW ids, ids = SetToSeq(C)
    PROVE  /\ ids \in [1 .. Cardinality(C) -> C] /\ Len(ids) = Cardinality(C)
           /\ \A j, k \in 1 .. Cardinality(C) : ids[j] = ids[k] => j = k
           /\ \A c \in C : \E k \in 1 .. Cardinality(C) : ids[k] = c
<1>1. PICK n : n = Cardinality(C)
  OBVIOUS
<1>2. n \in Nat /\ ExistsBijection(1 .. n, C)
  BY <1>1, FS_CardinalityType
<1>3. PICK f \in [1 .. n -> C] : IsInjective(f)
  BY <1>2 DEF ExistsBijection, Bijection, Injection
<1>4. ids \in [1 .. n -> C] /\ IsInjective(ids)
  BY <1>1, <1>3 DEF SetToSeq
<1>5. ids \in Injection(1 .. n, C)
  BY <1>4 DEF Injection
<1>6. Cardinality(1 .. n) = n
  BY <1>2, FS_Interval
<1>7. ids \in Surjection(1 .. n, C)
  BY <1>1, <1>5, <1>6, FS_Injection
<1>8. Len(ids) = n
  BY <1>2, <1>4
<1> QED
  BY <1>1, <1>4, <1>7, <1>8 DEF IsInjective, Surjection

-----------------------------------------------------------------------------
(* The first events of each case.                                          *)

Cuts(M, n) == n \in [DOMAIN M -> Nat] /\ \A c \in DOMAIN M : n[c] <= Len(M[c])

\* The cases with an event before their cut, up to it, one case left out.
Taken(M, n, skip) ==
    [c \in {d \in DOMAIN M : n[d] > 0 /\ d # skip} |-> SubSeq(M[c], 1, n[c])]

PathTo(t, k) == [i \in 1 .. k |-> t[i].activity]
StampsTo(t, k) == [i \in 1 .. k |-> t[i].at]

LEMMA PrefixTrace ==
    ASSUME NEW t, IsTrace(t), NEW k \in Nat, k > 0, k <= Len(t)
    PROVE  /\ IsTrace(SubSeq(t, 1, k)) /\ Len(SubSeq(t, 1, k)) = k
           /\ \A i \in 1 .. k : SubSeq(t, 1, k)[i] = t[i]
           /\ Path(SubSeq(t, 1, k)) = PathTo(t, k)
           /\ k = Len(t) => SubSeq(t, 1, k) = t
<1>1. t \in Seq(TracedEvents) /\ Len(t) \in Nat /\ \A i \in 1 .. Len(t) - 1 : t[i].at <= t[i + 1].at
  BY DEF IsTrace
<1>2. PICK s : s = SubSeq(t, 1, k)
  OBVIOUS
<1>3. s = [i \in 1 .. k |-> t[i]]
  BY <1>1, <1>2
<1>4. s \in Seq(TracedEvents) /\ Len(s) = k /\ s # <<>>
  <2>1. \A i \in 1 .. k : t[i] \in TracedEvents
    <3> TAKE i \in 1 .. k
    <3>1. i \in 1 .. Len(t)
      BY <1>1
    <3> QED
      BY <1>1, <3>1
  <2> QED
    BY <1>3, <2>1
<1>5. \A i \in 1 .. Len(s) - 1 : s[i].at <= s[i + 1].at
  <2> TAKE i \in 1 .. Len(s) - 1
  <2>1. i \in 1 .. Len(t) - 1 /\ i \in 1 .. k /\ i + 1 \in 1 .. k
    BY <1>1, <1>4
  <2> QED
    BY <1>1, <1>3, <2>1
<1>6. Path(s) = PathTo(t, k)
  BY <1>3 DEF Path, PathTo
<1>7. k = Len(t) => s = t
  BY <1>1, <1>3
<1> QED
  BY <1>2, <1>3, <1>4, <1>5, <1>6, <1>7 DEF IsTrace

\* What such a log is.
TakenAs(K, M, n, skip) ==
    /\ PartOf(K, M) /\ CaseLog(K)
    /\ DOMAIN K = {d \in DOMAIN M : n[d] > 0 /\ d # skip}
    /\ \A c \in DOMAIN K : K[c] = SubSeq(M[c], 1, n[c])
    /\ \A c \in DOMAIN K : /\ Len(K[c]) = n[c] /\ Path(K[c]) = PathTo(M[c], n[c])
                           /\ \A i \in 1 .. n[c] : K[c][i] = M[c][i]

LEMMA TakenPart ==
    ASSUME NEW M, CaseLog(M), NEW n, Cuts(M, n), NEW skip, NEW K, K = Taken(M, n, skip)
    PROVE  TakenAs(K, M, n, skip)
<1>2. /\ DOMAIN K = {d \in DOMAIN M : n[d] > 0 /\ d # skip}
      /\ \A c \in DOMAIN K : K[c] = SubSeq(M[c], 1, n[c])
      /\ K = [c \in DOMAIN K |-> K[c]]
  BY DEF Taken
<1>3. \A c \in DOMAIN K : /\ IsTrace(K[c]) /\ Len(K[c]) = n[c] /\ n[c] <= Len(M[c])
                          /\ \A i \in 1 .. n[c] : K[c][i] = M[c][i]
                          /\ Path(K[c]) = PathTo(M[c], n[c])
  <2> TAKE c \in DOMAIN K
  <2>1. n[c] \in Nat /\ n[c] > 0 /\ n[c] <= Len(M[c]) /\ IsTrace(M[c])
    BY <1>2 DEF Cuts, CaseLog
  <2>2. K[c] = SubSeq(M[c], 1, n[c])
    BY <1>2
  <2>3. /\ IsTrace(SubSeq(M[c], 1, n[c])) /\ Len(SubSeq(M[c], 1, n[c])) = n[c]
        /\ \A i \in 1 .. n[c] : SubSeq(M[c], 1, n[c])[i] = M[c][i]
        /\ Path(SubSeq(M[c], 1, n[c])) = PathTo(M[c], n[c])
    BY <2>1, PrefixTrace
  <2> QED
    BY <2>1, <2>2, <2>3
<1>4. IsFiniteSet(DOMAIN K)
  <2>1. DOMAIN K \in SUBSET DOMAIN M /\ IsFiniteSet(DOMAIN M)
    BY <1>2 DEF CaseLog
  <2> QED
    BY <2>1, FS_Subset
<1>5. CaseLog(K)
  BY <1>2, <1>3, <1>4 DEF CaseLog
<1>6. PartOf(K, M)
  BY <1>2, <1>3, <1>5 DEF PartOf
<1> QED
  BY <1>2, <1>3, <1>5, <1>6 DEF TakenAs

LEMMA TakenWhole ==
    ASSUME NEW M, CaseLog(M), NEW n, Cuts(M, n), \A c \in DOMAIN M : n[c] = Len(M[c]),
           NEW skip, skip \notin DOMAIN M
    PROVE  Taken(M, n, skip) = M
<1>1. \A c \in DOMAIN M : /\ n[c] \in Nat /\ n[c] > 0 /\ IsTrace(M[c])
                          /\ n[c] = Len(M[c])
  BY TraceParts DEF CaseLog
<1>2. \A c \in DOMAIN M : SubSeq(M[c], 1, n[c]) = M[c]
  <2> TAKE c \in DOMAIN M
  <2>1. n[c] <= Len(M[c])
    BY <1>1
  <2> QED
    BY <1>1, <2>1, PrefixTrace
<1>3. {d \in DOMAIN M : n[d] > 0 /\ d # skip} = DOMAIN M
  BY <1>1
<1>4. Taken(M, n, skip) = [c \in DOMAIN M |-> M[c]]
  BY <1>2, <1>3 DEF Taken
<1> QED
  BY <1>4 DEF CaseLog

LEMMA TakenNone ==
    ASSUME NEW M, NEW n, \A c \in DOMAIN M : n[c] = 0, NEW skip, NEW packed
    PROVE  SummaryOf(Taken(M, n, skip), packed) = NewBuilder
<1>1. DOMAIN Taken(M, n, skip) = {}
  BY DEF Taken
<1> QED
  BY <1>1, SummaryEmpty

\* A case that was buffered and is pushed.
LEMMA TakenPush ==
    ASSUME NEW M, CaseLog(M), NEW n, Cuts(M, n), NEW c \in DOMAIN M, n[c] > 0,
           NEW skip, skip \notin DOMAIN M
    PROVE  PushCase(SummaryOf(Taken(M, n, c), FALSE), PathTo(M[c], n[c]), StampsTo(M[c], n[c]))
               = SummaryOf(Taken(M, n, skip), FALSE)
<1>1. PICK K : K = Taken(M, n, c)
  OBVIOUS
<1>2. PICK L : L = Taken(M, n, skip)
  OBVIOUS
<1>3. PICK path : path = PathTo(M[c], n[c])
  OBVIOUS
<1>4. PICK times : times = StampsTo(M[c], n[c])
  OBVIOUS
<1>5. /\ CaseLog(K) /\ DOMAIN K = {d \in DOMAIN M : n[d] > 0 /\ d # c}
      /\ \A d \in DOMAIN K : K[d] = SubSeq(M[d], 1, n[d])
  <2>1. TakenAs(K, M, n, c)
    BY <1>1, TakenPart
  <2> QED
    BY <2>1 DEF TakenAs
<1>6. /\ CaseLog(L) /\ DOMAIN L = {d \in DOMAIN M : n[d] > 0 /\ d # skip}
      /\ \A d \in DOMAIN L : L[d] = SubSeq(M[d], 1, n[d])
      /\ \A d \in DOMAIN L : /\ Path(L[d]) = PathTo(M[d], n[d])
                             /\ \A i \in 1 .. n[d] : L[d][i] = M[d][i]
  <2>1. TakenAs(L, M, n, skip)
    BY <1>2, TakenPart
  <2> QED
    BY <2>1 DEF TakenAs
<1>7. n[c] \in Nat /\ n[c] > 0 /\ n[c] <= Len(M[c]) /\ IsTrace(M[c])
  BY DEF Cuts, CaseLog
<1>8. Path(L[c]) = path /\ \A i \in 1 .. n[c] : L[c][i] = M[c][i]
  BY <1>3, <1>6, <1>7
<1>9. Grown(L, K, {c}, path)
  <2>1. DOMAIN L = DOMAIN K \cup {c} /\ DOMAIN K \cap {c} = {} /\ {c} # {}
    BY <1>5, <1>6
  <2>2. \A d \in DOMAIN K : L[d] = K[d]
    BY <1>5, <1>6, <2>1
  <2> QED
    BY <1>5, <1>6, <1>8, <2>1, <2>2 DEF Grown
<1>10. PICK C, ids, stamps, packed :
           C = {c} /\ ids = <<c>> /\ stamps = <<times>> /\ packed = FALSE
  OBVIOUS
<1>11. Len(path) = n[c]
  BY <1>3, <1>7 DEF PathTo
<1>12. Cardinality(C) = 1
  BY <1>10, FS_Singleton
<1>13. Stamped(L, C, path, ids, stamps)
  <2>1. /\ ids \in [1 .. 1 -> C] /\ DOMAIN stamps = 1 .. 1 /\ Len(stamps) = 1
        /\ \A k \in 1 .. 1 : k = 1 /\ ids[k] = c /\ stamps[k] = times
    BY <1>10
  <2>2. \A k \in 1 .. 1 : \A i \in 1 .. Len(path) : stamps[k][i] = L[ids[k]][i].at
    BY <1>4, <1>8, <1>11, <2>1 DEF StampsTo
  <2>3. \A d \in C : \E k \in 1 .. 1 : ids[k] = d
    <3>1. 1 \in 1 .. 1
      OBVIOUS
    <3> QED
      BY <1>10, <2>1, <3>1
  <2>4. \A j, k \in 1 .. 1 : ids[j] = ids[k] => j = k
    OBVIOUS
  <2> QED
    BY <1>12, <2>1, <2>2, <2>3, <2>4 DEF Stamped
<1>14. Grown(L, K, C, path)
  BY <1>9, <1>10
<1>15. SummaryOf(L, packed) =
           AddCases(SummaryOf(K, packed), path, stamps,
                    IF packed
                    THEN Len(stamps) * (IdBytes + HeaderBytes + StampBytes * Len(path))
                    ELSE 0)
  BY <1>13, <1>14, SummaryGrows
<1>16. SummaryOf(L, FALSE) = AddCases(SummaryOf(K, FALSE), path, <<times>>, 0)
  BY <1>10, <1>15
<1> QED
  BY <1>1, <1>2, <1>3, <1>4, <1>16 DEF PushCase

\* The cut of a window once whole cases of it are folded.
Folded(M, n, C) == [c \in DOMAIN M |-> IF c \in C THEN Len(M[c]) ELSE n[c]]

\* Cases of one path that are still to come.
OnePath(M, n, C, path) ==
    /\ CaseLog(M) /\ Cuts(M, n)
    /\ C \in SUBSET DOMAIN M /\ C # {}
    /\ \A c \in C : n[c] = 0 /\ Path(M[c]) = path

\* Whole cases of one path that are added.
LEMMA TakenBatch ==
    ASSUME NEW M, NEW n, NEW C, NEW path, OnePath(M, n, C, path),
           NEW p, p = Folded(M, n, C), Cuts(M, p), NEW skip, skip \notin DOMAIN M
    PROVE  /\ Grown(Taken(M, p, skip), Taken(M, n, skip), C, path)
           /\ \A c \in C : Taken(M, p, skip)[c] = M[c]
<1>a. /\ CaseLog(M) /\ Cuts(M, n) /\ C \in SUBSET DOMAIN M /\ C # {}
      /\ \A c \in C : n[c] = 0 /\ Path(M[c]) = path
  BY DEF OnePath
<1>b. \A c \in DOMAIN M : p[c] = IF c \in C THEN Len(M[c]) ELSE n[c]
  BY DEF Folded
<1>1. PICK K : K = Taken(M, n, skip)
  OBVIOUS
<1>2. PICK L : L = Taken(M, p, skip)
  OBVIOUS
<1>3. /\ CaseLog(K) /\ DOMAIN K = {d \in DOMAIN M : n[d] > 0 /\ d # skip}
      /\ \A d \in DOMAIN K : K[d] = SubSeq(M[d], 1, n[d])
  <2>1. TakenAs(K, M, n, skip)
    BY <1>1, <1>a, TakenPart
  <2> QED
    BY <2>1 DEF TakenAs
<1>4. /\ CaseLog(L) /\ DOMAIN L = {d \in DOMAIN M : p[d] > 0 /\ d # skip}
      /\ \A d \in DOMAIN L : L[d] = SubSeq(M[d], 1, p[d])
  <2>1. TakenAs(L, M, p, skip)
    BY <1>2, <1>a, TakenPart
  <2> QED
    BY <2>1 DEF TakenAs
<1>5. \A c \in C : IsTrace(M[c]) /\ p[c] = Len(M[c]) /\ p[c] \in Nat /\ p[c] > 0 /\ p[c] <= Len(M[c])
  BY <1>a, <1>b, TraceParts DEF CaseLog
<1>6. \A c \in C : c \in DOMAIN L /\ L[c] = M[c]
  <2> TAKE c \in C
  <2>1. SubSeq(M[c], 1, p[c]) = M[c]
    BY <1>5, PrefixTrace
  <2> QED
    BY <1>4, <1>5, <1>a, <2>1
<1>7. DOMAIN K \cap C = {}
  BY <1>3, <1>a
<1>8. DOMAIN L = DOMAIN K \cup C
  <2>1. \A d \in DOMAIN M : d \notin C => p[d] = n[d]
    BY <1>b
  <2> QED
    BY <1>3, <1>4, <1>6, <1>a, <2>1
<1>9. \A d \in DOMAIN K : L[d] = K[d]
  <2> TAKE d \in DOMAIN K
  <2>1. d \in DOMAIN L /\ d \in DOMAIN M /\ d \notin C /\ p[d] = n[d]
    BY <1>3, <1>7, <1>8, <1>b
  <2> QED
    BY <1>3, <1>4, <2>1
<1>10. Grown(L, K, C, path)
  BY <1>3, <1>4, <1>6, <1>7, <1>8, <1>9, <1>a DEF Grown
<1> QED
  BY <1>1, <1>2, <1>6, <1>10

-----------------------------------------------------------------------------
(* What holds while a call runs.                                           *)

AllRows == UNION {RowsIn(w) : w \in Windows}
Waiting(w, c, i) == <<w, c, i>> \in left \/ pending = <<w, c, i>>
LengthOf(w, c) == Len(windowLog[w][c])

\* Of every case some first events are folded or buffered; the server, or the reader's
\* one fetched row, has the others.
CutAt(cut) ==
    /\ DOMAIN cut = Windows
    /\ \A w \in Windows : Cuts(windowLog[w], cut[w])
    /\ \A w \in Windows : \A c \in DOMAIN windowLog[w] : \A i \in 1 .. LengthOf(w, c) :
           Waiting(w, c, i) <=> i > cut[w][c]

\* The case of a window that is buffered.
Buffered(w) == IF w = window THEN open.case ELSE Absent

\* Every builder is the summary of what was folded into it.
BuiltTo(cut) ==
    /\ builders = [w \in Windows |-> builders[w]]
    /\ \A w \in Windows :
           builders[w] = SummaryOf(Taken(windowLog[w], cut[w], Buffered(w)), reader = "batches")

\* Batches are whole cases; before a strategy is chosen nothing is read.
BatchState(cut) ==
    /\ pending = Absent /\ open = NoCase /\ window = 1
    /\ \A w \in Windows : \A c \in DOMAIN windowLog[w] : cut[w][c] \in {0, LengthOf(w, c)}
    /\ \A w \in Windows : database_rows[w] <= Cardinality(DOMAIN Taken(windowLog[w], cut[w], Absent))
    /\ reader = Absent => \A w \in Windows : \A c \in DOMAIN windowLog[w] : cut[w][c] = 0

\* The buffered case is the first events of a case of the window.
OpenTo(cut) ==
    \/ open = NoCase
    \/ /\ open.case \in DOMAIN windowLog[window]
       /\ cut[window][open.case] > 0
       /\ open = [case |-> open.case,
                  path |-> PathTo(windowLog[window][open.case], cut[window][open.case]),
                  times |-> StampsTo(windowLog[window][open.case], cut[window][open.case])]

\* The fetched row belongs to the buffered case.
Continues == pending[1] = window /\ pending[2] = open.case

\* Rows that came case by case, window by window: only the buffered case is in part
\* folded, and the fetched row is its next or the first of another case.
InOrder(cut) ==
    /\ \A q \in left : q[1] >= window
    /\ pending # Absent =>
           /\ pending[1] >= window
           /\ \A q \in left : q[1] >= pending[1]
           /\ pending[3] = IF Continues THEN cut[window][open.case] + 1 ELSE 1
    /\ \A w \in Windows : \A c \in DOMAIN windowLog[w] :
           \/ cut[w][c] \in {0, LengthOf(w, c)}
           \/ w = window /\ c = open.case /\ (pending # Absent => Continues)

RowState(cut) ==
    /\ OpenTo(cut)
    /\ \A w \in Windows : w > window => \A c \in DOMAIN windowLog[w] : cut[w][c] = 0
    /\ \A w \in Windows :
           database_rows[w] <= Cardinality(EventsOf(Taken(windowLog[w], cut[w], Absent)))
    /\ reader = "rows" => /\ \A q \in left : q[1] >= window
                          /\ pending # Absent => pending[1] = window
    /\ tidy => InOrder(cut)

Running(cut) ==
    /\ windowLog \in WindowLogs /\ window \in Windows
    /\ left \subseteq AllRows /\ (pending = Absent \/ pending \in AllRows) /\ pending \notin left
    /\ database_rows \in [Windows -> Nat]
    /\ CutAt(cut)
    /\ BuiltTo(cut)
    /\ \/ reader \in {Absent, "batches"} /\ BatchState(cut)
       \/ reader \in {"rows", "row_stream"} /\ RowState(cut)

SummaryInv ==
    /\ outcome = "running" => \E cut : Running(cut)
    /\ SummaryExact
    /\ RefusedForCause

LEMMA LogParts ==
    ASSUME windowLog \in WindowLogs, NEW w \in Windows
    PROVE  /\ CaseLog(windowLog[w]) /\ Absent \notin DOMAIN windowLog[w]
           /\ \A c \in DOMAIN windowLog[w] :
                  LengthOf(w, c) \in Nat /\ LengthOf(w, c) > 0 /\ LengthOf(w, c) < Base * Base
<1>1. /\ windowLog[w] \in [DOMAIN windowLog[w] -> Seq(TracedEvents)]
      /\ IsFiniteSet(DOMAIN windowLog[w]) /\ Absent \notin DOMAIN windowLog[w]
      /\ \A c \in DOMAIN windowLog[w] : IsTrace(windowLog[w][c]) /\ Len(windowLog[w][c]) < Base * Base
  BY LogAssumption
<1>2. CaseLog(windowLog[w])
  BY <1>1 DEF CaseLog
<1> QED
  BY <1>1, <1>2, TraceParts DEF LengthOf

LEMMA RowParts ==
    ASSUME windowLog \in WindowLogs
    PROVE  /\ \A r \in AllRows :
                  /\ r = <<r[1], r[2], r[3]>> /\ r[1] \in Windows /\ r[2] \in DOMAIN windowLog[r[1]]
                  /\ r[3] \in 1 .. LengthOf(r[1], r[2]) /\ r[2] # Absent
           /\ \A w, c, i : w \in Windows /\ c \in DOMAIN windowLog[w] /\ i \in 1 .. LengthOf(w, c)
                               => <<w, c, i>> \in AllRows
           /\ Absent \notin AllRows
<1>1. \A w \in Windows : \A c \in DOMAIN windowLog[w] : DOMAIN windowLog[w][c] = 1 .. LengthOf(w, c)
  <2> TAKE w \in Windows
  <2> TAKE c \in DOMAIN windowLog[w]
  <2>1. IsTrace(windowLog[w][c])
    BY LogParts DEF CaseLog
  <2> QED
    BY <2>1, TraceParts DEF LengthOf
<1>2. ASSUME NEW r \in AllRows
      PROVE  /\ r = <<r[1], r[2], r[3]>> /\ r[1] \in Windows /\ r[2] \in DOMAIN windowLog[r[1]]
             /\ r[3] \in 1 .. LengthOf(r[1], r[2])
  <2>1. PICK w \in Windows : r \in RowsIn(w)
    BY DEF AllRows
  <2>2. PICK c \in DOMAIN windowLog[w] : r \in {<<w, c, i>> : i \in DOMAIN windowLog[w][c]}
    BY <2>1 DEF RowsIn
  <2>3. PICK i \in DOMAIN windowLog[w][c] : r = <<w, c, i>>
    BY <2>2
  <2>4. r[1] = w /\ r[2] = c /\ r[3] = i
    BY <2>3
  <2> QED
    BY <1>1, <2>3, <2>4
<1>3. \A w, c, i : w \in Windows /\ c \in DOMAIN windowLog[w] /\ i \in 1 .. LengthOf(w, c)
                       => <<w, c, i>> \in AllRows
  <2> TAKE w, c, i
  <2> HAVE w \in Windows /\ c \in DOMAIN windowLog[w] /\ i \in 1 .. LengthOf(w, c)
  <2>1. i \in DOMAIN windowLog[w][c]
    BY <1>1
  <2>2. <<w, c, i>> \in RowsIn(w)
    BY <2>1 DEF RowsIn
  <2> QED
    BY <2>2 DEF AllRows
<1>4. \A r \in AllRows : r[2] # Absent
  BY <1>2, LogParts
<1>5. Absent \notin AllRows
  <2>1. SUFFICES ASSUME Absent \in AllRows PROVE FALSE
    OBVIOUS
  <2>2. PICK w, c, i : /\ Absent = <<w, c, i>> /\ w \in Windows /\ c \in DOMAIN windowLog[w]
                       /\ i \in 1 .. LengthOf(w, c)
    BY <1>2, <2>1
  <2>3. i \in Nat
    BY <2>2, LogParts
  <2>4. Absent \in Windows \X (DOMAIN windowLog[w]) \X Nat
    BY <2>2, <2>3
  <2> QED
    BY <2>2, <2>4, SizeAssumption
<1> QED
  BY <1>2, <1>3, <1>4, <1>5

\* A call that ends with an error keeps the promise if the error has its cause.
LEMMA EndedFor ==
    ASSUME windowLog' = windowLog, reader' = reader, outcome' \notin {"running", "ok"},
           outcome' \in {"InvalidWindowOrdinal", "UnexpectedWindow"} => ~tidy',
           outcome' = "InvalidEventLogOrder" =>
               ~tidy' \/ \E w \in Windows : \E c \in DOMAIN windowLog[w] :
                             Bounded /\ LengthOf(w, c) >= MaxOrdinal,
           outcome' = "InvalidBatch" =>
               ~tidy' \/ \E w \in Windows : \E c \in DOMAIN windowLog[w] : Ambiguous(LengthOf(w, c)),
           outcome' = "CountOverflow" => \E w \in Windows : ~CountsFit(Reference(w))
    PROVE  SummaryInv'
<1>1. outcome' # "running" /\ SummaryExact'
  BY DEF SummaryExact
<1> DEFINE traces == UNION {{windowLog[w][c] : c \in DOMAIN windowLog[w]} : w \in Windows}
<1>2. \A w \in Windows : \A c \in DOMAIN windowLog[w] :
          windowLog[w][c] \in traces /\ Len(windowLog[w][c]) = LengthOf(w, c)
  BY DEF LengthOf
<1>3. traces' = traces /\ Bounded' = Bounded /\ \A w \in Windows : Reference(w)' = Reference(w)
  BY DEF Bounded, Reference
<1>4. outcome' = "InvalidEventLogOrder" =>
          ~tidy' \/ \E t \in traces : Bounded /\ Len(t) >= MaxOrdinal
  <2> HIDE DEF traces
  <2> QED
    BY <1>2
<1>5. outcome' = "InvalidBatch" => ~tidy' \/ \E t \in traces : Ambiguous(Len(t))
  <2> HIDE DEF traces
  <2> QED
    BY <1>2
<1>6. RefusedForCause'
  BY <1>3, <1>4, <1>5 DEF RefusedForCause
<1> QED
  BY <1>1, <1>6 DEF SummaryInv

LEMMA SummaryInitial ==
    ASSUME SummaryInit
    PROVE  SummaryInv
<1>1. /\ windowLog \in WindowLogs /\ reader = Absent
      /\ left = UNION {RowsIn(w) : w \in Windows}
      /\ pending = Absent /\ window = 1 /\ open = NoCase
      /\ builders = [w \in Windows |-> NewBuilder]
      /\ database_rows = [w \in Windows |-> 0] /\ outcome = "running"
  BY DEF SummaryInit, SummaryFrom
<1> DEFINE cut == [w \in Windows |-> [c \in DOMAIN windowLog[w] |-> 0]]
<1>2. \A w \in Windows : /\ DOMAIN cut[w] = DOMAIN windowLog[w] /\ cut[w] \in [DOMAIN windowLog[w] -> Nat]
                         /\ \A c \in DOMAIN windowLog[w] : cut[w][c] = 0
  OBVIOUS
<1>3. DOMAIN cut = Windows
  OBVIOUS
<1> HIDE DEF cut
<1>4. left = AllRows /\ window \in Windows
  BY <1>1, LogAssumption DEF AllRows, Windows
<1>5. pending \notin left
  BY <1>1, <1>4, RowParts
<1>6. CutAt(cut)
  <2>1. \A w \in Windows : Cuts(windowLog[w], cut[w])
    <3> TAKE w \in Windows
    <3>1. \A c \in DOMAIN windowLog[w] : cut[w][c] <= Len(windowLog[w][c])
      BY <1>1, <1>2, LogParts DEF LengthOf
    <3> QED
      BY <1>2, <3>1 DEF Cuts
  <2>2. ASSUME NEW w \in Windows, NEW c \in DOMAIN windowLog[w], NEW i \in 1 .. LengthOf(w, c)
        PROVE  Waiting(w, c, i) /\ i > cut[w][c]
    <3>1. <<w, c, i>> \in left
      BY <1>1, <1>4, RowParts
    <3> QED
      BY <1>2, <3>1 DEF Waiting
  <2> QED
    BY <1>3, <2>1, <2>2 DEF CutAt
<1>7. BuiltTo(cut)
  <2>1. ASSUME NEW w \in Windows
        PROVE  builders[w] = SummaryOf(Taken(windowLog[w], cut[w], Buffered(w)), reader = "batches")
    <3>1. builders[w] = NewBuilder
      BY <1>1
    <3> QED
      BY <1>2, <3>1, TakenNone
  <2> QED
    BY <1>1, <2>1 DEF BuiltTo
<1>8. BatchState(cut)
  <2>1. \A w \in Windows : database_rows[w] <= Cardinality(DOMAIN Taken(windowLog[w], cut[w], Absent))
    <3> TAKE w \in Windows
    <3>1. DOMAIN Taken(windowLog[w], cut[w], Absent) = {}
      BY <1>2 DEF Taken
    <3> QED
      BY <1>1, <3>1, FS_EmptySet
  <2> QED
    BY <1>1, <1>2, <2>1 DEF BatchState
<1>9. database_rows \in [Windows -> Nat]
  BY <1>1
<1>10. Running(cut)
  BY <1>1, <1>4, <1>5, <1>6, <1>7, <1>8, <1>9 DEF Running
<1>11. SummaryExact /\ RefusedForCause
  BY <1>1 DEF SummaryExact, RefusedForCause
<1> QED
  BY <1>10, <1>11 DEF SummaryInv

\* Nothing but the strategy changes when one is chosen, and nothing was read before.
LEMMA ChooseStep ==
    ASSUME SummaryInv, Choose
    PROVE  SummaryInv'
<1>1. /\ outcome = "running" /\ reader = Absent
      /\ UNCHANGED <<windowLog, left, pending, window, open, builders, database_rows, tidy>>
      /\ \/ reader' \in {"batches", "rows", "row_stream"} /\ outcome' = outcome
         \/ reader' = reader /\ outcome' = "InvalidEventLogResultShape"
  <2>1. Choose
    OBVIOUS
  <2> QED
    BY <2>1 DEF Choose
<1>2. PICK cut : Running(cut)
  BY <1>1 DEF SummaryInv
<1>3. /\ windowLog \in WindowLogs /\ window \in Windows
      /\ left \subseteq AllRows /\ pending = Absent /\ pending \notin left
      /\ database_rows \in [Windows -> Nat]
      /\ CutAt(cut) /\ BuiltTo(cut) /\ BatchState(cut)
  <2>1. Absent \notin {"rows", "row_stream"}
    BY SizeAssumption DEF Readers
  <2>2. BatchState(cut)
    BY <1>1, <1>2, <2>1 DEF Running
  <2>3. pending = Absent
    BY <2>2 DEF BatchState
  <2> QED
    BY <1>2, <2>2, <2>3 DEF Running
<1>4. /\ open = NoCase /\ window = 1
      /\ \A w \in Windows : database_rows[w] <= Cardinality(DOMAIN Taken(windowLog[w], cut[w], Absent))
      /\ \A w \in Windows : \A c \in DOMAIN windowLog[w] : cut[w][c] = 0
  BY <1>1, <1>3 DEF BatchState
<1>5. CASE reader' = reader /\ outcome' = "InvalidEventLogResultShape"
  BY <1>1, <1>5, EndedFor
<1>6. CASE reader' \in {"batches", "rows", "row_stream"} /\ outcome' = outcome
  <2>1. AllRows' = AllRows
    BY <1>1 DEF AllRows, RowsIn
  <2>2. CutAt(cut)'
    BY <1>1, <1>3 DEF CutAt, Waiting, LengthOf
  <2>3. BuiltTo(cut)'
    <3>1. ASSUME NEW w \in Windows
          PROVE  builders[w] = SummaryOf(Taken(windowLog[w], cut[w], Buffered(w)), reader' = "batches")
      <4>1. builders[w] = SummaryOf(Taken(windowLog[w], cut[w], Buffered(w)), reader = "batches")
        BY <1>3 DEF BuiltTo
      <4> QED
        BY <1>4, <4>1, TakenNone
    <3>2. \A w \in Windows : Buffered(w)' = Buffered(w)
      BY <1>1 DEF Buffered
    <3> QED
      BY <1>1, <1>3, <3>1, <3>2 DEF BuiltTo
  <2>4. CASE reader' = "batches"
    <3>1. BatchState(cut)'
      BY <1>1, <1>3, <2>4, SizeAssumption DEF BatchState, LengthOf
    <3>2. Running(cut)'
      BY <1>1, <1>3, <2>1, <2>2, <2>3, <2>4, <3>1 DEF Running
    <3> QED
      BY <1>1, <1>6, <3>2 DEF SummaryInv, SummaryExact, RefusedForCause
  <2>5. CASE reader' \in {"rows", "row_stream"}
    <3>1. \A w \in Windows :
              database_rows[w] <= Cardinality(EventsOf(Taken(windowLog[w], cut[w], Absent)))
      <4> TAKE w \in Windows
      <4>1. DOMAIN Taken(windowLog[w], cut[w], Absent) = {}
        BY <1>4 DEF Taken
      <4>2. EventsOf(Taken(windowLog[w], cut[w], Absent)) = {}
        BY <4>1 DEF EventsOf
      <4> QED
        BY <1>4, <4>1, <4>2
    <3>2. \A q \in left : q[1] >= 1
      BY <1>3, RowParts DEF Windows
    <3>3. RowState(cut)'
      BY <1>1, <1>3, <1>4, <3>1, <3>2 DEF RowState, OpenTo, InOrder, NoCase, LengthOf
    <3>4. Running(cut)'
      BY <1>1, <1>3, <2>1, <2>2, <2>3, <2>5, <3>3 DEF Running
    <3> QED
      BY <1>1, <1>6, <3>4 DEF SummaryInv, SummaryExact, RefusedForCause
  <2> QED
    BY <1>6, <2>4, <2>5
<1> QED
  BY <1>1, <1>5, <1>6

LEMMA StreamFailsStep ==
    ASSUME SummaryInv, StreamFails
    PROVE  SummaryInv'
BY EndedFor DEF StreamFails

-----------------------------------------------------------------------------
(* Batches.                                                                *)

LEMMA FoldedCut ==
    ASSUME NEW M, NEW n, NEW C, NEW path, OnePath(M, n, C, path),
           NEW skip, skip \notin DOMAIN M
    PROVE  /\ Cuts(M, Folded(M, n, C))
           /\ Grown(Taken(M, Folded(M, n, C), skip), Taken(M, n, skip), C, path)
           /\ \A c \in C : Taken(M, Folded(M, n, C), skip)[c] = M[c]
<1>1. PICK p : p = Folded(M, n, C)
  OBVIOUS
<1>2. \A c \in DOMAIN M : Len(M[c]) \in Nat
  BY TraceParts DEF OnePath, CaseLog
<1>3. DOMAIN p = DOMAIN M /\ \A c \in DOMAIN M : p[c] = IF c \in C THEN Len(M[c]) ELSE n[c]
  BY <1>1 DEF Folded
<1>4. \A c \in DOMAIN M : p[c] \in Nat /\ p[c] <= Len(M[c])
  BY <1>2, <1>3 DEF OnePath, Cuts
<1>5. p = [c \in DOMAIN M |-> p[c]]
  BY <1>1 DEF Folded
<1>6. Cuts(M, p)
  BY <1>4, <1>5 DEF Cuts
<1>7. /\ Grown(Taken(M, p, skip), Taken(M, n, skip), C, path)
      /\ \A c \in C : Taken(M, p, skip)[c] = M[c]
  BY <1>1, <1>6, TakenBatch
<1> QED
  BY <1>1, <1>6, <1>7

\* One case more at least is folded.
LEMMA FoldedCases ==
    ASSUME NEW M, NEW n, NEW C, NEW path, OnePath(M, n, C, path),
           NEW skip, skip \notin DOMAIN M
    PROVE  /\ Cardinality(DOMAIN Taken(M, n, skip)) \in Nat
           /\ Cardinality(DOMAIN Taken(M, Folded(M, n, C), skip)) \in Nat
           /\ Cardinality(DOMAIN Taken(M, n, skip)) + 1
                  <= Cardinality(DOMAIN Taken(M, Folded(M, n, C), skip))
<1>1. PICK K : K = Taken(M, n, skip)
  OBVIOUS
<1>2. PICK L : L = Taken(M, Folded(M, n, C), skip)
  OBVIOUS
<1>3. Grown(L, K, C, path)
  BY <1>1, <1>2, FoldedCut
<1>4. PICK c \in C : c \notin DOMAIN K /\ c \in DOMAIN L
  BY <1>3 DEF Grown
<1>5. IsFiniteSet(DOMAIN K) /\ IsFiniteSet(DOMAIN L) /\ DOMAIN K \cup {c} \in SUBSET DOMAIN L
  BY <1>3, <1>4 DEF Grown, CaseLog
<1>6. Cardinality(DOMAIN K \cup {c}) = Cardinality(DOMAIN K) + 1
  BY <1>4, <1>5, FS_AddElement
<1>7. Cardinality(DOMAIN K \cup {c}) <= Cardinality(DOMAIN L)
  BY <1>5, FS_Subset
<1>8. Cardinality(DOMAIN K) \in Nat /\ Cardinality(DOMAIN L) \in Nat
  BY <1>5, FS_CardinalityType
<1> QED
  BY <1>1, <1>2, <1>6, <1>7, <1>8

TracesOf(M, ids) == [k \in DOMAIN ids |-> M[ids[k]]]

\* The server's sequence of such cases is a batch that keeps its word.
LEMMA HonestBatch ==
    ASSUME NEW M, NEW n, NEW C, NEW path, OnePath(M, n, C, path),
           \A c \in C : Len(M[c]) < Base * Base,
           NEW ids, ids = SetToSeq(C), NEW traces, traces = TracesOf(M, ids)
    PROVE  /\ Honest(path, traces)
           /\ Len(traces) = Cardinality(C)
           /\ \E c \in C : Len(M[c]) = Len(path)
<1>1. /\ CaseLog(M) /\ C \in SUBSET DOMAIN M /\ C # {} /\ IsFiniteSet(C)
      /\ \A c \in C : Path(M[c]) = path /\ IsTrace(M[c])
  <2>1. /\ CaseLog(M) /\ C \in SUBSET DOMAIN M /\ C # {} /\ \A c \in C : Path(M[c]) = path
    BY DEF OnePath
  <2>2. IsFiniteSet(DOMAIN M) /\ \A c \in C : IsTrace(M[c])
    BY <2>1 DEF CaseLog
  <2>3. IsFiniteSet(C)
    BY <2>1, <2>2, FS_Subset
  <2> QED
    BY <2>1, <2>2, <2>3
<1>2. PICK m : m = Cardinality(C)
  OBVIOUS
<1>3. m \in Nat /\ m > 0
  <2>1. m \in Nat /\ m # 0
    BY <1>1, <1>2, FS_CardinalityType, FS_EmptySet
  <2> QED
    BY <2>1
<1>4. ids \in [1 .. m -> C] /\ Len(ids) = m
  BY <1>1, <1>2, SetToSeqNames
<1>5. DOMAIN traces = 1 .. m /\ Len(traces) = m /\ \A k \in 1 .. m : traces[k] = M[ids[k]]
  BY <1>3, <1>4 DEF TracesOf
<1>6. \A c \in C : /\ path \in Seq(STRING) /\ path # <<>> /\ Len(M[c]) = Len(path)
                   /\ Len(path) < Base * Base
  BY <1>1, TraceParts
<1>7. \A k \in 1 .. m : IsTrace(traces[k]) /\ Len(traces[k]) = Len(path)
  BY <1>1, <1>4, <1>5, <1>6
<1>8. Honest(path, traces)
  BY <1>1, <1>3, <1>5, <1>6, <1>7 DEF Honest
<1> QED
  BY <1>1, <1>2, <1>5, <1>6, <1>8

\* Its timestamps, pushed, make the summary with those cases in it.
LEMMA BatchFolded ==
    ASSUME NEW M, NEW n, NEW C, NEW path, OnePath(M, n, C, path),
           NEW skip, skip \notin DOMAIN M,
           NEW ids, ids = SetToSeq(C), NEW traces, traces = TracesOf(M, ids),
           NEW stamps, stamps = TimesOf(traces, Len(path)),
           NEW packed
    PROVE  SummaryOf(Taken(M, Folded(M, n, C), skip), packed) =
               AddCases(SummaryOf(Taken(M, n, skip), packed), path, stamps,
                        IF packed
                        THEN Len(stamps) * (IdBytes + HeaderBytes + StampBytes * Len(path))
                        ELSE 0)
<1>1. PICK K : K = Taken(M, n, skip)
  OBVIOUS
<1>2. PICK L : L = Taken(M, Folded(M, n, C), skip)
  OBVIOUS
<1>3. Grown(L, K, C, path) /\ \A c \in C : L[c] = M[c]
  BY <1>1, <1>2, FoldedCut
<1>4. PICK m : m = Cardinality(C)
  OBVIOUS
<1>5. IsFiniteSet(C) /\ m \in Nat
  <2>1. C \in SUBSET DOMAIN M /\ IsFiniteSet(DOMAIN M)
    BY DEF OnePath, CaseLog
  <2>2. IsFiniteSet(C)
    BY <2>1, FS_Subset
  <2> QED
    BY <1>4, <2>2, FS_CardinalityType
<1>6. /\ ids \in [1 .. m -> C] /\ Len(ids) = m
      /\ \A j, k \in 1 .. m : ids[j] = ids[k] => j = k
      /\ \A c \in C : \E k \in 1 .. m : ids[k] = c
  BY <1>4, <1>5, SetToSeqNames
<1>7. DOMAIN traces = 1 .. m /\ Len(traces) = m /\ \A k \in 1 .. m : traces[k] = M[ids[k]]
  BY <1>5, <1>6 DEF TracesOf
<1>8. DOMAIN stamps = 1 .. m /\ \A k \in 1 .. m : \A i \in 1 .. Len(path) :
                                   stamps[k][i] = traces[k][i].at
  BY <1>7 DEF TimesOf
<1>9. Len(stamps) = m
  BY <1>5, <1>8
<1>10. \A k \in 1 .. m : \A i \in 1 .. Len(path) : stamps[k][i] = L[ids[k]][i].at
  BY <1>3, <1>6, <1>7, <1>8
<1>11. Stamped(L, C, path, ids, stamps)
  BY <1>4, <1>6, <1>8, <1>9, <1>10 DEF Stamped
<1>13. SummaryOf(L, packed) =
           AddCases(SummaryOf(K, packed), path, stamps,
                    IF packed
                    THEN Len(stamps) * (IdBytes + HeaderBytes + StampBytes * Len(path))
                    ELSE 0)
  BY <1>3, <1>11, SummaryGrows
<1> QED
  BY <1>1, <1>2, <1>13

\* What the rows still to come say of a case's cut.
LEMMA CutParts ==
    ASSUME windowLog \in WindowLogs, NEW cut, CutAt(cut),
           NEW w \in Windows, NEW c \in DOMAIN windowLog[w]
    PROVE  /\ cut[w][c] \in Nat /\ cut[w][c] <= LengthOf(w, c)
           /\ \A i \in 1 .. LengthOf(w, c) : Waiting(w, c, i) <=> i > cut[w][c]
           /\ (\A i \in 1 .. LengthOf(w, c) : ~Waiting(w, c, i)) => cut[w][c] = LengthOf(w, c)
<1>1. cut[w][c] \in Nat /\ cut[w][c] <= LengthOf(w, c)
  BY DEF CutAt, Cuts, LengthOf
<1>2. \A i \in 1 .. LengthOf(w, c) : Waiting(w, c, i) <=> i > cut[w][c]
  BY DEF CutAt
<1>3. LengthOf(w, c) \in Nat /\ LengthOf(w, c) > 0
  BY LogParts
<1>4. LengthOf(w, c) \in 1 .. LengthOf(w, c)
  BY <1>3
<1>5. ASSUME \A i \in 1 .. LengthOf(w, c) : ~Waiting(w, c, i) PROVE cut[w][c] = LengthOf(w, c)
  <2>1. ~(LengthOf(w, c) > cut[w][c])
    BY <1>2, <1>4, <1>5
  <2> QED
    BY <1>1, <1>3, <2>1
<1> QED
  BY <1>1, <1>2, <1>5

\* The cases of a batch were not folded before.
LEMMA BatchUnread ==
    ASSUME NEW cut, Running(cut), BatchState(cut), NEW w \in Windows,
           NEW cases, cases \subseteq {r[2] : r \in {q \in left : q[1] = w}}, cases # {},
           NEW path, \A c \in cases : Path(windowLog[w][c]) = path
    PROVE  OnePath(windowLog[w], cut[w], cases, path)
<1>1. windowLog \in WindowLogs /\ CutAt(cut) /\ left \subseteq AllRows
  BY DEF Running
<1>2. ASSUME NEW c \in cases PROVE c \in DOMAIN windowLog[w] /\ cut[w][c] = 0
  <2>1. PICK r \in left : r[1] = w /\ r[2] = c
    BY <1>2
  <2>2. /\ r = <<w, c, r[3]>> /\ c \in DOMAIN windowLog[w] /\ r[3] \in 1 .. LengthOf(w, c)
    BY <1>1, <2>1, RowParts
  <2>3. Waiting(w, c, r[3])
    BY <2>1, <2>2 DEF Waiting
  <2>4. r[3] > cut[w][c] /\ cut[w][c] \in Nat
    BY <1>1, <2>2, <2>3, CutParts
  <2>5. LengthOf(w, c) \in Nat
    BY <1>1, <2>2, LogParts
  <2>6. cut[w][c] # LengthOf(w, c)
    BY <2>2, <2>4, <2>5
  <2> QED
    BY <2>2, <2>6 DEF BatchState
<1>3. CaseLog(windowLog[w]) /\ Cuts(windowLog[w], cut[w])
  BY <1>1, LogParts DEF CutAt
<1> QED
  BY <1>2, <1>3 DEF OnePath

\* A batch that is folded.
LEMMA BatchTaken ==
    ASSUME NEW cut, Running(cut), BatchState(cut), reader = "batches", outcome = "running",
           NEW w \in Windows, NEW cases, NEW path,
           OnePath(windowLog[w], cut[w], cases, path),
           NEW p, p = Folded(windowLog[w], cut[w], cases),
           UNCHANGED <<windowLog, reader, pending, window, open, outcome>>,
           left' = {r \in left : r[1] # w \/ r[2] \notin cases},
           builders' = [builders EXCEPT ![w] = SummaryOf(Taken(windowLog[w], p, Absent), TRUE)],
           database_rows' = [database_rows EXCEPT ![w] = @ + 1]
    PROVE  SummaryInv'
<1>1. /\ windowLog \in WindowLogs /\ window \in Windows
      /\ left \subseteq AllRows /\ database_rows \in [Windows -> Nat]
      /\ CutAt(cut) /\ BuiltTo(cut)
  BY DEF Running
<1>2. /\ pending = Absent /\ open = NoCase /\ window = 1
      /\ \A v \in Windows : \A c \in DOMAIN windowLog[v] : cut[v][c] \in {0, LengthOf(v, c)}
      /\ \A v \in Windows : database_rows[v] <= Cardinality(DOMAIN Taken(windowLog[v], cut[v], Absent))
  BY DEF BatchState
<1>3. PICK next : next = [v \in Windows |-> IF v = w THEN p ELSE cut[v]]
  OBVIOUS
<1>4. next[w] = p /\ DOMAIN next = Windows /\ \A v \in Windows : v # w => next[v] = cut[v]
  BY <1>3
<1>5. \A c \in DOMAIN windowLog[w] : p[c] = IF c \in cases THEN LengthOf(w, c) ELSE cut[w][c]
  BY DEF Folded, LengthOf
<1>6. CaseLog(windowLog[w]) /\ Absent \notin DOMAIN windowLog[w]
  BY <1>1, LogParts
<1>7. Cuts(windowLog[w], p)
  BY <1>6, FoldedCut
<1>8. AllRows' = AllRows /\ left' \subseteq left
  BY DEF AllRows, RowsIn
<1>9. CutAt(next)'
  <2>1. \A v \in Windows : Cuts(windowLog[v], next[v])
    BY <1>1, <1>4, <1>7 DEF CutAt
  <2>2. ASSUME NEW v \in Windows, NEW c \in DOMAIN windowLog[v], NEW i \in 1 .. LengthOf(v, c)
        PROVE  Waiting(v, c, i)' <=> i > next[v][c]
    <3>1. Waiting(v, c, i) <=> i > cut[v][c]
      BY <1>1, CutParts
    <3>2. pending # <<v, c, i>>
      BY <1>1, <1>2, RowParts
    <3>3. Waiting(v, c, i)' <=> Waiting(v, c, i) /\ (v # w \/ c \notin cases)
      BY <3>2 DEF Waiting
    <3>4. CASE v # w \/ c \notin cases
      BY <1>4, <1>5, <3>1, <3>3, <3>4
    <3>5. CASE v = w /\ c \in cases
      <4>1. next[v][c] = LengthOf(v, c) /\ LengthOf(v, c) \in Nat
        BY <1>1, <1>4, <1>5, <3>5, LogParts
      <4> QED
        BY <3>3, <3>5, <4>1
    <3> QED
      BY <3>4, <3>5
  <2> QED
    BY <1>4, <2>1, <2>2 DEF CutAt, LengthOf
<1>10. BuiltTo(next)'
  <2>1. \A v \in Windows : Buffered(v) = Absent /\ Buffered(v)' = Absent
    BY <1>2 DEF Buffered, NoCase
  <2>2. builders = [v \in Windows |-> builders[v]]
    BY <1>1 DEF BuiltTo
  <2>3. /\ builders' = [v \in Windows |-> builders'[v]]
        /\ builders'[w] = SummaryOf(Taken(windowLog[w], p, Absent), TRUE)
        /\ \A v \in Windows : v # w => builders'[v] = builders[v]
    BY <2>2
  <2>4. ASSUME NEW v \in Windows
        PROVE  builders'[v] = SummaryOf(Taken(windowLog[v], next[v], Absent), reader = "batches")
    <3>1. PICK packed : packed = (reader = "batches")
      OBVIOUS
    <3>2. packed = TRUE
      BY <3>1
    <3>3. builders[v] = SummaryOf(Taken(windowLog[v], cut[v], Absent), packed)
      BY <1>1, <2>1, <3>1 DEF BuiltTo
    <3>4. builders'[v] = SummaryOf(Taken(windowLog[v], next[v], Absent), packed)
      BY <1>4, <2>3, <3>2, <3>3
    <3> QED
      BY <3>1, <3>4
  <2> QED
    BY <2>1, <2>3, <2>4 DEF BuiltTo
<1>11. database_rows' \in [Windows -> Nat]
  BY <1>1
<1>12. BatchState(next)'
  <2>1. \A v \in Windows : \A c \in DOMAIN windowLog[v] : next[v][c] \in {0, LengthOf(v, c)}
    BY <1>2, <1>4, <1>5
  <2>2. ASSUME NEW v \in Windows
        PROVE  database_rows'[v] <= Cardinality(DOMAIN Taken(windowLog[v], next[v], Absent))
    <3>1. CASE v # w
      BY <1>1, <1>2, <1>4, <3>1
    <3>2. CASE v = w
      <4>1. PICK few, many : /\ few = Cardinality(DOMAIN Taken(windowLog[w], cut[w], Absent))
                             /\ many = Cardinality(DOMAIN Taken(windowLog[w], p, Absent))
        OBVIOUS
      <4>2. few \in Nat /\ many \in Nat /\ few + 1 <= many
        BY <1>6, <4>1, FoldedCases
      <4>3. database_rows[w] <= few /\ database_rows[w] \in Nat
        BY <1>1, <1>2, <4>1
      <4>4. database_rows'[w] = database_rows[w] + 1
        BY <1>1
      <4> QED
        BY <1>4, <3>2, <4>1, <4>2, <4>3, <4>4
    <3> QED
      BY <3>1, <3>2
  <2>3. reader # Absent
    BY SizeAssumption DEF Readers
  <2>4. \A v, c : LengthOf(v, c)' = LengthOf(v, c)
    BY DEF LengthOf
  <2> QED
    BY <1>2, <2>1, <2>2, <2>3, <2>4 DEF BatchState
<1>13. pending' \notin left'
  BY <1>1, <1>2, RowParts
<1>14. Running(next)'
  BY <1>1, <1>2, <1>8, <1>9, <1>10, <1>11, <1>12, <1>13 DEF Running
<1> QED
  BY <1>14 DEF SummaryInv, SummaryExact, RefusedForCause

\* A batch that cannot be counted: the window itself has more than can be counted.
LEMMA BatchOverflows ==
    ASSUME windowLog \in WindowLogs, reader = "batches", NEW w \in Windows,
           NEW n, NEW cases, NEW path, OnePath(windowLog[w], n, cases, path),
           NEW p, p = Folded(windowLog[w], n, cases),
           database_rows[w] <= Cardinality(DOMAIN Taken(windowLog[w], n, Absent)),
           \/ database_rows[w] = MaxCount
           \/ ~CountsFit(SummaryOf(Taken(windowLog[w], p, Absent), TRUE))
    PROVE  ~CountsFit(Reference(w))
<1>1. CaseLog(windowLog[w]) /\ Absent \notin DOMAIN windowLog[w]
  BY LogParts
<1>2. PICK L : L = Taken(windowLog[w], p, Absent)
  OBVIOUS
<1>3. Cuts(windowLog[w], p)
  BY <1>1, FoldedCut
<1>4. PartOf(L, windowLog[w])
  BY <1>1, <1>2, <1>3, TakenPart DEF TakenAs
<1>5. ~CountsFit(SummaryOf(L, TRUE))
  <2>1. CASE ~CountsFit(SummaryOf(L, TRUE))
    BY <2>1
  <2>2. CASE database_rows[w] = MaxCount
    <3>1. PICK few, many : /\ few = Cardinality(DOMAIN Taken(windowLog[w], n, Absent))
                           /\ many = Cardinality(DOMAIN L)
      OBVIOUS
    <3>2. few \in Nat /\ many \in Nat /\ few + 1 <= many
      BY <1>1, <1>2, <3>1, FoldedCases
    <3>3. MaxCount <= few /\ MaxCount \in Nat
      BY <2>2, <3>1, SizeAssumption
    <3>4. many > MaxCount
      BY <3>2, <3>3
    <3>5. PICK s : s = SummaryOf(L, TRUE)
      OBVIOUS
    <3>6. s.cases = many
      BY <3>1, <3>5, SummaryShape
    <3>7. CountsFit(s) => s.cases \in 0 .. MaxCount
      BY DEF CountsFit
    <3>8. s.cases \notin 0 .. MaxCount
      BY <3>2, <3>3, <3>4, <3>6
    <3> QED
      BY <3>5, <3>7, <3>8
  <2> QED
    BY <1>2, <2>1, <2>2
<1>6. PICK packed : packed = TRUE
  OBVIOUS
<1>7. ~CountsFit(SummaryOf(windowLog[w], packed))
  BY <1>4, <1>5, <1>6, PartFits
<1>8. Reference(w) = SummaryOf(windowLog[w], packed)
  <2>1. packed = (reader = "batches")
    BY <1>6
  <2> QED
    BY <2>1 DEF Reference
<1> QED
  BY <1>7, <1>8

\* What a delivery is.
Delivery(w, order, cases, path, ids, traces, wire) ==
    /\ cases \subseteq {r[2] : r \in {q \in left : q[1] = w}} /\ cases # {}
    /\ \A c \in cases : Path(windowLog[w][c]) = path
    /\ ids = SetToSeq(cases)
    /\ traces = TracesOf(windowLog[w], ids)
    /\ wire = Wire(path, traces, order)
    /\ left' = {r \in left : r[1] # w \/ r[2] \notin cases}
    /\ \/ FoldBatch(w, wire) /\ tidy' = tidy
       \/ \E ordinal \in {0, NWindows + 1} : FoldBatch(ordinal, wire) /\ tidy' = FALSE
       \/ \E other \in Misshapen(wire) : FoldBatch(w, other) /\ tidy' = FALSE

LEMMA DeliverParts ==
    ASSUME DeliverBatch
    PROVE  /\ outcome = "running" /\ reader = "batches"
           /\ UNCHANGED <<windowLog, reader, pending, window, open>>
           /\ \E w \in Windows, order \in ByteOrders :
              \E cases, path, ids, traces, wire : Delivery(w, order, cases, path, ids, traces, wire)
<1>1. /\ outcome = "running" /\ reader = "batches"
      /\ UNCHANGED <<windowLog, reader, pending, window, open>>
  BY DEF DeliverBatch
<1>2. PICK w \in Windows, order \in ByteOrders :
       \E cases \in SUBSET {r[2] : r \in {q \in left : q[1] = w}} :
       \E path \in {Path(windowLog[w][c]) : c \in cases} :
           /\ \A c \in cases : Path(windowLog[w][c]) = path
           /\ LET ids == SetToSeq(cases)
                  wire == Wire(path, [k \in DOMAIN ids |-> windowLog[w][ids[k]]], order)
              IN \/ FoldBatch(w, wire) /\ UNCHANGED tidy
                 \/ \E ordinal \in {0, NWindows + 1} : FoldBatch(ordinal, wire) /\ tidy' = FALSE
                 \/ \E other \in Misshapen(wire) : FoldBatch(w, other) /\ tidy' = FALSE
           /\ left' = {r \in left : r[1] # w \/ r[2] \notin cases}
  BY DEF DeliverBatch
<1>3. PICK cases \in SUBSET {r[2] : r \in {q \in left : q[1] = w}} :
       \E path \in {Path(windowLog[w][c]) : c \in cases} :
           /\ \A c \in cases : Path(windowLog[w][c]) = path
           /\ LET ids == SetToSeq(cases)
                  wire == Wire(path, [k \in DOMAIN ids |-> windowLog[w][ids[k]]], order)
              IN \/ FoldBatch(w, wire) /\ UNCHANGED tidy
                 \/ \E ordinal \in {0, NWindows + 1} : FoldBatch(ordinal, wire) /\ tidy' = FALSE
                 \/ \E other \in Misshapen(wire) : FoldBatch(w, other) /\ tidy' = FALSE
           /\ left' = {r \in left : r[1] # w \/ r[2] \notin cases}
  BY <1>2
<1>4. PICK path \in {Path(windowLog[w][c]) : c \in cases} :
           /\ \A c \in cases : Path(windowLog[w][c]) = path
           /\ LET ids == SetToSeq(cases)
                  wire == Wire(path, [k \in DOMAIN ids |-> windowLog[w][ids[k]]], order)
              IN \/ FoldBatch(w, wire) /\ UNCHANGED tidy
                 \/ \E ordinal \in {0, NWindows + 1} : FoldBatch(ordinal, wire) /\ tidy' = FALSE
                 \/ \E other \in Misshapen(wire) : FoldBatch(w, other) /\ tidy' = FALSE
           /\ left' = {r \in left : r[1] # w \/ r[2] \notin cases}
  BY <1>3
<1>5. cases # {}
  BY <1>4
<1>6. PICK ids, traces, wire :
           /\ ids = SetToSeq(cases)
           /\ traces = TracesOf(windowLog[w], ids)
           /\ wire = Wire(path, traces, order)
  OBVIOUS
<1>7. \/ FoldBatch(w, wire) /\ tidy' = tidy
      \/ \E ordinal \in {0, NWindows + 1} : FoldBatch(ordinal, wire) /\ tidy' = FALSE
      \/ \E other \in Misshapen(wire) : FoldBatch(w, other) /\ tidy' = FALSE
  BY <1>4, <1>6 DEF TracesOf
<1>8. cases \subseteq {r[2] : r \in {q \in left : q[1] = w}}
  OBVIOUS
<1>9. Delivery(w, order, cases, path, ids, traces, wire)
  BY <1>4, <1>5, <1>6, <1>7, <1>8 DEF Delivery
<1> QED
  BY <1>1, <1>9

LEMMA DeliverBatchStep ==
    ASSUME SummaryInv, DeliverBatch
    PROVE  SummaryInv'
<1>1. /\ outcome = "running" /\ reader = "batches"
      /\ UNCHANGED <<windowLog, reader, pending, window, open>>
  BY DeliverParts
<1>a. PICK w \in Windows, order \in ByteOrders :
       \E cases, path, ids, traces, wire :
           Delivery(w, order, cases, path, ids, traces, wire)
  BY DeliverParts
<1>2. PICK cases, path, ids, traces, wire :
           Delivery(w, order, cases, path, ids, traces, wire)
  BY <1>a
<1>b. /\ cases \subseteq {r[2] : r \in {q \in left : q[1] = w}} /\ cases # {}
      /\ \A c \in cases : Path(windowLog[w][c]) = path
      /\ ids = SetToSeq(cases)
      /\ traces = TracesOf(windowLog[w], ids)
      /\ wire = Wire(path, traces, order)
      /\ left' = {r \in left : r[1] # w \/ r[2] \notin cases}
      /\ \/ FoldBatch(w, wire) /\ tidy' = tidy
         \/ \E ordinal \in {0, NWindows + 1} : FoldBatch(ordinal, wire) /\ tidy' = FALSE
         \/ \E other \in Misshapen(wire) : FoldBatch(w, other) /\ tidy' = FALSE
  BY <1>2 DEF Delivery
<1>3. PICK cut : Running(cut)
  BY <1>1 DEF SummaryInv
<1>4. /\ windowLog \in WindowLogs /\ BatchState(cut) /\ CutAt(cut) /\ BuiltTo(cut)
      /\ database_rows \in [Windows -> Nat]
  BY <1>1, <1>3 DEF Running
<1>5. OnePath(windowLog[w], cut[w], cases, path)
  BY <1>b, <1>3, <1>4, BatchUnread
<1>6. /\ CaseLog(windowLog[w]) /\ Absent \notin DOMAIN windowLog[w]
      /\ cases \in SUBSET DOMAIN windowLog[w]
      /\ \A c \in cases : Len(windowLog[w][c]) < Base * Base
  BY <1>4, <1>5, LogParts DEF OnePath, LengthOf
<1>7. /\ Honest(path, traces)
      /\ \E c \in cases : Len(windowLog[w][c]) = Len(path)
  BY <1>b, <1>5, <1>6, HonestBatch
<1>8. PICK stamps : stamps = Decode(wire)
  OBVIOUS
<1>9. /\ stamps = Absent => Ambiguous(Len(path))
      /\ stamps # Absent => stamps = TimesOf(traces, Len(path))
  <2>1. Honest(path, traces) /\ wire = Wire(path, traces, order)
    BY <1>b, <1>7
  <2>2. /\ Decode(wire) = Absent => Ambiguous(Len(path))
        /\ Decode(wire) # Absent => Decode(wire) = TimesOf(traces, Len(path))
    BY <2>1, DecodeHonest
  <2> QED
    BY <1>8, <2>2
<1>10. wire.activity_path = path
  BY <1>b, <1>7, WireShape
<1>11. CASE FoldBatch(w, wire) /\ tidy' = tidy
  <2>1. CASE stamps = Absent
    <3>1. outcome' = "InvalidBatch"
      BY <1>8, <1>11, <2>1 DEF FoldBatch
    <3>2. \E c \in DOMAIN windowLog[w] : Ambiguous(LengthOf(w, c))
      BY <1>6, <1>7, <1>9, <2>1 DEF LengthOf
    <3> QED
      BY <1>1, <3>1, <3>2, EndedFor
  <2>2. CASE stamps # Absent
    <3>1. PICK p : p = Folded(windowLog[w], cut[w], cases)
      OBVIOUS
    <3>2. PICK built : built = PushBatch(builders[w], path, stamps)
      OBVIOUS
    <3>3. builders[w] = SummaryOf(Taken(windowLog[w], cut[w], Absent), TRUE)
      <4>1. Buffered(w) = Absent
        BY <1>4 DEF Buffered, BatchState, NoCase
      <4>2. PICK packed : packed = (reader = "batches")
        OBVIOUS
      <4>3. builders[w] = SummaryOf(Taken(windowLog[w], cut[w], Absent), packed)
        BY <1>4, <4>1, <4>2 DEF BuiltTo
      <4>4. packed = TRUE
        BY <1>1, <4>2
      <4> QED
        BY <4>3, <4>4
    <3>4. built = SummaryOf(Taken(windowLog[w], p, Absent), TRUE)
      <4>1. stamps = TimesOf(traces, Len(path))
        BY <1>9, <2>2
      <4>2. /\ ids = SetToSeq(cases) /\ traces = TracesOf(windowLog[w], ids)
            /\ Absent \notin DOMAIN windowLog[w]
        BY <1>b, <1>6
      <4>3. PICK packed : packed = TRUE
        OBVIOUS
      <4>4. SummaryOf(Taken(windowLog[w], Folded(windowLog[w], cut[w], cases), Absent), packed) =
                AddCases(SummaryOf(Taken(windowLog[w], cut[w], Absent), packed), path, stamps,
                         IF packed
                         THEN Len(stamps) * (IdBytes + HeaderBytes + StampBytes * Len(path))
                         ELSE 0)
        BY <1>5, <4>1, <4>2, BatchFolded
      <4>5. SummaryOf(Taken(windowLog[w], Folded(windowLog[w], cut[w], cases), Absent), TRUE) =
                PushBatch(SummaryOf(Taken(windowLog[w], cut[w], Absent), TRUE), path, stamps)
        BY <4>3, <4>4 DEF PushBatch
      <4> QED
        BY <3>1, <3>2, <3>3, <4>5
    <3>5. CASE database_rows[w] = MaxCount \/ ~CountsFit(built)
      <4>1. outcome' = "CountOverflow"
        BY <1>8, <1>10, <1>11, <2>2, <3>2, <3>5 DEF FoldBatch
      <4>2. database_rows[w] <= Cardinality(DOMAIN Taken(windowLog[w], cut[w], Absent))
        BY <1>4 DEF BatchState
      <4>3. ~CountsFit(Reference(w))
        BY <1>1, <1>4, <1>5, <3>1, <3>4, <3>5, <4>2, BatchOverflows
      <4> QED
        BY <1>1, <4>1, <4>3, EndedFor
    <3>6. CASE ~(database_rows[w] = MaxCount \/ ~CountsFit(built))
      <4>1. /\ builders' = [builders EXCEPT ![w] = built]
            /\ database_rows' = [database_rows EXCEPT ![w] = @ + 1]
            /\ outcome' = outcome
        BY <1>8, <1>10, <1>11, <2>2, <3>2, <3>6 DEF FoldBatch
      <4> QED
        BY <1>1, <1>b, <1>3, <1>4, <1>5, <3>1, <3>4, <4>1, BatchTaken
    <3> QED
      BY <3>5, <3>6
  <2> QED
    BY <2>1, <2>2
<1>12. CASE \E ordinal \in {0, NWindows + 1} : FoldBatch(ordinal, wire) /\ tidy' = FALSE
  <2>1. PICK ordinal \in {0, NWindows + 1} : FoldBatch(ordinal, wire) /\ tidy' = FALSE
    BY <1>12
  <2>2. ordinal \notin Windows
    BY LogAssumption DEF Windows
  <2>3. outcome' \in {"InvalidBatch", "InvalidWindowOrdinal"}
    BY <2>1, <2>2 DEF FoldBatch
  <2> QED
    BY <1>1, <2>1, <2>3, EndedFor
<1>13. CASE \E other \in Misshapen(wire) : FoldBatch(w, other) /\ tidy' = FALSE
  <2>1. PICK other \in Misshapen(wire) : FoldBatch(w, other) /\ tidy' = FALSE
    BY <1>13
  <2>2. Decode(other) = Absent
    BY <1>b, <1>7, DecodeMisshapen
  <2>3. outcome' = "InvalidBatch"
    BY <2>1, <2>2 DEF FoldBatch
  <2> QED
    BY <1>1, <2>1, <2>3, EndedFor
<1> QED
  BY <1>b, <1>11, <1>12, <1>13

\* When nothing is left every case is folded whole.
LEMMA FinishBatchesStep ==
    ASSUME SummaryInv, FinishBatches
    PROVE  SummaryInv'
<1>1. /\ outcome = "running" /\ reader = "batches" /\ left = {} /\ outcome' = "ok"
      /\ UNCHANGED <<windowLog, reader, left, pending, window, open, builders, database_rows, tidy>>
  BY DEF FinishBatches
<1>2. PICK cut : Running(cut)
  BY <1>1 DEF SummaryInv
<1>3. windowLog \in WindowLogs /\ BatchState(cut) /\ CutAt(cut) /\ BuiltTo(cut)
  BY <1>1, <1>2 DEF Running
<1>4. pending = Absent /\ open = NoCase
  BY <1>3 DEF BatchState
<1>5. ASSUME NEW w \in Windows PROVE builders[w] = Reference(w)
  <2>1. \A c \in DOMAIN windowLog[w] : cut[w][c] = Len(windowLog[w][c])
    <3> TAKE c \in DOMAIN windowLog[w]
    <3>1. \A i \in 1 .. LengthOf(w, c) : ~Waiting(w, c, i)
      BY <1>1, <1>3, <1>4, RowParts DEF Waiting
    <3> QED
      BY <1>3, <3>1, CutParts DEF LengthOf
  <2>2. CaseLog(windowLog[w]) /\ Absent \notin DOMAIN windowLog[w] /\ Cuts(windowLog[w], cut[w])
    BY <1>3, LogParts DEF CutAt
  <2>3. Taken(windowLog[w], cut[w], Absent) = windowLog[w]
    BY <2>1, <2>2, TakenWhole
  <2>4. Buffered(w) = Absent
    BY <1>4 DEF Buffered, NoCase
  <2>5. builders[w] = SummaryOf(Taken(windowLog[w], cut[w], Buffered(w)), reader = "batches")
    BY <1>3 DEF BuiltTo
  <2> QED
    BY <2>3, <2>4, <2>5 DEF Reference
<1>6. SummaryExact'
  BY <1>1, <1>5 DEF SummaryExact, Reference
<1> QED
  BY <1>1, <1>6 DEF SummaryInv, RefusedForCause

-----------------------------------------------------------------------------
(* Rows.                                                                   *)

\* What holds while a reader of rows runs.
LEMMA RowFacts ==
    ASSUME NEW cut, Running(cut), reader \in {"rows", "row_stream"}
    PROVE  /\ RowState(cut) /\ CutAt(cut) /\ BuiltTo(cut)
           /\ windowLog \in WindowLogs /\ window \in Windows
           /\ left \subseteq AllRows /\ (pending = Absent \/ pending \in AllRows)
           /\ pending \notin left
           /\ database_rows \in [Windows -> Nat] /\ reader # "batches" /\ reader # Absent
<1>1. Absent \notin {"rows", "row_stream"}
  BY SizeAssumption DEF Readers
<1>2. RowState(cut)
  BY <1>1 DEF Running
<1>3. /\ CutAt(cut) /\ BuiltTo(cut)
      /\ windowLog \in WindowLogs /\ window \in Windows
      /\ left \subseteq AllRows /\ (pending = Absent \/ pending \in AllRows)
      /\ pending \notin left
      /\ database_rows \in [Windows -> Nat]
  BY DEF Running
<1> QED
  BY <1>1, <1>2, <1>3

\* The builder of a window is the summary of all that was read of the other cases.
LEMMA BuilderOf ==
    ASSUME NEW cut, BuiltTo(cut), reader # "batches", NEW w \in Windows
    PROVE  builders[w] = SummaryOf(Taken(windowLog[w], cut[w], Buffered(w)), FALSE)
<1>1. PICK packed : packed = (reader = "batches")
  OBVIOUS
<1>2. builders[w] = SummaryOf(Taken(windowLog[w], cut[w], Buffered(w)), packed)
  BY <1>1 DEF BuiltTo
<1>3. packed = FALSE
  BY <1>1
<1> QED
  BY <1>2, <1>3

\* The buffered case, if there is one, is a case of the window.
LEMMA OpenCase ==
    ASSUME windowLog \in WindowLogs, window \in Windows, NEW cut, OpenTo(cut)
    PROVE  /\ open.case = Absent => open = NoCase
           /\ open.case # Absent =>
                  /\ open.case \in DOMAIN windowLog[window] /\ cut[window][open.case] > 0
                  /\ open.path = PathTo(windowLog[window][open.case], cut[window][open.case])
                  /\ open.times = StampsTo(windowLog[window][open.case], cut[window][open.case])
<1>1. Absent \notin DOMAIN windowLog[window]
  BY LogParts
<1>2. NoCase.case = Absent
  BY DEF NoCase
<1>3. CASE open = NoCase
  BY <1>2, <1>3
<1>4. CASE /\ open.case \in DOMAIN windowLog[window]
           /\ cut[window][open.case] > 0
           /\ open = [case |-> open.case,
                      path |-> PathTo(windowLog[window][open.case], cut[window][open.case]),
                      times |-> StampsTo(windowLog[window][open.case], cut[window][open.case])]
  <2>1. PICK case, path, times :
            /\ case = open.case
            /\ path = PathTo(windowLog[window][open.case], cut[window][open.case])
            /\ times = StampsTo(windowLog[window][open.case], cut[window][open.case])
    OBVIOUS
  <2>2. open = [case |-> case, path |-> path, times |-> times]
    BY <1>4, <2>1
  <2>3. open.path = path /\ open.times = times
    BY <2>2
  <2> QED
    BY <1>1, <1>4, <2>1, <2>3
<1> QED
  BY <1>3, <1>4 DEF OpenTo

\* Once the buffered case is pushed the builder is the summary of all that was read.
LEMMA Flushed ==
    ASSUME windowLog \in WindowLogs, window \in Windows, reader # "batches",
           NEW cut, OpenTo(cut), BuiltTo(cut), CutAt(cut)
    PROVE  FlushedBuilder = SummaryOf(Taken(windowLog[window], cut[window], Absent), FALSE)
<1>1. builders[window] = SummaryOf(Taken(windowLog[window], cut[window], open.case), FALSE)
  BY BuilderOf DEF Buffered
<1>2. /\ CaseLog(windowLog[window]) /\ Absent \notin DOMAIN windowLog[window]
      /\ Cuts(windowLog[window], cut[window])
  BY LogParts DEF CutAt
<1>3. CASE open.case = Absent
  BY <1>1, <1>3 DEF FlushedBuilder
<1>4. CASE open.case # Absent
  <2>1. PICK M, n, c : M = windowLog[window] /\ n = cut[window] /\ c = open.case
    OBVIOUS
  <2>2. c \in DOMAIN M /\ n[c] > 0 /\ open.path = PathTo(M[c], n[c]) /\ open.times = StampsTo(M[c], n[c])
    BY <1>4, <2>1, OpenCase
  <2>3. CaseLog(M) /\ Cuts(M, n) /\ Absent \notin DOMAIN M
    BY <1>2, <2>1
  <2>4. PushCase(SummaryOf(Taken(M, n, c), FALSE), PathTo(M[c], n[c]), StampsTo(M[c], n[c]))
            = SummaryOf(Taken(M, n, Absent), FALSE)
    BY <2>2, <2>3, TakenPush
  <2>5. FlushedBuilder = PushCase(builders[window], open.path, open.times)
    BY <1>4 DEF FlushedBuilder
  <2> QED
    BY <1>1, <2>1, <2>2, <2>4, <2>5
<1> QED
  BY <1>3, <1>4

\* A row that a tidy stream sends next.
LEMMA NextRow ==
    ASSUME windowLog \in WindowLogs, NEW cut, CutAt(cut), InOrder(cut), window \in Windows,
           left \subseteq AllRows, pending = Absent, NEW r \in left, NextInOrder(r),
           open.case # Absent => open.case \in DOMAIN windowLog[window]
    PROVE  /\ r[1] >= window
           /\ \A q \in left : q[1] >= r[1]
           /\ r[3] = IF r[1] = window /\ r[2] = open.case
                     THEN cut[window][open.case] + 1 ELSE 1
           /\ \A w \in Windows : \A c \in DOMAIN windowLog[w] :
                  \/ cut[w][c] \in {0, LengthOf(w, c)}
                  \/ w = window /\ c = open.case /\ r[1] = window /\ r[2] = open.case
<1>1. /\ r = <<r[1], r[2], r[3]>> /\ r[1] \in Windows /\ r[2] \in DOMAIN windowLog[r[1]]
      /\ r[3] \in 1 .. LengthOf(r[1], r[2]) /\ r[2] # Absent
  BY RowParts
<1>2. PICK w, c, i : w = r[1] /\ c = r[2] /\ i = r[3]
  OBVIOUS
<1>3. r = <<w, c, i>> /\ w \in Windows /\ c \in DOMAIN windowLog[w] /\ i \in 1 .. LengthOf(w, c)
  BY <1>1, <1>2
<1>4. /\ \A q \in left : q[1] >= w
      /\ \A q \in left : q[1] = w /\ q[2] = c => q[3] >= i
      /\ i = 1 => \A q \in left : <<q[1], q[2], 1>> \in left
  BY <1>2 DEF NextInOrder
<1>5. ASSUME NEW v \in Windows, NEW d \in DOMAIN windowLog[v], NEW j \in 1 .. LengthOf(v, d)
      PROVE  <<v, d, j>> \in left <=> j > cut[v][d]
  <2>1. <<v, d, j>> # Absent
    BY RowParts
  <2> QED
    BY <2>1, CutParts DEF Waiting
<1>6. /\ LengthOf(w, c) \in Nat /\ LengthOf(w, c) > 0
      /\ cut[w][c] \in Nat /\ cut[w][c] <= LengthOf(w, c) /\ i > cut[w][c]
  BY <1>3, <1>5, CutParts, LogParts
<1>7. cut[w][c] + 1 \in 1 .. LengthOf(w, c) /\ 1 \in 1 .. LengthOf(w, c)
  BY <1>3, <1>6
<1>8. i = cut[w][c] + 1
  <2>1. <<w, c, cut[w][c] + 1>> \in left
    BY <1>3, <1>5, <1>6, <1>7
  <2>2. cut[w][c] + 1 >= i
    BY <1>4, <2>1
  <2> QED
    BY <1>3, <1>6, <2>2
<1>9. \A v \in Windows : \A d \in DOMAIN windowLog[v] :
          cut[v][d] \in {0, LengthOf(v, d)} \/ (v = window /\ d = open.case)
  BY DEF InOrder
<1>10. w >= window
  BY <1>2 DEF InOrder
<1>11. CASE w = window /\ c = open.case
  BY <1>2, <1>4, <1>8, <1>9, <1>10, <1>11
<1>12. CASE ~(w = window /\ c = open.case)
  <2>1. i = 1
    <3>1. cut[w][c] \in {0, LengthOf(w, c)}
      BY <1>3, <1>9, <1>12
    <3>2. cut[w][c] # LengthOf(w, c)
      BY <1>3, <1>6
    <3> QED
      BY <1>8, <3>1, <3>2
  <2>2. ASSUME NEW v \in Windows, NEW d \in DOMAIN windowLog[v]
        PROVE  cut[v][d] \in {0, LengthOf(v, d)}
    <3>1. SUFFICES ASSUME cut[v][d] \notin {0, LengthOf(v, d)} PROVE FALSE
      OBVIOUS
    <3>2. /\ LengthOf(v, d) \in Nat /\ cut[v][d] \in Nat /\ cut[v][d] <= LengthOf(v, d)
      BY CutParts, LogParts
    <3>3. cut[v][d] + 1 \in 1 .. LengthOf(v, d) /\ 1 \in 1 .. LengthOf(v, d)
      BY <3>1, <3>2
    <3>4. cut[v][d] + 1 > cut[v][d] /\ ~(1 > cut[v][d])
      BY <3>1, <3>2
    <3>5. <<v, d, cut[v][d] + 1>> \in left
      BY <1>5, <3>3, <3>4
    <3>6. <<v, d, 1>> \in left
      <4>1. PICK q : q = <<v, d, cut[v][d] + 1>>
        OBVIOUS
      <4>2. q \in left /\ q[1] = v /\ q[2] = d
        BY <3>5, <4>1
      <4> QED
        BY <1>4, <2>1, <4>2
    <3> QED
      BY <1>5, <3>3, <3>4, <3>6
  <2> QED
    BY <1>2, <1>4, <1>10, <1>12, <2>1, <2>2
<1> QED
  BY <1>11, <1>12

\* A fetched row was owed and is not folded yet: the cuts are as before.
LEMMA FetchStep ==
    ASSUME SummaryInv, Fetch
    PROVE  SummaryInv'
<1>1. /\ outcome = "running" /\ reader \in {"rows", "row_stream"} /\ pending = Absent
      /\ UNCHANGED <<windowLog, reader, window, open, builders, database_rows, outcome>>
  BY DEF Fetch
<1>2. PICK r \in left : /\ reader = "rows" => r[1] = window
                        /\ pending' = r /\ left' = left \ {r}
                        /\ tidy' = (tidy /\ NextInOrder(r))
  BY DEF Fetch
<1>3. PICK cut : Running(cut)
  BY <1>1 DEF SummaryInv
<1>4. /\ RowState(cut) /\ CutAt(cut) /\ BuiltTo(cut)
      /\ windowLog \in WindowLogs /\ window \in Windows
      /\ left \subseteq AllRows /\ database_rows \in [Windows -> Nat]
  BY <1>1, <1>3, RowFacts
<1>5. r \in AllRows /\ r # Absent
  BY <1>4, RowParts
<1>6. AllRows' = AllRows /\ \A w, c : LengthOf(w, c)' = LengthOf(w, c)
  BY <1>1 DEF AllRows, RowsIn, LengthOf
<1>7. CutAt(cut)'
  <2>1. ASSUME NEW w \in Windows, NEW c \in DOMAIN windowLog[w], NEW i \in 1 .. LengthOf(w, c)
        PROVE  Waiting(w, c, i)' <=> i > cut[w][c]
    <3>1. <<w, c, i>> # Absent
      BY <1>4, RowParts
    <3>2. Waiting(w, c, i)' <=> Waiting(w, c, i)
      BY <1>1, <1>2, <3>1 DEF Waiting
    <3> QED
      BY <1>4, <3>2, CutParts
  <2> QED
    BY <1>1, <1>4, <1>6, <2>1 DEF CutAt
<1>8. BuiltTo(cut)'
  BY <1>1, <1>4 DEF BuiltTo, Buffered
<1>9. RowState(cut)'
  <2>1. OpenTo(cut)'
    BY <1>1, <1>4 DEF RowState, OpenTo
  <2>2. /\ \A w \in Windows : w > window => \A c \in DOMAIN windowLog[w] : cut[w][c] = 0
        /\ \A w \in Windows :
               database_rows[w] <= Cardinality(EventsOf(Taken(windowLog[w], cut[w], Absent)))
    BY <1>4 DEF RowState
  <2>3. reader = "rows" => (\A q \in left' : q[1] >= window) /\ pending'[1] = window
    BY <1>2, <1>4 DEF RowState
  <2>4. ASSUME tidy' PROVE InOrder(cut)'
    <3>1. NextInOrder(r) /\ InOrder(cut)
      BY <1>2, <1>4, <2>4 DEF RowState
    <3>2. open.case # Absent => open.case \in DOMAIN windowLog[window]
      BY <1>4, OpenCase DEF RowState
    <3>3. /\ r[1] >= window
          /\ \A q \in left : q[1] >= r[1]
          /\ r[3] = IF r[1] = window /\ r[2] = open.case
                    THEN cut[window][open.case] + 1 ELSE 1
          /\ \A w \in Windows : \A c \in DOMAIN windowLog[w] :
                 \/ cut[w][c] \in {0, LengthOf(w, c)}
                 \/ w = window /\ c = open.case /\ r[1] = window /\ r[2] = open.case
      BY <1>1, <1>4, <3>1, <3>2, NextRow
    <3>4. \A q \in left' : q[1] >= window
      BY <1>2, <3>1 DEF InOrder
    <3>5. Continues' <=> r[1] = window /\ r[2] = open.case
      BY <1>1, <1>2 DEF Continues
    <3> QED
      BY <1>1, <1>2, <1>5, <1>6, <3>3, <3>4, <3>5 DEF InOrder
  <2> QED
    BY <1>1, <1>2, <2>1, <2>2, <2>3, <2>4 DEF RowState
<1>10. Running(cut)'
  BY <1>1, <1>2, <1>4, <1>5, <1>6, <1>7, <1>8, <1>9 DEF Running
<1> QED
  BY <1>1, <1>10 DEF SummaryInv, SummaryExact, RefusedForCause

\* What was read of a window does not fit: neither does the window.
LEMMA ReadOverflows ==
    ASSUME windowLog \in WindowLogs, reader # "batches", NEW w \in Windows,
           NEW n, Cuts(windowLog[w], n), NEW skip,
           ~CountsFit(SummaryOf(Taken(windowLog[w], n, skip), FALSE))
    PROVE  ~CountsFit(Reference(w))
<1>1. CaseLog(windowLog[w])
  BY LogParts
<1>2. PICK L, packed : L = Taken(windowLog[w], n, skip) /\ packed = FALSE
  OBVIOUS
<1>3. PartOf(L, windowLog[w])
  BY <1>1, <1>2, TakenPart DEF TakenAs
<1>4. ~CountsFit(SummaryOf(L, packed))
  BY <1>2
<1>5. ~CountsFit(SummaryOf(windowLog[w], packed))
  BY <1>3, <1>4, PartFits
<1>6. packed = (reader = "batches")
  BY <1>2
<1> QED
  BY <1>5, <1>6 DEF Reference

\* What a window that was read to its end is.
LEMMA WindowRead ==
    ASSUME windowLog \in WindowLogs, reader # "batches", NEW w \in Windows, NEW cut, CutAt(cut),
           \A c \in DOMAIN windowLog[w] : cut[w][c] = LengthOf(w, c)
    PROVE  SummaryOf(Taken(windowLog[w], cut[w], Absent), FALSE) = Reference(w)
<1>1. CaseLog(windowLog[w]) /\ Absent \notin DOMAIN windowLog[w] /\ Cuts(windowLog[w], cut[w])
  BY LogParts DEF CutAt
<1>2. Taken(windowLog[w], cut[w], Absent) = windowLog[w]
  BY <1>1, TakenWhole DEF LengthOf
<1>3. PICK packed : packed = (reader = "batches")
  OBVIOUS
<1>4. Reference(w) = SummaryOf(windowLog[w], packed)
  BY <1>3 DEF Reference
<1>5. packed = FALSE
  BY <1>3
<1> QED
  BY <1>2, <1>4, <1>5

\* What is folded when a window is closed.
LEMMA CloseBuilt ==
    ASSUME NEW cut, Running(cut), reader \in {"rows", "row_stream"},
           builders' = [builders EXCEPT ![window] = FlushedBuilder]
    PROVE  /\ builders' = [w \in Windows |-> builders'[w]]
           /\ \A w \in Windows :
                  builders'[w] = SummaryOf(Taken(windowLog[w], cut[w], Absent), FALSE)
<1>1. /\ RowState(cut) /\ CutAt(cut) /\ BuiltTo(cut)
      /\ windowLog \in WindowLogs /\ window \in Windows /\ reader # "batches"
  BY RowFacts
<1>2. builders = [w \in Windows |-> builders[w]]
  BY <1>1 DEF BuiltTo
<1>3. /\ builders' = [w \in Windows |-> builders'[w]]
      /\ builders'[window] = FlushedBuilder
      /\ \A w \in Windows : w # window => builders'[w] = builders[w]
  BY <1>1, <1>2
<1>4. OpenTo(cut)
  BY <1>1 DEF RowState
<1>5. FlushedBuilder = SummaryOf(Taken(windowLog[window], cut[window], Absent), FALSE)
  BY <1>1, <1>4, Flushed
<1>6. ASSUME NEW w \in Windows, w # window
      PROVE  builders'[w] = SummaryOf(Taken(windowLog[w], cut[w], Absent), FALSE)
  <2>1. Buffered(w) = Absent
    BY <1>6 DEF Buffered
  <2> QED
    BY <1>1, <1>3, <1>6, <2>1, BuilderOf
<1> QED
  BY <1>3, <1>5, <1>6

\* A window closes when nothing of it is to come.
LEMMA CloseLeft ==
    ASSUME NEW cut, Running(cut), reader \in {"rows", "row_stream"},
           IF pending = Absent
           THEN \A r \in left : reader = "rows" /\ r[1] # window
           ELSE pending[1] # window
    PROVE  /\ reader = "rows" => pending = Absent /\ \A q \in left : q[1] > window
           /\ pending = Absent => \A c \in DOMAIN windowLog[window] : cut[window][c] = LengthOf(window, c)
           /\ tidy => /\ \A q \in left : q[1] > window
                      /\ pending # Absent => pending[1] > window
           /\ \A q \in left : q[1] \in Windows
           /\ pending # Absent => pending[1] \in Windows
<1>1. /\ RowState(cut) /\ CutAt(cut)
      /\ windowLog \in WindowLogs /\ window \in Windows /\ window \in Nat
      /\ left \subseteq AllRows /\ (pending = Absent \/ pending \in AllRows)
  BY RowFacts DEF Windows
<1>2. \A r \in AllRows : r[1] \in Windows /\ r[1] \in Nat
  BY <1>1, RowParts DEF Windows
<1>3. ASSUME reader = "rows" PROVE pending = Absent /\ \A q \in left : q[1] > window
  <2>1. (\A q \in left : q[1] >= window) /\ (pending # Absent => pending[1] = window)
    BY <1>1, <1>3 DEF RowState
  <2>2. pending = Absent
    BY <2>1
  <2>3. \A q \in left : q[1] # window /\ q[1] \in Nat /\ q[1] >= window
    BY <1>1, <1>2, <2>1, <2>2
  <2> QED
    BY <1>1, <2>2, <2>3
<1>4. ASSUME pending = Absent, NEW c \in DOMAIN windowLog[window]
      PROVE  cut[window][c] = LengthOf(window, c)
  <2>1. ASSUME NEW i \in 1 .. LengthOf(window, c) PROVE ~Waiting(window, c, i)
    <3>1. <<window, c, i>> # Absent
      BY <1>1, RowParts
    <3>2. \A r \in left : r[1] # window
      BY <1>4
    <3>3. <<window, c, i>> \notin left
      <4>1. PICK q : q = <<window, c, i>>
        OBVIOUS
      <4>2. q[1] = window
        BY <4>1
      <4> QED
        BY <3>2, <4>1, <4>2
    <3> QED
      BY <1>4, <3>1, <3>3 DEF Waiting
  <2> QED
    BY <1>1, <2>1, CutParts
<1>5. ASSUME tidy
      PROVE  (\A q \in left : q[1] > window) /\ (pending # Absent => pending[1] > window)
  <2>1. InOrder(cut)
    BY <1>1, <1>5 DEF RowState
  <2>2. CASE pending = Absent
    <3>1. \A q \in left : q[1] # window /\ q[1] \in Nat /\ q[1] >= window
      BY <1>1, <1>2, <2>1, <2>2 DEF InOrder
    <3> QED
      BY <1>1, <2>2, <3>1
  <2>3. CASE pending # Absent
    <3>1. pending[1] >= window /\ pending[1] # window /\ \A q \in left : q[1] >= pending[1]
      BY <2>1, <2>3 DEF InOrder
    <3>2. pending[1] \in Nat /\ \A q \in left : q[1] \in Nat
      BY <1>1, <1>2, <2>3
    <3>3. pending[1] > window
      BY <1>1, <3>1, <3>2
    <3> QED
      BY <1>1, <3>1, <3>2, <3>3
  <2> QED
    BY <2>2, <2>3
<1> QED
  BY <1>1, <1>2, <1>3, <1>4, <1>5

\* The next window begins.
LEMMA NextWindow ==
    ASSUME NEW cut, Running(cut), outcome = "running", reader \in {"rows", "row_stream"},
           UNCHANGED <<windowLog, reader, left, pending, database_rows, tidy, outcome>>,
           IF pending = Absent
           THEN \A r \in left : reader = "rows" /\ r[1] # window
           ELSE pending[1] # window,
           open' = NoCase, builders' = [builders EXCEPT ![window] = FlushedBuilder],
           MoreWindows, window' = window + 1
    PROVE  SummaryInv'
<1>1. /\ RowState(cut) /\ CutAt(cut)
      /\ windowLog \in WindowLogs /\ window \in Windows
      /\ left \subseteq AllRows /\ (pending = Absent \/ pending \in AllRows)
      /\ pending \notin left
      /\ database_rows \in [Windows -> Nat] /\ reader # "batches"
  BY RowFacts
<1>2. window \in Nat /\ window' \in Windows /\ window' \in Nat
  BY <1>1, LogAssumption DEF Windows, MoreWindows
<1>3. /\ reader = "rows" => pending = Absent /\ \A q \in left : q[1] > window
      /\ pending = Absent => \A c \in DOMAIN windowLog[window] : cut[window][c] = LengthOf(window, c)
      /\ tidy => /\ \A q \in left : q[1] > window
                 /\ pending # Absent => pending[1] > window
      /\ \A q \in left : q[1] \in Nat
      /\ pending # Absent => pending[1] \in Nat
  BY CloseLeft DEF Windows
<1>4. AllRows' = AllRows /\ \A w, c : LengthOf(w, c)' = LengthOf(w, c)
  BY DEF AllRows, RowsIn, LengthOf
<1>5. CutAt(cut)'
  BY <1>1, <1>4 DEF CutAt, Waiting
<1>6. BuiltTo(cut)'
  <2>1. /\ builders' = [w \in Windows |-> builders'[w]]
        /\ \A w \in Windows :
               builders'[w] = SummaryOf(Taken(windowLog[w], cut[w], Absent), FALSE)
    BY CloseBuilt
  <2>2. \A w \in Windows : Buffered(w)' = Absent
    BY DEF Buffered, NoCase
  <2>3. ASSUME NEW w \in Windows
        PROVE  builders'[w] = SummaryOf(Taken(windowLog[w], cut[w], Absent), reader = "batches")
    <3>1. PICK packed : packed = FALSE
      OBVIOUS
    <3>2. builders'[w] = SummaryOf(Taken(windowLog[w], cut[w], Absent), packed)
      BY <2>1, <3>1
    <3>3. packed = (reader = "batches")
      BY <1>1, <3>1
    <3> QED
      BY <3>2, <3>3
  <2> QED
    BY <2>1, <2>2, <2>3 DEF BuiltTo
<1>7. RowState(cut)'
  <2>1. OpenTo(cut)'
    BY DEF OpenTo, NoCase
  <2>2. \A w \in Windows : w > window' => \A c \in DOMAIN windowLog[w] : cut[w][c] = 0
    <3>1. \A w \in Windows : w > window => \A c \in DOMAIN windowLog[w] : cut[w][c] = 0
      BY <1>1 DEF RowState
    <3>2. \A w \in Windows : w > window' => w > window
      BY <1>2 DEF Windows
    <3> QED
      BY <3>1, <3>2
  <2>3. \A w \in Windows :
            database_rows[w] <= Cardinality(EventsOf(Taken(windowLog[w], cut[w], Absent)))
    BY <1>1 DEF RowState
  <2>4. reader = "rows" => (\A q \in left : q[1] >= window') /\ pending = Absent
    BY <1>2, <1>3
  <2>5. ASSUME tidy PROVE InOrder(cut)'
    <3>1. InOrder(cut)
      BY <1>1, <2>5 DEF RowState
    <3>2. (\A q \in left : q[1] >= window') /\ (pending # Absent => pending[1] >= window')
      BY <1>2, <1>3, <2>5
    <3>3. pending # Absent => ~Continues /\ ~Continues'
      <4>1. pending # Absent => pending[2] # Absent
        BY <1>1, RowParts
      <4>2. open'.case = Absent
        BY DEF NoCase
      <4> QED
        BY <4>1, <4>2 DEF Continues
    <3>4. pending # Absent => pending[3] = 1 /\ \A q \in left : q[1] >= pending[1]
      BY <3>1, <3>3 DEF InOrder
    <3>5. \A w \in Windows : \A c \in DOMAIN windowLog[w] : cut[w][c] \in {0, LengthOf(w, c)}
      BY <1>3, <3>1, <3>3 DEF InOrder
    <3> QED
      BY <1>4, <3>2, <3>3, <3>4, <3>5 DEF InOrder
  <2> QED
    BY <2>1, <2>2, <2>3, <2>4, <2>5 DEF RowState
<1>8. Running(cut)'
  BY <1>1, <1>2, <1>4, <1>5, <1>6, <1>7 DEF Running
<1> QED
  BY <1>8 DEF SummaryInv, SummaryExact, RefusedForCause

\* The last window is closed in time, or the stream was not tidy.
LEMMA LastWindow ==
    ASSUME NEW cut, Running(cut), reader \in {"rows", "row_stream"},
           UNCHANGED <<windowLog, reader, tidy>>,
           IF pending = Absent
           THEN \A r \in left : reader = "rows" /\ r[1] # window
           ELSE pending[1] # window,
           builders' = [builders EXCEPT ![window] = FlushedBuilder],
           ~MoreWindows,
           outcome' = IF pending = Absent THEN "ok" ELSE "UnexpectedWindow"
    PROVE  SummaryInv'
<1>1. /\ CutAt(cut) /\ windowLog \in WindowLogs /\ window \in Windows
      /\ left \subseteq AllRows /\ reader # "batches"
  BY RowFacts
<1>2. window = NWindows /\ window \in Nat /\ \A w \in Windows : ~(w > window)
  BY <1>1, LogAssumption DEF Windows, MoreWindows
<1>3. CASE pending # Absent
  <2>1. outcome' = "UnexpectedWindow"
    BY <1>3
  <2>2. ~tidy
    BY <1>2, <1>3, CloseLeft
  <2> QED
    BY <2>1, <2>2, EndedFor
<1>4. CASE pending = Absent
  <2>1. outcome' = "ok"
    BY <1>4
  <2>2. left = {}
    <3>1. \A q \in left : reader = "rows"
      BY <1>4
    <3>2. reader = "rows" => \A q \in left : q[1] > window /\ q[1] \in Windows
      BY CloseLeft
    <3> QED
      BY <1>2, <3>1, <3>2
  <2>3. ASSUME NEW w \in Windows PROVE builders'[w] = Reference(w)
    <3>1. \A c \in DOMAIN windowLog[w] : cut[w][c] = LengthOf(w, c)
      <4> TAKE c \in DOMAIN windowLog[w]
      <4>1. \A i \in 1 .. LengthOf(w, c) : ~Waiting(w, c, i)
        BY <1>1, <1>4, <2>2, RowParts DEF Waiting
      <4> QED
        BY <1>1, <4>1, CutParts
    <3>2. SummaryOf(Taken(windowLog[w], cut[w], Absent), FALSE) = Reference(w)
      BY <1>1, <3>1, WindowRead
    <3> QED
      BY <3>2, CloseBuilt
  <2>4. SummaryExact'
    BY <2>3 DEF SummaryExact, Reference
  <2> QED
    BY <2>1, <2>4 DEF SummaryInv, RefusedForCause
<1> QED
  BY <1>3, <1>4

LEMMA CloseWindowStep ==
    ASSUME SummaryInv, CloseWindow
    PROVE  SummaryInv'
<1>1. /\ outcome = "running" /\ reader \in {"rows", "row_stream"}
      /\ IF pending = Absent
         THEN \A r \in left : reader = "rows" /\ r[1] # window
         ELSE pending[1] # window
      /\ open' = NoCase /\ builders' = [builders EXCEPT ![window] = FlushedBuilder]
      /\ UNCHANGED <<windowLog, reader, left, pending, database_rows, tidy>>
  BY DEF CloseWindow
<1>2. \/ ~CountsFit(FlushedBuilder) /\ outcome' = "CountOverflow"
      \/ MoreWindows /\ window' = window + 1 /\ outcome' = outcome
      \/ ~MoreWindows /\ outcome' = IF pending = Absent THEN "ok" ELSE "UnexpectedWindow"
  BY DEF CloseWindow
<1>3. PICK cut : Running(cut)
  BY <1>1 DEF SummaryInv
<1>4. CASE ~CountsFit(FlushedBuilder) /\ outcome' = "CountOverflow"
  <2>1. /\ windowLog \in WindowLogs /\ window \in Windows /\ reader # "batches"
        /\ OpenTo(cut) /\ BuiltTo(cut) /\ CutAt(cut)
    BY <1>1, <1>3, RowFacts DEF RowState
  <2>2. FlushedBuilder = SummaryOf(Taken(windowLog[window], cut[window], Absent), FALSE)
    BY <2>1, Flushed
  <2>3. Cuts(windowLog[window], cut[window])
    BY <2>1 DEF CutAt
  <2>4. ~CountsFit(Reference(window))
    BY <1>4, <2>1, <2>2, <2>3, ReadOverflows
  <2> QED
    BY <1>1, <1>4, <2>1, <2>4, EndedFor
<1>5. CASE MoreWindows /\ window' = window + 1 /\ outcome' = outcome
  BY <1>1, <1>3, <1>5, NextWindow
<1>6. CASE ~MoreWindows /\ outcome' = IF pending = Absent THEN "ok" ELSE "UnexpectedWindow"
  BY <1>1, <1>3, <1>6, LastWindow
<1> QED
  BY <1>2, <1>4, <1>5, <1>6

\* The cut of a window once one more event of a case is buffered.
Advanced(M, n, c) == [d \in DOMAIN M |-> IF d = c THEN n[c] + 1 ELSE n[d]]

\* The case has an event that was not read.
Unread(M, n, c) == CaseLog(M) /\ Cuts(M, n) /\ c \in DOMAIN M /\ n[c] < Len(M[c])

LEMMA AdvancedCut ==
    ASSUME NEW M, NEW n, NEW c, Unread(M, n, c)
    PROVE  Cuts(M, Advanced(M, n, c))
<1>1. /\ Cuts(M, n) /\ c \in DOMAIN M /\ n[c] < Len(M[c])
      /\ \A d \in DOMAIN M : n[d] \in Nat /\ n[d] <= Len(M[d]) /\ Len(M[d]) \in Nat
  BY TraceParts DEF Unread, Cuts, CaseLog
<1>2. PICK p : p = Advanced(M, n, c)
  OBVIOUS
<1>3. p = [d \in DOMAIN M |-> p[d]] /\ \A d \in DOMAIN M : p[d] = IF d = c THEN n[c] + 1 ELSE n[d]
  BY <1>2 DEF Advanced
<1>4. \A d \in DOMAIN M : p[d] \in Nat /\ p[d] <= Len(M[d])
  BY <1>1, <1>3
<1> QED
  BY <1>2, <1>3, <1>4 DEF Cuts

\* The other cases are as they were.
LEMMA AdvancedOthers ==
    ASSUME NEW M, NEW n, NEW c, Unread(M, n, c)
    PROVE  Taken(M, Advanced(M, n, c), c) = Taken(M, n, c)
<1>1. PICK p : p = Advanced(M, n, c)
  OBVIOUS
<1>2. \A d \in DOMAIN M : d # c => p[d] = n[d]
  BY <1>1 DEF Advanced
<1>3. {d \in DOMAIN M : p[d] > 0 /\ d # c} = {d \in DOMAIN M : n[d] > 0 /\ d # c}
  BY <1>2
<1>4. \A d \in {e \in DOMAIN M : n[e] > 0 /\ e # c} : SubSeq(M[d], 1, p[d]) = SubSeq(M[d], 1, n[d])
  BY <1>2
<1> QED
  BY <1>1, <1>3, <1>4 DEF Taken

\* One event more is read, and it is an event of the window.
LEMMA AdvancedEvents ==
    ASSUME NEW M, NEW n, NEW c, Unread(M, n, c), NEW skip, skip \notin DOMAIN M
    PROVE  /\ Cardinality(EventsOf(Taken(M, n, skip))) \in Nat
           /\ Cardinality(EventsOf(Taken(M, Advanced(M, n, c), skip))) \in Nat
           /\ Cardinality(EventsOf(Taken(M, n, skip))) + 1
                  <= Cardinality(EventsOf(Taken(M, Advanced(M, n, c), skip)))
           /\ Cardinality(EventsOf(Taken(M, Advanced(M, n, c), skip))) <= Cardinality(EventsOf(M))
           /\ Cardinality(EventsOf(M)) \in Nat
<1>1. PICK p : p = Advanced(M, n, c)
  OBVIOUS
<1>2. PICK K : K = Taken(M, n, skip)
  OBVIOUS
<1>3. PICK L : L = Taken(M, p, skip)
  OBVIOUS
<1>4. CaseLog(M) /\ Cuts(M, n) /\ Cuts(M, p) /\ c \in DOMAIN M
  BY <1>1, AdvancedCut DEF Unread
<1>5. TakenAs(K, M, n, skip) /\ TakenAs(L, M, p, skip)
  BY <1>2, <1>3, <1>4, TakenPart
<1>6. /\ CaseLog(K) /\ DOMAIN K = {d \in DOMAIN M : n[d] > 0}
      /\ \A d \in DOMAIN K : Len(K[d]) = n[d]
  BY <1>5 DEF TakenAs
<1>7. /\ CaseLog(L) /\ PartOf(L, M) /\ DOMAIN L = {d \in DOMAIN M : p[d] > 0}
      /\ \A d \in DOMAIN L : Len(L[d]) = p[d]
  BY <1>5 DEF TakenAs
<1>8. /\ \A d \in DOMAIN M : n[d] \in Nat /\ p[d] = IF d = c THEN n[c] + 1 ELSE n[d]
      /\ n[c] \in Nat /\ p[c] = n[c] + 1
  BY <1>1, <1>4 DEF Advanced, Cuts
<1>9. \A d \in DOMAIN K : d \in DOMAIN L /\ Len(K[d]) <= Len(L[d])
  <2> TAKE d \in DOMAIN K
  <2>1. d \in DOMAIN M /\ n[d] > 0 /\ n[d] \in Nat /\ p[d] >= n[d] /\ p[d] \in Nat
    BY <1>6, <1>8
  <2>2. d \in DOMAIN L
    BY <1>7, <2>1
  <2> QED
    BY <1>6, <1>7, <2>1, <2>2
<1>10. c \in DOMAIN L /\ Len(L[c]) = n[c] + 1
  BY <1>4, <1>7, <1>8
<1>11. <<c, n[c] + 1>> \in EventsOf(L) \ EventsOf(K)
  <2>1. n[c] + 1 \in 1 .. Len(L[c])
    BY <1>8, <1>10
  <2>2. <<c, n[c] + 1>> \in EventsOf(L)
    BY <1>7, <1>10, <2>1, EventsFinite
  <2>3. c \in DOMAIN K => n[c] + 1 \notin 1 .. Len(K[c])
    BY <1>6, <1>8
  <2>4. <<c, n[c] + 1>> \notin EventsOf(K)
    BY <1>6, <2>3, EventsFinite
  <2> QED
    BY <2>2, <2>4
<1>12. EventsOf(K) \in SUBSET EventsOf(L)
  <2>1. ASSUME NEW e \in EventsOf(K) PROVE e \in EventsOf(L)
    <3>1. PICK d \in DOMAIN K : e \in {d} \X (DOMAIN K[d])
      BY <2>1 DEF EventsOf
    <3>2. PICK i : e = <<d, i>>
      BY <3>1
    <3>3. i \in 1 .. Len(K[d])
      BY <1>6, <2>1, <3>2, EventsFinite
    <3>4. Len(K[d]) \in Nat /\ Len(L[d]) \in Nat
      BY <1>6, <1>7, <1>9, TraceParts DEF CaseLog
    <3>5. i \in 1 .. Len(L[d])
      BY <1>9, <3>3, <3>4
    <3> QED
      BY <1>7, <1>9, <3>2, <3>5, EventsFinite
  <2> QED
    BY <2>1
<1>13. IsFiniteSet(EventsOf(K)) /\ IsFiniteSet(EventsOf(L))
  BY <1>6, <1>7, EventsFinite
<1>14. PICK e : e \in EventsOf(L) /\ e \notin EventsOf(K)
  BY <1>11
<1>15. Cardinality(EventsOf(K) \cup {e}) = Cardinality(EventsOf(K)) + 1
  BY <1>13, <1>14, FS_AddElement
<1>16. EventsOf(K) \cup {e} \in SUBSET EventsOf(L)
  BY <1>12, <1>14
<1>17. Cardinality(EventsOf(K) \cup {e}) <= Cardinality(EventsOf(L))
  BY <1>13, <1>16, FS_Subset
<1>18. /\ Cardinality(EventsOf(K)) \in Nat /\ Cardinality(EventsOf(L)) \in Nat
       /\ Cardinality(EventsOf(M)) \in Nat
       /\ Cardinality(EventsOf(L)) <= Cardinality(EventsOf(M))
  BY <1>7, <1>13, PartCounts, FS_CardinalityType
<1> QED
  BY <1>1, <1>2, <1>3, <1>15, <1>17, <1>18

\* The paths and timestamps grow by one.
LEMMA AdvancedPath ==
    ASSUME NEW t, NEW k \in Nat
    PROVE  /\ PathTo(t, k + 1) = Append(PathTo(t, k), t[k + 1].activity)
           /\ StampsTo(t, k + 1) = Append(StampsTo(t, k), t[k + 1].at)
           /\ Len(PathTo(t, k)) = k
           /\ PathTo(t, 0) = <<>> /\ StampsTo(t, 0) = <<>>
BY DEF PathTo, StampsTo

\* A row of another case than the buffered one, the buffered events it is appended to,
\* and the builder once the buffered case is pushed.
Switched(c) == open.case # Absent /\ open.case # c
PriorOf(c) == IF Switched(c) THEN NoCase ELSE open
BuiltWith(c) == IF Switched(c) THEN FlushedBuilder ELSE builders[window]

LEMMA FoldParts ==
    ASSUME FoldRow, NEW c, c = pending[2], NEW i, i = pending[3]
    PROVE  \/ /\ outcome' = "CountOverflow" /\ Bounded
              /\ database_rows[window] = MaxCount \/ ~CountsFit(BuiltWith(c))
           \/ outcome' = "InvalidEventLogOrder" /\ i # Len(PriorOf(c).path) + 1
           \/ outcome' = "InvalidEventLogOrder" /\ Bounded /\ i = MaxOrdinal
           \/ /\ i = Len(PriorOf(c).path) + 1
              /\ open' = [case |-> c,
                          path |-> Append(PriorOf(c).path, windowLog[window][c][i].activity),
                          times |-> Append(PriorOf(c).times, windowLog[window][c][i].at)]
              /\ builders' = [builders EXCEPT ![window] = BuiltWith(c)]
              /\ database_rows' = [database_rows EXCEPT ![window] = @ + 1]
              /\ pending' = Absent
              /\ outcome' = outcome
<1>1. Absent # "CountOverflow" /\ Absent # "InvalidEventLogOrder"
  BY SizeAssumption DEF Outcomes
<1> DEFINE error == CASE Bounded /\ database_rows[window] = MaxCount -> "CountOverflow"
                      [] Bounded /\ ~CountsFit(BuiltWith(c)) -> "CountOverflow"
                      [] i # Len(PriorOf(c).path) + 1 -> "InvalidEventLogOrder"
                      [] Bounded /\ i = MaxOrdinal -> "InvalidEventLogOrder"
                      [] OTHER -> Absent
<1>2. IF error # Absent
      THEN outcome' = error /\ UNCHANGED <<pending, open, builders, database_rows>>
      ELSE /\ open' = [case |-> c,
                       path |-> Append(PriorOf(c).path, windowLog[window][c][i].activity),
                       times |-> Append(PriorOf(c).times, windowLog[window][c][i].at)]
           /\ builders' = [builders EXCEPT ![window] = BuiltWith(c)]
           /\ database_rows' = [database_rows EXCEPT ![window] = @ + 1]
           /\ pending' = Absent
           /\ UNCHANGED outcome
  BY DEF FoldRow, ExpectedOrdinal, Switched, PriorOf, BuiltWith
<1>3. \/ error = "CountOverflow" /\ Bounded /\ database_rows[window] = MaxCount
      \/ error = "CountOverflow" /\ Bounded /\ ~CountsFit(BuiltWith(c))
      \/ error = "InvalidEventLogOrder" /\ i # Len(PriorOf(c).path) + 1
      \/ error = "InvalidEventLogOrder" /\ Bounded /\ i = MaxOrdinal
      \/ error = Absent /\ i = Len(PriorOf(c).path) + 1
  OBVIOUS
<1> HIDE DEF error
<1> QED
  BY <1>1, <1>2, <1>3

\* The builder a row is folded into.
LEMMA BuiltSkips ==
    ASSUME NEW cut, Running(cut), reader \in {"rows", "row_stream"}, NEW c
    PROVE  BuiltWith(c) = SummaryOf(Taken(windowLog[window], cut[window],
                                          IF Switched(c) THEN Absent ELSE open.case), FALSE)
<1>1. /\ OpenTo(cut) /\ CutAt(cut) /\ BuiltTo(cut)
      /\ windowLog \in WindowLogs /\ window \in Windows /\ reader # "batches"
  BY RowFacts DEF RowState
<1>2. builders[window] = SummaryOf(Taken(windowLog[window], cut[window], open.case), FALSE)
  BY <1>1, BuilderOf DEF Buffered
<1>3. FlushedBuilder = SummaryOf(Taken(windowLog[window], cut[window], Absent), FALSE)
  BY <1>1, Flushed
<1> QED
  BY <1>2, <1>3 DEF BuiltWith

\* The expected ordinal is the first that the case has still to come.
LEMMA ExpectedRow ==
    ASSUME NEW cut, Running(cut), reader \in {"rows", "row_stream"},
           NEW c \in DOMAIN windowLog[window], NEW i \in 1 .. LengthOf(window, c),
           Waiting(window, c, i), i = Len(PriorOf(c).path) + 1
    PROVE  /\ i = cut[window][c] + 1 /\ cut[window][c] \in Nat
           /\ PriorOf(c).path = PathTo(windowLog[window][c], cut[window][c])
           /\ PriorOf(c).times = StampsTo(windowLog[window][c], cut[window][c])
           /\ BuiltWith(c) = SummaryOf(Taken(windowLog[window], cut[window], c), FALSE)
<1>1. /\ OpenTo(cut) /\ CutAt(cut) /\ BuiltTo(cut)
      /\ windowLog \in WindowLogs /\ window \in Windows
  BY RowFacts DEF RowState
<1>2. /\ LengthOf(window, c) \in Nat /\ cut[window][c] \in Nat /\ i > cut[window][c]
      /\ c # Absent
  BY <1>1, CutParts, LogParts
<1>3. CASE open.case = c
  <2>1. ~Switched(c) /\ PriorOf(c) = open
    BY <1>3 DEF Switched, PriorOf
  <2>2. /\ open.path = PathTo(windowLog[window][c], cut[window][c])
        /\ open.times = StampsTo(windowLog[window][c], cut[window][c])
    BY <1>1, <1>2, <1>3, OpenCase
  <2>3. i = cut[window][c] + 1
    BY <1>2, <2>1, <2>2, AdvancedPath
  <2>4. BuiltWith(c) = SummaryOf(Taken(windowLog[window], cut[window], c), FALSE)
    BY <1>3, <2>1, BuiltSkips
  <2> QED
    BY <1>2, <2>1, <2>2, <2>3, <2>4
<1>4. CASE open.case # c
  <2>1. PriorOf(c) = NoCase
    BY <1>1, <1>4, OpenCase DEF Switched, PriorOf
  <2>2. PriorOf(c).path = <<>> /\ PriorOf(c).times = <<>>
    BY <2>1 DEF NoCase
  <2>3. i = 1 /\ cut[window][c] = 0
    BY <1>2, <2>2
  <2>4. BuiltWith(c) = SummaryOf(Taken(windowLog[window], cut[window], Absent), FALSE)
    <3>1. (IF Switched(c) THEN Absent ELSE open.case) = Absent
      BY <1>4 DEF Switched
    <3> QED
      BY <3>1, BuiltSkips
  <2>5. Taken(windowLog[window], cut[window], Absent) = Taken(windowLog[window], cut[window], c)
    <3>1. PICK M, n : M = windowLog[window] /\ n = cut[window]
      OBVIOUS
    <3>2. Absent \notin DOMAIN M /\ n[c] = 0
      BY <1>1, <2>3, <3>1, LogParts
    <3>3. {d \in DOMAIN M : n[d] > 0 /\ d # Absent} = {d \in DOMAIN M : n[d] > 0 /\ d # c}
      BY <3>2
    <3>4. Taken(M, n, Absent) = Taken(M, n, c)
      BY <3>3 DEF Taken
    <3> QED
      BY <3>1, <3>4
  <2>6. PathTo(windowLog[window][c], 0) = <<>> /\ StampsTo(windowLog[window][c], 0) = <<>>
    BY AdvancedPath
  <2> QED
    BY <2>2, <2>3, <2>4, <2>5, <2>6
<1> QED
  BY <1>3, <1>4

\* A tidy stream has the expected ordinal.
LEMMA TidyRow ==
    ASSUME NEW cut, Running(cut), reader \in {"rows", "row_stream"}, tidy,
           NEW c \in DOMAIN windowLog[window], NEW i \in 1 .. LengthOf(window, c),
           pending = <<window, c, i>>
    PROVE  i = Len(PriorOf(c).path) + 1
<1>1. /\ OpenTo(cut) /\ CutAt(cut) /\ InOrder(cut)
      /\ windowLog \in WindowLogs /\ window \in Windows /\ pending # Absent
  BY RowFacts, RowParts DEF RowState
<1>2. pending[1] = window /\ pending[2] = c /\ pending[3] = i /\ c # Absent
  BY <1>1, LogParts
<1>3. i = IF open.case = c THEN cut[window][c] + 1 ELSE 1
  BY <1>1, <1>2 DEF InOrder, Continues
<1>4. cut[window][c] \in Nat
  BY <1>1, CutParts
<1>5. CASE open.case = c
  <2>1. PriorOf(c).path = PathTo(windowLog[window][c], cut[window][c])
    BY <1>1, <1>2, <1>5, OpenCase DEF Switched, PriorOf
  <2> QED
    BY <1>3, <1>4, <1>5, <2>1, AdvancedPath
<1>6. CASE open.case # c
  <2>1. PriorOf(c) = NoCase
    BY <1>1, <1>6, OpenCase DEF Switched, PriorOf
  <2> QED
    BY <1>3, <1>6, <2>1 DEF NoCase
<1> QED
  BY <1>5, <1>6

\* A row that is folded.
LEMMA RowTaken ==
    ASSUME NEW cut, Running(cut), outcome = "running", reader \in {"rows", "row_stream"},
           NEW c \in DOMAIN windowLog[window], NEW i \in 1 .. LengthOf(window, c),
           pending = <<window, c, i>>,
           i = Len(PriorOf(c).path) + 1,
           UNCHANGED <<windowLog, reader, left, window, tidy, outcome>>,
           pending' = Absent,
           open' = [case |-> c,
                    path |-> Append(PriorOf(c).path, windowLog[window][c][i].activity),
                    times |-> Append(PriorOf(c).times, windowLog[window][c][i].at)],
           builders' = [builders EXCEPT ![window] = BuiltWith(c)],
           database_rows' = [database_rows EXCEPT ![window] = @ + 1]
    PROVE  SummaryInv'
<1>1. /\ RowState(cut) /\ CutAt(cut) /\ BuiltTo(cut)
      /\ windowLog \in WindowLogs /\ window \in Windows /\ left \subseteq AllRows
      /\ pending \notin left
      /\ database_rows \in [Windows -> Nat] /\ reader # "batches"
  BY RowFacts
<1>2. Waiting(window, c, i)
  BY DEF Waiting
<1>3. /\ i = cut[window][c] + 1 /\ cut[window][c] \in Nat
      /\ PriorOf(c).path = PathTo(windowLog[window][c], cut[window][c])
      /\ PriorOf(c).times = StampsTo(windowLog[window][c], cut[window][c])
      /\ BuiltWith(c) = SummaryOf(Taken(windowLog[window], cut[window], c), FALSE)
  BY <1>2, ExpectedRow
<1>4. PICK p : p = Advanced(windowLog[window], cut[window], c)
  OBVIOUS
<1>5. PICK next : next = [v \in Windows |-> IF v = window THEN p ELSE cut[v]]
  OBVIOUS
<1>6. next[window] = p /\ DOMAIN next = Windows /\ \A v \in Windows : v # window => next[v] = cut[v]
  BY <1>1, <1>5
<1>7. /\ \A d \in DOMAIN windowLog[window] : p[d] = IF d = c THEN i ELSE cut[window][d]
      /\ p[c] = i
  BY <1>3, <1>4 DEF Advanced
<1>8. /\ CaseLog(windowLog[window]) /\ Absent \notin DOMAIN windowLog[window]
      /\ LengthOf(window, c) \in Nat
  BY <1>1, LogParts
<1>9. Unread(windowLog[window], cut[window], c)
  <2>1. cut[window][c] < Len(windowLog[window][c])
    BY <1>3, <1>8 DEF LengthOf
  <2> QED
    BY <1>1, <1>8, <2>1 DEF Unread, CutAt
<1>10. AllRows' = AllRows /\ \A w, d : LengthOf(w, d)' = LengthOf(w, d)
  BY DEF AllRows, RowsIn, LengthOf
<1>11. CutAt(next)'
  <2>1. \A v \in Windows : Cuts(windowLog[v], next[v])
    BY <1>1, <1>4, <1>6, <1>9, AdvancedCut DEF CutAt
  <2>2. ASSUME NEW v \in Windows, NEW d \in DOMAIN windowLog[v], NEW j \in 1 .. LengthOf(v, d)
        PROVE  Waiting(v, d, j)' <=> j > next[v][d]
    <3>1. /\ Waiting(v, d, j) <=> j > cut[v][d]
          /\ cut[v][d] \in Nat /\ LengthOf(v, d) \in Nat
      BY <1>1, CutParts, LogParts
    <3>2. <<v, d, j>> # Absent
      BY <1>1, RowParts
    <3>3. Waiting(v, d, j)' <=> <<v, d, j>> \in left
      BY <3>2 DEF Waiting
    <3>4. CASE v = window /\ d = c
      <4>1. next[v][d] = i
        BY <1>6, <1>7, <3>4
      <4>2. CASE j = i
        BY <1>1, <3>3, <3>4, <4>1, <4>2
      <4>3. CASE j # i
        <5>1. pending # <<v, d, j>>
          BY <3>4, <4>3
        <5>2. <<v, d, j>> \in left <=> j > cut[v][d]
          BY <3>1, <5>1 DEF Waiting
        <5>3. j > i <=> j > cut[v][d]
          BY <1>3, <3>1, <3>4, <4>3
        <5> QED
          BY <3>3, <4>1, <5>2, <5>3
      <4> QED
        BY <4>2, <4>3
    <3>5. CASE ~(v = window /\ d = c)
      <4>1. next[v][d] = cut[v][d]
        BY <1>6, <1>7, <3>5
      <4>2. pending # <<v, d, j>>
        BY <3>5
      <4> QED
        BY <3>1, <3>3, <4>1, <4>2 DEF Waiting
    <3> QED
      BY <3>4, <3>5
  <2> QED
    BY <1>6, <1>10, <2>1, <2>2 DEF CutAt
<1>12. open' = [case |-> c, path |-> PathTo(windowLog[window][c], i),
                times |-> StampsTo(windowLog[window][c], i)]
  BY <1>3, AdvancedPath
<1>13. open'.case = c
  BY <1>12
<1>14. BuiltTo(next)'
  <2>1. builders = [v \in Windows |-> builders[v]]
    BY <1>1 DEF BuiltTo
  <2>2. /\ builders' = [v \in Windows |-> builders'[v]]
        /\ builders'[window] = BuiltWith(c)
        /\ \A v \in Windows : v # window => builders'[v] = builders[v]
    BY <1>1, <2>1
  <2>3. ASSUME NEW v \in Windows
        PROVE  builders'[v] = SummaryOf(Taken(windowLog[v], next[v], Buffered(v)'), FALSE)
    <3>1. CASE v # window
      <4>1. Buffered(v) = Absent /\ Buffered(v)' = Absent
        BY <3>1 DEF Buffered
      <4>2. builders[v] = SummaryOf(Taken(windowLog[v], cut[v], Buffered(v)), FALSE)
        BY <1>1, BuilderOf
      <4>3. builders'[v] = builders[v] /\ next[v] = cut[v]
        BY <1>6, <2>2, <3>1
      <4> QED
        BY <4>1, <4>2, <4>3
    <3>2. CASE v = window
      <4>1. Buffered(v)' = c
        BY <1>13, <3>2 DEF Buffered
      <4>2. Taken(windowLog[window], p, c) = Taken(windowLog[window], cut[window], c)
        BY <1>4, <1>9, AdvancedOthers
      <4> QED
        BY <1>3, <1>6, <2>2, <3>2, <4>1, <4>2
    <3> QED
      BY <3>1, <3>2
  <2>4. PICK packed : packed = FALSE
    OBVIOUS
  <2>5. \A v \in Windows :
            builders'[v] = SummaryOf(Taken(windowLog[v], next[v], Buffered(v)'), packed)
    BY <2>3, <2>4
  <2>6. packed = (reader' = "batches")
    BY <1>1, <2>4
  <2>7. \A v \in Windows : builders'[v] =
            SummaryOf(Taken(windowLog[v], next[v], Buffered(v)'), reader' = "batches")
    BY <2>5, <2>6
  <2> QED
    BY <2>2, <2>7 DEF BuiltTo
<1>15. RowState(next)'
  <2>1. OpenTo(next)'
    <3>1. next[window][c] = i /\ i > 0
      BY <1>3, <1>6, <1>7
    <3> QED
      BY <1>12, <1>13, <3>1 DEF OpenTo
  <2>2. \A v \in Windows : v > window => \A d \in DOMAIN windowLog[v] : next[v][d] = 0
    <3>1. \A v \in Windows : v > window => v # window
      BY <1>1 DEF Windows
    <3> QED
      BY <1>1, <1>6, <3>1 DEF RowState
  <2>3. ASSUME NEW v \in Windows
        PROVE  database_rows'[v] <= Cardinality(EventsOf(Taken(windowLog[v], next[v], Absent)))
    <3>1. database_rows[v] <= Cardinality(EventsOf(Taken(windowLog[v], cut[v], Absent)))
      BY <1>1 DEF RowState
    <3>2. CASE v # window
      BY <1>1, <1>6, <3>1, <3>2
    <3>3. CASE v = window
      <4>1. PICK few, many : /\ few = Cardinality(EventsOf(Taken(windowLog[window], cut[window], Absent)))
                             /\ many = Cardinality(EventsOf(Taken(windowLog[window], p, Absent)))
        OBVIOUS
      <4>2. few \in Nat /\ many \in Nat /\ few + 1 <= many
        BY <1>4, <1>8, <1>9, <4>1, AdvancedEvents
      <4>3. database_rows[window] <= few /\ database_rows[window] \in Nat
        BY <1>1, <3>1, <3>3, <4>1
      <4>4. database_rows'[window] = database_rows[window] + 1
        BY <1>1
      <4> QED
        BY <1>6, <3>3, <4>1, <4>2, <4>3, <4>4
    <3> QED
      BY <3>2, <3>3
  <2>4. reader = "rows" => \A q \in left : q[1] >= window
    BY <1>1 DEF RowState
  <2>5. ASSUME tidy PROVE InOrder(next)'
    <3>1. InOrder(cut) /\ pending # Absent /\ (Continues => open.case = c)
      BY <1>1, <2>5, RowParts DEF RowState, Continues
    <3>2. \A q \in left : q[1] >= window
      BY <3>1 DEF InOrder
    <3>3. ASSUME NEW v \in Windows, NEW d \in DOMAIN windowLog[v], ~(v = window /\ d = c)
          PROVE  next[v][d] \in {0, LengthOf(v, d)}
      <4>1. cut[v][d] \in {0, LengthOf(v, d)}
        BY <3>1, <3>3 DEF InOrder
      <4> QED
        BY <1>6, <1>7, <3>3, <4>1
    <3> QED
      BY <1>10, <1>13, <3>2, <3>3 DEF InOrder
  <2> QED
    BY <2>1, <2>2, <2>3, <2>4, <2>5 DEF RowState
<1>16. Absent \notin left
  BY <1>1, RowParts
<1>17. database_rows' \in [Windows -> Nat]
  BY <1>1
<1>18. Running(next)'
  BY <1>1, <1>10, <1>11, <1>14, <1>15, <1>16, <1>17 DEF Running
<1> QED
  BY <1>18 DEF SummaryInv, SummaryExact, RefusedForCause

\* A row is counted once: a count that is full means that the window has more.
LEMMA RowsOverflow ==
    ASSUME NEW cut, Running(cut), reader \in {"rows", "row_stream"},
           NEW c \in DOMAIN windowLog[window], NEW i \in 1 .. LengthOf(window, c),
           pending = <<window, c, i>>, database_rows[window] = MaxCount
    PROVE  ~CountsFit(Reference(window))
<1>1. /\ RowState(cut) /\ CutAt(cut)
      /\ windowLog \in WindowLogs /\ window \in Windows /\ reader # "batches"
  BY RowFacts
<1>2. /\ CaseLog(windowLog[window]) /\ Absent \notin DOMAIN windowLog[window]
      /\ LengthOf(window, c) \in Nat /\ cut[window][c] \in Nat /\ i > cut[window][c]
  BY <1>1, CutParts, LogParts DEF Waiting
<1>3. Unread(windowLog[window], cut[window], c)
  <2>1. cut[window][c] < Len(windowLog[window][c])
    BY <1>2 DEF LengthOf
  <2> QED
    BY <1>1, <1>2, <2>1 DEF Unread, CutAt
<1>4. PICK few, many, all :
          /\ few = Cardinality(EventsOf(Taken(windowLog[window], cut[window], Absent)))
          /\ many = Cardinality(EventsOf(Taken(windowLog[window],
                        Advanced(windowLog[window], cut[window], c), Absent)))
          /\ all = Cardinality(EventsOf(windowLog[window]))
  OBVIOUS
<1>5. few \in Nat /\ many \in Nat /\ all \in Nat /\ few + 1 <= many /\ many <= all
  BY <1>2, <1>3, <1>4, AdvancedEvents
<1>6. MaxCount <= few /\ MaxCount \in Nat
  BY <1>1, <1>4, SizeAssumption DEF RowState
<1>7. PICK packed, s : packed = (reader = "batches") /\ s = SummaryOf(windowLog[window], packed)
  OBVIOUS
<1>8. s.events = all
  BY <1>4, <1>7, SummaryShape
<1>9. s.events \notin 0 .. MaxCount
  BY <1>5, <1>6, <1>8
<1>10. CountsFit(s) => s.events \in 0 .. MaxCount
  BY DEF CountsFit
<1> QED
  BY <1>7, <1>9, <1>10 DEF Reference

LEMMA TakeRowStep ==
    ASSUME SummaryInv, TakeRow
    PROVE  SummaryInv'
<1>1. /\ outcome = "running" /\ pending # Absent /\ pending[1] = window /\ FoldRow
      /\ UNCHANGED <<windowLog, reader, left, window, tidy>>
  BY DEF TakeRow
<1>2. PICK cut : Running(cut)
  BY <1>1 DEF SummaryInv
<1>3. reader \in {"rows", "row_stream"}
  BY <1>1, <1>2 DEF Running, BatchState
<1>4. /\ windowLog \in WindowLogs /\ window \in Windows /\ reader # "batches"
      /\ CutAt(cut) /\ pending \in AllRows
  BY <1>1, <1>2, <1>3, RowFacts
<1>5. PICK c, i : c = pending[2] /\ i = pending[3]
  OBVIOUS
<1>6. /\ pending = <<window, c, i>>
      /\ c \in DOMAIN windowLog[window] /\ i \in 1 .. LengthOf(window, c)
  BY <1>1, <1>4, <1>5, RowParts
<1>7. \/ /\ outcome' = "CountOverflow" /\ Bounded
         /\ database_rows[window] = MaxCount \/ ~CountsFit(BuiltWith(c))
      \/ outcome' = "InvalidEventLogOrder" /\ i # Len(PriorOf(c).path) + 1
      \/ outcome' = "InvalidEventLogOrder" /\ Bounded /\ i = MaxOrdinal
      \/ /\ i = Len(PriorOf(c).path) + 1
         /\ open' = [case |-> c,
                     path |-> Append(PriorOf(c).path, windowLog[window][c][i].activity),
                     times |-> Append(PriorOf(c).times, windowLog[window][c][i].at)]
         /\ builders' = [builders EXCEPT ![window] = BuiltWith(c)]
         /\ database_rows' = [database_rows EXCEPT ![window] = @ + 1]
         /\ pending' = Absent
         /\ outcome' = outcome
  BY <1>1, <1>5, FoldParts
<1>8. CASE outcome' = "CountOverflow" /\ database_rows[window] = MaxCount
  <2>1. ~CountsFit(Reference(window))
    BY <1>2, <1>3, <1>6, <1>8, RowsOverflow
  <2> QED
    BY <1>1, <1>4, <1>8, <2>1, EndedFor
<1>9. CASE outcome' = "CountOverflow" /\ ~CountsFit(BuiltWith(c))
  <2>1. PICK skip : skip = IF Switched(c) THEN Absent ELSE open.case
    OBVIOUS
  <2>2. BuiltWith(c) = SummaryOf(Taken(windowLog[window], cut[window], skip), FALSE)
    BY <1>2, <1>3, <2>1, BuiltSkips
  <2>3. Cuts(windowLog[window], cut[window])
    BY <1>4 DEF CutAt
  <2>4. ~CountsFit(Reference(window))
    BY <1>4, <1>9, <2>2, <2>3, ReadOverflows
  <2> QED
    BY <1>1, <1>4, <1>9, <2>4, EndedFor
<1>10. CASE outcome' = "InvalidEventLogOrder" /\ i # Len(PriorOf(c).path) + 1
  <2>1. ~tidy
    BY <1>2, <1>3, <1>6, <1>10, TidyRow
  <2> QED
    BY <1>1, <1>10, <2>1, EndedFor
<1>11. CASE outcome' = "InvalidEventLogOrder" /\ Bounded /\ i = MaxOrdinal
  <2>1. LengthOf(window, c) >= MaxOrdinal
    BY <1>4, <1>6, <1>11, LogParts
  <2> QED
    BY <1>1, <1>4, <1>6, <1>11, <2>1, EndedFor
<1>12. CASE /\ i = Len(PriorOf(c).path) + 1
            /\ open' = [case |-> c,
                        path |-> Append(PriorOf(c).path, windowLog[window][c][i].activity),
                        times |-> Append(PriorOf(c).times, windowLog[window][c][i].at)]
            /\ builders' = [builders EXCEPT ![window] = BuiltWith(c)]
            /\ database_rows' = [database_rows EXCEPT ![window] = @ + 1]
            /\ pending' = Absent
            /\ outcome' = outcome
  BY <1>1, <1>2, <1>3, <1>6, <1>12, RowTaken
<1> QED
  BY <1>7, <1>8, <1>9, <1>10, <1>11, <1>12

-----------------------------------------------------------------------------
(* The invariant.                                                          *)

LEMMA SummaryStutter ==
    ASSUME SummaryInv, UNCHANGED summaryVars
    PROVE  SummaryInv'
<1>1. /\ windowLog' = windowLog /\ reader' = reader /\ left' = left /\ pending' = pending
      /\ window' = window /\ open' = open /\ builders' = builders
      /\ database_rows' = database_rows /\ outcome' = outcome /\ tidy' = tidy
  BY DEF summaryVars
<1>2. SummaryExact' /\ RefusedForCause'
  BY <1>1 DEF SummaryInv, SummaryExact, RefusedForCause, Reference, Bounded
<1>3. ASSUME NEW cut, Running(cut) PROVE Running(cut)'
  <2>1. AllRows' = AllRows /\ \A w, c : LengthOf(w, c)' = LengthOf(w, c)
    BY <1>1 DEF AllRows, RowsIn, LengthOf
  <2>2. CutAt(cut)' <=> CutAt(cut)
    BY <1>1, <2>1 DEF CutAt, Waiting
  <2>3. BuiltTo(cut)' <=> BuiltTo(cut)
    BY <1>1 DEF BuiltTo, Buffered
  <2>4. BatchState(cut)' <=> BatchState(cut)
    BY <1>1, <2>1 DEF BatchState
  <2>5. RowState(cut)' <=> RowState(cut)
    BY <1>1, <2>1 DEF RowState, OpenTo, InOrder, Continues
  <2> QED
    BY <1>1, <1>3, <2>1, <2>2, <2>3, <2>4, <2>5 DEF Running
<1> QED
  BY <1>1, <1>2, <1>3 DEF SummaryInv

\* While a call runs its builders are the summaries of what was read, and what was not
\* read is still owed; when it ends its result is exact, or the refusal has its cause.
THEOREM SummaryInvariant == SummarySpec => []SummaryInv
<1>1. SummaryInit => SummaryInv
  BY SummaryInitial
<1>2. SummaryInv /\ [SummaryNext]_summaryVars => SummaryInv'
  <2> SUFFICES ASSUME SummaryInv, [SummaryNext]_summaryVars PROVE SummaryInv'
    OBVIOUS
  <2>1. CASE Choose
    BY <2>1, ChooseStep
  <2>2. CASE StreamFails
    BY <2>2, StreamFailsStep
  <2>3. CASE DeliverBatch
    BY <2>3, DeliverBatchStep
  <2>4. CASE FinishBatches
    BY <2>4, FinishBatchesStep
  <2>5. CASE Fetch
    BY <2>5, FetchStep
  <2>6. CASE TakeRow
    BY <2>6, TakeRowStep
  <2>7. CASE CloseWindow
    BY <2>7, CloseWindowStep
  <2>8. CASE UNCHANGED summaryVars
    BY <2>8, SummaryStutter
  <2> QED
    BY <2>1, <2>2, <2>3, <2>4, <2>5, <2>6, <2>7, <2>8 DEF SummaryNext
<1> QED
  BY <1>1, <1>2, PTL DEF SummarySpec

\* An event log summary that is returned is exact: the builders of push_batch and
\* push_case hold, for every window, what the window's events say, whichever way the
\* server delivered them.
THEOREM SummariesExact == SummarySpec => []SummaryExact
<1>1. SummaryInv => SummaryExact
  BY DEF SummaryInv
<1> QED
  BY <1>1, SummaryInvariant, PTL

\* A server that keeps its word is refused only for a total, a case or a path length that
\* the integers of EventSummaryBuilder, event_log_row_summary and EventBatch::decode
\* cannot carry.
THEOREM RefusalsHaveCause == SummarySpec => []RefusedForCause
<1>1. SummaryInv => RefusedForCause
  BY DEF SummaryInv
<1> QED
  BY <1>1, SummaryInvariant, PTL

=============================================================================
