--------------------------- MODULE ProviderProofs ---------------------------
(***************************************************************************)
(* Proofs about the two parts of the DuckDB provider that its callers      *)
(* share: the scans of executions (ExecutionScan), for any data, requests  *)
(* and clocks, and the cache of their summaries (SummaryCache), for any    *)
(* requests, sizes and limit and any number of threads.                    *)
(***************************************************************************)
EXTENDS ExecutionScan, SummaryCache, SetInduction, TLAPS

(***************************************************************************)
(* Part 1: the scans of executions.                                        *)
(***************************************************************************)

-----------------------------------------------------------------------------
(* The conversion of times.                                                *)

\* A time that can be read becomes an integer.
LEMMA ReadableTimes ==
    ASSUME NEW r, NEW t \in Int, ToUtc(r, t) # None
    PROVE  ToUtc(r, t) \in Int
<1> DEFINE I == {u \in DOMAIN Clock : Clock[u] = t}
<1>1. CASE ~Zoned(r)
  BY <1>1 DEF ToUtc
<1>2. CASE Zoned(r)
  <2>1. I # {} /\ ToUtc(r, t) \in {Max(I), Min(I)}
    BY <1>2 DEF ToUtc
  <2>2. I \in SUBSET Int /\ IsFiniteSet(I)
    BY <2>1, ClockAssumption
  <2> HIDE DEF I
  <2> QED
    BY <2>1, <2>2, Extremes
<1> QED
  BY <1>1, <1>2

\* The conversion keeps the order of times: clocks that are put back or forward show
\* the earlier time of day first.
LEMMA TimesInOrder ==
    ASSUME NEW r, NEW t \in Int, NEW v \in Int, t < v, ToUtc(r, t) # None, ToUtc(r, v) # None
    PROVE  ToUtc(r, t) < ToUtc(r, v)
<1> DEFINE I(n) == {u \in DOMAIN Clock : Clock[u] = n}
<1>1. CASE ~Zoned(r)
  BY <1>1 DEF ToUtc
<1>2. CASE Zoned(r)
  <2>1. /\ I(t) # {} /\ ToUtc(r, t) = IF r.policy = "latest" THEN Max(I(t)) ELSE Min(I(t))
        /\ I(v) # {} /\ ToUtc(r, v) = IF r.policy = "latest" THEN Max(I(v)) ELSE Min(I(v))
    BY <1>2 DEF ToUtc
  <2>a. ASSUME NEW n, I(n) # {} PROVE I(n) \in SUBSET Int /\ IsFiniteSet(I(n))
    <3>1. PICK u \in DOMAIN Clock : Clock[u] = n
      BY <2>a
    <3>2. I(n) = {w \in DOMAIN Clock : Clock[w] = Clock[u]}
      BY <3>1
    <3> QED
      BY <3>2, ClockAssumption
  <2>2. /\ I(t) \in SUBSET Int /\ IsFiniteSet(I(t))
        /\ I(v) \in SUBSET Int /\ IsFiniteSet(I(v))
    BY <2>1, <2>a
  <2>3. \A a \in I(t) : \A b \in I(v) : (\E w \in I(t) : w < b) /\ (\E w \in I(v) : a < w)
    BY ClockAssumption
  <2> HIDE DEF I
  <2>4. /\ Min(I(t)) \in I(t) /\ Max(I(t)) \in I(t) /\ Min(I(v)) \in I(v) /\ Max(I(v)) \in I(v)
        /\ \A y \in I(t) : Min(I(t)) <= y
        /\ \A y \in I(v) : y <= Max(I(v))
    BY <2>1, <2>2, Extremes
  <2>5. /\ \E w \in I(t) : w < Min(I(v)) /\ Min(I(t)) <= w
        /\ \E w \in I(v) : Max(I(t)) < w /\ w <= Max(I(v))
    BY <2>3, <2>4
  <2> QED
    BY <2>1, <2>2, <2>4, <2>5
<1> QED
  BY <1>1, <1>2

-----------------------------------------------------------------------------
\* The rows of the statement.

\* A log of the database and a request that the folds for executions and pairs answer.
Scanned(l, r) ==
    /\ l \in Logs /\ Valid(l)
    /\ r \in Requests /\ r.layout = l.layout /\ ~r.complete

RowOf(l, o, e, n) ==
    [object_id |-> o.id, event |-> [e EXCEPT !.sequence = n],
     start |-> Min(Lifecycle(l, o.id)), end |-> Max(Lifecycle(l, o.id))]

\* The statement has a row for an object and a row of an event.
Selects(l, r, type, o, e, n) ==
    /\ o \in KeptObjects(l, SourceView(r)) /\ (type = None \/ o.object_type = type)
    /\ e \in l.events /\ n \in Sequences(l, e)
    /\ \E s \in l.e2o : /\ s.event_id = e.id /\ s.object_id = o.id
                        /\ Allows(SourceView(r).qualifiers, s.qualifier)
    /\ Allows(SourceView(r).activities, e.activity)
    /\ Allows(SourceView(r).event_ids, e.id)
    /\ PushesWindow(r) => MatchesWindow(SourceView(r), e.at)

LEMMA SelectionRows ==
    ASSUME NEW l, NEW r, NEW type, NEW x
    PROVE  x \in Selection(l, r, type) <=>
               \E o, e, n : Selects(l, r, type, o, e, n) /\ x = RowOf(l, o, e, n)
<1> DEFINE objects == {o \in KeptObjects(l, SourceView(r)) : type = None \/ o.object_type = type}
           wanted(o) == {f \in l.events :
                            /\ \E s \in l.e2o : /\ s.event_id = f.id /\ s.object_id = o.id
                                                /\ Allows(SourceView(r).qualifiers, s.qualifier)
                            /\ Allows(SourceView(r).activities, f.activity)
                            /\ Allows(SourceView(r).event_ids, f.id)
                            /\ PushesWindow(r) => MatchesWindow(SourceView(r), f.at)}
           some(o, e) == {RowOf(l, o, e, n) : n \in Sequences(l, e)}
<1>1. Selection(l, r, type) = UNION {UNION {some(o, e) : e \in wanted(o)} : o \in objects}
  BY DEF Selection, RowOf
<1>2. \A o, e, n : Selects(l, r, type, o, e, n) <=>
                       o \in objects /\ e \in wanted(o) /\ n \in Sequences(l, e)
  BY DEF Selects
<1> HIDE DEF objects, wanted
<1>3. x \in Selection(l, r, type) <=>
          \E o \in objects : \E e \in wanted(o) : \E n \in Sequences(l, e) : x = RowOf(l, o, e, n)
  BY <1>1
<1> QED
  BY <1>2, <1>3

\* What is in a row.
LEMMA RowParts ==
    ASSUME NEW l, NEW r, Scanned(l, r), NEW type, NEW o, NEW e, NEW n,
           Selects(l, r, type, o, e, n)
    PROVE  /\ o \in l.objects /\ e \in l.events /\ n \in Sequences(l, e)
           /\ n \in Int /\ o.id \in Int /\ e \in EventRecords
           /\ RowOf(l, o, e, n).object_id = o.id
           /\ RowOf(l, o, e, n).event = [e EXCEPT !.sequence = n]
           /\ RowOf(l, o, e, n).event \in EventRecords
           /\ RowOf(l, o, e, n).event.id = e.id
           /\ RowOf(l, o, e, n).event.at = e.at
           /\ RowOf(l, o, e, n).event.sequence = n
           /\ RowOf(l, o, e, n).event.activity = e.activity
           /\ RowOf(l, o, e, n).event.status = e.status
<1>1. o \in l.objects /\ e \in l.events /\ n \in Sequences(l, e)
  BY DEF Selects, KeptObjects
<1>2. e \in EventRecords /\ o.id \in Int /\ \A s \in l.repeats : s.sequence \in Int
  BY <1>1, ScannedAssumption DEF Scanned
<1>3. n \in Int
  BY <1>1, <1>2 DEF Sequences, EventRecords
<1>4. PICK f \in EventRecords : f = [e EXCEPT !.sequence = n]
  BY <1>2, <1>3 DEF EventRecords
<1>5. /\ f.id = e.id /\ f.at = e.at /\ f.sequence = n
      /\ f.activity = e.activity /\ f.status = e.status
  BY <1>2, <1>4 DEF EventRecords
<1>6. RowOf(l, o, e, n).object_id = o.id /\ RowOf(l, o, e, n).event = f
  BY <1>4 DEF RowOf
<1> QED
  BY <1>1, <1>2, <1>3, <1>4, <1>5, <1>6

\* x is the row of an object and an event with a number.
JoinedFrom(l, x, o, e, n) ==
    /\ o \in l.objects /\ e \in l.events /\ n \in Sequences(l, e) /\ n \in Int
    /\ x = RowOf(l, o, e, n) /\ x.object_id = o.id /\ x.event = [e EXCEPT !.sequence = n]
    /\ x.event.id = e.id /\ x.event.at = e.at /\ x.event.sequence = n
    /\ x.event.activity = e.activity /\ x.event.status = e.status

LEMMA RowJoins ==
    ASSUME NEW l, NEW r, Scanned(l, r), NEW type, NEW x \in Selection(l, r, type)
    PROVE  \E o, e, n : Selects(l, r, type, o, e, n) /\ JoinedFrom(l, x, o, e, n)
<1>1. PICK o, e, n : Selects(l, r, type, o, e, n) /\ x = RowOf(l, o, e, n)
  BY SelectionRows
<1>2. JoinedFrom(l, RowOf(l, o, e, n), o, e, n)
  BY <1>1, RowParts DEF JoinedFrom
<1> QED
  BY <1>1, <1>2

\* Rows are records of the right kind.
LEMMA RowsTyped ==
    ASSUME NEW l, NEW r, Scanned(l, r), NEW type
    PROVE  Selection(l, r, type) \subseteq RowRecords
<1> SUFFICES ASSUME NEW x \in Selection(l, r, type) PROVE x \in RowRecords
  OBVIOUS
<1>1. PICK o, e, n : Selects(l, r, type, o, e, n) /\ x = RowOf(l, o, e, n)
  BY SelectionRows
<1>2. o.id \in Int /\ e \in l.events /\ x.event \in EventRecords
  BY <1>1, RowParts
<1> DEFINE L == Lifecycle(l, o.id)
           touching == {f \in l.events : \E s \in l.e2o : s.event_id = f.id /\ s.object_id = o.id}
<1>3. L = {f.at : f \in touching}
  BY DEF Lifecycle
<1>4. e \in touching
  BY <1>1, <1>2 DEF Selects
<1>5. IsFiniteSet(touching) /\ \A f \in touching : f.at \in Int
  <2>1. IsFiniteSet(l.events) /\ l.events \subseteq EventRecords
    BY ScannedAssumption DEF Scanned
  <2>2. IsFiniteSet(touching)
    BY <2>1, FS_Subset
  <2> QED
    BY <2>1, <2>2 DEF EventRecords
<1> HIDE DEF touching
<1>6. IsFiniteSet(L)
  <2> DEFINE f == [g \in touching |-> g.at]
  <2>1. f \in [touching -> Int] /\ L = {f[g] : g \in touching}
    BY <1>3, <1>5
  <2> HIDE DEF f, L
  <2> QED
    BY <1>5, <2>1, ImageFinite
<1>7. L \in SUBSET Int /\ L # {}
  BY <1>3, <1>4, <1>5
<1>8. Min(L) \in Int /\ Max(L) \in Int
  <2> HIDE DEF L
  <2> QED
    BY <1>6, <1>7, Extremes
<1> QED
  BY <1>1, <1>2, <1>8 DEF RowOf, RowRecords

\* There are finitely many numbers.
LEMMA NumbersFinite ==
    ASSUME NEW l, NEW r, Scanned(l, r)
    PROVE  \E N : IsFiniteSet(N) /\ \A e \in l.events : Sequences(l, e) \subseteq N
<1> DEFINE first == [e \in l.events |-> e.sequence]
           other == [s \in l.repeats |-> s.sequence]
           N == {first[e] : e \in l.events} \cup {other[s] : s \in l.repeats}
<1>1. IsFiniteSet(l.events) /\ IsFiniteSet(l.repeats)
  BY ScannedAssumption DEF Scanned
<1>2. first \in [l.events -> Int]
  BY ScannedAssumption DEF Scanned, EventRecords
<1>3. other \in [l.repeats -> Int]
  BY ScannedAssumption DEF Scanned
<1>4. IsFiniteSet(N)
  <2> HIDE DEF first, other
  <2>1. IsFiniteSet({first[e] : e \in l.events})
    BY <1>1, <1>2, ImageFinite
  <2>2. IsFiniteSet({other[s] : s \in l.repeats})
    BY <1>1, <1>3, ImageFinite
  <2> QED
    BY <2>1, <2>2, FS_Union
<1>5. \A e \in l.events : Sequences(l, e) \subseteq N
  BY DEF Sequences
<1> QED
  BY <1>4, <1>5

LEMMA RowsFinite ==
    ASSUME NEW l, NEW r, Scanned(l, r), NEW type
    PROVE  IsFiniteSet(Selection(l, r, type))
<1>1. IsFiniteSet(l.events) /\ IsFiniteSet(l.objects)
  BY ScannedAssumption DEF Scanned
<1>2. PICK N : IsFiniteSet(N) /\ \A e \in l.events : Sequences(l, e) \subseteq N
  BY NumbersFinite
<1> DEFINE D == l.objects \X (l.events \X N)
           f == [p \in D |-> RowOf(l, p[1], p[2][1], p[2][2])]
           T == {f[p] : p \in D}
<1>3. IsFiniteSet(D)
  <2>1. IsFiniteSet(l.events \X N)
    BY <1>1, <1>2, FS_Product
  <2> QED
    BY <1>1, <2>1, FS_Product
<1>4. f \in [D -> T]
  OBVIOUS
<1>5. ASSUME NEW x \in Selection(l, r, type) PROVE x \in T
  <2>1. PICK o, e, n : Selects(l, r, type, o, e, n) /\ x = RowOf(l, o, e, n)
    BY SelectionRows
  <2>2. o \in l.objects /\ e \in l.events /\ n \in N
    BY <1>2, <2>1, RowParts
  <2>3. <<o, <<e, n>>>> \in D /\ f[<<o, <<e, n>>>>] = x
    BY <2>1, <2>2
  <2> QED
    BY <2>3
<1>6. IsFiniteSet(T)
  <2> HIDE DEF D, f
  <2> QED
    BY <1>3, <1>4, ImageFinite
<1> QED
  BY <1>5, <1>6, FS_Subset

\* ORDER BY leaves nothing open: rows of one object at one time with one number are of
\* different events, and those of one event have different numbers.
LEMMA RowsOrdered ==
    ASSUME NEW l, NEW r, Scanned(l, r), NEW type
    PROVE  LET S == Selection(l, r, type)
           IN TotalOn(S, {p \in S \X S : RowBefore(p[1], p[2])})
<1> DEFINE S == Selection(l, r, type)
           R == {p \in S \X S : RowBefore(p[1], p[2])}
<1>1. \A x, y \in S : <<x, y>> \in R <=> RowBefore(x, y)
  OBVIOUS
<1>2. \A x \in S : /\ x.object_id \in Int /\ x.event.at \in Int
                   /\ x.event.sequence \in Int /\ x.event.id \in Int
  BY RowsTyped DEF RowRecords, EventRecords
<1>3. ASSUME NEW x \in S, NEW y \in S, x # y
      PROVE  RowBefore(x, y) \/ RowBefore(y, x)
  <2>1. PICK o, e, n : JoinedFrom(l, x, o, e, n)
    BY RowJoins
  <2>2. PICK p, f, m : JoinedFrom(l, y, p, f, m)
    BY RowJoins
  <2>3. /\ o \in l.objects /\ e \in l.events /\ x.object_id = o.id /\ x = RowOf(l, o, e, n)
        /\ x.event.id = e.id /\ x.event.at = e.at /\ x.event.sequence = n
    BY <2>1 DEF JoinedFrom
  <2>4. /\ p \in l.objects /\ f \in l.events /\ y.object_id = p.id /\ y = RowOf(l, p, f, m)
        /\ y.event.id = f.id /\ y.event.at = f.at /\ y.event.sequence = m
    BY <2>2 DEF JoinedFrom
  <2>5. SUFFICES ASSUME o.id = p.id, n = m, e.id = f.id PROVE FALSE
    BY <1>2, <2>3, <2>4 DEF RowBefore, EventBefore
  <2>6. o = p /\ e = f
    BY <2>3, <2>4, <2>5 DEF Scanned, Valid, ObjectsValid, EventsValid
  <2> QED
    BY <1>3, <2>3, <2>4, <2>5, <2>6
<1> HIDE DEF S, R
<1>4. \A x \in S : ~RowBefore(x, x)
  BY <1>2 DEF RowBefore, EventBefore
<1>5. \A x, y, z \in S : RowBefore(x, y) /\ RowBefore(y, z) => RowBefore(x, z)
  BY <1>2 DEF RowBefore, EventBefore
<1>6. TotalOn(S, R)
  BY <1>1, <1>3, <1>4, <1>5 DEF TotalOn
<1> QED
  BY <1>6 DEF S, R

\* The stream has every row once, in order.
LEMMA StreamRows ==
    ASSUME NEW l, NEW r, Scanned(l, r), NEW type, NEW s, s = Stream(l, r, type)
    PROVE  /\ s \in Seq(RowRecords) /\ Len(s) \in Nat
           /\ \A i \in 1 .. Len(s) : s[i] \in Selection(l, r, type) /\ s[i] \in RowRecords
           /\ \A x \in Selection(l, r, type) : \E i \in 1 .. Len(s) : s[i] = x
           /\ \A i, j \in 1 .. Len(s) : i < j => RowBefore(s[i], s[j])
<1> DEFINE S == Selection(l, r, type)
           R == {p \in S \X S : RowBefore(p[1], p[2])}
<1>1. s = Ranked(S, R)
  BY DEF Stream, InOrder
<1>2. TotalOn(S, R) /\ IsFiniteSet(S) /\ S \subseteq RowRecords
  BY RowsOrdered, RowsFinite, RowsTyped
<1>3. \A x, y : <<x, y>> \in R => RowBefore(x, y)
  OBVIOUS
<1> HIDE DEF S, R
<1>4. Lists(s, S, R)
  BY <1>1, <1>2, RankedLists
<1>5. /\ s \in Seq(S)
      /\ \A x \in S : \E i \in 1 .. Len(s) : s[i] = x
      /\ \A i, j \in 1 .. Len(s) : i < j => <<s[i], s[j]>> \in R
  BY <1>4 DEF Lists
<1>6. Len(s) \in Nat /\ \A i \in 1 .. Len(s) : s[i] \in S
  BY <1>5
<1>7. s \in Seq(RowRecords) /\ \A i \in 1 .. Len(s) : s[i] \in RowRecords
  BY <1>2, <1>5, <1>6
<1>8. \A i, j \in 1 .. Len(s) : i < j => RowBefore(s[i], s[j])
  BY <1>3, <1>5
<1> QED
  BY <1>5, <1>6, <1>7, <1>8 DEF S

-----------------------------------------------------------------------------
\* The events of the view.

\* What reading an event changes.
LEMMA ReadParts ==
    ASSUME NEW r, NEW e \in EventRecords, ToUtc(r, e.at) # None
    PROVE  /\ Read(r, e) \in EventRecords /\ Read(r, e).at = ToUtc(r, e.at)
           /\ Read(r, e).id = e.id /\ Read(r, e).sequence = e.sequence
           /\ Read(r, e).activity = e.activity /\ Read(r, e).status = e.status
<1>1. e.at \in Int /\ ToUtc(r, e.at) \in Int
  BY ReadableTimes DEF EventRecords
<1>2. PICK t \in Int : t = ToUtc(r, e.at)
  BY <1>1
<1> QED
  BY <1>2 DEF Read, EventRecords

ReadAs(r, e, n) == Read(r, [e EXCEPT !.sequence = n])

\* x is what is read of an event with a number.
ReadFrom(l, r, x, e, n) ==
    /\ e \in l.events /\ n \in Sequences(l, e) /\ ToUtc(r, e.at) # None
    /\ x = Read(r, [e EXCEPT !.sequence = n])
    /\ x.id = e.id /\ x.at = ToUtc(r, e.at) /\ x.sequence = n
    /\ x.activity = e.activity /\ x.status = e.status

LEMMA LoadedRows ==
    ASSUME NEW l, NEW r, Scanned(l, r)
    PROVE  /\ \A x : x \in Loaded(l, r).events <=> \E e, n : ReadFrom(l, r, x, e, n)
           /\ Loaded(l, r).events \subseteq EventRecords
<1> DEFINE readable == {f \in l.events : ToUtc(r, f.at) # None}
           E == Loaded(l, r).events
<1>1. E = UNION {{ReadAs(r, e, n) : n \in Sequences(l, e)} : e \in readable}
  BY DEF Loaded, ReadAs
<1>2. \A x : x \in E <=>
          \E e \in readable : \E n \in Sequences(l, e) : x = ReadAs(r, e, n)
  <2> HIDE DEF E, readable
  <2> QED
    BY <1>1
<1>3. ASSUME NEW e \in readable, NEW n \in Sequences(l, e)
      PROVE  ReadFrom(l, r, ReadAs(r, e, n), e, n) /\ ReadAs(r, e, n) \in EventRecords
  <2>1. e \in EventRecords /\ \A s \in l.repeats : s.sequence \in Int
    BY ScannedAssumption DEF Scanned
  <2>2. n \in Int
    BY <2>1 DEF Sequences, EventRecords
  <2>3. PICK f \in EventRecords : f = [e EXCEPT !.sequence = n]
    BY <2>1, <2>2 DEF EventRecords
  <2>4. /\ f.id = e.id /\ f.at = e.at /\ f.sequence = n
        /\ f.activity = e.activity /\ f.status = e.status
    BY <2>1, <2>3 DEF EventRecords
  <2>5. PICK x : x = Read(r, f)
    OBVIOUS
  <2>6. /\ x \in EventRecords /\ x.at = ToUtc(r, f.at) /\ x.id = f.id /\ x.sequence = f.sequence
        /\ x.activity = f.activity /\ x.status = f.status
    BY <2>4, <2>5, ReadParts
  <2>7. e \in l.events /\ ToUtc(r, e.at) # None
    OBVIOUS
  <2>8. ReadFrom(l, r, x, e, n)
    BY <2>3, <2>4, <2>5, <2>6, <2>7 DEF ReadFrom
  <2> QED
    BY <2>3, <2>5, <2>6, <2>8 DEF ReadAs
<1>4. \A x, e, n : ReadFrom(l, r, x, e, n) =>
          e \in readable /\ n \in Sequences(l, e) /\ x = ReadAs(r, e, n)
  BY DEF ReadFrom, ReadAs
<1> HIDE DEF readable, E
<1>5. \A x : x \in E <=> \E e, n : ReadFrom(l, r, x, e, n)
  BY <1>2, <1>3, <1>4
<1>6. E \subseteq EventRecords
  BY <1>2, <1>3
<1> QED
  BY <1>5, <1>6 DEF E

\* An event and its number decide what is read of it.
LEMMA LoadedDistinct ==
    ASSUME NEW l, NEW r, Scanned(l, r),
           NEW x \in Loaded(l, r).events, NEW y \in Loaded(l, r).events, x.id = y.id
    PROVE  x.at = y.at /\ (x.sequence = y.sequence => x = y)
<1>1. PICK e, n : ReadFrom(l, r, x, e, n)
  BY LoadedRows
<1>2. PICK f, m : ReadFrom(l, r, y, f, m)
  BY LoadedRows
<1>3. /\ e \in l.events /\ x.id = e.id /\ x.at = ToUtc(r, e.at) /\ x.sequence = n
      /\ x = Read(r, [e EXCEPT !.sequence = n])
  BY <1>1 DEF ReadFrom
<1>4. /\ f \in l.events /\ y.id = f.id /\ y.at = ToUtc(r, f.at) /\ y.sequence = m
      /\ y = Read(r, [f EXCEPT !.sequence = m])
  BY <1>2 DEF ReadFrom
<1>5. e = f
  BY <1>3, <1>4 DEF Scanned, Valid, EventsValid
<1> QED
  BY <1>3, <1>4, <1>5

LEMMA LoadedFinite ==
    ASSUME NEW l, NEW r, Scanned(l, r)
    PROVE  IsFiniteSet(Loaded(l, r).events)
<1>1. IsFiniteSet(l.events)
  BY ScannedAssumption DEF Scanned
<1>2. PICK N : IsFiniteSet(N) /\ \A e \in l.events : Sequences(l, e) \subseteq N
  BY NumbersFinite
<1> DEFINE D == l.events \X N
           f == [p \in D |-> Read(r, [p[1] EXCEPT !.sequence = p[2]])]
           T == {f[p] : p \in D}
<1>3. IsFiniteSet(D)
  BY <1>1, <1>2, FS_Product
<1>4. f \in [D -> T]
  OBVIOUS
<1>5. ASSUME NEW x \in Loaded(l, r).events PROVE x \in T
  <2>1. PICK e, n : ReadFrom(l, r, x, e, n)
    BY LoadedRows
  <2>2. <<e, n>> \in D /\ f[<<e, n>>] = x
    BY <1>2, <2>1 DEF ReadFrom
  <2> QED
    BY <2>2
<1>6. IsFiniteSet(T)
  <2> HIDE DEF D, f
  <2> QED
    BY <1>3, <1>4, ImageFinite
<1> QED
  BY <1>5, <1>6, FS_Subset

\* The statement sees the view but for its limits.
LEMMA SourceViewParts ==
    ASSUME NEW r \in Requests
    PROVE  /\ SourceView(r).object_types = r.view.object_types
           /\ SourceView(r).object_ids = r.view.object_ids
           /\ SourceView(r).object_attributes = r.view.object_attributes
           /\ SourceView(r).related_object_types = r.view.related_object_types
           /\ SourceView(r).qualifiers = r.view.qualifiers
           /\ SourceView(r).activities = r.view.activities
           /\ SourceView(r).event_ids = r.view.event_ids
           /\ SourceView(r).start = IF r.view.start = None THEN None ELSE ToSource(r, r.view.start)
           /\ SourceView(r).end = IF r.view.end = None THEN None ELSE ToSource(r, r.view.end)
<1>1. r.view \in Views
  BY AskedAssumption
<1>2. PICK v \in Views : v = r.view
  BY <1>1
<1> QED
  BY <1>2 DEF SourceView, Views

\* Attributes have one value whatever the limits are, in the layout whose limits differ.
LEMMA ValuesAgree ==
    ASSUME NEW l, NEW r, Scanned(l, r), NEW id, NEW name
    PROVE  ValueAt(Loaded(l, r), id, name, r.view.end) = ValueAt(l, id, name, SourceView(r).end)
<1> DEFINE changes(end) == {c \in l.history : /\ c.object_id = id /\ c.name = name
                                              /\ end = None \/ c.valid_from < end}
<1>1. r \in Requests /\ l \in Logs /\ r.layout = l.layout
  BY DEF Scanned
<1>2. Loaded(l, r).history = l.history
  BY DEF Loaded
<1>3. changes(r.view.end) = changes(SourceView(r).end)
  <2>1. SourceView(r).end = IF r.view.end = None THEN None ELSE ToSource(r, r.view.end)
    BY <1>1, SourceViewParts
  <2>2. CASE r.view.end = None \/ ~Zoned(r)
    <3>1. SourceView(r).end = r.view.end
      BY <2>1, <2>2 DEF ToSource
    <3> QED
      BY <3>1
  <2>3. CASE r.view.end # None /\ Zoned(r)
    <3>1. l.layout = "entity_link" /\ r.view.end \in DOMAIN Clock
      BY <1>1, <2>3, AskedAssumption DEF Zoned
    <3>2. SourceView(r).end = Clock[r.view.end]
      BY <2>1, <2>3 DEF ToSource
    <3>3. SourceView(r).end # None
      BY <3>1, <3>2, ClockAssumption, AbsenceAssumption
    <3>4. \A c \in l.history : ~(c.valid_from < r.view.end) /\ ~(c.valid_from < Clock[r.view.end])
      BY <1>1, <2>3, <3>1, ScannedAssumption
    <3>5. changes(r.view.end) = {}
      BY <2>3, <3>4
    <3>6. changes(SourceView(r).end) = {}
      BY <3>2, <3>3, <3>4
    <3> QED
      BY <3>5, <3>6
  <2> QED
    BY <2>2, <2>3
<1>4. \A k, end : k.history = l.history =>
          ValueAt(k, id, name, end) =
              IF changes(end) = {} THEN None
              ELSE (CHOOSE c \in changes(end) :
                        \A d \in changes(end) : d.valid_from <= c.valid_from).value
  BY DEF ValueAt
<1> HIDE DEF changes
<1> QED
  BY <1>2, <1>3, <1>4

\* The statement and the fallback keep the same objects.
LEMMA ObjectsKept ==
    ASSUME NEW l, NEW r, Scanned(l, r)
    PROVE  KeptObjects(Loaded(l, r), r.view) = KeptObjects(l, SourceView(r))
<1>1. r \in Requests
  BY DEF Scanned
<1>2. Loaded(l, r).objects = l.objects /\ Loaded(l, r).o2o = l.o2o
  BY DEF Loaded
<1>3. \A o : Related(Loaded(l, r), o) = Related(l, o)
  BY <1>2 DEF Related
<1>4. ASSUME NEW o PROVE ObjectMatches(Loaded(l, r), r.view, o) <=> ObjectMatches(l, SourceView(r), o)
  <2>1. \A name : ValueAt(Loaded(l, r), o.id, name, r.view.end)
                      = ValueAt(l, o.id, name, SourceView(r).end)
    BY ValuesAgree
  <2> QED
    BY <1>1, <1>3, <2>1, SourceViewParts DEF ObjectMatches
<1> QED
  BY <1>2, <1>4 DEF KeptObjects

\* The window of the statement, where it has one, is that of the view.
LEMMA WindowPushed ==
    ASSUME NEW l, NEW r, Scanned(l, r), NEW t, PushesWindow(r)
    PROVE  ToUtc(r, t) = t /\ (MatchesWindow(SourceView(r), t) <=> MatchesWindow(r.view, t))
<1>1. r \in Requests /\ ~Zoned(r)
  BY DEF Scanned, PushesWindow
<1>2. SourceView(r).start = r.view.start /\ SourceView(r).end = r.view.end
  BY <1>1, SourceViewParts DEF ToSource
<1> QED
  BY <1>1, <1>2 DEF ToUtc, MatchesWindow, AfterStart, BeforeEnd

LEMMA RowOfType ==
    ASSUME NEW l, NEW r, Scanned(l, r), NEW type, NEW x \in Selection(l, r, type)
    PROVE  x.object_id \in OfType(l, r, type)
<1>1. PICK o, e, n : Selects(l, r, type, o, e, n) /\ JoinedFrom(l, x, o, e, n)
  BY RowJoins
<1> QED
  BY <1>1 DEF Selects, JoinedFrom, OfType

\* A row that was read is in the view if it passes the filter after the scan.
LEMMA RowInView ==
    ASSUME NEW l, NEW r, Scanned(l, r), NEW type, NEW x \in Selection(l, r, type),
           ToUtc(r, x.event.at) # None
    PROVE  Read(r, x.event) \in InView(l, r, x.object_id) <=>
               MatchesPostScan(r.view, Read(r, x.event))
<1>1. PICK o, e, n : Selects(l, r, type, o, e, n) /\ JoinedFrom(l, x, o, e, n)
  BY RowJoins
<1>2. /\ e \in l.events /\ n \in Sequences(l, e) /\ x.object_id = o.id
      /\ x.event = [e EXCEPT !.sequence = n] /\ x.event.at = e.at
  BY <1>1 DEF JoinedFrom
<1>4. PICK f : f = Read(r, x.event)
  OBVIOUS
<1>5. x.event \in EventRecords
  BY RowsTyped DEF RowRecords
<1>6. /\ f.at = ToUtc(r, e.at) /\ f.id = x.event.id /\ f.sequence = x.event.sequence
      /\ f.activity = x.event.activity /\ f.status = x.event.status
  <2>1. PICK g \in EventRecords : g = x.event
    BY <1>5
  <2>2. ToUtc(r, g.at) # None
    BY <2>1
  <2>3. /\ Read(r, g).at = ToUtc(r, g.at) /\ Read(r, g).id = g.id
        /\ Read(r, g).sequence = g.sequence
        /\ Read(r, g).activity = g.activity /\ Read(r, g).status = g.status
    BY <2>2, ReadParts
  <2> QED
    BY <1>2, <1>4, <2>1, <2>3
<1>7. /\ f.id = e.id /\ f.sequence = n /\ f.activity = e.activity /\ f.status = e.status
      /\ f = Read(r, [e EXCEPT !.sequence = n])
  BY <1>1, <1>2, <1>4, <1>6 DEF JoinedFrom
<1>8. ReadFrom(l, r, f, e, n)
  BY <1>2, <1>6, <1>7 DEF ReadFrom
<1>9. f \in Loaded(l, r).events
  BY <1>8, LoadedRows
<1>10. r \in Requests
  BY DEF Scanned
<1>11. \E s \in l.e2o : /\ s.event_id = f.id /\ s.object_id = x.object_id
                        /\ Allows(r.view.qualifiers, s.qualifier)
  BY <1>1, <1>2, <1>7, <1>10, SourceViewParts DEF Selects
<1>12. Allows(r.view.event_ids, f.id) /\ Allows(r.view.activities, f.activity)
  BY <1>1, <1>7, <1>10, SourceViewParts DEF Selects
<1>13. EventMatches(r.view, f) <=> MatchesPostScan(r.view, f)
  BY <1>12 DEF EventMatches, MatchesPostScan, MatchesWindow, AfterStart, BeforeEnd
<1>14. f \in InView(l, r, x.object_id) <=> MatchesPostScan(r.view, f)
  BY <1>9, <1>11, <1>13 DEF InView
<1> QED
  BY <1>4, <1>14

\* Every event of the view has a row.
LEMMA ViewHasRows ==
    ASSUME NEW l, NEW r, Scanned(l, r), NEW type, NEW id \in OfType(l, r, type),
           NEW f \in InView(l, r, id)
    PROVE  \E x \in Selection(l, r, type) :
               x.object_id = id /\ ToUtc(r, x.event.at) # None /\ f = Read(r, x.event)
<1>1. PICK o \in KeptObjects(l, SourceView(r)) :
          (type = None \/ o.object_type = type) /\ o.id = id
  BY DEF OfType
<1>2. /\ f \in Loaded(l, r).events /\ EventMatches(r.view, f)
      /\ \E s \in l.e2o : /\ s.event_id = f.id /\ s.object_id = id
                          /\ Allows(r.view.qualifiers, s.qualifier)
  BY DEF InView
<1>3. PICK e, n : ReadFrom(l, r, f, e, n)
  BY <1>2, LoadedRows
<1>4. /\ e \in l.events /\ n \in Sequences(l, e) /\ ToUtc(r, e.at) # None
      /\ f = Read(r, [e EXCEPT !.sequence = n])
      /\ f.id = e.id /\ f.at = ToUtc(r, e.at) /\ f.activity = e.activity
  BY <1>3 DEF ReadFrom
<1>5. r \in Requests
  BY DEF Scanned
<1>6. MatchesWindow(r.view, f.at)
  BY <1>2 DEF EventMatches, MatchesWindow, AfterStart, BeforeEnd
<1>7. PushesWindow(r) => MatchesWindow(SourceView(r), e.at)
  BY <1>4, <1>6, WindowPushed
<1>8. Selects(l, r, type, o, e, n)
  BY <1>1, <1>2, <1>4, <1>5, <1>7, SourceViewParts DEF Selects, EventMatches
<1>9. RowOf(l, o, e, n) \in Selection(l, r, type)
  BY <1>8, SelectionRows
<1>10. /\ RowOf(l, o, e, n).object_id = o.id /\ RowOf(l, o, e, n).event.at = e.at
       /\ RowOf(l, o, e, n).event = [e EXCEPT !.sequence = n]
  BY <1>8, RowParts
<1> QED
  BY <1>1, <1>4, <1>9, <1>10

-----------------------------------------------------------------------------
\* Sorted and merged events.

EventOrder == {p \in EventRecords \X EventRecords : EventBefore(p[1], p[2])}

\* Finitely many rows of events: those of one event are at one time and have different numbers.
Orderly(S) ==
    /\ S \subseteq EventRecords /\ IsFiniteSet(S)
    /\ \A e, f \in S : e.id = f.id => e.at = f.at /\ (e.sequence = f.sequence => e = f)

LEMMA OrderlyParts ==
    ASSUME NEW S, Orderly(S), NEW T \in SUBSET S
    PROVE  Orderly(T)
BY FS_Subset DEF Orderly

LEMMA ViewOrderly ==
    ASSUME NEW l, NEW r, Scanned(l, r), NEW id
    PROVE  Orderly(InView(l, r, id))
<1> DEFINE E == Loaded(l, r).events
<1>1. E \subseteq EventRecords /\ IsFiniteSet(E)
  BY LoadedRows, LoadedFinite
<1>2. \A e, f \in E : e.id = f.id => e.at = f.at /\ (e.sequence = f.sequence => e = f)
  BY LoadedDistinct
<1>3. Orderly(E)
  BY <1>1, <1>2 DEF Orderly
<1>4. InView(l, r, id) \in SUBSET E
  BY DEF InView
<1> HIDE DEF E
<1> QED
  BY <1>3, <1>4, OrderlyParts

LEMMA EventsTotal ==
    ASSUME NEW S, Orderly(S)
    PROVE  TotalOn(S, EventOrder)
<1>1. \A e \in S : e \in EventRecords /\ e.at \in Int /\ e.sequence \in Int /\ e.id \in Int
  BY DEF Orderly, EventRecords
<1>2. \A e, f \in S : <<e, f>> \in EventOrder <=> EventBefore(e, f)
  BY <1>1 DEF EventOrder
<1>3. \A e \in S : ~EventBefore(e, e)
  BY <1>1 DEF EventBefore
<1>4. \A e, f \in S : e # f => EventBefore(e, f) \/ EventBefore(f, e)
  BY <1>1 DEF EventBefore, Orderly
<1>5. \A e, f, g \in S : EventBefore(e, f) /\ EventBefore(f, g) => EventBefore(e, g)
  BY <1>1 DEF EventBefore
<1> QED
  BY <1>2, <1>3, <1>4, <1>5 DEF TotalOn

\* What Lists says of events.
LEMMA ListedEvents ==
    ASSUME NEW S, Orderly(S), NEW s, Lists(s, S, EventOrder)
    PROVE  /\ s \in Seq(EventRecords) /\ Len(s) \in Nat /\ DOMAIN s = 1 .. Len(s)
           /\ \A i \in 1 .. Len(s) : s[i] \in S /\ s[i] \in EventRecords
           /\ \A x \in S : \E i \in 1 .. Len(s) : s[i] = x
           /\ \A i, j \in 1 .. Len(s) : i < j => EventBefore(s[i], s[j]) /\ ~EventBefore(s[j], s[i])
           /\ s = <<>> <=> S = {}
<1>1. /\ s \in Seq(S)
      /\ \A x \in S : \E i \in 1 .. Len(s) : s[i] = x
      /\ \A i, j \in 1 .. Len(s) : i < j => <<s[i], s[j]>> \in EventOrder
  BY DEF Lists
<1>2. Len(s) \in Nat /\ DOMAIN s = 1 .. Len(s) /\ \A i \in 1 .. Len(s) : s[i] \in S
  BY <1>1
<1>3. S \subseteq EventRecords
  BY DEF Orderly
<1>4. s \in Seq(EventRecords) /\ \A i \in 1 .. Len(s) : s[i] \in EventRecords
  BY <1>1, <1>2, <1>3
<1>5. ASSUME NEW i \in 1 .. Len(s), NEW j \in 1 .. Len(s), i < j
      PROVE  EventBefore(s[i], s[j]) /\ ~EventBefore(s[j], s[i])
  <2>1. EventBefore(s[i], s[j])
    BY <1>1, <1>5 DEF EventOrder
  <2>2. /\ s[i].at \in Int /\ s[i].sequence \in Int /\ s[i].id \in Int
        /\ s[j].at \in Int /\ s[j].sequence \in Int /\ s[j].id \in Int
    BY <1>4 DEF EventRecords
  <2> QED
    BY <2>1, <2>2 DEF EventBefore
<1>6. s = <<>> <=> S = {}
  <2>1. S = {} => s = <<>>
    <3> SUFFICES ASSUME S = {} PROVE s = <<>>
      OBVIOUS
    <3>1. Len(s) = 0
      BY <1>2
    <3> QED
      BY <1>1, <3>1
  <2>2. s = <<>> => S = {}
    <3> SUFFICES ASSUME s = <<>>, NEW x \in S PROVE FALSE
      OBVIOUS
    <3>1. Len(s) = 0
      BY <1>1
    <3> QED
      BY <1>1, <3>1
  <2> QED
    BY <2>1, <2>2
<1> QED
  BY <1>1, <1>2, <1>4, <1>5, <1>6

LEMMA SortedLists ==
    ASSUME NEW S, Orderly(S)
    PROVE  Lists(SortedEvents(S), S, EventOrder)
<1> DEFINE R == {p \in S \X S : EventBefore(p[1], p[2])}
<1>1. \A e \in S : e \in EventRecords
  BY DEF Orderly
<1>2. \A e, f \in S : <<e, f>> \in R <=> <<e, f>> \in EventOrder
  BY <1>1 DEF EventOrder
<1>3. \A e, f : <<e, f>> \in R => e \in S /\ f \in S
  OBVIOUS
<1>4. SortedEvents(S) = Ranked(S, R)
  BY DEF SortedEvents
<1> HIDE DEF R
<1>5. TotalOn(S, R)
  BY <1>2, EventsTotal DEF TotalOn
<1>6. Lists(SortedEvents(S), S, R)
  BY <1>4, <1>5, RankedLists DEF Orderly
<1> QED
  BY <1>2, <1>3, <1>6 DEF Lists

\* A later event goes to the end.
LEMMA SortedGrows ==
    ASSUME NEW S, NEW x, Orderly(S \cup {x}), x \notin S, \A y \in S : EventBefore(y, x)
    PROVE  SortedEvents(S \cup {x}) = Append(SortedEvents(S), x)
<1>1. Orderly(S)
  BY OrderlyParts
<1>2. Lists(SortedEvents(S), S, EventOrder)
  BY <1>1, SortedLists
<1>3. \A y \in S : <<y, x>> \in EventOrder
  BY DEF Orderly, EventOrder
<1>4. Lists(Append(SortedEvents(S), x), S \cup {x}, EventOrder)
  BY <1>1, <1>2, <1>3, ListsAppend DEF Orderly
<1>5. Lists(SortedEvents(S \cup {x}), S \cup {x}, EventOrder)
  BY SortedLists
<1>6. TotalOn(S \cup {x}, EventOrder) /\ IsFiniteSet(S \cup {x})
  BY EventsTotal DEF Orderly
<1> QED
  BY <1>4, <1>5, <1>6, ListsUnique

\* The places of the rows that open an event, and these rows.
Opens(s) == {j \in DOMAIN s : j = 1 \/ s[j - 1].id # s[j].id}
Openers(s) == {s[i] : i \in Opens(s)}

LEMMA MergedOpeners ==
    ASSUME NEW S, Orderly(S), NEW s, Lists(s, S, EventOrder)
    PROVE  /\ Merged(s) = SortedEvents(Openers(s)) /\ Openers(s) \in SUBSET S
           /\ Orderly(Openers(s)) /\ Lists(Merged(s), Openers(s), EventOrder)
<1>1. DOMAIN s = 1 .. Len(s) /\ \A i \in 1 .. Len(s) : s[i] \in S
  BY ListedEvents
<1>2. Merged(s) = SortedEvents(Openers(s))
  BY DEF Merged, Openers, Opens
<1>3. Openers(s) \in SUBSET S
  BY <1>1 DEF Openers, Opens
<1>4. Orderly(Openers(s))
  BY <1>3, OrderlyParts
<1>5. Lists(Merged(s), Openers(s), EventOrder)
  BY <1>2, <1>4, SortedLists
<1> QED
  BY <1>2, <1>3, <1>4, <1>5

\* A later row goes to the end unless it is of the same event as the last.
LEMMA MergedGrows ==
    ASSUME NEW S, NEW x, Orderly(S \cup {x}), x \notin S, \A y \in S : EventBefore(y, x)
    PROVE  LET s == SortedEvents(S)
           IN Merged(SortedEvents(S \cup {x})) =
                  IF s = <<>> \/ Last(s).id # x.id THEN Append(Merged(s), x) ELSE Merged(s)
<1>1. PICK s : s = SortedEvents(S)
  OBVIOUS
<1>2. PICK t : t = SortedEvents(S \cup {x})
  OBVIOUS
<1>3. Orderly(S)
  BY OrderlyParts
<1>4. Lists(s, S, EventOrder) /\ Lists(t, S \cup {x}, EventOrder)
  BY <1>1, <1>2, <1>3, SortedLists
<1>5. s \in Seq(EventRecords) /\ Len(s) \in Nat /\ DOMAIN s = 1 .. Len(s)
  BY <1>3, <1>4, ListedEvents
<1>6. x \in EventRecords
  BY DEF Orderly
<1>7. t = Append(s, x)
  BY <1>1, <1>2, SortedGrows
<1>8. /\ Len(t) = Len(s) + 1 /\ DOMAIN t = 1 .. (Len(s) + 1) /\ t[Len(s) + 1] = x
      /\ \A i \in 1 .. Len(s) : t[i] = s[i]
  BY <1>5, <1>6, <1>7
<1> DEFINE new == s = <<>> \/ Last(s).id # x.id
<1>9. \A i \in 1 .. Len(s) : i \in Opens(t) <=> i \in Opens(s)
  <2> SUFFICES ASSUME NEW i \in 1 .. Len(s) PROVE i \in Opens(t) <=> i \in Opens(s)
    OBVIOUS
  <2>1. i # 1 => i - 1 \in 1 .. Len(s)
    BY <1>5
  <2>2. i \in DOMAIN s /\ i \in DOMAIN t /\ t[i] = s[i] /\ (i # 1 => t[i - 1] = s[i - 1])
    BY <1>5, <1>8, <2>1
  <2> QED
    BY <2>2 DEF Opens
<1>10. Len(s) + 1 \in Opens(t) <=> new
  <2>1. s = <<>> <=> Len(s) = 0
    BY <1>5
  <2>2. CASE s = <<>>
    <3>1. Len(s) + 1 = 1 /\ Len(s) + 1 \in DOMAIN t
      BY <1>8, <2>1, <2>2
    <3> QED
      BY <2>2, <3>1 DEF Opens
  <2>3. CASE s # <<>>
    <3>1. Len(s) \in 1 .. Len(s) /\ (Len(s) + 1) - 1 = Len(s) /\ Len(s) + 1 # 1
      BY <1>5, <2>1, <2>3
    <3>2. t[Len(s)] = s[Len(s)] /\ Len(s) + 1 \in DOMAIN t
      BY <1>8, <1>5, <3>1
    <3>3. Last(s) = s[Len(s)]
      BY DEF Last
    <3> QED
      BY <1>8, <2>3, <3>1, <3>2, <3>3 DEF Opens
  <2> QED
    BY <2>2, <2>3
<1>11. Opens(s) \subseteq 1 .. Len(s) /\ Opens(t) \subseteq 1 .. (Len(s) + 1)
  BY <1>5, <1>8 DEF Opens
<1>12. Opens(t) = IF new THEN Opens(s) \cup {Len(s) + 1} ELSE Opens(s)
  <2>1. \A i \in 1 .. (Len(s) + 1) : i \in 1 .. Len(s) \/ i = Len(s) + 1
    BY <1>5
  <2>2. Len(s) + 1 \notin 1 .. Len(s)
    BY <1>5
  <2> HIDE DEF new
  <2> QED
    BY <1>9, <1>10, <1>11, <2>1, <2>2
<1> HIDE DEF new
<1>13. Openers(t) = IF new THEN Openers(s) \cup {x} ELSE Openers(s)
  <2>1. \A i \in Opens(s) : t[i] = s[i]
    BY <1>8, <1>11
  <2> QED
    BY <1>8, <1>12, <2>1 DEF Openers
<1>14. Merged(s) = SortedEvents(Openers(s)) /\ Openers(s) \in SUBSET S
  BY <1>3, <1>4, MergedOpeners
<1>15. Merged(t) = SortedEvents(Openers(t)) /\ Orderly(Openers(t))
  BY <1>4, MergedOpeners
<1>16. CASE new
  <2>1. Orderly(Openers(s) \cup {x}) /\ x \notin Openers(s) /\ \A y \in Openers(s) : EventBefore(y, x)
    BY <1>13, <1>14, <1>15, <1>16
  <2>2. SortedEvents(Openers(s) \cup {x}) = Append(SortedEvents(Openers(s)), x)
    BY <2>1, SortedGrows
  <2>3. Merged(t) = Append(Merged(s), x)
    BY <1>13, <1>14, <1>15, <1>16, <2>2
  <2> QED
    BY <1>1, <1>2, <1>16, <2>3 DEF new
<1>17. CASE ~new
  <2>1. Merged(t) = Merged(s)
    BY <1>13, <1>14, <1>15, <1>17
  <2> QED
    BY <1>1, <1>2, <1>17, <2>1 DEF new
<1> QED
  BY <1>16, <1>17

\* Merging keeps the first row and a row of the last event.
LEMMA MergedEnds ==
    ASSUME NEW S, Orderly(S), S # {}, NEW s, s = SortedEvents(S), NEW m, m = Merged(s)
    PROVE  /\ s # <<>> /\ m # <<>> /\ Head(m) = Head(s)
           /\ Last(m).id = Last(s).id /\ Last(m).at = Last(s).at
<1> USE DEF Last
<1>1. Lists(s, S, EventOrder)
  BY SortedLists
<1>2. /\ s \in Seq(EventRecords) /\ Len(s) \in Nat /\ DOMAIN s = 1 .. Len(s) /\ s # <<>>
      /\ \A i \in 1 .. Len(s) : s[i] \in S
      /\ \A i, j \in 1 .. Len(s) : i < j => EventBefore(s[i], s[j]) /\ ~EventBefore(s[j], s[i])
  BY <1>1, ListedEvents
<1>3. Openers(s) \in SUBSET S /\ Orderly(Openers(s)) /\ Lists(m, Openers(s), EventOrder)
  BY <1>1, MergedOpeners
<1>4. /\ m \in Seq(EventRecords) /\ Len(m) \in Nat
      /\ \A i \in 1 .. Len(m) : m[i] \in Openers(s)
      /\ \A x \in Openers(s) : \E i \in 1 .. Len(m) : m[i] = x
      /\ \A i, j \in 1 .. Len(m) : i < j => EventBefore(m[i], m[j]) /\ ~EventBefore(m[j], m[i])
      /\ m = <<>> <=> Openers(s) = {}
  BY <1>3, ListedEvents
<1>5. Opens(s) \subseteq 1 .. Len(s) /\ 1 \in Opens(s) /\ Len(s) >= 1
  <2>1. Len(s) >= 1
    BY <1>2
  <2> QED
    BY <1>2, <2>1 DEF Opens
<1>6. \A i \in 1 .. Len(m) : \E j \in Opens(s) : m[i] = s[j]
  BY <1>4 DEF Openers
<1>7. \A j \in Opens(s) : \E i \in 1 .. Len(m) : m[i] = s[j]
  BY <1>4 DEF Openers
<1>8. Len(m) >= 1 /\ m # <<>>
  <2>1. \E i \in 1 .. Len(m) : m[i] = s[1]
    BY <1>5, <1>7
  <2>2. Len(m) >= 1
    BY <1>4, <2>1
  <2> QED
    BY <1>4, <2>2
<1>9. m[1] = s[1]
  <2>1. PICK i \in 1 .. Len(m) : m[i] = s[1]
    BY <1>5, <1>7
  <2>2. PICK j \in Opens(s) : m[1] = s[j]
    BY <1>4, <1>6, <1>8
  <2>3. 1 < i => EventBefore(s[j], s[1])
    BY <1>4, <1>8, <2>1, <2>2
  <2>4. 1 < j => ~EventBefore(s[j], s[1])
    BY <1>2, <1>5
  <2>5. 1 < i => j = 1
    BY <1>2, <1>5, <2>3, <2>4
  <2> QED
    BY <1>4, <2>1, <2>2, <2>5
\* The last row that opens an event has only rows of its event after it.
<1>10. \E j \in Opens(s) : s[j].id = s[Len(s)].id /\ \A i \in Opens(s) : i <= j
  <2> DEFINE Q == {n \in Nat : n + 1 <= Len(s) =>
                       \E j \in Opens(s) : /\ j <= n + 1 /\ s[j].id = s[n + 1].id
                                           /\ \A i \in Opens(s) : i <= n + 1 => i <= j}
  <2>1. 0 \in Q
    BY <1>2, <1>5
  <2>2. ASSUME NEW n \in Nat, n \in Q PROVE n + 1 \in Q
    <3> SUFFICES ASSUME n + 2 <= Len(s)
                 PROVE  \E j \in Opens(s) : /\ j <= n + 2 /\ s[j].id = s[n + 2].id
                                            /\ \A i \in Opens(s) : i <= n + 2 => i <= j
      OBVIOUS
    <3>1. PICK j \in Opens(s) : /\ j <= n + 1 /\ s[j].id = s[n + 1].id
                                /\ \A i \in Opens(s) : i <= n + 1 => i <= j
      BY <1>2, <2>2
    <3>2. j \in Int /\ \A i \in Opens(s) : i \in Int
      BY <1>5
    <3>3. CASE n + 2 \in Opens(s)
      BY <3>2, <3>3
    <3>4. CASE n + 2 \notin Opens(s)
      <4>1. n + 2 \in DOMAIN s /\ n + 2 # 1 /\ (n + 2) - 1 = n + 1
        BY <1>2
      <4>2. s[n + 1].id = s[n + 2].id
        BY <3>4, <4>1 DEF Opens
      <4>3. \A i \in Opens(s) : i <= n + 2 => i <= n + 1
        BY <3>2, <3>4
      <4> QED
        BY <3>1, <3>2, <4>2, <4>3
    <3> QED
      BY <3>3, <3>4
  <2> HIDE DEF Q
  <2>3. Nat \subseteq Q
    BY <2>1, <2>2, NatSetInduction
  <2>4. Len(s) - 1 \in Nat /\ (Len(s) - 1) + 1 = Len(s)
    BY <1>2, <1>5, SMTT(40)
  <2>5. PICK k \in Nat : k = Len(s) - 1
    BY <2>4
  <2>6. k \in Q /\ k + 1 = Len(s)
    BY <2>3, <2>4, <2>5
  <2>7. \E j \in Opens(s) : /\ j <= k + 1 /\ s[j].id = s[k + 1].id
                            /\ \A i \in Opens(s) : i <= k + 1 => i <= j
    BY <1>2, <2>6 DEF Q
  <2>8. \A i \in Opens(s) : i <= Len(s)
    BY <1>2, <1>5
  <2> QED
    BY <2>6, <2>7, <2>8
<1>11. PICK j \in Opens(s) : s[j].id = s[Len(s)].id /\ \A i \in Opens(s) : i <= j
  BY <1>10
<1>12. m[Len(m)] = s[j]
  <2>1. PICK i \in 1 .. Len(m) : m[i] = s[j]
    BY <1>7
  <2>2. Len(m) \in 1 .. Len(m)
    BY <1>4, <1>8
  <2>3. PICK k \in Opens(s) : m[Len(m)] = s[k]
    BY <1>6, <2>2
  <2>4. i < Len(m) => EventBefore(s[j], s[k])
    BY <1>4, <2>1, <2>2, <2>3
  <2>5. k < j => ~EventBefore(s[j], s[k])
    BY <1>2, <1>5
  <2>6. j \in Int /\ k \in Int /\ k <= j
    BY <1>5, <1>11
  <2>7. i < Len(m) => k = j
    BY <2>4, <2>5, <2>6
  <2> QED
    BY <1>4, <2>1, <2>3, <2>7
<1>13. Last(m).id = Last(s).id
  BY <1>11, <1>12
<1>14. Last(m).at = Last(s).at
  <2>1. s[j] \in S /\ s[Len(s)] \in S
    BY <1>2, <1>5
  <2>2. s[j].at = s[Len(s)].at
    BY <1>11, <2>1 DEF Orderly
  <2> QED
    BY <1>12, <2>2
<1>15. Head(m) = Head(s)
  BY <1>2, <1>4, <1>8, <1>9
<1> QED
  BY <1>2, <1>8, <1>13, <1>14, <1>15

\* Events that were merged last as long as before.
LEMMA MergedDuration ==
    ASSUME NEW S, Orderly(S), NEW s, s = SortedEvents(S), NEW view
    PROVE  /\ Merged(s) = <<>> <=> s = <<>>
           /\ DurationMatches(view, Merged(s)) <=> DurationMatches(view, s)
<1>1. CASE S = {}
  <2>1. Lists(s, S, EventOrder)
    BY SortedLists
  <2>2. s = <<>>
    BY <1>1, <2>1, ListedEvents
  <2>3. /\ Openers(s) \in SUBSET S /\ Orderly(Openers(s)) /\ Lists(Merged(s), Openers(s), EventOrder)
    BY <2>1, MergedOpeners
  <2>4. Openers(s) = {}
    BY <1>1, <2>3
  <2>5. Merged(s) = <<>>
    BY <2>3, <2>4, ListedEvents
  <2> QED
    BY <2>2, <2>5
<1>2. CASE S # {}
  <2>1. PICK m : m = Merged(s)
    OBVIOUS
  <2>2. s # <<>> /\ m # <<>> /\ Head(m) = Head(s) /\ Last(m).at = Last(s).at
    BY <1>2, <2>1, MergedEnds
  <2> QED
    BY <2>1, <2>2 DEF DurationMatches
<1> QED
  BY <1>1, <1>2

-----------------------------------------------------------------------------
\* The rows that are taken.

LEMMA ReachedGrows ==
    ASSUME NEW l, NEW r, Scanned(l, r), NEW type, NEW s, s = Stream(l, r, type),
           NEW k \in Nat, k < Len(s), ToUtc(r, s[k + 1].event.at) # None
    PROVE  LET e == Read(r, s[k + 1].event)
               id == s[k + 1].object_id
               before == Reached(l, r, s, k, id)
           IN /\ Reached(l, r, s, k + 1, id) =
                     IF MatchesPostScan(r.view, e) THEN before \cup {e} ELSE before
              /\ MatchesPostScan(r.view, e) =>
                     /\ e \in InView(l, r, id) /\ e \notin before
                     /\ \A y \in before : EventBefore(y, e)
<1>1. /\ s \in Seq(RowRecords) /\ Len(s) \in Nat
      /\ \A i \in 1 .. Len(s) : s[i] \in Selection(l, r, type) /\ s[i] \in RowRecords
      /\ \A i, j \in 1 .. Len(s) : i < j => RowBefore(s[i], s[j])
  BY StreamRows
<1>2. k + 1 \in 1 .. Len(s) /\ \A i \in 1 .. k : i \in 1 .. Len(s) /\ i < k + 1
  BY <1>1
<1>3. PICK x \in RowRecords : x = s[k + 1]
  BY <1>1, <1>2
<1>4. PICK e : e = Read(r, x.event)
  OBVIOUS
<1>5. PICK id : id = x.object_id
  OBVIOUS
<1> DEFINE before == Reached(l, r, s, k, id)
<1>6. e \in InView(l, r, id) <=> MatchesPostScan(r.view, e)
  BY <1>1, <1>2, <1>3, <1>4, <1>5, RowInView
<1>7. Reached(l, r, s, k + 1, id) = before \cup (InView(l, r, id) \cap {e})
  <2>1. \A i : i \in 1 .. (k + 1) <=> i \in 1 .. k \/ i = k + 1
    OBVIOUS
  <2> QED
    BY <1>3, <1>4, <1>5, <2>1 DEF Reached
<1>8. ASSUME NEW y \in before PROVE EventBefore(y, e) /\ y # e
  <2>1. y \in InView(l, r, id) /\ \E i \in 1 .. k : s[i].object_id = id /\ y = Read(r, s[i].event)
    BY DEF Reached
  <2>2. PICK i \in 1 .. k : s[i].object_id = id /\ y = Read(r, s[i].event)
    BY <2>1
  <2>3. PICK z \in RowRecords : z = s[i] /\ RowBefore(z, x) /\ z.object_id = id
    BY <1>1, <1>2, <1>3, <2>2
  <2>4. EventBefore(z.event, x.event)
    BY <1>3, <1>5, <2>3 DEF RowBefore, RowRecords
  <2>5. PICK f \in EventRecords : f = z.event
    BY <2>3 DEF RowRecords
  <2>6. PICK g \in EventRecords : g = x.event
    BY <1>3 DEF RowRecords
  <2>7. y = Read(r, f) /\ e = Read(r, g) /\ EventBefore(f, g)
    BY <1>4, <2>2, <2>3, <2>4, <2>5, <2>6
  <2>8. y \in EventRecords
    BY <2>1, ViewOrderly DEF Orderly
  <2>9. ToUtc(r, f.at) # None
    <3>1. Read(r, f).at = ToUtc(r, f.at)
      BY <2>5 DEF Read, EventRecords
    <3>2. y.at \in Int
      BY <2>8 DEF EventRecords
    <3> QED
      BY <2>7, <3>1, <3>2, AbsenceAssumption
  <2>10. ToUtc(r, g.at) # None
    BY <1>3, <2>6
  <2>11. y.at = ToUtc(r, f.at) /\ y.id = f.id /\ y.sequence = f.sequence
    BY <2>7, <2>9, ReadParts
  <2>12. e.at = ToUtc(r, g.at) /\ e.id = g.id /\ e.sequence = g.sequence
    BY <2>7, <2>10, ReadParts
  <2>13. /\ f.at \in Int /\ g.at \in Int /\ f.sequence \in Int /\ g.sequence \in Int
         /\ f.id \in Int /\ g.id \in Int
    BY <2>5, <2>6 DEF EventRecords
  <2>14. f.at < g.at => ToUtc(r, f.at) < ToUtc(r, g.at)
    BY <2>9, <2>10, <2>13, TimesInOrder
  <2>15. EventBefore(y, e)
    BY <2>7, <2>11, <2>12, <2>13, <2>14 DEF EventBefore
  <2>16. y # e
    <3>1. y.at \in Int /\ y.id \in Int /\ y.sequence \in Int
      BY <2>8 DEF EventRecords
    <3> QED
      BY <2>15, <3>1 DEF EventBefore
  <2> QED
    BY <2>15, <2>16
<1> HIDE DEF before
<1>9. /\ Reached(l, r, s, k + 1, id) =
             IF MatchesPostScan(r.view, e) THEN before \cup {e} ELSE before
      /\ MatchesPostScan(r.view, e) =>
             e \in InView(l, r, id) /\ e \notin before /\ \A y \in before : EventBefore(y, e)
  BY <1>6, <1>7, <1>8
<1> QED
  BY <1>3, <1>4, <1>5, <1>9 DEF before

\* At the last row of an object all its events have been reached.
LEMMA ReachedAll ==
    ASSUME NEW l, NEW r, Scanned(l, r), NEW type, NEW s, s = Stream(l, r, type),
           NEW k \in 1 .. Len(s), k = Len(s) \/ s[k + 1].object_id # s[k].object_id
    PROVE  Reached(l, r, s, k, s[k].object_id) = InView(l, r, s[k].object_id)
<1>1. /\ Len(s) \in Nat
      /\ \A i \in 1 .. Len(s) : s[i] \in Selection(l, r, type) /\ s[i] \in RowRecords
      /\ \A x \in Selection(l, r, type) : \E i \in 1 .. Len(s) : s[i] = x
      /\ \A i, j \in 1 .. Len(s) : i < j => RowBefore(s[i], s[j])
  BY StreamRows
<1>2. PICK id : id = s[k].object_id
  OBVIOUS
<1>3. id \in OfType(l, r, type)
  BY <1>1, <1>2, RowOfType
<1>4. ASSUME NEW f \in InView(l, r, id)
      PROVE  \E i \in 1 .. k : s[i].object_id = id /\ f = Read(r, s[i].event)
  <2>1. PICK x \in Selection(l, r, type) : x.object_id = id /\ f = Read(r, x.event)
    BY <1>3, ViewHasRows
  <2>2. PICK i \in 1 .. Len(s) : s[i] = x
    BY <1>1
  <2>3. ASSUME k < i PROVE FALSE
    <3>1. k + 1 \in 1 .. Len(s) /\ k < k + 1 /\ k # Len(s)
      BY <1>1, <2>3
    <3>2. s[k].object_id \in Int /\ s[k + 1].object_id \in Int /\ s[i].object_id \in Int
      BY <1>1, <3>1 DEF RowRecords
    <3>3. s[k].object_id < s[k + 1].object_id
      BY <1>1, <3>1, <3>2 DEF RowBefore
    <3>4. i = k + 1 \/ s[k + 1].object_id <= s[i].object_id
      <4>1. i = k + 1 \/ k + 1 < i
        BY <1>1, <2>3
      <4> QED
        BY <1>1, <3>1, <3>2, <4>1, SMTT(30) DEF RowBefore
    <3> QED
      BY <1>2, <2>1, <2>2, <3>2, <3>3, <3>4
  <2>4. i \in 1 .. k
    BY <1>1, <2>3
  <2> QED
    BY <2>1, <2>2, <2>4
<1> QED
  BY <1>2, <1>4 DEF Reached

\* Nothing has been reached of an object before its first row.
LEMMA ReachedNone ==
    ASSUME NEW l, NEW r, Scanned(l, r), NEW type, NEW s, s = Stream(l, r, type),
           NEW k \in Nat, k < Len(s), k = 0 \/ s[k + 1].object_id # s[k].object_id
    PROVE  /\ Reached(l, r, s, k, s[k + 1].object_id) = {}
           /\ s[k + 1].object_id \notin IdsOf(s, k)
<1>1. /\ Len(s) \in Nat
      /\ \A i \in 1 .. Len(s) : s[i] \in RowRecords
      /\ \A i, j \in 1 .. Len(s) : i < j => RowBefore(s[i], s[j])
  BY StreamRows
<1>2. ASSUME NEW i \in 1 .. k PROVE s[i].object_id # s[k + 1].object_id
  <2>1. k \in 1 .. Len(s) /\ k + 1 \in 1 .. Len(s) /\ i \in 1 .. Len(s) /\ k < k + 1
    BY <1>1
  <2>2. s[k].object_id \in Int /\ s[k + 1].object_id \in Int /\ s[i].object_id \in Int
    BY <1>1, <2>1 DEF RowRecords
  <2>3. s[k].object_id < s[k + 1].object_id
    BY <1>1, <2>1, <2>2 DEF RowBefore
  <2>4. s[i].object_id <= s[k].object_id
    <3>1. i = k \/ i < k
      BY <1>1
    <3> QED
      BY <1>1, <2>1, <2>2, <3>1 DEF RowBefore
  <2> QED
    BY <2>2, <2>3, <2>4
<1> QED
  BY <1>2 DEF Reached, IdsOf

LEMMA NothingAdded ==
    ASSUME NEW r, NEW id
    PROVE  /\ SortedEvents({}) = <<>> /\ Merged(SortedEvents({})) = <<>>
           /\ Added(r, id, <<>>) = {}
<1>1. Orderly({})
  BY FS_EmptySet DEF Orderly
<1>2. SortedEvents({}) = <<>>
  BY <1>1, SortedLists, ListedEvents
<1>3. Merged(SortedEvents({})) = <<>>
  BY <1>1, <1>2, MergedDuration
<1>4. Added(r, id, <<>>) = {}
  BY DEF Added
<1> QED
  BY <1>2, <1>3, <1>4

\* Objects without a row add nothing.
LEMMA StreamIds ==
    ASSUME NEW l, NEW r, Scanned(l, r), NEW type, NEW s, s = Stream(l, r, type)
    PROVE  AddedBy(l, r, OfType(l, r, type)) = AddedBy(l, r, IdsOf(s, Len(s)))
<1>1. /\ \A i \in 1 .. Len(s) : s[i] \in Selection(l, r, type)
      /\ \A x \in Selection(l, r, type) : \E i \in 1 .. Len(s) : s[i] = x
  BY StreamRows
<1> DEFINE ids == IdsOf(s, Len(s))
           part(id) == Added(r, id, Merged(SortedEvents(InView(l, r, id))))
<1>2. ids \subseteq OfType(l, r, type)
  BY <1>1, RowOfType DEF IdsOf
<1>3. ASSUME NEW id \in OfType(l, r, type), id \notin ids PROVE part(id) = {}
  <2>1. InView(l, r, id) = {}
    <3> SUFFICES ASSUME NEW f \in InView(l, r, id) PROVE FALSE
      OBVIOUS
    <3>1. PICK x \in Selection(l, r, type) : x.object_id = id
      BY ViewHasRows
    <3> QED
      BY <1>1, <1>3, <3>1 DEF IdsOf
  <2> QED
    BY <2>1, NothingAdded
<1> HIDE DEF ids, part
<1>4. UNION {part(id) : id \in OfType(l, r, type)} = UNION {part(id) : id \in ids}
  BY <1>2, <1>3
<1> QED
  BY <1>4 DEF AddedBy, ids, part

-----------------------------------------------------------------------------
\* One row of the fold.

\* What is left of a sequence.
LEMMA AfterParts ==
    ASSUME NEW X, NEW s \in Seq(X), NEW k \in 0 .. Len(s)
    PROVE  /\ After(s, k) \in Seq(X) /\ (k = 0 => After(s, k) = s)
           /\ After(s, k) = <<>> <=> k = Len(s)
           /\ k < Len(s) => Head(After(s, k)) = s[k + 1] /\ Tail(After(s, k)) = After(s, k + 1)
<1>1. Len(s) \in Nat /\ \A i \in 1 .. Len(s) : s[i] \in X
  OBVIOUS
<1>2. \A j \in 0 .. Len(s) : Len(s) - j \in Nat /\ \A i \in 1 .. Len(s) - j : j + i \in 1 .. Len(s)
  BY <1>1
<1>3. \A j \in 0 .. Len(s) : After(s, j) \in Seq(X) /\ Len(After(s, j)) = Len(s) - j
  BY <1>1, <1>2 DEF After
<1>4. k = 0 => After(s, k) = s
  BY <1>1 DEF After
<1>5. After(s, k) = <<>> <=> k = Len(s)
  BY <1>1, <1>3
<1>6. ASSUME k < Len(s)
      PROVE  Head(After(s, k)) = s[k + 1] /\ Tail(After(s, k)) = After(s, k + 1)
  <2>1. k + 1 \in 0 .. Len(s)
    BY <1>1, <1>6
  <2>2. PICK a \in Seq(X) : a = After(s, k) /\ Len(a) = Len(s) - k /\ a # <<>>
    BY <1>3, <1>5, <1>6
  <2>3. PICK b \in Seq(X) : b = After(s, k + 1) /\ Len(b) = Len(s) - (k + 1)
    BY <1>3, <2>1
  <2>4. \A i \in 1 .. Len(a) : a[i] = s[k + i]
    BY <2>2 DEF After
  <2>5. \A i \in 1 .. Len(b) : b[i] = s[(k + 1) + i]
    BY <2>3 DEF After
  <2>6. Len(Tail(a)) = Len(a) - 1 /\ Tail(a) \in Seq(X) /\ \A i \in 1 .. Len(a) - 1 : Tail(a)[i] = a[i + 1]
    BY <2>2
  <2>7. Len(Tail(a)) = Len(b) /\ \A i \in 1 .. Len(b) : Tail(a)[i] = b[i]
    <3>1. Len(a) - 1 = Len(b)
      <4>1. \A n \in Nat : \A j \in 0 .. n : (n - j) - 1 = n - (j + 1)
        OBVIOUS
      <4> QED
        BY <1>1, <2>2, <2>3, <4>1
    <3>2. ASSUME NEW i \in 1 .. Len(b) PROVE a[i + 1] = b[i]
      <4>1. i + 1 \in 1 .. Len(a) /\ k + (i + 1) = (k + 1) + i
        BY <1>1, <2>2, <2>3
      <4> QED
        BY <2>4, <2>5, <4>1
    <3> QED
      BY <2>6, <3>1, <3>2
  <2>8. Tail(a) = b
    BY <2>3, <2>6, <2>7, SMTT(30)
  <2>9. Head(a) = s[k + 1]
    BY <1>1, <1>6, <2>2, <2>4
  <2> QED
    BY <2>2, <2>3, <2>8, <2>9
<1> QED
  BY <1>3, <1>4, <1>5, <1>6

\* The events of an object that have been taken, as the execution has them.
Taken(l, r, s, k, id) == Merged(SortedEvents(Reached(l, r, s, k, id)))

LEMMA TakenEvents ==
    ASSUME NEW l, NEW r, Scanned(l, r), NEW s, NEW k, NEW id
    PROVE  Taken(l, r, s, k, id) \in Seq(EventRecords)
<1> DEFINE S == Reached(l, r, s, k, id)
<1>1. S \in SUBSET InView(l, r, id)
  BY DEF Reached
<1> HIDE DEF S
<1>2. Orderly(S)
  BY <1>1, ViewOrderly, OrderlyParts
<1>3. PICK t : t = SortedEvents(S)
  OBVIOUS
<1>4. Lists(t, S, EventOrder)
  BY <1>2, <1>3, SortedLists
<1>5. Orderly(Openers(t)) /\ Lists(Merged(t), Openers(t), EventOrder)
  BY <1>2, <1>4, MergedOpeners
<1>6. Merged(t) \in Seq(EventRecords)
  BY <1>5, ListedEvents
<1> QED
  BY <1>3, <1>6 DEF Taken, S

\* A row is added to the events of its object if it passes the filter and is not of the
\* last event: that is all that the fold looks at.
LEMMA TakenGrows ==
    ASSUME NEW l, NEW r, Scanned(l, r), NEW type, NEW s, s = Stream(l, r, type),
           NEW k \in Nat, k < Len(s), ToUtc(r, s[k + 1].event.at) # None
    PROVE  LET e == Read(r, s[k + 1].event)
               was == Taken(l, r, s, k, s[k + 1].object_id)
           IN /\ e \in EventRecords
              /\ Taken(l, r, s, k + 1, s[k + 1].object_id) =
                     IF MatchesPostScan(r.view, e) /\ (was = <<>> \/ Last(was).id # e.id)
                     THEN Append(was, e) ELSE was
<1>1. PICK id : id = s[k + 1].object_id
  OBVIOUS
<1>2. PICK e : e = Read(r, s[k + 1].event)
  OBVIOUS
<1>3. PICK S : S = Reached(l, r, s, k, id)
  OBVIOUS
<1>4. /\ Reached(l, r, s, k + 1, id) = IF MatchesPostScan(r.view, e) THEN S \cup {e} ELSE S
      /\ MatchesPostScan(r.view, e) =>
             e \in InView(l, r, id) /\ e \notin S /\ \A y \in S : EventBefore(y, e)
  BY <1>1, <1>2, <1>3, ReachedGrows
<1>5. S \in SUBSET InView(l, r, id) /\ Orderly(InView(l, r, id))
  BY <1>3, ViewOrderly DEF Reached
<1>6. Orderly(S)
  BY <1>5, OrderlyParts
<1>7. PICK t : t = SortedEvents(S)
  OBVIOUS
<1>8. Taken(l, r, s, k, id) = Merged(t)
  BY <1>3, <1>7 DEF Taken
<1>9. e \in EventRecords
  <2>1. k + 1 \in 1 .. Len(s) /\ s[k + 1] \in RowRecords
    BY StreamRows
  <2>2. PICK f \in EventRecords : f = s[k + 1].event
    BY <2>1 DEF RowRecords
  <2>3. ToUtc(r, f.at) # None
    BY <2>2
  <2> QED
    BY <1>2, <2>2, <2>3, ReadParts
<1>10. CASE ~MatchesPostScan(r.view, e)
  BY <1>1, <1>2, <1>3, <1>4, <1>9, <1>10 DEF Taken
<1>11. CASE MatchesPostScan(r.view, e)
  <2>1. Orderly(S \cup {e})
    BY <1>4, <1>5, <1>11, OrderlyParts
  <2>2. Merged(SortedEvents(S \cup {e})) =
            IF t = <<>> \/ Last(t).id # e.id THEN Append(Merged(t), e) ELSE Merged(t)
    BY <1>4, <1>7, <1>11, <2>1, MergedGrows
  <2>3. Merged(t) = <<>> <=> t = <<>>
    BY <1>6, <1>7, MergedDuration
  <2>4. t # <<>> => Last(Merged(t)).id = Last(t).id
    <3>1. S = {} => t = <<>>
      BY <1>7, NothingAdded
    <3>2. S # {} => Last(Merged(t)).id = Last(t).id
      BY <1>6, <1>7, MergedEnds
    <3> QED
      BY <3>1, <3>2
  <2>5. Taken(l, r, s, k + 1, id) = Merged(SortedEvents(S \cup {e}))
    BY <1>4, <1>11 DEF Taken
  <2>6. Taken(l, r, s, k + 1, id) =
            IF Merged(t) = <<>> \/ Last(Merged(t)).id # e.id THEN Append(Merged(t), e) ELSE Merged(t)
    BY <2>2, <2>3, <2>4, <2>5
  <2> QED
    BY <1>1, <1>2, <1>8, <1>9, <1>11, <2>6
<1> QED
  BY <1>10, <1>11

\* After the last row of an object what it adds is complete.
LastRow(s, k) == k \in 1 .. Len(s) /\ (k = Len(s) \/ s[k + 1].object_id # s[k].object_id)

LEMMA ObjectEnds ==
    ASSUME NEW l, NEW r, Scanned(l, r), NEW type, NEW s, s = Stream(l, r, type),
           NEW k, LastRow(s, k)
    PROVE  LET id == s[k].object_id
           IN AddedBy(l, r, IdsOf(s, k)) =
                  AddedBy(l, r, IdsOf(s, k) \ {id}) \cup Added(r, id, Taken(l, r, s, k, id))
<1>1. PICK id : id = s[k].object_id
  OBVIOUS
<1>2. Reached(l, r, s, k, id) = InView(l, r, id)
  BY <1>1, ReachedAll DEF LastRow
<1>3. Taken(l, r, s, k, id) = Merged(SortedEvents(InView(l, r, id)))
  BY <1>2 DEF Taken
<1>4. Len(s) \in Nat
  BY StreamRows
<1>5. id \in IdsOf(s, k)
  <2>1. k \in 1 .. k
    BY <1>4 DEF LastRow
  <2> QED
    BY <1>1, <2>1 DEF IdsOf
<1>6. AddedBy(l, r, IdsOf(s, k)) =
          AddedBy(l, r, IdsOf(s, k) \ {id}) \cup Added(r, id, Merged(SortedEvents(InView(l, r, id))))
  BY <1>5 DEF AddedBy
<1> QED
  BY <1>1, <1>3, <1>6

LEMMA ObjectStarts ==
    ASSUME NEW l, NEW r, Scanned(l, r), NEW type, NEW s, s = Stream(l, r, type),
           NEW k \in Nat, k < Len(s), k = 0 \/ s[k + 1].object_id # s[k].object_id
    PROVE  /\ Taken(l, r, s, k, s[k + 1].object_id) = <<>>
           /\ IdsOf(s, k + 1) \ {s[k + 1].object_id} = IdsOf(s, k)
<1>1. Reached(l, r, s, k, s[k + 1].object_id) = {} /\ s[k + 1].object_id \notin IdsOf(s, k)
  BY ReachedNone
<1>2. Taken(l, r, s, k, s[k + 1].object_id) = <<>>
  BY <1>1, NothingAdded DEF Taken
<1>3. \A i : i \in 1 .. (k + 1) <=> i \in 1 .. k \/ i = k + 1
  OBVIOUS
<1>4. IdsOf(s, k + 1) = IdsOf(s, k) \cup {s[k + 1].object_id}
  BY <1>3 DEF IdsOf
<1> QED
  BY <1>1, <1>2, <1>4

LEMMA ObjectGoesOn ==
    ASSUME NEW s, NEW k \in Nat, s[k + 1].object_id = s[k].object_id
    PROVE  IdsOf(s, k + 1) \ {s[k].object_id} = IdsOf(s, k) \ {s[k].object_id}
<1>1. \A i : i \in 1 .. (k + 1) <=> i \in 1 .. k \/ i = k + 1
  OBVIOUS
<1>2. IdsOf(s, k + 1) = IdsOf(s, k) \cup {s[k + 1].object_id}
  BY <1>1 DEF IdsOf
<1> QED
  BY <1>2

\* A stream without rows, or before its first, has given nothing.
LEMMA NothingBefore ==
    ASSUME NEW l, NEW r, NEW s
    PROVE  IdsOf(s, 0) = {} /\ AddedBy(l, r, IdsOf(s, 0)) = {}
<1>1. IdsOf(s, 0) = {}
  BY DEF IdsOf
<1> QED
  BY <1>1 DEF AddedBy

\* Projections keep the ids of events and leave records of events.
LEMMA ProjectedParts ==
    ASSUME NEW r, NEW e \in EventRecords
    PROVE  /\ Projected(r, e) \in EventRecords /\ Projected(r, e).id = e.id
           /\ Projected(r, e) # None
<1>1. Projected(r, e) \in EventRecords /\ Projected(r, e).id = e.id
  BY DEF Projected, EventRecords
<1> QED
  BY <1>1, AbsenceAssumption

\* An event at the end adds the pair of it and the one before.
LEMMA PairGrows ==
    ASSUME NEW r, PathOf(r) = "pair", NEW id, NEW was \in Seq(EventRecords), NEW e \in EventRecords
    PROVE  Added(r, id, Append(was, e)) =
               Added(r, id, was) \cup
                   (IF was = <<>> THEN {}
                    ELSE {Observation(id, Projected(r, Last(was)), Projected(r, e))})
<1> DEFINE pair(t, i) == Observation(id, Projected(r, t[i]), Projected(r, t[i + 1]))
<1>1. \A t : Added(r, id, t) = {pair(t, i) : i \in 1 .. Len(t) - 1}
  BY DEF Added
<1>a. Append(was, e) \in Seq(EventRecords)
  OBVIOUS
<1>2. PICK t \in Seq(EventRecords) : t = Append(was, e)
  BY <1>a
<1>3. /\ Len(was) \in Nat /\ Len(t) = Len(was) + 1 /\ t[Len(was) + 1] = e
      /\ \A i \in 1 .. Len(was) : t[i] = was[i]
  BY <1>2
<1>4. \A i \in 1 .. Len(was) - 1 : pair(t, i) = pair(was, i)
  <2> SUFFICES ASSUME NEW i \in 1 .. Len(was) - 1 PROVE pair(t, i) = pair(was, i)
    OBVIOUS
  <2>1. i \in 1 .. Len(was) /\ i + 1 \in 1 .. Len(was)
    BY <1>3
  <2> QED
    BY <1>3, <2>1
<1>5. CASE was = <<>>
  <2>1. Len(was) = 0 /\ 1 .. Len(was) - 1 = {} /\ 1 .. Len(t) - 1 = {}
    BY <1>3, <1>5
  <2>2. Added(r, id, t) = {}
    BY <2>1 DEF Added
  <2>3. Added(r, id, was) = {}
    BY <2>1 DEF Added
  <2> QED
    BY <1>2, <1>5, <2>2, <2>3
<1>6. CASE was # <<>>
  <2>1. Len(was) >= 1
    BY <1>3, <1>6
  <2>2. \A i : i \in 1 .. Len(t) - 1 <=> i \in 1 .. Len(was) - 1 \/ i = Len(was)
    BY <1>3, <2>1
  <2>3. Len(was) \in 1 .. Len(was)
    BY <1>3, <2>1
  <2>4. pair(t, Len(was)) = Observation(id, Projected(r, Last(was)), Projected(r, e))
    BY <1>3, <2>3 DEF Last
  <2> HIDE DEF pair
  <2> QED
    BY <1>1, <1>2, <1>4, <1>6, <2>2, <2>4
<1> QED
  BY <1>5, <1>6

-----------------------------------------------------------------------------
\* The steps of the folds.

\* The m-th type is being scanned, and the first k rows of its stream are taken.
FoldingAt(l, r, m, s, k, g) ==
    /\ m \in 1 .. Len(LeadsOf(r)) /\ leads = After(LeadsOf(r), m)
    /\ s = Stream(l, r, LeadsOf(r)[m]) /\ k \in 0 .. Len(s)
    /\ g = Gathered(l, r, m - 1)
    /\ rows # None /\ Progress(l, r, s, k, g)

LEMMA LeadsListed ==
    ASSUME NEW r \in Requests
    PROVE  \E X : LeadsOf(r) \in Seq(X)
<1> DEFINE X == {r.lead, None, LeadingType(r)} \cup r.view.object_types
<1>1. SetToSeq(r.view.object_types) \in Seq(X)
  <2>1. PICK S : S = r.view.object_types /\ IsFiniteSet(S)
    BY AskedAssumption
  <2>2. PICK n \in Nat : n = Cardinality(S) /\ \E f : f \in Bijection(1 .. n, S)
    BY <2>1, FS_CardinalityType DEF ExistsBijection
  <2>3. \E f \in [1 .. n -> S] : IsInjective(f)
    BY <2>2 DEF Bijection, Injection, IsInjective
  <2>4. SetToSeq(S) \in [1 .. n -> S]
    BY <2>2, <2>3 DEF SetToSeq
  <2>5. SetToSeq(S) \in Seq(S)
    BY <2>4
  <2> QED
    BY <2>1, <2>5
<1>2. r.lead \in X /\ None \in X /\ LeadingType(r) \in X
  OBVIOUS
<1> HIDE DEF X
<1>3. LeadsOf(r) \in Seq(X)
  BY <1>1, <1>2 DEF LeadsOf, ObservationLeads
<1> QED
  BY <1>3

LEMMA FoldingSplits ==
    ASSUME NEW l, NEW r, Folding(l, r), r \in Requests, rows # None
    PROVE  \E m, s, k, g : FoldingAt(l, r, m, s, k, g)
<1>1. PICK m \in 0 .. Len(LeadsOf(r)) :
          /\ leads = After(LeadsOf(r), m) /\ m > 0
          /\ \E k \in 0 .. Len(Stream(l, r, LeadsOf(r)[m])) :
                 Progress(l, r, Stream(l, r, LeadsOf(r)[m]), k, Gathered(l, r, m - 1))
  BY DEF Folding
<1>2. Len(LeadsOf(r)) \in Nat
  BY LeadsListed
<1>3. m \in 1 .. Len(LeadsOf(r))
  BY <1>1, <1>2
<1> QED
  BY <1>1, <1>3 DEF FoldingAt

\* The next row of the stream.
LEMMA NextRow ==
    ASSUME NEW l, NEW r, Scanned(l, r), NEW m, NEW s, NEW k, NEW g, FoldingAt(l, r, m, s, k, g)
    PROVE  /\ s = Stream(l, r, LeadsOf(r)[m]) /\ k \in Nat /\ Len(s) \in Nat
           /\ rows # <<>> <=> k < Len(s)
           /\ rows # <<>> => /\ Head(rows) = s[k + 1] /\ Tail(rows) = After(s, k + 1)
                             /\ Tail(rows) # None /\ s[k + 1] \in RowRecords
                             /\ k + 1 \in 0 .. Len(s)
<1>1. s = Stream(l, r, LeadsOf(r)[m]) /\ k \in 0 .. Len(s) /\ rows = After(s, k)
  BY DEF FoldingAt, Progress
<1>2. s \in Seq(RowRecords) /\ Len(s) \in Nat /\ \A i \in 1 .. Len(s) : s[i] \in RowRecords
  BY <1>1, StreamRows
<1>3. /\ After(s, k) = <<>> <=> k = Len(s)
      /\ k < Len(s) => Head(After(s, k)) = s[k + 1] /\ Tail(After(s, k)) = After(s, k + 1)
  BY <1>1, <1>2, AfterParts, SMTT(30)
<1>4. k < Len(s) => k + 1 \in 0 .. Len(s) /\ k + 1 \in 1 .. Len(s)
  BY <1>1, <1>2
<1>5. k < Len(s) => After(s, k + 1) \in Seq(RowRecords)
  BY <1>2, <1>4, AfterParts
<1>6. k < Len(s) => After(s, k + 1) # None
  BY <1>5, AbsenceAssumption
<1>7. k \in Nat /\ (k # Len(s) <=> k < Len(s))
  BY <1>1, <1>2
<1> QED
  BY <1>1, <1>2, <1>3, <1>4, <1>6, <1>7

\* An object is read for the first time where the stream has another one before it.
LEMMA FreshRow ==
    ASSUME NEW l, NEW r, Scanned(l, r), NEW m, NEW s, NEW k, NEW g, FoldingAt(l, r, m, s, k, g),
           rows # <<>>
    PROVE  Fresh <=> k = 0 \/ s[k + 1].object_id # s[k].object_id
<1>1. /\ s = Stream(l, r, LeadsOf(r)[m]) /\ k \in Nat /\ k < Len(s) /\ Len(s) \in Nat
      /\ Head(rows) = s[k + 1]
  BY NextRow
<1>2. k = 0 => current = None
  BY DEF FoldingAt, Progress
<1>3. CASE k # 0
  <2>1. k \in 1 .. Len(s) /\ s[k] \in RowRecords
    BY <1>1, <1>3, StreamRows
  <2>2. PICK id \in Int : id = s[k].object_id
    BY <2>1 DEF RowRecords
  <2>3. PICK ev \in Seq(EventRecords) : ev = Taken(l, r, s, k, id)
    BY TakenEvents
  <2>4. current = Held(r, id, ev)
    BY <1>3, <2>2, <2>3 DEF FoldingAt, Progress, Taken
  <2>5. ev # <<>> => Projected(r, Last(ev)) \in EventRecords
    <3>1. ev # <<>> => Last(ev) \in EventRecords
      BY DEF Last
    <3> QED
      BY <3>1, ProjectedParts
  <2>6. current.object_id = id /\ current # None
    BY <2>4, <2>5, AbsenceAssumption DEF Held
  <2> QED
    BY <1>1, <1>3, <2>2, <2>6 DEF Fresh, Row
<1> QED
  BY <1>2, <1>3 DEF Fresh

\* What the objects before that of the k-th row add.
Given(l, r, s, k) == AddedBy(l, r, IdsOf(s, k) \ {s[k].object_id})

LEMMA GivenGrows ==
    ASSUME NEW l, NEW r, Scanned(l, r), NEW type, NEW s, s = Stream(l, r, type),
           NEW k \in Nat, k < Len(s)
    PROVE  /\ k = 0 => Given(l, r, s, k + 1) = {}
           /\ k # 0 => s[k].object_id \in Int
           /\ k # 0 /\ s[k + 1].object_id = s[k].object_id =>
                  Given(l, r, s, k + 1) = Given(l, r, s, k)
           /\ k # 0 /\ s[k + 1].object_id # s[k].object_id =>
                  Given(l, r, s, k + 1) =
                      Given(l, r, s, k)
                          \cup Added(r, s[k].object_id, Taken(l, r, s, k, s[k].object_id))
<1>1. k = 0 => Given(l, r, s, k + 1) = {}
  <2> SUFFICES ASSUME k = 0 PROVE Given(l, r, s, 1) = {}
    OBVIOUS
  <2>1. IdsOf(s, 1) \ {s[1].object_id} = IdsOf(s, 0)
    BY ObjectStarts
  <2> QED
    BY <2>1, NothingBefore DEF Given
<1>2. k # 0 => k \in 1 .. Len(s) /\ s[k].object_id \in Int
  <2>1. Len(s) \in Nat /\ \A i \in 1 .. Len(s) : s[i] \in RowRecords
    BY StreamRows
  <2>2. k # 0 => k \in 1 .. Len(s)
    BY <2>1
  <2> QED
    BY <2>1, <2>2 DEF RowRecords
<1>3. ASSUME s[k + 1].object_id = s[k].object_id
      PROVE  Given(l, r, s, k + 1) = Given(l, r, s, k)
  BY <1>3, ObjectGoesOn DEF Given
<1>4. ASSUME k # 0, s[k + 1].object_id # s[k].object_id
      PROVE  Given(l, r, s, k + 1) =
                 Given(l, r, s, k) \cup Added(r, s[k].object_id, Taken(l, r, s, k, s[k].object_id))
  <2>1. IdsOf(s, k + 1) \ {s[k + 1].object_id} = IdsOf(s, k)
    BY <1>4, ObjectStarts
  <2>a. LastRow(s, k)
    BY <1>2, <1>4 DEF LastRow
  <2>2. AddedBy(l, r, IdsOf(s, k)) =
            AddedBy(l, r, IdsOf(s, k) \ {s[k].object_id})
                \cup Added(r, s[k].object_id, Taken(l, r, s, k, s[k].object_id))
    BY <2>a, ObjectEnds
  <2> QED
    BY <2>1, <2>2 DEF Given
<1> QED
  BY <1>1, <1>2, <1>3, <1>4

LEMMA ScanRowFolds ==
    ASSUME NEW l, NEW r, l = log, r = request, Scanned(l, r), PathOf(r) = "scan",
           ScanTypeOK, Folding(l, r), ScanRow
    PROVE  Folding(l, r)'
<1>1. rows # None /\ rows # <<>> /\ ToUtc(r, Head(rows).event.at) # None
  BY DEF ScanRow, HasRow, Readable, Instant, Row
<1>2. PICK m, s, k, g : FoldingAt(l, r, m, s, k, g)
  BY <1>1, FoldingSplits DEF Scanned
<1>3. /\ s = Stream(l, r, LeadsOf(r)[m]) /\ k \in Nat /\ k < Len(s) /\ Len(s) \in Nat
      /\ Head(rows) = s[k + 1] /\ Tail(rows) = After(s, k + 1)
      /\ Tail(rows) # None /\ s[k + 1] \in RowRecords /\ k + 1 \in 0 .. Len(s)
  BY <1>1, <1>2, NextRow
<1>4. PICK e : e = Read(r, s[k + 1].event)
  OBVIOUS
<1>5. PICK id \in Int : id = s[k + 1].object_id
  BY <1>3 DEF RowRecords
<1>6. PICK was \in Seq(EventRecords) : was = Taken(l, r, s, k, id)
  BY TakenEvents
<1>7. PICK now : now = Taken(l, r, s, k + 1, id)
  OBVIOUS
<1>8. /\ e \in EventRecords
      /\ now = IF MatchesPostScan(r.view, e) /\ (was = <<>> \/ Last(was).id # e.id)
               THEN Append(was, e) ELSE was
  <2>1. ToUtc(r, s[k + 1].event.at) # None
    BY <1>1, <1>3
  <2>2. /\ Read(r, s[k + 1].event) \in EventRecords
        /\ Taken(l, r, s, k + 1, s[k + 1].object_id) =
               IF /\ MatchesPostScan(r.view, Read(r, s[k + 1].event))
                  /\ \/ Taken(l, r, s, k, s[k + 1].object_id) = <<>>
                     \/ Last(Taken(l, r, s, k, s[k + 1].object_id)).id # Read(r, s[k + 1].event).id
               THEN Append(Taken(l, r, s, k, s[k + 1].object_id), Read(r, s[k + 1].event))
               ELSE Taken(l, r, s, k, s[k + 1].object_id)
    BY <1>3, <2>1, TakenGrows
  <2> QED
    BY <1>4, <1>5, <1>6, <1>7, <2>2
<1>9. e = [Row.event EXCEPT !.at = Instant] /\ id = Row.object_id
  BY <1>3, <1>4, <1>5 DEF Read, Row, Instant
<1>10. /\ rows' = After(s, k + 1) /\ leads' = leads
       /\ out' = IF Fresh THEN Consumed ELSE out
  BY <1>3 DEF ScanRow
<1> DEFINE open == IF Fresh THEN [object_id |-> id, events |-> <<>>] ELSE current
           keep == /\ MatchesPostScan(r.view, e)
                   /\ open.events = <<>> \/ Last(open.events).id # e.id
<1>11. current' = IF keep THEN [open EXCEPT !.events = Append(@, e)] ELSE open
  BY <1>9 DEF ScanRow
<1>12. Fresh <=> k = 0 \/ s[k + 1].object_id # s[k].object_id
  BY <1>1, <1>2, FreshRow
<1>13. open = [object_id |-> id, events |-> was]
  <2>1. CASE Fresh
    <3>1. was = <<>>
      BY <1>3, <1>5, <1>6, <1>12, <2>1, ObjectStarts
    <3> QED
      BY <2>1, <3>1
  <2>2. CASE ~Fresh
    <3>1. k # 0 /\ s[k].object_id = id
      BY <1>5, <1>12, <2>2
    <3>2. current = Held(r, id, was)
      BY <1>2, <1>6, <3>1 DEF FoldingAt, Progress, Taken
    <3> QED
      BY <2>2, <3>2 DEF Held
  <2> QED
    BY <2>1, <2>2
<1> HIDE DEF open
<1>14. current' = [object_id |-> id, events |-> now]
  BY <1>8, <1>11, <1>13
<1>15. out' = g \cup Given(l, r, s, k + 1)
  <2>0. /\ k = 0 => Given(l, r, s, k + 1) = {}
        /\ k # 0 /\ s[k + 1].object_id = s[k].object_id =>
               Given(l, r, s, k + 1) = Given(l, r, s, k)
        /\ k # 0 /\ s[k + 1].object_id # s[k].object_id =>
               Given(l, r, s, k + 1) =
                   Given(l, r, s, k) \cup Added(r, s[k].object_id, Taken(l, r, s, k, s[k].object_id))
    BY <1>3, GivenGrows, SMTT(40)
  <2>a. k # 0 => s[k].object_id \in Int
    BY <1>3, GivenGrows, SMTT(40)
  <2>1. CASE k = 0
    <3>1. out = g /\ current = None
      BY <1>2, <2>1 DEF FoldingAt, Progress
    <3>2. out' = g
      BY <1>10, <1>12, <2>1, <3>1 DEF Consumed
    <3> QED
      BY <2>0, <2>1, <3>2
  <2>2. CASE k # 0
    <3>1. PICK old \in Int : old = s[k].object_id
      BY <2>2, <2>a
    <3>2. PICK ev \in Seq(EventRecords) : ev = Taken(l, r, s, k, old)
      BY TakenEvents
    <3>3. current = [object_id |-> old, events |-> ev] /\ out = g \cup Given(l, r, s, k)
      BY <1>2, <2>2, <3>1, <3>2 DEF FoldingAt, Progress, Taken, Held, Given
    <3>4. CASE Fresh
      <4>1. current # None /\ current.events = ev
        BY <3>3, AbsenceAssumption
      <4>2. ExecutionMatches(current) <=> ev # <<>> /\ DurationMatches(r.view, ev)
        BY <4>1 DEF ExecutionMatches, LifecycleMatches, Scanned
      <4>3. Added(r, old, ev) = IF ExecutionMatches(current) THEN {current} ELSE {}
        BY <3>3, <4>2 DEF Added
      <4>4. out' = out \cup Added(r, old, ev)
        BY <1>10, <3>4, <4>1, <4>3 DEF Consumed
      <4>5. Given(l, r, s, k + 1) = Given(l, r, s, k) \cup Added(r, old, ev)
        BY <1>12, <2>0, <2>2, <3>1, <3>2, <3>4
      <4> QED
        BY <3>3, <4>4, <4>5
    <3>5. CASE ~Fresh
      <4>1. Given(l, r, s, k + 1) = Given(l, r, s, k) /\ out' = out
        BY <1>10, <1>12, <2>0, <3>5
      <4> QED
        BY <3>3, <4>1
    <3> QED
      BY <3>4, <3>5
  <2> QED
    BY <2>1, <2>2
<1>16. Progress(l, r, s, k + 1, g)'
  <2>1. k + 1 # 0
    BY <1>3
  <2> QED
    BY <1>5, <1>7, <1>10, <1>14, <1>15, <2>1 DEF Progress, Taken, Held, Given
<1>17. rows' # None
  BY <1>3, <1>10
<1> QED
  <2>1. /\ m \in 1 .. Len(LeadsOf(r)) /\ leads = After(LeadsOf(r), m)
        /\ g = Gathered(l, r, m - 1)
    BY <1>2 DEF FoldingAt
  <2>2. m \in 0 .. Len(LeadsOf(r)) /\ m > 0
    BY <2>1, LeadsListed DEF Scanned
  <2> QED
    BY <1>3, <1>10, <1>16, <1>17, <2>1, <2>2 DEF Folding

\* The last object of a stream is the only one that is not given yet at the end.
StreamGives(l, r, type, s, k) ==
    /\ k = 0 => AddedBy(l, r, OfType(l, r, type)) = {}
    /\ k # 0 => /\ s[k].object_id \in Int
                /\ AddedBy(l, r, OfType(l, r, type)) =
                       Given(l, r, s, k) \cup
                           Added(r, s[k].object_id, Taken(l, r, s, k, s[k].object_id))

LEMMA StreamEnds ==
    ASSUME NEW l, NEW r, Scanned(l, r), NEW type, NEW s, s = Stream(l, r, type), NEW k, k = Len(s)
    PROVE  StreamGives(l, r, type, s, k)
<1>1. Len(s) \in Nat /\ \A i \in 1 .. Len(s) : s[i] \in RowRecords
  BY StreamRows
<1>2. AddedBy(l, r, OfType(l, r, type)) = AddedBy(l, r, IdsOf(s, k))
  BY StreamIds
<1>3. k = 0 => AddedBy(l, r, OfType(l, r, type)) = {}
  BY <1>2, NothingBefore
<1>4. k # 0 => k \in 1 .. Len(s) /\ s[k].object_id \in Int
  <2>1. k # 0 => k \in 1 .. Len(s)
    BY <1>1
  <2> QED
    BY <1>1, <2>1 DEF RowRecords
<1>5. k # 0 => AddedBy(l, r, IdsOf(s, k)) =
                   AddedBy(l, r, IdsOf(s, k) \ {s[k].object_id})
                       \cup Added(r, s[k].object_id, Taken(l, r, s, k, s[k].object_id))
  <2> SUFFICES ASSUME k # 0
               PROVE  AddedBy(l, r, IdsOf(s, k)) =
                          AddedBy(l, r, IdsOf(s, k) \ {s[k].object_id})
                              \cup Added(r, s[k].object_id, Taken(l, r, s, k, s[k].object_id))
    OBVIOUS
  <2>1. LastRow(s, k)
    BY <1>4 DEF LastRow
  <2> QED
    BY <2>1, ObjectEnds
<1> QED
  BY <1>2, <1>3, <1>4, <1>5 DEF Given, StreamGives

LEMMA GatheredGrows ==
    ASSUME NEW l, NEW r, NEW m \in Nat, m # 0
    PROVE  Gathered(l, r, m) = Gathered(l, r, m - 1) \cup AddedBy(l, r, OfType(l, r, LeadsOf(r)[m]))
<1>1. \A i : i \in 1 .. m <=> i \in 1 .. m - 1 \/ i = m
  OBVIOUS
<1> QED
  BY <1>1 DEF Gathered

LEMMA CloseScanFolds ==
    ASSUME NEW l, NEW r, l = log, r = request, Scanned(l, r), PathOf(r) = "scan",
           ScanTypeOK, Folding(l, r), CloseScan
    PROVE  Folding(l, r)'
<1>1. rows = <<>> /\ rows # None
  <2>1. <<>> \in Seq(RowRecords)
    OBVIOUS
  <2> QED
    BY <2>1, AbsenceAssumption DEF CloseScan
<1>2. PICK m, s, k, g : FoldingAt(l, r, m, s, k, g)
  BY <1>1, FoldingSplits DEF Scanned
<1>3. s = Stream(l, r, LeadsOf(r)[m]) /\ k \in Nat /\ Len(s) \in Nat /\ ~(k < Len(s))
  BY <1>1, <1>2, NextRow
<1>4. k = Len(s)
  BY <1>2, <1>3 DEF FoldingAt
<1>t. PICK type : type = LeadsOf(r)[m] /\ s = Stream(l, r, type)
  BY <1>3
<1>a. StreamGives(l, r, type, s, k)
  BY <1>4, <1>t, StreamEnds
<1> DEFINE all == AddedBy(l, r, OfType(l, r, type))
<1>5. /\ k = 0 => all = {}
      /\ k # 0 => all = Given(l, r, s, k)
                            \cup Added(r, s[k].object_id, Taken(l, r, s, k, s[k].object_id))
  BY <1>a DEF StreamGives
<1>i. k # 0 => s[k].object_id \in Int
  BY <1>a DEF StreamGives
<1> HIDE DEF all
<1>6. out' = g \cup all
  <2>1. CASE k = 0
    BY <1>2, <1>5, <2>1 DEF CloseScan, Consumed, FoldingAt, Progress
  <2>2. CASE k # 0
    <3>1. PICK old \in Int : old = s[k].object_id
      BY <1>i, <2>2
    <3>2. PICK ev \in Seq(EventRecords) : ev = Taken(l, r, s, k, old)
      BY TakenEvents
    <3>3. current = [object_id |-> old, events |-> ev] /\ out = g \cup Given(l, r, s, k)
      BY <1>2, <2>2, <3>1, <3>2 DEF FoldingAt, Progress, Taken, Held, Given
    <3>4. current # None /\ current.events = ev
      BY <3>3, AbsenceAssumption
    <3>5. ExecutionMatches(current) <=> ev # <<>> /\ DurationMatches(r.view, ev)
      BY <3>4 DEF ExecutionMatches, LifecycleMatches, Scanned
    <3>6. Added(r, old, ev) = IF ExecutionMatches(current) THEN {current} ELSE {}
      BY <3>3, <3>5 DEF Added
    <3>7. out' = out \cup Added(r, old, ev)
      BY <3>4, <3>6 DEF Consumed, CloseScan
    <3> QED
      BY <1>5, <2>2, <3>1, <3>2, <3>3, <3>7
  <2> QED
    BY <2>1, <2>2
<1>7. /\ m \in 0 .. Len(LeadsOf(r)) /\ m \in Nat /\ m # 0
      /\ leads = After(LeadsOf(r), m) /\ g = Gathered(l, r, m - 1)
  <2>1. Len(LeadsOf(r)) \in Nat
    BY LeadsListed DEF Scanned
  <2> QED
    BY <1>2, <2>1 DEF FoldingAt
<1>8. out' = Gathered(l, r, m)
  BY <1>6, <1>7, <1>t, GatheredGrows DEF all
<1>9. rows' = None /\ current' = None /\ leads' = leads
  BY DEF CloseScan
<1> QED
  BY <1>7, <1>8, <1>9 DEF Folding

LEMMA ClosePairsFolds ==
    ASSUME NEW l, NEW r, l = log, r = request, Scanned(l, r), PathOf(r) = "pair",
           ScanTypeOK, Folding(l, r), ClosePairs
    PROVE  Folding(l, r)'
<1>1. rows = <<>> /\ rows # None
  <2>1. <<>> \in Seq(RowRecords)
    OBVIOUS
  <2> QED
    BY <2>1, AbsenceAssumption DEF ClosePairs
<1>2. PICK m, s, k, g : FoldingAt(l, r, m, s, k, g)
  BY <1>1, FoldingSplits DEF Scanned
<1>3. s = Stream(l, r, LeadsOf(r)[m]) /\ k \in Nat /\ Len(s) \in Nat /\ ~(k < Len(s))
  BY <1>1, <1>2, NextRow
<1>4. k = Len(s)
  BY <1>2, <1>3 DEF FoldingAt
<1>t. PICK type : type = LeadsOf(r)[m] /\ s = Stream(l, r, type)
  BY <1>3
<1>a. StreamGives(l, r, type, s, k)
  BY <1>4, <1>t, StreamEnds
<1> DEFINE all == AddedBy(l, r, OfType(l, r, type))
<1>5. /\ k = 0 => all = {}
      /\ k # 0 => all = Given(l, r, s, k)
                            \cup Added(r, s[k].object_id, Taken(l, r, s, k, s[k].object_id))
  BY <1>a DEF StreamGives
<1> HIDE DEF all
<1>6. out = g \cup all
  <2>1. k = 0 => out = g
    BY <1>2 DEF FoldingAt, Progress
  <2>2. k # 0 => out = (g \cup Given(l, r, s, k))
                           \cup Added(r, s[k].object_id, Taken(l, r, s, k, s[k].object_id))
    BY <1>2 DEF FoldingAt, Progress, Taken, Given
  <2> QED
    BY <1>5, <2>1, <2>2
<1>7. /\ m \in 0 .. Len(LeadsOf(r)) /\ m \in Nat /\ m # 0
      /\ leads = After(LeadsOf(r), m) /\ g = Gathered(l, r, m - 1)
  <2>1. Len(LeadsOf(r)) \in Nat
    BY LeadsListed DEF Scanned
  <2> QED
    BY <1>2, <2>1 DEF FoldingAt
<1>8. out = Gathered(l, r, m)
  BY <1>6, <1>7, <1>t, GatheredGrows DEF all
<1>9. rows' = None /\ current' = None /\ leads' = leads /\ out' = out
  BY DEF ClosePairs
<1> QED
  BY <1>7, <1>8, <1>9 DEF Folding

LEMMA PairRowFolds ==
    ASSUME NEW l, NEW r, l = log, r = request, Scanned(l, r), PathOf(r) = "pair",
           ScanTypeOK, Folding(l, r), PairRow
    PROVE  Folding(l, r)'
<1>1. rows # None /\ rows # <<>> /\ ToUtc(r, Head(rows).event.at) # None
  BY DEF PairRow, HasRow, Readable, Instant, Row
<1>2. PICK m, s, k, g : FoldingAt(l, r, m, s, k, g)
  BY <1>1, FoldingSplits DEF Scanned
<1>3. /\ s = Stream(l, r, LeadsOf(r)[m]) /\ k \in Nat /\ k < Len(s) /\ Len(s) \in Nat
      /\ Head(rows) = s[k + 1] /\ Tail(rows) = After(s, k + 1)
      /\ Tail(rows) # None /\ s[k + 1] \in RowRecords /\ k + 1 \in 0 .. Len(s)
  BY <1>1, <1>2, NextRow
<1>4. PICK e : e = Read(r, s[k + 1].event)
  OBVIOUS
<1>5. PICK id \in Int : id = s[k + 1].object_id
  BY <1>3 DEF RowRecords
<1>6. PICK was \in Seq(EventRecords) : was = Taken(l, r, s, k, id)
  BY TakenEvents
<1>7. PICK now : now = Taken(l, r, s, k + 1, id)
  OBVIOUS
<1> DEFINE keep == MatchesPostScan(r.view, e) /\ (was = <<>> \/ Last(was).id # e.id)
           kept == Projected(r, e)
           previous == IF Fresh THEN None ELSE current.previous
<1>8. e \in EventRecords /\ now = IF keep THEN Append(was, e) ELSE was
  <2>1. ToUtc(r, s[k + 1].event.at) # None
    BY <1>1, <1>3
  <2>2. /\ Read(r, s[k + 1].event) \in EventRecords
        /\ Taken(l, r, s, k + 1, s[k + 1].object_id) =
               IF /\ MatchesPostScan(r.view, Read(r, s[k + 1].event))
                  /\ \/ Taken(l, r, s, k, s[k + 1].object_id) = <<>>
                     \/ Last(Taken(l, r, s, k, s[k + 1].object_id)).id # Read(r, s[k + 1].event).id
               THEN Append(Taken(l, r, s, k, s[k + 1].object_id), Read(r, s[k + 1].event))
               ELSE Taken(l, r, s, k, s[k + 1].object_id)
    BY <1>3, <2>1, TakenGrows
  <2> QED
    BY <1>4, <1>5, <1>6, <1>7, <2>2
<1>9. e = [Row.event EXCEPT !.at = Instant] /\ id = Row.object_id
  BY <1>3, <1>4, <1>5 DEF Read, Row, Instant
<1>10. rows' = After(s, k + 1) /\ leads' = leads
  BY <1>3 DEF PairRow
<1>11. Fresh <=> k = 0 \/ s[k + 1].object_id # s[k].object_id
  BY <1>1, <1>2, FreshRow
<1>12. previous = IF was = <<>> THEN None ELSE Projected(r, Last(was))
  <2>1. CASE Fresh
    <3>1. was = <<>>
      BY <1>3, <1>5, <1>6, <1>11, <2>1, ObjectStarts
    <3> QED
      BY <2>1, <3>1
  <2>2. CASE ~Fresh
    <3>1. k # 0 /\ s[k].object_id = id
      BY <1>5, <1>11, <2>2
    <3>2. current = Held(r, id, was)
      BY <1>2, <1>6, <3>1 DEF FoldingAt, Progress, Taken
    <3> QED
      BY <2>2, <3>2 DEF Held
  <2> QED
    BY <2>1, <2>2
<1>13. was # <<>> => /\ Last(was) \in EventRecords
                     /\ Projected(r, Last(was)) # None /\ Projected(r, Last(was)).id = Last(was).id
  <2>1. was # <<>> => Last(was) \in EventRecords
    BY DEF Last
  <2> QED
    BY <2>1, ProjectedParts
<1>14. kept.id = e.id
  BY <1>8, ProjectedParts
<1> HIDE DEF previous
<1>15. (MatchesPostScan(r.view, e) /\ (previous = None \/ previous.id # e.id)) <=> keep
  BY <1>12, <1>13
<1> HIDE DEF keep, kept
<1>16. /\ out' = IF keep /\ previous # None THEN out \cup {Observation(id, previous, kept)} ELSE out
       /\ current' = [object_id |-> id, previous |-> IF keep THEN kept ELSE previous]
  BY <1>9, <1>15 DEF PairRow, previous, kept
<1>17. current' = Held(r, id, now)
  <2>1. keep => now # <<>> /\ Last(now) = e
    BY <1>6, <1>8 DEF Last
  <2>2. ~keep => now = was
    BY <1>8
  <2> QED
    BY <1>12, <1>16, <2>1, <2>2 DEF Held, kept
<1>18. out' = out \cup (IF keep /\ was # <<>>
                        THEN {Observation(id, Projected(r, Last(was)), Projected(r, e))} ELSE {})
  BY <1>12, <1>13, <1>16 DEF kept
<1>19. Added(r, id, now) =
           Added(r, id, was) \cup
               (IF keep /\ was # <<>>
                THEN {Observation(id, Projected(r, Last(was)), Projected(r, e))} ELSE {})
  BY <1>8, PairGrows
<1>20. out = (g \cup Given(l, r, s, k + 1)) \cup Added(r, id, was)
  <2>0. /\ k = 0 => Given(l, r, s, k + 1) = {}
        /\ k # 0 /\ s[k + 1].object_id = s[k].object_id =>
               Given(l, r, s, k + 1) = Given(l, r, s, k)
        /\ k # 0 /\ s[k + 1].object_id # s[k].object_id =>
               Given(l, r, s, k + 1) =
                   Given(l, r, s, k) \cup Added(r, s[k].object_id, Taken(l, r, s, k, s[k].object_id))
    BY <1>3, GivenGrows, SMTT(40)
  <2>1. k = 0 => out = g
    BY <1>2 DEF FoldingAt, Progress
  <2>2. k # 0 => out = (g \cup Given(l, r, s, k))
                           \cup Added(r, s[k].object_id, Taken(l, r, s, k, s[k].object_id))
    BY <1>2 DEF FoldingAt, Progress, Taken, Given
  <2>3. CASE Fresh
    <3>1. was = <<>>
      BY <1>3, <1>5, <1>6, <1>11, <2>3, ObjectStarts
    <3>2. Added(r, id, was) = {}
      BY <3>1, NothingAdded
    <3> QED
      BY <1>11, <2>0, <2>1, <2>2, <2>3, <3>2
  <2>4. CASE ~Fresh
    <3>1. k # 0 /\ s[k].object_id = id /\ s[k + 1].object_id = s[k].object_id
      BY <1>5, <1>11, <2>4
    <3> QED
      BY <1>6, <2>0, <2>2, <3>1
  <2> QED
    BY <2>3, <2>4
<1>21. out' = (g \cup Given(l, r, s, k + 1)) \cup Added(r, id, now)
  BY <1>18, <1>19, <1>20
<1>22. Progress(l, r, s, k + 1, g)'
  <2>1. k + 1 # 0
    BY <1>3
  <2> QED
    BY <1>5, <1>7, <1>10, <1>17, <1>21, <2>1 DEF Progress, Taken, Given
<1>23. rows' # None
  BY <1>3, <1>10
<1> QED
  <2>1. /\ m \in 1 .. Len(LeadsOf(r)) /\ leads = After(LeadsOf(r), m)
        /\ g = Gathered(l, r, m - 1)
    BY <1>2 DEF FoldingAt
  <2>2. m \in 0 .. Len(LeadsOf(r)) /\ m > 0
    BY <2>1, LeadsListed DEF Scanned
  <2> QED
    BY <1>3, <1>10, <1>22, <1>23, <2>1, <2>2 DEF Folding

LEMMA OpenStreamFolds ==
    ASSUME NEW l, NEW r, l = log, r = request, Scanned(l, r), Folding(l, r), OpenStream
    PROVE  Folding(l, r)'
<1>1. /\ rows = None /\ leads # <<>> /\ rows' = InOrder(Selection(l, r, Head(leads)))
      /\ leads' = Tail(leads) /\ current' = current /\ out' = out
  BY DEF OpenStream
<1>2. PICK m \in 0 .. Len(LeadsOf(r)) :
          leads = After(LeadsOf(r), m) /\ current = None /\ out = Gathered(l, r, m)
  BY <1>1 DEF Folding
<1>3. PICK X : LeadsOf(r) \in Seq(X)
  BY LeadsListed DEF Scanned
<1>4. /\ Len(LeadsOf(r)) \in Nat
      /\ After(LeadsOf(r), m) = <<>> <=> m = Len(LeadsOf(r))
      /\ m < Len(LeadsOf(r)) => /\ Head(After(LeadsOf(r), m)) = LeadsOf(r)[m + 1]
                                /\ Tail(After(LeadsOf(r), m)) = After(LeadsOf(r), m + 1)
  BY <1>2, <1>3, AfterParts
<1>5. m < Len(LeadsOf(r)) /\ m + 1 \in 0 .. Len(LeadsOf(r)) /\ m + 1 > 0 /\ (m + 1) - 1 = m
  BY <1>1, <1>2, <1>4
<1>6. PICK s : s = Stream(l, r, LeadsOf(r)[m + 1])
  OBVIOUS
<1>7. rows' = s /\ leads' = After(LeadsOf(r), m + 1)
  BY <1>1, <1>2, <1>4, <1>5, <1>6 DEF Stream
<1>8. s \in Seq(RowRecords) /\ Len(s) \in Nat
  BY <1>6, StreamRows
<1>9. s # None /\ 0 \in 0 .. Len(s) /\ After(s, 0) = s
  BY <1>8, AfterParts, AbsenceAssumption
<1>10. Progress(l, r, s, 0, Gathered(l, r, m))'
  BY <1>1, <1>2, <1>7, <1>9 DEF Progress
<1>11. Progress(l, r, s, 0, Gathered(l, r, (m + 1) - 1))'
  BY <1>5, <1>10
<1>12. rows' # None
  BY <1>7, <1>9
<1> QED
  BY <1>5, <1>6, <1>7, <1>9, <1>11, <1>12 DEF Folding

-----------------------------------------------------------------------------
\* The results.

\* The events of an object in the view, as an execution has them, and whether it is one.
Whole(l, r, id) == Merged(SortedEvents(InView(l, r, id)))
Wants(l, r, id) == Whole(l, r, id) # <<>> /\ DurationMatches(r.view, Whole(l, r, id))

ExecutionOf(l, r, id) ==
    [object_ids |-> {id}, events |-> Whole(l, r, id), links |-> EventObjects(Loaded(l, r), {id})]
Folded(l, r, id) == [object_id |-> id, events |-> Whole(l, r, id)]

\* The executions of the local provider.
LEMMA StreamedAre ==
    ASSUME NEW l, NEW r, Scanned(l, r), NEW type
    PROVE  \A y : y \in Streamed(l, r, type) <=>
                      \E id \in OfType(l, r, type) : Wants(l, r, id) /\ y = ExecutionOf(l, r, id)
<1> DEFINE k == Loaded(l, r)
           ids == OfType(l, r, type)
           raw(id) == [object_ids |-> {id}, events |-> SortedEvents(InView(l, r, id)),
                       links |-> EventObjects(k, {id})]
<1>1. ASSUME NEW id PROVE Execution(k, r.view, {id}) = raw(id)
  <2> DEFINE touched == {q.event_id : q \in {s \in k.e2o : /\ s.object_id \in {id}
                                                           /\ Allows(r.view.qualifiers, s.qualifier)}}
  <2>1. k.e2o = l.e2o
    BY DEF Loaded
  <2>2. \A n : n \in touched <=> \E s \in l.e2o : /\ s.event_id = n /\ s.object_id = id
                                                   /\ Allows(r.view.qualifiers, s.qualifier)
    BY <2>1
  <2>3. EventsFor(k, r.view, {id}) =
            SortedEvents({e \in k.events : e.id \in touched /\ EventMatches(r.view, e)})
    BY DEF EventsFor
  <2> HIDE DEF touched
  <2>4. {e \in k.events : e.id \in touched /\ EventMatches(r.view, e)} = InView(l, r, id)
    BY <2>2 DEF InView
  <2> QED
    BY <2>3, <2>4 DEF Execution
<1>2. \A x : x \in Leading(k, r.view, type) <=>
          \E id \in ids : /\ x = raw(id) /\ raw(id).events # <<>>
                          /\ DurationMatches(r.view, raw(id).events)
  <2> DEFINE objects == {p \in KeptObjects(k, r.view) : type = None \/ p.object_type = type}
  <2>1. KeptObjects(k, r.view) = KeptObjects(l, SourceView(r))
    BY ObjectsKept
  <2>2. ids = {o.id : o \in objects}
    BY <2>1 DEF OfType
  <2>3. Leading(k, r.view, type) = Wanting(r.view, {Execution(k, r.view, {o.id}) : o \in objects})
    BY DEF Leading
  <2> HIDE DEF objects, k, raw, ids
  <2>4. {Execution(k, r.view, {o.id}) : o \in objects} = {raw(id) : id \in ids}
    BY <1>1, <2>2
  <2> QED
    BY <2>3, <2>4 DEF Wanting
<1>3. ASSUME NEW id \in ids
      PROVE  /\ raw(id).events # <<>> /\ DurationMatches(r.view, raw(id).events) <=> Wants(l, r, id)
             /\ [raw(id) EXCEPT !.events = Merged(@)] = ExecutionOf(l, r, id)
  <2>1. PICK s : s = SortedEvents(InView(l, r, id))
    OBVIOUS
  <2>2. Orderly(InView(l, r, id))
    BY ViewOrderly
  <2>3. /\ Merged(s) = <<>> <=> s = <<>>
        /\ DurationMatches(r.view, Merged(s)) <=> DurationMatches(r.view, s)
    BY <2>1, <2>2, MergedDuration
  <2>4. Whole(l, r, id) = Merged(s)
    BY <2>1 DEF Whole
  <2>5. raw(id).events = s
    BY <2>1
  <2>6. [raw(id) EXCEPT !.events = Merged(@)] = ExecutionOf(l, r, id)
    BY <2>1, <2>4 DEF ExecutionOf
  <2> HIDE DEF raw
  <2>7. raw(id).events # <<>> /\ DurationMatches(r.view, raw(id).events) <=> Wants(l, r, id)
    BY <2>3, <2>4, <2>5 DEF Wants
  <2> QED
    BY <2>6, <2>7
<1>4. Streamed(l, r, type) = {[x EXCEPT !.events = Merged(@)] : x \in Leading(k, r.view, type)}
  BY DEF Streamed
<1> HIDE DEF k, raw, ids
<1>5. \A y : y \in Streamed(l, r, type) <=> \E id \in ids : Wants(l, r, id) /\ y = ExecutionOf(l, r, id)
  BY <1>2, <1>3, <1>4
<1> QED
  BY <1>5 DEF ids

\* What the fold for executions gathers.
LEMMA FoldedAre ==
    ASSUME NEW l, NEW r, PathOf(r) # "pair", NEW ids
    PROVE  \A x : x \in AddedBy(l, r, ids) <=>
                      \E id \in ids : Wants(l, r, id) /\ x = Folded(l, r, id)
<1>1. ASSUME NEW id
      PROVE  Added(r, id, Whole(l, r, id)) = IF Wants(l, r, id) THEN {Folded(l, r, id)} ELSE {}
  BY DEF Added, Wants, Folded
<1>2. AddedBy(l, r, ids) = UNION {Added(r, id, Whole(l, r, id)) : id \in ids}
  BY DEF AddedBy, Whole
<1> QED
  BY <1>1, <1>2

\* The objects of the types that are scanned.
AllIds(l, r) == UNION {OfType(l, r, t) : t \in ToSet(LeadsOf(r))}

LEMMA GatheredAll ==
    ASSUME NEW l, NEW r, r \in Requests
    PROVE  Gathered(l, r, Len(LeadsOf(r))) = AddedBy(l, r, AllIds(l, r))
<1>1. PICK X : LeadsOf(r) \in Seq(X)
  BY LeadsListed
<1>2. PICK s \in Seq(X) : s = LeadsOf(r)
  BY <1>1
<1>3. DOMAIN s = 1 .. Len(s)
  BY <1>2
<1>4. \A t : t \in ToSet(s) <=> \E i \in 1 .. Len(s) : t = s[i]
  BY <1>3 DEF ToSet
<1>5. \A id : id \in AllIds(l, r) <=> \E i \in 1 .. Len(s) : id \in OfType(l, r, s[i])
  BY <1>2, <1>4 DEF AllIds
<1>6. \A ids, x : x \in AddedBy(l, r, ids) <=> \E id \in ids : x \in Added(r, id, Whole(l, r, id))
  BY DEF AddedBy, Whole
<1>7. \A x : x \in Gathered(l, r, Len(s)) <=>
                 \E i \in 1 .. Len(s) : x \in AddedBy(l, r, OfType(l, r, s[i]))
  BY <1>2 DEF Gathered
<1>8. Gathered(l, r, Len(s)) = AddedBy(l, r, AllIds(l, r))
  BY <1>5, <1>6, <1>7
<1> QED
  BY <1>2, <1>8

\* Ids are integers, the smallest of one is itself.
LEMMA SingleFolded ==
    ASSUME NEW l, NEW r, Scanned(l, r), NEW id \in AllIds(l, r)
    PROVE  Single(ExecutionOf(l, r, id)) = Folded(l, r, id)
<1>1. PICK t : id \in OfType(l, r, t)
  BY DEF AllIds
<1>2. id \in Int
  BY <1>1, ScannedAssumption DEF OfType, KeptObjects, Scanned
<1>3. Min({id}) = id
  BY <1>2 DEF Min
<1> QED
  BY <1>3 DEF Single, ExecutionOf, Folded

\* The projection of a pair is the pair of the projections.
LEMMA PairsProjected ==
    ASSUME NEW r, NEW id, NEW ev \in Seq(EventRecords)
    PROVE  Retained(r, Observations([object_id |-> id, events |-> ev])) =
               {Observation(id, Projected(r, ev[i]), Projected(r, ev[i + 1])) : i \in 1 .. Len(ev) - 1}
<1> DEFINE pair(i) == Observation(id, ev[i], ev[i + 1])
           projected(o) == [o EXCEPT !.source = Projected(r, @), !.target = Projected(r, @)]
<1>1. Observations([object_id |-> id, events |-> ev]) = {pair(i) : i \in 1 .. Len(ev) - 1}
  BY DEF Observations
<1>2. ASSUME NEW i \in 1 .. Len(ev) - 1
      PROVE  projected(pair(i)) = Observation(id, Projected(r, ev[i]), Projected(r, ev[i + 1]))
  <2>1. i \in 1 .. Len(ev) /\ i + 1 \in 1 .. Len(ev)
    OBVIOUS
  <2>2. PICK e \in EventRecords : e = ev[i]
    BY <2>1
  <2>3. PICK f \in EventRecords : f = ev[i + 1]
    BY <2>1
  <2>4. projected(Observation(id, e, f)) = Observation(id, Projected(r, e), Projected(r, f))
    <3> DEFINE seen(x) == [id |-> x.id, activity |-> x.activity, at |-> x.at, status |-> x.status]
    <3>1. \A x, y : Observation(id, x, y) = [object_id |-> id, source |-> seen(x), target |-> seen(y)]
      BY DEF Observation
    <3>2. ASSUME NEW x \in EventRecords PROVE Projected(r, seen(x)) = seen(Projected(r, x))
      <4>1. CASE r.status_wanted
        BY <4>1 DEF Projected
      <4>2. CASE ~r.status_wanted
        <5>1. Projected(r, x) = [x EXCEPT !.status = None]
          BY <4>2 DEF Projected
        <5>2. PICK y : y = [x EXCEPT !.status = None]
          OBVIOUS
        <5>3. y.id = x.id /\ y.activity = x.activity /\ y.at = x.at /\ y.status = None
          BY <5>2 DEF EventRecords
        <5>4. Projected(r, seen(x)) = [seen(x) EXCEPT !.status = None]
          BY <4>2 DEF Projected
        <5> QED
          BY <5>1, <5>2, <5>3, <5>4
      <4> QED
        BY <4>1, <4>2
    <3>3. projected([object_id |-> id, source |-> seen(e), target |-> seen(f)]) =
              [object_id |-> id, source |-> Projected(r, seen(e)), target |-> Projected(r, seen(f))]
      <4> HIDE DEF seen, projected
      <4>1. PICK o : o = [object_id |-> id, source |-> seen(e), target |-> seen(f)]
        OBVIOUS
      <4>2. o.source = seen(e) /\ o.target = seen(f)
        BY <4>1
      <4>3. projected(o) = [[o EXCEPT !.source = Projected(r, o.source)]
                               EXCEPT !.target = Projected(r, o.target)]
        BY <4>1 DEF projected
      <4> QED
        BY <4>1, <4>2, <4>3
    <3> HIDE DEF seen, projected
    <3> QED
      BY <3>1, <3>2, <3>3
  <2> QED
    BY <2>2, <2>3, <2>4
<1>3. Retained(r, {pair(i) : i \in 1 .. Len(ev) - 1}) =
          {projected(pair(i)) : i \in 1 .. Len(ev) - 1}
  <2> HIDE DEF pair
  <2> QED
    BY DEF Retained
<1> HIDE DEF pair, projected
<1> QED
  BY <1>1, <1>2, <1>3

\* What the fold for pairs gathers. Only requests without limits for the duration get there.
LEMMA PairsAre ==
    ASSUME NEW l, NEW r, Scanned(l, r), PathOf(r) = "pair", NEW ids
    PROVE  \A x : x \in AddedBy(l, r, ids) <=>
                      \E id \in ids : /\ Wants(l, r, id)
                                      /\ x \in Retained(r, Observations(Folded(l, r, id)))
<1>1. r.view.minimum_duration = None /\ r.view.maximum_duration = None
  BY DEF PathOf
<1>2. \A id : Wants(l, r, id) <=> Whole(l, r, id) # <<>>
  BY <1>1 DEF Wants, DurationMatches
<1>3. ASSUME NEW id
      PROVE  Added(r, id, Whole(l, r, id)) = Retained(r, Observations(Folded(l, r, id)))
  <2>1. PICK S : S = InView(l, r, id) /\ Orderly(S)
    BY ViewOrderly
  <2>2. PICK s : s = SortedEvents(S) /\ Lists(s, S, EventOrder)
    BY <2>1, SortedLists
  <2>3. Orderly(Openers(s)) /\ Lists(Merged(s), Openers(s), EventOrder)
    BY <2>1, <2>2, MergedOpeners
  <2>4. PICK ev \in Seq(EventRecords) : ev = Merged(s)
    BY <2>3, ListedEvents
  <2>5. Whole(l, r, id) = ev
    BY <2>1, <2>2, <2>4 DEF Whole
  <2>6. Added(r, id, ev) = {Observation(id, Projected(r, ev[i]), Projected(r, ev[i + 1])) :
                                i \in 1 .. Len(ev) - 1}
    BY DEF Added
  <2> QED
    BY <2>5, <2>6, PairsProjected DEF Folded
<1>4. \A id : Whole(l, r, id) = <<>> => Added(r, id, Whole(l, r, id)) = {}
  BY NothingAdded
<1>5. AddedBy(l, r, ids) = UNION {Added(r, id, Whole(l, r, id)) : id \in ids}
  BY DEF AddedBy, Whole
<1> QED
  BY <1>2, <1>3, <1>4, <1>5

\* The answer at the end of the folds.
LEMMA FinishedExecutions ==
    ASSUME NEW l, NEW r, Scanned(l, r), r.kind = "executions", NEW results,
           results = {Found(x) : x \in Gathered(l, r, Len(LeadsOf(r)))}
    PROVE  {<<x.object_ids, x.events>> : x \in results} =
               {<<x.object_ids, x.events>> : x \in Streamed(l, r, LeadingType(r))}
<1> DEFINE ids == OfType(l, r, LeadingType(r))
<1>1. PathOf(r) # "pair"
  BY DEF PathOf
<1>2. AllIds(l, r) = ids
  <2>1. LeadsOf(r) = <<LeadingType(r)>>
    BY DEF LeadsOf
  <2>2. ToSet(<<LeadingType(r)>>) = {LeadingType(r)}
    BY DEF ToSet
  <2> QED
    BY <2>1, <2>2 DEF AllIds
<1>3. Gathered(l, r, Len(LeadsOf(r))) = AddedBy(l, r, ids)
  BY <1>2, GatheredAll DEF Scanned
<1>4. \A x : x \in AddedBy(l, r, ids) <=> \E id \in ids : Wants(l, r, id) /\ x = Folded(l, r, id)
  BY <1>1, FoldedAre
<1>5. \A y : y \in Streamed(l, r, LeadingType(r)) <=>
                 \E id \in ids : Wants(l, r, id) /\ y = ExecutionOf(l, r, id)
  BY StreamedAre
<1>6. \A id : /\ Found(Folded(l, r, id)).object_ids = ExecutionOf(l, r, id).object_ids
              /\ Found(Folded(l, r, id)).events = ExecutionOf(l, r, id).events
  BY DEF Found, Folded, ExecutionOf
<1> HIDE DEF ids
<1>7. \A x : x \in results <=> \E id \in ids : Wants(l, r, id) /\ x = Found(Folded(l, r, id))
  BY <1>3, <1>4
<1> QED
  BY <1>5, <1>6, <1>7

\* The pairs of neighbours in the executions of every type that is asked for.
Pairs(l, r) ==
    UNION {Observations(Single(x)) : x \in UNION {Streamed(l, r, t) : t \in ToSet(ObservationLeads(r))}}

LEMMA PairsOfObjects ==
    ASSUME NEW l, NEW r, Scanned(l, r), r.kind \in {"observations", "projected"}
    PROVE  \A p : p \in Pairs(l, r) <=>
                      \E id \in AllIds(l, r) : Wants(l, r, id) /\ p \in Observations(Folded(l, r, id))
<1>1. LeadsOf(r) = ObservationLeads(r)
  BY DEF LeadsOf
<1> DEFINE executions == UNION {Streamed(l, r, t) : t \in ToSet(LeadsOf(r))}
<1>2. \A x : x \in executions <=> \E id \in AllIds(l, r) : Wants(l, r, id) /\ x = ExecutionOf(l, r, id)
  <2>1. \A t, y : y \in Streamed(l, r, t) <=>
                      \E id \in OfType(l, r, t) : Wants(l, r, id) /\ y = ExecutionOf(l, r, id)
    BY StreamedAre
  <2> QED
    BY <2>1 DEF AllIds
<1>3. \A id \in AllIds(l, r) : Single(ExecutionOf(l, r, id)) = Folded(l, r, id)
  BY SingleFolded
<1>4. Pairs(l, r) = UNION {Observations(Single(x)) : x \in executions}
  BY <1>1 DEF Pairs
<1> HIDE DEF executions
<1> QED
  BY <1>2, <1>3, <1>4

LEMMA FinishedPairs ==
    ASSUME NEW l, NEW r, Scanned(l, r), r.kind \in {"observations", "projected"},
           NEW gathered, gathered = Gathered(l, r, Len(LeadsOf(r)))
    PROVE  /\ PathOf(r) # "pair" => UNION {Observations(x) : x \in gathered} = Pairs(l, r)
           /\ PathOf(r) = "pair" => gathered = Retained(r, Pairs(l, r))
<1>1. gathered = AddedBy(l, r, AllIds(l, r))
  BY GatheredAll DEF Scanned
<1>2. \A p : p \in Pairs(l, r) <=>
                 \E id \in AllIds(l, r) : Wants(l, r, id) /\ p \in Observations(Folded(l, r, id))
  BY PairsOfObjects
<1>3. CASE PathOf(r) # "pair"
  <2>1. \A x : x \in gathered <=> \E id \in AllIds(l, r) : Wants(l, r, id) /\ x = Folded(l, r, id)
    BY <1>1, <1>3, FoldedAre
  <2> QED
    BY <1>2, <1>3, <2>1
<1>4. CASE PathOf(r) = "pair"
  <2>1. \A x : x \in gathered <=>
                   \E id \in AllIds(l, r) : /\ Wants(l, r, id)
                                            /\ x \in Retained(r, Observations(Folded(l, r, id)))
    BY <1>1, <1>4, PairsAre
  <2> DEFINE projected(o) == [o EXCEPT !.source = Projected(r, @), !.target = Projected(r, @)]
  <2>2. \A S, x : x \in Retained(r, S) <=> \E o \in S : x = projected(o)
    BY DEF Retained
  <2> HIDE DEF projected
  <2>3. \A x : x \in gathered <=> x \in Retained(r, Pairs(l, r))
    BY <1>2, <2>1, <2>2
  <2>4. gathered = Retained(r, Pairs(l, r))
    BY <2>3
  <2> QED
    BY <1>4, <2>4
<1> QED
  BY <1>3, <1>4

-----------------------------------------------------------------------------
\* The invariant.

LEMMA Ways ==
    ASSUME NEW r
    PROVE  /\ PathOf(r) \in {"aggregate", "project", "pair", "scan"}
           /\ PathOf(r) \in {"aggregate", "project"} => r.kind = "summary"
           /\ PathOf(r) = "pair" => r.kind = "projected"
BY DEF PathOf

LEMMA TypeScanned ==
    ASSUME ScanTypeOK, ~request.complete
    PROVE  Scanned(log, request)
BY DEF ScanTypeOK, Scanned

LEMMA ScanInitInv == ScanInit => ScanInv
<1> SUFFICES ASSUME ScanInit PROVE ScanInv
  OBVIOUS
<1>1. /\ log \in Logs /\ Valid(log) /\ request \in Requests /\ request.layout = log.layout
      /\ path = PathOf(request) /\ leads = LeadsOf(request)
      /\ rows = None /\ current = None /\ bounds = None /\ out = {}
  BY DEF ScanInit, ScanFrom
<1>2. ScanTypeOK
  BY <1>1 DEF ScanTypeOK
<1>3. path \notin {"done", "failed"}
  BY <1>1, Ways
<1>4. Folding(log, request)
  <2>1. PICK X : LeadsOf(request) \in Seq(X)
    BY <1>1, LeadsListed
  <2>2. Len(LeadsOf(request)) \in Nat /\ 0 \in 0 .. Len(LeadsOf(request))
    BY <2>1
  <2>3. leads = After(LeadsOf(request), 0)
    BY <1>1, <2>1, <2>2, AfterParts
  <2>4. Gathered(log, request, 0) = {}
    BY DEF Gathered
  <2> QED
    BY <1>1, <2>2, <2>3, <2>4 DEF Folding
<1>5. ScanFindsExecutions /\ ObservationsExact
  BY <1>3 DEF ScanFindsExecutions, ObservationsExact, Done
<1> QED
  BY <1>2, <1>4, <1>5 DEF ScanInv

\* What a request and its log are stays, and so do the kinds of the rest.
LEMMA TypeStep ==
    ASSUME ScanTypeOK, ScanNext
    PROVE  ScanTypeOK' /\ log' = log /\ request' = request
<1> USE DEF ScanTypeOK
<1>1. PathOf(request) \in {"aggregate", "project", "pair", "scan"}
  BY Ways
<1>2. CASE Aggregate
  BY <1>2 DEF Aggregate
<1>3. CASE OpenStream
  BY <1>3 DEF OpenStream
<1>4. CASE RowFails
  BY <1>4 DEF RowFails
<1>5. CASE ScanRow
  BY <1>5 DEF ScanRow
<1>6. CASE CloseScan
  BY <1>6 DEF CloseScan
<1>7. CASE ProjectRow
  BY <1>7 DEF ProjectRow
<1>8. CASE CloseProject
  BY <1>8 DEF CloseProject
<1>9. CASE PairRow
  BY <1>9 DEF PairRow
<1>10. CASE ClosePairs
  BY <1>10 DEF ClosePairs
<1>11. CASE Finish
  BY <1>11 DEF Finish
<1> QED
  BY <1>2, <1>3, <1>4, <1>5, <1>6, <1>7, <1>8, <1>9, <1>10, <1>11 DEF ScanNext

LEMMA FoldingStep ==
    ASSUME ScanInv, ScanNext, path' \in {"scan", "pair"}, ~request.complete
    PROVE  Folding(log, request)'
<1>1. ScanTypeOK /\ log' = log /\ request' = request
  BY TypeStep DEF ScanInv
<1>2. PICK l, r : l = log /\ r = request
  OBVIOUS
<1>3. Scanned(l, r)
  BY <1>1, <1>2, TypeScanned
<1>4. SUFFICES Folding(l, r)'
  BY <1>1, <1>2
<1>5. path \in {"scan", "pair"} => Folding(l, r) /\ path = PathOf(r)
  BY <1>1, <1>2 DEF ScanInv, ScanTypeOK
<1>6. CASE OpenStream
  <2>1. path' = path
    BY <1>6 DEF OpenStream
  <2> QED
    BY <1>2, <1>3, <1>5, <1>6, <2>1, OpenStreamFolds
<1>7. CASE ScanRow
  <2>1. path = "scan"
    BY <1>7 DEF ScanRow
  <2> QED
    BY <1>1, <1>2, <1>3, <1>5, <1>7, <2>1, ScanRowFolds
<1>8. CASE CloseScan
  <2>1. path = "scan"
    BY <1>8 DEF CloseScan
  <2> QED
    BY <1>1, <1>2, <1>3, <1>5, <1>8, <2>1, CloseScanFolds
<1>9. CASE PairRow
  <2>1. path = "pair"
    BY <1>9 DEF PairRow
  <2> QED
    BY <1>1, <1>2, <1>3, <1>5, <1>9, <2>1, PairRowFolds
<1>10. CASE ClosePairs
  <2>1. path = "pair"
    BY <1>10 DEF ClosePairs
  <2> QED
    BY <1>1, <1>2, <1>3, <1>5, <1>10, <2>1, ClosePairsFolds
<1>11. CASE Aggregate \/ RowFails \/ ProjectRow \/ CloseProject \/ Finish
  BY <1>11 DEF Aggregate, RowFails, ProjectRow, CloseProject, Finish
<1> QED
  BY <1>6, <1>7, <1>8, <1>9, <1>10, <1>11 DEF ScanNext

\* The answer of a fold that kept executions or pairs.
LEMMA FinishAnswers ==
    ASSUME ScanInv, Finish, request.kind # "summary"
    PROVE  ScanFindsExecutions' /\ ObservationsExact'
<1>1. /\ ScanTypeOK /\ path \in {"scan", "project", "pair"} /\ rows = None /\ leads = <<>>
      /\ path' = "done" /\ log' = log /\ request' = request
  BY DEF ScanInv, Finish
<1>2. PICK l, r : l = log /\ r = request
  OBVIOUS
<1>3. r.kind \in {"executions", "observations", "projected"} /\ ~r.complete /\ r \in Requests
  BY <1>1, <1>2, AskedAssumption DEF ScanTypeOK
<1>4. Scanned(l, r)
  BY <1>1, <1>2, <1>3, TypeScanned
<1>5. path = PathOf(r) /\ path \in {"scan", "pair"}
  BY <1>1, <1>2, <1>3, Ways DEF ScanTypeOK
<1>6. Folding(l, r)
  BY <1>2, <1>3, <1>5 DEF ScanInv
<1>7. PICK g : g = Gathered(l, r, Len(LeadsOf(r)))
  OBVIOUS
<1>8. out = g
  <2>1. PICK m \in 0 .. Len(LeadsOf(r)) : leads = After(LeadsOf(r), m) /\ out = Gathered(l, r, m)
    BY <1>1, <1>6 DEF Folding
  <2>2. PICK X : LeadsOf(r) \in Seq(X)
    BY <1>3, LeadsListed
  <2>3. m = Len(LeadsOf(r))
    BY <1>1, <2>1, <2>2, AfterParts
  <2> QED
    BY <1>7, <2>1, <2>3
<1>9. ScanFindsExecutions'
  <2> SUFFICES ASSUME r.kind = "executions"
               PROVE  {<<x.object_ids, x.events>> : x \in answer'} =
                          {<<x.object_ids, x.events>> : x \in Asked'}
    BY <1>1, <1>2 DEF ScanFindsExecutions, Done
  <2>1. answer' = {Found(x) : x \in g}
    BY <1>2, <1>8 DEF Finish
  <2>2. Asked' = Streamed(l, r, LeadingType(r))
    BY <1>1, <1>2, <1>3 DEF Asked
  <2>3. PICK results : results = answer'
    OBVIOUS
  <2>4. {<<x.object_ids, x.events>> : x \in results} =
            {<<x.object_ids, x.events>> : x \in Streamed(l, r, LeadingType(r))}
    BY <1>4, <1>7, <2>1, <2>3, FinishedExecutions
  <2> QED
    BY <2>2, <2>3, <2>4
<1>10. ObservationsExact'
  <2> SUFFICES ASSUME r.kind \in {"observations", "projected"}
               PROVE  answer' = IF r.kind = "projected" THEN Retained(r, Pairs(l, r)) ELSE Pairs(l, r)
    BY <1>1, <1>2 DEF ObservationsExact, Done, Pairs
  <2>1. /\ PathOf(r) # "pair" => UNION {Observations(x) : x \in g} = Pairs(l, r)
        /\ PathOf(r) = "pair" => g = Retained(r, Pairs(l, r))
    BY <1>4, <1>7, FinishedPairs
  <2>2. CASE r.kind = "observations"
    <3>1. PathOf(r) # "pair"
      BY <2>2, Ways
    <3>2. answer' = UNION {Observations(x) : x \in g}
      BY <1>2, <1>8, <2>2 DEF Finish
    <3> QED
      BY <2>1, <2>2, <3>1, <3>2
  <2>3. CASE r.kind = "projected"
    <3>1. answer' = IF path = "scan" THEN Retained(r, UNION {Observations(x) : x \in g}) ELSE g
      BY <1>2, <1>8, <2>3 DEF Finish
    <3> QED
      BY <1>5, <2>1, <2>3, <3>1
  <2> QED
    BY <2>2, <2>3
<1> QED
  BY <1>9, <1>10

LEMMA ScanStep ==
    ASSUME ScanInv, [ScanNext]_scanVars
    PROVE  ScanInv'
<1>1. CASE ScanNext
  <2>1. ScanTypeOK' /\ log' = log /\ request' = request /\ ScanTypeOK
    BY <1>1, TypeStep DEF ScanInv
  <2>2. path' \in {"scan", "pair"} /\ ~request'.complete => Folding(log, request)'
    BY <1>1, <2>1, FoldingStep
  <2>3. ScanFindsExecutions' /\ ObservationsExact'
    <3>1. CASE Finish /\ request.kind # "summary"
      BY <3>1, FinishAnswers
    <3>2. CASE request.kind = "summary"
      BY <2>1, <3>2 DEF ScanFindsExecutions, ObservationsExact, Done
    <3>3. CASE ~Finish /\ request.kind # "summary"
      <4>1. PathOf(request) \in {"pair", "scan"}
        BY <3>3, Ways
      <4>2. path' # "done"
        <5>1. path \in {"pair", "scan", "done", "failed"} /\ (path \in {"done", "failed"} => rows = None)
          BY <2>1, <4>1 DEF ScanTypeOK
        <5> QED
          BY <1>1, <3>3, <5>1
          DEF ScanNext, Aggregate, OpenStream, RowFails, HasRow, ScanRow, CloseScan, ProjectRow,
              CloseProject, PairRow, ClosePairs
      <4> QED
        BY <4>2 DEF ScanFindsExecutions, ObservationsExact, Done
    <3> QED
      BY <3>1, <3>2, <3>3
  <2> QED
    BY <2>1, <2>2, <2>3 DEF ScanInv
<1>2. CASE UNCHANGED scanVars
  <2>1. /\ log' = log /\ request' = request /\ path' = path /\ leads' = leads /\ rows' = rows
        /\ current' = current /\ bounds' = bounds /\ out' = out /\ answer' = answer
    BY <1>2 DEF scanVars
  <2>2. ScanTypeOK'
    BY <2>1 DEF ScanInv, ScanTypeOK
  <2>3. Folding(log, request)' <=> Folding(log, request)
    BY <2>1 DEF Folding, Progress
  <2>4. ScanFindsExecutions'
    BY <2>1 DEF ScanInv, ScanFindsExecutions, Done, Asked
  <2>5. ObservationsExact'
    BY <2>1 DEF ScanInv, ObservationsExact, Done
  <2> QED
    BY <2>1, <2>2, <2>3, <2>4, <2>5 DEF ScanInv
<1> QED
  BY <1>1, <1>2

-----------------------------------------------------------------------------
\* The rows that scan_executions and scan_projected_bottleneck_observations took and what
\* they keep and gave so far always belong together, whatever the log, the clock and the
\* request.
THEOREM ScanInvariant == ScanSpec => []ScanInv
<1>1. ScanInit => ScanInv
  BY ScanInitInv
<1>2. ScanInv /\ [ScanNext]_scanVars => ScanInv'
  BY ScanStep
<1> QED
  BY <1>1, <1>2, PTL DEF ScanSpec

\* scan_executions finds the executions of the local provider, with the same events, in
\* every layout and time zone.
THEOREM ScanFinds == ScanSpec => []ScanFindsExecutions
<1>1. ScanInv => ScanFindsExecutions
  BY DEF ScanInv
<1> QED
  BY <1>1, ScanInvariant, PTL

\* The observations of both scans are the neighbours in those executions, and the
\* projection drops attributes, never observations.
THEOREM ObservationsFaithful == ScanSpec => []ObservationsExact
<1>1. ScanInv => ObservationsExact
  BY DEF ScanInv
<1> QED
  BY <1>1, ScanInvariant, PTL

(***************************************************************************)
(* Part 2: the summary cache.                                              *)
(***************************************************************************)
-----------------------------------------------------------------------------
(* What retain keeps.                                                      *)

\* m gives the place in the first n elements of s that each element of r was taken
\* from: all that are not k, in their order.
Picks(m, r, s, k, n) ==
    /\ m \in [1 .. Len(r) -> 1 .. n]
    /\ \A i \in 1 .. Len(r) : r[i] = s[m[i]] /\ r[i] # k
    /\ \A i, j \in 1 .. Len(r) : i < j => m[i] < m[j]
    /\ \A j \in 1 .. n : s[j] # k => \E i \in 1 .. Len(r) : m[i] = j

LEMMA RetainPicks ==
    ASSUME NEW T, NEW s \in Seq(T), NEW k
    PROVE  Retain(s, k) \in Seq(T) /\ \E m : Picks(m, Retain(s, k), s, k, Len(s))
<1> DEFINE g == [p \in Nat \X Seq(T) |->
                    IF p[1] + 1 \in 1 .. Len(s) /\ s[p[1] + 1] # k
                    THEN Append(p[2], s[p[1] + 1]) ELSE p[2]]
           Kept(f) == f = [n \in 0 .. Len(s) |->
                              IF n = 0 THEN <<>>
                              ELSE IF s[n] = k THEN f[n - 1] ELSE Append(f[n - 1], s[n])]
<1>1. g \in [Nat \X Seq(T) -> Seq(T)] /\ <<>> \in Seq(T) /\ Len(s) \in Nat
  OBVIOUS
<1>2. PICK f : NatRun(f, Seq(T), <<>>, g)
  <2> HIDE DEF g
  <2> QED
    BY <1>1, NatRecursion
<1>3. Kept([n \in 0 .. Len(s) |-> f[n]])
  <2> DEFINE h == [n \in 0 .. Len(s) |-> f[n]]
  <2> SUFFICES ASSUME NEW n \in 0 .. Len(s), n # 0
               PROVE  h[n] = IF s[n] = k THEN h[n - 1] ELSE Append(h[n - 1], s[n])
    BY <1>1, <1>2 DEF NatRun
  <2>1. n - 1 \in Nat /\ n - 1 \in 0 .. Len(s) /\ (n - 1) + 1 = n /\ n \in 1 .. Len(s)
    BY <1>1
  <2>2. f[n] = g[<<n - 1, f[n - 1]>>] /\ <<n - 1, f[n - 1]>> \in Nat \X Seq(T)
    BY <1>2, <2>1 DEF NatRun
  <2> QED
    BY <2>1, <2>2
<1>4. PICK h : Kept(h) /\ Retain(s, k) = h[Len(s)]
  BY <1>3 DEF Retain
<1>5. /\ h[0] = <<>>
      /\ \A n \in Nat : n + 1 <= Len(s) =>
             h[n + 1] = IF s[n + 1] = k THEN h[n] ELSE Append(h[n], s[n + 1])
  <2>1. h[0] = <<>>
    BY <1>1, <1>4
  <2>2. ASSUME NEW n \in Nat, n + 1 <= Len(s)
        PROVE  h[n + 1] = IF s[n + 1] = k THEN h[n] ELSE Append(h[n], s[n + 1])
    <3>1. n + 1 \in 0 .. Len(s) /\ n + 1 # 0 /\ (n + 1) - 1 = n
      BY <1>1, <2>2
    <3> QED
      BY <1>4, <3>1
  <2> QED
    BY <2>1, <2>2
<1> HIDE DEF Kept
<1> DEFINE Q == {n \in Nat : n <= Len(s) => h[n] \in Seq(T) /\ \E m : Picks(m, h[n], s, k, n)}
<1>6. 0 \in Q
  <2>1. Len(<<>>) = 0 /\ 1 .. 0 = {}
    OBVIOUS
  <2>2. Picks([i \in {} |-> i], <<>>, s, k, 0)
    BY <2>1 DEF Picks
  <2> QED
    BY <1>1, <1>5, <2>2
<1>7. ASSUME NEW n \in Nat, n \in Q PROVE n + 1 \in Q
  <2> SUFFICES ASSUME n + 1 <= Len(s)
               PROVE  h[n + 1] \in Seq(T) /\ \E m : Picks(m, h[n + 1], s, k, n + 1)
    OBVIOUS
  <2>1. h[n] \in Seq(T) /\ \E m : Picks(m, h[n], s, k, n)
    BY <1>1, <1>7
  <2>2. PICK m : Picks(m, h[n], s, k, n)
    BY <2>1
  <2>3. PICK r \in Seq(T) : r = h[n]
    BY <2>1
  <2>4. /\ m \in [1 .. Len(r) -> 1 .. n] /\ Len(r) \in Nat
        /\ \A i \in 1 .. Len(r) : r[i] = s[m[i]] /\ r[i] # k
        /\ \A i, j \in 1 .. Len(r) : i < j => m[i] < m[j]
        /\ \A j \in 1 .. n : s[j] # k => \E i \in 1 .. Len(r) : m[i] = j
    BY <2>2, <2>3 DEF Picks
  <2>5. /\ 1 .. n \subseteq 1 .. (n + 1) /\ n + 1 \in 1 .. (n + 1) /\ n + 1 \in 1 .. Len(s)
        /\ \A j \in 1 .. (n + 1) : j \in 1 .. n \/ j = n + 1
    BY <1>1
  <2>6. CASE s[n + 1] = k
    <3>1. h[n + 1] = r
      BY <1>5, <2>3, <2>6
    <3>2. Picks(m, r, s, k, n + 1)
      BY <2>4, <2>5, <2>6 DEF Picks
    <3> QED
      BY <3>1, <3>2
  <2>7. CASE s[n + 1] # k
    <3> DEFINE q == Append(r, s[n + 1])
               p == [i \in 1 .. (Len(r) + 1) |-> IF i = Len(r) + 1 THEN n + 1 ELSE m[i]]
    <3>1. h[n + 1] = q
      BY <1>5, <2>3, <2>7
    <3>2. /\ q \in Seq(T) /\ Len(q) = Len(r) + 1 /\ q[Len(r) + 1] = s[n + 1]
          /\ \A i \in 1 .. Len(r) : q[i] = r[i]
      BY <2>4, <2>5
    <3>3. /\ Len(r) + 1 \in 1 .. (Len(r) + 1) /\ 1 .. Len(r) \subseteq 1 .. (Len(r) + 1)
          /\ \A i \in 1 .. (Len(r) + 1) : i \in 1 .. Len(r) \/ i = Len(r) + 1
          /\ \A i \in 1 .. Len(r) : i # Len(r) + 1
      <4> PICK l \in Nat : l = Len(r)
        BY <2>4
      <4>1. /\ l + 1 \in 1 .. (l + 1) /\ 1 .. l \subseteq 1 .. (l + 1)
            /\ \A i \in 1 .. (l + 1) : i \in 1 .. l \/ i = l + 1
            /\ \A i \in 1 .. l : i # l + 1
        OBVIOUS
      <4> QED
        BY <4>1
    <3>4. /\ p \in [1 .. Len(q) -> 1 .. (n + 1)] /\ p[Len(r) + 1] = n + 1
          /\ \A i \in 1 .. Len(r) : p[i] = m[i]
      BY <2>4, <2>5, <3>2, <3>3
    <3> HIDE DEF p, q
    <3>5. \A i \in 1 .. Len(q) : q[i] = s[p[i]] /\ q[i] # k
      BY <2>4, <2>7, <3>2, <3>3, <3>4
    <3>6. ASSUME NEW i \in 1 .. Len(q), NEW j \in 1 .. Len(q), i < j PROVE p[i] < p[j]
      <4>1. i \in 1 .. Len(r) /\ m[i] \in 1 .. n
        BY <2>4, <3>2, <3>6
      <4>2. CASE j = Len(r) + 1
        BY <3>4, <4>1, <4>2
      <4>3. CASE j \in 1 .. Len(r)
        BY <2>4, <3>4, <3>6, <4>1, <4>3
      <4> QED
        BY <3>2, <3>3, <4>2, <4>3
    <3>7. \A j \in 1 .. (n + 1) : s[j] # k => \E i \in 1 .. Len(q) : p[i] = j
      BY <2>4, <2>5, <3>2, <3>3, <3>4
    <3>8. Picks(p, q, s, k, n + 1)
      BY <3>4, <3>5, <3>6, <3>7 DEF Picks
    <3> QED
      BY <3>1, <3>2, <3>8
  <2> QED
    BY <2>6, <2>7
<1> HIDE DEF Q
<1>8. Len(s) \in Q
  BY <1>1, <1>6, <1>7, NatSetInduction
<1> QED
  BY <1>1, <1>4, <1>8 DEF Q

\* Retain drops k, keeps the others and their order, and leaves no duplicates.
LEMMA RetainKeeps ==
    ASSUME NEW T, NEW s \in Seq(T), NEW k, IsInjective(s)
    PROVE  /\ Retain(s, k) \in Seq(T)
           /\ IsInjective(Retain(s, k))
           /\ ToSet(Retain(s, k)) = ToSet(s) \ {k}
           /\ \E m \in [DOMAIN Retain(s, k) -> DOMAIN s] :
                  /\ \A i \in DOMAIN Retain(s, k) : Retain(s, k)[i] = s[m[i]]
                  /\ \A i, j \in DOMAIN Retain(s, k) : i < j => m[i] < m[j]
<1> PICK r : r = Retain(s, k)
  OBVIOUS
<1>1. r \in Seq(T) /\ \E m : Picks(m, r, s, k, Len(s))
  BY RetainPicks
<1>2. PICK m : Picks(m, r, s, k, Len(s))
  BY <1>1
<1>3. /\ DOMAIN r = 1 .. Len(r) /\ DOMAIN s = 1 .. Len(s) /\ Len(r) \in Nat /\ Len(s) \in Nat
      /\ m \in [DOMAIN r -> DOMAIN s]
      /\ \A i \in DOMAIN r : r[i] = s[m[i]] /\ r[i] # k
      /\ \A i, j \in DOMAIN r : i < j => m[i] < m[j]
      /\ \A j \in DOMAIN s : s[j] # k => \E i \in DOMAIN r : m[i] = j
  <2>1. DOMAIN r = 1 .. Len(r) /\ DOMAIN s = 1 .. Len(s) /\ Len(r) \in Nat /\ Len(s) \in Nat
    BY <1>1
  <2> QED
    BY <1>2, <2>1 DEF Picks
<1>4. ToSet(r) = ToSet(s) \ {k}
  BY <1>3 DEF ToSet
<1>5. ASSUME NEW i \in DOMAIN r, NEW j \in DOMAIN r, r[i] = r[j] PROVE i = j
  <2>1. m[i] = m[j] /\ m[i] \in Nat /\ m[j] \in Nat
    BY <1>3, <1>5 DEF IsInjective
  <2>2. ~(i < j) /\ ~(j < i) /\ i \in Nat /\ j \in Nat
    BY <1>3, <2>1
  <2> QED
    BY <2>2
<1> QED
  BY <1>1, <1>3, <1>4, <1>5 DEF IsInjective

-----------------------------------------------------------------------------
(* The order of the queue and of the history.                              *)

LEMMA PositionOf ==
    ASSUME NEW s, IsInjective(s), NEW i \in DOMAIN s
    PROVE  Position(s, s[i]) = i
BY DEF Position, IsInjective

\* A key that is touched comes last, the others keep their order.
LEMMA TouchOrders ==
    ASSUME NEW T, NEW s \in Seq(T), NEW k \in T, IsInjective(s)
    PROVE  /\ Touch(s, k) \in Seq(T)
           /\ IsInjective(Touch(s, k))
           /\ ToSet(Touch(s, k)) = ToSet(s) \cup {k}
           /\ \A a, b \in ToSet(s) \ {k} :
                  Position(s, a) < Position(s, b) => Position(Touch(s, k), a) < Position(Touch(s, k), b)
           /\ \A a \in ToSet(s) \ {k} : Position(Touch(s, k), a) < Position(Touch(s, k), k)
<1> PICK r, t : r = Retain(s, k) /\ t = Touch(s, k)
  OBVIOUS
<1>1. /\ r \in Seq(T) /\ IsInjective(r) /\ ToSet(r) = ToSet(s) \ {k}
  BY RetainKeeps
<1>2. PICK m \in [DOMAIN r -> DOMAIN s] :
          /\ \A i \in DOMAIN r : r[i] = s[m[i]]
          /\ \A i, j \in DOMAIN r : i < j => m[i] < m[j]
  BY RetainKeeps
<1>3. /\ DOMAIN r = 1 .. Len(r) /\ DOMAIN s = 1 .. Len(s) /\ Len(r) \in Nat
      /\ t = Append(r, k) /\ t \in Seq(T) /\ DOMAIN t = 1 .. (Len(r) + 1)
      /\ t[Len(r) + 1] = k /\ \A i \in DOMAIN r : t[i] = r[i] /\ i \in DOMAIN t
      /\ Len(r) + 1 \in DOMAIN t
  BY <1>1 DEF Touch
<1>4. \A i \in DOMAIN t : i \in DOMAIN r \/ i = Len(r) + 1
  BY <1>3
<1>5. k \notin ToSet(r)
  BY <1>1
<1>6. IsInjective(t)
  BY <1>1, <1>3, <1>4, <1>5 DEF IsInjective, ToSet
<1>7. ToSet(t) = ToSet(s) \cup {k}
  <2>1. ToSet(t) = ToSet(r) \cup {k}
    BY <1>3, <1>4 DEF ToSet
  <2> QED
    BY <1>1, <2>1
<1>8. \A a \in ToSet(s) \ {k} :
          \E i \in DOMAIN r : a = r[i] /\ Position(t, a) = i /\ Position(s, a) = m[i]
  <2> TAKE a \in ToSet(s) \ {k}
  <2>1. PICK i \in DOMAIN r : a = r[i]
    BY <1>1 DEF ToSet
  <2>2. i \in DOMAIN t /\ a = t[i] /\ m[i] \in DOMAIN s /\ a = s[m[i]]
    BY <1>2, <1>3, <2>1
  <2> QED
    BY <1>6, <2>1, <2>2, PositionOf
<1>9. Position(t, k) = Len(r) + 1
  BY <1>3, <1>6, PositionOf
<1>10. ASSUME NEW a \in ToSet(s) \ {k}, NEW b \in ToSet(s) \ {k}, Position(s, a) < Position(s, b)
       PROVE  Position(t, a) < Position(t, b)
  <2>1. PICK i \in DOMAIN r : Position(t, a) = i /\ Position(s, a) = m[i]
    BY <1>8
  <2>2. PICK j \in DOMAIN r : Position(t, b) = j /\ Position(s, b) = m[j]
    BY <1>8
  <2>3. i \in Nat /\ j \in Nat /\ m[i] \in Nat /\ m[j] \in Nat /\ m[i] < m[j]
    BY <1>2, <1>3, <1>10, <2>1, <2>2
  <2>4. ~(j < i) /\ i # j
    BY <1>2, <2>3
  <2> QED
    BY <2>1, <2>2, <2>3, <2>4
<1>11. \A a \in ToSet(s) \ {k} : Position(t, a) < Position(t, k)
  BY <1>3, <1>8, <1>9
<1> QED
  BY <1>3, <1>6, <1>7, <1>10, <1>11

\* Dropping a key from the queue leaves it in order.
LEMMA RetainOrdered ==
    ASSUME NEW T, NEW s \in Seq(T), IsInjective(s), NEW k, NEW r, OrderedAs(s, r)
    PROVE  OrderedAs(Retain(s, k), r)
<1> PICK q : q = Retain(s, k)
  OBVIOUS
<1>1. PICK m \in [DOMAIN q -> DOMAIN s] :
          /\ \A i \in DOMAIN q : q[i] = s[m[i]]
          /\ \A i, j \in DOMAIN q : i < j => m[i] < m[j]
  BY RetainKeeps
<1>2. \A i \in DOMAIN q : m[i] \in DOMAIN s
  BY <1>1
<1> QED
  BY <1>1, <1>2 DEF OrderedAs

\* Touching a key that the queue does not hold leaves the queue in order, and the key
\* may be put at its end.
LEMMA TouchOrdered ==
    ASSUME NEW T, NEW s \in Seq(T), NEW r \in Seq(T), IsInjective(r), NEW k \in T,
           k \notin ToSet(s), OrderedAs(s, r)
    PROVE  OrderedAs(s, Touch(r, k)) /\ OrderedAs(Append(s, k), Touch(r, k))
<1> PICK t, q : t = Touch(r, k) /\ q = Append(s, k)
  OBVIOUS
<1>1. /\ ToSet(t) = ToSet(r) \cup {k}
      /\ \A a, b \in ToSet(r) \ {k} : Position(r, a) < Position(r, b) => Position(t, a) < Position(t, b)
      /\ \A a \in ToSet(r) \ {k} : Position(t, a) < Position(t, k)
  BY TouchOrders
<1>2. \A i \in DOMAIN s : s[i] \in ToSet(r) \ {k}
  BY DEF OrderedAs, ToSet
<1>3. OrderedAs(s, t)
  BY <1>1, <1>2 DEF OrderedAs
<1>4. /\ DOMAIN s = 1 .. Len(s) /\ Len(s) \in Nat /\ DOMAIN q = 1 .. (Len(s) + 1)
      /\ q[Len(s) + 1] = k /\ \A i \in DOMAIN s : q[i] = s[i]
  OBVIOUS
<1>5. \A i \in DOMAIN q : i \in DOMAIN s \/ i = Len(s) + 1
  BY <1>4
<1>6. \A i \in DOMAIN q : q[i] \in ToSet(t)
  BY <1>1, <1>2, <1>4, <1>5
<1>7. ASSUME NEW i \in DOMAIN q, NEW j \in DOMAIN q, i < j
      PROVE  Position(t, q[i]) < Position(t, q[j])
  <2>1. i \in DOMAIN s
    BY <1>4, <1>7
  <2>2. CASE j \in DOMAIN s
    BY <1>3, <1>4, <1>7, <2>1, <2>2 DEF OrderedAs
  <2>3. CASE j = Len(s) + 1
    BY <1>1, <1>2, <1>4, <2>1, <2>3
  <2> QED
    BY <1>5, <2>2, <2>3
<1> QED
  BY <1>3, <1>6, <1>7 DEF OrderedAs

-----------------------------------------------------------------------------
(* The account of the bytes.                                               *)

\* A consistent cache holds finitely many entries.
LEMMA EntriesFinite ==
    ASSUME NEW c \in CacheStates, Consistent(c)
    PROVE  /\ IsFiniteSet(DOMAIN c.entries) /\ c.entries \in [DOMAIN c.entries -> Nat]
           /\ DOMAIN c.entries \subseteq Keys
<1>1. c.lru \in Seq(Keys) /\ ToSet(c.lru) = DOMAIN c.entries
  BY DEF CacheStates, Consistent
<1>2. PICK n \in Nat : n = Len(c.lru) /\ DOMAIN c.lru = 1 .. n
  BY <1>1
<1>3. c.lru \in Surjection(1 .. n, DOMAIN c.entries)
  BY <1>1, <1>2 DEF Surjection, ToSet
<1>4. IsFiniteSet(1 .. n)
  BY FS_Interval
<1>5. IsFiniteSet(DOMAIN c.entries)
  BY <1>3, <1>4, FS_Surjection
<1>6. c.entries \in UNION {[K -> Nat] : K \in SUBSET Keys}
  BY DEF CacheStates
<1> QED
  BY <1>5, <1>6

\* What an entry is charged goes when the entry goes, and comes with a new one.
LEMMA WithoutBytes ==
    ASSUME NEW D, IsFiniteSet(D), NEW f \in [D -> Nat], NEW k \in D
    PROVE  /\ TotalBytes(Without(f, k)) \in Nat
           /\ TotalBytes(f) = f[k] + TotalBytes(Without(f, k))
<1>1. Without(f, k) = [y \in D \ {k} |-> f[y]]
  BY DEF Without
<1>2. /\ SumFunction([y \in D \ {k} |-> f[y]]) \in Nat
      /\ SumFunction(f) = f[k] + SumFunction([y \in D \ {k} |-> f[y]])
  BY SumRemove
<1> QED
  BY <1>1, <1>2 DEF TotalBytes

LEMMA WithBytes ==
    ASSUME NEW D, IsFiniteSet(D), NEW f \in [D -> Nat], NEW k, k \notin D, NEW n \in Nat
    PROVE  /\ TotalBytes(With(f, k, n)) = n + TotalBytes(f)
           /\ TotalBytes(f) \in Nat
<1> PICK w : w = With(f, k, n)
  OBVIOUS
<1>1. w \in [D \cup {k} -> Nat] /\ w[k] = n /\ IsFiniteSet(D \cup {k})
  BY FS_AddElement DEF With
<1>2. Without(w, k) = f
  <2>1. Without(w, k) = [x \in D |-> w[x]]
    BY <1>1 DEF Without
  <2>2. \A x \in D : w[x] = f[x]
    BY DEF With
  <2> QED
    BY <2>1, <2>2
<1> QED
  BY <1>1, <1>2, WithoutBytes

-----------------------------------------------------------------------------
(* The loop of insert.                                                     *)

\* One round keeps the types, as long as there is something to pop.
LEMMA EvictStepType ==
    ASSUME NEW d \in CacheStates, d.lru # <<>>, NEW oldest, NEW bytes \in Nat
    PROVE  /\ EvictStep(d, oldest, bytes) \in CacheStates
           /\ Len(EvictStep(d, oldest, bytes).lru) >= Len(d.lru) - 1
<1>1. /\ d.lru \in Seq(Keys) /\ Tail(d.lru) \in Seq(Keys) /\ Len(Tail(d.lru)) = Len(d.lru) - 1
      /\ d.retained \in Nat /\ Len(d.lru) \in Nat
  BY DEF CacheStates
<1>2. PICK K \in SUBSET Keys : d.entries \in [K -> Nat]
  BY DEF CacheStates
<1>3. K \ {oldest} \in SUBSET Keys /\ Without(d.entries, oldest) \in [K \ {oldest} -> Nat]
  BY <1>2 DEF Without
<1>4. Without(d.entries, oldest) \in UNION {[L -> Nat] : L \in SUBSET Keys}
  BY <1>3
<1>5. oldest \in DOMAIN d.entries => Monus(d.retained, d.entries[oldest]) \in Nat
  BY <1>1, <1>2 DEF Monus
<1> QED
  BY <1>1, <1>4, <1>5 DEF EvictStep, CacheStates

\* The loop computes what its rounds do one after the other.
LEMMA EvictForRuns ==
    ASSUME NEW c \in CacheStates, NEW bytes \in Nat
    PROVE  \E h : /\ h[0] = c /\ EvictFor(c, bytes) = h[Len(c.lru)]
                  /\ \A n \in Nat : n + 1 <= Len(c.lru) =>
                         h[n + 1] = EvictStep(h[n], c.lru[n + 1], bytes)
<1> DEFINE g == [p \in Nat \X CacheStates |->
                    IF p[2].lru # <<>> THEN EvictStep(p[2], c.lru[p[1] + 1], bytes) ELSE p[2]]
           Evicted(f) == f = [n \in 0 .. Len(c.lru) |->
                                 IF n = 0 THEN c ELSE EvictStep(f[n - 1], c.lru[n], bytes)]
<1>1. g \in [Nat \X CacheStates -> CacheStates]
  BY EvictStepType
<1>2. Len(c.lru) \in Nat
  BY DEF CacheStates
<1>3. PICK f : NatRun(f, CacheStates, c, g)
  <2> HIDE DEF g
  <2> QED
    BY <1>1, NatRecursion
<1>4. /\ f \in [Nat -> CacheStates] /\ f[0] = c
      /\ \A n \in Nat : f[n + 1] = IF f[n].lru # <<>> THEN EvictStep(f[n], c.lru[n + 1], bytes)
                                   ELSE f[n]
  BY <1>3 DEF NatRun
<1> HIDE DEF g
<1>5. ASSUME NEW n \in Nat PROVE f[n] \in CacheStates /\ Len(f[n].lru) \in Nat
  <2>1. f[n] \in CacheStates
    BY <1>4
  <2>2. f[n].lru \in Seq(Keys)
    BY <2>1 DEF CacheStates
  <2> QED
    BY <2>1, <2>2
<1> DEFINE Q == {n \in Nat : n <= Len(c.lru) => Len(f[n].lru) >= Len(c.lru) - n}
<1>6. 0 \in Q
  BY <1>2, <1>4
<1>7. ASSUME NEW n \in Nat, n \in Q PROVE n + 1 \in Q
  <2> SUFFICES ASSUME n + 1 <= Len(c.lru) PROVE Len(f[n + 1].lru) >= Len(c.lru) - (n + 1)
    OBVIOUS
  <2>1. Len(f[n].lru) >= Len(c.lru) - n /\ Len(f[n].lru) \in Nat
    BY <1>2, <1>5, <1>7
  <2>2. Len(f[n].lru) # 0
    BY <1>2, <2>1
  <2>3. f[n].lru # <<>>
    BY <2>2
  <2>4. Len(f[n + 1].lru) >= Len(f[n].lru) - 1
    <3>1. f[n] \in CacheStates /\ f[n + 1] = EvictStep(f[n], c.lru[n + 1], bytes)
      BY <1>4, <1>5, <2>3
    <3> QED
      BY <2>3, <3>1, EvictStepType
  <2> QED
    BY <1>2, <1>5, <2>1, <2>4
<1> HIDE DEF Q
<1>8. Nat \subseteq Q
  BY <1>6, <1>7, NatSetInduction
<1>9. ASSUME NEW n \in Nat, n + 1 <= Len(c.lru)
      PROVE  f[n + 1] = EvictStep(f[n], c.lru[n + 1], bytes)
  <2>1. Len(f[n].lru) >= Len(c.lru) - n /\ Len(f[n].lru) \in Nat
    BY <1>2, <1>5, <1>8, <1>9 DEF Q
  <2>2. Len(f[n].lru) # 0
    BY <1>2, <1>9, <2>1
  <2>3. f[n].lru # <<>>
    BY <2>2
  <2> QED
    BY <1>4, <2>3
<1>10. Evicted([n \in 0 .. Len(c.lru) |-> f[n]])
  <2> DEFINE h == [n \in 0 .. Len(c.lru) |-> f[n]]
  <2> SUFFICES ASSUME NEW n \in 0 .. Len(c.lru), n # 0
               PROVE  h[n] = EvictStep(h[n - 1], c.lru[n], bytes)
    BY <1>2, <1>4
  <2>1. n - 1 \in Nat /\ n - 1 \in 0 .. Len(c.lru) /\ (n - 1) + 1 = n /\ n <= Len(c.lru)
    BY <1>2
  <2>2. f[n] = EvictStep(f[n - 1], c.lru[n], bytes)
    BY <1>9, <2>1
  <2> QED
    BY <2>1, <2>2
<1>11. PICK h : Evicted(h) /\ EvictFor(c, bytes) = h[Len(c.lru)]
  BY <1>10 DEF EvictFor
<1>12. h[0] = c
  BY <1>2, <1>11
<1>13. ASSUME NEW n \in Nat, n + 1 <= Len(c.lru)
       PROVE  h[n + 1] = EvictStep(h[n], c.lru[n + 1], bytes)
  <2>1. n + 1 \in 0 .. Len(c.lru) /\ n + 1 # 0 /\ (n + 1) - 1 = n
    BY <1>2, <1>13
  <2> QED
    BY <1>11, <2>1
<1> QED
  BY <1>11, <1>12, <1>13

\* d is c after the n keys at the front have been evicted, which was done only if c had
\* no room.
Popped(d, c, n, bytes) ==
    /\ d \in CacheStates /\ Consistent(d)
    /\ n <= Len(c.lru) /\ Len(d.lru) = Len(c.lru) - n
    /\ \A i \in DOMAIN d.lru : d.lru[i] = c.lru[i + n]
    /\ n > 0 => c.retained + bytes > Limit

LEMMA PopOne ==
    ASSUME NEW c \in CacheStates, NEW d, NEW n \in Nat, NEW bytes \in Nat, n < Len(c.lru),
           Popped(d, c, n, bytes), d.retained + bytes > Limit, c.retained + bytes > Limit
    PROVE  Popped(EvictStep(d, c.lru[n + 1], bytes), c, n + 1, bytes)
<1> PICK o, e : o = c.lru[n + 1] /\ e = EvictStep(d, c.lru[n + 1], bytes)
  OBVIOUS
<1> DEFINE q == Tail(d.lru)
<1>1. /\ d \in CacheStates /\ Consistent(d) /\ c.lru \in Seq(Keys) /\ d.lru \in Seq(Keys)
      /\ Len(c.lru) \in Nat /\ Len(d.lru) \in Nat /\ Len(d.lru) = Len(c.lru) - n
      /\ DOMAIN d.lru = 1 .. Len(d.lru) /\ d.retained \in Nat
      /\ \A i \in DOMAIN d.lru : d.lru[i] = c.lru[i + n]
  BY DEF Popped, CacheStates
<1>2. Len(d.lru) >= 1 /\ 1 \in DOMAIN d.lru /\ 1 + n = n + 1
  BY <1>1
<1>3. d.lru # <<>> /\ d.lru[1] = o
  BY <1>1, <1>2
<1>4. e \in CacheStates
  BY <1>1, <1>3, EvictStepType
<1>5. o \in DOMAIN d.entries
  BY <1>1, <1>2, <1>3 DEF Consistent, ToSet
<1>6. /\ e.entries = Without(d.entries, o) /\ e.lru = q
      /\ e.retained = Monus(d.retained, d.entries[o])
  <2>1. ~(d.retained + bytes <= Limit)
    BY <1>1, CacheAssumption
  <2> QED
    BY <1>5, <2>1 DEF EvictStep
<1>7. /\ DOMAIN q = 1 .. (Len(d.lru) - 1) /\ Len(q) = Len(d.lru) - 1
      /\ \A i \in DOMAIN q : q[i] = d.lru[i + 1]
  <2>1. PICK s \in Seq(Keys) : s = d.lru
    BY <1>1
  <2>2. s # <<>>
    BY <1>3, <2>1
  <2>3. Tail(s) \in Seq(Keys) /\ Len(Tail(s)) = Len(s) - 1
        /\ \A i \in 1 .. Len(s) - 1 : Tail(s)[i] = s[i + 1]
    BY <2>2
  <2>4. DOMAIN Tail(s) = 1 .. Len(s) - 1
    BY <2>3
  <2> QED
    BY <2>1, <2>3, <2>4
<1>8. \A i \in DOMAIN q : i + 1 \in DOMAIN d.lru /\ i + 1 # 1 /\ (i + 1) + n = i + (n + 1)
  <2> PICK l \in Nat : l = Len(d.lru)
    BY <1>1
  <2>1. \A i \in 1 .. (l - 1) : i + 1 \in 1 .. l /\ i + 1 # 1 /\ (i + 1) + n = i + (n + 1)
    OBVIOUS
  <2> HIDE DEF q
  <2> QED
    BY <1>1, <1>7, <2>1
<1>9. \A j \in DOMAIN d.lru : j = 1 \/ (j - 1 \in DOMAIN q /\ (j - 1) + 1 = j)
  BY <1>1, <1>7
<1> HIDE DEF q
<1>10. ToSet(q) = ToSet(d.lru) \ {o} /\ IsInjective(q)
  <2>0. \A i, j \in DOMAIN d.lru : d.lru[i] = d.lru[j] => i = j
    BY <1>1 DEF Consistent, IsInjective
  <2>1. \A i \in DOMAIN q : q[i] # o
    BY <1>2, <1>3, <1>7, <1>8, <2>0
  <2>2. ToSet(q) = ToSet(d.lru) \ {o}
    <3>1. \A i \in DOMAIN q : q[i] \in ToSet(d.lru) \ {o}
      BY <1>7, <1>8, <2>1 DEF ToSet
    <3>2. ASSUME NEW j \in DOMAIN d.lru, d.lru[j] # o PROVE d.lru[j] \in ToSet(q)
      <4>1. j - 1 \in DOMAIN q /\ (j - 1) + 1 = j
        BY <1>3, <1>9, <3>2
      <4>2. d.lru[j] = q[j - 1]
        BY <1>7, <4>1
      <4> QED
        BY <4>1, <4>2 DEF ToSet
    <3> QED
      BY <3>1, <3>2 DEF ToSet
  <2>3. ASSUME NEW i \in DOMAIN q, NEW j \in DOMAIN q, q[i] = q[j] PROVE i = j
    <3>1. i + 1 = j + 1
      BY <1>7, <1>8, <2>0, <2>3
    <3>2. i \in Nat /\ j \in Nat
      BY <1>1, <1>7
    <3> QED
      BY <3>1, <3>2
  <2> QED
    BY <2>2, <2>3 DEF IsInjective
<1>11. /\ DOMAIN e.entries = DOMAIN d.entries \ {o}
       /\ \A x \in DOMAIN e.entries : e.entries[x] = d.entries[x]
  BY <1>6 DEF Without
<1>12. e.retained = TotalBytes(e.entries)
  <2>1. IsFiniteSet(DOMAIN d.entries) /\ d.entries \in [DOMAIN d.entries -> Nat]
    BY <1>1, EntriesFinite
  <2>2. /\ TotalBytes(e.entries) \in Nat /\ d.entries[o] \in Nat
        /\ d.retained = d.entries[o] + TotalBytes(e.entries)
    <3>1. d.retained = TotalBytes(d.entries) /\ d.entries[o] \in Nat
      BY <1>1, <1>5, <2>1 DEF Consistent
    <3>2. /\ TotalBytes(Without(d.entries, o)) \in Nat
          /\ TotalBytes(d.entries) = d.entries[o] + TotalBytes(Without(d.entries, o))
      BY <1>5, <2>1, WithoutBytes
    <3> QED
      BY <1>6, <3>1, <3>2
  <2> QED
    BY <1>6, <2>2 DEF Monus
<1>13. Consistent(e)
  BY <1>1, <1>6, <1>10, <1>11, <1>12 DEF Consistent
<1>14. /\ n + 1 <= Len(c.lru) /\ Len(e.lru) = Len(c.lru) - (n + 1)
       /\ \A i \in DOMAIN e.lru : e.lru[i] = c.lru[i + (n + 1)]
  <2>1. n + 1 <= Len(c.lru) /\ Len(q) = Len(c.lru) - (n + 1)
    BY <1>1, <1>7
  <2>2. \A i \in DOMAIN q : q[i] = c.lru[i + (n + 1)]
    BY <1>1, <1>7, <1>8
  <2> QED
    BY <1>6, <2>1, <2>2
<1> QED
  BY <1>4, <1>13, <1>14 DEF Popped

\* The loop makes room for the new entry by dropping the keys at the front, and none if
\* there is room.
LEMMA EvictForPops ==
    ASSUME NEW c \in CacheStates, Consistent(c), NEW bytes \in Nat, bytes <= Limit
    PROVE  \E n \in Nat : /\ Popped(EvictFor(c, bytes), c, n, bytes)
                          /\ EvictFor(c, bytes).retained + bytes <= Limit
<1>1. Len(c.lru) \in Nat /\ c.retained \in Nat /\ Limit \in Nat
  BY CacheAssumption DEF CacheStates
<1>2. PICK h : /\ h[0] = c /\ EvictFor(c, bytes) = h[Len(c.lru)]
               /\ \A n \in Nat : n + 1 <= Len(c.lru) =>
                      h[n + 1] = EvictStep(h[n], c.lru[n + 1], bytes)
  BY EvictForRuns
<1> DEFINE Fits(d) == d.retained + bytes <= Limit
           Q == {m \in Nat : m <= Len(c.lru) =>
                    \E n \in Nat : Popped(h[m], c, n, bytes) /\ (Fits(h[m]) \/ n = m)}
<1>3. 0 \in Q
  <2>1. Popped(c, c, 0, bytes)
    <3>1. DOMAIN c.lru = 1 .. Len(c.lru)
      BY DEF CacheStates
    <3> QED
      BY <1>1, <3>1 DEF Popped
  <2> QED
    BY <1>2, <2>1
<1>4. ASSUME NEW m \in Nat, m \in Q PROVE m + 1 \in Q
  <2> SUFFICES ASSUME m + 1 <= Len(c.lru)
               PROVE  \E n \in Nat : Popped(h[m + 1], c, n, bytes) /\ (Fits(h[m + 1]) \/ n = m + 1)
    OBVIOUS
  <2>1. PICK n \in Nat : Popped(h[m], c, n, bytes) /\ (Fits(h[m]) \/ n = m)
    BY <1>1, <1>4
  <2>2. h[m + 1] = EvictStep(h[m], c.lru[m + 1], bytes)
    BY <1>2
  <2>3. CASE Fits(h[m])
    <3>1. h[m + 1] = h[m]
      BY <2>2, <2>3 DEF EvictStep
    <3> QED
      BY <2>1, <2>3, <3>1
  <2>4. CASE ~Fits(h[m])
    <3>1. n = m /\ h[m].retained \in Nat /\ m < Len(c.lru)
      BY <1>1, <2>1, <2>4 DEF Popped, CacheStates
    <3>2. h[m].retained + bytes > Limit
      BY <1>1, <2>4, <3>1
    <3>3. c.retained + bytes > Limit
      BY <1>2, <2>1, <3>1, <3>2 DEF Popped
    <3>4. Popped(h[m + 1], c, m + 1, bytes)
      BY <2>1, <2>2, <3>1, <3>2, <3>3, PopOne
    <3> QED
      BY <3>4
  <2> QED
    BY <2>3, <2>4
<1> HIDE DEF Q
<1>5. Len(c.lru) \in Q
  BY <1>1, <1>3, <1>4, NatSetInduction
<1> PICK d : d = EvictFor(c, bytes)
  OBVIOUS
<1>6. PICK n \in Nat : Popped(d, c, n, bytes) /\ (Fits(d) \/ n = Len(c.lru))
  BY <1>1, <1>2, <1>5 DEF Q
<1>7. CASE n = Len(c.lru)
  <2>1. d \in CacheStates /\ Consistent(d) /\ Len(d.lru) = 0 /\ d.lru \in Seq(Keys)
    BY <1>1, <1>6, <1>7 DEF Popped, CacheStates
  <2>2. DOMAIN d.entries = {}
    BY <2>1 DEF Consistent, ToSet
  <2>3. d.entries \in [DOMAIN d.entries -> Nat]
    BY <2>1, EntriesFinite
  <2>4. d.retained = 0
    BY <2>1, <2>2, <2>3, SumEmpty DEF Consistent, TotalBytes
  <2> QED
    BY <1>1, <1>6, <2>4
<1> QED
  BY <1>6, <1>7

-----------------------------------------------------------------------------
(* get and insert.                                                         *)

\* What a cache with the same entries and a queue of the same keys is.
LEMMA GetKeeps ==
    ASSUME NEW c \in CacheStates, Consistent(c), NEW k \in DOMAIN c.entries,
           NEW r \in Seq(Keys), IsInjective(r), OrderedAs(c.lru, r)
    PROVE  /\ Get(c, k) \in CacheStates /\ Consistent(Get(c, k))
           /\ Get(c, k).entries = c.entries /\ Get(c, k).retained = c.retained
           /\ OrderedAs(Get(c, k).lru, Touch(r, k))
<1>0. k \in Keys
  BY EntriesFinite
<1> PICK e, q, t : e = Get(c, k) /\ q = Retain(c.lru, k) /\ t = Touch(c.lru, k)
  OBVIOUS
<1>1. c.lru \in Seq(Keys) /\ IsInjective(c.lru) /\ ToSet(c.lru) = DOMAIN c.entries
  BY DEF CacheStates, Consistent
<1>2. e = [c EXCEPT !.lru = t] /\ t = Append(q, k)
  BY DEF Get, Touch
<1>3. e.entries = c.entries /\ e.retained = c.retained /\ e.lru = t
  BY <1>2 DEF CacheStates
<1>4. t \in Seq(Keys) /\ IsInjective(t) /\ ToSet(t) = DOMAIN c.entries
  <2>1. t \in Seq(Keys) /\ IsInjective(t) /\ ToSet(t) = ToSet(c.lru) \cup {k}
    BY <1>0, <1>1, TouchOrders
  <2> QED
    BY <1>1, <2>1
<1>5. e \in CacheStates /\ Consistent(e)
  BY <1>2, <1>3, <1>4 DEF CacheStates, Consistent
<1>6. q \in Seq(Keys) /\ k \notin ToSet(q) /\ OrderedAs(q, r)
  BY <1>1, RetainKeeps, RetainOrdered
<1>7. OrderedAs(t, Touch(r, k))
  BY <1>0, <1>2, <1>6, TouchOrdered
<1> QED
  BY <1>3, <1>5, <1>7

LEMMA DropReplacedKeeps ==
    ASSUME NEW c \in CacheStates, Consistent(c), NEW k \in Keys
    PROVE  /\ DropReplaced(c, k) \in CacheStates /\ Consistent(DropReplaced(c, k))
           /\ DOMAIN DropReplaced(c, k).entries = DOMAIN c.entries \ {k}
           /\ k \in DOMAIN c.entries => /\ DropReplaced(c, k).lru = Retain(c.lru, k)
                                        /\ DropReplaced(c, k).retained + Size[k] = c.retained
           /\ k \notin DOMAIN c.entries => DropReplaced(c, k) = c
<1>1. CASE k \notin DOMAIN c.entries
  <2>1. DropReplaced(c, k) = c
    BY <1>1 DEF DropReplaced
  <2> QED
    BY <1>1, <2>1
<1>2. CASE k \in DOMAIN c.entries
  <2> PICK d : d = DropReplaced(c, k)
    OBVIOUS
  <2>1. /\ c.lru \in Seq(Keys) /\ c.retained \in Nat /\ IsInjective(c.lru)
        /\ ToSet(c.lru) = DOMAIN c.entries /\ c.retained = TotalBytes(c.entries)
        /\ \A x \in DOMAIN c.entries : c.entries[x] = Size[x]
    BY DEF CacheStates, Consistent
  <2>2. /\ d = [entries |-> Without(c.entries, k), lru |-> Retain(c.lru, k),
                retained |-> Monus(c.retained, c.entries[k])]
    BY <1>2 DEF DropReplaced
  <2>3. /\ d.entries = Without(c.entries, k) /\ d.lru = Retain(c.lru, k)
        /\ d.retained = Monus(c.retained, c.entries[k])
    BY <2>2
  <2>4. /\ IsFiniteSet(DOMAIN c.entries) /\ c.entries \in [DOMAIN c.entries -> Nat]
        /\ DOMAIN c.entries \subseteq Keys
    BY EntriesFinite
  <2>5. /\ DOMAIN d.entries = DOMAIN c.entries \ {k}
        /\ d.entries \in [DOMAIN c.entries \ {k} -> Nat]
        /\ \A x \in DOMAIN d.entries : d.entries[x] = Size[x]
    BY <2>1, <2>3, <2>4 DEF Without
  <2>6. TotalBytes(d.entries) \in Nat /\ TotalBytes(c.entries) = c.entries[k] + TotalBytes(d.entries)
    BY <1>2, <2>3, <2>4, WithoutBytes
  <2>7. d.retained = TotalBytes(d.entries) /\ d.retained + Size[k] = c.retained /\ d.retained \in Nat
    <3>1. c.entries[k] \in Nat /\ c.entries[k] = Size[k]
      BY <1>2, <2>1, <2>4
    <3> QED
      BY <2>1, <2>3, <2>6, <3>1 DEF Monus
  <2>8. d.lru \in Seq(Keys) /\ IsInjective(d.lru) /\ ToSet(d.lru) = DOMAIN d.entries
    BY <2>1, <2>3, <2>5, RetainKeeps
  <2>9. d.entries \in UNION {[K -> Nat] : K \in SUBSET Keys}
    BY <2>4, <2>5
  <2>10. d \in CacheStates
    BY <2>2, <2>3, <2>7, <2>8, <2>9 DEF CacheStates
  <2>11. Consistent(d)
    BY <2>5, <2>7, <2>8 DEF Consistent
  <2> QED
    BY <1>2, <2>3, <2>5, <2>7, <2>10, <2>11
<1> QED
  BY <1>1, <1>2

\* What an insert evicts was used less recently than what it leaves.
EvictsInOrder(c, e, r) ==
    \A k \in DOMAIN c.entries \ DOMAIN e.entries :
        \A other \in DOMAIN c.entries \cap DOMAIN e.entries : Position(r, k) < Position(r, other)

\* A key that is cached fits.
LEMMA CachedFits ==
    ASSUME NEW c \in CacheStates, Consistent(c), c.retained <= Limit, NEW k \in DOMAIN c.entries
    PROVE  Size[k] <= Limit /\ Limit # 0
<1>1. /\ IsFiniteSet(DOMAIN c.entries) /\ c.entries \in [DOMAIN c.entries -> Nat] /\ k \in Keys
  BY EntriesFinite
<1>2. /\ TotalBytes(Without(c.entries, k)) \in Nat
      /\ TotalBytes(c.entries) = c.entries[k] + TotalBytes(Without(c.entries, k))
  BY <1>1, WithoutBytes
<1>3. c.entries[k] = Size[k] /\ c.retained = TotalBytes(c.entries)
  BY DEF Consistent
<1>4. Size[k] \in Nat /\ Size[k] # 0 /\ Limit \in Nat
  BY <1>1, CacheAssumption
<1> QED
  BY <1>2, <1>3, <1>4

LEMMA InsertKeeps ==
    ASSUME NEW c \in CacheStates, Consistent(c), c.retained <= Limit, NEW k \in Keys,
           NEW r \in Seq(Keys), IsInjective(r), OrderedAs(c.lru, r)
    PROVE  /\ Insert(c, k) \in CacheStates /\ Consistent(Insert(c, k))
           /\ Insert(c, k).retained <= Limit
           /\ OrderedAs(Insert(c, k).lru, Touch(r, k))
           /\ EvictsInOrder(c, Insert(c, k), r)
<1>0. /\ c.lru \in Seq(Keys) /\ IsInjective(c.lru) /\ ToSet(c.lru) = DOMAIN c.entries
      /\ Size[k] \in Nat /\ Limit \in Nat /\ c.retained \in Nat
  BY CacheAssumption DEF CacheStates, Consistent
<1>1. CASE Limit = 0 \/ Size[k] > Limit
  <2>1. Insert(c, k) = c
    BY <1>1 DEF Insert
  <2>2. k \notin DOMAIN c.entries
    BY <1>0, <1>1, CachedFits
  <2>3. OrderedAs(c.lru, Touch(r, k))
    BY <1>0, <2>2, TouchOrdered
  <2> QED
    BY <2>1, <2>3 DEF EvictsInOrder
<1>2. CASE ~(Limit = 0 \/ Size[k] > Limit)
  <2> PICK d, room, e : d = DropReplaced(c, k) /\ room = EvictFor(d, Size[k]) /\ e = Insert(c, k)
    OBVIOUS
  <2>1. e = [entries |-> With(room.entries, k, Size[k]), lru |-> Append(room.lru, k),
             retained |-> room.retained + Size[k]]
    BY <1>2 DEF Insert
  <2>2. /\ e.entries = With(room.entries, k, Size[k]) /\ e.lru = Append(room.lru, k)
        /\ e.retained = room.retained + Size[k]
    BY <2>1
  <2>3. /\ d \in CacheStates /\ Consistent(d) /\ DOMAIN d.entries = DOMAIN c.entries \ {k}
        /\ k \in DOMAIN c.entries => d.lru = Retain(c.lru, k) /\ d.retained + Size[k] = c.retained
        /\ k \notin DOMAIN c.entries => d = c
    BY DropReplacedKeeps
  <2>4. PICK n \in Nat : Popped(room, d, n, Size[k]) /\ room.retained + Size[k] <= Limit
    <3>1. Size[k] <= Limit
      BY <1>0, <1>2
    <3> QED
      BY <1>0, <2>3, <3>1, EvictForPops
  <2>5. /\ room \in CacheStates /\ Consistent(room) /\ room.lru \in Seq(Keys) /\ d.lru \in Seq(Keys)
        /\ n <= Len(d.lru) /\ Len(room.lru) = Len(d.lru) - n
        /\ \A i \in DOMAIN room.lru : room.lru[i] = d.lru[i + n]
        /\ n > 0 => d.retained + Size[k] > Limit
    BY <2>3, <2>4 DEF Popped, CacheStates
  <2>6. /\ DOMAIN room.lru = 1 .. (Len(d.lru) - n) /\ DOMAIN d.lru = 1 .. Len(d.lru)
        /\ Len(d.lru) \in Nat /\ Len(room.lru) \in Nat
    BY <2>5
  <2>7. \A i \in DOMAIN room.lru : i + n \in DOMAIN d.lru /\ i \in Nat
    BY <2>5, <2>6
  <2>8. OrderedAs(d.lru, r)
    BY <1>0, <2>3, RetainOrdered
  <2>9. OrderedAs(room.lru, r)
    <3>1. \A i, j \in DOMAIN room.lru : i < j => i + n < j + n
      BY <2>7
    <3> QED
      BY <2>5, <2>7, <2>8, <3>1 DEF OrderedAs
  <2>10. /\ ToSet(room.lru) \subseteq ToSet(d.lru)
         /\ ToSet(room.lru) = DOMAIN room.entries /\ ToSet(d.lru) = DOMAIN d.entries
         /\ IsInjective(room.lru)
    BY <2>3, <2>5, <2>7 DEF Consistent, ToSet
  <2>11. k \notin ToSet(room.lru)
    BY <2>3, <2>10
  <2>12. OrderedAs(e.lru, Touch(r, k))
    BY <2>2, <2>5, <2>9, <2>11, TouchOrdered
  <2>13. e \in CacheStates /\ Consistent(e)
    <3>1. /\ IsFiniteSet(DOMAIN room.entries) /\ room.entries \in [DOMAIN room.entries -> Nat]
          /\ DOMAIN room.entries \subseteq Keys /\ room.retained \in Nat
          /\ room.retained = TotalBytes(room.entries)
          /\ \A x \in DOMAIN room.entries : room.entries[x] = Size[x]
      BY <2>5, EntriesFinite DEF CacheStates, Consistent
    <3>2. /\ DOMAIN e.entries = DOMAIN room.entries \cup {k}
          /\ e.entries \in [DOMAIN room.entries \cup {k} -> Nat]
          /\ \A x \in DOMAIN e.entries : e.entries[x] = Size[x]
      BY <1>0, <2>2, <3>1 DEF With
    <3>3. e.entries \in UNION {[K -> Nat] : K \in SUBSET Keys}
      BY <3>1, <3>2
    <3>4. e.retained = TotalBytes(e.entries) /\ e.retained \in Nat
      <4>1. TotalBytes(e.entries) = Size[k] + TotalBytes(room.entries) /\ TotalBytes(room.entries) \in Nat
        <5>1. k \notin DOMAIN room.entries
          BY <2>10, <2>11
        <5> QED
          BY <1>0, <2>2, <3>1, <5>1, WithBytes
      <4> QED
        BY <1>0, <2>2, <3>1, <4>1
    <3>5. /\ e.lru \in Seq(Keys) /\ DOMAIN e.lru = 1 .. (Len(room.lru) + 1)
          /\ e.lru[Len(room.lru) + 1] = k /\ \A i \in DOMAIN room.lru : e.lru[i] = room.lru[i]
          /\ DOMAIN room.lru = 1 .. Len(room.lru)
      BY <2>2, <2>5
    <3>6. /\ \A i \in DOMAIN e.lru : i \in DOMAIN room.lru \/ i = Len(room.lru) + 1
          /\ Len(room.lru) + 1 \in DOMAIN e.lru /\ DOMAIN room.lru \subseteq DOMAIN e.lru
      BY <2>6, <3>5
    <3>7. ToSet(e.lru) = ToSet(room.lru) \cup {k}
      BY <3>5, <3>6 DEF ToSet
    <3>8. IsInjective(e.lru)
      BY <2>10, <2>11, <3>5, <3>6 DEF IsInjective, ToSet
    <3>9. e \in CacheStates
      BY <2>1, <2>2, <3>3, <3>4, <3>5 DEF CacheStates
    <3> QED
      BY <2>10, <3>2, <3>4, <3>7, <3>8, <3>9 DEF Consistent
  <2>14. DOMAIN e.entries = DOMAIN room.entries \cup {k}
    BY <2>2 DEF With
  <2>15. ASSUME NEW x \in DOMAIN c.entries \ DOMAIN e.entries,
                NEW o \in DOMAIN c.entries \cap DOMAIN e.entries
         PROVE  Position(r, x) < Position(r, o)
    <3>1. x # k /\ x \in ToSet(d.lru) /\ x \notin ToSet(room.lru)
      BY <2>3, <2>10, <2>14, <2>15
    <3>2. PICK i \in DOMAIN d.lru : x = d.lru[i]
      BY <3>1 DEF ToSet
    <3>3. i <= n /\ i \in Nat
      <4>1. i \in Nat /\ (i > n => i - n \in DOMAIN room.lru /\ (i - n) + n = i)
        BY <2>6, <3>2
      <4>2. i > n => room.lru[i - n] = x
        BY <2>5, <3>2, <4>1
      <4> QED
        BY <3>1, <4>1, <4>2 DEF ToSet
    <3>4. n > 0
      BY <2>6, <3>2, <3>3
    <3>5. k \notin DOMAIN c.entries /\ d = c
      BY <1>0, <2>3, <2>5, <3>4
    <3>6. PICK j \in DOMAIN room.lru : o = room.lru[j]
      BY <2>10, <2>14, <3>5 DEF ToSet
    <3>7. o = d.lru[j + n] /\ j + n \in DOMAIN d.lru /\ i < j + n
      BY <2>5, <2>6, <2>7, <3>3, <3>6
    <3> QED
      BY <2>8, <3>2, <3>7 DEF OrderedAs
  <2> QED
    BY <2>2, <2>4, <2>12, <2>13, <2>15 DEF EvictsInOrder
<1> QED
  BY <1>1, <1>2

-----------------------------------------------------------------------------
(* The inductive invariant and what it gives.                              *)

LEMMA CacheInitInv == CacheInit => CacheInv
<1> SUFFICES ASSUME CacheInit PROVE CacheInv
  OBVIOUS
<1>1. cache = [entries |-> <<>>, lru |-> <<>>, retained |-> 0] /\ recent = <<>>
  BY DEF CacheInit, CacheFrom
<1>2. <<>> \in [{} -> Nat] /\ {} \in SUBSET Keys /\ <<>> \in Seq(Keys) /\ DOMAIN <<>> = {}
  OBVIOUS
<1>3. CacheTypeOK
  <2>1. <<>> \in UNION {[K -> Nat] : K \in SUBSET Keys}
    BY <1>2
  <2>2. cache \in CacheStates
    BY <1>1, <1>2, <2>1 DEF CacheStates
  <2> QED
    BY <1>1, <1>2, <2>2 DEF CacheTypeOK, CacheInit, CacheFrom
<1>4. TotalBytes(<<>>) = 0
  BY <1>2, SumEmpty DEF TotalBytes
<1>5. cache.entries = <<>> /\ cache.lru = <<>> /\ cache.retained = 0
  BY <1>1
<1>6. Consistent(cache)
  BY <1>2, <1>4, <1>5 DEF Consistent, ToSet, IsInjective
<1>7. cache.retained <= Limit
  BY <1>5, CacheAssumption
<1>8. IsInjective(recent) /\ OrderedAs(cache.lru, recent)
  BY <1>1, <1>2, <1>5 DEF IsInjective, OrderedAs
<1> QED
  BY <1>3, <1>6, <1>7, <1>8 DEF CacheInv

\* A step keeps the invariant and evicts in the order of use.
LEMMA CacheStep ==
    ASSUME CacheInv, [CacheNext]_cacheVars
    PROVE  CacheInv' /\ EvictsInOrder(cache, cache', recent)
<1>0. /\ cache \in CacheStates /\ Consistent(cache) /\ cache.retained <= Limit
      /\ pc \in [Threads -> {"idle", "compute"}] /\ key \in [Threads -> Keys]
      /\ recent \in Seq(Keys) /\ IsInjective(recent) /\ OrderedAs(cache.lru, recent)
  BY DEF CacheInv, CacheTypeOK
\* Steps that change neither the cache nor the history.
<1>1. ASSUME UNCHANGED <<cache, recent>>, pc' \in [Threads -> {"idle", "compute"}],
             key' \in [Threads -> Keys]
      PROVE  CacheInv' /\ EvictsInOrder(cache, cache', recent)
  <2>1. CacheInv'
    BY <1>0, <1>1 DEF CacheInv, CacheTypeOK, Consistent, OrderedAs
  <2>2. EvictsInOrder(cache, cache', recent)
    BY <1>1 DEF EvictsInOrder
  <2> QED
    BY <2>1, <2>2
\* Steps that use a key.
<1>2. ASSUME NEW k \in Keys, recent' = Touch(recent, k), cache' \in CacheStates, Consistent(cache'),
             cache'.retained <= Limit, OrderedAs(cache'.lru, Touch(recent, k)),
             pc' \in [Threads -> {"idle", "compute"}], key' \in [Threads -> Keys]
      PROVE  CacheInv'
  <2>1. recent' \in Seq(Keys) /\ IsInjective(recent')
    BY <1>0, <1>2, TouchOrders
  <2>2. Consistent(cache)' /\ OrderedAs(cache.lru, recent)'
    BY <1>2 DEF Consistent, OrderedAs
  <2> QED
    BY <1>2, <2>1, <2>2 DEF CacheInv, CacheTypeOK
<1>3. CASE UNCHANGED cacheVars
  BY <1>0, <1>1, <1>3 DEF cacheVars
<1>4. ASSUME NEW t \in Threads, Lookup(t) PROVE CacheInv' /\ EvictsInOrder(cache, cache', recent)
  <2>1. PICK k \in Keys : /\ key' = [key EXCEPT ![t] = k] /\ cache' = Get(cache, k)
                          /\ IF k \in DOMAIN cache.entries
                             THEN recent' = Touch(recent, k) /\ UNCHANGED pc
                             ELSE pc' = [pc EXCEPT ![t] = "compute"] /\ UNCHANGED recent
    BY <1>4 DEF Lookup
  <2>2. key' \in [Threads -> Keys] /\ pc' \in [Threads -> {"idle", "compute"}]
    BY <1>0, <2>1
  <2>3. CASE k \in DOMAIN cache.entries
    <3>1. /\ cache' \in CacheStates /\ Consistent(cache') /\ cache'.entries = cache.entries
          /\ cache'.retained = cache.retained /\ OrderedAs(cache'.lru, Touch(recent, k))
      BY <1>0, <2>1, <2>3, GetKeeps
    <3>2. CacheInv'
      BY <1>0, <1>2, <2>1, <2>2, <2>3, <3>1
    <3> QED
      BY <3>1, <3>2 DEF EvictsInOrder
  <2>4. CASE k \notin DOMAIN cache.entries
    <3>1. UNCHANGED <<cache, recent>>
      BY <2>1, <2>4 DEF Get
    <3> QED
      BY <1>1, <2>2, <3>1
  <2> QED
    BY <2>3, <2>4
<1>5. ASSUME NEW t \in Threads, ComputeFails(t) PROVE CacheInv' /\ EvictsInOrder(cache, cache', recent)
  BY <1>0, <1>1, <1>5 DEF ComputeFails
<1>6. ASSUME NEW t \in Threads, Store(t) PROVE CacheInv' /\ EvictsInOrder(cache, cache', recent)
  <2> PICK k : k = key[t]
    OBVIOUS
  <2>1. /\ k \in Keys /\ cache' = Insert(cache, k) /\ recent' = Touch(recent, k)
        /\ key' \in [Threads -> Keys] /\ pc' \in [Threads -> {"idle", "compute"}]
    BY <1>0, <1>6 DEF Store
  <2>2. /\ cache' \in CacheStates /\ Consistent(cache') /\ cache'.retained <= Limit
        /\ OrderedAs(cache'.lru, Touch(recent, k)) /\ EvictsInOrder(cache, cache', recent)
    BY <1>0, <2>1, InsertKeeps
  <2> QED
    BY <1>2, <2>1, <2>2
<1> QED
  BY <1>3, <1>4, <1>5, <1>6 DEF CacheNext

THEOREM CacheInvariant == CacheSpec => []CacheInv
BY CacheInitInv, CacheStep, PTL DEF CacheSpec

\* retained_bytes is the sum of the entries' bytes and within the limit, and the queue
\* lists the cached keys once each, for any sizes and any number of threads that
\* compute and store the same request (SummaryCache::insert).
THEOREM CacheStaysConsistent == CacheSpec => []CacheConsistent
<1>1. CacheInv => CacheConsistent
  BY DEF CacheInv, Consistent, CacheConsistent, BytesBounded, QueueMatchesEntries
<1> QED
  BY <1>1, CacheInvariant, PTL

\* The loop of insert evicts the entries that were used least recently: a key is
\* dropped only with all the keys that were hit or stored before it.
THEOREM EvictionFollowsUse == CacheSpec => EvictsLeastRecent
<1>1. CacheInv /\ [CacheNext]_cacheVars =>
          [\A k \in DOMAIN cache.entries \ DOMAIN cache'.entries :
              \A other \in DOMAIN cache.entries \cap DOMAIN cache'.entries :
                  Position(recent, k) < Position(recent, other)]_cacheVars
  BY CacheStep DEF EvictsInOrder
<1> QED
  BY <1>1, CacheInvariant, PTL DEF CacheSpec, EvictsLeastRecent
=============================================================================
