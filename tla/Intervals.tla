------------------------------ MODULE Intervals ------------------------------
(***************************************************************************)
(* The data structures under the bottleneck analysis                       *)
(* (crates/ocpm-bottleneck/src/lib.rs): merged busy intervals with prefix  *)
(* sums, a Fenwick tree of minima, one of counts, and the sweep line of a  *)
(* queue. Times are integers (nanoseconds); an interval is <<start, end>>. *)
(***************************************************************************)
EXTENDS Integers, Sequences, SequencesExt, FiniteSetsExt

\* The elements of a finite set in a strict total order.
Listed(S, before(_, _)) ==
    [i \in 1 .. Cardinality(S) |-> CHOOSE x \in S : Cardinality({y \in S : before(y, x)}) = i - 1]

\* sort_by_key, which is stable.
SortedBy(s, key(_)) ==
    LET before(i, j) == key(s[i]) < key(s[j]) \/ (key(s[i]) = key(s[j]) /\ i < j)
        order == Listed(DOMAIN s, before)
    IN [k \in DOMAIN s |-> s[order[k]]]

\* slice::partition_point: the elements before the first that fails the test.
PartitionPoint(s, test(_)) ==
    LET failing == {i \in DOMAIN s : ~test(s[i])}
    IN IF failing = {} THEN Len(s) ELSE Min(failing) - 1

-----------------------------------------------------------------------------
\* BusyTimeline.

\* An interval that begins after the last one ends is new, else it extends it.
Joined(merged, interval) ==
    IF merged # <<>> /\ interval[1] <= Last(merged)[2]
    THEN Append(Front(merged), <<Last(merged)[1], Max({Last(merged)[2], interval[2]})>>)
    ELSE Append(merged, interval)

\* The union of a sequence of intervals, as increasing, separate intervals.
MergedIntervals(intervals) ==
    FoldLeft(Joined, <<>>,
             SortedBy(SelectSeq(intervals, LAMBDA v : v[2] > v[1]), LAMBDA v : v[1]))

\* prefix_nanos[i + 1]: the total length of the first i intervals.
Prefix(merged, i) == MapThenSumSet(LAMBDA k : merged[k][2] - merged[k][1], 1 .. i)

Positive(x) == Max({x, 0})

\* overlap_seconds: how much of [start, end) the merged intervals cover.
Overlap(merged, start, end) ==
    LET first == PartitionPoint(merged, LAMBDA v : v[2] <= start)
        afterLast == PartitionPoint(merged, LAMBDA v : v[1] < end)
        leftClip == Positive(start - merged[first + 1][1])
        rightClip == Positive(merged[afterLast][2] - end)
    IN IF end <= start \/ first >= afterLast THEN 0
       ELSE Positive(Prefix(merged, afterLast) - Prefix(merged, first) - leftClip - rightClip)

\* union_overlap_seconds: the same from intervals that are clipped first.
UnionOverlap(start, end, intervals) ==
    LET clipped == [i \in DOMAIN intervals |->
                       <<Max({intervals[i][1], start}), Min({intervals[i][2], end})>>]
        merged == MergedIntervals(clipped)
    IN Prefix(merged, Len(merged))

-----------------------------------------------------------------------------
\* Fenwick trees. A tree has the positions 1 .. n, each with a node.

\* index & -index.
LowBit(i) == Max({p \in {2 ^ k : k \in 0 .. i} : i % p = 0})

\* The nodes an insertion at position i updates: i += lowbit(i).
Above(i, n) ==
    LET up[j \in 1 .. n] == {j} \cup (IF j + LowBit(j) > n THEN {} ELSE up[j + LowBit(j)])
    IN IF i > n THEN {} ELSE up[i]

\* The nodes a query of the positions 1 .. i reads: i &= i - 1.
Below(i) ==
    LET down[j \in 0 .. i] == IF j = 0 THEN {} ELSE {j} \cup down[j - LowBit(j)]
    IN down[i]

\* FenwickMinimum after inserting values at positions (pairs); Absent is i128::MAX.
MinimumTree(n, pairs, absent) ==
    [node \in 1 .. n |-> Min({absent} \cup {p[2] : p \in {q \in pairs : node \in Above(q[1], n)}})]

\* minimum: absent when nothing was inserted at 1 .. index.
Minimum(tree, index, absent) == Min({absent} \cup {tree[node] : node \in Below(index)})

\* dedup of a sorted list.
Distinct(s) == Listed(ToSet(s), <)

\* Mutation: equal values count as inversions.
InversionCountWeak(values) ==
    MapThenSumSet(LAMBDA seen : Cardinality({j \in 1 .. seen - 1 : values[j] >= values[seen]}),
                  DOMAIN values)

\* inversion_count: for each value, those before it that are not at or below it.
InversionCount(values) ==
    LET ordered == Distinct(values)
        position(v) == PartitionPoint(ordered, LAMBDA c : c < v) + 1
        node(i, seen) == Cardinality({j \in 1 .. seen - 1 :
                                         i \in Above(position(values[j]), Len(ordered))})
        notGreater(seen) == MapThenSumSet(LAMBDA i : node(i, seen), Below(position(values[seen])))
    IN MapThenSumSet(LAMBDA seen : seen - 1 - notGreater(seen), DOMAIN values)

-----------------------------------------------------------------------------
\* The deepest point of a sweep over changes <<at, change, index>>, which before orders.
Deepest(values, before(_, _)) ==
    LET changes == Listed({<<values[i].ready, 1, i>> : i \in DOMAIN values}
                            \cup {<<values[i].start, -1, i>> : i \in DOMAIN values}, before)
        depth(k) == MapThenSumSet(LAMBDA i : changes[i][2], 1 .. k)
    IN Max({0} \cup {depth(k) : k \in DOMAIN changes})

\* maximum_queue: arrivals (ready) and departures (start) in the order of time; at
\* one instant the arrivals come first.
MaximumQueue(values) ==
    Deepest(values, LAMBDA x, y : \/ x[1] < y[1]
                                  \/ x[1] = y[1] /\ x[2] > y[2]
                                  \/ x[1] = y[1] /\ x[2] = y[2] /\ x[3] < y[3])
=============================================================================
