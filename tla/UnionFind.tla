----------------------------- MODULE UnionFind ------------------------------
(***************************************************************************)
(* The disjoint-set forest that groups objects into connected components   *)
(* (UnionFind in crates/ocpm-local/src/lib.rs). root is recursive and      *)
(* compresses the path while its frames return: a frame is an element of   *)
(* stack, and going down and returning are steps of their own. join asks   *)
(* for both roots and links one under the other by rank. class is a        *)
(* history variable: the partition that the joins made so far describe.    *)
(***************************************************************************)
EXTENDS Integers, Sequences, FiniteSets

CONSTANTS Elements, NoElement,
          MaxRank       \* u8::MAX

ASSUME ForestAssumption == MaxRank \in Nat /\ NoElement \notin Elements

\* A rank of eight bits does not run out: an index has 64 bits, and MaxRank + 1 is 256.
ASSUME SizeAssumption ==
    IsFiniteSet(Elements) /\ \E n \in 0 .. MaxRank : Cardinality(Elements) < 2 ^ (n + 1)

VARIABLES parent, rank,
          pc,           \* "idle", "left" and "right" within join, "link", "find"
          call,         \* the arguments of the call, a single one twice
          stack,        \* the frames of root, the outermost first
          found,        \* what the last frame returned, NoElement on the way down
          left,         \* the local variable of join
          class

vars == <<parent, rank, pc, call, stack, found, left, class>>

-----------------------------------------------------------------------------
\* UnionFind::new.
Init ==
    /\ parent = [x \in Elements |-> x]
    /\ rank = [x \in Elements |-> 0]
    /\ pc = "idle"
    /\ call = <<NoElement, NoElement>>
    /\ stack = <<>>
    /\ found = NoElement
    /\ left = NoElement
    /\ class = [x \in Elements |-> x]

Join(x, y) ==
    /\ pc = "idle"
    /\ pc' = "left"
    /\ call' = <<x, y>>
    /\ stack' = <<x>>
    /\ found' = NoElement
    /\ UNCHANGED <<parent, rank, left, class>>

Root(x) ==
    /\ pc = "idle"
    /\ pc' = "find"
    /\ call' = <<x, x>>
    /\ stack' = <<x>>
    /\ found' = NoElement
    /\ UNCHANGED <<parent, rank, left, class>>

Top == stack[Len(stack)]
Pop == [i \in 1 .. Len(stack) - 1 |-> stack[i]]

\* root calls itself with the parent.
Descend ==
    /\ stack # <<>> /\ found = NoElement
    /\ parent[Top] # Top
    /\ stack' = Append(stack, parent[Top])
    /\ UNCHANGED <<parent, rank, pc, call, found, left, class>>

\* The innermost call: the element is a root.
AtRoot ==
    /\ stack # <<>> /\ found = NoElement
    /\ parent[Top] = Top
    /\ found' = Top
    /\ stack' = Pop
    /\ UNCHANGED <<parent, rank, pc, call, left, class>>

\* Mutation: the path is compressed to the grandparent, and that is returned.
ReturnHalfway ==
    /\ stack # <<>> /\ found # NoElement
    /\ parent' = [parent EXCEPT ![Top] = parent[parent[Top]]]
    /\ found' = parent[Top]
    /\ stack' = Pop
    /\ UNCHANGED <<rank, pc, call, left, class>>

\* An outer call gets its answer, stores it as its parent and returns it.
Return ==
    /\ stack # <<>> /\ found # NoElement
    /\ parent' = [parent EXCEPT ![Top] = found]
    /\ stack' = Pop
    /\ UNCHANGED <<rank, pc, call, found, left, class>>

Returned == stack = <<>> /\ found # NoElement

\* join has its left root and asks for the right one.
LeftRoot ==
    /\ pc = "left" /\ Returned
    /\ pc' = "right"
    /\ left' = found
    /\ stack' = <<call[2]>>
    /\ found' = NoElement
    /\ UNCHANGED <<parent, rank, call, class>>

\* Mutation: the smaller rank wins.
UnderSwapped(a, b) ==
    IF rank[a] < rank[b] THEN parent' = [parent EXCEPT ![b] = a] /\ UNCHANGED rank
    ELSE IF rank[a] > rank[b] THEN parent' = [parent EXCEPT ![a] = b] /\ UNCHANGED rank
    ELSE /\ parent' = [parent EXCEPT ![b] = a]
         /\ rank' = [rank EXCEPT ![a] = IF @ < MaxRank THEN @ + 1 ELSE MaxRank]

\* join's match on the two ranks; saturating_add.
Under(a, b) ==
    IF rank[a] < rank[b] THEN parent' = [parent EXCEPT ![a] = b] /\ UNCHANGED rank
    ELSE IF rank[a] > rank[b] THEN parent' = [parent EXCEPT ![b] = a] /\ UNCHANGED rank
    ELSE /\ parent' = [parent EXCEPT ![b] = a]
         /\ rank' = [rank EXCEPT ![a] = IF @ < MaxRank THEN @ + 1 ELSE MaxRank]

Merged(x, y) == [z \in Elements |-> IF class[z] = class[y] THEN class[x] ELSE class[z]]

\* join has both roots.
Link ==
    /\ pc = "right" /\ Returned
    /\ IF left = found THEN UNCHANGED <<parent, rank>> ELSE Under(left, found)
    /\ pc' = "idle"
    /\ left' = NoElement
    /\ class' = Merged(call[1], call[2])
    /\ call' = <<NoElement, NoElement>> /\ found' = NoElement
    /\ UNCHANGED stack

\* root returns to the caller that groups the objects.
Found ==
    /\ pc = "find" /\ Returned
    /\ pc' = "idle"
    /\ call' = <<NoElement, NoElement>> /\ found' = NoElement
    /\ UNCHANGED <<parent, rank, stack, left, class>>

Step == Descend \/ AtRoot \/ Return \/ LeftRoot \/ Link \/ Found

Next == (\E x, y \in Elements : Join(x, y)) \/ (\E x \in Elements : Root(x)) \/ Step

Spec == Init /\ [][Next]_vars

-----------------------------------------------------------------------------
\* Properties.

TypeOK ==
    /\ parent \in [Elements -> Elements]
    /\ rank \in [Elements -> 0 .. MaxRank]
    /\ pc \in {"idle", "left", "right", "find"}
    /\ pc # "idle" => call \in Elements \X Elements
    /\ pc = "right" => left \in Elements
    /\ stack \in Seq(Elements)
    /\ found \in Elements \cup {NoElement}
    /\ class \in [Elements -> Elements]

\* The element whose root is being looked for.
Wanted == IF pc = "right" THEN call[2] ELSE call[1]

\* Grouping by root is grouping by component: when root returns, its answer is a root
\* of the wanted element's class, and the class has no other.
RootDecides ==
    pc # "idle" /\ Returned =>
        \A x \in Elements : parent[x] = x /\ class[x] = class[Wanted] <=> x = found

\* Ranks rise along the forest, so it has no cycle in which root would not end,
\* unless a rank has been held back at its limit.
RanksRise ==
    \A x \in Elements :
        parent[x] # x => rank[x] < rank[parent[x]] \/ rank[parent[x]] = MaxRank

\* The elements that have been joined with one, directly or through others.
Members(x) == {y \in Elements : class[y] = class[x]}

\* The recursion of root ends, and is at most logarithmic in the number of joined
\* objects: a deep one would exhaust the thread's stack.
RecursionIsShallow ==
    stack # <<>> /\ found = NoElement =>
        2 ^ (Len(stack) - 1) <= Cardinality(Members(stack[1]))

-----------------------------------------------------------------------------
\* The parts of the inductive invariant.

ParentsKeepClass == \A x \in Elements : class[parent[x]] = class[x]

OneRootPerClass ==
    \A x, y \in Elements :
        parent[x] = x /\ parent[y] = y /\ class[x] = class[y] => x = y

FramesInClass ==
    pc # "idle" => \A i \in 1 .. Len(stack) : class[stack[i]] = class[Wanted]

FoundIsRoot ==
    pc # "idle" /\ found # NoElement => parent[found] = found /\ class[found] = class[Wanted]

LeftIsRoot == pc = "right" => parent[left] = left /\ class[left] = class[call[1]]

StackEmptyWhenIdle == pc = "idle" => stack = <<>>

Below(x, y) == rank[x] < rank[y] \/ rank[y] = MaxRank

FramesRise ==
    /\ \A i, j \in 1 .. Len(stack) : i < j => Below(stack[i], stack[j])
    /\ stack # <<>> /\ found # NoElement => \A i \in 1 .. Len(stack) : Below(stack[i], found)

ForestInv ==
    /\ TypeOK /\ ParentsKeepClass /\ OneRootPerClass /\ FramesInClass /\ FoundIsRoot
    /\ LeftIsRoot /\ StackEmptyWhenIdle /\ RanksRise /\ FramesRise

\* What holds besides when no rank is held back: an element of rank n has been joined
\* with 2^n elements, and the ranks of the frames rise by one at least.
RanksSized == \A x \in Elements : 2 ^ rank[x] <= Cardinality(Members(x))

RanksStrict == \A x \in Elements : parent[x] # x => rank[x] < rank[parent[x]]

FramesStrict ==
    /\ \A i, j \in 1 .. Len(stack) : i < j => rank[stack[i]] < rank[stack[j]]
    /\ \A i \in 1 .. Len(stack) : i - 1 <= rank[stack[i]]
    /\ found # NoElement => \A i \in 1 .. Len(stack) : rank[stack[i]] < rank[found]

ShallowInv == RanksSized /\ RanksStrict /\ FramesStrict
=============================================================================
