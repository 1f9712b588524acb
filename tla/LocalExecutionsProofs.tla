----------------------- MODULE LocalExecutionsProofs ------------------------
(***************************************************************************)
(* The local provider, for any valid log and any request: first its        *)
(* union-find, for any joins and lookups, then what requests are answered. *)
(***************************************************************************)
EXTENDS LocalExecutions, SetInduction, TLAPS

LEMMA InitHolds == Init => ForestInv
<1> SUFFICES ASSUME Init PROVE ForestInv
  OBVIOUS
<1> USE DEF Init
<1>1. TypeOK
  BY ForestAssumption DEF TypeOK
<1>2. ParentsKeepClass /\ OneRootPerClass /\ RanksRise
  BY DEF ParentsKeepClass, OneRootPerClass, RanksRise
<1>3. FramesInClass /\ FoundIsRoot /\ LeftIsRoot /\ StackEmptyWhenIdle /\ FramesRise
  BY DEF FramesInClass, FoundIsRoot, LeftIsRoot, StackEmptyWhenIdle, FramesRise
<1> QED BY <1>1, <1>2, <1>3 DEF ForestInv

LEMMA JoinHolds ==
    ASSUME ForestInv, NEW x \in Elements, NEW y \in Elements, Join(x, y)
    PROVE  ForestInv'
<1> USE DEF Join
<1>1. TypeOK'
  BY DEF ForestInv, TypeOK
<1>2. ParentsKeepClass' /\ OneRootPerClass' /\ RanksRise'
  BY DEF ForestInv, ParentsKeepClass, OneRootPerClass, RanksRise
<1>3. FramesInClass'
  BY DEF FramesInClass, Wanted
<1>4. FoundIsRoot' /\ LeftIsRoot' /\ StackEmptyWhenIdle'
  BY DEF FoundIsRoot, LeftIsRoot, StackEmptyWhenIdle
<1>5. FramesRise'
  BY DEF FramesRise
<1> QED BY <1>1, <1>2, <1>3, <1>4, <1>5 DEF ForestInv

LEMMA RootHolds ==
    ASSUME ForestInv, NEW x \in Elements, Root(x)
    PROVE  ForestInv'
<1> USE DEF Root
<1>1. TypeOK'
  BY DEF ForestInv, TypeOK
<1>2. ParentsKeepClass' /\ OneRootPerClass' /\ RanksRise'
  BY DEF ForestInv, ParentsKeepClass, OneRootPerClass, RanksRise
<1>3. FramesInClass'
  BY DEF FramesInClass, Wanted
<1>4. FoundIsRoot' /\ LeftIsRoot' /\ StackEmptyWhenIdle'
  BY DEF FoundIsRoot, LeftIsRoot, StackEmptyWhenIdle
<1>5. FramesRise'
  BY DEF FramesRise
<1> QED BY <1>1, <1>2, <1>3, <1>4, <1>5 DEF ForestInv

LEMMA TopIsElement ==
    ASSUME TypeOK, stack # <<>>
    PROVE  /\ Len(stack) \in Nat \ {0}
           /\ Top \in Elements
           /\ Pop \in Seq(Elements)
           /\ Len(Pop) = Len(stack) - 1
           /\ \A i \in 1 .. Len(Pop) : Pop[i] = stack[i]
<1>1. stack \in Seq(Elements)
  BY DEF TypeOK
<1>2. Len(stack) \in Nat \ {0}
  BY <1>1
<1>3. Top \in Elements
  BY <1>1, <1>2 DEF Top
<1>4. /\ Pop \in Seq(Elements)
      /\ Len(Pop) = Len(stack) - 1
      /\ \A i \in 1 .. Len(Pop) : Pop[i] = stack[i]
  BY <1>1, <1>2 DEF Pop
<1> QED BY <1>2, <1>3, <1>4

LEMMA DescendHolds ==
    ASSUME ForestInv, Descend
    PROVE  ForestInv'
<1> DEFINE p == parent[Top]
<1>1. /\ TypeOK /\ stack # <<>> /\ found = NoElement
      /\ Top \in Elements /\ p \in Elements /\ Len(stack) \in Nat \ {0}
      /\ stack' = Append(stack, p) /\ p # Top
  BY TopIsElement DEF ForestInv, Descend, TypeOK
<1>2. /\ Len(stack') = Len(stack) + 1
      /\ stack'[Len(stack) + 1] = p
      /\ \A i \in 1 .. Len(stack) : stack'[i] = stack[i]
  BY <1>1 DEF TypeOK
<1>3. UNCHANGED <<parent, rank, pc, call, found, left, class>>
  BY DEF Descend
<1>4. TypeOK'
  BY <1>1, <1>3 DEF TypeOK
<1>5. ParentsKeepClass' /\ OneRootPerClass' /\ RanksRise' /\ LeftIsRoot' /\ FoundIsRoot'
  BY <1>3 DEF ForestInv, ParentsKeepClass, OneRootPerClass, RanksRise, LeftIsRoot, FoundIsRoot,
              Wanted
<1>6. StackEmptyWhenIdle'
  BY <1>1, <1>3 DEF ForestInv, StackEmptyWhenIdle
<1>7. FramesInClass'
  <2>1. pc # "idle" => class[Top] = class[Wanted]
    BY <1>1 DEF ForestInv, FramesInClass, Top
  <2>2. pc # "idle" => class[p] = class[Wanted]
    BY <1>1, <2>1 DEF ForestInv, ParentsKeepClass
  <2>3. \A i \in 1 .. Len(stack') : i \in 1 .. Len(stack) \/ i = Len(stack) + 1
    BY <1>1, <1>2
  <2> QED BY <1>2, <1>3, <2>2, <2>3 DEF ForestInv, FramesInClass, Wanted
<1>8. FramesRise'
  <2>1. Below(Top, p)
    BY <1>1 DEF ForestInv, RanksRise, Below
  <2>2. ASSUME NEW i \in 1 .. Len(stack)
        PROVE  Below(stack[i], p)
    <3>1. CASE i = Len(stack)
      BY <2>1, <3>1 DEF Top
    <3>2. CASE i < Len(stack)
      <4>1. Below(stack[i], Top)
        BY <1>1, <2>2, <3>2 DEF ForestInv, FramesRise, Top
      <4>2. rank[stack[i]] \in 0 .. MaxRank /\ rank[Top] \in 0 .. MaxRank /\ rank[p] \in 0 .. MaxRank
        BY <1>1, <2>2 DEF TypeOK
      <4> QED BY <4>1, <4>2, <2>1, ForestAssumption DEF Below
    <3> QED BY <1>1, <2>2, <3>1, <3>2
  <2>3. ASSUME NEW i \in 1 .. Len(stack'), NEW j \in 1 .. Len(stack'), i < j
        PROVE  Below(stack[i], stack[j])'
    <3>1. i \in 1 .. Len(stack) /\ stack'[i] = stack[i]
      BY <1>1, <1>2, <2>3
    <3>2. CASE j = Len(stack) + 1
      BY <1>2, <1>3, <2>2, <3>1, <3>2 DEF Below
    <3>3. CASE j \in 1 .. Len(stack)
      BY <1>2, <1>3, <2>3, <3>1, <3>3 DEF ForestInv, FramesRise, Below
    <3> QED BY <1>1, <1>2, <2>3, <3>2, <3>3
  <2> QED BY <1>1, <1>3, <2>3 DEF FramesRise
<1> QED BY <1>4, <1>5, <1>6, <1>7, <1>8 DEF ForestInv

LEMMA AtRootHolds ==
    ASSUME ForestInv, AtRoot
    PROVE  ForestInv'
<1>1. /\ TypeOK /\ stack # <<>> /\ found = NoElement /\ parent[Top] = Top
      /\ Top \in Elements /\ Len(stack) \in Nat \ {0}
      /\ stack' = Pop /\ Pop \in Seq(Elements) /\ Len(Pop) = Len(stack) - 1
      /\ \A i \in 1 .. Len(Pop) : Pop[i] = stack[i]
      /\ found' = Top
  BY TopIsElement DEF ForestInv, AtRoot
<1>2. UNCHANGED <<parent, rank, pc, call, left, class>>
  BY DEF AtRoot
<1>3. TypeOK'
  BY <1>1, <1>2 DEF TypeOK
<1>4. ParentsKeepClass' /\ OneRootPerClass' /\ RanksRise' /\ LeftIsRoot'
  BY <1>2 DEF ForestInv, ParentsKeepClass, OneRootPerClass, RanksRise, LeftIsRoot
<1>5. pc # "idle"
  BY <1>1 DEF ForestInv, StackEmptyWhenIdle
<1>6. StackEmptyWhenIdle'
  BY <1>2, <1>5 DEF StackEmptyWhenIdle
<1>7. FramesInClass'
  BY <1>1, <1>2 DEF ForestInv, FramesInClass, Wanted
<1>8. FoundIsRoot'
  <2>1. class[Top] = class[Wanted]
    BY <1>1, <1>5 DEF ForestInv, FramesInClass, Top
  <2> QED BY <1>1, <1>2, <2>1 DEF FoundIsRoot, Wanted
<1>9. FramesRise'
  <2>1. \A i \in 1 .. Len(Pop) : Below(stack[i], Top)
    BY <1>1 DEF ForestInv, FramesRise, Top
  <2>2. \A i \in 1 .. Len(Pop) : Below(stack[i], found)'
    BY <1>1, <1>2, <2>1 DEF Below
  <2>3. \A i, j \in 1 .. Len(Pop) : i < j => Below(stack[i], stack[j])
    BY <1>1 DEF ForestInv, FramesRise
  <2>4. \A i, j \in 1 .. Len(Pop) : i < j => Below(stack[i], stack[j])'
    BY <1>1, <1>2, <2>3 DEF Below
  <2> QED BY <1>1, <2>2, <2>4 DEF FramesRise
<1> QED BY <1>3, <1>4, <1>6, <1>7, <1>8, <1>9 DEF ForestInv

\* A path is compressed: a root stays a root and no other element becomes one.
LEMMA ReturnKeepsRoots ==
    ASSUME ForestInv, Return
    PROVE  \A x \in Elements : parent'[x] = x <=> parent[x] = x
<1>1. /\ TypeOK /\ stack # <<>> /\ found \in Elements
      /\ Top \in Elements /\ Len(stack) \in Nat \ {0}
      /\ parent' = [parent EXCEPT ![Top] = found]
  BY TopIsElement DEF ForestInv, Return, TypeOK
<1>2. /\ pc # "idle" /\ found # NoElement
      /\ parent[found] = found /\ class[found] = class[Wanted] /\ class[Top] = class[Wanted]
  BY <1>1, ForestAssumption
     DEF ForestInv, StackEmptyWhenIdle, FoundIsRoot, FramesInClass, Top
<1>3. \A x \in Elements : parent'[x] = IF x = Top THEN found ELSE parent[x]
  BY <1>1 DEF TypeOK
<1>4. ASSUME parent[Top] = Top PROVE Top = found
  BY <1>1, <1>2, <1>4 DEF ForestInv, OneRootPerClass
<1> QED BY <1>1, <1>2, <1>3, <1>4

LEMMA ReturnHolds ==
    ASSUME ForestInv, Return
    PROVE  ForestInv'
<1>1. /\ TypeOK /\ stack # <<>> /\ found \in Elements
      /\ Top \in Elements /\ Len(stack) \in Nat \ {0}
      /\ stack' = Pop /\ Pop \in Seq(Elements) /\ Len(Pop) = Len(stack) - 1
      /\ \A i \in 1 .. Len(Pop) : Pop[i] = stack[i]
      /\ parent' = [parent EXCEPT ![Top] = found]
  BY TopIsElement DEF ForestInv, Return, TypeOK
<1>2. UNCHANGED <<rank, pc, call, found, left, class>>
  BY DEF Return
<1>3. /\ pc # "idle" /\ found # NoElement
      /\ parent[found] = found /\ class[found] = class[Wanted] /\ class[Top] = class[Wanted]
  BY <1>1, ForestAssumption
     DEF ForestInv, StackEmptyWhenIdle, FoundIsRoot, FramesInClass, Top
<1>4. \A x \in Elements : parent'[x] = IF x = Top THEN found ELSE parent[x]
  BY <1>1 DEF TypeOK
<1>5. \A x \in Elements : parent'[x] = x <=> parent[x] = x
  BY ReturnKeepsRoots
<1>6. TypeOK'
  BY <1>1, <1>2 DEF TypeOK
<1>7. ParentsKeepClass'
  BY <1>2, <1>3, <1>4 DEF ForestInv, ParentsKeepClass
<1>8. OneRootPerClass'
  BY <1>2, <1>5 DEF ForestInv, OneRootPerClass
<1>9. LeftIsRoot'
  BY <1>1, <1>2, <1>5 DEF ForestInv, LeftIsRoot, TypeOK
<1>10. FoundIsRoot'
  BY <1>1, <1>2, <1>3, <1>5 DEF FoundIsRoot, Wanted
<1>11. StackEmptyWhenIdle'
  BY <1>2, <1>3 DEF StackEmptyWhenIdle
<1>12. FramesInClass'
  BY <1>1, <1>2 DEF ForestInv, FramesInClass, Wanted
<1>13. RanksRise'
  <2>1. Below(Top, found)
    BY <1>1, <1>3 DEF ForestInv, FramesRise, Top
  <2> QED BY <1>2, <1>4, <2>1 DEF ForestInv, RanksRise, Below
<1>14. FramesRise'
  <2>1. /\ \A i, j \in 1 .. Len(Pop) : i < j => Below(stack[i], stack[j])
        /\ \A i \in 1 .. Len(Pop) : Below(stack[i], found)
    BY <1>1, <1>3 DEF ForestInv, FramesRise
  <2>2. /\ \A i, j \in 1 .. Len(Pop) : i < j => Below(stack[i], stack[j])'
        /\ \A i \in 1 .. Len(Pop) : Below(stack[i], found)'
    BY <1>1, <1>2, <2>1 DEF Below
  <2> QED BY <1>1, <2>2 DEF FramesRise
<1> QED BY <1>6, <1>7, <1>8, <1>9, <1>10, <1>11, <1>12, <1>13, <1>14 DEF ForestInv

LEMMA LeftRootHolds ==
    ASSUME ForestInv, LeftRoot
    PROVE  ForestInv'
<1>1. /\ TypeOK /\ pc = "left" /\ found \in Elements /\ call \in Elements \X Elements
      /\ parent[found] = found /\ class[found] = class[call[1]]
  BY DEF ForestInv, LeftRoot, Returned, TypeOK, FoundIsRoot, Wanted
<1>2. /\ pc' = "right" /\ left' = found /\ stack' = <<call[2]>> /\ found' = NoElement
      /\ UNCHANGED <<parent, rank, call, class>>
  BY DEF LeftRoot
<1>3. TypeOK'
  BY <1>1, <1>2 DEF TypeOK
<1>4. ParentsKeepClass' /\ OneRootPerClass' /\ RanksRise'
  BY <1>2 DEF ForestInv, ParentsKeepClass, OneRootPerClass, RanksRise
<1>5. LeftIsRoot' /\ FoundIsRoot' /\ StackEmptyWhenIdle'
  BY <1>1, <1>2 DEF LeftIsRoot, FoundIsRoot, StackEmptyWhenIdle
<1>6. FramesInClass' /\ FramesRise'
  BY <1>1, <1>2 DEF FramesInClass, FramesRise, Wanted
<1> QED BY <1>3, <1>4, <1>5, <1>6 DEF ForestInv

\* What the match on the ranks does: one root goes under the other, and the ranks rise.
LEMMA UnderLinks ==
    ASSUME TypeOK, NEW a \in Elements, NEW b \in Elements, a # b, Under(a, b)
    PROVE  \E w, l \in {a, b} :
               /\ w # l
               /\ parent' = [parent EXCEPT ![l] = w]
               /\ rank' \in [Elements -> 0 .. MaxRank]
               /\ rank'[w] >= rank[w]
               /\ \A x \in Elements \ {w} : rank'[x] = rank[x]
               /\ rank[l] < rank'[w] \/ rank'[w] = MaxRank
<1>1. rank[a] \in 0 .. MaxRank /\ rank[b] \in 0 .. MaxRank
  BY DEF TypeOK
<1>2. CASE rank[a] < rank[b]
  <2>1. parent' = [parent EXCEPT ![a] = b] /\ rank' = rank
    BY <1>2 DEF Under
  <2> QED BY <1>1, <1>2, <2>1 DEF TypeOK
<1>3. CASE rank[a] > rank[b]
  <2>1. parent' = [parent EXCEPT ![b] = a] /\ rank' = rank
    BY <1>1, <1>3 DEF Under
  <2> QED BY <1>1, <1>3, <2>1 DEF TypeOK
<1>4. CASE rank[a] = rank[b]
  <2> DEFINE n == IF rank[a] < MaxRank THEN rank[a] + 1 ELSE MaxRank
  <2>1. parent' = [parent EXCEPT ![b] = a] /\ rank' = [rank EXCEPT ![a] = n]
    BY <1>1, <1>4 DEF Under
  <2>2. n \in 0 .. MaxRank /\ n >= rank[a] /\ (rank[b] < n \/ n = MaxRank)
    BY <1>1, <1>4, ForestAssumption
  <2> HIDE DEF n
  <2>3. /\ rank' \in [Elements -> 0 .. MaxRank] /\ rank'[a] = n
        /\ \A x \in Elements \ {a} : rank'[x] = rank[x]
    BY <2>1, <2>2 DEF TypeOK
  <2> QED BY <2>1, <2>2, <2>3
<1> QED BY <1>1, <1>2, <1>3, <1>4

LEMMA LinkHolds ==
    ASSUME ForestInv, Link
    PROVE  ForestInv'
<1> DEFINE c == class[call[1]]
           d == class[call[2]]
<1>1. /\ TypeOK /\ pc = "right" /\ stack = <<>> /\ left \in Elements /\ found \in Elements
      /\ call[1] \in Elements /\ call[2] \in Elements /\ c \in Elements /\ d \in Elements
      /\ parent[left] = left /\ class[left] = c
      /\ parent[found] = found /\ class[found] = d
  BY DEF ForestInv, Link, Returned, TypeOK, FoundIsRoot, LeftIsRoot, Wanted
<1>2. pc' = "idle" /\ stack' = <<>> /\ found' = NoElement
  BY <1>1 DEF Link
<1>3. /\ class' \in [Elements -> Elements]
      /\ \A z \in Elements : class'[z] = IF class[z] = d THEN c ELSE class[z]
  BY <1>1 DEF Link, Merged, TypeOK
<1>4. FramesInClass' /\ FoundIsRoot' /\ LeftIsRoot' /\ StackEmptyWhenIdle' /\ FramesRise'
  BY <1>2 DEF FramesInClass, FoundIsRoot, LeftIsRoot, StackEmptyWhenIdle, FramesRise
<1>5. CASE left = found
  <2>1. parent' = parent /\ rank' = rank
    BY <1>5 DEF Link
  <2>2. \A z \in Elements : class'[z] = class[z]
    BY <1>1, <1>3, <1>5
  <2>3. TypeOK'
    BY <1>1, <1>2, <1>3, <2>1 DEF TypeOK
  <2>4. ParentsKeepClass' /\ OneRootPerClass' /\ RanksRise'
    BY <1>1, <2>1, <2>2 DEF ForestInv, ParentsKeepClass, OneRootPerClass, RanksRise, TypeOK
  <2> QED BY <1>4, <2>3, <2>4 DEF ForestInv
<1>6. CASE left # found
  <2>1. Under(left, found)
    BY <1>6 DEF Link
  <2>2. PICK w \in {left, found}, l \in {left, found} :
               /\ w # l
               /\ parent' = [parent EXCEPT ![l] = w]
               /\ rank' \in [Elements -> 0 .. MaxRank]
               /\ rank'[w] >= rank[w]
               /\ \A x \in Elements \ {w} : rank'[x] = rank[x]
               /\ rank[l] < rank'[w] \/ rank'[w] = MaxRank
    BY <1>1, <1>6, <2>1, UnderLinks
  <2>3. \A x \in Elements : parent'[x] = IF x = l THEN w ELSE parent[x]
    BY <1>1, <2>2 DEF TypeOK
  <2>4. TypeOK'
    BY <1>1, <1>2, <1>3, <2>2 DEF TypeOK
  <2>5. class'[w] = c /\ class'[l] = c /\ w \in Elements /\ l \in Elements
    BY <1>1, <1>3, <2>2
  <2>6. ParentsKeepClass'
    <3> SUFFICES ASSUME NEW x \in Elements PROVE class'[parent'[x]] = class'[x]
      BY DEF ParentsKeepClass
    <3>1. CASE x = l
      BY <2>3, <2>5, <3>1
    <3>2. CASE x # l
      <4>1. parent'[x] = parent[x] /\ parent[x] \in Elements /\ class[parent[x]] = class[x]
        BY <1>1, <2>3, <3>2 DEF ForestInv, ParentsKeepClass, TypeOK
      <4> HIDE DEF c, d
      <4> QED BY <1>3, <4>1
    <3> QED BY <3>1, <3>2
  <2>7. OneRootPerClass'
    <3> SUFFICES ASSUME NEW x \in Elements, NEW y \in Elements,
                        parent'[x] = x, parent'[y] = y, class'[x] = class'[y]
                 PROVE  x = y
      BY DEF OneRootPerClass
    <3>1. parent[x] = x /\ parent[y] = y /\ x # l /\ y # l
      BY <2>2, <2>3
    <3>2. \A z \in Elements : parent[z] = z /\ class[z] \in {c, d} => z \in {left, found}
      BY <1>1 DEF ForestInv, OneRootPerClass
    <3>3. CASE class[x] = class[y]
      BY <3>1, <3>3 DEF ForestInv, OneRootPerClass
    <3>4. CASE class[x] # class[y]
      <4>1. class[x] \in {c, d} /\ class[y] \in {c, d}
        BY <1>3, <3>4
      <4> QED BY <2>2, <3>1, <3>2, <4>1
    <3> QED BY <3>3, <3>4
  <2>8. RanksRise'
    <3> SUFFICES ASSUME NEW x \in Elements, parent'[x] # x
                 PROVE  rank'[x] < rank'[parent'[x]] \/ rank'[parent'[x]] = MaxRank
      BY DEF RanksRise
    <3>1. x # w
      BY <1>1, <2>2, <2>3
    <3>2. CASE x = l
      BY <2>2, <2>3, <3>2, <2>5
    <3>3. CASE x # l
      <4>1. parent'[x] = parent[x] /\ parent[x] # x /\ parent[x] \in Elements /\ rank'[x] = rank[x]
        BY <1>1, <2>2, <2>3, <3>1, <3>3 DEF TypeOK
      <4>2. rank[x] < rank[parent[x]] \/ rank[parent[x]] = MaxRank
        BY <4>1 DEF ForestInv, RanksRise
      <4>3. /\ rank[x] \in 0 .. MaxRank /\ rank[parent[x]] \in 0 .. MaxRank
            /\ rank'[parent[x]] \in 0 .. MaxRank /\ rank'[parent[x]] >= rank[parent[x]]
        <5>1. rank[x] \in 0 .. MaxRank /\ rank[parent[x]] \in 0 .. MaxRank
          BY <1>1, <4>1 DEF TypeOK
        <5>2. rank'[parent[x]] \in 0 .. MaxRank
          BY <2>2, <4>1
        <5> QED BY <5>1, <5>2, <2>2, <4>1, ForestAssumption
      <4> QED BY <4>1, <4>2, <4>3, ForestAssumption
    <3> QED BY <3>2, <3>3
  <2> QED BY <1>4, <2>4, <2>6, <2>7, <2>8 DEF ForestInv
<1> QED BY <1>5, <1>6

LEMMA FoundHolds ==
    ASSUME ForestInv, Found
    PROVE  ForestInv'
<1> USE DEF Found, Returned
<1>1. TypeOK'
  BY DEF ForestInv, TypeOK
<1>2. ParentsKeepClass' /\ OneRootPerClass' /\ RanksRise'
  BY DEF ForestInv, ParentsKeepClass, OneRootPerClass, RanksRise
<1>3. FramesInClass' /\ FoundIsRoot' /\ LeftIsRoot' /\ StackEmptyWhenIdle' /\ FramesRise'
  BY DEF FramesInClass, FoundIsRoot, LeftIsRoot, StackEmptyWhenIdle, FramesRise
<1> QED BY <1>1, <1>2, <1>3 DEF ForestInv

LEMMA NextHolds == ForestInv /\ [Next]_vars => ForestInv'
<1> SUFFICES ASSUME ForestInv, [Next]_vars PROVE ForestInv'
  OBVIOUS
<1>1. CASE UNCHANGED vars
  <2> USE <1>1 DEF vars
  <2>1. TypeOK' /\ ParentsKeepClass' /\ OneRootPerClass' /\ RanksRise'
    BY DEF ForestInv, TypeOK, ParentsKeepClass, OneRootPerClass, RanksRise
  <2>2. FramesInClass' /\ FoundIsRoot' /\ LeftIsRoot' /\ StackEmptyWhenIdle'
    BY DEF ForestInv, FramesInClass, FoundIsRoot, LeftIsRoot, StackEmptyWhenIdle, Wanted
  <2>3. FramesRise'
    BY DEF ForestInv, FramesRise, Below
  <2> QED BY <2>1, <2>2, <2>3 DEF ForestInv
<1>2. CASE \E x, y \in Elements : Join(x, y)
  BY <1>2, JoinHolds
<1>3. CASE \E x \in Elements : Root(x)
  BY <1>3, RootHolds
<1>4. CASE Step
  BY <1>4, DescendHolds, AtRootHolds, ReturnHolds, LeftRootHolds, LinkHolds, FoundHolds DEF Step
<1> QED BY <1>1, <1>2, <1>3, <1>4 DEF Next

\* The inductive invariant of the forest, for any sequence of joins and lookups.
THEOREM ForestInvariant == Spec => []ForestInv
BY NextHolds, InitHolds, PTL DEF Spec

LEMMA InvDecides == ForestInv => RootDecides
<1> SUFFICES ASSUME ForestInv, pc # "idle", Returned, NEW x \in Elements
             PROVE  parent[x] = x /\ class[x] = class[Wanted] <=> x = found
  BY DEF RootDecides
<1>1. found \in Elements /\ parent[found] = found /\ class[found] = class[Wanted]
  BY DEF ForestInv, FoundIsRoot, Returned, TypeOK
<1> QED BY <1>1 DEF ForestInv, OneRootPerClass

\* When UnionFind::root returns, its answer is the one root of the component of the
\* element asked for, so that connected_executions groups by component, whether or
\* not ranks have saturated.
THEOREM RootsDecideComponents == Spec => []RootDecides
BY ForestInvariant, InvDecides, PTL

\* The ranks that UnionFind::join keeps rise from child to parent, up to their limit.
THEOREM RanksAlwaysRise == Spec => []RanksRise
<1>1. ForestInv => RanksRise
  BY DEF ForestInv
<1> QED BY <1>1, ForestInvariant, PTL

\* The values of the forest keep their types; no index leaves the array.
THEOREM ForestTyped == Spec => []TypeOK
<1>1. ForestInv => TypeOK
  BY DEF ForestInv
<1> QED BY <1>1, ForestInvariant, PTL

-----------------------------------------------------------------------------
(* The depth of the recursion.                                             *)

LEMMA InitShallow == Init => ShallowInv
<1> SUFFICES ASSUME Init PROVE ShallowInv
  OBVIOUS
<1>1. RanksSized
  <2> SUFFICES ASSUME NEW x \in Elements PROVE 2 ^ rank[x] <= Cardinality(Members(x))
    BY DEF RanksSized
  <2>1. rank[x] = 0 /\ Members(x) = {x}
    BY DEF Init, Members
  <2>2. 2 ^ 0 = 1 /\ Cardinality({x}) = 1
    BY PowerOfTwo, FS_Singleton
  <2> QED
    BY <2>1, <2>2
<1>2. RanksStrict /\ FramesStrict
  BY DEF Init, RanksStrict, FramesStrict
<1> QED
  BY <1>1, <1>2 DEF ShallowInv

\* Steps that leave the partition, the parents and the ranks alone keep their part.
LEMMA SameForestShallow ==
    ASSUME ShallowInv, UNCHANGED <<parent, rank, class>>, FramesStrict'
    PROVE  ShallowInv'
BY DEF ShallowInv, RanksSized, RanksStrict, Members

LEMMA CallShallow ==
    ASSUME ForestInv, ShallowInv, UNCHANGED <<parent, rank, class>>, found' = NoElement,
           NEW x \in Elements, stack' = <<x>>
    PROVE  ShallowInv'
<1>1. Len(stack') = 1 /\ stack'[1] = x /\ rank'[x] \in Nat
  BY ForestAssumption DEF ForestInv, TypeOK
<1>2. FramesStrict'
  BY <1>1 DEF FramesStrict
<1> QED
  BY <1>2, SameForestShallow

LEMMA DescendShallow ==
    ASSUME ForestInv, ShallowInv, Descend
    PROVE  ShallowInv'
<1> DEFINE p == parent[Top]
           n == Len(stack)
<1>1. /\ TypeOK /\ stack # <<>> /\ found = NoElement
      /\ Top \in Elements /\ p \in Elements /\ n \in Nat \ {0}
      /\ stack' = Append(stack, p) /\ p # Top
  BY TopIsElement DEF ForestInv, Descend, TypeOK
<1>2. /\ Len(stack') = n + 1 /\ stack'[n + 1] = p
      /\ \A i \in 1 .. n : stack'[i] = stack[i]
      /\ UNCHANGED <<parent, rank, class, found>>
  BY <1>1 DEF TypeOK, Descend
<1>3. rank[Top] < rank[p]
  BY <1>1 DEF ShallowInv, RanksStrict
<1>4. /\ rank[p] \in Nat /\ \A i \in 1 .. n : rank[stack[i]] \in Nat
      /\ Top = stack[n]
  BY <1>1, ForestAssumption DEF TypeOK, Top
<1>5. /\ \A i, j \in 1 .. n : i < j => rank[stack[i]] < rank[stack[j]]
      /\ \A i \in 1 .. n : i - 1 <= rank[stack[i]]
  BY DEF ShallowInv, FramesStrict
<1> HIDE DEF p, n
<1>6. \A i \in 1 .. n : rank[stack[i]] < rank[p]
  <2> TAKE i \in 1 .. n
  <2>1. i = n \/ (i < n /\ n \in 1 .. n)
    BY <1>1
  <2> QED
    BY <1>3, <1>4, <1>5, <2>1
<1>7. n <= rank[p]
  <2>1. n \in 1 .. n /\ n - 1 <= rank[Top]
    BY <1>1, <1>4, <1>5
  <2> QED
    BY <1>1, <1>3, <1>4, <2>1
<1>8. \A i \in 1 .. (n + 1) : i \in 1 .. n \/ i = n + 1
  BY <1>1
<1>9. ASSUME NEW i \in 1 .. (n + 1), NEW j \in 1 .. (n + 1), i < j
      PROVE  rank'[stack'[i]] < rank'[stack'[j]]
  <2>1. i \in 1 .. n /\ (j \in 1 .. n \/ j = n + 1)
    BY <1>1, <1>9
  <2> QED
    BY <1>2, <1>5, <1>6, <1>9, <2>1
<1>10. ASSUME NEW i \in 1 .. (n + 1) PROVE i - 1 <= rank'[stack'[i]]
  BY <1>1, <1>2, <1>5, <1>7, <1>8
<1>11. FramesStrict'
  BY <1>1, <1>2, <1>9, <1>10 DEF FramesStrict
<1> QED
  BY <1>2, <1>11, SameForestShallow

LEMMA AtRootShallow ==
    ASSUME ForestInv, ShallowInv, AtRoot
    PROVE  ShallowInv'
<1>1. /\ Len(stack) \in Nat \ {0} /\ stack' = Pop /\ Len(Pop) = Len(stack) - 1
      /\ \A i \in 1 .. Len(Pop) : Pop[i] = stack[i]
      /\ found' = Top /\ UNCHANGED <<parent, rank, class>>
  BY TopIsElement DEF ForestInv, AtRoot
<1>2. /\ \A i \in 1 .. Len(Pop) : i \in 1 .. Len(stack) /\ i < Len(stack)
      /\ Len(stack) \in 1 .. Len(stack)
  BY <1>1
<1>3. \A i \in 1 .. Len(Pop) : rank[stack[i]] < rank[Top]
  BY <1>2 DEF ShallowInv, FramesStrict, Top
<1>4. FramesStrict'
  BY <1>1, <1>2, <1>3 DEF ShallowInv, FramesStrict
<1> QED
  BY <1>1, <1>4, SameForestShallow

LEMMA ReturnShallow ==
    ASSUME ForestInv, ShallowInv, Return
    PROVE  ShallowInv'
<1>1. /\ TypeOK /\ stack # <<>> /\ found \in Elements /\ found # NoElement
      /\ Top \in Elements /\ Len(stack) \in Nat \ {0}
      /\ stack' = Pop /\ Len(Pop) = Len(stack) - 1
      /\ \A i \in 1 .. Len(Pop) : Pop[i] = stack[i]
      /\ parent' = [parent EXCEPT ![Top] = found]
      /\ UNCHANGED <<rank, found, class>>
  BY TopIsElement DEF ForestInv, Return, TypeOK
<1>2. FramesStrict'
  BY <1>1 DEF ShallowInv, FramesStrict
<1>3. rank[Top] < rank[found]
  BY <1>1 DEF ShallowInv, FramesStrict, Top
<1>4. \A x \in Elements : parent'[x] = IF x = Top THEN found ELSE parent[x]
  BY <1>1 DEF TypeOK
<1>5. RanksStrict'
  BY <1>1, <1>3, <1>4 DEF ShallowInv, RanksStrict
<1>6. RanksSized'
  BY <1>1 DEF ShallowInv, RanksSized, Members
<1> QED
  BY <1>2, <1>5, <1>6 DEF ShallowInv

\* Linking two roots of equal rank doubles the component at least, so that the rank
\* that rises still counts elements, of which there are too few to reach the limit.
LEMMA LinkShallow ==
    ASSUME ForestInv, ShallowInv, Link
    PROVE  ShallowInv'
<1> PICK c, d, a, b : c = class[call[1]] /\ d = class[call[2]] /\ a = left /\ b = found
  OBVIOUS
<1>1. /\ TypeOK /\ a \in Elements /\ b \in Elements /\ stack = <<>>
      /\ parent[a] = a /\ class[a] = c /\ parent[b] = b /\ class[b] = d
      /\ call[1] \in Elements /\ call[2] \in Elements
  BY DEF ForestInv, Link, Returned, TypeOK, FoundIsRoot, LeftIsRoot, Wanted
<1>2. stack' = <<>> /\ found' = NoElement
  BY <1>1 DEF Link
<1>3. /\ class \in [Elements -> Elements] /\ class' \in [Elements -> Elements]
      /\ \A z \in Elements : class'[z] = IF class[z] = d THEN c ELSE class[z]
  BY <1>1 DEF Link, Merged, TypeOK
<1>4. FramesStrict'
  BY <1>2 DEF FramesStrict
<1>5. CASE a = b
  <2>1. parent' = parent /\ rank' = rank
    BY <1>5 DEF Link
  <2>2. class' = class
    BY <1>1, <1>3, <1>5
  <2> QED
    BY <1>4, <2>1, <2>2, SameForestShallow
<1>6. CASE a # b
  <2>1. c # d
    BY <1>1, <1>6 DEF ForestInv, OneRootPerClass
  <2> DEFINE Size(x) == Cardinality(Members(x))
  <2>2. ASSUME NEW x \in Elements
        PROVE  /\ IsFiniteSet(Members(x)) /\ Size(x) \in Nat
               /\ IsFiniteSet(Members(x)') /\ Size(x)' \in Nat
               /\ Size(x) <= Size(x)'
    <3>1. /\ Members(x) \in SUBSET Elements /\ Members(x)' \in SUBSET Elements
          /\ Members(x) \in SUBSET (Members(x)')
      BY <1>3 DEF Members
    <3>2. IsFiniteSet(Members(x)) /\ IsFiniteSet(Members(x)')
      BY <3>1, SizeAssumption, FS_Subset
    <3> QED
      BY <3>1, <3>2, FS_Subset, FS_CardinalityType
  <2>3. Size(a) + Size(b) <= Size(a)'
    <3>1. (Members(a) \cup Members(b)) \in SUBSET (Members(a)') /\ Members(a) \cap Members(b) = {}
      BY <1>1, <1>3, <2>1 DEF Members
    <3>2. Cardinality(Members(a) \cup Members(b)) = Size(a) + Size(b) - 0
      BY <1>1, <2>2, <3>1, FS_Union, FS_EmptySet
    <3>3. Cardinality(Members(a) \cup Members(b)) <= Size(a)'
      BY <1>1, <2>2, <3>1, FS_Subset
    <3> QED
      BY <1>1, <2>2, <3>2, <3>3
  <2>4. \A x \in Elements : rank[x] \in Nat /\ 2 ^ rank[x] \in Nat /\ 2 ^ rank[x] <= Size(x)
    BY <1>1, ForestAssumption, PowerOfTwo DEF TypeOK, ShallowInv, RanksSized
  <2>5. \A x \in Elements : 2 ^ rank[x] <= Size(x)'
    BY <2>2, <2>4
  <2>6. \A x \in Elements : parent[x] \in Elements /\ (parent[x] # x => rank[x] < rank[parent[x]])
    BY <1>1 DEF TypeOK, ShallowInv, RanksStrict
  <2>7. Under(a, b)
    BY <1>6 DEF Link
  <2> HIDE DEF Size
  <2>8. ASSUME NEW w \in {a, b}, NEW l \in {a, b}, w # l, rank' = rank, rank[l] < rank[w],
               parent' = [parent EXCEPT ![l] = w]
        PROVE  ShallowInv'
    <3>1. \A x \in Elements : parent'[x] = IF x = l THEN w ELSE parent[x]
      BY <1>1, <2>8 DEF TypeOK
    <3>2. RanksStrict'
      BY <1>1, <2>6, <2>8, <3>1 DEF RanksStrict
    <3>3. RanksSized'
      BY <2>5, <2>8 DEF RanksSized, Size
    <3> QED
      BY <1>4, <3>2, <3>3 DEF ShallowInv
  <2>9. CASE rank[a] < rank[b]
    BY <1>6, <2>7, <2>8, <2>9 DEF Under
  <2>10. CASE rank[a] > rank[b]
    <3>1. ~(rank[a] < rank[b]) /\ rank[b] < rank[a]
      BY <1>1, <2>4, <2>10
    <3>2. parent' = [parent EXCEPT ![b] = a] /\ rank' = rank
      BY <2>7, <2>10, <3>1 DEF Under
    <3> QED
      BY <1>6, <2>8, <3>1, <3>2
  <2>11. CASE rank[a] = rank[b]
    <3> PICK n : n = rank[a]
      OBVIOUS
    <3>1. n \in Nat /\ 2 ^ (n + 1) = 2 * 2 ^ n /\ 2 ^ n \in Nat
      BY <1>1, <2>4, PowerOfTwo
    <3>2. 2 ^ (n + 1) <= Size(a)'
      <4>1. Size(a) \in Nat /\ Size(b) \in Nat /\ Size(a)' \in Nat
        BY <1>1, <2>2 DEF Size
      <4>2. 2 ^ n <= Size(a) /\ 2 ^ n <= Size(b)
        BY <1>1, <2>4, <2>11
      <4> QED
        BY <2>3, <3>1, <4>1, <4>2
    <3>3. n < MaxRank
      <4>1. Size(a)' <= Cardinality(Elements) /\ Cardinality(Elements) \in Nat
        <5>1. Members(a)' \in SUBSET Elements
          BY DEF Members
        <5> QED
          BY <5>1, SizeAssumption, FS_Subset, FS_CardinalityType DEF Size
      <4>2. PICK k \in 0 .. MaxRank : Cardinality(Elements) < 2 ^ (k + 1)
        BY SizeAssumption
      <4>3. k \in Nat /\ k <= MaxRank /\ k + 1 \in Nat /\ n + 1 \in Nat
        BY <3>1, <4>2, ForestAssumption
      <4>4. Size(a)' \in Nat /\ 2 ^ (k + 1) \in Nat /\ 2 ^ (n + 1) \in Nat
        BY <1>1, <2>2, <4>3, PowerOfTwo DEF Size
      <4>5. ~(2 ^ (k + 1) <= 2 ^ (n + 1))
        BY <3>2, <4>1, <4>2, <4>4
      <4>6. ~(k + 1 <= n + 1)
        BY <4>3, <4>5, PowerOfTwoGrows
      <4> QED
        BY <3>1, <4>3, <4>6, ForestAssumption
    <3>4. ~(rank[a] < rank[b]) /\ ~(rank[a] > rank[b])
      BY <1>1, <2>4, <2>11
    <3>5. parent' = [parent EXCEPT ![b] = a] /\ rank' = [rank EXCEPT ![a] = n + 1]
      BY <2>7, <3>3, <3>4 DEF Under
    <3>6. /\ \A x \in Elements : parent'[x] = IF x = b THEN a ELSE parent[x]
          /\ \A x \in Elements : rank'[x] = IF x = a THEN n + 1 ELSE rank[x]
      BY <1>1, <3>5 DEF TypeOK
    <3>7. RanksSized'
      BY <2>5, <3>2, <3>6 DEF RanksSized, Size
    <3>8. ASSUME NEW x \in Elements, parent'[x] # x PROVE rank'[x] < rank'[parent'[x]]
      <4>1. CASE x = b
        BY <1>1, <1>6, <2>11, <3>1, <3>6, <4>1
      <4>2. CASE x # b
        <5>1. parent'[x] = parent[x] /\ x # a /\ rank'[x] = rank[x] /\ parent[x] \in Elements
          BY <1>1, <2>6, <3>6, <3>8, <4>2
        <5>2. rank[x] < rank[parent[x]] /\ rank[x] \in Nat /\ rank[parent[x]] \in Nat
          BY <2>4, <2>6, <3>8, <5>1
        <5> QED
          BY <3>1, <3>6, <5>1, <5>2
      <4> QED
        BY <4>1, <4>2
    <3>9. RanksStrict'
      BY <3>8 DEF RanksStrict
    <3> QED
      BY <1>4, <3>7, <3>9 DEF ShallowInv
  <2>12. rank[a] < rank[b] \/ rank[a] > rank[b] \/ rank[a] = rank[b]
    BY <1>1, <2>4
  <2> QED
    BY <2>9, <2>10, <2>11, <2>12
<1> QED
  BY <1>5, <1>6

LEMMA FoundShallow ==
    ASSUME ForestInv, ShallowInv, Found
    PROVE  ShallowInv'
<1>1. UNCHANGED <<parent, rank, class>> /\ stack' = <<>>
  BY DEF Found, Returned
<1>2. FramesStrict'
  BY <1>1 DEF FramesStrict
<1> QED
  BY <1>1, <1>2, SameForestShallow

\* The frames are as deep as their ranks at most, and a rank counts joined elements.
LEMMA InvShallow == ForestInv /\ ShallowInv => RecursionIsShallow
<1> SUFFICES ASSUME ForestInv, ShallowInv, stack # <<>>, found = NoElement
             PROVE  2 ^ (Len(stack) - 1) <= Cardinality(Members(stack[1]))
  BY DEF RecursionIsShallow
<1> PICK n, x : n = Len(stack) - 1 /\ x = Top
  OBVIOUS
<1>1. n \in Nat /\ x \in Elements /\ stack[1] \in Elements /\ pc # "idle" /\ rank[x] \in Nat
  BY TopIsElement, ForestAssumption DEF ForestInv, TypeOK, StackEmptyWhenIdle
<1>2. n <= rank[x]
  BY <1>1, TopIsElement DEF ShallowInv, FramesStrict, Top, ForestInv
<1>3. class[x] = class[stack[1]]
  BY <1>1, TopIsElement DEF ForestInv, FramesInClass, Top
<1>4. 2 ^ n <= 2 ^ rank[x] /\ 2 ^ n \in Nat /\ 2 ^ rank[x] \in Nat
  BY <1>1, <1>2, PowerOfTwo, PowerOfTwoGrows
<1>5. Members(x) \in SUBSET Elements
  BY DEF Members
<1>6. Cardinality(Members(x)) \in Nat
  BY <1>5, SizeAssumption, FS_Subset, FS_CardinalityType
<1>7. 2 ^ rank[x] <= Cardinality(Members(x)) /\ Members(x) = Members(stack[1])
  BY <1>1, <1>3 DEF ShallowInv, RanksSized, Members
<1> QED
  BY <1>4, <1>6, <1>7

\* UnionFind::root is at most logarithmically deep in the number of objects that have
\* been joined, for any log that fits the memory: the recursion ends and cannot
\* exhaust the stack of the thread.
THEOREM RecursionStaysShallow == Spec => []RecursionIsShallow
<1>1. ForestInv /\ ShallowInv /\ [Next]_vars => ShallowInv'
  <2> SUFFICES ASSUME ForestInv, ShallowInv, [Next]_vars PROVE ShallowInv'
    OBVIOUS
  <2>1. CASE UNCHANGED vars
    BY <2>1 DEF vars, ShallowInv, RanksSized, RanksStrict, FramesStrict, Members
  <2>2. ASSUME NEW x \in Elements, NEW y \in Elements, Join(x, y) PROVE ShallowInv'
    BY <2>2, CallShallow DEF Join
  <2>3. ASSUME NEW x \in Elements, Root(x) PROVE ShallowInv'
    BY <2>3, CallShallow DEF Root
  <2>4. CASE LeftRoot
    <3>1. call[2] \in Elements
      BY <2>4 DEF LeftRoot, ForestInv, TypeOK
    <3> QED
      BY <2>4, <3>1, CallShallow DEF LeftRoot
  <2>5. CASE Step
    BY <2>4, <2>5, DescendShallow, AtRootShallow, ReturnShallow, LinkShallow, FoundShallow DEF Step
  <2> QED
    BY <2>1, <2>2, <2>3, <2>5 DEF Next
<1> QED
  BY <1>1, InitShallow, ForestInvariant, InvShallow, PTL DEF Spec

-----------------------------------------------------------------------------
(* Sorted ids.                                                             *)

LEMMA SortedIdsLists ==
    ASSUME NEW S \in SUBSET Int, IsFiniteSet(S)
    PROVE  /\ SortedIds(S) \in Seq(S)
           /\ \A x \in S : \E i \in 1 .. Len(SortedIds(S)) : SortedIds(S)[i] = x
<1> DEFINE R == {p \in S \X S : p[1] < p[2]}
<1>1. TotalOn(S, R)
  <2>1. \A x, y \in S : <<x, y>> \in R <=> x < y
    OBVIOUS
  <2> HIDE DEF R
  <2>2. \A x, y, z \in S : ~(x < x) /\ (x # y => x < y \/ y < x) /\ (x < y /\ y < z => x < z)
    OBVIOUS
  <2> QED
    BY <2>1, <2>2 DEF TotalOn
<1>2. SortedIds(S) = Ranked(S, R)
  BY DEF SortedIds
<1> HIDE DEF R
<1> QED
  BY <1>1, <1>2, RankedLists DEF Lists

-----------------------------------------------------------------------------
(* The pairs that connected_executions joins.                              *)

LEMMA LogIds ==
    ASSUME NEW l \in Logs, Valid(l)
    PROVE  /\ {e.id : e \in l.events} \in SUBSET Int /\ IsFiniteSet({e.id : e \in l.events})
           /\ {r.relation_id : r \in l.o2o} \in SUBSET Int
           /\ IsFiniteSet({r.relation_id : r \in l.o2o})
           /\ \A id : ObjectsOf(l, id) \in SUBSET Elements
           /\ \A r \in l.o2o : r.source \in Elements /\ r.target \in Elements
<1>1. {e.id : e \in l.events} \in SUBSET Int /\ {r.relation_id : r \in l.o2o} \in SUBSET Int
  BY TablesAssumption
<1>2. IsFiniteSet({e.id : e \in l.events})
  <2>1. IsFiniteSet(l.events) /\ [e \in l.events |-> e.id] \in [l.events -> Int]
    BY TablesAssumption
  <2>2. PICK f \in [l.events -> Int] : f = [e \in l.events |-> e.id]
    BY <2>1
  <2>3. IsFiniteSet({f[x] : x \in l.events})
    BY <2>1, ImageFinite
  <2>4. {f[x] : x \in l.events} = {e.id : e \in l.events}
    BY <2>2
  <2> QED
    BY <2>3, <2>4
<1>3. IsFiniteSet({r.relation_id : r \in l.o2o})
  <2>1. IsFiniteSet(l.o2o) /\ [r \in l.o2o |-> r.relation_id] \in [l.o2o -> Int]
    BY TablesAssumption
  <2>2. PICK f \in [l.o2o -> Int] : f = [r \in l.o2o |-> r.relation_id]
    BY <2>1
  <2>3. IsFiniteSet({f[x] : x \in l.o2o})
    BY <2>1, ImageFinite
  <2>4. {f[x] : x \in l.o2o} = {r.relation_id : r \in l.o2o}
    BY <2>2
  <2> QED
    BY <2>3, <2>4
<1>4. ASSUME NEW id PROVE ObjectsOf(l, id) \in SUBSET Elements
  BY TablesAssumption DEF ObjectsOf, Valid, E2oValid, HasObject
<1>5. \A r \in l.o2o : r.source \in Elements /\ r.target \in Elements
  BY TablesAssumption DEF Valid, O2oValid, HasObject
<1> QED
  BY <1>1, <1>2, <1>3, <1>4, <1>5

\* The set separates the ends of no pair of the list.
AllTogether(ids, pairs) == \A i \in 1 .. Len(pairs) : Together(ids, pairs[i])

LEMMA ConcatTogether ==
    ASSUME NEW s \in Seq(Elements \X Elements), NEW t \in Seq(Elements \X Elements), NEW ids
    PROVE  /\ s \o t \in Seq(Elements \X Elements)
           /\ AllTogether(ids, s \o t) <=> AllTogether(ids, s) /\ AllTogether(ids, t)
<1> PICK m \in Nat, n \in Nat : m = Len(s) /\ n = Len(t)
  OBVIOUS
<1>1. s \o t \in Seq(Elements \X Elements) /\ Len(s \o t) = m + n
  OBVIOUS
<1>2. \A i \in 1 .. m : (s \o t)[i] = s[i]
  OBVIOUS
<1>3. \A i \in 1 .. n : (s \o t)[m + i] = t[i]
  OBVIOUS
<1>4. /\ \A i \in 1 .. (m + n) : i \in 1 .. m \/ \E j \in 1 .. n : i = m + j
      /\ \A i \in 1 .. m : i \in 1 .. (m + n)
      /\ \A i \in 1 .. n : m + i \in 1 .. (m + n)
  <2>1. \A i \in 1 .. (m + n) : i \in 1 .. m \/ (i - m \in 1 .. n /\ i = m + (i - m))
    OBVIOUS
  <2>2. \A i \in 1 .. m : i \in 1 .. (m + n)
    OBVIOUS
  <2>3. \A i \in 1 .. n : m + i \in 1 .. (m + n)
    OBVIOUS
  <2>4. \A i \in 1 .. (m + n) : i \in 1 .. m \/ \E j \in 1 .. n : i = m + j
    BY <2>1
  <2> QED
    BY <2>2, <2>3, <2>4
<1>5. AllTogether(ids, s \o t) <=> AllTogether(ids, s) /\ AllTogether(ids, t)
  <2>1. ASSUME AllTogether(ids, s \o t) PROVE AllTogether(ids, s) /\ AllTogether(ids, t)
    <3>1. \A i \in 1 .. (m + n) : Together(ids, (s \o t)[i])
      BY <1>1, <2>1 DEF AllTogether
    <3> QED
      BY <1>2, <1>3, <1>4, <3>1 DEF AllTogether
  <2>2. ASSUME AllTogether(ids, s), AllTogether(ids, t) PROVE AllTogether(ids, s \o t)
    <3>1. ASSUME NEW i \in 1 .. (m + n) PROVE Together(ids, (s \o t)[i])
      <4>1. CASE i \in 1 .. m
        BY <1>2, <2>2, <4>1 DEF AllTogether
      <4>2. CASE \E j \in 1 .. n : i = m + j
        BY <1>3, <2>2, <4>2 DEF AllTogether
      <4> QED
        BY <1>4, <4>1, <4>2
    <3> QED
      BY <1>1, <3>1 DEF AllTogether
  <2> QED
    BY <2>1, <2>2
<1> QED
  BY <1>1, <1>5

\* The joins of an event keep its objects together, and nothing more.
LEMMA EventJoinsTogether ==
    ASSUME NEW l \in Logs, Valid(l), NEW id, NEW ids
    PROVE  /\ EventJoins(l, id) \in Seq(Elements \X Elements)
           /\ AllTogether(ids, EventJoins(l, id)) <=>
                  ObjectsOf(l, id) \subseteq ids \/ ObjectsOf(l, id) \cap ids = {}
<1> PICK S : S = ObjectsOf(l, id)
  OBVIOUS
<1>1. S \in SUBSET Int /\ S \in SUBSET Elements /\ IsFiniteSet(S)
  <2>1. S \in SUBSET Elements
    BY LogIds
  <2> QED
    BY <2>1, TablesAssumption, SizeAssumption, FS_Subset
<1> PICK s : s = SortedIds(S)
  OBVIOUS
<1>2. s \in Seq(S) /\ \A x \in S : \E i \in 1 .. Len(s) : s[i] = x
  BY <1>1, SortedIdsLists
<1>3. EventJoins(l, id) = IF s = <<>> THEN <<>> ELSE [i \in 1 .. Len(s) - 1 |-> <<s[1], s[i + 1]>>]
  BY DEF EventJoins
<1>4. CASE s = <<>>
  <2>1. EventJoins(l, id) = <<>> /\ S = {}
    BY <1>2, <1>3, <1>4
  <2> QED
    BY <2>1 DEF AllTogether
<1>5. CASE s # <<>>
  <2> PICK n \in Nat : n = Len(s)
    BY <1>2
  <2>1. n # 0 /\ s[1] \in S /\ \A i \in 1 .. n : s[i] \in S
    BY <1>2, <1>5
  <2> DEFINE t == [i \in 1 .. (n - 1) |-> <<s[1], s[i + 1]>>]
  <2>2. EventJoins(l, id) = t
    BY <1>3, <1>5
  <2>3. n - 1 \in Nat /\ \A i \in 1 .. (n - 1) : i + 1 \in 1 .. n /\ s[i + 1] \in Elements
    BY <1>1, <2>1
  <2>4. t \in Seq(Elements \X Elements) /\ Len(t) = n - 1
    BY <1>1, <2>1, <2>3
  <2>5. \A i \in 1 .. (n - 1) : t[i] = <<s[1], s[i + 1]>>
    OBVIOUS
  <2> HIDE DEF t
  <2>6. AllTogether(ids, t) <=> S \subseteq ids \/ S \cap ids = {}
    <3>1. AllTogether(ids, t) <=> \A i \in 1 .. (n - 1) : s[1] \in ids <=> s[i + 1] \in ids
      <4>1. \A i \in 1 .. (n - 1) : t[i][1] = s[1] /\ t[i][2] = s[i + 1]
        BY <2>5
      <4>2. AllTogether(ids, t) <=> \A i \in 1 .. (n - 1) : t[i][1] \in ids <=> t[i][2] \in ids
        BY <2>4 DEF AllTogether, Together
      <4> QED
        BY <4>1, <4>2
    <3>2. (\A i \in 1 .. (n - 1) : s[1] \in ids <=> s[i + 1] \in ids)
             <=> \A i \in 1 .. n : s[1] \in ids <=> s[i] \in ids
      <4>1. \A i \in 1 .. n : i = 1 \/ (i - 1 \in 1 .. (n - 1) /\ (i - 1) + 1 = i)
        BY <2>1
      <4> QED
        BY <2>3, <4>1
    <3>3. (\A i \in 1 .. n : s[1] \in ids <=> s[i] \in ids)
             <=> \A x \in S : s[1] \in ids <=> x \in ids
      BY <1>2, <2>1
    <3>4. (\A x \in S : s[1] \in ids <=> x \in ids) <=> S \subseteq ids \/ S \cap ids = {}
      BY <2>1
    <3> QED
      BY <3>1, <3>2, <3>3, <3>4
  <2> QED
    BY <2>2, <2>4, <2>6
<1> QED
  BY <1>4, <1>5

LEMMA RelationEndsFound ==
    ASSUME NEW l \in Logs, Valid(l), NEW r \in l.o2o
    PROVE  RelationEnds(l, r.relation_id) = <<r.source, r.target>>
<1>1. (CHOOSE s \in l.o2o : s.relation_id = r.relation_id) = r
  BY DEF Valid, O2oValid
<1> QED
  BY <1>1 DEF RelationEnds


\* A set of objects is closed if the joins do not lead out of it.
LEMMA JoinsTogether ==
    ASSUME NEW l \in Logs, Valid(l), NEW ids
    PROVE  /\ Joins(l) \in Seq(Elements \X Elements)
           /\ AllTogether(ids, Joins(l)) <=>
                 /\ \A e \in l.events : \/ ObjectsOf(l, e.id) \subseteq ids
                                        \/ ObjectsOf(l, e.id) \cap ids = {}
                 /\ \A r \in l.o2o : r.source \in ids <=> r.target \in ids
<1> DEFINE T == Elements \X Elements
           P == Seq(T)
<1>a. PICK A, B : A = {e.id : e \in l.events} /\ B = {r.relation_id : r \in l.o2o}
  OBVIOUS
<1>b. PICK a, b : a = SortedIds(A) /\ b = SortedIds(B)
  OBVIOUS
<1>1. /\ Len(a) \in Nat /\ Len(b) \in Nat
      /\ \A i \in 1 .. Len(a) : \E e \in l.events : a[i] = e.id
      /\ \A e \in l.events : \E i \in 1 .. Len(a) : a[i] = e.id
      /\ \A i \in 1 .. Len(b) : \E r \in l.o2o : b[i] = r.relation_id
      /\ \A r \in l.o2o : \E i \in 1 .. Len(b) : b[i] = r.relation_id
  <2>1. A \in SUBSET Int /\ IsFiniteSet(A) /\ B \in SUBSET Int /\ IsFiniteSet(B)
    BY <1>a, LogIds
  <2>2. /\ a \in Seq(A) /\ \A x \in A : \E i \in 1 .. Len(a) : a[i] = x
        /\ b \in Seq(B) /\ \A x \in B : \E i \in 1 .. Len(b) : b[i] = x
    BY <1>b, <2>1, SortedIdsLists
  <2>3. /\ Len(a) \in Nat /\ \A i \in 1 .. Len(a) : a[i] \in A
        /\ Len(b) \in Nat /\ \A i \in 1 .. Len(b) : b[i] \in B
    BY <2>2
  <2> QED
    BY <1>a, <2>2, <2>3
<1>c. PICK m \in Nat, n \in Nat : m = Len(a) /\ n = Len(b)
  BY <1>1
<1> DEFINE UpTo(f) == f = [k \in 0 .. m |-> IF k = 0 THEN <<>> ELSE f[k - 1] \o EventJoins(l, a[k])]
           g == [p \in Nat \X P |-> IF p[1] + 1 \in 1 .. m THEN p[2] \o EventJoins(l, a[p[1] + 1]) ELSE p[2]]
           ends == [i \in 1 .. n |-> RelationEnds(l, b[i])]
<1>2. \A k : EventJoins(l, a[k]) \in P
  BY EventJoinsTogether
<1>3. PICK h : UpTo(h) /\ Joins(l) = h[m] \o ends
  <2>1. g \in [Nat \X P -> P] /\ <<>> \in P
    BY <1>2
  <2>2. PICK f : NatRun(f, P, <<>>, g)
    <3> HIDE DEF g, P
    <3> QED
      BY <2>1, NatRecursion
  <2>3. UpTo([k \in 0 .. m |-> f[k]])
    <3> DEFINE q == [k \in 0 .. m |-> f[k]]
    <3> SUFFICES ASSUME NEW k \in 0 .. m, k # 0 PROVE q[k] = q[k - 1] \o EventJoins(l, a[k])
      BY <2>2 DEF NatRun
    <3>1. k - 1 \in Nat /\ k - 1 \in 0 .. m /\ (k - 1) + 1 = k /\ k \in 1 .. m
      OBVIOUS
    <3>a. \A j \in Nat : f[j + 1] = g[<<j, f[j]>>] /\ f[j] \in P
      <4> HIDE DEF g, P
      <4> QED
        BY <2>2 DEF NatRun
    <3>b. f[(k - 1) + 1] = g[<<k - 1, f[k - 1]>>] /\ f[k - 1] \in P
      <4> HIDE DEF g, P
      <4> QED
        BY <3>1, <3>a
    <3>2. f[k] = g[<<k - 1, f[k - 1]>>] /\ <<k - 1, f[k - 1]>> \in Nat \X P
      <4> HIDE DEF g, P
      <4> QED
        BY <3>1, <3>b
    <3> QED
      BY <3>1, <3>2
  <2>4. \E f1 : UpTo(f1)
    BY <2>3
  <2>5. Joins(l) = (CHOOSE f1 : UpTo(f1))[m] \o ends
    BY <1>a, <1>b, <1>c DEF Joins
  <2> HIDE DEF UpTo
  <2> QED
    BY <2>4, <2>5
<1>4. h[0] = <<>> /\ \A k \in Nat : k + 1 <= m => h[k + 1] = h[k] \o EventJoins(l, a[k + 1])
  <2>1. h[0] = <<>>
    BY <1>3
  <2>2. ASSUME NEW k \in Nat, k + 1 <= m PROVE h[k + 1] = h[k] \o EventJoins(l, a[k + 1])
    <3>1. k + 1 \in 0 .. m /\ k + 1 # 0 /\ (k + 1) - 1 = k
      BY <2>2
    <3> QED
      BY <1>3, <3>1
  <2> QED
    BY <2>1, <2>2
<1> HIDE DEF UpTo
<1> DEFINE Q == {k \in Nat : k <= m =>
                    /\ h[k] \in P
                    /\ AllTogether(ids, h[k]) <=>
                           \A i \in 1 .. k : AllTogether(ids, EventJoins(l, a[i]))}
<1>5. 0 \in Q
  <2>1. h[0] \in P /\ Len(h[0]) = 0 /\ 1 .. 0 = {}
    BY <1>4
  <2> QED
    BY <2>1 DEF AllTogether
<1>6. ASSUME NEW k \in Nat, k \in Q PROVE k + 1 \in Q
  <2> SUFFICES ASSUME k + 1 <= m
               PROVE  /\ h[k + 1] \in P
                      /\ AllTogether(ids, h[k + 1]) <=>
                             \A i \in 1 .. (k + 1) : AllTogether(ids, EventJoins(l, a[i]))
    OBVIOUS
  <2>1. /\ h[k] \in P
        /\ AllTogether(ids, h[k]) <=>
                        \A i \in 1 .. k : AllTogether(ids, EventJoins(l, a[i]))
    BY <1>6
  <2>2. h[k + 1] = h[k] \o EventJoins(l, a[k + 1])
    BY <1>4
  <2>3. /\ h[k + 1] \in P
        /\ AllTogether(ids, h[k + 1]) <=>
                        AllTogether(ids, h[k]) /\ AllTogether(ids, EventJoins(l, a[k + 1]))
    <3>1. PICK s \in P, t \in P : s = h[k] /\ t = EventJoins(l, a[k + 1])
      BY <1>2, <2>1
    <3>2. s \o t \in P /\ (AllTogether(ids, s \o t) <=> AllTogether(ids, s) /\ AllTogether(ids, t))
      BY ConcatTogether
    <3> QED
      BY <2>2, <3>1, <3>2
  <2>4. \A i : i \in 1 .. (k + 1) <=> i \in 1 .. k \/ i = k + 1
    OBVIOUS
  <2> QED
    BY <2>1, <2>3, <2>4
<1> HIDE DEF Q
<1>7. m \in Q
  BY <1>5, <1>6, NatSetInduction
<1>8. /\ h[m] \in P
      /\ AllTogether(ids, h[m]) <=> \A i \in 1 .. m : AllTogether(ids, EventJoins(l, a[i]))
  BY <1>7 DEF Q
<1>9. AllTogether(ids, h[m]) <=>
                 \A e \in l.events : \/ ObjectsOf(l, e.id) \subseteq ids
                                     \/ ObjectsOf(l, e.id) \cap ids = {}
  <2>1. \A i \in 1 .. m : \E e \in l.events : a[i] = e.id
    BY <1>1, <1>c
  <2>2. AllTogether(ids, h[m]) <=> \A e \in l.events : AllTogether(ids, EventJoins(l, e.id))
    BY <1>1, <1>c, <1>8, <2>1
  <2>3. \A e \in l.events : AllTogether(ids, EventJoins(l, e.id)) <=>
            ObjectsOf(l, e.id) \subseteq ids \/ ObjectsOf(l, e.id) \cap ids = {}
    BY EventJoinsTogether
  <2> QED
    BY <2>2, <2>3
<1>10. \A i \in 1 .. n : \E r \in l.o2o : b[i] = r.relation_id /\ ends[i] = <<r.source, r.target>>
  <2> SUFFICES ASSUME NEW i \in 1 .. n
               PROVE  \E r \in l.o2o : b[i] = r.relation_id /\ ends[i] = <<r.source, r.target>>
    OBVIOUS
  <2>1. PICK r \in l.o2o : b[i] = r.relation_id
    BY <1>1, <1>c
  <2>2. ends[i] = RelationEnds(l, b[i])
    OBVIOUS
  <2> QED
    BY <2>1, <2>2, RelationEndsFound
<1>11. \A r \in l.o2o : \E i \in 1 .. n : ends[i] = <<r.source, r.target>>
  <2> SUFFICES ASSUME NEW r \in l.o2o PROVE \E i \in 1 .. n : ends[i] = <<r.source, r.target>>
    OBVIOUS
  <2>1. PICK i \in 1 .. n : b[i] = r.relation_id
    BY <1>1, <1>c
  <2> QED
    BY <2>1, RelationEndsFound
<1>12. ends \in P /\ Len(ends) = n
  <2>1. \A i \in 1 .. n : ends[i] \in T
    <3> HIDE DEF ends
    <3>1. \A r \in l.o2o : <<r.source, r.target>> \in T
      BY LogIds
    <3> HIDE DEF T
    <3> QED
      BY <1>10, <3>1
  <2> HIDE DEF T
  <2> QED
    BY <2>1
<1> HIDE DEF ends
<1>13. AllTogether(ids, ends) <=> \A r \in l.o2o : r.source \in ids <=> r.target \in ids
  <2>1. AllTogether(ids, ends) <=> \A i \in 1 .. n : ends[i][1] \in ids <=> ends[i][2] \in ids
    BY <1>12 DEF AllTogether, Together
  <2>2. \A i \in 1 .. n : \E r \in l.o2o : ends[i][1] = r.source /\ ends[i][2] = r.target
    BY <1>10
  <2>3. \A r \in l.o2o : \E i \in 1 .. n : ends[i][1] = r.source /\ ends[i][2] = r.target
    BY <1>11
  <2> QED
    BY <2>1, <2>2, <2>3
<1>14. /\ Joins(l) \in P
       /\ AllTogether(ids, Joins(l)) <=> AllTogether(ids, h[m]) /\ AllTogether(ids, ends)
  <2>1. PICK s \in P : s = h[m]
    BY <1>8
  <2>2. s \o ends \in P /\ (AllTogether(ids, s \o ends) <=> AllTogether(ids, s) /\ AllTogether(ids, ends))
    BY <1>12, ConcatTogether
  <2> QED
    BY <1>3, <2>1, <2>2
<1> QED
  BY <1>9, <1>13, <1>14

LEMMA ClosedTogether ==
    ASSUME log \in Logs, Valid(log), NEW ids
    PROVE  Closed(ids) <=> AllTogether(ids, Joins(log))
BY JoinsTogether DEF Closed

LEMMA KeptAreElements ==
    ASSUME log \in Logs
    PROVE  KeptIds \in SUBSET Elements /\ KeptIds \in SUBSET Int /\ IsFiniteSet(KeptIds)
<1>1. KeptIds \in SUBSET Elements
  BY TablesAssumption DEF KeptIds, KeptObjects
<1> QED
  BY <1>1, TablesAssumption, SizeAssumption, FS_Subset

-----------------------------------------------------------------------------
(* The inductive invariant of a request.                                   *)

LEMMA InitProvider == ProviderInit => ProviderInv
<1> SUFFICES ASSUME ProviderInit PROVE ProviderInv
  OBVIOUS
<1> USE DEF ProviderInit, ProviderFrom
<1>1. ForestInv
  BY InitHolds
<1>2. /\ log \in Logs /\ Valid(log) /\ request \in Requests
      /\ phase = request.kind /\ phase \in {"connected", "leading", "population"}
      /\ pc = "idle" /\ ~Joining /\ class = [x \in Elements |-> x]
  BY RequestsAssumption DEF Joining, Init
<1>3. pending = Joins(log) /\ pending \in Seq(Elements \X Elements)
  BY <1>2, JoinsTogether
<1>4. ProviderTypeOK /\ PhasesMatch
  BY <1>2, <1>3 DEF ProviderTypeOK, PhasesMatch
<1>5. JoinsComplete
  BY <1>3 DEF JoinsComplete
<1>6. JoinsSound
  <2> SUFFICES ASSUME NEW ids \in SUBSET Elements, Closed(ids)
               PROVE  /\ \A i \in 1 .. Len(pending) : Together(ids, pending[i])
                      /\ \A x, y \in Elements : class[x] = class[y] => (x \in ids <=> y \in ids)
    BY <1>2 DEF JoinsSound
  <2>1. AllTogether(ids, Joins(log))
    BY <1>2, ClosedTogether
  <2> QED
    BY <1>2, <1>3, <2>1 DEF AllTogether
<1>7. GroupsFollowRoots /\ ComponentsExact /\ AnswersMatch
  BY <1>2 DEF GroupsFollowRoots, ComponentsExact, AnswersMatch, Answered
<1> QED
  BY <1>1, <1>4, <1>5, <1>6, <1>7 DEF ProviderInv

\* The provider calls the forest with elements only, and one call at a time.
LEMMA ProviderUsesNext ==
    ASSUME ProviderInv, [ProviderNext]_<<vars, providerVars>>
    PROVE  [Next]_vars
<1>1. CASE NextJoin
  <2>1. Head(pending) \in Elements \X Elements
    BY <1>1 DEF NextJoin, ProviderInv, ProviderTypeOK
  <2>2. Head(pending)[1] \in Elements /\ Head(pending)[2] \in Elements
    BY <2>1
  <2> QED
    BY <1>1, <2>2 DEF NextJoin, Next
<1>2. CASE NextRoot
  <2>1. Head(todo) \in Elements
    BY <1>2 DEF NextRoot, ProviderInv, ProviderTypeOK
  <2> QED
    BY <1>2, <2>1 DEF NextRoot, Next
<1>3. CASE RunForest \/ GroupObject
  BY <1>3 DEF RunForest, GroupObject, Next, Step
<1>4. CASE StartGrouping \/ AnswerConnected \/ AnswerLeading \/ AnswerPopulation
  BY <1>4 DEF StartGrouping, AnswerConnected, AnswerLeading, AnswerPopulation, vars
<1>5. CASE UNCHANGED <<vars, providerVars>>
  BY <1>5
<1> QED
  BY <1>1, <1>2, <1>3, <1>4, <1>5 DEF ProviderNext

LEMMA NextJoinKeeps ==
    ASSUME ProviderInv, NextJoin, ForestInv'
    PROVE  ProviderInv'
<1>1. /\ phase = "connected" /\ pending # <<>> /\ pc = "idle" /\ pc' = "left"
      /\ call' = <<Head(pending)[1], Head(pending)[2]>> /\ pending' = Tail(pending)
      /\ UNCHANGED <<log, request, phase, todo, groups, answer, parent, class>>
  BY DEF NextJoin, Join
<1>2. ProviderTypeOK /\ pending \in Seq(Elements \X Elements)
  BY DEF ProviderInv, ProviderTypeOK
<1>3. /\ pending' \in Seq(Elements \X Elements)
      /\ \A i \in 1 .. Len(pending') : i + 1 \in 1 .. Len(pending) /\ pending'[i] = pending[i + 1]
      /\ \A i \in 1 .. Len(pending) :
             \/ i = 1 /\ pending[i] = call'
             \/ i - 1 \in 1 .. Len(pending') /\ pending'[i - 1] = pending[i]
      /\ 1 \in 1 .. Len(pending) /\ call' = pending[1] /\ call' \in Elements \X Elements
  <2>1. /\ Head(pending) \in Elements \X Elements /\ Head(pending) = pending[1]
        /\ Len(pending) \in Nat \ {0} /\ Len(pending') = Len(pending) - 1
        /\ pending' \in Seq(Elements \X Elements)
    BY <1>1, <1>2
  <2>2. call' = pending[1] /\ call' \in Elements \X Elements
    BY <1>1, <2>1
  <2>3. \A i \in 1 .. Len(pending') : i + 1 \in 1 .. Len(pending) /\ pending'[i] = pending[i + 1]
    BY <1>1, <1>2, <2>1
  <2>4. \A i \in 1 .. Len(pending) : i = 1 \/ i - 1 \in 1 .. Len(pending')
    BY <2>1
  <2>5. \A i \in 1 .. Len(pending) : i - 1 \in 1 .. Len(pending') => pending'[i - 1] = pending[i]
    BY <2>1, <2>3
  <2> QED
    BY <2>1, <2>2, <2>3, <2>4, <2>5
<1>4. Joining' /\ ~Joining
  BY <1>1 DEF Joining
<1>5. ProviderTypeOK' /\ PhasesMatch'
  BY <1>1, <1>2, <1>3 DEF ProviderInv, ProviderTypeOK, PhasesMatch, Joining
<1>6. JoinsComplete'
  <2> SUFFICES ASSUME NEW i \in 1 .. Len(Joins(log))
               PROVE  \/ \E j \in 1 .. Len(pending') : pending'[j] = Joins(log)[i]
                      \/ call' = Joins(log)[i]
                      \/ class[Joins(log)[i][1]] = class[Joins(log)[i][2]]
    BY <1>1, <1>4 DEF JoinsComplete
  <2>1. \/ \E j \in 1 .. Len(pending) : pending[j] = Joins(log)[i]
        \/ class[Joins(log)[i][1]] = class[Joins(log)[i][2]]
    BY <1>1, <1>4 DEF ProviderInv, JoinsComplete
  <2>2. ASSUME NEW j \in 1 .. Len(pending), pending[j] = Joins(log)[i]
        PROVE  (\E k \in 1 .. Len(pending') : pending'[k] = Joins(log)[i]) \/ call' = Joins(log)[i]
    BY <1>3, <2>2
  <2> QED
    BY <2>1, <2>2
<1>7. JoinsSound'
  <2> SUFFICES ASSUME NEW ids \in SUBSET Elements, Closed(ids)
               PROVE  /\ \A i \in 1 .. Len(pending') : Together(ids, pending'[i])
                      /\ Together(ids, call')
                      /\ \A x, y \in Elements : class[x] = class[y] => (x \in ids <=> y \in ids)
    BY <1>1, <1>4 DEF JoinsSound, Closed
  <2>1. /\ \A i \in 1 .. Len(pending) : Together(ids, pending[i])
        /\ \A x, y \in Elements : class[x] = class[y] => (x \in ids <=> y \in ids)
    BY <1>1 DEF ProviderInv, JoinsSound
  <2> QED
    BY <1>3, <2>1
<1>8. GroupsFollowRoots' /\ ComponentsExact' /\ AnswersMatch'
  BY <1>1 DEF GroupsFollowRoots, ComponentsExact, AnswersMatch, Answered
<1> QED
  BY <1>5, <1>6, <1>7, <1>8 DEF ProviderInv

\* While the forest works, the request waits; the invariant follows from what happens
\* to the roots and the classes.
LEMMA ForestStepKeeps ==
    ASSUME ProviderInv, ForestInv', UNCHANGED providerVars,
           UNCHANGED <<call, class>>, Joining' <=> Joining, pc' = "find" <=> pc = "find",
           \A x \in Elements : parent'[x] = x <=> parent[x] = x
    PROVE  ProviderInv'
<1>1. UNCHANGED <<log, request, phase, pending, todo, groups, answer, call, class>>
  BY DEF providerVars
<1>2. ProviderTypeOK' /\ PhasesMatch'
  BY <1>1 DEF ProviderInv, ProviderTypeOK, PhasesMatch
<1>3. JoinsComplete' /\ JoinsSound'
  <2>1. JoinsComplete'
    BY <1>1 DEF ProviderInv, JoinsComplete
  <2>2. JoinsSound'
    BY <1>1 DEF ProviderInv, JoinsSound, Closed
  <2> QED
    BY <2>1, <2>2
<1>4. GroupsFollowRoots'
  BY <1>1 DEF ProviderInv, GroupsFollowRoots, KeptIds
<1>5. ComponentsExact' /\ AnswersMatch'
  BY <1>1 DEF ProviderInv, ComponentsExact, AnswersMatch, Answered, Component, Closed
<1> QED
  BY <1>2, <1>3, <1>4, <1>5 DEF ProviderInv

\* A link merges the classes of a pair that no closed set separates.
LEMMA LinkKeeps ==
    ASSUME ProviderInv, Link, ForestInv', UNCHANGED providerVars
    PROVE  ProviderInv'
<1>1. /\ UNCHANGED <<log, request, phase, pending, todo, groups, answer>>
      /\ pc = "right" /\ pc' = "idle" /\ Joining /\ ~Joining'
      /\ class' = Merged(call[1], call[2])
  BY DEF providerVars, Link, Joining
<1>2. /\ phase = "connected" /\ phase' = "connected"
      /\ call \in Elements \X Elements /\ class \in [Elements -> Elements]
      /\ log \in Logs /\ Valid(log)
  BY <1>1 DEF ProviderInv, PhasesMatch, ForestInv, TypeOK, ProviderTypeOK
<1>3. /\ call[1] \in Elements /\ call[2] \in Elements /\ class' \in [Elements -> Elements]
      /\ \A z \in Elements : class'[z] = IF class[z] = class[call[2]] THEN class[call[1]] ELSE class[z]
  BY <1>1, <1>2 DEF Merged
<1>4. ProviderTypeOK' /\ PhasesMatch'
  BY <1>1, <1>2 DEF ProviderInv, ProviderTypeOK, PhasesMatch
<1>5. JoinsComplete'
  <2> SUFFICES ASSUME NEW i \in 1 .. Len(Joins(log)), NEW p, p = Joins(log)[i]
               PROVE  \/ \E j \in 1 .. Len(pending) : pending[j] = p
                      \/ class'[p[1]] = class'[p[2]]
    BY <1>1 DEF JoinsComplete
  <2>1. p \in Elements \X Elements
    BY <1>2, JoinsTogether
  <2>2. p[1] \in Elements /\ p[2] \in Elements
    BY <2>1
  <2>3. (\E j \in 1 .. Len(pending) : pending[j] = p) \/ call = p \/ class[p[1]] = class[p[2]]
    BY <1>1, <1>2 DEF ProviderInv, JoinsComplete
  <2>4. CASE call = p
    BY <1>3, <2>2, <2>4
  <2>5. CASE class[p[1]] = class[p[2]]
    BY <1>3, <2>2, <2>5
  <2> QED
    BY <2>3, <2>4, <2>5
<1>6. JoinsSound'
  <2> SUFFICES ASSUME NEW ids \in SUBSET Elements, Closed(ids)
               PROVE  /\ \A i \in 1 .. Len(pending) : Together(ids, pending[i])
                      /\ \A x, y \in Elements : class'[x] = class'[y] => (x \in ids <=> y \in ids)
    BY <1>1 DEF JoinsSound, Closed
  <2>1. /\ \A i \in 1 .. Len(pending) : Together(ids, pending[i])
        /\ call[1] \in ids <=> call[2] \in ids
        /\ \A x, y \in Elements : class[x] = class[y] => (x \in ids <=> y \in ids)
    BY <1>1, <1>2 DEF ProviderInv, JoinsSound, Together
  <2>2. ASSUME NEW x \in Elements, NEW y \in Elements, class'[x] = class'[y]
        PROVE  x \in ids <=> y \in ids
    <3>1. CASE class[x] = class[y]
      BY <2>1, <3>1
    <3>2. CASE class[x] = class[call[2]] /\ class[y] = class[call[1]]
      BY <1>3, <2>1, <3>2
    <3>3. CASE class[x] = class[call[1]] /\ class[y] = class[call[2]]
      BY <1>3, <2>1, <3>3
    <3> QED
      BY <1>3, <2>2, <3>1, <3>2, <3>3
  <2> QED
    BY <2>1, <2>2
<1>7. GroupsFollowRoots' /\ ComponentsExact' /\ AnswersMatch'
  BY <1>2 DEF GroupsFollowRoots, ComponentsExact, AnswersMatch, Answered
<1> QED
  BY <1>4, <1>5, <1>6, <1>7 DEF ProviderInv

LEMMA RunForestKeeps ==
    ASSUME ProviderInv, RunForest, ForestInv'
    PROVE  ProviderInv'
<1>1. UNCHANGED providerVars /\ ForestInv
  BY DEF RunForest, ProviderInv
<1>2. CASE Descend \/ AtRoot
  BY <1>1, <1>2, ForestStepKeeps DEF Descend, AtRoot, Joining
<1>3. CASE Return
  <2>1. \A x \in Elements : parent'[x] = x <=> parent[x] = x
    BY <1>1, <1>3, ReturnKeepsRoots
  <2> QED
    BY <1>1, <1>3, <2>1, ForestStepKeeps DEF Return, Joining
<1>4. CASE LeftRoot
  BY <1>1, <1>4, ForestStepKeeps DEF LeftRoot, Joining
<1>5. CASE Link
  BY <1>1, <1>5, LinkKeeps
<1> QED
  BY <1>2, <1>3, <1>4, <1>5 DEF RunForest

LEMMA StartGroupingKeeps ==
    ASSUME ProviderInv, StartGrouping, ForestInv'
    PROVE  ProviderInv'
<1>1. /\ phase = "connected" /\ pending = <<>> /\ pc = "idle" /\ phase' = "grouping"
      /\ todo' = SortedIds(KeptIds)
      /\ UNCHANGED <<log, request, pending, groups, answer, pc, call, class, parent>>
  BY DEF StartGrouping, KeptIds, vars
<1>2. /\ log \in Logs /\ request.kind = "connected" /\ ~Joining /\ ~Joining'
      /\ groups = [x \in Elements |-> {}] /\ KeptIds' = KeptIds
  BY <1>1 DEF ProviderInv, ProviderTypeOK, PhasesMatch, Joining, KeptIds
<1>3. /\ KeptIds \in SUBSET Elements
      /\ todo' \in Seq(KeptIds) /\ \A y \in KeptIds : \E i \in 1 .. Len(todo') : todo'[i] = y
  BY <1>1, <1>2, KeptAreElements, SortedIdsLists
<1>4. todo' \in Seq(Elements) /\ \A i \in 1 .. Len(todo') : todo'[i] \in KeptIds
  BY <1>3
<1>5. ProviderTypeOK' /\ PhasesMatch'
  BY <1>1, <1>2, <1>4 DEF ProviderInv, ProviderTypeOK, PhasesMatch
<1>6. JoinsComplete' /\ JoinsSound'
  <2>1. JoinsComplete'
    BY <1>1, <1>2 DEF ProviderInv, JoinsComplete
  <2>2. JoinsSound'
    BY <1>1, <1>2 DEF ProviderInv, JoinsSound, Closed
  <2> QED
    BY <2>1, <2>2
<1>7. GroupsFollowRoots'
  BY <1>1, <1>2, <1>3, <1>4 DEF GroupsFollowRoots
<1>8. ComponentsExact' /\ AnswersMatch'
  BY <1>1 DEF ComponentsExact, AnswersMatch, Answered
<1> QED
  BY <1>5, <1>6, <1>7, <1>8 DEF ProviderInv

LEMMA NextRootKeeps ==
    ASSUME ProviderInv, NextRoot, ForestInv'
    PROVE  ProviderInv'
<1>1. /\ phase = "grouping" /\ todo # <<>> /\ pc' = "find" /\ call' = <<Head(todo), Head(todo)>>
      /\ UNCHANGED <<log, request, phase, pending, todo, groups, answer, class, parent>>
      /\ ~Joining /\ ~Joining'
  BY DEF NextRoot, Root, providerVars, Joining
<1>2. ProviderTypeOK' /\ PhasesMatch'
  BY <1>1 DEF ProviderInv, ProviderTypeOK, PhasesMatch
<1>3. JoinsComplete' /\ JoinsSound'
  <2>1. JoinsComplete'
    BY <1>1 DEF ProviderInv, JoinsComplete
  <2>2. JoinsSound'
    BY <1>1 DEF ProviderInv, JoinsSound, Closed
  <2> QED
    BY <2>1, <2>2
<1>4. GroupsFollowRoots'
  BY <1>1 DEF ProviderInv, GroupsFollowRoots, KeptIds
<1>5. ComponentsExact' /\ AnswersMatch'
  BY <1>1 DEF ComponentsExact, AnswersMatch, Answered
<1> QED
  BY <1>2, <1>3, <1>4, <1>5 DEF ProviderInv

LEMMA GroupObjectKeeps ==
    ASSUME ProviderInv, GroupObject, ForestInv'
    PROVE  ProviderInv'
<1>1. /\ phase = "grouping" /\ pc = "find" /\ Returned /\ pc' = "idle"
      /\ groups' = [groups EXCEPT ![found] = @ \cup {Head(todo)}] /\ todo' = Tail(todo)
      /\ UNCHANGED <<log, request, phase, pending, answer, class, parent>>
      /\ ~Joining /\ ~Joining' /\ KeptIds' = KeptIds
  BY DEF GroupObject, Found, Joining, KeptIds
<1>2. /\ todo # <<>> /\ call[1] = Head(todo) /\ todo \in Seq(Elements)
      /\ groups \in [Elements -> SUBSET Elements]
  BY <1>1 DEF ProviderInv, ProviderTypeOK, PhasesMatch
<1>3. /\ found \in Elements /\ parent[found] = found /\ class[found] = class[Head(todo)]
  BY <1>1, <1>2 DEF ProviderInv, ForestInv, TypeOK, FoundIsRoot, Wanted, Returned
<1>4. /\ Head(todo) = todo[1] /\ Head(todo) \in Elements /\ 1 \in 1 .. Len(todo)
      /\ todo' \in Seq(Elements)
      /\ \A i \in 1 .. Len(todo') : i + 1 \in 1 .. Len(todo) /\ todo'[i] = todo[i + 1]
      /\ \A i \in 1 .. Len(todo) : i = 1 \/ (i - 1 \in 1 .. Len(todo') /\ todo'[i - 1] = todo[i])
  <2>1. /\ Head(todo) \in Elements /\ Head(todo) = todo[1] /\ Len(todo) \in Nat \ {0}
        /\ Len(todo') = Len(todo) - 1 /\ todo' \in Seq(Elements)
    BY <1>1, <1>2
  <2>2. \A i \in 1 .. Len(todo') : i + 1 \in 1 .. Len(todo) /\ todo'[i] = todo[i + 1]
    BY <1>1, <1>2, <2>1
  <2>3. \A i \in 1 .. Len(todo) : i = 1 \/ i - 1 \in 1 .. Len(todo')
    BY <2>1
  <2>4. \A i \in 1 .. Len(todo) : i - 1 \in 1 .. Len(todo') => todo'[i - 1] = todo[i]
    BY <2>1, <2>2
  <2> QED
    BY <2>1, <2>2, <2>3, <2>4
<1>5. /\ groups' \in [Elements -> SUBSET Elements]
      /\ \A x \in Elements : groups'[x] = IF x = found THEN groups[x] \cup {Head(todo)} ELSE groups[x]
  BY <1>1, <1>2, <1>3, <1>4
<1>6. ProviderTypeOK' /\ PhasesMatch'
  BY <1>1, <1>4, <1>5 DEF ProviderInv, ProviderTypeOK, PhasesMatch
<1>7. JoinsComplete' /\ JoinsSound'
  <2>1. JoinsComplete'
    BY <1>1 DEF ProviderInv, JoinsComplete
  <2>2. JoinsSound'
    BY <1>1 DEF ProviderInv, JoinsSound, Closed
  <2> QED
    BY <2>1, <2>2
<1>8. GroupsFollowRoots'
  <2>1. /\ \A x \in Elements : groups[x] # {} => parent[x] = x
        /\ \A x \in Elements : \A y \in groups[x] : class[y] = class[x] /\ y \in KeptIds
        /\ \A y \in KeptIds : (\E x \in Elements : y \in groups[x]) \/ \E i \in 1 .. Len(todo) : todo[i] = y
        /\ \A i \in 1 .. Len(todo) : todo[i] \in KeptIds
    BY <1>1 DEF ProviderInv, GroupsFollowRoots
  <2>2. \A x \in Elements : groups'[x] # {} => parent[x] = x
    BY <1>3, <1>5, <2>1
  <2>3. \A x \in Elements : \A y \in groups'[x] : class[y] = class[x] /\ y \in KeptIds
    BY <1>3, <1>4, <1>5, <2>1
  <2>4. ASSUME NEW y \in KeptIds
        PROVE  (\E x \in Elements : y \in groups'[x]) \/ \E i \in 1 .. Len(todo') : todo'[i] = y
    <3>1. CASE \E x \in Elements : y \in groups[x]
      BY <1>5, <3>1
    <3>2. ASSUME NEW i \in 1 .. Len(todo), todo[i] = y
          PROVE  (\E x \in Elements : y \in groups'[x]) \/ \E j \in 1 .. Len(todo') : todo'[j] = y
      <4>1. CASE i = 1
        BY <1>3, <1>4, <1>5, <3>2, <4>1
      <4>2. CASE i # 1
        BY <1>4, <3>2, <4>2
      <4> QED
        BY <4>1, <4>2
    <3> QED
      BY <2>1, <3>1, <3>2
  <2>5. \A i \in 1 .. Len(todo') : todo'[i] \in KeptIds
    BY <1>4, <2>1
  <2> QED
    BY <1>1, <2>2, <2>3, <2>4, <2>5 DEF GroupsFollowRoots
<1>9. ComponentsExact' /\ AnswersMatch'
  BY <1>1 DEF ComponentsExact, AnswersMatch, Answered
<1> QED
  BY <1>6, <1>7, <1>8, <1>9 DEF ProviderInv

\* When every pair has been joined, the classes are the components.
LEMMA ClassesAreComponents ==
    ASSUME ProviderInv, phase = "grouping", NEW id \in Elements
    PROVE  Component(id) = Members(id)
<1>1. /\ log \in Logs /\ Valid(log) /\ pending = <<>> /\ ~Joining
  BY DEF ProviderInv, ProviderTypeOK, PhasesMatch
<1>2. Closed(Members(id))
  <2>1. Joins(log) \in Seq(Elements \X Elements)
    BY <1>1, JoinsTogether
  <2>2. ASSUME NEW i \in 1 .. Len(Joins(log)) PROVE Together(Members(id), Joins(log)[i])
    <3>1. PICK p : p = Joins(log)[i]
      OBVIOUS
    <3>2. p \in Elements \X Elements
      BY <2>1, <3>1
    <3>3. class[p[1]] = class[p[2]]
      <4>1. Len(pending) = 0
        BY <1>1
      <4> QED
        BY <1>1, <3>1, <4>1 DEF ProviderInv, JoinsComplete
    <3>4. p[1] \in Members(id) <=> p[2] \in Members(id)
      BY <3>2, <3>3 DEF Members
    <3> QED
      BY <3>1, <3>4 DEF Together
  <2> QED
    BY <1>1, <2>2, ClosedTogether DEF AllTogether
<1>3. Members(id) \in SUBSET Elements /\ id \in Members(id)
  BY DEF Members
<1>4. \A x \in Component(id) : x \in Members(id)
  BY <1>2, <1>3 DEF Component
<1>5. ASSUME NEW x \in Members(id), NEW ids \in SUBSET Elements, id \in ids, Closed(ids)
      PROVE  x \in ids
  BY <1>5 DEF ProviderInv, JoinsSound, Members
<1>6. \A x \in Members(id) : x \in Elements
  BY DEF Members
<1>7. \A x \in Members(id) : x \in Component(id)
  BY <1>5, <1>6 DEF Component
<1> QED
  BY <1>4, <1>7

LEMMA AnswerConnectedKeeps ==
    ASSUME ProviderInv, AnswerConnected, ForestInv'
    PROVE  ProviderInv'
<1>1. /\ phase = "grouping" /\ todo = <<>> /\ phase' = "answered"
      /\ answer' = Wanting(request.view, {Execution(log, request.view, groups[x]) :
                                              x \in {y \in Elements : groups[y] # {}}})
      /\ UNCHANGED <<log, request, pending, todo, groups, class, parent, pc, call>>
  BY DEF AnswerConnected, vars
<1>2. /\ log \in Logs /\ request.kind = "connected" /\ pc # "find" /\ ~Joining /\ ~Joining'
      /\ groups \in [Elements -> SUBSET Elements] /\ KeptIds \in SUBSET Elements
  BY <1>1, KeptAreElements DEF ProviderInv, ProviderTypeOK, PhasesMatch, Joining
<1>3. /\ \A x \in Elements : groups[x] # {} => parent[x] = x
      /\ \A x \in Elements : \A y \in groups[x] : class[y] = class[x] /\ y \in KeptIds
      /\ \A y \in KeptIds : \E x \in Elements : y \in groups[x]
  <2>1. Len(todo) = 0
    BY <1>1
  <2> QED
    BY <1>1, <2>1 DEF ProviderInv, GroupsFollowRoots
<1>4. ASSUME NEW x \in Elements, NEW id \in groups[x]
      PROVE  groups[x] = Component(id) \cap KeptIds
  <2>1. id \in Elements /\ Component(id) = Members(id)
    BY <1>1, <1>2, ClassesAreComponents
  <2>2. \A y \in groups[x] : y \in Members(id) \cap KeptIds
    BY <1>2, <1>3 DEF Members
  <2>3. ASSUME NEW y \in Members(id) \cap KeptIds PROVE y \in groups[x]
    <3>1. PICK z \in Elements : y \in groups[z]
      BY <1>3
    <3>2. class[z] = class[x] /\ parent[z] = z /\ parent[x] = x
      BY <1>2, <1>3, <3>1, <2>3 DEF Members
    <3>3. z = x
      BY <3>2 DEF ProviderInv, ForestInv, OneRootPerClass
    <3> QED
      BY <3>1, <3>3
  <2> QED
    BY <2>1, <2>2, <2>3
<1>5. {Execution(log, request.view, groups[x]) : x \in {y \in Elements : groups[y] # {}}}
          = {Execution(log, request.view, Component(id) \cap KeptIds) : id \in KeptIds}
  <2>1. ASSUME NEW x \in Elements, groups[x] # {}
        PROVE  \E id \in KeptIds : groups[x] = Component(id) \cap KeptIds
    <3>1. PICK id \in groups[x] : TRUE
      BY <2>1
    <3> QED
      BY <1>3, <1>4, <3>1
  <2>2. ASSUME NEW id \in KeptIds
        PROVE  \E x \in Elements : groups[x] # {} /\ groups[x] = Component(id) \cap KeptIds
    <3>1. PICK x \in Elements : id \in groups[x]
      BY <1>3
    <3> QED
      BY <1>4, <3>1
  <2> QED
    BY <2>1, <2>2
<1>6. ComponentsExact'
  <2>1. answer' = Wanting(request.view, {Execution(log, request.view, Component(id) \cap KeptIds) :
                                             id \in KeptIds})
    BY <1>1, <1>5
  <2> QED
    BY <1>1, <2>1 DEF ComponentsExact, KeptIds, Component, Closed
<1>7. ProviderTypeOK' /\ PhasesMatch'
  BY <1>1, <1>2 DEF ProviderInv, ProviderTypeOK, PhasesMatch
<1>8. JoinsComplete' /\ JoinsSound' /\ GroupsFollowRoots'
  BY <1>1 DEF JoinsComplete, JoinsSound, GroupsFollowRoots
<1>9. AnswersMatch'
  BY <1>1, <1>2 DEF AnswersMatch, Answered
<1> QED
  BY <1>6, <1>7, <1>8, <1>9 DEF ProviderInv

LEMMA OtherAnswersKeep ==
    ASSUME ProviderInv, AnswerLeading \/ AnswerPopulation, ForestInv'
    PROVE  ProviderInv'
<1>1. /\ phase \in {"leading", "population"} /\ phase' \in {"answered", "refused"}
      /\ UNCHANGED <<log, request, pending, todo, groups, class, parent, pc, call>>
      /\ phase = "leading" => answer' = Leading(log, request.view, LeadingType(request))
      /\ phase = "population" /\ phase' = "answered" =>
             ~PopulationRefused(request) /\ answer' = Resolved(log, request)
  BY DEF AnswerLeading, AnswerPopulation, vars
<1>2. request.kind = phase /\ ~Joining /\ ~Joining' /\ pc # "find"
  BY <1>1 DEF ProviderInv, PhasesMatch, Joining
<1>3. ProviderTypeOK' /\ PhasesMatch'
  BY <1>1, <1>2 DEF ProviderInv, ProviderTypeOK, PhasesMatch
<1>4. JoinsComplete' /\ JoinsSound' /\ GroupsFollowRoots'
  BY <1>1 DEF JoinsComplete, JoinsSound, GroupsFollowRoots
<1>5. ComponentsExact' /\ AnswersMatch'
  BY <1>1, <1>2 DEF ComponentsExact, AnswersMatch, Answered
<1> QED
  BY <1>3, <1>4, <1>5 DEF ProviderInv

\* The invariant of a request: joins, lookups and groups agree with the log.
THEOREM ProviderInvariant == ProviderSpec => []ProviderInv
<1>1. ProviderInv /\ [ProviderNext]_<<vars, providerVars>> => ProviderInv'
  <2> SUFFICES ASSUME ProviderInv, [ProviderNext]_<<vars, providerVars>> PROVE ProviderInv'
    OBVIOUS
  <2>1. ForestInv'
    BY ProviderUsesNext, NextHolds DEF ProviderInv
  <2>2. CASE UNCHANGED <<vars, providerVars>>
    BY <2>1, <2>2, ForestStepKeeps DEF vars, Joining
  <2> QED
    BY <2>1, <2>2, NextJoinKeeps, RunForestKeeps, StartGroupingKeeps, NextRootKeeps,
       GroupObjectKeeps, AnswerConnectedKeeps, OtherAnswersKeep DEF ProviderNext
<1> QED
  BY <1>1, InitProvider, PTL DEF ProviderSpec

\* connected_executions returns the connected components of the graph of events,
\* objects and relations, seen through the view: whatever the log, the order of the
\* joins and the state of the forest, none is split and none mixed with another.
THEOREM ConnectedAreComponents == ProviderSpec => []ComponentsExact
<1>1. ProviderInv => ComponentsExact
  BY DEF ProviderInv
<1> QED
  BY <1>1, ProviderInvariant, PTL

\* connected_executions uses its UnionFind as UnionFind's specification allows.
THEOREM ProviderUsesForest == ProviderSpec => UsesForest
<1>1. ProviderInit => Init
  BY DEF ProviderInit, ProviderFrom
<1>2. ProviderInv /\ [ProviderNext]_<<vars, providerVars>> => [Next]_vars
  BY ProviderUsesNext
<1> QED
  BY <1>1, <1>2, ProviderInvariant, PTL DEF ProviderSpec, UsesForest

\* So within the provider's requests, too, UnionFind::root returns the one root of a
\* component, by a recursion that stays shallow.
THEOREM ProviderForestSound == ProviderSpec => [](RootDecides /\ RecursionIsShallow)
<1>1. UsesForest <=> Spec
  BY DEF UsesForest, Spec
<1> QED
  BY <1>1, ProviderUsesForest, RootsDecideComponents, RecursionStaysShallow, PTL

-----------------------------------------------------------------------------
(* Leading executions and populations.                                     *)

\* The object o has an execution in the answer of leading_executions.
Leads(l, view, type, o) ==
    /\ o \in KeptObjects(l, view)
    /\ type = None \/ o.object_type = type
    /\ EventsFor(l, view, {o.id}) # <<>>
    /\ DurationMatches(view, EventsFor(l, view, {o.id}))

LEMMA ExecutionFields ==
    ASSUME NEW l, NEW view, NEW ids
    PROVE  /\ Execution(l, view, ids).object_ids = ids
           /\ Execution(l, view, ids).events = EventsFor(l, view, ids)
BY DEF Execution

\* x is the execution of such an object.
LedBy(l, view, type, x, o) == Leads(l, view, type, o) /\ x = Execution(l, view, {o.id})

LEMMA LeadingLed ==
    ASSUME NEW l, NEW view, NEW type, NEW x
    PROVE  x \in Leading(l, view, type) <=> \E o \in l.objects : LedBy(l, view, type, x, o)
<1>1. KeptObjects(l, view) \subseteq l.objects
  BY DEF KeptObjects
<1>2. x \in Leading(l, view, type) <=>
          /\ \E o \in KeptObjects(l, view) : /\ type = None \/ o.object_type = type
                                             /\ x = Execution(l, view, {o.id})
          /\ x.events # <<>> /\ DurationMatches(view, x.events)
  BY DEF Leading, Wanting
<1>3. ASSUME NEW o, x = Execution(l, view, {o.id})
      PROVE  x.events = EventsFor(l, view, {o.id})
  BY <1>3, ExecutionFields
<1>4. ASSUME NEW o \in KeptObjects(l, view), type = None \/ o.object_type = type,
             x = Execution(l, view, {o.id}), x.events # <<>>, DurationMatches(view, x.events)
      PROVE  Leads(l, view, type, o)
  <2>1. x.events = EventsFor(l, view, {o.id})
    BY <1>3, <1>4
  <2> QED
    BY <1>4, <2>1 DEF Leads
<1>5. ASSUME NEW o \in l.objects, Leads(l, view, type, o), x = Execution(l, view, {o.id})
      PROVE  x \in Leading(l, view, type)
  <2>1. x.events = EventsFor(l, view, {o.id})
    BY <1>3, <1>5
  <2> QED
    BY <1>2, <1>5, <2>1 DEF Leads
<1> QED
  BY <1>1, <1>2, <1>4, <1>5 DEF LedBy

\* The view that filters nothing but durations.
Plain(view) ==
    [DefaultView EXCEPT !.minimum_duration = view.minimum_duration,
                        !.maximum_duration = view.maximum_duration]

LEMMA PlainFields ==
    ASSUME NEW view
    PROVE  LET p == Plain(view)
           IN /\ p.start = None /\ p.end = None /\ p.event_ids = {} /\ p.activities = {}
              /\ p.statuses = {} /\ p.qualifiers = {}
              /\ p.object_types = {} /\ p.object_ids = {} /\ p.object_attributes = {}
              /\ p.related_object_types = {}
              /\ p.minimum_duration = view.minimum_duration
              /\ p.maximum_duration = view.maximum_duration
BY DEF Plain, DefaultView

LEMMA SnapshotEvents ==
    ASSUME NEW l, NEW view, NEW o \in KeptObjects(l, view)
    PROVE  EventsFor(Snapshot(l, view), Plain(view), {o.id}) = EventsFor(l, view, {o.id})
<1>1. /\ Plain(view).start = None /\ Plain(view).end = None /\ Plain(view).event_ids = {} /\ Plain(view).activities = {}
      /\ Plain(view).statuses = {} /\ Plain(view).qualifiers = {}
  BY PlainFields
<1> DEFINE Touched == {r.event_id : r \in {s \in l.e2o : /\ s.object_id \in {o.id}
                                                        /\ Allows(view.qualifiers, s.qualifier)}}
           Touching == {r.event_id : r \in {s \in KeptE2o(l, view) : /\ s.object_id \in {o.id}
                                                                    /\ Allows(Plain(view).qualifiers, s.qualifier)}}
           A == {e \in l.events : e.id \in Touched /\ EventMatches(view, e)}
           B == {e \in KeptEvents(l, view) : e.id \in Touching /\ EventMatches(Plain(view), e)}
<1>2. ASSUME NEW e \in A PROVE e \in B
  <2>1. PICK r \in l.e2o : r.event_id = e.id /\ r.object_id = o.id /\ Allows(view.qualifiers, r.qualifier)
    OBVIOUS
  <2>2. e \in KeptEvents(l, view)
    BY <2>1 DEF KeptEvents
  <2>3. r \in KeptE2o(l, view)
    BY <2>1, <2>2 DEF KeptE2o
  <2>4. e.id \in Touching
    BY <1>1, <2>1, <2>3 DEF Allows
  <2>5. EventMatches(Plain(view), e)
    BY <1>1 DEF EventMatches, Allows
  <2> QED
    BY <2>2, <2>4, <2>5
<1>3. ASSUME NEW e \in B PROVE e \in A
  <2>1. e \in l.events /\ EventMatches(view, e)
    BY DEF KeptEvents
  <2>2. PICK r \in KeptE2o(l, view) : r.event_id = e.id /\ r.object_id = o.id
    OBVIOUS
  <2>3. r \in l.e2o /\ Allows(view.qualifiers, r.qualifier)
    BY DEF KeptE2o
  <2> QED
    BY <2>1, <2>2, <2>3
<1>4. A = B
  BY <1>2, <1>3
<1>5. EventsFor(l, view, {o.id}) = SortedEvents(A)
  BY DEF EventsFor
<1>6. Snapshot(l, view).e2o = KeptE2o(l, view) /\ Snapshot(l, view).events = KeptEvents(l, view)
  BY DEF Snapshot
<1>7. EventsFor(Snapshot(l, view), Plain(view), {o.id}) = SortedEvents(B)
  BY <1>6 DEF EventsFor
<1> HIDE DEF A, B
<1> QED
  BY <1>4, <1>5, <1>7

\* The executions of a snapshot, seen through no filter but the durations.
LEMMA SnapshotLeads ==
    ASSUME NEW l, NEW view, NEW type, NEW o
    PROVE  Leads(Snapshot(l, view), Plain(view), type, o) <=> Leads(l, view, type, o)
<1>1. /\ Plain(view).object_types = {} /\ Plain(view).object_ids = {} /\ Plain(view).object_attributes = {}
      /\ Plain(view).related_object_types = {}
      /\ Plain(view).minimum_duration = view.minimum_duration
      /\ Plain(view).maximum_duration = view.maximum_duration
  BY PlainFields
<1>2. KeptObjects(Snapshot(l, view), Plain(view)) = KeptObjects(l, view)
  <2>1. Snapshot(l, view).objects = KeptObjects(l, view)
    BY DEF Snapshot
  <2>2. \A p : ObjectMatches(Snapshot(l, view), Plain(view), p)
    BY <1>1 DEF ObjectMatches, Allows
  <2> QED
    BY <2>1, <2>2 DEF KeptObjects
<1>3. \A events : DurationMatches(Plain(view), events) <=> DurationMatches(view, events)
  BY <1>1 DEF DurationMatches
<1>4. o \in KeptObjects(l, view) =>
          EventsFor(Snapshot(l, view), Plain(view), {o.id}) = EventsFor(l, view, {o.id})
  BY SnapshotEvents
<1> QED
  BY <1>2, <1>3, <1>4 DEF Leads

LEMMA ExportExact ==
    ASSUME NEW l, NEW view, NEW type
    PROVE  {<<x.object_ids, x.events>> : x \in Leading(l, view, type)}
               = {<<x.object_ids, x.events>> : x \in Leading(Snapshot(l, view), Plain(view), type)}
<1> DEFINE s == Snapshot(l, view)
<1>1. ASSUME NEW o, Leads(l, view, type, o)
      PROVE  /\ Leads(s, Plain(view), type, o) /\ o \in s.objects /\ o \in l.objects
             /\ Execution(s, Plain(view), {o.id}).object_ids = Execution(l, view, {o.id}).object_ids
             /\ Execution(s, Plain(view), {o.id}).events = Execution(l, view, {o.id}).events
  <2>1. o \in KeptObjects(l, view)
    BY <1>1 DEF Leads
  <2>2. o \in s.objects /\ o \in l.objects
    BY <2>1 DEF Snapshot, KeptObjects
  <2>3. EventsFor(s, Plain(view), {o.id}) = EventsFor(l, view, {o.id})
    BY <2>1, SnapshotEvents
  <2>4. Leads(s, Plain(view), type, o)
    BY <1>1, SnapshotLeads
  <2> QED
    BY <2>2, <2>3, <2>4, ExecutionFields
<1>2. \A o : Leads(s, Plain(view), type, o) => Leads(l, view, type, o)
  BY SnapshotLeads
<1> HIDE DEF s
<1>3. ASSUME NEW x \in Leading(l, view, type)
      PROVE  \E y \in Leading(s, Plain(view), type) : y.object_ids = x.object_ids /\ y.events = x.events
  <2>0. PICK o \in l.objects : LedBy(l, view, type, x, o)
    BY <1>3, LeadingLed
  <2>1. Leads(l, view, type, o) /\ x = Execution(l, view, {o.id})
    BY <2>0 DEF LedBy
  <2>2. Execution(s, Plain(view), {o.id}) \in Leading(s, Plain(view), type)
    BY <1>1, <2>1, LeadingLed DEF LedBy
  <2> QED
    BY <1>1, <2>1, <2>2
<1>4. ASSUME NEW y \in Leading(s, Plain(view), type)
      PROVE  \E x \in Leading(l, view, type) : y.object_ids = x.object_ids /\ y.events = x.events
  <2>0. PICK o \in s.objects : LedBy(s, Plain(view), type, y, o)
    BY <1>4, LeadingLed
  <2>1. Leads(s, Plain(view), type, o) /\ y = Execution(s, Plain(view), {o.id})
    BY <2>0 DEF LedBy
  <2>2. Leads(l, view, type, o)
    BY <1>2, <2>1
  <2>3. Execution(l, view, {o.id}) \in Leading(l, view, type)
    BY <1>1, <2>2, LeadingLed DEF LedBy
  <2> QED
    BY <1>1, <2>1, <2>2, <2>3
<1>5. {<<x.object_ids, x.events>> : x \in Leading(l, view, type)}
          = {<<x.object_ids, x.events>> : x \in Leading(s, Plain(view), type)}
  BY <1>3, <1>4
<1> QED
  BY <1>5 DEF s

\* Exporting a view and looking at the exported log finds the executions of the view:
\* LocalProvider::snapshot keeps what leading_executions looks at, and no more.
THEOREM ExportsKeepExecutions == ProviderSpec => []ExportKeepsExecutions
<1>1. ProviderInv => ExportKeepsExecutions
  <2> SUFFICES ASSUME ProviderInv, Answered("leading") PROVE ExportKeepsExecutions
    BY DEF ExportKeepsExecutions
  <2>1. answer = Leading(log, request.view, LeadingType(request))
    BY DEF ProviderInv, AnswersMatch
  <2>2. {<<x.object_ids, x.events>> : x \in answer}
            = {<<x.object_ids, x.events>> :
                   x \in Leading(Snapshot(log, request.view), Plain(request.view), LeadingType(request))}
    BY <2>1, ExportExact
  <2> QED
    BY <2>2 DEF ExportKeepsExecutions, Plain
<1> QED
  BY <1>1, ProviderInvariant, PTL

Narrowed(view, ids) == [view EXCEPT !.object_ids = ids]

LEMMA NarrowedFields ==
    ASSUME NEW view \in Views, NEW ids
    PROVE  LET n == Narrowed(view, ids)
           IN /\ n.start = view.start /\ n.end = view.end /\ n.event_ids = view.event_ids
              /\ n.activities = view.activities /\ n.statuses = view.statuses
              /\ n.qualifiers = view.qualifiers /\ n.object_types = view.object_types
              /\ n.object_attributes = view.object_attributes
              /\ n.related_object_types = view.related_object_types
              /\ n.minimum_duration = view.minimum_duration
              /\ n.maximum_duration = view.maximum_duration
              /\ n.object_ids = ids
              /\ ids \in SUBSET Int => n \in Views
BY DEF Narrowed, Views

LEMMA NarrowedExecution ==
    ASSUME NEW l, NEW view \in Views, NEW ids, NEW objects
    PROVE  /\ EventsFor(l, Narrowed(view, ids), objects) = EventsFor(l, view, objects)
           /\ Execution(l, Narrowed(view, ids), objects) = Execution(l, view, objects)
           /\ \A s : DurationMatches(Narrowed(view, ids), s) <=> DurationMatches(view, s)
<1>1. PICK n : n = Narrowed(view, ids)
  OBVIOUS
<1>2. /\ n.start = view.start /\ n.end = view.end /\ n.event_ids = view.event_ids
      /\ n.activities = view.activities /\ n.statuses = view.statuses
      /\ n.qualifiers = view.qualifiers
      /\ n.minimum_duration = view.minimum_duration /\ n.maximum_duration = view.maximum_duration
  BY <1>1, NarrowedFields
<1>3. \A e : EventMatches(n, e) <=> EventMatches(view, e)
  BY <1>2 DEF EventMatches
<1>4. EventsFor(l, n, objects) = EventsFor(l, view, objects)
  <2> DEFINE Touched(q) == {r.event_id : r \in {s \in l.e2o : s.object_id \in objects /\ Allows(q, s.qualifier)}}
             Events(v) == {e \in l.events : e.id \in Touched(v.qualifiers) /\ EventMatches(v, e)}
  <2>1. Events(n) = Events(view)
    <3> HIDE DEF Touched
    <3> QED
      BY <1>2, <1>3
  <2>2. EventsFor(l, n, objects) = SortedEvents(Events(n)) /\ EventsFor(l, view, objects) = SortedEvents(Events(view))
    BY DEF EventsFor
  <2> HIDE DEF Events
  <2> QED
    BY <2>1, <2>2
<1>5. Execution(l, n, objects) = Execution(l, view, objects)
  BY <1>4 DEF Execution
<1>6. \A s : DurationMatches(n, s) <=> DurationMatches(view, s)
  BY <1>2 DEF DurationMatches
<1> QED
  BY <1>1, <1>4, <1>5, <1>6

\* A view that keeps the objects with some ids has the executions of these objects.
KeepsOnly(l, view, ids, only) ==
    \A o : o \in KeptObjects(l, Narrowed(view, ids)) <=> o \in KeptObjects(l, view) /\ o.id \in only

LeadingOnly(l, view, ids, only, type) ==
    Leading(l, Narrowed(view, ids), type) = {x \in Leading(l, view, type) : x.object_ids \subseteq only}

LEMMA NarrowedLeading ==
    ASSUME NEW l, NEW view \in Views, NEW ids, NEW only, NEW type, KeepsOnly(l, view, ids, only)
    PROVE  LeadingOnly(l, view, ids, only, type)
<1>a. PICK n : n = Narrowed(view, ids)
  OBVIOUS
<1>1. \A o : Leads(l, n, type, o) <=> Leads(l, view, type, o) /\ o.id \in only
  BY <1>a, NarrowedExecution DEF Leads, KeepsOnly
<1>2. \A o : Execution(l, n, {o.id}) = Execution(l, view, {o.id})
  BY <1>a, NarrowedExecution
<1>3. ASSUME NEW x \in Leading(l, n, type)
      PROVE  x \in Leading(l, view, type) /\ x.object_ids \subseteq only
  <2>0. PICK o \in l.objects : LedBy(l, n, type, x, o)
    BY <1>3, LeadingLed
  <2>1. Leads(l, n, type, o) /\ x = Execution(l, n, {o.id})
    BY <2>0 DEF LedBy
  <2>2. Leads(l, view, type, o) /\ o.id \in only /\ x = Execution(l, view, {o.id})
    BY <1>1, <1>2, <2>1
  <2>3. x.object_ids = {o.id}
    BY <2>2, ExecutionFields
  <2> QED
    BY <2>2, <2>3, LeadingLed DEF LedBy
<1>4. ASSUME NEW x \in Leading(l, view, type), x.object_ids \subseteq only
      PROVE  x \in Leading(l, n, type)
  <2>0. PICK o \in l.objects : LedBy(l, view, type, x, o)
    BY <1>4, LeadingLed
  <2>1. Leads(l, view, type, o) /\ x = Execution(l, view, {o.id})
    BY <2>0 DEF LedBy
  <2>2. x.object_ids = {o.id}
    BY <2>1, ExecutionFields
  <2>3. Leads(l, n, type, o) /\ x = Execution(l, n, {o.id})
    BY <1>1, <1>2, <1>4, <2>1, <2>2
  <2> QED
    BY <2>3, LeadingLed DEF LedBy
<1>5. Leading(l, n, type) = {x \in Leading(l, view, type) : x.object_ids \subseteq only}
  BY <1>3, <1>4
<1> QED
  BY <1>a, <1>5 DEF LeadingOnly

ObjectsNamed(executions) == UNION {x.object_ids : x \in executions}

Narrows(l, view, type, chosen, ids) ==
    /\ ids \in SUBSET Int
    /\ Cardinality(ids) = Cardinality(chosen)
    /\ ids = {} <=> chosen = {}
    /\ ids # {} => Leading(l, Narrowed(view, ids), type) = chosen

\* Executions chosen among those of a view are as many as their objects, and narrowing
\* the view to these objects finds them again.
LEMMA ChosenExact ==
    ASSUME NEW l \in Logs, Valid(l), NEW view \in Views, NEW type,
           NEW chosen \in SUBSET Leading(l, view, type), NEW ids,
           ids = ObjectsNamed(chosen)
    PROVE  Narrows(l, view, type, chosen, ids)
<1> DEFINE Exec(id) == Execution(l, view, {id})
<1>1. ASSUME NEW x \in Leading(l, view, type)
      PROVE  \E o \in KeptObjects(l, view) : o.id \in Elements /\ x = Exec(o.id) /\ x.object_ids = {o.id}
  <2>0. PICK o \in l.objects : LedBy(l, view, type, x, o)
    BY <1>1, LeadingLed
  <2>1. Leads(l, view, type, o) /\ x = Execution(l, view, {o.id})
    BY <2>0 DEF LedBy
  <2>2. x.object_ids = {o.id}
    BY <2>1, ExecutionFields
  <2> QED
    BY <2>1, <2>2, TablesAssumption DEF Leads
<1> HIDE DEF Exec
<1>2. ASSUME NEW id \in ids
      PROVE  /\ Exec(id) \in chosen /\ Exec(id).object_ids = {id}
             /\ \E o \in KeptObjects(l, view) : o.id = id
             /\ id \in Elements
  <2>1. PICK x \in chosen : id \in x.object_ids
    BY DEF ObjectsNamed
  <2>2. PICK o \in KeptObjects(l, view) : o.id \in Elements /\ x = Exec(o.id) /\ x.object_ids = {o.id}
    BY <1>1
  <2>3. o.id = id
    BY <2>1, <2>2
  <2> QED
    BY <2>1, <2>2, <2>3
<1>3. ASSUME NEW x \in chosen PROVE \E id \in ids : x = Exec(id) /\ x.object_ids = {id}
  <2>1. PICK o \in KeptObjects(l, view) : o.id \in Elements /\ x = Exec(o.id) /\ x.object_ids = {o.id}
    BY <1>1
  <2>2. o.id \in ids
    BY <2>1 DEF ObjectsNamed
  <2> QED
    BY <2>1, <2>2
<1>4. ids \in SUBSET Elements /\ ids \in SUBSET Int /\ IsFiniteSet(ids)
  <2>1. ids \in SUBSET Elements
    BY <1>2
  <2> QED
    BY <2>1, TablesAssumption, SizeAssumption, FS_Subset
<1>5. Cardinality(ids) = Cardinality(chosen)
  <2> DEFINE f == [id \in ids |-> Exec(id)]
  <2>1. f \in [ids -> chosen]
    BY <1>2
  <2>2. ASSUME NEW a \in ids, NEW b \in ids, f[a] = f[b] PROVE a = b
    <3>1. Exec(a) = Exec(b) /\ Exec(a).object_ids = {a} /\ Exec(b).object_ids = {b}
      BY <1>2, <2>2
    <3> QED
      BY <3>1
  <2>3. \A x \in chosen : \E id \in ids : f[id] = x
    BY <1>3
  <2> HIDE DEF f
  <2>4. ExistsBijection(ids, chosen)
    BY <2>1, <2>2, <2>3 DEF ExistsBijection, Bijection, Injection, Surjection, IsInjective
  <2> QED
    BY <1>4, <2>4, FS_Bijection
<1>6. ids = {} <=> chosen = {}
  BY <1>2, <1>3
<1>7. ASSUME ids # {} PROVE Leading(l, Narrowed(view, ids), type) = chosen
  <2>1. KeepsOnly(l, view, ids, ids)
    <3>1. PICK n : n = Narrowed(view, ids)
      OBVIOUS
    <3>2. /\ n.object_types = view.object_types /\ n.object_ids = ids /\ n.end = view.end
          /\ n.object_attributes = view.object_attributes
          /\ n.related_object_types = view.related_object_types
      BY <3>1, NarrowedFields
    <3>3. ASSUME NEW o \in l.objects, ObjectMatches(l, n, o)
          PROVE  o.id \in ids /\ ObjectMatches(l, view, o)
      <4>1. o.id \in ids
        BY <1>7, <3>2, <3>3 DEF ObjectMatches, Allows
      <4>2. PICK p \in KeptObjects(l, view) : p.id = o.id
        BY <1>2, <4>1
      <4>3. p = o
        BY <4>2 DEF KeptObjects, Valid, ObjectsValid
      <4> QED
        BY <4>1, <4>2, <4>3 DEF KeptObjects
    <3>4. ASSUME NEW o \in l.objects, ObjectMatches(l, view, o), o.id \in ids
          PROVE  ObjectMatches(l, n, o)
      BY <3>2, <3>4 DEF ObjectMatches, Allows
    <3> QED
      BY <3>1, <3>3, <3>4 DEF KeptObjects, KeepsOnly
  <2>a. LeadingOnly(l, view, ids, ids, type)
    BY <2>1, NarrowedLeading
  <2>2. Leading(l, Narrowed(view, ids), type) = {x \in Leading(l, view, type) : x.object_ids \subseteq ids}
    BY <2>a DEF LeadingOnly
  <2>3. ASSUME NEW x \in Leading(l, view, type), x.object_ids \subseteq ids PROVE x \in chosen
    <3>1. PICK o \in KeptObjects(l, view) : o.id \in Elements /\ x = Exec(o.id) /\ x.object_ids = {o.id}
      BY <1>1
    <3>2. o.id \in ids
      BY <2>3, <3>1
    <3> QED
      BY <1>2, <3>1, <3>2
  <2>4. \A x \in chosen : x \in Leading(l, view, type) /\ x.object_ids \subseteq ids
    BY <1>3
  <2> QED
    BY <2>2, <2>3, <2>4
<1> QED
  BY <1>4, <1>5, <1>6, <1>7 DEF Narrows

\* The events of an execution come in order of time.
LEMMA EventsInOrder ==
    ASSUME NEW l \in Logs, Valid(l), NEW view, NEW ids, NEW s, s = EventsFor(l, view, ids)
    PROVE  /\ s \in Seq(l.events)
           /\ \A i, j \in 1 .. Len(s) : i < j => s[i].at <= s[j].at
<1>1. PICK S \in SUBSET l.events : s = SortedEvents(S)
  BY DEF EventsFor
<1>2. IsFiniteSet(S) /\ \A e \in S : e.id \in Int /\ e.at \in Int /\ e.sequence \in Int
  BY TablesAssumption, FS_Subset
<1>3. \A e, f \in S : e.id = f.id => e = f
  BY DEF Valid, EventsValid
<1> DEFINE R == {p \in S \X S : EventBefore(p[1], p[2])}
<1>4. \A e, f \in S : <<e, f>> \in R <=> EventBefore(e, f)
  OBVIOUS
<1>5. s = Ranked(S, R)
  BY <1>1 DEF SortedEvents
<1> HIDE DEF R
<1>6. TotalOn(S, R)
  <2>1. \A e \in S : ~EventBefore(e, e)
    BY <1>2 DEF EventBefore
  <2>2. \A e, f \in S : e # f => EventBefore(e, f) \/ EventBefore(f, e)
    BY <1>2, <1>3 DEF EventBefore
  <2>3. \A e, f, g \in S : EventBefore(e, f) /\ EventBefore(f, g) => EventBefore(e, g)
    BY <1>2 DEF EventBefore
  <2> QED
    BY <1>4, <2>1, <2>2, <2>3 DEF TotalOn
<1>7. Lists(s, S, R)
  BY <1>2, <1>5, <1>6, RankedLists
<1>8. s \in Seq(S) /\ \A i, j \in 1 .. Len(s) : i < j => <<s[i], s[j]>> \in R
  BY <1>7 DEF Lists
<1>9. s \in Seq(l.events) /\ \A i \in 1 .. Len(s) : s[i] \in S
  BY <1>8
<1>10. ASSUME NEW i \in 1 .. Len(s), NEW j \in 1 .. Len(s), i < j PROVE s[i].at <= s[j].at
  <2>1. EventBefore(s[i], s[j])
    BY <1>4, <1>8, <1>9, <1>10
  <2> QED
    BY <1>2, <1>9, <2>1 DEF EventBefore
<1> QED
  BY <1>9, <1>10

\* So one that starts and ends in a window lies in it.
LEMMA WindowHoldsAll ==
    ASSUME NEW l \in Logs, Valid(l), NEW view, NEW ids, NEW s, s = EventsFor(l, view, ids),
           s # <<>>, NEW w, w.start \in Int, w.end \in Int
    PROVE  InWindow(w, Head(s)) /\ InWindow(w, Last(s)) <=> \A i \in DOMAIN s : InWindow(w, s[i])
<1>1. s \in Seq(l.events) /\ \A i, j \in 1 .. Len(s) : i < j => s[i].at <= s[j].at
  BY EventsInOrder
<1>2. /\ DOMAIN s = 1 .. Len(s) /\ Len(s) \in Nat /\ Len(s) >= 1
      /\ \A i \in 1 .. Len(s) : s[i] \in l.events
  BY <1>1
<1>3. Head(s) = s[1] /\ Last(s) = s[Len(s)]
  BY <1>1 DEF Last
<1>4. \A i \in 1 .. Len(s) : s[i].at \in Int
  BY <1>2, TablesAssumption
<1>5. ASSUME InWindow(w, Head(s)), InWindow(w, Last(s)), NEW i \in 1 .. Len(s)
      PROVE  InWindow(w, s[i])
  <2>1. s[1].at <= s[i].at /\ s[i].at <= s[Len(s)].at
    BY <1>1, <1>2, <1>4
  <2>2. w.start <= s[1].at /\ s[Len(s)].at < w.end /\ s[1].at \in Int /\ s[Len(s)].at \in Int /\ s[i].at \in Int
    BY <1>2, <1>3, <1>4, <1>5 DEF InWindow
  <2> QED
    BY <2>1, <2>2 DEF InWindow
<1>6. ASSUME \A i \in 1 .. Len(s) : InWindow(w, s[i])
      PROVE  InWindow(w, Head(s)) /\ InWindow(w, Last(s))
  BY <1>2, <1>3, <1>6
<1> QED
  BY <1>2, <1>5, <1>6

\* The executions that resolve_population counts.
Chosen(l, r) ==
    {y \in Leading(l, PopulationView(r), r.lead) :
        /\ r.selector.kind = "cases" => PopulationView(r).object_ids # {}
        /\ r.selector.kind \in {"start", "contained"} => InWindow(r.selector, Head(y.events))
        /\ r.selector.kind = "contained" => InWindow(r.selector, Last(y.events))}

LEMMA PopulationViewFields ==
    ASSUME NEW r \in Requests, r.kind = "population"
    PROVE  /\ r.view \in Views /\ PopulationView(r) \in Views
           /\ r.selector.kind \in {"event_time", "start", "contained", "cases"}
           /\ r.selector.start \in Int /\ r.selector.end \in Int
           /\ r.selector.ids \subseteq Int
           /\ r.selector.kind = "event_time" =>
                  PopulationView(r) = [r.view EXCEPT !.start = r.selector.start, !.end = r.selector.end]
           /\ r.selector.kind \in {"start", "contained"} =>
                  PopulationView(r) = [r.view EXCEPT !.start = None, !.end = None]
           /\ r.selector.kind = "cases" =>
                  PopulationView(r) = Narrowed(r.view, IF r.view.object_ids = {} THEN r.selector.ids
                                                       ELSE r.view.object_ids \cap r.selector.ids)
<1>1. /\ r.view \in Views
      /\ r.selector.kind \in {"event_time", "start", "contained", "cases"}
      /\ r.selector.start \in Int /\ r.selector.end \in Int
      /\ r.selector.ids \subseteq Int
  BY RequestsAssumption
<1>2. r.selector.kind = "event_time" =>
          PopulationView(r) = [r.view EXCEPT !.start = r.selector.start, !.end = r.selector.end]
  BY <1>1 DEF PopulationView
<1>3. r.selector.kind \in {"start", "contained"} =>
          PopulationView(r) = [r.view EXCEPT !.start = None, !.end = None]
  BY <1>1 DEF PopulationView
<1>4. r.selector.kind = "cases" =>
          PopulationView(r) = Narrowed(r.view, IF r.view.object_ids = {} THEN r.selector.ids
                                               ELSE r.view.object_ids \cap r.selector.ids)
  BY <1>1 DEF PopulationView, Narrowed
<1>5. PopulationView(r) \in Views
  <2>1. CASE r.selector.kind = "event_time"
    BY <1>1, <1>2, <2>1 DEF Views
  <2>2. CASE r.selector.kind \in {"start", "contained"}
    BY <1>1, <1>3, <2>2 DEF Views
  <2>3. CASE r.selector.kind = "cases"
    <3>1. PICK w \in SUBSET Int : PopulationView(r) = Narrowed(r.view, w)
      BY <1>1, <1>4, <2>3
    <3>2. Narrowed(r.view, w) \in Views
      BY <1>1 DEF Narrowed, Views
    <3> QED
      BY <3>1, <3>2
  <2> QED
    BY <1>1, <2>1, <2>2, <2>3
<1> QED
  BY <1>1, <1>2, <1>3, <1>4, <1>5

\* What is described is what is chosen, for every kind of selector.
LEMMA CasesChosen ==
    ASSUME NEW l \in Logs, Valid(l), NEW r \in Requests, r.kind = "population",
           r.selector.kind = "cases"
    PROVE  Chosen(l, r) = {x \in Leading(l, r.view, r.lead) : x.object_ids \subseteq r.selector.ids}
<1>1. r.view \in Views
  BY PopulationViewFields
<1> DEFINE w == IF r.view.object_ids = {} THEN r.selector.ids ELSE r.view.object_ids \cap r.selector.ids
           Named == {x \in Leading(l, r.view, r.lead) : x.object_ids \subseteq r.selector.ids}
<1>2. PopulationView(r) = Narrowed(r.view, w)
  BY PopulationViewFields
<1>3. PopulationView(r).object_ids = w
  BY <1>1, <1>2, NarrowedFields
<1>4. \A o : ObjectMatches(l, r.view, o) /\ o.id \in r.selector.ids => o.id \in w
  BY DEF ObjectMatches, Allows
<1>5. ASSUME w = {} PROVE Chosen(l, r) = {} /\ Named = {}
  <2>1. Chosen(l, r) = {}
    BY <1>3, <1>5 DEF Chosen
  <2>2. ASSUME NEW x \in Named PROVE FALSE
    <3>1. PICK o \in l.objects : LedBy(l, r.view, r.lead, x, o)
      BY LeadingLed
    <3>2. o \in KeptObjects(l, r.view) /\ x = Execution(l, r.view, {o.id})
      BY <3>1 DEF LedBy, Leads
    <3>3. x.object_ids = {o.id}
      BY <3>2, ExecutionFields
    <3>4. o.id \in w
      BY <1>4, <3>2, <3>3, <2>2 DEF KeptObjects
    <3> QED
      BY <1>5, <3>4
  <2> QED
    BY <2>1, <2>2
<1>6. ASSUME w # {} PROVE Chosen(l, r) = Named
  <2>1. KeepsOnly(l, r.view, w, r.selector.ids)
    <3>1. PICK n : n = Narrowed(r.view, w)
      OBVIOUS
    <3>2. /\ n.object_types = r.view.object_types /\ n.object_ids = w /\ n.end = r.view.end
          /\ n.object_attributes = r.view.object_attributes
          /\ n.related_object_types = r.view.related_object_types
      BY <1>1, <3>1, NarrowedFields
    <3>3. \A id : Allows(w, id) <=> Allows(r.view.object_ids, id) /\ id \in r.selector.ids
      BY <1>6 DEF Allows
    <3> HIDE DEF w
    <3>4. \A o : ObjectMatches(l, n, o) <=> ObjectMatches(l, r.view, o) /\ o.id \in r.selector.ids
      BY <3>2, <3>3 DEF ObjectMatches
    <3> QED
      BY <3>1, <3>4 DEF KeptObjects, KeepsOnly
  <2> HIDE DEF w
  <2>2. LeadingOnly(l, r.view, w, r.selector.ids, r.lead)
    BY <1>1, <2>1, NarrowedLeading
  <2>3. Leading(l, PopulationView(r), r.lead) = Named
    BY <1>2, <2>2 DEF LeadingOnly
  <2> HIDE DEF Named
  <2> QED
    BY <1>3, <1>6, <2>3 DEF Chosen
<1> QED
  BY <1>5, <1>6

LEMMA DescribedChosen ==
    ASSUME ProviderInv, request.kind = "population"
    PROVE  Described = Chosen(log, request)
<1>1. log \in Logs /\ Valid(log) /\ request \in Requests
  BY DEF ProviderInv, ProviderTypeOK
<1> DEFINE s == request.selector
           untimed == [request.view EXCEPT !.start = None, !.end = None]
<1>2. s.kind \in {"event_time", "start", "contained", "cases"} /\ s.start \in Int /\ s.end \in Int
  BY <1>1, PopulationViewFields
<1>3. CASE s.kind = "event_time"
  <2>1. PopulationView(request) = [request.view EXCEPT !.start = s.start, !.end = s.end]
    BY <1>1, <1>3, PopulationViewFields
  <2>2. Described = Leading(log, PopulationView(request), request.lead)
    BY <1>3, <2>1 DEF Described
  <2> QED
    BY <1>3, <2>2 DEF Chosen
<1>4. CASE s.kind = "start"
  <2>1. PopulationView(request) = untimed
    BY <1>1, <1>4, PopulationViewFields
  <2>2. Described = {x \in Leading(log, PopulationView(request), request.lead) : InWindow(s, Head(x.events))}
    BY <1>4, <2>1 DEF Described
  <2> QED
    BY <1>4, <2>2 DEF Chosen
<1>5. CASE s.kind = "contained"
  <2>a. PICK v : v = PopulationView(request)
    OBVIOUS
  <2>1. v = untimed
    BY <1>1, <1>5, <2>a, PopulationViewFields
  <2>2. Described = {x \in Leading(log, v, request.lead) :
                         \A i \in DOMAIN x.events : InWindow(s, x.events[i])}
    BY <1>5, <2>1 DEF Described
  <2>3. Chosen(log, request) = {x \in Leading(log, v, request.lead) :
                                    InWindow(s, Head(x.events)) /\ InWindow(s, Last(x.events))}
    BY <1>5, <2>a DEF Chosen
  <2> HIDE DEF s
  <2>4. ASSUME NEW x \in Leading(log, v, request.lead)
        PROVE  InWindow(s, Head(x.events)) /\ InWindow(s, Last(x.events))
                   <=> \A i \in DOMAIN x.events : InWindow(s, x.events[i])
    <3>1. PICK o \in log.objects : LedBy(log, v, request.lead, x, o)
      BY <2>4, LeadingLed
    <3>2. x = Execution(log, v, {o.id}) /\ EventsFor(log, v, {o.id}) # <<>>
      BY <3>1 DEF LedBy, Leads
    <3>3. x.events = EventsFor(log, v, {o.id})
      BY <3>2, ExecutionFields
    <3>4. PICK t : t = x.events
      OBVIOUS
    <3>5. InWindow(s, Head(t)) /\ InWindow(s, Last(t)) <=> \A i \in DOMAIN t : InWindow(s, t[i])
      BY <1>1, <1>2, <3>2, <3>3, <3>4, WindowHoldsAll
    <3> QED
      BY <3>4, <3>5
  <2> QED
    BY <2>2, <2>3, <2>4
<1>6. CASE s.kind = "cases"
  <2>1. Described = {x \in Leading(log, request.view, request.lead) : x.object_ids \subseteq s.ids}
    BY <1>6 DEF Described
  <2> QED
    BY <1>1, <1>6, <2>1, CasesChosen
<1> QED
  BY <1>2, <1>3, <1>4, <1>5, <1>6

LEMMA ResolvedExact ==
    ASSUME NEW l \in Logs, Valid(l), NEW r \in Requests, r.kind = "population"
    PROVE  /\ Resolved(l, r).count = Cardinality(Chosen(l, r))
           /\ Resolved(l, r).view = None => Chosen(l, r) = {}
           /\ Resolved(l, r).view # None => Leading(l, Resolved(l, r).view, r.lead) = Chosen(l, r)
<1>a. PICK v : v = PopulationView(r)
  OBVIOUS
<1>b. PICK chosen : chosen = Chosen(l, r)
  OBVIOUS
<1>c. PICK ids : ids = UNION {x.object_ids : x \in chosen}
  OBVIOUS
<1>1. v \in Views /\ None \notin Views
  BY <1>a, PopulationViewFields, RequestsAssumption
<1>2. chosen \in SUBSET Leading(l, v, r.lead)
  BY <1>a, <1>b DEF Chosen
<1>3. /\ ids \in SUBSET Int /\ Cardinality(ids) = Cardinality(chosen)
      /\ ids = {} <=> chosen = {}
      /\ ids # {} => Leading(l, Narrowed(v, ids), r.lead) = chosen
  <2>1. PICK type : type = r.lead
    OBVIOUS
  <2>2. ids = ObjectsNamed(chosen)
    BY <1>c DEF ObjectsNamed
  <2>3. chosen \in SUBSET Leading(l, v, type)
    BY <1>2, <2>1
  <2>4. Narrows(l, v, type, chosen, ids)
    BY <1>1, <2>2, <2>3, ChosenExact
  <2> QED
    BY <2>1, <2>4 DEF Narrows
<1>4. ids = UNION Selected(l, r)
  BY <1>b, <1>c DEF Selected, Chosen
<1>5. /\ Resolved(l, r).count = Cardinality(ids)
      /\ Resolved(l, r).view = IF ids = {} THEN None
                               ELSE IF r.selector.kind = "event_time" THEN v
                               ELSE Narrowed(v, ids)
  BY <1>a, <1>4 DEF Resolved, Narrowed
<1>6. r.selector.kind = "event_time" => chosen = Leading(l, v, r.lead)
  BY <1>a, <1>b DEF Chosen
<1>7. Narrowed(v, ids) \in Views
  BY <1>1, <1>3 DEF Narrowed, Views
<1>8. CASE ids = {}
  BY <1>3, <1>5, <1>8, <1>b
<1>9. CASE ids # {}
  BY <1>1, <1>3, <1>5, <1>6, <1>7, <1>9, <1>b
<1> QED
  BY <1>8, <1>9

\* resolve_population is faithful to its selector: the view it answers with has exactly
\* the executions that the selector describes, whole and as many as it reports, and it
\* answers with none only when no execution is described.
THEOREM PopulationsFaithful == ProviderSpec => []PopulationFaithful
<1>1. ProviderInv => PopulationFaithful
  <2> SUFFICES ASSUME ProviderInv, Answered("population") PROVE PopulationFaithful
    BY DEF PopulationFaithful
  <2>1. log \in Logs /\ Valid(log) /\ request \in Requests /\ request.kind = "population"
    BY DEF ProviderInv, ProviderTypeOK, Answered
  <2>2. answer = Resolved(log, request)
    BY DEF ProviderInv, AnswersMatch
  <2>3. Described = Chosen(log, request)
    BY <2>1, DescribedChosen
  <2>4. /\ answer.count = Cardinality(Described)
        /\ answer.view = None => Described = {}
        /\ answer.view # None => Leading(log, answer.view, request.lead) = Described
    BY <2>1, <2>2, <2>3, ResolvedExact
  <2> QED
    BY <2>4 DEF PopulationFaithful
<1> QED
  BY <1>1, ProviderInvariant, PTL
=============================================================================
