-------------------------- MODULE MCBindingCapsule --------------------------
EXTENDS BindingCapsule

\* The encoder of the tests.
RECURSIVE PutVarint(_)
PutVarint(n) == IF n < Continue THEN <<n>> ELSE <<Continue + (n % Continue)>> \o PutVarint(n \div Continue)
PutSigned(i) == PutVarint(IF i >= 0 THEN 2 * i ELSE -2 * i - 1)
PutIds(ids) == FlattenSeq([k \in DOMAIN ids |-> PutSigned(ids[k] - (IF k = 1 THEN 0 ELSE ids[k - 1]))])
PutBits(bits) ==
    LET size == PayloadBits + 1
        bit(i) == IF i \in DOMAIN bits /\ bits[i] THEN 1 ELSE 0
    IN [b \in 1 .. Packed(Len(bits)) |->
           MapThenSumSet(LAMBDA k : bit((b - 1) * size + k + 1) * 2 ^ k, 0 .. size - 1)]
Put(schema, n, body) == <<Header, schema>> \o PutVarint(n) \o body

MCIds == {-8, -1, 0, 7}
Columns(layout, ids) == FlattenSeq([c \in 1 .. layout.ids |-> PutIds([i \in DOMAIN ids |-> ids[i]])])
MCLabels == <<<<>>, <<1, 3>>>>

\* n rows of every schema with columns: the same ids in each column.
EncodedRows(schema, ids, bits, values) ==
    LET layout == Layout(schema)
        n == Len(ids)
        indexes == [i \in 1 .. n |-> values[i] % 2]
        dictionary == IF n < 2 THEN <<MCLabels[1]>> ELSE MCLabels
        used == IF n < 2 THEN [i \in 1 .. n |-> 0] ELSE indexes
    IN [bytes |-> Put(schema, n,
            Columns(layout, ids)
              \o (IF ~layout.labels THEN <<>>
                  ELSE IF n = 0 THEN <<0>>
                  ELSE PutVarint(Len(dictionary))
                         \o FlattenSeq([d \in DOMAIN dictionary |->
                                           PutVarint(Len(dictionary[d])) \o dictionary[d]])
                         \o FlattenSeq([i \in 1 .. n |-> PutVarint(used[i])]))
              \o (IF layout.violations THEN PutBits(bits) ELSE <<>>)
              \o (IF layout.values THEN FlattenSeq([i \in 1 .. n |-> PutVarint(values[i])]) ELSE <<>>)),
        content |-> [i \in 1 .. n |->
            BindingRow([c \in 1 .. layout.ids |-> ids[i]],
                IF layout.labels THEN dictionary[used[i] + 1] ELSE NoContent,
                IF layout.violations THEN bits[i] ELSE NoContent,
                IF layout.values THEN values[i] ELSE NoContent)]]

\* Groups of one or two entries.
PutGroups(n, gs) ==
    LET all(f(_)) == FlattenSeq([g \in DOMAIN gs |-> f(gs[g])])
    IN Put(PairGroupsSchema, n,
           PutVarint(Len(gs)) \o PutIds([g \in DOMAIN gs |-> gs[g].source])
             \o all(LAMBDA g : PutVarint(Len(g.targets)))
             \o PutIds(all(LAMBDA g : g.targets)) \o PutIds(all(LAMBDA g : g.events)))
EncodedGroups(gs) ==
    LET content == FlattenSeq([g \in DOMAIN gs |-> RowsOfGroup(gs[g])])
    IN [bytes |-> PutGroups(Len(content), gs), content |-> content]

MCEncoded ==
    {EncodedRows(s, ids, [i \in DOMAIN ids |-> i \in b], [i \in DOMAIN ids |-> (7 * i + Len(ids)) % 32]) :
        s \in Schemas \ {PairGroupsSchema}, b \in {{}, {1, 4}, {2}},
        ids \in BoundedSeq({-8, 7}, 4) \cup BoundedSeq(MCIds, 2)}
MCGroup == {[source |-> s, targets |-> t, events |-> e] :
               s \in {-1, 4}, t \in {<<0>>, <<3>>, <<1, 0>>}, e \in {<<2>>, <<-8>>, <<5, 7>>}}
MCGroups == {EncodedGroups(gs) : gs \in {x \in BoundedSeq(MCGroup, 2) :
                \A i \in DOMAIN x : Len(x[i].targets) = Len(x[i].events)}}

\* Capsules that were cut short, extended or changed in transit: any few bytes after the
\* schema, and a changed byte in a larger one.
Damaged(bytes) == [bytes |-> bytes, content |-> NoContent]
MCArbitrary ==
    {Damaged(<<Header, s>> \o bytes) : s \in {1, 3, 4, 6, 8}, bytes \in BoundedSeq({0, 1, 2, 5, 7}, 4)}
MCChanged ==
    LET good == EncodedRows(3, <<7, -8, 0>>, <<TRUE, FALSE, TRUE>>, <<1, 2, 3>>).bytes
        two == <<[source |-> 1, targets |-> <<1, 0>>, events |-> <<5, 7>>],
                 [source |-> 4, targets |-> <<3>>, events |-> <<2>>]>>
        grouped == PutGroups(5, two)
    IN UNION {{Damaged([b EXCEPT ![i] = x]) : i \in DOMAIN b, x \in 0 .. 7}
                \cup {Damaged(SubSeq(b, 1, i)) : i \in 0 .. Len(b)} : b \in {good, grouped}}
         \cup {Damaged(PutGroups(n, two)) : n \in 0 .. 6}
         \cup {Damaged(<<Header, 12, 0>>), Damaged(good \o <<0>>)}

MCCapsules == MCEncoded \cup (MCArbitrary \cup (MCGroups \cup MCChanged))
=============================================================================
