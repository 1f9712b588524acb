--------------------------- MODULE BindingCapsule ---------------------------
(***************************************************************************)
(* Binding-result capsules (crates/ocpm-core/src/binding.rs): decoding,    *)
(* field by field, and the two iterators over what was decoded. A byte has *)
(* PayloadBits bits and a continuation bit; a number has Width bits, one   *)
(* more than a whole number of payloads, as 64 is one more than 9 * 7. The *)
(* magic and the version are one element; a label is its bytes.            *)
(***************************************************************************)
EXTENDS Integers, Sequences, SequencesExt, FiniteSets, FiniteSetsExt

CONSTANTS PayloadBits,  \* 7
          Width,        \* 64
          Capsules,     \* the byte strings, each with the content it encodes or NoContent
          InvalidText,  \* bytes that are not UTF-8
          NoContent

VARIABLES capsule,
          stage,
          rest,         \* the cursor
          decoded,
          reserved,     \* the largest vector that was reserved
          rowsAt,       \* BindingRows
          yielded,      \* what it has returned
          groups        \* what PairGroupIter has returned

capsuleVars == <<capsule, stage, rest, decoded, reserved, rowsAt, yielded, groups>>

Header == 5     \* the magic and the version, as one byte
Continue == 2 ^ PayloadBits
MaxVarintBytes == (Width - 1) \div PayloadBits + 1
NumberMax == 2 ^ Width - 1
IdMin == - 2 ^ (Width - 1)
IdMax == 2 ^ (Width - 1) - 1

-----------------------------------------------------------------------------
\* The cursor. A read gives an error code, or "ok", a value and the bytes that remain.

Taken(value, bytes) == [code |-> "ok", value |-> value, rest |-> bytes]
Refused(code) == [code |-> code, value |-> NoContent, rest |-> <<>>]

\* take, byte.
Take(bytes, n) ==
    IF n > Len(bytes) THEN Refused("Truncated")
    ELSE Taken(SubSeq(bytes, 1, n), SubSeq(bytes, n + 1, Len(bytes)))

\* varint: the last byte that fits may only hold the top bit.
Varint(bytes) ==
    LET final == {i \in DOMAIN bytes : i <= MaxVarintBytes /\ bytes[i] < Continue}
        n == Min(final)
        value == MapThenSumSet(LAMBDA i : (bytes[i] % Continue) * 2 ^ (PayloadBits * (i - 1)), 1 .. n)
    IN IF Len(bytes) >= MaxVarintBytes /\ \A i \in 1 .. MaxVarintBytes - 1 : bytes[i] >= Continue
       THEN IF bytes[MaxVarintBytes] > 1 THEN Refused("VarintOverflow")
            ELSE Taken(value, SubSeq(bytes, MaxVarintBytes + 1, Len(bytes)))
       ELSE IF final = {} THEN Refused("Truncated")
       ELSE Taken(value, SubSeq(bytes, n + 1, Len(bytes)))

\* Mutation: the sign is kept apart, so that -1 and 0 are one value.
SignedMagnitude(v) == IF v % 2 = 0 THEN v \div 2 ELSE -(v \div 2)

\* signed_varint: zig-zag.
Signed(v) == IF v % 2 = 0 THEN v \div 2 ELSE -(v \div 2) - 1

\* n values one after the other; step turns the last value and a varint into the next
\* value, or NoContent, which is the given error.
ReadMany(bytes, n, first, step(_, _), error) ==
    LET next(state, i) ==
            LET v == Varint(state.rest)
                last == IF state.value = <<>> THEN first ELSE Last(state.value)
                value == step(last, v.value)
            IN IF state.code # "ok" THEN state
               ELSE IF v.code # "ok" THEN v
               ELSE IF value = NoContent THEN Refused(error)
               ELSE Taken(Append(state.value, value), v.rest)
    IN FoldLeft(next, Taken(<<>>, bytes), [i \in 1 .. n |-> i])

\* delta_ids.
DeltaIds(bytes, n) ==
    IF n > Len(bytes) THEN Refused("Truncated")
    ELSE ReadMany(bytes, n, 0,
                  LAMBDA last, v : IF last + Signed(v) \in IdMin .. IdMax
                                   THEN last + Signed(v) ELSE NoContent,
                  "DeltaOverflow")

WithinWidth(n) == n <= NumberMax

-----------------------------------------------------------------------------
\* BindingSchema, with the columns of each: ids, labels, violations, values.

Schemas == 1 .. 11
PairGroupsSchema == 6
Layout(schema) ==
    LET row(ids, labels, violations, values) ==
            [ids |-> ids, labels |-> labels, violations |-> violations, values |-> values]
    IN <<row(1, FALSE, TRUE, FALSE), row(2, FALSE, TRUE, FALSE), row(2, TRUE, TRUE, FALSE),
         row(0, FALSE, FALSE, TRUE), row(5, FALSE, FALSE, FALSE), row(0, FALSE, FALSE, FALSE),
         row(3, FALSE, TRUE, FALSE), row(2, FALSE, FALSE, FALSE), row(3, FALSE, FALSE, FALSE),
         row(4, FALSE, FALSE, FALSE), row(5, FALSE, TRUE, FALSE)>>[schema]

\* Bytes of a bit per row.
Packed(n) == (n + PayloadBits) \div (PayloadBits + 1)
BitSet(byte, k) == (byte \div 2 ^ k) % 2 = 1

\* The fewest bytes the columns of n rows can take.
MinimumBytes(layout, n) ==
    n * layout.ids + (IF layout.labels THEN 1 + n ELSE 0)
      + (IF layout.violations THEN Packed(n) ELSE 0) + (IF layout.values THEN n ELSE 0)

Empty == [schema |-> 0, row_count |-> 0, ids |-> <<>>, dictionary |-> <<>>, labels |-> <<>>,
          violations |-> <<>>, values |-> <<>>, sources |-> <<>>, sizes |-> <<>>,
          targets |-> <<>>, events |-> <<>>, group_count |-> 0]

CapsuleFrom(capsules) ==
    /\ capsule \in capsules
    /\ stage = "header"
    /\ rest = capsule.bytes
    /\ decoded = Empty
    /\ reserved = 0
    /\ rowsAt = [group |-> 1, left |-> 0, right |-> 0, offset |-> 0, row |-> 0]
    /\ yielded = <<>>
    /\ groups = <<>>

CapsuleInit == CapsuleFrom(Capsules)

\* A step of the decoder: an error ends it.
Continues(read, next, value) ==
    IF read.code = "ok" THEN /\ stage' = next /\ rest' = read.rest /\ decoded' = value
                        ELSE /\ stage' = read.code /\ UNCHANGED <<rest, decoded>>

Reserve(n) == reserved' = Max({reserved, n})
NotIterating == UNCHANGED <<capsule, rowsAt, yielded, groups>>

\* decode: magic, version, schema, row count.
DecodeHeader ==
    /\ stage = "header"
    /\ LET head == Take(rest, 2)
           count == Varint(head.rest)
           schema == head.value[2]
       IN IF head.code # "ok" THEN stage' = head.code /\ UNCHANGED <<rest, decoded>>
          ELSE IF head.value[1] # Header THEN stage' = "BadMagic" /\ UNCHANGED <<rest, decoded>>
          ELSE IF schema \notin Schemas THEN stage' = "UnknownSchema" /\ UNCHANGED <<rest, decoded>>
          ELSE Continues(count, IF schema = PairGroupsSchema THEN "groups" ELSE "columns",
                         [decoded EXCEPT !.schema = schema, !.row_count = count.value])
    /\ UNCHANGED reserved
    /\ NotIterating

-----------------------------------------------------------------------------
\* decode_materialized.

layoutOf == Layout(decoded.schema)
rowCount == decoded.row_count

\* The counts are checked against the bytes before anything is reserved.
CheckColumns ==
    /\ stage = "columns"
    /\ stage' = IF ~WithinWidth(MinimumBytes(layoutOf, rowCount)) THEN "CountOverflow"
                ELSE IF MinimumBytes(layoutOf, rowCount) > Len(rest) THEN "Truncated" ELSE "ids"
    /\ UNCHANGED <<rest, decoded, reserved>>
    /\ NotIterating

DecodeIdColumn ==
    /\ stage = "ids" /\ Len(decoded.ids) < layoutOf.ids
    /\ LET column == DeltaIds(rest, rowCount)
       IN /\ Continues(column, "ids", [decoded EXCEPT !.ids = Append(@, column.value)])
          /\ IF rowCount > Len(rest) THEN UNCHANGED reserved ELSE Reserve(rowCount)
    /\ NotIterating

\* The labels of a dictionary, each a length and its bytes.
ReadLabels(bytes, n) ==
    LET next(state, i) ==
            LET length == Varint(state.rest)
                text == Take(length.rest, length.value)
            IN IF state.code # "ok" THEN state
               ELSE IF length.code # "ok" THEN length
               ELSE IF text.code # "ok" THEN text
               ELSE IF ToSet(text.value) \cap InvalidText # {} THEN Refused("InvalidUtf8")
               ELSE Taken(Append(state.value, text.value), text.rest)
    IN FoldLeft(next, Taken(<<>>, bytes), [i \in 1 .. n |-> i])

\* The dictionary and an index into it for every row.
DecodeLabels ==
    /\ stage = "ids" /\ Len(decoded.ids) = layoutOf.ids
    /\ LET count == Varint(rest)
           least == count.value + MinimumBytes([layoutOf EXCEPT !.ids = 0], rowCount) - 1
           dictionary == ReadLabels(count.rest, count.value)
           indexes == ReadMany(dictionary.rest, rowCount, 0,
                               LAMBDA last, v : IF v < count.value THEN v ELSE NoContent,
                               "InvalidLabelDictionary")
           refuse(code) == stage' = code /\ UNCHANGED <<rest, decoded, reserved>>
       IN IF ~layoutOf.labels THEN stage' = "violations" /\ UNCHANGED <<rest, decoded, reserved>>
          ELSE IF count.code # "ok" THEN refuse(count.code)
          ELSE IF count.value > rowCount \/ (rowCount # 0 /\ count.value = 0)
          THEN refuse("InvalidLabelDictionary")
          ELSE IF ~WithinWidth(least) THEN refuse("CountOverflow")
          ELSE IF least > Len(count.rest) THEN refuse("Truncated")
          ELSE IF dictionary.code # "ok"
          THEN stage' = dictionary.code /\ Reserve(count.value) /\ UNCHANGED <<rest, decoded>>
          ELSE /\ Continues(indexes, "violations",
                            [decoded EXCEPT !.dictionary = dictionary.value, !.labels = indexes.value])
               /\ Reserve(rowCount)
    /\ NotIterating

DecodeViolations ==
    /\ stage = "violations"
    /\ LET packed == Take(rest, Packed(rowCount))
           bit(i) == BitSet(packed.value[(i - 1) \div (PayloadBits + 1) + 1], (i - 1) % (PayloadBits + 1))
       IN IF layoutOf.violations
          THEN /\ Continues(packed, "values",
                            [decoded EXCEPT !.violations = [i \in 1 .. rowCount |-> bit(i)]])
               /\ IF packed.code = "ok" THEN Reserve(rowCount) ELSE UNCHANGED reserved
          ELSE stage' = "values" /\ UNCHANGED <<rest, decoded, reserved>>
    /\ NotIterating

\* A value is the bit pattern of a float.
DecodeValues ==
    /\ stage = "values"
    /\ LET values == ReadMany(rest, rowCount, 0, LAMBDA last, v : v, "none")
       IN IF layoutOf.values
          THEN Continues(values, "end", [decoded EXCEPT !.values = values.value]) /\ Reserve(rowCount)
          ELSE stage' = "end" /\ UNCHANGED <<rest, decoded, reserved>>
    /\ NotIterating

-----------------------------------------------------------------------------
\* decode_pair_groups.

\* The rows that the groups stand for: every entry of a group with every entry.
Expanded(sizes) == FoldLeft(LAMBDA sum, n : sum + n * n, 0, sizes)

DecodeGroups ==
    /\ stage = "groups"
    /\ LET count == Varint(rest)
           sources == DeltaIds(count.rest, count.value)
           refuse(code) == stage' = code /\ UNCHANGED <<rest, decoded, reserved>>
       IN IF count.code # "ok" THEN refuse(count.code)
          ELSE IF ~WithinWidth(2 * count.value) THEN refuse("CountOverflow")
          ELSE IF 2 * count.value > Len(count.rest) THEN refuse("Truncated")
          ELSE /\ Continues(sources, "sizes",
                            [decoded EXCEPT !.group_count = count.value, !.sources = sources.value])
               /\ Reserve(count.value)
    /\ NotIterating

\* The sizes of n groups: none is empty, and the sums are checked size by size.
ReadSizes(bytes, n) ==
    LET next(state, i) ==
            LET v == Varint(state.rest)
                sizes == Append(state.value, v.value)
            IN IF state.code # "ok" THEN state
               ELSE IF v.code # "ok" THEN v
               ELSE IF v.value = 0 THEN Refused("InvalidPairGroups")
               ELSE IF ~WithinWidth(Expanded(sizes)) THEN Refused("CountOverflow")
               ELSE Taken(sizes, v.rest)
    IN FoldLeft(next, Taken(<<>>, bytes), [i \in 1 .. n |-> i])

DecodeSizes ==
    /\ stage = "sizes"
    /\ LET read == ReadSizes(rest, decoded.group_count)
           entries == FoldLeft(+, 0, read.value)
           refuse(code) == stage' = code /\ UNCHANGED <<rest, decoded>>
       IN IF read.code # "ok" THEN refuse(read.code)
          ELSE IF Expanded(read.value) # rowCount THEN refuse("InvalidPairGroups")
          ELSE IF ~WithinWidth(2 * entries) THEN refuse("CountOverflow")
          ELSE IF 2 * entries > Len(read.rest) THEN refuse("Truncated")
          ELSE Continues(read, "entries", [decoded EXCEPT !.sizes = read.value])
    /\ Reserve(decoded.group_count)
    /\ NotIterating

DecodeEntries ==
    /\ stage = "entries"
    /\ LET n == FoldLeft(+, 0, decoded.sizes)
           targets == DeltaIds(rest, n)
           events == DeltaIds(targets.rest, n)
       IN IF targets.code # "ok" THEN stage' = targets.code /\ UNCHANGED <<rest, decoded>>
          ELSE Continues(events, "end", [decoded EXCEPT !.targets = targets.value, !.events = events.value])
    /\ Reserve(FoldLeft(+, 0, decoded.sizes))
    /\ NotIterating

\* Nothing may remain.
DecodeEnd ==
    /\ stage = "end"
    /\ stage' = IF rest = <<>> THEN "decoded" ELSE "TrailingBytes"
    /\ UNCHANGED <<rest, decoded, reserved>>
    /\ NotIterating

-----------------------------------------------------------------------------
\* The iterators over a decoded capsule.

IsFactorized == decoded.schema = PairGroupsSchema

BindingRow(ids, label, violated, value) ==
    [ids |-> ids, label |-> label, violated |-> violated, value |-> value]

\* BindingRows::next over columns.
NextRow ==
    /\ stage = "decoded" /\ ~IsFactorized /\ rowsAt.row < rowCount
    /\ LET i == rowsAt.row + 1
       IN /\ yielded' = Append(yielded,
                 BindingRow([c \in DOMAIN decoded.ids |-> decoded.ids[c][i]],
                     IF layoutOf.labels THEN decoded.dictionary[decoded.labels[i] + 1] ELSE NoContent,
                     IF layoutOf.violations THEN decoded.violations[i] ELSE NoContent,
                     IF layoutOf.values THEN decoded.values[i] ELSE NoContent))
          /\ rowsAt' = [rowsAt EXCEPT !.row = i]
    /\ UNCHANGED <<capsule, stage, rest, decoded, reserved, groups>>

\* BindingRows::next over groups: left and right run through the entries of a group.
NextExpandedRow ==
    /\ stage = "decoded" /\ IsFactorized /\ rowsAt.group <= Len(decoded.sources)
    /\ LET at == rowsAt
           size == decoded.sizes[at.group]
           left == at.offset + at.left + 1
           right == at.offset + at.right + 1
           wraps == at.right + 1 = size
           leaves == wraps /\ at.left + 1 = size
       IN /\ yielded' = Append(yielded, BindingRow(<<decoded.sources[at.group], decoded.targets[left],
                                        decoded.targets[right], decoded.events[left],
                                        decoded.events[right]>>, NoContent, NoContent, NoContent))
          /\ rowsAt' = [row |-> at.row + 1,
                        right |-> IF wraps THEN 0 ELSE at.right + 1,
                        left |-> IF leaves THEN 0 ELSE IF wraps THEN at.left + 1 ELSE at.left,
                        offset |-> IF leaves THEN at.offset + size ELSE at.offset,
                        group |-> IF leaves THEN at.group + 1 ELSE at.group]
    /\ UNCHANGED <<capsule, stage, rest, decoded, reserved, groups>>

\* PairGroupIter::next; its offset is the number of entries before the group.
NextGroup ==
    /\ stage = "decoded" /\ IsFactorized /\ Len(groups) < Len(decoded.sources)
    /\ LET g == Len(groups) + 1
           offset == FoldLeft(+, 0, SubSeq(decoded.sizes, 1, g - 1))
           slice(s) == SubSeq(s, offset + 1, offset + decoded.sizes[g])
       IN groups' = Append(groups, [source |-> decoded.sources[g], targets |-> slice(decoded.targets),
                                    events |-> slice(decoded.events)])
    /\ UNCHANGED <<capsule, stage, rest, decoded, reserved, rowsAt, yielded>>

CapsuleNext ==
    \/ DecodeHeader \/ CheckColumns \/ DecodeIdColumn \/ DecodeLabels \/ DecodeViolations
    \/ DecodeValues \/ DecodeGroups \/ DecodeSizes \/ DecodeEntries \/ DecodeEnd
    \/ NextRow \/ NextExpandedRow \/ NextGroup

CapsuleSpec == CapsuleInit /\ [][CapsuleNext]_capsuleVars

-----------------------------------------------------------------------------
\* Properties.

\* The rows that a group stands for.
RowsOfGroup(g) ==
    LET n == Len(g.targets)
    IN [k \in 1 .. n * n |->
           LET left == (k - 1) \div n + 1
               right == ((k - 1) % n) + 1
           IN BindingRow(<<g.source, g.targets[left], g.targets[right], g.events[left], g.events[right]>>,
                  NoContent, NoContent, NoContent)]

\* Whatever bytes arrive, a capsule that decodes yields the rows its header announces,
\* the groups a caller borrows expand to these very rows in this order, and no vector is
\* ever reserved that the bytes could not fill (decode, BindingRows, PairGroupIter).
CapsuleRowsExact ==
    /\ reserved <= Len(capsule.bytes)
    /\ stage = "decoded" /\ ~IsFactorized =>
           /\ Len(decoded.ids) = layoutOf.ids
           /\ \A c \in DOMAIN decoded.ids : Len(decoded.ids[c]) = rowCount
           /\ layoutOf.labels => /\ Len(decoded.labels) = rowCount
                                /\ \A i \in 1 .. rowCount : decoded.labels[i] < Len(decoded.dictionary)
    /\ stage = "decoded" /\ IsFactorized
         /\ rowsAt.group > Len(decoded.sources) /\ Len(groups) = Len(decoded.sources) =>
           /\ Len(yielded) = rowCount
           /\ yielded = FlattenSeq([g \in DOMAIN groups |-> RowsOfGroup(groups[g])])

\* The writer's numbers come back: zig-zag deltas, packed bits, label indexes and values
\* of every capsule that pg_ocpm encodes decode to the rows it encoded.
CapsuleRoundTrip ==
    capsule.content # NoContent =>
        /\ stage \notin {"Truncated", "BadMagic", "UnknownSchema", "VarintOverflow", "CountOverflow",
                         "DeltaOverflow", "InvalidUtf8", "InvalidLabelDictionary", "InvalidPairGroups",
                         "TrailingBytes"}
        /\ stage = "decoded" => rowCount = Len(capsule.content)
        /\ IsPrefix(yielded, capsule.content)

\* What a capsule holds is what its reader sees, whoever wrote the bytes.
CapsuleExact == CapsuleRowsExact /\ CapsuleRoundTrip
=============================================================================
