---------------------------- MODULE EventSummary ----------------------------
(***************************************************************************)
(* Event-log summaries of time windows, read from pg_ocpm in one of three  *)
(* ways: factorized batches folded by EventSummaryBuilder::push_batch      *)
(* (crates/ocpm-core/src/event_batch.rs), one ordered row stream per       *)
(* window (event_log_row_summary, crates/ocpm-postgres/src/lib.rs), and    *)
(* one ordered row stream for all windows (summarize_event_row_fallback,   *)
(* src/ocpm_engine/event_batches.py). The server owes the rows of the      *)
(* windows' cases, each once. Only the Python statement asks for an order; *)
(* both row readers check it, so the model delivers rows in every order,   *)
(* cuts batches in every way, and lets the stream break. Sizes of integers *)
(* and of their encodings are constants.                                   *)
(***************************************************************************)
EXTENDS Integers, Sequences, FiniteSets, Bags, SequencesExt, FiniteSetsExt

CONSTANTS WindowLogs,   \* the contents the windows may have: see LogAssumption
          NWindows,     \* from_timestamps.len()
          MaxCount,     \* u64::MAX
          MaxDuration,  \* i128::MAX
          MaxOrdinal,   \* i32::MAX
          Base,         \* values of a byte; an encoded number has two
          IdBytes, HeaderBytes, StampBytes,  \* 8, 4 and 8
          Absent

Windows == 1 .. NWindows
ByteOrders == {"little", "big"}

\* A case's events, in order: activity and timestamp in microseconds.
TracedEvents == [activity : STRING, at : 0 .. Base * Base - 1]
IsTrace(t) ==
    /\ t \in Seq(TracedEvents)
    /\ t # <<>>
    /\ \A i \in 1 .. Len(t) - 1 : t[i].at <= t[i + 1].at

ASSUME LogAssumption ==
    /\ NWindows \in Nat \ {0}
    /\ \A log \in WindowLogs : DOMAIN log = Windows
    /\ \A log \in WindowLogs, w \in Windows :
           /\ log[w] \in [DOMAIN log[w] -> Seq(TracedEvents)]
           /\ IsFiniteSet(DOMAIN log[w]) /\ Absent \notin DOMAIN log[w]
           /\ \A c \in DOMAIN log[w] : IsTrace(log[w][c]) /\ Len(log[w][c]) < Base * Base

Readers == {"batches", "rows", "row_stream"}
Outcomes == {"running", "ok", "InvalidEventLogResultShape", "StreamError", "InvalidBatch",
             "InvalidWindowOrdinal", "CountOverflow", "InvalidEventLogOrder", "UnexpectedWindow"}

\* The absent value is none of the others.
ASSUME SizeAssumption ==
    /\ Base \in Nat \ {0, 1}
    /\ {MaxCount, MaxDuration, MaxOrdinal, IdBytes, HeaderBytes, StampBytes} \subseteq Nat
    /\ Absent \notin Readers \cup Outcomes /\ Absent \notin Seq(Seq(Int))
    /\ \A log \in WindowLogs, w \in Windows : Absent \notin Windows \X (DOMAIN log[w]) \X Nat

VARIABLES windowLog,    \* history: each window's cases, by case id
          reader,       \* the strategy chosen from the server's capabilities
          left,         \* rows the server has still to deliver: <<window, case, ordinal>>
          pending,      \* the row the reader has fetched and not yet folded
          window,       \* the window being read row by row
          open,         \* current_case, expected_ordinal, activities, timestamps
          builders,     \* EventSummaryBuilder of each window
          database_rows,
          outcome,
          tidy          \* history: the rows came case by case, window by window

summaryVars == <<windowLog, reader, left, pending, window, open, builders, database_rows,
          outcome, tidy>>

-----------------------------------------------------------------------------
\* The builder. ActivityAccumulator's four counters are four bags of activities.

NewBuilder ==
    [cases |-> 0, events |-> 0, payload |-> 0, variants |-> EmptyBag,
     occurrence |-> EmptyBag, present |-> EmptyBag, start |-> EmptyBag,
     end |-> EmptyBag, dfg |-> EmptyBag, duration |-> <<>>]

Copies(bag, n) == [x \in DOMAIN bag |-> n * bag[x]]
Tally(f) == [x \in Range(f) |-> Cardinality({i \in DOMAIN f : f[i] = x})]
Pairs(path) == [i \in 1 .. Len(path) - 1 |-> <<path[i], path[i + 1]>>]

\* The duration total of an edge over the cases of a batch.
EdgeDuration(edge, path, stamps) ==
    LET at == {i \in DOMAIN Pairs(path) : Pairs(path)[i] = edge}
    IN SumFunction([q \in (DOMAIN stamps) \X at |-> stamps[q[1]][q[2] + 1] - stamps[q[1]][q[2]]])

Duration(b, edge) == IF edge \in DOMAIN b.duration THEN b.duration[edge] ELSE 0

\* One path and the timestamp vectors of the cases that follow it.
AddCases(b, path, stamps, payload) ==
    LET n == Len(stamps)
    IN [cases |-> b.cases + n,
        events |-> b.events + n * Len(path),
        payload |-> b.payload + payload,
        variants |-> b.variants (+) Copies(SetToBag({path}), n),
        occurrence |-> b.occurrence (+) Copies(Tally(path), n),
        present |-> b.present (+) Copies(SetToBag(ToSet(path)), n),
        start |-> b.start (+) Copies(SetToBag({Head(path)}), n),
        end |-> b.end (+) Copies(SetToBag({Last(path)}), n),
        dfg |-> b.dfg (+) Copies(Tally(Pairs(path)), n),
        duration |-> [e \in DOMAIN b.duration \cup ToSet(Pairs(path)) |->
                         Duration(b, e) + EdgeDuration(e, path, stamps)]]

\* push_batch: the payload of a batch is its case ids and its timestamp records.
PushBatch(b, path, stamps) ==
    AddCases(b, path, stamps, Len(stamps) * (IdBytes + HeaderBytes + StampBytes * Len(path)))

\* push_case: an expanded case has no payload.
PushCase(b, path, times) == AddCases(b, path, <<times>>, 0)

AtMost(limit, totals) == \A x \in DOMAIN totals : totals[x] <= limit

\* checked_add and checked_duration_add succeed: no addend is negative, so a
\* total that fits at the end fitted all along.
CountsFit(b) ==
    /\ {b.cases, b.events, b.payload} \subseteq 0 .. MaxCount
    /\ AtMost(MaxCount, b.variants) /\ AtMost(MaxCount, b.dfg)
    /\ AtMost(MaxCount, b.occurrence) /\ AtMost(MaxCount, b.present)
    /\ AtMost(MaxCount, b.start) /\ AtMost(MaxCount, b.end)
    /\ AtMost(MaxDuration, b.duration)

-----------------------------------------------------------------------------
\* Batches on the wire.

Bytes(n, order) ==
    IF order = "big" THEN <<n \div Base, n % Base>> ELSE <<n % Base, n \div Base>>

\* read_i32, read_i64.
ReadInteger(bytes, order) ==
    IF order = "big" THEN bytes[1] * Base + bytes[2] ELSE bytes[2] * Base + bytes[1]

\* event_log_window_batches: cases of one path, packed in the server's byte order.
Wire(path, traces, order) ==
    [activity_path |-> path, activity_count |-> Len(path), case_count |-> Len(traces),
     case_ids |-> Len(traces),
     records |-> [k \in DOMAIN traces |->
                     [header |-> Bytes(Len(path), order),
                      stamps |-> [i \in DOMAIN path |-> Bytes(traces[k][i].at, order)]]]]

\* A row of another server: dimensions that do not describe the payloads.
Misshapen(wire) ==
    {[wire EXCEPT !.activity_count = @ - 1], [wire EXCEPT !.case_count = @ - 1],
     [wire EXCEPT !.case_ids = @ - 1],
     [wire EXCEPT !.records[Len(wire.records)].header = <<0, 0>>]}

OrdersOf(wire) ==
    {o \in ByteOrders : ReadInteger(wire.records[1].header, o) = wire.activity_count}

\* The dimensions describe the payloads, every record's header included.
Shaped(wire, order) ==
    /\ wire.activity_count > 0
    /\ wire.case_count > 0
    /\ Len(wire.activity_path) = wire.activity_count
    /\ wire.case_ids = wire.case_count
    /\ Len(wire.records) = wire.case_count
    /\ \A k \in DOMAIN wire.records :
           ReadInteger(wire.records[k].header, order) = wire.activity_count

Timestamps(wire, order) ==
    [k \in DOMAIN wire.records |->
        [i \in DOMAIN wire.activity_path |-> ReadInteger(wire.records[k].stamps[i], order)]]

\* Mutation: an ambiguous header is taken as little endian.
DecodeGuessing(wire) ==
    LET order == IF "little" \in OrdersOf(wire) THEN "little" ELSE "big"
    IN IF Shaped(wire, order) THEN Timestamps(wire, order) ELSE Absent

\* EventBatch::decode, then case and timestamp_micros: the timestamp vectors, or
\* Absent. The byte order is the one in which the first header is the path's length;
\* a header that reads the same both ways is refused. Case ids are never read.
Decode(wire) ==
    LET order == CHOOSE o \in OrdersOf(wire) : TRUE
    IN IF Cardinality(OrdersOf(wire)) = 1 /\ Shaped(wire, order)
       THEN Timestamps(wire, order)
       ELSE Absent

-----------------------------------------------------------------------------
\* The calls.

Path(trace) == [i \in DOMAIN trace |-> trace[i].activity]
RowsIn(w) == UNION {{<<w, c, i>> : i \in DOMAIN windowLog[w][c]} : c \in DOMAIN windowLog[w]}

NoCase == [case |-> Absent, path |-> <<>>, times |-> <<>>]

SummaryFrom(logs) ==
    /\ windowLog \in logs
    /\ reader = Absent
    /\ left = UNION {RowsIn(w) : w \in Windows}
    /\ pending = Absent
    /\ window = 1
    /\ open = NoCase
    /\ builders = [w \in Windows |-> NewBuilder]
    /\ database_rows = [w \in Windows |-> 0]
    /\ outcome = "running"
    /\ tidy = TRUE

SummaryInit == SummaryFrom(WindowLogs)

\* The factorized path when the server has it, else the rows, else an error. The
\* Rust adapter reads one row stream per window, the Python engine one for all.
Choose ==
    /\ outcome = "running" /\ reader = Absent
    /\ \E capabilities \in SUBSET {"batches", "rows"}, rows \in {"rows", "row_stream"} :
           IF "batches" \in capabilities
           THEN reader' = "batches" /\ UNCHANGED outcome
           ELSE IF "rows" \in capabilities
           THEN reader' = rows /\ UNCHANGED outcome
           ELSE outcome' = "InvalidEventLogResultShape" /\ UNCHANGED reader
    /\ UNCHANGED <<windowLog, left, pending, window, open, builders, database_rows, tidy>>

\* try_next, a cursor: the server's stream breaks and the call returns the error.
StreamFails ==
    /\ outcome = "running" /\ reader # Absent
    /\ outcome' = "StreamError"
    /\ UNCHANGED <<windowLog, reader, left, pending, window, open, builders, database_rows, tidy>>

\* A batch of a window: it is decoded, routed by its ordinal, counted and folded.
\* The first thing that goes wrong is the call's result; the builders are dropped.
FoldBatch(ordinal, wire) ==
    LET stamps == Decode(wire)
        built == PushBatch(builders[ordinal], wire.activity_path, stamps)
    IN IF stamps = Absent
       THEN outcome' = "InvalidBatch" /\ UNCHANGED <<builders, database_rows>>
       ELSE IF ordinal \notin Windows
       THEN outcome' = "InvalidWindowOrdinal" /\ UNCHANGED <<builders, database_rows>>
       ELSE IF database_rows[ordinal] = MaxCount \/ ~CountsFit(built)
       THEN outcome' = "CountOverflow" /\ UNCHANGED <<builders, database_rows>>
       ELSE /\ builders' = [builders EXCEPT ![ordinal] = built]
            /\ database_rows' = [database_rows EXCEPT ![ordinal] = @ + 1]
            /\ UNCHANGED outcome

\* The server sends some of the cases of a window that follow one path; or it
\* breaks its word, with a window never asked for or dimensions that do not fit.
DeliverBatch ==
    /\ outcome = "running" /\ reader = "batches"
    /\ \E w \in Windows, order \in ByteOrders :
       \E cases \in SUBSET {r[2] : r \in {q \in left : q[1] = w}} :
       \E path \in {Path(windowLog[w][c]) : c \in cases} :
           /\ \A c \in cases : Path(windowLog[w][c]) = path
           /\ LET ids == SetToSeq(cases)
                  wire == Wire(path, [k \in DOMAIN ids |-> windowLog[w][ids[k]]], order)
              IN \/ FoldBatch(w, wire) /\ UNCHANGED tidy
                 \/ \E ordinal \in {0, NWindows + 1} : FoldBatch(ordinal, wire) /\ tidy' = FALSE
                 \/ \E other \in Misshapen(wire) : FoldBatch(w, other) /\ tidy' = FALSE
           /\ left' = {r \in left : r[1] # w \/ r[2] \notin cases}
    /\ UNCHANGED <<windowLog, reader, pending, window, open>>

\* The stream of batches ends: every builder is finished.
FinishBatches ==
    /\ outcome = "running" /\ reader = "batches"
    /\ left = {}
    /\ outcome' = "ok"
    /\ UNCHANGED <<windowLog, reader, left, pending, window, open, builders, database_rows, tidy>>

\* r continues the case being sent, or starts one in the earliest window left.
NextInOrder(r) ==
    /\ \A q \in left : q[1] >= r[1]
    /\ \A q \in left : q[1] = r[1] /\ q[2] = r[2] => q[3] >= r[3]
    /\ r[3] = 1 => \A q \in left : <<q[1], q[2], 1>> \in left

\* The next row of the stream: of the window's own statement, or of the only one.
Fetch ==
    /\ outcome = "running" /\ reader \in {"rows", "row_stream"}
    /\ pending = Absent
    /\ \E r \in left :
           /\ reader = "rows" => r[1] = window
           /\ pending' = r
           /\ left' = left \ {r}
           /\ tidy' = (tidy /\ NextInOrder(r))
    /\ UNCHANGED <<windowLog, reader, window, open, builders, database_rows, outcome>>

\* The Python fallback counts in unbounded integers.
Bounded == reader = "rows"

\* The builder once the buffered case, if there is one, is pushed.
FlushedBuilder ==
    IF open.case = Absent THEN builders[window]
                        ELSE PushCase(builders[window], open.path, open.times)

\* Mutation: expected_ordinal is not reset when a new case starts.
ExpectedOrdinalKept(prior) == Len(open.path) + 1

\* expected_ordinal: one past the events buffered for the case.
ExpectedOrdinal(prior) == Len(prior.path) + 1

\* A row of the current window: a new case id pushes the buffered case; the row
\* must have the next ordinal of its case.
FoldRow ==
    LET case == pending[2]
        switch == open.case # Absent /\ open.case # case
        built == IF switch THEN FlushedBuilder ELSE builders[window]
        prior == IF switch THEN NoCase ELSE open
        event == windowLog[window][case][pending[3]]
        error == CASE Bounded /\ database_rows[window] = MaxCount -> "CountOverflow"
                   [] Bounded /\ ~CountsFit(built) -> "CountOverflow"
                   [] pending[3] # ExpectedOrdinal(prior) -> "InvalidEventLogOrder"
                   [] Bounded /\ pending[3] = MaxOrdinal -> "InvalidEventLogOrder"
                   [] OTHER -> Absent
    IN IF error # Absent
       THEN outcome' = error /\ UNCHANGED <<pending, open, builders, database_rows>>
       ELSE /\ open' = [case |-> case, path |-> Append(prior.path, event.activity),
                        times |-> Append(prior.times, event.at)]
            /\ builders' = [builders EXCEPT ![window] = built]
            /\ database_rows' = [database_rows EXCEPT ![window] = @ + 1]
            /\ pending' = Absent
            /\ UNCHANGED outcome

TakeRow ==
    /\ outcome = "running" /\ pending # Absent
    /\ pending[1] = window
    /\ FoldRow
    /\ UNCHANGED <<windowLog, reader, left, window, tidy>>

MoreWindows == window < NWindows

\* The window's stream ends, or a row of another window comes: the buffered case
\* is pushed and the next window begins. A row left over at the end is an error.
CloseWindow ==
    /\ outcome = "running" /\ reader \in {"rows", "row_stream"}
    /\ IF pending = Absent
       THEN \A r \in left : reader = "rows" /\ r[1] # window
       ELSE pending[1] # window
    /\ open' = NoCase
    /\ builders' = [builders EXCEPT ![window] = FlushedBuilder]    \* dropped on an error
    /\ IF Bounded /\ ~CountsFit(FlushedBuilder)
       THEN outcome' = "CountOverflow" /\ UNCHANGED window
       ELSE IF MoreWindows
       THEN window' = window + 1 /\ UNCHANGED outcome
       ELSE /\ outcome' = IF pending = Absent THEN "ok" ELSE "UnexpectedWindow"
            /\ UNCHANGED window
    /\ UNCHANGED <<windowLog, reader, left, pending, database_rows, tidy>>

SummaryNext ==
    \/ Choose \/ StreamFails
    \/ DeliverBatch \/ FinishBatches
    \/ Fetch \/ TakeRow \/ CloseWindow

SummarySpec == SummaryInit /\ [][SummaryNext]_summaryVars

-----------------------------------------------------------------------------
\* Properties.

\* The events of some cases, as pairs of a case and a position, and those with a next one.
EventsOf(cases) == UNION {{c} \X (DOMAIN cases[c]) : c \in DOMAIN cases}
EdgesOf(cases) == {e \in EventsOf(cases) : e[2] < Len(cases[e[1]])}
ActivityAt(cases, e) == cases[e[1]][e[2]].activity
EdgeAt(cases, e) == <<ActivityAt(cases, e), ActivityAt(cases, <<e[1], e[2] + 1>>)>>
Elapsed(cases, e) == cases[e[1]][e[2] + 1].at - cases[e[1]][e[2]].at

\* What a summary of cases is, counted from their events and edges.
SummaryOf(cases, packed) ==
    LET events == EventsOf(cases)
        edges == EdgesOf(cases)
    IN [cases |-> Cardinality(DOMAIN cases),
        events |-> Cardinality(events),
        payload |-> IF packed
                    THEN Cardinality(DOMAIN cases) * (IdBytes + HeaderBytes)
                         + Cardinality(events) * StampBytes
                    ELSE 0,
        variants |-> Tally([c \in DOMAIN cases |-> Path(cases[c])]),
        occurrence |-> Tally([e \in events |-> ActivityAt(cases, e)]),
        present |-> Tally([q \in {<<e[1], ActivityAt(cases, e)>> : e \in events} |-> q[2]]),
        start |-> Tally([c \in DOMAIN cases |-> Head(cases[c]).activity]),
        end |-> Tally([c \in DOMAIN cases |-> Last(cases[c]).activity]),
        dfg |-> Tally([e \in edges |-> EdgeAt(cases, e)]),
        duration |-> [x \in {EdgeAt(cases, e) : e \in edges} |->
                         SumFunction([e \in {d \in edges : EdgeAt(cases, d) = x} |->
                                         Elapsed(cases, e)])]]

Reference(w) == SummaryOf(windowLog[w], reader = "batches")

\* A summary that is returned is exact, whichever way it was read and in whatever
\* order and cut the server sent it: a misordered stream is refused, never miscounted.
SummaryExact == outcome = "ok" => \A w \in Windows : builders[w] = Reference(w)

\* A call refuses only what it must: a server that keeps its word is refused only
\* for a total, a case or a path length that the integers cannot carry.
Ambiguous(n) == Bytes(n, "little") = Bytes(n, "big")
RefusedForCause ==
    LET traces == UNION {{windowLog[w][c] : c \in DOMAIN windowLog[w]} : w \in Windows}
    IN /\ outcome \in {"InvalidWindowOrdinal", "UnexpectedWindow"} => ~tidy
       /\ outcome = "InvalidEventLogOrder" =>
              ~tidy \/ \E t \in traces : Bounded /\ Len(t) >= MaxOrdinal
       /\ outcome = "InvalidBatch" => ~tidy \/ \E t \in traces : Ambiguous(Len(t))
       /\ outcome = "CountOverflow" => \E w \in Windows : ~CountsFit(Reference(w))
=============================================================================
