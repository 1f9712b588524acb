--------------------------- MODULE ConnectionPool ---------------------------
(***************************************************************************)
(* The connection pool of DuckDbProvider (crates/ocpm-duckdb/src/          *)
(* provider.rs): with_connection, with_connection_context and              *)
(* connection_with_context, exact_local, and the ExecutionContext of       *)
(* crates/ocpm-provider/src/lib.rs. A request is a thread that is inside   *)
(* one provider call, of one of three kinds:                               *)
(*   "plain"    with_connection: takes the lock its turn points at         *)
(*   "context"  with_connection_context: polls all locks, and runs with a  *)
(*              watcher thread that interrupts the connection once when    *)
(*              the request is cancelled or its deadline passes            *)
(*   "local"    exact_local with its cache on: a plain request made under  *)
(*              the canonical_fallback lock                                *)
(* DuckDB itself is external: a statement runs, completes or fails, or     *)
(* stops with an error once the interrupt flag of its connection is set;   *)
(* starting a statement clears the flag.                                   *)
(***************************************************************************)
EXTENDS Naturals

CONSTANTS Requests,     \* threads that call the provider
          PoolSize,     \* connections.len(), at least 1
          MaxStatements,\* bound on the statements of one operation
          None

ASSUME PoolAssumption ==
    /\ PoolSize \in Nat \ {0}
    /\ MaxStatements \in Nat
    /\ None \notin Requests

Conns == 0..(PoolSize - 1)

VARIABLES
    lock,               \* connections: the request that holds each mutex
    poisoned,           \* connections whose mutex is poisoned
    signal,             \* DuckDB's interrupt flag of each connection
    turn,               \* next_connection modulo the pool size
    fallback,           \* canonical_fallback: holder, poisoned, cached
    pc, kind,           \* where each request is, and what it runs
    cancelled, expired, \* its ExecutionContext
    conn,               \* the connection it waits for or holds
    first, offset,      \* the scan of connection_with_context
    left,               \* statements its operation still has to run
    result,             \* what the operation, then the call, returned
    finished, watch     \* the CompletionSignal and the watcher thread

poolVars == <<lock, poisoned, signal, turn, fallback>>
ctxVars == <<cancelled, expired>>
scanVars == <<conn, first, offset>>
watchVars == <<finished, watch>>
locals == <<scanVars, left, watchVars>>
vars == <<poolVars, pc, kind, ctxVars, result, locals>>

Kinds == {"plain", "context", "local"}
Results == {"none", "ok", "error", "interrupted", "panic", "poisoned", "cancelled", "timeout"}
PC == {"idle", "enter", "scan", "fallback", "lock", "run", "statement", "ended", "final", "build",
       "done"}

Init ==
    /\ lock = [c \in Conns |-> None]
    /\ poisoned = {}
    /\ signal = [c \in Conns |-> FALSE]
    /\ turn = 0
    /\ fallback = [holder |-> None, poisoned |-> FALSE, cached |-> FALSE]
    /\ pc = [r \in Requests |-> "idle"]
    /\ kind = [r \in Requests |-> "plain"]
    /\ cancelled = [r \in Requests |-> FALSE]
    /\ expired = [r \in Requests |-> FALSE]
    /\ conn = [r \in Requests |-> 0]
    /\ first = [r \in Requests |-> 0]
    /\ offset = [r \in Requests |-> 0]
    /\ left = [r \in Requests |-> 0]
    /\ result = [r \in Requests |-> "none"]
    /\ finished = [r \in Requests |-> FALSE]
    /\ watch = [r \in Requests |-> "off"]

Active(r) == pc[r] \notin {"idle", "done"}

\* ExecutionContext::check, the cancellation before the deadline.
Stopped(r) == cancelled[r] \/ expired[r]
StopCode(r) == IF cancelled[r] THEN "cancelled" ELSE "timeout"

\* The call returns; its local variables and its context are gone.
Return(r, code) ==
    /\ pc' = [pc EXCEPT ![r] = "done"]
    /\ result' = [result EXCEPT ![r] = code]
    /\ conn' = [conn EXCEPT ![r] = 0]
    /\ first' = [first EXCEPT ![r] = 0]
    /\ offset' = [offset EXCEPT ![r] = 0]
    /\ left' = [left EXCEPT ![r] = 0]
    /\ finished' = [finished EXCEPT ![r] = FALSE]
    /\ watch' = [watch EXCEPT ![r] = "off"]
    /\ cancelled' = [cancelled EXCEPT ![r] = FALSE]
    /\ expired' = [expired EXCEPT ![r] = FALSE]

\* next_connection.fetch_add(1) % connections.len()
TakeTurn == turn' = (turn + 1) % PoolSize
-----------------------------------------------------------------------------
\* A thread calls the provider with a fresh context.
Call(r) ==
    /\ ~Active(r)
    /\ \E k \in Kinds, n \in 0..MaxStatements :
          /\ kind' = [kind EXCEPT ![r] = k]
          /\ left' = [left EXCEPT ![r] = n]
          /\ pc' = [pc EXCEPT ![r] = CASE k = "plain" -> "lock"
                                       [] k = "context" -> "enter"
                                       [] k = "local" -> "fallback"]
          /\ IF k = "plain"
             THEN TakeTurn /\ conn' = [conn EXCEPT ![r] = turn]
             ELSE UNCHANGED <<turn, conn>>
    /\ result' = [result EXCEPT ![r] = "none"]
    /\ UNCHANGED <<lock, poisoned, signal, fallback, ctxVars, first, offset, watchVars>>

\* ExecutionCancellation::cancel from another thread, and the deadline passing
\* (which makes no difference to a request that is cancelled already).
Cancel(r) ==
    /\ Active(r) /\ kind[r] = "context" /\ ~cancelled[r]
    /\ cancelled' = [cancelled EXCEPT ![r] = TRUE]
    /\ UNCHANGED <<poolVars, pc, kind, expired, result, locals>>

Expire(r) ==
    /\ Active(r) /\ kind[r] = "context" /\ ~Stopped(r)
    /\ expired' = [expired EXCEPT ![r] = TRUE]
    /\ UNCHANGED <<poolVars, pc, kind, cancelled, result, locals>>

\* with_connection_context checks the context first, then takes its turn.
Enter(r) ==
    /\ pc[r] = "enter"
    /\ \/ /\ Stopped(r)
          /\ Return(r, StopCode(r))
          /\ UNCHANGED turn
       \/ /\ ~Stopped(r)
          /\ TakeTurn
          /\ first' = [first EXCEPT ![r] = turn]
          /\ offset' = [offset EXCEPT ![r] = 0]
          /\ pc' = [pc EXCEPT ![r] = "scan"]
          /\ UNCHANGED <<result, ctxVars, conn, left, watchVars>>
    /\ UNCHANGED <<lock, poisoned, signal, fallback, kind>>

\* try_lock on the next connection of the round.
TryLock(r) ==
    /\ pc[r] = "scan"
    /\ offset[r] < PoolSize
    /\ LET c == (first[r] + offset[r]) % PoolSize
       IN  \/ /\ lock[c] # None
              /\ offset' = [offset EXCEPT ![r] = @ + 1]
              /\ UNCHANGED <<lock, pc, result, ctxVars, conn, first, left, watchVars>>
           \/ /\ lock[c] = None /\ c \in poisoned
              /\ Return(r, "poisoned")
              /\ UNCHANGED lock
           \/ /\ lock[c] = None /\ c \notin poisoned
              /\ lock' = [lock EXCEPT ![c] = r]
              /\ conn' = [conn EXCEPT ![r] = c]
              /\ first' = [first EXCEPT ![r] = 0]
              /\ offset' = [offset EXCEPT ![r] = 0]
              /\ watch' = [watch EXCEPT ![r] = "poll"]
              /\ pc' = [pc EXCEPT ![r] = "run"]
              /\ UNCHANGED <<result, ctxVars, left, finished>>
    /\ UNCHANGED <<poisoned, signal, turn, fallback, kind>>

\* Mutation: the waiting loop does not look at the context.
RetryScanUnchecked(r) ==
    /\ pc[r] = "scan"
    /\ offset[r] = PoolSize
    /\ offset' = [offset EXCEPT ![r] = 0]
    /\ UNCHANGED <<poolVars, kind, pc, result, ctxVars, conn, first, left, watchVars>>

\* All connections were busy: check the context, sleep, start another round.
RetryScan(r) ==
    /\ pc[r] = "scan"
    /\ offset[r] = PoolSize
    /\ \/ /\ Stopped(r)
          /\ Return(r, StopCode(r))
       \/ /\ ~Stopped(r)
          /\ offset' = [offset EXCEPT ![r] = 0]
          /\ UNCHANGED <<pc, result, ctxVars, conn, first, left, watchVars>>
    /\ UNCHANGED <<poolVars, kind>>

\* exact_local locks canonical_fallback and looks for the cached provider; if
\* there is none it keeps the lock while full_log takes a connection.
EnterFallback(r) ==
    /\ pc[r] = "fallback"
    /\ fallback.holder = None
    /\ \/ /\ fallback.poisoned
          /\ Return(r, "poisoned")
          /\ UNCHANGED <<fallback, turn>>
       \/ /\ ~fallback.poisoned /\ fallback.cached
          /\ Return(r, "ok")
          /\ UNCHANGED <<fallback, turn>>
       \/ /\ ~fallback.poisoned /\ ~fallback.cached
          /\ fallback' = [fallback EXCEPT !.holder = r]
          /\ TakeTurn
          /\ conn' = [conn EXCEPT ![r] = turn]
          /\ pc' = [pc EXCEPT ![r] = "lock"]
          /\ UNCHANGED <<result, ctxVars, first, offset, left, watchVars>>
    /\ UNCHANGED <<lock, poisoned, signal, kind>>

\* Mutation: canonical_fallback stays locked when full_log fails to get a lock.
LockKeepsFallback(r) ==
    /\ pc[r] = "lock"
    /\ lock[conn[r]] = None
    /\ IF conn[r] \in poisoned
       THEN Return(r, "poisoned") /\ UNCHANGED lock
       ELSE /\ lock' = [lock EXCEPT ![conn[r]] = r]
            /\ pc' = [pc EXCEPT ![r] = "run"]
            /\ UNCHANGED <<result, ctxVars, locals>>
    /\ UNCHANGED <<poisoned, signal, turn, fallback, kind>>

\* with_connection blocks on the one connection its turn points at.
Lock(r) ==
    /\ pc[r] = "lock"
    /\ lock[conn[r]] = None
    /\ \/ /\ conn[r] \in poisoned
          /\ Return(r, "poisoned")
          /\ fallback' = IF kind[r] = "local" THEN [fallback EXCEPT !.holder = None] ELSE fallback
          /\ UNCHANGED lock
       \/ /\ conn[r] \notin poisoned
          /\ lock' = [lock EXCEPT ![conn[r]] = r]
          /\ pc' = [pc EXCEPT ![r] = "run"]
          /\ UNCHANGED <<fallback, result, ctxVars, locals>>
    /\ UNCHANGED <<poisoned, signal, turn, kind>>
-----------------------------------------------------------------------------
\* DuckDB starts a statement and clears the connection's interrupt flag.
BeginStatement(r) ==
    /\ pc[r] = "run"
    /\ left[r] > 0
    /\ pc' = [pc EXCEPT ![r] = "statement"]
    /\ signal' = [signal EXCEPT ![conn[r]] = FALSE]
    /\ UNCHANGED <<lock, poisoned, turn, fallback, kind, ctxVars, scanVars, left, result,
                   watchVars>>

CompleteStatement(r) ==
    /\ pc[r] = "statement"
    /\ pc' = [pc EXCEPT ![r] = "run"]
    /\ left' = [left EXCEPT ![r] = @ - 1]
    /\ UNCHANGED <<poolVars, kind, ctxVars, scanVars, result, watchVars>>

\* The operation's closure ends; in a context request catch_unwind contains a
\* panic and the CompletionSignal is dropped.
EndOperation(r, code) ==
    /\ result' = [result EXCEPT ![r] = code]
    /\ finished' = [finished EXCEPT ![r] = TRUE]
    /\ pc' = [pc EXCEPT ![r] = "ended"]
    /\ UNCHANGED <<poolVars, kind, ctxVars, scanVars, left, watch>>

Succeed(r) == pc[r] = "run" /\ left[r] = 0 /\ EndOperation(r, "ok")

Fail(r) ==
    /\ pc[r] \in {"run", "statement"}
    /\ \E code \in {"error", "panic"} : EndOperation(r, code)

StopInterrupted(r) ==
    /\ pc[r] = "statement"
    /\ signal[conn[r]]
    /\ EndOperation(r, "interrupted")

\* The watcher thread: load finished, test the context, interrupt once.
WatcherPoll(r) ==
    /\ watch[r] = "poll"
    /\ watch' = [watch EXCEPT ![r] = IF finished[r] THEN "joined" ELSE "test"]
    /\ UNCHANGED <<poolVars, pc, kind, ctxVars, scanVars, left, result, finished>>

WatcherTest(r) ==
    /\ watch[r] = "test"
    /\ watch' = [watch EXCEPT ![r] = IF Stopped(r) THEN "fire" ELSE "poll"]
    /\ UNCHANGED <<poolVars, pc, kind, ctxVars, scanVars, left, result, finished>>

WatcherFire(r) ==
    /\ watch[r] = "fire"
    /\ signal' = [signal EXCEPT ![conn[r]] = TRUE]
    /\ watch' = [watch EXCEPT ![r] = "joined"]
    /\ UNCHANGED <<lock, poisoned, turn, fallback, pc, kind, ctxVars, scanVars, left, result,
                   finished>>

\* Mutation: the watcher is detached, and the guard dropped while it still runs.
ReleaseContextDetached(r) ==
    /\ pc[r] = "ended"
    /\ kind[r] = "context"
    /\ lock' = [lock EXCEPT ![conn[r]] = None]
    /\ pc' = [pc EXCEPT ![r] = "final"]
    /\ UNCHANGED <<poisoned, signal, turn, fallback, kind, ctxVars, scanVars, left, result,
                   watchVars>>

\* Mutation: no catch_unwind, so the guard is dropped by the unwinding.
ReleaseContextUnwinding(r) ==
    /\ pc[r] = "ended"
    /\ kind[r] = "context"
    /\ watch[r] = "joined"
    /\ lock' = [lock EXCEPT ![conn[r]] = None]
    /\ poisoned' = IF result[r] = "panic" THEN poisoned \cup {conn[r]} ELSE poisoned
    /\ pc' = [pc EXCEPT ![r] = "final"]
    /\ UNCHANGED <<signal, turn, fallback, kind, ctxVars, scanVars, left, result, watchVars>>

\* thread::scope joins the watcher, and only then is the guard dropped.
ReleaseContext(r) ==
    /\ pc[r] = "ended"
    /\ kind[r] = "context"
    /\ watch[r] = "joined"
    /\ lock' = [lock EXCEPT ![conn[r]] = None]
    /\ pc' = [pc EXCEPT ![r] = "final"]
    /\ UNCHANGED <<poisoned, signal, turn, fallback, kind, ctxVars, scanVars, left, result,
                   watchVars>>

\* Mutation: the result is returned without a last look at the context.
FinishContextUnchecked(r) ==
    /\ pc[r] = "final"
    /\ Return(r, result[r])
    /\ UNCHANGED <<poolVars, kind>>

\* A caught panic resumes; otherwise the context has the last word.
FinishContext(r) ==
    /\ pc[r] = "final"
    /\ Return(r, IF result[r] # "panic" /\ Stopped(r) THEN StopCode(r) ELSE result[r])
    /\ UNCHANGED <<poolVars, kind>>

\* with_connection drops its guard on the way out, and unwinding poisons the
\* mutex. exact_local goes on to build its provider from the log, or passes the
\* failure on, dropping (and, unwinding, poisoning) canonical_fallback too.
ReleasePlain(r) ==
    /\ pc[r] = "ended"
    /\ kind[r] # "context"
    /\ lock' = [lock EXCEPT ![conn[r]] = None]
    /\ poisoned' = IF result[r] = "panic" THEN poisoned \cup {conn[r]} ELSE poisoned
    /\ \/ /\ kind[r] = "local" /\ result[r] = "ok"
          /\ pc' = [pc EXCEPT ![r] = "build"]
          /\ UNCHANGED <<fallback, result, ctxVars, locals>>
       \/ /\ kind[r] = "local" /\ result[r] # "ok"
          /\ Return(r, result[r])
          /\ fallback' = [fallback EXCEPT !.holder = None,
                                          !.poisoned = @ \/ result[r] = "panic"]
       \/ /\ kind[r] = "plain"
          /\ Return(r, result[r])
          /\ UNCHANGED fallback
    /\ UNCHANGED <<signal, turn, kind>>

\* LocalProvider::new on the loaded log, cached when it succeeds.
BuildLocal(r) ==
    /\ pc[r] = "build"
    /\ \E code \in {"ok", "error", "panic"} :
          /\ Return(r, code)
          /\ fallback' = [holder |-> None, poisoned |-> code = "panic", cached |-> code = "ok"]
    /\ UNCHANGED <<lock, poisoned, signal, turn, kind>>

\* The steps of a request's own threads, apart from those inside DuckDB.
RequestStep(r) ==
    \/ Enter(r) \/ TryLock(r) \/ RetryScan(r) \/ BeginStatement(r) \/ Succeed(r)
    \/ StopInterrupted(r) \/ ReleaseContext(r) \/ FinishContext(r) \/ ReleasePlain(r)
    \/ BuildLocal(r)

Watcher(r) == WatcherPoll(r) \/ WatcherTest(r) \/ WatcherFire(r)

Next ==
    \E r \in Requests :
        \/ Call(r) \/ Cancel(r) \/ Expire(r)
        \/ EnterFallback(r) \/ Lock(r)
        \/ CompleteStatement(r) \/ Fail(r)
        \/ RequestStep(r) \/ Watcher(r)

Spec == Init /\ [][Next]_vars

\* Threads that can run do run. Taking a lock is not among the fair actions: a
\* Rust mutex does not promise that a waiter ever gets it.
ThreadFairness == \A r \in Requests : WF_vars(RequestStep(r)) /\ WF_vars(Watcher(r))

\* Statements may run for ever unless they are interrupted ...
LongStatementsSpec == Spec /\ ThreadFairness

\* ... or every statement ends by itself sooner or later.
FairSpec == LongStatementsSpec /\ \A r \in Requests : WF_vars(CompleteStatement(r))
-----------------------------------------------------------------------------
\* Type invariant of the pool, the requests and their watchers.
TypeOK ==
    /\ lock \in [Conns -> Requests \cup {None}]
    /\ poisoned \subseteq Conns
    /\ signal \in [Conns -> BOOLEAN]
    /\ turn \in Conns
    /\ fallback \in [holder : Requests \cup {None}, poisoned : BOOLEAN, cached : BOOLEAN]
    /\ pc \in [Requests -> PC]
    /\ kind \in [Requests -> Kinds]
    /\ cancelled \in [Requests -> BOOLEAN]
    /\ expired \in [Requests -> BOOLEAN]
    /\ conn \in [Requests -> Conns]
    /\ first \in [Requests -> Conns]
    /\ offset \in [Requests -> 0..PoolSize]
    /\ left \in [Requests -> 0..MaxStatements]
    /\ result \in [Requests -> Results]
    /\ finished \in [Requests -> BOOLEAN]
    /\ watch \in [Requests -> {"off", "poll", "test", "fire", "joined"}]

\* A connection is used by one thread at a time, and a watcher that may still
\* interrupt does so on a connection its own request holds: the guard is dropped
\* after thread::scope has joined the watcher.
OwnConnectionOnly ==
    \A r \in Requests :
        \/ pc[r] \in {"run", "statement", "ended"}
        \/ watch[r] \in {"poll", "test", "fire"}
        => lock[conn[r]] = r

\* No statement is interrupted on behalf of somebody else: an interrupt that
\* fires after its statement ended must not reach the next user of the
\* connection, plain requests included.
OnlyStoppedAreInterrupted ==
    \A r \in Requests :
        Active(r) /\ result[r] = "interrupted" => kind[r] = "context" /\ Stopped(r)

\* An interrupt reaches only the operation that it is meant for
\* (with_connection_context and its watcher).
InterruptsOwnOperation == OwnConnectionOnly /\ OnlyStoppedAreInterrupted

\* Once a request was cancelled or timed out, whenever that was before it
\* returned, it does not return its operation's result or error.
StoppedNeverSucceeds ==
    [][\A r \in Requests :
          Active(r) /\ pc'[r] = "done" /\ Stopped(r) =>
              result'[r] \in {"cancelled", "timeout", "poisoned", "panic"}]_vars

\* A thread that holds a connection waits for no other lock, and the holder of
\* canonical_fallback waits for a connection at most, so locks cannot deadlock.
LockOrder ==
    /\ \A c \in Conns : lock[c] # None =>
           pc[lock[c]] \in {"run", "statement", "ended"} /\ conn[lock[c]] = c
    /\ fallback.holder # None =>
           /\ kind[fallback.holder] = "local"
           /\ pc[fallback.holder] \in {"lock", "run", "statement", "ended", "build"}

\* A panic inside a context request never poisons a connection; only unwinding
\* through with_connection's guard does.
ContextNeverPoisons ==
    [][\A c \in Conns : c \in poisoned' \ poisoned =>
          lock[c] # None /\ kind[lock[c]] # "context" /\ result[lock[c]] = "panic"]_vars

\* A cancelled or timed-out context request returns, even when every connection
\* is busy, its statement is long or it raced with its own watcher.
StoppedReturns ==
    \A r \in Requests : Active(r) /\ kind[r] = "context" /\ Stopped(r) ~> ~Active(r)
-----------------------------------------------------------------------------
\* The parts of the inductive invariant behind the properties above.

\* Where a request is goes with its kind, and a running statement was still due.
KindsMatch ==
    \A r \in Requests :
        /\ pc[r] \in {"enter", "scan", "final"} => kind[r] = "context"
        /\ pc[r] \in {"fallback", "build"} => kind[r] = "local"
        /\ pc[r] = "lock" => kind[r] # "context"
        /\ pc[r] = "statement" => left[r] > 0

\* A watcher lives inside the scope of its context request, and one that is
\* about to interrupt saw the request stopped.
WatcherScoped ==
    \A r \in Requests :
        /\ watch[r] # "off" => /\ kind[r] = "context"
                              /\ pc[r] \in {"run", "statement", "ended", "final"}
        /\ pc[r] = "final" => watch[r] = "joined"
        /\ watch[r] = "fire" => Stopped(r)

\* Only a context request can be stopped, and only while it runs.
StopsInside == \A r \in Requests : Stopped(r) => kind[r] = "context" /\ Active(r)

\* A flag raised over a running statement was raised for the request that runs it.
SignalsMeant ==
    \A r \in Requests :
        pc[r] = "statement" /\ signal[conn[r]] => kind[r] = "context" /\ Stopped(r)

PoolInv ==
    /\ TypeOK /\ KindsMatch /\ WatcherScoped /\ StopsInside /\ SignalsMeant
    /\ InterruptsOwnOperation /\ LockOrder
=============================================================================
