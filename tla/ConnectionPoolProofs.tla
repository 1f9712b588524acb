------------------------ MODULE ConnectionPoolProofs ------------------------
(***************************************************************************)
(* Proofs about ConnectionPool for any number of requests and connections, *)
(* and operations of any length.                                           *)
(***************************************************************************)
EXTENDS ConnectionPool, TLAPS

\* The counter modulo the pool size, and the scan of a round, name connections.
LEMMA TurnInPool ==
    ASSUME NEW a \in Nat, NEW b \in Nat
    PROVE  (a + b) % PoolSize \in Conns
  BY PoolAssumption DEF Conns

\* The initial state satisfies the inductive invariant.
LEMMA InitInv == Init => PoolInv
<1> SUFFICES ASSUME Init PROVE PoolInv
    OBVIOUS
<1> USE DEF Init
<1>1. TypeOK
  BY PoolAssumption DEF TypeOK, Conns, PC, Kinds, Results
<1>2. KindsMatch /\ WatcherScoped /\ StopsInside /\ SignalsMeant
  BY DEF KindsMatch, WatcherScoped, StopsInside, SignalsMeant, Stopped
<1>3. InterruptsOwnOperation /\ LockOrder
  BY DEF InterruptsOwnOperation, OwnConnectionOnly, OnlyStoppedAreInterrupted, Active, LockOrder
<1> QED
  BY <1>1, <1>2, <1>3 DEF PoolInv

\* fetch_add(1) % connections.len(), the turn taken and the turn left behind.
LEMMA TurnTyped ==
    ASSUME TypeOK, TakeTurn
    PROVE  turn \in Conns /\ turn' \in Conns
<1>1. turn \in Nat /\ turn \in Conns
  BY PoolAssumption DEF TypeOK, Conns
<1> QED
  BY <1>1, TurnInPool DEF TakeTurn

\* A request that holds no connection is not the holder of any mutex.
LEMMA HoldsNone ==
    ASSUME PoolInv, NEW r \in Requests, pc[r] \notin {"run", "statement", "ended"}
    PROVE  \A c \in Conns : lock[c] # r
  BY PoolAssumption DEF PoolInv, LockOrder, TypeOK

\* A call that returns: the connection and the fallback are held by others, or by
\* nobody, and everything that was its own is reset.
LEMMA ReturnInv ==
    ASSUME PoolInv, NEW r \in Requests, NEW code \in Results, Return(r, code),
           UNCHANGED <<signal, kind>>,
           poisoned' \subseteq Conns, turn' \in Conns,
           lock' = [c \in Conns |-> IF lock[c] = r THEN None ELSE lock[c]],
           fallback' \in [holder : Requests \cup {None}, poisoned : BOOLEAN, cached : BOOLEAN],
           fallback'.holder = None \/ (fallback'.holder = fallback.holder /\ fallback.holder # r)
    PROVE  PoolInv'
<1> USE DEF PoolInv, Return
<1>0. 0 \in Conns
  BY PoolAssumption DEF Conns
<1>1. TypeOK'
  <2>1. lock' \in [Conns -> Requests \cup {None}]
    BY DEF TypeOK
  <2>2. conn' \in [Requests -> Conns] /\ first' \in [Requests -> Conns]
    BY <1>0 DEF TypeOK
  <2>3. offset' \in [Requests -> 0..PoolSize] /\ left' \in [Requests -> 0..MaxStatements]
    BY PoolAssumption DEF TypeOK
  <2> QED
    BY <2>1, <2>2, <2>3 DEF TypeOK, PC
<1>2. \A x \in Requests : x # r => /\ pc'[x] = pc[x] /\ conn'[x] = conn[x]
                                   /\ watch'[x] = watch[x] /\ result'[x] = result[x]
                                   /\ cancelled'[x] = cancelled[x] /\ expired'[x] = expired[x]
  BY DEF TypeOK
<1>3. pc'[r] = "done" /\ watch'[r] = "off" /\ ~cancelled'[r] /\ ~expired'[r]
  BY DEF TypeOK
<1>4. KindsMatch' /\ WatcherScoped' /\ StopsInside' /\ SignalsMeant'
  BY <1>2, <1>3 DEF KindsMatch, WatcherScoped, StopsInside, SignalsMeant, Stopped, Active
<1>5. InterruptsOwnOperation'
  BY <1>2, <1>3 DEF InterruptsOwnOperation, OwnConnectionOnly, OnlyStoppedAreInterrupted,
                    Stopped, Active, TypeOK
<1>6. LockOrder'
  BY <1>2, PoolAssumption DEF LockOrder, TypeOK
<1> QED
  BY <1>1, <1>4, <1>5, <1>6

\* A call that returns while it holds neither a connection nor canonical_fallback.
LEMMA ReturnFreeInv ==
    ASSUME PoolInv, NEW r \in Requests, NEW code \in Results, Return(r, code),
           pc[r] \in {"enter", "scan", "fallback", "final"},
           UNCHANGED <<lock, poisoned, signal, kind, turn, fallback>>
    PROVE  PoolInv'
<1>1. lock' = [c \in Conns |-> IF lock[c] = r THEN None ELSE lock[c]]
  BY HoldsNone DEF PoolInv, TypeOK
<1>2. fallback'.holder = None \/ (fallback'.holder = fallback.holder /\ fallback.holder # r)
  BY DEF PoolInv, LockOrder
<1>3. /\ poisoned' \subseteq Conns /\ turn' \in Conns
      /\ fallback' \in [holder : Requests \cup {None}, poisoned : BOOLEAN, cached : BOOLEAN]
  BY DEF PoolInv, TypeOK
<1> QED
  BY <1>1, <1>2, <1>3, ReturnInv

\* The context's errors are results.
LEMMA StopCodeTyped == \A r \in Requests : StopCode(r) \in Results
  BY DEF StopCode, Results

\* A call begins in the state of its kind, with no watcher and a fresh context.
LEMMA CallInv ==
    ASSUME PoolInv, NEW r \in Requests, Call(r)
    PROVE  PoolInv'
<1> USE DEF PoolInv
<1> PICK k \in Kinds, n \in 0..MaxStatements :
        /\ kind' = [kind EXCEPT ![r] = k]
        /\ left' = [left EXCEPT ![r] = n]
        /\ pc' = [pc EXCEPT ![r] = CASE k = "plain" -> "lock"
                                     [] k = "context" -> "enter"
                                     [] k = "local" -> "fallback"]
        /\ IF k = "plain"
           THEN TakeTurn /\ conn' = [conn EXCEPT ![r] = turn]
           ELSE UNCHANGED <<turn, conn>>
  BY DEF Call
<1>0. /\ ~Active(r) /\ result' = [result EXCEPT ![r] = "none"]
      /\ UNCHANGED <<lock, poisoned, signal, fallback, cancelled, expired, first, offset,
                     finished, watch>>
  BY DEF Call, ctxVars, watchVars
<1>1. \/ pc'[r] = "lock" /\ k = "plain"
      \/ pc'[r] = "enter" /\ k = "context"
      \/ pc'[r] = "fallback" /\ k = "local"
  <2>1. k = "plain" \/ k = "context" \/ k = "local"
    BY DEF Kinds
  <2>2. CASE k = "plain"
    BY <2>2 DEF TypeOK
  <2>3. CASE k = "context"
    <3>1. (CASE k = "plain" -> "lock" [] k = "context" -> "enter" [] k = "local" -> "fallback")
            = "enter"
      BY <2>3, Zenon
    <3> QED
      BY <2>3, <3>1 DEF TypeOK
  <2>4. CASE k = "local"
    <3>1. (CASE k = "plain" -> "lock" [] k = "context" -> "enter" [] k = "local" -> "fallback")
            = "fallback"
      BY <2>4, Zenon
    <3> QED
      BY <2>4, <3>1 DEF TypeOK
  <2> QED
    BY <2>1, <2>2, <2>3, <2>4
<1>2. \A x \in Requests : x # r => /\ pc'[x] = pc[x] /\ kind'[x] = kind[x] /\ conn'[x] = conn[x]
                                   /\ result'[x] = result[x]
  BY <1>0 DEF TypeOK
<1>3. kind'[r] = k /\ result'[r] = "none"
  BY <1>0 DEF TypeOK
<1>4. TypeOK'
  <2>1. turn' \in Conns /\ conn' \in [Requests -> Conns]
    <3>1. CASE k = "plain"
      BY <3>1, TurnTyped DEF TypeOK
    <3>2. CASE k # "plain"
      BY <3>2 DEF TypeOK
    <3> QED
      BY <3>1, <3>2
  <2>2. pc' \in [Requests -> PC]
    BY <1>1 DEF TypeOK, PC
  <2> QED
    BY <1>0, <2>1, <2>2 DEF TypeOK, Results
<1>5. watch[r] = "off" /\ ~Stopped(r)
  BY <1>0 DEF WatcherScoped, StopsInside, Active, TypeOK
<1>6. KindsMatch' /\ WatcherScoped' /\ StopsInside'
  BY <1>0, <1>1, <1>2, <1>3, <1>5 DEF KindsMatch, WatcherScoped, StopsInside, Stopped, Active
<1>7. SignalsMeant'
  BY <1>0, <1>1, <1>2 DEF SignalsMeant, Stopped
<1>8. InterruptsOwnOperation'
  BY <1>0, <1>1, <1>2, <1>3, <1>5 DEF InterruptsOwnOperation, OwnConnectionOnly,
                                     OnlyStoppedAreInterrupted, Stopped, Active
<1>9. LockOrder'
  BY <1>0, <1>2, PoolAssumption DEF LockOrder, Active, TypeOK
<1> QED
  BY <1>4, <1>6, <1>7, <1>8, <1>9

\* Stopping a request from outside touches its context only.
LEMMA CancelInv ==
    ASSUME PoolInv, NEW r \in Requests, Cancel(r)
    PROVE  PoolInv'
<1> USE DEF PoolInv, Cancel, poolVars, locals, scanVars, watchVars
<1>1. TypeOK'
  BY DEF TypeOK, PC, Results
<1>2. KindsMatch' /\ WatcherScoped' /\ StopsInside'
  BY DEF TypeOK, KindsMatch, WatcherScoped, StopsInside, Stopped, Active
<1>3. SignalsMeant'
  BY DEF TypeOK, SignalsMeant, WatcherScoped, InterruptsOwnOperation, OwnConnectionOnly, Stopped
<1>4. InterruptsOwnOperation'
  BY DEF TypeOK, InterruptsOwnOperation, OwnConnectionOnly, OnlyStoppedAreInterrupted,
         Stopped, Active
<1>5. LockOrder'
  BY DEF TypeOK, LockOrder
<1> QED
  BY <1>1, <1>2, <1>3, <1>4, <1>5

\* The deadline passes.
LEMMA ExpireInv ==
    ASSUME PoolInv, NEW r \in Requests, Expire(r)
    PROVE  PoolInv'
<1> USE DEF PoolInv, Expire, poolVars, locals, scanVars, watchVars
<1>1. TypeOK'
  BY DEF TypeOK, PC, Results
<1>2. KindsMatch' /\ WatcherScoped' /\ StopsInside'
  BY DEF TypeOK, KindsMatch, WatcherScoped, StopsInside, Stopped, Active
<1>3. SignalsMeant'
  BY DEF TypeOK, SignalsMeant, WatcherScoped, InterruptsOwnOperation, OwnConnectionOnly, Stopped
<1>4. InterruptsOwnOperation'
  BY DEF TypeOK, InterruptsOwnOperation, OwnConnectionOnly, OnlyStoppedAreInterrupted,
         Stopped, Active
<1>5. LockOrder'
  BY DEF TypeOK, LockOrder
<1> QED
  BY <1>1, <1>2, <1>3, <1>4, <1>5

\* A context request checks its context and takes its turn.
LEMMA EnterInv ==
    ASSUME PoolInv, NEW r \in Requests, Enter(r)
    PROVE  PoolInv'
<1>1. CASE Return(r, StopCode(r)) /\ UNCHANGED turn
  BY <1>1, StopCodeTyped, ReturnFreeInv DEF Enter
<1>2. CASE /\ ~Stopped(r)
           /\ TakeTurn
           /\ first' = [first EXCEPT ![r] = turn]
           /\ offset' = [offset EXCEPT ![r] = 0]
           /\ pc' = [pc EXCEPT ![r] = "scan"]
           /\ UNCHANGED <<result, ctxVars, conn, left, watchVars>>
  <2> USE <1>2 DEF PoolInv, Enter, ctxVars, watchVars
  <2>1. TypeOK'
    <3>1. turn \in Conns /\ turn' \in Conns /\ 0 \in 0..PoolSize
      BY TurnTyped, PoolAssumption
    <3> QED
      BY <3>1 DEF TypeOK, PC
  <2>2. KindsMatch' /\ WatcherScoped' /\ StopsInside'
    BY DEF TypeOK, KindsMatch, WatcherScoped, StopsInside, Stopped, Active
  <2>3. SignalsMeant' /\ InterruptsOwnOperation'
    BY DEF TypeOK, SignalsMeant, WatcherScoped, InterruptsOwnOperation, OwnConnectionOnly,
           OnlyStoppedAreInterrupted, Stopped, Active
  <2>4. LockOrder'
    BY DEF TypeOK, LockOrder
  <2> QED
    BY <2>1, <2>2, <2>3, <2>4
<1> QED
  BY <1>1, <1>2 DEF Enter

\* A round of try_lock: the next connection is busy, poisoned, or taken together
\* with a new watcher.
LEMMA TryLockInv ==
    ASSUME PoolInv, NEW r \in Requests, TryLock(r)
    PROVE  PoolInv'
<1> DEFINE c == (first[r] + offset[r]) % PoolSize
<1>0. pc[r] = "scan" /\ offset[r] < PoolSize /\ UNCHANGED <<poisoned, signal, turn, fallback, kind>>
  BY DEF TryLock
<1>1. c \in Conns
  <2>1. first[r] \in Nat /\ offset[r] \in Nat
    BY PoolAssumption DEF PoolInv, TypeOK, Conns
  <2> QED
    BY <2>1, TurnInPool
<1> HIDE DEF c
<1>2. CASE /\ offset' = [offset EXCEPT ![r] = @ + 1]
           /\ UNCHANGED <<lock, pc, result, ctxVars, conn, first, left, watchVars>>
  <2> USE <1>0, <1>2 DEF PoolInv, ctxVars, watchVars
  <2>1. TypeOK'
    <3>1. offset[r] \in 0..PoolSize /\ offset[r] + 1 \in 0..PoolSize
      BY PoolAssumption DEF TypeOK
    <3> QED
      BY <3>1 DEF TypeOK
  <2>2. KindsMatch' /\ WatcherScoped' /\ StopsInside' /\ SignalsMeant'
    BY DEF KindsMatch, WatcherScoped, StopsInside, SignalsMeant, Stopped, Active
  <2>3. InterruptsOwnOperation' /\ LockOrder'
    BY DEF InterruptsOwnOperation, OwnConnectionOnly, OnlyStoppedAreInterrupted, LockOrder,
           Stopped, Active
  <2> QED
    BY <2>1, <2>2, <2>3
<1>3. CASE Return(r, "poisoned") /\ UNCHANGED lock
  <2>1. "poisoned" \in Results
    BY DEF Results
  <2> QED
    BY <1>0, <1>3, <2>1, ReturnFreeInv
<1>4. CASE /\ lock[c] = None /\ c \notin poisoned
           /\ lock' = [lock EXCEPT ![c] = r]
           /\ conn' = [conn EXCEPT ![r] = c]
           /\ first' = [first EXCEPT ![r] = 0]
           /\ offset' = [offset EXCEPT ![r] = 0]
           /\ watch' = [watch EXCEPT ![r] = "poll"]
           /\ pc' = [pc EXCEPT ![r] = "run"]
           /\ UNCHANGED <<result, ctxVars, left, finished>>
  <2> USE <1>0, <1>1, <1>4 DEF PoolInv, ctxVars
  <2>1. TypeOK'
    <3>1. 0 \in Conns /\ 0 \in 0..PoolSize
      BY PoolAssumption DEF Conns
    <3> QED
      BY <3>1 DEF TypeOK, PC
  <2>2. \A x \in Requests : x # r => /\ pc'[x] = pc[x] /\ conn'[x] = conn[x]
                                     /\ watch'[x] = watch[x]
    BY DEF TypeOK
  <2>3. pc'[r] = "run" /\ conn'[r] = c /\ watch'[r] = "poll" /\ kind[r] = "context"
    BY DEF TypeOK, KindsMatch
  <2>4. KindsMatch' /\ WatcherScoped' /\ StopsInside' /\ SignalsMeant'
    BY <2>2, <2>3 DEF KindsMatch, WatcherScoped, StopsInside, SignalsMeant, Stopped, Active
  <2>5. OwnConnectionOnly'
    <3> SUFFICES ASSUME NEW x \in Requests, x # r,
                        \/ pc[x] \in {"run", "statement", "ended"}
                        \/ watch[x] \in {"poll", "test", "fire"}
                 PROVE  lock'[conn[x]] = x
      BY <2>2, <2>3 DEF OwnConnectionOnly, TypeOK
    <3>1. lock[conn[x]] = x /\ conn[x] \in Conns
      BY DEF InterruptsOwnOperation, OwnConnectionOnly, TypeOK
    <3> QED
      BY <3>1, PoolAssumption DEF TypeOK
  <2>6. OnlyStoppedAreInterrupted'
    BY <2>2, <2>3 DEF InterruptsOwnOperation, OnlyStoppedAreInterrupted, Stopped, Active
  <2>7. LockOrder'
    BY <2>2, <2>3, PoolAssumption DEF LockOrder, TypeOK
  <2> QED
    BY <2>1, <2>4, <2>5, <2>6, <2>7 DEF InterruptsOwnOperation
<1> QED
  BY <1>2, <1>3, <1>4 DEF TryLock, c

\* A round that found every connection busy.
LEMMA RetryScanInv ==
    ASSUME PoolInv, NEW r \in Requests, RetryScan(r)
    PROVE  PoolInv'
<1>1. CASE Return(r, StopCode(r))
  BY <1>1, StopCodeTyped, ReturnFreeInv DEF RetryScan, poolVars
<1>2. CASE /\ offset' = [offset EXCEPT ![r] = 0]
           /\ UNCHANGED <<pc, result, ctxVars, conn, first, left, watchVars>>
  <2> USE <1>2 DEF PoolInv, RetryScan, poolVars, ctxVars, watchVars
  <2>1. TypeOK'
    <3>1. 0 \in 0..PoolSize
      BY PoolAssumption
    <3> QED
      BY <3>1 DEF TypeOK
  <2>2. KindsMatch' /\ WatcherScoped' /\ StopsInside' /\ SignalsMeant'
    BY DEF KindsMatch, WatcherScoped, StopsInside, SignalsMeant, Stopped, Active
  <2>3. InterruptsOwnOperation' /\ LockOrder'
    BY DEF InterruptsOwnOperation, OwnConnectionOnly, OnlyStoppedAreInterrupted, LockOrder,
           Stopped, Active
  <2> QED
    BY <2>1, <2>2, <2>3
<1> QED
  BY <1>1, <1>2 DEF RetryScan

\* canonical_fallback is free when it is taken.
LEMMA EnterFallbackInv ==
    ASSUME PoolInv, NEW r \in Requests, EnterFallback(r)
    PROVE  PoolInv'
<1>0. /\ pc[r] = "fallback" /\ fallback.holder = None
      /\ UNCHANGED <<lock, poisoned, signal, kind>>
  BY DEF EnterFallback
<1>1. CASE \E code \in {"poisoned", "ok"} : Return(r, code) /\ UNCHANGED <<fallback, turn>>
  <2>1. {"poisoned", "ok"} \subseteq Results
    BY DEF Results
  <2> QED
    BY <1>0, <1>1, <2>1, ReturnFreeInv
<1>2. CASE /\ fallback' = [fallback EXCEPT !.holder = r]
           /\ TakeTurn
           /\ conn' = [conn EXCEPT ![r] = turn]
           /\ pc' = [pc EXCEPT ![r] = "lock"]
           /\ UNCHANGED <<result, ctxVars, first, offset, left, watchVars>>
  <2> USE <1>0, <1>2 DEF PoolInv, ctxVars, watchVars
  <2>1. TypeOK'
    <3>1. turn \in Conns /\ turn' \in Conns
      BY TurnTyped
    <3>2. fallback' \in [holder : Requests \cup {None}, poisoned : BOOLEAN, cached : BOOLEAN]
      BY DEF TypeOK
    <3> QED
      BY <3>1, <3>2 DEF TypeOK, PC
  <2>2. \A x \in Requests : x # r => pc'[x] = pc[x] /\ conn'[x] = conn[x]
    BY DEF TypeOK
  <2>3. pc'[r] = "lock" /\ kind[r] = "local" /\ watch[r] = "off"
    BY DEF TypeOK, KindsMatch, WatcherScoped
  <2>4. KindsMatch' /\ WatcherScoped' /\ StopsInside' /\ SignalsMeant'
    BY <2>2, <2>3 DEF KindsMatch, WatcherScoped, StopsInside, SignalsMeant, Stopped, Active
  <2>5. InterruptsOwnOperation'
    BY <2>2, <2>3 DEF InterruptsOwnOperation, OwnConnectionOnly, OnlyStoppedAreInterrupted,
                      StopsInside, Stopped, Active
  <2>6. LockOrder'
    <3>1. fallback'.holder = r
      BY DEF TypeOK
    <3> QED
      BY <2>2, <2>3, <3>1, PoolAssumption DEF LockOrder, TypeOK
  <2> QED
    BY <2>1, <2>4, <2>5, <2>6
<1> QED
  BY <1>1, <1>2 DEF EnterFallback

\* A blocking request gets the connection it waits for, or finds it poisoned.
LEMMA LockInv ==
    ASSUME PoolInv, NEW r \in Requests, Lock(r)
    PROVE  PoolInv'
<1>0. /\ pc[r] = "lock" /\ lock[conn[r]] = None /\ conn[r] \in Conns
      /\ UNCHANGED <<poisoned, signal, turn, kind>>
  BY DEF Lock, PoolInv, TypeOK
<1>1. CASE /\ Return(r, "poisoned")
           /\ fallback' = IF kind[r] = "local" THEN [fallback EXCEPT !.holder = None] ELSE fallback
           /\ UNCHANGED lock
  <2>1. "poisoned" \in Results
    BY DEF Results
  <2>2. lock' = [d \in Conns |-> IF lock[d] = r THEN None ELSE lock[d]]
    BY <1>0, <1>1, HoldsNone DEF PoolInv, TypeOK
  <2>3. /\ poisoned' \subseteq Conns /\ turn' \in Conns
        /\ fallback' \in [holder : Requests \cup {None}, poisoned : BOOLEAN, cached : BOOLEAN]
    BY <1>0, <1>1 DEF PoolInv, TypeOK
  <2>4. fallback'.holder = None \/ (fallback'.holder = fallback.holder /\ fallback.holder # r)
    BY <1>0, <1>1 DEF PoolInv, LockOrder, TypeOK
  <2> QED
    BY <1>0, <1>1, <2>1, <2>2, <2>3, <2>4, ReturnInv
<1>2. CASE /\ lock' = [lock EXCEPT ![conn[r]] = r]
           /\ pc' = [pc EXCEPT ![r] = "run"]
           /\ UNCHANGED <<fallback, result, ctxVars, locals>>
  <2> USE <1>0, <1>2 DEF PoolInv, ctxVars, locals, scanVars, watchVars
  <2>1. TypeOK'
    BY DEF TypeOK, PC
  <2>2. \A x \in Requests : x # r => pc'[x] = pc[x]
    BY DEF TypeOK
  <2>3. pc'[r] = "run" /\ kind[r] # "context" /\ watch[r] = "off"
    BY DEF TypeOK, KindsMatch, WatcherScoped
  <2>4. KindsMatch' /\ WatcherScoped' /\ StopsInside' /\ SignalsMeant'
    BY <2>2, <2>3 DEF KindsMatch, WatcherScoped, StopsInside, SignalsMeant, Stopped, Active
  <2>5. OwnConnectionOnly'
    <3> SUFFICES ASSUME NEW x \in Requests, x # r,
                        \/ pc[x] \in {"run", "statement", "ended"}
                        \/ watch[x] \in {"poll", "test", "fire"}
                 PROVE  lock'[conn[x]] = x
      BY <2>2, <2>3 DEF OwnConnectionOnly, TypeOK
    <3>1. lock[conn[x]] = x /\ conn[x] \in Conns
      BY DEF InterruptsOwnOperation, OwnConnectionOnly, TypeOK
    <3> QED
      BY <3>1, PoolAssumption DEF TypeOK
  <2>6. OnlyStoppedAreInterrupted'
    BY <2>2, <2>3 DEF InterruptsOwnOperation, OnlyStoppedAreInterrupted, Stopped, Active
  <2>7. LockOrder'
    BY <2>2, <2>3, PoolAssumption DEF LockOrder, TypeOK
  <2> QED
    BY <2>1, <2>4, <2>5, <2>6, <2>7 DEF InterruptsOwnOperation
<1> QED
  BY <1>1, <1>2 DEF Lock

\* A statement begins with its connection's flag cleared.
LEMMA BeginStatementInv ==
    ASSUME PoolInv, NEW r \in Requests, BeginStatement(r)
    PROVE  PoolInv'
<1> USE DEF PoolInv, BeginStatement, ctxVars, scanVars, watchVars
<1>1. TypeOK'
  BY DEF TypeOK, PC, Results
<1>2. KindsMatch' /\ WatcherScoped' /\ StopsInside'
  BY DEF TypeOK, KindsMatch, WatcherScoped, StopsInside, Stopped, Active
<1>3. SignalsMeant'
  BY DEF TypeOK, SignalsMeant, WatcherScoped, InterruptsOwnOperation, OwnConnectionOnly, Stopped
<1>4. InterruptsOwnOperation'
  BY DEF TypeOK, InterruptsOwnOperation, OwnConnectionOnly, OnlyStoppedAreInterrupted,
         Stopped, Active
<1>5. LockOrder'
  BY DEF TypeOK, LockOrder
<1> QED
  BY <1>1, <1>2, <1>3, <1>4, <1>5

\* A statement ends by itself.
LEMMA CompleteStatementInv ==
    ASSUME PoolInv, NEW r \in Requests, CompleteStatement(r)
    PROVE  PoolInv'
<1> USE DEF PoolInv, CompleteStatement, poolVars, ctxVars, scanVars, watchVars
<1>1. TypeOK'
  <2>1. left[r] \in 0..MaxStatements /\ left[r] > 0
    BY DEF TypeOK, KindsMatch
  <2>2. left[r] - 1 \in 0..MaxStatements
    BY <2>1, PoolAssumption
  <2> QED
    BY <2>2 DEF TypeOK, PC
<1>2. KindsMatch' /\ WatcherScoped' /\ StopsInside'
  BY DEF TypeOK, KindsMatch, WatcherScoped, StopsInside, Stopped, Active
<1>3. SignalsMeant'
  BY DEF TypeOK, SignalsMeant, WatcherScoped, InterruptsOwnOperation, OwnConnectionOnly, Stopped
<1>4. InterruptsOwnOperation'
  BY DEF TypeOK, InterruptsOwnOperation, OwnConnectionOnly, OnlyStoppedAreInterrupted,
         Stopped, Active
<1>5. LockOrder'
  BY DEF TypeOK, LockOrder
<1> QED
  BY <1>1, <1>2, <1>3, <1>4, <1>5

\* The operation ends well.
LEMMA SucceedInv ==
    ASSUME PoolInv, NEW r \in Requests, Succeed(r)
    PROVE  PoolInv'
<1> USE DEF PoolInv, Succeed, EndOperation, poolVars, ctxVars, scanVars
<1>1. TypeOK'
  BY DEF TypeOK, PC, Results
<1>2. KindsMatch' /\ WatcherScoped' /\ StopsInside'
  BY DEF TypeOK, KindsMatch, WatcherScoped, StopsInside, Stopped, Active
<1>3. SignalsMeant'
  BY DEF TypeOK, SignalsMeant, WatcherScoped, InterruptsOwnOperation, OwnConnectionOnly, Stopped
<1>4. InterruptsOwnOperation'
  BY DEF TypeOK, InterruptsOwnOperation, OwnConnectionOnly, OnlyStoppedAreInterrupted,
         Stopped, Active
<1>5. LockOrder'
  BY DEF TypeOK, LockOrder
<1> QED
  BY <1>1, <1>2, <1>3, <1>4, <1>5

\* The operation fails or panics.
LEMMA FailInv ==
    ASSUME PoolInv, NEW r \in Requests, Fail(r)
    PROVE  PoolInv'
<1> USE DEF PoolInv, Fail, EndOperation, poolVars, ctxVars, scanVars
<1>1. TypeOK'
  BY DEF TypeOK, PC, Results
<1>2. KindsMatch' /\ WatcherScoped' /\ StopsInside'
  BY DEF TypeOK, KindsMatch, WatcherScoped, StopsInside, Stopped, Active
<1>3. SignalsMeant'
  BY DEF TypeOK, SignalsMeant, WatcherScoped, InterruptsOwnOperation, OwnConnectionOnly, Stopped
<1>4. InterruptsOwnOperation'
  BY DEF TypeOK, InterruptsOwnOperation, OwnConnectionOnly, OnlyStoppedAreInterrupted,
         Stopped, Active
<1>5. LockOrder'
  BY DEF TypeOK, LockOrder
<1> QED
  BY <1>1, <1>2, <1>3, <1>4, <1>5

\* A statement is interrupted only over a raised flag, which was meant for it.
LEMMA StopInterruptedInv ==
    ASSUME PoolInv, NEW r \in Requests, StopInterrupted(r)
    PROVE  PoolInv'
<1> USE DEF PoolInv, StopInterrupted, EndOperation, poolVars, ctxVars, scanVars
<1>1. TypeOK'
  BY DEF TypeOK, PC, Results
<1>2. KindsMatch' /\ WatcherScoped' /\ StopsInside'
  BY DEF TypeOK, KindsMatch, WatcherScoped, StopsInside, Stopped, Active
<1>3. SignalsMeant'
  BY DEF TypeOK, SignalsMeant, WatcherScoped, InterruptsOwnOperation, OwnConnectionOnly, Stopped
<1>4. InterruptsOwnOperation'
  BY DEF TypeOK, InterruptsOwnOperation, OwnConnectionOnly, OnlyStoppedAreInterrupted,
         SignalsMeant, Stopped, Active
<1>5. LockOrder'
  BY DEF TypeOK, LockOrder
<1> QED
  BY <1>1, <1>2, <1>3, <1>4, <1>5

\* The watcher looks at the completion signal.
LEMMA WatcherPollInv ==
    ASSUME PoolInv, NEW r \in Requests, WatcherPoll(r)
    PROVE  PoolInv'
<1> USE DEF PoolInv, WatcherPoll, poolVars, ctxVars, scanVars
<1>1. TypeOK'
  BY DEF TypeOK, PC, Results
<1>2. KindsMatch' /\ WatcherScoped' /\ StopsInside'
  BY DEF TypeOK, KindsMatch, WatcherScoped, StopsInside, Stopped, Active
<1>3. SignalsMeant'
  BY DEF TypeOK, SignalsMeant, WatcherScoped, InterruptsOwnOperation, OwnConnectionOnly, Stopped
<1>4. InterruptsOwnOperation'
  BY DEF TypeOK, InterruptsOwnOperation, OwnConnectionOnly, OnlyStoppedAreInterrupted,
         Stopped, Active
<1>5. LockOrder'
  BY DEF TypeOK, LockOrder
<1> QED
  BY <1>1, <1>2, <1>3, <1>4, <1>5

\* The watcher looks at the context.
LEMMA WatcherTestInv ==
    ASSUME PoolInv, NEW r \in Requests, WatcherTest(r)
    PROVE  PoolInv'
<1> USE DEF PoolInv, WatcherTest, poolVars, ctxVars, scanVars
<1>1. TypeOK'
  BY DEF TypeOK, PC, Results
<1>2. KindsMatch' /\ WatcherScoped' /\ StopsInside'
  BY DEF TypeOK, KindsMatch, WatcherScoped, StopsInside, Stopped, Active
<1>3. SignalsMeant'
  BY DEF TypeOK, SignalsMeant, WatcherScoped, InterruptsOwnOperation, OwnConnectionOnly, Stopped
<1>4. InterruptsOwnOperation'
  BY DEF TypeOK, InterruptsOwnOperation, OwnConnectionOnly, OnlyStoppedAreInterrupted,
         Stopped, Active
<1>5. LockOrder'
  BY DEF TypeOK, LockOrder
<1> QED
  BY <1>1, <1>2, <1>3, <1>4, <1>5

\* The watcher interrupts while its request still holds the connection.
LEMMA WatcherFireInv ==
    ASSUME PoolInv, NEW r \in Requests, WatcherFire(r)
    PROVE  PoolInv'
<1> USE DEF PoolInv, WatcherFire, ctxVars, scanVars
<1>1. TypeOK'
  BY DEF TypeOK, PC, Results
<1>2. KindsMatch' /\ WatcherScoped' /\ StopsInside'
  BY DEF TypeOK, KindsMatch, WatcherScoped, StopsInside, Stopped, Active
<1>3. SignalsMeant'
  BY DEF TypeOK, SignalsMeant, WatcherScoped, InterruptsOwnOperation, OwnConnectionOnly, Stopped
<1>4. InterruptsOwnOperation'
  BY DEF TypeOK, InterruptsOwnOperation, OwnConnectionOnly, OnlyStoppedAreInterrupted,
         Stopped, Active
<1>5. LockOrder'
  BY DEF TypeOK, LockOrder
<1> QED
  BY <1>1, <1>2, <1>3, <1>4, <1>5

\* The guard is dropped after the watcher was joined.
LEMMA ReleaseContextInv ==
    ASSUME PoolInv, NEW r \in Requests, ReleaseContext(r)
    PROVE  PoolInv'
<1> USE DEF PoolInv, ReleaseContext, ctxVars, scanVars, watchVars
<1>1. TypeOK'
  BY DEF TypeOK, PC, Results
<1>2. KindsMatch' /\ WatcherScoped' /\ StopsInside'
  BY DEF TypeOK, KindsMatch, WatcherScoped, StopsInside, Stopped, Active
<1>3. SignalsMeant'
  BY DEF TypeOK, SignalsMeant, WatcherScoped, InterruptsOwnOperation, OwnConnectionOnly, Stopped
<1>4. InterruptsOwnOperation'
  BY DEF TypeOK, InterruptsOwnOperation, OwnConnectionOnly, OnlyStoppedAreInterrupted,
         Stopped, Active
<1>5. LockOrder'
  BY DEF TypeOK, LockOrder
<1> QED
  BY <1>1, <1>2, <1>3, <1>4, <1>5

\* The context has the last word over a result that is not a panic.
LEMMA FinishContextInv ==
    ASSUME PoolInv, NEW r \in Requests, FinishContext(r)
    PROVE  PoolInv'
<1>1. (IF result[r] # "panic" /\ Stopped(r) THEN StopCode(r) ELSE result[r]) \in Results
  BY StopCodeTyped DEF PoolInv, TypeOK
<1> QED
  BY <1>1, ReturnFreeInv DEF FinishContext, poolVars

\* A request that is past its operation gives back the one connection it holds.
LEMMA ReleasedLock ==
    ASSUME PoolInv, NEW r \in Requests, pc[r] = "ended",
           lock' = [lock EXCEPT ![conn[r]] = None]
    PROVE  lock' = [c \in Conns |-> IF lock[c] = r THEN None ELSE lock[c]]
<1>1. conn[r] \in Conns /\ lock[conn[r]] = r
  BY DEF PoolInv, TypeOK, InterruptsOwnOperation, OwnConnectionOnly
<1>2. \A c \in Conns : lock[c] = r => c = conn[r]
  BY PoolAssumption DEF PoolInv, LockOrder
<1> QED
  BY <1>1, <1>2 DEF PoolInv, TypeOK

\* The guards of a plain or local request are dropped.
LEMMA ReleasePlainInv ==
    ASSUME PoolInv, NEW r \in Requests, ReleasePlain(r)
    PROVE  PoolInv'
<1>0. /\ pc[r] = "ended" /\ kind[r] # "context" /\ conn[r] \in Conns
      /\ lock' = [lock EXCEPT ![conn[r]] = None]
      /\ poisoned' \subseteq Conns /\ turn' \in Conns
      /\ UNCHANGED <<signal, turn, kind>>
  BY DEF ReleasePlain, PoolInv, TypeOK
<1>1. lock' = [c \in Conns |-> IF lock[c] = r THEN None ELSE lock[c]]
  BY <1>0, ReleasedLock
<1>2. CASE /\ kind[r] = "local"
           /\ pc' = [pc EXCEPT ![r] = "build"]
           /\ UNCHANGED <<fallback, result, ctxVars, locals>>
  <2> USE <1>0, <1>2 DEF PoolInv, ctxVars, locals, scanVars, watchVars
  <2>1. TypeOK'
    BY DEF TypeOK, PC
  <2>2. \A x \in Requests : x # r => pc'[x] = pc[x]
    BY DEF TypeOK
  <2>3. pc'[r] = "build" /\ watch[r] = "off"
    BY DEF TypeOK, WatcherScoped
  <2>4. KindsMatch' /\ WatcherScoped' /\ StopsInside' /\ SignalsMeant'
    BY <2>2, <2>3 DEF KindsMatch, WatcherScoped, StopsInside, SignalsMeant, Stopped, Active
  <2>5. InterruptsOwnOperation'
    BY <1>1, <2>2, <2>3 DEF InterruptsOwnOperation, OwnConnectionOnly,
                            OnlyStoppedAreInterrupted, Stopped, Active, TypeOK
  <2>6. LockOrder'
    BY <1>1, <2>2, <2>3, PoolAssumption DEF LockOrder, TypeOK
  <2> QED
    BY <2>1, <2>4, <2>5, <2>6
<1>3. CASE /\ Return(r, result[r])
           /\ \/ /\ kind[r] = "local"
                 /\ fallback' = [fallback EXCEPT !.holder = None,
                                                 !.poisoned = @ \/ result[r] = "panic"]
              \/ kind[r] = "plain" /\ UNCHANGED fallback
  <2>1. result[r] \in Results
    BY DEF PoolInv, TypeOK
  <2>2. fallback' \in [holder : Requests \cup {None}, poisoned : BOOLEAN, cached : BOOLEAN]
    BY <1>3 DEF PoolInv, TypeOK
  <2>3. fallback'.holder = None \/ (fallback'.holder = fallback.holder /\ fallback.holder # r)
    BY <1>3 DEF PoolInv, LockOrder, TypeOK
  <2> QED
    BY <1>0, <1>1, <1>3, <2>1, <2>2, <2>3, ReturnInv
<1> QED
  BY <1>2, <1>3 DEF ReleasePlain

\* The provider is built, or not, and canonical_fallback released.
LEMMA BuildLocalInv ==
    ASSUME PoolInv, NEW r \in Requests, BuildLocal(r)
    PROVE  PoolInv'
<1> PICK code \in {"ok", "error", "panic"} :
        /\ Return(r, code)
        /\ fallback' = [holder |-> None, poisoned |-> code = "panic", cached |-> code = "ok"]
  BY DEF BuildLocal
<1>1. pc[r] = "build" /\ UNCHANGED <<lock, poisoned, signal, turn, kind>> /\ code \in Results
  BY DEF BuildLocal, Results
<1>2. lock' = [c \in Conns |-> IF lock[c] = r THEN None ELSE lock[c]]
  BY <1>1, HoldsNone DEF PoolInv, TypeOK
<1>3. /\ poisoned' \subseteq Conns /\ turn' \in Conns
      /\ fallback' \in [holder : Requests \cup {None}, poisoned : BOOLEAN, cached : BOOLEAN]
      /\ fallback'.holder = None
  BY <1>1 DEF PoolInv, TypeOK
<1> QED
  BY <1>1, <1>2, <1>3, ReturnInv

\* Every step keeps the inductive invariant.
LEMMA NextInv ==
    ASSUME PoolInv, [Next]_vars
    PROVE  PoolInv'
<1>1. CASE Next
  <2> PICK r \in Requests :
          \/ Call(r) \/ Cancel(r) \/ Expire(r)
          \/ EnterFallback(r) \/ Lock(r)
          \/ CompleteStatement(r) \/ Fail(r)
          \/ RequestStep(r) \/ Watcher(r)
    BY <1>1 DEF Next
  <2>1. CASE RequestStep(r)
    BY <2>1, EnterInv, TryLockInv, RetryScanInv, BeginStatementInv, SucceedInv,
       StopInterruptedInv, ReleaseContextInv, FinishContextInv, ReleasePlainInv, BuildLocalInv
       DEF RequestStep
  <2>2. CASE Watcher(r)
    BY <2>2, WatcherPollInv, WatcherTestInv, WatcherFireInv DEF Watcher
  <2> QED
    BY <2>1, <2>2, CallInv, CancelInv, ExpireInv, EnterFallbackInv, LockInv,
       CompleteStatementInv, FailInv
<1>2. CASE UNCHANGED vars
  <2> USE <1>2 DEF vars, poolVars, ctxVars, locals, scanVars, watchVars, PoolInv
  <2>1. TypeOK'
    BY DEF TypeOK
  <2>2. KindsMatch' /\ WatcherScoped' /\ StopsInside' /\ SignalsMeant'
    BY DEF KindsMatch, WatcherScoped, StopsInside, SignalsMeant, Stopped, Active
  <2>3. InterruptsOwnOperation' /\ LockOrder'
    BY DEF InterruptsOwnOperation, OwnConnectionOnly, OnlyStoppedAreInterrupted, LockOrder,
           Stopped, Active
  <2> QED
    BY <2>1, <2>2, <2>3
<1> QED
  BY <1>1, <1>2

\* The inductive invariant of the pool holds for any number of connections, any
\* number of plain, context and local requests and any order of their steps.
THEOREM PoolInvariant == Spec => []PoolInv
  BY InitInv, NextInv, PTL DEF Spec

\* Type correctness of the pool, the requests and their watchers.
THEOREM PoolTypeCorrect == Spec => []TypeOK
<1>1. PoolInv => TypeOK
  BY DEF PoolInv
<1> QED
  BY <1>1, PoolInvariant, PTL

\* An interrupt (watcher of with_connection_context) reaches only the operation
\* it is meant for, even when it races with the end of that operation.
THEOREM InterruptsAreOwn == Spec => []InterruptsOwnOperation
<1>1. PoolInv => InterruptsOwnOperation
  BY DEF PoolInv
<1> QED
  BY <1>1, PoolInvariant, PTL

\* with_connection, with_connection_context and exact_local take the locks of the
\* provider in one order, so they cannot deadlock on them.
THEOREM LocksAreOrdered == Spec => []LockOrder
<1>1. PoolInv => LockOrder
  BY DEF PoolInv
<1> QED
  BY <1>1, PoolInvariant, PTL

\* The states in which a step starts and ends satisfy the invariant, so a property
\* of steps may assume it: only unwinding through with_connection's guard poisons
\* a connection.
THEOREM PoisonedByPlainPanics == Spec => ContextNeverPoisons
<1>1. ASSUME PoolInv, [Next]_vars, NEW c \in Conns, c \in poisoned' \ poisoned
      PROVE  lock[c] # None /\ kind[lock[c]] # "context" /\ result[lock[c]] = "panic"
  <2>1. poisoned' # poisoned
    BY <1>1
  <2>2. PICK r \in Requests : ReleasePlain(r)
    <3>1. Next
      BY <1>1, <2>1 DEF vars, poolVars
    <3>2. PICK r \in Requests :
              \/ Call(r) \/ Cancel(r) \/ Expire(r)
              \/ EnterFallback(r) \/ Lock(r)
              \/ CompleteStatement(r) \/ Fail(r)
              \/ RequestStep(r) \/ Watcher(r)
      BY <3>1 DEF Next
    <3>3. ~(Call(r) \/ Cancel(r) \/ Expire(r) \/ EnterFallback(r) \/ Lock(r)
              \/ CompleteStatement(r) \/ Fail(r))
      BY <2>1 DEF Call, Cancel, Expire, EnterFallback, Lock, CompleteStatement, Fail,
                  EndOperation, poolVars
    <3>4. ~Watcher(r)
      BY <2>1 DEF Watcher, WatcherPoll, WatcherTest, WatcherFire, poolVars
    <3>5. RequestStep(r) => ReleasePlain(r)
      BY <2>1 DEF RequestStep, Enter, TryLock, RetryScan, BeginStatement, Succeed,
                  StopInterrupted, EndOperation, ReleaseContext, FinishContext, BuildLocal,
                  poolVars
    <3> QED
      BY <3>2, <3>3, <3>4, <3>5
  <2>3. c = conn[r] /\ result[r] = "panic" /\ kind[r] # "context" /\ pc[r] = "ended"
    BY <1>1, <2>2 DEF ReleasePlain
  <2>4. lock[c] = r
    BY <1>1, <2>3 DEF PoolInv, InterruptsOwnOperation, OwnConnectionOnly
  <2> QED
    BY <2>3, <2>4, PoolAssumption
<1>2. PoolInv /\ [Next]_vars =>
          [\A c \in Conns : c \in poisoned' \ poisoned =>
              lock[c] # None /\ kind[lock[c]] # "context" /\ result[lock[c]] = "panic"]_vars
  BY <1>1
<1> QED
  BY <1>2, PoolInvariant, PTL DEF Spec, ContextNeverPoisons

\* A request that was cancelled or timed out before it returns never returns the
\* result or the error of its operation (the last check of
\* with_connection_context), whichever step it returns from.
THEOREM StoppedReportsIt == Spec => StoppedNeverSucceeds
<1>1. ASSUME PoolInv, Next, NEW r \in Requests, Active(r), pc'[r] = "done", Stopped(r)
      PROVE  result'[r] \in {"cancelled", "timeout", "poisoned", "panic"}
  <2>1. kind[r] = "context" /\ pc[r] \notin {"idle", "done", "lock", "fallback", "build"}
    BY <1>1 DEF PoolInv, StopsInside, KindsMatch, Active
  <2>2. PICK x \in Requests :
            \/ Call(x) \/ Cancel(x) \/ Expire(x)
            \/ EnterFallback(x) \/ Lock(x)
            \/ CompleteStatement(x) \/ Fail(x)
            \/ RequestStep(x) \/ Watcher(x)
    BY <1>1 DEF Next
  <2>3. \/ Enter(x) \/ TryLock(x) \/ RetryScan(x) \/ FinishContext(x) \/ ReleasePlain(x)
        \/ EnterFallback(x) \/ Lock(x) \/ BuildLocal(x)
    <3>1. ~(Cancel(x) \/ Expire(x) \/ CompleteStatement(x) \/ Fail(x) \/ Watcher(x))
      BY <1>1, <2>1 DEF Cancel, Expire, CompleteStatement, Fail, EndOperation, Watcher,
                        WatcherPoll, WatcherTest, WatcherFire, PoolInv, TypeOK
    <3>2. ~Call(x)
      <4> SUFFICES ASSUME Call(x) PROVE FALSE
        OBVIOUS
      <4>1. x # r
        BY <1>1 DEF Call
      <4> QED
        BY <1>1, <2>1, <4>1 DEF Call, PoolInv, TypeOK
    <3>3. ~(BeginStatement(x) \/ Succeed(x) \/ StopInterrupted(x) \/ ReleaseContext(x))
      BY <1>1, <2>1 DEF BeginStatement, Succeed, StopInterrupted, EndOperation, ReleaseContext,
                        PoolInv, TypeOK
    <3> QED
      BY <2>2, <3>1, <3>2, <3>3 DEF RequestStep
  <2>4. x = r
    BY <1>1, <2>1, <2>3 DEF Enter, TryLock, RetryScan, FinishContext, ReleasePlain,
                            EnterFallback, Lock, BuildLocal, Return, PoolInv, TypeOK
  <2>5. Enter(r) \/ TryLock(r) \/ RetryScan(r) \/ FinishContext(r)
    BY <2>1, <2>3, <2>4 DEF ReleasePlain, EnterFallback, Lock, BuildLocal
  <2>6. CASE Enter(r) \/ RetryScan(r)
    BY <1>1, <2>6 DEF Enter, RetryScan, Return, StopCode, PoolInv, TypeOK
  <2>7. CASE TryLock(r)
    BY <1>1, <2>1, <2>7 DEF TryLock, Return, PoolInv, TypeOK
  <2>8. CASE FinishContext(r)
    BY <1>1, <2>8 DEF FinishContext, Return, StopCode, PoolInv, TypeOK
  <2> QED
    BY <2>5, <2>6, <2>7, <2>8
<1>2. PoolInv /\ [Next]_vars =>
          [\A r \in Requests :
              Active(r) /\ pc'[r] = "done" /\ Stopped(r) =>
                  result'[r] \in {"cancelled", "timeout", "poisoned", "panic"}]_vars
  BY <1>1
<1> QED
  BY <1>2, PoolInvariant, PTL DEF Spec, StoppedNeverSucceeds
=============================================================================
