--------------------------- MODULE PostgresClient ---------------------------
(***************************************************************************)
(* pkg/postgres: a Client that shares one pgxpool.Pool between goroutines. *)
(* Execute, Query, QueryRow, SendBatch, Ping/Health and BeginTx take a     *)
(* connection from the pool while they hold c.mu for reading; rows, batch  *)
(* results and transactions keep it after c.mu is released, and the        *)
(* goroutine that has them may call the client again.  Close holds c.mu    *)
(* for writing until the pool has every connection back.                   *)
(*                                                                         *)
(* What a query does to the database is left out: a request succeeds or    *)
(* fails, and so do a begin and a commit.                                  *)
(***************************************************************************)
EXTENDS Integers, FiniteSets

CONSTANTS
  Caller,        \* the goroutines that share the client
  Monitor,       \* the one of startHealthMonitoring
  MaxConns,      \* config.MaxConnections
  Nested,        \* the operations called by goroutines with open results or transactions
  MaxCalls,      \* bound: the number of calls
  None           \* no goroutine

ASSUME CallerAssumption == Monitor \in Caller /\ None \notin Caller
ASSUME PoolAssumption == MaxConns \in Nat \ {0}
ASSUME BoundAssumption == MaxCalls \in Nat

VARIABLES
  closed,        \* c.closed
  readers,       \* c.mu: goroutines inside RLock/RUnlock
  writer,        \* c.mu: goroutine inside Lock/Unlock, or waiting in Lock
  pool,          \* c.pool: "open", "closing" or "closed"
  held,          \* the connections that are out: who has one, and what for
  pc,            \* where each goroutine is
  op,            \* the operation it is in
  metrics,       \* c.metrics, without the average query time
  monitor,       \* the health goroutine: "select" (in its loop) or "exited"
  tick,          \* a tick waits in c.healthTicker.C
  stopped,       \* c.healthTicker is stopped and c.healthStop closed
  ctxDone,       \* c.ctx is cancelled, by Close or by the caller of New
  calls,         \* number of calls so far
  answered,      \* history: Execute, Query and QueryRow that did not fail
  failures       \* history: Execute and Query that failed

vars == <<closed, readers, writer, pool, held, pc, op, metrics, monitor, tick,
          stopped, ctxDone, calls, answered, failures>>
lockVars == <<readers, writer>>
closeVars == <<closed, pool, stopped, ctxDone>>
monitorVars == <<monitor, tick>>
history == <<answered, failures>>

mu == INSTANCE RWMutex

\* "row" is QueryRow, "emptyRow" QueryRow(""); "health" is Health until its ping
\* is answered and goes on as "ping", one request more.
Kind == {"exec", "query", "row", "emptyRow", "batch", "tx", "ping", "health", "close"}
WithResults == {"query", "row", "emptyRow", "batch"}
Label == {"idle", "rlock", "acquire", "request", "countError", "count", "release", "return",
          "using", "commit", "rollback", "countCommit", "countRollback",
          "lock", "drain", "poolClose"}

\* A goroutine has at most three connections: one for the operation it is in, one
\* with the results of an earlier operation, one of a transaction.
Use == {"call", "results", "tx"}
Slot(p) == <<p, "call">>
InTx(p) == <<p, "tx">> \in held
HasResults(p) == <<p, "results">> \in held

Init ==
  /\ closed = FALSE
  /\ mu!Init
  /\ pool = "open"
  /\ held = {}
  /\ pc = [p \in Caller |-> "idle"]
  /\ op = [p \in Caller |-> "none"]
  /\ metrics = [queries |-> 0, errors |-> 0, started |-> 0, committed |-> 0, rolledBack |-> 0]
  /\ monitor = "select" /\ tick = FALSE
  /\ stopped = FALSE /\ ctxDone = FALSE
  /\ calls = 0
  /\ answered = 0 /\ failures = 0

Goto(p, label) == pc' = [pc EXCEPT ![p] = label]

\* Where a goroutine is when its operation has returned: in the code that uses
\* the results or the transaction it has, if any.
AfterCall(p) == IF \E u \in Use : <<p, u>> \in held THEN "using" ELSE "idle"
Finish(p) == Goto(p, AfterCall(p)) /\ op' = [op EXCEPT ![p] = "none"]

-----------------------------------------------------------------------------
\* An operation begins.  QueryRow with an empty query goes to the pool without
\* c.mu.
Enter(p, k) ==
  /\ calls < MaxCalls
  /\ calls' = calls + 1
  /\ op' = [op EXCEPT ![p] = k]
  /\ Goto(p, CASE k = "close"    -> "lock"
               [] k = "emptyRow" -> "acquire"
               [] OTHER          -> "rlock")
  /\ UNCHANGED <<closeVars, lockVars, held, metrics, monitorVars, history>>

\* A goroutine of the application calls an operation.
Call(p) ==
  /\ pc[p] = "idle" /\ p # Monitor
  /\ \E k \in Kind : Enter(p, k)

\* So does one that has rows, batch results or a transaction open: it calls the
\* client from the loop over its rows, or from the function of its transaction.
\* It opens one of each kind at a time.
NestedCall(p) ==
  /\ pc[p] = "using"
  /\ \E k \in Kind \cap Nested :
       /\ k = "tx" => ~InTx(p)
       /\ k \in WithResults => ~HasResults(p)
       /\ Enter(p, k)

\* Mutant: no closed check.
EnterSharedUnchecked(p) ==
  /\ pc[p] = "rlock"
  /\ mu!RLock(p)
  /\ Goto(p, "acquire")
  /\ UNCHANGED <<closeVars, held, op, metrics, monitorVars, calls, history>>

\* c.mu.RLock() and the closed check; QueryRow asks the closed pool instead of
\* returning an error, and gets a row that fails.
EnterShared(p) ==
  /\ pc[p] = "rlock"
  /\ mu!RLock(p)
  /\ Goto(p, IF closed THEN "release" ELSE "acquire")
  /\ UNCHANGED <<closeVars, held, op, metrics, monitorVars, calls, history>>

\* Mutant: the limit is not handed to the pool.
AcquireUnlimited(p) ==
  /\ pc[p] = "acquire"
  /\ pool = "open"
  /\ held' = held \cup {Slot(p)}
  /\ Goto(p, "request")
  /\ UNCHANGED <<closeVars, lockVars, op, metrics, monitorVars, calls, history>>

\* The pool hands out a connection when fewer than MaxConns are out.
Acquire(p) ==
  /\ pc[p] = "acquire"
  /\ pool = "open"
  /\ Cardinality(held) < MaxConns
  /\ held' = held \cup {Slot(p)}
  /\ Goto(p, "request")
  /\ UNCHANGED <<closeVars, lockVars, op, metrics, monitorVars, calls, history>>

\* Where an operation goes on when it got no connection, or its request failed.
AfterFailure(k) ==
  CASE k \in {"exec", "query"} -> "countError"
    [] k = "row"               -> "count"
    [] k = "emptyRow"          -> "return"
    [] OTHER                   -> "release"

RecordFailure(k) ==
  /\ failures' = IF k \in {"exec", "query"} THEN failures + 1 ELSE failures
  /\ answered' = IF k = "row" THEN answered + 1 ELSE answered

\* The context of the call ends while it waits, or the pool is closed.
Refused(p) ==
  /\ pc[p] = "acquire"
  /\ RecordFailure(op[p])
  /\ Goto(p, AfterFailure(op[p]))
  /\ UNCHANGED <<closeVars, lockVars, held, op, metrics, monitorVars, calls>>

\* Health pings, then queries; when the pool has no connection left in between
\* it fails like a request (RequestFails).
PingAnswered(p) ==
  /\ pc[p] = "request"
  /\ op[p] = "health"
  /\ held' = held \ {Slot(p)}
  /\ op' = [op EXCEPT ![p] = "ping"]
  /\ Goto(p, "acquire")
  /\ UNCHANGED <<closeVars, lockVars, metrics, monitorVars, calls, history>>

\* Exec and Ping give their connection back; rows and batch results keep it
\* until the caller closes them, a transaction until it ends.
RequestSucceeds(p) ==
  LET k == op[p] IN
  /\ pc[p] = "request"
  /\ k # "health"
  /\ held' = IF k \in {"exec", "ping"} THEN held \ {Slot(p)} ELSE held
  /\ answered' = IF k \in {"exec", "query", "row"} THEN answered + 1 ELSE answered
  /\ metrics' = IF k = "tx" THEN [metrics EXCEPT !.started = @ + 1] ELSE metrics
  /\ Goto(p, CASE k \in {"exec", "query", "row"} -> "count"
               [] k = "emptyRow"                 -> "return"
               [] OTHER                          -> "release")
  /\ UNCHANGED <<closeVars, lockVars, op, monitorVars, calls, failures>>

\* A failed request gives the connection back; the errors of a row and of a
\* batch come with their results.
RequestFails(p) ==
  LET k == op[p] IN
  /\ pc[p] = "request"
  /\ k \in {"exec", "query", "tx", "ping", "health"}
  /\ held' = held \ {Slot(p)}
  /\ RecordFailure(k)
  /\ Goto(p, AfterFailure(k))
  /\ UNCHANGED <<closeVars, lockVars, op, metrics, monitorVars, calls>>

\* Mutant: the error counts, the query does not.
CountErrorOnly(p) ==
  /\ pc[p] = "countError"
  /\ metrics' = [metrics EXCEPT !.errors = @ + 1]
  /\ Goto(p, "count")
  /\ UNCHANGED <<closeVars, lockVars, held, op, monitorVars, calls, history>>

\* updateQueryMetrics with the error, then, deferred, without one.
CountError(p) ==
  /\ pc[p] = "countError"
  /\ metrics' = [metrics EXCEPT !.queries = @ + 1, !.errors = @ + 1]
  /\ Goto(p, "count")
  /\ UNCHANGED <<closeVars, lockVars, held, op, monitorVars, calls, history>>

Count(p) ==
  /\ pc[p] = "count"
  /\ metrics' = [metrics EXCEPT !.queries = @ + 1]
  /\ Goto(p, "release")
  /\ UNCHANGED <<closeVars, lockVars, held, op, monitorVars, calls, history>>

\* The connection of the operation goes with its results, or its transaction.
HandOver(p) ==
  /\ held' = IF Slot(p) \in held
               THEN (held \ {Slot(p)}) \cup {<<p, IF op[p] = "tx" THEN "tx" ELSE "results">>}
               ELSE held
  /\ Finish(p)

\* Mutant: a return without RUnlock.
LeaveSharedLocked(p) ==
  /\ pc[p] = "release"
  /\ HandOver(p)
  /\ UNCHANGED <<closeVars, lockVars, metrics, monitorVars, calls, history>>

\* The deferred c.mu.RUnlock() and the return to the caller.
LeaveShared(p) ==
  /\ pc[p] = "release"
  /\ mu!RUnlock(p)
  /\ HandOver(p)
  /\ UNCHANGED <<closeVars, metrics, monitorVars, calls, history>>

\* QueryRow("") returns.
ReturnRow(p) ==
  /\ pc[p] = "return"
  /\ HandOver(p)
  /\ UNCHANGED <<closeVars, lockVars, metrics, monitorVars, calls, history>>

\* rows.Close(), row.Scan() or batchResults.Close() by the caller.
CloseResults(p) ==
  /\ pc[p] = "using"
  /\ HasResults(p)
  /\ held' = held \ {<<p, "results">>}
  /\ Goto(p, IF InTx(p) THEN "using" ELSE "idle")
  /\ UNCHANGED <<closeVars, lockVars, op, metrics, monitorVars, calls, history>>

-----------------------------------------------------------------------------
\* Mutant: an error of the function is returned without Rollback.
FnReturnsAtOnce(p) ==
  /\ pc[p] = "using"
  /\ InTx(p)
  /\ Goto(p, "commit") \/ Goto(p, "idle")
  /\ UNCHANGED <<closeVars, lockVars, held, op, metrics, monitorVars, calls, history>>

\* The function of RunInTransaction returns nil, or an error or panics.
FnReturns(p) ==
  /\ pc[p] = "using"
  /\ InTx(p)
  /\ Goto(p, "commit") \/ Goto(p, "rollback")
  /\ UNCHANGED <<closeVars, lockVars, held, op, metrics, monitorVars, calls, history>>

\* Commit and Rollback give the connection back whatever the database answers;
\* a commit that returned an error counts as a rollback, also when only its
\* reply was lost.
Commit(p) ==
  /\ pc[p] = "commit"
  /\ held' = held \ {<<p, "tx">>}
  /\ Goto(p, "countCommit") \/ Goto(p, "countRollback")
  /\ UNCHANGED <<closeVars, lockVars, op, metrics, monitorVars, calls, history>>

Rollback(p) ==
  /\ pc[p] = "rollback"
  /\ held' = held \ {<<p, "tx">>}
  /\ Goto(p, "countRollback")
  /\ UNCHANGED <<closeVars, lockVars, op, metrics, monitorVars, calls, history>>

CountEnd(p) ==
  /\ \/ /\ pc[p] = "countCommit"
        /\ metrics' = [metrics EXCEPT !.committed = @ + 1]
     \/ /\ pc[p] = "countRollback"
        /\ metrics' = [metrics EXCEPT !.rolledBack = @ + 1]
  /\ Finish(p)
  /\ UNCHANGED <<closeVars, lockVars, held, monitorVars, calls, history>>

-----------------------------------------------------------------------------
AnnounceClose(p) ==
  /\ pc[p] = "lock"
  /\ mu!Announce(p)
  /\ Goto(p, "drain")
  /\ UNCHANGED <<closeVars, held, op, metrics, monitorVars, calls, history>>

AlreadyClosed(p) ==
  /\ pc[p] = "drain"
  /\ closed
  /\ mu!Unlock(p)
  /\ Finish(p)
  /\ UNCHANGED <<closeVars, held, metrics, monitorVars, calls, history>>

\* closed, cancel(), the monitor's ticker and channel, and the call of
\* pool.Close(), which refuses connections from here on.
MarkClosed(p) ==
  /\ pc[p] = "drain"
  /\ mu!Holds(p)
  /\ ~closed
  /\ closed' = TRUE /\ ctxDone' = TRUE /\ stopped' = TRUE
  /\ pool' = "closing"
  /\ Goto(p, "poolClose")
  /\ UNCHANGED <<lockVars, held, op, metrics, monitorVars, calls, history>>

\* pool.Close() returns when every connection has come back.
PoolClosed(p) ==
  /\ pc[p] = "poolClose"
  /\ held = {}
  /\ pool' = "closed"
  /\ mu!Unlock(p)
  /\ Finish(p)
  /\ UNCHANGED <<closed, stopped, ctxDone, held, metrics, monitorVars, calls, history>>

-----------------------------------------------------------------------------
TickerFires ==
  /\ ~stopped
  /\ ~tick
  /\ tick' = TRUE
  /\ UNCHANGED <<closeVars, lockVars, held, pc, op, metrics, monitor, calls, history>>

MonitorTick ==
  /\ monitor = "select" /\ pc[Monitor] = "idle"
  /\ tick
  /\ tick' = FALSE
  /\ op' = [op EXCEPT ![Monitor] = "health"]
  /\ Goto(Monitor, "rlock")
  /\ UNCHANGED <<closeVars, lockVars, held, metrics, monitor, calls, history>>

MonitorExit ==
  /\ monitor = "select" /\ pc[Monitor] = "idle"
  /\ stopped \/ ctxDone
  /\ monitor' = "exited"
  /\ UNCHANGED <<closeVars, lockVars, held, pc, op, metrics, tick, calls, history>>

\* The context given to New is cancelled.
CancelParent ==
  /\ ~ctxDone
  /\ ctxDone' = TRUE
  /\ UNCHANGED <<closed, pool, stopped, lockVars, held, pc, op, metrics, monitorVars, calls, history>>

\* The steps of an operation that has begun; Refused is apart, because a
\* context need not end.
Continue(p) ==
  \/ EnterShared(p) \/ Acquire(p) \/ PingAnswered(p) \/ RequestSucceeds(p) \/ RequestFails(p)
  \/ CountError(p) \/ Count(p) \/ LeaveShared(p) \/ ReturnRow(p) \/ CloseResults(p)
  \/ FnReturns(p) \/ Commit(p) \/ Rollback(p) \/ CountEnd(p)
  \/ AnnounceClose(p) \/ AlreadyClosed(p) \/ MarkClosed(p) \/ PoolClosed(p)

Next ==
  \/ \E p \in Caller : Call(p) \/ NestedCall(p) \/ Refused(p) \/ Continue(p)
  \/ TickerFires \/ MonitorTick \/ MonitorExit \/ CancelParent

Spec == Init /\ [][Next]_vars

(***************************************************************************)
(* Goroutines run and requests end; the application closes its rows and    *)
(* its transaction functions return; a closed pool refuses at once.  A     *)
(* goroutine waits in two places only, for c.mu and for a connection, and  *)
(* both serve their waiters in turn, so a wait that could end again and    *)
(* again does end: strong fairness.  The same holds for a case of the      *)
(* monitor's select, which picks among the ready ones at random.           *)
(***************************************************************************)
Fairness ==
  /\ \A p \in Caller : SF_vars(Continue(p) \/ (Refused(p) /\ pool # "open"))
  /\ WF_vars(MonitorTick) /\ SF_vars(MonitorExit)

FairSpec == Spec /\ Fairness

-----------------------------------------------------------------------------
\* Every variable has its type, and no more connections are out than the
\* configuration allows.
TypeOK ==
  /\ closed \in BOOLEAN
  /\ readers \subseteq Caller
  /\ writer \in Caller \cup {None}
  /\ pool \in {"open", "closing", "closed"}
  /\ held \subseteq Caller \X Use
  /\ IsFiniteSet(held) /\ Cardinality(held) <= MaxConns
  /\ pc \in [Caller -> Label]
  /\ op \in [Caller -> Kind \cup {"none"}]
  /\ metrics \in [queries : Nat, errors : Nat, started : Nat, committed : Nat, rolledBack : Nat]
  /\ monitor \in {"select", "exited"}
  /\ tick \in BOOLEAN /\ stopped \in BOOLEAN /\ ctxDone \in BOOLEAN
  /\ calls \in Nat /\ answered \in Nat /\ failures \in Nat

\* When Close calls pool.Close, no operation is between its closed check and its
\* return: the pool then only has to wait for results and transactions that
\* outlived their call, and for QueryRow(""), which asks without c.mu.
DrainedWhenClosed ==
  closed => \A p \in Caller :
    pc[p] \in {"acquire", "request", "countError", "count"} => op[p] = "emptyRow"

\* No path loses a connection: a goroutine that is in no operation and uses no
\* results holds none, and one that uses results, or ends a transaction, holds
\* those and none of an operation.
NothingLeaked ==
  \A p \in Caller :
    /\ pc[p] = "idle" => \A u \in Use : <<p, u>> \notin held
    /\ pc[p] = "using" => (InTx(p) \/ HasResults(p)) /\ Slot(p) \notin held
    /\ pc[p] \in {"commit", "rollback"} => InTx(p) /\ Slot(p) \notin held

At(labels) == Cardinality({p \in Caller : pc[p] \in labels})

\* What the counters of GetMetrics mean once the updates under way are made: an
\* answered query counts once, a failed one twice and as one error.
QueriesAccounted ==
  /\ metrics.queries + At({"count"}) + 2 * At({"countError"}) = answered + 2 * failures
  /\ metrics.errors + At({"countError"}) = failures

\* Every started transaction is committed, rolled back or still open, whether
\* its function returns, fails or panics, and whether or not its commit succeeds.
TransactionsAccounted ==
  metrics.started = metrics.committed + metrics.rolledBack
    + Cardinality({p \in Caller :
        InTx(p) \/ (op[p] = "tx" /\ pc[p] = "release" /\ Slot(p) \in held)})
    + At({"countCommit", "countRollback"})

\* The counters of GetMetrics can be accounted for, whatever fails or panics and
\* however the operations overlap.
Accounted == QueriesAccounted /\ TransactionsAccounted

\* A goroutine waits for c.mu, for a connection or in Close, with results or a
\* transaction open: it keeps a connection that others, or it itself, wait for.
Entangled ==
  \E p \in Caller :
    /\ InTx(p) \/ HasResults(p)
    /\ pc[p] \in {"rlock", "acquire", "lock", "drain", "poolClose"}

\* Close returns, unless goroutines stay entangled for ever: again and again
\* there is a moment when nobody is inside Close.
CloseEnds ==
  \/ []<>(\A p \in Caller : pc[p] \notin {"lock", "drain", "poolClose"})
  \/ <>[]Entangled

\* In the same sense nobody waits for ever for the read lock or a connection, be
\* the pool exhausted or the client about to close.
OperationEnds ==
  \/ []<>(\A p \in Caller : pc[p] \notin {"rlock", "acquire"})
  \/ <>[]Entangled

\* Close, or cancelling the context of New, ends the monitor in the same sense.
MonitorEnds == (stopped \/ ctxDone ~> monitor = "exited") \/ <>[]Entangled

\* Operations, Close and the monitor all end, with one exception: goroutines that
\* call the client while their open results or transaction keep a connection.
Ends == CloseEnds /\ OperationEnds /\ MonitorEnds

\* "Close gracefully closes the client and all connections".
CloseReturns == \A p \in Caller : pc[p] = "lock" ~> pc[p] = "idle"
=============================================================================
