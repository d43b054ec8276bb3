------------------------ MODULE PostgresClient_proofs ------------------------
(***************************************************************************)
(* Proofs about PostgresClient, for any set of callers, any size of the    *)
(* pool, and any calls made with results or a transaction open.            *)
(***************************************************************************)
EXTENDS PostgresClient, FiniteSetTheorems, TLAPS

USE DEF mu!Init, mu!RLock, mu!RUnlock, mu!Announce, mu!Holds, mu!Unlock

-----------------------------------------------------------------------------
(***************************************************************************)
(* Type correctness.  The pool is the only part that needs an argument:    *)
(* a connection more is handed out when fewer than MaxConns are out.       *)
(***************************************************************************)

Within(S) == S \subseteq Caller \X Use /\ IsFiniteSet(S) /\ Cardinality(S) <= MaxConns

\* The pool takes connections back at any time and hands one out below its limit.
LEMMA PoolTakes ==
  ASSUME NEW S, Within(S), NEW x
  PROVE  Within(S \ {x})
<1>1. IsFiniteSet(S \ {x}) /\ Cardinality(S \ {x}) <= Cardinality(S)
  BY FS_Subset DEF Within
<1>2. Cardinality(S) \in Nat /\ Cardinality(S \ {x}) \in Nat
  BY <1>1, FS_CardinalityType DEF Within
<1> QED
  BY <1>1, <1>2, PoolAssumption DEF Within

LEMMA PoolHandsOut ==
  ASSUME NEW S, Within(S), Cardinality(S) < MaxConns,
         NEW x \in Caller \X Use
  PROVE  Within(S \cup {x})
<1>1. /\ IsFiniteSet(S \cup {x})
      /\ Cardinality(S \cup {x}) = IF x \in S THEN Cardinality(S) ELSE Cardinality(S) + 1
  BY FS_AddElement DEF Within
<1>2. Cardinality(S) \in Nat
  BY FS_CardinalityType DEF Within
<1> QED
  BY <1>1, <1>2, PoolAssumption DEF Within

LEMMA InitTypeOK == Init => TypeOK
<1> SUFFICES ASSUME Init PROVE TypeOK
  OBVIOUS
<1>1. IsFiniteSet(held) /\ Cardinality(held) <= MaxConns
  BY FS_EmptySet, PoolAssumption DEF Init
<1> QED
  BY <1>1, CallerAssumption DEF Init, TypeOK, Label

\* A connection that changes its use stays one connection.
LEMMA PoolHandsOver ==
  ASSUME NEW S, Within(S), NEW x \in S, NEW y \in Caller \X Use
  PROVE  Within((S \ {x}) \cup {y})
<1>1. /\ IsFiniteSet(S \ {x})
      /\ Cardinality(S \ {x}) = Cardinality(S) - 1
  BY FS_RemoveElement DEF Within
<1>2. Cardinality(S) \in Nat /\ Cardinality(S \ {x}) \in Nat
  BY <1>1, FS_CardinalityType DEF Within
<1>3. Within(S \ {x}) /\ Cardinality(S \ {x}) < MaxConns
  BY <1>1, <1>2, PoolAssumption, PoolTakes DEF Within
<1> QED
  BY <1>3, PoolHandsOut

LEMMA StepHeld == TypeOK /\ [Next]_vars => Within(held')
<1> SUFFICES ASSUME TypeOK, [Next]_vars PROVE Within(held')
  OBVIOUS
<1>1. Within(held)
  BY DEF TypeOK, Within
<1>2. ASSUME NEW p \in Caller, Acquire(p) PROVE Within(held')
  <2>1. Slot(p) \in Caller \X Use
    BY DEF Slot, Use
  <2> QED
    BY <1>1, <1>2, <2>1, PoolHandsOut DEF Acquire
<1>3. ASSUME NEW p \in Caller, HandOver(p) PROVE Within(held')
  <2>1. /\ <<p, "tx">> \in Caller \X Use
        /\ <<p, "results">> \in Caller \X Use
    BY DEF Use
  <2> QED
    BY <1>1, <1>3, <2>1, PoolHandsOver DEF HandOver
<1>4. ASSUME NEW p \in Caller, Continue(p), ~Acquire(p), ~HandOver(p)
      PROVE  held' = held \/ \E x : held' = held \ {x}
  BY <1>4 DEF Continue, EnterShared, PingAnswered, RequestSucceeds, RequestFails, CountError,
              Count, LeaveShared, ReturnRow, CloseResults, FnReturns, Commit, Rollback, CountEnd,
              AnnounceClose, AlreadyClosed, MarkClosed, PoolClosed
<1>5. ASSUME NEW p \in Caller, Call(p) \/ NestedCall(p) \/ Refused(p) PROVE held' = held
  BY <1>5 DEF Call, NestedCall, Enter, Refused
<1>6. CASE TickerFires \/ MonitorTick \/ MonitorExit \/ CancelParent \/ UNCHANGED vars
  BY <1>1, <1>6 DEF TickerFires, MonitorTick, MonitorExit, CancelParent, vars
<1> QED
  BY <1>1, <1>2, <1>3, <1>4, <1>5, <1>6, PoolTakes DEF Next

LEMMA StepTypeOK == TypeOK /\ [Next]_vars => TypeOK'
<1> SUFFICES ASSUME TypeOK, [Next]_vars PROVE TypeOK'
  OBVIOUS
<1>0. Within(held')
  BY StepHeld
<1> USE <1>0, CallerAssumption
    DEF TypeOK, Within, Label, Goto, Finish, AfterFailure, AfterCall, RecordFailure,
        lockVars, closeVars, monitorVars, history
<1>1. ASSUME NEW p \in Caller, Call(p) PROVE TypeOK'
  BY <1>1 DEF Call, Enter, Kind
<1>2. ASSUME NEW p \in Caller, NestedCall(p) PROVE TypeOK'
  BY <1>2 DEF NestedCall, Enter, Kind
<1>3. ASSUME NEW p \in Caller, Refused(p) PROVE TypeOK'
  BY <1>3 DEF Refused
<1>4. ASSUME NEW p \in Caller, EnterShared(p) PROVE TypeOK'
  BY <1>4 DEF EnterShared
<1>5. ASSUME NEW p \in Caller, Acquire(p) PROVE TypeOK'
  BY <1>5 DEF Acquire
<1>6. ASSUME NEW p \in Caller, PingAnswered(p) PROVE TypeOK'
  BY <1>6 DEF PingAnswered, Kind
<1>7. ASSUME NEW p \in Caller, RequestSucceeds(p) PROVE TypeOK'
  BY <1>7 DEF RequestSucceeds
<1>8. ASSUME NEW p \in Caller, RequestFails(p) PROVE TypeOK'
  BY <1>8 DEF RequestFails
<1>9. ASSUME NEW p \in Caller, CountError(p) PROVE TypeOK'
  <2>1. metrics.queries \in Nat /\ metrics.errors \in Nat
    OBVIOUS
  <2>2. metrics.queries + 1 \in Nat /\ metrics.errors + 1 \in Nat
    BY <2>1
  <2>3. metrics' \in [queries : Nat, errors : Nat, started : Nat, committed : Nat, rolledBack : Nat]
    BY <1>9, <2>2 DEF CountError
  <2> QED
    BY <1>9, <2>3 DEF CountError
<1>10. ASSUME NEW p \in Caller, Count(p) PROVE TypeOK'
  BY <1>10 DEF Count
<1>11. ASSUME NEW p \in Caller, LeaveShared(p) \/ ReturnRow(p) PROVE TypeOK'
  BY <1>11 DEF LeaveShared, ReturnRow, HandOver
<1>12. ASSUME NEW p \in Caller, CloseResults(p) PROVE TypeOK'
  BY <1>12 DEF CloseResults
<1>13. ASSUME NEW p \in Caller, FnReturns(p) PROVE TypeOK'
  BY <1>13 DEF FnReturns
<1>14. ASSUME NEW p \in Caller, Commit(p) PROVE TypeOK'
  BY <1>14 DEF Commit
<1>15. ASSUME NEW p \in Caller, Rollback(p) PROVE TypeOK'
  BY <1>15 DEF Rollback
<1>16. ASSUME NEW p \in Caller, CountEnd(p) PROVE TypeOK'
  BY <1>16 DEF CountEnd
<1>17. ASSUME NEW p \in Caller, AnnounceClose(p) PROVE TypeOK'
  BY <1>17 DEF AnnounceClose
<1>18. ASSUME NEW p \in Caller, AlreadyClosed(p) PROVE TypeOK'
  BY <1>18 DEF AlreadyClosed
<1>19. ASSUME NEW p \in Caller, MarkClosed(p) PROVE TypeOK'
  BY <1>19 DEF MarkClosed
<1>20. ASSUME NEW p \in Caller, PoolClosed(p) PROVE TypeOK'
  BY <1>20 DEF PoolClosed
<1>21. CASE TickerFires
  BY <1>21 DEF TickerFires
<1>22. CASE MonitorTick
  BY <1>22 DEF MonitorTick, Kind
<1>23. CASE MonitorExit
  BY <1>23 DEF MonitorExit
<1>24. CASE CancelParent
  BY <1>24 DEF CancelParent
<1>25. CASE UNCHANGED vars
  BY <1>25 DEF vars
<1> QED
  BY <1>1, <1>2, <1>3, <1>4, <1>5, <1>6, <1>7, <1>8, <1>9, <1>10, <1>11,
     <1>12, <1>13, <1>14, <1>15, <1>16, <1>17, <1>18, <1>19, <1>20,
     <1>21, <1>22, <1>23, <1>24, <1>25
     DEF Next, Continue

\* The state of the client is well typed in every run, and the pool keeps to its
\* limit.
THEOREM TypeCorrect == Spec => []TypeOK
BY InitTypeOK, StepTypeOK, PTL DEF Spec

-----------------------------------------------------------------------------
(***************************************************************************)
(* Where a goroutine goes when its operation returns, and what a step of   *)
(* one goroutine leaves alone.                                             *)
(***************************************************************************)
HasCall(p) == Slot(p) \in held

LEMMA WhereItGoes ==
  ASSUME NEW p
  PROVE  /\ AfterCall(p) \in {"using", "idle"}
         /\ AfterCall(p) = "using" <=> InTx(p) \/ HasResults(p) \/ HasCall(p)
BY DEF AfterCall, Use, InTx, HasResults, HasCall, Slot

LEMMA OthersKeep ==
  ASSUME TypeOK, NEW p \in Caller, Continue(p) \/ Call(p) \/ NestedCall(p) \/ Refused(p)
  PROVE  \A q \in Caller \ {p} :
           /\ pc'[q] = pc[q] /\ op'[q] = op[q]
           /\ InTx(q)' = InTx(q) /\ HasResults(q)' = HasResults(q) /\ HasCall(q)' = HasCall(q)
<1>1. \A q \in Caller \ {p} : pc'[q] = pc[q] /\ op'[q] = op[q]
  BY DEF TypeOK, Continue, Call, NestedCall, Enter, Refused, EnterShared, Acquire, PingAnswered,
         RequestSucceeds, RequestFails, CountError, Count, LeaveShared, ReturnRow, HandOver,
         CloseResults, FnReturns, Commit, Rollback, CountEnd, AnnounceClose, AlreadyClosed,
         MarkClosed, PoolClosed, Goto, Finish
<1>2. \/ held' = held
      \/ \E x, y \in {<<p, "tx">>, <<p, "results">>, <<p, "call">>} :
           held' \in {held \cup {x}, held \ {x}, (held \ {x}) \cup {y}}
  BY DEF Continue, Call, NestedCall, Enter, Refused, EnterShared, Acquire, PingAnswered,
         RequestSucceeds, RequestFails, CountError, Count, LeaveShared, ReturnRow, HandOver,
         CloseResults, FnReturns, Commit, Rollback, CountEnd, AnnounceClose, AlreadyClosed,
         MarkClosed, PoolClosed, Slot
<1> QED
  BY <1>1, <1>2 DEF InTx, HasResults, HasCall, Slot

-----------------------------------------------------------------------------
(***************************************************************************)
(* What Close can rely on: an operation between EnterShared and            *)
(* LeaveShared, other than QueryRow(""), is a reader of c.mu, and Close    *)
(* sets closed when there is no reader.                                    *)
(***************************************************************************)
ReadersInv ==
  \A p \in Caller :
    pc[p] \in {"acquire", "request", "countError", "count", "release"} /\ op[p] # "emptyRow"
      => p \in readers

CloseInv == ReadersInv /\ DrainedWhenClosed

LEMMA InitCloseInv == Init => CloseInv
BY DEF Init, CloseInv, ReadersInv, DrainedWhenClosed

LEMMA StepCloseInv == TypeOK /\ CloseInv /\ [Next]_vars => CloseInv'
<1> SUFFICES ASSUME TypeOK, CloseInv, [Next]_vars PROVE CloseInv'
  OBVIOUS
<1> USE CallerAssumption
    DEF TypeOK, CloseInv, ReadersInv, DrainedWhenClosed, Kind, Goto, Finish, AfterFailure,
        lockVars, closeVars
<1>1. ASSUME NEW p \in Caller, Call(p) PROVE CloseInv'
  BY <1>1 DEF Call, Enter
<1>2. ASSUME NEW p \in Caller, NestedCall(p) PROVE CloseInv'
  BY <1>2 DEF NestedCall, Enter
<1>3. ASSUME NEW p \in Caller, Refused(p) PROVE CloseInv'
  BY <1>3 DEF Refused
<1>4. ASSUME NEW p \in Caller, EnterShared(p) PROVE CloseInv'
  BY <1>4 DEF EnterShared
<1>5. ASSUME NEW p \in Caller, Acquire(p) PROVE CloseInv'
  BY <1>5 DEF Acquire
<1>6. ASSUME NEW p \in Caller, PingAnswered(p) PROVE CloseInv'
  BY <1>6 DEF PingAnswered
<1>7. ASSUME NEW p \in Caller, RequestSucceeds(p) PROVE CloseInv'
  BY <1>7 DEF RequestSucceeds
<1>8. ASSUME NEW p \in Caller, RequestFails(p) PROVE CloseInv'
  BY <1>8 DEF RequestFails
<1>9. ASSUME NEW p \in Caller, CountError(p) PROVE CloseInv'
  BY <1>9 DEF CountError
<1>10. ASSUME NEW p \in Caller, Count(p) PROVE CloseInv'
  BY <1>10 DEF Count
<1>11. ASSUME NEW p \in Caller, LeaveShared(p) \/ ReturnRow(p) PROVE CloseInv'
  BY <1>11, WhereItGoes DEF LeaveShared, ReturnRow, HandOver
<1>12. ASSUME NEW p \in Caller, CloseResults(p) PROVE CloseInv'
  BY <1>12 DEF CloseResults
<1>13. ASSUME NEW p \in Caller, FnReturns(p) PROVE CloseInv'
  BY <1>13 DEF FnReturns
<1>14. ASSUME NEW p \in Caller, Commit(p) PROVE CloseInv'
  BY <1>14 DEF Commit
<1>15. ASSUME NEW p \in Caller, Rollback(p) PROVE CloseInv'
  BY <1>15 DEF Rollback
<1>16. ASSUME NEW p \in Caller, CountEnd(p) PROVE CloseInv'
  BY <1>16, WhereItGoes DEF CountEnd
<1>17. ASSUME NEW p \in Caller, AnnounceClose(p) PROVE CloseInv'
  BY <1>17 DEF AnnounceClose
<1>18. ASSUME NEW p \in Caller, AlreadyClosed(p) PROVE CloseInv'
  BY <1>18, WhereItGoes DEF AlreadyClosed
<1>19. ASSUME NEW p \in Caller, MarkClosed(p) PROVE CloseInv'
  BY <1>19 DEF MarkClosed
<1>20. ASSUME NEW p \in Caller, PoolClosed(p) PROVE CloseInv'
  BY <1>20, WhereItGoes DEF PoolClosed
<1>21. CASE TickerFires
  BY <1>21 DEF TickerFires
<1>22. CASE MonitorTick
  BY <1>22 DEF MonitorTick
<1>23. CASE MonitorExit
  BY <1>23 DEF MonitorExit
<1>24. CASE CancelParent
  BY <1>24 DEF CancelParent
<1>25. CASE UNCHANGED vars
  BY <1>25 DEF vars
<1> QED
  BY <1>1, <1>2, <1>3, <1>4, <1>5, <1>6, <1>7, <1>8, <1>9, <1>10, <1>11,
     <1>12, <1>13, <1>14, <1>15, <1>16, <1>17, <1>18, <1>19, <1>20,
     <1>21, <1>22, <1>23, <1>24, <1>25
     DEF Next, Continue

\* Close waits for the operations in progress and no later one reaches the pool,
\* but for QueryRow(""), which asks it without c.mu.
THEOREM CloseDrains == Spec => []DrainedWhenClosed
<1>1. CloseInv => DrainedWhenClosed
  BY DEF CloseInv
<1> QED
  BY <1>1, InitTypeOK, StepTypeOK, InitCloseInv, StepCloseInv, PTL DEF Spec

-----------------------------------------------------------------------------
(***************************************************************************)
(* Who holds a connection, and where: for the operation it is in, from the *)
(* request to the return; with results or a transaction, wherever it goes  *)
(* but out of the code that uses them.  No operation finds the place of    *)
(* its results taken.                                                      *)
(***************************************************************************)
Holder(p) ==
  /\ HasCall(p) => \/ pc[p] = "request"
                   \/ pc[p] = "count" /\ op[p] \in {"query", "row"}
                   \/ pc[p] = "release" /\ op[p] \in {"query", "row", "batch", "tx"}
                   \/ pc[p] = "return" /\ op[p] = "emptyRow"
  /\ pc[p] = "request" => HasCall(p)
  /\ pc[p] = "idle" => ~InTx(p) /\ ~HasResults(p)
  /\ pc[p] = "using" => InTx(p) \/ HasResults(p)
  /\ pc[p] \in {"commit", "rollback"} => InTx(p)
  /\ pc[p] \in {"rlock", "acquire", "request", "countError", "count", "release", "return"} =>
       /\ op[p] \in Kind \ {"close"}
       /\ op[p] = "tx" => ~InTx(p)
       /\ op[p] \in WithResults => ~HasResults(p)

HoldersInv == \A p \in Caller : Holder(p)

LEMMA InitHoldersInv == Init => HoldersInv
BY DEF Init, HoldersInv, Holder, InTx, HasResults, HasCall

LEMMA HolderSteps ==
  ASSUME TypeOK, NEW p \in Caller, Holder(p),
         Continue(p) \/ Call(p) \/ NestedCall(p) \/ Refused(p)
  PROVE  Holder(p)'
<1> USE DEF TypeOK, Holder, InTx, HasResults, HasCall, Slot, WithResults, Kind, Goto, Finish,
            AfterFailure, lockVars, closeVars
<1>1. CASE Call(p) \/ NestedCall(p)
  BY <1>1 DEF Call, NestedCall, Enter
<1>2. CASE Refused(p)
  BY <1>2 DEF Refused
<1>3. CASE EnterShared(p)
  BY <1>3 DEF EnterShared
<1>4. CASE Acquire(p)
  BY <1>4 DEF Acquire
<1>5. CASE PingAnswered(p)
  BY <1>5 DEF PingAnswered
<1>6. CASE RequestSucceeds(p)
  BY <1>6 DEF RequestSucceeds
<1>7. CASE RequestFails(p)
  BY <1>7 DEF RequestFails
<1>8. CASE CountError(p)
  BY <1>8 DEF CountError
<1>9. CASE Count(p)
  BY <1>9 DEF Count
<1>10. CASE LeaveShared(p) \/ ReturnRow(p)
  BY <1>10, WhereItGoes DEF LeaveShared, ReturnRow, HandOver
<1>11. CASE CloseResults(p)
  BY <1>11 DEF CloseResults
<1>12. CASE FnReturns(p)
  BY <1>12 DEF FnReturns
<1>13. CASE Commit(p)
  BY <1>13 DEF Commit
<1>14. CASE Rollback(p)
  BY <1>14 DEF Rollback
<1>15. CASE CountEnd(p)
  BY <1>15, WhereItGoes DEF CountEnd
<1>16. CASE AnnounceClose(p)
  BY <1>16 DEF AnnounceClose
<1>17. CASE AlreadyClosed(p)
  BY <1>17, WhereItGoes DEF AlreadyClosed
<1>18. CASE MarkClosed(p)
  BY <1>18 DEF MarkClosed
<1>19. CASE PoolClosed(p)
  BY <1>19, WhereItGoes DEF PoolClosed
<1> QED
  BY <1>1, <1>2, <1>3, <1>4, <1>5, <1>6, <1>7, <1>8, <1>9, <1>10, <1>11, <1>12, <1>13, <1>14, <1>15, <1>16, <1>17, <1>18, <1>19
     DEF Continue

LEMMA StepHoldersInv == TypeOK /\ HoldersInv /\ [Next]_vars => HoldersInv'
<1> SUFFICES ASSUME TypeOK, HoldersInv, [Next]_vars PROVE HoldersInv'
  OBVIOUS
<1>1. ASSUME NEW p \in Caller, Continue(p) \/ Call(p) \/ NestedCall(p) \/ Refused(p)
      PROVE  HoldersInv'
  <2>1. Holder(p)'
    BY <1>1, HolderSteps DEF HoldersInv
  <2>2. \A q \in Caller \ {p} : Holder(q)'
    BY <1>1, OthersKeep DEF HoldersInv, Holder
  <2> QED BY <2>1, <2>2 DEF HoldersInv
<1>2. CASE TickerFires \/ MonitorExit \/ CancelParent \/ UNCHANGED vars
  BY <1>2 DEF TickerFires, MonitorExit, CancelParent, vars, HoldersInv, Holder, InTx, HasResults,
              HasCall
<1>3. CASE MonitorTick
  BY <1>3, CallerAssumption
     DEF MonitorTick, Goto, TypeOK, HoldersInv, Holder, InTx, HasResults, HasCall, Slot, Kind,
         WithResults
<1> QED
  BY <1>1, <1>2, <1>3 DEF Next

\* Every path of every operation, failed ones included, gives its connection back.
THEOREM NoConnectionLost == Spec => []NothingLeaked
<1>1. HoldersInv => NothingLeaked
  BY DEF HoldersInv, Holder, NothingLeaked, Use, Slot, InTx, HasResults, HasCall
<1> QED
  BY <1>1, InitTypeOK, StepTypeOK, InitHoldersInv, StepHoldersInv, PTL DEF Spec

-----------------------------------------------------------------------------
(***************************************************************************)
(* Waiting.  A goroutine waits for c.mu, for a connection of a pool that   *)
(* has none left, or as the Close that empties the pool.  Whoever holds    *)
(* what it waits for can go on, unless it waits itself in a call it made   *)
(* with results or a transaction open: the part of Ends that is a safety   *)
(* property.                                                               *)
(***************************************************************************)
Waiting(p) ==
  \/ pc[p] \in {"rlock", "lock"} /\ writer # None
  \/ pc[p] = "drain" /\ readers # {}
  \/ pc[p] = "acquire" /\ pool = "open" /\ Cardinality(held) >= MaxConns
  \/ pc[p] = "poolClose" /\ held # {}

GoesOn(q) == pc[q] # "idle" /\ ~ Waiting(q)

\* A goroutine waits in a nested call, and keeps the connection of its results or
\* of its transaction meanwhile.
NestedOp(q) == op[q] \in Nested \/ (op[q] = "ping" /\ "health" \in Nested)
EntangledWait(q) == NestedOp(q) /\ (InTx(q) \/ HasResults(q)) /\ Waiting(q)

NobodyStuck ==
  \A p \in Caller : Waiting(p) => \E q \in Caller : GoesOn(q) \/ EntangledWait(q)

\* c.mu is held for reading only inside a call, and claimed for writing by Close.
LockInv ==
  /\ \A p \in readers :
       pc[p] \in {"acquire", "request", "countError", "count", "release"} /\ op[p] # "emptyRow"
  /\ \A p \in Caller : pc[p] = "rlock" => op[p] # "emptyRow"
  /\ writer # None => pc[writer] \in {"drain", "poolClose"}
  /\ \A p \in Caller : pc[p] \in {"drain", "poolClose"} => writer = p

\* With results or a transaction open a goroutine is in an operation only if that
\* is one of the nested ones.
Nests(p) ==
  /\ InTx(p) \/ HasResults(p)
  /\ pc[p] \in {"rlock", "acquire", "request", "countError", "count", "release", "return",
               "lock", "drain", "poolClose"}
  => NestedOp(p)

NestsInv == \A p \in Caller : Nests(p)

LEMMA InitLockInv == Init => LockInv /\ NestsInv
BY DEF Init, LockInv, NestsInv, Nests, InTx, HasResults

LEMMA StepNestsInv == TypeOK /\ HoldersInv /\ NestsInv /\ [Next]_vars => NestsInv'
<1> SUFFICES ASSUME TypeOK, HoldersInv, NestsInv, [Next]_vars PROVE NestsInv'
  OBVIOUS
<1>1. ASSUME NEW p \in Caller, Continue(p) \/ Call(p) \/ NestedCall(p) \/ Refused(p)
      PROVE  NestsInv'
  <2>1. Nests(p)'
    <3> USE DEF TypeOK, HoldersInv, Holder, NestsInv, Nests, NestedOp, InTx, HasResults, HasCall,
                Slot, WithResults, Kind, Goto, Finish, AfterFailure
    <3>1. CASE Call(p) \/ NestedCall(p)
      BY <1>1, <3>1 DEF Call, NestedCall, Enter
    <3>2. CASE Refused(p) \/ EnterShared(p) \/ Acquire(p) \/ PingAnswered(p)
      BY <1>1, <3>2 DEF Refused, EnterShared, Acquire, PingAnswered
    <3>3. CASE RequestSucceeds(p) \/ RequestFails(p)
      BY <1>1, <3>3 DEF RequestSucceeds, RequestFails
    <3>4. CASE CountError(p) \/ Count(p)
      BY <1>1, <3>4 DEF CountError, Count
    <3>5. CASE LeaveShared(p) \/ ReturnRow(p) \/ CloseResults(p) \/ FnReturns(p) \/ CountEnd(p)
      BY <1>1, <3>5, WhereItGoes
         DEF LeaveShared, ReturnRow, HandOver, CloseResults, FnReturns, CountEnd
    <3>6. CASE Commit(p) \/ Rollback(p)
      BY <1>1, <3>6 DEF Commit, Rollback
    <3>7. CASE AnnounceClose(p) \/ AlreadyClosed(p) \/ MarkClosed(p) \/ PoolClosed(p)
      BY <1>1, <3>7, WhereItGoes DEF AnnounceClose, AlreadyClosed, MarkClosed, PoolClosed
    <3> QED BY <1>1, <3>1, <3>2, <3>3, <3>4, <3>5, <3>6, <3>7 DEF Continue
  <2>2. \A q \in Caller \ {p} : Nests(q)'
    BY <1>1, OthersKeep DEF NestsInv, Nests, NestedOp
  <2> QED BY <2>1, <2>2 DEF NestsInv
<1>2. CASE TickerFires \/ MonitorExit \/ CancelParent \/ UNCHANGED vars
  BY <1>2 DEF TickerFires, MonitorExit, CancelParent, vars, NestsInv, Nests, NestedOp, InTx,
              HasResults
<1>3. CASE MonitorTick
  BY <1>3, CallerAssumption
     DEF MonitorTick, Goto, TypeOK, HoldersInv, Holder, NestsInv, Nests, NestedOp, InTx, HasResults
<1> QED
  BY <1>1, <1>2, <1>3 DEF Next

LEMMA StepLockInv == TypeOK /\ LockInv /\ [Next]_vars => LockInv'
<1> SUFFICES ASSUME TypeOK, LockInv, [Next]_vars PROVE LockInv'
  OBVIOUS
<1> USE CallerAssumption
    DEF TypeOK, LockInv, Kind, Goto, Finish, AfterFailure, lockVars, closeVars
<1>1. ASSUME NEW p \in Caller, Call(p) PROVE LockInv'
  BY <1>1 DEF Call, Enter
<1>2. ASSUME NEW p \in Caller, NestedCall(p) PROVE LockInv'
  BY <1>2 DEF NestedCall, Enter
<1>3. ASSUME NEW p \in Caller, Refused(p) PROVE LockInv'
  BY <1>3 DEF Refused
<1>4. ASSUME NEW p \in Caller, EnterShared(p) PROVE LockInv'
  BY <1>4 DEF EnterShared
<1>5. ASSUME NEW p \in Caller, Acquire(p) PROVE LockInv'
  BY <1>5 DEF Acquire
<1>6. ASSUME NEW p \in Caller, PingAnswered(p) PROVE LockInv'
  BY <1>6 DEF PingAnswered
<1>7. ASSUME NEW p \in Caller, RequestSucceeds(p) PROVE LockInv'
  BY <1>7 DEF RequestSucceeds
<1>8. ASSUME NEW p \in Caller, RequestFails(p) PROVE LockInv'
  BY <1>8 DEF RequestFails
<1>9. ASSUME NEW p \in Caller, CountError(p) PROVE LockInv'
  BY <1>9 DEF CountError
<1>10. ASSUME NEW p \in Caller, Count(p) PROVE LockInv'
  BY <1>10 DEF Count
<1>11. ASSUME NEW p \in Caller, LeaveShared(p) \/ ReturnRow(p) PROVE LockInv'
  BY <1>11, WhereItGoes DEF LeaveShared, ReturnRow, HandOver
<1>12. ASSUME NEW p \in Caller, CloseResults(p) PROVE LockInv'
  BY <1>12 DEF CloseResults
<1>13. ASSUME NEW p \in Caller, FnReturns(p) PROVE LockInv'
  BY <1>13 DEF FnReturns
<1>14. ASSUME NEW p \in Caller, Commit(p) PROVE LockInv'
  BY <1>14 DEF Commit
<1>15. ASSUME NEW p \in Caller, Rollback(p) PROVE LockInv'
  BY <1>15 DEF Rollback
<1>16. ASSUME NEW p \in Caller, CountEnd(p) PROVE LockInv'
  BY <1>16, WhereItGoes DEF CountEnd
<1>17. ASSUME NEW p \in Caller, AnnounceClose(p) PROVE LockInv'
  BY <1>17 DEF AnnounceClose
<1>18. ASSUME NEW p \in Caller, AlreadyClosed(p) PROVE LockInv'
  BY <1>18, WhereItGoes DEF AlreadyClosed
<1>19. ASSUME NEW p \in Caller, MarkClosed(p) PROVE LockInv'
  BY <1>19 DEF MarkClosed
<1>20. ASSUME NEW p \in Caller, PoolClosed(p) PROVE LockInv'
  BY <1>20, WhereItGoes DEF PoolClosed
<1>21. CASE TickerFires
  BY <1>21 DEF TickerFires
<1>22. CASE MonitorTick
  BY <1>22 DEF MonitorTick
<1>23. CASE MonitorExit
  BY <1>23 DEF MonitorExit
<1>24. CASE CancelParent
  BY <1>24 DEF CancelParent
<1>25. CASE UNCHANGED vars
  BY <1>25 DEF vars
<1> QED
  BY <1>1, <1>2, <1>3, <1>4, <1>5, <1>6, <1>7, <1>8, <1>9, <1>10, <1>11,
     <1>12, <1>13, <1>14, <1>15, <1>16, <1>17, <1>18, <1>19, <1>20,
     <1>21, <1>22, <1>23, <1>24, <1>25
     DEF Next, Continue

\* A connection that is out comes back, or its holder waits with it.
LEMMA HolderGoesOn ==
  ASSUME TypeOK, HoldersInv, NestsInv, held # {}
  PROVE  \E q \in Caller : GoesOn(q) \/ EntangledWait(q)
<1>1. PICK q \in Caller, k \in Use : <<q, k>> \in held
  <2>1. PICK h \in held : h \in Caller \X Use
    BY DEF TypeOK
  <2> QED BY <2>1
<1>2. CASE k = "call"
  BY <1>1, <1>2 DEF HoldersInv, Holder, HasCall, Slot, GoesOn, Waiting
<1>3. CASE k \in {"tx", "results"}
  <2>1. (InTx(q) \/ HasResults(q)) /\ pc[q] # "idle"
    BY <1>1, <1>3 DEF InTx, HasResults, HoldersInv, Holder
  <2>2. Waiting(q) => pc[q] \in {"rlock", "acquire", "lock", "drain", "poolClose"}
    BY DEF Waiting
  <2> QED BY <2>1, <2>2 DEF NestsInv, Nests, GoesOn, EntangledWait
<1> QED BY <1>1, <1>2, <1>3 DEF Use

\* A pool with no connection left has given them to somebody.
LEMMA ExhaustedIsHeld ==
  ASSUME Cardinality(held) >= MaxConns PROVE held # {}
BY PoolAssumption, FS_EmptySet

LEMMA ReaderGoesOn ==
  ASSUME TypeOK, HoldersInv, NestsInv, LockInv, NEW r \in readers
  PROVE  \E q \in Caller : GoesOn(q) \/ EntangledWait(q)
<1>1. r \in Caller /\ pc[r] \in {"acquire", "request", "countError", "count", "release"}
  BY DEF TypeOK, LockInv
<1>2. CASE Waiting(r)
  <2>1. Cardinality(held) >= MaxConns
    BY <1>1, <1>2 DEF Waiting
  <2> QED BY <2>1, ExhaustedIsHeld, HolderGoesOn
<1>3. CASE ~ Waiting(r)
  BY <1>1, <1>3 DEF GoesOn
<1> QED BY <1>2, <1>3

\* No deadlock: while anybody waits, somebody can go on, or somebody waits in a
\* call it made with results or a transaction open; if nobody makes such calls the
\* client never hangs.
THEOREM OnlyHoldersEntangle == Spec => []NobodyStuck
<1>1. TypeOK /\ HoldersInv /\ NestsInv /\ LockInv => NobodyStuck
  <2> SUFFICES ASSUME TypeOK, HoldersInv, NestsInv, LockInv, NEW p \in Caller, Waiting(p)
               PROVE  \E q \in Caller : GoesOn(q) \/ EntangledWait(q)
    BY DEF NobodyStuck
  <2>1. CASE held # {}
    BY <2>1, HolderGoesOn
  <2>2. CASE readers # {}
    BY <2>2, ReaderGoesOn
  <2>3. CASE held = {} /\ readers = {}
    <3>1. pc[p] \in {"rlock", "lock"} /\ writer # None
      BY <2>3, ExhaustedIsHeld DEF Waiting
    <3>2. writer \in Caller /\ pc[writer] \in {"drain", "poolClose"}
      BY <3>1 DEF TypeOK, LockInv
    <3> QED BY <2>3, <3>2 DEF GoesOn, Waiting
  <2> QED BY <2>1, <2>2, <2>3
<1> QED
  BY <1>1, InitTypeOK, StepTypeOK, InitHoldersInv, StepHoldersInv, InitLockInv, StepLockInv,
     StepNestsInv, PTL DEF Spec

-----------------------------------------------------------------------------
(***************************************************************************)
(* The books of GetMetrics.  Each balance relates counters to the number   *)
(* of goroutines at some place, and a step moves one goroutine: so it adds *)
(* at most one to such a number, or takes one away.  Nothing bounds the    *)
(* number of callers; those that are counted are finitely many.            *)
(***************************************************************************)
One(b) == IF b THEN 1 ELSE 0

\* A set that changes at one element only.
LEMMA Recount ==
  ASSUME NEW S, NEW T, NEW x, IsFiniteSet(S), S \ {x} = T \ {x}
  PROVE  /\ IsFiniteSet(T)
         /\ Cardinality(S) \in Nat /\ Cardinality(T) \in Nat
         /\ Cardinality(T) + One(x \in S) = Cardinality(S) + One(x \in T)
<1>1. /\ IsFiniteSet(S \ {x})
      /\ Cardinality(S \ {x}) = IF x \in S THEN Cardinality(S) - 1 ELSE Cardinality(S)
  BY FS_RemoveElement
<1>2. /\ IsFiniteSet((S \ {x}) \cup {x})
      /\ Cardinality((S \ {x}) \cup {x}) = Cardinality(S \ {x}) + 1
  BY <1>1, FS_AddElement
<1>3. Cardinality(S) \in Nat /\ Cardinality(S \ {x}) \in Nat
  BY <1>1, FS_CardinalityType
<1>4. CASE x \in T
  <2>1. T = (S \ {x}) \cup {x}
    BY <1>4
  <2> QED BY <1>1, <1>2, <1>3, <1>4, <2>1 DEF One
<1>5. CASE x \notin T
  <2>1. T = S \ {x}
    BY <1>5
  <2> QED BY <1>1, <1>3, <1>5, <2>1 DEF One
<1> QED BY <1>4, <1>5

IsOpen(p) == InTx(p) \/ (op[p] = "tx" /\ pc[p] = "release" /\ Slot(p) \in held)
Where(labels) == {p \in Caller : pc[p] \in labels}
Open == {p \in Caller : IsOpen(p)}
Ending == {"countCommit", "countRollback"}

CountInv ==
  /\ IsFiniteSet(Where({"count"})) /\ IsFiniteSet(Where({"countError"}))
  /\ IsFiniteSet(Where(Ending)) /\ IsFiniteSet(Open)
  /\ Accounted

\* What a step of one goroutine does to the four numbers.
LEMMA OneMoves ==
  ASSUME CountInv, NEW p \in Caller,
         \A q \in Caller \ {p} : pc'[q] = pc[q] /\ IsOpen(q)' = IsOpen(q)
  PROVE  /\ \A L \in {{"count"}, {"countError"}, Ending} :
              /\ IsFiniteSet(Where(L)') /\ At(L) \in Nat /\ At(L)' \in Nat
              /\ At(L)' + One(pc[p] \in L) = At(L) + One(pc'[p] \in L)
         /\ IsFiniteSet(Open') /\ Cardinality(Open) \in Nat /\ Cardinality(Open') \in Nat
         /\ Cardinality(Open') + One(IsOpen(p)) = Cardinality(Open) + One(IsOpen(p)')
<1>1. ASSUME NEW L \in {{"count"}, {"countError"}, Ending}
      PROVE  /\ IsFiniteSet(Where(L)') /\ At(L) \in Nat /\ At(L)' \in Nat
             /\ At(L)' + One(pc[p] \in L) = At(L) + One(pc'[p] \in L)
  <2>1. IsFiniteSet(Where(L)) /\ Where(L) \ {p} = Where(L)' \ {p}
    BY DEF CountInv, Where
  <2>2. (p \in Where(L)) = (pc[p] \in L) /\ (p \in Where(L)') = (pc'[p] \in L)
    BY DEF Where
  <2>3. At(L) = Cardinality(Where(L)) /\ At(L)' = Cardinality(Where(L)')
    BY DEF At, Where
  <2>4. /\ IsFiniteSet(Where(L)')
        /\ Cardinality(Where(L)) \in Nat /\ Cardinality(Where(L)') \in Nat
        /\ Cardinality(Where(L)') + One(p \in Where(L)) = Cardinality(Where(L)) + One(p \in Where(L)')
    BY <2>1, Recount
  <2> QED BY <2>2, <2>3, <2>4
<1>2. /\ IsFiniteSet(Open') /\ Cardinality(Open) \in Nat /\ Cardinality(Open') \in Nat
      /\ Cardinality(Open') + One(IsOpen(p)) = Cardinality(Open) + One(IsOpen(p)')
  <2>1. IsFiniteSet(Open) /\ Open \ {p} = Open' \ {p}
    BY DEF CountInv, Open
  <2>2. (p \in Open <=> IsOpen(p)) /\ (p \in Open' <=> IsOpen(p)')
    BY DEF Open
  <2>3. /\ IsFiniteSet(Open') /\ Cardinality(Open) \in Nat /\ Cardinality(Open') \in Nat
        /\ Cardinality(Open') + One(p \in Open) = Cardinality(Open) + One(p \in Open')
    BY <2>1, Recount
  <2> QED BY <2>2, <2>3 DEF One
<1> QED BY <1>1, <1>2

\* The other goroutines are where they were, and so are their transactions.
LEMMA OthersStay ==
  ASSUME TypeOK, NEW p \in Caller, Continue(p) \/ Call(p) \/ NestedCall(p) \/ Refused(p)
  PROVE  \A q \in Caller \ {p} : pc'[q] = pc[q] /\ IsOpen(q)' = IsOpen(q)
BY OthersKeep DEF IsOpen, HasCall

\* A step of one goroutine keeps the books when what it counts is what it moves.
Balances(p) ==
  /\ metrics'.queries + One(pc'[p] = "count") + 2 * One(pc'[p] = "countError") + answered + 2 * failures
       = metrics.queries + One(pc[p] = "count") + 2 * One(pc[p] = "countError") + answered' + 2 * failures'
  /\ metrics'.errors + One(pc'[p] = "countError") + failures
       = metrics.errors + One(pc[p] = "countError") + failures'
  /\ metrics'.started + metrics.committed + metrics.rolledBack + One(IsOpen(p)) + One(pc[p] \in Ending)
       = metrics.started + metrics'.committed + metrics'.rolledBack
           + One(IsOpen(p)') + One(pc'[p] \in Ending)

LEMMA BooksKept ==
  ASSUME TypeOK, TypeOK', CountInv, NEW p \in Caller,
         Continue(p) \/ Call(p) \/ NestedCall(p) \/ Refused(p), Balances(p)
  PROVE  CountInv'
<1>1. /\ \A L \in {{"count"}, {"countError"}, Ending} :
           /\ IsFiniteSet(Where(L)') /\ At(L) \in Nat /\ At(L)' \in Nat
           /\ At(L)' + One(pc[p] \in L) = At(L) + One(pc'[p] \in L)
      /\ IsFiniteSet(Open') /\ Cardinality(Open) \in Nat /\ Cardinality(Open') \in Nat
      /\ Cardinality(Open') + One(IsOpen(p)) = Cardinality(Open) + One(IsOpen(p)')
  BY OthersStay, OneMoves
<1>2. /\ metrics.queries \in Nat /\ metrics.errors \in Nat /\ metrics.started \in Nat
      /\ metrics.committed \in Nat /\ metrics.rolledBack \in Nat
      /\ metrics'.queries \in Nat /\ metrics'.errors \in Nat /\ metrics'.started \in Nat
      /\ metrics'.committed \in Nat /\ metrics'.rolledBack \in Nat
      /\ answered \in Nat /\ failures \in Nat /\ answered' \in Nat /\ failures' \in Nat
  BY DEF TypeOK
<1>3. \A b : One(b) \in {0, 1}
  BY DEF One
<1>4. /\ At({"count"})' + One(pc[p] = "count") = At({"count"}) + One(pc'[p] = "count")
      /\ At({"countError"})' + One(pc[p] = "countError") = At({"countError"}) + One(pc'[p] = "countError")
      /\ At({"count"}) \in Nat /\ At({"count"})' \in Nat
      /\ At({"countError"}) \in Nat /\ At({"countError"})' \in Nat
  BY <1>1 DEF One
<1>5. QueriesAccounted'
  <2>1. QueriesAccounted
    BY DEF CountInv, Accounted
  <2>2. metrics'.queries + At({"count"})' + 2 * At({"countError"})' = answered' + 2 * failures'
    <3>1. metrics.queries + At({"count"}) + 2 * At({"countError"}) = answered + 2 * failures
      BY <2>1 DEF QueriesAccounted
    <3>2. metrics'.queries + One(pc'[p] = "count") + 2 * One(pc'[p] = "countError") + answered + 2 * failures
            = metrics.queries + One(pc[p] = "count") + 2 * One(pc[p] = "countError") + answered' + 2 * failures'
      BY DEF Balances
    <3> QED BY <1>2, <1>3, <1>4, <3>1, <3>2
  <2>3. metrics'.errors + At({"countError"})' = failures'
    <3>1. metrics.errors + At({"countError"}) = failures
      BY <2>1 DEF QueriesAccounted
    <3>2. metrics'.errors + One(pc'[p] = "countError") + failures
            = metrics.errors + One(pc[p] = "countError") + failures'
      BY DEF Balances
    <3> QED BY <1>2, <1>3, <1>4, <3>1, <3>2
  <2> QED BY <2>2, <2>3 DEF QueriesAccounted
<1>6. TransactionsAccounted'
  <2>1. metrics.started = metrics.committed + metrics.rolledBack + Cardinality(Open) + At(Ending)
    BY DEF CountInv, Accounted, TransactionsAccounted, Open, IsOpen, Ending
  <2>2. metrics'.started = metrics'.committed + metrics'.rolledBack + Cardinality(Open') + At(Ending)'
    <3>1. /\ At(Ending) \in Nat /\ At(Ending)' \in Nat
          /\ At(Ending)' + One(pc[p] \in Ending) = At(Ending) + One(pc'[p] \in Ending)
          /\ Cardinality(Open) \in Nat /\ Cardinality(Open') \in Nat
          /\ Cardinality(Open') + One(IsOpen(p)) = Cardinality(Open) + One(IsOpen(p)')
      BY <1>1
    <3>2. metrics'.started + metrics.committed + metrics.rolledBack + One(IsOpen(p)) + One(pc[p] \in Ending)
            = metrics.started + metrics'.committed + metrics'.rolledBack
                + One(IsOpen(p)') + One(pc'[p] \in Ending)
      BY DEF Balances
    <3> DEFINE a == One(IsOpen(p))
               b == One(IsOpen(p)')
               x == One(pc[p] \in Ending)
               y == One(pc'[p] \in Ending)
               open == Cardinality(Open)
               openAfter == Cardinality(Open')
               ending == At(Ending)
               endingAfter == At(Ending)'
               s == metrics
               t == metrics'
    <3>3. a \in Nat /\ b \in Nat /\ x \in Nat /\ y \in Nat
      BY <1>3
    <3>4. /\ open \in Nat /\ openAfter \in Nat /\ openAfter + a = open + b
          /\ ending \in Nat /\ endingAfter \in Nat /\ endingAfter + x = ending + y
      BY <3>1
    <3>5. s.started = s.committed + s.rolledBack + open + ending
      BY <2>1
    <3>6. t.started + s.committed + s.rolledBack + a + x = s.started + t.committed + t.rolledBack + b + y
      BY <3>2
    <3>7. /\ s.started \in Nat /\ s.committed \in Nat /\ s.rolledBack \in Nat
          /\ t.started \in Nat /\ t.committed \in Nat /\ t.rolledBack \in Nat
      BY <1>2
    <3> HIDE DEF a, b, x, y, open, openAfter, ending, endingAfter, s, t
    <3>8. t.started = t.committed + t.rolledBack + openAfter + endingAfter
      BY <3>3, <3>4, <3>5, <3>6, <3>7
    <3> QED BY <3>8 DEF openAfter, endingAfter, t
  <2> QED BY <2>2 DEF TransactionsAccounted, Open, IsOpen, Ending
<1> QED BY <1>1, <1>5, <1>6 DEF CountInv, Accounted

LEMMA StepBalances ==
  ASSUME TypeOK, HoldersInv, NEW p \in Caller,
         Continue(p) \/ Call(p) \/ NestedCall(p) \/ Refused(p)
  PROVE  Balances(p)
<1> USE DEF TypeOK, HoldersInv, Holder, Balances, One, IsOpen, InTx, HasResults, HasCall, Slot, Use, WithResults, Kind, Goto,
            Finish, Ending, AfterFailure, AfterCall, RecordFailure, closeVars, lockVars, history
<1>1. CASE Call(p)
  BY <1>1 DEF Call, Enter
<1>2. CASE NestedCall(p)
  <2>1. /\ pc[p] = "using" /\ pc'[p] \in {"lock", "acquire", "rlock"}
        /\ held' = held /\ UNCHANGED <<metrics, answered, failures>>
    BY <1>2 DEF NestedCall, Enter
  <2>2. IsOpen(p)' <=> IsOpen(p)
    BY <2>1
  <2> QED BY <2>1, <2>2
<1>3. CASE Refused(p)
  <2>1. pc[p] = "acquire" /\ pc'[p] = AfterFailure(op[p]) /\ op' = op /\ held' = held
    BY <1>3 DEF Refused
  <2>2. IsOpen(p)' <=> IsOpen(p)
    BY <2>1
  <2> QED BY <1>3, <2>1, <2>2 DEF Refused
<1>4. CASE EnterShared(p)
  BY <1>4 DEF EnterShared
<1>5. CASE Acquire(p)
  BY <1>5 DEF Acquire
<1>6. CASE PingAnswered(p)
  BY <1>6 DEF PingAnswered
<1>7. CASE RequestSucceeds(p)
  <2>1. CASE op[p] = "tx"
    <3>1. ~IsOpen(p) /\ IsOpen(p)' /\ pc[p] = "request" /\ pc'[p] = "release"
      BY <1>7, <2>1 DEF RequestSucceeds
    <3> QED BY <1>7, <2>1, <3>1 DEF RequestSucceeds
  <2>2. CASE op[p] # "tx"
    <3>1. (IsOpen(p)' <=> IsOpen(p)) /\ pc[p] = "request" /\ pc'[p] \notin Ending
      BY <1>7, <2>2 DEF RequestSucceeds
    <3>2. op[p] \in Kind /\ metrics' = metrics /\ failures' = failures
      BY <1>7, <2>2 DEF RequestSucceeds
    <3> HIDE DEF IsOpen
    <3> QED BY <1>7, <2>2, <3>1, <3>2 DEF RequestSucceeds
  <2> QED BY <2>1, <2>2
<1>8. CASE RequestFails(p)
  BY <1>8 DEF RequestFails
<1>9. CASE CountError(p)
  BY <1>9 DEF CountError
<1>10. CASE Count(p)
  <2>1. /\ pc[p] = "count" /\ pc'[p] = "release" /\ op' = op /\ held' = held
        /\ metrics' = [metrics EXCEPT !.queries = @ + 1] /\ UNCHANGED <<answered, failures>>
    BY <1>10 DEF Count
  <2>2. IsOpen(p)' <=> IsOpen(p)
    BY <2>1
  <2> HIDE DEF IsOpen
  <2> QED BY <2>1, <2>2
<1>11. CASE LeaveShared(p) \/ ReturnRow(p)
  BY <1>11 DEF LeaveShared, ReturnRow, HandOver
<1>12. CASE CloseResults(p)
  BY <1>12 DEF CloseResults
<1>13. CASE FnReturns(p)
  BY <1>13 DEF FnReturns
<1>14. CASE Commit(p)
  <2>1. pc[p] \notin Ending /\ pc'[p] \in Ending /\ IsOpen(p) /\ ~IsOpen(p)'
    BY <1>14 DEF Commit
  <2>2. pc[p] = "commit" /\ UNCHANGED <<metrics, answered, failures>>
    BY <1>14 DEF Commit
  <2> QED BY <2>1, <2>2
<1>15. CASE Rollback(p)
  <2>1. pc[p] \notin Ending /\ pc'[p] \in Ending /\ IsOpen(p) /\ ~IsOpen(p)'
    BY <1>15 DEF Rollback
  <2>2. pc[p] = "rollback" /\ UNCHANGED <<metrics, answered, failures>>
    BY <1>15 DEF Rollback
  <2> QED BY <2>1, <2>2
<1>16. CASE CountEnd(p)
  BY <1>16 DEF CountEnd
<1>17. CASE AnnounceClose(p)
  BY <1>17 DEF AnnounceClose
<1>18. CASE AlreadyClosed(p)
  BY <1>18 DEF AlreadyClosed
<1>19. CASE MarkClosed(p)
  BY <1>19 DEF MarkClosed
<1>20. CASE PoolClosed(p)
  BY <1>20 DEF PoolClosed
<1> QED
  BY <1>1, <1>2, <1>3, <1>4, <1>5, <1>6, <1>7, <1>8, <1>9, <1>10, <1>11,
     <1>12, <1>13, <1>14, <1>15, <1>16, <1>17, <1>18, <1>19, <1>20
     DEF Continue

LEMMA StepCountInv ==
  TypeOK /\ TypeOK' /\ HoldersInv /\ CountInv /\ [Next]_vars => CountInv'
<1> SUFFICES ASSUME TypeOK, TypeOK', HoldersInv, CountInv, [Next]_vars PROVE CountInv'
  OBVIOUS
<1>1. ASSUME NEW p \in Caller, Continue(p) \/ Call(p) \/ NestedCall(p) \/ Refused(p)
      PROVE  CountInv'
  BY <1>1, StepBalances, BooksKept
<1>2. CASE TickerFires \/ MonitorTick \/ MonitorExit \/ CancelParent \/ UNCHANGED vars
  <2>1. /\ \A L \in {{"count"}, {"countError"}, Ending} : Where(L)' = Where(L)
        /\ Open' = Open /\ metrics' = metrics /\ answered' = answered /\ failures' = failures
    BY <1>2, CallerAssumption
       DEF TickerFires, MonitorTick, MonitorExit, CancelParent, vars, history, Goto, TypeOK,
           HoldersInv, Holder, InTx, IsOpen, Open, Where, Ending
  <2>2. Accounted <=>
          /\ metrics.queries + Cardinality(Where({"count"})) + 2 * Cardinality(Where({"countError"}))
               = answered + 2 * failures
          /\ metrics.errors + Cardinality(Where({"countError"})) = failures
          /\ metrics.started = metrics.committed + metrics.rolledBack
               + Cardinality(Open) + Cardinality(Where(Ending))
    BY DEF Accounted, QueriesAccounted, TransactionsAccounted, At, Where, Open, IsOpen, Ending
  <2>3. Accounted' <=>
          /\ metrics'.queries + Cardinality(Where({"count"})') + 2 * Cardinality(Where({"countError"})')
               = answered' + 2 * failures'
          /\ metrics'.errors + Cardinality(Where({"countError"})') = failures'
          /\ metrics'.started = metrics'.committed + metrics'.rolledBack
               + Cardinality(Open') + Cardinality(Where(Ending)')
    BY DEF Accounted, QueriesAccounted, TransactionsAccounted, At, Where, Open, IsOpen, Ending
  <2> QED BY <2>1, <2>2, <2>3 DEF CountInv
<1> QED BY <1>1, <1>2 DEF Next

\* The counters of GetMetrics can be accounted for at every moment, for any number
\* of goroutines, any pool, and any failures.
THEOREM BooksBalance == Spec => []Accounted
<1>1. Init => CountInv
  <2> SUFFICES ASSUME Init PROVE CountInv
    OBVIOUS
  <2>1. \A L \in {{"count"}, {"countError"}, Ending} : Where(L) = {}
    BY DEF Init, Where, Ending
  <2>2. Open = {}
    BY DEF Init, Open, IsOpen, InTx
  <2>3. Cardinality({}) = 0 /\ IsFiniteSet({})
    BY FS_EmptySet
  <2>4. At({"count"}) = 0 /\ At({"countError"}) = 0 /\ At(Ending) = 0 /\ Cardinality(Open) = 0
    BY <2>1, <2>2, <2>3 DEF At, Where
  <2>5. QueriesAccounted
    BY <2>4 DEF Init, QueriesAccounted
  <2>6. TransactionsAccounted
    BY <2>4 DEF Init, TransactionsAccounted, Open, IsOpen, Ending
  <2> QED BY <2>1, <2>2, <2>3, <2>5, <2>6 DEF CountInv, Accounted
<1>2. CountInv => Accounted
  BY DEF CountInv
<1> QED
  BY <1>1, <1>2, InitTypeOK, StepTypeOK, InitHoldersInv, StepHoldersInv, StepCountInv, PTL DEF Spec
=============================================================================
