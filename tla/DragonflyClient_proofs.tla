----------------------- MODULE DragonflyClient_proofs -----------------------
(***************************************************************************)
(* Proofs about DragonflyClient, for any finite set of callers, any        *)
(* latencies and any bounds.                                               *)
(***************************************************************************)
EXTENDS DragonflyClient, TLAPS

USE DEF redisVars, onceVars, startVars, loopVars, statVars, commandVars, callerVars, At

-----------------------------------------------------------------------------
(***************************************************************************)
(* Type correctness.                                                       *)
(***************************************************************************)

\* A step of an operation leads to a label and keeps the local variables.
LEMMA GotoType ==
  ASSUME TypeOK, NEW p \in Caller, NEW label \in Label, Goto(p, label)
  PROVE  CallerTypes'
BY DEF TypeOK, CallerTypes, Goto

\* At its end an operation leaves no local variables.
LEMMA ReturnType ==
  ASSUME TypeOK, NEW p \in Caller, Return(p)
  PROVE  CallerTypes'
<1>1. pc' \in [Caller -> Label]
  BY DEF TypeOK, CallerTypes, Return, Label
<1>2. hand' \in [Caller -> [redis : Redis, config : Redis, id : Redis]]
  BY BoundAssumption DEF TypeOK, CallerTypes, Return, Redis
<1>3. left' \in [Caller -> 0 .. MaxRetries]
  BY BoundAssumption DEF TypeOK, CallerTypes, Return
<1> QED
  BY <1>1, <1>2, <1>3 DEF CallerTypes

\* A latency is counted in natural numbers.
LEMMA UpdateLatencyType ==
  ASSUME NEW c \in CommandCounters, NEW d \in Nat
  PROVE  UpdateLatency(c, d) \in CommandCounters
<1> DEFINE least == IF c.min # 0 /\ c.min <= d THEN c.min ELSE d
           most == IF c.max >= d THEN c.max ELSE d
<1>1. least \in Nat /\ most \in Nat /\ c.total + d \in Nat /\ c.count + 1 \in Nat
  BY DEF CommandCounters
<1>2. UpdateLatency(c, d) =
        [c EXCEPT !.total = c.total + d, !.count = c.count + 1, !.min = least, !.max = most]
  BY DEF CommandCounters, UpdateLatency
<1> HIDE DEF least, most
<1> QED
  BY <1>1, <1>2 DEF CommandCounters

\* So is a command.
LEMMA RecordCommandType ==
  ASSUME NEW c \in CommandCounters, NEW d \in Latency, NEW failed \in BOOLEAN
  PROVE  RecordCommand(c, d, failed) \in CommandCounters
<1> USE LatencyAssumption
<1>1. CASE failed
  BY <1>1, UpdateLatencyType DEF RecordCommand, CommandCounters
<1>2. CASE ~failed
  BY <1>2, UpdateLatencyType DEF RecordCommand, CommandCounters
<1> QED
  BY <1>1, <1>2

LEMMA TypeInit == Init => TypeOK
<1> SUFFICES ASSUME Init PROVE TypeOK
  OBVIOUS
<1>0. 0 \in Redis /\ 0 \in 0 .. MaxRetries
  BY BoundAssumption DEF Redis
<1>1. LifeTypes
  BY DEF Init, LifeTypes
<1>2. RedisTypes
  <2>1. calls \in 0 .. MaxCalls /\ reloads \in 0 .. calls
    BY BoundAssumption DEF Init
  <2>2. built \in [Redis -> Redis]
    BY <1>0 DEF Init
  <2>3. current \in Redis /\ config \in Redis /\ open \subseteq Redis /\ abandoned \subseteq Redis
    BY <1>0 DEF Init
  <2> QED
    BY <2>1, <2>2, <2>3 DEF RedisTypes
<1>3. LoopTypes
  <2>1. status \in [connected : BOOLEAN, count : Nat, failures : Nat, consecutive : Nat]
    BY DEF Init
  <2>2. checks \in CheckCounters /\ commands \in CommandCounters
    BY DEF Init, NoChecks, NoCommands, CheckCounters, CommandCounters
  <2> QED
    BY <1>0, <2>1, <2>2 DEF Init, LoopTypes
<1>4. CallerTypes
  BY <1>0 DEF Init, CallerTypes, Label
<1> QED
  BY <1>1, <1>2, <1>3, <1>4 DEF TypeOK

LEMMA TypeStep == TypeOK /\ [Next]_vars => TypeOK'
<1> SUFFICES ASSUME TypeOK, [Next]_vars PROVE TypeOK'
  OBVIOUS
<1> USE BoundAssumption
<1>1. ASSUME NEW p \in Caller, Call(p) PROVE TypeOK'
  <2>1. LifeTypes'
    BY <1>1 DEF Call, TypeOK, LifeTypes
  <2>2. RedisTypes'
    BY <1>1 DEF Call, TypeOK, RedisTypes
  <2>3. LoopTypes'
    BY <1>1 DEF Call, TypeOK, LoopTypes
  <2>4. CallerTypes'
    <3>1. ASSUME NEW label \in {"start", "stop"}, Goto(p, label) PROVE CallerTypes'
      BY <3>1, GotoType DEF Label
    <3>2. ASSUME pc' = [pc EXCEPT ![p] = "request"], hand' = [hand EXCEPT ![p].redis = current],
                 NEW n \in 0 .. MaxRetries, left' = [left EXCEPT ![p] = n]
          PROVE  CallerTypes'
      <4>1. pc' \in [Caller -> Label]
        BY <3>2 DEF TypeOK, CallerTypes, Label, InRequest
      <4>2. hand' \in [Caller -> [redis : Redis, config : Redis, id : Redis]]
        BY <3>2 DEF TypeOK, CallerTypes, RedisTypes
      <4> QED
        BY <3>2, <4>1, <4>2 DEF TypeOK, CallerTypes
    <3> QED
      BY <1>1, <3>1, <3>2 DEF Call
  <2> QED
    BY <2>1, <2>2, <2>3, <2>4 DEF TypeOK
<1>2. ASSUME NEW p \in Caller, ExecuteWithMetrics(p) PROVE TypeOK'
  <2>1. LifeTypes'
    BY <1>2 DEF ExecuteWithMetrics, TypeOK, LifeTypes
  <2>2. RedisTypes'
    BY <1>2 DEF ExecuteWithMetrics, TypeOK, RedisTypes
  <2>3. LoopTypes'
    <3>1. commands' \in CommandCounters
      BY <1>2, RecordCommandType DEF ExecuteWithMetrics, TypeOK, LoopTypes
    <3>2. zeroLatency' \in BOOLEAN
      BY <1>2, Zenon DEF ExecuteWithMetrics
    <3> QED
      BY <1>2, <3>1, <3>2 DEF ExecuteWithMetrics, TypeOK, LoopTypes
  <2>4. CallerTypes'
    BY <1>2 DEF ExecuteWithMetrics, TypeOK, CallerTypes
  <2> QED
    BY <2>1, <2>2, <2>3, <2>4 DEF TypeOK
<1>3. ASSUME NEW p \in Caller, BeginReload(p) PROVE TypeOK'
  <2>1. LifeTypes'
    <3>1. crossed' \in BOOLEAN
      BY <1>3, Zenon DEF BeginReload, TypeOK, LifeTypes
    <3> QED
      BY <1>3, <3>1 DEF BeginReload, TypeOK, LifeTypes
  <2>2. RedisTypes'
    <3>1. calls' \in 0 .. MaxCalls /\ reloads' \in 0 .. calls'
      BY <1>3 DEF BeginReload, TypeOK, RedisTypes
    <3>2. config' \in Redis
      BY <1>3 DEF BeginReload, TypeOK, RedisTypes, Redis
    <3> QED
      BY <1>3, <3>1, <3>2 DEF BeginReload, TypeOK, RedisTypes
  <2>3. LoopTypes'
    BY <1>3 DEF BeginReload, TypeOK, LoopTypes
  <2>4. CallerTypes'
    <3>1. pc' \in [Caller -> Label]
      BY <1>3 DEF BeginReload, TypeOK, CallerTypes, Label, InReload
    <3>2. reloads + 1 \in Redis /\ current \in Redis /\ config \in Redis
      BY <1>3 DEF BeginReload, TypeOK, RedisTypes, Redis
    <3>3. hand' \in [Caller -> [redis : Redis, config : Redis, id : Redis]]
      BY <1>3, <3>2 DEF BeginReload, TypeOK, CallerTypes
    <3> QED
      BY <1>3, <3>1, <3>3 DEF BeginReload, TypeOK, CallerTypes
  <2> QED
    BY <2>1, <2>2, <2>3, <2>4 DEF TypeOK
<1>4. ASSUME NEW p \in Caller, EnterStart(p) PROVE TypeOK'
  <2>1. LifeTypes'
    <3>1. crossed' \in BOOLEAN
      BY <1>4, Zenon DEF EnterStart, TypeOK, LifeTypes
    <3> QED
      BY <1>4, <3>1 DEF EnterStart, TypeOK, LifeTypes
  <2>2. RedisTypes'
    BY <1>4 DEF EnterStart, TypeOK, RedisTypes
  <2>3. LoopTypes'
    BY <1>4 DEF EnterStart, TypeOK, LoopTypes
  <2>4. CallerTypes'
    BY <1>4, GotoType, ReturnType DEF EnterStart, Label, InStart, InStop
  <2> QED
    BY <2>1, <2>2, <2>3, <2>4 DEF TypeOK
<1>5. ASSUME NEW p \in Caller, PingFails(p) PROVE TypeOK'
  BY <1>5, GotoType, ReturnType DEF PingFails, TypeOK, LifeTypes, RedisTypes, LoopTypes, Label, InStart, InStop, InReload, InRequest
<1>6. ASSUME NEW p \in Caller, PingAnswered(p) PROVE TypeOK'
  BY <1>6, GotoType, ReturnType DEF PingAnswered, TypeOK, LifeTypes, RedisTypes, LoopTypes, Label, InStart, InStop, InReload, InRequest
<1>7. ASSUME NEW p \in Caller, Connect(p) PROVE TypeOK'
  <2>1. LifeTypes'
    BY <1>7 DEF Connect, TypeOK, LifeTypes
  <2>2. RedisTypes'
    BY <1>7 DEF Connect, TypeOK, RedisTypes
  <2>3. LoopTypes'
    BY <1>7 DEF Connect, TypeOK, LoopTypes
  <2>4. CallerTypes'
    BY <1>7, GotoType, ReturnType DEF Connect, Label, InStart, InStop
  <2> QED
    BY <2>1, <2>2, <2>3, <2>4 DEF TypeOK
<1>8. ASSUME NEW p \in Caller, StartHealthChecker(p) PROVE TypeOK'
  BY <1>8, GotoType, ReturnType DEF StartHealthChecker, TypeOK, LifeTypes, RedisTypes, LoopTypes, Label, InStart, InStop, InReload, InRequest
<1>9. ASSUME NEW p \in Caller, StartCollector(p) PROVE TypeOK'
  BY <1>9, GotoType, ReturnType DEF StartCollector, TypeOK, LifeTypes, RedisTypes, LoopTypes, Label, InStart, InStop, InReload, InRequest
<1>10. ASSUME NEW p \in Caller, EnterStop(p) PROVE TypeOK'
  <2>1. LifeTypes'
    <3>1. crossed' \in BOOLEAN
      BY <1>10, Zenon DEF EnterStop, TypeOK, LifeTypes
    <3> QED
      BY <1>10, <3>1 DEF EnterStop, TypeOK, LifeTypes
  <2>2. RedisTypes'
    BY <1>10 DEF EnterStop, TypeOK, RedisTypes
  <2>3. LoopTypes'
    BY <1>10 DEF EnterStop, TypeOK, LoopTypes
  <2>4. CallerTypes'
    BY <1>10, GotoType, ReturnType DEF EnterStop, Label, InStart, InStop
  <2> QED
    BY <2>1, <2>2, <2>3, <2>4 DEF TypeOK
<1>11. ASSUME NEW p \in Caller, Wait(p) PROVE TypeOK'
  BY <1>11, GotoType, ReturnType DEF Wait, TypeOK, LifeTypes, RedisTypes, LoopTypes, Label, InStart, InStop, InReload, InRequest
<1>12. ASSUME NEW p \in Caller, CloseClient(p) PROVE TypeOK'
  <2>1. LifeTypes'
    BY <1>12 DEF CloseClient, TypeOK, LifeTypes
  <2>2. RedisTypes'
    BY <1>12 DEF CloseClient, TypeOK, RedisTypes
  <2>3. LoopTypes'
    BY <1>12 DEF CloseClient, TypeOK, LoopTypes
  <2>4. CallerTypes'
    BY <1>12, GotoType DEF CloseClient, Label, InStop
  <2> QED
    BY <2>1, <2>2, <2>3, <2>4 DEF TypeOK
<1>13. ASSUME NEW p \in Caller, Disconnect(p) PROVE TypeOK'
  <2>1. LifeTypes'
    BY <1>13 DEF Disconnect, TypeOK, LifeTypes
  <2>2. RedisTypes'
    BY <1>13 DEF Disconnect, TypeOK, RedisTypes
  <2>3. LoopTypes'
    BY <1>13 DEF Disconnect, TypeOK, LoopTypes
  <2>4. CallerTypes'
    BY <1>13, ReturnType DEF Disconnect
  <2> QED
    BY <2>1, <2>2, <2>3, <2>4 DEF TypeOK
<1>14. ASSUME NEW p \in Caller, CreateClient(p) PROVE TypeOK'
  <2>1. LifeTypes'
    BY <1>14 DEF CreateClient, TypeOK, LifeTypes
  <2>2. RedisTypes'
    BY <1>14 DEF CreateClient, TypeOK, RedisTypes, CallerTypes
  <2>3. LoopTypes'
    BY <1>14 DEF CreateClient, TypeOK, LoopTypes
  <2>4. CallerTypes'
    BY <1>14, GotoType DEF CreateClient, Label, InReload
  <2> QED
    BY <2>1, <2>2, <2>3, <2>4 DEF TypeOK
<1>15. ASSUME NEW p \in Caller, TestAnswered(p) PROVE TypeOK'
  BY <1>15, GotoType, ReturnType DEF TestAnswered, TypeOK, LifeTypes, RedisTypes, LoopTypes, Label, InStart, InStop, InReload, InRequest
<1>16. ASSUME NEW p \in Caller, TestFails(p) PROVE TypeOK'
  <2>1. LifeTypes'
    BY <1>16 DEF TestFails, TypeOK, LifeTypes
  <2>2. RedisTypes'
    BY <1>16 DEF TestFails, TypeOK, RedisTypes, CallerTypes
  <2>3. LoopTypes'
    BY <1>16 DEF TestFails, TypeOK, LoopTypes
  <2>4. CallerTypes'
    BY <1>16, ReturnType DEF TestFails
  <2> QED
    BY <2>1, <2>2, <2>3, <2>4 DEF TypeOK
<1>17. ASSUME NEW p \in Caller, CloseOld(p) PROVE TypeOK'
  BY <1>17, GotoType, ReturnType DEF CloseOld, TypeOK, LifeTypes, RedisTypes, LoopTypes, Label, InStart, InStop, InReload, InRequest
<1>18. ASSUME NEW p \in Caller, RequestAnswered(p) PROVE TypeOK'
  BY <1>18, GotoType, ReturnType DEF RequestAnswered, TypeOK, LifeTypes, RedisTypes, LoopTypes, Label, InStart, InStop, InReload, InRequest
<1>19. ASSUME NEW p \in Caller, RequestFails(p) PROVE TypeOK'
  <2>1. LifeTypes'
    BY <1>19 DEF RequestFails, TypeOK, LifeTypes
  <2>2. RedisTypes'
    BY <1>19 DEF RequestFails, TypeOK, RedisTypes
  <2>3. LoopTypes'
    BY <1>19 DEF RequestFails, TypeOK, LoopTypes
  <2>4. CallerTypes'
    <3>1. CASE Return(p)
      BY <3>1, ReturnType
    <3>2. ASSUME left[p] > 0, pc' = [pc EXCEPT ![p] = "sleep"], left' = [left EXCEPT ![p] = @ - 1],
                 UNCHANGED hand
          PROVE  CallerTypes'
      BY <3>2 DEF TypeOK, CallerTypes, Label, InRequest
    <3> QED
      BY <1>19, <3>1, <3>2 DEF RequestFails, ShouldRetry
  <2> QED
    BY <2>1, <2>2, <2>3, <2>4 DEF TypeOK
<1>20. ASSUME NEW p \in Caller, TryAgain(p) PROVE TypeOK'
  <2>1. LifeTypes'
    BY <1>20 DEF TryAgain, TypeOK, LifeTypes
  <2>2. RedisTypes'
    BY <1>20 DEF TryAgain, TypeOK, RedisTypes
  <2>3. LoopTypes'
    BY <1>20 DEF TryAgain, TypeOK, LoopTypes
  <2>4. CallerTypes'
    BY <1>20 DEF TryAgain, TypeOK, CallerTypes, RedisTypes, Redis, Label, InRequest
  <2> QED
    BY <2>1, <2>2, <2>3, <2>4 DEF TypeOK
<1>21. CASE BeginCheck
  <2>1. LifeTypes'
    BY <1>21 DEF BeginCheck, TypeOK, LifeTypes
  <2>2. RedisTypes'
    BY <1>21 DEF BeginCheck, TypeOK, RedisTypes
  <2>3. LoopTypes'
    BY <1>21 DEF BeginCheck, TypeOK, RedisTypes, LoopTypes
  <2>4. CallerTypes'
    BY <1>21 DEF BeginCheck, TypeOK, CallerTypes
  <2> QED
    BY <2>1, <2>2, <2>3, <2>4 DEF TypeOK
<1>22. CASE ProbeAnswered
  <2>1. LifeTypes'
    BY <1>22 DEF ProbeAnswered, TypeOK, LifeTypes
  <2>2. RedisTypes'
    BY <1>22 DEF ProbeAnswered, TypeOK, RedisTypes
  <2>3. LoopTypes'
    <3>1. status' \in [connected : BOOLEAN, count : Nat, failures : Nat, consecutive : Nat]
      BY <1>22 DEF ProbeAnswered, TypeOK, LoopTypes
    <3> QED
      BY <1>22, <3>1 DEF ProbeAnswered, TypeOK, LoopTypes, AfterProbe
  <2>4. CallerTypes'
    BY <1>22 DEF ProbeAnswered, TypeOK, CallerTypes
  <2> QED
    BY <2>1, <2>2, <2>3, <2>4 DEF TypeOK
<1>23. CASE ProbeFails
  <2>1. LifeTypes'
    BY <1>23 DEF ProbeFails, TypeOK, LifeTypes
  <2>2. RedisTypes'
    BY <1>23 DEF ProbeFails, TypeOK, RedisTypes
  <2>3. LoopTypes'
    <3>1. PICK st \in [connected : BOOLEAN, count : Nat, failures : Nat, consecutive : Nat] : st = status
      BY DEF TypeOK, LoopTypes
    <3>2. status' = [connected |-> FALSE, count |-> st.count, failures |-> st.failures + 1,
                     consecutive |-> st.consecutive + 1]
      BY <1>23, <3>1 DEF ProbeFails
    <3>3. status' \in [connected : BOOLEAN, count : Nat, failures : Nat, consecutive : Nat]
      BY <3>1, <3>2
    <3> QED
      BY <1>23, <3>3 DEF ProbeFails, TypeOK, LoopTypes, AfterProbe
  <2>4. CallerTypes'
    BY <1>23 DEF ProbeFails, TypeOK, CallerTypes
  <2> QED
    BY <2>1, <2>2, <2>3, <2>4 DEF TypeOK
<1>24. CASE CountTheCheck
  <2>1. LifeTypes'
    BY <1>24 DEF CountTheCheck, TypeOK, LifeTypes
  <2>2. RedisTypes'
    BY <1>24 DEF CountTheCheck, TypeOK, RedisTypes
  <2>3. LoopTypes'
    BY <1>24 DEF CountTheCheck, TypeOK, LoopTypes, CountCheck, CheckCounters
  <2>4. CallerTypes'
    BY <1>24 DEF CountTheCheck, TypeOK, CallerTypes
  <2> QED
    BY <2>1, <2>2, <2>3, <2>4 DEF TypeOK
<1>25. CASE CountTheFailure
  <2>1. LifeTypes'
    BY <1>25 DEF CountTheFailure, TypeOK, LifeTypes
  <2>2. RedisTypes'
    BY <1>25 DEF CountTheFailure, TypeOK, RedisTypes
  <2>3. LoopTypes'
    BY <1>25 DEF CountTheFailure, TypeOK, LoopTypes, CountFailedCheck, CheckCounters
  <2>4. CallerTypes'
    BY <1>25 DEF CountTheFailure, TypeOK, CallerTypes
  <2> QED
    BY <2>1, <2>2, <2>3, <2>4 DEF TypeOK
<1>26. CASE FinishCheck
  <2>1. LifeTypes'
    <3>1. connected' \in BOOLEAN
      BY <1>26, Zenon DEF FinishCheck
    <3> QED
      BY <1>26, <3>1 DEF FinishCheck, TypeOK, LifeTypes
  <2>2. RedisTypes'
    BY <1>26 DEF FinishCheck, TypeOK, RedisTypes
  <2>3. LoopTypes'
    BY <1>26 DEF FinishCheck, TypeOK, LoopTypes
  <2>4. CallerTypes'
    BY <1>26 DEF FinishCheck, TypeOK, CallerTypes
  <2> QED
    BY <2>1, <2>2, <2>3, <2>4 DEF TypeOK
<1>27. CASE ExitHealth
  BY <1>27 DEF ExitHealth, TypeOK, LifeTypes, RedisTypes, LoopTypes, CallerTypes
<1>28. CASE ExitCollector
  BY <1>28 DEF ExitCollector, TypeOK, LifeTypes, RedisTypes, LoopTypes, CallerTypes
<1>29. CASE UNCHANGED vars
  BY <1>29 DEF vars, TypeOK, LifeTypes, RedisTypes, LoopTypes, CallerTypes
<1> QED
  BY <1>1, <1>2, <1>3, <1>4, <1>5, <1>6, <1>7, <1>8, <1>9, <1>10, <1>11, <1>12, <1>13, <1>14, <1>15, <1>16, <1>17, <1>18, <1>19, <1>20, <1>21, <1>22, <1>23, <1>24, <1>25, <1>26, <1>27, <1>28, <1>29 DEF Next, Operate, Start, Stop, Reload, Request, Check

\* The variables keep their types, and a request is repeated at most as often as
\* RetryWithBackoff was told, for any number of goroutines.
THEOREM TypeCorrect == Spec => []TypeOK
<1> QED
  BY TypeInit, TypeStep, PTL DEF Spec

-----------------------------------------------------------------------------
(***************************************************************************)
(* The inductive invariants.                                               *)
(***************************************************************************)

\* startOnce lets one Start run, and it starts goroutines that do not run yet.
OneStart ==
  /\ \A p, q \in Caller : pc[p] \in InStart /\ pc[q] \in InStart => p = q
  /\ started # "running" => \A p \in Caller : pc[p] \notin InStart
  /\ started = "new" => health = "none" /\ collector = "none"
  /\ \A p \in Caller : pc[p] \in {"ping", "up", "health"} => health = "none"
  /\ \A p \in Caller : pc[p] \in InStart => collector = "none"

\* Once a Start is over it has connected or failed.
StartOutcome ==
  /\ \A p \in Caller : pc[p] \in {"health", "metrics"} => cameUp
  /\ started = "done" => cameUp \/ startFailed
  /\ StartedUnlessFailed

\* What a health check has counted so far.
HealthSteps ==
  /\ status.connected => status.consecutive = 0
  /\ status.consecutive <= status.failures /\ status.failures <= status.count
  /\ health = "probe" => status.failures < status.count
  /\ checks.failures <= checks.count
  /\ health = "failure" => checks.failures < checks.count
  /\ "metrics" \in enabled =>
       /\ checks.count = IF health \in {"probe", "count"} THEN status.count - 1 ELSE status.count
       /\ checks.failures = IF health = "failure" \/ (health = "count" /\ ~status.connected)
                              THEN status.failures - 1 ELSE status.failures
  /\ "metrics" \notin enabled => health \notin {"count", "failure"}

\* A Reload takes a number that no client has.
Numbered ==
  /\ current <= reloads /\ \A i \in open : i <= reloads
  /\ \A p \in Caller :
       pc[p] \in InReload => hand[p].redis < hand[p].id /\ hand[p].id <= reloads

Busy == InStart \cup InStop \cup InReload

\* stopOnce lets one Stop run.
StopPhases ==
  /\ \A p, q \in Caller : pc[p] \in InStop /\ pc[q] \in InStop => p = q
  /\ stopped = "new" => \A p \in Caller : pc[p] \notin InStop
  /\ stopped = "done" => \A p \in Caller : pc[p] \notin InStop
  /\ stopped # "new" => shutdown

\* The goroutines do not run, nor will they.
Quiet == ~Running(health) /\ ~Running(collector)

\* Nobody starts the goroutines of a stopped client.
StopSteps ==
  /\ \A p \in Caller : pc[p] \in {"close", "disconnect"} => Quiet
  /\ \A p \in Caller : At(p, "disconnect") => current \notin open
  /\ stopped = "done" =>
       /\ ~connected /\ Quiet
       /\ \A p \in Caller : pc[p] \notin {"up", "health", "metrics", "closeOld"}
       /\ ~Reloading => current \notin open
       /\ \A p \in Caller : pc[p] \in InReload => hand[p].redis \notin open

\* What a Reload holds while nobody interferes.
ReloadSteps ==
  /\ \A p \in Caller :
       /\ At(p, "create") =>
            current = hand[p].redis /\ built[current] = hand[p].config /\ config = hand[p].id
       /\ pc[p] \in {"test", "closeOld"} =>
            /\ current = hand[p].id /\ config = hand[p].id /\ built[hand[p].id] = hand[p].id
            /\ built[hand[p].redis] = hand[p].config
       /\ pc[p] \in {"create", "test"} /\ stopped # "done" => hand[p].redis \in open
  /\ stopped # "done" /\ (\A p \in Caller : ~At(p, "disconnect")) => current \in open
  /\ open \subseteq {current} \cup abandoned \cup InHand
  /\ ~Reloading => built[current] = config

Alone == \A p, q \in Caller : pc[p] \in Busy /\ pc[q] \in Busy => p = q

Uncrossed == ~crossed => Alone /\ StopSteps /\ ReloadSteps

-----------------------------------------------------------------------------
(***************************************************************************)
(* Start runs once.                                                        *)
(***************************************************************************)

\* Goto and Return say where the caller is; nobody else moves.
LEMMA Moves ==
  ASSUME CallerTypes, NEW p \in Caller, NEW label \in Label
  PROVE  /\ Goto(p, label) => pc'[p] = label /\ \A q \in Caller \ {p} : pc'[q] = pc[q]
         /\ Return(p) => pc'[p] = "idle" /\ \A q \in Caller \ {p} : pc'[q] = pc[q]
BY DEF CallerTypes, Goto, Return

LEMMA StartOnceInit == Init => OneStart /\ StartOutcome
BY DEF Init, OneStart, StartOutcome, StartedUnlessFailed, InStart

LEMMA StartOnceStep == TypeOK /\ OneStart /\ StartOutcome /\ [Next]_vars => (OneStart /\ StartOutcome)'
<1> SUFFICES ASSUME TypeOK, OneStart, StartOutcome, [Next]_vars PROVE OneStart' /\ StartOutcome'
  OBVIOUS
<1> USE DEF OneStart, StartOutcome, StartedUnlessFailed, InStart, Goto, Return
<1>0. CallerTypes
  BY DEF TypeOK
<1>1. ASSUME NEW p \in Caller, Call(p) PROVE OneStart' /\ StartOutcome'
  BY <1>1, <1>0 DEF Call, CallerTypes
<1>2. ASSUME NEW p \in Caller, ExecuteWithMetrics(p) PROVE OneStart' /\ StartOutcome'
  BY <1>2, <1>0 DEF ExecuteWithMetrics, CallerTypes
<1>3. ASSUME NEW p \in Caller, BeginReload(p) PROVE OneStart' /\ StartOutcome'
  BY <1>3, <1>0 DEF BeginReload, CallerTypes
<1>4. ASSUME NEW p \in Caller, EnterStart(p) PROVE OneStart' /\ StartOutcome'
  BY <1>4, <1>0 DEF EnterStart, CallerTypes
<1>5. ASSUME NEW p \in Caller, PingFails(p) PROVE OneStart' /\ StartOutcome'
  BY <1>5, <1>0 DEF PingFails, CallerTypes
<1>6. ASSUME NEW p \in Caller, PingAnswered(p) PROVE OneStart' /\ StartOutcome'
  BY <1>6, <1>0 DEF PingAnswered, CallerTypes
<1>7. ASSUME NEW p \in Caller, Connect(p) PROVE OneStart' /\ StartOutcome'
  BY <1>7, <1>0 DEF Connect, CallerTypes
<1>8. ASSUME NEW p \in Caller, StartHealthChecker(p) PROVE OneStart' /\ StartOutcome'
  BY <1>8, <1>0 DEF StartHealthChecker, CallerTypes
<1>9. ASSUME NEW p \in Caller, StartCollector(p) PROVE OneStart' /\ StartOutcome'
  BY <1>9, <1>0 DEF StartCollector, CallerTypes
<1>10. ASSUME NEW p \in Caller, EnterStop(p) PROVE OneStart' /\ StartOutcome'
  BY <1>10, <1>0 DEF EnterStop, CallerTypes
<1>11. ASSUME NEW p \in Caller, Wait(p) PROVE OneStart' /\ StartOutcome'
  BY <1>11, <1>0 DEF Wait, CallerTypes
<1>12. ASSUME NEW p \in Caller, CloseClient(p) PROVE OneStart' /\ StartOutcome'
  BY <1>12, <1>0 DEF CloseClient, CallerTypes
<1>13. ASSUME NEW p \in Caller, Disconnect(p) PROVE OneStart' /\ StartOutcome'
  BY <1>13, <1>0 DEF Disconnect, CallerTypes
<1>14. ASSUME NEW p \in Caller, CreateClient(p) PROVE OneStart' /\ StartOutcome'
  BY <1>14, <1>0 DEF CreateClient, CallerTypes
<1>15. ASSUME NEW p \in Caller, TestAnswered(p) PROVE OneStart' /\ StartOutcome'
  BY <1>15, <1>0 DEF TestAnswered, CallerTypes
<1>16. ASSUME NEW p \in Caller, TestFails(p) PROVE OneStart' /\ StartOutcome'
  BY <1>16, <1>0 DEF TestFails, CallerTypes
<1>17. ASSUME NEW p \in Caller, CloseOld(p) PROVE OneStart' /\ StartOutcome'
  BY <1>17, <1>0 DEF CloseOld, CallerTypes
<1>18. ASSUME NEW p \in Caller, RequestAnswered(p) PROVE OneStart' /\ StartOutcome'
  BY <1>18, <1>0 DEF RequestAnswered, CallerTypes
<1>19. ASSUME NEW p \in Caller, RequestFails(p) PROVE OneStart' /\ StartOutcome'
  BY <1>19, <1>0 DEF RequestFails, CallerTypes
<1>20. ASSUME NEW p \in Caller, TryAgain(p) PROVE OneStart' /\ StartOutcome'
  BY <1>20, <1>0 DEF TryAgain, CallerTypes
<1>21. CASE BeginCheck
  BY <1>21, <1>0 DEF BeginCheck, CallerTypes
<1>22. CASE ProbeAnswered
  BY <1>22, <1>0 DEF ProbeAnswered, CallerTypes
<1>23. CASE ProbeFails
  BY <1>23, <1>0 DEF ProbeFails, CallerTypes
<1>24. CASE CountTheCheck
  BY <1>24, <1>0 DEF CountTheCheck, CallerTypes
<1>25. CASE CountTheFailure
  BY <1>25, <1>0 DEF CountTheFailure, CallerTypes
<1>26. CASE FinishCheck
  BY <1>26, <1>0 DEF FinishCheck, CallerTypes
<1>27. CASE ExitHealth
  BY <1>27, <1>0 DEF ExitHealth, CallerTypes
<1>28. CASE ExitCollector
  BY <1>28, <1>0 DEF ExitCollector, CallerTypes
<1>29. CASE UNCHANGED vars
  BY <1>29, <1>0 DEF vars, CallerTypes
<1> QED
  BY <1>1, <1>2, <1>3, <1>4, <1>5, <1>6, <1>7, <1>8, <1>9, <1>10, <1>11, <1>12, <1>13, <1>14, <1>15, <1>16, <1>17, <1>18, <1>19, <1>20, <1>21, <1>22, <1>23, <1>24, <1>25, <1>26, <1>27, <1>28, <1>29 DEF Next, Operate, Start, Stop, Reload, Request, Check

-----------------------------------------------------------------------------
(***************************************************************************)
(* The counters of the health checks.                                      *)
(***************************************************************************)
LEMMA HealthInit == Init => HealthSteps
BY DEF Init, HealthSteps, NoChecks

\* Only the health checker, and the Start that starts it, change its state.
LEMMA HealthFrame ==
  ASSUME [Next]_vars, ~BeginCheck, ~Check, ~ExitHealth, ~\E p \in Caller : StartHealthChecker(p)
  PROVE  UNCHANGED <<health, status, checks, enabled>>
BY DEF Next, Call, ExecuteWithMetrics, BeginReload, Operate, Start, EnterStart, PingFails, PingAnswered, Connect, StartHealthChecker, StartCollector, Stop, EnterStop, Wait, CloseClient, Disconnect, Reload, CreateClient, TestAnswered, TestFails, CloseOld, Request, RequestAnswered, RequestFails, TryAgain, BeginCheck, Check, ProbeAnswered, ProbeFails, CountTheCheck, CountTheFailure, FinishCheck, ExitHealth, ExitCollector, vars

LEMMA HealthStep == TypeOK /\ OneStart /\ HealthSteps /\ [Next]_vars => HealthSteps'
<1> SUFFICES ASSUME TypeOK, OneStart, HealthSteps, [Next]_vars PROVE HealthSteps'
  OBVIOUS
<1>0. LoopTypes
  BY DEF TypeOK
<1> USE DEF HealthSteps, LoopTypes, CheckCounters
<1>1. ASSUME NEW p \in Caller, StartHealthChecker(p) PROVE HealthSteps'
  BY <1>0, <1>1 DEF StartHealthChecker, OneStart
<1>2. CASE BeginCheck
  BY <1>0, <1>2 DEF BeginCheck
<1>3. CASE ProbeAnswered
  BY <1>0, <1>3 DEF ProbeAnswered, AfterProbe
<1>4. CASE ProbeFails
  BY <1>0, <1>4 DEF ProbeFails, AfterProbe
<1>5. CASE CountTheCheck
  BY <1>0, <1>5 DEF CountTheCheck, CountCheck
<1>6. CASE CountTheFailure
  BY <1>0, <1>6 DEF CountTheFailure, CountFailedCheck
<1>7. CASE FinishCheck
  BY <1>0, <1>7 DEF FinishCheck
<1>8. CASE ExitHealth
  BY <1>0, <1>8 DEF ExitHealth
<1>9. CASE UNCHANGED <<health, status, checks, enabled>>
  BY <1>9
<1> QED
  BY <1>1, <1>2, <1>3, <1>4, <1>5, <1>6, <1>7, <1>8, <1>9, HealthFrame DEF Check

\* What the health checks have counted agrees with the status between two checks,
\* for any number of checks, whatever overlaps them.
THEOREM HealthAgreesAlways == Spec => []HealthAgrees
<1>1. Init => TypeOK /\ OneStart /\ StartOutcome /\ HealthSteps
  BY TypeInit, StartOnceInit, HealthInit
<1>2. TypeOK /\ OneStart /\ StartOutcome /\ HealthSteps /\ [Next]_vars
        => (TypeOK /\ OneStart /\ StartOutcome /\ HealthSteps)'
  BY TypeStep, StartOnceStep, HealthStep
<1>3. TypeOK /\ HealthSteps => HealthAgrees
  BY DEF TypeOK, LoopTypes, HealthSteps, HealthAgrees
<1> QED
  BY <1>1, <1>2, <1>3, PTL DEF Spec

-----------------------------------------------------------------------------
(***************************************************************************)
(* The counters of the commands, and the average of a snapshot.            *)
(***************************************************************************)

\* Products of natural numbers.
LEMMA TimesGrows ==
  ASSUME NEW a \in Nat, NEW b \in Nat, NEW n \in Nat, a <= b
  PROVE  a * n <= b * n
OBVIOUS

LEMMA TimesStrict ==
  ASSUME NEW a \in Int, NEW b \in Int, NEW n \in Nat \ {0}, a * n < b * n
  PROVE  a < b
OBVIOUS

LEMMA OneMore ==
  ASSUME NEW a \in Nat, NEW n \in Nat
  PROVE  a * (n + 1) = a * n + a
OBVIOUS

\* A quotient is bounded by the factors its dividend lies between.
LEMMA QuotientAtLeast ==
  ASSUME NEW a \in Nat, NEW n \in Nat \ {0}, NEW least \in Nat, least * n <= a
  PROVE  least <= a \div n
<1> DEFINE q == a \div n
<1>1. q \in Int /\ a < (q + 1) * n
  OBVIOUS
<1> HIDE DEF q
<1>2. least * n < (q + 1) * n
  BY <1>1
<1>3. least < q + 1
  BY <1>1, <1>2, TimesStrict
<1> QED BY <1>1, <1>3 DEF q

LEMMA QuotientAtMost ==
  ASSUME NEW a \in Nat, NEW n \in Nat \ {0}, NEW most \in Nat, a <= most * n
  PROVE  a \div n <= most
<1> DEFINE q == a \div n
<1>1. q \in Int /\ q * n <= a
  OBVIOUS
<1> HIDE DEF q
<1>2. (most + 1) * n = most * n + n /\ q * n \in Int /\ most * n \in Int
  BY <1>1
<1>3. q * n < (most + 1) * n
  BY <1>1, <1>2
<1>4. q < most + 1
  BY <1>1, <1>3, TimesStrict
<1> QED BY <1>1, <1>4 DEF q

\* What the counters of the commands have recorded: the total lies between the
\* least and the greatest latency times the count.
LatencyInv ==
  /\ commands.errors <= commands.count
  /\ commands.total <= commands.max * commands.count
  /\ ~zeroLatency => commands.min * commands.count <= commands.total
  /\ ~zeroLatency /\ commands.count > 0 => commands.min > 0

\* One latency more is between the new least and the new greatest one.
LEMMA LatencyRecorded ==
  ASSUME NEW c \in CommandCounters, NEW d \in Nat, c.total <= c.max * c.count
  PROVE  LET new == UpdateLatency(c, d) IN
         /\ new \in CommandCounters
         /\ new.count = c.count + 1 /\ new.errors = c.errors
         /\ new.total <= new.max * new.count
         /\ d > 0 /\ c.min * c.count <= c.total /\ (c.count > 0 => c.min > 0) =>
              new.min * new.count <= new.total /\ new.min > 0
<1> DEFINE new == UpdateLatency(c, d)
<1>0. /\ c.total \in Nat /\ c.count \in Nat /\ c.min \in Nat /\ c.max \in Nat
  BY DEF CommandCounters
<1>1. /\ new \in CommandCounters
      /\ new.total = c.total + d /\ new.count = c.count + 1 /\ new.errors = c.errors
      /\ new.min = IF c.min # 0 /\ c.min <= d THEN c.min ELSE d
      /\ new.max = IF c.max >= d THEN c.max ELSE d
  BY UpdateLatencyType DEF UpdateLatency, CommandCounters
<1> HIDE DEF new
<1>2. new.max \in Nat /\ new.min \in Nat
  BY <1>0, <1>1
<1>3. new.total <= new.max * new.count
  <2>1. c.max <= new.max /\ d <= new.max
    BY <1>0, <1>1
  <2>2. c.max * c.count <= new.max * c.count
    BY <1>0, <1>2, <2>1, TimesGrows
  <2>3. new.max * new.count = new.max * c.count + new.max
    BY <1>0, <1>1, <1>2, OneMore
  <2>4. c.max * c.count \in Nat /\ new.max * c.count \in Nat
    BY <1>0, <1>2
  <2> QED BY <1>0, <1>1, <1>2, <2>1, <2>2, <2>3, <2>4
<1>4. ASSUME d > 0, c.min * c.count <= c.total, c.count > 0 => c.min > 0
      PROVE  new.min * new.count <= new.total /\ new.min > 0
  <2>1. new.min > 0 /\ new.min <= d
    BY <1>0, <1>1, <1>4
  <2>2. new.min * c.count <= c.total
    <3>1. CASE c.count = 0
      BY <1>0, <1>2, <3>1
    <3>2. CASE c.count > 0
      <4>1. new.min <= c.min
        BY <1>0, <1>1, <1>4, <3>2
      <4>2. new.min * c.count <= c.min * c.count
        BY <1>0, <1>2, <4>1, TimesGrows
      <4>3. new.min * c.count \in Nat /\ c.min * c.count \in Nat
        BY <1>0, <1>2
      <4> QED BY <1>0, <1>4, <4>2, <4>3
    <3> QED BY <1>0, <3>1, <3>2
  <2>3. new.min * new.count = new.min * c.count + new.min
    BY <1>0, <1>1, <1>2, OneMore
  <2>4. new.min * c.count \in Nat
    BY <1>0, <1>2
  <2> QED BY <1>0, <1>1, <1>2, <2>1, <2>2, <2>3, <2>4
<1> QED BY <1>1, <1>3, <1>4 DEF new

\* Only ExecuteWithMetrics changes the counters of the commands.
LEMMA LatencyFrame ==
  ASSUME [Next]_vars, ~\E p \in Caller : ExecuteWithMetrics(p)
  PROVE  UNCHANGED <<commands, zeroLatency>>
BY DEF Next, Call, BeginReload, Operate, Start, EnterStart, PingFails, PingAnswered, Connect,
       StartHealthChecker, StartCollector, Stop, EnterStop, Wait, CloseClient, Disconnect, Reload,
       CreateClient, TestAnswered, TestFails, CloseOld, Request, RequestAnswered, RequestFails,
       TryAgain, BeginCheck, Check, ProbeAnswered, ProbeFails, CountTheCheck, CountTheFailure,
       FinishCheck, ExitHealth, ExitCollector, vars

LEMMA LatencyStep == TypeOK /\ LatencyInv /\ [Next]_vars => LatencyInv'
<1> SUFFICES ASSUME TypeOK, LatencyInv, [Next]_vars PROVE LatencyInv'
  OBVIOUS
<1>1. ASSUME NEW p \in Caller, ExecuteWithMetrics(p) PROVE LatencyInv'
  <2>1. PICK d \in Latency, failed \in BOOLEAN :
          commands' = RecordCommand(commands, d, failed) /\ zeroLatency' = (zeroLatency \/ d = 0)
    BY <1>1 DEF ExecuteWithMetrics
  <2> DEFINE new == UpdateLatency(commands, d)
  <2>2. commands \in CommandCounters /\ zeroLatency \in BOOLEAN /\ d \in Nat
    BY LatencyAssumption DEF TypeOK, LoopTypes
  <2>3. /\ new \in CommandCounters
        /\ new.count = commands.count + 1 /\ new.errors = commands.errors
        /\ new.total <= new.max * new.count
        /\ ~zeroLatency' => new.min * new.count <= new.total /\ new.min > 0
    <3>1. ~zeroLatency' => ~zeroLatency /\ d > 0
      <4>1. ~zeroLatency' => ~zeroLatency /\ d # 0
        BY <2>1, Zenon
      <4> QED BY <2>2, <4>1
    <3>2. commands.total <= commands.max * commands.count
      BY DEF LatencyInv
    <3>3. ~zeroLatency => /\ commands.min * commands.count <= commands.total
                          /\ commands.count > 0 => commands.min > 0
      BY DEF LatencyInv
    <3> HIDE DEF new
    <3>4. /\ new \in CommandCounters
          /\ new.count = commands.count + 1 /\ new.errors = commands.errors
          /\ new.total <= new.max * new.count
          /\ d > 0 /\ commands.min * commands.count <= commands.total
               /\ (commands.count > 0 => commands.min > 0) =>
               new.min * new.count <= new.total /\ new.min > 0
      BY <2>2, <3>2, LatencyRecorded DEF new
    <3> QED BY <3>1, <3>3, <3>4
  <2>4. /\ commands'.count = new.count /\ commands'.total = new.total
        /\ commands'.min = new.min /\ commands'.max = new.max
        /\ commands'.errors = IF failed THEN new.errors + 1 ELSE new.errors
    <3> HIDE DEF new
    <3>1. commands' = [new EXCEPT !.errors = IF failed THEN @ + 1 ELSE @]
      BY <2>1 DEF RecordCommand, new
    <3> QED BY <2>3, <3>1 DEF CommandCounters
  <2>5. new.errors <= commands.count
    BY <2>3 DEF LatencyInv
  <2> HIDE DEF new
  <2>6. new.errors \in Nat /\ commands.count \in Nat
    BY <2>2, <2>3 DEF CommandCounters
  <2> QED BY <2>2, <2>3, <2>4, <2>5, <2>6 DEF LatencyInv
<1>2. CASE UNCHANGED <<commands, zeroLatency>>
  BY <1>2 DEF LatencyInv
<1> QED
  BY <1>1, <1>2, LatencyFrame

\* A snapshot never shows an average latency outside the least and the greatest one,
\* unless a command took no time, nor more failures than commands, for any latencies.
THEOREM SnapshotIsSound == Spec => []SnapshotSound
<1>1. Init => TypeOK /\ LatencyInv
  BY TypeInit DEF Init, LatencyInv, NoCommands
<1>2. TypeOK /\ LatencyInv /\ [Next]_vars => (TypeOK /\ LatencyInv)'
  BY TypeStep, LatencyStep
<1>3. TypeOK /\ LatencyInv => SnapshotSound
  <2> SUFFICES ASSUME TypeOK, LatencyInv PROVE SnapshotSound
    OBVIOUS
  <2>1. /\ commands.count \in Nat /\ commands.total \in Nat
        /\ commands.min \in Nat /\ commands.max \in Nat /\ commands.errors \in Nat
    BY DEF TypeOK, LoopTypes, CommandCounters
  <2>2. CASE commands.count = 0
    BY <2>1, <2>2 DEF LatencyInv, SnapshotSound, Snapshot
  <2>3. CASE commands.count > 0
    <3>1. commands.total \div commands.count <= commands.max
      BY <2>1, <2>3, QuotientAtMost DEF LatencyInv
    <3>2. ~zeroLatency => commands.min <= commands.total \div commands.count
      BY <2>1, <2>3, QuotientAtLeast DEF LatencyInv
    <3> QED BY <2>1, <2>3, <3>1, <3>2 DEF LatencyInv, SnapshotSound, Snapshot
  <2> QED BY <2>1, <2>2, <2>3
<1> QED
  BY <1>1, <1>2, <1>3, PTL DEF Spec

-----------------------------------------------------------------------------
(***************************************************************************)
(* One Stop, and the numbers of the Reloads.                               *)
(***************************************************************************)
LEMMA StopReloadInit == Init => Numbered /\ StopPhases
BY DEF Init, Numbered, StopPhases, InStop, InReload

LEMMA StopPhasesStep ==
  ASSUME TypeOK, StopPhases, [Next]_vars
  PROVE  StopPhases'
<1> USE DEF StopPhases, InStart, InStop, InReload, InRequest, Goto, Return, CallerTypes
<1>0. CallerTypes /\ RedisTypes
  BY DEF TypeOK
<1>1. ASSUME NEW p \in Caller, Call(p) PROVE StopPhases'
  BY <1>1, <1>0 DEF Call
<1>2. ASSUME NEW p \in Caller, ExecuteWithMetrics(p) PROVE StopPhases'
  BY <1>2, <1>0 DEF ExecuteWithMetrics
<1>3. ASSUME NEW p \in Caller, BeginReload(p) PROVE StopPhases'
  BY <1>3, <1>0 DEF BeginReload
<1>4. ASSUME NEW p \in Caller, EnterStart(p) PROVE StopPhases'
  BY <1>4, <1>0 DEF EnterStart
<1>5. ASSUME NEW p \in Caller, PingFails(p) PROVE StopPhases'
  BY <1>5, <1>0 DEF PingFails
<1>6. ASSUME NEW p \in Caller, PingAnswered(p) PROVE StopPhases'
  BY <1>6, <1>0 DEF PingAnswered
<1>7. ASSUME NEW p \in Caller, Connect(p) PROVE StopPhases'
  BY <1>7, <1>0 DEF Connect
<1>8. ASSUME NEW p \in Caller, StartHealthChecker(p) PROVE StopPhases'
  BY <1>8, <1>0 DEF StartHealthChecker
<1>9. ASSUME NEW p \in Caller, StartCollector(p) PROVE StopPhases'
  BY <1>9, <1>0 DEF StartCollector
<1>10. ASSUME NEW p \in Caller, EnterStop(p) PROVE StopPhases'
  BY <1>10, <1>0 DEF EnterStop
<1>11. ASSUME NEW p \in Caller, Wait(p) PROVE StopPhases'
  BY <1>11, <1>0 DEF Wait
<1>12. ASSUME NEW p \in Caller, CloseClient(p) PROVE StopPhases'
  BY <1>12, <1>0 DEF CloseClient
<1>13. ASSUME NEW p \in Caller, Disconnect(p) PROVE StopPhases'
  BY <1>13, <1>0 DEF Disconnect
<1>14. ASSUME NEW p \in Caller, CreateClient(p) PROVE StopPhases'
  BY <1>14, <1>0 DEF CreateClient
<1>15. ASSUME NEW p \in Caller, TestAnswered(p) PROVE StopPhases'
  BY <1>15, <1>0 DEF TestAnswered
<1>16. ASSUME NEW p \in Caller, TestFails(p) PROVE StopPhases'
  BY <1>16, <1>0 DEF TestFails
<1>17. ASSUME NEW p \in Caller, CloseOld(p) PROVE StopPhases'
  BY <1>17, <1>0 DEF CloseOld
<1>18. ASSUME NEW p \in Caller, RequestAnswered(p) PROVE StopPhases'
  BY <1>18, <1>0 DEF RequestAnswered
<1>19. ASSUME NEW p \in Caller, RequestFails(p) PROVE StopPhases'
  BY <1>19, <1>0 DEF RequestFails
<1>20. ASSUME NEW p \in Caller, TryAgain(p) PROVE StopPhases'
  BY <1>20, <1>0 DEF TryAgain
<1>21. CASE BeginCheck
  BY <1>21, <1>0 DEF BeginCheck
<1>22. CASE ProbeAnswered
  BY <1>22, <1>0 DEF ProbeAnswered
<1>23. CASE ProbeFails
  BY <1>23, <1>0 DEF ProbeFails
<1>24. CASE CountTheCheck
  BY <1>24, <1>0 DEF CountTheCheck
<1>25. CASE CountTheFailure
  BY <1>25, <1>0 DEF CountTheFailure
<1>26. CASE FinishCheck
  BY <1>26, <1>0 DEF FinishCheck
<1>27. CASE ExitHealth
  BY <1>27, <1>0 DEF ExitHealth
<1>28. CASE ExitCollector
  BY <1>28, <1>0 DEF ExitCollector
<1>29. CASE UNCHANGED vars
  BY <1>29, <1>0 DEF vars
<1> QED
  BY <1>1, <1>2, <1>3, <1>4, <1>5, <1>6, <1>7, <1>8, <1>9, <1>10, <1>11, <1>12, <1>13, <1>14, <1>15, <1>16, <1>17, <1>18, <1>19, <1>20, <1>21, <1>22, <1>23, <1>24, <1>25, <1>26, <1>27, <1>28, <1>29 DEF Next, Operate, Start, Stop, Reload, Request, Check

LEMMA NumberedStep ==
  ASSUME TypeOK, Numbered, [Next]_vars
  PROVE  Numbered'
<1> USE DEF Numbered, InStart, InStop, InReload, InRequest, Goto, Return, CallerTypes, RedisTypes, Redis
<1>0. CallerTypes /\ RedisTypes
  BY DEF TypeOK
<1>1. ASSUME NEW p \in Caller, Call(p) PROVE Numbered'
  BY <1>1, <1>0, BoundAssumption DEF Call
<1>2. ASSUME NEW p \in Caller, ExecuteWithMetrics(p) PROVE Numbered'
  BY <1>2, <1>0, BoundAssumption DEF ExecuteWithMetrics
<1>3. ASSUME NEW p \in Caller, BeginReload(p) PROVE Numbered'
  <2>1. ASSUME NEW c \in Config, Valid(c), reloads' = reloads + 1, config' = reloads + 1,
               hand' = [hand EXCEPT ![p] = [redis |-> current, config |-> config, id |-> reloads + 1]],
               pc' = [pc EXCEPT ![p] = "create"]
        PROVE  Numbered'
    <3>1. \A q \in Caller \ {p} : pc'[q] = pc[q] /\ hand'[q] = hand[q]
      BY <1>0, <2>1
    <3>2. hand'[p].redis = current /\ hand'[p].id = reloads + 1
      BY <1>0, <2>1
    <3>3. current \in Nat /\ reloads \in Nat /\ UNCHANGED <<open, current>>
      BY <1>0, <1>3, BoundAssumption DEF BeginReload
    <3>4. \A i \in open : i \in Nat
      BY <1>0, BoundAssumption
    <3>5. \A q \in Caller : pc'[q] \in InReload => hand'[q].redis < hand'[q].id /\ hand'[q].id <= reloads'
      <4>1. hand'[p].redis < hand'[p].id /\ hand'[p].id <= reloads'
        BY <2>1, <3>2, <3>3
      <4>2. ASSUME NEW q \in Caller, q # p, pc'[q] \in InReload
            PROVE  hand'[q].redis < hand'[q].id /\ hand'[q].id <= reloads'
        <5>1. pc[q] \in InReload /\ hand'[q] = hand[q]
          BY <3>1, <4>2
        <5>2. hand[q].redis < hand[q].id /\ hand[q].id <= reloads
          BY <5>1
        <5>3. hand[q].id \in Redis
          BY <1>0
        <5>4. hand[q].id \in Nat
          BY <5>3, BoundAssumption
        <5> QED
          BY <2>1, <3>3, <5>1, <5>2, <5>4
      <4> QED
        BY <4>1, <4>2
    <3> QED
      BY <2>1, <3>3, <3>4, <3>5
  <2>2. ASSUME UNCHANGED <<reloads, hand, config, pc>> PROVE Numbered'
    BY <1>3, <1>0, <2>2 DEF BeginReload
  <2> QED
    BY <1>3, <2>1, <2>2 DEF BeginReload
<1>4. ASSUME NEW p \in Caller, EnterStart(p) PROVE Numbered'
  BY <1>4, <1>0, BoundAssumption DEF EnterStart
<1>5. ASSUME NEW p \in Caller, PingFails(p) PROVE Numbered'
  BY <1>5, <1>0, BoundAssumption DEF PingFails
<1>6. ASSUME NEW p \in Caller, PingAnswered(p) PROVE Numbered'
  BY <1>6, <1>0, BoundAssumption DEF PingAnswered
<1>7. ASSUME NEW p \in Caller, Connect(p) PROVE Numbered'
  BY <1>7, <1>0, BoundAssumption DEF Connect
<1>8. ASSUME NEW p \in Caller, StartHealthChecker(p) PROVE Numbered'
  BY <1>8, <1>0, BoundAssumption DEF StartHealthChecker
<1>9. ASSUME NEW p \in Caller, StartCollector(p) PROVE Numbered'
  BY <1>9, <1>0, BoundAssumption DEF StartCollector
<1>10. ASSUME NEW p \in Caller, EnterStop(p) PROVE Numbered'
  BY <1>10, <1>0, BoundAssumption DEF EnterStop
<1>11. ASSUME NEW p \in Caller, Wait(p) PROVE Numbered'
  BY <1>11, <1>0, BoundAssumption DEF Wait
<1>12. ASSUME NEW p \in Caller, CloseClient(p) PROVE Numbered'
  BY <1>12, <1>0, BoundAssumption DEF CloseClient
<1>13. ASSUME NEW p \in Caller, Disconnect(p) PROVE Numbered'
  BY <1>13, <1>0, BoundAssumption DEF Disconnect
<1>14. ASSUME NEW p \in Caller, CreateClient(p) PROVE Numbered'
  BY <1>14, <1>0, BoundAssumption DEF CreateClient
<1>15. ASSUME NEW p \in Caller, TestAnswered(p) PROVE Numbered'
  BY <1>15, <1>0, BoundAssumption DEF TestAnswered
<1>16. ASSUME NEW p \in Caller, TestFails(p) PROVE Numbered'
  <2>1. hand[p].redis < hand[p].id /\ hand[p].id <= reloads
    BY <1>16, <1>0 DEF TestFails
  <2>2. hand[p].redis <= reloads
    BY <1>0, <2>1, BoundAssumption
  <2>3. pc'[p] = "idle" /\ \A q \in Caller \ {p} : pc'[q] = pc[q] /\ hand'[q] = hand[q]
    BY <1>16, <1>0 DEF TestFails
  <2> QED
    BY <1>16, <1>0, <2>2, <2>3 DEF TestFails
<1>17. ASSUME NEW p \in Caller, CloseOld(p) PROVE Numbered'
  BY <1>17, <1>0, BoundAssumption DEF CloseOld
<1>18. ASSUME NEW p \in Caller, RequestAnswered(p) PROVE Numbered'
  BY <1>18, <1>0, BoundAssumption DEF RequestAnswered
<1>19. ASSUME NEW p \in Caller, RequestFails(p) PROVE Numbered'
  BY <1>19, <1>0, BoundAssumption DEF RequestFails
<1>20. ASSUME NEW p \in Caller, TryAgain(p) PROVE Numbered'
  BY <1>20, <1>0, BoundAssumption DEF TryAgain
<1>21. CASE BeginCheck
  BY <1>21, <1>0, BoundAssumption DEF BeginCheck
<1>22. CASE ProbeAnswered
  BY <1>22, <1>0, BoundAssumption DEF ProbeAnswered
<1>23. CASE ProbeFails
  BY <1>23, <1>0, BoundAssumption DEF ProbeFails
<1>24. CASE CountTheCheck
  BY <1>24, <1>0, BoundAssumption DEF CountTheCheck
<1>25. CASE CountTheFailure
  BY <1>25, <1>0, BoundAssumption DEF CountTheFailure
<1>26. CASE FinishCheck
  BY <1>26, <1>0, BoundAssumption DEF FinishCheck
<1>27. CASE ExitHealth
  BY <1>27, <1>0, BoundAssumption DEF ExitHealth
<1>28. CASE ExitCollector
  BY <1>28, <1>0, BoundAssumption DEF ExitCollector
<1>29. CASE UNCHANGED vars
  BY <1>29, <1>0, BoundAssumption DEF vars
<1> QED
  BY <1>1, <1>2, <1>3, <1>4, <1>5, <1>6, <1>7, <1>8, <1>9, <1>10, <1>11, <1>12, <1>13, <1>14, <1>15, <1>16, <1>17, <1>18, <1>19, <1>20, <1>21, <1>22, <1>23, <1>24, <1>25, <1>26, <1>27, <1>28, <1>29 DEF Next, Operate, Start, Stop, Reload, Request, Check

-----------------------------------------------------------------------------
(***************************************************************************)
(* Start, Stop and Reload one after the other.                             *)
(***************************************************************************)

LEMMA AloneStep ==
  ASSUME TypeOK, Alone, ~crossed', [Next]_vars
  PROVE  Alone'
<1> USE DEF Alone, Busy, InStart, InStop, InReload, InRequest, Goto, Return, CallerTypes
<1>0. CallerTypes /\ RedisTypes
  BY DEF TypeOK
<1>1. ASSUME NEW p \in Caller, Call(p) PROVE Alone'
  BY <1>1, <1>0 DEF Call
<1>2. ASSUME NEW p \in Caller, ExecuteWithMetrics(p) PROVE Alone'
  BY <1>2, <1>0 DEF ExecuteWithMetrics
<1>3. ASSUME NEW p \in Caller, BeginReload(p) PROVE Alone'
  <2>1. ASSUME NEW c \in Config, Valid(c), reloads' = reloads + 1, config' = reloads + 1,
               crossed' = (crossed \/ Crosses(p)),
               hand' = [hand EXCEPT ![p] = [redis |-> current, config |-> config, id |-> reloads + 1]],
               pc' = [pc EXCEPT ![p] = "create"]
        PROVE  Alone'
    <3>1. ~Crosses(p)
      BY <2>1, Zenon
    <3>2. \A q \in Caller \ {p} : pc[q] \notin Busy /\ pc'[q] = pc[q]
      BY <1>0, <2>1, <3>1 DEF Crosses
    <3> QED
      BY <3>2
  <2>2. ASSUME UNCHANGED <<reloads, hand, config, pc>> PROVE Alone'
    BY <2>2
  <2> QED
    BY <1>3, <2>1, <2>2 DEF BeginReload
<1>4. ASSUME NEW p \in Caller, EnterStart(p) PROVE Alone'
  <2>1. CASE started = "new" /\ Goto(p, "ping") /\ crossed' = (crossed \/ Crosses(p))
    <3>1. ~Crosses(p)
      BY <2>1, Zenon
    <3>2. \A q \in Caller \ {p} : pc[q] \notin Busy /\ pc'[q] = pc[q]
      BY <1>0, <2>1, <3>1 DEF Crosses
    <3> QED
      BY <3>2
  <2>2. CASE Return(p)
    BY <1>0, <2>2
  <2> QED
    BY <1>4, <2>1, <2>2 DEF EnterStart
<1>5. ASSUME NEW p \in Caller, PingFails(p) PROVE Alone'
  BY <1>5, <1>0 DEF PingFails
<1>6. ASSUME NEW p \in Caller, PingAnswered(p) PROVE Alone'
  BY <1>6, <1>0 DEF PingAnswered
<1>7. ASSUME NEW p \in Caller, Connect(p) PROVE Alone'
  BY <1>7, <1>0 DEF Connect
<1>8. ASSUME NEW p \in Caller, StartHealthChecker(p) PROVE Alone'
  BY <1>8, <1>0 DEF StartHealthChecker
<1>9. ASSUME NEW p \in Caller, StartCollector(p) PROVE Alone'
  BY <1>9, <1>0 DEF StartCollector
<1>10. ASSUME NEW p \in Caller, EnterStop(p) PROVE Alone'
  <2>1. CASE stopped = "new" /\ Goto(p, "wait") /\ crossed' = (crossed \/ Crosses(p))
    <3>1. ~Crosses(p)
      BY <2>1, Zenon
    <3>2. \A q \in Caller \ {p} : pc[q] \notin Busy /\ pc'[q] = pc[q]
      BY <1>0, <2>1, <3>1 DEF Crosses
    <3> QED
      BY <3>2
  <2>2. CASE Return(p)
    BY <1>0, <2>2
  <2> QED
    BY <1>10, <2>1, <2>2 DEF EnterStop
<1>11. ASSUME NEW p \in Caller, Wait(p) PROVE Alone'
  BY <1>11, <1>0 DEF Wait
<1>12. ASSUME NEW p \in Caller, CloseClient(p) PROVE Alone'
  BY <1>12, <1>0 DEF CloseClient
<1>13. ASSUME NEW p \in Caller, Disconnect(p) PROVE Alone'
  BY <1>13, <1>0 DEF Disconnect
<1>14. ASSUME NEW p \in Caller, CreateClient(p) PROVE Alone'
  BY <1>14, <1>0 DEF CreateClient
<1>15. ASSUME NEW p \in Caller, TestAnswered(p) PROVE Alone'
  BY <1>15, <1>0 DEF TestAnswered
<1>16. ASSUME NEW p \in Caller, TestFails(p) PROVE Alone'
  BY <1>16, <1>0 DEF TestFails
<1>17. ASSUME NEW p \in Caller, CloseOld(p) PROVE Alone'
  BY <1>17, <1>0 DEF CloseOld
<1>18. ASSUME NEW p \in Caller, RequestAnswered(p) PROVE Alone'
  BY <1>18, <1>0 DEF RequestAnswered
<1>19. ASSUME NEW p \in Caller, RequestFails(p) PROVE Alone'
  BY <1>19, <1>0 DEF RequestFails
<1>20. ASSUME NEW p \in Caller, TryAgain(p) PROVE Alone'
  BY <1>20, <1>0 DEF TryAgain
<1>21. CASE BeginCheck
  BY <1>21, <1>0 DEF BeginCheck
<1>22. CASE ProbeAnswered
  BY <1>22, <1>0 DEF ProbeAnswered
<1>23. CASE ProbeFails
  BY <1>23, <1>0 DEF ProbeFails
<1>24. CASE CountTheCheck
  BY <1>24, <1>0 DEF CountTheCheck
<1>25. CASE CountTheFailure
  BY <1>25, <1>0 DEF CountTheFailure
<1>26. CASE FinishCheck
  BY <1>26, <1>0 DEF FinishCheck
<1>27. CASE ExitHealth
  BY <1>27, <1>0 DEF ExitHealth
<1>28. CASE ExitCollector
  BY <1>28, <1>0 DEF ExitCollector
<1>29. CASE UNCHANGED vars
  BY <1>29, <1>0 DEF vars
<1> QED
  BY <1>1, <1>2, <1>3, <1>4, <1>5, <1>6, <1>7, <1>8, <1>9, <1>10, <1>11, <1>12, <1>13, <1>14, <1>15, <1>16, <1>17, <1>18, <1>19, <1>20, <1>21, <1>22, <1>23, <1>24, <1>25, <1>26, <1>27, <1>28, <1>29 DEF Next, Operate, Start, Stop, Reload, Request, Check

LEMMA StopStepsStep ==
  ASSUME TypeOK, OneStart, Numbered, StopPhases, Alone, Alone', StopSteps, ReloadSteps, ~crossed', [Next]_vars
  PROVE  StopSteps'
<1> USE DEF StopSteps, Alone, Busy, Reloading, Quiet, Running, InStart, InStop, InReload, InRequest, Goto, Return, CallerTypes, RedisTypes, Redis, StopPhases, OneStart, Numbered
<1>0. CallerTypes /\ RedisTypes
  BY DEF TypeOK
<1>1. ASSUME NEW p \in Caller, Call(p) PROVE StopSteps'
  BY <1>1, <1>0 DEF Call
<1>2. ASSUME NEW p \in Caller, ExecuteWithMetrics(p) PROVE StopSteps'
  BY <1>2, <1>0 DEF ExecuteWithMetrics
<1>3. ASSUME NEW p \in Caller, BeginReload(p) PROVE StopSteps'
  <2>1. ASSUME NEW c \in Config, Valid(c), reloads' = reloads + 1, config' = reloads + 1,
               hand' = [hand EXCEPT ![p] = [redis |-> current, config |-> config, id |-> reloads + 1]],
               pc' = [pc EXCEPT ![p] = "create"]
        PROVE  StopSteps'
    <3>1. \A q \in Caller \ {p} : pc[q] \notin Busy /\ pc'[q] = pc[q] /\ hand'[q] = hand[q]
      BY <1>0, <2>1
    <3>2. pc[p] = "idle" /\ ~Reloading
      BY <1>3, <3>1 DEF BeginReload
    <3>3. hand'[p].redis = current /\ pc'[p] = "create"
      BY <1>0, <2>1
    <3>4. stopped = "done" => current \notin open
      BY <3>2
    <3> QED
      BY <1>3, <1>0, <3>1, <3>2, <3>3, <3>4 DEF BeginReload
  <2>2. ASSUME UNCHANGED <<reloads, hand, config, pc>> PROVE StopSteps'
    BY <1>3, <1>0, <2>2 DEF BeginReload
  <2> QED
    BY <1>3, <2>1, <2>2 DEF BeginReload
<1>4. ASSUME NEW p \in Caller, EnterStart(p) PROVE StopSteps'
  BY <1>4, <1>0 DEF EnterStart
<1>5. ASSUME NEW p \in Caller, PingFails(p) PROVE StopSteps'
  BY <1>5, <1>0 DEF PingFails
<1>6. ASSUME NEW p \in Caller, PingAnswered(p) PROVE StopSteps'
  BY <1>6, <1>0 DEF PingAnswered
<1>7. ASSUME NEW p \in Caller, Connect(p) PROVE StopSteps'
  BY <1>7, <1>0 DEF Connect
<1>8. ASSUME NEW p \in Caller, StartHealthChecker(p) PROVE StopSteps'
  BY <1>8, <1>0 DEF StartHealthChecker
<1>9. ASSUME NEW p \in Caller, StartCollector(p) PROVE StopSteps'
  BY <1>9, <1>0 DEF StartCollector
<1>10. ASSUME NEW p \in Caller, EnterStop(p) PROVE StopSteps'
  BY <1>10, <1>0 DEF EnterStop
<1>11. ASSUME NEW p \in Caller, Wait(p) PROVE StopSteps'
  BY <1>11, <1>0 DEF Wait
<1>12. ASSUME NEW p \in Caller, CloseClient(p) PROVE StopSteps'
  BY <1>12, <1>0 DEF CloseClient
<1>13. ASSUME NEW p \in Caller, Disconnect(p) PROVE StopSteps'
  BY <1>13, <1>0 DEF Disconnect
<1>14. ASSUME NEW p \in Caller, CreateClient(p) PROVE StopSteps'
  BY <1>14, <1>0 DEF CreateClient, ReloadSteps
<1>15. ASSUME NEW p \in Caller, TestAnswered(p) PROVE StopSteps'
  BY <1>15, <1>0 DEF TestAnswered
<1>16. ASSUME NEW p \in Caller, TestFails(p) PROVE StopSteps'
  BY <1>16, <1>0 DEF TestFails, ReloadSteps
<1>17. ASSUME NEW p \in Caller, CloseOld(p) PROVE StopSteps'
  BY <1>17, <1>0 DEF CloseOld
<1>18. ASSUME NEW p \in Caller, RequestAnswered(p) PROVE StopSteps'
  BY <1>18, <1>0 DEF RequestAnswered
<1>19. ASSUME NEW p \in Caller, RequestFails(p) PROVE StopSteps'
  BY <1>19, <1>0 DEF RequestFails
<1>20. ASSUME NEW p \in Caller, TryAgain(p) PROVE StopSteps'
  BY <1>20, <1>0 DEF TryAgain
<1>21. CASE BeginCheck
  BY <1>21, <1>0 DEF BeginCheck
<1>22. CASE ProbeAnswered
  BY <1>22, <1>0 DEF ProbeAnswered, AfterProbe
<1>23. CASE ProbeFails
  BY <1>23, <1>0 DEF ProbeFails, AfterProbe
<1>24. CASE CountTheCheck
  BY <1>24, <1>0 DEF CountTheCheck
<1>25. CASE CountTheFailure
  BY <1>25, <1>0 DEF CountTheFailure
<1>26. CASE FinishCheck
  BY <1>26, <1>0 DEF FinishCheck
<1>27. CASE ExitHealth
  BY <1>27, <1>0 DEF ExitHealth
<1>28. CASE ExitCollector
  BY <1>28, <1>0 DEF ExitCollector
<1>29. CASE UNCHANGED vars
  BY <1>29, <1>0 DEF vars
<1> QED
  BY <1>1, <1>2, <1>3, <1>4, <1>5, <1>6, <1>7, <1>8, <1>9, <1>10, <1>11, <1>12, <1>13, <1>14, <1>15, <1>16, <1>17, <1>18, <1>19, <1>20, <1>21, <1>22, <1>23, <1>24, <1>25, <1>26, <1>27, <1>28, <1>29 DEF Next, Operate, Start, Stop, Reload, Request, Check

\* Whoever is not reloading, nor about to disconnect, may do anything else.
LEMMA ReloadFrame ==
  ASSUME ReloadSteps, UNCHANGED redisVars, stopped' = "done" <=> stopped = "done",
         \A q \in Caller :
           \/ pc'[q] = pc[q] /\ hand'[q] = hand[q]
           \/ {pc[q], pc'[q]} \cap (InReload \cup {"disconnect"}) = {}
  PROVE  ReloadSteps'
<1>1. \A q \in Caller : pc'[q] \in InReload <=> pc[q] \in InReload
  BY DEF InReload
<1>2. InHand' = InHand
  BY DEF InHand, InReload
<1>3. (\A q \in Caller : ~At(q, "disconnect")) <=> \A q \in Caller : pc'[q] # "disconnect"
  BY DEF InReload
<1> QED
  BY <1>1, <1>2, <1>3 DEF ReloadSteps, Reloading, InReload

LEMMA ReloadStepsStep ==
  ASSUME TypeOK, Numbered, StopPhases, Alone, Alone', StopSteps, ReloadSteps, ~crossed', [Next]_vars
  PROVE  ReloadSteps'
<1> USE DEF At
<1>0. CallerTypes /\ RedisTypes
  BY DEF TypeOK
<1>1. ASSUME NEW p \in Caller, Call(p) PROVE ReloadSteps'
  <2>1. \A q \in Caller :
          \/ pc'[q] = pc[q] /\ hand'[q] = hand[q]
          \/ {pc[q], pc'[q]} \cap (InReload \cup {"disconnect"}) = {}
    BY <1>1, <1>0 DEF Call, CallerTypes, Goto, Return, InReload, InStart, InStop
  <2>2. UNCHANGED redisVars /\ (stopped' = "done" <=> stopped = "done")
    BY <1>1 DEF Call
  <2> QED
    BY <2>1, <2>2, ReloadFrame
<1>2. ASSUME NEW p \in Caller, ExecuteWithMetrics(p) PROVE ReloadSteps'
  <2>1. \A q \in Caller :
          \/ pc'[q] = pc[q] /\ hand'[q] = hand[q]
          \/ {pc[q], pc'[q]} \cap (InReload \cup {"disconnect"}) = {}
    BY <1>2, <1>0 DEF ExecuteWithMetrics, CallerTypes, Goto, Return, InReload, InStart, InStop
  <2>2. UNCHANGED redisVars /\ (stopped' = "done" <=> stopped = "done")
    BY <1>2 DEF ExecuteWithMetrics
  <2> QED
    BY <2>1, <2>2, ReloadFrame
<1>3. ASSUME NEW p \in Caller, BeginReload(p) PROVE ReloadSteps'
  <2>1. ASSUME NEW c \in Config, Valid(c), reloads' = reloads + 1, config' = reloads + 1,
               hand' = [hand EXCEPT ![p] = [redis |-> current, config |-> config, id |-> reloads + 1]],
               pc' = [pc EXCEPT ![p] = "create"]
        PROVE  ReloadSteps'
    <3>1. \A q \in Caller \ {p} : pc[q] \notin Busy /\ pc'[q] = pc[q] /\ hand'[q] = hand[q]
      BY <1>0, <2>1 DEF Alone, Busy, InReload, CallerTypes
    <3>2. pc[p] = "idle" /\ ~Reloading
      BY <1>3, <3>1 DEF BeginReload, Busy, Reloading, InReload
    <3>3. /\ pc'[p] = "create" /\ UNCHANGED <<current, open, built, abandoned, stopped>>
          /\ hand'[p] = [redis |-> current, config |-> config, id |-> reloads + 1]
      BY <1>3, <1>0, <2>1 DEF BeginReload, CallerTypes
    <3>4. built[current] = config /\ open \subseteq {current} \cup abandoned
      BY <3>1, <3>2 DEF ReloadSteps, InHand, Busy, InReload
    <3>5. stopped # "done" => current \in open
      BY <3>1, <3>2 DEF ReloadSteps, Busy, InStop
    <3> QED
      BY <2>1, <3>1, <3>2, <3>3, <3>4, <3>5 DEF ReloadSteps, Busy, InReload, Reloading
  <2>2. ASSUME UNCHANGED <<reloads, hand, config, pc>> PROVE ReloadSteps'
    BY <1>3, <2>2, ReloadFrame DEF BeginReload
  <2> QED
    BY <1>3, <2>1, <2>2 DEF BeginReload
<1>4. ASSUME NEW p \in Caller, EnterStart(p) PROVE ReloadSteps'
  <2>1. \A q \in Caller :
          \/ pc'[q] = pc[q] /\ hand'[q] = hand[q]
          \/ {pc[q], pc'[q]} \cap (InReload \cup {"disconnect"}) = {}
    BY <1>4, <1>0 DEF EnterStart, CallerTypes, Goto, Return, InReload, InStart, InStop
  <2>2. UNCHANGED redisVars /\ (stopped' = "done" <=> stopped = "done")
    BY <1>4 DEF EnterStart
  <2> QED
    BY <2>1, <2>2, ReloadFrame
<1>5. ASSUME NEW p \in Caller, PingFails(p) PROVE ReloadSteps'
  <2>1. \A q \in Caller :
          \/ pc'[q] = pc[q] /\ hand'[q] = hand[q]
          \/ {pc[q], pc'[q]} \cap (InReload \cup {"disconnect"}) = {}
    BY <1>5, <1>0 DEF PingFails, CallerTypes, Goto, Return, InReload, InStart, InStop
  <2>2. UNCHANGED redisVars /\ (stopped' = "done" <=> stopped = "done")
    BY <1>5 DEF PingFails
  <2> QED
    BY <2>1, <2>2, ReloadFrame
<1>6. ASSUME NEW p \in Caller, PingAnswered(p) PROVE ReloadSteps'
  <2>1. \A q \in Caller :
          \/ pc'[q] = pc[q] /\ hand'[q] = hand[q]
          \/ {pc[q], pc'[q]} \cap (InReload \cup {"disconnect"}) = {}
    BY <1>6, <1>0 DEF PingAnswered, CallerTypes, Goto, Return, InReload, InStart, InStop
  <2>2. UNCHANGED redisVars /\ (stopped' = "done" <=> stopped = "done")
    BY <1>6 DEF PingAnswered
  <2> QED
    BY <2>1, <2>2, ReloadFrame
<1>7. ASSUME NEW p \in Caller, Connect(p) PROVE ReloadSteps'
  <2>1. \A q \in Caller :
          \/ pc'[q] = pc[q] /\ hand'[q] = hand[q]
          \/ {pc[q], pc'[q]} \cap (InReload \cup {"disconnect"}) = {}
    BY <1>7, <1>0 DEF Connect, CallerTypes, Goto, Return, InReload, InStart, InStop
  <2>2. UNCHANGED redisVars /\ (stopped' = "done" <=> stopped = "done")
    BY <1>7 DEF Connect
  <2> QED
    BY <2>1, <2>2, ReloadFrame
<1>8. ASSUME NEW p \in Caller, StartHealthChecker(p) PROVE ReloadSteps'
  <2>1. \A q \in Caller :
          \/ pc'[q] = pc[q] /\ hand'[q] = hand[q]
          \/ {pc[q], pc'[q]} \cap (InReload \cup {"disconnect"}) = {}
    BY <1>8, <1>0 DEF StartHealthChecker, CallerTypes, Goto, Return, InReload, InStart, InStop
  <2>2. UNCHANGED redisVars /\ (stopped' = "done" <=> stopped = "done")
    BY <1>8 DEF StartHealthChecker
  <2> QED
    BY <2>1, <2>2, ReloadFrame
<1>9. ASSUME NEW p \in Caller, StartCollector(p) PROVE ReloadSteps'
  <2>1. \A q \in Caller :
          \/ pc'[q] = pc[q] /\ hand'[q] = hand[q]
          \/ {pc[q], pc'[q]} \cap (InReload \cup {"disconnect"}) = {}
    BY <1>9, <1>0 DEF StartCollector, CallerTypes, Goto, Return, InReload, InStart, InStop
  <2>2. UNCHANGED redisVars /\ (stopped' = "done" <=> stopped = "done")
    BY <1>9 DEF StartCollector
  <2> QED
    BY <2>1, <2>2, ReloadFrame
<1>10. ASSUME NEW p \in Caller, EnterStop(p) PROVE ReloadSteps'
  <2>1. \A q \in Caller :
          \/ pc'[q] = pc[q] /\ hand'[q] = hand[q]
          \/ {pc[q], pc'[q]} \cap (InReload \cup {"disconnect"}) = {}
    BY <1>10, <1>0 DEF EnterStop, CallerTypes, Goto, Return, InReload, InStart, InStop
  <2>2. UNCHANGED redisVars /\ (stopped' = "done" <=> stopped = "done")
    BY <1>10 DEF EnterStop
  <2> QED
    BY <2>1, <2>2, ReloadFrame
<1>11. ASSUME NEW p \in Caller, Wait(p) PROVE ReloadSteps'
  <2>1. \A q \in Caller :
          \/ pc'[q] = pc[q] /\ hand'[q] = hand[q]
          \/ {pc[q], pc'[q]} \cap (InReload \cup {"disconnect"}) = {}
    BY <1>11, <1>0 DEF Wait, CallerTypes, Goto, Return, InReload, InStart, InStop
  <2>2. UNCHANGED redisVars /\ (stopped' = "done" <=> stopped = "done")
    BY <1>11 DEF Wait
  <2> QED
    BY <2>1, <2>2, ReloadFrame
<1>12. ASSUME NEW p \in Caller, CloseClient(p) PROVE ReloadSteps'
  <2>1. \A q \in Caller \ {p} : pc[q] \notin Busy /\ pc'[q] = pc[q] /\ hand'[q] = hand[q]
    BY <1>12, <1>0 DEF CloseClient, Alone, Busy, InStop, InReload, Goto, Return, CallerTypes
  <2>2. pc[p] = "close" /\ pc'[p] = "disconnect"
    BY <1>12, <1>0 DEF CloseClient, Goto, CallerTypes
  <2>3. UNCHANGED <<current, config, built, abandoned, stopped>> /\ open' = open \ {current}
    BY <1>12 DEF CloseClient
  <2>4. \A q \in Caller : pc[q] \notin InReload /\ pc'[q] \notin InReload
    BY <2>1, <2>2 DEF Busy, InReload
  <2>5. InHand = {} /\ ~Reloading
    BY <2>4 DEF InHand, Reloading, InReload
  <2>6. open' \subseteq {current'} \cup abandoned' \cup InHand'
    BY <2>3, <2>5 DEF ReloadSteps
  <2> QED
    BY <2>2, <2>3, <2>4, <2>5, <2>6 DEF ReloadSteps, InReload
<1>13. ASSUME NEW p \in Caller, Disconnect(p) PROVE ReloadSteps'
  <2>1. \A q \in Caller \ {p} : pc[q] \notin Busy /\ pc'[q] = pc[q] /\ hand'[q] = hand[q]
    BY <1>13, <1>0 DEF Disconnect, Alone, Busy, InStop, InReload, Goto, Return, CallerTypes
  <2>2. pc[p] = "disconnect" /\ pc'[p] = "idle" /\ stopped' = "done"
    BY <1>13, <1>0 DEF Disconnect, Return, CallerTypes
  <2>3. UNCHANGED redisVars
    BY <1>13 DEF Disconnect
  <2>4. \A q \in Caller : pc[q] \notin InReload /\ pc'[q] \notin InReload
    BY <2>1, <2>2 DEF Busy, InReload
  <2>5. InHand = {} /\ ~Reloading
    BY <2>4 DEF InHand, Reloading, InReload
  <2>6. open' \subseteq {current'} \cup abandoned' \cup InHand'
    BY <2>3, <2>5 DEF ReloadSteps
  <2> QED
    BY <2>2, <2>3, <2>4, <2>5, <2>6 DEF ReloadSteps, InReload
<1>14. ASSUME NEW p \in Caller, CreateClient(p) PROVE ReloadSteps'
  <2>1. \A q \in Caller \ {p} : pc[q] \notin Busy /\ pc'[q] = pc[q] /\ hand'[q] = hand[q]
    BY <1>14, <1>0 DEF CreateClient, Alone, Busy, InStop, InReload, Goto, Return, CallerTypes
  <2>2. pc[p] = "create" /\ pc'[p] = "test" /\ hand'[p] = hand[p]
    BY <1>14, <1>0 DEF CreateClient, Goto, CallerTypes
  <2> DEFINE old == hand[p].redis
             new == hand[p].id
  <2>4. new \in Redis /\ old \in Redis
    BY <1>0 DEF CallerTypes
  <2>11. old < new
    BY <2>2 DEF Numbered, InReload
  <2>3. current = old /\ built[old] = hand[p].config /\ config = new /\ old # new
    BY <2>2, <2>4, <2>11, BoundAssumption DEF ReloadSteps, Redis
  <2>5. current' = new /\ open' = open \cup {new} /\ UNCHANGED <<config, abandoned, stopped>>
        /\ built' = [built EXCEPT ![new] = new]
    BY <1>14, <2>3 DEF CreateClient
  <2>6. built'[new] = new /\ built'[old] = built[old]
    BY <1>0, <2>3, <2>4, <2>5 DEF RedisTypes
  <2>7. old \in InHand' /\ InHand = {}
    BY <2>1, <2>2 DEF InHand, Busy, InReload
  <2>8. open' \subseteq {current'} \cup abandoned' \cup InHand'
    BY <2>3, <2>5, <2>7 DEF ReloadSteps
  <2>9. Reloading'
    BY <2>2 DEF Reloading, InReload
  <2>10. stopped # "done" => old \in open
    BY <2>2 DEF ReloadSteps
  <2>12. \A q \in Caller \ {p} : pc'[q] \notin {"create", "test", "closeOld"}
    BY <2>1 DEF Busy, InReload
  <2>13. hand'[p].redis = old /\ hand'[p].id = new /\ hand'[p].config = hand[p].config
    BY <2>2
  <2> HIDE DEF old, new
  <2>14. /\ current' = hand'[p].id /\ config' = hand'[p].id /\ built'[hand'[p].id] = hand'[p].id
         /\ built'[hand'[p].redis] = hand'[p].config
    BY <2>3, <2>5, <2>6, <2>13
  <2>15. stopped' # "done" => hand'[p].redis \in open'
    BY <2>5, <2>10, <2>13
  <2>16. current' \in open'
    BY <2>5
  <2> QED
    BY <2>2, <2>8, <2>9, <2>12, <2>14, <2>15, <2>16 DEF ReloadSteps
<1>15. ASSUME NEW p \in Caller, TestAnswered(p) PROVE ReloadSteps'
  <2>1. \A q \in Caller \ {p} : pc[q] \notin Busy /\ pc'[q] = pc[q] /\ hand'[q] = hand[q]
    BY <1>15, <1>0 DEF TestAnswered, Alone, Busy, InStop, InReload, Goto, Return, CallerTypes
  <2>2. pc[p] = "test" /\ pc'[p] = "closeOld" /\ hand'[p] = hand[p]
    BY <1>15, <1>0 DEF TestAnswered, Goto, CallerTypes
  <2>3. UNCHANGED redisVars /\ UNCHANGED stopped /\ current \in open
    BY <1>15 DEF TestAnswered
  <2>4. InHand' = InHand
    BY <2>1, <2>2 DEF InHand
  <2>5. \A q \in Caller \ {p} : pc'[q] \notin {"create", "test", "closeOld"}
    BY <2>1 DEF Busy, InReload
  <2>6. Reloading'
    BY <2>2 DEF Reloading, InReload
  <2> QED
    BY <2>2, <2>3, <2>4, <2>5, <2>6 DEF ReloadSteps
<1>16. ASSUME NEW p \in Caller, TestFails(p) PROVE ReloadSteps'
  <2>1. \A q \in Caller \ {p} : pc[q] \notin Busy /\ pc'[q] = pc[q] /\ hand'[q] = hand[q]
    BY <1>16, <1>0 DEF TestFails, Alone, Busy, InStop, InReload, Goto, Return, CallerTypes
  <2>2. pc[p] = "test" /\ pc'[p] = "idle"
    BY <1>16, <1>0 DEF TestFails, Return, CallerTypes
  <2>3. /\ current = hand[p].id /\ built[hand[p].redis] = hand[p].config
        /\ stopped # "done" => hand[p].redis \in open
    BY <2>2 DEF ReloadSteps
  <2>4. /\ current' = hand[p].redis /\ config' = hand[p].config /\ UNCHANGED <<open, built, stopped>>
        /\ abandoned' = abandoned \cup {hand[p].id}
    BY <1>16 DEF TestFails
  <2>5. InHand = {hand[p].redis}
    BY <2>1, <2>2 DEF InHand, Busy, InReload
  <2>6. open' \subseteq {current'} \cup abandoned' \cup InHand'
    BY <2>3, <2>4, <2>5 DEF ReloadSteps
  <2> QED
    BY <2>1, <2>2, <2>3, <2>4, <2>6 DEF ReloadSteps, Busy, InReload, InStop
<1>17. ASSUME NEW p \in Caller, CloseOld(p) PROVE ReloadSteps'
  <2>1. \A q \in Caller \ {p} : pc[q] \notin Busy /\ pc'[q] = pc[q] /\ hand'[q] = hand[q]
    BY <1>17, <1>0 DEF CloseOld, Alone, Busy, InStop, InReload, Goto, Return, CallerTypes
  <2>2. pc[p] = "closeOld" /\ pc'[p] = "idle"
    BY <1>17, <1>0 DEF CloseOld, Return, CallerTypes
  <2>3. current = hand[p].id /\ config = hand[p].id /\ built[hand[p].id] = hand[p].id
    BY <2>2 DEF ReloadSteps
  <2>4. current # hand[p].redis
    BY <1>0, <2>2, <2>3, BoundAssumption DEF Numbered, InReload, CallerTypes, RedisTypes, Redis
  <2>5. open' = open \ {hand[p].redis} /\ UNCHANGED <<current, config, built, abandoned, stopped>>
    BY <1>17 DEF CloseOld
  <2>6. InHand = {hand[p].redis}
    BY <2>1, <2>2 DEF InHand, Busy, InReload
  <2>7. open' \subseteq {current'} \cup abandoned' \cup InHand'
    BY <2>5, <2>6 DEF ReloadSteps
  <2>8. stopped # "done" => current \in open'
    BY <2>1, <2>2, <2>4, <2>5 DEF ReloadSteps, Busy, InStop
  <2> QED
    BY <2>1, <2>2, <2>3, <2>5, <2>7, <2>8 DEF ReloadSteps, Busy, InReload, InStop
<1>18. ASSUME NEW p \in Caller, RequestAnswered(p) PROVE ReloadSteps'
  <2>1. \A q \in Caller :
          \/ pc'[q] = pc[q] /\ hand'[q] = hand[q]
          \/ {pc[q], pc'[q]} \cap (InReload \cup {"disconnect"}) = {}
    BY <1>18, <1>0 DEF RequestAnswered, CallerTypes, Goto, Return, InReload, InStart, InStop
  <2>2. UNCHANGED redisVars /\ (stopped' = "done" <=> stopped = "done")
    BY <1>18 DEF RequestAnswered
  <2> QED
    BY <2>1, <2>2, ReloadFrame
<1>19. ASSUME NEW p \in Caller, RequestFails(p) PROVE ReloadSteps'
  <2>1. \A q \in Caller :
          \/ pc'[q] = pc[q] /\ hand'[q] = hand[q]
          \/ {pc[q], pc'[q]} \cap (InReload \cup {"disconnect"}) = {}
    BY <1>19, <1>0 DEF RequestFails, CallerTypes, Goto, Return, InReload, InStart, InStop
  <2>2. UNCHANGED redisVars /\ (stopped' = "done" <=> stopped = "done")
    BY <1>19 DEF RequestFails
  <2> QED
    BY <2>1, <2>2, ReloadFrame
<1>20. ASSUME NEW p \in Caller, TryAgain(p) PROVE ReloadSteps'
  <2>1. \A q \in Caller :
          \/ pc'[q] = pc[q] /\ hand'[q] = hand[q]
          \/ {pc[q], pc'[q]} \cap (InReload \cup {"disconnect"}) = {}
    BY <1>20, <1>0 DEF TryAgain, CallerTypes, Goto, Return, InReload, InStart, InStop
  <2>2. UNCHANGED redisVars /\ (stopped' = "done" <=> stopped = "done")
    BY <1>20 DEF TryAgain
  <2> QED
    BY <2>1, <2>2, ReloadFrame
<1>21. CASE BeginCheck
  BY <1>21, ReloadFrame DEF BeginCheck
<1>22. CASE ProbeAnswered
  BY <1>22, ReloadFrame DEF ProbeAnswered
<1>23. CASE ProbeFails
  BY <1>23, ReloadFrame DEF ProbeFails
<1>24. CASE CountTheCheck
  BY <1>24, ReloadFrame DEF CountTheCheck
<1>25. CASE CountTheFailure
  BY <1>25, ReloadFrame DEF CountTheFailure
<1>26. CASE FinishCheck
  BY <1>26, ReloadFrame DEF FinishCheck
<1>27. CASE ExitHealth
  BY <1>27, ReloadFrame DEF ExitHealth
<1>28. CASE ExitCollector
  BY <1>28, ReloadFrame DEF ExitCollector
<1>29. CASE UNCHANGED vars
  BY <1>29, ReloadFrame DEF vars
<1> QED
  BY <1>1, <1>2, <1>3, <1>4, <1>5, <1>6, <1>7, <1>8, <1>9, <1>10, <1>11, <1>12, <1>13, <1>14, <1>15, <1>16, <1>17, <1>18, <1>19, <1>20, <1>21, <1>22, <1>23, <1>24, <1>25, <1>26, <1>27, <1>28, <1>29 DEF Next, Operate, Start, Stop, Reload, Request, Check

Inv == TypeOK /\ OneStart /\ StartOutcome /\ Numbered /\ StopPhases /\ Uncrossed

LEMMA InvInit == Init => Inv
<1> SUFFICES ASSUME Init PROVE Inv
  OBVIOUS
<1>1. \A p \in Caller : pc[p] = "idle"
  BY DEF Init
<1>2. Alone
  BY <1>1 DEF Alone, Busy, InStart, InStop, InReload
<1>3. StopSteps
  BY <1>1 DEF Init, StopSteps, InReload
<1>4. InHand = {} /\ ~Reloading
  BY <1>1 DEF InHand, Reloading, InReload
<1>5. built[current] = config
  BY BoundAssumption DEF Init, Redis
<1>6. ReloadSteps
  BY <1>1, <1>4, <1>5 DEF Init, ReloadSteps
<1> QED
  BY <1>2, <1>3, <1>6, TypeInit, StartOnceInit, StopReloadInit DEF Inv, Uncrossed

\* Nothing undoes a crossing.
LEMMA CrossedStays == TypeOK /\ [Next]_vars /\ crossed => crossed'
<1> SUFFICES ASSUME TypeOK, [Next]_vars, crossed PROVE crossed'
  OBVIOUS
<1>1. \/ UNCHANGED crossed
      \/ \E p \in Caller : crossed' = (crossed \/ Crosses(p))
  BY DEF Next, Call, ExecuteWithMetrics, BeginReload, Operate, Start, EnterStart, PingFails, PingAnswered, Connect, StartHealthChecker, StartCollector, Stop, EnterStop, Wait, CloseClient, Disconnect, Reload, CreateClient, TestAnswered, TestFails, CloseOld, Request, RequestAnswered, RequestFails, TryAgain, BeginCheck, Check, ProbeAnswered, ProbeFails, CountTheCheck, CountTheFailure, FinishCheck, ExitHealth, ExitCollector, vars
<1> QED
  BY <1>1, Zenon

LEMMA InvStep == Inv /\ [Next]_vars => Inv'
<1> SUFFICES ASSUME Inv, [Next]_vars PROVE Inv'
  OBVIOUS
<1> USE DEF Inv
<1>1. TypeOK' /\ OneStart' /\ StartOutcome' /\ Numbered' /\ StopPhases'
  BY TypeStep, StartOnceStep, NumberedStep, StopPhasesStep
<1>2. Uncrossed'
  <2> SUFFICES ASSUME ~crossed' PROVE Alone' /\ StopSteps' /\ ReloadSteps'
    BY DEF Uncrossed
  <2>1. Alone /\ StopSteps /\ ReloadSteps
    BY CrossedStays DEF Uncrossed
  <2>2. Alone'
    BY <2>1, AloneStep
  <2> QED
    BY <2>1, <2>2, StopStepsStep, ReloadStepsStep
<1> QED
  BY <1>1, <1>2

\* A Start that returns nil has connected, unless the Start that ran failed, and a
\* stopped client that nothing overlapped is quiet and closed for good.
THEOREM LifecycleIsSound == Spec => []LifecycleSound
<1>1. Inv => LifecycleSound
  BY DEF Inv, Uncrossed, StartOutcome, StopSteps, LifecycleSound, StoppedForGood, Quiet
<1> QED
  BY <1>1, InvInit, InvStep, PTL DEF Spec

\* Without overlaps every redis client is in use, in the hands of a Reload or left
\* behind by one that failed, and c.config is the one c.client was made with.
THEOREM ClientsAlwaysAccounted == Spec => []ClientsAccounted
<1>1. Inv => ClientsAccounted
  BY DEF Inv, Uncrossed, ReloadSteps, ClientsAccounted
<1> QED
  BY <1>1, InvInit, InvStep, PTL DEF Spec

-----------------------------------------------------------------------------
(***************************************************************************)
(* Waiting.  A caller waits for startOnce, for stopOnce, or as the Stop    *)
(* that runs for the goroutines of the client; everything else may fail at *)
(* once.  The guards of EnterStart, EnterStop and Wait say so.  This is    *)
(* the safety part of Ends, and like it says nothing of overlaps: they may *)
(* be any.                                                                 *)
(***************************************************************************)
WaitsForStart(p) == At(p, "start") /\ started = "running"
WaitsForStop(p) == At(p, "stop") /\ stopped = "running"
WaitsForLoops(p) == At(p, "wait") /\ (Running(health) \/ Running(collector))
Waiting(p) == WaitsForStart(p) \/ WaitsForStop(p) \/ WaitsForLoops(p)

\* The next step of a goroutine of the client does not depend on anybody: in its
\* select it sees that shutdownCh is closed, in a check it goes on with the check.
LoopsGoOn ==
  /\ health = "select" => shutdown
  /\ Running(collector) => collector = "select" /\ shutdown

WaitsEnd ==
  \A p \in Caller :
    /\ WaitsForStart(p) => \E q \in Caller \ {p} : pc[q] \in InStart /\ ~Waiting(q)
    /\ WaitsForStop(p) =>
         \E q \in Caller \ {p} : pc[q] \in InStop /\ (Waiting(q) => WaitsForLoops(q) /\ LoopsGoOn)
    /\ WaitsForLoops(p) => LoopsGoOn

\* Whoever is inside a Once is at work in it.
OnceInv ==
  /\ started = "running" => \E p \in Caller : pc[p] \in InStart
  /\ stopped = "running" => \E p \in Caller : pc[p] \in InStop

LEMMA OnceInvStep == TypeOK /\ OneStart /\ StopPhases /\ OnceInv /\ [Next]_vars => OnceInv'
<1> SUFFICES ASSUME TypeOK, OneStart, StopPhases, OnceInv, [Next]_vars PROVE OnceInv'
  OBVIOUS
<1> USE DEF OnceInv, TypeOK, CallerTypes, At, Goto, Return, InStart, InStop, Label
<1>1. ASSUME NEW p \in Caller, Call(p) PROVE OnceInv'
  BY <1>1 DEF Call, onceVars
<1>2. ASSUME NEW p \in Caller, ExecuteWithMetrics(p) PROVE OnceInv'
  BY <1>2 DEF ExecuteWithMetrics, onceVars
<1>3. ASSUME NEW p \in Caller, BeginReload(p) PROVE OnceInv'
  BY <1>3 DEF BeginReload
<1>4. ASSUME NEW p \in Caller, EnterStart(p) PROVE OnceInv'
  BY <1>4 DEF EnterStart
<1>5. ASSUME NEW p \in Caller, PingFails(p) PROVE OnceInv'
  BY <1>5 DEF PingFails
<1>6. ASSUME NEW p \in Caller,
             PingAnswered(p) \/ Connect(p) \/ StartHealthChecker(p)
      PROVE  OnceInv'
  BY <1>6 DEF PingAnswered, Connect, StartHealthChecker, onceVars
<1>7. ASSUME NEW p \in Caller, StartCollector(p) PROVE OnceInv'
  BY <1>7 DEF StartCollector
<1>8. ASSUME NEW p \in Caller, EnterStop(p) PROVE OnceInv'
  BY <1>8 DEF EnterStop
<1>9. ASSUME NEW p \in Caller, Wait(p) \/ CloseClient(p) PROVE OnceInv'
  BY <1>9 DEF Wait, CloseClient, onceVars
<1>10. ASSUME NEW p \in Caller, Disconnect(p) PROVE OnceInv'
  BY <1>10 DEF Disconnect
<1>11. ASSUME NEW p \in Caller, Reload(p) \/ Request(p) PROVE OnceInv'
  BY <1>11 DEF Reload, CreateClient, TestAnswered, TestFails, CloseOld, Request, RequestAnswered,
               RequestFails, TryAgain, onceVars
<1>12. CASE BeginCheck \/ Check \/ ExitHealth \/ ExitCollector \/ UNCHANGED vars
  BY <1>12 DEF BeginCheck, Check, ProbeAnswered, ProbeFails, CountTheCheck, CountTheFailure,
               FinishCheck, ExitHealth, ExitCollector, vars, onceVars, callerVars
<1> QED
  BY <1>1, <1>2, <1>3, <1>4, <1>5, <1>6, <1>7, <1>8, <1>9, <1>10, <1>11, <1>12
     DEF Next, Operate, Start, Stop

\* No deadlock, whatever overlaps: a Start waits for a Start that goes on, a Stop
\* for one that goes on or waits for the goroutines of the client, and those have
\* been told to end.
THEOREM ClientNeverDeadlocks == Spec => []WaitsEnd
<1>1. Inv /\ OnceInv => WaitsEnd
  <2> SUFFICES ASSUME Inv, OnceInv, NEW p \in Caller
               PROVE  /\ WaitsForStart(p) => \E q \in Caller \ {p} : pc[q] \in InStart /\ ~Waiting(q)
                      /\ WaitsForStop(p) =>
                           \E q \in Caller \ {p} :
                             pc[q] \in InStop /\ (Waiting(q) => WaitsForLoops(q) /\ LoopsGoOn)
                      /\ WaitsForLoops(p) => LoopsGoOn
    BY DEF WaitsEnd
  <2>1. ASSUME shutdown PROVE LoopsGoOn
    BY <2>1 DEF Inv, TypeOK, LoopTypes, LoopsGoOn, Running
  <2>2. ASSUME NEW q \in Caller, pc[q] \in InStop PROVE shutdown
    BY <2>2 DEF Inv, StopPhases
  <2>3. ASSUME WaitsForStart(p) PROVE \E q \in Caller \ {p} : pc[q] \in InStart /\ ~Waiting(q)
    BY <2>3 DEF OnceInv, WaitsForStart, Waiting, WaitsForStop, WaitsForLoops, At, InStart
  <2>4. ASSUME WaitsForStop(p)
        PROVE  \E q \in Caller \ {p} :
                 pc[q] \in InStop /\ (Waiting(q) => WaitsForLoops(q) /\ LoopsGoOn)
    BY <2>1, <2>2, <2>4 DEF OnceInv, WaitsForStart, Waiting, WaitsForStop, WaitsForLoops, At, InStop
  <2>5. WaitsForLoops(p) => LoopsGoOn
    BY <2>1, <2>2 DEF WaitsForLoops, At, InStop
  <2> QED
    BY <2>3, <2>4, <2>5
<1>2. Init => OnceInv
  BY DEF Init, OnceInv
<1>3. Inv /\ OnceInv /\ [Next]_vars => OnceInv'
  BY OnceInvStep DEF Inv
<1> QED
  BY <1>1, <1>2, <1>3, InvInit, InvStep, PTL DEF Spec
=============================================================================
