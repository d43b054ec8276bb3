-------------------------- MODULE DragonflyClient --------------------------
(***************************************************************************)
(* pkg/dragonfly: Start, Stop and Reload of a Client, the requests of its  *)
(* users, also those that RetryWithBackoff makes, the health checker and   *)
(* the metrics.  c.client and c.config are plain fields that Reload writes *)
(* while everybody reads them.                                             *)
(*                                                                         *)
(* go-redis and the server are external: a redis client that is closed     *)
(* answers no request, any other may fail at any time.                     *)
(***************************************************************************)
EXTENDS DragonflyMetrics, FiniteSets

CONSTANTS
  Caller,        \* the goroutines that share the client
  Config,        \* the configurations that NewClient and Reload are given
  MaxRetries,    \* the largest maxRetries of RetryWithBackoff
  MaxCalls,      \* bound: the number of calls
  MaxChecks      \* bound: the number of health checks

ASSUME CallerAssumption == IsFiniteSet(Caller)
ASSUME BoundAssumption == MaxRetries \in Nat /\ MaxCalls \in Nat /\ MaxChecks \in Nat

\* Config.Validate.
Valid(c) ==
  /\ c.addresses > 0 /\ c.poolSize > 0
  /\ 0 <= c.minIdleConns /\ c.minIdleConns <= c.maxIdleConns
  /\ c.dialTimeout > 0 /\ c.readTimeout >= 0 /\ c.writeTimeout >= 0
  /\ c.maxRetries >= 0 /\ c.protocolVersion \in {2, 3}
  /\ c.pipelineSize > 0 /\ c.networkBufferSize > 0

\* Redis client and configuration 0 are NewClient's, those of number i the i-th
\* Reload's.
Redis == 0 .. MaxCalls

VARIABLES
  enabled,       \* EnableHealthCheck and EnableMetrics
  started,       \* startOnce: "new", "running" or "done"
  stopped,       \* stopOnce, likewise
  shutdown,      \* shutdownCh is closed and c.ctx cancelled
  connected,     \* c.connected
  current,       \* c.client
  config,        \* c.config
  open,          \* redis clients that are not closed
  built,         \* the configuration each redis client was made with
  reloads,       \* number of redis clients Reload has made or is about to make
  health,        \* where runHealthChecker is
  probe,         \* the redis client its health check uses
  collector,     \* where runMetricsCollection is
  status,        \* healthChecker.status
  checks,        \* the health check counters of c.metrics
  commands,      \* its command counters
  pc,            \* where each goroutine is
  hand,          \* its local variables: a redis client, a configuration, the
                 \* number of its Reload
  left,          \* retries it has left
  calls,         \* number of calls so far
  startFailed,   \* history: the Start that ran has failed
  startedNil,    \* history: a Start has returned nil
  cameUp,        \* history: a Start has connected
  abandoned,     \* history: clients of Reloads that failed
  crossed,       \* history: Start, Stop or Reload began during another of them
  zeroLatency    \* history: a command took no time that the clock shows

redisVars == <<current, config, open, built, reloads, abandoned>>
onceVars == <<started, stopped, shutdown, crossed>>
startVars == <<startFailed, startedNil, cameUp>>
loopVars == <<health, probe, collector>>
statVars == <<status, checks>>
commandVars == <<commands, zeroLatency>>
callerVars == <<pc, hand, left, calls>>
vars == <<enabled, connected, redisVars, onceVars, startVars, loopVars, statVars,
          commandVars, callerVars>>

InStart == {"ping", "up", "health", "metrics"}
InStop == {"wait", "close", "disconnect"}
InReload == {"create", "test", "closeOld"}
InRequest == {"request", "sleep"}
Label == {"idle", "start", "stop"} \cup InStart \cup InStop \cup InReload \cup InRequest

Init ==
  /\ enabled \in SUBSET {"health", "metrics"}
  /\ started = "new" /\ stopped = "new" /\ shutdown = FALSE /\ connected = FALSE
  /\ \E c \in Config : Valid(c)
  /\ current = 0 /\ config = 0 /\ open = {0} /\ built = [i \in Redis |-> 0] /\ reloads = 0
  /\ health = "none" /\ probe = 0 /\ collector = "none"
  /\ status = [connected |-> FALSE, count |-> 0, failures |-> 0, consecutive |-> 0]
  /\ checks = NoChecks /\ commands = NoCommands
  /\ pc = [p \in Caller |-> "idle"]
  /\ hand = [p \in Caller |-> [redis |-> 0, config |-> 0, id |-> 0]]
  /\ left = [p \in Caller |-> 0] /\ calls = 0
  /\ startFailed = FALSE /\ startedNil = FALSE /\ cameUp = FALSE
  /\ abandoned = {} /\ crossed = FALSE /\ zeroLatency = FALSE

At(p, label) == pc[p] = label
Goto(p, label) == pc' = [pc EXCEPT ![p] = label] /\ UNCHANGED <<hand, left>>

\* The operation is over; so are its local variables.
Return(p) ==
  /\ pc' = [pc EXCEPT ![p] = "idle"]
  /\ hand' = [hand EXCEPT ![p] = [redis |-> 0, config |-> 0, id |-> 0]]
  /\ left' = [left EXCEPT ![p] = 0]

\* Somebody else is in the middle of Start, Stop or Reload.
Crosses(p) == \E q \in Caller \ {p} : pc[q] \in InStart \cup InStop \cup InReload

-----------------------------------------------------------------------------
\* A goroutine calls Start or Stop, or a request that it may repeat.
Call(p) ==
  /\ At(p, "idle") /\ calls < MaxCalls
  /\ calls' = calls + 1
  /\ \/ \E label \in {"start", "stop"} : Goto(p, label)
     \/ /\ pc' = [pc EXCEPT ![p] = "request"]
        /\ hand' = [hand EXCEPT ![p].redis = current]
        /\ \E n \in 0 .. MaxRetries : left' = [left EXCEPT ![p] = n]
  /\ UNCHANGED <<enabled, connected, redisVars, onceVars, startVars, loopVars, statVars, commandVars>>

\* ExecuteWithMetrics records a command that has been executed.
ExecuteWithMetrics(p) ==
  /\ At(p, "idle") /\ calls < MaxCalls
  /\ "metrics" \in enabled
  /\ calls' = calls + 1
  /\ \E d \in Latency, failed \in BOOLEAN :
       /\ commands' = RecordCommand(commands, d, failed)
       /\ zeroLatency' = (zeroLatency \/ d = 0)
  /\ UNCHANGED <<enabled, connected, redisVars, onceVars, startVars, loopVars, statVars,
                 pc, hand, left>>

(***************************************************************************)
(* Start.                                                                  *)
(***************************************************************************)

\* startOnce lets one Start in; the others wait for it and return nil.
EnterStart(p) ==
  /\ At(p, "start")
  /\ \/ /\ started = "new" /\ started' = "running"
        /\ crossed' = (crossed \/ Crosses(p))
        /\ Goto(p, "ping") /\ UNCHANGED startedNil
     \/ /\ started = "done"
        /\ startedNil' = TRUE
        /\ Return(p) /\ UNCHANGED <<started, crossed>>
  /\ UNCHANGED <<enabled, connected, stopped, shutdown, redisVars, startFailed, cameUp, loopVars,
                 statVars, commandVars, calls>>

PingFails(p) ==
  /\ At(p, "ping")
  /\ startFailed' = TRUE /\ started' = "done"
  /\ Return(p)
  /\ UNCHANGED <<enabled, connected, stopped, shutdown, crossed, redisVars, startedNil, cameUp,
                 loopVars, statVars, commandVars, calls>>

PingAnswered(p) ==
  /\ At(p, "ping") /\ current \in open
  /\ Goto(p, "up")
  /\ UNCHANGED <<enabled, connected, redisVars, onceVars, startVars, loopVars, statVars, commandVars, calls>>

\* The initialisation commands only warn.
Connect(p) ==
  /\ At(p, "up")
  /\ connected' = TRUE /\ cameUp' = TRUE
  /\ Goto(p, "health")
  /\ UNCHANGED <<enabled, redisVars, onceVars, startFailed, startedNil, loopVars, statVars,
                 commandVars, calls>>

StartHealthChecker(p) ==
  /\ At(p, "health")
  /\ health' = IF "health" \in enabled THEN "select" ELSE health
  /\ Goto(p, "metrics")
  /\ UNCHANGED <<enabled, connected, redisVars, onceVars, startVars, probe, collector, statVars,
                 commandVars, calls>>

StartCollector(p) ==
  /\ At(p, "metrics")
  /\ collector' = IF "metrics" \in enabled THEN "select" ELSE collector
  /\ started' = "done" /\ startedNil' = TRUE
  /\ Return(p)
  /\ UNCHANGED <<enabled, connected, stopped, shutdown, crossed, redisVars, startFailed, cameUp,
                 health, probe, statVars, commandVars, calls>>

Start(p) ==
  EnterStart(p) \/ PingFails(p) \/ PingAnswered(p) \/ Connect(p)
    \/ StartHealthChecker(p) \/ StartCollector(p)

(***************************************************************************)
(* Stop.                                                                   *)
(***************************************************************************)
EnterStop(p) ==
  /\ At(p, "stop")
  /\ \/ /\ stopped = "new" /\ stopped' = "running" /\ shutdown' = TRUE
        /\ crossed' = (crossed \/ Crosses(p))
        /\ Goto(p, "wait")
     \/ /\ stopped = "done"
        /\ Return(p) /\ UNCHANGED <<stopped, shutdown, crossed>>
  /\ UNCHANGED <<enabled, connected, started, redisVars, startVars, loopVars, statVars, commandVars, calls>>

Running(loop) == loop \notin {"none", "exited"}

\* Mutant: Stop does not wait for the health checker.
WaitForCollector(p) ==
  /\ At(p, "wait") /\ ~Running(collector)
  /\ Goto(p, "close")
  /\ UNCHANGED <<enabled, connected, redisVars, onceVars, startVars, loopVars, statVars, commandVars, calls>>

Wait(p) ==
  /\ At(p, "wait") /\ ~Running(health) /\ ~Running(collector)
  /\ Goto(p, "close")
  /\ UNCHANGED <<enabled, connected, redisVars, onceVars, startVars, loopVars, statVars, commandVars, calls>>

CloseClient(p) ==
  /\ At(p, "close")
  /\ open' = open \ {current}
  /\ Goto(p, "disconnect")
  /\ UNCHANGED <<enabled, connected, current, config, built, reloads, abandoned, onceVars, startVars,
                 loopVars, statVars, commandVars, calls>>

Disconnect(p) ==
  /\ At(p, "disconnect")
  /\ connected' = FALSE /\ stopped' = "done"
  /\ Return(p)
  /\ UNCHANGED <<enabled, started, shutdown, crossed, redisVars, startVars, loopVars, statVars,
                 commandVars, calls>>

Stop(p) == EnterStop(p) \/ Wait(p) \/ CloseClient(p) \/ Disconnect(p)

(***************************************************************************)
(* Reload.                                                                 *)
(***************************************************************************)

\* A configuration that is not valid is refused and nothing happens.
BeginReload(p) ==
  /\ At(p, "idle") /\ calls < MaxCalls
  /\ calls' = calls + 1
  /\ \E c \in Config :
       \/ /\ Valid(c)
          /\ reloads' = reloads + 1
          /\ hand' = [hand EXCEPT ![p] = [redis |-> current, config |-> config, id |-> reloads + 1]]
          /\ config' = reloads + 1
          /\ crossed' = (crossed \/ Crosses(p))
          /\ pc' = [pc EXCEPT ![p] = "create"]
       \/ ~Valid(c) /\ UNCHANGED <<reloads, hand, config, crossed, pc>>
  /\ UNCHANGED <<enabled, connected, current, open, built, abandoned, started, stopped, shutdown,
                 startVars, loopVars, statVars, commandVars, left>>

\* createRedisClient reads c.config again.
CreateClient(p) ==
  /\ At(p, "create")
  /\ current' = hand[p].id
  /\ open' = open \cup {hand[p].id}
  /\ built' = [built EXCEPT ![hand[p].id] = config]
  /\ Goto(p, "test")
  /\ UNCHANGED <<enabled, connected, config, reloads, abandoned, onceVars, startVars, loopVars,
                 statVars, commandVars, calls>>

TestAnswered(p) ==
  /\ At(p, "test") /\ current \in open /\ ~shutdown
  /\ Goto(p, "closeOld")
  /\ UNCHANGED <<enabled, connected, redisVars, onceVars, startVars, loopVars, statVars, commandVars, calls>>

\* Mutant: only the client is put back.
TestFailsKeepsConfig(p) ==
  /\ At(p, "test")
  /\ current' = hand[p].redis
  /\ abandoned' = abandoned \cup {hand[p].id}
  /\ Return(p)
  /\ UNCHANGED <<enabled, connected, config, open, built, reloads, onceVars, startVars, loopVars,
                 statVars, commandVars, calls>>

\* What was there before is put back; the new client stays open.
TestFails(p) ==
  /\ At(p, "test")
  /\ current' = hand[p].redis /\ config' = hand[p].config
  /\ abandoned' = abandoned \cup {hand[p].id}
  /\ Return(p)
  /\ UNCHANGED <<enabled, connected, open, built, reloads, onceVars, startVars, loopVars, statVars,
                 commandVars, calls>>

CloseOld(p) ==
  /\ At(p, "closeOld")
  /\ open' = open \ {hand[p].redis}
  /\ Return(p)
  /\ UNCHANGED <<enabled, connected, current, config, built, reloads, abandoned, onceVars, startVars,
                 loopVars, statVars, commandVars, calls>>

Reload(p) == CreateClient(p) \/ TestAnswered(p) \/ TestFails(p) \/ CloseOld(p)

(***************************************************************************)
(* A request, by itself or in RetryWithBackoff.  An error wraps any of the *)
(* package's error types, or none, as those of go-redis do.                *)
(***************************************************************************)
Kind == {"connection", "timeout", "cluster", "auth", "protocol"}

\* Mutant: the number of attempts is not looked at.
ShouldRetryAlways(kinds, n) ==
  kinds \cap {"connection", "timeout", "cluster"} # {} /\ kinds \cap {"auth", "protocol"} = {}

ShouldRetry(kinds, n) ==
  /\ n > 0
  /\ kinds \cap {"auth", "protocol"} = {}
  /\ kinds \cap {"connection", "timeout", "cluster"} # {}

RequestAnswered(p) ==
  /\ At(p, "request") /\ hand[p].redis \in open
  /\ Return(p)
  /\ UNCHANGED <<enabled, connected, redisVars, onceVars, startVars, loopVars, statVars, commandVars, calls>>

RequestFails(p) ==
  /\ At(p, "request")
  /\ \E kinds \in SUBSET Kind :
       /\ hand[p].redis \notin open => kinds = {}
       /\ IF ShouldRetry(kinds, left[p])
            THEN /\ pc' = [pc EXCEPT ![p] = "sleep"]
                 /\ left' = [left EXCEPT ![p] = @ - 1] /\ UNCHANGED hand
            ELSE Return(p)
  /\ UNCHANGED <<enabled, connected, redisVars, onceVars, startVars, loopVars, statVars, commandVars,
                 calls>>

TryAgain(p) ==
  /\ At(p, "sleep")
  /\ hand' = [hand EXCEPT ![p].redis = current]
  /\ pc' = [pc EXCEPT ![p] = "request"]
  /\ UNCHANGED <<enabled, connected, redisVars, onceVars, startVars, loopVars, statVars, commandVars,
                 left, calls>>

Request(p) == RequestAnswered(p) \/ RequestFails(p) \/ TryAgain(p)

-----------------------------------------------------------------------------
(***************************************************************************)
(* The goroutines of the client.  A check holds hc.mu from its beginning   *)
(* to its end, so nobody sees status in between.                           *)
(***************************************************************************)
BeginCheck ==
  /\ health = "select" /\ status.count < MaxChecks
  /\ status' = [status EXCEPT !.count = @ + 1]
  /\ probe' = current
  /\ health' = "probe"
  /\ UNCHANGED <<enabled, connected, redisVars, onceVars, startVars, collector, checks, commandVars,
                 callerVars>>

AfterProbe == IF "metrics" \in enabled THEN "count" ELSE "finish"

\* PING, SET and GET are answered, before c.ctx ends.
ProbeAnswered ==
  /\ health = "probe" /\ probe \in open
  /\ status' = [status EXCEPT !.connected = TRUE, !.consecutive = 0]
  /\ health' = AfterProbe
  /\ UNCHANGED <<enabled, connected, redisVars, onceVars, startVars, probe, collector, checks,
                 commandVars, callerVars>>

\* Mutant: a failure leaves the status connected.
ProbeFailsConnected ==
  /\ health = "probe"
  /\ status' = [status EXCEPT !.failures = @ + 1, !.consecutive = @ + 1]
  /\ health' = AfterProbe
  /\ UNCHANGED <<enabled, connected, redisVars, onceVars, startVars, probe, collector, checks,
                 commandVars, callerVars>>

ProbeFails ==
  /\ health = "probe"
  /\ status' = [status EXCEPT !.connected = FALSE, !.failures = @ + 1, !.consecutive = @ + 1]
  /\ health' = AfterProbe
  /\ UNCHANGED <<enabled, connected, redisVars, onceVars, startVars, probe, collector, checks,
                 commandVars, callerVars>>

\* Metrics.RecordHealthCheck, which takes no lock: the count, then the failure.
CountTheCheck ==
  /\ health = "count"
  /\ checks' = CountCheck(checks)
  /\ health' = IF status.connected THEN "finish" ELSE "failure"
  /\ UNCHANGED <<enabled, connected, redisVars, onceVars, startVars, probe, collector, status,
                 commandVars, callerVars>>

CountTheFailure ==
  /\ health = "failure"
  /\ checks' = CountFailedCheck(checks)
  /\ health' = "finish"
  /\ UNCHANGED <<enabled, connected, redisVars, onceVars, startVars, probe, collector, status,
                 commandVars, callerVars>>

FinishCheck ==
  /\ health = "finish"
  /\ connected' = (connected \/ status.connected)
  /\ health' = "select"
  /\ UNCHANGED <<enabled, redisVars, onceVars, startVars, probe, collector, statVars, commandVars,
                 callerVars>>

Check ==
  ProbeAnswered \/ ProbeFails \/ CountTheCheck \/ CountTheFailure \/ FinishCheck

\* Mutant: the goroutine does not watch shutdownCh.
ExitHealthNever == FALSE /\ UNCHANGED vars

ExitHealth ==
  /\ health = "select" /\ shutdown
  /\ health' = "exited"
  /\ UNCHANGED <<enabled, connected, redisVars, onceVars, startVars, probe, collector, statVars,
                 commandVars, callerVars>>

\* Its ticks only log.
ExitCollector ==
  /\ collector = "select" /\ shutdown
  /\ collector' = "exited"
  /\ UNCHANGED <<enabled, connected, redisVars, onceVars, startVars, health, probe, statVars,
                 commandVars, callerVars>>

-----------------------------------------------------------------------------
Operate(p) == Start(p) \/ Stop(p) \/ Reload(p) \/ Request(p)

Next ==
  \/ \E p \in Caller : Call(p) \/ ExecuteWithMetrics(p) \/ BeginReload(p) \/ Operate(p)
  \/ BeginCheck \/ Check \/ ExitHealth \/ ExitCollector

Spec == Init /\ [][Next]_vars

(***************************************************************************)
(* Requests end, by a timeout at the latest; goroutines run, and a select  *)
(* picks a case that is ready again and again.  No check has to begin.     *)
(***************************************************************************)
Fairness ==
  /\ \A p \in Caller : WF_vars(Operate(p))
  /\ WF_vars(Check) /\ SF_vars(ExitHealth) /\ WF_vars(ExitCollector)

FairSpec == Spec /\ Fairness

-----------------------------------------------------------------------------
LifeTypes ==
  /\ enabled \subseteq {"health", "metrics"}
  /\ started \in {"new", "running", "done"} /\ stopped \in {"new", "running", "done"}
  /\ shutdown \in BOOLEAN /\ connected \in BOOLEAN /\ crossed \in BOOLEAN
  /\ startFailed \in BOOLEAN /\ startedNil \in BOOLEAN /\ cameUp \in BOOLEAN

RedisTypes ==
  /\ current \in Redis /\ config \in Redis /\ open \subseteq Redis /\ abandoned \subseteq Redis
  /\ built \in [Redis -> Redis]
  /\ calls \in 0 .. MaxCalls /\ reloads \in 0 .. calls

LoopTypes ==
  /\ health \in {"none", "select", "probe", "count", "failure", "finish", "exited"}
  /\ collector \in {"none", "select", "exited"} /\ probe \in Redis
  /\ status \in [connected : BOOLEAN, count : Nat, failures : Nat, consecutive : Nat]
  /\ checks \in CheckCounters /\ commands \in CommandCounters /\ zeroLatency \in BOOLEAN

CallerTypes ==
  /\ pc \in [Caller -> Label]
  /\ hand \in [Caller -> [redis : Redis, config : Redis, id : Redis]]
  /\ left \in [Caller -> 0 .. MaxRetries]

\* Every variable has its type; nobody repeats a request more often than
\* RetryWithBackoff was told.
TypeOK == LifeTypes /\ RedisTypes /\ LoopTypes /\ CallerTypes

\* The clients that Reloads will put back or close.
InHand == {hand[p].redis : p \in {q \in Caller : pc[q] \in {"test", "closeOld"}}}

Reloading == \E p \in Caller : pc[p] \in InReload

\* As long as Start, Stop and Reload come one after the other, c.client is open
\* until Stop closes it, no other redis client is open but those that failed
\* Reloads left behind, and c.config is the one c.client was made with.
ClientsAccounted ==
  ~crossed =>
    /\ stopped # "done" /\ (\A p \in Caller : ~At(p, "disconnect")) => current \in open
    /\ open \subseteq {current} \cup abandoned \cup InHand
    /\ ~Reloading => built[current] = config

\* A Start that returns nil has connected the client unless the Start that ran
\* has failed.
StartedUnlessFailed == startedNil => cameUp \/ startFailed

\* After Stop, when no Start or Reload overlapped it, the client is disconnected
\* for good: nothing of it runs, and its redis client is closed.
StoppedForGood ==
  stopped = "done" /\ ~crossed /\ ~Reloading =>
    ~connected /\ ~Running(health) /\ ~Running(collector) /\ current \notin open

LifecycleSound == StartedUnlessFailed /\ StoppedForGood

\* Between two checks the status agrees with itself and with the metrics, which
\* are counted without a lock.
HealthAgrees ==
  /\ status.connected => status.consecutive = 0
  /\ status.consecutive <= status.failures /\ status.failures <= status.count
  /\ checks.failures <= checks.count
  /\ "metrics" \in enabled /\ health \in {"none", "select", "exited"} =>
       checks.count = status.count /\ checks.failures = status.failures

\* The average latency of a snapshot lies between the least and the greatest one
\* unless a command took no time, and no command failed more often than it ran.
SnapshotSound ==
  LET s == Snapshot(commands, checks) IN
  /\ s.errors <= s.count
  /\ ~zeroLatency => s.min <= s.average
  /\ s.average <= s.max

\* Every call ends, and after Stop the goroutines of the client do too, whatever
\* overlapped it.
Ends ==
  /\ \A p \in Caller : ~At(p, "idle") ~> At(p, "idle")
  /\ shutdown ~> ~Running(health)
  /\ shutdown ~> ~Running(collector)
=============================================================================
