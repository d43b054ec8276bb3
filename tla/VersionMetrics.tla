---------------------------- MODULE VersionMetrics ----------------------------
(***************************************************************************)
(* DefaultMetricsCollector of pkg/version: per component, the requests and *)
(* the errors of each version as it is spelled, and the statistics that    *)
(* are computed from them.  A Go map is a function whose domain is the     *)
(* keys it holds; times of access are left out.                            *)
(***************************************************************************)
EXTENDS Integers, FiniteSets, Functions

NoMetrics == <<>>
IsCounters(counters, Key) ==
  DOMAIN counters \subseteq Key /\ counters \in [DOMAIN counters -> Nat \ {0}]
IsMetrics(metrics, Name, Key) ==
  /\ DOMAIN metrics \subseteq Name
  /\ \A c \in DOMAIN metrics :
       /\ metrics[c] = [requests |-> metrics[c].requests, errors |-> metrics[c].errors]
       /\ IsCounters(metrics[c].requests, Key)
       /\ IsCounters(metrics[c].errors, Key)

Tally(counters, key) == IF key \in DOMAIN counters THEN counters[key] ELSE 0

\* Mutant: the first of each key is not counted.
IncrementAfterFirst(counters, key) ==
  [k \in DOMAIN counters \cup {key} |->
     Tally(counters, k) + (IF k = key /\ key \in DOMAIN counters THEN 1 ELSE 0)]

Increment(counters, key) ==
  [k \in DOMAIN counters \cup {key} |-> Tally(counters, k) + (IF k = key THEN 1 ELSE 0)]

OfComponent(metrics, c) ==
  IF c \in DOMAIN metrics THEN metrics[c] ELSE [requests |-> <<>>, errors |-> <<>>]
Stored(metrics, c, entry) ==
  [name \in DOMAIN metrics \cup {c} |-> IF name = c THEN entry ELSE metrics[name]]

\* A component is added by its first request or error, registered or not.
RecordRequest(metrics, c, spelling) ==
  LET entry == OfComponent(metrics, c) IN
  Stored(metrics, c, [entry EXCEPT !.requests = Increment(@, spelling)])

\* Mutant: an error is counted as a request too.
RecordErrorAndRequest(metrics, c, spelling) ==
  LET entry == OfComponent(metrics, c) IN
  Stored(metrics, c, [requests |-> Increment(entry.requests, spelling),
                      errors |-> Increment(entry.errors, spelling)])

RecordError(metrics, c, spelling) ==
  LET entry == OfComponent(metrics, c) IN
  Stored(metrics, c, [entry EXCEPT !.errors = Increment(@, spelling)])

ResetComponent(metrics, c) == Restrict(metrics, DOMAIN metrics \ {c})

\* Mutant: the requests of each version replace those of the one before.
GetUsageStatsOfOne(metrics, c) ==
  LET requests == metrics[c].requests
      used == DOMAIN requests
      last == CHOOSE s \in used : TRUE
  IN
  [totalRequests |-> IF used = {} THEN 0 ELSE requests[last],
   totalErrors |-> SumFunction(metrics[c].errors), mostUsed |-> used, leastUsed |-> used]

\* GetUsageStats of a component with metrics.  Among the versions with the most
\* and with the fewest requests it may name any.
GetUsageStats(metrics, c) ==
  LET requests == metrics[c].requests
      used == DOMAIN requests
  IN
  [totalRequests |-> SumFunction(requests),
   totalErrors |-> SumFunction(metrics[c].errors),
   mostUsed |-> {s \in used : \A t \in used : requests[s] >= requests[t]},
   leastUsed |-> {s \in used : \A t \in used : requests[s] <= requests[t]}]
=============================================================================
