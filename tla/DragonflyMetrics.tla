-------------------------- MODULE DragonflyMetrics --------------------------
(***************************************************************************)
(* pkg/dragonfly/metrics.go: what the counters of a Metrics become when a  *)
(* command or a health check is recorded, and what Snapshot makes of them. *)
(* One command name stands for all: each has counters of its own.          *)
(***************************************************************************)
EXTENDS Integers

CONSTANT Latency    \* the durations a command can take, in nanoseconds

ASSUME LatencyAssumption == Latency \subseteq Nat

NoCommands == [count |-> 0, total |-> 0, min |-> 0, max |-> 0, errors |-> 0]
NoChecks == [count |-> 0, failures |-> 0]

CommandCounters == [count : Nat, total : Nat, min : Nat, max : Nat, errors : Nat]
CheckCounters == [count : Nat, failures : Nat]

\* Mutant: the greatest latency is never raised.
UpdateLatencyNoMax(c, d) ==
  [c EXCEPT !.total = @ + d, !.count = @ + 1, !.min = IF @ # 0 /\ @ <= d THEN @ ELSE d]

\* The compare-and-swap loops of updateLatency; a least latency of 0 means that
\* there is none yet.
UpdateLatency(c, d) ==
  [c EXCEPT !.total = @ + d, !.count = @ + 1,
            !.min = IF @ # 0 /\ @ <= d THEN @ ELSE d,
            !.max = IF @ >= d THEN @ ELSE d]

RecordCommand(c, d, failed) ==
  [UpdateLatency(c, d) EXCEPT !.errors = IF failed THEN @ + 1 ELSE @]

CountCheck(h) == [h EXCEPT !.count = @ + 1]
CountFailedCheck(h) == [h EXCEPT !.failures = @ + 1]

Snapshot(c, h) ==
  [count |-> c.count, errors |-> c.errors, checks |-> h.count, failures |-> h.failures,
   average |-> IF c.count > 0 THEN c.total \div c.count ELSE 0,
   min |-> IF c.count > 0 THEN c.min ELSE 0,
   max |-> IF c.count > 0 THEN c.max ELSE 0]
=============================================================================
