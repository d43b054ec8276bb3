------------------------- MODULE MCDragonflyClient -------------------------
(***************************************************************************)
(* Instances of DragonflyClient for TLC: a configuration and one that Validate *)
(* refuses.                                                                *)
(***************************************************************************)
EXTENDS DragonflyClient

Default ==
  [addresses |-> 1, poolSize |-> 2, minIdleConns |-> 1, maxIdleConns |-> 2, dialTimeout |-> 1,
   readTimeout |-> 1, writeTimeout |-> 0, maxRetries |-> 0, protocolVersion |-> 3,
   pipelineSize |-> 1, networkBufferSize |-> 1]

MCConfig == {Default, [Default EXCEPT !.maxIdleConns = 0]}
MCLatency == {0, 1, 3}
=============================================================================
