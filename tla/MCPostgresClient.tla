-------------------------- MODULE MCPostgresClient --------------------------
(***************************************************************************)
(* Instances of PostgresClient for TLC: two goroutines of the application, *)
(* the monitor and a pool of one connection or two.                        *)
(***************************************************************************)
EXTENDS PostgresClient

\* Any operation may be called with results or a transaction open.
MCNested == Kind
=============================================================================
