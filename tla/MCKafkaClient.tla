--------------------------- MODULE MCKafkaClient ---------------------------
(***************************************************************************)
(* Instances of KafkaClient for TLC.                                       *)
(***************************************************************************)
EXTENDS KafkaClient
=============================================================================
