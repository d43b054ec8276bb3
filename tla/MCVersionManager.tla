-------------------------- MODULE MCVersionManager --------------------------
(***************************************************************************)
(* Instances of VersionManager for TLC: two components that share a name,  *)
(* with three versions each (1.0.0, 1.1.0 and 2.0.0, as integers in the    *)
(* order of Compare).  Those of o1 are in the opposite of the order in     *)
(* which GetLatestVersion sorts them, those of o2 in that order.           *)
(***************************************************************************)
EXTENDS VersionManager

CONSTANTS o1, o2, n1

MCNameOf == [o \in Object |-> n1]
MCDeclared == [o \in Object |-> IF o = o1 THEN <<100, 110, 200>> ELSE <<200, 110, 100>>]
=============================================================================
