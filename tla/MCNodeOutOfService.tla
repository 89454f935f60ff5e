-------------------------- MODULE MCNodeOutOfService ------------------------
(* Instances of DatedNodes for TLC: m* are masters, n* workers; the walk   *)
(* ends past the century that is no leap year.                             *)
EXTENDS DatedNodes

CONSTANTS m1, n1
=============================================================================
