-------------------------- MODULE MCAlertResponder --------------------------
(* Instances of AlertResponder for TLC: alerts of one name in two          *)
(* namespaces.                                                             *)
EXTENDS AlertResponder

CONSTANTS a1, a2, n1, s1, s2

MCNameOf  == [a \in Alerts |-> n1]
MCSpaceOf == [a \in Alerts |-> IF a = a1 THEN s1 ELSE s2]
=============================================================================
