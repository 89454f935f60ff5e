---------------------------- MODULE MCWorkOrders ----------------------------
(* Instances of WorkOrders for TLC.                                        *)
EXTENDS WorkOrders, TLC

CONSTANTS w1, w2, e1, r1, x1

MCPromotion   == [r \in RemKeys |-> e1]
MCWatchdogEsc == [r \in RemKeys |-> e1]

WoSymmetry == Permutations({w1, w2})
=============================================================================
