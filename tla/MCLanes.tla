------------------------------- MODULE MCLanes -------------------------------
(* The lanes of the work-order plane in small instances for TLC: two work  *)
(* orders, or one beside a key outside the naming taxonomy, or an          *)
(* escalation and the remediation that promotes to it.  lane names the     *)
(* instance that runs, the keys of the others are never used.              *)
EXTENDS MCWorkOrders

VARIABLE lane

LanesInit == lane \in {"wo", "wo and stray", "esc and rem"} /\ Init

Unused(S) == \A k \in S : cm'[k].st = "absent" /\ k \notin filer'

(* Bounds: an escalation ages further than a work order, and beats not.    *)
LanesNext ==
  /\ Next /\ UNCHANGED lane
  /\ \/ /\ lane \in {"wo", "wo and stray"} /\ Unused({e1, r1})
        /\ lane = "wo" => Unused({x1})
        /\ lane = "wo and stray" => \E w \in WoKeys : Unused({w})
        /\ \A k \in Keys : cm'[k].age <= 1
     \/ /\ lane = "esc and rem" /\ Unused(WoKeys \cup {x1}) /\ beats' = 0

LanesSpec == LanesInit /\ [][LanesNext]_<<lane, vars>>
=============================================================================
