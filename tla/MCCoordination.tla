--------------------------- MODULE MCCoordination ---------------------------
(* Instances of Coordination for TLC.                                      *)
EXTENDS Coordination

CONSTANTS f, p

(* Trouble is answered: broken Flux objects reach a human again and again, but not more often than the *)
(* window allows, and what a merge explains is attempted in the end (gate.sh, triage.sh). *)
TroubleIsAnswered == FluxIsHeard /\ FixIsTried /\ Throttled
=============================================================================
