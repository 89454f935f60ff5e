----------------------------- MODULE DatedNodes -----------------------------
(* NodeOutOfService with the calendar its timestamps are read with: the    *)
(* walk over the days (Iso8601) is taken with the controller standing      *)
(* still, since the two share nothing but the ages they come to.           *)
EXTENDS NodeOutOfService

CONSTANT LastYear

VARIABLES walking, y, m, d, days

Calendar == INSTANCE Iso8601
date == <<y, m, d, days>>

ASSUME CalendarAssumption == Calendar!LastYearAssumption

DatedInit == walking \in BOOLEAN /\ Init /\ Calendar!Init

DatedNext ==
  \/ walking /\ Calendar!Next /\ UNCHANGED <<walking, vars>>
  \/ ~walking /\ Next /\ UNCHANGED <<walking, date>>

DatedSpec ==
  /\ DatedInit /\ [][DatedNext]_<<walking, vars, date>>
  /\ WF_vars(~walking /\ JobStep) /\ SF_vars(~walking /\ Tick)

-----------------------------------------------------------------------------
(* The date converted is the number of days since the epoch (lib.sh, days_from_civil). *)
DaysMatch == Calendar!DaysMatch

(* The taint follows the node: a node lost for good gets it, one that came back loses it (controller.sh). *)
TaintFollowsNode == LostIsTainted /\ ReturnedIsUntainted
=============================================================================
