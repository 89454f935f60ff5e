------------------------------- MODULE MCLives -------------------------------
(* The life of an order, in two small instances for TLC: an escalation and *)
(* the remediation that promotes to it, and, in state of their own, two    *)
(* work orders whose sessions compete for one lane; and of the alerts a    *)
(* remediation begins with, in the responder that claims them.  lane names *)
(* the instance that runs, the others stay as they began; the responder    *)
(* has three lanes, each with bounds of its own.                           *)
EXTENDS MCWorkOrders

CONSTANTS x2, x3

VARIABLES lane, wcm, wolder, wwin, wwatch, wpromo, wstalled, wfiler, wfaults, wbeats, wreleased,
  gfiring, gage, gclaim, gcool, gcount, gorders, gclock, gdue, gjob, gfaults, gdiagnosed, gsince, gbooked

wvars == <<wcm, wolder, wwin, wwatch, wpromo, wstalled, wfiler, wfaults, wbeats, wreleased>>
gvars == <<gfiring, gage, gclaim, gcool, gcount, gorders, gclock, gdue, gjob, gfaults, gdiagnosed, gsince,
           gbooked>>

Wo == INSTANCE WorkOrders WITH
  WoKeys <- {w1, w2}, EscKeys <- {}, RemKeys <- {}, StrayKeys <- {},
  Promotion <- <<>>, WatchdogEsc <- <<>>, Served <- {"wo"}, Requeued <- {}, ReapMax <- 1,
  DigestOn <- FALSE, MaxAge <- 1, MaxFaults <- 0, MaxBeats <- 0,
  cm <- wcm, older <- wolder, win <- wwin, watch <- wwatch, promo <- wpromo, stalled <- wstalled,
  filer <- wfiler, faults <- wfaults, beats <- wbeats, released <- wreleased

(* The bounds of its lanes: two alerts and runs that live through a cycle; two alerts and a lost step; three *)
(* alerts, two of one name and so a storm.  In the first and the last alerts change between runs only.       *)
Scales == [crowd |-> [alerts |-> {x1, x2}, cooldown |-> 3, scope |-> 7, span |-> 1, lost |-> 0],
           lossy |-> [alerts |-> {x1, x2}, cooldown |-> 2, scope |-> 6, span |-> 0, lost |-> 1],
           storm |-> [alerts |-> {x1, x2, x3}, cooldown |-> 2, scope |-> 4, span |-> 0, lost |-> 0]]
Calm == lane # "lossy" => gjob.at = "idle" \/ gfiring' = gfiring
Kind(a) == IF a = x3 THEN x1 ELSE a

Al(l) == INSTANCE AlertResponder WITH
  Alerts <- Scales[l].alerts, NameOf <- [a \in Scales[l].alerts |-> Kind(a)],
  SpaceOf <- [a \in Scales[l].alerts |-> Kind(a)], Storm <- 2, Hour <- 1, MaxPages <- 0,
  Cooldown <- Scales[l].cooldown, MaxAge <- Scales[l].scope, Ttl <- Scales[l].scope + Scales[l].span,
  RunSpan <- Scales[l].span, MaxFaults <- Scales[l].lost,
  firing <- gfiring, age <- gage, claim <- gclaim, cool <- gcool, count <- gcount, orders <- gorders,
  clock <- gclock, due <- gdue, job <- gjob, faults <- gfaults, diagnosed <- gdiagnosed, since <- gsince,
  booked <- gbooked

ASSUME AlertAssumption == \A l \in DOMAIN Scales : Al(l)!AlertsAssumption

(* An order an alert ends in is the other lanes' matter.                   *)
AlNext(l) == lane = l /\ Al(l)!Next /\ Calm /\ gjob'.action # "urgent"
AlStep(l) == lane = l /\ Al(l)!JobStep /\ gjob'.action # "urgent"

LivesInit ==
  /\ Init /\ Wo!Init
  /\ \/ lane \in {"wo", "rem"} /\ Al("crowd")!Init
     \/ \E l \in DOMAIN Scales : lane = l /\ Al(l)!Init

LivesNext ==
  \/ lane = "rem" /\ Next /\ UNCHANGED <<lane, wvars, gvars>>
  \/ lane = "wo" /\ Wo!Next /\ UNCHANGED <<lane, vars, gvars>>
  \/ (\E l \in DOMAIN Scales : AlNext(l)) /\ UNCHANGED <<lane, vars, wvars>>

(* The fairness of each, while it is the one that runs. *)
LivesSpec ==
  /\ LivesInit /\ [][LivesNext]_<<lane, vars, wvars, gvars>>
  /\ WF_gvars(\E l \in DOMAIN Scales : lane = l /\ Al(l)!Tick)
  /\ WF_gvars(\E l \in DOMAIN Scales : AlStep(l))
  /\ WF_vars(lane = "rem" /\ WatcherStep) /\ WF_wvars(lane = "wo" /\ Wo!WatcherStep)
  /\ \A c \in Callers : WF_vars(lane = "rem" /\ (PromoCheck(c) \/ PromoWrite(c)))
  /\ \A k \in Keys :
       WF_vars(lane = "rem" /\ Age(k)) /\ WF_vars(lane = "rem" /\ CloseOut(k))
  /\ \A k \in RemKeys : SF_vars(lane = "rem" /\ Exit(k))
  /\ \A k \in {w1, w2} :
       WF_wvars(lane = "wo" /\ Wo!Age(k)) /\ WF_wvars(lane = "wo" /\ Wo!CloseOut(k))

-----------------------------------------------------------------------------
(* An order is closed in the end: the claimed one by its session, its harness or, when the session hangs or *)
(* vanishes with the pod, by a watchdog; the queued one is served or closed by someone, a work order unless *)
(* an order filed again pins its lane (work-order-watch.sh, remediate.sh). The two work orders are alike. *)
Status == IF lane = "rem" THEN cm[r1].st ELSE wcm[w1].st
OrdersEnd ==
  /\ Status = "claimed" ~> Status # "claimed"
  /\ Status = "pending" ~> (Status # "pending" \/ (lane = "wo" /\ Wo!Pinned("wo")))

(* An alert that keeps firing gets its claim in the end, whatever else flaps and storms, where a cooldown is *)
(* longer than what the others' runs take of it (respond.sh). x1 and x2 are alike, but in a storm. *)
AlertIsClaimed == (\E l \in DOMAIN Scales : lane = l /\ Al(l)!Started(x2)) ~>
                  (\E l \in DOMAIN Scales : lane = l /\ Al(l)!Answered(x2))
=============================================================================
