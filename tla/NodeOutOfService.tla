-------------------------- MODULE NodeOutOfService --------------------------
(***************************************************************************)
(* The node-out-of-service CronJob: every minute it lists the nodes, puts  *)
(* the out-of-service taint on a node whose kubelet has been silent for    *)
(* longer than its class allows, and takes it off a node that is Ready     *)
(* again.  The taint makes Kubernetes force-detach the node's volumes, so  *)
(* it must only land on a node that is really gone.                        *)
(*                                                                         *)
(* A Job decides from three listings (nodes, control-plane names, excluded *)
(* names) against a `now` taken before them, and mutates node by node; the *)
(* nodes and the labels change between any two of these steps.  One Tick   *)
(* is one minute of schedule.                                              *)
(***************************************************************************)
EXTENDS Naturals, FiniteSets

CONSTANTS
  Nodes,
  Masters,      \* the control-plane nodes
  Threshold,    \* THRESHOLD_SECONDS, in ticks
  CpThreshold,  \* CP_THRESHOLD_SECONDS, in ticks
  Settle,       \* READY_SETTLE_SECONDS, in ticks
  MaxUnready,   \* MAX_UNREADY
  JobSpan,      \* activeDeadlineSeconds: ticks a Job may live through
  Labelled,     \* the nodes whose exclude label a human may set or clear (a bound)
  MaxAge,       \* how far ages are followed (a bound)
  MaxFaults     \* failed calls and killed Jobs in a behaviour (a bound)

ASSUME NodesAssumption ==
  /\ IsFiniteSet(Nodes) /\ Masters \subseteq Nodes /\ Masters # {}
  /\ Labelled \subseteq Nodes
  /\ Threshold \in Nat /\ CpThreshold \in Nat /\ Settle \in Nat \ {0}
  /\ MaxUnready \in Nat /\ JobSpan \in Nat /\ MaxFaults \in Nat
  /\ MaxAge \in Nat
  /\ MaxAge > Threshold + JobSpan /\ MaxAge > CpThreshold + JobSpan
  /\ MaxAge >= Settle + JobSpan

VARIABLES
  ready,      \* the status of the node's Ready condition
  age,        \* ticks since its lastTransitionTime
  taint,      \* the effect of our taint on the node, or "none"
  excluded,   \* the nodes that carry EXCLUDE_LABEL
  job,        \* the running Job: where it is, ticks since its `now`, what it read
  faults,
  cases,      \* history: the nodes that were a case for the taint during the Job
  backs       \* history: the nodes that were Ready and settled during the Job

cluster == <<ready, age, taint, excluded>>
history == <<cases, backs>>
vars    == <<cluster, job, faults, history>>

Conditions == {"True", "False", "Unknown"}
Effects    == {"none", "NoExecute", "NoSchedule"}
Stages     == {"idle", "list", "masters", "exclude", "apply"}
Reading    == [ready : Conditions, age : 0..MaxAge, tainted : BOOLEAN]
Unread     == [n \in Nodes |-> [ready |-> "True", age |-> 0, tainted |-> FALSE]]
Idle       == [at |-> "idle", ticks |-> 0, view |-> Unread, control |-> {},
               untaint |-> {}, taint |-> {}]

Capped(i, max) == IF i > max THEN max ELSE i

Limit(n, control)  == IF n \in control THEN CpThreshold ELSE Threshold
Effect(n, control) == IF n \in control THEN "NoSchedule" ELSE "NoExecute"

-----------------------------------------------------------------------------
(* History.  A node is a case for the taint when its kubelet is silent for *)
(* longer than its class allows and no more nodes than MaxUnready have a   *)
(* failure nobody adjudicated.                                             *)

Unadjudicated == {n \in Nodes : ready[n] # "True" /\ taint[n] = "none"}
Dead(n)       == ready[n] = "Unknown" /\ taint[n] = "none" /\ age[n] > Limit(n, Masters)
Case(n)       == Dead(n) /\ Cardinality(Unadjudicated) <= MaxUnready
Back(n)       == ready[n] = "True" /\ age[n] >= Settle

(* Both histories end with the Job, which lives for JobSpan ticks at most. *)
Follow ==
  /\ cases' = IF job.at' = "idle" THEN {} ELSE cases \cup {n \in Nodes : Case(n)'}
  /\ backs' = IF job.at' = "idle" THEN {} ELSE backs \cup {n \in Nodes : Back(n)'}

-----------------------------------------------------------------------------
(* The cluster.                                                            *)

(* The condition of a node changes: Unknown when its kubelet falls silent, *)
(* False when the kubelet reports a problem, True when it is healthy.      *)
Change(n, c) ==
  /\ ready[n] # c
  /\ ready' = [ready EXCEPT ![n] = c] /\ age' = [age EXCEPT ![n] = 0]
  /\ UNCHANGED <<taint, excluded, job, faults>>
  /\ Follow

Label(n) ==
  /\ n \in Labelled
  /\ excluded' = IF n \in excluded THEN excluded \ {n} ELSE excluded \cup {n}
  /\ UNCHANGED <<ready, age, taint, job, faults, history>>

(* A minute passes; activeDeadlineSeconds ends a Job before a second one.  *)
Tick ==
  /\ job.at # "idle" => job.ticks < JobSpan
  /\ age' = [n \in Nodes |-> Capped(age[n] + 1, MaxAge)]
  /\ job' = IF job.at = "idle" THEN job ELSE [job EXCEPT !.ticks = @ + 1]
  /\ UNCHANGED <<ready, taint, excluded, faults>>
  /\ Follow

-----------------------------------------------------------------------------
(* The Job.                                                                *)

Fault == faults < MaxFaults /\ faults' = faults + 1

(* concurrencyPolicy: Forbid.  `now` is read.                              *)
Start ==
  /\ job.at = "idle"
  /\ job' = [Idle EXCEPT !.at = "list"]
  /\ UNCHANGED <<cluster, faults>>
  /\ Follow

(* A node's age as of `now`, which is older than the listing.              *)
AgeSeen(n) == IF age[n] > job.ticks THEN age[n] - job.ticks ELSE 0

(* One listing of every node.                                              *)
List ==
  /\ job.at = "list"
  /\ job' = [job EXCEPT !.at = "masters",
       !.view = [n \in Nodes |-> [ready |-> ready[n], age |-> AgeSeen(n),
                                  tainted |-> taint[n] # "none"]]]
  /\ UNCHANGED <<cluster, faults, history>>

(* The names the control-plane selector returns; when it returns none the  *)
(* Job refuses to act.                                                     *)
ListMasters ==
  /\ job.at = "masters"
  /\ \/ job' = [job EXCEPT !.at = "exclude", !.control = Masters] /\ UNCHANGED faults
     \/ job' = Idle /\ Fault      \* the label was renamed: nothing is returned
  /\ UNCHANGED cluster
  /\ Follow

(* Mutants: a tainted node still counts as an open failure; any node that  *)
(* is not Ready is dead; a node is back as soon as it is Ready; the settle *)
(* comparison is turned round.                                             *)
SeenUnreadyAll == {n \in Nodes : job.view[n].ready # "True"}
SeenNotReady   == {n \in Nodes \ excluded :
                     /\ job.view[n].ready # "True" /\ ~job.view[n].tainted
                     /\ job.view[n].age > Limit(n, job.control)}
SeenReady      == {n \in Nodes \ excluded :
                     job.view[n].ready = "True" /\ job.view[n].tainted}

(* What the loop over the listing finds.                                   *)
SeenUnready == {n \in Nodes : job.view[n].ready # "True" /\ ~job.view[n].tainted}
SeenDead    == {n \in Nodes \ excluded :
                  /\ job.view[n].ready = "Unknown" /\ ~job.view[n].tainted
                  /\ job.view[n].age > Limit(n, job.control)}
SeenBack    == {n \in Nodes \ excluded :
                  /\ job.view[n].ready = "True" /\ job.view[n].tainted
                  /\ job.view[n].age >= Settle}
Guarded     == IF Cardinality(SeenUnready) > MaxUnready THEN {} ELSE SeenDead

(* The excluded names are read last, then every node is decided.           *)
Decide ==
  /\ job.at = "exclude"
  /\ job' = [job EXCEPT !.at = "apply", !.view = Unread,
                        !.untaint = SeenBack, !.taint = Guarded]
  /\ UNCHANGED <<cluster, faults, history>>

(* Removal runs first, whatever the guard said.  A mutation that fails is  *)
(* logged and the loop goes on.                                            *)
Untaint(n) ==
  /\ job.at = "apply" /\ n \in job.untaint
  /\ \/ taint' = [taint EXCEPT ![n] = "none"] /\ UNCHANGED faults
     \/ Fault /\ UNCHANGED taint
  /\ job' = [job EXCEPT !.untaint = @ \ {n}]
  /\ UNCHANGED <<ready, age, excluded>>
  /\ Follow

Taint(n) ==
  /\ job.at = "apply" /\ job.untaint = {} /\ n \in job.taint
  /\ \/ taint' = [taint EXCEPT ![n] = Effect(n, job.control)] /\ UNCHANGED faults
     \/ Fault /\ UNCHANGED taint
  /\ job' = [job EXCEPT !.taint = @ \ {n}]
  /\ UNCHANGED <<ready, age, excluded>>
  /\ Follow

Finish ==
  /\ job.at = "apply" /\ job.untaint = {} /\ job.taint = {}
  /\ job' = Idle
  /\ UNCHANGED <<cluster, faults>>
  /\ Follow

(* A listing fails under `set -e`, the deadline passes or the Job's own    *)
(* node dies.                                                              *)
Killed ==
  /\ job.at # "idle" /\ Fault
  /\ job' = Idle
  /\ UNCHANGED cluster
  /\ Follow

Init ==
  /\ ready = [n \in Nodes |-> "True"]
  /\ age = [n \in Nodes |-> MaxAge]
  /\ taint = [n \in Nodes |-> "none"]
  /\ excluded = {}
  /\ job = Idle /\ faults = 0
  /\ cases = {} /\ backs = {}

JobStep == \/ Start \/ List \/ ListMasters \/ Decide \/ Finish
           \/ \E n \in Nodes : Untaint(n) \/ Taint(n)

Next == \/ JobStep \/ Killed \/ Tick
        \/ \E n \in Nodes : Label(n) \/ \E c \in Conditions : Change(n, c)

Spec == Init /\ [][Next]_vars

(* The schedule starts a Job every minute and its calls return or time     *)
(* out; minutes pass, however many Jobs there have been.                   *)
Fairness == WF_vars(JobStep) /\ SF_vars(Tick)
FairSpec == Spec /\ Fairness
-----------------------------------------------------------------------------
(* Properties.                                                             *)

TypeOK ==
  /\ ready \in [Nodes -> Conditions]
  /\ age \in [Nodes -> 0..MaxAge]
  /\ taint \in [Nodes -> Effects]
  /\ excluded \subseteq Nodes
  /\ job \in [at : Stages, ticks : 0..JobSpan, view : [Nodes -> Reading],
              control : SUBSET Masters, untaint : SUBSET Nodes, taint : SUBSET Nodes]
  /\ faults \in 0..MaxFaults
  /\ cases \subseteq Nodes /\ backs \subseteq Nodes

(* A taint that lands was justified at some moment of the Job that applies *)
(* it: the node's kubelet had been silent past the limit of its class, and *)
(* no more than MaxUnready nodes had an open failure.  A master gets the   *)
(* effect that leaves its DaemonSets alone.                                *)
TaintIsJustified ==
  [][\A n \in Nodes : taint[n] = "none" /\ taint'[n] # "none" =>
       n \in cases /\ taint'[n] = Effect(n, Masters)]_vars

(* The taint only comes off a node that was Ready and settled while the    *)
(* Job ran: pods must not land before the node can attach their volumes.   *)
UntaintIsSettled ==
  [][\A n \in Nodes : taint[n] # "none" /\ taint'[n] = "none" =>
       n \in backs]_vars

(* What the guard lets through: n is gone for good, nobody excluded it and *)
(* no other open failure uses up the budget.                               *)
Lost(n)     == ready[n] = "Unknown" /\ n \notin excluded
Alone(n)    == \A m \in Nodes \ {n} : m \notin Unadjudicated
(* A node that stays silent is tainted in the end, although the nodes      *)
(* lost and adjudicated before it are still down: one long-dead node does  *)
(* not wedge the remedy for the next.                                      *)
LostIsTainted ==
  MaxUnready >= 1 => \A n \in Nodes : <>[](Lost(n) /\ Alone(n)) => <>[](taint[n] # "none")

(* A node that stays Ready gets back into service, guard or no guard.      *)
ReturnedIsUntainted ==
  \A n \in Nodes : <>[](ready[n] = "True" /\ n \notin excluded) => <>[](taint[n] = "none")
=============================================================================
