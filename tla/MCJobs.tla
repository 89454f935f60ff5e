------------------------------- MODULE MCJobs --------------------------------
(* Workloads in small instances for TLC: two deliveries and two exchanges  *)
(* of two files, one owned Job beside somebody else's, two readers, two    *)
(* held objects, two video jobs beside an audio job, two edits of one      *)
(* desktop, two runs of the delivery, one caller of the ledger.            *)
EXTENDS Workloads

CONSTANTS g1, h1, m1, m2

(* The second manager's route exists already, the first's is in a pull request. *)
MCDiscovery == <<"version", "ceph-status">>
MCRouteOf == [h \in {h1} |-> m1]
MCPlans == {[reserve |-> 1, deadline |-> 4]}
MCExpiry == [g \in {g1} |-> 2]

(* What does not run has one initial state. *)
MCInit ==
  /\ OneInit
  /\ which # "baseline" => oKind = "live"
  /\ which # "read" => qChanged = {}
  /\ which # "ledger" => lRoute = m1

MCSpec == MCInit /\ [][OneNext]_onevars /\ OneFairness
=============================================================================
