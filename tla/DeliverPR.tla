------------------------------ MODULE DeliverPR ------------------------------
(***************************************************************************)
(* The delivery of one reviewed pull request                               *)
(* (scripts/upgrade-agent/deliver_reviewed_pr.py): preflight, a look at    *)
(* the head and its required checks, the squash merge pinned to the        *)
(* reviewed head, a second look, and only then the Flux targets, one after *)
(* the other.  Meanwhile the branch is pushed to, checks run again, and    *)
(* another invocation or a person merges or closes the pull request.       *)
(***************************************************************************)
EXTENDS Naturals, FiniteSets

CONSTANTS
  Runs,        \* invocations of the command
  Required,    \* names of the profile's required checks
  Targets,     \* Flux targets of a reconciling delivery, in their order
  MaxPushes,   \* bound: commits after the first
  MaxReruns    \* bound: checks whose items change after they were reported

(* What is assumed of the constants. *)
DeliverAssumption ==
  /\ IsFiniteSet(Runs) /\ Runs \cap {"other", "nobody"} = {}
  /\ Required # {} /\ Targets \in Nat
  /\ MaxPushes \in Nat /\ MaxReruns \in Nat

VARIABLES
  gHead,     \* the head of the branch: commits are numbered
  gItems,    \* commit and check name -> the outcomes of the items in the rollup
  gState,    \* the pull request: OPEN, MERGED, CLOSED
  gMerged,   \* the commit that was merged, 0 before
  gBy,       \* history: who merged: a run, "other", "nobody"
  gReruns,
  dAt,       \* run -> where it is
  dHead,     \* run -> --head, which is --reviewed-head
  dSource,   \* run -> --source-only
  dDone,     \* run -> Flux targets reconciled
  dGreen     \* history: run -> commits it saw with all required checks green

vars == <<gHead, gItems, gState, gMerged, gBy, gReruns, dAt, dHead, dSource, dDone, dGreen>>
GitHub == <<gHead, gItems, gState, gMerged, gBy, gReruns>>
Flags == <<dHead, dSource>>

Commits == 1..(MaxPushes + 1)

(* check_outcome: running, nonzero and unknown are refused alike.          *)
Outcomes == {"green", "other"}

Init ==
  /\ gHead = 1 /\ gItems = [h \in Commits |-> [n \in Required |-> {}]]
  /\ gState = "OPEN" /\ gMerged = 0 /\ gBy = "nobody" /\ gReruns = 0
  /\ dAt = [d \in Runs |-> "new"] /\ dHead = [d \in Runs |-> 0] /\ dSource = [d \in Runs |-> TRUE]
  /\ dDone = [d \in Runs |-> 0] /\ dGreen = [d \in Runs |-> {}]

Goes(d, pc) == dAt' = [dAt EXCEPT ![d] = pc]

----------------------------------------------------------------------------
(* The command.                                                            *)

(* parse_args and policy_for: what was reviewed is some commit that exists,*)
(* the head of now or an earlier one.                                      *)
ParseArgs(d) ==
  /\ dAt[d] = "new" /\ Goes(d, "preflight")
  /\ \E h \in 1..gHead : dHead' = [dHead EXCEPT ![d] = h]
  /\ \E s \in BOOLEAN : dSource' = [dSource EXCEPT ![d] = s]
  /\ UNCHANGED <<GitHub, dDone, dGreen>>

(* run_checked: a call that fails or times out ends the command.           *)
Fails(d) ==
  /\ dAt[d] \in {"preflight", "look", "merge", "verify", "flux"} /\ Goes(d, "failed")
  /\ UNCHANGED <<GitHub, Flags, dDone, dGreen>>

Preflight(d) ==
  /\ dAt[d] = "preflight" /\ Goes(d, "look") /\ UNCHANGED <<GitHub, Flags, dDone, dGreen>>

(* required_ci_blocker: every name has items, and all of them are green.   *)
CiBlocked(h) == \E n \in Required : gItems[h][n] # {"green"}

(* ensure_ready_to_merge on one view of head, state and rollup.            *)
Ready(d) == gHead = dHead[d] /\ gState = "OPEN" /\ ~CiBlocked(gHead)

EnsureReady(d) ==
  /\ dAt[d] = "look" /\ Goes(d, IF Ready(d) THEN "merge" ELSE "failed")
  /\ dGreen' = [dGreen EXCEPT ![d] =
                  IF \A n \in Required : gItems[gHead][n] = {"green"} THEN @ \cup {gHead} ELSE @]
  /\ UNCHANGED <<GitHub, Flags, dDone>>

(* gh pr merge --match-head-commit. GitHub compares the head as it merges. *)
MergeLands(d) ==
  /\ gState = "OPEN" /\ gHead = dHead[d]
  /\ gState' = "MERGED" /\ gMerged' = gHead /\ gBy' = d /\ UNCHANGED <<gHead, gItems, gReruns>>

(* The call reports success, or the reply is lost although it landed; of a *)
(* pull request merged already gh reports success too.                     *)
Merge(d) ==
  /\ dAt[d] = "merge"
  /\ \/ MergeLands(d) /\ \E pc \in {"verify", "failed"} : Goes(d, pc)
     \/ gState = "MERGED" /\ Goes(d, "verify") /\ UNCHANGED GitHub
  /\ UNCHANGED <<Flags, dDone, dGreen>>

(* ensure_merged on a second view.                                         *)
Verified(d) == gHead = dHead[d] /\ gState = "MERGED"

EnsureMerged(d) ==
  /\ dAt[d] = "verify"
  /\ Goes(d, IF ~Verified(d) THEN "failed" ELSE IF dSource[d] \/ Targets = 0 THEN "done" ELSE "flux")
  /\ UNCHANGED <<GitHub, Flags, dDone, dGreen>>

Reconcile(d) ==
  /\ dAt[d] = "flux" /\ dDone' = [dDone EXCEPT ![d] = @ + 1]
  /\ Goes(d, IF dDone'[d] = Targets THEN "done" ELSE "flux")
  /\ UNCHANGED <<GitHub, Flags, dGreen>>

----------------------------------------------------------------------------
(* GitHub and other people.  A merged pull request keeps its head.         *)

Push ==
  /\ gState = "OPEN" /\ gHead \in 1..MaxPushes /\ gHead' = gHead + 1
  /\ UNCHANGED <<gItems, gState, gMerged, gBy, gReruns, dAt, Flags, dDone, dGreen>>

Report(n) ==
  /\ gItems[gHead][n] = {}
  /\ \E o \in Outcomes : gItems' = [gItems EXCEPT ![gHead][n] = {o}]
  /\ UNCHANGED <<gHead, gState, gMerged, gBy, gReruns, dAt, Flags, dDone, dGreen>>

(* A check runs again: its item changes, or a second one appears beside it.*)
Rerun(n) ==
  /\ gItems[gHead][n] # {} /\ gReruns < MaxReruns /\ gReruns' = gReruns + 1
  /\ \E o \in Outcomes : \E kept \in {{}, gItems[gHead][n]} :
       gItems' = [gItems EXCEPT ![gHead][n] = kept \cup {o}]
  /\ UNCHANGED <<gHead, gState, gMerged, gBy, dAt, Flags, dDone, dGreen>>

OthersMerge ==
  /\ gState = "OPEN" /\ gState' = "MERGED" /\ gMerged' = gHead /\ gBy' = "other"
  /\ UNCHANGED <<gHead, gItems, gReruns, dAt, Flags, dDone, dGreen>>

Close ==
  /\ gState = "OPEN" /\ gState' = "CLOSED"
  /\ UNCHANGED <<gHead, gItems, gMerged, gBy, gReruns, dAt, Flags, dDone, dGreen>>

Deliver(d) ==
  ParseArgs(d) \/ Preflight(d) \/ EnsureReady(d) \/ Merge(d) \/ EnsureMerged(d) \/ Reconcile(d) \/ Fails(d)
World == Push \/ OthersMerge \/ Close \/ \E n \in Required : Report(n) \/ Rerun(n)
Next == World \/ \E d \in Runs : Deliver(d)

(* Every call of the command has a timeout.                                *)
Spec == Init /\ [][Next]_vars /\ \A d \in Runs : WF_vars(Deliver(d))

----------------------------------------------------------------------------
TypeOK ==
  /\ gHead \in Commits /\ gItems \in [Commits -> [Required -> SUBSET Outcomes]]
  /\ gState \in {"OPEN", "MERGED", "CLOSED"} /\ gMerged \in 0..(MaxPushes + 1)
  /\ gBy \in Runs \cup {"other", "nobody"} /\ gReruns \in 0..MaxReruns
  /\ dAt \in [Runs -> {"new", "preflight", "look", "merge", "verify", "flux", "done", "failed"}]
  /\ dHead \in [Runs -> 0..(MaxPushes + 1)] /\ dSource \in [Runs -> BOOLEAN]
  /\ dDone \in [Runs -> 0..Targets] /\ dGreen \in [Runs -> SUBSET Commits]

(* However pushes, reruns and other merges fall between the two looks and  *)
(* the merge: what a delivery merged is the commit that was reviewed and   *)
(* that it saw green as a whole, and no target is reconciled unless that   *)
(* commit is what was merged, whoever merged it.                           *)
ReviewedMerge ==
  \A d \in Runs :
    /\ gBy = d => gMerged = dHead[d] /\ gMerged \in dGreen[d]
    /\ dDone[d] > 0 => gMerged = dHead[d]

(* Every invocation ends, refused or done.                                 *)
Ended == \A d \in Runs : dAt[d] \in {"done", "failed"}
=============================================================================
