----------------------------- MODULE JobService -----------------------------
(***************************************************************************)
(* What an authoring service promises about the jobs it records, whatever  *)
(* its queue, its locks and its faults: one job at a time is worked on, a  *)
(* verdict on record is final, and a job is recorded as completed only     *)
(* after the work on it has ended.  AudioJobs implements it.               *)
(***************************************************************************)
EXTENDS FiniteSets

CONSTANT Jobs

VARIABLES record,  \* each job's durable record
          working  \* the jobs a generator is working on

Final == {"completed", "failed", "cancelled", "interrupted"}

Init ==
  /\ record \in [Jobs -> {"none", "open"} \cup Final]
  /\ working = {}

Accept(j) ==
  /\ record[j] = "none"
  /\ record' = [record EXCEPT ![j] = "open"]
  /\ UNCHANGED working

Begin(j) ==
  /\ working = {}
  /\ record[j] \notin {"none", "completed", "failed"}
  /\ working' = {j}
  /\ UNCHANGED record

End ==
  /\ working # {}
  /\ working' = {}
  /\ UNCHANGED record

(* Jobs get their verdict, several at once when the service stops.         *)
Settle(S, v) ==
  /\ \A j \in S : record[j] \in {"none", "open"}
  /\ v = "completed" => S \cap working = {} /\ \A j \in S : record[j] = "open"
  /\ record' = [j \in Jobs |-> IF j \in S THEN v ELSE record[j]]
  /\ UNCHANGED working

Next ==
  \/ \E j \in Jobs : Accept(j) \/ Begin(j)
  \/ End
  \/ \E S \in SUBSET Jobs, v \in Final : Settle(S, v)

Spec == Init /\ [][Next]_<<record, working>>
=============================================================================
