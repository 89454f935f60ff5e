------------------------------ MODULE MCLibrary ------------------------------
(* LibraryJobs in small instances for TLC: two books of different authors  *)
(* with one title and one run at a time, three copies of a retained file   *)
(* of which one is the keeper, one maintenance.                            *)
EXTENDS LibraryJobs

CONSTANTS r1, p1, p2, p3

MCAuthor == [b \in {1, 2} |-> b]
MCTitle == [b \in {1, 2} |-> 1]

(* What does not run has one initial state. *)
MCInit ==
  /\ OneInit
  /\ which # "convert" => \A b \in Books : eSrc[b] = 0 /\ eLib[b] = E!None
  /\ which # "retain" => vPtr = p1
  /\ which # "maintain" => mAct = "forward"

MCSpec == MCInit /\ [][OneNext]_onevars /\ OneFairness
=============================================================================
