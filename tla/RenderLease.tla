---------------------------- MODULE RenderLease -----------------------------
(***************************************************************************)
(* Two services share one rack of GPUs: the video API (wan-video api.py),  *)
(* which submits prompts to the ComfyUI engine beside it, and the Foley    *)
(* sidecar (controlfoley/service.py), which runs a child process of its    *)
(* own.  They exclude each other by a file lock, their health and the      *)
(* engine's queue; someone else may submit prompts to the engine           *)
(* directly.  Requests to the engine may be lost, answered late or taken   *)
(* after their sender gave up; each service and the engine may die.        *)
(***************************************************************************)
EXTENDS Integers, FiniteSets

CONSTANTS Vid,       \* video jobs, which are also their prompts (client_id)
          Aud,       \* audio jobs
          Foreign,   \* prompts submitted by someone else
          MaxDeaths  \* bound: deaths of a service or of the engine

(* What is assumed of the constants. *)
LeaseAssumption ==
  /\ MaxDeaths \in Nat /\ Vid \cap Foreign = {}
  /\ "nil" \notin Vid \cup Aud \cup Foreign

Nil == "nil"
Final == {"succeeded", "failed"}

VARIABLES
  rRec,    \* each job's record on disk
  rLease,  \* who holds compute.lock
  rApi,    \* the API: up, active job, UNSAFE
  rV,      \* its thread: where it is, its job, what it saw of the queue
  rA,      \* the Foley thread: where it is and its job
  rChild,  \* the Foley child is working
  rPend, rRun,  \* the engine: prompts pending, prompt running
  rHist,   \* prompts the engine has finished with
  rFly,    \* prompts sent and not yet taken by the engine
  rLate,   \* those of them whose sender has given up or died
  rDeaths

engineVars == <<rPend, rRun, rHist, rFly, rLate>>
apiVars    == <<rApi, rV>>
foleyVars  == <<rA, rChild>>
vars == <<rRec, rLease, apiVars, foleyVars, engineVars, rDeaths>>

Idle == [pc |-> "idle", job |-> Nil, run |-> Nil, pend |-> {}]

Init ==
  /\ rRec = [j \in Vid \cup Aud |-> "none"] /\ rLease = Nil
  /\ rApi = [up |-> "recover", active |-> Nil, unsafe |-> FALSE]
  /\ rV = Idle /\ rA = [pc |-> "idle", job |-> Nil] /\ rChild = FALSE
  /\ rPend = {} /\ rRun = Nil /\ rHist = {} /\ rFly = {} /\ rLate = {}
  /\ rDeaths = 0

Busy == rRun # Nil \/ rPend # {}

-----------------------------------------------------------------------------
(* The video API: do_POST, generate.                                       *)

Goto(s) == rV' = [rV EXCEPT !.pc = s]

Accept(j) ==
  /\ rApi.up = "up" /\ rApi.active = Nil /\ ~rApi.unsafe /\ rRec[j] = "none"
  /\ rLease = Nil /\ rLease' = "video"
  /\ rRec' = [rRec EXCEPT ![j] = "queued"]
  /\ rApi' = [rApi EXCEPT !.active = j]
  /\ rV' = [Idle EXCEPT !.pc = "check", !.job = j]
  /\ UNCHANGED <<foleyVars, engineVars, rDeaths>>

(* The end of generate: the record, then the lease and the place.          *)
Finish(state, unsafe) ==
  /\ rRec' = [rRec EXCEPT ![rV.job] = state]
  /\ rLease' = Nil /\ rV' = Idle
  /\ rApi' = [rApi EXCEPT !.active = Nil, !.unsafe = @ \/ unsafe]

(* GPUs idle, queue empty; or else refused before anything was sent.       *)
Check ==
  /\ rV.pc = "check"
  /\ \/ ~Busy /\ Goto("send") /\ UNCHANGED <<rRec, rLease, rApi>>
     \/ Finish("failed", FALSE)
  /\ UNCHANGED <<foleyVars, engineVars, rDeaths>>

Send ==
  /\ rV.pc = "send"
  /\ rFly' = rFly \cup {rV.job} /\ Goto("sent")
  /\ UNCHANGED <<rRec, rLease, rApi, foleyVars, rPend, rRun, rHist, rLate, rDeaths>>

Reply ==
  /\ rV.pc = "sent" /\ rV.job \notin rFly
  /\ rV.job \in rPend \cup {rRun} \cup rHist
  /\ rRec' = [rRec EXCEPT ![rV.job] = "running"] /\ Goto("poll")
  /\ UNCHANGED <<rLease, rApi, foleyVars, engineVars, rDeaths>>

(* The history shows the prompt done, with its MP4.                        *)
Succeed ==
  /\ rV.pc = "poll" /\ rV.job \in rHist /\ Finish("succeeded", FALSE)
  /\ UNCHANGED <<foleyVars, engineVars, rDeaths>>

(* No answer, a failure, no MP4, too many misses, twenty minutes.          *)
GiveUp ==
  /\ rV.pc \in {"sent", "poll"} /\ Goto("clean")
  /\ rLate' = rLate \cup (rFly \cap {rV.job})
  /\ UNCHANGED <<rRec, rLease, rApi, foleyVars, rPend, rRun, rHist, rFly, rDeaths>>

(* The clean-up after a failure: look at the queue once ...                *)
Look ==
  /\ rV.pc = "clean"
  /\ \/ /\ rV' = [rV EXCEPT !.pc = "delete", !.run = rRun,
                            !.pend = rPend \cap {rV.job}]
        /\ UNCHANGED <<rRec, rLease, rApi>>
     \/ Finish("failed", TRUE)
  /\ UNCHANGED <<foleyVars, engineVars, rDeaths>>

(* ... delete what was seen pending of ours; hold if others' work was seen *)
(* running ...                                                             *)
DeletePending ==
  /\ rV.pc = "delete"
  /\ rPend' = rPend \ rV.pend
  /\ \/ /\ rV.run \notin {Nil, rV.job} /\ Finish("failed", TRUE)
     \/ /\ rV.run \in {Nil, rV.job}
        /\ Goto(IF rV.run = Nil THEN "settle" ELSE "stop")
        /\ UNCHANGED <<rRec, rLease, rApi>>
  /\ UNCHANGED <<foleyVars, rRun, rHist, rFly, rLate, rDeaths>>

(* /interrupt stops whatever runs by now.                                  *)
Interrupted == rRun' = Nil /\ rHist' = rHist \cup ({rRun} \ {Nil})

Interrupt ==
  /\ rV.pc = "stop" /\ Interrupted /\ Goto("settle")
  /\ UNCHANGED <<rRec, rLease, rApi, foleyVars, rPend, rFly, rLate, rDeaths>>

(* ... and wait a minute for the engine to stand still, or hold.           *)
Settle ==
  /\ rV.pc = "settle"
  /\ \/ rRun = Nil /\ Finish("failed", FALSE)
     \/ Finish("failed", TRUE)
  /\ UNCHANGED <<foleyVars, engineVars, rDeaths>>

Thread ==
  \/ Check \/ Send \/ Reply \/ Succeed \/ GiveUp
  \/ Look \/ DeletePending \/ Interrupt \/ Settle

-----------------------------------------------------------------------------
(* recover, at the start of the API.                                       *)

Unfinished == {j \in Vid : rRec[j] \in {"queued", "running"}}
Recorded   == {j \in Vid : rRec[j] # "none"}
Up(unsafe) == rApi' = [up |-> "up", active |-> Nil, unsafe |-> unsafe]

(* Unknown work, or an engine that does not answer, is a hold.             *)
Recover ==
  /\ rApi.up = "recover"
  /\ \/ /\ (rPend \cup {rRun}) \ {Nil} \subseteq Recorded
        /\ rV' = [rV EXCEPT !.run = rRun, !.pend = rPend]
        /\ rApi' = [rApi EXCEPT !.up = "delete"]
     \/ Up(TRUE) /\ UNCHANGED rV
  /\ UNCHANGED <<rRec, rLease, foleyVars, engineVars, rDeaths>>

RecoverDelete ==
  /\ rApi.up = "delete" /\ rPend' = rPend \ rV.pend
  /\ rApi' = [rApi EXCEPT !.up = IF rV.run = Nil THEN "record" ELSE "stop"]
  /\ UNCHANGED <<rRec, rLease, rV, foleyVars, rRun, rHist, rFly, rLate, rDeaths>>

RecoverInterrupt ==
  /\ rApi.up = "stop" /\ Interrupted /\ rApi' = [rApi EXCEPT !.up = "settle"]
  /\ UNCHANGED <<rRec, rLease, rV, foleyVars, rPend, rFly, rLate, rDeaths>>

RecoverSettle ==
  /\ rApi.up = "settle"
  /\ \/ rRun = Nil /\ rApi' = [rApi EXCEPT !.up = "record"] /\ UNCHANGED rV
     \/ Up(TRUE) /\ rV' = Idle
  /\ UNCHANGED <<rRec, rLease, foleyVars, engineVars, rDeaths>>

RecoverRecord ==
  /\ rApi.up = "record" /\ Up(FALSE) /\ rV' = Idle
  /\ rRec' = [j \in DOMAIN rRec |->
                IF j \in Unfinished THEN "failed" ELSE rRec[j]]
  /\ UNCHANGED <<rLease, foleyVars, engineVars, rDeaths>>

Recovery ==
  Recover \/ RecoverDelete \/ RecoverInterrupt \/ RecoverSettle \/ RecoverRecord

-----------------------------------------------------------------------------
(* The Foley sidecar.                                                      *)

AcceptAudio(j) ==
  /\ rA.pc = "idle" /\ rRec[j] = "none"
  /\ rLease = Nil /\ rLease' = "audio"
  /\ rRec' = [rRec EXCEPT ![j] = "queued"]
  /\ rA' = [pc |-> "idle1", job |-> j]
  /\ UNCHANGED <<apiVars, rChild, engineVars, rDeaths>>

FinishAudio(state) ==
  /\ rRec' = [rRec EXCEPT ![rA.job] = state]
  /\ rLease' = Nil /\ rChild' = FALSE /\ rA' = [pc |-> "idle", job |-> Nil]

(* idle: the API accepts jobs and has none, the engine has none.           *)
EngineIdle ==
  rApi.up = "up" /\ ~rApi.unsafe /\ rApi.active = Nil /\ ~Busy

(* idle and cool, caches evicted, idle again after the window is cut.      *)
Prepare ==
  /\ rA.pc \in {"idle1", "free", "window"}
  /\ \/ /\ EngineIdle
        /\ rA' = [rA EXCEPT !.pc = CASE @ = "idle1" -> "free"
                                     [] @ = "free" -> "window"
                                     [] OTHER -> "spawn"]
        /\ UNCHANGED <<rRec, rLease, rChild>>
     \/ FinishAudio("failed")
  /\ UNCHANGED <<apiVars, engineVars, rDeaths>>

Spawn ==
  /\ rA.pc = "spawn"
  /\ rRec' = [rRec EXCEPT ![rA.job] = "running"]
  /\ rChild' = TRUE /\ rA' = [rA EXCEPT !.pc = "child"]
  /\ UNCHANGED <<rLease, apiVars, engineVars, rDeaths>>

(* Every two seconds the engine must still be idle; otherwise, or at the   *)
(* time-out, or hot, or done badly, the child is killed and waited for.    *)
Watch ==
  /\ rA.pc = "child"
  /\ \/ EngineIdle /\ FinishAudio("succeeded")
     \/ FinishAudio("failed")
  /\ UNCHANGED <<apiVars, engineVars, rDeaths>>

Sidecar == Prepare \/ Spawn \/ Watch

-----------------------------------------------------------------------------
(* The engine, others, and deaths.                                         *)

Take(p) ==
  /\ p \in rFly /\ rFly' = rFly \ {p}
  /\ rPend' \in {rPend, rPend \cup {p}}
  /\ UNCHANGED <<rRec, rLease, apiVars, foleyVars, rRun, rHist, rLate, rDeaths>>

Run(p) ==
  /\ rRun = Nil /\ p \in rPend
  /\ rRun' = p /\ rPend' = rPend \ {p}
  /\ UNCHANGED <<rRec, rLease, apiVars, foleyVars, rHist, rFly, rLate, rDeaths>>

Done ==
  /\ rRun # Nil /\ rHist' = rHist \cup {rRun} /\ rRun' = Nil
  /\ UNCHANGED <<rRec, rLease, apiVars, foleyVars, rPend, rFly, rLate, rDeaths>>

Engine == (\E p \in Vid \cup Foreign : Take(p) \/ Run(p)) \/ Done

SubmitForeign(p) ==
  /\ p \notin rPend \cup rHist \cup {rRun} /\ rPend' = rPend \cup {p}
  /\ UNCHANGED <<rRec, rLease, apiVars, foleyVars, rRun, rHist, rFly, rLate, rDeaths>>

Death == rDeaths < MaxDeaths /\ rDeaths' = rDeaths + 1

ApiDies ==
  /\ Death /\ rApi' = [up |-> "recover", active |-> Nil, unsafe |-> FALSE]
  /\ rV' = Idle /\ rLease' = IF rLease = "video" THEN Nil ELSE rLease
  /\ rLate' = rLate \cup (rFly \cap {rV.job})
  /\ UNCHANGED <<rRec, foleyVars, rPend, rRun, rHist, rFly>>

(* Its child dies with it; at its start, what was open has failed.         *)
FoleyDies ==
  /\ Death /\ rA' = [pc |-> "idle", job |-> Nil] /\ rChild' = FALSE
  /\ rLease' = IF rLease = "audio" THEN Nil ELSE rLease
  /\ rRec' = [j \in DOMAIN rRec |-> IF j \in Aud /\ rRec[j] \in {"queued", "running"}
                                    THEN "failed" ELSE rRec[j]]
  /\ UNCHANGED <<apiVars, engineVars>>

EngineDies ==
  /\ Death /\ rPend' = {} /\ rRun' = Nil /\ rHist' = {}
  /\ UNCHANGED <<rRec, rLease, apiVars, foleyVars, rFly, rLate>>

Next ==
  \/ Thread \/ Recovery \/ Sidecar \/ Engine
  \/ ApiDies \/ FoleyDies \/ EngineDies
  \/ \E j \in Vid : Accept(j)
  \/ \E j \in Aud : AcceptAudio(j)
  \/ \E p \in Foreign : SubmitForeign(p)

(* The threads run on; what the engine does is not relied on.              *)
Fairness == WF_vars(Thread) /\ WF_vars(Recovery) /\ WF_vars(Sidecar)

Spec == Init /\ [][Next]_vars /\ Fairness

-----------------------------------------------------------------------------
(* Properties.                                                             *)

(* While the Foley child works the engine renders no video of the API's,   *)
(* unless the engine took its prompt after the API had given it up.        *)
GpuExclusive == rChild => rRun \notin Vid \ rLate

(* An API that accepts jobs and has none left nothing of its own in the    *)
(* engine, again but for what the engine took too late.                    *)
NothingLeftBehind ==
  (rApi.up = "up" /\ rApi.active = Nil /\ ~rApi.unsafe)
    => (rPend \cup {rRun}) \cap Vid \subseteq rLate

(* A job in hand gets its verdict, or the API holds for an inspection.     *)
Settled == rApi.unsafe \/ \A j \in Vid \cup Aud : rRec[j] \in {"none"} \cup Final
JobsEnd == []<>Settled
=============================================================================
