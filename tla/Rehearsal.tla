----------------------------- MODULE Rehearsal -----------------------------
(***************************************************************************)
(* normal-rehearsal.py: an exercise suspends Flux objects one by one while *)
(* an independent recovery watch waits to take everything back. The watch  *)
(* first retires the exercise's process group, then makes every request    *)
(* the exercise may have left in flight fail, by moving the resource       *)
(* version of each object, and only then releases the objects. Processes   *)
(* end by themselves at any moment and their numbers are used again.       *)
(***************************************************************************)
EXTENDS Naturals, FiniteSets

CONSTANTS Objects,     \* the Kustomizations and the GitRepository
          MaxTouches,  \* bound: other writes to an object
          MaxCrashes   \* bound: ends of the watch process

(* What is assumed of the constants. *)
RehearsalAssumption == MaxTouches \in Nat /\ MaxCrashes \in Nat

VARIABLES
  nEx,        \* the exercise: off, starting, holding, ended
  nAlive, nStopped,  \* members of its process group: leader, child
  nReused,    \* whose process numbers foreign processes have now
  nHurt,      \* foreign processes that got a signal
  nOwner, nCustody, nRetired,  \* exercise-owner.json, the captured members, the retirement receipt
  nCancel, nRestore,  \* the cancel file; recovery has started
  nWatch, nTarget,    \* the watch: its step, the member it is about to signal
  nSig,       \* the signal under way, and whose process its handle is
  nFenced, nFencing,
  nHeld,      \* suspended objects
  nSeen, nReq,        \* the row the exercise read, its PATCH: none, current, stale
  nTouches, nCrashes

vars == <<nEx, nAlive, nStopped, nReused, nHurt, nOwner, nCustody, nRetired, nCancel, nRestore,
          nWatch, nTarget, nSig, nFenced, nFencing, nHeld, nSeen, nReq, nTouches, nCrashes>>
procVars == <<nAlive, nStopped, nReused, nHurt>>
fileVars == <<nOwner, nCustody, nRetired, nCancel, nRestore>>
watchVars == <<nWatch, nTarget, nSig, nFenced, nFencing>>
apiVars == <<nHeld, nSeen, nReq>>

NoSignal == [sig |-> "none", fd |-> "none"]

Init ==
  /\ nEx = "off" /\ nAlive = {} /\ nStopped = {} /\ nReused = {} /\ nHurt = {}
  /\ nOwner = FALSE /\ nCustody = {} /\ nRetired = FALSE /\ nCancel = FALSE /\ nRestore = FALSE
  /\ nWatch = "armed" /\ nTarget = "none" /\ nSig = NoSignal /\ nFenced = {} /\ nFencing = "none"
  /\ nHeld = {} /\ nSeen = [o \in Objects |-> "none"] /\ nReq = [o \in Objects |-> "none"]
  /\ nTouches = 0 /\ nCrashes = 0

(* A write to o: whoever read it before has an old resource version. *)
Aged(f, o) == [f EXCEPT ![o] = IF @ = "current" THEN "stale" ELSE @]
Write(o) == nSeen' = Aged(nSeen, o) /\ nReq' = Aged(nReq, o)

-----------------------------------------------------------------------------
(* The exercise. *)

Holding == nEx = "holding" /\ "leader" \in nAlive \ nStopped
InRetirement == nWatch \in {"retire", "open", "check", "send", "wait", "pick"}   \* the registration lock

StartExercise ==
  /\ nEx = "off" /\ nEx' = "starting" /\ nAlive' = {"leader"}
  /\ UNCHANGED <<nStopped, nReused, nHurt, fileVars, watchVars, apiVars, nTouches, nCrashes>>

(* Mutant: an exercise registers whenever it comes. *)
AnyTime == TRUE
Open == ~nCancel /\ ~nRestore /\ nWatch = "armed"

Register ==
  /\ nEx = "starting" /\ "leader" \in nAlive /\ ~InRetirement
  /\ IF Open THEN nEx' = "holding" /\ nOwner' = TRUE /\ UNCHANGED nAlive
             ELSE nEx' = "ended" /\ nAlive' = nAlive \ {"leader"} /\ UNCHANGED nOwner
  /\ UNCHANGED <<nStopped, nReused, nHurt, nCustody, nRetired, nCancel, nRestore, watchVars, apiVars,
                 nTouches, nCrashes>>

(* assert_watch, then the object as it is. *)
ReadObject(o) ==
  /\ Holding /\ "child" \notin nAlive /\ nSeen[o] = "none" /\ o \notin nHeld
  /\ nSeen' = [nSeen EXCEPT ![o] = "current"]
  /\ UNCHANGED <<nEx, procVars, fileVars, watchVars, nHeld, nReq, nTouches, nCrashes>>

(* hold_patch, which tests the version read, through a kubectl: a child of *)
(* another number and birth than the one before, and in nobody's custody.  *)
SendHold(o) ==
  /\ Holding /\ "child" \notin nAlive /\ nSeen[o] # "none" /\ nReq[o] = "none"
  /\ nAlive' = nAlive \cup {"child"} /\ nReq' = [nReq EXCEPT ![o] = nSeen[o]]
  /\ nSeen' = [nSeen EXCEPT ![o] = "none"] /\ nStopped' = nStopped \ {"child"}
  /\ nReused' = nReused \ {"child"} /\ nCustody' = nCustody \ {"child"}
  /\ UNCHANGED <<nEx, nHurt, nOwner, nRetired, nCancel, nRestore, watchVars, nHeld, nTouches, nCrashes>>

(* The end of the exercise, well or not: finally, cancel. *)
EndExercise ==
  /\ Holding /\ nEx' = "ended" /\ nCancel' = TRUE /\ nAlive' = nAlive \ {"leader", "child"}
  /\ UNCHANGED <<nStopped, nReused, nHurt, nOwner, nCustody, nRetired, nRestore, watchVars, apiVars,
                 nTouches, nCrashes>>

(* The server takes the request, even if the client is gone. *)
Land(o) ==
  /\ nReq[o] # "none"
  /\ IF nReq[o] = "current"
     THEN nHeld' = nHeld \cup {o} /\ nSeen' = Aged(nSeen, o)
     ELSE UNCHANGED <<nHeld, nSeen>>
  /\ nReq' = [nReq EXCEPT ![o] = "none"]
  /\ UNCHANGED <<nEx, procVars, fileVars, watchVars, nTouches, nCrashes>>

(* Flux and people write to the object too. *)
Touch(o) ==
  /\ nTouches < MaxTouches /\ nTouches' = nTouches + 1 /\ Write(o)
  /\ UNCHANGED <<nEx, procVars, fileVars, watchVars, nHeld, nCrashes>>

(* A process ends by itself. A leader leaves its child behind, and no      *)
(* number is used again while a group of that number has members.          *)
ChildEnds ==
  /\ "child" \in nAlive \ nStopped /\ nAlive' = nAlive \ {"child"}
  /\ UNCHANGED <<nEx, nStopped, nReused, nHurt, fileVars, watchVars, apiVars, nTouches, nCrashes>>
LeaderDies ==
  /\ "leader" \in nAlive \ nStopped /\ nAlive' = nAlive \ {"leader"} /\ nEx' = "ended"
  /\ UNCHANGED <<nStopped, nReused, nHurt, fileVars, watchVars, apiVars, nTouches, nCrashes>>
Reuse(p) ==
  /\ nEx \in {"holding", "ended"} /\ p \notin nAlive \cup nReused
  /\ p = "leader" => nEx = "ended" /\ nAlive = {}
  /\ nReused' = nReused \cup {p}
  /\ UNCHANGED <<nEx, nAlive, nStopped, nHurt, fileVars, watchVars, apiVars, nTouches, nCrashes>>

-----------------------------------------------------------------------------
(* The recovery watch. *)

WatchTo(s) == nWatch' = s

(* A signal begins, its process (p, when it is the group's own) takes it,  *)
(* and after it a stop is waited for, a kill looked at in another round.   *)
SignalTo(p, sig) == WatchTo("open") /\ nTarget' = p /\ nSig' = [sig |-> sig, fd |-> "none"]
Signalled(whose) ==
  LET hit == whose = "own" /\ nTarget \in nAlive
      killed == hit /\ nSig.sig = "kill" IN
  /\ nStopped' = IF hit THEN nStopped \cup {nTarget} ELSE nStopped
  /\ nAlive' = IF killed THEN nAlive \ {nTarget} ELSE nAlive
  /\ nEx' = IF killed /\ nTarget = "leader" THEN "ended" ELSE nEx
  /\ nHurt' = IF whose = "other" THEN nHurt \cup {nTarget} ELSE nHurt
Over == IF nSig.sig = "stop" THEN "wait" ELSE "pick"

(* tick: cancelled, signalled or out of time. *)
Begin ==
  /\ nWatch = "armed" /\ WatchTo("retire") /\ nCancel' = TRUE /\ nRestore' = TRUE
  /\ UNCHANGED <<nEx, procVars, nOwner, nCustody, nRetired, nTarget, nSig, nFenced, nFencing, apiVars,
                 nTouches, nCrashes>>

(* retire_exercise, under the registration lock: nobody registered, the    *)
(* number has another owner, the group is empty, or its members are known. *)
Retire ==
  /\ nWatch = "retire"
  /\ IF ~nOwner \/ nRetired \/ "leader" \in nReused \/ nAlive = {}
     THEN WatchTo("fence") /\ nRetired' = nOwner /\ UNCHANGED <<nCustody, nTarget, nSig>>
     ELSE /\ UNCHANGED nRetired
          /\ IF "leader" \in nAlive
             THEN /\ SignalTo("leader", "stop")
                  /\ nCustody' = IF nCustody = {} THEN nAlive ELSE nCustody
             ELSE /\ WatchTo(IF nCustody # {} THEN "pick" ELSE "refused")
                  /\ UNCHANGED <<nCustody, nTarget, nSig>>
  /\ UNCHANGED <<nEx, procVars, nOwner, nCancel, nRestore, nFenced, nFencing, apiVars, nTouches, nCrashes>>

(* signal_member: a handle on whatever process has the number by now ...   *)
Holder(p) == IF p \in nAlive THEN "own" ELSE IF p \in nReused THEN "other" ELSE "none"
OpenHandle ==
  /\ nWatch = "open" /\ nSig' = [nSig EXCEPT !.fd = Holder(nTarget)]
  /\ WatchTo(IF nSig'.fd = "none" THEN Over ELSE "check")
  /\ UNCHANGED <<nEx, procVars, fileVars, nTarget, nFenced, nFencing, apiVars, nTouches, nCrashes>>

(* ... then whether the number still has the captured birth ...            *)
CheckHandle ==
  /\ nWatch = "check" /\ WatchTo(IF Holder(nTarget) = "own" THEN "send" ELSE Over)
  /\ UNCHANGED <<nEx, procVars, fileVars, nTarget, nSig, nFenced, nFencing, apiVars, nTouches, nCrashes>>

(* Mutant: the signal is sent to the number.                               *)
SendByNumber ==
  /\ nWatch = "send" /\ WatchTo(Over) /\ Signalled(Holder(nTarget))
  /\ UNCHANGED <<nReused, fileVars, nTarget, nSig, nFenced, nFencing, apiVars, nTouches, nCrashes>>

(* ... and only then the signal, through the handle: a process that has    *)
(* ended meanwhile gets none, nor does the one that has its number.        *)
SendSignal ==
  /\ nWatch = "send" /\ WatchTo(Over) /\ Signalled(nSig.fd)
  /\ UNCHANGED <<nReused, fileVars, nTarget, nSig, nFenced, nFencing, apiVars, nTouches, nCrashes>>

(* stop_member waits to see the member stopped, or gone; a child that has  *)
(* stopped is killed.                                                      *)
AwaitStop ==
  /\ nWatch = "wait"
  /\ IF Holder(nTarget) # "own" THEN WatchTo("pick") /\ UNCHANGED <<nTarget, nSig>>
     ELSE /\ nTarget \in nStopped
          /\ IF nTarget = "child" THEN SignalTo("child", "kill")
             ELSE WatchTo("pick") /\ UNCHANGED <<nTarget, nSig>>
  /\ UNCHANGED <<nEx, procVars, fileVars, nFenced, nFencing, apiVars, nTouches, nCrashes>>

(* One round: members nobody captured are taken in while the stopped       *)
(* leader vouches for them; then the child, and the leader last.           *)
Vouched == "leader" \in nAlive \cap nStopped
Pick ==
  /\ nWatch = "pick"
  /\ IF nAlive = {} \/ "leader" \in nReused
     THEN WatchTo("fence") /\ nRetired' = TRUE /\ UNCHANGED <<nCustody, nTarget, nSig>>
     ELSE /\ UNCHANGED nRetired
          /\ IF ~(nAlive \subseteq nCustody) /\ ~Vouched
             THEN WatchTo("refused") /\ UNCHANGED <<nCustody, nTarget, nSig>>
             ELSE /\ nCustody' = nCustody \cup nAlive
                  /\ IF "child" \in nAlive THEN SignalTo("child", "stop") ELSE SignalTo("leader", "kill")
  /\ UNCHANGED <<nEx, procVars, nOwner, nCancel, nRestore, nFenced, nFencing, apiVars, nTouches, nCrashes>>

Fences == Objects

(* fence_hold_requests: each object read and written under its version;    *)
(* another writer in between refuses the attempt.                          *)
FenceRead(o) ==
  /\ nWatch = "fence" /\ nFencing = "none" /\ o \in Fences \ nFenced /\ nFencing' = "current"
  /\ nFenced' = nFenced /\ nTarget' = o
  /\ UNCHANGED <<nEx, procVars, fileVars, nWatch, nSig, apiVars, nTouches, nCrashes>>
FenceWrite ==
  /\ nWatch = "fence" /\ nFencing = "current"
  /\ Write(nTarget) /\ nFenced' = nFenced \cup {nTarget}
  /\ nFencing' = "none" /\ nTarget' = "none"
  /\ UNCHANGED <<nEx, procVars, fileVars, nWatch, nSig, nHeld, nTouches, nCrashes>>
FenceConflict ==
  /\ nWatch = "fence" /\ nFencing = "current" /\ nTouches < MaxTouches /\ nTouches' = nTouches + 1
  /\ Write(nTarget) /\ WatchTo("refused") /\ nFencing' = "none" /\ nTarget' = "none"
  /\ UNCHANGED <<nEx, procVars, fileVars, nSig, nFenced, nHeld, nCrashes>>

Fenced ==
  /\ nWatch = "fence" /\ nFencing = "none" /\ Fences \subseteq nFenced /\ WatchTo("recover")
  /\ UNCHANGED <<nEx, procVars, fileVars, nTarget, nSig, nFenced, nFencing, apiVars, nTouches, nCrashes>>

(* recover_cluster releases what the phase holds and looks at all of it.   *)
Release(o) ==
  /\ nWatch = "recover" /\ o \in nHeld /\ nHeld' = nHeld \ {o} /\ Write(o)
  /\ UNCHANGED <<nEx, procVars, fileVars, watchVars, nTouches, nCrashes>>
Complete ==
  /\ nWatch = "recover" /\ nHeld = {} /\ WatchTo("done")
  /\ UNCHANGED <<nEx, procVars, fileVars, nTarget, nSig, nFenced, nFencing, apiVars, nTouches, nCrashes>>

(* A refused attempt is made again from its beginning; a watch that ends,  *)
(* or a deadline that passes while it stops a member, is followed by       *)
(* another attempt on the state it wrote.                                  *)
Again ==
  /\ nWatch \in {"refused", "down"} /\ WatchTo(IF nRestore THEN "retire" ELSE "armed")
  /\ nFenced' = {} /\ nFencing' = "none" /\ nTarget' = "none" /\ nSig' = NoSignal
  /\ UNCHANGED <<nEx, procVars, fileVars, apiVars, nTouches, nCrashes>>
Crash ==
  /\ nWatch \notin {"done", "down"} /\ nCrashes < MaxCrashes /\ nCrashes' = nCrashes + 1 /\ WatchTo("down")
  /\ UNCHANGED <<nEx, procVars, fileVars, nTarget, nSig, nFenced, nFencing, apiVars, nTouches>>

-----------------------------------------------------------------------------
Exercise ==
  StartExercise \/ Register \/ EndExercise \/ LeaderDies \/ (\E o \in Objects : ReadObject(o) \/ SendHold(o))
Environment == (\E o \in Objects : Land(o) \/ Touch(o)) \/ ChildEnds \/ (\E p \in {"leader", "child"} : Reuse(p))
Watch ==
  \/ Begin \/ Retire \/ OpenHandle \/ CheckHandle \/ SendSignal \/ AwaitStop \/ Pick
  \/ Fenced \/ Complete \/ FenceWrite \/ Again
  \/ \E o \in Objects : FenceRead(o) \/ Release(o)
Next == Exercise \/ Environment \/ Watch \/ FenceConflict \/ Crash

(* The watch runs, and a kubectl ends by its timeout. *)
Spec == Init /\ [][Next]_vars /\ WF_vars(Watch) /\ WF_vars(ChildEnds)

TypeOK ==
  /\ nEx \in {"off", "starting", "holding", "ended"}
  /\ nAlive \cup nStopped \cup nReused \cup nHurt \cup nCustody \subseteq {"leader", "child"}
  /\ {nOwner, nRetired, nCancel, nRestore} \subseteq BOOLEAN
  /\ nSig \in [sig : {"none", "stop", "kill"}, fd : {"none", "own", "other"}]
  /\ nWatch \in {"armed", "retire", "open", "check", "send", "wait", "pick", "fence", "recover",
                 "refused", "down", "done"}
  /\ nFenced \cup nHeld \subseteq Objects /\ nFencing \in {"none", "current"}
  /\ nSeen \in [Objects -> {"none", "current", "stale"}] /\ nReq \in [Objects -> {"none", "current", "stale"}]

(* Once the recovery is recorded no object is suspended again: the client  *)
(* that could is retired and what it sent fails (fence_hold_requests).     *)
NoLateHold == nWatch = "done" => nHeld = {} /\ \A o \in Objects : nReq[o] # "current"

(* Only members of the exercise's own group get a signal, whoever ends and *)
(* has its number used again between the look at the group, the opening of *)
(* the handle, the comparison and the sending (signal_member).             *)
NobodyElse == nHurt = {}

(* The watch finishes the recovery it starts, over refusals and conflicts. *)
Recovered == nRestore => nWatch = "done"
=============================================================================
