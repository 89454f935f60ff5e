--------------------------- MODULE BlenderDesktop ---------------------------
(***************************************************************************)
(* The Blender authoring worker (blender-authoring desktop.py, service.py): *)
(* one service starts and supervises an X server and Blender, remembers    *)
(* their identities in memory and in a state file, and lets its callers    *)
(* edit the one shared scene in turn.  A process is a start time; a process *)
(* id is free, or holds one, and is reused by anyone.                      *)
(***************************************************************************)
EXTENDS Integers, FiniteSets

CONSTANTS Pids,
          Callers,
          MaxStart   \* bound: processes ever started

(* What is assumed of the constants. *)
DesktopAssumption == MaxStart \in Nat /\ "nil" \notin Pids /\ "none" \notin Callers

Nil == [pid |-> "nil", start |-> 0]
Parts == {"xvfb", "blender"}

VARIABLES
  bProc,   \* the process each id holds: its start time, 0 when free
  bOurs,   \* start times of the processes this worker started
  bClock,  \* processes started so far
  bFile,   \* the state file: an identity for each part, or absent (Nil)
  bRt,     \* runtime.state
  bSvc,    \* the service: where it is
  bStop,   \* stop_process: where it is, the record, the pidfd's process
  bCall,   \* each caller of serialized
  bLock    \* the caller that holds the edit lock

vars == <<bProc, bOurs, bClock, bFile, bRt, bSvc, bStop, bCall, bLock>>

NoState == [k \in Parts |-> Nil]
NoStop  == [pc |-> "no", part |-> "xvfb", fd |-> 0]

Init ==
  /\ bProc = [p \in Pids |-> 0] /\ bOurs = {} /\ bClock = 0
  /\ bFile = NoState /\ bRt = NoState /\ bSvc = "off" /\ bStop = NoStop
  /\ bCall = [c \in Callers |-> "idle"] /\ bLock = "none"

(* alive: the id still holds the process of the recorded start time.       *)
Alive(r) == r # Nil /\ bProc[r.pid] = r.start
RtAlive == \A k \in Parts : Alive(bRt[k])

(* spawn: a new session, so the record's group and session are its id.     *)
Spawned(k, rt) ==
  \E p \in Pids :
    /\ bProc[p] = 0 /\ bClock < MaxStart /\ bClock' = bClock + 1
    /\ bProc' = [bProc EXCEPT ![p] = bClock']
    /\ bOurs' = bOurs \cup {bClock'}
    /\ bRt' = [rt EXCEPT ![k] = [pid |-> p, start |-> bClock']]

(* start, under the launchers' lock: adopt a ready desktop, or begin one   *)
(* when no part on file is alive and Blender's port is free.               *)
Start ==
  /\ bSvc = "off"
  /\ \/ /\ \A k \in Parts : Alive(bFile[k])
        /\ bRt' = bFile /\ bSvc' = "up"
        /\ UNCHANGED <<bProc, bOurs, bClock>>
     \/ /\ \A k \in Parts : ~Alive(bFile[k])
        /\ Spawned("xvfb", NoState) /\ bSvc' = "xvfb"
  /\ UNCHANGED <<bFile, bStop, bCall, bLock>>

(* Any part alive but not ready, or an untracked listener on the port, is  *)
(* refused; the lifespan ends, stops nothing, for it was told of nothing,  *)
(* and removes the state file all the same.                                *)
StartRefused ==
  /\ bSvc = "off" /\ bFile' = NoState
  /\ UNCHANGED <<bProc, bOurs, bClock, bRt, bSvc, bStop, bCall, bLock>>

(* An X server that ended at once: the next display number is tried.       *)
NextDisplay ==
  /\ bSvc = "display" /\ ~Alive(bRt["xvfb"])
  /\ Spawned("xvfb", bRt) /\ bSvc' = "xvfb"
  /\ UNCHANGED <<bFile, bStop, bCall, bLock>>

WriteState ==
  /\ bSvc \in {"xvfb", "blender"}
  /\ bFile' = bRt
  /\ bSvc' = IF bSvc = "xvfb" THEN "display" ELSE "ready"
  /\ UNCHANGED <<bProc, bOurs, bClock, bRt, bStop, bCall, bLock>>

StartBlender ==
  /\ bSvc = "display" /\ Alive(bRt["xvfb"])
  /\ Spawned("blender", bRt) /\ bSvc' = "blender"
  /\ UNCHANGED <<bFile, bStop, bCall, bLock>>

BecomeReady ==
  /\ bSvc = "ready" /\ RtAlive /\ bSvc' = "up"
  /\ UNCHANGED <<bProc, bOurs, bClock, bFile, bRt, bStop, bCall, bLock>>

(* A start that fails or times out, a part that monitor finds gone, or a   *)
(* shutdown, which waits for the callers so long and no longer: Blender is *)
(* stopped, then the X server.                                             *)
ShutDown ==
  /\ bSvc \in {"xvfb", "display", "blender", "ready", "up"}
  /\ bSvc' = "stopping" /\ bStop' = [NoStop EXCEPT !.pc = "open", !.part = "blender"]
  /\ UNCHANGED <<bProc, bOurs, bClock, bFile, bRt, bCall, bLock>>

-----------------------------------------------------------------------------
(* stop_process.                                                           *)

Rec == bRt[bStop.part]

(* The process of the service is gone, and every call and edit with it.    *)
CallsEnd ==
  /\ bCall' = [c \in Callers |-> IF bCall[c] = "idle" THEN "idle" ELSE "done"]
  /\ bLock' = "none"

(* On to the X server, and after it the file is removed and the service    *)
(* ends, once the threads of its edits have lost Blender.                  *)
Stopped ==
  IF bStop.part = "blender"
  THEN /\ bStop' = [NoStop EXCEPT !.pc = "open"]
       /\ UNCHANGED <<bFile, bRt, bSvc, bCall, bLock>>
  ELSE bStop' = NoStop /\ bFile' = NoState /\ bRt' = NoState /\ bSvc' = "off" /\ CallsEnd

(* pidfd_open binds to whatever process the id holds now.                  *)
Open ==
  /\ bStop.pc = "open"
  /\ IF Rec = Nil \/ bProc[Rec.pid] = 0 THEN Stopped
     ELSE /\ bStop' = [bStop EXCEPT !.pc = "check", !.fd = bProc[Rec.pid]]
          /\ UNCHANGED <<bFile, bRt, bSvc, bCall, bLock>>
  /\ UNCHANGED <<bProc, bOurs, bClock>>

(* Only then is the identity compared.                                     *)
Check ==
  /\ bStop.pc = "check"
  /\ IF ~Alive(Rec) THEN Stopped
     ELSE bStop' = [bStop EXCEPT !.pc = "signal"] /\ UNCHANGED <<bFile, bRt, bSvc, bCall, bLock>>
  /\ UNCHANGED <<bProc, bOurs, bClock>>

(* SIGTERM, five seconds, SIGKILL, all through the pidfd.                  *)
Signal ==
  /\ bStop.pc = "signal"
  /\ bProc' = [p \in Pids |-> IF bProc[p] = bStop.fd THEN 0 ELSE bProc[p]]
  /\ Stopped
  /\ UNCHANGED <<bOurs, bClock>>

-----------------------------------------------------------------------------
(* serialized: one edit at a time, though its caller may be cancelled.     *)

Call(c) ==
  /\ bSvc = "up" /\ bCall[c] = "idle" /\ bCall' = [bCall EXCEPT ![c] = "waits"]
  /\ UNCHANGED <<bProc, bOurs, bClock, bFile, bRt, bSvc, bStop, bLock>>

Edit(c) ==
  /\ bCall[c] = "waits" /\ bLock = "none" /\ bLock' = c
  /\ bCall' = [bCall EXCEPT ![c] = "edits"]
  /\ UNCHANGED <<bProc, bOurs, bClock, bFile, bRt, bSvc, bStop>>

(* Mutant: a cancelled caller gives up the lock, the edit still running.   *)
CancelUnlocks(c) ==
  /\ \/ bCall[c] = "waits" /\ bCall' = [bCall EXCEPT ![c] = "done"] /\ UNCHANGED bLock
     \/ bCall[c] = "edits" /\ bCall' = [bCall EXCEPT ![c] = "orphan"] /\ bLock' = "none"
  /\ UNCHANGED <<bProc, bOurs, bClock, bFile, bRt, bSvc, bStop>>

(* A thread cannot be cancelled.  The first cancellation waits for it with *)
(* the lock in hand.  A second one, which the scope of an abandoned request*)
(* delivers, ends that wait, for it is not shielded: the lock is free and  *)
(* the edit goes on.                                                       *)
Cancel(c) ==
  /\ \/ bCall[c] = "waits" /\ bCall' = [bCall EXCEPT ![c] = "done"] /\ UNCHANGED bLock
     \/ bCall[c] = "edits" /\ bCall' = [bCall EXCEPT ![c] = "orphan"] /\ UNCHANGED bLock
     \/ bCall[c] = "orphan" /\ bCall' = [bCall EXCEPT ![c] = "loose"] /\ bLock' = "none"
  /\ UNCHANGED <<bProc, bOurs, bClock, bFile, bRt, bSvc, bStop>>

EditEnds(c) ==
  /\ bCall[c] \in {"edits", "orphan", "loose"} /\ bCall' = [bCall EXCEPT ![c] = "done"]
  /\ bLock' = IF bLock = c THEN "none" ELSE bLock
  /\ UNCHANGED <<bProc, bOurs, bClock, bFile, bRt, bSvc, bStop>>

-----------------------------------------------------------------------------
Exit(p) ==
  /\ bProc[p] # 0 /\ bProc' = [bProc EXCEPT ![p] = 0]
  /\ UNCHANGED <<bOurs, bClock, bFile, bRt, bSvc, bStop, bCall, bLock>>

(* Some other program of the container is given a free id.                 *)
Reuse(p) ==
  /\ bProc[p] = 0 /\ bClock < MaxStart /\ bClock' = bClock + 1
  /\ bProc' = [bProc EXCEPT ![p] = bClock']
  /\ UNCHANGED <<bOurs, bFile, bRt, bSvc, bStop, bCall, bLock>>

(* The service alone dies: its file and its processes remain.              *)
Die ==
  /\ bSvc # "off" /\ bSvc' = "off" /\ bRt' = NoState /\ bStop' = NoStop /\ CallsEnd
  /\ UNCHANGED <<bProc, bOurs, bClock, bFile>>

Next ==
  \/ Start \/ StartRefused \/ NextDisplay \/ WriteState \/ StartBlender \/ BecomeReady \/ ShutDown
  \/ Open \/ Check \/ Signal \/ Die
  \/ \E c \in Callers : Call(c) \/ Edit(c) \/ Cancel(c) \/ EditEnds(c)
  \/ \E p \in Pids : Exit(p) \/ Reuse(p)

Spec == Init /\ [][Next]_vars

-----------------------------------------------------------------------------
(* Properties.                                                             *)

(* Stopping the desktop ends no process but those this worker started,     *)
(* however process ids are reused under it.                                *)
EndsOwn ==
  \A p \in Pids :
    bProc[p] \notin bOurs \cup {0} /\ bStop.pc = "signal" /\ bStop' # bStop => bProc'[p] = bProc[p]
OthersSurvive == [][EndsOwn]_vars

(* An edit keeps the others from the scene to its end, though its caller   *)
(* has been cancelled, and whatever the service is doing: two work at once *)
(* only if the caller of one was cancelled a second time.                  *)
OneEdit ==
  \A c, d \in Callers :
    bCall[c] \in {"edits", "orphan"} /\ bCall[d] \in {"edits", "orphan"} => c = d

(* service.py says of its lock: "Cancellation must not release the lock    *)
(* while a Blender edit still runs."                                       *)
LockOutlivesEdit == \A c \in Callers : bCall[c] \in {"edits", "orphan", "loose"} => bLock = c
=============================================================================
