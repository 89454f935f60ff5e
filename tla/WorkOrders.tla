----------------------------- MODULE WorkOrders -----------------------------
(***************************************************************************)
(* The work-order plane of the upgrade agent: the ConfigMap                *)
(* `upgrade-work-orders`, the dev-env-ops watcher that turns its pending   *)
(* entries into tmux sessions, the sessions, and the scripts of other pods *)
(* that file and time out orders.                                          *)
(*                                                                         *)
(* Every write to the ConfigMap is `kubectl get | jq | kubectl replace`.   *)
(* replace carries the resourceVersion it read, so a write that lands is   *)
(* an atomic read-modify-write of the entry as it is THEN, and a write     *)
(* that meets a conflict or an unreachable API changes nothing.  What is   *)
(* stale is everything a script read in an EARLIER kubectl get: the        *)
(* watcher's per-poll snapshot, the filing scripts' dedup check, the       *)
(* responder's list of stalled orders, the status a session's harness      *)
(* re-reads at exit.  Each of those reads is a step of its own here.       *)
(***************************************************************************)
EXTENDS Naturals, FiniteSets

CONSTANTS
  WoKeys,        \* wo-*: work orders of the shepherd
  EscKeys,       \* esc-*: escalations
  RemKeys,       \* rem-*: autonomous remediations
  StrayKeys,     \* keys outside the naming taxonomy
  Promotion,     \* the esc-rem-<sig8> key a rem order promotes to
  WatchdogEsc,   \* the esc-rem-watchdog-<sig8> key the responder files for it
  Served,        \* the lanes whose sessions an instance follows (a bound)
  Requeued,      \* the orders a human may set back to pending (a bound)
  ReapMax,       \* OPS_REAP_MAX_FINISHED
  DigestOn,      \* OPS_DIGEST_CHANNEL names a channel that is implemented
  MaxAge,        \* how far an entry ages (a bound; see Age)
  MaxFaults,     \* failed writes, crashes and restarts in a behaviour (a bound)
  MaxBeats       \* heartbeats in a behaviour (a bound)

Keys == WoKeys \cup EscKeys \cup RemKeys \cup StrayKeys

ASSUME KeysAssumption ==
  /\ WoKeys \cap EscKeys = {} /\ WoKeys \cap RemKeys = {} /\ EscKeys \cap RemKeys = {}
  /\ StrayKeys \cap (WoKeys \cup EscKeys \cup RemKeys) = {}
  /\ Promotion \in [RemKeys -> EscKeys]
  /\ WatchdogEsc \in [RemKeys -> EscKeys]
ASSUME BoundsAssumption ==
  /\ Served \subseteq {"esc", "wo", "rem"}
  /\ DigestOn \in BOOLEAN /\ Requeued \subseteq Keys
  /\ ReapMax \in Nat /\ MaxAge \in Nat /\ MaxFaults \in Nat /\ MaxBeats \in Nat

VARIABLES
  cm,        \* the ConfigMap: one entry per key, "absent" when there is none
  older,     \* older[k]: the keys of k's lane whose `created` is before k's
  win,       \* the tmux window of the key, and what runs in it
  watch,     \* what the watcher still has to do from this poll's snapshot
  promo,     \* escalate.sh calls in flight, by caller
  stalled,   \* the orders the responder's watchdog has still to time out
  filer,     \* the keys whose filing passed the dedup check and is not written
  faults, beats,
  released   \* history: the order was terminal at some time since its claim

cmVars   == <<cm, older, released>>
vars     == <<cmVars, win, watch, promo, stalled, filer, faults, beats>>

Watcher   == "watcher"
Responder == "responder"
Callers   == {Watcher, Responder} \cup RemKeys
Idle      == [stage |-> "idle"]

Statuses == {"absent", "blank", "pending", "claimed", "done", "failed", "escalated"}
Final    == {"done", "failed", "escalated"}
Entry    == [st : Statuses, age : 0..MaxAge, digested : BOOLEAN, reaped : BOOLEAN]
Absent   == [st |-> "absent", age |-> 0, digested |-> FALSE, reaped |-> FALSE]
Windows  == {"none", "live", "closing", "shell"}

(* Ages: `updated` is past the orphan, hung, stalled or re-file deadline,  *)
(* past the reap TTL of its status, past the entry retention.              *)
Quiet   == 1
Expired == 2
Retired == 3

Lane(k)    == IF k \in EscKeys THEN "esc" ELSE IF k \in RemKeys THEN "rem"
              ELSE IF k \in WoKeys THEN "wo" ELSE "stray"

(* Mutant: an order counts as finished from its claim on.                  *)
TerminalOnceClaimed(k) == cm[k].st \in Final \cup {"claimed"}

Terminal(k) == cm[k].st \in Final
Aged(k, a)  == cm[k].age >= a

-----------------------------------------------------------------------------
(* The ConfigMap.                                                          *)

(* Every landed write: history follows the entries.                        *)
Write(newcm) ==
  /\ cm' = newcm
  /\ released' = [k \in Keys |-> released[k] \/ newcm[k].st \in Final]

(* `(.data[$k] | fromjson? // {}) | .status=$s | .updated=$now`: the other *)
(* fields survive, and an entry that is gone comes back.                   *)
WithStatus(k, s) == [cm EXCEPT ![k].st = s, ![k].age = 0]

SetStatus(k, s) == Write(WithStatus(k, s)) /\ UNCHANGED older

(* A fresh entry replaces whatever the key held.                           *)
WriteEntry(k) ==
  /\ Write([cm EXCEPT ![k] = [Absent EXCEPT !.st = "pending"]])
  /\ older' = [j \in Keys |-> IF j = k THEN {i \in Keys \ {k} : Lane(i) = Lane(k)}
                              ELSE older[j] \ {k}]

Fault == faults < MaxFaults /\ faults' = faults + 1
Lost  == Fault /\ UNCHANGED cmVars     \* the write did not land
TrySetStatus(k, s) == (SetStatus(k, s) /\ UNCHANGED faults) \/ Lost

-----------------------------------------------------------------------------
(* Filing: escalate.sh, remediate.sh and work-order.sh read the entry once *)
(* for the dedup check and again to write.                                 *)

Deduped(k) ==
  \/ cm[k].st \in {"pending", "claimed"}
  \/ k \in RemKeys /\ cm[k].st = "escalated" /\ ~Aged(k, Quiet)

ResponderIdle == stalled = {} /\ promo[Responder] = Idle

(* Any of the cron agents decides to file k.  Only the responder files     *)
(* rem-* orders, after its watchdog loop has run; the esc-rem-* keys carry *)
(* the source of a promotion, and no agent files them.                     *)
FileCheck(k) ==
  /\ k \notin {Promotion[r] : r \in RemKeys} \cup {WatchdogEsc[r] : r \in RemKeys}
  /\ k \notin filer /\ ~Deduped(k)
  /\ k \in RemKeys => ResponderIdle
  /\ filer' = filer \cup {k}
  /\ UNCHANGED <<cmVars, win, watch, promo, stalled, faults, beats>>

FileWrite(k) ==
  /\ k \in filer
  /\ filer' = filer \ {k}
  /\ \/ /\ WriteEntry(k)
        /\ UNCHANGED faults
     \/ Lost
  /\ UNCHANGED <<win, watch, promo, stalled, beats>>

(* A human re-queues a closed order: status back to pending, the rest of   *)
(* the entry as it was.                                                    *)
Requeue(k) ==
  /\ k \in Requeued /\ Terminal(k)
  /\ Write([cm EXCEPT ![k].st = "pending"])
  /\ UNCHANGED <<older, win, watch, promo, stalled, filer, faults, beats>>

-----------------------------------------------------------------------------
(* Promotion: escalate.sh called for a rem order by its own session, by    *)
(* the watcher's orphan sweep or by the responder's watchdog.              *)

EscFor(c, r) == IF c = Responder THEN WatchdogEsc[r] ELSE Promotion[r]

Call(c, r) == promo' = [promo EXCEPT ![c] = [stage |-> "check", of |-> r]]

(* The caller resumes; a rem harness in its close-out exits with its window. *)
Return(c) ==
  /\ promo' = [promo EXCEPT ![c] = Idle]
  /\ win' = IF c \in RemKeys /\ win[c] = "closing" THEN [win EXCEPT ![c] = "none"] ELSE win

PromoCheck(c) ==
  /\ promo[c].stage = "check"
  /\ LET r == promo[c].of IN
     IF Deduped(EscFor(c, r))
     THEN Return(c)
     ELSE promo' = [promo EXCEPT ![c].stage = "write"] /\ UNCHANGED win
  /\ UNCHANGED <<cmVars, watch, stalled, filer, faults, beats>>

(* When the esc order cannot be filed order-status.sh pages directly; the  *)
(* responder's watchdog only logs.                                         *)
PromoWrite(c) ==
  /\ promo[c].stage = "write"
  /\ LET r == promo[c].of IN
     \/ WriteEntry(EscFor(c, r)) /\ UNCHANGED faults
     \/ Lost
  /\ Return(c)
  /\ UNCHANGED <<watch, stalled, filer, beats>>

-----------------------------------------------------------------------------
(* Sessions: session-launch.sh and the claude process inside it.           *)

InCall(k) == k \in RemKeys /\ promo[k] # Idle

(* order-status.sh <key> done|failed, called by the session: the recorded  *)
(* status is not consulted.                                                *)
ReportDone(k) ==
  /\ win[k] = "live" /\ ~InCall(k)
  /\ SetStatus(k, "done") /\ UNCHANGED faults
  /\ UNCHANGED <<win, watch, promo, stalled, filer, beats>>

ReportFailed(k) ==
  /\ win[k] = "live" /\ k \notin RemKeys
  /\ SetStatus(k, "failed") /\ UNCHANGED faults
  /\ UNCHANGED <<win, watch, promo, stalled, filer, beats>>

(* rem-*: `failed` is upgraded to `escalate`.                              *)
Escalate(k) ==
  /\ win[k] = "live" /\ k \in RemKeys /\ ~InCall(k)
  /\ SetStatus(k, "escalated") /\ Call(k, k)
  /\ UNCHANGED <<win, watch, stalled, filer, faults, beats>>

(* order-status.sh <key> working.                                          *)
Heartbeat(k) ==
  /\ win[k] = "live" /\ ~InCall(k)
  /\ beats < MaxBeats /\ beats' = beats + 1
  /\ Write([cm EXCEPT ![k].age = 0,
                      ![k].st = IF cm[k].st = "absent" THEN "blank" ELSE cm[k].st])
  /\ UNCHANGED <<older, win, watch, promo, stalled, filer, faults>>

(* The claude process ends and the harness re-reads the order.             *)
Exit(k) ==
  /\ win[k] = "live" /\ ~InCall(k)
  /\ win' = [win EXCEPT ![k] = IF ~Terminal(k) THEN "closing"
                               ELSE IF k \in RemKeys THEN "none" ELSE "shell"]
  /\ UNCHANGED <<cmVars, watch, promo, stalled, filer, faults, beats>>

(* The guaranteed outcome of an order the harness read as still open.      *)
CloseOut(k) ==
  /\ win[k] = "closing" /\ ~InCall(k)
  /\ IF k \in RemKeys
     THEN \/ SetStatus(k, "escalated") /\ Call(k, k) /\ UNCHANGED <<faults, win>>
          \/ Lost /\ win' = [win EXCEPT ![k] = "none"] /\ UNCHANGED promo
     ELSE /\ TrySetStatus(k, "failed")
          /\ win' = [win EXCEPT ![k] = "shell"]
          /\ UNCHANGED promo
  /\ UNCHANGED <<watch, stalled, filer, beats>>

-----------------------------------------------------------------------------
(* The responder's rem_watchdog.                                           *)

RespScan ==
  /\ ResponderIdle /\ filer \cap RemKeys = {}
  /\ stalled' = {k \in RemKeys : cm[k].st \in {"pending", "claimed"} /\ Aged(k, Quiet)}
  /\ stalled' # {}
  /\ UNCHANGED <<cmVars, win, watch, promo, filer, faults, beats>>

(* Mark the order failed, on a fresh read; escalate whether it landed or not. *)
RespMark(k) ==
  /\ k \in stalled /\ promo[Responder] = Idle
  /\ TrySetStatus(k, "failed")
  /\ Call(Responder, k)
  /\ stalled' = stalled \ {k}
  /\ UNCHANGED <<win, watch, filer, beats>>

(* The responder Job is killed at any point of the loop.                   *)
RespCrash ==
  /\ ~ResponderIdle /\ Fault
  /\ stalled' = {} /\ promo' = [promo EXCEPT ![Responder] = Idle]
  /\ UNCHANGED <<cmVars, win, watch, filer, beats>>

-----------------------------------------------------------------------------
(* The watcher: one pass over the decisions it took from one snapshot.     *)
(* `watch` holds, per phase, the keys still to handle, and `closed`: of the *)
(* keys that have a window, those the snapshot shows as terminal (within a *)
(* pass only a key that is not closed gains a window).                     *)

Rank == [bad |-> 1, orphan |-> 2, hung |-> 3, reap |-> 4, stamp |-> 5, bound |-> 6,
         retire |-> 7, drop |-> 8, spawn |-> 9, next |-> 10, digest |-> 11, mark |-> 12]
PhaseNames == {"bad", "orphan", "hung", "reap", "stamp", "bound", "retire", "drop",
               "spawn", "next", "digest", "mark"}
Resting == [f \in PhaseNames \cup {"closed"} |-> {}]

(* The watcher has reached phase f: nothing is left of the earlier ones.   *)
At(f) ==
  /\ promo[Watcher] = Idle
  /\ watch[f] # {}
  /\ \A g \in PhaseNames : Rank[g] < Rank[f] => watch[g] = {}

(* Replace what is left of some phases; a pass with nothing left rests.    *)
Leave(w) == watch' = IF \A f \in PhaseNames : w[f] = {} THEN Resting ELSE w

(* Mutant: the hung-session watchdog covers escalations as well.           *)
WoStaleAndEsc == {k \in WoKeys \cup EscKeys : cm[k].st = "claimed" /\ Aged(k, Quiet)}

(* wo_stale: wo-* only, an escalation may wait for its human.              *)
WoStale == {k \in WoKeys : cm[k].st = "claimed" /\ Aged(k, Quiet)}

Pending(l) == {k \in Keys : Lane(k) = l /\ cm[k].st = "pending"}
OldestPending(l) == {k \in Pending(l) : older[k] \cap Pending(l) = {}}

(* The oldest pending order of each lane, ties broken arbitrarily.         *)
Choices == {c \in SUBSET UNION {OldestPending(l) : l \in Served} :
              \A l \in Served :
                Cardinality(c \cap Pending(l)) = IF Pending(l) = {} THEN 0 ELSE 1}

Poll ==
  /\ watch = Resting /\ promo[Watcher] = Idle
  /\ \E next \in Choices, flush \in {FALSE, DigestOn} :
       LET closed == {k \in Keys : Terminal(k)}
           held   == {k \in closed : win[k] # "none"} IN
       Leave([Resting EXCEPT
         !.closed = held,
         !.bad    = {k \in StrayKeys : cm[k].st = "pending"},
         !.orphan = {k \in Keys : cm[k].st = "claimed" /\ Aged(k, Quiet)},
         !.hung   = WoStale,
         !.reap   = {k \in closed : ~cm[k].reaped /\ Aged(k, Expired)},
         !.bound  = IF Cardinality(held) > ReapMax THEN held ELSE {},
         !.retire = {k \in closed : cm[k].digested /\ Aged(k, Retired)},
         !.next   = next,
         !.digest = IF flush THEN {k \in closed : ~cm[k].digested} ELSE {}])
  /\ UNCHANGED <<cmVars, win, promo, stalled, filer, faults, beats>>

BadKey(k) ==
  /\ At("bad") /\ k \in watch.bad
  /\ TrySetStatus(k, "failed")
  /\ Leave([watch EXCEPT !.bad = @ \ {k}])
  /\ UNCHANGED <<win, promo, stalled, filer, beats>>

(* Mutant: the orphan sweep leaves rem orders to the responder.            *)
OrphanSparesRem(k) ==
  /\ At("orphan") /\ k \in watch.orphan
  /\ IF win[k] # "none" \/ k \in RemKeys THEN UNCHANGED <<cmVars, faults>>
     ELSE TrySetStatus(k, "failed")
  /\ Leave([watch EXCEPT !.orphan = @ \ {k}])
  /\ UNCHANGED <<win, promo, stalled, filer, beats>>

(* A claimed order with no window: a rem order is promoted, any other is   *)
(* marked failed (and paged).                                              *)
Orphan(k) ==
  /\ At("orphan") /\ k \in watch.orphan
  /\ IF win[k] # "none" THEN UNCHANGED <<cmVars, promo, faults>>
     ELSE IF k \in RemKeys
     THEN \/ SetStatus(k, "escalated") /\ Call(Watcher, k) /\ UNCHANGED faults
          \/ Fault /\ SetStatus(k, "failed") /\ UNCHANGED promo
          \/ Lost /\ UNCHANGED promo
     ELSE TrySetStatus(k, "failed") /\ UNCHANGED promo
  /\ Leave([watch EXCEPT !.orphan = @ \ {k}])
  /\ UNCHANGED <<win, stalled, filer, beats>>

(* wo_watchdog: order-status.sh <key> failed; the window stays.            *)
Hung(k) ==
  /\ At("hung") /\ k \in watch.hung
  /\ IF win[k] = "none" THEN UNCHANGED <<cmVars, faults>>
     ELSE TrySetStatus(k, "failed")
  /\ Leave([watch EXCEPT !.hung = @ \ {k}])
  /\ UNCHANGED <<win, promo, stalled, filer, beats>>

(* tmux kill-window takes the session, and a call it is in, with it.       *)
Kill(S) ==
  /\ win' = [k \in Keys |-> IF k \in S THEN "none" ELSE win[k]]
  /\ promo' = [c \in Callers |-> IF c \in S THEN Idle ELSE promo[c]]

Reap ==
  /\ At("reap") /\ Kill(watch.reap)
  /\ Leave([watch EXCEPT !.reap = {}, !.stamp = watch.reap])
  /\ UNCHANGED <<cmVars, stalled, filer, faults, beats>>

Stamp ==
  /\ At("stamp")
  /\ \/ /\ Write([k \in Keys |-> IF k \in watch.stamp /\ cm[k].st # "absent"
                                 THEN [cm[k] EXCEPT !.reaped = TRUE] ELSE cm[k]])
        /\ UNCHANGED <<older, faults>>
     \/ Lost
  /\ Leave([watch EXCEPT !.stamp = {}])
  /\ UNCHANGED <<win, promo, stalled, filer, beats>>

(* More than ReapMax finished orders still hold windows: reap the excess   *)
(* (the oldest; which ones is left open here).                             *)
Bound ==
  /\ At("bound")
  /\ LET held == {k \in watch.bound : win[k] # "none"} IN
     \E S \in SUBSET held :
       /\ Cardinality(held \ S) <= ReapMax
       /\ Cardinality(held) > ReapMax => Cardinality(held \ S) = ReapMax
       /\ Cardinality(held) <= ReapMax => S = {}
       /\ Kill(S)
  /\ Leave([watch EXCEPT !.bound = {}])
  /\ UNCHANGED <<cmVars, stalled, filer, faults, beats>>

(* Mutant: an entry is deleted under the session that still heartbeats it. *)
RetireKeepsWindows ==
  /\ At("retire")
  /\ Leave([watch EXCEPT !.retire = {}, !.drop = watch.retire])
  /\ UNCHANGED <<cmVars, win, promo, stalled, filer, faults, beats>>

Retire ==
  /\ At("retire") /\ Kill(watch.retire)
  /\ Leave([watch EXCEPT !.retire = {}, !.drop = watch.retire])
  /\ UNCHANGED <<cmVars, stalled, filer, faults, beats>>

Drop ==
  /\ At("drop")
  /\ \/ Write([k \in Keys |-> IF k \in watch.drop THEN Absent ELSE cm[k]])
        /\ UNCHANGED <<older, faults>>
     \/ Lost
  /\ Leave([watch EXCEPT !.drop = {}])
  /\ UNCHANGED <<win, promo, stalled, filer, beats>>

(* Mutants: a lane is never busy; only a claimed order makes it busy.      *)
LaneNeverActive(l) == FALSE
LaneClaimed(l) == \E k \in Keys : Lane(k) = l /\ win[k] # "none" /\ cm[k].st = "claimed"

(* lane_active: a window whose order the snapshot does not show terminal.  *)
LaneActive(l) == \E k \in Keys : Lane(k) = l /\ win[k] # "none" /\ k \notin watch.closed

(* esc before wo before rem; the claim is written whatever the status is.  *)
LaneRank == [esc |-> 1, wo |-> 2, rem |-> 3]

Claim(k) ==
  /\ At("next") /\ k \in watch.next
  /\ \A j \in watch.next : LaneRank[Lane(k)] <= LaneRank[Lane(j)]
  /\ LET rest == [watch EXCEPT !.next = @ \ {k}] IN
     IF LaneActive(Lane(k)) THEN Leave(rest) /\ UNCHANGED <<cmVars, faults>>
     ELSE \/ /\ cm' = WithStatus(k, "claimed")
             /\ released' = [released EXCEPT ![k] = FALSE]
             /\ UNCHANGED <<older, faults>>
             /\ Leave([rest EXCEPT !.spawn = {k}])
          \/ Lost /\ Leave(rest)
  /\ UNCHANGED <<win, promo, stalled, filer, beats>>

(* tmux new-window; when it fails the order is marked failed and paged.    *)
Spawn(k) ==
  /\ At("spawn") /\ k \in watch.spawn
  /\ \/ /\ win' = [win EXCEPT ![k] = "live"]
        /\ UNCHANGED <<cmVars, faults>>
     \/ /\ Fault /\ UNCHANGED win
        /\ SetStatus(k, "failed") \/ UNCHANGED cmVars
  /\ Leave([watch EXCEPT !.spawn = {}])
  /\ UNCHANGED <<promo, stalled, filer, beats>>

(* ops-digest.sh flush: a fresh snapshot, the page, then the mark.         *)
Digest ==
  /\ At("digest")
  /\ LET n == {k \in Keys : Terminal(k) /\ ~cm[k].digested} IN
     \/ /\ Leave([watch EXCEPT !.digest = {}, !.mark = n])
        /\ UNCHANGED faults
     \/ Fault /\ Leave([watch EXCEPT !.digest = {}])
  /\ UNCHANGED <<cmVars, win, promo, stalled, filer, beats>>

Mark ==
  /\ At("mark")
  /\ \/ /\ Write([k \in Keys |-> IF k \notin watch.mark THEN cm[k]
                  ELSE [cm[k] EXCEPT !.digested = TRUE,
                          !.st = IF cm[k].st = "absent" THEN "blank" ELSE cm[k].st]])
        /\ UNCHANGED <<older, faults>>
     \/ Lost
  /\ Leave([watch EXCEPT !.mark = {}])
  /\ UNCHANGED <<win, promo, stalled, filer, beats>>

-----------------------------------------------------------------------------
(* The dev-env-ops pod restarts: tmux, the sessions and the watcher die;   *)
(* the ConfigMap and the other pods do not.                                *)
Restart ==
  /\ Fault
  /\ win' = [k \in Keys |-> "none"]
  /\ watch' = Resting
  /\ promo' = [c \in Callers |-> IF c = Responder THEN promo[c] ELSE Idle]
  /\ UNCHANGED <<cmVars, stalled, filer, beats>>

(* Time passes for an entry: it crosses the next of its deadlines.         *)
Age(k) ==
  /\ cm[k].st # "absent" /\ cm[k].age < MaxAge
  /\ cm' = [cm EXCEPT ![k].age = @ + 1]
  /\ UNCHANGED <<older, released, win, watch, promo, stalled, filer, faults, beats>>

Init ==
  /\ cm = [k \in Keys |-> Absent]
  /\ older = [k \in Keys |-> {}]
  /\ win = [k \in Keys |-> "none"]
  /\ watch = Resting
  /\ promo = [c \in Callers |-> Idle]
  /\ stalled = {} /\ filer = {}
  /\ faults = 0 /\ beats = 0
  /\ released = [k \in Keys |-> FALSE]

WatcherStep ==
  \/ Poll \/ Reap \/ Stamp \/ Bound \/ Retire \/ Drop \/ Digest \/ Mark
  \/ \E k \in Keys : BadKey(k) \/ Orphan(k) \/ Hung(k) \/ Claim(k) \/ Spawn(k)

SessionStep(k) ==
  ReportDone(k) \/ ReportFailed(k) \/ Escalate(k) \/ Heartbeat(k) \/ Exit(k) \/ CloseOut(k)

Next ==
  \/ WatcherStep
  \/ \E k \in Keys : SessionStep(k) \/ FileCheck(k) \/ FileWrite(k) \/ Requeue(k) \/ Age(k)
  \/ \E c \in Callers : PromoCheck(c) \/ PromoWrite(c)
  \/ RespScan \/ RespCrash
  \/ \E k \in RemKeys : RespMark(k)
  \/ Restart

Spec == Init /\ [][Next]_vars

(* The watcher loop and the harnesses keep running, time passes, and       *)
(* `timeout` ends a headless session.  Nothing makes an interactive session *)
(* end: it may hang, or wait for a human, for ever.                        *)
Fairness ==
  /\ WF_vars(WatcherStep)
  /\ \A c \in Callers : WF_vars(PromoCheck(c) \/ PromoWrite(c))
  /\ \A k \in Keys : WF_vars(Age(k)) /\ WF_vars(CloseOut(k))
  /\ \A k \in RemKeys : SF_vars(Exit(k))

FairSpec == Spec /\ Fairness
-----------------------------------------------------------------------------
(* Properties.                                                             *)

TypeOK ==
  /\ cm \in [Keys -> Entry]
  /\ older \in [Keys -> SUBSET Keys]
  /\ win \in [Keys -> Windows]
  /\ watch \in [PhaseNames \cup {"closed"} -> SUBSET Keys]
  /\ promo \in [Callers -> {Idle} \cup [stage : {"check", "write"}, of : RemKeys]]
  /\ stalled \subseteq RemKeys
  /\ filer \subseteq Keys
  /\ faults \in 0..MaxFaults /\ beats \in 0..MaxBeats
  /\ released \in [Keys -> BOOLEAN]

(* A session that runs, or is about to be spawned, and whose order nobody  *)
(* has closed since it was claimed.                                        *)
Working(k) == (k \in watch.spawn \/ win[k] \in {"live", "closing"}) /\ ~released[k]

(* Each lane is single-flight: of two sessions of one lane, at least one   *)
(* has had its order closed, although the test that admits the second      *)
(* reads statuses that are a poll old and windows that are not.            *)
SingleFlight ==
  \A j, k \in Keys : j # k /\ Working(j) /\ Working(k) => Lane(j) # Lane(k)

(* tmux accepts two windows of one name, and every later kill, join and    *)
(* page would then hit either: a session is only ever spawned into a name  *)
(* that no window holds.                                                   *)
SpawnFindsNoWindow == \A k \in watch.spawn : win[k] = "none"

(* The three sweeps that kill windows work from a snapshot that may be     *)
(* older than the status and the window they act on: they never kill a     *)
(* session whose order was not closed at some time since its claim.        *)
SweepsSpareWorking ==
  [][watch' # watch /\ faults' = faults =>
       \A k \in Keys : Working(k) /\ win[k] # "none" => win'[k] # "none"]_vars

(* Retention deletes the entry of a key only with its session: no later    *)
(* heartbeat or digest mark brings back an entry without a status, which   *)
(* every sweep would skip and lane_active would count as busy for ever.    *)
NeverBlank == \A k \in Keys : cm[k].st # "blank"

(* No watchdog is allowed on the esc lane: whatever the watcher decided     *)
(* from its snapshot, it never turns the `done` of an escalation session    *)
(* into another status.                                                     *)
EscVerdictStands ==
  [][watch' # watch =>
       \A k \in EscKeys : cm[k].st = "done" => cm'[k].st \in {"done", "absent"}]_vars

(* The watcher's header: a finished session's window must not pin its lane.*)
(* Every queued order is served (or closed by someone) in the end.         *)
QueuedIsServed ==
  \A k \in WoKeys \cup RemKeys : cm[k].st = "pending" ~> cm[k].st # "pending"

(* An order of the lane was filed again while the window of its previous   *)
(* session was still there: the others may wait for ever behind it.        *)
Pinned(l) == \E k \in Keys : Lane(k) = l /\ win[k] # "none" /\ cm[k].st = "pending"
=============================================================================
