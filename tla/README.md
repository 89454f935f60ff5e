# Verification of the haynes-ops automation

`haynes-ops` is the GitOps repository of a Kubernetes cluster. Most of its
files are manifests that Flux applies; the logic of its own is in the shell
and Python programs those manifests mount and the operator's scripts beside
them: the upgrade agent's jobs, the node out-of-service controller, the
developer environment, the machinery that rewrites the book library during a
planned outage, the patched LazyLibrarian and the authoring services. These
programs run unattended, several at a time, share their state through
ConfigMaps, files, locks and databases that others write too, and are killed,
refused and restarted at any moment. That is what is modelled here, in TLA+:
model-checked with TLC on small instances and, for properties of the upgrade
agent, the controller, the copy window and what runs beside it, the catalog
maintenance, LazyLibrarian's downloads, the authoring services and the commands
that deliver a change, proved with TLAPS for every value of the constants.

Contents: [the system](#the-system), [modules](#modules),
[what each module models](#what-each-module-models),
[runs](#runs-bounds-and-what-they-show), [fairness](#fairness),
[refinement](#refinement), [proofs](#proofs), [findings](#findings),
[plan](#plan), [not modelled](#not-modelled-and-why).

## The system

### Components that are modelled

Paths are under `src/kubernetes/main/apps/`; `upgrade-agent/` is written `U/`.

**Work-order plane** (`U/dev-env-ops/app/resources/`: `work-order-watch.sh`,
`session-launch.sh`, `order-status.sh`, `ops-digest.sh`;
`U/health-gate/app/resources/`: `escalate.sh`, `remediate.sh`;
`U/shepherd/app/resources/work-order.sh`; `rem_watchdog` of
`U/alert-responder/app/resources/respond.sh`).
- *State*: the ConfigMap `upgrade-work-orders`, one JSON entry per order
  (`status`, `created`, `updated`, `digested`, `reaped`); the tmux windows of
  the dev-env-ops pod; on-disk flags of the watcher.
- *Operations*: agents of four CronJobs file orders (`wo-*`, `esc-*`,
  `rem-*`); the watcher polls every minute and decides, from one snapshot,
  which sessions are orphaned, hung, expired or superfluous, which order of
  each lane is claimed and spawned, what goes into the digest and what is
  deleted; a session reports, heartbeats, exits; its harness closes the order
  out; the responder times out remediations and promotes them.
- *Interaction*: only through the ConfigMap and window names. Every write is
  `get | jq | replace`; the `resourceVersion` makes one write atomic, and
  everything read by an *earlier* `get` is stale when it is used.
- *Hard*: a snapshot that is a poll old combined with windows of now; sweeps
  that kill by name; a watchdog and a session that both close one order; the
  pod restarting with sessions in it; writes that are refused.
- *Correct when*: a lane runs one session at a time; a sweep never kills work
  in progress; what is claimed is closed and what is queued is served; an
  escalation's verdict stands; no outcome vanishes unseen.

**Node out-of-service controller**
(`kube-system/node-out-of-service/app/resources/node-out-of-service.sh`).
- *State*: none of its own: the nodes' Ready condition, the taint, the labels.
- *Operations*: each minute a Job takes `now`, lists nodes, control-plane
  names and excluded names, decides, then removes and applies taints one by
  one.
- *Hard*: four readings at four moments, then mutations; nodes come back in
  between; a Job dies anywhere; a guard that must not be wedged by a node
  that stays dead; dates turned into seconds by hand-written arithmetic.
- *Correct when*: a taint (which force-detaches volumes) only lands on a node
  that was really gone, with the effect of its class; it only comes off a
  settled node; a lost node gets it, a returned node loses it, in the end.

**Gate and triage coordination** (`U/health-gate/app/resources/gate.sh`,
`coordination-lib.sh`, `page.sh`; `U/shepherd/app/resources/triage.sh`).
- *State*: the state ConfigMap: per signature of a regression its class,
  whether a remediation was attempted, its result, first seen, last paged.
- *Operations*: the gate collects, looks the signature up, pages and stamps;
  the triage collects, reads, attributes, claims, summons a paid agent and
  records what came of it; both prune.
- *Hard*: both jobs run at the same minutes on the same entries; the triage
  decides on a read that precedes a repository clone; a run outlives cycles;
  a killed run must not be paid for twice.
- *Correct when*: an agent is summoned only on a claim that was free and is
  now on record; no writer lowers a claim; a page about pods was earned by an
  attempt; pages are throttled, yet a lasting failure is heard.

**Alert responder** (`U/alert-responder/app/resources/respond.sh`).
- *State*: a state ConfigMap of claims (`inc.*`), cooldowns (`cool.*`), page
  counts per hour (`pages.*`) and the month's spend.
- *Operations*: each cycle polls Alertmanager, drops what is handled, cools
  down or is too old, groups storms, claims a unit before it summons the
  agent, judges the report, hands an urgent one to the `rem` lane or pages.
- *Hard*: alerts flap into new incidents; storms and singles of one name must
  cool each other down; entries are pruned by the clock of a run that may be
  a cycle old; a run dies between claim and report; a page is counted after
  it is sent, under the hour the run started in.
- *Correct when*: an incident is diagnosed at most once, a pair not again
  within its cooldown, pages stay within the cap; an alert that lasts is
  claimed.

The four share files but not all of their state: `WorkOrders` contains the
responder's watchdog and its filing of `rem-*` orders; `AlertResponder`
abstracts the order lane to the set of keys that are open or with a human.

**Book copy window** (`scripts/book-copy-writer/copy-window/`, written `C/`:
`copy-phase-supervisor.py`, `copy-recovery-watch.py`, `cached_source.py`,
`checkpoint-copy-job.py`).
- *State*: the ledger of the phase, the activation record and the watchdog's
  state file, each replaced whole on disk; the stop-request file; Flux
  objects, applications and three one-shot Jobs in the cluster.
- *Operations*: the supervisor stages the Jobs, activates the outage, runs
  them and asks for restoration; the watchdog, a process of its own, stops the
  applications, watches clocks and heartbeats, deletes the Jobs, merges the
  way back and resumes everything.
- *Hard*: either process dies between two writes; a creation the API server
  accepts after its absence was observed; two clocks that start in different
  files; an application resumed too early applies the frozen stop revision.
- *Correct when*: workers and applications keep apart, the ceiling on the
  outage binds whoever died, what was stopped comes back.

**Rewriting the library** (`downloads/lazylibrarian/app/epub-convert/`:
`epub_convert.py`, `epub_metadata.py`, `epub_copies.py`;
`scripts/book-copy-writer/`: `book_copy_writer.py`, `epub_copy_preflight.py`,
`bound_census.py`, `native-pipeline/ransom_maintenance_job.py`).
- *State*: the folders of the library with LazyLibrarian importing into them,
  hidden partials, backups and manifests, a lock directory, holds; for the
  maintenance the catalog's database, the services, a receipt for the lock.
- *Hard*: every run may be killed between two file operations; what decides a
  deletion was read minutes before; the lock of a dead worker; a host, its
  worker in a pod and a watcher that die alone.
- *Correct when*: every original survives somewhere, whole; readers see
  whole files; only a redundant copy goes; services never run beside a
  writer; the jobs reach an end.

**Exchange with the writer pods, owned Jobs, readers, rehearsal**
(`C/deliver-main-copy-proofs.py`, `exchange-source-outcome.py`,
`outcome_mailbox.py`, `proof_transport.py`; `run-live-byte-baseline.py`,
`live-diagnostic/run.py`; `bound_census_collectors.py`;
`normal-rehearsal.py`).
- *State*: private files in pods, a marker's link count, a database fence;
  Jobs of one NAME and their pods; queues; holds on Flux objects.
- *Hard*: a child that goes on in the pod after its `kubectl` died; a CREATE
  or PATCH with no answer that commits later; Jobs of the same name and
  process numbers that belong to somebody else; a reader that hangs for ever.
- *Correct when*: what is delivered is whole and answers its own request;
  a receipt of absence stays true; nothing foreign is deleted or signalled;
  everyone ends by a deadline.

**Patched LazyLibrarian** (`downloads/lazylibrarian/app/patches/`:
`postprocess.py`, `searchbook.py`, `resultlist.py`, `sabnzbd.py`;
`librarysync.py`, `gb.py`; `dbupgrade.py`).
- *State*: the tables of books, authors, links and wanted releases, the
  download directory, the library; the schema itself.
- *Hard*: threads over one database that commit statement by statement; rows
  read into a list and acted on later; releases of one name; scans while
  books are added and files move; crashes inside an upgrade.
- *Correct when*: a release that was given up imports nothing, a book that is
  snatched has something under way, a file is bound to the book it is, no
  author who owns books is deleted, lists survive the upgrade.

**Authoring services** (`audio-authoring/service.py`, `wan-video/.../api.py`,
`controlfoley/service.py`, `blender-authoring/`).
- *State*: job records on disk, a bounded queue, one worker; a compute lock
  and the queue of a render engine; process identities in a state file.
- *Hard*: a cancellation at every await; records that cannot be written; a
  prompt the engine takes after its sender gave up; process numbers reused.
- *Correct when*: one job is worked on at a time, a verdict is final, the GPU
  and the scene have one user, every accepted job settles.

**Delivering a change** (`scripts/dev-env/bounded_backend_workflow.py`,
`scripts/upgrade-agent/deliver_reviewed_pr.py`).
- *State*: the ledger of an attempt, a local file under a lock and a revision;
  on GitHub the head, the checks and the state of a pull request.
- *Operations*: callers ask the ledger before they read a backend, once per
  slot, and enter what they found; the delivery looks at the pull request,
  merges it, looks again and reconciles Flux.
- *Hard*: a caller dies between the file and the advice, or replays; a proof
  ages while it is used and the manager fails over; a push, a rerun or another
  merge falls between the look and the merge; a merge lands and times out.
- *Correct when*: each read is made once, metrics are read on a young proof of
  the selected route, an ended attempt spends nothing more, only the reviewed
  commit, seen green, is merged and reconciled.

### Components that are not modelled

Listed in `PROJECT.json` with their sources and the reason; see
[the plan](#plan) for those that are worth it and
[not modelled](#not-modelled-and-why) for the others.

## Modules

| module | what it is |
|---|---|
| `WorkOrders` | the order plane |
| `NodeOutOfService`, `Iso8601`, `DatedNodes` | the controller and its nodes; its date arithmetic against the calendar; the two side by side, for any last year |
| `Coordination` | gate and triage over the state ConfigMap |
| `AlertResponder` | the responder over its own ConfigMap |
| `CopyWindow` | supervisor, recovery watchdog and cluster during the outage |
| `EpubLibrary` | the hourly conversion and metadata job over the library folders |
| `CopyRetention` | evidence, fence and moves of redundant copies |
| `MaintenanceJob` | host, worker and watcher of one catalog maintenance |
| `PrivateExchange` | proofs into MAIN, the outcome out of SOURCE |
| `OwnedJob` | a host with one Job of its own: baseline and diagnostic |
| `EpubReaders` | the parallel readers of the census |
| `Rehearsal` | the exercise of the hold and its recovery watch |
| `BookAcquisition` | from a wanted book to a file: searches, clients, post-processor |
| `LibraryScan` | the scan of the library and the catalogue it keeps |
| `SchemaUpgrade` | the database upgrade, statement by statement |
| `LibraryJobs` | the composition of `EpubLibrary`, `CopyRetention` and `MaintenanceJob`, for any constants |
| `LazyLibrarianJobs` | the composition of `BookAcquisition`, `LibraryScan` and `SchemaUpgrade`, for any constants |
| `JobService` | abstract: what an authoring service promises of its jobs |
| `AudioJobs` | the audio service, which implements it |
| `RenderLease` | video API, Foley sidecar and engine on one rack of GPUs |
| `BlenderDesktop` | processes and serialised edits of the Blender desktop |
| `IntentLedger` | the ledger that spends the backend reads of an attempt |
| `DeliverPR` | the delivery of one reviewed pull request |
| `Workloads` | the composition of `PrivateExchange`, `OwnedJob`, `EpubReaders`, `Rehearsal`, `AudioJobs`, `RenderLease`, `BlenderDesktop`, `DeliverPR` and `IntentLedger`, for any constants |
| `*Proofs` | the theorems about `WorkOrders`, `NodeOutOfService` and `DatedNodes`, `Coordination`, `AlertResponder`, `CopyWindow`, and about `LibraryJobs`, `LazyLibrarianJobs` and `Workloads` with all they are composed of |
| `MC*` | instances for TLC |

Conventions. Ages replace clocks: an entry carries the ticks since the time
it records, capped where nothing distinguishes greater ages. A call that may
fail is a disjunct of its action that consumes one of `MaxFaults`. Variables
marked *history* are read by properties only; no guard depends on them.
Operators marked *Mutant* are not part of any specification: each is a
plausible wrong version of the definition that follows it, and shows that the
property named in `PROJECT.json` notices. The variables of the modules that
are instantiated together carry one letter each (`eLib`, `vRun`, `mLock`), so
that an instance declares them under their own names.

How the compositions and the MC modules compose. Several programs of one family are checked in one
run that is a disjoint sum, not a product: a variable (`which`, `lane`,
`walking`) is chosen at the start and names the instance that runs, the
others stand still in one fixed initial state. Nothing is lost by it, for the
members of a family share no state in the code either (they are different
pods, or one excludes the other by the operator's procedure), and the states
of the run are the sum of theirs. Programs that do share state are one
module, with all their interleavings: the supervisor and the watchdog, the
two GPU services with the engine, host, worker and watcher, gate and triage.
Fairness is then stated of each instance while it is the one that runs.
`Workloads`, `LibraryJobs`, `LazyLibrarianJobs` and `DatedNodes` are kept apart
from `MCJobs`, `MCLibrary`, `MCLazyLibrarian` and `MCNodeOutOfService`, which
only choose values, so that the theorems are about the very specifications
that are checked.

Each module has a `TypeOK` that documents its state. It is proved for the
modules with proofs; the runs spend their properties on the hazards.

## What each module models

### WorkOrders

`cm[k]` is the entry of order `k`, `win[k]` its tmux window (`live`: the
session runs; `closing`: the process ended and the harness found the order
open; `shell`: a kept window of a finished session). `older` holds the order
of `created` among the entries of a lane. `watch` is what the watcher still
has to do of the current poll: per phase a set of keys, computed by `Poll`
from one snapshot, and `closed`, the windows whose orders that snapshot shows
terminal. Each phase is an action that acts on the windows and entries as
they are *then*: `BadKey`, `Orphan`, `Hung`, `Reap`/`Stamp`, `Bound`,
`Retire`/`Drop`, `Claim`/`Spawn` per lane, `Digest`/`Mark`, in this order
(`At`). `FileCheck`/`FileWrite` are the two reads of the filing scripts;
`PromoCheck`/`PromoWrite` the same for `escalate.sh` called by a session, by
the watcher or by the responder (`promo`, by caller). `RespScan`/`RespMark`
are the responder's watchdog, `Restart` is the pod, `Requeue` a human.
`Age` moves one entry across its next deadline, each on its own, so any order
of the deadlines of different entries is covered. `MCLanes` runs one instance
of it with all kinds of keys; `lane` says which of them are in use.

### NodeOutOfService, Iso8601

`Start`, `List`, `ListMasters`, `Decide`, then `Untaint(n)` and `Taint(n)`
per node, `Finish`. `job.ticks` is the age of the Job's `now`, which is why
the age it computes can be smaller than the node's (`AgeSeen`). `Decide`
contains the loop over the listing: the guard counts nodes that are not Ready
and not yet tainted; a dead node is `Unknown` past the limit of its class.
The histories `cases` and `backs` are the nodes that were a proper case for the
taint, or settled, at some moment of the running Job. `Iso8601` walks the calendar day by day and
compares the script's `days_from_civil` with the count of days.

### Coordination

`cm[s]` is the entry of signature `s` (a set of failing Flux objects or, when
there are none, of workloads). The gate: `GateLook` (collect, read, decide),
`GatePage`, `GateStamp`, `GateEscalate`. The triage: `TriagePrune` or
`TriageLook`, `Attribute`, then `AlreadyTried`, `Unverifiable`, `Claim` or
`Record`; a summoned run is `run` until `Return`, then `RecordResult`,
`TriageEscalate`. `Upsert` contains the pruning of every write. A
read, its change and its replace are one action: a replace that meets somebody
else's write is refused (`Refused`), which is an outcome of the action, so the
order of the writes is explored and the time between a read and its replace is
not. `recent` is the verdict of `attribute`, three findings in one: a recent
merge under the app path, Flux's own word that the release failed to upgrade,
and no denial by an admission policy; `Merge` changes it either way. An
unreadable ConfigMap reads as none in the gate and as an error in the triage,
as the scripts have it. A Tick is one cycle of the schedule the two CronJobs
share; both start in it in either order.

### AlertResponder

An incident is an alert from one start to its resolution. `claim[a]`,
`cool[k]` and `count` are the state ConfigMap, `Gone` is no entry. A run is
`Start` (state read once), `Poll`, `Claim` (storms first, whole units,
`StateWrite` with its pruning), `Summon`, `Return`, `Judge`, `Handoff`,
`Page`, `Count`. `ClaimRefused` covers a refused claim, one that landed
although its answer was lost, and an exhausted budget. `Resolve` also removes
the alert from what the run remembers of it: its key names nothing that will
fire again. The code takes storms first and then the newest; the model leaves the
order among storms, and among the rest, open, so what holds does under the
code's. `job.hours` says that the clock turned the hour while the run
lived.

### CopyWindow

`sup` is where the supervisor is, `w` the watchdog's state file and `wpc`
where the watchdog is in its pass; `ledger`, `act` and `stop` are the files
they share. Every write of a file that others read is an action of its own, so
a death (`SupervisorDies`, `WatchdogDies`) falls between any two. A creation
the supervisor submits goes into `fly` and is settled (`Settle`) at any later
moment, or never; `late` remembers those under way when the stop was
requested. The watchdog actuates the stop, revokes it, deletes Jobs, observes
their absence (`VerifyAbsent`), waits for the inverse to be merged, resumes
the applications and completes. `Tick` moves a bounded clock.

### EpubLibrary, CopyRetention, MaintenanceJob

`EpubLibrary`: a book is a folder, `eLib[b]` its EPUB with the metadata tag it
carries and how often the job edited it, `ePart[b]` the hidden partial of a
conversion and whether it is already linked under its name, `eBak` the copies and
manifests, each named by the bytes that were about to be edited, as the code
names them by their hash: bytes that are edited again get a backup of their own
(`Saved`), and `Undoing` finds the manifest whose edit made the bytes of now. A
run goes through lock, census, strips one by one (backup, manifest, the edited
form in a hidden sibling, the second look, replace), cleaning and conversions
(begin, write, link, unlink); imports and kills come at any step; a stale lock is
read and taken over in two. `eStrip` holds the books whose hidden
`.strip-<hex>.partial` a killed run left: nothing removes those, their pattern is
not that of a conversion's partial, and nothing reads them either.

`CopyRetention`: `vEv` is the evidence as the host read it, item by item, each
at its own moment; outsiders change files, pointers, locks and wants until
the applications are quiesced, and after it where the code cannot stop them.
The writer takes the converter lock and the database fence, compares, and moves
each approved copy by link and unlink with its rechecks in between.

`MaintenanceJob`: three processes with a state each (`mHost`, `mWork`,
`mWatch`), the guard request between worker and host, the lock with its
custody receipt, the catalog and the file. The abort clock may strike at any
step; the worker goes on when the host has died until its next guard.

### PrivateExchange, OwnedJob, EpubReaders, Rehearsal

`PrivateExchange`: a delivery is a host side, a stream that may be cut and a
receiver that survives its stream; `xMarker` is the link count MAIN polls. An
exchange stages and publishes a request; SOURCE reads it, verifies under its
fence and answers, and may lose the fence and begin another.

`OwnedJob`: one action per call of the host, the CREATE with its unknown
outcome (`oReq`), other people's Jobs of the NAME, foreground deletions in the
background, the pod with its own alarm.

`EpubReaders`: the two bounded queues, the reorder window, the first error,
cancellation and the deadline, over readers that may hang.

`Rehearsal`: each hold is a read (`nSeen`) and a PATCH (`nReq`) tested against
the version read; the watch stops and retires the exercise's processes, moves
every version so that what is still in flight fails, then releases. A signal is
four steps (`OpenHandle`, `CheckHandle`, `SendSignal`, `AwaitStop`), and between
any two of them a process may end and its number be used again (`Reuse`): the
comparison looks at the number, the signal goes to the process the handle was
opened on.

### BookAcquisition, LibraryScan, SchemaUpgrade

`BookAcquisition`: a row is a pair of book and release, and a folder carries
the release's name only, so rows of one release cannot tell their folders
apart. Search threads pick and snatch, the client finishes or fails, the
post-processor selects rows, imports, judges time-outs, and schedules or stops
itself (`dScheduled`). A row whose files cannot be copied from where the client
says has a second turn, with the folders of its name (`second`). Every question
to the client may turn the row of a failed job `Aborted` (`Aborting`), and a
client that does not answer lets an old row fail as one it does not know
(`Silent`, which spends one of the `MaxEvents`). The history `dClash` holds the
rows under way over which a second search wrote the failure of its own request.
The run has one book. That an import takes no folder of another book, and
loses nothing of one, is exercised there by two releases and by mutants only;
the theorems say it for every set of books.
Not modelled: when a row is no longer Snatched after its import, the code's
upsert by URL and status (`postprocess.py:1492`, `:2092`) inserts a further row
with that URL and no book. If it says Failed it bars the URL from the searches
(`resultlist.py:419`), as the failure of the row itself mostly does already; a
request sent for that URL later updates both.

`LibraryScan`: `Scan` walks `Tree` with the ids and matches it keeps between
files, links, counts and removes; `AddBook`/`AddLink` and `LoadBook` are the
API's thread at work meanwhile; deleting an author cascades. A book of an author
named "unknown" is linked, moved and its old author deleted in three steps
(`Link`, `Move`, `Drop`), on the owner read before the first; when the file's own
author is that one, the book goes too. `CheckDb` first deletes the authors without
a name or with a provisional one (`Unfinished`: "unknown author" and an id), with
whatever they own, then the empty ones.

`SchemaUpgrade`: `Steps` lists the statements of each version, and a
step executes one; columns, tables and the foreign-key switch are state, the
process may end between any two, and the checks of a start delete what looks
orphaned. The members of renumbered series follow UPDATE by UPDATE: `Select` reads
the new keys into `zTodo`, `RekeyRow` is one UPDATE of one table for one series,
`Rekey` goes on when none is left.

### JobService, AudioJobs, RenderLease, BlenderDesktop

`AudioJobs`: all of the service is one event loop, so an action is what runs
from one await to the next; a record may fail to be written, and memory and
disk (`aMem`, `aDisk`) then differ. The launch of a generator is one action
(`Spawn`): the awaits inside it, while the process may exist and is nobody's yet,
are the state before it, and what a cancellation does there is what it does then. `RenderLease`: two threads, their file
lock, and an engine whose answers are lost, late or come after the sender
died. `BlenderDesktop`: identities are a process number and a start time;
`Open`, `Check`, `Signal` are the three steps of stopping one. A refused start
touches no process and still removes the state file. A caller cancelled once
waits for its edit with the lock (`orphan`), cancelled again it has let go of it
(`loose`); a shutdown waits for neither.

### IntentLedger, DeliverPR

`IntentLedger`: a command holds the lock from the load to the replacement of
the file and wants the revision its caller has seen, so a command is one
action and a stale revision has no effect. What its caller does on the advice,
`Read`, `Answered`, is not, and it may die (`Dies`) with the advice
in hand, in the read or before `RecordOutcome`. The time a command is
called with was read before, by at most `MaxLag`; `advance_clock` refuses one
that goes back. `Admit` spends the slot whether or not it advises the read.

`DeliverPR`: the two looks, the merge and each reconciliation are actions;
`Fails` is any of them refused or timed out, and `Merge` may land and still
count as failed, for the command has no way to know. GitHub compares the head
in the merge itself; pushes, reports, reruns, other merges and closing are
anybody's. After a merge whose reply was lost the command refuses to run
again, because the pull request is no longer open, and Flux reconciles at its
own interval.

## Runs, bounds, and what they show

| run | instances and bounds | what it shows |
|---|---|---|
| `lanes` | 2 work orders, 1 fault, 1 heartbeat, re-queued at will; 1 work order with a key outside the taxonomy; 1 escalation with 1 remediation that promotes to it, 1 fault; 1.3M states | a lane runs one session at a time, a spawn finds its name free, sweeps spare what works, an escalation's `done` stands |
| `order_life` | 1 remediation and its escalation through reap, digest and deletion, 1 heartbeat, 1 fault; 2 work orders; in the responder, 2 alerts with runs that may span a cycle and a cooldown of 3, 2 alerts with 1 lost step and a cooldown of 2, 3 alerts, two of them a storm, with a cooldown of 2; 0.3M | no entry without a status; what is claimed is closed, what is queued leaves the queue unless a kept window pins its lane; an alert that keeps firing is claimed, whatever flaps and storms beside it |
| `node` | 1 master, 1 worker, a Job may span a tick, 1 fault; every day from 1970 to 2104; 0.8M | taints are justified, untaints settled, in the end the taint follows the node; dates are converted exactly |
| `coordination` | 1 Flux object, 1 workload, 1 fault, a run may span a cycle; 1.0M | summons are claimed, claims kept, pod pages earned; pages are throttled, yet a lasting failure is heard again and again and an attributable one attempted |
| `responder` | 2 alerts of one name in 2 namespaces, storms of 2, hours of 2 cycles, cap 1, 1 fault, runs may span a cycle; 5.4M | one diagnosis per incident; cooldowns hold; so does the cap on an hour's pages, but for lost counts |
| `copy_window` | 2 applications, a clock of 3 with trigger 1 and ceiling 2, 1 death, 1 lost hold; 0.5M | `WorkersAlone`, `CeilingKept`, `NoStalePause`, `Restored` |
| `library` | 2 books of one title by two authors, 1 import, 1 fault; 3 copies of one file, 2 acts of outsiders; the three modes of maintenance, 2 faults; 0.5M | originals survive, publication is whole, services come back only when the writer is gone, only redundant copies go, everything ends |
| `lazylibrarian` | 1 book with a Usenet release and a torrent, 1 event; 1 release and 2 searches; 2 libraries of 4 and 3 files with 4 ids, 3 authors, one of them with a provisional name, 1 book added, 2 files moved, 1 crash; databases of versions 0, 60 and 79, 2 crashes; 0.8M | rows agree with what happens to them, a clash of two searches apart, imports lose nothing of others, files are bound to their books, owners with a name are spared, lists survive, rows settle and files are found |
| `jobs` | exchange with 2 deliveries and 2 asks, 1 kill; 1 run of either host and a foreign Job; 2 readers, 5 paths, window 3; 2 objects, 1 foreign write, 1 crash; 2 audio jobs, queue 1, 2 failed writes; 2 videos, 1 Foley job, 1 foreign prompt, 1 death; 2 process numbers, 2 callers; 2 deliveries of one pull request, 1 check, 1 push, 1 rerun; a ledger of 1 caller, 2 discovery reads, 2 routes, a clock of 3, 1 blocker, 1 foreign grant, 1 fault; 0.8M | what is delivered is whole, late requests undo nothing, only wanted work runs, one user at a time, nothing foreign is touched, only what was authorised is read or merged, the audio service implements `JobService`, each but the ledger ends |

Why the bounds are enough. *Keys*: every property of the order plane relates
at most two orders of a lane, or one order and the one it promotes to; the
instances have two (with symmetry where the two are interchangeable and only
invariants and action properties are checked). A signature or a taint is a
property of one object; a second one is there for what interferes: pruning by
another's write, the guard's count, a storm. The window needs two
applications, so that one is resumed while the other is held. Where alerts compete for the one claim
of a run, the bounds are as tight as the property allows: with a cooldown of 1
three alerts starve the one that is not in the storm, with 2 and runs that span
a cycle two alerts do, and so does one cycle less of `MaxAge`. The deployed 36
cycles of cooldown and 144 of age leave room for some thirty other pairs. Two
books make
a group that must be told apart, three copies a keeper, a redundant one and
a third that changes meanwhile. The library of four files has what the scan
can confuse: a file without metadata after one with, two ids of one title,
an ignored directory. *Ages*: an entry's
deadlines are three in the order plane (`Quiet`, `Expired`, `Retired`); each
run goes as far as the phases it asks about. In the other modules ages run to
the largest window plus the time a job may live, and every window is at least
one tick, so before, at and after each threshold exist, and thresholds differ
where the code's do. *Faults*: one covers each lost write, crash or restart
alone, at any point of a behaviour; two are allowed where a recovery from the
first can meet a second (maintenance, schema, audio). For the properties that
are proved, the proofs cover any number. *Served* restricts which lanes get
sessions in an instance; the other lanes' orders are still filed, aged and
swept.

`CHECK_DEADLOCK FALSE` everywhere: the bounds on faults, ages and the clock let
a behaviour run out, the calendar walk ends, and most of these programs rest
or end when nothing is asked of them.

The `find_*` runs each check one statement that a comment or a test's
documentation makes and show it violated; see [findings](#findings).

## Fairness

Fairness is stated for what something in the deployment keeps going, and for
nothing else.

- *Order plane*: weak fairness of the watcher's steps (a loop with a 60 s
  sleep in a Deployment that is restarted), of the promotion calls (bounded
  commands of a running caller), of each entry's age (time passes) and of a
  harness's close-out; strong fairness of the end of a *headless* session,
  which `timeout` bounds (strong because an ending may be disabled while the
  session is in a call). Nothing makes an interactive session end, file
  anything, heartbeat or succeed.
- *Node controller*: weak fairness of Job steps (each call returns or fails,
  the CronJob starts a Job each minute with `concurrencyPolicy: Forbid`),
  strong fairness of `Tick`: it is disabled while a Job is at its deadline
  and enabled again after each Job, and the clock does not stop for it.
- *Gate and triage*: weak fairness of `Tick` (both CronJobs run every 30
  minutes, Forbid) and of each job's steps; every call, the summoned run
  included, has a timeout.
- *Responder*: weak fairness of `Tick` (every 10 minutes, Forbid,
  `startingDeadlineSeconds` 300) and of the run's steps. Claims may be refused
  and jobs killed `MaxFaults` times; an exhausted monthly budget is one of
  these faults, so liveness is about a month that is not spent.

- *Copy window*: weak fairness of the clock, of the watchdog's loop (its
  state file carries it over a restart; that somebody arms it again after a
  death is assumed) and of what Flux and the API
  server do with what they were given. The supervisor owes nothing.
- *Library*: weak fairness of each run's steps (a CronJob; a run that is
  killed is followed by another), of files settling, imports ending and a
  lock growing stale. In the maintenance only the watcher, the cluster's
  deletions, the clock and API time-outs are relied on: neither the host nor
  the worker has to do anything for the services to come back.
- *Exchange, baseline, rehearsal*: processes that live run, and the deadline
  comes; a peer may die and no call has to succeed. Of the parallel readers
  only the caller and the deadline are fair, since a read may hang for ever.
- *LazyLibrarian*: weak fairness of the scheduled runs and of the age of a
  row. No download has to end. The scan has that of its CronJob; its property
  assumes that files stay (`FileIsFound`).
- *Services*: weak fairness of the event loop and of each thread, and of the
  time-out that bounds a generator. The engine owes nothing: `Settled` of the
  GPU services holds because each wait of the API has a limit after which it
  holds for inspection.
- *Deliveries*: each call of the command has a time-out, so each invocation is
  weakly fair. The ledger has no fairness: its callers owe it nothing.

The cluster, the alerts, operators and clients have no fairness: liveness
properties say "if it stays so".

## Refinement

`JobService` says in four actions what a client may rely on: a record opens,
one job at a time is worked on, a verdict once recorded is final, and
`completed` is recorded only when no work on the job goes on. `AudioJobs`
implements it under the mapping that takes the record from `job.json`, not
from memory, and the work from the generator processes that live; `IsJobService`
is `Service!Spec`, checked as a property of the run and proved step by step
(`WorkloadsProofs!AudioImplements`). What makes it hold is the order in which the
worker drains a process before it writes the verdict, and the recovery at start,
which turns open records into `interrupted` although a cancellation was on its
way. Step by step: a `Submit` whose record is written is `Accept`, a `Spawn` that
launches is `Begin`; `Exit`, `Stopped` and `Die` are `End` when a generator was
at work; every write of a verdict (`Drain`, `Judge`, `Cancel`, a `Take` or
`Spawn` that fails), `Stop`, `StopFails` and the recovery in `Start`, which
closes several records at once, is `Settle`. What only memory knows is a
stutter: the queue, signals, the time-out, and a record that could not be
written.

## Proofs

TLAPS proves, for every number of orders, nodes, signals, alerts, applications,
rows, searches, jobs, deliveries, readers and callers, every window and every
number of faults, from the named assumptions on the constants
(`KeysAssumption`, `BoundsAssumption`, `NodesAssumption`, `CalendarAssumption`,
`SignalsAssumption`, `AlertsAssumption`, `WindowAssumption`,
`MaintenanceAssumption`, `AcquisitionAssumption`, `AudioAssumption`, and the
`InstancesAssumption` of each composition, which repeats those of its parts;
TLC evaluates them in every run of the module):

| module | theorem | property |
|---|---|---|
| `WorkOrdersProofs` | `TypeCorrect`, `LanesAreSingleFlight`, `SpawnsAreFresh`, `SweepsAreSafe`, `EntriesKeepStatus`, `EscalationsAreSpared` | `TypeOK`, `SingleFlight`, `SpawnFindsNoWindow`, `SweepsSpareWorking`, `NeverBlank`, `EscVerdictStands` |
| `NodeOutOfServiceProofs` | `TypeCorrect`, `TaintsAreJustified`, `UntaintsAreSettled`, `DaysDoMatch` | `TypeOK`, `TaintIsJustified`, `UntaintIsSettled`, `DaysMatch` |
| `CoordinationProofs` | `TypeCorrect`, `SummonsAreClaimed`, `ClaimsAreKept`, `PodPagesAreEarned`, `PagesAreThrottled` | `TypeOK`, `SummonIsClaimed`, `ClaimIsKept`, `PodPageIsEarned`, `Throttled` |
| `AlertResponderProofs` | `TypeCorrect`, `IncidentsAreDiagnosedOnce`, `FlapsAreGuarded`, `PagesStayCapped` | `TypeOK`, `OncePerIncident`, `FlapGuard`, `PagesAreCapped` |
| `CopyWindowProofs` | `TypeCorrect`, `WorkersKeptApart`, `CeilingHolds`, `PausesAreFresh` | `TypeOK`, `WorkersAlone`, `CeilingKept`, `NoStalePause` |
| `LibraryJobsProofs`, maintenance | `TypeCorrect`, `RestoredAloneHolds`, `UndoableHolds` | `TypeOK`, `RestoredAlone`, `Undoable` |
| retention | `RetainedHolds`, `RedundantGoes` | `RetainedRecoverable`, `OnlyRedundantGoes` |
| all three jobs | `OriginalsKept` while the runs of the EPUB job keep apart, `ScheduledRunKeeps` for a single one | `NoOriginalLost` |
| `LazyLibrarianProofs`, fetching | `TypeCorrect`, `RowsDoAgree`, `NothingIsLost`, `OneSearchNeverClashes` | `TypeOK`, `RowsAgree`, `NothingLost`, `dClash = {}` |
| scan | `FilesAreRight`, `ScansSpareOwners` | `RightFile`, `OwnersSpared` |
| upgrade | `UpgradesKeep` | `UpgradeKeeps` |
| `WorkloadsProofs`, audio | `AudioTypeCorrect`, `WorkWanted`, `AudioImplements` | `TypeOK`, `WorkIsWanted`, `IsJobService` |
| exchange, readers | `WhatIsPublishedIsKept`, `RowsComeInOrder`; composed: `AllIsDelivered` | `Undisturbed` and `OwnAnswer`, `RowsInOrder`; `DeliveredWhole` |
| owned Jobs, rehearsal | `AbsenceStays`, `NothingHoldsLate`; composed: `NothingIsUndone` | `AbsentIsAbsent`, `BaselineRetained` and `ForeignSurvive`, `NoLateHold`; `LateUndoesNothing` |
| GPU, desktop | `OneUserOfTheGpu`, `EditsAreSerial`, `OnlyOursAreStopped`; composed: `UsersAreAlone`, `OthersAreSpared` | `GpuExclusive`, `OneEdit`, `OthersSurvive`; `OneAtATime`, `OnlyOwn` |
| deliveries | `OnlyReviewedIsMerged`, `ReadsAreSpent`, `EndedSpendsNothing`; composed: `AllIsAuthorised` | `ReviewedMerge`, `LedgerHolds`, `EndedStays`; `AsAuthorised` |

The arguments:

- **LaneInv**. `SingleFlight` is decided from statuses of the snapshot and
  windows of now, so it is not inductive. The invariant says what the old
  reading is still good for: what the snapshot showed terminal has been
  closed since its claim (`ShutIsReleased`), whatever happened to its status
  since; no key is both taken for terminal and about to be claimed
  (`PlanConsistent`), because only the watcher claims and a pass claims what
  its own snapshot showed pending; hence, before a spawn, all windows of the
  lane belong to released orders (`SpawnAlone`). The same facts spare working
  sessions from the sweeps.
- **JobInv**. Whatever a Job holds about a node may be stale but is not older
  than the Job: the listing (`ViewWasSo`) and the decisions (`PlanWasSo`) were
  true at some moment of its life, which the histories `cases` and `backs`
  keep (`HistoryCurrent`), and `job.ticks` bounds that life. `ClassKnown` is why a master never gets a worker's effect.
- **DateInv**. The date and the count of days advance together, and
  `days_from_civil` keeps up with both: within a month a day is a day, the months
  from March on are as long as `(153 * m + 2) \div 5` makes them
  (`MonthLength`), and a year that ends in February has its leap day exactly when
  the divisions by 4, 100 and 400 step. Nothing is induced over days but by the
  walk itself, so no year bounds it: `LastYear` is any year.
- **ClaimInv**. The triage writes from a read that precedes the attribution;
  `Snapshot` says that what it read of the claim is still so, since nobody
  else claims and the triage runs alone: the gate's stamps change other
  fields, and pruning, too, is the triage's. An entry that says upgrade or
  attempted stems from a claim (`RecordStems`), and so does what a page about
  pods is decided from. `StampStands` adds what the throttle rests on: while a
  stamped page is recent and its entry was not dropped, the stamp on record is
  that page's, since the triage's writes carry it over.
- **ResponderInv**. An argument about ages. A run writes under the `NOW` it
  started with, so an entry is at most `RunSpan` older than what it records
  (`ClaimsLast`, `Cooled`). With `Ttl >= MaxAge + RunSpan` and
  `Ttl >= Cooldown`, an entry old enough to be pruned is about an incident
  that has left the scope or about a pair that has rested; so what a run
  holds as eligible was never diagnosed (`NoneTwice`) and has rested
  (`NoneTired`), although it decided on a state read before its poll. The
  page cap follows from `Counted`: what was sent under this hour's bucket is
  what is counted, plus what a run is about to count, plus lost counts.
- **MaintInv**. What the watcher may do rests on who can still write. A worker
  runs only in a Pod that is there (`WriterInPod`) and only while the watcher
  has not verified the absence (`WriterGone`): a creation may land later, but
  the guard that starts a worker wants the watcher armed. So no worker is left
  when the lock is released (`LockGone`), and the services come back last
  (`RestoredLast`). For `Undoable`, a worker past its start holds the lock
  (`HoldsLock`), hence the answer it waits for leaves the receipt
  (`ReceiptFirst`), and each original is kept one step before the write that
  needs it (`KeptFirst`).
- **RetainInv**. What the host read is of another moment for each item, so the
  invariant says until when each is still so: what concerns the stopped programs
  while the evidence is fresh (`EvidenceStands`), what the application wants while
  the fence is held (`WantedStands`). The copy on the move is one nothing of
  that wants, and has its manifest (`MovesUnneeded`); once it is linked its
  backup is whole (`BackedOnceLinked`) unless an outsider wrote to it meanwhile,
  which cannot reach a removed version (`LinkedIsNew`). That the keeper is there
  when the copy goes is what the last recheck saw (`KeeperSeen`); `vLate` marks an
  outsider that came after it, and the property exempts just that.
- **EpubInv**. Bytes the job made are the edit of bytes in a complete backup
  (`Undone`): so for what is in the library and for what is in a backup itself,
  since an edited book may be edited again (`AllUndone`), and for what a run is
  about to publish (`EditKept`); no manifest ever goes. A conversion never
  meets a book that was converted before (`Unpublished`), and its partial is the
  run's own (`PartialOwn`). The last two are about the run's own, and another run at work
  would falsify all of them; hence `OriginalsKept` assumes `[]OneRun`. The code
  does not give that much when two processes meet one stale lock (`OneRun` under
  [findings](#findings)); a CronJob that forbids overlap and nobody who starts the
  command beside it do, and `ScheduledRunKeeps` is the theorem for that case.
- **EntryInv** (orders). Retention ends a session before it deletes the entry,
  and a pass deletes before it claims or marks; so whatever writes to an entry
  without a status, a heartbeat or a digest mark, finds one there.
- **VerdictInv** (orders). An escalation session that says done still holds its
  window; so what a pass decided about the order from an older snapshot finds
  the window there and does not overwrite the verdict.
- **WindowInv**. Two clocks start in different files, and `Clocks` says how
  they are ordered and what the watchdog has read of them for good. `WayBack`
  orders what it does: the stop request before the look for Jobs, the look
  before the merge, the merge before anything is resumed. `Apart` follows from
  that order: after the stop request nothing is submitted that was not under way
  (`FlyIsLate`), after the look nothing else exists (`RestIsLate`), and until
  then the outage around a Job is complete (`OutageHolds`).
- **AcqInv**. A run of the post-processor works on a list it read when it
  began. The rows on it are still Snatched, or what the run itself made of them
  (`TodoIsSnatched`, `ReadyIsSnatched`), but for those in `dClash`; what it
  imports is in the library from the step that copies it to the one that
  deletes it (`ImportIsHere`, `SeedIsHere`). A row between its two turns failed
  in the first and is not on the list any more. With one search thread, what is
  about to be sent is not under way (`SendIsFresh`), and `dClash` stays empty.
- **ScanInv**. The scan keeps what it found from one file to the next, and the
  invariant says it is not used for another: while the book of a file is in hand,
  the scan is still at that file and the two share a title, by whichever of its
  ways it was found (`HitIsHere`). Ids pass only between rows of one title. So
  what is linked is right whatever is added, rekeyed or deleted at the same time.
- **SchemaInv**. A table is rebuilt through `temp`, and a process that ends
  half-way leaves it away. Then its rows are in `temp`, and no start runs a step
  again that would use `temp` for another table, because the columns that mark
  the older versions are gone (`AwayInTemp`, `StepsDone`). What a statement drops
  next has been copied (`Copied`), with the foreign keys off when others refer to
  it (`ForeignOff`), so nothing cascades. Two series never get one key, since a
  source has letters and an id digits (`SchemaAssumption`), so the rebuilt table
  has as many; two memberships that an UPDATE would make one break its UNIQUE
  and end the upgrade (`Clashes`), with both still there. They may come under
  another series (`SeriesApart` in the [findings](#findings)): no row is lost,
  and more is not claimed. A new database has nothing to lose (`Blank`).
- **AudioInv**. A generator that lives is that of the job the worker waits for
  (`OneGenerator`); the job in the worker's hands is running or was stopped by
  somebody (`WorkerHolds`); a verdict on record is the one in memory
  (`RecordIsMemory`), so nothing can be written over it.
- **ExchangeInv**. The first proof file is created exclusively, so one receiver
  at most gets past it (`OneReceiver`), whatever runs of the delivery came
  before and died there; until that one has sealed every file there is no
  marker, and what MAIN sees at link count 1 can change no more
  (`MarkerIsWhole`). A request stays published once it is, so what SOURCE
  answers is what it read, under the fence it held when it began to collect
  (`RequestStays`).
- **ReadersInv**. A path that was handed out is in one place: with one thread,
  among the results, waiting to be reordered or emitted. So what comes back was
  handed out and not received before (`BusyIsNew`, `ResultsAreNew`), and the
  tasks in the queue are the successive paths that no thread has yet
  (`TasksFollow`), which bounds the queue.
- **OwnedInv**. A run sends one CREATE (`SentOnce`). What makes a receipt of
  absence last is that the run either never sent it or learnt that it took
  effect before it looked (`AbsenceIsKnown`); a deletion under way has the
  UID of the run's own Job (`OursIsDying`).
- **RehearsalInv**. An exercise that was retired never holds anything again
  (`NobodyReturns`), and what it had sent before is stale for every object that
  was fenced since (`FencedIsStale`); the watch releases when all are. From the
  leader's stop on no member is born, so a handle that was opened on somebody
  else's process is never found to be a member's, and what is signalled is the
  group's own (`HandleIsOwn`).
- **LeaseInv**. Whoever works holds the lock (`WorkHasLease`); a prompt on its
  way is late unless the thread still waits for its answer
  (`FlightIsAwaited`). From the API's last look at the idle engine on,
  whatever the engine gets of the API's is therefore late (`WindowIsClean`).
- **DesktopInv**. A start time is given once. So a handle whose record was
  found alive after the handle was opened is on the recorded process
  (`HandleIsRecorded`), and only such handles are signalled (`SignalsOurs`);
  an edit that works has the lock, and so has one whose caller was cancelled
  once (`EditHasLock`). After a second cancellation it has not:
  `LockOutlivesEdit` under [findings](#findings).
- **DeliverInv**. What is merged is the head and stays it (`MergedIsHead`); a
  delivery about to merge saw that commit green itself (`LookedFirst`), and one
  that reconciles saw it merged (`SawItMerged`), whoever merged it.
- **LedgerInv**. One caller at most holds the advice to read a slot, and the
  file has the slot pending while it does (`HeldIsPending`, `HeldByOne`,
  `AdvisedIsUnread`): a replay therefore finds it spent. The proof behind the
  metrics is of the selected route and young enough for the read to end in time
  (`MetricsProven`, `ReadsInTime`), and a blocker that cannot be resolved stays
  open (`EndedIsOpen`).
- **The composition**. A step of `Workloads` is a step of each part or a stutter
  of it (`EachSteps`), so the conjunction of the eight invariants above
  (`OneInv`) is inductive for it. The composed theorems state the properties of
  the run `jobs` under their own names.

*Only model-checked*: the liveness properties of the runs (`OrdersEnd`,
`AlertIsClaimed`, `TaintFollowsNode`, `TroubleIsAnswered`, `Restored`,
`LibraryEnds`, `LazyLibrarianEnds`, `JobsEnd`), which are out of the prover's
reach: they rest on fairness and on what is enabled. Every invariant and every
action property of the passing runs is stated by a theorem of the table. One of
them carries a condition the run has by its instance: `NoOriginalLost` is proved
while the runs of the EPUB job keep apart, and the instance has one run.

## Findings

Three runs find a counterexample to what a comment says; `PROJECT.json`
quotes the line.

| run | what the code does |
|---|---|
| `find_pinned` | an order that is filed again, or set back to pending, while the kept window of its first session is still there holds its lane, and itself, for ever: `lane_active` sees a window whose order is not terminal, and no sweep acts on pending orders |
| `find_source` | the watchdog takes the absence of MAIN from a listing and deletes SOURCE next; a creation of MAIN that was already submitted may be accepted after it, and MAIN then runs without the lock SOURCE held |
| `find_cascade` | the scan deletes an author named "unknown" when it moves one of its books, without asking what else it owns; the others go with it |

Other statements of the repository have a counterexample too. Each is a
definition of its module, quoted there, and can be given to TLC with the
instance of its module; no run spends itself on them:

| definition | what the code does |
|---|---|
| `Coordination!PodPageAfterRun` | the grace window counts from first seen, not from the claim: when the entry existed before the merge that explains it, a run that has just begun is paged as failed (`gate.sh:69`) |
| `AlertResponder!OneOrderPerCondition` | the responder exports `ESCALATE_SIG`, `remediate.sh` reads `REMEDIATE_SIG`; the key it falls back to depends on the size of the unit, and one condition gets two orders (`respond.sh:503`) |
| `EpubLibrary!OneRun` | two runs that meet one stale lock both take it over: its age is read and its time set in two steps (`epub_convert.py:589`) |
| `BookAcquisition!UnmatchedIsFailed` | a complete download nothing of which fits stays Snatched: the loop that fails the unmatched builds each `BookState` anew from its row, and a new one has no failure (`postprocess.py:3057`) |
| `RenderLease!NothingLeftBehind` | a prompt that starts between the engine's queue being read and the deletion of what was pending is neither deleted nor interrupted (`api.py:131`) |
| `BlenderDesktop!LockOutlivesEdit` | the wait for the edit after a cancellation is not shielded: a second cancellation, which the scope of an abandoned request delivers, releases the lock while the edit runs in its thread (`service.py:73`) |
| `SchemaUpgrade!SeriesApart` | the renumbering cuts two characters off every id, that of a series without a source too, and its UPDATE then moves the members of another series |
| `OwnedJob!DiagnosticIsAbsent` | the diagnostic writes a receipt of absence although its CREATE has no known outcome; its sibling refuses to (`live-diagnostic/run.py:303`) |

The models also exhibit the following, which shaped the properties that are
checked: they are stated so as to say what does hold beside them.

- `order-status.sh` does not look at the recorded status: a session that is
  slow but alive turns the `failed` of the responder's watchdog into its own
  verdict. The watcher's claim does not either, and re-opens such an order.
  Hence `SingleFlight` and `SweepsSpareWorking` speak of orders that were not
  closed *since their claim*.
- The watchdog marks a stalled remediation failed before it escalates; a
  refused escalation is not retried. Hence `OrdersEnd`, and no claim that
  somebody hears.
- A session and the watchdog promote one remediation under keys that carry
  their source, so both escalations can be open.
- The `digested` stamp survives a re-queue, and retention deletes by key: a
  second outcome, or an order filed again between the snapshot and the
  deletion, may vanish. Hence `NeverBlank`, and nothing stronger.
- A taint is applied from a listing as old as the Job: the kubelet may have
  reported since. Hence `TaintIsJustified` says *while the Job ran*. A node
  that is excluded after it was tainted keeps its taint; hence the
  `excluded` in `ReturnedIsUntainted`.
- Retention of the state ConfigMap looks at first seen only: it drops the
  claim of a regression that lasts longer than the TTL, and the stamp of a
  recent page. Hence `forgot` in `Throttled`, and a claim that is kept only
  *for as long as its entry lives*.
- A pending fix whose merge leaves the lookback window is recorded as
  nonupgrade, and about pods nobody is paged then. Hence `FluxIsHeard` is
  about Flux objects.
- A run that lives through the turn of the hour pages in the new hour and is
  counted in the old one; hence the cap is one per bucket. A page that stands
  in for an order that could not be filed is subject to the cap as any other.

- A start of the Blender desktop that is refused because a tracked part is alive
  but not ready forgets it: the lifespan removes the state file, the processes
  stay, and the next start finds an untracked listener on the port.
- `OnlyLateCreates` and `WritesInOutage` except the Jobs whose creation was
  under way when the stop was requested: nothing in the watchdog can wait for
  those, and `find_source` shows one.
- A worker of the maintenance that dies with the lock but before its receipt
  leaves the services stopped for review; hence the last lines of `ComesBack`.
- Interrupted upgrades may never finish: a second ADD COLUMN of one step fails
  as a duplicate, or is never reached. `UpgradeKeeps` says that no list and no
  membership is lost, and nothing about completion.

- Two searches for one book may pick the same release: both look at the table
  of wanted books before either request is sent, and the second request, which
  the client refuses as a duplicate, writes Failed to the row by its URL whatever
  its status is (`resultlist.py:696`). The book then stays Snatched while the
  download goes on under a failed row. Hence `Clashed` in `RowsAgree`, `dClash`
  among the exemptions of `LosesNothing` (`FailedNow`), and the theorem
  `OneSearchNeverClashes`.

## Plan

Done: the order plane, the node controller, gate and triage and the responder;
the copy window and what runs in it, the jobs that rewrite the library, the
exchanges and owned Jobs, the patched LazyLibrarian, the authoring services
with their abstract specification, the two commands that deliver a change: all
model-checked. Proved: every safety property the runs check.

Next, in this order:

1. `SpendGuard`: the monthly ledger that `respond.sh` and `run-shepherd.sh`
   keep by read, run and write back; the shepherd's ramp.
2. `ResponderOrders`: the responder composed with the `rem` lane of
   `WorkOrders`, in place of the abstract set of open orders.
3. `AgentRun` (session markers and recovery), `VramGuard` (a concurrent
   guard), `ScribeNotes` (cursors).

## Not modelled, and why

- *Order plane*: the login-state probe at the end of a poll, Remote Control
  registration, prompts, models and on-disk artifacts (no order depends on
  them), and the manual sweep `ops-reap.sh`. Which of several kept windows
  `Bound` reaps is left open, as is the choice among equally old orders.
- *Node controller*: `DRY_RUN`, the kubeconfig it writes, timestamps that do
  not parse.
- *Gate and triage*: the corpse filters inside `collect_regressions`, the
  gate's own checks of sources, secrets and Ceph, the orphan report, the
  contents of pages.
- *Responder*: the filters that choose alerts in scope, the spend ledger (a
  budget that is spent is a fault here), the fallback from plan to metered
  key, pruning of past hours' page counts (never read again). The order among
  storms, and among singles, is left open. Pages about a failed diagnosis go
  through an escalation, which is best effort.
- *Copy window*: the route without a cached source, the publisher captures,
  and a Job of the same name that belongs to somebody else (`OwnedJob` has
  that case, for the hosts that share its code).
- *EPUB conversion*: the bytes of ZIP and OPF (an edit is its effect on how
  Kavita groups books), the manual author proof, targeted stripping, dry runs.
- *Retention, exchange, baseline*: the contents and hashes that the code
  compares; the schema checks of each document; identity keys.
- *Maintenance*: the rows of the catalog and their preconditions.
- *LazyLibrarian*: magazines, comics and audiobooks (they take the same paths),
  the scores of matching, Calibre, covers, notifications; of the upgrade the
  functions for versions 45 to 59 and the data copied into added columns.
- *Backend ledger*: the reversal record, which nothing reads; the checks of the
  file's shape and size; the contents of receipts and audits.
- *Not modelled yet*: the shepherd's budget, developer sessions, the
  OpenProject client, the scribe, the GPU memory guard, the fixture host; the
  plan has those that keep state.
- *Not to be modelled*: manifests are declarations; what the models need of
  them (schedules, `Forbid`, deadlines, replica counts) is in the guards, the
  bounds and the fairness. Canaries, scrapers, provisioning and media scripts
  are sequences of calls without state of their own.
