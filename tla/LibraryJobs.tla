----------------------------- MODULE LibraryJobs -----------------------------
(* The jobs that rewrite the files of the book library: the hourly EPUB    *)
(* job, the retention of redundant copies, the catalog maintenance. They   *)
(* are kept apart by the operator and by their locks, so one runs at a     *)
(* time: which names it, the others stay as they began; the properties say *)
(* what all of them promise. The maintenance job is MaintenanceJob itself. *)
EXTENDS MaintenanceJob

CONSTANTS
  Books, Author, Title, Ambiguous, LibraryHolds, Stripping, Runs, MaxImports, EpubFaults,  \* EpubLibrary
  Paths, Bound, MaxActs, MaxRuns                                                           \* CopyRetention

VARIABLES which,
  eSrc, eLib, ePart, eYoung, eBak, eStrip, eHeld, eLock, eRun, eImports, eFaults,
  vFile, vBak, vLinked, vGone, vPtr, vLocks, vQuiet, vWanted, vMarked, vEv, vFence, vLock, vRun, vLate,
    vActs, vRuns

evars == <<eSrc, eLib, ePart, eYoung, eBak, eStrip, eHeld, eLock, eRun, eImports, eFaults>>
vvars == <<vFile, vBak, vLinked, vGone, vPtr, vLocks, vQuiet, vWanted, vMarked, vEv, vFence, vLock, vRun,
           vLate, vActs, vRuns>>
mvars == vars

E == INSTANCE EpubLibrary WITH MaxFaults <- EpubFaults
V == INSTANCE CopyRetention

ASSUME InstancesAssumption == E!EpubAssumption /\ V!RetentionAssumption

OneInit == which \in {"convert", "retain", "maintain"} /\ E!Init /\ V!Init /\ Init

OneNext ==
  \/ which = "convert" /\ E!Next /\ UNCHANGED <<which, vvars, mvars>>
  \/ which = "retain" /\ V!Next /\ UNCHANGED <<which, evars, mvars>>
  \/ which = "maintain" /\ Next /\ UNCHANGED <<which, evars, vvars>>

onevars == <<which, evars, vvars, mvars>>

(* The fairness of each, while it is the one that runs. *)
OneFairness ==
  /\ \A r \in Runs : WF_evars(which = "convert" /\ E!Step(r))
  /\ WF_evars(which = "convert" /\ E!LockAges)
  /\ \A x \in {"mobi", "epub"} \X Books : WF_evars(which = "convert" /\ E!Settle(x))
  /\ \A b \in Books : WF_evars(which = "convert" /\ E!ImportEnds(b))
  /\ WF_mvars(which = "maintain" /\ Progress)

OneSpec == OneInit /\ [][OneNext]_onevars /\ OneFairness

-----------------------------------------------------------------------------
(* No original is lost and nothing half-written is seen: what the converter stripped, what retention moved *)
(* to the backups and what maintenance changed can be restored, whole, wherever a run stops, and an EPUB is *)
(* published by one rename (publish_epub). *)
NoOriginalLost == E!StrippedRecoverable /\ E!PublishedWhole /\ V!RetainedRecoverable /\ Undoable

(* Retention deletes only what another intact copy makes unneeded, never the copy its evidence keeps. *)
OnlyRedundantGoes == V!UnneededOnly /\ V!KeeperStays

(* Every convertible book is converted, leftovers of dead conversions go, books of one title by two authors do not *)
(* stay one group, and the services come back after maintenance, however it ends. *)
LibraryEnds == (which = "convert" => E!Converts /\ E!LeftoversGo /\ E!GroupsSettle) /\ ComesBack
=============================================================================
