---------------------------- MODULE EpubLibrary ----------------------------
(***************************************************************************)
(* The hourly EPUB job (lazylibrarian/app/epub-convert): epub_convert.py   *)
(* converts a folder that holds only a .mobi or .azw3 and publishes the    *)
(* EPUB beside it; epub_metadata.py takes series metadata out of EPUBs and *)
(* keeps each original.  LazyLibrarian imports into the same folders at    *)
(* any moment, and a run may be killed between any two steps.  A book is a *)
(* folder; its number is its place in the sorted walk.                     *)
(***************************************************************************)
EXTENDS Integers, FiniteSets, Functions

CONSTANTS Books,      \* the folders, numbers
          Author, Title,  \* what the credits and titles of a book normalise to
          Ambiguous,  \* books whose credits name no single author
          LibraryHolds, \* folders the configuration preserves
          Stripping,  \* STRIP_SERIES_METADATA
          Runs,       \* processes: the scheduled run, a manual one
          MaxImports, \* bound: imports by LazyLibrarian
          MaxFaults   \* bound: kills, spent budgets and manual restores

(* What is assumed of the constants. *)
EpubAssumption ==
  /\ Books \subseteq Nat /\ Ambiguous \subseteq Books /\ LibraryHolds \subseteq Books
  /\ DOMAIN Author = Books /\ DOMAIN Title = Books
  /\ Stripping \in BOOLEAN /\ MaxImports \in Nat /\ MaxFaults \in Nat

VARIABLES
  eSrc,     \* version of the .mobi or .azw3 in the folder, 0 without one
  eLib,     \* the EPUB under its library name
  ePart,    \* the hidden .<name>.epub.partial
  eYoung,   \* files that changed within SETTLE_SECONDS
  eBak,     \* STATE_DIR/backup: the copy of what was edited, and its manifest
  eStrip,   \* folders where a killed edit left its hidden .<name>.strip-<hex>.partial
  eHeld,    \* held.tsv
  eLock,    \* the lock directory: free, fresh or stale
  eRun,     \* each process
  eImports, eFaults

vars == <<eSrc, eLib, ePart, eYoung, eBak, eStrip, eHeld, eLock, eRun, eImports, eFaults>>

(* The bytes of an EPUB: who made them from which version, the grouping in *)
(* their metadata, how often the job has edited them since (each edit      *)
(* leaves other bytes), and whether they are written to their end.         *)
None == [by |-> "none", ver |-> 0, tag |-> "none", edits |-> 0, whole |-> TRUE]
Epub(by, n, tag) == [by |-> by, ver |-> n, tag |-> tag, edits |-> 0, whole |-> TRUE]
NoPart == [doc |-> None, linked |-> FALSE]

Off == [pc |-> "off", phase |-> "none", todo |-> {}, book |-> 0, src |-> 0,
        base |-> None, doc |-> None, bad |-> FALSE, seen |-> [b \in Books |-> None]]

Init ==
  /\ eSrc \in [Books -> {0, 1}] /\ eLib \in [Books -> {None, Epub("ll", 1, "series"), Epub("ll", 1, "none")}]
  /\ \A b \in Books : eSrc[b] = 0 \/ eLib[b] = None
  /\ ePart = [b \in Books |-> NoPart] /\ eYoung = {} /\ eHeld = {}
  /\ eBak = [b \in Books |-> {}] /\ eStrip = {} /\ eLock = "free"
  /\ eRun = [r \in Runs |-> Off] /\ eImports = 0 /\ eFaults = 0

First(S) == CHOOSE b \in S : \A c \in S : b <= c

----------------------------------------------------------------------------
(* The grouping rules.                                                     *)

(* _grouping_from_archive: the name Kavita files the book under.  Only     *)
(* series metadata, with an index, overrides the title.                    *)
Alias(b, tag) == IF tag = "none" THEN <<"title", Title[b]>> ELSE <<tag, b>>

(* dedicated_grouping: same-title books by other authors take the tag      *)
(* "Title (Author)"; credits that name no single author hold them all.     *)
Collisions(b, seen) ==
  {c \in Books \ {b} : seen[c] # None /\ Title[c] = Title[b]
                       /\ (Author[c] # Author[b] \/ Ambiguous \cap {b, c} # {})}
DedicatedGrouping(b, seen) ==
  IF Collisions(b, seen) = {} THEN "none"
  ELSE IF Ambiguous \cap ({b} \cup Collisions(b, seen)) # {} THEN "hold"
  ELSE "group"

(* collision_conflicts: an alias the edit newly exposes and another        *)
(* author's book already has, or would have.                               *)
CollisionConflicts(b, tag, now, seen, newFile) ==
  {c \in Books \ {b} :
     /\ seen[c] # None /\ Author[c] # Author[b]
     /\ (newFile \/ Alias(b, tag) # Alias(b, now))
     /\ Alias(b, tag) \in {Alias(c, seen[c].tag), Alias(c, "none")}}

(* sanitized_epub: the series metadata gone, the dedicated tag set; the    *)
(* very bytes where that is so already.                                    *)
Sanitized(doc, grouping) ==
  IF doc.tag = grouping THEN doc ELSE [doc EXCEPT !.tag = grouping, !.edits = @ + 1]

----------------------------------------------------------------------------
(* LazyLibrarian, which takes no part in the lock.                         *)

ImportMobi(b) ==
  /\ eImports < MaxImports /\ eImports' = eImports + 1
  /\ eSrc' = [eSrc EXCEPT ![b] = @ + 1] /\ eYoung' = eYoung \cup {<<"mobi", b>>}
  /\ UNCHANGED <<eLib, ePart, eBak, eStrip, eHeld, eLock, eRun, eFaults>>

(* The copy into the library folder begins, over whatever has the name.    *)
ImportEpub(b, tag) ==
  /\ eImports < MaxImports /\ eImports' = eImports + 1
  /\ eLib' = [eLib EXCEPT ![b] = [Epub("ll", eImports + 2, tag) EXCEPT !.whole = FALSE]]
  /\ eYoung' = eYoung \cup {<<"epub", b>>}
  /\ ePart' = [ePart EXCEPT ![b] = IF @.linked THEN [@ EXCEPT !.doc = eLib'[b]] ELSE @]
  /\ UNCHANGED <<eSrc, eBak, eStrip, eHeld, eLock, eRun, eFaults>>

ImportEnds(b) ==
  /\ eLib[b].by = "ll" /\ ~eLib[b].whole
  /\ eLib' = [eLib EXCEPT ![b].whole = TRUE]
  /\ ePart' = [ePart EXCEPT ![b] = IF @.linked THEN [@ EXCEPT !.doc = eLib'[b]] ELSE @]
  /\ UNCHANGED <<eSrc, eYoung, eBak, eStrip, eHeld, eLock, eRun, eImports, eFaults>>

Settle(x) ==
  /\ x \in eYoung /\ (x[1] = "epub" => eLib[x[2]].whole)
  /\ eYoung' = eYoung \ {x}
  /\ UNCHANGED <<eSrc, eLib, ePart, eBak, eStrip, eHeld, eLock, eRun, eImports, eFaults>>

----------------------------------------------------------------------------
(* The lock.                                                               *)

Entered(run) == [run EXCEPT !.pc = IF Stripping THEN "census" ELSE "clean",
                            !.phase = "strip", !.todo = Books]

(* take_lock: the directory is made, or found older than LOCK_STALE_SECONDS*)
TakeLock(r) ==
  /\ eRun[r].pc = "off"
  /\ \/ eLock = "free" /\ eLock' = "fresh" /\ eRun' = [eRun EXCEPT ![r] = Entered(Off)]
     \/ eLock = "stale" /\ eRun' = [eRun EXCEPT ![r].pc = "takeover"] /\ UNCHANGED eLock
  /\ UNCHANGED <<eSrc, eLib, ePart, eYoung, eBak, eStrip, eHeld, eImports, eFaults>>

(* ... and taken over by touching it.                                      *)
TakeOver(r) ==
  /\ eRun[r].pc = "takeover" /\ eLock' = "fresh"
  /\ eRun' = [eRun EXCEPT ![r] = Entered(Off)]
  /\ UNCHANGED <<eSrc, eLib, ePart, eYoung, eBak, eStrip, eHeld, eImports, eFaults>>

LockAges ==
  /\ eLock = "fresh" /\ eLock' = "stale" /\ \A r \in Runs : eRun[r].pc = "off"
  /\ UNCHANGED <<eSrc, eLib, ePart, eYoung, eBak, eStrip, eHeld, eRun, eImports, eFaults>>

(* main's finally.                                                         *)
Close(r) ==
  /\ eRun[r].pc = "close" /\ eLock' = "free" /\ eRun' = [eRun EXCEPT ![r] = Off]
  /\ UNCHANGED <<eSrc, eLib, ePart, eYoung, eBak, eStrip, eHeld, eImports, eFaults>>

(* On to the next book of the walk, or to what follows it.                 *)
Advance(run) ==
  LET left == run.todo \ {run.book} IN
  [run EXCEPT !.todo = left, !.book = 0, !.src = 0, !.base = None, !.doc = None,
     !.pc = IF left # {} THEN run.phase
            ELSE IF run.phase = "strip" THEN "clean" ELSE "close"]

Keep(r) == UNCHANGED <<eSrc, eLib, ePart, eYoung, eBak, eStrip, eHeld, eLock, eImports, eFaults>>

----------------------------------------------------------------------------
(* The metadata pass.                                                      *)

(* identity_preflight reads one EPUB; one it cannot read, or an interrupted*)
(* publication of unclear author, refuses the whole pass.                  *)
ReadIdentity(r) ==
  /\ eRun[r].pc = "census" /\ eRun[r].todo # {}
  /\ LET b == First(eRun[r].todo) IN
     eRun' = [eRun EXCEPT ![r].todo = @ \ {b}, ![r].seen[b] = eLib[b],
                ![r].bad = @ \/ ~eLib[b].whole \/ (ePart[b].linked /\ b \in Ambiguous)]
  /\ Keep(r)

PreflightEnds(r) ==
  /\ eRun[r].pc = "census" /\ eRun[r].todo = {}
  /\ eRun' = [eRun EXCEPT ![r].pc = IF eRun[r].bad THEN "close" ELSE "strip",
                          ![r].todo = Books]
  /\ Keep(r)

(* read_regular of the file the census saw, settled and singly linked.     *)
Readable(run, b) ==
  /\ eLib[b] # None /\ eLib[b] = run.seen[b] /\ eLib[b].whole /\ ~ePart[b].linked
  /\ <<"epub", b>> \notin eYoung

Edited(run, b) ==
  LET g == DedicatedGrouping(b, run.seen) IN
  /\ Readable(run, b) /\ b \notin LibraryHolds /\ g # "hold"
  /\ CollisionConflicts(b, g, eLib[b].tag, run.seen, FALSE) = {}
  /\ Sanitized(eLib[b], g) # eLib[b]

(* strip_series_pass and strip_existing on one file: it needs no edit, is  *)
(* left for a reason, or is read and its edited form validated.            *)
StripSeries(r) ==
  /\ eRun[r].pc = "strip"
  /\ LET run == eRun[r]
         b == First(run.todo)
         at == [run EXCEPT !.book = b] IN
     eRun' = [eRun EXCEPT ![r] =
       IF Edited(run, b)
       THEN [at EXCEPT !.pc = "backup", !.base = eLib[b],
                       !.doc = Sanitized(eLib[b], DedicatedGrouping(b, run.seen))]
       ELSE Advance(at)]
  /\ Keep(r)

(* RUN_BUDGET_SECONDS is spent: what is left of the walk is deferred.      *)
Deferred(r) ==
  /\ eRun[r].pc \in {"strip", "convert"} /\ eFaults < MaxFaults /\ eFaults' = eFaults + 1
  /\ eRun' = [eRun EXCEPT ![r] = [Advance([@ EXCEPT !.todo = {}]) EXCEPT !.todo = {}]]
  /\ UNCHANGED <<eSrc, eLib, ePart, eYoung, eBak, eStrip, eHeld, eLock, eImports>>

(* backup_original: the copy, then the manifest, both named by the hash of *)
(* the bytes about to be edited, each written by _write_file and read back;*)
(* one a killed run left short is refused.  A converted book is edited     *)
(* before it is published, and its manifest says so.                       *)
Saved(b, doc) == {s \in eBak[b] : s.of = doc}
Stage(b, doc) == IF Saved(b, doc) = {} THEN "none" ELSE (CHOOSE s \in Saved(b, doc) : TRUE).stage
Backup(doc, stage, for, kind) == [of |-> doc, stage |-> stage, for |-> for, kind |-> kind]
Unfinished(b, doc) == {s \in Saved(b, doc) : s.stage # "manifest"}
Save(b, doc, stage, for) ==
  eBak' = [eBak EXCEPT ![b] = (@ \ Unfinished(b, doc)) \cup {Backup(doc, stage, for, "existing")}]
(* Mutant: the manifest there is accepted whatever edit it names.          *)
Named(run) == \E s \in Saved(run.book, run.base) : s.stage = "manifest"
Verified(run) == Backup(run.base, "manifest", run.doc.tag, "existing") \in eBak[run.book]

BackupFile(r) ==
  LET run == eRun[r] IN
  /\ run.pc = "backup"
  /\ \/ /\ Stage(run.book, run.base) = "none" /\ Save(run.book, run.base, "short", "none")
        /\ eRun' = [eRun EXCEPT ![r].pc = "backup written"]
     \/ /\ Stage(run.book, run.base) = "short" /\ eRun' = [eRun EXCEPT ![r] = Advance(run)]
        /\ UNCHANGED eBak
     \/ /\ Stage(run.book, run.base) \notin {"none", "short"}
        /\ eRun' = [eRun EXCEPT ![r].pc = "manifest"] /\ UNCHANGED eBak
  /\ UNCHANGED <<eSrc, eLib, ePart, eYoung, eStrip, eHeld, eLock, eImports, eFaults>>

BackupWritten(r) ==
  LET run == eRun[r] IN
  /\ run.pc = "backup written" /\ Save(run.book, run.base, "copy", "none")
  /\ eRun' = [eRun EXCEPT ![r].pc = "manifest"]
  /\ UNCHANGED <<eSrc, eLib, ePart, eYoung, eStrip, eHeld, eLock, eImports, eFaults>>

BackupManifest(r) ==
  LET run == eRun[r] IN
  /\ run.pc = "manifest"
  /\ \/ /\ Stage(run.book, run.base) = "copy"
        /\ Save(run.book, run.base, "short manifest", "none")
        /\ eRun' = [eRun EXCEPT ![r].pc = "manifest written"]
     \/ /\ Stage(run.book, run.base) # "copy" /\ UNCHANGED eBak
        /\ eRun' = [eRun EXCEPT ![r] =
             IF Verified(run)
             THEN [run EXCEPT !.pc = "replace"] ELSE Advance(run)]
  /\ UNCHANGED <<eSrc, eLib, ePart, eYoung, eStrip, eHeld, eLock, eImports, eFaults>>

ManifestWritten(r) ==
  LET run == eRun[r] IN
  /\ run.pc = "manifest written" /\ Save(run.book, run.base, "manifest", run.doc.tag)
  /\ eRun' = [eRun EXCEPT ![r].pc = "replace"]
  /\ UNCHANGED <<eSrc, eLib, ePart, eYoung, eStrip, eHeld, eLock, eImports, eFaults>>

(* _replace: the edited form is written to a hidden sibling of a name that *)
(* is never used again ...                                                 *)
WriteSibling(r) ==
  /\ eRun[r].pc = "replace" /\ eRun' = [eRun EXCEPT ![r].pc = "sibling"]
  /\ Keep(r)

(* ... the bytes in the library are read again ...                         *)
ReplaceCheck(r) ==
  LET run == eRun[r] IN
  /\ run.pc = "sibling"
  /\ eRun' = [eRun EXCEPT ![r] =
       IF eLib[run.book] = run.base /\ ~ePart[run.book].linked
       THEN [run EXCEPT !.pc = "rename"] ELSE Advance(run)]
  /\ Keep(r)

(* ... and renamed over, whatever LazyLibrarian wrote in between.          *)
Replace(r) ==
  LET run == eRun[r] IN
  /\ run.pc = "rename"
  /\ eLib' = [eLib EXCEPT ![run.book] = run.doc]
  /\ eYoung' = eYoung \cup {<<"epub", run.book>>}
  /\ ePart' = [ePart EXCEPT ![run.book].linked = FALSE]
  /\ eRun' = [eRun EXCEPT ![r] = [Advance(run) EXCEPT !.seen[run.book] = run.doc]]
  /\ UNCHANGED <<eSrc, eBak, eStrip, eHeld, eLock, eImports, eFaults>>

(* The backups whose edit made these very bytes.                           *)
Undoing(b, doc) ==
  {s \in eBak[b] : s.stage = "manifest" /\ s.of # doc /\ Sanitized(s.of, s.for) = doc}

(* --restore-backup: under the same lock, from a complete backup, and only *)
(* over the very edit the manifest names.                                  *)
RestoreBackup(r, b) ==
  /\ eRun[r].pc = "census" /\ eRun[r].todo = Books
  /\ eFaults < MaxFaults /\ eFaults' = eFaults + 1
  /\ b \notin LibraryHolds /\ eLib[b].whole /\ ~ePart[b].linked
  /\ \E s \in Undoing(b, eLib[b]) :
       eRun' = [eRun EXCEPT ![r] = [@ EXCEPT !.pc = "replace", !.phase = "restore", !.todo = {},
                  !.book = b, !.base = eLib[b], !.doc = s.of]]
  /\ UNCHANGED <<eSrc, eLib, ePart, eYoung, eBak, eStrip, eHeld, eLock, eImports>>

----------------------------------------------------------------------------
(* Conversion.                                                             *)

(* clean_partials: what a killed run left, alone or still paired with the  *)
(* name it was published under; then find_candidates.                      *)
Removable(part) == part.doc # None
Candidates == {b \in Books \ LibraryHolds : eSrc[b] # 0 /\ eLib[b] = None}
CleanPartials(r) ==
  /\ eRun[r].pc = "clean"
  /\ ePart' = [b \in Books |-> IF b \notin LibraryHolds /\ Removable(ePart[b]) THEN NoPart ELSE ePart[b]]
  /\ eRun' = [eRun EXCEPT ![r].phase = "convert", ![r].todo = Candidates,
                ![r].pc = IF Candidates = {} THEN "close" ELSE "convert"]
  /\ UNCHANGED <<eSrc, eLib, eYoung, eBak, eStrip, eHeld, eLock, eImports, eFaults>>

DuplicateOf(b) ==
  {c \in Books \ {b} : Author[c] = Author[b] /\ Title[c] = Title[b] /\ eLib[c] # None}

(* Mutant: held.tsv names the folder, not the source.                      *)
NotHeld(b) ==
  /\ {h \in eHeld : h[1] = b} = {} /\ <<"mobi", b>> \notin eYoung /\ DuplicateOf(b) = {}
(* main's tests of a candidate.                                            *)
Convertible(b) ==
  /\ <<b, eSrc[b]>> \notin eHeld /\ <<"mobi", b>> \notin eYoung /\ DuplicateOf(b) = {}

ChooseFolder(r) ==
  /\ eRun[r].pc = "convert"
  /\ LET b == First(eRun[r].todo)
         at == [eRun[r] EXCEPT !.book = b] IN
     eRun' = [eRun EXCEPT ![r] =
       IF Convertible(b) THEN [at EXCEPT !.pc = "calibre", !.src = eSrc[b]] ELSE Advance(at)]
  /\ Keep(r)

(* convert, read_meta, title_matches: the source is held when calibre fails*)
(* or the EPUB is not the book's.                                          *)
ConvertFails(r) ==
  LET run == eRun[r] IN
  /\ run.pc = "calibre" /\ eHeld' = eHeld \cup {<<run.book, run.src>>}
  /\ eRun' = [eRun EXCEPT ![r] = Advance(run)]
  /\ UNCHANGED <<eSrc, eLib, ePart, eYoung, eBak, eStrip, eLock, eImports, eFaults>>

(* strip_converted edits the new EPUB in /tmp, its backup under a name of  *)
(* its own, for calibre writes other bytes each time; a grouping it cannot *)
(* settle holds the source.                                                *)
Convert(r, tag) ==
  LET run == eRun[r]
      raw == Epub("mobi", run.src, tag)
      g == IF Stripping THEN DedicatedGrouping(run.book, run.seen) ELSE tag
      doc == Sanitized(raw, g) IN
  /\ run.pc = "calibre"
  /\ IF Stripping /\ (g = "hold" \/ CollisionConflicts(run.book, g, tag, run.seen, TRUE) # {})
     THEN /\ eHeld' = eHeld \cup {<<run.book, run.src>>} /\ UNCHANGED eBak
          /\ eRun' = [eRun EXCEPT ![r] = Advance(run)]
     ELSE /\ eBak' = [eBak EXCEPT ![run.book] =
                       IF doc # raw THEN @ \cup {Backup(raw, "manifest", g, "converted")} ELSE @]
          /\ eRun' = [eRun EXCEPT ![r].pc = "publish", ![r].doc = doc]
          /\ UNCHANGED eHeld
  /\ UNCHANGED <<eSrc, eLib, ePart, eYoung, eStrip, eLock, eImports, eFaults>>

(* The folder gained an EPUB, or the source is another file by now.        *)
Overtaken(run) == eLib[run.book] # None \/ eSrc[run.book] # run.src

PublishCheck(r) ==
  LET run == eRun[r] IN
  /\ run.pc = "publish"
  /\ eRun' = [eRun EXCEPT ![r] = IF Overtaken(run) THEN Advance(run) ELSE [run EXCEPT !.pc = "copy"]]
  /\ Keep(r)

(* copy_conversion_output: created exclusively; when the name is taken the *)
(* finally clause removes it all the same.                                 *)
CopyBegins(r) ==
  LET run == eRun[r] IN
  /\ run.pc = "copy"
  /\ IF ePart[run.book] = NoPart
     THEN /\ ePart' = [ePart EXCEPT ![run.book].doc = [run.doc EXCEPT !.whole = FALSE]]
          /\ eRun' = [eRun EXCEPT ![r].pc = "copying"]
     ELSE /\ ePart' = [ePart EXCEPT ![run.book] = NoPart]
          /\ eRun' = [eRun EXCEPT ![r] = Advance(run)]
  /\ UNCHANGED <<eSrc, eLib, eYoung, eBak, eStrip, eHeld, eLock, eImports, eFaults>>

CopyEnds(r) ==
  LET run == eRun[r] IN
  /\ run.pc = "copying"
  /\ ePart' = [ePart EXCEPT ![run.book] = IF @ = NoPart THEN @ ELSE [@ EXCEPT !.doc = run.doc]]
  /\ eRun' = [eRun EXCEPT ![r] = IF ePart[run.book] = NoPart THEN Advance(run) ELSE [run EXCEPT !.pc = "recheck"]]
  /\ UNCHANGED <<eSrc, eLib, eYoung, eBak, eStrip, eHeld, eLock, eImports, eFaults>>

Recheck(r) ==
  LET run == eRun[r] IN
  /\ run.pc = "recheck"
  /\ ePart' = [ePart EXCEPT ![run.book] = IF Overtaken(run) THEN NoPart ELSE @]
  /\ eRun' = [eRun EXCEPT ![r] = IF Overtaken(run) THEN Advance(run) ELSE [run EXCEPT !.pc = "link"]]
  /\ UNCHANGED <<eSrc, eLib, eYoung, eBak, eStrip, eHeld, eLock, eImports, eFaults>>

(* os.link: atomic, and refused where LazyLibrarian was quicker.           *)
Linkable(b) == eLib[b] = None /\ ePart[b] # NoPart
Publish(r) ==
  LET b == eRun[r].book IN
  /\ eRun[r].pc = "link"
  /\ IF Linkable(b)
     THEN /\ eLib' = [eLib EXCEPT ![b] = ePart[b].doc]
          /\ ePart' = [ePart EXCEPT ![b].linked = TRUE]
          /\ eYoung' = eYoung \cup {<<"epub", b>>}
          /\ eRun' = [eRun EXCEPT ![r].pc = "published"]
     ELSE /\ ePart' = [ePart EXCEPT ![b] = NoPart] /\ eRun' = [eRun EXCEPT ![r] = Advance(@)]
          /\ UNCHANGED <<eLib, eYoung>>
  /\ UNCHANGED <<eSrc, eBak, eStrip, eHeld, eLock, eImports, eFaults>>

Published(r) ==
  LET run == eRun[r] IN
  /\ run.pc = "published"
  /\ ePart' = [ePart EXCEPT ![run.book] = NoPart]
  /\ eRun' = [eRun EXCEPT ![r] = [Advance(run) EXCEPT !.seen[run.book] = run.doc]]
  /\ UNCHANGED <<eSrc, eLib, eYoung, eBak, eStrip, eHeld, eLock, eImports, eFaults>>

----------------------------------------------------------------------------
(* A pod delete or activeDeadlineSeconds: _terminate unwinds through the   *)
(* finally clauses.                                                        *)
Terminate(r) ==
  /\ eRun[r].pc \notin {"off", "takeover"} /\ eFaults < MaxFaults /\ eFaults' = eFaults + 1
  /\ ePart' = IF eRun[r].src # 0 THEN [ePart EXCEPT ![eRun[r].book] = NoPart] ELSE ePart
  /\ eBak' = IF eRun[r].pc \in {"backup written", "manifest written"}
             THEN [eBak EXCEPT ![eRun[r].book] =
                     (@ \ Unfinished(eRun[r].book, eRun[r].base)) \cup
                     IF eRun[r].pc = "backup written" THEN {}
                     ELSE {Backup(eRun[r].base, "copy", "none", "existing")}]
             ELSE eBak
  /\ eLock' = "free" /\ eRun' = [eRun EXCEPT ![r] = Off]
  /\ UNCHANGED <<eSrc, eLib, eYoung, eStrip, eHeld, eImports>>

(* SIGKILL, or the node is gone: no clause runs, and the hidden sibling of *)
(* an edit stays, for clean_partials knows those of conversions only.      *)
Killed(r) ==
  /\ eRun[r].pc # "off" /\ eFaults < MaxFaults /\ eFaults' = eFaults + 1
  /\ eRun' = [eRun EXCEPT ![r] = Off]
  /\ eStrip' = IF eRun[r].pc \in {"sibling", "rename"} THEN eStrip \cup {eRun[r].book} ELSE eStrip
  /\ UNCHANGED <<eSrc, eLib, ePart, eYoung, eBak, eHeld, eLock, eImports>>

Step(r) ==
  \/ TakeLock(r) \/ TakeOver(r) \/ Close(r) \/ ReadIdentity(r) \/ PreflightEnds(r)
  \/ StripSeries(r) \/ BackupFile(r) \/ BackupWritten(r) \/ BackupManifest(r)
  \/ ManifestWritten(r) \/ WriteSibling(r) \/ ReplaceCheck(r) \/ Replace(r) \/ CleanPartials(r)
  \/ ChooseFolder(r) \/ ConvertFails(r) \/ PublishCheck(r) \/ CopyBegins(r)
  \/ CopyEnds(r) \/ Recheck(r) \/ Publish(r) \/ Published(r)
  \/ \E tag \in {"series", "none"} : Convert(r, tag)

Progress ==
  \/ \E r \in Runs : Step(r)
  \/ \E x \in {"mobi", "epub"} \X Books : Settle(x)
  \/ \E b \in Books : ImportEnds(b)
  \/ LockAges

Next ==
  \/ Progress
  \/ \E b \in Books : ImportMobi(b) \/ \E tag \in {"series", "none"} : ImportEpub(b, tag)
  \/ \E r \in Runs : Deferred(r) \/ Terminate(r) \/ Killed(r) \/ \E b \in Books : RestoreBackup(r, b)

Fairness ==
  /\ \A r \in Runs : WF_vars(Step(r))
  /\ \A x \in {"mobi", "epub"} \X Books : WF_vars(Settle(x))
  /\ \A b \in Books : WF_vars(ImportEnds(b))
  /\ WF_vars(LockAges)

Spec == Init /\ [][Next]_vars /\ Fairness

----------------------------------------------------------------------------
(* Every edit of the metadata can be undone, one after the other, down to  *)
(* the bytes as they came: what the job edited, be it in the library or in *)
(* a backup, has a complete backup whose manifest names that very edit,    *)
(* wherever runs were killed and whatever LazyLibrarian imported.          *)
StrippedRecoverable ==
  \A b \in Books : \A doc \in {eLib[b]} \cup {s.of : s \in eBak[b]} : doc.edits > 0 => Undoing(b, doc) # {}

(* What the job publishes under a library name is never cut short: Kavita  *)
(* and LazyLibrarian see the whole conversion or none.                     *)
PublishedWhole == \A b \in Books : eLib[b].by = "mobi" => eLib[b].whole

(* A pass refused for an interrupted publication of unclear author waits   *)
(* for an operator, and with it everything the run does.                   *)
Refused == \E b \in Ambiguous : ePart[b].linked

(* What a killed conversion left hidden in a folder goes: in the end no    *)
(* folder keeps a partial of one, and a publication cut between its link   *)
(* and its unlink is one file again.  (The sibling of a killed edit stays: *)
(* eStrip never shrinks.)                                                  *)
LeftoversGo == <>[](Refused \/ \A b \in Books \ LibraryHolds : ePart[b] = NoPart)

(* An edit that waits for an operator: its backup was cut short by a kill, *)
(* or the manifest of these bytes names another edit of them or one made   *)
(* when they were converted, or credits name no single author.             *)
Stuck(b) ==
  \/ b \in LibraryHolds \/ DedicatedGrouping(b, eLib) = "hold"
  \/ \E s \in Saved(b, eLib[b]) : s.stage \in {"short", "short manifest"}
                                  \/ (s.stage = "manifest" /\ (s.for # "group" \/ s.kind # "existing"))

(* Two books of one title by two authors do not stay one group in Kavita,  *)
(* even when one was imported while a pass was stripping the other.        *)
GroupsSettle ==
  Stripping => <>[](\A b, c \in Books :
         (Author[b] # Author[c] /\ eLib[b] # None /\ eLib[c] # None
          /\ Alias(b, eLib[b].tag) = Alias(c, eLib[c].tag))
         => Refused \/ (Stuck(b) /\ Stuck(c)))

(* A folder with only a .mobi or .azw3 ends with an EPUB, unless the book  *)
(* is held for an operator or its author already has it in another folder. *)
Converts ==
  <>[](\A b \in Books \ LibraryHolds :
         eSrc[b] = 0 \/ eLib[b] # None \/ <<b, eSrc[b]>> \in eHeld
         \/ DuplicateOf(b) # {} \/ Refused)

(* The scheduled run and a manual one are never both at work, as the file  *)
(* says of its lock.                                                       *)
OneRun == \A r, s \in Runs : {eRun[r].pc, eRun[s].pc} \cap {"off", "takeover"} = {} => r = s
=============================================================================
