-------------------------- MODULE LazyLibrarianJobs --------------------------
(* What the patched LazyLibrarian does to its database: fetch books, scan  *)
(* its library, upgrade at start. The properties that involve one of these *)
(* only are checked with the others at rest: which names the part that     *)
(* runs. A catalogue is a library to scan and the rows it starts with; a   *)
(* race is a fetch, of which an instance bounds other things. Fetching is  *)
(* BookAcquisition itself.                                                 *)
EXTENDS BookAcquisition, Sequences

CONSTANTS
  Catalogues,
  Ids, Authors, Title, WrittenBy, IdOf, Unknown, Partial, MaxAdds, MaxCrashes,     \* LibraryScan, the same for all of them
  Files, Tree, Hidden, Known, Held, HeldBy, Unlinked, MaxMoves,           \* by catalogue
  Versions, ReadBooks, KnownBooks, Listed, SeriesIds, Source, Members, MaxKills   \* SchemaUpgrade

VARIABLES
  which,
  yAuthor, yCounted, yBook, yOwner, yLinks, yFile, yWanted, yDisk, yPC, yRemove, ySnap, yAt, yHit, yFrom,
    yNew, yLast, yAdd, yAdding, yLoading, yTodo, yAdds, yMoves, yCrashes,
  zVersion, zHas, zForeign, zUsers, zLists, zMerged, zSeries, zMember, zTemp, zTodo, zPC, zStep, zLine, zChanged,
    zCrashes

dvars == vars
yvars == <<yAuthor, yCounted, yBook, yOwner, yLinks, yFile, yWanted, yDisk, yPC, yRemove, ySnap, yAt, yHit,
           yFrom, yNew, yLast, yAdd, yAdding, yLoading, yTodo, yAdds, yMoves, yCrashes>>
zvars == <<zVersion, zHas, zForeign, zUsers, zLists, zMerged, zSeries, zMember, zTemp, zTodo, zPC, zStep, zLine,
           zChanged, zCrashes>>

Y(c) == INSTANCE LibraryScan WITH Files <- Files[c], Tree <- Tree[c], Hidden <- Hidden[c], Known <- Known[c],
          Held <- Held[c], HeldBy <- HeldBy[c], Unlinked <- Unlinked[c], MaxMoves <- MaxMoves[c]
Z == INSTANCE SchemaUpgrade WITH Books <- ReadBooks, Known <- KnownBooks, MaxCrashes <- MaxKills

ASSUME InstancesAssumption ==
  /\ "fetch" \notin Catalogues /\ "race" \notin Catalogues /\ "upgrade" \notin Catalogues
  /\ (\A c \in Catalogues : Y(c)!ScanAssumption) /\ Z!SchemaAssumption

OneInit ==
  /\ which \in {"fetch", "race", "upgrade"} \cup Catalogues /\ Init /\ Z!Init
  /\ \E c \in Catalogues : (which \in Catalogues => which = c) /\ Y(c)!Init

OneNext ==
  \/ which \in {"fetch", "race"} /\ Next /\ UNCHANGED <<which, yvars, zvars>>
  \/ (\E c \in Catalogues : which = c /\ Y(c)!Next) /\ UNCHANGED <<which, dvars, zvars>>
  \/ which = "upgrade" /\ Z!Next /\ UNCHANGED <<which, dvars, yvars>>

onevars == <<which, dvars, yvars, zvars>>

(* The fairness of each, while it is the one that runs. *)
OneFairness ==
  /\ WF_dvars(which = "fetch" /\ Run) /\ \A p \in Rows : WF_dvars(which = "fetch" /\ Grow(p))
  /\ \A c \in Catalogues : WF_yvars(which = c /\ Y(c)!Scan)

OneSpec == OneInit /\ [][OneNext]_onevars /\ OneFairness

-----------------------------------------------------------------------------
(* A book's file in the database is a file of that book, whatever ids the files carry. *)
RightFile == \A c \in Catalogues : which = c => Y(c)!RightFile

(* The scan deletes no author who owns books. *)
OwnersSpared == [][\A c \in Catalogues : which = c => Y(c)!SparesOwners]_yvars

(* An upgrade keeps every user's lists, however often it is interrupted. *)
UpgradeKeeps == Z!UpgradeKeeps

(* No row stays Snatched while the post-processor comes and goes, and a scan finds every file. *)
LazyLibrarianEnds ==
  (which = "fetch" => RowSettles) /\ \A c \in Catalogues : which = c => Y(c)!FileIsFound
=============================================================================
