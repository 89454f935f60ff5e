--------------------------- MODULE MCLazyLibrarian ---------------------------
(* LazyLibrarianJobs in small instances for TLC: one book that a Usenet    *)
(* release and a torrent offer, two libraries, databases of three versions.*)
EXTENDS LazyLibrarianJobs, TLC

CONSTANTS b1, b2, b3, b4, t1, t2, s1, s2, a1, a2, a3, f1, f2, f3, f4

MCTorrents == {<<b1, t2>>}
MCOffers == b1 :> {t1, t2}

(* b1 and b3 are one title; in the first library b3 counts for nobody, in the second a title is held under *)
(* another id, by an author with a provisional name. *)
MCTitle == b1 :> 1 @@ b2 :> 2 @@ b3 :> 1 @@ b4 :> 4 @@ f1 :> 1 @@ f2 :> 2 @@ f3 :> 3 @@ f4 :> 2
MCWrittenBy == <<a1, a1, a2, a2>>
MCIdOf == f1 :> b1 @@ f2 :> None @@ f3 :> None @@ f4 :> b2
Libraries(first, second) == "scan" :> first @@ "scan again" :> second
MCFiles == Libraries({f1, f2, f3, f4}, {f1, f2, f3})
MCTree == Libraries(<<f4, f1, f2, f3>>, <<f1, f2, f3>>)
MCHidden == Libraries({f4}, {})
MCKnown == Libraries({b1, b2}, {b1, b4})
MCHeld == Libraries({b3}, {b2})
MCHeldBy == Libraries(b3 :> a1, b2 :> a3)
MCUnlinked == Libraries({b3}, {})
MCMaxMoves == Libraries(2, 0)

(* A new database, and two that are old; a series of GoodReads and one without a source. *)
MCListed == {<<"toread", b1>>, <<"haveread", b1>>, <<"haveread", b2>>, <<"abandoned", b3>>}
MCSeriesIds == {<<1, 7>>, <<2, 5>>}
MCSource == <<1, 7>> :> <<"G", "R">> @@ <<2, 5>> :> <<>>
MCMembers == {<<<<1, 7>>, b1>>, <<<<2, 5>>, b2>>, <<<<2, 5>>, b3>>}

(* What does not run has one initial state. *)
MCInit ==
  /\ OneInit /\ (which # "upgrade" => zVersion = 0)
  /\ which \notin Catalogues => Y("scan")!Init

(* A race of two searches for one release, nothing else going wrong; otherwise one search at a time. *)
OneRelease == dEvents = 0 /\ \A s \in Searchers : dPick[s] # <<b1, t2>>
MCNext ==
  /\ OneNext
  /\ which = "fetch" => dSearch'[s2] = "idle"
  /\ which = "race" => OneRelease'

MCSpec == MCInit /\ [][MCNext]_onevars /\ OneFairness
=============================================================================
