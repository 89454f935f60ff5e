---------------------------- MODULE MCLibraryScan ----------------------------
(* An instance of LibraryScan for TLC: an author whose name holds          *)
(* "unknown" owns two books, and the tree has a file of one of them by     *)
(* another author.                                                         *)
EXTENDS LibraryScan, TLC

CONSTANTS b2, b3, a1, a2, f1

MCTitle == b2 :> 2 @@ b3 :> 1 @@ f1 :> 1
MCWrittenBy == <<a1, a1>>
MCIdOf == f1 :> None
MCTree == <<f1>>
MCHeldBy == b2 :> a2 @@ b3 :> a2
=============================================================================
