---------------------------- MODULE MCCopyWindow ----------------------------
(* Instances of CopyWindow for TLC.                                        *)
EXTENDS CopyWindow

CONSTANTS a1, a2
=============================================================================
