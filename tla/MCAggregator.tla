--------------------------- MODULE MCAggregator ----------------------------
(***************************************************************************)
(* Instances of Aggregator for TLC.                                        *)
(***************************************************************************)
EXTENDS Aggregator

\* A platform whose earliest Instant is the start of the process: early passes
\* have a cutoff for the short window and none for the long one, later ones have
\* both, as all have on Linux.
ShallowPast == 0
=============================================================================
