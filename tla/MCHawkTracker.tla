--------------------------- MODULE MCHawkTracker ---------------------------
(***************************************************************************)
(* Instance of HawkTracker for TLC.                                        *)
(***************************************************************************)
EXTENDS HawkTracker

CONSTANTS a1, a2, b1, f1, w1

MCV4 == {a1, a2}
MCV6 == {b1}
MCWords == {w1}
MCFetches == {f1}

\* The history and the changes are asked for and shown in the same way.
MCEndpoints == {"latest", "changes"}
=============================================================================
