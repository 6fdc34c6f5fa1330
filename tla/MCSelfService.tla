--------------------------- MODULE MCSelfService ---------------------------
(***************************************************************************)
(* Instance of SelfService for TLC.                                        *)
(***************************************************************************)
EXTENDS SelfService

CONSTANTS alice, s1, s2

MCUsers == {alice}
MCSids == {s1, s2}
=============================================================================
