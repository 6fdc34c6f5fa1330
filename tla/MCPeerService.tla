--------------------------- MODULE MCPeerService ---------------------------
(***************************************************************************)
(* Instance of PeerService for TLC.                                        *)
(***************************************************************************)
EXTENDS PeerService

CONSTANTS k1, k2, k3, alice

MCKeys == {k1, k2, k3}
MCOwners == {alice}
=============================================================================
