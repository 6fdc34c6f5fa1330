--------------------------- MODULE MCProxyTunnels ---------------------------
(***************************************************************************)
(* Instance of ProxyTunnels for TLC.                                       *)
(***************************************************************************)
EXTENDS ProxyTunnels

CONSTANTS r1, r2, alice, bob, c1

MCRequests == {r1, r2}
MCOneRequest == {r1}
MCUsers == {alice, bob}
MCOneUser == {alice}
MCCalls == {c1}
=============================================================================
