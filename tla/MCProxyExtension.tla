-------------------------- MODULE MCProxyExtension --------------------------
(***************************************************************************)
(* Instance of ProxyExtension for TLC.                                     *)
(***************************************************************************)
EXTENDS ProxyExtension, TLC

CONSTANTS f1, f2, A, B

MCFlows == {f1, f2}
MCConfigs == {A, B}

\* Pages and configurations are interchangeable (used where no liveness is checked).
Symmetry == Permutations(MCFlows) \union Permutations(MCConfigs)
=============================================================================
