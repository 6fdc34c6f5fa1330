----------------------------- MODULE PeerCounts -----------------------------
(***************************************************************************)
(* What single sign-on relies on of the peer service: the number of peers  *)
(* of each user.  It grows by one peer of one user at a time and only      *)
(* below the limit, and removals, expiry and revocation lower it.          *)
(*                                                                         *)
(* The peer service implements this, through the registry it promises;     *)
(* the handlers and the reconciler of SelfService act on these numbers.    *)
(***************************************************************************)
EXTENDS Integers

CONSTANTS
    Owners,      \* users whose number of peers is limited
    MaxPerOwner  \* the limit

VARIABLE count   \* the number of peers of each user

Init == count = [o \in Owners |-> 0]

\* A user below the limit gets a peer.
Add(o) ==
    /\ count[o] < MaxPerOwner
    /\ count' = [count EXCEPT ![o] = @ + 1]

\* Users lose peers; nobody gets one.
Lose ==
    /\ count' \in [Owners -> 0..MaxPerOwner]
    /\ \A o \in Owners : count'[o] <= count[o]

Next == Lose \/ \E o \in Owners : Add(o)

Spec == Init /\ [][Next]_count
=============================================================================
