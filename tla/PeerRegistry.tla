---------------------------- MODULE PeerRegistry ----------------------------
(***************************************************************************)
(* What the peer service promises, without its calls, failures and         *)
(* restarts: the relation between the peers on record and the keys the     *)
(* WireGuard interface lets in.                                            *)
(*                                                                         *)
(*   - a key is let in on trial, before its peer goes on record;           *)
(*   - a peer goes on record only while its key is let in, under a key and *)
(*     an address nobody has, and within the limit of its owner;           *)
(*   - a peer goes off the record only after its key has been shut out;    *)
(*   - after that only a new trial lets the key in.                        *)
(***************************************************************************)
EXTENDS Integers, FiniteSets

CONSTANTS
    Keys,        \* public keys
    Owners,      \* owners whose number of peers is limited
    MaxPerOwner  \* the limit

VARIABLES
    registered,  \* the peers on record, each with a key, an address and an owner
    reachable    \* the keys the interface lets in

vars == <<registered, reachable>>

KeysOf(S) == {p.key : p \in S}

OwnedBy(o, S) == {p \in S : p.owner = o}

Init == registered = {} /\ reachable = {}

\* A key that is not on record is let in, to register its peer next.
Try(k) ==
    /\ k \notin KeysOf(registered)
    /\ reachable' = reachable \union {k}
    /\ UNCHANGED registered

\* A peer whose key is let in goes on record.
Register(p) ==
    /\ p.key \in reachable
    /\ \A q \in registered : q.key # p.key /\ q.addr # p.addr
    /\ p.owner \in Owners =>
          Cardinality(OwnedBy(p.owner, registered)) < MaxPerOwner
    /\ registered' = registered \union {p}
    /\ UNCHANGED reachable

\* Keys are shut out: by a removal, by undoing a trial, or with the interface.
ShutOut(K) ==
    /\ reachable' = reachable \ K
    /\ UNCHANGED registered

\* Peers whose keys are all shut out go off the record.
Withdraw(S) ==
    /\ KeysOf(S) \intersect reachable = {}
    /\ registered' = registered \ S
    /\ UNCHANGED reachable

\* The key of a peer on record is let in again.
Recover(k) ==
    /\ k \in KeysOf(registered)
    /\ reachable' = reachable \union {k}
    /\ UNCHANGED registered

\* The peer in question is the one the step adds, so that no set of all possible
\* peers has to be named.
Next ==
    \/ \E k \in Keys : Try(k) \/ Recover(k)
    \/ \E p \in registered' \ registered : Register(p)
    \/ \E K \in SUBSET Keys : ShutOut(K)
    \/ \E S \in SUBSET registered : Withdraw(S)

Spec == Init /\ [][Next]_vars

-----------------------------------------------------------------------------
(* What the registry itself guarantees *)

\* No two peers on record share a key or an address.
RecordIsUnique == \A p, q \in registered : p.key = q.key \/ p.addr = q.addr => p = q

\* No owner has more peers on record than the limit.
RecordIsLimited == \A o \in Owners : Cardinality(OwnedBy(o, registered)) <= MaxPerOwner

\* The number of peers of each owner changes as PeerCounts says.
Counts == INSTANCE PeerCounts WITH
    count <- [o \in Owners |-> Cardinality(OwnedBy(o, registered))]

CountsOneByOne == Counts!Spec
=============================================================================
