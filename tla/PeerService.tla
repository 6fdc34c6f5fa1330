---------------------------- MODULE PeerService ----------------------------
(***************************************************************************)
(* The peer service of addons/homerouter-vpn (service.go, pool.go and the  *)
(* wg calls of backend.go): it keeps the list of VPN peers in memory, on   *)
(* disk (peers.json) and on the WireGuard interface.                       *)
(*                                                                         *)
(* Service.mu is held for a whole call, so calls never interleave with one *)
(* another and `pc' names the call in progress.  What does happen between  *)
(* two effects of a call is a crash of the process or a reboot of the      *)
(* host, and every effect may fail: a `wg' command may fail with or        *)
(* without having changed the interface (it is killed by a timeout or by   *)
(* the cancelled request), and a save may fail before its atomic rename.   *)
(*                                                                         *)
(* Peer identifiers are random and unique, so a peer is named by its key.  *)
(* The list is a set: no operation depends on its order.                   *)
(***************************************************************************)
EXTENDS Integers, FiniteSets

CONSTANTS
    Keys,         \* WireGuard public keys clients may register
    Owners,       \* OIDC subjects that use the self-service portal
    Admin,        \* the empty owner of a peer created with the admin API
    PoolSize,     \* number of addresses in the subnet, network and broadcast included
    MaxPerOwner,  \* VPN_MAX_PEERS_PER_USER
    TTL,          \* VPN_PEER_TTL in clock ticks, 0 = peers never expire
    MaxTime,      \* bound on the clock
    MaxFaults     \* bound on failed effects, crashes and reboots

ASSUME AdminAssumption == Admin \notin Owners
\* LoadConfig rejects VPN_MAX_PEERS_PER_USER < 1 and a negative VPN_PEER_TTL,
\* NewPool a subnet smaller than a /29.
ASSUME ConfigAssumption == /\ PoolSize \in Nat /\ PoolSize >= 8
                           /\ MaxPerOwner \in Nat /\ MaxPerOwner >= 1
                           /\ TTL \in Nat
ASSUME BoundAssumption == MaxTime \in Nat /\ MaxFaults \in Nat

VARIABLES
    peers,    \* Service.peers
    disk,     \* the list stored in peers.json
    backend,  \* the interface: the allowed address of each key
    pc,       \* the call that holds Service.mu, or "idle"
    new,      \* the peer a Create is adding (a set of at most one)
    todo,     \* peers that Restore has to apply or removeWhere has to remove
    dropped,  \* peers this removeWhere has removed from the interface
    now,      \* the clock
    faults,   \* failures so far
    fate      \* history: how far each key has come (see Fates)

service == <<peers, disk, backend, pc, new, todo, dropped>>
vars == <<service, now, faults, fate>>

-----------------------------------------------------------------------------
(* Addresses and peers *)

Absent == -1   \* the interface has no peer with this key
NoRoute == 0   \* it has one, whose allowed address went to another key
NoExpiry == 0  \* ExpiresAt is nil

\* Address 0 is the network, 1 the server, PoolSize - 1 the broadcast address.
PoolAddresses == 2..(PoolSize - 2)

Peer == [key : Keys, addr : PoolAddresses, owner : Owners \union {Admin}, expires : Nat]

KeysOf(S) == {p.key : p \in S}

OwnedBy(o, S) == {p \in S : p.owner = o}

FreeAddresses(S) == {a \in PoolAddresses : \A p \in S : p.addr # a}

IsLowest(a, S) == \A b \in S : a <= b

\* `wg set peer k allowed-ips a/32': cryptokey routing gives a to k alone.
WithPeer(b, k, a) ==
    [j \in Keys |-> IF j = k THEN a ELSE IF b[j] = a THEN NoRoute ELSE b[j]]

WithoutPeer(b, k) == [b EXCEPT ![k] = Absent]

Expiry(o) == IF o = Admin \/ TTL = 0 THEN NoExpiry ELSE now + TTL

Expired(p) == p.expires # NoExpiry /\ p.expires <= now

-----------------------------------------------------------------------------
(* Fates of a key, recorded for the properties only:                       *)
(*   "none"       no creation of this key has been acknowledged            *)
(*   "granted"    Create has returned the peer to its client               *)
(*   "cut"        a removal has been attempted on the interface            *)
(*   "withdrawn"  removeWhere has removed the peer and saved the list      *)
Fates == {"none", "granted", "cut", "withdrawn"}

FateBecomes(K, f) == fate' = [k \in Keys |-> IF k \in K THEN f ELSE fate[k]]

Stages == {"down", "restore", "idle", "save", "rollback", "remove"}

TypeOK ==
    /\ peers \subseteq Peer
    /\ disk \subseteq Peer
    /\ backend \in [Keys -> PoolAddresses \union {Absent, NoRoute}]
    /\ pc \in Stages
    /\ new \subseteq Peer
    /\ todo \subseteq peers
    /\ dropped \subseteq peers
    /\ now \in 0..MaxTime
    /\ faults \in 0..MaxFaults
    /\ fate \in [Keys -> Fates]

Init ==
    /\ peers = {}
    /\ disk = {}
    /\ backend = [k \in Keys |-> Absent]
    /\ pc = "down"
    /\ new = {} /\ todo = {} /\ dropped = {}
    /\ now = 0
    /\ faults = 0
    /\ fate = [k \in Keys |-> "none"]

Fault == faults < MaxFaults /\ faults' = faults + 1

NoFault == faults' = faults

-----------------------------------------------------------------------------
(* Starting and stopping *)

\* Variant: the file is loaded but the peers are not applied.
StartWithoutApplying ==
    /\ pc = "down"
    /\ pc' = "restore"
    /\ peers' = disk
    /\ todo' = {}
    /\ NoFault
    /\ UNCHANGED <<disk, backend, new, dropped, now, fate>>

\* main: Ensure keeps an interface that already exists; Restore loads the file.
Start ==
    /\ pc = "down"
    /\ pc' = "restore"
    /\ peers' = disk
    /\ todo' = disk
    /\ NoFault
    /\ UNCHANGED <<disk, backend, new, dropped, now, fate>>

\* Restore re-applies one stored peer.
RestorePeer(p) ==
    /\ pc = "restore"
    /\ p \in todo
    /\ todo' = todo \ {p}
    /\ backend' = WithPeer(backend, p.key, p.addr)
    /\ FateBecomes({p.key}, "granted")
    /\ NoFault
    /\ UNCHANGED <<peers, disk, pc, new, dropped, now>>

\* Restore has re-applied every peer: the server starts to listen.
RestoreDone ==
    /\ pc = "restore"
    /\ todo = {}
    /\ pc' = "idle"
    /\ NoFault
    /\ UNCHANGED <<peers, disk, backend, new, todo, dropped, now, fate>>

\* The process ends and takes its memory with it.
Stop ==
    /\ pc' = "down"
    /\ peers' = {} /\ new' = {} /\ todo' = {} /\ dropped' = {}
    /\ UNCHANGED <<disk, now, fate>>

\* A crash, a stop, or main's log.Fatalf when Restore returns an error.  The
\* peer Restore failed on may have been applied all the same.
Crash ==
    /\ pc # "down"
    /\ Fault
    /\ Stop
    /\ \/ backend' = backend
       \/ \E p \in todo : pc = "restore" /\ backend' = WithPeer(backend, p.key, p.addr)

\* The host goes down: the interface is gone, the file stays.
Reboot ==
    /\ Fault
    /\ Stop
    /\ backend' = [k \in Keys |-> Absent]

-----------------------------------------------------------------------------
(* Create *)

NewPeer(k, o, a) == [key |-> k, addr |-> a, owner |-> o, expires |-> Expiry(o)]

\* Variant: a registered key is accepted.
AcceptableDuplicate(k, o) ==
    o # Admin => Cardinality(OwnedBy(o, peers)) < MaxPerOwner

\* The checks Create makes before it touches the interface.  Admin-created peers
\* have neither an expiry nor a limit.
Acceptable(k, o) ==
    /\ k \notin KeysOf(peers)
    /\ o # Admin => Cardinality(OwnedBy(o, peers)) < MaxPerOwner

\* Variant: addresses in use are not skipped.
AllocatedInUse(a) == IsLowest(a, PoolAddresses)

\* Pool.Allocate: the lowest free address, if there is one.
Allocated(a) == a \in FreeAddresses(peers) /\ IsLowest(a, FreeAddresses(peers))

\* A Create passes its checks and AddPeer succeeds.
CreateApplied(k, o) ==
    /\ pc = "idle"
    /\ Acceptable(k, o)
    /\ pc' = "save"
    /\ \E a \in PoolAddresses :
          /\ Allocated(a)
          /\ new' = {NewPeer(k, o, a)}
          /\ backend' = WithPeer(backend, k, a)
    /\ FateBecomes({k}, "none")
    /\ NoFault
    /\ UNCHANGED <<peers, disk, todo, dropped, now>>

\* AddPeer reports an error although the interface took the peer.  (When it
\* did not, Create returns with nothing changed.)
CreateUnconfirmed(k, o) ==
    /\ pc = "idle"
    /\ Acceptable(k, o)
    /\ \E a \in PoolAddresses :
          Allocated(a) /\ backend' = WithPeer(backend, k, a)
    /\ FateBecomes({k}, "none")
    /\ Fault
    /\ UNCHANGED <<peers, disk, pc, new, todo, dropped, now>>

\* The list with the new peer is saved and the client gets its peer.
CreateSaved ==
    /\ pc = "save"
    /\ pc' = "idle"
    /\ peers' = peers \union new
    /\ disk' = peers'
    /\ FateBecomes(KeysOf(new), "granted")
    /\ new' = {}
    /\ NoFault
    /\ UNCHANGED <<backend, todo, dropped, now>>

\* The save fails: the list is truncated again.
CreateNotSaved ==
    /\ pc = "save"
    /\ pc' = "rollback"
    /\ Fault
    /\ UNCHANGED <<peers, disk, backend, new, todo, dropped, now, fate>>

\* Create takes the peer off the interface again and returns the save error.
CreateRolledBack ==
    /\ pc = "rollback"
    /\ pc' = "idle"
    /\ \E p \in new : backend' = WithoutPeer(backend, p.key)
    /\ new' = {}
    /\ NoFault
    /\ UNCHANGED <<peers, disk, todo, dropped, now, fate>>

\* RemovePeer fails too, and Create ignores that error.
CreateNotRolledBack ==
    /\ pc = "rollback"
    /\ pc' = "idle"
    /\ new' = {}
    /\ Fault
    /\ UNCHANGED <<peers, disk, backend, todo, dropped, now, fate>>

-----------------------------------------------------------------------------
(* removeWhere and the operations built on it *)

\* removeWhere with a condition that holds of the peers S.  (Without a match it
\* returns with nothing changed.)
RemoveWhere(S) ==
    /\ pc = "idle"
    /\ S # {}
    /\ pc' = "remove"
    /\ todo' = S
    /\ NoFault
    /\ UNCHANGED <<peers, disk, backend, new, dropped, now, fate>>

Delete(p) == RemoveWhere({p} \intersect peers)

DeleteOwned(p, o) == RemoveWhere({p} \intersect OwnedBy(o, peers))

RemoveOwner(o) == RemoveWhere(OwnedBy(o, peers))

\* Variant: a peer expires one tick late, or never when the clock stops there.
RemoveExpiredLate ==
    RemoveWhere({p \in peers : p.expires # NoExpiry /\ p.expires < now})

RemoveExpired == RemoveWhere({p \in peers : Expired(p)})

\* Variant: the interface is not told.
DropPeerFromListOnly(p) ==
    /\ pc = "remove"
    /\ p \in todo
    /\ todo' = todo \ {p}
    /\ dropped' = dropped \union {p}
    /\ FateBecomes({p.key}, "cut")
    /\ NoFault
    /\ UNCHANGED <<peers, disk, backend, pc, new, now>>

\* The loop of removeWhere: the interface drops one matching peer ...
DropPeer(p) ==
    /\ pc = "remove"
    /\ p \in todo
    /\ todo' = todo \ {p}
    /\ dropped' = dropped \union {p}
    /\ backend' = WithoutPeer(backend, p.key)
    /\ FateBecomes({p.key}, "cut")
    /\ NoFault
    /\ UNCHANGED <<peers, disk, pc, new, now>>

\* Variant: the error of RemovePeer is ignored.
DropPeerDespiteError(p) ==
    /\ pc = "remove"
    /\ p \in todo
    /\ todo' = todo \ {p}
    /\ dropped' = dropped \union {p}
    /\ backend' \in {backend, WithoutPeer(backend, p.key)}
    /\ FateBecomes({p.key}, "cut")
    /\ Fault
    /\ UNCHANGED <<peers, disk, pc, new, now>>

\* ... or reports an error, with or without having dropped it: the peer is kept.
DropPeerFails(p) ==
    /\ pc = "remove"
    /\ p \in todo
    /\ todo' = todo \ {p}
    /\ backend' \in {backend, WithoutPeer(backend, p.key)}
    /\ FateBecomes({p.key}, "cut")
    /\ Fault
    /\ UNCHANGED <<peers, disk, pc, new, dropped, now>>

\* Variants: the dropped peers are not cleared; the list is not saved.
RemovalSavedNotCleared ==
    /\ pc = "remove"
    /\ todo = {}
    /\ pc' = "idle"
    /\ peers' = peers \ dropped
    /\ disk' = peers'
    /\ FateBecomes(KeysOf(dropped), "withdrawn")
    /\ NoFault
    /\ UNCHANGED <<backend, new, todo, dropped, now>>

RemovalInMemoryOnly ==
    /\ pc = "remove"
    /\ todo = {}
    /\ pc' = "idle"
    /\ peers' = peers \ dropped
    /\ FateBecomes(KeysOf(dropped), "withdrawn")
    /\ dropped' = {}
    /\ NoFault
    /\ UNCHANGED <<disk, backend, new, todo, now>>

\* The list without the dropped peers is saved.
RemovalSaved ==
    /\ pc = "remove"
    /\ todo = {}
    /\ pc' = "idle"
    /\ peers' = peers \ dropped
    /\ disk' = IF dropped = {} THEN disk ELSE peers'
    /\ FateBecomes(KeysOf(dropped), "withdrawn")
    /\ dropped' = {}
    /\ NoFault
    /\ UNCHANGED <<backend, new, todo, now>>

\* Variant: the previous list is not put back.
RemovalNotUndone ==
    /\ pc = "remove"
    /\ todo = {}
    /\ dropped # {}
    /\ pc' = "idle"
    /\ peers' = peers \ dropped
    /\ dropped' = {}
    /\ Fault
    /\ UNCHANGED <<disk, backend, new, todo, now, fate>>

\* The save fails: the list is what it was, dropped peers included.
RemovalNotSaved ==
    /\ pc = "remove"
    /\ todo = {}
    /\ dropped # {}
    /\ pc' = "idle"
    /\ dropped' = {}
    /\ Fault
    /\ UNCHANGED <<peers, disk, backend, new, todo, now, fate>>

-----------------------------------------------------------------------------

Tick ==
    /\ now < MaxTime
    /\ now' = now + 1
    /\ NoFault
    /\ UNCHANGED <<service, fate>>

Next ==
    \/ Start \/ RestoreDone \/ Crash \/ Reboot
    \/ \E p \in todo : RestorePeer(p)
    \/ \E k \in Keys, o \in Owners \union {Admin} : CreateApplied(k, o) \/ CreateUnconfirmed(k, o)
    \/ CreateSaved \/ CreateNotSaved \/ CreateRolledBack \/ CreateNotRolledBack
    \/ \E p \in peers : Delete(p)
    \/ \E o \in Owners : RemoveOwner(o) \/ \E p \in peers : DeleteOwned(p, o)
    \/ RemoveExpired
    \/ \E p \in todo : DropPeer(p) \/ DropPeerFails(p)
    \/ RemovalSaved \/ RemovalNotSaved
    \/ Tick

Spec == Init /\ [][Next]_vars

-----------------------------------------------------------------------------
(* Safety properties *)

AllUnique(S) == \A p, q \in S : p.key = q.key \/ p.addr = q.addr => p = q

\* Create refuses a registered key and allocates a free address under the lock,
\* and Restore loads what was saved: no two peers share a key or an address, in
\* memory, on disk, or between the list and the peer being created.
UniquePeers == AllUnique(peers \union new) /\ AllUnique(disk)

\* A user never holds more than VPN_MAX_PEERS_PER_USER peers, restarts and failed
\* removals included: the count is taken from the list the creation is added to.
OwnerLimit == \A o \in Owners : Cardinality(OwnedBy(o, disk)) <= MaxPerOwner

\* Whatever failed, the list in memory is the list on disk: a failed save is undone
\* in memory (Create truncates, removeWhere goes back to the previous list).
MemoryIsDisk == pc # "down" => peers = disk

\* No key takes over the address of a registered peer on the interface, not even
\* one that a failed Create has left there: the address such a key holds is
\* free for the next peer, and goes with the interface to that peer.
NoAddressTakeover ==
    \A p \in disk : \A k \in Keys \ {p.key} : backend[k] # p.addr

\* Removed is removed: once removeWhere has saved a removal the key can neither
\* connect nor come back with a restart, until a client registers it again.
WithdrawnStaysOut ==
    \A k \in Keys : fate[k] = "withdrawn" => backend[k] = Absent /\ k \notin KeysOf(disk)

\* A peer its client has received is on disk and, while the server is up, on the
\* interface with its own address, until a removal of that peer is attempted.
GrantedCanConnect ==
    \A k \in Keys : fate[k] = "granted" =>
        \E p \in disk : p.key = k /\ (pc \notin {"down", "restore"} => backend[k] = p.addr)

\* While calls are served, a key on the interface that no listed peer has was
\* left there by a Create that failed or crashed, never by a removal.
OnlyFailedCreatesLeak ==
    pc = "idle" => \A k \in Keys \ KeysOf(peers) : backend[k] # Absent => fate[k] = "none"

-----------------------------------------------------------------------------
(* The service implements the registry: the file is the record, and every key *)
(* the interface knows is let in.                                             *)

Registry == INSTANCE PeerRegistry WITH
    registered <- disk,
    reachable <- {k \in Keys : backend[k] # Absent}

\* Create applies the peer before it saves it and removeWhere saves the list
\* after the interface has dropped the peers, through every failure and restart.
ImplementsRegistry == Registry!Spec

\* And through the registry what single sign-on relies on: the number of peers a user
\* has on disk is the number that SelfService counts.
Counts == INSTANCE PeerCounts WITH
    count <- [o \in Owners |-> Cardinality(OwnedBy(o, disk))]

ImplementsCounts == Counts!Spec

-----------------------------------------------------------------------------
(* Fairness: the process finishes the call it is in and is restarted after a *)
(* crash (docker's restart policy).  The reconciler calls RemoveExpired on   *)
(* every tick of its timer and sync.Mutex does not starve a waiting caller.  *)

Progress ==
    \/ Start \/ RestoreDone \/ CreateSaved \/ CreateRolledBack \/ RemovalSaved
    \/ \E p \in todo : RestorePeer(p) \/ DropPeer(p)

FairSpec == Spec /\ WF_vars(Progress) /\ SF_vars(RemoveExpired)

\* A peer past its expiry is eventually off the list, however calls, failed
\* removals, failed saves and restarts interleave with the reconciler.
ExpiredPeersLeave ==
    \A k \in Keys : (\E p \in disk : p.key = k /\ Expired(p))
                       ~> ~(\E p \in disk : p.key = k /\ Expired(p))
=============================================================================
