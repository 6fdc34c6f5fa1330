------------------------- MODULE PeerServiceProofs -------------------------
(***************************************************************************)
(* Proofs about PeerService, for every set of keys and owners, every pool, *)
(* limit and lifetime, and any number of failures.                         *)
(***************************************************************************)
EXTENDS PeerService, FiniteSetTheorems, TLAPS

-----------------------------------------------------------------------------
(* The inductive invariant *)

\* Each variable of a call has contents only during that call.
CallState ==
    /\ pc \notin {"save", "rollback"} => new = {}
    /\ pc \in {"save", "rollback"} => \E p \in new : new = {p}
    /\ pc \notin {"restore", "remove"} => todo = {}
    /\ pc # "remove" => dropped = {}
    /\ pc = "down" => peers = {}

\* The peer a Create is adding fits into the list and has been applied.
Fits(p) ==
    /\ \A q \in disk : q.key # p.key /\ q.addr # p.addr
    /\ p.owner \in Owners => Cardinality(OwnedBy(p.owner, disk)) < MaxPerOwner
    /\ backend[p.key] = p.addr
    /\ \A k \in Keys \ {p.key} : backend[k] # p.addr

NewFits == \A p \in new : Fits(p)

\* A key that was granted or cut still has its peer on disk.
HeldKeysStored ==
    \A k \in Keys : fate[k] \in {"granted", "cut"} => \E p \in disk : p.key = k

WithdrawnOut ==
    \A k \in Keys : fate[k] = "withdrawn" =>
        backend[k] = Absent /\ \A p \in disk : p.key # k

\* What Restore has applied, and what was granted and is not about to be
\* restored, is on the interface.
Applied ==
    \A p \in disk : 
        \/ pc = "down" 
        \/ pc = "restore" /\ p \in todo
        \/ pc # "restore" /\ fate[p.key] # "granted"
        \/ backend[p.key] = p.addr

DroppedOut == \A p \in dropped : backend[p.key] = Absent /\ fate[p.key] = "cut"

IInv ==
    /\ TypeOK
    /\ MemoryIsDisk
    /\ CallState
    /\ AllUnique(disk)
    /\ IsFiniteSet(disk)
    /\ OwnerLimit
    /\ NewFits
    /\ NoAddressTakeover
    /\ HeldKeysStored
    /\ WithdrawnOut
    /\ Applied
    /\ DroppedOut

-----------------------------------------------------------------------------
(* Lemmas about the operators *)

Interface == [Keys -> PoolAddresses \union {Absent, NoRoute}]

\* What `wg set' does to the interface: the key gets its address, and every other
\* key keeps its own unless it held that very address.
LEMMA WithPeerSpec ==
    ASSUME NEW b \in Interface, NEW k \in Keys, NEW a \in PoolAddresses
    PROVE  /\ WithPeer(b, k, a) \in Interface
           /\ WithPeer(b, k, a)[k] = a
           /\ \A j \in Keys \ {k} : WithPeer(b, k, a)[j] = IF b[j] = a THEN NoRoute ELSE b[j]
  BY DEF Interface, WithPeer

\* Removing a key from the interface changes that key alone.
LEMMA WithoutPeerSpec ==
    ASSUME NEW b \in Interface, NEW k \in Keys
    PROVE  /\ WithoutPeer(b, k) \in Interface
           /\ WithoutPeer(b, k)[k] = Absent
           /\ \A j \in Keys \ {k} : WithoutPeer(b, k)[j] = b[j]
  BY DEF Interface, WithoutPeer

\* The fields of a peer have the types the constants give them.
LEMMA PeerFields ==
    ASSUME NEW p \in Peer
    PROVE  /\ p.key \in Keys
           /\ p.addr \in PoolAddresses
           /\ p.owner \in Owners \union {Admin}
           /\ p.expires \in Nat
  BY DEF Peer

\* Create builds a well-formed peer from a client key, an owner and a pool address.
LEMMA NewPeerType ==
    ASSUME NEW k \in Keys, NEW o \in Owners \union {Admin}, NEW a \in PoolAddresses,
           now \in Nat
    PROVE  NewPeer(k, o, a) \in Peer
  BY ConfigAssumption DEF NewPeer, Peer, Expiry, NoExpiry

\* No pool address is mistaken for the marks Absent and NoRoute.
LEMMA PoolAddressRange ==
    ASSUME NEW a \in PoolAddresses
    PROVE  a \in Int /\ a > 1 /\ a < PoolSize - 1
  BY ConfigAssumption DEF PoolAddresses

\* Adding a peer adds one to its owner's peers and nothing to anybody else's.
LEMMA OwnedAfterAdd ==
    ASSUME NEW S, IsFiniteSet(S), NEW p, NEW o
    PROVE  Cardinality(OwnedBy(o, S \union {p})) <=
             IF p.owner = o THEN Cardinality(OwnedBy(o, S)) + 1 ELSE Cardinality(OwnedBy(o, S))
<1>1. IsFiniteSet(OwnedBy(o, S))
  BY FS_Subset DEF OwnedBy
<1>2. CASE p.owner = o
  <2>1. OwnedBy(o, S \union {p}) = OwnedBy(o, S) \union {p}
    BY <1>2 DEF OwnedBy
  <2>2. Cardinality(OwnedBy(o, S)) \in Nat
    BY <1>1, FS_CardinalityType
  <2>3. Cardinality(OwnedBy(o, S) \union {p}) =
          IF p \in OwnedBy(o, S) THEN Cardinality(OwnedBy(o, S)) ELSE Cardinality(OwnedBy(o, S)) + 1
    BY <1>1, FS_AddElement
  <2> QED
    BY <1>2, <2>1, <2>2, <2>3
<1>3. CASE p.owner # o
  <2>1. OwnedBy(o, S \union {p}) = OwnedBy(o, S)
    BY <1>3 DEF OwnedBy
  <2>2. Cardinality(OwnedBy(o, S)) \in Nat
    BY <1>1, FS_CardinalityType
  <2> QED
    BY <1>3, <2>1, <2>2
<1> QED
  BY <1>2, <1>3

\* Removing peers adds nothing to anybody's.
LEMMA OwnedAfterRemove ==
    ASSUME NEW S, IsFiniteSet(S), NEW T \in SUBSET S, NEW o
    PROVE  /\ IsFiniteSet(T)
           /\ Cardinality(OwnedBy(o, T)) \in Nat
           /\ Cardinality(OwnedBy(o, S)) \in Nat
           /\ Cardinality(OwnedBy(o, T)) <= Cardinality(OwnedBy(o, S))
<1>1. IsFiniteSet(OwnedBy(o, S)) /\ IsFiniteSet(T)
  BY FS_Subset DEF OwnedBy
<1>2. OwnedBy(o, T) \in SUBSET OwnedBy(o, S)
  BY DEF OwnedBy
<1>3. IsFiniteSet(OwnedBy(o, T)) /\ Cardinality(OwnedBy(o, T)) <= Cardinality(OwnedBy(o, S))
  BY <1>1, <1>2, FS_Subset
<1> QED
  BY <1>1, <1>3, FS_CardinalityType

-----------------------------------------------------------------------------
(* IInv is inductive *)

\* The empty service satisfies the invariant.
LEMMA InitEstablishes == Init => IInv
<1> SUFFICES ASSUME Init PROVE IInv
  OBVIOUS
<1>1. TypeOK
  BY BoundAssumption DEF Init, TypeOK, Stages, Fates
<1>2. OwnerLimit
  <2> SUFFICES ASSUME NEW o \in Owners PROVE Cardinality(OwnedBy(o, disk)) <= MaxPerOwner
    BY DEF OwnerLimit
  <2>1. OwnedBy(o, disk) = {}
    BY DEF Init, OwnedBy
  <2> QED
    BY <2>1, FS_EmptySet, ConfigAssumption
<1>3. IsFiniteSet(disk)
  BY FS_EmptySet DEF Init
<1> QED
  BY <1>1, <1>2, <1>3
  DEF Init, IInv, MemoryIsDisk, CallState, AllUnique, NewFits, NoAddressTakeover,
      HeldKeysStored, WithdrawnOut, Applied, DroppedOut

\* Loading peers.json preserves the invariant.
LEMMA StartPreserves == IInv /\ Start => IInv'
  BY DEF IInv, Start, TypeOK, Stages, NoFault, MemoryIsDisk, CallState, AllUnique, OwnerLimit, OwnedBy,
         NewFits, Fits, NoAddressTakeover, HeldKeysStored, WithdrawnOut, Applied, DroppedOut

\* The end of Restore preserves it: every stored peer has been applied.
LEMMA RestoreDonePreserves == IInv /\ RestoreDone => IInv'
  BY DEF IInv, RestoreDone, TypeOK, Stages, NoFault, MemoryIsDisk, CallState, AllUnique, OwnerLimit, OwnedBy,
         NewFits, Fits, NoAddressTakeover, HeldKeysStored, WithdrawnOut, Applied, DroppedOut

\* A step that leaves everything but the clock and the fault counter alone.
LEMMA UnchangedPreserves ==
    ASSUME IInv, UNCHANGED <<service, fate>>, now' \in 0..MaxTime, faults' \in 0..MaxFaults
    PROVE  IInv'
<1>1. UNCHANGED <<peers, disk, backend, pc, new, todo, dropped, fate>>
  BY DEF service
<1>2. TypeOK'
  BY <1>1 DEF IInv, TypeOK
<1>3. (MemoryIsDisk /\ CallState /\ AllUnique(disk) /\ IsFiniteSet(disk) /\ OwnerLimit)'
  BY <1>1 DEF IInv, MemoryIsDisk, CallState, AllUnique, OwnerLimit, OwnedBy
<1>4. (NewFits /\ NoAddressTakeover)'
  BY <1>1 DEF IInv, NewFits, Fits, NoAddressTakeover, OwnedBy
<1>5. (HeldKeysStored /\ WithdrawnOut /\ Applied /\ DroppedOut)'
  BY <1>1 DEF IInv, HeldKeysStored, WithdrawnOut, Applied, DroppedOut
<1> QED
  BY <1>2, <1>3, <1>4, <1>5 DEF IInv

\* The clock preserves it: nothing but expiry depends on it.
LEMMA TickPreserves == IInv /\ Tick => IInv'
<1> SUFFICES ASSUME IInv, Tick PROVE IInv'
  OBVIOUS
<1>1. now' \in 0..MaxTime
  BY BoundAssumption DEF IInv, TypeOK, Tick
<1>2. faults' \in 0..MaxFaults
  BY DEF IInv, TypeOK, Tick, NoFault
<1> QED
  BY <1>1, <1>2, UnchangedPreserves DEF Tick

\* Re-applying one stored peer preserves it.
LEMMA RestorePeerPreserves ==
    ASSUME IInv, NEW p \in todo, RestorePeer(p) PROVE IInv'
<1> USE DEF RestorePeer, NoFault
<1>1. p \in Peer /\ p \in disk /\ backend \in Interface
  BY DEF IInv, TypeOK, MemoryIsDisk, Interface
<1>2. p.key \in Keys /\ p.addr \in PoolAddresses
  BY <1>1, PeerFields
<1>3. /\ backend' \in Interface
      /\ backend'[p.key] = p.addr
      /\ \A j \in Keys \ {p.key} : backend'[j] = IF backend[j] = p.addr THEN NoRoute ELSE backend[j]
  BY <1>1, <1>2, WithPeerSpec
<1>4. TypeOK'
  BY <1>3 DEF IInv, TypeOK, FateBecomes, Fates, Interface
<1>5. MemoryIsDisk' /\ CallState' /\ AllUnique(disk)' /\ IsFiniteSet(disk)' /\ OwnerLimit'
  BY DEF IInv, MemoryIsDisk, CallState, AllUnique, OwnerLimit, OwnedBy
<1>6. NewFits' /\ DroppedOut'
  BY DEF IInv, CallState, NewFits, DroppedOut
<1>7. \A q \in disk : q \in Peer /\ q.key \in Keys /\ q.addr \in PoolAddresses /\ q.addr # NoRoute
  BY PeerFields, PoolAddressRange DEF IInv, TypeOK, NoRoute
<1>8. NoAddressTakeover'
  BY <1>1, <1>2, <1>3, <1>7 DEF IInv, AllUnique, NoAddressTakeover
<1>9. HeldKeysStored'
  BY <1>1 DEF IInv, TypeOK, HeldKeysStored, FateBecomes
<1>10. WithdrawnOut'
  BY <1>1, <1>2, <1>3, PoolAddressRange DEF IInv, TypeOK, WithdrawnOut, FateBecomes, Absent
<1>11. Applied'
  BY <1>1, <1>2, <1>3, <1>7 DEF IInv, AllUnique, Applied, NoAddressTakeover
<1> QED
  BY <1>4, <1>5, <1>6, <1>8, <1>9, <1>10, <1>11 DEF IInv

\* A step that counts a fault, or none, keeps the count in its bound.
LEMMA FaultType ==
    ASSUME TypeOK, Fault PROVE faults' \in 0..MaxFaults
  BY BoundAssumption DEF TypeOK, Fault

\* What Crash and Reboot share: the memory is gone, the interface is not given to
\* anybody who does not have it on disk.
LEMMA StopPreserves ==
    ASSUME IInv, Stop, Fault,
           backend' \in Interface,
           \A p \in disk : \A k \in Keys \ {p.key} : backend'[k] # p.addr,
           \A k \in Keys : fate[k] = "withdrawn" => backend'[k] = Absent
    PROVE  IInv'
<1> USE DEF Stop
<1>1. TypeOK'
  BY FaultType DEF IInv, TypeOK, Stages, Interface
<1>2. (MemoryIsDisk /\ CallState /\ AllUnique(disk) /\ IsFiniteSet(disk) /\ OwnerLimit)'
  BY DEF IInv, MemoryIsDisk, CallState, AllUnique, OwnerLimit, OwnedBy
<1>3. (NewFits /\ NoAddressTakeover)'
  BY DEF NewFits, NoAddressTakeover
<1>4. (HeldKeysStored /\ WithdrawnOut /\ Applied /\ DroppedOut)'
  BY DEF IInv, HeldKeysStored, WithdrawnOut, Applied, DroppedOut
<1> QED
  BY <1>1, <1>2, <1>3, <1>4 DEF IInv

\* A reboot of the host, which empties the interface, preserves it.
LEMMA RebootPreserves == IInv /\ Reboot => IInv'
<1> SUFFICES ASSUME IInv, Reboot PROVE IInv'
  OBVIOUS
<1>1. backend' \in Interface
  BY DEF Reboot, Interface
<1>2. \A p \in disk : p.addr # Absent
  BY PeerFields, PoolAddressRange DEF IInv, TypeOK, Absent
<1> QED
  BY <1>1, <1>2, StopPreserves DEF Reboot

\* A crash in the middle of any call preserves it.
LEMMA CrashPreserves == IInv /\ Crash => IInv'
<1> SUFFICES ASSUME IInv, Crash PROVE IInv'
  OBVIOUS
<1>1. CASE backend' = backend
  BY <1>1, StopPreserves
  DEF Crash, IInv, TypeOK, Interface, NoAddressTakeover, WithdrawnOut
<1>2. CASE \E p \in todo : pc = "restore" /\ backend' = WithPeer(backend, p.key, p.addr)
  <2>1. PICK p \in todo : pc = "restore" /\ backend' = WithPeer(backend, p.key, p.addr)
    BY <1>2
  <2>2. p \in Peer /\ p \in disk /\ backend \in Interface
    BY <2>1 DEF IInv, TypeOK, MemoryIsDisk, Interface
  <2>3. p.key \in Keys /\ p.addr \in PoolAddresses
    BY <2>2, PeerFields
  <2>4. /\ backend' \in Interface
        /\ backend'[p.key] = p.addr
        /\ \A j \in Keys \ {p.key} : backend'[j] = IF backend[j] = p.addr THEN NoRoute ELSE backend[j]
    BY <2>1, <2>2, <2>3, WithPeerSpec
  <2>5. \A q \in disk : q.key \in Keys /\ q.addr # NoRoute
    BY PeerFields, PoolAddressRange DEF IInv, TypeOK, NoRoute
  <2>6. \A q \in disk : \A k \in Keys \ {q.key} : backend'[k] # q.addr
    BY <2>2, <2>3, <2>4, <2>5 DEF IInv, AllUnique, NoAddressTakeover
  <2>7. \A k \in Keys : fate[k] = "withdrawn" => backend'[k] = Absent
    BY <2>2, <2>3, <2>4, PoolAddressRange DEF IInv, WithdrawnOut, Absent
  <2> QED
    BY <2>4, <2>6, <2>7, StopPreserves DEF Crash
<1> QED
  BY <1>1, <1>2 DEF Crash

\* What a Create that reaches the interface preserves, however AddPeer answers.
LEMMA TrialPreserves ==
    ASSUME IInv, pc = "idle", NEW k \in Keys, NEW o \in Owners \union {Admin},
           NEW a \in PoolAddresses, Acceptable(k, o), Allocated(a),
           backend' = WithPeer(backend, k, a), FateBecomes({k}, "none"),
           UNCHANGED <<peers, disk, todo, dropped, now>>, pc' \in {"idle", "save"}
    PROVE  /\ backend' \in Interface /\ backend'[k] = a
           /\ \A j \in Keys \ {k} : backend'[j] # a
           /\ fate' \in [Keys -> Fates]
           /\ \A q \in disk : q.key # k /\ q.addr # a
           /\ (MemoryIsDisk /\ AllUnique(disk) /\ IsFiniteSet(disk) /\ OwnerLimit)'
           /\ (NoAddressTakeover /\ HeldKeysStored /\ WithdrawnOut /\ Applied /\ DroppedOut)'
<1>1. backend \in Interface /\ peers = disk
  BY DEF IInv, TypeOK, Interface, MemoryIsDisk
<1>2. /\ backend' \in Interface
      /\ backend'[k] = a
      /\ \A j \in Keys \ {k} : backend'[j] = IF backend[j] = a THEN NoRoute ELSE backend[j]
  BY <1>1, WithPeerSpec
<1>3. fate' \in [Keys -> Fates]
  BY DEF IInv, TypeOK, FateBecomes, Fates
<1>4. \A q \in disk : q.key # k /\ q.addr # a
  BY <1>1 DEF Acceptable, Allocated, FreeAddresses, KeysOf
<1>5. (MemoryIsDisk /\ AllUnique(disk) /\ IsFiniteSet(disk) /\ OwnerLimit)'
  BY <1>1 DEF IInv, MemoryIsDisk, AllUnique, OwnerLimit, OwnedBy
<1>6. \A q \in disk : q.key \in Keys /\ q.addr # NoRoute
  BY PeerFields, PoolAddressRange DEF IInv, TypeOK, NoRoute
<1>7. NoAddressTakeover'
  BY <1>2, <1>4, <1>6 DEF IInv, NoAddressTakeover
<1>8. HeldKeysStored'
  BY DEF IInv, TypeOK, HeldKeysStored, FateBecomes
<1>9. WithdrawnOut'
  BY <1>2, PoolAddressRange DEF IInv, TypeOK, WithdrawnOut, FateBecomes, Absent
<1>10. Applied'
  BY <1>2, <1>4, <1>6 DEF IInv, TypeOK, Applied, FateBecomes
<1>11. DroppedOut'
  BY DEF IInv, CallState, DroppedOut
<1>12. \A j \in Keys \ {k} : backend'[j] # a
  BY <1>2, PoolAddressRange DEF NoRoute
<1> QED
  BY <1>2, <1>3, <1>4, <1>5, <1>7, <1>8, <1>9, <1>10, <1>11, <1>12

\* A Create that has passed its checks and reached the interface preserves it.
LEMMA CreateAppliedPreserves ==
    ASSUME IInv, NEW k \in Keys, NEW o \in Owners \union {Admin}, CreateApplied(k, o)
    PROVE  IInv'
<1>1. PICK a \in PoolAddresses :
        Allocated(a) /\ new' = {NewPeer(k, o, a)} /\ backend' = WithPeer(backend, k, a)
  BY DEF CreateApplied
<1>2. /\ backend' \in Interface /\ backend'[k] = a
      /\ \A j \in Keys \ {k} : backend'[j] # a
      /\ fate' \in [Keys -> Fates]
      /\ \A q \in disk : q.key # k /\ q.addr # a
      /\ (MemoryIsDisk /\ AllUnique(disk) /\ IsFiniteSet(disk) /\ OwnerLimit)'
      /\ (NoAddressTakeover /\ HeldKeysStored /\ WithdrawnOut /\ Applied /\ DroppedOut)'
  BY <1>1, TrialPreserves DEF CreateApplied
<1>3. NewPeer(k, o, a) \in Peer
  BY NewPeerType, BoundAssumption DEF IInv, TypeOK
<1>4. TypeOK'
  BY <1>1, <1>2, <1>3 DEF IInv, TypeOK, CreateApplied, NoFault, Stages, Interface
<1>5. CallState'
  BY <1>1 DEF IInv, CallState, CreateApplied
<1>6. o \in Owners => Cardinality(OwnedBy(o, disk)) < MaxPerOwner
  BY AdminAssumption DEF CreateApplied, Acceptable, IInv, MemoryIsDisk
<1>7. NewFits'
  <2>1. /\ NewPeer(k, o, a).key = k
        /\ NewPeer(k, o, a).addr = a
        /\ NewPeer(k, o, a).owner = o
    BY DEF NewPeer
  <2>2. disk' = disk
    BY DEF CreateApplied
  <2> QED
    BY <1>1, <1>2, <1>6, <2>1, <2>2 DEF NewFits, Fits, OwnedBy
<1> QED
  BY <1>2, <1>4, <1>5, <1>7 DEF IInv

\* A Create whose `wg' command failed after taking effect preserves it.
LEMMA CreateUnconfirmedPreserves ==
    ASSUME IInv, NEW k \in Keys, NEW o \in Owners \union {Admin}, CreateUnconfirmed(k, o)
    PROVE  IInv'
<1>1. PICK a \in PoolAddresses : Allocated(a) /\ backend' = WithPeer(backend, k, a)
  BY DEF CreateUnconfirmed
<1>2. /\ backend' \in Interface
      /\ fate' \in [Keys -> Fates]
      /\ (MemoryIsDisk /\ AllUnique(disk) /\ IsFiniteSet(disk) /\ OwnerLimit)'
      /\ (NoAddressTakeover /\ HeldKeysStored /\ WithdrawnOut /\ Applied /\ DroppedOut)'
  BY <1>1, TrialPreserves DEF CreateUnconfirmed
<1>3. TypeOK'
  BY <1>2, FaultType DEF IInv, TypeOK, CreateUnconfirmed, Interface
<1>4. CallState' /\ NewFits'
  BY DEF IInv, CallState, NewFits, CreateUnconfirmed
<1> QED
  BY <1>2, <1>3, <1>4 DEF IInv

\* A Create that is saved and answered preserves it.
LEMMA CreateSavedPreserves == IInv /\ CreateSaved => IInv'
<1> SUFFICES ASSUME IInv, CreateSaved PROVE IInv'
  OBVIOUS
<1> USE DEF CreateSaved, NoFault
<1>1. PICK p \in new : new = {p}
  BY DEF IInv, CallState
<1>2. p \in Peer /\ Fits(p) /\ peers = disk /\ disk' = disk \union {p} /\ peers' = disk'
  BY <1>1 DEF IInv, TypeOK, NewFits, MemoryIsDisk
<1>3. p.key \in Keys /\ p.owner \in Owners \union {Admin} /\ p.addr \in PoolAddresses
  BY <1>2, PeerFields
<1>4. fate' = [k \in Keys |-> IF k = p.key THEN "granted" ELSE fate[k]]
  BY <1>1 DEF FateBecomes, KeysOf
<1>5. TypeOK'
  BY <1>2, <1>4 DEF IInv, TypeOK, Stages, Fates, CallState
<1>6. MemoryIsDisk' /\ CallState'
  BY <1>2 DEF IInv, MemoryIsDisk, CallState
<1>7. AllUnique(disk)'
  BY <1>2 DEF IInv, AllUnique, Fits
<1>8. IsFiniteSet(disk)'
  BY <1>2, FS_AddElement DEF IInv
<1>9. OwnerLimit'
  <2> SUFFICES ASSUME NEW o \in Owners
               PROVE  Cardinality(OwnedBy(o, disk \union {p})) <= MaxPerOwner
    BY <1>2 DEF OwnerLimit
  <2>1. Cardinality(OwnedBy(o, disk \union {p})) <=
          IF p.owner = o THEN Cardinality(OwnedBy(o, disk)) + 1 ELSE Cardinality(OwnedBy(o, disk))
    BY OwnedAfterAdd DEF IInv
  <2>2. Cardinality(OwnedBy(o, disk)) \in Nat /\ Cardinality(OwnedBy(o, disk \union {p})) \in Nat
    BY <1>2, <1>8, OwnedAfterRemove DEF IInv
  <2>3. Cardinality(OwnedBy(o, disk)) <= MaxPerOwner
    BY DEF IInv, OwnerLimit
  <2>4. p.owner = o => Cardinality(OwnedBy(o, disk)) < MaxPerOwner
    BY <1>2 DEF Fits
  <2> QED
    BY <2>1, <2>2, <2>3, <2>4, ConfigAssumption
<1>10. NewFits' /\ DroppedOut'
  BY DEF IInv, NewFits, DroppedOut, CallState
<1>11. NoAddressTakeover'
  <2>1. \A k \in Keys \ {p.key} : backend[k] # p.addr
    BY <1>2 DEF Fits
  <2> QED
    BY <1>2, <2>1 DEF IInv, NoAddressTakeover
<1>12. HeldKeysStored'
  BY <1>2, <1>3, <1>4 DEF IInv, HeldKeysStored
<1>13. WithdrawnOut'
  BY <1>2, <1>3, <1>4 DEF IInv, WithdrawnOut
<1>14. Applied'
  <2>1. \A q \in disk : q.key \in Keys /\ q.key # p.key
    BY <1>2, PeerFields DEF IInv, TypeOK, Fits
  <2>2. backend'[p.key] = p.addr
    BY <1>2 DEF Fits
  <2> QED
    BY <1>2, <1>4, <2>1, <2>2 DEF IInv, Applied
<1> QED
  BY <1>5, <1>6, <1>7, <1>8, <1>9, <1>10, <1>11, <1>12, <1>13, <1>14 DEF IInv

\* A failed save of Create preserves it.
LEMMA CreateNotSavedPreserves == IInv /\ CreateNotSaved => IInv'
<1> SUFFICES ASSUME IInv, CreateNotSaved PROVE IInv'
  OBVIOUS
<1> USE DEF CreateNotSaved
<1>1. TypeOK'
  BY FaultType DEF IInv, TypeOK, Stages
<1>2. (MemoryIsDisk /\ CallState /\ AllUnique(disk) /\ IsFiniteSet(disk) /\ OwnerLimit)'
  BY DEF IInv, MemoryIsDisk, CallState, AllUnique, OwnerLimit, OwnedBy
<1>3. (NewFits /\ NoAddressTakeover)'
  BY DEF IInv, NewFits, Fits, NoAddressTakeover, OwnedBy
<1>4. (HeldKeysStored /\ WithdrawnOut /\ Applied /\ DroppedOut)'
  BY DEF IInv, HeldKeysStored, WithdrawnOut, Applied, DroppedOut
<1> QED
  BY <1>1, <1>2, <1>3, <1>4 DEF IInv

\* A Create that leaves its peer on the interface preserves it.
LEMMA CreateNotRolledBackPreserves == IInv /\ CreateNotRolledBack => IInv'
<1> SUFFICES ASSUME IInv, CreateNotRolledBack PROVE IInv'
  OBVIOUS
<1> USE DEF CreateNotRolledBack
<1>1. TypeOK'
  BY FaultType DEF IInv, TypeOK, Stages
<1>2. (MemoryIsDisk /\ CallState /\ AllUnique(disk) /\ IsFiniteSet(disk) /\ OwnerLimit)'
  BY DEF IInv, MemoryIsDisk, CallState, AllUnique, OwnerLimit, OwnedBy
<1>3. (NewFits /\ NoAddressTakeover)'
  BY DEF IInv, NewFits, NoAddressTakeover
<1>4. (HeldKeysStored /\ WithdrawnOut /\ Applied /\ DroppedOut)'
  BY DEF IInv, HeldKeysStored, WithdrawnOut, Applied, DroppedOut
<1> QED
  BY <1>1, <1>2, <1>3, <1>4 DEF IInv

\* A Create that takes its peer off the interface preserves it.
LEMMA CreateRolledBackPreserves == IInv /\ CreateRolledBack => IInv'
<1> SUFFICES ASSUME IInv, CreateRolledBack PROVE IInv'
  OBVIOUS
<1> USE DEF CreateRolledBack, NoFault
<1>1. PICK p \in new : backend' = WithoutPeer(backend, p.key)
  OBVIOUS
<1>2. p \in Peer /\ Fits(p) /\ backend \in Interface
  BY <1>1 DEF IInv, TypeOK, NewFits, Interface
<1>3. p.key \in Keys
  BY <1>2, PeerFields
<1>4. /\ backend' \in Interface
      /\ backend'[p.key] = Absent
      /\ \A j \in Keys \ {p.key} : backend'[j] = backend[j]
  BY <1>1, <1>2, <1>3, WithoutPeerSpec
<1>5. TypeOK'
  BY <1>4 DEF IInv, TypeOK, Stages, Interface
<1>6. (MemoryIsDisk /\ CallState /\ AllUnique(disk) /\ IsFiniteSet(disk) /\ OwnerLimit)'
  BY DEF IInv, MemoryIsDisk, CallState, AllUnique, OwnerLimit, OwnedBy
<1>7. \A q \in disk : q.key \in Keys /\ q.key # p.key /\ q.addr # Absent
  BY <1>2, PeerFields, PoolAddressRange DEF IInv, TypeOK, Fits, Absent
<1>8. (NewFits /\ NoAddressTakeover)'
  BY <1>4, <1>7 DEF IInv, NewFits, NoAddressTakeover
<1>9. (HeldKeysStored /\ WithdrawnOut /\ Applied /\ DroppedOut)'
  BY <1>4, <1>7 DEF IInv, CallState, HeldKeysStored, WithdrawnOut, Applied, DroppedOut
<1> QED
  BY <1>5, <1>6, <1>8, <1>9 DEF IInv

\* Choosing the peers to remove preserves it, whatever the condition.
LEMMA RemoveWherePreserves ==
    ASSUME IInv, NEW S \in SUBSET peers, RemoveWhere(S)
    PROVE  IInv'
<1> USE DEF RemoveWhere, NoFault
<1>1. TypeOK'
  BY DEF IInv, TypeOK, Stages
<1>2. (MemoryIsDisk /\ CallState /\ AllUnique(disk) /\ IsFiniteSet(disk) /\ OwnerLimit)'
  BY DEF IInv, MemoryIsDisk, CallState, AllUnique, OwnerLimit, OwnedBy
<1>3. (NewFits /\ NoAddressTakeover)'
  BY DEF IInv, CallState, NewFits, NoAddressTakeover
<1>4. (HeldKeysStored /\ WithdrawnOut /\ Applied /\ DroppedOut)'
  BY DEF IInv, HeldKeysStored, WithdrawnOut, Applied, DroppedOut
<1> QED
  BY <1>1, <1>2, <1>3, <1>4 DEF IInv

\* One turn of removeWhere's loop, whatever the interface answers.
LEMMA DropPreserves ==
    ASSUME IInv, NEW p \in todo, pc = "remove",
           backend' \in {backend, WithoutPeer(backend, p.key)}, FateBecomes({p.key}, "cut"),
           todo' = todo \ {p}, UNCHANGED <<peers, disk, pc, new, now>>,
           faults' \in 0..MaxFaults,
           \/ dropped' = dropped
           \/ dropped' = dropped \union {p} /\ backend' = WithoutPeer(backend, p.key)
    PROVE  IInv'
<1>1. p \in Peer /\ p \in peers /\ peers = disk /\ backend \in Interface
  BY DEF IInv, TypeOK, MemoryIsDisk, Interface
<1>2. p.key \in Keys
  BY <1>1, PeerFields
<1>3. /\ backend' \in Interface
      /\ backend'[p.key] \in {backend[p.key], Absent}
      /\ \A j \in Keys \ {p.key} : backend'[j] = backend[j]
  BY <1>1, <1>2, WithoutPeerSpec
<1>4. p \in dropped' /\ p \notin dropped => backend'[p.key] = Absent
  BY <1>1, <1>2, WithoutPeerSpec
<1>5. fate' = [k \in Keys |-> IF k = p.key THEN "cut" ELSE fate[k]]
  BY DEF FateBecomes
<1>6. TypeOK'
  BY <1>1, <1>3, <1>5 DEF IInv, TypeOK, Fates, Interface
<1>7. (MemoryIsDisk /\ CallState /\ AllUnique(disk) /\ IsFiniteSet(disk) /\ OwnerLimit)'
  BY DEF IInv, MemoryIsDisk, CallState, AllUnique, OwnerLimit, OwnedBy
<1>8. \A q \in disk : q.key \in Keys /\ q.addr # Absent /\ (q.key = p.key => q = p)
  BY <1>1, PeerFields, PoolAddressRange DEF IInv, TypeOK, AllUnique, Absent
<1>9. (NewFits /\ NoAddressTakeover)'
  BY <1>3, <1>8 DEF IInv, CallState, NewFits, NoAddressTakeover
<1>10. HeldKeysStored' /\ WithdrawnOut'
  BY <1>1, <1>3, <1>5 DEF IInv, HeldKeysStored, WithdrawnOut
<1>11. Applied'
  BY <1>2, <1>3, <1>5, <1>8 DEF IInv, Applied
<1>12. \A q \in dropped : q.key \in Keys /\ q \in disk
  BY <1>1, <1>8 DEF IInv, TypeOK
<1>13. DroppedOut'
  BY <1>2, <1>3, <1>4, <1>5, <1>12 DEF IInv, DroppedOut
<1> QED
  BY <1>6, <1>7, <1>9, <1>10, <1>11, <1>13 DEF IInv

\* Removing a peer from the interface, or failing to, preserves it.
LEMMA DropPeerPreserves ==
    ASSUME IInv, NEW p \in todo, DropPeer(p) \/ DropPeerFails(p)
    PROVE  IInv'
<1>1. CASE DropPeer(p)
  <2>1. faults' \in 0..MaxFaults
    BY <1>1 DEF IInv, TypeOK, DropPeer, NoFault
  <2> QED
    BY <1>1, <2>1, DropPreserves DEF DropPeer
<1>2. CASE DropPeerFails(p)
  <2>1. faults' \in 0..MaxFaults
    BY <1>2, FaultType DEF IInv, DropPeerFails
  <2> QED
    BY <1>2, <2>1, DropPreserves DEF DropPeerFails
<1> QED
  BY <1>1, <1>2

\* A removal whose save failed preserves it: the list is what it was.
LEMMA RemovalNotSavedPreserves == IInv /\ RemovalNotSaved => IInv'
<1> SUFFICES ASSUME IInv, RemovalNotSaved PROVE IInv'
  OBVIOUS
<1> USE DEF RemovalNotSaved
<1>1. TypeOK'
  BY FaultType DEF IInv, TypeOK, Stages
<1>2. (MemoryIsDisk /\ CallState /\ AllUnique(disk) /\ IsFiniteSet(disk) /\ OwnerLimit)'
  BY DEF IInv, MemoryIsDisk, CallState, AllUnique, OwnerLimit, OwnedBy
<1>3. (NewFits /\ NoAddressTakeover)'
  BY DEF IInv, CallState, NewFits, NoAddressTakeover
<1>4. (HeldKeysStored /\ WithdrawnOut /\ Applied /\ DroppedOut)'
  BY DEF IInv, HeldKeysStored, WithdrawnOut, Applied, DroppedOut
<1> QED
  BY <1>1, <1>2, <1>3, <1>4 DEF IInv

\* A removal that is saved preserves it.
LEMMA RemovalSavedPreserves == IInv /\ RemovalSaved => IInv'
<1> SUFFICES ASSUME IInv, RemovalSaved PROVE IInv'
  OBVIOUS
<1> USE DEF RemovalSaved, NoFault
<1>1. peers = disk /\ dropped \subseteq disk /\ disk' = disk \ dropped /\ peers' = disk'
  BY DEF IInv, TypeOK, MemoryIsDisk
<1>2. \A q \in disk : q.key \in Keys
  BY PeerFields DEF IInv, TypeOK
<1>3. \A q \in disk' : q \in disk /\ q.key \in Keys /\ q.key \notin KeysOf(dropped)
  BY <1>1, <1>2 DEF IInv, AllUnique, KeysOf
<1>4. TypeOK'
  BY <1>1 DEF IInv, TypeOK, Stages, Fates, FateBecomes
<1>5. MemoryIsDisk' /\ CallState' /\ AllUnique(disk)'
  BY <1>1 DEF IInv, MemoryIsDisk, CallState, AllUnique
<1>6. IsFiniteSet(disk)' /\ OwnerLimit'
  <2>1. \A o : /\ IsFiniteSet(disk')
               /\ Cardinality(OwnedBy(o, disk')) \in Nat
               /\ Cardinality(OwnedBy(o, disk)) \in Nat
               /\ Cardinality(OwnedBy(o, disk')) <= Cardinality(OwnedBy(o, disk))
    BY <1>1, OwnedAfterRemove DEF IInv
  <2>2. \A o \in Owners : Cardinality(OwnedBy(o, disk')) <= MaxPerOwner
    BY <2>1, ConfigAssumption DEF IInv, OwnerLimit
  <2> QED
    BY <2>1, <2>2 DEF OwnerLimit, OwnedBy
<1>7. (NewFits /\ NoAddressTakeover)'
  BY <1>3 DEF IInv, CallState, NewFits, NoAddressTakeover
<1>8. \A k \in Keys : fate'[k] = IF k \in KeysOf(dropped) THEN "withdrawn" ELSE fate[k]
  BY DEF FateBecomes
<1>9. HeldKeysStored'
  <2> SUFFICES ASSUME NEW k \in Keys, fate'[k] \in {"granted", "cut"}
               PROVE  \E q \in disk' : q.key = k
    BY DEF HeldKeysStored
  <2>1. k \notin KeysOf(dropped) /\ fate[k] \in {"granted", "cut"}
    BY <1>8
  <2>2. PICK q \in disk : q.key = k
    BY <2>1 DEF IInv, HeldKeysStored
  <2> QED
    BY <1>1, <2>1, <2>2 DEF KeysOf
<1>10. WithdrawnOut'
  <2> SUFFICES ASSUME NEW k \in Keys, fate'[k] = "withdrawn"
               PROVE  backend[k] = Absent /\ \A q \in disk' : q.key # k
    BY DEF WithdrawnOut
  <2>1. CASE k \in KeysOf(dropped)
    BY <1>3, <2>1 DEF IInv, DroppedOut, KeysOf
  <2>2. CASE k \notin KeysOf(dropped)
    BY <1>1, <1>8, <2>2 DEF IInv, WithdrawnOut
  <2> QED
    BY <2>1, <2>2
<1>11. Applied'
  BY <1>3, <1>8 DEF IInv, Applied
<1>12. DroppedOut'
  BY DEF DroppedOut
<1> QED
  BY <1>4, <1>5, <1>6, <1>7, <1>9, <1>10, <1>11, <1>12 DEF IInv

\* Every step of the service preserves the invariant.
LEMMA NextPreserves == IInv /\ [Next]_vars => IInv'
<1> SUFFICES ASSUME IInv, [Next]_vars PROVE IInv'
  OBVIOUS
<1>1. CASE Start \/ RestoreDone \/ Crash \/ Reboot
  BY <1>1, StartPreserves, RestoreDonePreserves, CrashPreserves, RebootPreserves
<1>2. CASE \E p \in todo : RestorePeer(p)
  BY <1>2, RestorePeerPreserves
<1>3. CASE \E k \in Keys, o \in Owners \union {Admin} : CreateApplied(k, o) \/ CreateUnconfirmed(k, o)
  BY <1>3, CreateAppliedPreserves, CreateUnconfirmedPreserves
<1>4. CASE CreateSaved \/ CreateNotSaved \/ CreateRolledBack \/ CreateNotRolledBack
  BY <1>4, CreateSavedPreserves, CreateNotSavedPreserves, CreateRolledBackPreserves,
     CreateNotRolledBackPreserves
<1>5. CASE \E p \in peers : Delete(p)
  BY <1>5, RemoveWherePreserves DEF Delete
<1>6. CASE \E o \in Owners : RemoveOwner(o) \/ \E p \in peers : DeleteOwned(p, o)
  BY <1>6, RemoveWherePreserves DEF RemoveOwner, DeleteOwned, OwnedBy
<1>7. CASE RemoveExpired
  BY <1>7, RemoveWherePreserves DEF RemoveExpired
<1>8. CASE \E p \in todo : DropPeer(p) \/ DropPeerFails(p)
  BY <1>8, DropPeerPreserves
<1>9. CASE RemovalSaved \/ RemovalNotSaved
  BY <1>9, RemovalSavedPreserves, RemovalNotSavedPreserves
<1>10. CASE Tick
  BY <1>10, TickPreserves
<1>11. CASE UNCHANGED vars
  <2>1. UNCHANGED <<service, fate>> /\ now' = now /\ faults' = faults
    BY <1>11 DEF vars
  <2> QED
    BY <2>1, UnchangedPreserves DEF IInv, TypeOK
<1> QED
  BY <1>1, <1>2, <1>3, <1>4, <1>5, <1>6, <1>7, <1>8, <1>9, <1>10, <1>11 DEF Next

\* The invariant holds in every reachable state of the peer service, for any keys,
\* owners, subnet size, limit and lifetime.
THEOREM Inductive == Spec => []IInv
  BY InitEstablishes, NextPreserves, PTL DEF Spec

-----------------------------------------------------------------------------
(* The properties the runs check, for every instance *)

\* Every variable of the service has its type.
THEOREM TypeCorrect == Spec => []TypeOK
<1>1. IInv => TypeOK
  BY DEF IInv
<1> QED
  BY Inductive, <1>1, PTL

\* service.go never lists two peers with one key or one address.
THEOREM PeersAreUnique == Spec => []UniquePeers
<1>1. IInv => UniquePeers
  <2> SUFFICES ASSUME IInv PROVE AllUnique(peers \union new) /\ AllUnique(disk)
    BY DEF UniquePeers
  <2>1. AllUnique(disk)
    BY DEF IInv
  <2>2. peers \subseteq disk
    BY DEF IInv, MemoryIsDisk, CallState
  <2>3. CASE new = {}
    BY <2>1, <2>2, <2>3 DEF AllUnique
  <2>4. CASE new # {}
    <3>1. PICK p \in new : new = {p}
      BY <2>4 DEF IInv, CallState
    <3>2. Fits(p)
      BY <3>1 DEF IInv, NewFits
    <3> QED
      BY <2>1, <2>2, <3>1, <3>2 DEF AllUnique, Fits
  <2> QED
    BY <2>1, <2>3, <2>4
<1> QED
  BY Inductive, <1>1, PTL

\* No owner exceeds VPN_MAX_PEERS_PER_USER, through every failure and restart.
THEOREM LimitHolds == Spec => []OwnerLimit
<1>1. IInv => OwnerLimit
  BY DEF IInv
<1> QED
  BY Inductive, <1>1, PTL

\* The list in memory is the list in peers.json whenever the process runs.
THEOREM MemoryFollowsDisk == Spec => []MemoryIsDisk
<1>1. IInv => MemoryIsDisk
  BY DEF IInv
<1> QED
  BY Inductive, <1>1, PTL

\* No key holds the address of another registered peer on the interface.
THEOREM AddressesAreKept == Spec => []NoAddressTakeover
<1>1. IInv => NoAddressTakeover
  BY DEF IInv
<1> QED
  BY Inductive, <1>1, PTL

\* A removal that was saved keeps the key out until it is registered again.
THEOREM RemovedIsRemoved == Spec => []WithdrawnStaysOut
<1>1. IInv => WithdrawnStaysOut
  BY DEF IInv, WithdrawnOut, WithdrawnStaysOut, KeysOf
<1> QED
  BY Inductive, <1>1, PTL

\* A peer that was handed to its client stays stored and able to connect until a
\* removal of it is attempted.
THEOREM GrantedIsKept == Spec => []GrantedCanConnect
<1>1. IInv => GrantedCanConnect
  BY DEF IInv, HeldKeysStored, Applied, GrantedCanConnect
<1> QED
  BY Inductive, <1>1, PTL

\* Only a Create that failed or crashed leaves an unlisted key on the interface.
THEOREM LeaksAreFailedCreates == Spec => []OnlyFailedCreatesLeak
<1>1. IInv => OnlyFailedCreatesLeak
  BY DEF IInv, TypeOK, MemoryIsDisk, Fates, HeldKeysStored, WithdrawnOut, OnlyFailedCreatesLeak, KeysOf
<1> QED
  BY Inductive, <1>1, PTL

-----------------------------------------------------------------------------
(* The service implements PeerRegistry *)

Reachable == {k \in Keys : backend[k] # Absent}

\* A step that neither changes the file nor lets a key in that was out.
LEMMA ShutOutStep ==
    ASSUME disk' = disk, \A k \in Keys : backend[k] = Absent => backend'[k] = Absent
    PROVE  [Registry!Next]_(Registry!vars)
<1> DEFINE K == {k \in Keys : backend'[k] = Absent}
<1>1. Reachable' = Reachable \ K
  BY DEF Reachable
<1>2. K \in SUBSET Keys
  OBVIOUS
<1> HIDE DEF K
<1>3. \E L \in SUBSET Keys : Registry!ShutOut(L)
  BY <1>1, <1>2 DEF Registry!ShutOut, Reachable
<1> QED
  BY <1>3 DEF Registry!Next

\* A step that applies one peer to the interface and leaves the file alone.
LEMMA ApplyStep ==
    ASSUME backend \in Interface, NEW k \in Keys, NEW a \in PoolAddresses,
           backend' = WithPeer(backend, k, a), disk' = disk
    PROVE  [Registry!Next]_(Registry!vars)
<1>1. Reachable' = Reachable \union {k}
  <2>1. a # Absent /\ NoRoute # Absent
    BY PoolAddressRange DEF Absent, NoRoute
  <2> QED
    BY <2>1, WithPeerSpec DEF Reachable
<1>2. CASE k \in Registry!KeysOf(disk)
  BY <1>1, <1>2 DEF Registry!Next, Registry!Recover, Reachable
<1>3. CASE k \notin Registry!KeysOf(disk)
  BY <1>1, <1>3 DEF Registry!Next, Registry!Try, Reachable
<1> QED
  BY <1>2, <1>3

\* Every step of the service is a step of the registry or leaves it as it was.
LEMMA StepRefines == IInv /\ [Next]_vars => [Registry!Next]_(Registry!vars)
<1> SUFFICES ASSUME IInv, [Next]_vars PROVE [Registry!Next]_(Registry!vars)
  OBVIOUS
<1>a. backend \in Interface /\ \A p \in todo : p.key \in Keys /\ p.addr \in PoolAddresses
  BY PeerFields DEF IInv, TypeOK, Interface
<1>1. CASE \/ Start \/ RestoreDone \/ CreateNotSaved \/ CreateNotRolledBack \/ RemovalNotSaved
           \/ Tick \/ RemoveExpired
           \/ \E p \in peers : Delete(p)
           \/ \E o \in Owners : RemoveOwner(o) \/ \E p \in peers : DeleteOwned(p, o)
  <2>1. disk' = disk /\ backend' = backend
    BY <1>1 DEF Start, RestoreDone, CreateNotSaved, CreateNotRolledBack, RemovalNotSaved, Tick, service,
               RemoveExpired, Delete, RemoveOwner, DeleteOwned, RemoveWhere
  <2> QED
    BY <2>1 DEF Registry!vars
<1>2. CASE Crash
  <2>1. disk' = disk
    BY <1>2 DEF Crash, Stop
  <2>2. CASE backend' = backend
    BY <2>1, <2>2 DEF Registry!vars
  <2>3. CASE \E p \in todo : backend' = WithPeer(backend, p.key, p.addr)
    BY <1>a, <2>1, <2>3, ApplyStep
  <2> QED
    BY <1>2, <2>2, <2>3 DEF Crash
<1>3. CASE Reboot
  BY <1>3, ShutOutStep DEF Reboot, Stop
<1>4. CASE \E p \in todo : RestorePeer(p)
  BY <1>4, <1>a, ApplyStep DEF RestorePeer
<1>5. CASE \E k \in Keys, o \in Owners \union {Admin} : CreateApplied(k, o) \/ CreateUnconfirmed(k, o)
  BY <1>5, <1>a, ApplyStep DEF CreateApplied, CreateUnconfirmed
<1>6. CASE CreateSaved
  <2>1. PICK p \in new : new = {p}
    BY <1>6 DEF IInv, CallState, CreateSaved
  <2>2. Fits(p) /\ p \in Peer /\ disk' = disk \union {p} /\ backend' = backend
    BY <1>6, <2>1 DEF IInv, NewFits, TypeOK, MemoryIsDisk, CreateSaved
  <2>3. p \in disk' \ disk
    BY <2>2 DEF Fits
  <2>4. p.key \in Reachable
    BY <2>2, PeerFields, PoolAddressRange DEF Fits, Reachable, Absent
  <2>5. \A S : Registry!Cardinality(S) = Cardinality(S)
    BY DEF Registry!Cardinality, Cardinality
  <2>6. Registry!Register(p)
    BY <2>2, <2>4, <2>5 DEF Registry!Register, Registry!OwnedBy, Fits, OwnedBy, Reachable
  <2> QED
    BY <2>3, <2>6 DEF Registry!Next
<1>7. CASE CreateRolledBack
  <2>1. PICK p \in new : backend' = WithoutPeer(backend, p.key)
    BY <1>7 DEF CreateRolledBack
  <2>2. p.key \in Keys
    BY PeerFields DEF IInv, TypeOK
  <2> QED
    BY <1>7, <1>a, <2>1, <2>2, WithoutPeerSpec, ShutOutStep DEF CreateRolledBack
<1>8. CASE \E p \in todo : DropPeer(p) \/ DropPeerFails(p)
  <2>1. PICK p \in todo : DropPeer(p) \/ DropPeerFails(p)
    BY <1>8
  <2>2. disk' = disk /\ backend' \in {backend, WithoutPeer(backend, p.key)}
    BY <2>1 DEF DropPeer, DropPeerFails
  <2> QED
    BY <1>a, <2>2, WithoutPeerSpec, ShutOutStep
<1>9. CASE RemovalSaved
  <2>1. disk' = disk \ dropped /\ backend' = backend /\ dropped \in SUBSET disk
    BY <1>9 DEF IInv, TypeOK, MemoryIsDisk, RemovalSaved
  <2>2. Registry!KeysOf(dropped) \intersect Reachable = {}
    BY DEF IInv, DroppedOut, Registry!KeysOf, Reachable
  <2>3. Registry!Withdraw(dropped)
    BY <2>1, <2>2 DEF Registry!Withdraw, Reachable
  <2> QED
    BY <2>1, <2>3 DEF Registry!Next
<1>10. CASE UNCHANGED vars
  BY <1>10 DEF vars, service, Registry!vars
<1> QED
  BY <1>1, <1>2, <1>3, <1>4, <1>5, <1>6, <1>7, <1>8, <1>9, <1>10 DEF Next

\* The calls of service.go, with their failures and restarts, keep the promise of
\* PeerRegistry.
THEOREM Refinement == Spec => ImplementsRegistry
<1>1. Init => Registry!Init
  BY DEF Init, Registry!Init
<1> QED
  BY Inductive, <1>1, StepRefines, PTL DEF Spec, ImplementsRegistry, Registry!Spec

-----------------------------------------------------------------------------
(* What the registry guarantees holds of the service, since the service    *)
(* implements it.                                                          *)

Promise == INSTANCE PeerRegistryProofs WITH
    registered <- disk,
    reachable <- {k \in Keys : backend[k] # Absent}

LEMMA KeepsPromise == Spec => Promise!Spec
<1>1. Registry!Init => Promise!Init
  BY DEF Registry!Init, Promise!Init
<1>2. \A S : Registry!Cardinality(S) = Promise!Cardinality(S)
  BY DEF Registry!Cardinality, Promise!Cardinality
<1>3. \A p : Registry!Register(p) => Promise!Register(p)
  BY <1>2 DEF Registry!Register, Promise!Register, Registry!OwnedBy, Promise!OwnedBy
<1>4. [Registry!Next]_(Registry!vars) => [Promise!Next]_(Promise!vars)
  BY <1>3 DEF Registry!Next, Promise!Next, Registry!vars, Promise!vars,
         Registry!Try, Promise!Try, Registry!Recover, Promise!Recover,
         Registry!ShutOut, Promise!ShutOut, Registry!Withdraw, Promise!Withdraw,
         Registry!KeysOf, Promise!KeysOf
<1> QED
  BY <1>1, <1>4, Refinement, PTL DEF ImplementsRegistry, Registry!Spec, Promise!Spec

\* The number of peers a user has on disk grows by one at a time and only below
\* VPN_MAX_PEERS_PER_USER, and falls in any other step that changes it: through failed
\* saves, failed removals, crashes and restarts the service implements PeerCounts.
THEOREM CountsRefinement == Spec => ImplementsCounts
<1>1. MaxPerOwner \in Nat
  BY ConfigAssumption
<1>2. Promise!Spec => Promise!CountsOneByOne
  BY <1>1, Promise!RegistryCounts
<1>3. \A o : Promise!Cardinality(Promise!OwnedBy(o, disk)) = Cardinality(OwnedBy(o, disk))
  BY DEF Promise!Cardinality, Cardinality, Promise!OwnedBy, OwnedBy
<1>4. \A o : Promise!Cardinality(Promise!OwnedBy(o, disk')) = Cardinality(OwnedBy(o, disk'))
  BY DEF Promise!Cardinality, Cardinality, Promise!OwnedBy, OwnedBy
<1>5. Promise!Counts!Init => Counts!Init
  BY <1>3 DEF Promise!Counts!Init, Counts!Init
<1>6. [Promise!Counts!Next]_([o \in Owners |-> Promise!Cardinality(Promise!OwnedBy(o, disk))])
        => [Counts!Next]_([o \in Owners |-> Cardinality(OwnedBy(o, disk))])
  BY <1>3, <1>4 DEF Promise!Counts!Next, Counts!Next, Promise!Counts!Lose, Counts!Lose,
                    Promise!Counts!Add, Counts!Add
<1> QED
  BY <1>2, <1>5, <1>6, KeepsPromise, PTL
     DEF ImplementsCounts, Counts!Spec, Promise!CountsOneByOne, Promise!Counts!Spec

-----------------------------------------------------------------------------
(* The pool never loses an address *)

\* While the server is up, Create finds an address exactly if fewer peers are listed than
\* the pool has addresses: those of failed creations, of removed peers and of peers
\* lost in a crash are free again.
PoolIsExact ==
    pc # "down" => ((\E a \in PoolAddresses : Allocated(a)) <=> Cardinality(peers) < PoolSize - 3)

\* A nonempty set of numbers has a least one.
LEMMA HasLowest ==
    ASSUME NEW S \in SUBSET Nat, S # {}
    PROVE  \E a \in S : IsLowest(a, S)
<1> DEFINE R == OpToRel(<, Nat)
<1>1. IsWellFoundedOn(R, Nat)
  BY NatLessThanWellFounded
<1>2. \A a, b \in Nat : <<b, a>> \in R <=> b < a
  BY DEF OpToRel
<1> HIDE DEF R
<1>3. PICK a \in S : \A b \in S : ~(<<b, a>> \in R)
  BY <1>1, WFMin
<1>4. \A b \in S : ~(b < a)
  BY <1>2, <1>3, Zenon
<1>5. \A b \in S : a <= b
  BY <1>4
<1> QED
  BY <1>5 DEF IsLowest

\* Pool.Allocate is deterministic.
LEMMA AllocatedIsUnique ==
    ASSUME NEW a \in PoolAddresses, NEW b \in PoolAddresses, Allocated(a), Allocated(b)
    PROVE  a = b
<1>1. a \in Int /\ b \in Int
  BY PoolAddressRange
<1> QED
  BY <1>1 DEF Allocated, IsLowest

LEMMA PoolHas ==
    IsFiniteSet(PoolAddresses) /\ Cardinality(PoolAddresses) = PoolSize - 3
<1>1. 2 \in Int /\ PoolSize - 2 \in Int /\ ~(2 > PoolSize - 2) /\ (PoolSize - 2) - 2 + 1 = PoolSize - 3
  BY ConfigAssumption
<1> QED
  BY <1>1, FS_Interval DEF PoolAddresses

AddressesOf(S) == {p.addr : p \in S}

\* A list without two peers at one address uses as many addresses as it has peers.
LEMMA AddressesUsed ==
    ASSUME NEW S \in SUBSET Peer, IsFiniteSet(S), AllUnique(S)
    PROVE  /\ AddressesOf(S) \in SUBSET PoolAddresses
           /\ IsFiniteSet(AddressesOf(S))
           /\ Cardinality(AddressesOf(S)) = Cardinality(S)
<1> DEFINE f == [p \in S |-> p.addr]
<1>1. f \in Bijection(S, AddressesOf(S))
  BY DEF AddressesOf, AllUnique, Bijection, Injection, Surjection, IsInjective
<1>2. ExistsBijection(S, AddressesOf(S))
  BY <1>1 DEF ExistsBijection
<1>3. AddressesOf(S) \in SUBSET PoolAddresses
  BY PeerFields DEF AddressesOf
<1> QED
  BY <1>2, <1>3, FS_Bijection

LEMMA PoolIsExactStep == IInv => PoolIsExact
<1> SUFFICES ASSUME IInv, pc # "down"
             PROVE  (\E a \in PoolAddresses : Allocated(a)) <=> Cardinality(peers) < PoolSize - 3
  BY DEF PoolIsExact
<1>1. peers \in SUBSET Peer /\ IsFiniteSet(peers) /\ AllUnique(peers)
  BY DEF IInv, TypeOK, MemoryIsDisk
<1>2. /\ AddressesOf(peers) \in SUBSET PoolAddresses
      /\ Cardinality(AddressesOf(peers)) = Cardinality(peers)
  BY <1>1, AddressesUsed
<1>3. FreeAddresses(peers) = PoolAddresses \ AddressesOf(peers)
  BY DEF FreeAddresses, AddressesOf
<1>4. /\ Cardinality(AddressesOf(peers)) <= PoolSize - 3
      /\ Cardinality(AddressesOf(peers)) = PoolSize - 3 => AddressesOf(peers) = PoolAddresses
  BY <1>2, PoolHas, FS_Subset
<1>5. Cardinality(peers) \in Nat /\ PoolSize - 3 \in Int
  BY <1>1, FS_CardinalityType, ConfigAssumption
<1>6. FreeAddresses(peers) # {} <=> Cardinality(peers) < PoolSize - 3
  <2>1. CASE Cardinality(peers) = PoolSize - 3
    BY <1>2, <1>3, <1>4, <1>5, <2>1
  <2>2. CASE Cardinality(peers) < PoolSize - 3
    <3>1. AddressesOf(peers) # PoolAddresses
      BY <1>2, <1>5, <2>2, PoolHas
    <3> QED
      BY <1>2, <1>3, <2>2, <3>1
  <2> QED
    BY <1>2, <1>4, <1>5, <2>1, <2>2
<1>7. FreeAddresses(peers) \in SUBSET Nat
  BY ConfigAssumption DEF FreeAddresses, PoolAddresses
<1>8. (\E a \in PoolAddresses : Allocated(a)) <=> FreeAddresses(peers) # {}
  BY <1>7, HasLowest DEF Allocated, FreeAddresses
<1> QED
  BY <1>6, <1>8

\* Create never fails for want of an address while fewer peers are listed than the
\* subnet holds, whatever failed before.
THEOREM PoolKeepsAddresses == Spec => []PoolIsExact
  BY Inductive, PoolIsExactStep, PTL
=============================================================================
