------------------------- MODULE PeerRegistryProofs -------------------------
(***************************************************************************)
(* What follows from the promise of the peer service alone, whatever keeps *)
(* it: unique keys and addresses, the limit, and the numbers of peers that *)
(* single sign-on relies on.                                               *)
(***************************************************************************)
EXTENDS PeerRegistry, FiniteSetTheorems, TLAPS

Held == [o \in Owners |-> Cardinality(OwnedBy(o, registered))]

\* A finite record grows by one peer at a time.
RInv ==
    /\ IsFiniteSet(registered)
    /\ RecordIsUnique
    /\ RecordIsLimited

-----------------------------------------------------------------------------
(* Lemmas about the numbers of peers *)

\* The peers of one owner in a finite record are finitely many.
LEMMA OwnedIsFinite ==
    ASSUME NEW S, IsFiniteSet(S), NEW o
    PROVE  IsFiniteSet(OwnedBy(o, S)) /\ Cardinality(OwnedBy(o, S)) \in Nat
  BY FS_Subset, FS_CardinalityType DEF OwnedBy

\* A new peer adds one to the number of its owner and nothing to any other.
LEMMA OwnedAfterAdd ==
    ASSUME NEW S, IsFiniteSet(S), NEW p, p \notin S, NEW o
    PROVE  Cardinality(OwnedBy(o, S \union {p})) =
             IF p.owner = o THEN Cardinality(OwnedBy(o, S)) + 1 ELSE Cardinality(OwnedBy(o, S))
  <1>1. IsFiniteSet(OwnedBy(o, S)) /\ p \notin OwnedBy(o, S)
    BY OwnedIsFinite DEF OwnedBy
  <1>2. CASE p.owner = o
    <2>1. OwnedBy(o, S \union {p}) = OwnedBy(o, S) \union {p}
      BY <1>2 DEF OwnedBy
    <2> QED
      BY <1>1, <1>2, <2>1, FS_AddElement
  <1>3. CASE p.owner # o
    BY <1>3 DEF OwnedBy
  <1> QED
    BY <1>2, <1>3

\* Peers that go off the record add to no number.
LEMMA OwnedAfterRemove ==
    ASSUME NEW S, IsFiniteSet(S), NEW T \in SUBSET S, NEW o
    PROVE  /\ IsFiniteSet(T)
           /\ Cardinality(OwnedBy(o, T)) \in Nat
           /\ Cardinality(OwnedBy(o, T)) <= Cardinality(OwnedBy(o, S))
  <1>1. OwnedBy(o, T) \in SUBSET OwnedBy(o, S)
    BY DEF OwnedBy
  <1>2. IsFiniteSet(T)
    BY FS_Subset
  <1> QED
    BY <1>1, <1>2, OwnedIsFinite, FS_Subset

-----------------------------------------------------------------------------
(* The invariant is inductive *)

LEMMA NothingOwned ==
    ASSUME NEW o
    PROVE  OwnedBy(o, {}) = {} /\ Cardinality(OwnedBy(o, {})) = 0
  BY FS_EmptySet DEF OwnedBy

\* Registering keeps the record unique and every owner within the limit.
LEMMA RegisterPreserves ==
    ASSUME MaxPerOwner \in Nat, RInv, NEW p, p \notin registered, Register(p)
    PROVE  RInv'
  <1>1. IsFiniteSet(registered')
    BY FS_AddElement DEF RInv, Register
  <1>2. RecordIsUnique'
    BY DEF RInv, RecordIsUnique, Register
  <1>3. RecordIsLimited'
    <2> SUFFICES ASSUME NEW o \in Owners
                 PROVE  Cardinality(OwnedBy(o, registered')) <= MaxPerOwner
      BY DEF RecordIsLimited
    <2>1. Cardinality(OwnedBy(o, registered)) \in Nat
      BY OwnedIsFinite DEF RInv
    <2>2. Cardinality(OwnedBy(o, registered)) <= MaxPerOwner
      BY DEF RInv, RecordIsLimited
    <2>3. registered' = registered \union {p}
      BY DEF Register
    <2>4. CASE p.owner = o
      <3>1. Cardinality(OwnedBy(o, registered)) < MaxPerOwner
        BY <2>4 DEF Register
      <3>2. Cardinality(OwnedBy(o, registered')) = Cardinality(OwnedBy(o, registered)) + 1
        BY <2>3, <2>4, OwnedAfterAdd DEF RInv
      <3> QED
        BY <2>1, <3>1, <3>2
    <2>5. CASE p.owner # o
      <3>1. Cardinality(OwnedBy(o, registered')) = Cardinality(OwnedBy(o, registered))
        BY <2>3, <2>5, OwnedAfterAdd DEF RInv
      <3> QED
        BY <2>2, <3>1
    <2> QED
      BY <2>4, <2>5
  <1> QED
    BY <1>1, <1>2, <1>3 DEF RInv

\* So does taking peers off the record.
LEMMA WithdrawPreserves ==
    ASSUME MaxPerOwner \in Nat, RInv, NEW S \in SUBSET registered, Withdraw(S)
    PROVE  RInv'
  <1>1. registered' \in SUBSET registered
    BY DEF Withdraw
  <1>2. IsFiniteSet(registered')
    BY <1>1, FS_Subset DEF RInv
  <1>3. RecordIsUnique'
    BY <1>1 DEF RInv, RecordIsUnique
  <1>4. ASSUME NEW o \in Owners
        PROVE  Cardinality(OwnedBy(o, registered')) <= MaxPerOwner
    <2>1. /\ Cardinality(OwnedBy(o, registered')) \in Nat
          /\ Cardinality(OwnedBy(o, registered')) <= Cardinality(OwnedBy(o, registered))
      BY <1>1, OwnedAfterRemove DEF RInv
    <2>2. Cardinality(OwnedBy(o, registered)) \in Nat
      BY OwnedIsFinite DEF RInv
    <2>3. Cardinality(OwnedBy(o, registered)) <= MaxPerOwner
      BY DEF RInv, RecordIsLimited
    <2> QED
      BY <2>1, <2>2, <2>3
  <1> QED
    BY <1>2, <1>3, <1>4 DEF RInv, RecordIsLimited

\* Letting keys in and shutting them out leaves the record alone.
LEMMA SameRecord ==
    ASSUME RInv, UNCHANGED registered
    PROVE  RInv' /\ UNCHANGED Held
  BY DEF RInv, RecordIsUnique, RecordIsLimited, Held

LEMMA RInvInductive ==
    ASSUME MaxPerOwner \in Nat
    PROVE  Spec => []RInv
  <1>1. Init => RInv
    BY NothingOwned, FS_EmptySet DEF Init, RInv, RecordIsUnique, RecordIsLimited
  <1>2. RInv /\ [Next]_vars => RInv'
    <2> SUFFICES ASSUME RInv, [Next]_vars
                 PROVE  RInv'
      OBVIOUS
    <2>1. CASE UNCHANGED registered
      BY <2>1, SameRecord
    <2>2. ASSUME NEW p \in registered' \ registered, Register(p)
          PROVE  RInv'
      BY <2>2, RegisterPreserves
    <2>3. ASSUME NEW S \in SUBSET registered, Withdraw(S)
          PROVE  RInv'
      BY <2>3, WithdrawPreserves
    <2> QED
      BY <2>1, <2>2, <2>3 DEF Next, vars, Try, Recover, ShutOut
  <1> QED
    BY <1>1, <1>2, PTL DEF Spec

-----------------------------------------------------------------------------
(* What follows from it *)

\* Whoever keeps the promise of the registry never records one key or address twice.
THEOREM RegistryIsUnique ==
    ASSUME MaxPerOwner \in Nat
    PROVE  Spec => []RecordIsUnique
  <1>1. RInv => RecordIsUnique
    BY DEF RInv
  <1> QED
    BY <1>1, RInvInductive, PTL

\* Nor do they exceed the limit of an owner.
THEOREM RegistryIsLimited ==
    ASSUME MaxPerOwner \in Nat
    PROVE  Spec => []RecordIsLimited
  <1>1. RInv => RecordIsLimited
    BY DEF RInv
  <1> QED
    BY <1>1, RInvInductive, PTL

\* Each step of the registry is one of PeerCounts, or changes no number.
LEMMA CountStep ==
    ASSUME MaxPerOwner \in Nat, RInv, RInv', [Next]_vars
    PROVE  [Counts!Next]_Held
  <1> USE DEF Held
  <1>1. CASE UNCHANGED registered
    BY <1>1
  <1>2. ASSUME NEW p \in registered' \ registered, Register(p)
        PROVE  [Counts!Next]_Held
    <2>1. registered' = registered \union {p} /\ p \notin registered
      BY <1>2 DEF Register
    <2>2. \A o \in Owners : Held'[o] = IF p.owner = o THEN Held[o] + 1 ELSE Held[o]
      BY <2>1, OwnedAfterAdd DEF RInv
    <2>3. CASE p.owner \in Owners
      <3>1. Held' = [Held EXCEPT ![p.owner] = @ + 1]
        BY <2>2, <2>3
      <3>2. Held[p.owner] < MaxPerOwner
        BY <1>2, <2>3 DEF Register
      <3> QED
        BY <2>3, <3>1, <3>2 DEF Counts!Next, Counts!Add
    <2>4. CASE p.owner \notin Owners
      <3>1. Held' = Held
        BY <2>2, <2>4
      <3> QED
        BY <3>1
    <2> QED
      BY <2>3, <2>4
  <1>3. ASSUME NEW S \in SUBSET registered, Withdraw(S)
        PROVE  [Counts!Next]_Held
    <2>1. registered' \in SUBSET registered
      BY <1>3 DEF Withdraw
    <2>2. ASSUME NEW o \in Owners
          PROVE  Held'[o] \in 0..MaxPerOwner /\ Held'[o] <= Held[o]
      <3>1. Cardinality(OwnedBy(o, registered')) \in Nat
        BY <2>1, OwnedAfterRemove DEF RInv
      <3>2. Cardinality(OwnedBy(o, registered')) <= MaxPerOwner
        BY DEF RInv, RecordIsLimited
      <3>3. Cardinality(OwnedBy(o, registered')) <= Cardinality(OwnedBy(o, registered))
        BY <2>1, OwnedAfterRemove DEF RInv
      <3> QED
        BY <3>1, <3>2, <3>3
    <2>3. Counts!Lose
      BY <2>2 DEF Counts!Lose
    <2> QED
      BY <2>3 DEF Counts!Next
  <1> QED
    BY <1>1, <1>2, <1>3 DEF Next, vars, Try, Recover, ShutOut

\* The numbers of peers grow by one peer of one owner at a time, below the limit, and
\* otherwise only fall.
THEOREM RegistryCounts ==
    ASSUME MaxPerOwner \in Nat
    PROVE  Spec => CountsOneByOne
  <1>1. Init => Counts!Init
    BY NothingOwned DEF Init, Counts!Init
  <1>2. RInv /\ RInv' /\ [Next]_vars => [Counts!Next]_Held
    BY CountStep
  <1> QED
    BY <1>1, <1>2, RInvInductive, PTL DEF Spec, CountsOneByOne, Counts!Spec, Held
=============================================================================
