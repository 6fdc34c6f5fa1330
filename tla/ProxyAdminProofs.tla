-------------------------- MODULE ProxyAdminProofs --------------------------
(***************************************************************************)
(* The safety properties of ProxyAdmin for any clients, accounts, levels   *)
(* and any number of failures.                                             *)
(***************************************************************************)
EXTENDS ProxyAdmin, TLAPS

\* Only a running server has requests, and none has been admitted to a change while
\* the bootstrap password is to be changed.
AdmittedAfterRotation ==
    \A q \in Clients :
        /\ stage[q] # "idle" => Up
        /\ stage[q] \in {"admitted", "stored", "loaded"} => ~mem.mustChange

\* Until then only a change of the admin password can have failed after its rename:
\* accounts and level are the same in memory and in the file.
BootstrapStateOnDisk ==
    Up /\ mem.mustChange => mem.account = disk.account /\ mem.level = disk.level

\* As long as no two logging requests have overlapped, the one that is being applied is
\* the only one, and what it has read back is still the stored level.
OneApplies ==
    Up /\ "overlapped" \notin marks =>
        /\ Applying = {} => active = mem.level
        /\ \A q \in Clients : stage[q] = "loaded" => loaded[q] = mem.level
        /\ \A p, q \in Applying : p = q

\* A process that is down is as Down leaves it.
DownIsFresh == ~Up => mem = Fresh /\ active = Default /\ "overlapped" \notin marks

IInv ==
    /\ TypeOK
    /\ AdmittedAfterRotation
    /\ BootstrapStateOnDisk
    /\ OneApplies
    /\ DownIsFresh
    /\ MemoryIsDisk
    /\ RotationIsFinal

USE DEF TypeOK, AdmittedAfterRotation, BootstrapStateOnDisk, OneApplies, DownIsFresh,
        MemoryIsDisk, RotationIsFinal, Marks, Up, Stages, Applying, Fault, NoFault, Goto

\* The bootstrap state is a state.
LEMMA FreshType == Fresh \in State /\ Fresh.level = Default /\ Fresh.mustChange
  BY LevelAssumption DEF Fresh, State

\* A stored level is a level.
LEMMA LevelType == \A s \in State : s.level \in Levels
  BY DEF State

-----------------------------------------------------------------------------
(* The invariant is inductive *)

\* It holds before the first start.
LEMMA InitEstablishes == Init => IInv
  BY FreshType, LevelAssumption, BoundAssumption DEF Init, IInv

\* Starting loads the file, or writes the bootstrap state.
LEMMA BootPreserves == ASSUME IInv, BootFresh \/ BootStored PROVE IInv'
  <1>1. CASE BootFresh
    BY <1>1, FreshType, BoundAssumption, NoFileAssumption DEF IInv, BootFresh
  <1>2. CASE BootStored
    BY <1>2, LevelType DEF IInv, BootStored
  <1> QED
    BY <1>1, <1>2

\* Stopping forgets everything but the file, which still is what rotation requires.
LEMMA DownPreserves ==
    ASSUME IInv, Down, Fault, disk' \in State,
           "rotated" \in marks => ~disk'.mustChange
    PROVE  IInv'
  BY FreshType, LevelAssumption, BoundAssumption, NoFileAssumption DEF IInv, Down

\* A crash, outside a save, preserves the invariant: nothing on disk changes.
LEMMA CrashPreserves == ASSUME IInv, Crash PROVE IInv'
  BY DownPreserves, NoFileAssumption DEF IInv, Crash

\* Admission changes nothing but the stage and the sessions.
LEMMA AdmissionPreserves ==
    ASSUME IInv, NEW q \in Clients,
           \/ LoginVerified(q) \/ LoginOpened(q) \/ SessionEnds(q)
           \/ RequireAdmin(q) \/ RequireSession(q) \/ Refused(q)
    PROVE  IInv'
  <1>1. CASE LoginVerified(q)
    BY <1>1 DEF IInv, LoginVerified
  <1>2. CASE LoginOpened(q)
    BY <1>2 DEF IInv, LoginOpened
  <1>3. CASE SessionEnds(q)
    BY <1>3 DEF IInv, SessionEnds
  <1>4. CASE RequireAdmin(q)
    BY <1>4 DEF IInv, RequireAdmin
  <1>5. CASE RequireSession(q)
    BY <1>5 DEF IInv, RequireSession
  <1>6. CASE Refused(q)
    BY <1>6 DEF IInv, Refused
  <1> QED
    BY <1>1, <1>2, <1>3, <1>4, <1>5, <1>6

\* A save that fails leaves memory alone, and at worst puts `new' in the file.
LEMMA NotSavedPreserves ==
    ASSUME IInv, NEW q \in Clients, NEW new \in State, Up, Goto(q, "idle"), NotSaved(new),
           stage[q] # "stored" /\ stage[q] # "loaded",
           ~new.mustChange,
           mem.mustChange => new.account = mem.account /\ new.level = mem.level
    PROVE  IInv'
  <1>1. TypeOK'
    <2>1. disk' \in State /\ marks' \subseteq Marks
      BY DEF IInv, NotSaved
    <2>2. faults' \in 0..MaxFaults
      BY BoundAssumption DEF IInv, NotSaved
    <2> QED
      BY <2>1, <2>2, NoFileAssumption DEF IInv, NotSaved
  <1>2. Applying' = Applying
    BY DEF IInv
  <1>3. AdmittedAfterRotation' /\ BootstrapStateOnDisk' /\ MemoryIsDisk' /\ RotationIsFinal'
    BY NoFileAssumption DEF IInv, NotSaved
  <1>4. OneApplies' /\ DownIsFresh'
    <2> USE <1>2 DEF IInv, NotSaved
    <2> HIDE DEF Applying
    <2>1. \A p \in Clients : stage'[p] = "loaded" => stage[p] = "loaded"
      OBVIOUS
    <2> QED
      BY <2>1
  <1> QED
    BY <1>1, <1>3, <1>4 DEF IInv

\* A save that works puts `new' in memory and in the file alike; the level being
\* applied is looked at separately.
LEMMA SavedPreserves ==
    ASSUME IInv, NEW q \in Clients, NEW new \in State, Up, Saved(new), ~new.mustChange,
           NEW s \in {"idle", "stored"}, Goto(q, s),
           marks' \subseteq Marks, OneApplies'
    PROVE  IInv'
  <1>1. TypeOK'
    BY NoFileAssumption DEF IInv, Saved
  <1>2. AdmittedAfterRotation' /\ BootstrapStateOnDisk' /\ MemoryIsDisk' /\ RotationIsFinal'
    BY NoFileAssumption DEF IInv, Saved
  <1>3. DownIsFresh'
    BY DEF IInv, Saved
  <1> QED
    BY <1>1, <1>2, <1>3 DEF IInv

\* A change of an account is made only after rotation, and leaves the level alone.
LEMMA ChangeAccountPreserves ==
    ASSUME IInv, NEW q \in Clients, ChangeAccount(q)
    PROVE  IInv'
  <1>1. PICK n \in Names, a \in Account \union {Absent} : ChangeAccount(q)!2!(n, a)
    BY DEF ChangeAccount
  <1> DEFINE new == [mem EXCEPT !.account[n] = a]
  <1>2. /\ new \in State
        /\ new.level = mem.level
        /\ ~new.mustChange /\ ~mem.mustChange /\ Up /\ stage[q] = "admitted"
    BY DEF IInv, ChangeAccount, State
  <1> HIDE DEF new
  <1>3. CASE Goto(q, "idle") /\ Saved(new) /\ marks' = marks \ {"ahead"}
    <2>1. OneApplies'
      BY <1>2, <1>3 DEF IInv, Saved
    <2> QED
      BY <1>2, <1>3, <2>1, SavedPreserves DEF IInv
  <1>4. CASE Goto(q, "idle") /\ NotSaved(new)
    BY <1>2, <1>4, NotSavedPreserves
  <1>5. CASE CrashSaving(new)
    BY <1>2, <1>5, DownPreserves DEF IInv, CrashSaving
  <1> QED
    BY <1>1, <1>3, <1>4, <1>5 DEF new

\* A change of the admin password leaves accounts and level alone.
LEMMA ChangeAdminPasswordPreserves ==
    ASSUME IInv, NEW q \in Clients, ChangeAdminPassword(q)
    PROVE  IInv'
  <1>1. PICK next \in Passwords : ChangeAdminPassword(q)!2!(next)
    BY DEF ChangeAdminPassword
  <1> DEFINE new == [mem EXCEPT !.admin = next, !.mustChange = FALSE]
  <1>2. /\ new \in State
        /\ new.level = mem.level
        /\ new.account = mem.account
        /\ ~new.mustChange /\ Up /\ stage[q] = "rotating"
    BY DEF IInv, ChangeAdminPassword, State
  <1> HIDE DEF new
  <1>3. CASE Goto(q, "idle") /\ Saved(new) /\ marks' = (marks \ {"ahead"}) \union {"rotated"}
    <2>1. OneApplies'
      BY <1>2, <1>3 DEF IInv, Saved
    <2> QED
      BY <1>2, <1>3, <2>1, SavedPreserves DEF IInv
  <1>4. CASE Goto(q, "idle") /\ NotSaved(new)
    BY <1>2, <1>4, NotSavedPreserves
  <1>5. CASE CrashSaving(new)
    BY <1>2, <1>5, DownPreserves DEF IInv, CrashSaving
  <1> QED
    BY <1>1, <1>3, <1>4, <1>5 DEF new

\* A stored level is not in force yet, but its request is the only one applying a level,
\* or has overlapped another.
LEMMA StoreLevelPreserves ==
    ASSUME IInv, NEW q \in Clients, StoreLevel(q)
    PROVE  IInv'
  <1>1. PICK level \in Levels : StoreLevel(q)!2!(level)
    BY DEF StoreLevel
  <1> DEFINE new == [mem EXCEPT !.level = level]
  <1>2. /\ new \in State
        /\ new.account = mem.account
        /\ ~new.mustChange /\ ~mem.mustChange /\ Up /\ stage[q] = "admitted"
    BY DEF IInv, StoreLevel, State
  <1> HIDE DEF new
  <1>3. CASE /\ Goto(q, "stored") /\ Saved(new)
             /\ marks' = (marks \ {"ahead"})
                            \union (IF Applying = {} THEN {} ELSE {"overlapped"})
    <2>1. Applying' = Applying \union {q}
      BY <1>3 DEF IInv
    <2>2. OneApplies'
      BY <1>2, <1>3, <2>1 DEF IInv, Saved
    <2> QED
      BY <1>2, <1>3, <2>2, SavedPreserves DEF IInv
  <1>4. CASE Goto(q, "idle") /\ NotSaved(new)
    BY <1>2, <1>4, NotSavedPreserves
  <1>5. CASE CrashSaving(new)
    BY <1>2, <1>5, DownPreserves DEF IInv, CrashSaving
  <1> QED
    BY <1>1, <1>3, <1>4, <1>5 DEF new

\* Reading the level back and putting it in force.
LEMMA ApplyPreserves ==
    ASSUME IInv, NEW q \in Clients, LoadLevel(q) \/ ApplyLevel(q)
    PROVE  IInv'
  <1>1. CASE LoadLevel(q)
    BY <1>1, LevelType DEF IInv, LoadLevel
  <1>2. CASE ApplyLevel(q)
    BY <1>2 DEF IInv, ApplyLevel
  <1> QED
    BY <1>1, <1>2

\* Every step of the system keeps the invariant.
LEMMA StepPreserves == IInv /\ [Next]_vars => IInv'
  <1> SUFFICES ASSUME IInv, [Next]_vars
               PROVE  IInv'
    OBVIOUS
  <1>1. CASE UNCHANGED vars
    BY <1>1 DEF IInv, vars
  <1>2. CASE Next
    BY <1>2, BootPreserves, CrashPreserves, AdmissionPreserves, ChangeAccountPreserves,
       ChangeAdminPasswordPreserves, StoreLevelPreserves, ApplyPreserves DEF Next
  <1> QED
    BY <1>1, <1>2

\* The inductive invariant holds in every reachable state.
THEOREM Inductive == Spec => []IInv
  <1>1. Init => IInv
    BY InitEstablishes
  <1>2. IInv /\ [Next]_vars => IInv'
    BY StepPreserves
  <1> QED
    BY <1>1, <1>2, PTL DEF Spec

-----------------------------------------------------------------------------
(* What follows from it *)

\* Every variable keeps its type, and the server never runs without its file.
THEOREM TypeCorrect == Spec => []TypeOK
  <1>1. IInv => TypeOK
    BY DEF IInv
  <1> QED
    BY <1>1, Inductive, PTL

\* A failed change is taken back whole.
THEOREM MemoryFollowsDisk == Spec => []MemoryIsDisk
  <1>1. IInv => MemoryIsDisk
    BY DEF IInv
  <1> QED
    BY <1>1, Inductive, PTL

\* An acknowledged change of the admin password outlasts every failure and restart.
THEOREM RotationLasts == Spec => []RotationIsFinal
  <1>1. IInv => RotationIsFinal
    BY DEF IInv
  <1> QED
    BY <1>1, Inductive, PTL

\* Logging requests that do not overlap leave the stored level in force.
THEOREM LevelsAgree == Spec => []LevelAgrees
  <1>1. IInv => LevelAgrees
    BY DEF IInv, LevelAgrees
  <1> QED
    BY <1>1, Inductive, PTL

\* No request changes accounts or level before the bootstrap password is changed.
THEOREM RotationComesFirst == Spec => ChangesNeedRotation
  <1> DEFINE Kept == Up /\ mem.mustChange /\ Up' =>
                       /\ mem'.account = mem.account /\ mem'.level = mem.level
                       /\ disk'.account = disk.account /\ disk'.level = disk.level
  <1>1. IInv /\ [Next]_vars => [Kept]_vars
    <2> SUFFICES ASSUME IInv, Next, Up, mem.mustChange, Up'
                 PROVE  /\ mem'.account = mem.account /\ mem'.level = mem.level
                        /\ disk'.account = disk.account /\ disk'.level = disk.level
      OBVIOUS
    <2>1. ~(BootFresh \/ BootStored \/ Crash)
      BY DEF BootFresh, BootStored, Crash, Down
    <2>2. PICK q \in Clients :
             \/ LoginVerified(q) \/ LoginOpened(q) \/ SessionEnds(q)
             \/ RequireAdmin(q) \/ RequireSession(q) \/ Refused(q)
             \/ ChangeAccount(q) \/ ChangeAdminPassword(q)
             \/ StoreLevel(q) \/ LoadLevel(q) \/ ApplyLevel(q)
      BY <2>1 DEF Next
    <2>3. ~(ChangeAccount(q) \/ StoreLevel(q))
      BY DEF IInv, ChangeAccount, StoreLevel
    <2>4. CASE ChangeAdminPassword(q)
      <3>1. PICK next \in Passwords : ChangeAdminPassword(q)!2!(next)
        BY <2>4 DEF ChangeAdminPassword
      <3> DEFINE new == [mem EXCEPT !.admin = next, !.mustChange = FALSE]
      <3>2. new.level = mem.level /\ new.account = mem.account
        BY DEF IInv, State
      <3> HIDE DEF new
      <3>3. ~CrashSaving(new)
        BY DEF CrashSaving, Down
      <3>4. Saved(new) \/ NotSaved(new)
        BY <3>1, <3>3 DEF new
      <3> QED
        BY <3>2, <3>4 DEF IInv, Saved, NotSaved
    <2>5. UNCHANGED <<mem, disk>> \/ ChangeAdminPassword(q)
      BY <2>2, <2>3 DEF LoginVerified, LoginOpened, SessionEnds, RequireAdmin, RequireSession,
                        Refused, LoadLevel, ApplyLevel
    <2> QED
      BY <2>4, <2>5
  <1> QED
    BY <1>1, Inductive, PTL DEF Spec, ChangesNeedRotation

-----------------------------------------------------------------------------
(* The store implements AccountStore                                         *)

\* A state is one that can be served.
LEMMA StatesAreServed == IInv => mem \in State /\ mem # NoFile
  BY NoFileAssumption DEF IInv

\* A change that is saved, that fails or that is cut off is one of AccountStore.
LEMMA ChangeRefines ==
    ASSUME IInv, Up, NEW new \in Changes[mem], Saved(new) \/ NotSaved(new) \/ CrashSaving(new)
    PROVE  [Store!Next]_(Store!vars)
  <1>0. mem # NoFile /\ server = "up"
    BY StatesAreServed
  <1>1. CASE Saved(new)
    <2>1. (IF Up THEN mem ELSE NoFile)' = new /\ disk' = new
      BY <1>0, <1>1 DEF Saved
    <2> QED
      BY <1>0, <2>1 DEF Store!Next, Store!Acknowledge
  <1>2. CASE NotSaved(new)
    <2>1. (IF Up THEN mem ELSE NoFile)' = mem /\ disk' \in {disk, new}
      BY <1>0, <1>2 DEF NotSaved
    <2> QED
      BY <1>0, <2>1 DEF Store!Next, Store!Fail, Store!vars
  <1>3. CASE CrashSaving(new)
    <2>1. (IF Up THEN mem ELSE NoFile)' = NoFile /\ disk' = new
      BY <1>3 DEF CrashSaving, Down
    <2> QED
      BY <1>0, <2>1 DEF Store!Next, Store!Stop
  <1> QED
    BY <1>1, <1>2, <1>3

\* Each change a handler makes is one that the state it starts from permits.
LEMMA HandlersRefine ==
    ASSUME IInv, NEW q \in Clients, ChangeAccount(q) \/ ChangeAdminPassword(q) \/ StoreLevel(q)
    PROVE  [Store!Next]_(Store!vars)
  <1>0. mem \in State
    BY DEF IInv
  <1>1. CASE ChangeAccount(q)
    <2>1. PICK n \in Names, a \in Account \union {Absent} : ChangeAccount(q)!2!(n, a)
      BY <1>1 DEF ChangeAccount
    <2> DEFINE new == [mem EXCEPT !.account[n] = a]
    <2>2. Up /\ ~mem.mustChange
      BY <1>1 DEF IInv, ChangeAccount
    <2>3. new \in Changes[mem]
      BY <1>0, <2>1, <2>2 DEF Changes, AccountChanges
    <2>4. Saved(new) \/ NotSaved(new) \/ CrashSaving(new)
      BY <2>1
    <2> HIDE DEF new
    <2> QED
      BY <2>2, <2>3, <2>4, ChangeRefines
  <1>2. CASE ChangeAdminPassword(q)
    <2>1. PICK next \in Passwords : ChangeAdminPassword(q)!2!(next)
      BY <1>2 DEF ChangeAdminPassword
    <2> DEFINE new == [mem EXCEPT !.admin = next, !.mustChange = FALSE]
    <2>2. Up
      BY <1>2 DEF IInv, ChangeAdminPassword
    <2>3. new \in Changes[mem]
      BY <1>0 DEF Changes, Rotations
    <2>4. Saved(new) \/ NotSaved(new) \/ CrashSaving(new)
      BY <2>1
    <2> HIDE DEF new
    <2> QED
      BY <2>2, <2>3, <2>4, ChangeRefines
  <1>3. CASE StoreLevel(q)
    <2>1. PICK level \in Levels : StoreLevel(q)!2!(level)
      BY <1>3 DEF StoreLevel
    <2> DEFINE new == [mem EXCEPT !.level = level]
    <2>2. Up /\ ~mem.mustChange
      BY <1>3 DEF IInv, StoreLevel
    <2>3. new \in Changes[mem]
      BY <1>0, <2>2 DEF Changes, LevelChanges
    <2>4. Saved(new) \/ NotSaved(new) \/ CrashSaving(new)
      BY <2>1
    <2> HIDE DEF new
    <2> QED
      BY <2>2, <2>3, <2>4, ChangeRefines
  <1> QED
    BY <1>1, <1>2, <1>3

LEMMA StoreStep ==
    ASSUME IInv, [Next]_vars
    PROVE  [Store!Next]_(Store!vars)
  <1>0. mem # NoFile
    BY StatesAreServed
  <1>1. CASE UNCHANGED vars
    BY <1>1 DEF vars, Store!vars
  <1>2. CASE BootFresh
    <2>1. mem = Fresh /\ disk = NoFile /\ disk' = Fresh /\ mem' = Fresh
      BY <1>2 DEF IInv, BootFresh
    <2> QED
      BY <1>2, <2>1 DEF BootFresh, Store!Next, Store!Create
  <1>3. CASE BootStored
    BY <1>3 DEF BootStored, Store!Next, Store!Start
  <1>4. CASE Crash
    BY <1>0, <1>4 DEF Crash, Down, Store!Next, Store!Stop
  <1>5. ASSUME NEW q \in Clients,
               \/ LoginVerified(q) \/ LoginOpened(q) \/ SessionEnds(q)
               \/ RequireAdmin(q) \/ RequireSession(q) \/ Refused(q) \/ LoadLevel(q) \/ ApplyLevel(q)
        PROVE  UNCHANGED Store!vars
    BY <1>5 DEF LoginVerified, LoginOpened, SessionEnds, RequireAdmin, RequireSession, Refused,
                LoadLevel, ApplyLevel, Store!vars
  <1> QED
    BY <1>1, <1>2, <1>3, <1>4, <1>5, HandlersRefine DEF Next

\* For any clients, accounts, levels and failures the store keeps its promise: acknowledged
\* changes last, and failed ones are not acted on (users.go 92-172; admin.go 410-421).
THEOREM StoreRefinement == Spec => ImplementsStore
  <1>1. Init => Store!Init
    BY DEF Init, Store!Init
  <1>2. IInv /\ [Next]_vars => [Store!Next]_(Store!vars)
    BY StoreStep
  <1> QED
    BY <1>1, <1>2, Inductive, PTL DEF Spec, ImplementsStore, Store!Spec

\* However many saves fail, the file is never more than one change ahead of what the server
\* acts on: the next change replaces the one that failed (users.go 139-172).
OneChangeAhead == Up => disk = mem \/ disk \in Changes[mem]

THEOREM FileIsOneAhead == Spec => []OneChangeAhead
  <1>1. Init => OneChangeAhead
    BY DEF Init, OneChangeAhead
  <1>2. ASSUME IInv, OneChangeAhead, [Next]_vars PROVE OneChangeAhead'
    <2> DEFINE served == IF Up THEN mem ELSE NoFile
    <2>1. SUFFICES ASSUME Up' PROVE disk' = mem' \/ disk' \in Changes[mem']
      BY DEF OneChangeAhead
    <2>2. mem' # NoFile /\ mem # NoFile
      BY <1>2, StepPreserves, StatesAreServed, NoFileAssumption DEF IInv
    <2>3. served' = mem' /\ served' # NoFile
      BY <2>1, <2>2
    <2>4. CASE UNCHANGED Store!vars
      <3>1. Up /\ mem' = mem /\ disk' = disk
        BY <2>2, <2>3, <2>4 DEF Store!vars
      <3> QED
        BY <1>2, <3>1 DEF OneChangeAhead
    <2>5. CASE Store!Next
      <3>1. ~Store!Stop
        BY <2>3 DEF Store!Stop
      <3>2. CASE Store!Create \/ Store!Start
        BY <2>3, <3>2 DEF Store!Create, Store!Start
      <3>3. CASE served # NoFile /\ \E new \in Changes[served] : Store!Acknowledge(new) \/ Store!Fail(new)
        <4>1. Up /\ served = mem
          BY <3>3
        <4>2. PICK new \in Changes[mem] : Store!Acknowledge(new) \/ Store!Fail(new)
          BY <3>3, <4>1
        <4> QED
          BY <2>3, <4>1, <4>2 DEF Store!Acknowledge, Store!Fail
      <3> QED
        BY <2>5, <3>1, <3>2, <3>3 DEF Store!Next
    <2> QED
      BY <1>2, <2>4, <2>5, StoreStep
  <1> QED
    BY <1>1, <1>2, Inductive, PTL DEF Spec
=============================================================================
