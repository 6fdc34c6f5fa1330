----------------------------- MODULE ProxyAdmin -----------------------------
(***************************************************************************)
(* The account store of addons/proxy-router (users.go), its administration *)
(* over HTTP (admin.go, sessions.go) and the log level in force (proxy.go, *)
(* main.go).                                                               *)
(*                                                                         *)
(* userStore.mu is held for a whole change, the save included, so a change *)
(* is one step.  A handler is several: it checks its caller first, and     *)
(* PATCH /settings/logging stores the level, reads it back and puts it in  *)
(* force in three.  A save may fail before its rename, or after it (at the *)
(* final Chmod, when the file is already the new one), and the process may *)
(* end at any point.                                                       *)
(***************************************************************************)
EXTENDS Integers, FiniteSets

CONSTANTS
    Clients,    \* concurrent callers of the admin API, one request of each at a time
    ApiClients, \* those that hold PROXY_API_TOKEN
    Names,      \* proxy account names
    Passwords,  \* passwords of at least 12 characters
    Bootstrap,  \* PROXY_ADMIN_PASSWORD, which need not have them
    Levels,     \* log levels
    Default,    \* defaultProxyLogLevel
    Absent,     \* no account of a name
    NoFile,     \* no users file
    MaxFaults   \* bound on failed saves and crashes

ASSUME ClientsAssumption == ApiClients \subseteq Clients
ASSUME LevelAssumption == Default \in Levels
ASSUME BoundAssumption == MaxFaults \in Nat

VARIABLES
    server,     \* "up" or "down"
    mem,        \* userStore.state
    disk,       \* the users file
    active,     \* activeProxyLogLevel
    sessions,   \* clients with an admin session
    stage,      \* how far the request of each client is
    loaded,     \* the level a logging request has read back
    faults,     \* failures so far
    marks       \* history: what has happened (see Marks)

vars == <<server, mem, disk, active, sessions, stage, loaded, faults, marks>>

Account == [password : Passwords, disabled : BOOLEAN]

State == [admin : Passwords \union {Bootstrap}, mustChange : BOOLEAN, level : Levels,
          account : [Names -> Account \union {Absent}]]

ASSUME AbsentAssumption == Absent \notin Account
ASSUME NoFileAssumption == NoFile \notin State

Fresh == [admin |-> Bootstrap, mustChange |-> TRUE, level |-> Default,
          account |-> [n \in Names |-> Absent]]

\* "ahead": a save has failed after its rename, and none has worked since;
\* "rotated": a change of the admin password has been acknowledged;
\* "overlapped": a level was stored while another request was applying one.
Marks == {"ahead", "rotated", "overlapped"}

Stages == {"idle", "verified", "admitted", "rotating", "stored", "loaded"}

Up == server = "up"

TypeOK ==
    /\ server \in {"up", "down"}
    /\ mem \in State
    /\ disk \in State \union {NoFile}
    /\ active \in Levels
    /\ sessions \subseteq Clients
    /\ stage \in [Clients -> Stages]
    /\ loaded \in [Clients -> Levels]
    /\ faults \in 0..MaxFaults
    /\ marks \subseteq Marks
    /\ Up => disk # NoFile

\* The memory of a process that has not started is not looked at.
Down ==
    /\ server' = "down"
    /\ mem' = Fresh
    /\ active' = Default
    /\ sessions' = {}
    /\ stage' = [q \in Clients |-> "idle"]
    /\ loaded' = [q \in Clients |-> Default]
    /\ marks' = marks \intersect {"rotated"}

Init ==
    /\ server = "down"
    /\ mem = Fresh
    /\ disk = NoFile
    /\ active = Default
    /\ sessions = {}
    /\ stage = [q \in Clients |-> "idle"]
    /\ loaded = [q \in Clients |-> Default]
    /\ faults = 0
    /\ marks = {}

Fault == faults < MaxFaults /\ faults' = faults + 1

NoFault == faults' = faults

Goto(q, s) == stage' = [stage EXCEPT ![q] = s]

-----------------------------------------------------------------------------
(* Starting and stopping *)

\* Variant: the server starts although the save failed.
BootFreshUnsaved ==
    /\ ~Up
    /\ disk = NoFile
    /\ disk' \in {Fresh, NoFile}
    /\ server' = "up" /\ NoFault
    /\ UNCHANGED <<mem, active, sessions, stage, loaded, marks>>

\* openUserStore without a file creates the admin account from the environment.
BootFresh ==
    /\ ~Up
    /\ disk = NoFile
    /\ disk' = Fresh
    /\ \/ server' = "up" /\ NoFault
       \/ server' = "down" /\ Fault   \* the final Chmod fails: log.Fatalf
    /\ UNCHANGED <<mem, active, sessions, stage, loaded, marks>>

\* Variants: the environment's password is put back; the stored level is not applied.
BootStoredResets ==
    /\ ~Up
    /\ disk # NoFile
    /\ server' = "up"
    /\ mem' = [disk EXCEPT !.admin = Bootstrap, !.mustChange = TRUE]
    /\ disk' = mem'
    /\ active' = disk.level
    /\ NoFault
    /\ UNCHANGED <<sessions, stage, loaded, marks>>

BootStoredAtDefault ==
    /\ ~Up
    /\ disk # NoFile
    /\ server' = "up"
    /\ mem' = disk
    /\ NoFault
    /\ UNCHANGED <<disk, active, sessions, stage, loaded, marks>>

\* openUserStore loads the file, and main puts the stored level in force.
BootStored ==
    /\ ~Up
    /\ disk # NoFile
    /\ server' = "up"
    /\ mem' = disk
    /\ active' = disk.level
    /\ NoFault
    /\ UNCHANGED <<disk, sessions, stage, loaded, marks>>

Crash ==
    /\ Up
    /\ Down
    /\ Fault
    /\ UNCHANGED disk

-----------------------------------------------------------------------------
(* Admission *)

\* handleAdminLogin: authenticateAdmin accepts the password ...
LoginVerified(q) ==
    /\ Up
    /\ stage[q] = "idle"
    /\ Goto(q, "verified")
    /\ UNCHANGED <<server, mem, disk, active, sessions, loaded, faults, marks>>

\* ... and a session is created, whatever the password is by now.
LoginOpened(q) ==
    /\ stage[q] = "verified"
    /\ Goto(q, "idle")
    /\ sessions' = sessions \union {q}
    /\ UNCHANGED <<server, mem, disk, active, loaded, faults, marks>>

\* handleAdminLogout, or the end of the session's lifetime.
SessionEnds(q) ==
    /\ q \in sessions
    /\ sessions' = sessions \ {q}
    /\ UNCHANGED <<server, mem, disk, active, stage, loaded, faults, marks>>

\* Variant: the bootstrap password need not have been changed.
RequireAdminOnly(q) ==
    /\ Up
    /\ stage[q] = "idle"
    /\ q \in sessions \union ApiClients
    /\ Goto(q, "admitted")
    /\ UNCHANGED <<server, mem, disk, active, sessions, loaded, faults, marks>>

\* requireAdmin lets a request through.
RequireAdmin(q) ==
    /\ Up
    /\ stage[q] = "idle"
    /\ q \in sessions \union ApiClients
    /\ ~mem.mustChange
    /\ Goto(q, "admitted")
    /\ UNCHANGED <<server, mem, disk, active, sessions, loaded, faults, marks>>

\* handleAdminPassword finds the session.
RequireSession(q) ==
    /\ Up
    /\ stage[q] = "idle"
    /\ q \in sessions
    /\ Goto(q, "rotating")
    /\ UNCHANGED <<server, mem, disk, active, sessions, loaded, faults, marks>>

\* The request is refused, or changes nothing.
Refused(q) ==
    /\ stage[q] \in {"admitted", "rotating"}
    /\ Goto(q, "idle")
    /\ UNCHANGED <<server, mem, disk, active, sessions, loaded, faults, marks>>

-----------------------------------------------------------------------------
(* Changes: saveLocked writes `new', and a failure takes the change back *)

Saved(new) ==
    /\ mem' = new
    /\ disk' = new
    /\ NoFault
    /\ UNCHANGED <<server, active, sessions, loaded>>

\* Variant: memory keeps the change.
NotSavedKept(new) ==
    /\ mem' = new
    /\ disk' = disk
    /\ Fault
    /\ UNCHANGED <<server, active, sessions, loaded, marks>>

\* The save fails, before or after its rename.
NotSaved(new) ==
    /\ \/ disk' = disk /\ marks' = marks
       \/ disk' = new /\ marks' = marks \union {"ahead"}
    /\ Fault
    /\ UNCHANGED <<server, mem, active, sessions, loaded>>

\* The process ends after the rename.
CrashSaving(new) ==
    /\ disk' = new
    /\ Down
    /\ Fault

\* createProxyUser makes an account that is not disabled; updateProxyUser and
\* deleteProxyUser change one that exists.
Permitted(old, a) ==
    IF old = Absent THEN a \in [password : Passwords, disabled : {FALSE}]
                    ELSE a \in Account \union {Absent}

ChangeAccount(q) ==
    /\ stage[q] = "admitted"
    /\ \E n \in Names, a \in Account \union {Absent} :
          LET new == [mem EXCEPT !.account[n] = a]
          IN /\ Permitted(mem.account[n], a)
             /\ \/ Goto(q, "idle") /\ Saved(new) /\ marks' = marks \ {"ahead"}
                \/ Goto(q, "idle") /\ NotSaved(new)
                \/ CrashSaving(new)

\* changeAdminPassword; the new password may be the old one.
ChangeAdminPassword(q) ==
    /\ stage[q] = "rotating"
    /\ \E next \in Passwords :
          LET new == [mem EXCEPT !.admin = next, !.mustChange = FALSE]
          IN \/ Goto(q, "idle") /\ Saved(new) /\ marks' = (marks \ {"ahead"}) \union {"rotated"}
             \/ Goto(q, "idle") /\ NotSaved(new)
             \/ CrashSaving(new)

Applying == {q \in Clients : stage[q] \in {"stored", "loaded"}}

\* handleLoggingSettings: setLogLevel stores the level ...
StoreLevel(q) ==
    /\ stage[q] = "admitted"
    /\ \E level \in Levels :
          LET new == [mem EXCEPT !.level = level]
          IN \/ /\ Goto(q, "stored") /\ Saved(new)
                /\ marks' = (marks \ {"ahead"})
                               \union (IF Applying = {} THEN {} ELSE {"overlapped"})
             \/ Goto(q, "idle") /\ NotSaved(new)
             \/ CrashSaving(new)

\* ... logLevel reads it back ...
LoadLevel(q) ==
    /\ stage[q] = "stored"
    /\ Goto(q, "loaded")
    /\ loaded' = [loaded EXCEPT ![q] = mem.level]
    /\ UNCHANGED <<server, mem, disk, active, sessions, faults, marks>>

\* ... and setActiveProxyLogLevel puts it in force.
ApplyLevel(q) ==
    /\ stage[q] = "loaded"
    /\ Goto(q, "idle")
    /\ active' = loaded[q]
    /\ UNCHANGED <<server, mem, disk, sessions, loaded, faults, marks>>

-----------------------------------------------------------------------------

Next ==
    \/ BootFresh \/ BootStored \/ Crash
    \/ \E q \in Clients :
          \/ LoginVerified(q) \/ LoginOpened(q) \/ SessionEnds(q)
          \/ RequireAdmin(q) \/ RequireSession(q) \/ Refused(q)
          \/ ChangeAccount(q) \/ ChangeAdminPassword(q)
          \/ StoreLevel(q) \/ LoadLevel(q) \/ ApplyLevel(q)

Spec == Init /\ [][Next]_vars

-----------------------------------------------------------------------------
(* What one change may make of a state: of the admin password, or, once that *)
(* is not the bootstrap password any more, of an account or the level.       *)

Rotations(s) == {[s EXCEPT !.admin = next, !.mustChange = FALSE] : next \in Passwords}

AccountChanges(s) ==
    UNION {{[s EXCEPT !.account[n] = a] :
               a \in {a \in Account \union {Absent} : Permitted(s.account[n], a)}} : n \in Names}

LevelChanges(s) == {[s EXCEPT !.level = level] : level \in Levels}

Changes ==
    [s \in State |-> Rotations(s) \union
        (IF s.mustChange THEN {} ELSE AccountChanges(s) \union LevelChanges(s))]

Store == INSTANCE AccountStore WITH
    served <- IF Up THEN mem ELSE NoFile,
    kept <- disk

-----------------------------------------------------------------------------
(* Properties *)

\* A failed change is taken back whole: what the server acts on is what the file says,
\* unless a save failed after it had replaced the file.
MemoryIsDisk == Up => mem = disk \/ "ahead" \in marks

\* However requests overlap, saves fail and the process ends, an acknowledged change is in
\* memory and file and one that failed is not acted on; the file is at most the one change
\* ahead that failed last, and before the bootstrap password is changed there is no other.
ImplementsStore == Store!Spec

\* Until the bootstrap password is changed nothing else is, in memory or in the file,
\* however requests, failures and restarts interleave.
ChangesNeedRotation ==
    [][Up /\ mem.mustChange /\ Up' =>
          /\ mem'.account = mem.account /\ mem'.level = mem.level
          /\ disk'.account = disk.account /\ disk'.level = disk.level]_vars

\* Once a change of the admin password has been acknowledged, no failure and no restart
\* brings the bootstrap account back.
RotationIsFinal ==
    "rotated" \in marks => disk # NoFile /\ ~disk.mustChange /\ (Up => ~mem.mustChange)

\* The level in force is the stored one, unless a request stored a level while
\* another was between storing its own and putting it in force.
LevelAgrees ==
    Up /\ Applying = {} /\ "overlapped" \notin marks => active = mem.level
=============================================================================
