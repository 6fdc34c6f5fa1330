------------------------ MODULE ProxyExtensionProofs ------------------------
(***************************************************************************)
(* The safety properties of ProxyExtension for any number of pages and     *)
(* configurations.  Two invariants: Base holds however the handlers        *)
(* overlap, and gives the cleaning up and the disabled proxy; Calm says    *)
(* what each stage knows while nothing has come between, and gives the     *)
(* agreement of the settings.                                              *)
(***************************************************************************)
EXTENDS ProxyExtension, TLAPS

HasConfig == {"ask", "saving", "connect", "enable", "mark"} \union Testing

\* Who is connected, was connected, or is about to be has a saved configuration.
SavedFirst ==
    /\ connected = "on" => saved \in Configs
    /\ \A f \in Flows :
          /\ flow[f].stage \in HasConfig => flow[f].config \in Configs
          /\ flow[f].stage \in {"ask", "connect", "enable", "mark"} => flow[f].kind = "toggle"
          /\ flow[f].kind = "toggle" => saved \in Configs /\ flow[f].stage # "idle"
          /\ flow[f].was = "on" => saved \in Configs

\* The temporary credentials, and the URL they are for, belong to a test.
TemporaryOwned ==
    /\ temp # NoConfig => \E f \in Flows : flow[f].stage \in {"apply", "probe"}
    /\ url = "set" => \E f \in Flows : flow[f].stage = "probe"

\* A proxy without credentials belongs to a test, or the worker's start will clear it.
UnsavedOwned ==
    saved = NoConfig /\ faults = 0 /\ proxy # NoConfig =>
        \/ \E f \in Flows : flow[f].stage \in {"probe", "restore"}
        \/ boot \in {"read", "own", "clear"}

Base == TypeOK /\ SavedFirst /\ TemporaryOwned /\ UnsavedOwned

Mode == IF connected = "on" THEN saved ELSE NoConfig

\* The worker has the saved configuration, or is about to get it.
ConfComes == conf = saved \/ loaded = "no" \/ notice # NoConfig

OneFlow == \A f, g \in Flows : flow[f].stage # "idle" /\ flow[g].stage # "idle" => f = g

AllIdle == \A f \in Flows : flow[f].stage = "idle"

\* Nothing is under way: what SettingsAgree says, but for what is still on its way.
IdleAgrees == AllIdle => proxy = Mode /\ (connected = "on" => ConfComes)

\* The worker's start clears only what is, and stays, disconnected.
BootHarmless ==
    boot \in {"own", "clear", "mark"} =>
        connected = "off" /\ \A f \in Flows : flow[f].kind # "toggle"

\* What a test, or a save, knows of the settings.
TestKnowledge(f) ==
    /\ flow[f].stage \in {"ask", "read", "clear"} =>
          proxy = Mode /\ (connected = "on" => ConfComes)
    /\ flow[f].stage \in {"verify", "apply", "probe", "restore"} =>
          flow[f].was = connected /\ flow[f].prev = Mode /\ (connected = "on" => ConfComes)
    /\ flow[f].stage \in {"verify", "apply"} => proxy = Mode
    /\ flow[f].stage = "probe" /\ flow[f].was = "on" => proxy = flow[f].config
    /\ flow[f].stage = "restore" /\ flow[f].was = "on" => flow[f].passed = "no"
    /\ flow[f].stage = "saving" =>
          /\ proxy = IF connected = "on" THEN flow[f].config ELSE NoConfig
          /\ connected = "on" => ConfComes \/ conf = flow[f].config

TestKnows == \A f \in Flows : TestKnowledge(f)

\* What connecting and disconnecting know of them.
SwitchKnowledge(f) ==
    /\ flow[f].kind = "toggle" => connected = "off" /\ flow[f].config = saved
    /\ flow[f].stage \in {"connect", "enable", "unmark"} => proxy = NoConfig
    /\ flow[f].stage \in {"enable", "mark"} => conf = saved
    /\ flow[f].stage = "mark" => proxy = saved

SwitchKnows == \A f \in Flows : SwitchKnowledge(f)

Calm ==
    /\ notice # NoConfig => notice = saved
    /\ ~disturbed => OneFlow /\ IdleAgrees /\ BootHarmless /\ TestKnows /\ SwitchKnows

USE NoConfigAssumption, BoundAssumption
USE DEF Testing, Stages, Flow, NoFlow, At, Goto, Ends, Works, Fails, Begins, HasConfig,
        vars, browser, globals, startup, counts

-----------------------------------------------------------------------------
(* Base is inductive *)

\* It holds when the browser starts for the first time.
LEMMA BaseInit == Init => Base
<1> SUFFICES ASSUME Init PROVE Base
  OBVIOUS
<1>1. TypeOK
  <2>1. /\ flow \in [Flows -> Flow]
        /\ \A f \in Flows : flow[f].was = "on" => flow[f].prev \in Configs
    BY DEF Init
  <2>2. disturbed \in BOOLEAN
    BY DEF Init
  <2>3. faults \in 0..MaxFaults /\ restarts \in 0..MaxRestarts
    BY DEF Init
  <2> QED
    BY <2>1, <2>2, <2>3 DEF Init, TypeOK
<1>2. SavedFirst /\ TemporaryOwned /\ UnsavedOwned
  BY DEF Init, SavedFirst, TemporaryOwned, UnsavedOwned
<1> QED
  BY <1>1, <1>2 DEF Base

\* A page changes what it has under way.
LEMMA FlowBecomes ==
    ASSUME TypeOK, NEW f \in Flows, NEW new \in Flow, new.was = "on" => new.prev \in Configs,
           flow' = [flow EXCEPT ![f] = new]
    PROVE  /\ flow' \in [Flows -> Flow]
           /\ flow'[f] = new
           /\ \A g \in Flows : g # f => flow'[g] = flow[g]
           /\ \A g \in Flows : flow'[g].was = "on" => flow'[g].prev \in Configs
  BY DEF TypeOK

\* Base is preserved by finishTest, in whichever stage a test gets to it.
LEMMA BaseFinish ==
    ASSUME Base, NEW f \in Flows, NEW passed \in {"yes", "no"},
           flow[f].stage \in {"verify", "apply", "probe"}, Finish(f, passed),
           UNCHANGED <<browser, startup>>
    PROVE  Base'
<1>1. CASE passed = "yes" /\ flow[f].was = "on" /\ Continues(f)
  <2>1. TypeOK'
      <3>1. faults' \in 0..MaxFaults /\ restarts' \in 0..MaxRestarts
        BY <1>1 DEF Base, TypeOK, Finish, Passed, Continues
      <3>2. disturbed' \in BOOLEAN
        BY <1>1 DEF Base, TypeOK, Finish, Passed, Continues
      <3>3. /\ flow' \in [Flows -> Flow]
            /\ \A g \in Flows : flow'[g].was = "on" => flow'[g].prev \in Configs
        BY <1>1 DEF Base, TypeOK, SavedFirst, Finish, Passed, Continues
      <3> QED
        BY <1>1, <3>1, <3>2, <3>3 DEF Base, TypeOK, SavedFirst, Finish, Passed, Continues
  <2>2. SavedFirst'
    BY <1>1 DEF Base, TypeOK, SavedFirst, Finish, Passed, Continues
  <2>3. TemporaryOwned'
    BY <1>1 DEF Base, TypeOK, TemporaryOwned, Finish, Passed, Continues
  <2>4. UnsavedOwned'
    BY <1>1 DEF Base, TypeOK, SavedFirst, UnsavedOwned, Finish, Passed, Continues
  <2> QED
    BY <2>1, <2>2, <2>3, <2>4 DEF Base
<1>2. CASE passed = "yes" /\ flow[f].was = "on" /\ Ends(f)
  <2>1. TypeOK'
      <3>1. faults' \in 0..MaxFaults /\ restarts' \in 0..MaxRestarts
        BY <1>2 DEF Base, TypeOK, Finish, Passed
      <3>2. disturbed' \in BOOLEAN
        BY <1>2 DEF Base, TypeOK, Finish, Passed
      <3>3. /\ flow' \in [Flows -> Flow]
            /\ \A g \in Flows : flow'[g].was = "on" => flow'[g].prev \in Configs
        BY <1>2 DEF Base, TypeOK, SavedFirst, Finish, Passed
      <3> QED
        BY <1>2, <3>1, <3>2, <3>3 DEF Base, TypeOK, SavedFirst, Finish, Passed
  <2>2. SavedFirst'
    BY <1>2 DEF Base, TypeOK, SavedFirst, Finish, Passed
  <2>3. TemporaryOwned'
    BY <1>2 DEF Base, TypeOK, TemporaryOwned, Finish, Passed
  <2>4. UnsavedOwned'
    BY <1>2 DEF Base, TypeOK, SavedFirst, UnsavedOwned, Finish, Passed
  <2> QED
    BY <2>1, <2>2, <2>3, <2>4 DEF Base
<1>3. CASE ~(passed = "yes" /\ flow[f].was = "on")
  BY <1>3 DEF Base, TypeOK, SavedFirst, TemporaryOwned, UnsavedOwned, Finish
<1> QED
  BY <1>1, <1>2, <1>3 DEF Finish, Passed

\* Base is preserved when the proxy has been put back.
LEMMA BaseRestored ==
    ASSUME Base, NEW f \in Flows,
           Restored(f)
    PROVE  Base'
<1>1. CASE Continues(f)
  <2>1. TypeOK'
      <3>1. faults' \in 0..MaxFaults /\ restarts' \in 0..MaxRestarts
        BY <1>1 DEF Base, TypeOK, Restored, Before, Passed, Continues
      <3>2. disturbed' \in BOOLEAN
        BY <1>1 DEF Base, TypeOK, Restored, Before, Passed, Continues
      <3>3. /\ flow' \in [Flows -> Flow]
            /\ \A g \in Flows : flow'[g].was = "on" => flow'[g].prev \in Configs
        BY <1>1 DEF Base, TypeOK, SavedFirst, Restored, Before, Passed, Continues
      <3> QED
        BY <1>1, <3>1, <3>2, <3>3 DEF Base, TypeOK, SavedFirst, Restored, Before, Passed,
           Continues
  <2>2. SavedFirst'
    BY <1>1 DEF Base, TypeOK, SavedFirst, Restored, Before, Passed, Continues
  <2>3. TemporaryOwned'
    BY <1>1 DEF Base, TypeOK, TemporaryOwned, Restored, Before, Passed, Continues
  <2>4. UnsavedOwned'
    BY <1>1 DEF Base, TypeOK, SavedFirst, UnsavedOwned, Restored, Before, Passed, Continues
  <2> QED
    BY <2>1, <2>2, <2>3, <2>4 DEF Base
<1>2. CASE Ends(f)
  <2>1. TypeOK'
      <3>1. faults' \in 0..MaxFaults /\ restarts' \in 0..MaxRestarts
        BY <1>2 DEF Base, TypeOK, Restored, Before, Passed
      <3>2. disturbed' \in BOOLEAN
        BY <1>2 DEF Base, TypeOK, Restored, Before, Passed
      <3>3. /\ flow' \in [Flows -> Flow]
            /\ \A g \in Flows : flow'[g].was = "on" => flow'[g].prev \in Configs
        BY <1>2 DEF Base, TypeOK, SavedFirst, Restored, Before, Passed
      <3> QED
        BY <1>2, <3>1, <3>2, <3>3 DEF Base, TypeOK, SavedFirst, Restored, Before, Passed
  <2>2. SavedFirst'
    BY <1>2 DEF Base, TypeOK, SavedFirst, Restored, Before, Passed
  <2>3. TemporaryOwned'
    BY <1>2 DEF Base, TypeOK, TemporaryOwned, Restored, Before, Passed
  <2>4. UnsavedOwned'
    BY <1>2 DEF Base, TypeOK, SavedFirst, UnsavedOwned, Restored, Before, Passed
  <2> QED
    BY <2>1, <2>2, <2>3, <2>4 DEF Base
<1> QED
  BY <1>1, <1>2 DEF Restored, Passed

\* Base is preserved when it comes to starting the worker, to storage events and to restarts.
LEMMA BaseStart ==
    ASSUME Base,
           LoadStoredConfig \/ BootRead \/ BootOwn \/ BootUnreadable \/ BootClear \/
           BootMark \/ Restart \/ Notified
    PROVE  Base'
<1>1. CASE LoadStoredConfig
  <2>1. TypeOK'
      <3>1. faults' \in 0..MaxFaults /\ restarts' \in 0..MaxRestarts
        BY <1>1 DEF Base, TypeOK, LoadStoredConfig
      <3>2. disturbed' \in BOOLEAN
        BY <1>1 DEF Base, TypeOK, LoadStoredConfig
      <3>3. /\ flow' \in [Flows -> Flow]
            /\ \A g \in Flows : flow'[g].was = "on" => flow'[g].prev \in Configs
        BY <1>1 DEF Base, TypeOK, SavedFirst, LoadStoredConfig
      <3> QED
        BY <1>1, <3>1, <3>2, <3>3 DEF Base, TypeOK, SavedFirst, LoadStoredConfig
  <2>2. SavedFirst'
    BY <1>1 DEF Base, TypeOK, SavedFirst, LoadStoredConfig
  <2>3. TemporaryOwned'
    BY <1>1 DEF Base, TypeOK, TemporaryOwned, LoadStoredConfig
  <2>4. UnsavedOwned'
    BY <1>1 DEF Base, TypeOK, SavedFirst, UnsavedOwned, LoadStoredConfig
  <2> QED
    BY <2>1, <2>2, <2>3, <2>4 DEF Base
<1>2. CASE BootRead
  BY <1>2 DEF Base, TypeOK, SavedFirst, TemporaryOwned, UnsavedOwned, BootRead
<1>3. CASE BootOwn
  BY <1>3 DEF Base, TypeOK, SavedFirst, TemporaryOwned, UnsavedOwned, BootOwn
<1>4. CASE BootUnreadable
  BY <1>4 DEF Base, TypeOK, SavedFirst, TemporaryOwned, UnsavedOwned, BootUnreadable
<1>5. CASE BootClear
  <2>1. TypeOK'
      <3>1. faults' \in 0..MaxFaults /\ restarts' \in 0..MaxRestarts
        BY <1>5 DEF Base, TypeOK, BootClear
      <3>2. disturbed' \in BOOLEAN
        BY <1>5 DEF Base, TypeOK, BootClear
      <3>3. /\ flow' \in [Flows -> Flow]
            /\ \A g \in Flows : flow'[g].was = "on" => flow'[g].prev \in Configs
        BY <1>5 DEF Base, TypeOK, SavedFirst, BootClear
      <3> QED
        BY <1>5, <3>1, <3>2, <3>3 DEF Base, TypeOK, SavedFirst, BootClear
  <2>2. SavedFirst'
    BY <1>5 DEF Base, TypeOK, SavedFirst, BootClear
  <2>3. TemporaryOwned'
    BY <1>5 DEF Base, TypeOK, TemporaryOwned, BootClear
  <2>4. UnsavedOwned'
    BY <1>5 DEF Base, TypeOK, SavedFirst, UnsavedOwned, BootClear
  <2> QED
    BY <2>1, <2>2, <2>3, <2>4 DEF Base
<1>6. CASE BootMark
  <2>1. TypeOK'
      <3>1. faults' \in 0..MaxFaults /\ restarts' \in 0..MaxRestarts
        BY <1>6 DEF Base, TypeOK, BootMark
      <3>2. disturbed' \in BOOLEAN
        BY <1>6 DEF Base, TypeOK, BootMark
      <3>3. /\ flow' \in [Flows -> Flow]
            /\ \A g \in Flows : flow'[g].was = "on" => flow'[g].prev \in Configs
        BY <1>6 DEF Base, TypeOK, SavedFirst, BootMark
      <3> QED
        BY <1>6, <3>1, <3>2, <3>3 DEF Base, TypeOK, SavedFirst, BootMark
  <2>2. SavedFirst'
    BY <1>6 DEF Base, TypeOK, SavedFirst, BootMark
  <2>3. TemporaryOwned'
    BY <1>6 DEF Base, TypeOK, TemporaryOwned, BootMark
  <2>4. UnsavedOwned'
    BY <1>6 DEF Base, TypeOK, SavedFirst, UnsavedOwned, BootMark
  <2> QED
    BY <2>1, <2>2, <2>3, <2>4 DEF Base
<1>7. CASE Restart
  BY <1>7 DEF Base, TypeOK, SavedFirst, TemporaryOwned, UnsavedOwned, Restart
<1>8. CASE Notified
  BY <1>8 DEF Base, TypeOK, SavedFirst, TemporaryOwned, UnsavedOwned, Notified
<1> QED
  BY <1>1, <1>2, <1>3, <1>4, <1>5, <1>6, <1>7, <1>8

\* Base is preserved when what has been typed in is to be saved.
LEMMA BasePress ==
    ASSUME Base, NEW f \in Flows, NEW c \in Configs,
           PressSave(f, c)
    PROVE  Base'
<1>1. CASE PressSave(f, c)
  <2>1. TypeOK'
      <3>1. faults' \in 0..MaxFaults /\ restarts' \in 0..MaxRestarts
        BY <1>1 DEF Base, TypeOK, PressSave, TestBegins
      <3>2. disturbed' \in BOOLEAN
        BY <1>1 DEF Base, TypeOK, PressSave, TestBegins
      <3>3. /\ flow' \in [Flows -> Flow]
            /\ \A g \in Flows : flow'[g].was = "on" => flow'[g].prev \in Configs
        <4> DEFINE new == [NoFlow EXCEPT !.stage = "read", !.kind = "save", !.config = c]
        <4>0. /\ flow[f] \in Flow /\ connected \in {"on", "off"}
              /\ saved \in Configs \union {NoConfig} /\ (connected = "on" => saved \in Configs)
          BY DEF Base, TypeOK, SavedFirst
        <4>1. new \in Flow /\ (new.was = "on" => new.prev \in Configs)
          BY <4>0
        <4>2. flow' = [flow EXCEPT ![f] = new]
          BY <1>1 DEF PressSave, TestBegins
        <4> QED
          BY <4>1, <4>2, FlowBecomes DEF Base
      <3> QED
        BY <1>1, <3>1, <3>2, <3>3 DEF Base, TypeOK, SavedFirst, PressSave, TestBegins
  <2>2. SavedFirst'
    BY <1>1 DEF Base, TypeOK, SavedFirst, PressSave, TestBegins
  <2>3. TemporaryOwned'
    BY <1>1 DEF Base, TypeOK, TemporaryOwned, PressSave, TestBegins
  <2>4. UnsavedOwned'
    BY <1>1 DEF Base, TypeOK, SavedFirst, UnsavedOwned, PressSave, TestBegins
  <2> QED
    BY <2>1, <2>2, <2>3, <2>4 DEF Base
<1> QED
  BY <1>1

\* Base is preserved when a connection test goes on.
LEMMA BaseTest ==
    ASSUME Base, NEW f \in Flows,
           TestRead(f) \/ TestUnreadable(f) \/ VerifyAccepted(f) \/ Applied(f) \/
           NotRestored(f) \/ Save(f) \/ NotSaved(f)
    PROVE  Base'
<1>1. CASE TestRead(f)
  <2>1. TypeOK'
      <3>1. faults' \in 0..MaxFaults /\ restarts' \in 0..MaxRestarts
        BY <1>1 DEF Base, TypeOK, TestRead
      <3>2. disturbed' \in BOOLEAN
        BY <1>1 DEF Base, TypeOK, TestRead
      <3>3. /\ flow' \in [Flows -> Flow]
            /\ \A g \in Flows : flow'[g].was = "on" => flow'[g].prev \in Configs
        <4> DEFINE new == [flow[f] EXCEPT !.stage = "verify", !.was = connected,
                                !.prev = IF connected = "on" THEN saved ELSE NoConfig]
        <4>0. /\ flow[f] \in Flow /\ connected \in {"on", "off"}
              /\ saved \in Configs \union {NoConfig} /\ (connected = "on" => saved \in Configs)
          BY DEF Base, TypeOK, SavedFirst
        <4>1. new \in Flow /\ (new.was = "on" => new.prev \in Configs)
          BY <4>0
        <4>2. flow' = [flow EXCEPT ![f] = new]
          BY <1>1 DEF TestRead
        <4> QED
          BY <4>1, <4>2, FlowBecomes DEF Base
      <3> QED
        BY <1>1, <3>1, <3>2, <3>3 DEF Base, TypeOK, SavedFirst, TestRead
  <2>2. SavedFirst'
    BY <1>1 DEF Base, TypeOK, SavedFirst, TestRead
  <2>3. TemporaryOwned'
    BY <1>1 DEF Base, TypeOK, TemporaryOwned, TestRead
  <2>4. UnsavedOwned'
    BY <1>1 DEF Base, TypeOK, SavedFirst, UnsavedOwned, TestRead
  <2> QED
    BY <2>1, <2>2, <2>3, <2>4 DEF Base
<1>2. CASE TestUnreadable(f)
  BY <1>2 DEF Base, TypeOK, SavedFirst, TemporaryOwned, UnsavedOwned, TestUnreadable
<1>3. CASE VerifyAccepted(f)
  BY <1>3 DEF Base, TypeOK, SavedFirst, TemporaryOwned, UnsavedOwned, VerifyAccepted
<1>4. CASE Applied(f)
  BY <1>4 DEF Base, TypeOK, SavedFirst, TemporaryOwned, UnsavedOwned, Applied
<1>5. CASE NotRestored(f)
  BY <1>5 DEF Base, TypeOK, SavedFirst, TemporaryOwned, UnsavedOwned, NotRestored
<1>6. CASE Save(f)
  BY <1>6 DEF Base, TypeOK, SavedFirst, TemporaryOwned, UnsavedOwned, Save
<1>7. CASE NotSaved(f)
  BY <1>7 DEF Base, TypeOK, SavedFirst, TemporaryOwned, UnsavedOwned, NotSaved
<1> QED
  BY <1>1, <1>2, <1>3, <1>4, <1>5, <1>6, <1>7

\* Base is preserved when connecting and disconnecting begin or go on.
LEMMA BaseSwitch ==
    ASSUME Base, NEW f \in Flows,
           PressConnect(f) \/ PressDisconnect(f) \/ ConnectTest(f) \/ Connect(f) \/
           Enabled(f) \/ MarkedConnected(f) \/ Cleared(f) \/ MarkedDisconnected(f)
    PROVE  Base'
<1>1. CASE PressConnect(f)
  <2>1. TypeOK'
    BY <1>1 DEF Base, TypeOK, SavedFirst, PressConnect
  <2>2. SavedFirst'
    BY <1>1 DEF Base, TypeOK, SavedFirst, PressConnect
  <2>3. TemporaryOwned'
    BY <1>1 DEF Base, TypeOK, TemporaryOwned, PressConnect
  <2>4. UnsavedOwned'
    BY <1>1 DEF Base, TypeOK, SavedFirst, UnsavedOwned, PressConnect
  <2> QED
    BY <2>1, <2>2, <2>3, <2>4 DEF Base
<1>2. CASE PressDisconnect(f)
  BY <1>2 DEF Base, TypeOK, SavedFirst, TemporaryOwned, UnsavedOwned, PressDisconnect
<1>3. CASE ConnectTest(f)
  <2>1. TypeOK'
    BY <1>3 DEF Base, TypeOK, SavedFirst, ConnectTest, TestBegins
  <2>2. SavedFirst'
    BY <1>3 DEF Base, TypeOK, SavedFirst, ConnectTest, TestBegins
  <2>3. TemporaryOwned'
    BY <1>3 DEF Base, TypeOK, TemporaryOwned, ConnectTest, TestBegins
  <2>4. UnsavedOwned'
    BY <1>3 DEF Base, TypeOK, SavedFirst, UnsavedOwned, ConnectTest, TestBegins
  <2> QED
    BY <2>1, <2>2, <2>3, <2>4 DEF Base
<1>4. CASE Connect(f)
  BY <1>4 DEF Base, TypeOK, SavedFirst, TemporaryOwned, UnsavedOwned, Connect
<1>5. CASE Enabled(f)
  BY <1>5 DEF Base, TypeOK, SavedFirst, TemporaryOwned, UnsavedOwned, Enabled
<1>6. CASE MarkedConnected(f)
  <2>1. TypeOK'
      <3>1. faults' \in 0..MaxFaults /\ restarts' \in 0..MaxRestarts
        BY <1>6 DEF Base, TypeOK, MarkedConnected
      <3>2. disturbed' \in BOOLEAN
        BY <1>6 DEF Base, TypeOK, MarkedConnected
      <3>3. /\ flow' \in [Flows -> Flow]
            /\ \A g \in Flows : flow'[g].was = "on" => flow'[g].prev \in Configs
        BY <1>6 DEF Base, TypeOK, SavedFirst, MarkedConnected
      <3> QED
        BY <1>6, <3>1, <3>2, <3>3 DEF Base, TypeOK, SavedFirst, MarkedConnected
  <2>2. SavedFirst'
    BY <1>6 DEF Base, TypeOK, SavedFirst, MarkedConnected
  <2>3. TemporaryOwned'
    BY <1>6 DEF Base, TypeOK, TemporaryOwned, MarkedConnected
  <2>4. UnsavedOwned'
    BY <1>6 DEF Base, TypeOK, SavedFirst, UnsavedOwned, MarkedConnected
  <2> QED
    BY <2>1, <2>2, <2>3, <2>4 DEF Base
<1>7. CASE Cleared(f)
  BY <1>7 DEF Base, TypeOK, SavedFirst, TemporaryOwned, UnsavedOwned, Cleared
<1>8. CASE MarkedDisconnected(f)
  <2>1. TypeOK'
      <3>1. faults' \in 0..MaxFaults /\ restarts' \in 0..MaxRestarts
        BY <1>8 DEF Base, TypeOK, MarkedDisconnected
      <3>2. disturbed' \in BOOLEAN
        BY <1>8 DEF Base, TypeOK, MarkedDisconnected
      <3>3. /\ flow' \in [Flows -> Flow]
            /\ \A g \in Flows : flow'[g].was = "on" => flow'[g].prev \in Configs
        BY <1>8 DEF Base, TypeOK, SavedFirst, MarkedDisconnected
      <3> QED
        BY <1>8, <3>1, <3>2, <3>3 DEF Base, TypeOK, SavedFirst, MarkedDisconnected
  <2>2. SavedFirst'
    BY <1>8 DEF Base, TypeOK, SavedFirst, MarkedDisconnected
  <2>3. TemporaryOwned'
    BY <1>8 DEF Base, TypeOK, TemporaryOwned, MarkedDisconnected
  <2>4. UnsavedOwned'
    BY <1>8 DEF Base, TypeOK, SavedFirst, UnsavedOwned, MarkedDisconnected
  <2> QED
    BY <2>1, <2>2, <2>3, <2>4 DEF Base
<1> QED
  BY <1>1, <1>2, <1>3, <1>4, <1>5, <1>6, <1>7, <1>8

\* Base holds in every reachable state.
LEMMA BaseInvariant == Spec => []Base
<1>1. Base /\ [Next]_vars => Base'
  <2> SUFFICES ASSUME Base, [Next]_vars PROVE Base'
    OBVIOUS
  <2>1. CASE Starting \/ Restart \/ Notified
    BY <2>1, BaseStart DEF Starting
  <2>2. CASE \E f \in Flows : Test(f)
    BY <2>2, BaseTest, BaseFinish, BaseRestored DEF Test, VerifyRejected, NotApplied, Probed
  <2>3. CASE \E f \in Flows : Switch(f)
    BY <2>3, BaseSwitch DEF Switch
  <2>4. CASE \E f \in Flows : Press(f)
    BY <2>4, BasePress, BaseSwitch DEF Press
  <2>5. CASE UNCHANGED vars
    BY <2>5 DEF Base, TypeOK, SavedFirst, TemporaryOwned, UnsavedOwned
  <2> QED
    BY <2>1, <2>2, <2>3, <2>4, <2>5 DEF Next
<1> QED
  BY BaseInit, <1>1, PTL DEF Spec

-----------------------------------------------------------------------------
(* What Base gives *)

\* Every variable keeps its type; a test over a connected proxy knows what to put back.
THEOREM TypeCorrect == Spec => []TypeOK
<1>1. Base => TypeOK
  BY DEF Base
<1> QED
  BY <1>1, BaseInvariant, PTL

\* However tests overlap, fail or lose their page, none leaves its credentials behind.
THEOREM CleanUp == Spec => []TestsCleanUp
<1>1. Base => TestsCleanUp
  BY DEF Base, TypeOK, TemporaryOwned, TestsCleanUp
<1> QED
  BY <1>1, BaseInvariant, PTL

\* Without saved credentials the proxy is off once everything has ended, even after
\* restarts in the middle of tests.
THEOREM Disabled == Spec => []DisabledWithoutCredentials
<1>1. Base => DisabledWithoutCredentials
  BY DEF Base, TypeOK, SavedFirst, UnsavedOwned, DisabledWithoutCredentials, Quiet, Booted
<1> QED
  BY <1>1, BaseInvariant, PTL

-----------------------------------------------------------------------------
(* Calm is inductive, given Base *)

\* It holds when the browser starts for the first time.
LEMMA CalmInit == Init => Calm
  BY DEF Init, Calm, OneFlow, IdleAgrees, AllIdle, BootHarmless, TestKnows, TestKnowledge,
     SwitchKnows, SwitchKnowledge, Mode, ConfComes

\* Calm is preserved by finishTest, in whichever stage a test gets to it.
LEMMA CalmFinish ==
    ASSUME Base, Calm, NEW f \in Flows, NEW passed \in {"yes", "no"},
           flow[f].stage \in {"verify", "apply", "probe"},
           passed = "yes" => flow[f].stage = "probe", Finish(f, passed),
           UNCHANGED <<browser, startup>>
    PROVE  Calm'
<1>1. CASE passed = "yes" /\ flow[f].was = "on" /\ Continues(f)
  BY <1>1 DEF Base, TypeOK, SavedFirst, Calm, OneFlow, IdleAgrees, AllIdle, BootHarmless,
     TestKnows, TestKnowledge, SwitchKnows, SwitchKnowledge, Mode, ConfComes, Finish,
     Passed, Continues
<1>2. CASE passed = "yes" /\ flow[f].was = "on" /\ Ends(f)
  <2>1. notice' # NoConfig => notice' = saved'
    BY <1>2 DEF Base, TypeOK, Calm, Finish, Passed
  <2>2. ~disturbed' => OneFlow'
    BY <1>2 DEF Base, TypeOK, SavedFirst, Calm, OneFlow, Finish, Passed
  <2>3. ~disturbed' => IdleAgrees'
    <3> SUFFICES ASSUME ~disturbed' PROVE IdleAgrees'
      OBVIOUS
    <3>1. flow'[f].stage = "idle"
      BY <1>2 DEF Base, TypeOK
    <3>2. ~Continues(f)
      BY <3>1 DEF Base, TypeOK, Continues
    <3>3. ~disturbed /\ saved = flow[f].config
      BY <1>2, <3>2 DEF Finish, Passed
    <3>4. connected = "on" /\ proxy = flow[f].config
      BY <1>2, <3>3 DEF Calm, TestKnows, TestKnowledge
    <3> QED
      BY <1>2, <3>3, <3>4 DEF Finish, IdleAgrees, AllIdle, Mode, ConfComes
  <2>4. ~disturbed' => BootHarmless'
    BY <1>2 DEF Base, TypeOK, SavedFirst, Calm, BootHarmless, SwitchKnows, SwitchKnowledge,
       OneFlow, Finish, Passed
  <2>5. ~disturbed' => TestKnows'
    <3> SUFFICES ASSUME ~disturbed', NEW g \in Flows PROVE TestKnowledge(g)'
      BY DEF TestKnows
    <3>1. CASE g = f
      BY <1>2, <3>1 DEF Base, TypeOK, SavedFirst, Calm, OneFlow, IdleAgrees, AllIdle,
         BootHarmless, TestKnows, TestKnowledge, SwitchKnows, SwitchKnowledge, Mode,
         ConfComes, Finish, Passed
    <3>2. CASE g # f
      BY <1>2, <3>2 DEF Base, TypeOK, SavedFirst, Calm, OneFlow, IdleAgrees, AllIdle,
         BootHarmless, TestKnows, TestKnowledge, SwitchKnows, SwitchKnowledge, Mode,
         ConfComes, Finish, Passed
    <3> QED
      BY <3>1, <3>2
  <2>6. ~disturbed' => SwitchKnows'
    BY <1>2 DEF Base, TypeOK, SavedFirst, Calm, OneFlow, IdleAgrees, AllIdle, BootHarmless,
       TestKnows, TestKnowledge, SwitchKnows, SwitchKnowledge, Mode, ConfComes, Finish,
       Passed
  <2> QED
    BY <2>1, <2>2, <2>3, <2>4, <2>5, <2>6 DEF Calm
<1>3. CASE ~(passed = "yes" /\ flow[f].was = "on")
  BY <1>3 DEF Base, TypeOK, SavedFirst, Calm, OneFlow, IdleAgrees, AllIdle, BootHarmless,
     TestKnows, TestKnowledge, SwitchKnows, SwitchKnowledge, Mode, ConfComes, Finish
<1> QED
  BY <1>1, <1>2, <1>3 DEF Finish, Passed

\* Calm is preserved when the proxy has been put back.
LEMMA CalmRestored ==
    ASSUME Base, Calm, NEW f \in Flows,
           Restored(f)
    PROVE  Calm'
<1>1. CASE flow[f].passed = "yes" /\ Continues(f)
  BY <1>1 DEF Base, TypeOK, SavedFirst, Calm, OneFlow, IdleAgrees, AllIdle, BootHarmless,
     TestKnows, TestKnowledge, SwitchKnows, SwitchKnowledge, Mode, ConfComes, Restored,
     Before, Passed, Continues
<1>2. CASE Ends(f)
  BY <1>2 DEF Base, TypeOK, SavedFirst, Calm, OneFlow, IdleAgrees, AllIdle, BootHarmless,
     TestKnows, TestKnowledge, SwitchKnows, SwitchKnowledge, Mode, ConfComes, Restored,
     Before, Passed
<1> QED
  BY <1>1, <1>2 DEF Restored, Passed

\* Calm is preserved when it comes to starting the worker, to storage events and to restarts.
LEMMA CalmStart ==
    ASSUME Base, Calm,
           LoadStoredConfig \/ BootRead \/ BootOwn \/ BootUnreadable \/ BootClear \/
           BootMark \/ Restart \/ Notified
    PROVE  Calm'
<1>1. CASE LoadStoredConfig
  BY <1>1 DEF Base, TypeOK, SavedFirst, Calm, OneFlow, IdleAgrees, AllIdle, BootHarmless,
     TestKnows, TestKnowledge, SwitchKnows, SwitchKnowledge, Mode, ConfComes,
     LoadStoredConfig
<1>2. CASE BootRead
  BY <1>2 DEF Base, TypeOK, SavedFirst, Calm, OneFlow, IdleAgrees, AllIdle, BootHarmless,
     TestKnows, TestKnowledge, SwitchKnows, SwitchKnowledge, Mode, ConfComes, BootRead
<1>3. CASE BootOwn
  BY <1>3 DEF Base, TypeOK, SavedFirst, Calm, OneFlow, IdleAgrees, AllIdle, BootHarmless,
     TestKnows, TestKnowledge, SwitchKnows, SwitchKnowledge, Mode, ConfComes, BootOwn
<1>4. CASE BootUnreadable
  BY <1>4 DEF Base, TypeOK, SavedFirst, Calm, OneFlow, IdleAgrees, AllIdle, BootHarmless,
     TestKnows, TestKnowledge, SwitchKnows, SwitchKnowledge, Mode, ConfComes, BootUnreadable
<1>5. CASE BootClear
  BY <1>5 DEF Base, TypeOK, SavedFirst, Calm, OneFlow, IdleAgrees, AllIdle, BootHarmless,
     TestKnows, TestKnowledge, SwitchKnows, SwitchKnowledge, Mode, ConfComes, BootClear
<1>6. CASE BootMark
  BY <1>6 DEF Base, TypeOK, SavedFirst, Calm, OneFlow, IdleAgrees, AllIdle, BootHarmless,
     TestKnows, TestKnowledge, SwitchKnows, SwitchKnowledge, Mode, ConfComes, BootMark
<1>7. CASE Restart
  BY <1>7 DEF Base, TypeOK, SavedFirst, Calm, OneFlow, IdleAgrees, AllIdle, BootHarmless,
     TestKnows, TestKnowledge, SwitchKnows, SwitchKnowledge, Mode, ConfComes, Restart
<1>8. CASE Notified
  BY <1>8 DEF Base, TypeOK, SavedFirst, Calm, OneFlow, IdleAgrees, AllIdle, BootHarmless,
     TestKnows, TestKnowledge, SwitchKnows, SwitchKnowledge, Mode, ConfComes, Notified
<1> QED
  BY <1>1, <1>2, <1>3, <1>4, <1>5, <1>6, <1>7, <1>8

\* Calm is preserved when what has been typed in is to be saved.
LEMMA CalmPress ==
    ASSUME Base, Calm, NEW f \in Flows, NEW c \in Configs,
           PressSave(f, c)
    PROVE  Calm'
<1>1. CASE PressSave(f, c)
  <2>1. notice' # NoConfig => notice' = saved'
    BY <1>1 DEF Base, TypeOK, Calm, PressSave, TestBegins
  <2>7. flow'[f].stage = "read" /\ \A g \in Flows : g # f => flow'[g] = flow[g]
    BY <1>1 DEF Base, TypeOK, PressSave, TestBegins
  <2>8. ~disturbed' => ~disturbed /\ AllIdle
    BY <1>1 DEF PressSave, AllIdle
  <2>2. ~disturbed' => OneFlow'
    BY <2>7, <2>8 DEF OneFlow, AllIdle
  <2>3. ~disturbed' => IdleAgrees'
    BY <1>1 DEF Base, TypeOK, SavedFirst, Calm, OneFlow, IdleAgrees, AllIdle, BootHarmless,
       TestKnows, TestKnowledge, SwitchKnows, SwitchKnowledge, Mode, ConfComes, PressSave,
       TestBegins
  <2>4. ~disturbed' => BootHarmless'
    BY <1>1 DEF Base, TypeOK, SavedFirst, Calm, BootHarmless, SwitchKnows, SwitchKnowledge,
       OneFlow, PressSave, TestBegins
  <2>5. ~disturbed' => TestKnows'
    <3> SUFFICES ASSUME ~disturbed', NEW g \in Flows PROVE TestKnowledge(g)'
      BY DEF TestKnows
    <3>1. CASE g = f
      BY <1>1, <2>7, <2>8, <3>1 DEF Calm, IdleAgrees, PressSave, TestBegins, TestKnowledge,
         Mode, ConfComes
    <3>2. CASE g # f
      BY <1>1, <2>7, <2>8, <3>2 DEF AllIdle, TestKnowledge
    <3> QED
      BY <3>1, <3>2
  <2>6. ~disturbed' => SwitchKnows'
    BY <1>1 DEF Base, TypeOK, SavedFirst, Calm, OneFlow, IdleAgrees, AllIdle, BootHarmless,
       TestKnows, TestKnowledge, SwitchKnows, SwitchKnowledge, Mode, ConfComes, PressSave,
       TestBegins
  <2> QED
    BY <2>1, <2>2, <2>3, <2>4, <2>5, <2>6 DEF Calm
<1> QED
  BY <1>1

\* Calm is preserved when a connection test goes on.
LEMMA CalmTest ==
    ASSUME Base, Calm, NEW f \in Flows,
           TestRead(f) \/ TestUnreadable(f) \/ VerifyAccepted(f) \/ Applied(f) \/
           NotRestored(f) \/ Save(f) \/ NotSaved(f)
    PROVE  Calm'
<1>1. CASE TestRead(f)
  BY <1>1 DEF Base, TypeOK, SavedFirst, Calm, OneFlow, IdleAgrees, AllIdle, BootHarmless,
     TestKnows, TestKnowledge, SwitchKnows, SwitchKnowledge, Mode, ConfComes, TestRead
<1>2. CASE TestUnreadable(f)
  BY <1>2 DEF Base, TypeOK, SavedFirst, Calm, OneFlow, IdleAgrees, AllIdle, BootHarmless,
     TestKnows, TestKnowledge, SwitchKnows, SwitchKnowledge, Mode, ConfComes, TestUnreadable
<1>3. CASE VerifyAccepted(f)
  BY <1>3 DEF Base, TypeOK, SavedFirst, Calm, OneFlow, IdleAgrees, AllIdle, BootHarmless,
     TestKnows, TestKnowledge, SwitchKnows, SwitchKnowledge, Mode, ConfComes, VerifyAccepted
<1>4. CASE Applied(f)
  BY <1>4 DEF Base, TypeOK, SavedFirst, Calm, OneFlow, IdleAgrees, AllIdle, BootHarmless,
     TestKnows, TestKnowledge, SwitchKnows, SwitchKnowledge, Mode, ConfComes, Applied
<1>5. CASE NotRestored(f)
  BY <1>5 DEF Base, TypeOK, SavedFirst, Calm, OneFlow, IdleAgrees, AllIdle, BootHarmless,
     TestKnows, TestKnowledge, SwitchKnows, SwitchKnowledge, Mode, ConfComes, NotRestored
<1>6. CASE Save(f)
  BY <1>6 DEF Base, TypeOK, SavedFirst, Calm, OneFlow, IdleAgrees, AllIdle, BootHarmless,
     TestKnows, TestKnowledge, SwitchKnows, SwitchKnowledge, Mode, ConfComes, Save
<1>7. CASE NotSaved(f)
  BY <1>7 DEF Base, TypeOK, SavedFirst, Calm, OneFlow, IdleAgrees, AllIdle, BootHarmless,
     TestKnows, TestKnowledge, SwitchKnows, SwitchKnowledge, Mode, ConfComes, NotSaved
<1> QED
  BY <1>1, <1>2, <1>3, <1>4, <1>5, <1>6, <1>7

\* Calm is preserved when connecting and disconnecting begin or go on.
LEMMA CalmSwitch ==
    ASSUME Base, Calm, NEW f \in Flows,
           PressConnect(f) \/ PressDisconnect(f) \/ ConnectTest(f) \/ Connect(f) \/
           Enabled(f) \/ MarkedConnected(f) \/ Cleared(f) \/ MarkedDisconnected(f)
    PROVE  Calm'
<1>1. CASE PressConnect(f)
  <2>1. notice' # NoConfig => notice' = saved'
    BY <1>1 DEF Base, TypeOK, Calm, PressConnect
  <2>2. ~disturbed' => OneFlow'
    BY <1>1 DEF Base, TypeOK, SavedFirst, Calm, OneFlow, PressConnect
  <2>3. ~disturbed' => IdleAgrees'
    BY <1>1 DEF Base, TypeOK, SavedFirst, Calm, OneFlow, IdleAgrees, AllIdle, BootHarmless,
       TestKnows, TestKnowledge, SwitchKnows, SwitchKnowledge, Mode, ConfComes, PressConnect
  <2>4. ~disturbed' => BootHarmless'
    BY <1>1 DEF Base, TypeOK, SavedFirst, Calm, BootHarmless, SwitchKnows, SwitchKnowledge,
       OneFlow, PressConnect
  <2>5. ~disturbed' => TestKnows'
    BY <1>1 DEF Base, TypeOK, SavedFirst, Calm, OneFlow, IdleAgrees, AllIdle, BootHarmless,
       TestKnows, TestKnowledge, SwitchKnows, SwitchKnowledge, Mode, ConfComes, PressConnect
  <2>6. ~disturbed' => SwitchKnows'
    BY <1>1 DEF Base, TypeOK, SavedFirst, Calm, OneFlow, IdleAgrees, AllIdle, BootHarmless,
       TestKnows, TestKnowledge, SwitchKnows, SwitchKnowledge, Mode, ConfComes, PressConnect
  <2> QED
    BY <2>1, <2>2, <2>3, <2>4, <2>5, <2>6 DEF Calm
<1>2. CASE PressDisconnect(f)
  <2>1. notice' # NoConfig => notice' = saved'
    BY <1>2 DEF Base, TypeOK, Calm, PressDisconnect
  <2>2. ~disturbed' => OneFlow'
    BY <1>2 DEF Base, TypeOK, SavedFirst, Calm, OneFlow, PressDisconnect
  <2>3. ~disturbed' => IdleAgrees'
    BY <1>2 DEF Base, TypeOK, SavedFirst, Calm, OneFlow, IdleAgrees, AllIdle, BootHarmless,
       TestKnows, TestKnowledge, SwitchKnows, SwitchKnowledge, Mode, ConfComes,
       PressDisconnect
  <2>4. ~disturbed' => BootHarmless'
    BY <1>2 DEF Base, TypeOK, SavedFirst, Calm, BootHarmless, SwitchKnows, SwitchKnowledge,
       OneFlow, PressDisconnect
  <2>5. ~disturbed' => TestKnows'
    BY <1>2 DEF Base, TypeOK, SavedFirst, Calm, OneFlow, IdleAgrees, AllIdle, BootHarmless,
       TestKnows, TestKnowledge, SwitchKnows, SwitchKnowledge, Mode, ConfComes,
       PressDisconnect
  <2>6. ~disturbed' => SwitchKnows'
    BY <1>2 DEF Base, TypeOK, SavedFirst, Calm, OneFlow, IdleAgrees, AllIdle, BootHarmless,
       TestKnows, TestKnowledge, SwitchKnows, SwitchKnowledge, Mode, ConfComes,
       PressDisconnect
  <2> QED
    BY <2>1, <2>2, <2>3, <2>4, <2>5, <2>6 DEF Calm
<1>3. CASE ConnectTest(f)
  BY <1>3 DEF Base, TypeOK, SavedFirst, Calm, OneFlow, IdleAgrees, AllIdle, BootHarmless,
     TestKnows, TestKnowledge, SwitchKnows, SwitchKnowledge, Mode, ConfComes, ConnectTest,
     TestBegins
<1>4. CASE Connect(f)
  BY <1>4 DEF Base, TypeOK, SavedFirst, Calm, OneFlow, IdleAgrees, AllIdle, BootHarmless,
     TestKnows, TestKnowledge, SwitchKnows, SwitchKnowledge, Mode, ConfComes, Connect
<1>5. CASE Enabled(f)
  BY <1>5 DEF Base, TypeOK, SavedFirst, Calm, OneFlow, IdleAgrees, AllIdle, BootHarmless,
     TestKnows, TestKnowledge, SwitchKnows, SwitchKnowledge, Mode, ConfComes, Enabled
<1>6. CASE MarkedConnected(f)
  <2>1. notice' # NoConfig => notice' = saved'
    BY <1>6 DEF Base, TypeOK, Calm, MarkedConnected
  <2>2. ~disturbed' => OneFlow'
    BY <1>6 DEF Base, TypeOK, SavedFirst, Calm, OneFlow, MarkedConnected
  <2>3. ~disturbed' => IdleAgrees'
    BY <1>6 DEF Base, TypeOK, SavedFirst, Calm, OneFlow, IdleAgrees, AllIdle, BootHarmless,
       TestKnows, TestKnowledge, SwitchKnows, SwitchKnowledge, Mode, ConfComes,
       MarkedConnected
  <2>4. ~disturbed' => BootHarmless'
    BY <1>6 DEF Base, TypeOK, SavedFirst, Calm, BootHarmless, SwitchKnows, SwitchKnowledge,
       OneFlow, MarkedConnected
  <2>5. ~disturbed' => TestKnows'
    BY <1>6 DEF Base, TypeOK, SavedFirst, Calm, OneFlow, IdleAgrees, AllIdle, BootHarmless,
       TestKnows, TestKnowledge, SwitchKnows, SwitchKnowledge, Mode, ConfComes,
       MarkedConnected
  <2>6. ~disturbed' => SwitchKnows'
    BY <1>6 DEF Base, TypeOK, SavedFirst, Calm, OneFlow, IdleAgrees, AllIdle, BootHarmless,
       TestKnows, TestKnowledge, SwitchKnows, SwitchKnowledge, Mode, ConfComes,
       MarkedConnected
  <2> QED
    BY <2>1, <2>2, <2>3, <2>4, <2>5, <2>6 DEF Calm
<1>7. CASE Cleared(f)
  BY <1>7 DEF Base, TypeOK, SavedFirst, Calm, OneFlow, IdleAgrees, AllIdle, BootHarmless,
     TestKnows, TestKnowledge, SwitchKnows, SwitchKnowledge, Mode, ConfComes, Cleared
<1>8. CASE MarkedDisconnected(f)
  <2>1. notice' # NoConfig => notice' = saved'
    BY <1>8 DEF Base, TypeOK, Calm, MarkedDisconnected
  <2>2. ~disturbed' => OneFlow'
    BY <1>8 DEF Base, TypeOK, SavedFirst, Calm, OneFlow, MarkedDisconnected
  <2>3. ~disturbed' => IdleAgrees'
    BY <1>8 DEF Base, TypeOK, SavedFirst, Calm, OneFlow, IdleAgrees, AllIdle, BootHarmless,
       TestKnows, TestKnowledge, SwitchKnows, SwitchKnowledge, Mode, ConfComes,
       MarkedDisconnected
  <2>4. ~disturbed' => BootHarmless'
    BY <1>8 DEF Base, TypeOK, SavedFirst, Calm, BootHarmless, SwitchKnows, SwitchKnowledge,
       OneFlow, MarkedDisconnected
  <2>5. ~disturbed' => TestKnows'
    BY <1>8 DEF Base, TypeOK, SavedFirst, Calm, OneFlow, IdleAgrees, AllIdle, BootHarmless,
       TestKnows, TestKnowledge, SwitchKnows, SwitchKnowledge, Mode, ConfComes,
       MarkedDisconnected
  <2>6. ~disturbed' => SwitchKnows'
    BY <1>8 DEF Base, TypeOK, SavedFirst, Calm, OneFlow, IdleAgrees, AllIdle, BootHarmless,
       TestKnows, TestKnowledge, SwitchKnows, SwitchKnowledge, Mode, ConfComes,
       MarkedDisconnected
  <2> QED
    BY <2>1, <2>2, <2>3, <2>4, <2>5, <2>6 DEF Calm
<1> QED
  BY <1>1, <1>2, <1>3, <1>4, <1>5, <1>6, <1>7, <1>8

\* Both invariants hold in every reachable state.
LEMMA CalmInvariant == Spec => [](Base /\ Calm)
<1>1. Base /\ Calm /\ [Next]_vars => Calm'
  <2> SUFFICES ASSUME Base, Calm, [Next]_vars PROVE Calm'
    OBVIOUS
  <2>1. CASE Starting \/ Restart \/ Notified
    BY <2>1, CalmStart DEF Starting
  <2>2. CASE \E f \in Flows : Test(f)
    BY <2>2, CalmTest, CalmFinish, CalmRestored DEF Test, VerifyRejected, NotApplied, Probed
  <2>3. CASE \E f \in Flows : Switch(f)
    BY <2>3, CalmSwitch DEF Switch
  <2>4. CASE \E f \in Flows : Press(f)
    BY <2>4, CalmPress, CalmSwitch DEF Press
  <2>5. CASE UNCHANGED vars
    BY <2>5 DEF Calm, OneFlow, IdleAgrees, AllIdle, BootHarmless, TestKnows, TestKnowledge,
     SwitchKnows, SwitchKnowledge, Mode, ConfComes
  <2> QED
    BY <2>1, <2>2, <2>3, <2>4, <2>5 DEF Next
<1> QED
  BY CalmInit, BaseInvariant, <1>1, PTL DEF Spec

\* While pages act one at a time and nothing comes between, the browser's setting and the
\* worker's globals are what the flag and the saved configuration say whenever nothing is
\* under way.
THEOREM Agreement == Spec => []SettingsAgree
<1>1. Base /\ Calm => SettingsAgree
  BY DEF Base, TypeOK, Calm, IdleAgrees, AllIdle, Mode, ConfComes, SettingsAgree, Quiet, Booted
<1> QED
  BY <1>1, CalmInvariant, PTL

=============================================================================
