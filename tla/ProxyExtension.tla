--------------------------- MODULE ProxyExtension ---------------------------
(***************************************************************************)
(* The browser extension of addons/proxy-extension: a service worker       *)
(* (background.js), its popup (popup.js) and its error page (error.js).    *)
(*                                                                         *)
(* The worker is single-threaded, but every call of chrome.storage,        *)
(* chrome.proxy and fetch completes later, so the handlers of several      *)
(* messages interleave at each callback.  They share the worker's globals, *)
(* the stored settings and the browser's proxy setting.  Popups of several *)
(* windows, both buttons of one popup, and error pages send messages at    *)
(* the same time; a popup that is closed no longer acts on the response.   *)
(*                                                                         *)
(* A configuration (host, port, username, password) is one value: the      *)
(* popup reads and writes it whole, and no two agree in a field.  The icon *)
(* follows the stored flag.                                                *)
(***************************************************************************)
EXTENDS Integers, FiniteSets

CONSTANTS
    Flows,       \* what pages have under way, one button press each at a time
    Configs,     \* complete configurations
    NoConfig,    \* none: no proxy, nothing stored, null, or no credentials
    MaxFaults,   \* bound on failing calls of the browser's API
    MaxRestarts  \* bound on restarts of the browser or the worker

ASSUME NoConfigAssumption == NoConfig \notin Configs
ASSUME BoundAssumption == MaxFaults \in Nat /\ MaxRestarts \in Nat

VARIABLES
    (* the browser *)
    proxy,     \* the proxy setting
    connected, \* storage: "on" when connected is true
    saved,     \* storage: proxyHost, proxyPort, proxyUser, proxyPass
    notice,    \* a change of `saved' that onChanged has not delivered
    (* the worker's globals *)
    conf,      \* proxyConfig
    temp,      \* testCredentials
    url,       \* testRequestURL: "null" or "set"
    boot,      \* how far clearProxyWithoutCredentials is
    bootFlag,  \* the flag it has read
    loaded,    \* whether loadStoredConfig has run: "yes" or "no"
    (* the handlers and the pages that wait for them *)
    flow,
    (* for the model only *)
    faults,
    restarts,
    disturbed  \* history: something has come between (see below)

browser == <<proxy, connected, saved, notice>>
startup == <<boot, bootFlag, loaded>>
globals == <<conf, temp, url>>
counts == <<faults, restarts, disturbed>>
vars == <<browser, globals, startup, flow, counts>>

\* What can come between and leave the setting, the flag and the worker's globals apart:
\* a page that acts while another, or the clearing of a proxy without credentials, is under
\* way; a restart with any of these under way; a failing call that nothing makes up for;
\* and a page that is closed, or fails, before it saves what it has tested over a connected
\* proxy, so that the tested configuration stays in force unsaved.
Testing == {"read", "verify", "apply", "probe", "restore"}
Stages ==
    Testing \union {"idle", "ask", "saving", "connect", "enable", "mark", "clear", "unmark"}

Flow == [stage : Stages, kind : {"save", "toggle"}, config : Configs \union {NoConfig},
         was : {"on", "off"}, prev : Configs \union {NoConfig}, passed : {"yes", "no"}]

NoFlow == [stage |-> "idle", kind |-> "save", config |-> NoConfig,
           was |-> "off", prev |-> NoConfig, passed |-> "no"]

TypeOK ==
    /\ proxy \in Configs \union {NoConfig}
    /\ connected \in {"on", "off"}
    /\ saved \in Configs \union {NoConfig}
    /\ notice \in Configs \union {NoConfig}
    /\ conf \in Configs \union {NoConfig}
    /\ temp \in Configs \union {NoConfig}
    /\ url \in {"null", "set"}
    /\ boot \in {"read", "own", "clear", "mark", "done"}
    /\ bootFlag \in {"on", "off"}
    /\ loaded \in {"yes", "no"}
    /\ flow \in [Flows -> Flow]
    /\ faults \in 0..MaxFaults
    /\ restarts \in 0..MaxRestarts
    /\ disturbed \in BOOLEAN
    /\ \A f \in Flows : flow[f].was = "on" => flow[f].prev \in Configs

Init ==
    /\ proxy = NoConfig /\ connected = "off" /\ saved = NoConfig /\ notice = NoConfig
    /\ conf = NoConfig /\ temp = NoConfig /\ url = "null"
    /\ boot = "read" /\ bootFlag = "off" /\ loaded = "no"
    /\ flow = [f \in Flows |-> NoFlow]
    /\ faults = 0 /\ restarts = 0 /\ disturbed = FALSE

At(f, stage) == flow[f].stage = stage

Goto(f, stage) == flow' = [flow EXCEPT ![f].stage = stage]

Ends(f) == flow' = [flow EXCEPT ![f] = NoFlow]

Works == UNCHANGED counts

Fails(harm) ==
    /\ faults < MaxFaults
    /\ faults' = faults + 1
    /\ disturbed' = (disturbed \/ harm)
    /\ UNCHANGED restarts

Booted == boot = "done" /\ loaded = "yes"

\* A page presses a button.
Begins(f) ==
    /\ At(f, "idle")
    /\ disturbed' = (disturbed \/ boot \notin {"read", "done"} \/ \E g \in Flows : ~At(g, "idle"))
    /\ UNCHANGED <<faults, restarts>>

-----------------------------------------------------------------------------
(* The worker starts: loadStoredConfig and clearProxyWithoutCredentials *)

LoadStoredConfig ==
    /\ loaded = "no"
    /\ loaded' = "yes"
    /\ \/ conf' = (IF saved # NoConfig THEN saved ELSE conf) /\ Works
       \/ conf' = conf /\ Fails(TRUE)
    /\ UNCHANGED <<browser, temp, url, boot, bootFlag, flow>>

\* With credentials in storage there is nothing to clear.
BootRead ==
    /\ boot = "read"
    /\ boot' = IF saved # NoConfig THEN "done" ELSE "own"
    /\ bootFlag' = connected
    /\ Works
    /\ UNCHANGED <<browser, globals, loaded, flow>>

\* Variant: only the flag is looked at.
BootOwnByFlag ==
    /\ boot = "own"
    /\ boot' = IF bootFlag = "off" THEN "done" ELSE "clear"
    /\ Works
    /\ UNCHANGED <<browser, globals, bootFlag, loaded, flow>>

\* Neither connected nor in control of the proxy: nothing to clear either.
BootOwn ==
    /\ boot = "own"
    /\ boot' = IF bootFlag = "off" /\ proxy = NoConfig THEN "done" ELSE "clear"
    /\ Works
    /\ UNCHANGED <<browser, globals, bootFlag, loaded, flow>>

\* Storage, or the proxy setting, cannot be read: nothing is cleared.
BootUnreadable ==
    /\ boot \in {"read", "own"}
    /\ boot' = "done"
    /\ Fails(TRUE)
    /\ UNCHANGED <<browser, globals, bootFlag, loaded, flow>>

BootClear ==
    /\ boot = "clear"
    /\ \/ boot' = "mark" /\ proxy' = NoConfig /\ Works
       \/ boot' = "done" /\ proxy' = proxy /\ Fails(TRUE)
    /\ UNCHANGED <<connected, saved, notice, globals, bootFlag, loaded, flow>>

BootMark ==
    /\ boot = "mark"
    /\ boot' = "done"
    /\ \/ connected' = "off" /\ Works
       \/ connected' = connected /\ Fails(TRUE)
    /\ UNCHANGED <<proxy, saved, notice, globals, bootFlag, loaded, flow>>

\* The browser, or only the worker, ends and comes back: storage and the proxy setting
\* are kept.
Restart ==
    /\ restarts < MaxRestarts
    /\ restarts' = restarts + 1
    /\ disturbed' = (disturbed \/ boot \notin {"read", "done"} \/ \E f \in Flows : ~At(f, "idle"))
    /\ conf' = NoConfig /\ temp' = NoConfig /\ url' = "null"
    /\ boot' = "read" /\ bootFlag' = "off" /\ loaded' = "no"
    /\ flow' = [f \in Flows |-> NoFlow]
    /\ notice' = NoConfig
    /\ UNCHANGED <<proxy, connected, saved, faults>>

\* onChanged.
Notified ==
    /\ notice # NoConfig
    /\ conf' = notice
    /\ notice' = NoConfig
    /\ Works
    /\ UNCHANGED <<proxy, connected, saved, temp, url, startup, flow>>

-----------------------------------------------------------------------------
(* test-connection *)

\* The message arrives: globals of the test are reset, storage is asked.
TestBegins(f, kind, c) ==
    /\ flow' = [flow EXCEPT ![f] =
          [NoFlow EXCEPT !.stage = "read", !.kind = kind, !.config = c]]
    /\ temp' = NoConfig
    /\ url' = "null"

\* The save button tests what has been typed in.
PressSave(f, c) ==
    /\ Begins(f)
    /\ TestBegins(f, "save", c)
    /\ UNCHANGED <<browser, conf, startup>>

\* Variant: the previous configuration comes from the worker's globals.
TestReadGlobals(f) ==
    /\ At(f, "read")
    /\ flow' = [flow EXCEPT ![f] =
          [@ EXCEPT !.stage = "verify", !.was = connected,
                    !.prev = IF connected = "on" THEN conf ELSE NoConfig]]
    /\ Works
    /\ UNCHANGED <<browser, globals, startup>>

\* wasConnected and previousConfig.
TestRead(f) ==
    /\ At(f, "read")
    /\ flow' = [flow EXCEPT ![f] =
          [@ EXCEPT !.stage = "verify", !.was = connected,
                    !.prev = IF connected = "on" THEN saved ELSE NoConfig]]
    /\ Works
    /\ UNCHANGED <<browser, globals, startup>>

TestUnreadable(f) ==
    /\ At(f, "read")
    /\ Ends(f)
    /\ temp' = NoConfig
    /\ Fails(FALSE)
    /\ UNCHANGED <<browser, conf, url, startup>>

\* The page saves what it has tested, or asks to connect.
Continues(f) ==
    flow' = [flow EXCEPT ![f] =
        [NoFlow EXCEPT !.stage = IF flow[f].kind = "save" THEN "saving" ELSE "connect",
                       !.kind = flow[f].kind, !.config = flow[f].config]]

\* What a good result leads to; the page may be closed by now.
Passed(f) ==
    \/ Continues(f) /\ Works
    \/ /\ Ends(f)
       /\ disturbed' = (disturbed \/ (flow[f].was = "on" /\ saved # flow[f].config))
       /\ UNCHANGED <<faults, restarts>>

\* Variant: a test that passed keeps its credentials.
FinishKeeping(f, passed) ==
    /\ temp' = IF passed = "yes" /\ flow[f].was = "on" THEN temp ELSE NoConfig
    /\ url' = "null"
    /\ IF passed = "yes" /\ flow[f].was = "on"
       THEN conf' = flow[f].config /\ Passed(f)
       ELSE /\ conf' = IF flow[f].was = "on" THEN flow[f].prev ELSE conf
            /\ flow' = [flow EXCEPT ![f].stage = "restore", ![f].passed = passed]
            /\ Works

\* finishTest: a configuration that passed stays in force if the proxy was connected;
\* otherwise what was there before is put back.
Finish(f, passed) ==
    /\ temp' = NoConfig
    /\ url' = "null"
    /\ IF passed = "yes" /\ flow[f].was = "on"
       THEN conf' = flow[f].config /\ Passed(f)
       ELSE /\ conf' = IF flow[f].was = "on" THEN flow[f].prev ELSE conf
            /\ flow' = [flow EXCEPT ![f].stage = "restore", ![f].passed = passed]
            /\ Works

\* verifyProxyCredentials answers, or is aborted after five seconds.
VerifyAccepted(f) ==
    /\ At(f, "verify")
    /\ temp' = flow[f].config
    /\ Goto(f, "apply")
    /\ Works
    /\ UNCHANGED <<browser, conf, url, startup>>

VerifyRejected(f) ==
    /\ At(f, "verify")
    /\ Finish(f, "no")
    /\ UNCHANGED <<browser, startup>>

\* applyProxy: the request through the proxy is sent.
Applied(f) ==
    /\ At(f, "apply")
    /\ proxy' = flow[f].config
    /\ url' = "set"
    /\ Goto(f, "probe")
    /\ Works
    /\ UNCHANGED <<connected, saved, notice, conf, temp, startup>>

\* The proxy setting is refused.  (This is no fault of its own: the test ends as one
\* whose request failed.)
NotApplied(f) ==
    /\ At(f, "apply")
    /\ Finish(f, "no")
    /\ UNCHANGED <<browser, startup>>

\* The request is answered, fails, or is aborted after six seconds.
Probed(f) ==
    /\ At(f, "probe")
    /\ \E passed \in {"yes", "no"} : Finish(f, passed)
    /\ UNCHANGED <<browser, startup>>

Before(f) == IF flow[f].was = "on" THEN flow[f].prev ELSE NoConfig

\* Variant: the proxy is cleared whatever was there.
RestoredOff(f) ==
    /\ At(f, "restore")
    /\ temp' = NoConfig /\ url' = "null"
    /\ proxy' = NoConfig
    /\ IF flow[f].passed = "yes" THEN Passed(f) ELSE Ends(f) /\ Works
    /\ UNCHANGED <<connected, saved, notice, conf, startup>>

\* restoreComplete.
Restored(f) ==
    /\ At(f, "restore")
    /\ temp' = NoConfig /\ url' = "null"
    /\ proxy' = Before(f)
    /\ IF flow[f].passed = "yes" THEN Passed(f) ELSE Ends(f) /\ Works
    /\ UNCHANGED <<connected, saved, notice, conf, startup>>

NotRestored(f) ==
    /\ At(f, "restore")
    /\ temp' = NoConfig /\ url' = "null"
    /\ Ends(f)
    /\ Fails(TRUE)
    /\ UNCHANGED <<browser, conf, startup>>

\* saveProxySettings stores what was tested; onChanged reports a change to the worker.
\* (A second change waits until the first has been reported.)
Save(f) ==
    /\ At(f, "saving")
    /\ notice = NoConfig
    /\ saved' = flow[f].config
    /\ notice' = IF saved' # saved THEN saved' ELSE NoConfig
    /\ Ends(f)
    /\ Works
    /\ UNCHANGED <<proxy, connected, globals, startup>>

NotSaved(f) ==
    /\ At(f, "saving")
    /\ Ends(f)
    /\ Fails(TRUE)
    /\ UNCHANGED <<browser, globals, startup>>

-----------------------------------------------------------------------------
(* connect and disconnect *)

\* The button of a popup that finds the flag off: it asks for a test of what is stored.
PressConnect(f) ==
    /\ connected = "off"
    /\ saved # NoConfig
    /\ Begins(f)
    /\ flow' = [flow EXCEPT ![f] =
          [NoFlow EXCEPT !.stage = "ask", !.kind = "toggle", !.config = saved]]
    /\ UNCHANGED <<browser, globals, startup>>

ConnectTest(f) ==
    /\ At(f, "ask")
    /\ TestBegins(f, "toggle", flow[f].config)
    /\ Works
    /\ UNCHANGED <<browser, conf, startup>>

\* The test has passed: the connect message.
Connect(f) ==
    /\ At(f, "connect")
    /\ conf' = flow[f].config
    /\ Goto(f, "enable")
    /\ Works
    /\ UNCHANGED <<browser, temp, url, startup>>

Enabled(f) ==
    /\ At(f, "enable")
    /\ \/ proxy' = flow[f].config /\ Goto(f, "mark")
       \/ proxy' = proxy /\ Ends(f)
    /\ Works
    /\ UNCHANGED <<connected, saved, notice, globals, startup>>

MarkedConnected(f) ==
    /\ At(f, "mark")
    /\ Ends(f)
    /\ \/ connected' = "on" /\ Works
       \/ connected' = connected /\ Fails(TRUE)
    /\ UNCHANGED <<proxy, saved, notice, globals, startup>>

\* A popup that reads the flag, or an error page, sends the disconnect message.
PressDisconnect(f) ==
    /\ Begins(f)
    /\ flow' = [flow EXCEPT ![f] = [NoFlow EXCEPT !.stage = "clear"]]
    /\ UNCHANGED <<browser, globals, startup>>

Cleared(f) ==
    /\ At(f, "clear")
    /\ \/ proxy' = NoConfig /\ Goto(f, "unmark")
       \/ proxy' = proxy /\ Ends(f)
    /\ Works
    /\ UNCHANGED <<connected, saved, notice, globals, startup>>

\* The flag is cleared; the request to the server that follows changes nothing here.
MarkedDisconnected(f) ==
    /\ At(f, "unmark")
    /\ Ends(f)
    /\ \/ connected' = "off" /\ Works
       \/ connected' = connected /\ Fails(TRUE)
    /\ UNCHANGED <<proxy, saved, notice, globals, startup>>

-----------------------------------------------------------------------------

Starting == LoadStoredConfig \/ BootRead \/ BootOwn \/ BootUnreadable \/ BootClear \/ BootMark

Test(f) ==
    \/ TestRead(f) \/ TestUnreadable(f) \/ VerifyAccepted(f) \/ VerifyRejected(f)
    \/ Applied(f) \/ NotApplied(f) \/ Probed(f) \/ Restored(f) \/ NotRestored(f)
    \/ Save(f) \/ NotSaved(f)

Switch(f) ==
    \/ ConnectTest(f) \/ Connect(f) \/ Enabled(f) \/ MarkedConnected(f)
    \/ Cleared(f) \/ MarkedDisconnected(f)

Press(f) == PressConnect(f) \/ PressDisconnect(f) \/ \E c \in Configs : PressSave(f, c)

Next ==
    \/ Starting \/ Restart \/ Notified
    \/ \E f \in Flows : Test(f) \/ Switch(f) \/ Press(f)

Spec == Init /\ [][Next]_vars

-----------------------------------------------------------------------------
(* Properties *)

Quiet == Booted /\ notice = NoConfig /\ \A f \in Flows : At(f, "idle")

\* However tests overlap, fail, or lose their page, none leaves its temporary credentials
\* behind: from then on challenges are answered with the saved ones.
TestsCleanUp ==
    (\A f \in Flows : flow[f].stage \notin Testing) => temp = NoConfig /\ url = "null"

\* When nothing is under way, the browser uses the saved proxy if the flag says so and
\* none otherwise, and challenges are answered with its credentials; a failed test, a
\* refused setting and a restart change nothing about that, while pages act one at a
\* time and nothing has come between (see disturbed).
SettingsAgree ==
    Quiet /\ ~disturbed =>
        /\ proxy = IF connected = "on" THEN saved ELSE NoConfig
        /\ connected = "on" => conf = saved

\* README.md:9 of the add-on: the proxy stays disabled until there are credentials.  One
\* that tests have set, and one that a restart in the middle of a test has left behind, is
\* off again when everything has ended, however they overlapped, unless a call failed.
DisabledWithoutCredentials ==
    Quiet /\ saved = NoConfig /\ faults = 0 => proxy = NoConfig /\ connected = "off"

=============================================================================
