--------------------------- MODULE DeveloperCleaner ---------------------------
(***************************************************************************)
(* The service worker of the developer cleaner (background.js) and the     *)
(* pages that drive it (ui.js).  A step of this module is the code between *)
(* two awaits; the value an awaited read delivers is that of the step that *)
(* receives it.  Operations that change settings and all triggers wait in  *)
(* one queue, the others run at once, each for the page that asked for it. *)
(***************************************************************************)
EXTENDS CleanerPlan, Sequences

CONSTANTS
    SetupPages, Popups,  \* pages: the settings page, the toolbar popup
    Worker,              \* the owner of the operation at the head of the queue
    Reporters,           \* reports of failed operations that may be under way at once
    Tokens,              \* names of previews
    Drafts,              \* presets as an editor may submit them
    Files,               \* settings files one may import
    Triggers,            \* what the automation form may switch on
    Foreign,             \* settings another device may publish
    Found,               \* presets made of the browser's own cleanup settings
    InitialSettings,
    MaxQueue,            \* bound on waiting operations
    Cost, Budget         \* bound on what happens: edits, other clicks, events and failures

\* What pages, files and devices may hold: typed in by a user, or checked and stored.
ASSUME SettingsAssumption ==
    /\ Drafts \subseteq PresetOf(Entry) /\ Found \subseteq PresetOf(Entry)
    /\ Files \subseteq SettingsOf(Entry)
    /\ Foreign \subseteq SettingsOf(Origin) /\ InitialSettings \subseteq SettingsOf(Origin)
    /\ Triggers \subseteq AutomationOf

ASSUME WorkerAssumption == Worker \notin SetupPages \cup Popups

ASSUME PendingAssumption == None \notin {"schedule", "tab-close", "startup"}

ASSUME BoundAssumption == Budget \in Nat /\ Cost \in [{"clicks", "edits", "events"} -> Nat]

VARIABLES
    settings, pending, activity,  \* chrome.storage.local; of the activity, the newest record of a cleanup
    alarm, badge,                 \* the schedule's alarm, the toolbar badge
    cloud, published,             \* chrome.storage.sync, its changes not delivered yet
    tickets, running, queue,      \* globals of the worker: the ticket, the flag, the mutation chain
    job,                          \* what the worker does for each owner
    reports,                      \* calls of reportError under way, and the log each has read
    page,                         \* what each page shows and waits for
    url,                          \* what the target tab shows
    spent,                        \* of Budget
    late,                         \* steps a cleanup took after developer mode went off
    ignored,                      \* steps it took after the user switched it off
    disturbed,                    \* two owners changed alarm, badge or review at once
    overtaken                     \* a report has put an older log over the newest record

storage == <<settings, pending, activity>>
shown == <<alarm, badge>>
sync == <<cloud, published>>
history == <<late, ignored>>
vars == <<settings, pending, activity, alarm, badge, cloud, published, tickets, running, queue,
          job, reports, page, url, spent, late, ignored, disturbed, overtaken>>

Pages == SetupPages \cup Popups

Owners == Pages \cup {Worker}

IdleJob == [at |-> "idle", kind |-> "none", preset |-> None, set |-> None, plan |-> None,
            todo |-> {}, reviewed |-> None, url |-> None, pend |-> FALSE]

NoReport == [at |-> "idle", log |-> None]

ClosedPage == [snap |-> None, busy |-> FALSE, toggling |-> FALSE, review |-> None]

Spend(what) ==
    /\ spent + Cost[what] <= Budget
    /\ spent' = spent + Cost[what]

At(o, stage) == job[o].at = stage

GoTo(o, stage) == job' = [job EXCEPT ![o].at = stage]

\* readSettings throws if what is stored is not valid.
Readable == SettingsOK(settings)

Shared(s) == [s EXCEPT !.enabled = FALSE, !.syncEnabled = TRUE, !.automation = NoAutomation(s.activePreset)]

\* The 8 KB check of saveSettings.
Fits(s) == s.syncEnabled => Cardinality(Ids(s)) <= SyncPresets

WantsAlarm(s) == s.enabled /\ s.automation.minutes

BadgeOf(s, review) == IF ~s.enabled THEN "" ELSE IF review THEN "!" ELSE "DEV"

-----------------------------------------------------------------------------
(* Answers.  The page that asked shows the outcome and reads the state again *)
(* in the same step; a page closed meanwhile misses it.                      *)

Refreshed(s, p) == IF Readable THEN s ELSE page[p].snap

\* The handler of a cleanup request ends; the page takes up snap and review.
Reply(p, snap, review) ==
    /\ job' = [job EXCEPT ![p] = IdleJob]
    /\ page' = IF page[p].busy
                 THEN [page EXCEPT ![p].busy = FALSE, ![p].snap = snap, ![p].review = review]
                 ELSE page

Refuse(p) == Reply(p, page[p].snap, page[p].review)

\* Variant: an operation of the queue gets no answer.
ReleaseUnanswered ==
    /\ queue' = Tail(queue)
    /\ job' = [job EXCEPT ![Worker] = IdleJob]
    /\ UNCHANGED page

\* The operation at the head of the queue ends; a save is answered.
Release ==
    LET op == Head(queue)
    IN  /\ queue' = Tail(queue)
        /\ job' = [job EXCEPT ![Worker] = IdleJob]
        /\ page' = IF op.page = None THEN page
                   ELSE [page EXCEPT ![op.page].snap = Refreshed(settings, op.page),
                                     ![op.page].busy = @ /\ op.switch,
                                     ![op.page].toggling = @ /\ ~op.switch]

\* reportError: it begins to add a record "Automation" to the log, and nobody waits for it.
Report ==
    \E r \in Reporters : reports[r].at = "idle" /\ reports' = [reports EXCEPT ![r].at = "read"]

\* Of what fails in the queue only the saves are answered; all else is reported.
Reported(failed) == IF failed /\ Head(queue).kind # "save" THEN Report ELSE UNCHANGED reports

\* A call fails before it changed anything.
GiveUp(o) == IF o = Worker THEN Release /\ Reported(TRUE) ELSE Refuse(o) /\ UNCHANGED <<queue, reports>>

Operation(kind, s, p, switch) == [kind |-> kind, set |-> s, page |-> p, switch |-> switch]

Serialized(op) ==
    /\ Len(queue) < MaxQueue
    /\ queue' = Append(queue, op)

\* The operation at the head of the queue starts.
Starts(kind) == At(Worker, "idle") /\ queue # <<>> /\ Head(queue).kind = kind

-----------------------------------------------------------------------------
(* configure: the alarm, then the badge, from the settings job[o].set.       *)

\* Variant: an alarm that is no longer wanted stays.
ClearAlarmNever(o) ==
    /\ At(o, "clear")
    /\ job' = [job EXCEPT ![o].at = IF WantsAlarm(job[o].set) THEN "create" ELSE "peek"]
    /\ UNCHANGED <<storage, shown, sync, reports, tickets, running, queue, page, url, spent, history>>

ClearAlarm(o) ==
    /\ At(o, "clear")
    /\ alarm' = FALSE
    /\ job' = [job EXCEPT ![o].at = IF WantsAlarm(job[o].set) THEN "create" ELSE "peek"]
    /\ UNCHANGED <<storage, badge, sync, reports, tickets, running, queue, page, url, spent, history>>

CreateAlarm(o) ==
    /\ At(o, "create")
    /\ alarm' = TRUE
    /\ GoTo(o, "peek")
    /\ UNCHANGED <<storage, badge, sync, reports, tickets, running, queue, page, url, spent, history>>

ReadPending(o) ==
    /\ At(o, "peek")
    /\ job' = [job EXCEPT ![o].at = "badge", ![o].pend = pending # None]
    /\ UNCHANGED <<storage, shown, sync, reports, tickets, running, queue, page, url, spent, history>>

\* The badge is set, and whoever called configure goes on.
SetBadge(o) ==
    /\ At(o, "badge")
    /\ badge' = BadgeOf(job[o].set, job[o].pend)
    /\ IF o # Worker
         THEN /\ Reply(o, IF job[o].kind = "failed" THEN page[o].snap ELSE Refreshed(settings, o),
                       IF job[o].kind = "failed" THEN page[o].review ELSE None)
              /\ UNCHANGED <<queue, reports>>
         ELSE \/ /\ Head(queue).kind \in {"save", "installed"}
                 /\ GoTo(o, "publish")
                 /\ UNCHANGED <<queue, page, reports>>
              \/ /\ Head(queue).kind = "startup" /\ job[o].plan = None
                 /\ GoTo(o, "automate")
                 /\ UNCHANGED <<queue, page, reports>>
              \/ /\ Head(queue).kind \in {"sync", "schedule", "tab-close"} \/ job[o].plan # None
                 /\ Release /\ Reported(job[o].kind = "failed")
    /\ UNCHANGED <<storage, alarm, sync, tickets, running, url, spent, history>>

-----------------------------------------------------------------------------
(* removeData: its calls one after the other, each after another look at     *)
(* the settings; then the record, the follow-up and configure.               *)

\* Variant: it begins although another is running.
LaunchAnyway(o, plan, reviewed) ==
    /\ running' = TRUE
    /\ job' = [job EXCEPT ![o] = [IdleJob EXCEPT !.at = "check", !.kind = "cleanup", !.plan = plan,
                                                 !.todo = plan.calls, !.reviewed = reviewed]]
    /\ late' = 0 /\ ignored' = 0
    /\ UNCHANGED <<queue, page, reports>>

\* A cleanup begins, unless one is running.
Launch(o, plan, reviewed) ==
    IF running
    THEN GiveUp(o) /\ UNCHANGED <<running, history>>
    ELSE /\ running' = TRUE
         /\ job' = [job EXCEPT ![o] = [IdleJob EXCEPT !.at = "check", !.kind = "cleanup", !.plan = plan,
                                                     !.todo = plan.calls, !.reviewed = reviewed]]
         /\ late' = 0 /\ ignored' = 0
         /\ UNCHANGED <<queue, page, reports>>

Fail(o) == job' = [job EXCEPT ![o].at = "failed", ![o].kind = "failed"]

\* Variant: only the first removal looks at the settings.
CheckEnabledOnce(o) ==
    /\ At(o, "check")
    /\ LET goOn == job[o].todo # job[o].plan.calls \/ (Readable /\ settings.enabled)
       IN  (goOn /\ GoTo(o, "remove")) \/ (~goOn /\ Fail(o))
    /\ UNCHANGED <<storage, shown, sync, reports, tickets, running, queue, page, url, spent, history>>

CheckEnabled(o) ==
    /\ At(o, "check")
    /\ \/ Readable /\ settings.enabled /\ GoTo(o, "remove")
       \/ ~(Readable /\ settings.enabled) /\ Fail(o)
    /\ UNCHANGED <<storage, shown, sync, reports, tickets, running, queue, page, url, spent, history>>

\* The user has asked to switch developer mode off, and the save waits.
OffAsked == \E i \in DOMAIN queue : queue[i].kind = "save" /\ ~queue[i].set.enabled

\* A cleanup changes something of the browser.
Acts ==
    /\ late' = IF settings.enabled THEN late ELSE late + 1
    /\ ignored' = IF OffAsked THEN ignored + 1 ELSE ignored

Remove(o) ==
    /\ At(o, "remove")
    /\ \E c \in job[o].todo :
          job' = [job EXCEPT ![o].todo = @ \ {c},
                             ![o].at = IF job[o].todo = {c} THEN "record" ELSE "check"]
    /\ Acts
    /\ UNCHANGED <<storage, shown, sync, reports, tickets, running, queue, page, url, spent>>

RemoveFails(o) ==
    /\ At(o, "remove")
    /\ Spend("events")
    /\ Fail(o)
    /\ UNCHANGED <<storage, shown, sync, reports, tickets, running, queue, page, url, history>>

\* Variant: the record names all that was planned.
PlannedResult(o, ok) == [done |-> {c.type : c \in job[o].plan.calls}, ok |-> ok]

Result(o, ok) == [done |-> {c.type : c \in job[o].plan.calls \ job[o].todo}, ok |-> ok]

RecordDone(o) ==
    /\ At(o, "record")
    /\ activity' = Result(o, TRUE)
    /\ GoTo(o, "settle")
    /\ UNCHANGED <<settings, pending, shown, sync, reports, tickets, running, queue, page, url, spent, history>>

ClearPending(o) ==
    /\ At(o, "settle")
    /\ pending' = None
    /\ GoTo(o, "follow")
    /\ UNCHANGED <<settings, activity, shown, sync, reports, tickets, running, queue, page, url, spent, history>>

\* The finally block, up to its first await.
Finish(o) ==
    /\ running' = FALSE
    /\ GoTo(o, "reread")

RecordFailed(o) ==
    /\ At(o, "failed")
    /\ activity' = Result(o, FALSE)
    /\ Finish(o)
    /\ UNCHANGED <<settings, pending, shown, sync, reports, tickets, queue, page, url, spent, history>>

ChooseFollowUp(o) ==
    /\ At(o, "follow")
    /\ LET follow == Readable /\ settings.enabled
           plan == job[o].plan
       IN  \/ ~Readable /\ Fail(o) /\ UNCHANGED running
           \/ follow /\ plan.closeWindows /\ GoTo(o, "close") /\ UNCHANGED running
           \/ follow /\ ~plan.closeWindows /\ plan.reload /\ GoTo(o, "reload") /\ UNCHANGED running
           \/ Readable /\ ~(follow /\ (plan.closeWindows \/ plan.reload)) /\ Finish(o)
    /\ UNCHANGED <<storage, shown, sync, reports, tickets, queue, page, url, spent, history>>

\* The pages go with the windows, and what they wait for has no reader any more.
CloseWindows(o) ==
    /\ At(o, "close")
    /\ Acts
    /\ page' = [p \in Pages |-> ClosedPage]
    /\ queue' = [i \in DOMAIN queue |-> [queue[i] EXCEPT !.page = None]]
    /\ Finish(o)
    /\ UNCHANGED <<storage, shown, sync, reports, tickets, url, spent>>

CloseFails(o) ==
    /\ At(o, "close")
    /\ Spend("events")
    /\ Fail(o)
    /\ UNCHANGED <<storage, shown, sync, reports, tickets, running, queue, page, url, history>>

\* A tab that cannot be reloaded only adds a note to the answer.
ReloadTab(o) ==
    /\ At(o, "reload")
    /\ Acts
    /\ Finish(o)
    /\ UNCHANGED <<storage, shown, sync, reports, tickets, queue, page, url, spent>>

ReadAgain(o) ==
    /\ At(o, "reread")
    /\ \/ Readable /\ job' = [job EXCEPT ![o].at = "clear", ![o].set = settings] /\ UNCHANGED <<queue, page, reports>>
       \/ ~Readable /\ GiveUp(o)
    /\ UNCHANGED <<storage, shown, sync, tickets, running, url, spent, history>>

-----------------------------------------------------------------------------
(* The queue: saves, updates of the extension, changes from other devices,   *)
(* and what starts a cleanup without a user.                                 *)

StartSave ==
    /\ Starts("save") \/ Starts("installed")
    /\ LET s == IF Starts("save") THEN Head(queue).set ELSE settings
       IN  \/ /\ SettingsOK(s) /\ Fits(s)
              /\ tickets' = None
              /\ job' = [job EXCEPT ![Worker].at = "write", ![Worker].set = Normal(s)]
              /\ UNCHANGED <<queue, page, reports>>
           \/ ~(SettingsOK(s) /\ Fits(s)) /\ Release /\ Reported(TRUE) /\ UNCHANGED tickets
    /\ UNCHANGED <<storage, shown, sync, running, url, spent, history>>

WriteSettings ==
    /\ At(Worker, "write")
    /\ settings' = job[Worker].set
    /\ pending' = None
    /\ GoTo(Worker, "clear")
    /\ late' = IF settings'.enabled THEN 0 ELSE late
    /\ UNCHANGED <<activity, shown, sync, reports, tickets, running, queue, page, url, spent, ignored>>

\* Chrome reports a value that differs from the last one, to this device too.
Publish ==
    /\ At(Worker, "publish")
    /\ LET s == job[Worker].set
       IN  /\ cloud' = IF s.syncEnabled THEN Shared(s) ELSE None
           /\ published' = IF cloud' \in {None, cloud} THEN published ELSE Append(published, cloud')
    /\ Release
    /\ UNCHANGED <<storage, shown, tickets, running, reports, url, spent, history>>

ReceiveSync ==
    /\ Starts("sync")
    /\ LET incoming == Normal(Shared(Head(queue).set))
           wrong == settings.syncEnabled /\ ~SettingsOK(Head(queue).set)
           taken == Readable /\ settings.syncEnabled /\ SettingsOK(Head(queue).set) /\ incoming # Shared(settings)
       IN  \/ /\ taken
              /\ tickets' = None
              /\ job' = [job EXCEPT ![Worker].at = "write", ![Worker].set = incoming]
              /\ UNCHANGED <<queue, page, reports>>
           \/ ~taken /\ Release /\ Reported(~Readable \/ wrong) /\ UNCHANGED tickets
    /\ UNCHANGED <<storage, shown, sync, running, url, spent, history>>

StartUp ==
    /\ Starts("startup")
    /\ \/ /\ Readable
          /\ job' = [job EXCEPT ![Worker].at = "clear", ![Worker].set = settings]
          /\ UNCHANGED <<queue, page, reports>>
       \/ ~Readable /\ Release /\ Reported(TRUE)
    /\ UNCHANGED <<storage, shown, sync, tickets, running, url, spent, history>>

Triggered(s, source) ==
    CASE source = "startup"   -> s.automation.startup
      [] source = "tab-close" -> s.automation.tabClose
      [] OTHER                -> s.automation.minutes

\* The plan of an unattended cleanup: no tab is its target.
AutomaticPlan(s) == [Plan(s.presets[s.automation.presetId], None) EXCEPT !.reload = FALSE]

\* Variant: a trigger that was switched off while its event waited still counts.
DueOnceTriggered == Readable /\ settings.enabled /\ ~running

Due == Readable /\ settings.enabled /\ ~running /\ Triggered(settings, Head(queue).kind)

Automate ==
    /\ Starts("schedule") \/ Starts("tab-close") \/ At(Worker, "automate")
    /\ LET due == Due
           plan == AutomaticPlan(settings)
       IN  \/ ~due /\ Release /\ Reported(~Readable) /\ UNCHANGED <<running, history>>
           \/ /\ due /\ (plan.usesActive \/ ~plan.automaticSafe)
              /\ GoTo(Worker, "defer")
              /\ UNCHANGED <<running, queue, page, reports, history>>
           \/ due /\ ~plan.usesActive /\ plan.automaticSafe /\ Launch(Worker, plan, None)
    /\ UNCHANGED <<storage, shown, sync, tickets, url, spent>>

DeferToUser ==
    /\ At(Worker, "defer")
    /\ pending' = Head(queue).kind
    /\ GoTo(Worker, "mark")
    /\ UNCHANGED <<settings, activity, shown, sync, reports, tickets, running, queue, page, url, spent, history>>

MarkBadge ==
    /\ At(Worker, "mark")
    /\ badge' = "!"
    /\ Release
    /\ UNCHANGED <<storage, alarm, sync, tickets, running, reports, url, spent, history>>

-----------------------------------------------------------------------------
(* record, as reportError calls it: outside the queue, so that what comes    *)
(* between its read and its write is lost.  (Its own record is left out.)    *)

ReportRead(r) ==
    /\ reports[r].at = "read"
    /\ reports' = [reports EXCEPT ![r] = [at |-> "write", log |-> activity]]
    /\ UNCHANGED <<storage, shown, sync, tickets, running, queue, job, page, url, spent, history>>

ReportWritten(r) ==
    /\ reports[r].at = "write"
    /\ activity' = reports[r].log
    /\ reports' = [reports EXCEPT ![r] = NoReport]
    /\ UNCHANGED <<settings, pending, shown, sync, tickets, running, queue, job, page, url, spent, history>>

Reporting(r) == ReportRead(r) \/ ReportWritten(r)

-----------------------------------------------------------------------------
(* Previews, tickets and the cleanups users ask for.                         *)

ReadForPreview(p) ==
    /\ At(p, "preview")
    /\ \/ /\ Readable /\ settings.enabled /\ ~running
          /\ job' = [job EXCEPT ![p].at = "target", ![p].set = settings]
          /\ UNCHANGED page
       \/ ~(Readable /\ settings.enabled /\ ~running) /\ Refuse(p)
    /\ UNCHANGED <<storage, shown, sync, reports, tickets, running, queue, url, spent, history>>

UsedTokens ==
    {page[p].review.token : p \in {q \in Pages : page[q].review # None}}
        \cup (IF tickets = None THEN {} ELSE {tickets.token})

NewToken == CHOOSE t \in Tokens : t \notin UsedTokens

\* Variant: the popup's Clean asks for no confirmation.
AtOnceAlways(p, plan) == job[p].kind = "clean"

\* The popup's Clean goes on without a review if its plan is safe.
AtOnce(p, plan) == job[p].kind = "clean" /\ plan.automaticSafe

MakePlan(p) ==
    /\ At(p, "target")
    /\ LET s == job[p].set
           id == IF job[p].preset = None THEN s.activePreset ELSE job[p].preset
           possible == id \in Ids(s) /\ PlanOK(s.presets[id], url)
           plan == Plan(s.presets[id], url)
       IN  \/ ~possible /\ Refuse(p) /\ UNCHANGED tickets
           \/ /\ possible /\ AtOnce(p, plan)
              /\ tickets' = None
              /\ job' = [job EXCEPT ![p].at = "verify", ![p].plan = plan, ![p].url = url]
              /\ UNCHANGED page
           \/ /\ possible /\ ~AtOnce(p, plan)
              /\ NewToken \in Tokens \ UsedTokens
              /\ tickets' = [token |-> NewToken, plan |-> plan, url |-> url, set |-> s, fresh |-> TRUE]
              /\ Reply(p, page[p].snap, [token |-> NewToken, plan |-> plan])
    /\ UNCHANGED <<storage, shown, sync, reports, running, queue, url, spent, history>>

\* execute compares the settings, and for an active-tab plan the tab.
Verify(p) ==
    /\ At(p, "verify")
    /\ LET same == Readable /\ settings.enabled /\ settings = job[p].set
       IN  \/ ~same /\ Refuse(p) /\ UNCHANGED <<running, queue, reports, history>>
           \/ /\ same /\ job[p].plan.usesActive
              /\ job' = [job EXCEPT ![p].at = "tab"]
              /\ UNCHANGED <<running, queue, page, reports, history>>
           \/ same /\ ~job[p].plan.usesActive /\ Launch(p, job[p].plan, job[p].reviewed)
    /\ UNCHANGED <<storage, shown, sync, tickets, url, spent>>

CheckTab(p) ==
    /\ At(p, "tab")
    /\ \/ url # job[p].url /\ Refuse(p) /\ UNCHANGED <<running, queue, reports, history>>
       \/ url = job[p].url /\ Launch(p, job[p].plan, job[p].reviewed)
    /\ UNCHANGED <<storage, shown, sync, tickets, url, spent>>

-----------------------------------------------------------------------------
(* The pages.  A page saves what it last read with its own change in it; its *)
(* lock lets one request at a time through, the enabled switch passes it,    *)
(* and while a review is shown only its own buttons react.                   *)

Open(p) ==
    /\ page[p].snap = None /\ Readable
    /\ page' = [page EXCEPT ![p].snap = settings]
    /\ UNCHANGED <<storage, shown, sync, reports, tickets, running, queue, job, url, spent, history>>

Close(p) ==
    /\ page[p].snap # None
    /\ Spend("events")
    /\ page' = [page EXCEPT ![p] = ClosedPage]
    /\ queue' = [i \in DOMAIN queue |-> [queue[i] EXCEPT !.page = IF @ = p THEN None ELSE @]]
    /\ UNCHANGED <<storage, shown, sync, reports, tickets, running, job, url, history>>

\* A button that takes the lock can be pressed.
CanPress(p) == page[p].snap # None /\ ~page[p].busy /\ At(p, "idle")

Switch(p) ==
    /\ page[p].snap # None /\ ~page[p].toggling /\ page[p].review = None
    /\ Spend("clicks")
    /\ Serialized(Operation("save", [page[p].snap EXCEPT !.enabled = ~@], p, TRUE))
    /\ page' = [page EXCEPT ![p].toggling = TRUE]
    /\ UNCHANGED <<storage, shown, sync, reports, tickets, running, job, url, history>>

\* What the controls of the settings page make of the settings s it shows.
ChoosePreset(s) == {[s EXCEPT !.activePreset = i] : i \in Ids(s) \ {s.activePreset}}

SubmitEditor(s) ==
    {[s EXCEPT !.presets[s.activePreset] = d] : d \in {d \in Drafts : PresetOK(d)}}

DefaultPreset ==
    [scope |-> "active", origins |-> {}, types |-> CacheTypes,
     typeRules |-> [t \in Types |-> None], flags |-> {"reload"}]

WithPreset(s, id, preset) == [s EXCEPT !.activePreset = id, !.presets[id] = preset]

AddPreset(s) ==
    {WithPreset(s, id, preset) :
        id \in PresetIds \ Ids(s), preset \in {DefaultPreset, s.presets[s.activePreset]} \cup Found}

DeletePreset(s) ==
    {[s EXCEPT !.activePreset = i, !.presets[s.activePreset] = None,
               !.automation = IF @.presetId = s.activePreset THEN NoAutomation(i) ELSE @] :
        i \in Ids(s) \ {s.activePreset}}

ChooseSync(s) == {[s EXCEPT !.syncEnabled = ~@]}

SubmitAutomation(s) ==
    {[s EXCEPT !.automation = [t EXCEPT !.presetId = i]] : t \in Triggers, i \in Ids(s)}

\* A file is validated and normalised before it is sent.
ImportFile ==
    {[Normal(f) EXCEPT !.enabled = FALSE, !.syncEnabled = FALSE, !.automation = NoAutomation(f.activePreset)] :
        f \in {f \in Files : SettingsOK(f)}}

Edits(s) ==
    ChoosePreset(s) \cup SubmitEditor(s) \cup AddPreset(s) \cup DeletePreset(s)
        \cup ChooseSync(s) \cup SubmitAutomation(s) \cup ImportFile

Submit(p) ==
    /\ CanPress(p) /\ page[p].review = None
    /\ Spend("edits")
    /\ \E s \in Edits(page[p].snap) : Serialized(Operation("save", s, p, FALSE))
    /\ page' = [page EXCEPT ![p].busy = TRUE]
    /\ UNCHANGED <<storage, shown, sync, reports, tickets, running, job, url, history>>

Ask(p, kind, preset) ==
    /\ CanPress(p) /\ page[p].review = None
    /\ Spend("clicks")
    /\ page[p].snap.enabled
    /\ job' = [job EXCEPT ![p].at = "preview", ![p].kind = kind, ![p].preset = preset]
    /\ page' = [page EXCEPT ![p].busy = TRUE]
    /\ UNCHANGED <<storage, shown, sync, reports, tickets, running, queue, url, history>>

Review(p) == Ask(p, "preview", page[p].snap.activePreset)

Clean(p) == Ask(p, "clean", None)

\* The user confirms a review; execute takes the ticket before anything else.
Confirm(p) ==
    /\ CanPress(p) /\ page[p].review # None
    /\ Spend("clicks")
    /\ LET review == page[p].review
           match == tickets # None /\ tickets.token = review.token
       IN  /\ tickets' = IF match THEN None ELSE tickets
           /\ \/ /\ match /\ tickets.fresh
                 /\ job' = [job EXCEPT ![p] = [IdleJob EXCEPT !.at = "verify", !.kind = "execute",
                                !.set = tickets.set, !.plan = tickets.plan, !.url = tickets.url,
                                !.reviewed = review.plan]]
                 /\ page' = [page EXCEPT ![p].review = None, ![p].busy = TRUE]
              \/ /\ ~(match /\ tickets.fresh)
                 /\ page' = [page EXCEPT ![p].review = None]
                 /\ UNCHANGED job
    /\ UNCHANGED <<storage, shown, sync, reports, running, queue, url, history>>

Cancel(p) ==
    /\ page[p].review # None
    /\ page' = [page EXCEPT ![p].review = None]
    /\ UNCHANGED <<storage, shown, sync, reports, tickets, running, queue, job, url, spent, history>>

-----------------------------------------------------------------------------
(* Events of the browser and of other devices.                               *)

Trigger(kind) == Serialized(Operation(kind, None, None, FALSE))

AlarmFires == alarm /\ Trigger("schedule")

TabCloses == Trigger("tab-close")

Updated == Trigger("installed")

DeliverSync ==
    /\ published # <<>>
    /\ Serialized(Operation("sync", Head(published), None, FALSE))
    /\ published' = Tail(published)
    /\ UNCHANGED <<storage, shown, cloud, reports, tickets, running, job, page, url, spent, history>>

\* Something happens that puts an operation into the queue.
Event ==
    /\ AlarmFires \/ TabCloses \/ Updated
    /\ Spend("events")
    /\ UNCHANGED <<storage, shown, sync, reports, tickets, running, job, page, url, history>>

\* The shortcut or the menu entry cannot open the settings page.
ReviewFails ==
    /\ Spend("events")
    /\ Report
    /\ UNCHANGED <<storage, shown, sync, tickets, running, queue, job, page, url, history>>

ForeignChange ==
    /\ Spend("events")
    /\ \E s \in Foreign : s # cloud /\ cloud' = s /\ published' = Append(published, s)
    /\ UNCHANGED <<storage, shown, reports, tickets, running, queue, job, page, url, history>>

Navigate ==
    /\ Spend("events")
    /\ url' \in (Origin \cup {None}) \ {url}
    /\ UNCHANGED <<storage, shown, sync, reports, tickets, running, queue, job, page, history>>

Expire ==
    /\ tickets # None /\ tickets.fresh
    /\ Spend("events")
    /\ tickets' = [tickets EXCEPT !.fresh = FALSE]
    /\ UNCHANGED <<storage, shown, sync, reports, running, queue, job, page, url, history>>

\* The worker ends, with all it has under way; storage and alarm stay.
Reset ==
    /\ tickets' = None /\ running' = FALSE /\ job' = [o \in Owners |-> IdleJob]
    /\ reports' = [r \in Reporters |-> NoReport]

WorkerEnds ==
    /\ Spend("events")
    /\ Reset
    /\ queue' = <<>>
    /\ page' = [p \in Pages |-> [page[p] EXCEPT !.busy = FALSE, !.toggling = FALSE]]
    /\ UNCHANGED <<storage, shown, sync, url, history>>

BrowserRestarts ==
    /\ Spend("events")
    /\ Reset
    /\ queue' = <<Operation("startup", None, None, FALSE)>>
    /\ page' = [p \in Pages |-> ClosedPage]
    /\ UNCHANGED <<storage, shown, sync, url, history>>
-----------------------------------------------------------------------------
Init ==
    /\ settings \in InitialSettings
    /\ pending = None /\ activity = None
    /\ alarm = WantsAlarm(settings) /\ badge = BadgeOf(settings, FALSE)
    /\ cloud = IF settings.syncEnabled THEN Shared(settings) ELSE None
    /\ published = <<>>
    /\ tickets = None /\ running = FALSE /\ queue = <<>>
    /\ job = [o \in Owners |-> IdleJob]
    /\ reports = [r \in Reporters |-> NoReport]
    /\ page = [p \in Pages |-> [ClosedPage EXCEPT !.snap = settings]]
    /\ url = CHOOSE o \in Origin : TRUE
    /\ spent = 0
    /\ late = 0 /\ ignored = 0 /\ disturbed = FALSE /\ overtaken = FALSE

Cleanup(o) ==
    \/ CheckEnabled(o) \/ Remove(o) \/ RemoveFails(o) \/ RecordDone(o) \/ RecordFailed(o)
    \/ ClearPending(o) \/ ChooseFollowUp(o) \/ CloseWindows(o) \/ CloseFails(o) \/ ReloadTab(o)
    \/ ReadAgain(o)

Configure(o) == ClearAlarm(o) \/ CreateAlarm(o) \/ ReadPending(o) \/ SetBadge(o)

Queued ==
    \/ StartSave \/ WriteSettings \/ Publish \/ ReceiveSync \/ StartUp
    \/ Automate \/ DeferToUser \/ MarkBadge

Request(p) == ReadForPreview(p) \/ MakePlan(p) \/ Verify(p) \/ CheckTab(p)

User(p) ==
    \/ Open(p) \/ Close(p) \/ Confirm(p) \/ Cancel(p)
    \/ p \in SetupPages /\ (Switch(p) \/ Submit(p) \/ Review(p))
    \/ p \in Popups /\ Clean(p)

Environment ==
    \/ Event \/ DeliverSync \/ ReviewFails \/ ForeignChange \/ Navigate \/ Expire
    \/ WorkerEnds \/ BrowserRestarts

\* What the worker does next for o.
Proceed(o) ==
    \/ Cleanup(o) \/ Configure(o)
    \/ o = Worker /\ Queued
    \/ o \in Pages /\ Request(o)

\* o is between a change of settings, review or badge and the end of configure.
Window(o) ==
    job[o].at \in {"write", "clear", "create", "peek", "badge", "settle", "follow", "close", "reload",
                   "failed", "reread", "defer", "mark"}

\* Two such owners at once, or one that is cut off.
Disturbs ==
    \/ \E o1, o2 \in Owners : o1 # o2 /\ Window(o1)' /\ Window(o2)'
    \/ \E o \in Owners : Window(o) /\ (WorkerEnds \/ BrowserRestarts)

\* A cleanup adds its record to the log.
Records == \E o \in Owners : job[o].at \in {"record", "failed"} /\ job'[o].at \in {"settle", "reread"}

Track ==
    /\ disturbed' = (disturbed \/ Disturbs)
    /\ overtaken' = (~Records /\ (overtaken \/ activity' # activity))

Next ==
    \/ \E o \in Owners : Proceed(o) /\ Track
    \/ \E r \in Reporters : Reporting(r) /\ Track
    \/ \E p \in Pages : User(p) /\ Track
    \/ Environment /\ Track

Spec == Init /\ [][Next]_vars

\* Whatever the worker awaits is answered.
FairSpec ==
    /\ Spec
    /\ \A o \in Owners : WF_vars(Proceed(o) /\ Track)
    /\ \A r \in Reporters : WF_vars(Reporting(r) /\ Track)
-----------------------------------------------------------------------------
(* Properties.                                                               *)

SettingsType == SettingsOf(Origin)

SomeSettings == SettingsType \cup {None}

SomePlan == PlanType \cup {None}

Urls == Origin \cup {None}

Stages ==
    {"idle", "preview", "target", "verify", "tab", "check", "remove", "record", "settle", "follow",
     "close", "reload", "failed", "reread", "clear", "create", "peek", "badge", "write",
     "publish", "automate", "defer", "mark"}

JobType ==
    [at : Stages, kind : {"none", "preview", "clean", "execute", "cleanup", "failed"},
     preset : PresetIds \cup {None}, set : SomeSettings, plan : SomePlan, todo : SUBSET Call,
     reviewed : SomePlan, url : Urls, pend : BOOLEAN]

Sources == {"schedule", "tab-close", "startup"}

OperationType ==
    [kind : Sources \cup {"save", "installed", "sync"}, set : SettingsOf(Entry) \cup {None},
     page : Pages \cup {None}, switch : BOOLEAN]

TicketType == [token : Tokens, plan : PlanType, url : Urls, set : SettingsType, fresh : BOOLEAN]

PageType ==
    [snap : SomeSettings, busy : BOOLEAN, toggling : BOOLEAN,
     review : [token : Tokens, plan : PlanType] \cup {None}]

Log == [done : SUBSET Types, ok : BOOLEAN] \cup {None}

ReportType == [at : {"idle", "read", "write"}, log : Log]

\* Every variable has its type.
TypeOK ==
    /\ settings \in SettingsType
    /\ pending \in Sources \cup {None}
    /\ activity \in Log
    /\ alarm \in BOOLEAN /\ badge \in {"", "!", "DEV"}
    /\ cloud \in SomeSettings /\ published \in Seq(SettingsType)
    /\ tickets \in TicketType \cup {None}
    /\ running \in BOOLEAN
    /\ queue \in Seq(OperationType)
    /\ job \in [Owners -> JobType]
    /\ reports \in [Reporters -> ReportType]
    /\ page \in [Pages -> PageType]
    /\ url \in Urls
    /\ spent \in Nat
    /\ late \in Nat /\ ignored \in Nat /\ disturbed \in BOOLEAN /\ overtaken \in BOOLEAN

Removing(o) ==
    job[o].at \in {"check", "remove", "record", "settle", "follow", "close", "reload", "failed"}

\* Nothing but cache, and of no app, and without closing windows.
Harmless(plan) ==
    /\ \A c \in plan.calls : c.type \in CacheTypes /\ c.apps = {}
    /\ ~plan.closeWindows

\* However requests, triggers and pages overlap, a cleanup that is not harmless
\* carries out a plan that a user was shown as it is, and confirmed
\* (background.js 109-127 and 137; README "The worker enforces this rule").
NothingUnreviewed ==
    \A o \in Owners : Removing(o) => Harmless(job[o].plan) \/ (o # Worker /\ job[o].reviewed = job[o].plan)

\* No two cleanups overlap, and the flag is set exactly while there is one, though requests
\* look at it long before they set it (background.js 60, 77, 131; README "no overlapping cleanup").
OneCleanup ==
    /\ running <=> \E o \in Owners : Removing(o)
    /\ \A o1, o2 \in Owners : Removing(o1) /\ Removing(o2) => o1 = o2

\* While an unattended cleanup removes data, the settings in force still ask for just this
\* cleanup: none can change between its look at them and its last call (background.js 129-151).
AutomationIsCurrent ==
    job[Worker].at \in {"check", "remove", "record"} =>
        /\ settings.enabled
        /\ Triggered(settings, Head(queue).kind)
        /\ job[Worker].plan = AutomaticPlan(settings)

\* After developer mode is off in the stored settings a cleanup takes at most one more step
\* that touches the browser, a removal or a follow-up (background.js 83 and 90).
OffStopsCleanup == late <= 1

\* A cleanup that ends has recorded exactly what it removed, as failed unless that is all,
\* and one that stops short follows up on nothing (background.js 76-106).  Its record is the
\* newest of a cleanup's in the log until then, unless the report of a failed operation has
\* read the log before it and written it back after (71-74, 191).
PartialIsRecorded ==
    [][\A o \in Owners :
         LET left == job[o].todo # {}
         IN  /\ Removing(o) /\ job'[o].at = "reread" =>
                   \/ overtaken'
                   \/ /\ activity'.done = {c.type : c \in job[o].plan.calls \ job[o].todo}
                      /\ left => ~activity'.ok
             /\ job[o].at \in {"close", "reload"} => ~left /\ (overtaken \/ activity.ok)]_vars

\* When nothing is under way, and unless two owners or a restart came between each other,
\* alarm and badge are those of the stored settings and review (background.js 22-30, 137-140).
ShownAgrees ==
    (~disturbed /\ \A o \in Owners : ~Window(o)) =>
        alarm = WantsAlarm(settings) /\ badge = BadgeOf(settings, pending # None)

Resting ==
    /\ ~running /\ queue = <<>>
    /\ \A p \in Pages : ~page[p].busy /\ ~page[p].toggling
    /\ \A r \in Reporters : reports[r].at = "idle"

\* Every request is answered, every cleanup ends, the queue empties, also when operations in
\* it fail, and their reports are written: once nothing new happens, the worker rests
\* (background.js 98-106, 147-151 and 189-192).
ComesToRest == <>[]Resting

\* Refuted: what the worker stores it can read again (core.js 36-52).
StoredIsReadable == Readable

\* Refuted: the switch stops remaining steps of a cleanup, but for the one in progress.
SwitchStopsCleanup == ignored <= 1
=============================================================================
