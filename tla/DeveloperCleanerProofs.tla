------------------------ MODULE DeveloperCleanerProofs ------------------------
(***************************************************************************)
(* Proofs of the safety properties of DeveloperCleaner, and of what the    *)
(* plans of CleanerPlan may reach; and when what is stored can be read.    *)
(***************************************************************************)
EXTENDS DeveloperCleaner, FiniteSetTheorems, SequenceTheorems, TLAPS

-----------------------------------------------------------------------------
(* Settings and plans.                                                       *)

\* What is stored may be submitted again.
LEMMA OriginsAreEntries == Origin \subseteq Entry
  BY DEF Origin, Entry

LEMMA StoredPresetsAreEntries == PresetOf(Origin) \subseteq PresetOf(Entry)
  <1>1. RuleOf(Origin) \subseteq RuleOf(Entry)
    BY OriginsAreEntries DEF RuleOf
  <1> QED
    BY <1>1, OriginsAreEntries DEF PresetOf

LEMMA StoredAreEntries == SettingsOf(Origin) \subseteq SettingsOf(Entry)
  <1>1. [PresetIds -> PresetOf(Origin) \cup {None}] \subseteq [PresetIds -> PresetOf(Entry) \cup {None}]
    BY StoredPresetsAreEntries
  <1> QED
    BY <1>1 DEF SettingsOf

\* A list that passes the check is stored as exact origins.
LEMMA OriginsType ==
    ASSUME NEW values \in SUBSET Entry, OriginsOK(values)
    PROVE  Origins(values) \in SUBSET Origin
  <1>1. SUFFICES ASSUME NEW e \in values, e.scheme # "bare" PROVE e \in Origin
    BY DEF Origins
  <1> QED
    BY <1>1 DEF OriginsOK, Origin, Entry

LEMMA RuleType ==
    ASSUME NEW r \in RuleOf(Entry), RuleOK(r)
    PROVE  Rule(r) \in RuleOf(Origin)
  <1>1. r.scope \in Scopes /\ r.origins \in SUBSET Entry /\ OriginsOK(r.origins)
    BY DEF RuleOf, RuleOK
  <1>2. Origins(r.origins) \in SUBSET Origin
    BY <1>1, OriginsType
  <1> QED
    BY <1>1, <1>2 DEF Rule, RuleOf

LEMMA PresetType ==
    ASSUME NEW p \in PresetOf(Entry), PresetOK(p)
    PROVE  Preset(p) \in PresetOf(Origin)
  <1>1. p.origins \in SUBSET Entry /\ OriginsOK(p.origins)
    BY DEF PresetOf, PresetOK, RuleOK
  <1>2. Origins(p.origins) \in SUBSET Origin
    BY <1>1, OriginsType
  <1> DEFINE rules == [t \in Types |-> IF p.typeRules[t] = None THEN None ELSE Rule(p.typeRules[t])]
  <1>3. \A t \in Types : p.typeRules[t] # None => Rule(p.typeRules[t]) \in RuleOf(Origin)
    <2> TAKE t \in Types
    <2> HAVE p.typeRules[t] # None
    <2>1. p.typeRules[t] \in RuleOf(Entry) /\ RuleOK(p.typeRules[t])
      BY DEF PresetOf, PresetOK
    <2> QED
      BY <2>1, RuleType
  <1>4. rules \in [Types -> RuleOf(Origin) \cup {None}]
    BY <1>3
  <1>5. Preset(p) = [p EXCEPT !.origins = Origins(p.origins), !.typeRules = rules]
    BY DEF Preset, PresetOf
  <1> HIDE DEF rules
  <1> QED
    BY <1>2, <1>4, <1>5 DEF PresetOf

LEMMA NormalType ==
    ASSUME NEW s \in SettingsOf(Entry), SettingsOK(s)
    PROVE  Normal(s) \in SettingsOf(Origin) /\ Normal(s).enabled = s.enabled
  <1> DEFINE kept == [i \in PresetIds |-> IF s.presets[i] = None THEN None ELSE Preset(s.presets[i])]
  <1>1. \A i \in PresetIds : s.presets[i] # None => Preset(s.presets[i]) \in PresetOf(Origin)
    <2> TAKE i \in PresetIds
    <2> HAVE s.presets[i] # None
    <2>1. s.presets[i] \in PresetOf(Entry) /\ PresetOK(s.presets[i])
      BY DEF SettingsOf, SettingsOK, Ids
    <2> QED
      BY <2>1, PresetType
  <1>2. kept \in [PresetIds -> PresetOf(Origin) \cup {None}]
    BY <1>1
  <1>3. Normal(s) = [s EXCEPT !.presets = kept]
    BY DEF Normal, SettingsOf
  <1> HIDE DEF kept
  <1> QED
    BY <1>2, <1>3 DEF SettingsOf

LEMMA SharedType ==
    ASSUME NEW E, NEW s \in SettingsOf(E)
    PROVE  Shared(s) \in SettingsOf(E)
  BY DEF SettingsOf, Shared, NoAutomation, AutomationOf

\* Whatever a control of the settings page submits has the form of settings.
LEMMA EditsType ==
    ASSUME NEW s \in SettingsType
    PROVE  Edits(s) \subseteq SettingsOf(Entry)
  <1>0. s \in SettingsOf(Entry)
    BY StoredAreEntries DEF SettingsType
  <1>1. ChoosePreset(s) \cup ChooseSync(s) \subseteq SettingsOf(Entry)
    BY <1>0 DEF ChoosePreset, ChooseSync, SettingsOf, Ids
  <1>2. SubmitEditor(s) \subseteq SettingsOf(Entry)
    BY <1>0, SettingsAssumption DEF SubmitEditor, SettingsOf
  <1>3. ASSUME NEW e \in AddPreset(s) PROVE e \in SettingsOf(Entry)
    <2>1. PICK id \in PresetIds \ Ids(s), preset \in {DefaultPreset, s.presets[s.activePreset]} \cup Found :
              e = WithPreset(s, id, preset)
      BY DEF AddPreset
    <2>2. DefaultPreset \in PresetOf(Entry)
      BY DEF DefaultPreset, PresetOf, Scopes, Types, Flags
    <2>3. preset \in PresetOf(Entry) \cup {None}
      BY <1>0, <2>2, SettingsAssumption DEF SettingsOf
    <2>4. [s.presets EXCEPT ![id] = preset] \in [PresetIds -> PresetOf(Entry) \cup {None}]
      BY <1>0, <2>3 DEF SettingsOf
    <2> QED
      BY <1>0, <2>1, <2>4 DEF SettingsOf, WithPreset
  <1>4. ASSUME NEW e \in DeletePreset(s) PROVE e \in SettingsOf(Entry)
    <2>1. PICK i \in Ids(s) :
              e = [s EXCEPT !.activePreset = i, !.presets[s.activePreset] = None,
                            !.automation = IF s.automation.presetId = s.activePreset
                                             THEN NoAutomation(i) ELSE s.automation]
      BY DEF DeletePreset
    <2>2. [s.presets EXCEPT ![s.activePreset] = None] \in [PresetIds -> PresetOf(Entry) \cup {None}]
      BY <1>0 DEF SettingsOf
    <2>3. NoAutomation(i) \in AutomationOf
      BY DEF NoAutomation, AutomationOf, Ids
    <2> QED
      BY <1>0, <2>1, <2>2, <2>3 DEF SettingsOf, Ids
  <1>5. ASSUME NEW e \in SubmitAutomation(s) PROVE e \in SettingsOf(Entry)
    <2>1. PICK t \in Triggers, i \in Ids(s) : e = [s EXCEPT !.automation = [t EXCEPT !.presetId = i]]
      BY DEF SubmitAutomation
    <2>2. [t EXCEPT !.presetId = i] \in AutomationOf
      BY SettingsAssumption DEF AutomationOf, Ids
    <2> QED
      BY <1>0, <2>1, <2>2 DEF SettingsOf
  <1>6. ASSUME NEW e \in ImportFile PROVE e \in SettingsOf(Entry)
    <2>1. PICK f \in Files :
              /\ SettingsOK(f)
              /\ e = [Normal(f) EXCEPT !.enabled = FALSE, !.syncEnabled = FALSE,
                                       !.automation = NoAutomation(f.activePreset)]
      BY DEF ImportFile
    <2>2. f \in SettingsOf(Entry) /\ Normal(f) \in SettingsOf(Entry)
      BY <2>1, SettingsAssumption, NormalType, StoredAreEntries
    <2>3. NoAutomation(f.activePreset) \in AutomationOf
      BY <2>2 DEF SettingsOf, AutomationOf, NoAutomation
    <2> QED
      BY <2>1, <2>2, <2>3 DEF SettingsOf
  <1> QED
    BY <1>1, <1>2, <1>3, <1>4, <1>5, <1>6 DEF Edits

\* A plan that can be made names origins to its calls.
LEMMA PlanTyped ==
    ASSUME NEW p \in PresetOf(Origin), NEW u \in Urls, UsesActive(p) => u # None
    PROVE  Plan(p, u) \in PlanType
  <1>1. ASSUME NEW t \in p.types
        PROVE  [type |-> t, reach |-> Reach(Filter(p, t), u), apps |-> p.flags \cap Apps] \in Call
    <2>1. t \in Types /\ p.flags \cap Apps \in SUBSET Apps
      BY DEF PresetOf
    <2>2. Filter(p, t) \in RuleOf(Origin)
      BY <2>1 DEF Filter, PresetOf, RuleOf
    <2>3. Filter(p, t).scope = "active" => u \in Origin
      BY DEF UsesActive, Urls
    <2>4. Reach(Filter(p, t), u) \in SUBSET Origin
      BY <2>2, <2>3 DEF Reach, RuleOf, Scopes
    <2> QED
      BY <2>1, <2>4 DEF Call
  <1>2. {[type |-> t, reach |-> Reach(Filter(p, t), u), apps |-> p.flags \cap Apps] : t \in p.types} \in SUBSET Call
    BY <1>1
  <1>3. UsesActive(p) \in BOOLEAN /\ AutomaticSafe(p) \in BOOLEAN
    BY DEF UsesActive, AutomaticSafe
  <1> QED
    BY <1>2, <1>3 DEF Plan, PlanType

\* What the worker takes for safe is harmless.
LEMMA SafeIsHarmless ==
    ASSUME NEW p, NEW u, Plan(p, u).automaticSafe
    PROVE  Harmless(Plan(p, u))
  <1>1. AutomaticSafe(p)
    BY DEF Plan
  <1>2. \A c \in Plan(p, u).calls : c.type \in CacheTypes /\ c.apps = {}
    BY <1>1 DEF Plan, AutomaticSafe
  <1>3. ~Plan(p, u).closeWindows
    BY <1>1 DEF Plan, AutomaticSafe
  <1> QED
    BY <1>2, <1>3 DEF Harmless

\* A preset that passes the check removes data that Chrome cannot filter, or of apps, only
\* under a rule for the whole browser: no call is widened (core.js 80-88 and 113-124; README
\* "never silently widened to the entire browser").
THEOREM NeverWidened ==
    ASSUME NEW p, NEW u, PresetOK(p), NEW c \in Plan(p, u).calls,
           c.type \in GlobalTypes \/ c.apps # {}
    PROVE  Filter(p, c.type).scope = "all" /\ c.reach = Origin
  <1>1. PICK t \in p.types :
            c = [type |-> t, reach |-> Reach(Filter(p, t), u), apps |-> p.flags \cap Apps]
    BY DEF Plan
  <1>2. Filter(p, t).scope = "all"
    BY <1>1 DEF PresetOK
  <1>3. Reach(Filter(p, t), u) = Origin
    BY <1>2 DEF Reach
  <1> QED
    BY <1>1, <1>2, <1>3

-----------------------------------------------------------------------------
(* Types, and what each stage of a job knows.                                *)

JobOK(o, j) ==
    /\ j.at \in {"write", "publish", "automate", "defer", "mark"} => o = Worker
    /\ j.at \in {"preview", "target", "verify", "tab"} => o # Worker
    /\ j.at \in {"write", "clear", "create", "peek", "badge", "publish", "target", "verify", "tab"} =>
          j.set \in SettingsType
    /\ j.at \in {"verify", "tab", "check", "remove", "record", "settle", "follow", "close", "reload",
                 "failed"} => j.plan \in PlanType

JobsOK == job \in [Owners -> JobType] /\ \A o \in Owners : JobOK(o, job[o])

QueueOK ==
    /\ queue \in Seq(OperationType)
    /\ \A i \in DOMAIN queue : queue[i].kind \in {"save", "sync"} => queue[i].set \in SettingsOf(Entry)

HeldOK == job[Worker].at # "idle" => queue # <<>>

PagesOK == page \in [Pages -> PageType]

StoreOK ==
    /\ settings \in SettingsType
    /\ activity \in [done : SUBSET Types, ok : BOOLEAN] \cup {None}
    /\ alarm \in BOOLEAN /\ badge \in {"", "!", "DEV"}
    /\ cloud \in SomeSettings /\ published \in Seq(SettingsType)
    /\ tickets \in TicketType \cup {None}
    /\ running \in BOOLEAN
    /\ url \in Urls
    /\ spent \in Nat
    /\ late \in Nat /\ ignored \in Nat

Typed == JobsOK /\ QueueOK /\ HeldOK /\ PagesOK /\ StoreOK

LEMMA OwnersType == Worker \in Owners /\ Worker \notin Pages /\ \A p \in Pages : p \in Owners /\ p # Worker
  BY WorkerAssumption DEF Owners, Pages

LEMMA IdleJobOK == \A o : IdleJob \in JobType /\ JobOK(o, IdleJob)
  BY DEF IdleJob, JobType, JobOK, Stages, SomeSettings, SomePlan, Urls

\* One owner's job is replaced.
LEMMA JobBecomes ==
    ASSUME JobsOK, NEW o \in Owners, NEW j \in JobType, JobOK(o, j), job' = [job EXCEPT ![o] = j]
    PROVE  JobsOK'
  BY DEF JobsOK, JobOK

LEMMA EnabledType == \A s \in SettingsType : s.enabled \in BOOLEAN /\ s.automation.minutes \in BOOLEAN
  BY DEF SettingsType, SettingsOf, AutomationOf

\* The head of the queue leaves it.
LEMMA QueueTail ==
    ASSUME QueueOK, queue # <<>>, queue' = Tail(queue)
    PROVE  QueueOK'
  BY DEF QueueOK, OperationType

LEMMA QueueHead ==
    ASSUME QueueOK, queue # <<>>
    PROVE  /\ Head(queue) \in OperationType
           /\ Head(queue).kind \in {"save", "sync"} => Head(queue).set \in SettingsOf(Entry)
  <1>1. Head(queue) = queue[1] /\ 1 \in DOMAIN queue
    BY DEF QueueOK
  <1> QED
    BY <1>1 DEF QueueOK

LEMMA QueueAppend ==
    ASSUME QueueOK, NEW op \in OperationType, op.kind \in {"save", "sync"} => op.set \in SettingsOf(Entry),
           Serialized(op)
    PROVE  QueueOK' /\ queue' # <<>>
  BY DEF QueueOK, Serialized

\* Pages that close do not wait for their answers any more.
LEMMA QueuePages ==
    ASSUME QueueOK, NEW f \in [DOMAIN queue -> Pages \cup {None}],
           queue' = [i \in DOMAIN queue |-> [queue[i] EXCEPT !.page = f[i]]]
    PROVE  QueueOK'
  <1>1. \A i \in DOMAIN queue : queue[i] \in OperationType /\ f[i] \in Pages \cup {None}
    BY DEF QueueOK
  <1>2. \A i \in DOMAIN queue : [queue[i] EXCEPT !.page = f[i]] \in OperationType
    BY <1>1 DEF OperationType
  <1>3. DOMAIN queue = 1 .. Len(queue) /\ Len(queue) \in Nat
    BY DEF QueueOK
  <1>4. queue' \in [1 .. Len(queue) -> OperationType]
    BY <1>2, <1>3
  <1>5. queue' \in Seq(OperationType) /\ DOMAIN queue' = DOMAIN queue
    BY <1>3, <1>4
  <1>6. \A i \in DOMAIN queue : queue'[i].kind = queue[i].kind /\ queue'[i].set = queue[i].set
    BY <1>1 DEF OperationType
  <1> QED
    BY <1>5, <1>6 DEF QueueOK

\* What is published next.
LEMMA PublishedHead ==
    ASSUME Typed, published # <<>>
    PROVE  Head(published) \in SettingsType /\ Tail(published) \in Seq(SettingsType)
  <1>1. published \in Seq(SettingsType)
    BY DEF Typed, StoreOK
  <1> QED
    BY <1>1, HeadTailProperties

LEMMA RefreshedType ==
    ASSUME PagesOK, settings \in SettingsType, NEW p \in Pages
    PROVE  Refreshed(settings, p) \in SomeSettings
  BY DEF PagesOK, PageType, Refreshed, SomeSettings

LEMMA ReleaseTyped ==
    ASSUME Typed, queue # <<>>, Release
    PROVE  JobsOK' /\ QueueOK' /\ HeldOK' /\ PagesOK'
  <1>1. QueueOK'
    BY QueueTail DEF Typed, Release
  <1>2. JobsOK'
    BY JobBecomes, IdleJobOK, OwnersType DEF Typed, Release
  <1>3. HeldOK'
    BY OwnersType DEF Typed, Release, HeldOK, JobsOK, IdleJob
  <1>4. PagesOK'
    <2>1. Head(queue).page \in Pages \cup {None} /\ Head(queue).switch \in BOOLEAN
      BY QueueHead DEF Typed, OperationType
    <2>2. CASE Head(queue).page = None
      BY <2>2 DEF Release, Typed, PagesOK
    <2>3. CASE Head(queue).page # None
      <3>1. Refreshed(settings, Head(queue).page) \in SomeSettings
        BY <2>1, <2>3, RefreshedType DEF Typed, StoreOK
      <3> DEFINE p == Head(queue).page
                 busy == page[p].busy /\ Head(queue).switch
                 toggling == page[p].toggling /\ ~Head(queue).switch
                 snap == Refreshed(settings, p)
      <3>2. page' = [page EXCEPT ![p].snap = snap, ![p].busy = busy, ![p].toggling = toggling]
        BY <2>3 DEF Release
      <3>3. busy \in BOOLEAN /\ toggling \in BOOLEAN /\ snap \in SomeSettings /\ p \in Pages
        BY <2>1, <2>3, <3>1
      <3> HIDE DEF p, busy, toggling, snap
      <3> QED
        BY <3>2, <3>3 DEF Typed, PagesOK, PageType
    <2> QED
      BY <2>2, <2>3
  <1> QED
    BY <1>1, <1>2, <1>3, <1>4

ReviewType == [token : Tokens, plan : PlanType]

LEMMA ReplyTyped ==
    ASSUME Typed, NEW p \in Pages, NEW snap \in SomeSettings, NEW review \in ReviewType \cup {None},
           Reply(p, snap, review)
    PROVE  JobsOK' /\ PagesOK' /\ (UNCHANGED queue => HeldOK')
  <1>1. JobsOK'
    BY JobBecomes, IdleJobOK, OwnersType DEF Typed, Reply
  <1>2. PagesOK'
    BY DEF Typed, Reply, PagesOK, PageType, ReviewType
  <1>3. UNCHANGED queue => HeldOK'
    BY OwnersType DEF Typed, HeldOK, Reply, JobsOK
  <1> QED
    BY <1>1, <1>2, <1>3

LEMMA RefuseTyped ==
    ASSUME Typed, NEW p \in Pages, Refuse(p)
    PROVE  JobsOK' /\ PagesOK' /\ (UNCHANGED queue => HeldOK')
  <1>1. page[p].snap \in SomeSettings /\ page[p].review \in ReviewType \cup {None}
    BY DEF Typed, PagesOK, PageType, ReviewType
  <1> QED
    BY <1>1, ReplyTyped DEF Refuse

LEMMA GiveUpTyped ==
    ASSUME Typed, NEW o \in Owners, o = Worker => queue # <<>>, GiveUp(o)
    PROVE  JobsOK' /\ QueueOK' /\ HeldOK' /\ PagesOK'
  <1>1. CASE o = Worker
    BY <1>1, ReleaseTyped DEF GiveUp
  <1>2. CASE o # Worker
    <2>1. o \in Pages
      BY <1>2 DEF Owners
    <2>2. QueueOK'
      BY <1>2 DEF GiveUp, Typed, QueueOK
    <2> QED
      BY <1>2, <2>1, <2>2, RefuseTyped DEF GiveUp
  <1> QED
    BY <1>1, <1>2

LEMMA LaunchTyped ==
    ASSUME Typed, NEW o \in Owners, o = Worker => queue # <<>>, NEW plan \in PlanType,
           NEW reviewed \in SomePlan, Launch(o, plan, reviewed)
    PROVE  /\ JobsOK' /\ QueueOK' /\ HeldOK' /\ PagesOK'
           /\ running' \in BOOLEAN /\ late' \in Nat /\ ignored' \in Nat
  <1>1. CASE running
    BY <1>1, GiveUpTyped DEF Launch, history, Typed, StoreOK
  <1>2. CASE ~running
    <2> DEFINE j == [IdleJob EXCEPT !.at = "check", !.kind = "cleanup", !.plan = plan,
                                    !.todo = plan.calls, !.reviewed = reviewed]
    <2>1. j \in JobType /\ JobOK(o, j)
      BY DEF JobType, JobOK, IdleJob, Stages, SomePlan, SomeSettings, Urls, PlanType
    <2>2. job' = [job EXCEPT ![o] = j]
      BY <1>2 DEF Launch
    <2>3. JobsOK'
      BY <2>1, <2>2, JobBecomes DEF Typed
    <2>4. QueueOK' /\ PagesOK' /\ late' \in Nat /\ ignored' \in Nat /\ running' \in BOOLEAN
      BY <1>2 DEF Launch, Typed, QueueOK, PagesOK
    <2>5. HeldOK'
      BY <1>2, OwnersType DEF Launch, Typed, HeldOK, JobsOK
    <2> QED
      BY <2>3, <2>4, <2>5
  <1> QED
    BY <1>1, <1>2

\* One owner goes on, and neither the queue nor a page notices.
LEMMA StepTyped ==
    ASSUME Typed, NEW o \in Owners, o = Worker => queue # <<>>, NEW j \in JobType, JobOK(o, j),
           job' = [job EXCEPT ![o] = j], UNCHANGED <<queue, page>>
    PROVE  JobsOK' /\ QueueOK' /\ HeldOK' /\ PagesOK'
  <1>1. JobsOK'
    BY JobBecomes DEF Typed
  <1>2. QueueOK' /\ PagesOK'
    BY DEF Typed, QueueOK, PagesOK
  <1>3. HeldOK'
    BY OwnersType DEF Typed, HeldOK, JobsOK
  <1> QED
    BY <1>1, <1>2, <1>3

LEMMA GoToTyped ==
    ASSUME Typed, NEW o \in Owners, o = Worker => queue # <<>>, NEW stage \in Stages,
           JobOK(o, [job[o] EXCEPT !.at = stage]), GoTo(o, stage), UNCHANGED <<queue, page>>
    PROVE  JobsOK' /\ QueueOK' /\ HeldOK' /\ PagesOK'
  <1>1. [job[o] EXCEPT !.at = stage] \in JobType
    BY DEF Typed, JobsOK, JobType
  <1>2. job' = [job EXCEPT ![o] = [job[o] EXCEPT !.at = stage]]
    BY DEF GoTo
  <1> HIDE DEF JobOK
  <1> QED
    BY <1>1, <1>2, StepTyped

LEMMA SpendType ==
    ASSUME StoreOK, NEW what \in {"clicks", "edits", "events"}, Spend(what)
    PROVE  spent' \in Nat
  <1>1. Cost[what] \in Nat
    BY BoundAssumption
  <1>2. spent \in Nat
    BY DEF StoreOK
  <1>3. spent' = spent + Cost[what]
    BY DEF Spend
  <1> QED
    BY <1>1, <1>2, <1>3

LEMMA ActsType ==
    ASSUME StoreOK, Acts
    PROVE  late' \in Nat /\ ignored' \in Nat
  <1>1. late' \in {late, late + 1} /\ ignored' \in {ignored, ignored + 1}
    BY DEF Acts
  <1>2. late \in Nat /\ ignored \in Nat
    BY DEF StoreOK
  <1> QED
    BY <1>1, <1>2

LEMMA ResultType ==
    ASSUME NEW o, job[o].plan \in PlanType, NEW ok \in BOOLEAN
    PROVE  Result(o, ok) \in [done : SUBSET Types, ok : BOOLEAN]
  BY DEF Result, PlanType, Call

\* The automatic plan of settings that can be read, if it names no tab.
LEMMA AutomaticPlanType ==
    ASSUME StoreOK, Readable, ~AutomaticPlan(settings).usesActive
    PROVE  AutomaticPlan(settings) \in PlanType
  <1> DEFINE p == settings.presets[settings.automation.presetId]
  <1>1. p \in PresetOf(Origin)
    BY DEF StoreOK, Readable, SettingsOK, Ids, SettingsType, SettingsOf, AutomationOf
  <1>2. ~UsesActive(p)
    BY DEF AutomaticPlan, Plan
  <1>3. Plan(p, None) \in PlanType
    BY <1>1, <1>2, PlanTyped DEF Urls
  <1> HIDE DEF p
  <1>4. AutomaticPlan(settings) = [Plan(p, None) EXCEPT !.reload = FALSE]
    BY DEF AutomaticPlan, p
  <1> QED
    BY <1>3, <1>4 DEF PlanType

-----------------------------------------------------------------------------
(* Typed is inductive.                                                       *)

\* The steps of configure keep Typed.
LEMMA TypedConfigure ==
    ASSUME Typed, NEW o \in Owners, Configure(o)
    PROVE  Typed'
  <1>1. CASE ClearAlarm(o)
    <2>1. JobsOK'
      BY <1>1, OwnersType DEF Typed, JobsOK, JobOK, JobType, Stages, ClearAlarm, At, GoTo,
         storage, shown, sync, history
    <2>2. QueueOK'
      BY <1>1, OwnersType DEF Typed, QueueOK, ClearAlarm, At, GoTo, storage, shown, sync,
         history
    <2>3. HeldOK'
      BY <1>1, OwnersType DEF Typed, HeldOK, JobsOK, ClearAlarm, At, GoTo, storage, shown,
         sync, history
    <2>4. PagesOK'
      BY <1>1, OwnersType DEF Typed, PagesOK, ClearAlarm, At, GoTo, storage, shown, sync,
         history
    <2>5. StoreOK'
      BY <1>1, OwnersType DEF Typed, StoreOK, ClearAlarm, At, GoTo, storage, shown, sync,
         history
    <2> QED
      BY <2>1, <2>2, <2>3, <2>4, <2>5 DEF Typed
  <1>2. CASE CreateAlarm(o)
    <2>1. JobsOK'
      BY <1>2, OwnersType DEF Typed, JobsOK, JobOK, JobType, Stages, CreateAlarm, At, GoTo,
         storage, shown, sync, history
    <2>2. QueueOK'
      BY <1>2, OwnersType DEF Typed, QueueOK, CreateAlarm, At, GoTo, storage, shown, sync,
         history
    <2>3. HeldOK'
      BY <1>2, OwnersType DEF Typed, HeldOK, JobsOK, CreateAlarm, At, GoTo, storage, shown,
         sync, history
    <2>4. PagesOK'
      BY <1>2, OwnersType DEF Typed, PagesOK, CreateAlarm, At, GoTo, storage, shown, sync,
         history
    <2>5. StoreOK'
      BY <1>2, OwnersType DEF Typed, StoreOK, CreateAlarm, At, GoTo, storage, shown, sync,
         history
    <2> QED
      BY <2>1, <2>2, <2>3, <2>4, <2>5 DEF Typed
  <1>3. CASE ReadPending(o)
    <2>1. JobsOK'
      <3> DEFINE flag == pending # None
                 j == [job[o] EXCEPT !.at = "badge", !.pend = flag]
      <3>1. job[o] \in JobType /\ JobOK(o, job[o]) /\ flag \in BOOLEAN
        BY DEF Typed, JobsOK
      <3>2. job' = [job EXCEPT ![o] = j]
        BY <1>3 DEF Typed, JobsOK, ReadPending
      <3> HIDE DEF flag
      <3>3. j \in JobType
        BY <3>1 DEF JobType, Stages
      <3>4. JobOK(o, j)
        BY <1>3, <3>1 DEF JobOK, JobType, ReadPending, At
      <3> QED
        BY <3>2, <3>3, <3>4, JobBecomes DEF Typed
    <2>2. QueueOK'
      BY <1>3, OwnersType DEF Typed, QueueOK, ReadPending, At, GoTo, storage, shown, sync,
         history
    <2>3. HeldOK'
      BY <1>3, OwnersType DEF Typed, HeldOK, JobsOK, ReadPending, At, GoTo, storage, shown,
         sync, history
    <2>4. PagesOK'
      BY <1>3, OwnersType DEF Typed, PagesOK, ReadPending, At, GoTo, storage, shown, sync,
         history
    <2>5. StoreOK'
      BY <1>3, OwnersType DEF Typed, StoreOK, ReadPending, At, GoTo, storage, shown, sync,
         history
    <2> QED
      BY <2>1, <2>2, <2>3, <2>4, <2>5 DEF Typed
  <1>4. CASE SetBadge(o)
    <2>1. StoreOK'
      BY <1>4 DEF Typed, StoreOK, SetBadge, BadgeOf, storage, sync, history
    <2>2. job[o].at = "badge" /\ job[o].set \in SettingsType
      BY <1>4 DEF Typed, JobsOK, JobOK, SetBadge, At
    <2>3. CASE o # Worker
      <3> DEFINE snap == IF job[o].kind = "failed" THEN page[o].snap ELSE Refreshed(settings, o)
                 review == IF job[o].kind = "failed" THEN page[o].review ELSE None
      <3>1. o \in Pages
        BY <2>3 DEF Owners
      <3>2. snap \in SomeSettings
        BY <3>1, RefreshedType DEF Typed, StoreOK, PagesOK, PageType
      <3>3. review \in ReviewType \cup {None}
        BY <3>1 DEF Typed, PagesOK, PageType, ReviewType
      <3>4. Reply(o, snap, review) /\ UNCHANGED queue
        BY <1>4, <2>3 DEF SetBadge
      <3> HIDE DEF snap, review
      <3>5. JobsOK' /\ PagesOK' /\ HeldOK'
        BY <3>1, <3>2, <3>3, <3>4, ReplyTyped
      <3>6. QueueOK'
        BY <3>4 DEF Typed, QueueOK
      <3> QED
        BY <2>1, <3>5, <3>6 DEF Typed
    <2>4. CASE o = Worker
      <3>1. queue # <<>>
        BY <2>2, <2>4 DEF Typed, HeldOK
      <3>2. \/ GoTo(o, "publish") /\ UNCHANGED <<queue, page>>
            \/ GoTo(o, "automate") /\ UNCHANGED <<queue, page>>
            \/ Release
        BY <1>4, <2>4 DEF SetBadge
      <3>3. JobOK(o, [job[o] EXCEPT !.at = "publish"]) /\ JobOK(o, [job[o] EXCEPT !.at = "automate"])
        BY <2>2, <2>4 DEF Typed, JobsOK, JobOK, JobType
      <3>4. "publish" \in Stages /\ "automate" \in Stages
        BY DEF Stages
      <3> QED
        BY <2>1, <3>1, <3>2, <3>3, <3>4, GoToTyped, ReleaseTyped DEF Typed
    <2> QED
      BY <2>3, <2>4
  <1> QED
    BY <1>1, <1>2, <1>3, <1>4 DEF Configure

\* The steps of a cleanup keep Typed.
LEMMA TypedCleanup ==
    ASSUME Typed, NEW o \in Owners, Cleanup(o)
    PROVE  Typed'
  <1>1. CASE CheckEnabled(o)
    <2>1. JobsOK'
      BY <1>1, OwnersType DEF Typed, JobsOK, JobOK, JobType, Stages, CheckEnabled, At, GoTo,
         storage, shown, sync, history, Fail
    <2>2. QueueOK'
      BY <1>1, OwnersType DEF Typed, QueueOK, CheckEnabled, At, GoTo, storage, shown, sync,
         history, Fail
    <2>3. HeldOK'
      BY <1>1, OwnersType DEF Typed, HeldOK, JobsOK, CheckEnabled, At, GoTo, storage, shown,
         sync, history, Fail
    <2>4. PagesOK'
      BY <1>1, OwnersType DEF Typed, PagesOK, CheckEnabled, At, GoTo, storage, shown, sync,
         history, Fail
    <2>5. StoreOK'
      BY <1>1, OwnersType DEF Typed, StoreOK, CheckEnabled, At, GoTo, storage, shown, sync,
         history, Fail
    <2> QED
      BY <2>1, <2>2, <2>3, <2>4, <2>5 DEF Typed
  <1>2. CASE Remove(o)
    <2>1. JobsOK'
      <3>1. PICK c \in job[o].todo :
                job' = [job EXCEPT ![o].todo = @ \ {c},
                                   ![o].at = IF job[o].todo = {c} THEN "record" ELSE "check"]
        BY <1>2 DEF Remove
      <3> DEFINE j == [job[o] EXCEPT !.todo = @ \ {c}, !.at = IF job[o].todo = {c} THEN "record" ELSE "check"]
      <3>2. job[o] \in JobType /\ JobOK(o, job[o])
        BY DEF Typed, JobsOK
      <3>3. j \in JobType
        BY <3>2 DEF JobType, Stages
      <3>4. JobOK(o, j)
        BY <1>2, <3>2 DEF JobOK, JobType, Remove, At
      <3>5. job' = [job EXCEPT ![o] = j]
        BY <3>1 DEF Typed, JobsOK
      <3> QED
        BY <3>3, <3>4, <3>5, JobBecomes DEF Typed
    <2>2. QueueOK'
      BY <1>2, OwnersType DEF Typed, QueueOK, Remove, At, GoTo, storage, shown, sync,
         history
    <2>3. HeldOK'
      BY <1>2, OwnersType DEF Typed, HeldOK, JobsOK, Remove, At, GoTo, storage, shown, sync,
         history
    <2>4. PagesOK'
      BY <1>2, OwnersType DEF Typed, PagesOK, Remove, At, GoTo, storage, shown, sync,
         history
    <2>5. StoreOK'
      <3>1. late' \in Nat /\ ignored' \in Nat
        BY <1>2, ActsType DEF Typed, Remove
      <3> QED
        BY <1>2, <3>1 DEF Typed, StoreOK, Remove, storage, shown, sync, history
    <2> QED
      BY <2>1, <2>2, <2>3, <2>4, <2>5 DEF Typed
  <1>3. CASE RemoveFails(o)
    <2>1. JobsOK'
      <3> DEFINE j == [job[o] EXCEPT !.at = "failed", !.kind = "failed"]
      <3>1. job[o] \in JobType /\ JobOK(o, job[o])
        BY OwnersType DEF Typed, JobsOK
      <3>2. j \in JobType
        BY <3>1 DEF JobType, Stages
      <3>3. JobOK(o, j)
        BY <1>3, <3>1 DEF JobOK, JobType, RemoveFails, At
      <3>4. job' = [job EXCEPT ![o] = j]
        BY <1>3 DEF Typed, JobsOK, RemoveFails, Fail
      <3> QED
        BY <3>2, <3>3, <3>4, JobBecomes, OwnersType DEF Typed
    <2>2. QueueOK'
      BY <1>3, OwnersType DEF Typed, QueueOK, RemoveFails, At, GoTo, storage, shown, sync,
         history, Fail
    <2>3. HeldOK'
      BY <1>3, OwnersType DEF Typed, HeldOK, JobsOK, RemoveFails, At, GoTo, storage, shown,
         sync, history, Fail
    <2>4. PagesOK'
      BY <1>3, OwnersType DEF Typed, PagesOK, RemoveFails, At, GoTo, storage, shown, sync,
         history, Fail
    <2>5. StoreOK'
      <3>1. Spend("events")
        BY <1>3 DEF RemoveFails
      <3>2. spent' \in Nat
        BY <3>1, SpendType DEF Typed
      <3> QED
        BY <1>3, <3>2 DEF Typed, StoreOK, RemoveFails, storage, shown, sync, history
    <2> QED
      BY <2>1, <2>2, <2>3, <2>4, <2>5 DEF Typed
  <1>4. CASE RecordDone(o)
    <2>1. JobsOK'
      BY <1>4, OwnersType DEF Typed, JobsOK, JobOK, JobType, Stages, RecordDone, At, GoTo,
         storage, shown, sync, history
    <2>2. QueueOK'
      BY <1>4, OwnersType DEF Typed, QueueOK, RecordDone, At, GoTo, storage, shown, sync,
         history
    <2>3. HeldOK'
      BY <1>4, OwnersType DEF Typed, HeldOK, JobsOK, RecordDone, At, GoTo, storage, shown,
         sync, history
    <2>4. PagesOK'
      BY <1>4, OwnersType DEF Typed, PagesOK, RecordDone, At, GoTo, storage, shown, sync,
         history
    <2>5. StoreOK'
      <3>1. activity' \in [done : SUBSET Types, ok : BOOLEAN]
        BY <1>4, ResultType DEF Typed, JobsOK, JobOK, RecordDone, At
      <3> QED
        BY <1>4, <3>1 DEF Typed, StoreOK, RecordDone, storage, shown, sync, history
    <2> QED
      BY <2>1, <2>2, <2>3, <2>4, <2>5 DEF Typed
  <1>5. CASE RecordFailed(o)
    <2>1. JobsOK'
      BY <1>5, OwnersType DEF Typed, JobsOK, JobOK, JobType, Stages, RecordFailed, At, GoTo,
         storage, shown, sync, history, Finish
    <2>2. QueueOK'
      BY <1>5, OwnersType DEF Typed, QueueOK, RecordFailed, At, GoTo, storage, shown, sync,
         history, Finish
    <2>3. HeldOK'
      BY <1>5, OwnersType DEF Typed, HeldOK, JobsOK, RecordFailed, At, GoTo, storage, shown,
         sync, history, Finish
    <2>4. PagesOK'
      BY <1>5, OwnersType DEF Typed, PagesOK, RecordFailed, At, GoTo, storage, shown, sync,
         history, Finish
    <2>5. StoreOK'
      <3>1. activity' \in [done : SUBSET Types, ok : BOOLEAN]
        BY <1>5, ResultType DEF Typed, JobsOK, JobOK, RecordFailed, At
      <3> QED
        BY <1>5, <3>1 DEF Typed, StoreOK, RecordFailed, storage, shown, sync, history, Finish
    <2> QED
      BY <2>1, <2>2, <2>3, <2>4, <2>5 DEF Typed
  <1>6. CASE ClearPending(o)
    <2>1. JobsOK'
      BY <1>6, OwnersType DEF Typed, JobsOK, JobOK, JobType, Stages, ClearPending, At, GoTo,
         storage, shown, sync, history
    <2>2. QueueOK'
      BY <1>6, OwnersType DEF Typed, QueueOK, ClearPending, At, GoTo, storage, shown, sync,
         history
    <2>3. HeldOK'
      BY <1>6, OwnersType DEF Typed, HeldOK, JobsOK, ClearPending, At, GoTo, storage, shown,
         sync, history
    <2>4. PagesOK'
      BY <1>6, OwnersType DEF Typed, PagesOK, ClearPending, At, GoTo, storage, shown, sync,
         history
    <2>5. StoreOK'
      BY <1>6, OwnersType DEF Typed, StoreOK, ClearPending, At, GoTo, storage, shown, sync,
         history
    <2> QED
      BY <2>1, <2>2, <2>3, <2>4, <2>5 DEF Typed
  <1>7. CASE ChooseFollowUp(o)
    <2>1. JobsOK'
      BY <1>7, OwnersType DEF Typed, JobsOK, JobOK, JobType, Stages, ChooseFollowUp, At,
         GoTo, storage, shown, sync, history, Fail, Finish
    <2>2. QueueOK'
      BY <1>7, OwnersType DEF Typed, QueueOK, ChooseFollowUp, At, GoTo, storage, shown,
         sync, history, Fail, Finish
    <2>3. HeldOK'
      BY <1>7, OwnersType DEF Typed, HeldOK, JobsOK, ChooseFollowUp, At, GoTo, storage,
         shown, sync, history, Fail, Finish
    <2>4. PagesOK'
      BY <1>7, OwnersType DEF Typed, PagesOK, ChooseFollowUp, At, GoTo, storage, shown,
         sync, history, Fail, Finish
    <2>5. StoreOK'
      BY <1>7, OwnersType DEF Typed, StoreOK, ChooseFollowUp, At, GoTo, storage, shown,
         sync, history, Fail, Finish
    <2> QED
      BY <2>1, <2>2, <2>3, <2>4, <2>5 DEF Typed
  <1>8. CASE CloseWindows(o)
    <2>1. JobsOK'
      <3> DEFINE j == [job[o] EXCEPT !.at = "reread"]
      <3>1. job[o] \in JobType /\ JobOK(o, job[o])
        BY OwnersType DEF Typed, JobsOK
      <3>2. j \in JobType
        BY <3>1 DEF JobType, Stages
      <3>3. JobOK(o, j)
        BY <1>8, <3>1 DEF JobOK, JobType, CloseWindows, At
      <3>4. job' = [job EXCEPT ![o] = j]
        BY <1>8 DEF Typed, JobsOK, CloseWindows, Finish, GoTo
      <3> QED
        BY <3>2, <3>3, <3>4, JobBecomes, OwnersType DEF Typed
    <2>2. QueueOK'
      <3> DEFINE f == [i \in DOMAIN queue |-> None]
      <3>1. queue' = [i \in DOMAIN queue |-> [queue[i] EXCEPT !.page = f[i]]]
        BY <1>8 DEF CloseWindows
      <3>2. f \in [DOMAIN queue -> Pages \cup {None}]
        OBVIOUS
      <3> HIDE DEF f
      <3> QED
        BY <3>1, <3>2, QueuePages DEF Typed
    <2>3. HeldOK'
      BY <1>8, OwnersType DEF Typed, HeldOK, JobsOK, CloseWindows, At, GoTo, storage, shown,
         sync, history, Finish
    <2>4. PagesOK'
      <3>1. page' = [q \in Pages |-> ClosedPage]
        BY <1>8 DEF CloseWindows
      <3>2. ClosedPage \in PageType
        BY DEF ClosedPage, PageType, SomeSettings
      <3> QED
        BY <3>1, <3>2 DEF PagesOK
    <2>5. StoreOK'
      <3>1. late' \in Nat /\ ignored' \in Nat
        BY <1>8, ActsType DEF Typed, CloseWindows
      <3> QED
        BY <1>8, <3>1 DEF Typed, StoreOK, CloseWindows, storage, shown, sync, history, Finish
    <2> QED
      BY <2>1, <2>2, <2>3, <2>4, <2>5 DEF Typed
  <1>9. CASE CloseFails(o)
    <2>1. JobsOK'
      <3> DEFINE j == [job[o] EXCEPT !.at = "failed", !.kind = "failed"]
      <3>1. job[o] \in JobType /\ JobOK(o, job[o])
        BY OwnersType DEF Typed, JobsOK
      <3>2. j \in JobType
        BY <3>1 DEF JobType, Stages
      <3>3. JobOK(o, j)
        BY <1>9, <3>1 DEF JobOK, JobType, CloseFails, At
      <3>4. job' = [job EXCEPT ![o] = j]
        BY <1>9 DEF Typed, JobsOK, CloseFails, Fail
      <3> QED
        BY <3>2, <3>3, <3>4, JobBecomes, OwnersType DEF Typed
    <2>2. QueueOK'
      BY <1>9, OwnersType DEF Typed, QueueOK, CloseFails, At, GoTo, storage, shown, sync,
         history, Fail
    <2>3. HeldOK'
      BY <1>9, OwnersType DEF Typed, HeldOK, JobsOK, CloseFails, At, GoTo, storage, shown,
         sync, history, Fail
    <2>4. PagesOK'
      BY <1>9, OwnersType DEF Typed, PagesOK, CloseFails, At, GoTo, storage, shown, sync,
         history, Fail
    <2>5. StoreOK'
      <3>1. Spend("events")
        BY <1>9 DEF CloseFails
      <3>2. spent' \in Nat
        BY <3>1, SpendType DEF Typed
      <3> QED
        BY <1>9, <3>2 DEF Typed, StoreOK, CloseFails, storage, shown, sync, history
    <2> QED
      BY <2>1, <2>2, <2>3, <2>4, <2>5 DEF Typed
  <1>10. CASE ReloadTab(o)
    <2>1. JobsOK'
      BY <1>10, OwnersType DEF Typed, JobsOK, JobOK, JobType, Stages, ReloadTab, At, GoTo,
         storage, shown, sync, history, Finish
    <2>2. QueueOK'
      BY <1>10, OwnersType DEF Typed, QueueOK, ReloadTab, At, GoTo, storage, shown, sync,
         history, Finish
    <2>3. HeldOK'
      BY <1>10, OwnersType DEF Typed, HeldOK, JobsOK, ReloadTab, At, GoTo, storage, shown,
         sync, history, Finish
    <2>4. PagesOK'
      BY <1>10, OwnersType DEF Typed, PagesOK, ReloadTab, At, GoTo, storage, shown, sync,
         history, Finish
    <2>5. StoreOK'
      <3>1. late' \in Nat /\ ignored' \in Nat
        BY <1>10, ActsType DEF Typed, ReloadTab
      <3> QED
        BY <1>10, <3>1 DEF Typed, StoreOK, ReloadTab, storage, shown, sync, history, Finish
    <2> QED
      BY <2>1, <2>2, <2>3, <2>4, <2>5 DEF Typed
  <1>11. CASE ReadAgain(o)
    <2>1. StoreOK'
      BY <1>11 DEF Typed, StoreOK, ReadAgain, storage, shown, sync, history
    <2>2. o = Worker => queue # <<>>
      BY <1>11 DEF Typed, HeldOK, ReadAgain, At
    <2>3. CASE GiveUp(o)
      BY <2>1, <2>2, <2>3, GiveUpTyped DEF Typed
    <2>4. CASE job' = [job EXCEPT ![o].at = "clear", ![o].set = settings] /\ UNCHANGED <<queue, page>>
      <3> DEFINE j == [job[o] EXCEPT !.at = "clear", !.set = settings]
      <3>0. job[o] \in JobType /\ JobOK(o, job[o]) /\ settings \in SettingsType
        BY DEF Typed, JobsOK, StoreOK
      <3>1. j \in JobType /\ JobOK(o, j)
        <4>1. j \in JobType
          BY <3>0 DEF JobType, Stages, SomeSettings
        <4>2. JobOK(o, j)
          BY <3>0 DEF JobOK, JobType
        <4> QED
          BY <4>1, <4>2
      <3>2. job' = [job EXCEPT ![o] = j]
        BY <2>4 DEF Typed, JobsOK
      <3> QED
        BY <2>1, <2>2, <2>4, <3>1, <3>2, StepTyped DEF Typed
    <2> QED
      BY <1>11, <2>3, <2>4 DEF ReadAgain
  <1> QED
    BY <1>1, <1>2, <1>3, <1>4, <1>5, <1>6, <1>7, <1>8, <1>9, <1>10, <1>11 DEF Cleanup

\* The steps of the queue keep Typed.
LEMMA TypedQueued ==
    ASSUME Typed, Queued
    PROVE  Typed'
  <1>1. CASE StartSave
    <2>1. StoreOK'
      BY <1>1 DEF Typed, StoreOK, StartSave, storage, shown, sync, history
    <2>2. queue # <<>>
      BY <1>1 DEF StartSave, Starts
    <2> DEFINE s == IF Starts("save") THEN Head(queue).set ELSE settings
    <2>3. s \in SettingsOf(Entry)
      BY <2>2, QueueHead, StoredAreEntries DEF Starts, Typed, StoreOK, SettingsType
    <2>4. \/ Release
          \/ /\ SettingsOK(s) /\ UNCHANGED <<queue, page>>
             /\ job' = [job EXCEPT ![Worker].at = "write", ![Worker].set = Normal(s)]
      BY <1>1 DEF StartSave
    <2> HIDE DEF s
    <2>5. CASE Release
      BY <2>1, <2>2, <2>5, ReleaseTyped DEF Typed
    <2>6. CASE ~Release
      <3> DEFINE j == [job[Worker] EXCEPT !.at = "write", !.set = Normal(s)]
      <3>0. job[Worker] \in JobType /\ JobOK(Worker, job[Worker]) /\ Normal(s) \in SettingsType
        BY <2>3, <2>4, <2>6, NormalType, OwnersType DEF Typed, JobsOK, StoreOK, SettingsType
      <3>1. j \in JobType /\ JobOK(Worker, j)
        <4>1. j \in JobType
          BY <3>0 DEF JobType, Stages, SomeSettings
        <4>2. JobOK(Worker, j)
          BY <3>0 DEF JobOK, JobType
        <4> QED
          BY <4>1, <4>2
      <3>2. job' = [job EXCEPT ![Worker] = j]
        BY <1>1, <2>4, <2>6, OwnersType DEF Typed, JobsOK
      <3> QED
        BY <1>1, <2>4, <2>6, <2>1, <2>2, <3>1, <3>2, OwnersType, StepTyped DEF Typed
    <2> QED
      BY <2>5, <2>6
  <1>2. CASE WriteSettings
    <2>1. JobsOK'
      BY <1>2, OwnersType DEF Typed, JobsOK, JobOK, JobType, Stages, WriteSettings, At,
         GoTo, storage, shown, sync, history
    <2>2. QueueOK'
      BY <1>2, OwnersType DEF Typed, QueueOK, WriteSettings, At, GoTo, storage, shown, sync,
         history
    <2>3. HeldOK'
      BY <1>2, OwnersType DEF Typed, HeldOK, JobsOK, WriteSettings, At, GoTo, storage,
         shown, sync, history
    <2>4. PagesOK'
      BY <1>2, OwnersType DEF Typed, PagesOK, WriteSettings, At, GoTo, storage, shown, sync,
         history
    <2>5. StoreOK'
      <3>1. settings' \in SettingsType
        BY <1>2, OwnersType DEF Typed, JobsOK, JobOK, WriteSettings, At
      <3> QED
        BY <1>2, <3>1 DEF Typed, StoreOK, WriteSettings, shown, sync
    <2> QED
      BY <2>1, <2>2, <2>3, <2>4, <2>5 DEF Typed
  <1>3. CASE Publish
    <2>1. queue # <<>> /\ Release /\ job[Worker].set \in SettingsType
      BY <1>3, OwnersType DEF Typed, HeldOK, JobsOK, JobOK, Publish, At
    <2>2. cloud' \in SomeSettings /\ published' \in Seq(SettingsType)
      <3>1. cloud' \in SomeSettings
        BY <1>3, <2>1, SharedType DEF Publish, SomeSettings, SettingsType
      <3>2. UNCHANGED published \/ (cloud' \in SettingsType /\ published' = Append(published, cloud'))
        BY <1>3, <3>1 DEF Publish, SomeSettings
      <3>3. published \in Seq(SettingsType)
        BY DEF Typed, StoreOK
      <3> QED
        BY <3>1, <3>2, <3>3, AppendProperties
    <2>3. StoreOK'
      BY <1>3, <2>2 DEF Typed, StoreOK, Publish, storage, shown, history
    <2> QED
      BY <2>1, <2>3, ReleaseTyped DEF Typed
  <1>4. CASE ReceiveSync
    <2>1. StoreOK'
      BY <1>4 DEF Typed, StoreOK, ReceiveSync, storage, shown, sync, history
    <2>2. queue # <<>>
      BY <1>4 DEF ReceiveSync, Starts
    <2> DEFINE s == Head(queue).set
    <2>3. s \in SettingsOf(Entry)
      BY <1>4, <2>2, QueueHead DEF ReceiveSync, Starts, Typed
    <2>4. \/ Release
          \/ /\ SettingsOK(s) /\ UNCHANGED <<queue, page>>
             /\ job' = [job EXCEPT ![Worker].at = "write", ![Worker].set = Normal(Shared(s))]
      BY <1>4 DEF ReceiveSync
    <2>5. SettingsOK(s) => SettingsOK(Shared(s))
      BY <2>3 DEF SettingsOK, Ids, Shared, NoAutomation, SettingsOf
    <2> HIDE DEF s
    <2>6. SettingsOK(s) => Normal(Shared(s)) \in SettingsType
      BY <2>3, <2>5, SharedType, NormalType DEF SettingsType
    <2>7. CASE Release
      BY <2>1, <2>2, <2>7, ReleaseTyped DEF Typed
    <2>8. CASE ~Release
      <3> DEFINE j == [job[Worker] EXCEPT !.at = "write", !.set = Normal(Shared(s))]
      <3>0. job[Worker] \in JobType /\ JobOK(Worker, job[Worker]) /\ Normal(Shared(s)) \in SettingsType
        BY <2>4, <2>6, <2>8, OwnersType DEF Typed, JobsOK, StoreOK, SettingsType
      <3>1. j \in JobType /\ JobOK(Worker, j)
        <4>1. j \in JobType
          BY <3>0 DEF JobType, Stages, SomeSettings
        <4>2. JobOK(Worker, j)
          BY <3>0 DEF JobOK, JobType
        <4> QED
          BY <4>1, <4>2
      <3>2. job' = [job EXCEPT ![Worker] = j]
        BY <1>4, <2>4, <2>8, OwnersType DEF Typed, JobsOK
      <3> QED
        BY <1>4, <2>4, <2>8, <2>1, <2>2, <3>1, <3>2, OwnersType, StepTyped DEF Typed
    <2> QED
      BY <2>7, <2>8
  <1>5. CASE StartUp
    <2>1. StoreOK'
      BY <1>5 DEF Typed, StoreOK, StartUp, storage, shown, sync, history
    <2>2. queue # <<>>
      BY <1>5 DEF StartUp, Starts
    <2>3. CASE Release
      BY <2>1, <2>2, <2>3, ReleaseTyped DEF Typed
    <2>4. CASE job' = [job EXCEPT ![Worker].at = "clear", ![Worker].set = settings] /\ UNCHANGED <<queue, page>>
      <3> DEFINE j == [job[Worker] EXCEPT !.at = "clear", !.set = settings]
      <3>0. job[Worker] \in JobType /\ JobOK(Worker, job[Worker]) /\ settings \in SettingsType
        BY OwnersType DEF Typed, JobsOK, StoreOK, SettingsType
      <3>1. j \in JobType /\ JobOK(Worker, j)
        <4>1. j \in JobType
          BY <3>0 DEF JobType, Stages, SomeSettings
        <4>2. JobOK(Worker, j)
          BY <3>0 DEF JobOK, JobType
        <4> QED
          BY <4>1, <4>2
      <3>2. job' = [job EXCEPT ![Worker] = j]
        BY <1>5, <2>4, OwnersType DEF Typed, JobsOK
      <3> QED
        BY <1>5, <2>4, <2>1, <2>2, <3>1, <3>2, OwnersType, StepTyped DEF Typed
    <2> QED
      BY <1>5, <2>3, <2>4 DEF StartUp
  <1>6. CASE Automate
    <2>1. queue # <<>>
      BY <1>6 DEF Automate, Starts, Typed, HeldOK, At
    <2>2. CASE Release /\ UNCHANGED <<running, history>>
      <3>1. StoreOK'
        BY <1>6, <2>2 DEF Typed, StoreOK, Automate, storage, shown, sync, history
      <3> QED
        BY <2>1, <2>2, <3>1, ReleaseTyped DEF Typed
    <2>3. CASE GoTo(Worker, "defer") /\ UNCHANGED <<running, queue, page, history>>
      <3>1. StoreOK'
        BY <1>6, <2>3 DEF Typed, StoreOK, Automate, storage, shown, sync, history
      <3>2. JobOK(Worker, [job[Worker] EXCEPT !.at = "defer"]) /\ "defer" \in Stages
        BY OwnersType DEF Typed, JobsOK, JobOK, JobType, Stages
      <3> QED
        BY <2>1, <2>3, <3>1, <3>2, OwnersType, GoToTyped DEF Typed
    <2>4. CASE Due /\ ~AutomaticPlan(settings).usesActive /\ Launch(Worker, AutomaticPlan(settings), None)
      <3>1. AutomaticPlan(settings) \in PlanType
        BY <2>4, AutomaticPlanType DEF Typed, Due
      <3>2. None \in SomePlan
        BY DEF SomePlan
      <3>3. /\ JobsOK' /\ QueueOK' /\ HeldOK' /\ PagesOK'
            /\ running' \in BOOLEAN /\ late' \in Nat /\ ignored' \in Nat
        BY <2>1, <2>4, <3>1, <3>2, OwnersType, LaunchTyped
      <3>4. StoreOK'
        BY <1>6, <3>3 DEF Typed, StoreOK, Automate, storage, shown, sync
      <3> QED
        BY <3>3, <3>4 DEF Typed
    <2> QED
      BY <1>6, <2>2, <2>3, <2>4 DEF Automate
  <1>7. CASE DeferToUser
    <2>1. JobsOK'
      BY <1>7, OwnersType DEF Typed, JobsOK, JobOK, JobType, Stages, DeferToUser, At, GoTo,
         storage, shown, sync, history
    <2>2. QueueOK'
      BY <1>7, OwnersType DEF Typed, QueueOK, DeferToUser, At, GoTo, storage, shown, sync,
         history
    <2>3. HeldOK'
      BY <1>7, OwnersType DEF Typed, HeldOK, JobsOK, DeferToUser, At, GoTo, storage, shown,
         sync, history
    <2>4. PagesOK'
      BY <1>7, OwnersType DEF Typed, PagesOK, DeferToUser, At, GoTo, storage, shown, sync,
         history
    <2>5. StoreOK'
      <3> QED
        BY <1>7 DEF Typed, StoreOK, DeferToUser, shown, sync, history
    <2> QED
      BY <2>1, <2>2, <2>3, <2>4, <2>5 DEF Typed
  <1>8. CASE MarkBadge
    <2>1. StoreOK'
      BY <1>8 DEF Typed, StoreOK, MarkBadge, storage, sync, history
    <2>2. queue # <<>> /\ Release
      BY <1>8 DEF Typed, HeldOK, MarkBadge, At
    <2> QED
      BY <2>1, <2>2, ReleaseTyped DEF Typed
  <1> QED
    BY <1>1, <1>2, <1>3, <1>4, <1>5, <1>6, <1>7, <1>8 DEF Queued

\* The steps of requests keep Typed.
LEMMA TypedRequest ==
    ASSUME Typed, NEW p \in Pages, Request(p)
    PROVE  Typed'
  <1>1. CASE ReadForPreview(p)
    <2>1. StoreOK'
      BY <1>1 DEF Typed, StoreOK, ReadForPreview, storage, shown, sync, history
    <2>2. CASE Refuse(p)
      <3>1. UNCHANGED queue
        BY <1>1 DEF ReadForPreview
      <3>2. QueueOK'
        BY <3>1 DEF Typed, QueueOK
      <3> QED
        BY <2>1, <2>2, <3>1, <3>2, RefuseTyped DEF Typed
    <2>3. CASE job' = [job EXCEPT ![p].at = "target", ![p].set = settings] /\ UNCHANGED page
      <3> DEFINE j == [job[p] EXCEPT !.at = "target", !.set = settings]
      <3>0. job[p] \in JobType /\ JobOK(p, job[p]) /\ settings \in SettingsType /\ p # Worker
        BY OwnersType DEF Typed, JobsOK, StoreOK
      <3>1. j \in JobType /\ JobOK(p, j)
        <4>1. j \in JobType
          BY <3>0 DEF JobType, Stages, SomeSettings
        <4>2. JobOK(p, j)
          BY <3>0 DEF JobOK, JobType
        <4> QED
          BY <4>1, <4>2
      <3>2. job' = [job EXCEPT ![p] = j] /\ UNCHANGED <<queue, page>>
        BY <1>1, <2>3, OwnersType DEF Typed, JobsOK, ReadForPreview
      <3> QED
        BY <2>1, <3>1, <3>2, OwnersType, StepTyped DEF Typed
    <2> QED
      BY <1>1, <2>2, <2>3 DEF ReadForPreview
  <1>2. CASE MakePlan(p)
    <2> DEFINE s == job[p].set
               id == IF job[p].preset = None THEN s.activePreset ELSE job[p].preset
               plan == Plan(s.presets[id], url)
    <2>1. s \in SettingsType /\ url \in Urls
      BY <1>2, OwnersType DEF Typed, JobsOK, JobOK, StoreOK, MakePlan, At
    <2>2. id \in Ids(s) /\ PlanOK(s.presets[id], url) => plan \in PlanType
      <3> HAVE id \in Ids(s) /\ PlanOK(s.presets[id], url)
      <3>1. s.presets[id] \in PresetOf(Origin)
        BY <2>1 DEF Ids, SettingsType, SettingsOf
      <3> QED
        BY <2>1, <3>1, PlanTyped DEF PlanOK
    <2>3. /\ UNCHANGED <<storage, shown, sync, running, queue, url, spent, history>>
          /\ \/ Refuse(p) /\ UNCHANGED tickets
             \/ /\ plan \in PlanType /\ tickets' = None /\ UNCHANGED page
                /\ job' = [job EXCEPT ![p].at = "verify", ![p].plan = plan, ![p].url = url]
             \/ /\ plan \in PlanType /\ NewToken \in Tokens \ UsedTokens
                /\ tickets' = [token |-> NewToken, plan |-> plan, url |-> url, set |-> s, fresh |-> TRUE]
                /\ Reply(p, page[p].snap, [token |-> NewToken, plan |-> plan])
      BY <1>2, <2>2 DEF MakePlan
    <2>4. QueueOK'
      BY <2>3 DEF Typed, QueueOK
    <2> HIDE DEF s, id, plan
    <2>5. CASE Refuse(p) /\ UNCHANGED tickets
      <3>1. StoreOK'
        BY <2>3, <2>5 DEF Typed, StoreOK, storage, shown, sync, history
      <3> QED
        BY <2>3, <2>4, <2>5, <3>1, RefuseTyped DEF Typed
    <2>6. CASE /\ plan \in PlanType /\ tickets' = None /\ UNCHANGED page
               /\ job' = [job EXCEPT ![p].at = "verify", ![p].plan = plan, ![p].url = url]
      <3> DEFINE j == [job[p] EXCEPT !.at = "verify", !.plan = plan, !.url = url]
      <3>0. job[p] \in JobType /\ job[p].set \in SettingsType /\ p # Worker
        BY <2>1, OwnersType DEF Typed, JobsOK, s
      <3>1. j \in JobType /\ JobOK(p, j)
        <4>1. j \in JobType
          BY <2>1, <2>6, <3>0 DEF JobType, Stages, SomePlan
        <4>2. JobOK(p, j)
          BY <2>6, <3>0 DEF JobOK, JobType
        <4> QED
          BY <4>1, <4>2
      <3>2. job' = [job EXCEPT ![p] = j]
        BY <2>6, OwnersType DEF Typed, JobsOK
      <3>3. StoreOK'
        BY <2>3, <2>6 DEF Typed, StoreOK, storage, shown, sync, history
      <3> QED
        BY <2>3, <2>6, <3>1, <3>2, <3>3, OwnersType, StepTyped DEF Typed
    <2>7. CASE /\ plan \in PlanType /\ NewToken \in Tokens \ UsedTokens
               /\ tickets' = [token |-> NewToken, plan |-> plan, url |-> url, set |-> s, fresh |-> TRUE]
               /\ Reply(p, page[p].snap, [token |-> NewToken, plan |-> plan])
      <3>1. tickets' \in TicketType
        BY <2>1, <2>7 DEF TicketType
      <3>2. StoreOK'
        BY <2>3, <3>1 DEF Typed, StoreOK, storage, shown, sync, history
      <3>3. page[p].snap \in SomeSettings /\ [token |-> NewToken, plan |-> plan] \in ReviewType
        BY <2>7 DEF Typed, PagesOK, PageType, ReviewType
      <3> QED
        BY <2>3, <2>4, <2>7, <3>2, <3>3, ReplyTyped DEF Typed
    <2> QED
      BY <2>3, <2>5, <2>6, <2>7
  <1>3. CASE Verify(p)
    <2>1. job[p].plan \in PlanType /\ job[p].set \in SettingsType /\ job[p].reviewed \in SomePlan /\ p # Worker
      BY <1>3, OwnersType DEF Typed, JobsOK, JobOK, JobType, Verify, At
    <2>2. CASE Refuse(p) /\ UNCHANGED <<running, queue, history>>
      <3>1. StoreOK' /\ QueueOK'
        BY <1>3, <2>2 DEF Typed, StoreOK, QueueOK, Verify, storage, shown, sync, history
      <3> QED
        BY <2>2, <3>1, RefuseTyped DEF Typed
    <2>3. CASE job' = [job EXCEPT ![p].at = "tab"] /\ UNCHANGED <<running, queue, page, history>>
      <3>1. StoreOK'
        BY <1>3, <2>3 DEF Typed, StoreOK, Verify, storage, shown, sync, history
      <3>2. GoTo(p, "tab") /\ "tab" \in Stages /\ JobOK(p, [job[p] EXCEPT !.at = "tab"])
        BY <2>1, <2>3, OwnersType DEF GoTo, Stages, JobOK, JobType, Typed, JobsOK
      <3> QED
        BY <2>1, <2>3, <3>1, <3>2, OwnersType, GoToTyped DEF Typed
    <2>4. CASE Launch(p, job[p].plan, job[p].reviewed)
      <3>1. /\ JobsOK' /\ QueueOK' /\ HeldOK' /\ PagesOK'
            /\ running' \in BOOLEAN /\ late' \in Nat /\ ignored' \in Nat
        BY <2>1, <2>4, OwnersType, LaunchTyped
      <3>2. StoreOK'
        BY <1>3, <3>1 DEF Typed, StoreOK, Verify, storage, shown, sync
      <3> QED
        BY <3>1, <3>2 DEF Typed
    <2> QED
      BY <1>3, <2>2, <2>3, <2>4 DEF Verify
  <1>4. CASE CheckTab(p)
    <2>1. job[p].plan \in PlanType /\ job[p].reviewed \in SomePlan /\ p # Worker
      BY <1>4, OwnersType DEF Typed, JobsOK, JobOK, JobType, CheckTab, At
    <2>2. CASE Refuse(p) /\ UNCHANGED <<running, queue, history>>
      <3>1. StoreOK' /\ QueueOK'
        BY <1>4, <2>2 DEF Typed, StoreOK, QueueOK, CheckTab, storage, shown, sync, history
      <3> QED
        BY <2>2, <3>1, RefuseTyped DEF Typed
    <2>3. CASE Launch(p, job[p].plan, job[p].reviewed)
      <3>1. /\ JobsOK' /\ QueueOK' /\ HeldOK' /\ PagesOK'
            /\ running' \in BOOLEAN /\ late' \in Nat /\ ignored' \in Nat
        BY <2>1, <2>3, OwnersType, LaunchTyped
      <3>2. StoreOK'
        BY <1>4, <3>1 DEF Typed, StoreOK, CheckTab, storage, shown, sync
      <3> QED
        BY <3>1, <3>2 DEF Typed
    <2> QED
      BY <1>4, <2>2, <2>3 DEF CheckTab
  <1> QED
    BY <1>1, <1>2, <1>3, <1>4 DEF Request

\* The steps of users keep Typed.
LEMMA TypedUser ==
    ASSUME Typed, NEW p \in Pages, User(p)
    PROVE  Typed'
  <1>1. CASE Open(p)
    <2>1. JobsOK'
      BY <1>1, OwnersType DEF Typed, JobsOK, JobOK, JobType, Stages, Open, At, GoTo,
         storage, shown, sync, history
    <2>2. QueueOK'
      BY <1>1, OwnersType DEF Typed, QueueOK, Open, At, GoTo, storage, shown, sync, history
    <2>3. HeldOK'
      BY <1>1, OwnersType DEF Typed, HeldOK, JobsOK, Open, At, GoTo, storage, shown, sync,
         history
    <2>4. PagesOK'
      BY <1>1 DEF Typed, PagesOK, PageType, StoreOK, SomeSettings, Open
    <2>5. StoreOK'
      BY <1>1, OwnersType DEF Typed, StoreOK, Open, At, GoTo, storage, shown, sync, history
    <2> QED
      BY <2>1, <2>2, <2>3, <2>4, <2>5 DEF Typed
  <1>2. CASE Close(p)
    <2>1. JobsOK'
      BY <1>2, OwnersType DEF Typed, JobsOK, JobOK, JobType, Stages, Close, At, GoTo,
         storage, shown, sync, history
    <2>2. QueueOK'
      <3> DEFINE f == [i \in DOMAIN queue |-> IF queue[i].page = p THEN None ELSE queue[i].page]
      <3>1. queue' = [i \in DOMAIN queue |-> [queue[i] EXCEPT !.page = f[i]]]
        BY <1>2 DEF Close
      <3>2. f \in [DOMAIN queue -> Pages \cup {None}]
        <4>1. \A i \in DOMAIN queue : queue[i] \in OperationType
          BY DEF Typed, QueueOK
        <4>2. \A i \in DOMAIN queue : f[i] \in Pages \cup {None}
          BY <4>1 DEF OperationType
        <4> QED
          BY <4>2
      <3> HIDE DEF f
      <3> QED
        BY <3>1, <3>2, QueuePages DEF Typed
    <2>3. HeldOK'
      BY <1>2, OwnersType DEF Typed, HeldOK, JobsOK, Close, At, GoTo, storage, shown, sync,
         history
    <2>4. PagesOK'
      <3>1. ClosedPage \in PageType
        BY DEF ClosedPage, PageType, SomeSettings
      <3> QED
        BY <1>2, <3>1 DEF Typed, PagesOK, Close
    <2>5. StoreOK'
      <3>1. Spend("events")
        BY <1>2 DEF Close
      <3>2. spent' \in Nat
        BY <3>1, SpendType DEF Typed
      <3> QED
        BY <1>2, <3>2 DEF Typed, StoreOK, Close, storage, shown, sync, history
    <2> QED
      BY <2>1, <2>2, <2>3, <2>4, <2>5 DEF Typed
  <1>3. CASE Confirm(p)
    <2>1. JobsOK'
      <3> DEFINE review == page[p].review
                 match == tickets # None /\ tickets.token = review.token
                 j == [IdleJob EXCEPT !.at = "verify", !.kind = "execute", !.set = tickets.set,
                                      !.plan = tickets.plan, !.url = tickets.url, !.reviewed = review.plan]
      <3>1. \/ UNCHANGED job
            \/ tickets # None /\ review # None /\ job' = [job EXCEPT ![p] = j]
        BY <1>3 DEF Confirm
      <3>2. CASE UNCHANGED job
        BY <3>2 DEF Typed, JobsOK
      <3>3. CASE tickets # None /\ review # None /\ job' = [job EXCEPT ![p] = j]
        <4>1. tickets \in TicketType /\ review \in ReviewType
          BY <3>3 DEF Typed, StoreOK, PagesOK, PageType, ReviewType
        <4>2. j \in JobType /\ JobOK(p, j)
          BY <4>1, OwnersType DEF JobType, JobOK, IdleJob, Stages, SomePlan, SomeSettings, TicketType, ReviewType
        <4> QED
          BY <3>3, <4>2, OwnersType, JobBecomes DEF Typed
      <3> QED
        BY <3>1, <3>2, <3>3
    <2>2. QueueOK'
      BY <1>3, OwnersType DEF Typed, QueueOK, Confirm, At, GoTo, storage, shown, sync,
         history
    <2>3. HeldOK'
      BY <1>3, OwnersType DEF Typed, HeldOK, JobsOK, Confirm, At, GoTo, storage, shown,
         sync, history
    <2>4. PagesOK'
      <3>1. \/ page' = [page EXCEPT ![p].review = None, ![p].busy = TRUE]
            \/ page' = [page EXCEPT ![p].review = None]
        BY <1>3 DEF Confirm
      <3> QED
        BY <3>1 DEF Typed, PagesOK, PageType
    <2>5. StoreOK'
      <3>1. Spend("clicks")
        BY <1>3 DEF Confirm
      <3>2. spent' \in Nat
        BY <3>1, SpendType DEF Typed
      <3> QED
        BY <1>3, <3>2 DEF Typed, StoreOK, Confirm, storage, shown, sync, history
    <2> QED
      BY <2>1, <2>2, <2>3, <2>4, <2>5 DEF Typed
  <1>4. CASE Cancel(p)
    <2>1. JobsOK'
      BY <1>4, OwnersType DEF Typed, JobsOK, JobOK, JobType, Stages, Cancel, At, GoTo,
         storage, shown, sync, history
    <2>2. QueueOK'
      BY <1>4, OwnersType DEF Typed, QueueOK, Cancel, At, GoTo, storage, shown, sync,
         history
    <2>3. HeldOK'
      BY <1>4, OwnersType DEF Typed, HeldOK, JobsOK, Cancel, At, GoTo, storage, shown, sync,
         history
    <2>4. PagesOK'
      BY <1>4 DEF Typed, PagesOK, PageType, Cancel
    <2>5. StoreOK'
      BY <1>4, OwnersType DEF Typed, StoreOK, Cancel, At, GoTo, storage, shown, sync,
         history
    <2> QED
      BY <2>1, <2>2, <2>3, <2>4, <2>5 DEF Typed
  <1>5. CASE Switch(p)
    <2> DEFINE op == Operation("save", [page[p].snap EXCEPT !.enabled = ~page[p].snap.enabled], p, TRUE)
    <2>1. page[p].snap \in SettingsType
      BY <1>5 DEF Switch, Typed, PagesOK, PageType, SomeSettings
    <2>2. [page[p].snap EXCEPT !.enabled = ~page[p].snap.enabled] \in SettingsOf(Entry)
      BY <2>1, StoredAreEntries DEF SettingsType, SettingsOf
    <2>3. op \in OperationType /\ op.set \in SettingsOf(Entry)
      BY <2>2 DEF Operation, OperationType
    <2>4. Serialized(op) /\ UNCHANGED job
      BY <1>5 DEF Switch
    <2> HIDE DEF op
    <2>5. QueueOK' /\ HeldOK'
      BY <2>3, <2>4, QueueAppend DEF Typed, HeldOK
    <2>6. JobsOK'
      BY <2>4 DEF Typed, JobsOK
    <2>7. PagesOK'
      BY <1>5 DEF Switch, Typed, PagesOK, PageType
    <2>8. StoreOK'
      <3>1. Spend("clicks")
        BY <1>5 DEF Switch
      <3>2. spent' \in Nat
        BY <3>1, SpendType DEF Typed
      <3> QED
        BY <1>5, <3>2 DEF Typed, StoreOK, Switch, storage, shown, sync, history
    <2> QED
      BY <2>5, <2>6, <2>7, <2>8 DEF Typed
  <1>6. CASE Submit(p)
    <2>1. page[p].snap \in SettingsType
      BY <1>6 DEF Submit, CanPress, Typed, PagesOK, PageType, SomeSettings
    <2>2. PICK s \in Edits(page[p].snap) : Serialized(Operation("save", s, p, FALSE))
      BY <1>6 DEF Submit
    <2> DEFINE op == Operation("save", s, p, FALSE)
    <2>3. s \in SettingsOf(Entry)
      BY <2>1, EditsType
    <2>4. op \in OperationType /\ op.set \in SettingsOf(Entry)
      BY <2>3 DEF Operation, OperationType
    <2> HIDE DEF op
    <2>5. QueueOK' /\ HeldOK'
      BY <1>6, <2>2, <2>4, QueueAppend DEF Typed, HeldOK, op, Submit
    <2>6. JobsOK'
      BY <1>6 DEF Typed, JobsOK, Submit
    <2>7. PagesOK'
      BY <1>6 DEF Submit, Typed, PagesOK, PageType
    <2>8. StoreOK'
      <3>1. Spend("edits")
        BY <1>6 DEF Submit
      <3>2. spent' \in Nat
        BY <3>1, SpendType DEF Typed
      <3> QED
        BY <1>6, <3>2 DEF Typed, StoreOK, Submit, storage, shown, sync, history
    <2> QED
      BY <2>5, <2>6, <2>7, <2>8 DEF Typed
  <1>7. CASE Review(p)
    <2>1. JobsOK'
      <3> DEFINE j == [job[p] EXCEPT !.at = "preview", !.kind = "preview", !.preset = page[p].snap.activePreset]
      <3>1. page[p].snap \in SettingsType
        BY <1>7 DEF Review, Ask, CanPress, Typed, PagesOK, PageType, SomeSettings
      <3>2. j \in JobType /\ JobOK(p, j)
        <4>1. job[p] \in JobType /\ p # Worker
          BY OwnersType DEF Typed, JobsOK
        <4>2. page[p].snap.activePreset \in PresetIds
          BY <3>1 DEF SettingsType, SettingsOf
        <4>3. j \in JobType
          BY <4>1, <4>2 DEF JobType, Stages
        <4>4. JobOK(p, j)
          BY <4>1 DEF JobOK, JobType
        <4> QED
          BY <4>3, <4>4
      <3>3. job' = [job EXCEPT ![p] = j]
        BY <1>7, OwnersType DEF Review, Ask, Typed, JobsOK
      <3> QED
        BY <3>2, <3>3, OwnersType, JobBecomes DEF Typed
    <2>2. QueueOK'
      BY <1>7, OwnersType DEF Typed, QueueOK, JobsOK, Review, Ask
    <2>3. HeldOK'
      BY <1>7, OwnersType DEF Typed, HeldOK, JobsOK, Review, Ask
    <2>4. PagesOK'
      BY <1>7 DEF Typed, PagesOK, PageType, Review, Ask
    <2>5. StoreOK'
      <3>1. Spend("clicks")
        BY <1>7 DEF Review, Ask
      <3>2. spent' \in Nat
        BY <3>1, SpendType DEF Typed
      <3> QED
        BY <1>7, <3>2 DEF Typed, StoreOK, Review, Ask, storage, shown, sync, history
    <2> QED
      BY <2>1, <2>2, <2>3, <2>4, <2>5 DEF Typed
  <1>8. CASE Clean(p)
    <2>1. JobsOK'
      <3> DEFINE j == [job[p] EXCEPT !.at = "preview", !.kind = "clean", !.preset = None]
      <3>1. page[p].snap \in SettingsType
        BY <1>8 DEF Clean, Ask, CanPress, Typed, PagesOK, PageType, SomeSettings
      <3>2. j \in JobType /\ JobOK(p, j)
        <4>1. job[p] \in JobType /\ p # Worker
          BY OwnersType DEF Typed, JobsOK
        <4>2. page[p].snap.activePreset \in PresetIds
          BY <3>1 DEF SettingsType, SettingsOf
        <4>3. j \in JobType
          BY <4>1, <4>2 DEF JobType, Stages
        <4>4. JobOK(p, j)
          BY <4>1 DEF JobOK, JobType
        <4> QED
          BY <4>3, <4>4
      <3>3. job' = [job EXCEPT ![p] = j]
        BY <1>8, OwnersType DEF Clean, Ask, Typed, JobsOK
      <3> QED
        BY <3>2, <3>3, OwnersType, JobBecomes DEF Typed
    <2>2. QueueOK'
      BY <1>8, OwnersType DEF Typed, QueueOK, JobsOK, Clean, Ask
    <2>3. HeldOK'
      BY <1>8, OwnersType DEF Typed, HeldOK, JobsOK, Clean, Ask
    <2>4. PagesOK'
      BY <1>8 DEF Typed, PagesOK, PageType, Clean, Ask
    <2>5. StoreOK'
      <3>1. Spend("clicks")
        BY <1>8 DEF Clean, Ask
      <3>2. spent' \in Nat
        BY <3>1, SpendType DEF Typed
      <3> QED
        BY <1>8, <3>2 DEF Typed, StoreOK, Clean, Ask, storage, shown, sync, history
    <2> QED
      BY <2>1, <2>2, <2>3, <2>4, <2>5 DEF Typed
  <1> QED
    BY <1>1, <1>2, <1>3, <1>4, <1>5, <1>6, <1>7, <1>8 DEF User

\* The steps of the environment keep Typed.
LEMMA TypedEnvironment ==
    ASSUME Typed, Environment
    PROVE  Typed'
  <1>1. CASE Event
    <2>1. JobsOK'
      BY <1>1, OwnersType DEF Typed, JobsOK, JobOK, JobType, Stages, Event, At, GoTo,
         storage, shown, sync, history
    <2>2. QueueOK'
      <3>1. PICK kind \in {"schedule", "tab-close", "installed"} : Serialized(Operation(kind, None, None, FALSE))
        BY <1>1 DEF Event, AlarmFires, TabCloses, Updated, Trigger
      <3> DEFINE op == Operation(kind, None, None, FALSE)
      <3>2. op \in OperationType /\ op.kind \notin {"save", "sync"}
        BY DEF Operation, OperationType, Sources
      <3> HIDE DEF op
      <3> QED
        BY <1>1, <3>1, <3>2, QueueAppend DEF Typed, HeldOK, op, Event
    <2>3. HeldOK'
      <3>1. PICK kind \in {"schedule", "tab-close", "installed"} : Serialized(Operation(kind, None, None, FALSE))
        BY <1>1 DEF Event, AlarmFires, TabCloses, Updated, Trigger
      <3> DEFINE op == Operation(kind, None, None, FALSE)
      <3>2. op \in OperationType /\ op.kind \notin {"save", "sync"}
        BY DEF Operation, OperationType, Sources
      <3> HIDE DEF op
      <3> QED
        BY <1>1, <3>1, <3>2, QueueAppend DEF Typed, HeldOK, op, Event
    <2>4. PagesOK'
      BY <1>1, OwnersType DEF Typed, PagesOK, Event, At, GoTo, storage, shown, sync, history
    <2>5. StoreOK'
      <3>1. Spend("events")
        BY <1>1 DEF Event
      <3>2. spent' \in Nat
        BY <3>1, SpendType DEF Typed
      <3> QED
        BY <1>1, <3>2 DEF Typed, StoreOK, Event, storage, shown, sync, history
    <2> QED
      BY <2>1, <2>2, <2>3, <2>4, <2>5 DEF Typed
  <1>2. CASE DeliverSync
    <2>1. JobsOK'
      BY <1>2, OwnersType DEF Typed, JobsOK, JobOK, JobType, Stages, DeliverSync, At, GoTo,
         storage, shown, sync, history
    <2>2. QueueOK'
      <3> DEFINE op == Operation("sync", Head(published), None, FALSE)
      <3>1. Head(published) \in SettingsOf(Entry)
        BY <1>2, PublishedHead, StoredAreEntries DEF DeliverSync, SettingsType
      <3>2. op \in OperationType /\ op.set \in SettingsOf(Entry)
        BY <3>1 DEF Operation, OperationType
      <3>3. Serialized(op) /\ UNCHANGED job
        BY <1>2 DEF DeliverSync
      <3> HIDE DEF op
      <3> QED
        BY <3>2, <3>3, QueueAppend DEF Typed, HeldOK
    <2>3. HeldOK'
      <3> DEFINE op == Operation("sync", Head(published), None, FALSE)
      <3>1. Head(published) \in SettingsOf(Entry)
        BY <1>2, PublishedHead, StoredAreEntries DEF DeliverSync, SettingsType
      <3>2. op \in OperationType /\ op.set \in SettingsOf(Entry)
        BY <3>1 DEF Operation, OperationType
      <3>3. Serialized(op) /\ UNCHANGED job
        BY <1>2 DEF DeliverSync
      <3> HIDE DEF op
      <3> QED
        BY <3>2, <3>3, QueueAppend DEF Typed, HeldOK
    <2>4. PagesOK'
      BY <1>2, OwnersType DEF Typed, PagesOK, DeliverSync, At, GoTo, storage, shown, sync,
         history
    <2>5. StoreOK'
      <3>1. published' \in Seq(SettingsType)
        BY <1>2, PublishedHead DEF DeliverSync
      <3> QED
        BY <1>2, <3>1 DEF Typed, StoreOK, DeliverSync, storage, shown, history
    <2> QED
      BY <2>1, <2>2, <2>3, <2>4, <2>5 DEF Typed
  <1>3. CASE ForeignChange
    <2>1. JobsOK'
      BY <1>3, OwnersType DEF Typed, JobsOK, JobOK, JobType, Stages, ForeignChange, At,
         GoTo, storage, shown, sync, history
    <2>2. QueueOK'
      BY <1>3, OwnersType DEF Typed, QueueOK, ForeignChange, At, GoTo, storage, shown, sync,
         history
    <2>3. HeldOK'
      BY <1>3, OwnersType DEF Typed, HeldOK, JobsOK, ForeignChange, At, GoTo, storage,
         shown, sync, history
    <2>4. PagesOK'
      BY <1>3, OwnersType DEF Typed, PagesOK, ForeignChange, At, GoTo, storage, shown, sync,
         history
    <2>5. StoreOK'
      <3>1. Spend("events") /\ spent' \in Nat
        BY <1>3, SpendType DEF ForeignChange, Typed
      <3>2. PICK s \in SettingsType : cloud' = s /\ published' = Append(published, s)
        BY <1>3, SettingsAssumption DEF ForeignChange, SettingsType
      <3>3. cloud' \in SomeSettings /\ published' \in Seq(SettingsType)
        <4>1. published \in Seq(SettingsType)
          BY DEF Typed, StoreOK
        <4> QED
          BY <3>2, <4>1, AppendProperties DEF SomeSettings
      <3> QED
        BY <1>3, <3>1, <3>3 DEF Typed, StoreOK, ForeignChange, storage, shown, history
    <2> QED
      BY <2>1, <2>2, <2>3, <2>4, <2>5 DEF Typed
  <1>4. CASE Navigate
    <2>1. JobsOK'
      BY <1>4, OwnersType DEF Typed, JobsOK, JobOK, JobType, Stages, Navigate, At, GoTo,
         storage, shown, sync, history
    <2>2. QueueOK'
      BY <1>4, OwnersType DEF Typed, QueueOK, Navigate, At, GoTo, storage, shown, sync,
         history
    <2>3. HeldOK'
      BY <1>4, OwnersType DEF Typed, HeldOK, JobsOK, Navigate, At, GoTo, storage, shown,
         sync, history
    <2>4. PagesOK'
      BY <1>4, OwnersType DEF Typed, PagesOK, Navigate, At, GoTo, storage, shown, sync,
         history
    <2>5. StoreOK'
      <3>1. Spend("events")
        BY <1>4 DEF Navigate
      <3>2. spent' \in Nat
        BY <3>1, SpendType DEF Typed
      <3> QED
        BY <1>4, <3>2 DEF Typed, StoreOK, Navigate, storage, shown, sync, history, Urls
    <2> QED
      BY <2>1, <2>2, <2>3, <2>4, <2>5 DEF Typed
  <1>5. CASE Expire
    <2>1. JobsOK'
      BY <1>5, OwnersType DEF Typed, JobsOK, JobOK, JobType, Stages, Expire, At, GoTo,
         storage, shown, sync, history
    <2>2. QueueOK'
      BY <1>5, OwnersType DEF Typed, QueueOK, Expire, At, GoTo, storage, shown, sync,
         history
    <2>3. HeldOK'
      BY <1>5, OwnersType DEF Typed, HeldOK, JobsOK, Expire, At, GoTo, storage, shown, sync,
         history
    <2>4. PagesOK'
      BY <1>5, OwnersType DEF Typed, PagesOK, Expire, At, GoTo, storage, shown, sync,
         history
    <2>5. StoreOK'
      <3>1. Spend("events")
        BY <1>5 DEF Expire
      <3>2. spent' \in Nat
        BY <3>1, SpendType DEF Typed
      <3> QED
        BY <1>5, <3>2 DEF Typed, StoreOK, Expire, storage, shown, sync, history, TicketType
    <2> QED
      BY <2>1, <2>2, <2>3, <2>4, <2>5 DEF Typed
  <1>6. CASE WorkerEnds
    <2>1. JobsOK'
      BY <1>6, IdleJobOK DEF JobsOK, WorkerEnds, Reset
    <2>2. QueueOK'
      <3>1. queue' = <<>>
        BY <1>6 DEF WorkerEnds
      <3> QED
        BY <3>1 DEF QueueOK
    <2>3. HeldOK'
      BY <1>6, OwnersType DEF HeldOK, WorkerEnds, Reset, IdleJob
    <2>4. PagesOK'
      BY <1>6 DEF Typed, PagesOK, PageType, WorkerEnds
    <2>5. StoreOK'
      <3>1. Spend("events")
        BY <1>6 DEF WorkerEnds
      <3>2. spent' \in Nat
        BY <3>1, SpendType DEF Typed
      <3> QED
        BY <1>6, <3>2 DEF Typed, StoreOK, WorkerEnds, storage, shown, sync, history, Reset
    <2> QED
      BY <2>1, <2>2, <2>3, <2>4, <2>5 DEF Typed
  <1>7. CASE BrowserRestarts
    <2>1. JobsOK'
      BY <1>7, IdleJobOK DEF JobsOK, BrowserRestarts, Reset
    <2>2. QueueOK'
      <3> DEFINE op == Operation("startup", None, None, FALSE)
      <3>1. op \in OperationType /\ op.kind = "startup"
        BY DEF Operation, OperationType, Sources
      <3>2. queue' = <<op>>
        BY <1>7 DEF BrowserRestarts
      <3> HIDE DEF op
      <3> QED
        BY <3>1, <3>2 DEF QueueOK
    <2>3. HeldOK'
      BY <1>7, OwnersType DEF HeldOK, BrowserRestarts, Reset, IdleJob
    <2>4. PagesOK'
      <3>1. page' = [q \in Pages |-> ClosedPage]
        BY <1>7 DEF BrowserRestarts
      <3>2. ClosedPage \in PageType
        BY DEF ClosedPage, PageType, SomeSettings
      <3> QED
        BY <3>1, <3>2 DEF PagesOK
    <2>5. StoreOK'
      <3>1. Spend("events")
        BY <1>7 DEF BrowserRestarts
      <3>2. spent' \in Nat
        BY <3>1, SpendType DEF Typed
      <3> QED
        BY <1>7, <3>2 DEF Typed, StoreOK, BrowserRestarts, storage, shown, sync, history, Reset
    <2> QED
      BY <2>1, <2>2, <2>3, <2>4, <2>5 DEF Typed
  <1>8. CASE ReviewFails
    <2>1. JobsOK' /\ QueueOK' /\ HeldOK' /\ PagesOK'
      BY <1>8 DEF Typed, JobsOK, QueueOK, HeldOK, PagesOK, ReviewFails
    <2>2. spent' \in Nat
      BY <1>8, SpendType DEF Typed, ReviewFails
    <2>3. StoreOK'
      BY <1>8, <2>2 DEF Typed, StoreOK, ReviewFails, storage, shown, sync, history
    <2> QED
      BY <2>1, <2>3 DEF Typed
  <1> QED
    BY <1>1, <1>2, <1>3, <1>4, <1>5, <1>6, <1>7, <1>8 DEF Environment

-----------------------------------------------------------------------------
(* Cleanups, reviews and automation: what holds while Typed does, and, for   *)
(* each, the steps that do not bear on it.                                   *)

OffOK ==
    /\ late \in {0, 1}
    /\ settings.enabled => late = 0
    /\ \A o \in Owners : job[o].at \in {"remove", "close", "reload"} => late = 0

RecordOK ==
    \A o \in Owners :
        job[o].at \in {"record", "settle", "follow", "close", "reload"} => job[o].todo = {}

Cleanups == OneCleanup /\ NothingUnreviewed /\ OffOK /\ RecordOK

CleanupKept ==
    /\ \A o \in Owners : Removing(o) \/ Removing(o)' => job'[o] = job[o]
    /\ UNCHANGED running
    /\ late' \in {late, 0}
    /\ settings'.enabled => settings.enabled \/ late' = 0

LEMMA CleanupsKept ==
    ASSUME Cleanups, CleanupKept
    PROVE  Cleanups'
  <1>1. \A o \in Owners : Removing(o)' <=> Removing(o)
    BY DEF CleanupKept, Removing
  <1>2. OneCleanup'
    BY <1>1 DEF Cleanups, OneCleanup, CleanupKept
  <1>3. NothingUnreviewed'
    BY <1>1 DEF Cleanups, NothingUnreviewed, CleanupKept
  <1>4. OffOK'
    BY DEF Cleanups, OffOK, CleanupKept, Removing
  <1>5. RecordOK'
    BY DEF Cleanups, RecordOK, CleanupKept, Removing, Result
  <1> QED
    BY <1>2, <1>3, <1>4, <1>5 DEF Cleanups

\* The cleanup that is running goes on, or ends.
LEMMA CleanupMoves ==
    ASSUME Typed, Cleanups, NEW o \in Owners, Removing(o), NEW j, job' = [job EXCEPT ![o] = j],
           j.plan = job[o].plan, j.reviewed = job[o].reviewed,
           \/ UNCHANGED running /\ j.at \in {"check", "remove", "record", "settle", "follow", "close",
                                             "reload", "failed"}
           \/ running' = FALSE /\ j.at = "reread",
           UNCHANGED settings, late' \in {0, 1}, settings.enabled => late' = 0,
           j.at \in {"remove", "close", "reload"} => late' = 0,
           j.at \in {"record", "settle", "follow", "close", "reload"} => j.todo = {}
    PROVE  Cleanups'
  <1>1. running /\ \A q \in Owners : q # o => ~Removing(q)
    BY DEF Cleanups, OneCleanup
  <1>2. job'[o] = j /\ \A q \in Owners : q # o => job'[q] = job[q]
    BY DEF Typed, JobsOK
  <1>3. \A q \in Owners : q # o => ~Removing(q)'
    BY <1>1, <1>2 DEF Removing
  <1>4. OneCleanup'
    BY <1>1, <1>2, <1>3 DEF OneCleanup, Removing
  <1>5. NothingUnreviewed'
    BY <1>2, <1>3 DEF Cleanups, NothingUnreviewed
  <1>6. OffOK'
    BY <1>2, <1>3 DEF OffOK, Removing
  <1>7. RecordOK'
    BY <1>2, <1>3 DEF RecordOK, Removing, Result
  <1> QED
    BY <1>4, <1>5, <1>6, <1>7 DEF Cleanups

\* Another cleanup begins, or is refused since one is running.
LEMMA CleanupLaunched ==
    ASSUME Typed, Cleanups, NEW o \in Owners, ~Removing(o), NEW plan, NEW reviewed,
           Harmless(plan) \/ (o # Worker /\ reviewed = plan),
           Launch(o, plan, reviewed), UNCHANGED settings
    PROVE  Cleanups'
  <1>1. CASE running
    <2>1. job' = [job EXCEPT ![o] = IdleJob]
      BY <1>1 DEF Launch, GiveUp, Release, Refuse, Reply
    <2>2. CleanupKept
      BY <1>1, <2>1 DEF CleanupKept, Launch, Typed, JobsOK, Removing, IdleJob, history
    <2> QED
      BY <2>2, CleanupsKept
  <1>2. CASE ~running
    <2>1. \A q \in Owners : ~Removing(q)
      BY <1>2 DEF Cleanups, OneCleanup
    <2>2. /\ job'[o].at = "check" /\ job'[o].plan = plan /\ job'[o].reviewed = reviewed
          /\ running' = TRUE /\ late' = 0
          /\ \A q \in Owners : q # o => job'[q] = job[q]
      BY <1>2 DEF Launch, Typed, JobsOK, IdleJob
    <2>3. \A q \in Owners : Removing(q)' <=> q = o
      BY <2>1, <2>2 DEF Removing
    <2>4. OneCleanup'
      BY <2>2, <2>3 DEF OneCleanup
    <2>5. NothingUnreviewed'
      BY <2>2, <2>3 DEF NothingUnreviewed, Harmless
    <2>6. OffOK'
      BY <2>2 DEF OffOK
    <2>7. RecordOK'
      BY <2>2, <2>3 DEF RecordOK, Removing
    <2> QED
      BY <2>4, <2>5, <2>6, <2>7 DEF Cleanups
  <1> QED
    BY <1>1, <1>2

\* The worker is gone, and its cleanup with it.
LEMMA CleanupsReset ==
    ASSUME Cleanups, Reset, UNCHANGED <<settings, late>>
    PROVE  Cleanups'
  <1>1. \A o \in Owners : job'[o].at = "idle"
    BY DEF Reset, IdleJob
  <1> QED
    BY <1>1 DEF Cleanups, OneCleanup, NothingUnreviewed, OffOK, RecordOK, Removing, Reset

\* What a page shows under the name of the ticket is the ticket's plan; what execute is about to
\* do was shown to its user, or needs no review.
ReviewsOK ==
    /\ tickets # None =>
          \A p \in Pages : page[p].review # None /\ page[p].review.token = tickets.token =>
                              page[p].review.plan = tickets.plan
    /\ \A p \in Pages : job[p].at \in {"verify", "tab"} =>
                           job[p].reviewed = job[p].plan \/ Harmless(job[p].plan)

ReviewsKept ==
    /\ tickets' # None => /\ tickets # None
                          /\ tickets'.token = tickets.token /\ tickets'.plan = tickets.plan
    /\ \A p \in Pages : page'[p].review \in {None, page[p].review}
    /\ \A p \in Pages : job'[p].at \in {"verify", "tab"} =>
                           /\ job[p].at \in {"verify", "tab"}
                           /\ job'[p].plan = job[p].plan /\ job'[p].reviewed = job[p].reviewed

LEMMA ReviewsStay ==
    ASSUME ReviewsOK, ReviewsKept
    PROVE  ReviewsOK'
  BY DEF ReviewsOK, ReviewsKept, Harmless

\* The operation at the head of the queue is what the worker is busy with; while it removes data
\* unattended, the settings it looked at are still those in force.
AutomationOK ==
    /\ pending \in Sources \cup {None}
    /\ job[Worker].at \in {"defer", "mark"} => Head(queue).kind \in Sources
    /\ job[Worker].at = "automate" => Head(queue).kind = "startup"
    /\ AutomationIsCurrent

AutomationKept ==
    /\ pending' \in {None, pending}
    /\ settings' = settings \/ job'[Worker].at = "clear"
    /\ job'[Worker].at \in {"check", "remove", "record", "automate", "defer", "mark"} =>
          /\ \/ job'[Worker].at = job[Worker].at
             \/ {job[Worker].at, job'[Worker].at} \subseteq {"check", "remove", "record"}
          /\ job'[Worker].plan = job[Worker].plan
          /\ Head(queue').kind = Head(queue).kind

LEMMA AutomationStays ==
    ASSUME AutomationOK, AutomationKept
    PROVE  AutomationOK'
  <1>1. pending' \in Sources \cup {None}
    BY DEF AutomationOK, AutomationKept
  <1>2. /\ job'[Worker].at \in {"defer", "mark"} => Head(queue').kind \in Sources
        /\ job'[Worker].at = "automate" => Head(queue').kind = "startup"
    BY DEF AutomationOK, AutomationKept
  <1>3. job'[Worker].at \in {"check", "remove", "record"} =>
           /\ settings' = settings /\ job[Worker].at \in {"check", "remove", "record"}
           /\ job'[Worker].plan = job[Worker].plan /\ Head(queue').kind = Head(queue).kind
    BY DEF AutomationKept
  <1>4. AutomationIsCurrent'
    BY <1>3 DEF AutomationOK, AutomationIsCurrent, Triggered, AutomaticPlan
  <1> QED
    BY <1>1, <1>2, <1>4 DEF AutomationOK

\* What is put at the end of the queue while the worker is busy leaves its head alone.
LEMMA HeadStays ==
    ASSUME Typed, job[Worker].at # "idle", NEW op, Serialized(op)
    PROVE  Head(queue').kind = Head(queue).kind
  <1>1. queue \in Seq(OperationType) /\ queue # <<>>
    BY DEF Typed, QueueOK, HeldOK
  <1> QED
    BY <1>1, HeadTailAppend DEF Serialized

\* So does a page that no longer waits.
LEMMA HeadStaysToo ==
    ASSUME Typed, job[Worker].at # "idle", NEW f,
           queue' = [i \in DOMAIN queue |-> [queue[i] EXCEPT !.page = f[i]]]
    PROVE  Head(queue').kind = Head(queue).kind
  <1>1. queue \in Seq(OperationType) /\ queue # <<>>
    BY DEF Typed, QueueOK, HeldOK
  <1>2. 1 \in DOMAIN queue /\ Head(queue) = queue[1] /\ queue[1] \in OperationType
    BY <1>1
  <1>3. queue'[1].kind = queue[1].kind
    BY <1>2 DEF OperationType
  <1>4. Head(queue') = queue'[1]
    OBVIOUS
  <1> QED
    BY <1>2, <1>3, <1>4

Safe == Typed /\ Cleanups /\ ReviewsOK /\ AutomationOK

LEMMA SafeStays ==
    ASSUME Safe, Typed', CleanupKept, ReviewsKept, AutomationKept
    PROVE  Safe'
  BY CleanupsKept, ReviewsStay, AutomationStays DEF Safe

\* What most steps leave alone.
Unchanged == UNCHANGED <<settings, pending, running, late>>

ReviewsStand == \A p \in Pages : page'[p].review \in {None, page[p].review}

\* An owner goes on that is not removing data, nor comes to.
LEMMA Settles ==
    ASSUME Safe, Typed', NEW o \in Owners, ~Removing(o), NEW j, job' = [job EXCEPT ![o] = j],
           j.at \in {"idle", "preview", "target", "clear", "create", "peek", "badge", "write", "publish"},
           Unchanged, tickets' \in {None, tickets}, ReviewsStand, UNCHANGED queue \/ o = Worker
    PROVE  Safe'
  <1>1. job'[o] = j /\ \A q \in Owners : q # o => job'[q] = job[q]
    BY DEF Safe, Typed, JobsOK
  <1>2. CleanupKept
    BY <1>1 DEF CleanupKept, Unchanged, Removing
  <1>3. ReviewsKept
    BY <1>1, OwnersType DEF ReviewsKept, ReviewsStand
  <1>4. AutomationKept
    <2>1. CASE o = Worker
      BY <1>1, <2>1 DEF AutomationKept, Unchanged
    <2>2. CASE o # Worker
      BY <1>1, <2>2, OwnersType DEF AutomationKept, Unchanged
    <2> QED
      BY <2>1, <2>2
  <1> QED
    BY <1>2, <1>3, <1>4, SafeStays

\* Pages, events and time do not touch what the worker is doing.
LEMMA Idles ==
    ASSUME Safe, Typed', UNCHANGED job, Unchanged, ReviewsStand,
           tickets' # None => /\ tickets # None
                              /\ tickets'.token = tickets.token /\ tickets'.plan = tickets.plan,
           job[Worker].at # "idle" => Head(queue').kind = Head(queue).kind
    PROVE  Safe'
  <1>1. CleanupKept
    BY DEF CleanupKept, Unchanged
  <1>2. ReviewsKept
    BY DEF ReviewsKept, ReviewsStand
  <1>3. AutomationKept
    BY DEF AutomationKept, Unchanged
  <1> QED
    BY <1>1, <1>2, <1>3, SafeStays

\* Operations that end, fail or are refused, and cleanups that begin.
LEMMA ReleaseSafe ==
    ASSUME Safe, Typed', queue # <<>>, Release, ~Removing(Worker), Unchanged, tickets' \in {None, tickets}
    PROVE  Safe'
  <1>1. job' = [job EXCEPT ![Worker] = IdleJob] /\ IdleJob.at = "idle"
    BY DEF Release, IdleJob
  <1>2. ReviewsStand
    <2>1. CASE Head(queue).page = None
      BY <2>1 DEF Release, ReviewsStand
    <2>2. CASE Head(queue).page # None
      <3> DEFINE q == Head(queue).page
      <3>1. PICK snap, busy, toggling :
                page' = [page EXCEPT ![q].snap = snap, ![q].busy = busy, ![q].toggling = toggling]
        BY <2>2 DEF Release
      <3> HIDE DEF q
      <3> QED
        BY <3>1 DEF ReviewsStand, Safe, Typed, PagesOK, PageType
    <2> QED
      BY <2>1, <2>2
  <1> QED
    BY <1>1, <1>2, OwnersType, Settles

LEMMA ReplySafe ==
    ASSUME Safe, Typed', NEW p \in Pages, ~Removing(p), NEW snap, NEW review \in {None, page[p].review},
           Reply(p, snap, review), UNCHANGED queue, Unchanged, tickets' \in {None, tickets}
    PROVE  Safe'
  <1>1. job' = [job EXCEPT ![p] = IdleJob] /\ IdleJob.at = "idle"
    BY DEF Reply, IdleJob
  <1>2. ReviewsStand
    <2>1. CASE page[p].busy
      <3>1. page' = [page EXCEPT ![p].busy = FALSE, ![p].snap = snap, ![p].review = review]
        BY <2>1 DEF Reply
      <3> QED
        BY <3>1 DEF ReviewsStand, Safe, Typed, PagesOK, PageType
    <2>2. CASE ~page[p].busy
      BY <2>2 DEF Reply, ReviewsStand
    <2> QED
      BY <2>1, <2>2
  <1> QED
    BY <1>1, <1>2, OwnersType, Settles

LEMMA GiveUpSafe ==
    ASSUME Safe, Typed', NEW o \in Owners, o = Worker => queue # <<>>, GiveUp(o), ~Removing(o),
           Unchanged, tickets' \in {None, tickets}
    PROVE  Safe'
  <1>1. CASE o = Worker
    BY <1>1, ReleaseSafe DEF GiveUp
  <1>2. CASE o # Worker
    BY <1>2, ReplySafe DEF GiveUp, Refuse, Owners
  <1> QED
    BY <1>1, <1>2

LEMMA LaunchSafe ==
    ASSUME Safe, Typed', NEW o \in Owners, o = Worker => queue # <<>>, ~Removing(o),
           NEW plan, NEW reviewed, Launch(o, plan, reviewed),
           Harmless(plan) \/ (o # Worker /\ reviewed = plan),
           o = Worker => /\ settings.enabled /\ Triggered(settings, Head(queue).kind)
                         /\ plan = AutomaticPlan(settings),
           UNCHANGED <<settings, pending, tickets>>
    PROVE  Safe'
  <1>1. CASE running
    BY <1>1, GiveUpSafe DEF Launch, Unchanged, history
  <1>2. CASE ~running
    <2>1. /\ job'[o].at = "check" /\ job'[o].plan = plan /\ UNCHANGED <<queue, page>>
          /\ \A q \in Owners : q # o => job'[q] = job[q]
      BY <1>2 DEF Launch, Safe, Typed, JobsOK, IdleJob
    <2>2. Cleanups'
      BY CleanupLaunched DEF Safe
    <2>3. ReviewsOK'
      <3>1. ReviewsKept
        BY <2>1, OwnersType DEF ReviewsKept
      <3> QED
        BY <3>1, ReviewsStay DEF Safe
    <2>4. AutomationOK'
      <3>1. CASE o = Worker
        BY <2>1, <3>1 DEF AutomationOK, AutomationIsCurrent, Safe, Triggered, AutomaticPlan
      <3>2. CASE o # Worker
        <4>1. AutomationKept
          BY <2>1, <3>2, OwnersType DEF AutomationKept
        <4> QED
          BY <4>1, AutomationStays DEF Safe
      <3> QED
        BY <3>1, <3>2
    <2> QED
      BY <2>2, <2>3, <2>4 DEF Safe
  <1> QED
    BY <1>1, <1>2

\* A cleanup in progress, seen by the rest.
LEMMA CleanupSafe ==
    ASSUME Safe, Typed', Cleanups', NEW o \in Owners, Removing(o), NEW j, job' = [job EXCEPT ![o] = j],
           \/ {job[o].at, j.at} \subseteq {"check", "remove", "record"}
           \/ j.at \in {"settle", "follow", "close", "reload", "failed", "reread"},
           j.plan = job[o].plan, UNCHANGED settings, tickets' \in {None, tickets},
           pending' \in {None, pending}, ReviewsStand,
           job[Worker].at # "idle" => Head(queue').kind = Head(queue).kind
    PROVE  Safe'
  <1>1. job'[o] = j /\ \A q \in Owners : q # o => job'[q] = job[q]
    BY DEF Safe, Typed, JobsOK
  <1>2. ReviewsKept
    BY <1>1, OwnersType DEF ReviewsKept, ReviewsStand
  <1>3. AutomationKept
    <2>1. CASE o = Worker
      BY <1>1, <2>1 DEF AutomationKept, Removing
    <2>2. CASE o # Worker
      BY <1>1, <2>2, OwnersType DEF AutomationKept
    <2> QED
      BY <2>1, <2>2
  <1> QED
    BY <1>2, <1>3, ReviewsStay, AutomationStays DEF Safe

\* The worker ends.
LEMMA ResetSafe ==
    ASSUME Safe, Typed', Reset, UNCHANGED <<settings, pending, late>>, ReviewsStand
    PROVE  Safe'
  <1>1. \A o \in Owners : job'[o].at = "idle"
    BY DEF Reset, IdleJob
  <1>2. Cleanups'
    BY CleanupsReset DEF Safe
  <1>3. ReviewsOK'
    BY <1>1, OwnersType DEF ReviewsOK, Reset
  <1>4. AutomationOK'
    BY <1>1, OwnersType DEF AutomationOK, AutomationIsCurrent, Safe
  <1> QED
    BY <1>2, <1>3, <1>4 DEF Safe

-----------------------------------------------------------------------------
(* Safe is inductive.                                                        *)

\* The steps of configure keep Safe.
LEMMA SafeConfigure ==
    ASSUME Safe, NEW o \in Owners, Configure(o)
    PROVE  Safe'
  <1>t. Typed'
    BY TypedConfigure DEF Safe
  <1>1. CASE ClearAlarm(o)
    <2> DEFINE j == [job[o] EXCEPT !.at = IF WantsAlarm(job[o].set) THEN "create" ELSE "peek"]
    <2>1. job' = [job EXCEPT ![o] = j] /\ j.at \in {"create", "peek"} /\ ~Removing(o)
      BY <1>1, OwnersType DEF ClearAlarm, At, GoTo, Safe, Typed, JobsOK, JobType, Removing
    <2>2. Unchanged /\ tickets' \in {None, tickets} /\ UNCHANGED queue /\ ReviewsStand
      BY <1>1 DEF Unchanged, ReviewsStand, ClearAlarm, storage, history, Safe, Typed, PagesOK, PageType
    <2> HIDE DEF j
    <2> QED
      BY <1>t, <2>1, <2>2, OwnersType, Settles
  <1>2. CASE CreateAlarm(o)
    <2> DEFINE j == [job[o] EXCEPT !.at = "peek"]
    <2>1. job' = [job EXCEPT ![o] = j] /\ j.at \in {"peek"} /\ ~Removing(o)
      BY <1>2, OwnersType DEF CreateAlarm, At, GoTo, Safe, Typed, JobsOK, JobType, Removing
    <2>2. Unchanged /\ tickets' \in {None, tickets} /\ UNCHANGED queue /\ ReviewsStand
      BY <1>2 DEF Unchanged, ReviewsStand, CreateAlarm, storage, history, Safe, Typed, PagesOK, PageType
    <2> HIDE DEF j
    <2> QED
      BY <1>t, <2>1, <2>2, OwnersType, Settles
  <1>3. CASE ReadPending(o)
    <2> DEFINE j == [job[o] EXCEPT !.at = "badge", !.pend = pending # None]
    <2>1. job' = [job EXCEPT ![o] = j] /\ j.at \in {"badge"} /\ ~Removing(o)
      BY <1>3, OwnersType DEF ReadPending, At, GoTo, Safe, Typed, JobsOK, JobType, Removing
    <2>2. Unchanged /\ tickets' \in {None, tickets} /\ UNCHANGED queue /\ ReviewsStand
      BY <1>3 DEF Unchanged, ReviewsStand, ReadPending, storage, history, Safe, Typed, PagesOK, PageType
    <2> HIDE DEF j
    <2> QED
      BY <1>t, <2>1, <2>2, OwnersType, Settles
  <1>4. CASE SetBadge(o)
    <2>1. At(o, "badge") /\ ~Removing(o) /\ Unchanged /\ tickets' \in {None, tickets}
      BY <1>4 DEF SetBadge, At, Removing, Unchanged, storage, history
    <2>2. o = Worker => queue # <<>>
      BY <2>1 DEF At, Safe, Typed, HeldOK
    <2>3. CASE o # Worker
      <3> DEFINE snap == IF job[o].kind = "failed" THEN page[o].snap ELSE Refreshed(settings, o)
                 review == IF job[o].kind = "failed" THEN page[o].review ELSE None
      <3>1. Reply(o, snap, review) /\ UNCHANGED queue
        BY <1>4, <2>3 DEF SetBadge
      <3>2. review \in {None, page[o].review}
        OBVIOUS
      <3> HIDE DEF snap, review
      <3> QED
        BY <1>t, <2>1, <2>3, <3>1, <3>2, ReplySafe DEF Owners
    <2>4. CASE o = Worker /\ GoTo(o, "publish") /\ UNCHANGED <<queue, page>>
      <3> DEFINE j == [job[o] EXCEPT !.at = "publish"]
      <3>1. job' = [job EXCEPT ![o] = j] /\ j.at = "publish"
        BY <2>4 DEF GoTo, Safe, Typed, JobsOK, JobType
      <3>2. ReviewsStand
        BY <2>4 DEF ReviewsStand
      <3> QED
        BY <1>t, <2>1, <2>4, <3>1, <3>2, Settles
    <2>5. CASE o = Worker /\ Head(queue).kind = "startup" /\ GoTo(o, "automate") /\ UNCHANGED <<queue, page>>
      <3>1. job'[Worker].at = "automate" /\ \A q \in Pages : job'[q] = job[q]
        BY <2>5, OwnersType DEF GoTo, Safe, Typed, JobsOK, JobType
      <3>2. Cleanups'
        <4>1. CleanupKept
          BY <2>1, <2>5, <3>1, OwnersType DEF CleanupKept, Unchanged, Removing, Owners
        <4> QED
          BY <4>1, CleanupsKept DEF Safe
      <3>3. ReviewsOK'
        <4>1. ReviewsKept
          BY <2>1, <2>5, <3>1 DEF ReviewsKept
        <4> QED
          BY <4>1, ReviewsStay DEF Safe
      <3>4. AutomationOK'
        BY <2>1, <2>5, <3>1 DEF AutomationOK, AutomationIsCurrent, Safe, Unchanged
      <3> QED
        BY <1>t, <3>2, <3>3, <3>4 DEF Safe
    <2>6. CASE o = Worker /\ Release
      BY <1>t, <2>1, <2>2, <2>6, ReleaseSafe
    <2> QED
      BY <1>4, <2>3, <2>4, <2>5, <2>6 DEF SetBadge
  <1> QED
    BY <1>1, <1>2, <1>3, <1>4 DEF Configure

\* The steps of a cleanup keep Safe.
LEMMA SafeCleanup ==
    ASSUME Safe, NEW o \in Owners, Cleanup(o)
    PROVE  Safe'
  <1>t. Typed'
    BY TypedCleanup DEF Safe
  <1>1. CASE CheckEnabled(o)
    <2> DEFINE j == IF Readable /\ settings.enabled THEN [job[o] EXCEPT !.at = "remove"]
                ELSE [job[o] EXCEPT !.at = "failed", !.kind = "failed"]
    <2>1. Removing(o) /\ job[o].at = "check" /\ job[o] \in JobType
      BY <1>1 DEF CheckEnabled, At, Removing, Safe, Typed, JobsOK
    <2>2. /\ job' = [job EXCEPT ![o] = j] /\ j.at \in {"remove", "failed"}
          /\ j.plan = job[o].plan /\ j.reviewed = job[o].reviewed
      BY <1>1, <2>1 DEF JobType, CheckEnabled, At, GoTo, Fail, Safe, Typed, JobsOK
    <2>3. late' \in {0, 1} /\ (settings.enabled => late' = 0) /\ (j.at = "remove" => late' = 0)
      BY <1>1, <2>1 DEF CheckEnabled, Safe, Cleanups, OffOK, history, JobType
    <2>4. j.at \notin {"record", "settle", "follow", "close", "reload"}
      BY <2>2
    <2>5. /\ UNCHANGED settings /\ tickets' \in {None, tickets} /\ pending' \in {None, pending}
          /\ UNCHANGED running /\ ReviewsStand
          /\ job[Worker].at # "idle" => Head(queue').kind = Head(queue).kind
      BY <1>1 DEF CheckEnabled, storage, history, ReviewsStand
    <2> HIDE DEF j
    <2>6. Cleanups'
      BY <2>1, <2>2, <2>3, <2>4, <2>5, CleanupMoves DEF Safe
    <2> QED
      BY <1>t, <2>1, <2>2, <2>5, <2>6, CleanupSafe
  <1>2. CASE Remove(o)
    <2>0. PICK c \in job[o].todo :
              job' = [job EXCEPT ![o].todo = @ \ {c},
                                 ![o].at = IF job[o].todo = {c} THEN "record" ELSE "check"]
      BY <1>2 DEF Remove
    <2> DEFINE j == [job[o] EXCEPT !.todo = @ \ {c}, !.at = IF job[o].todo = {c} THEN "record" ELSE "check"]
    <2>1. Removing(o) /\ job[o].at = "remove" /\ job[o] \in JobType
      BY <1>2 DEF Remove, At, Removing, Safe, Typed, JobsOK
    <2>2. /\ job' = [job EXCEPT ![o] = j] /\ j.at \in {"record", "check"}
          /\ j.plan = job[o].plan /\ j.reviewed = job[o].reviewed
      BY <1>2, <2>1, <2>0 DEF JobType, Remove, At, Safe, Typed, JobsOK
    <2>3. late' \in {0, 1} /\ (settings.enabled => late' = 0)
      <3>1. late = 0
        BY <2>1 DEF Safe, Cleanups, OffOK
      <3>2. late' = IF settings.enabled THEN late ELSE late + 1
        BY <1>2 DEF Remove, Acts
      <3> QED
        BY <3>1, <3>2
    <2>4. j.at \notin {"settle", "follow", "close", "reload"} /\ (j.at = "record" => j.todo = {})
      BY <2>1, <2>2 DEF JobType
    <2>5. /\ UNCHANGED settings /\ tickets' \in {None, tickets} /\ pending' \in {None, pending}
          /\ UNCHANGED running /\ ReviewsStand
          /\ job[Worker].at # "idle" => Head(queue').kind = Head(queue).kind
      BY <1>2 DEF Remove, storage, history, ReviewsStand
    <2> HIDE DEF j
    <2>6. Cleanups'
      BY <2>1, <2>2, <2>3, <2>4, <2>5, CleanupMoves DEF Safe
    <2> QED
      BY <1>t, <2>1, <2>2, <2>5, <2>6, CleanupSafe
  <1>3. CASE RemoveFails(o)
    <2> DEFINE j == [job[o] EXCEPT !.at = "failed", !.kind = "failed"]
    <2>1. Removing(o) /\ job[o].at = "remove" /\ job[o] \in JobType
      BY <1>3 DEF RemoveFails, At, Removing, Safe, Typed, JobsOK
    <2>2. /\ job' = [job EXCEPT ![o] = j] /\ j.at \in {"failed"}
          /\ j.plan = job[o].plan /\ j.reviewed = job[o].reviewed
      BY <1>3, <2>1 DEF JobType, RemoveFails, At, Fail, Safe, Typed, JobsOK
    <2>3. late' \in {0, 1} /\ (settings.enabled => late' = 0)
      BY <1>3, <2>1 DEF RemoveFails, Safe, Cleanups, OffOK, history
    <2>4. j.at \notin {"record", "settle", "follow", "close", "reload"}
      BY <2>2
    <2>5. /\ UNCHANGED settings /\ tickets' \in {None, tickets} /\ pending' \in {None, pending}
          /\ UNCHANGED running /\ ReviewsStand
          /\ job[Worker].at # "idle" => Head(queue').kind = Head(queue).kind
      BY <1>3 DEF RemoveFails, storage, history, ReviewsStand
    <2> HIDE DEF j
    <2>6. Cleanups'
      BY <2>1, <2>2, <2>3, <2>4, <2>5, CleanupMoves DEF Safe
    <2> QED
      BY <1>t, <2>1, <2>2, <2>5, <2>6, CleanupSafe
  <1>4. CASE RecordDone(o)
    <2> DEFINE j == [job[o] EXCEPT !.at = "settle"]
    <2>1. Removing(o) /\ job[o].at = "record" /\ job[o] \in JobType
      BY <1>4 DEF RecordDone, At, Removing, Safe, Typed, JobsOK
    <2>2. /\ job' = [job EXCEPT ![o] = j] /\ j.at \in {"settle"}
          /\ j.plan = job[o].plan /\ j.reviewed = job[o].reviewed
      BY <1>4, <2>1 DEF JobType, RecordDone, At, GoTo, Safe, Typed, JobsOK
    <2>3. late' \in {0, 1} /\ (settings.enabled => late' = 0)
      BY <1>4, <2>1 DEF RecordDone, Safe, Cleanups, OffOK, history
    <2>4. j.todo = {}
      BY <1>4, <2>1 DEF RecordDone, JobType, Safe, Cleanups, RecordOK
    <2>5. /\ UNCHANGED settings /\ tickets' \in {None, tickets} /\ pending' \in {None, pending}
          /\ UNCHANGED running /\ ReviewsStand
          /\ job[Worker].at # "idle" => Head(queue').kind = Head(queue).kind
      BY <1>4 DEF RecordDone, storage, history, ReviewsStand
    <2> HIDE DEF j
    <2>6. Cleanups'
      BY <2>1, <2>2, <2>3, <2>4, <2>5, CleanupMoves DEF Safe
    <2> QED
      BY <1>t, <2>1, <2>2, <2>5, <2>6, CleanupSafe
  <1>5. CASE RecordFailed(o)
    <2> DEFINE j == [job[o] EXCEPT !.at = "reread"]
    <2>1. Removing(o) /\ job[o].at = "failed" /\ job[o] \in JobType
      BY <1>5 DEF RecordFailed, At, Removing, Safe, Typed, JobsOK
    <2>2. /\ job' = [job EXCEPT ![o] = j] /\ j.at \in {"reread"}
          /\ j.plan = job[o].plan /\ j.reviewed = job[o].reviewed
      BY <1>5, <2>1 DEF JobType, RecordFailed, At, Finish, GoTo, Safe, Typed, JobsOK
    <2>3. late' \in {0, 1} /\ (settings.enabled => late' = 0)
      BY <1>5, <2>1 DEF RecordFailed, Safe, Cleanups, OffOK, history, Finish
    <2>4. j.at = "reread"
      BY <2>2
    <2>5. /\ UNCHANGED settings /\ tickets' \in {None, tickets} /\ pending' \in {None, pending}
          /\ running' = FALSE /\ ReviewsStand
          /\ job[Worker].at # "idle" => Head(queue').kind = Head(queue).kind
      BY <1>5 DEF RecordFailed, storage, history, ReviewsStand, Finish
    <2> HIDE DEF j
    <2>6. Cleanups'
      BY <2>1, <2>2, <2>3, <2>4, <2>5, CleanupMoves DEF Safe
    <2> QED
      BY <1>t, <2>1, <2>2, <2>5, <2>6, CleanupSafe
  <1>6. CASE ClearPending(o)
    <2> DEFINE j == [job[o] EXCEPT !.at = "follow"]
    <2>1. Removing(o) /\ job[o].at = "settle" /\ job[o] \in JobType
      BY <1>6 DEF ClearPending, At, Removing, Safe, Typed, JobsOK
    <2>2. /\ job' = [job EXCEPT ![o] = j] /\ j.at \in {"follow"}
          /\ j.plan = job[o].plan /\ j.reviewed = job[o].reviewed
      BY <1>6, <2>1 DEF JobType, ClearPending, At, GoTo, Safe, Typed, JobsOK
    <2>3. late' \in {0, 1} /\ (settings.enabled => late' = 0)
      BY <1>6, <2>1 DEF ClearPending, Safe, Cleanups, OffOK, history
    <2>4. j.todo = {}
      BY <1>6, <2>1 DEF ClearPending, JobType, Safe, Cleanups, RecordOK
    <2>5. /\ UNCHANGED settings /\ tickets' \in {None, tickets} /\ pending' \in {None, pending}
          /\ UNCHANGED running /\ ReviewsStand
          /\ job[Worker].at # "idle" => Head(queue').kind = Head(queue).kind
      BY <1>6 DEF ClearPending, storage, history, ReviewsStand
    <2> HIDE DEF j
    <2>6. Cleanups'
      BY <2>1, <2>2, <2>3, <2>4, <2>5, CleanupMoves DEF Safe
    <2> QED
      BY <1>t, <2>1, <2>2, <2>5, <2>6, CleanupSafe
  <1>7. CASE ChooseFollowUp(o)
    <2>1. Removing(o) /\ job[o].at = "follow" /\ job[o] \in JobType
      BY <1>7 DEF ChooseFollowUp, At, Removing, Safe, Typed, JobsOK
    <2>2. PICK stage \in {"failed", "close", "reload", "reread"} :
              /\ \/ stage = "failed" /\ Fail(o)
                 \/ stage # "failed" /\ GoTo(o, stage)
              /\ IF stage = "reread" THEN running' = FALSE ELSE UNCHANGED running
              /\ stage \in {"close", "reload"} => settings.enabled
      BY <1>7 DEF ChooseFollowUp, Finish
    <2> DEFINE j == IF stage = "failed" THEN [job[o] EXCEPT !.at = "failed", !.kind = "failed"]
                    ELSE [job[o] EXCEPT !.at = stage]
    <2>3. /\ job' = [job EXCEPT ![o] = j] /\ j.at = stage /\ j.todo = job[o].todo
          /\ j.plan = job[o].plan /\ j.reviewed = job[o].reviewed
      BY <2>1, <2>2 DEF Fail, GoTo, JobType, Safe, Typed, JobsOK
    <2>4. /\ late' \in {0, 1} /\ (settings.enabled => late' = 0)
          /\ j.at \in {"remove", "close", "reload"} => late' = 0
      BY <1>7, <2>2, <2>3 DEF ChooseFollowUp, Safe, Cleanups, OffOK, history
    <2>5. j.todo = {}
      BY <2>1, <2>3 DEF Safe, Cleanups, RecordOK
    <2>6. /\ UNCHANGED <<settings, tickets, pending, queue>> /\ ReviewsStand
      BY <1>7 DEF ChooseFollowUp, storage, ReviewsStand
    <2> HIDE DEF j
    <2>7. Cleanups'
      BY <2>1, <2>2, <2>3, <2>4, <2>5, <2>6, CleanupMoves DEF Safe
    <2> QED
      BY <1>t, <2>1, <2>2, <2>3, <2>6, <2>7, CleanupSafe
  <1>8. CASE CloseWindows(o)
    <2> DEFINE j == [job[o] EXCEPT !.at = "reread"]
    <2>1. Removing(o) /\ job[o].at = "close" /\ job[o] \in JobType
      BY <1>8 DEF CloseWindows, At, Removing, Safe, Typed, JobsOK
    <2>2. /\ job' = [job EXCEPT ![o] = j] /\ j.at \in {"reread"}
          /\ j.plan = job[o].plan /\ j.reviewed = job[o].reviewed
      BY <1>8, <2>1 DEF JobType, CloseWindows, At, Finish, GoTo, Safe, Typed, JobsOK
    <2>3. late' \in {0, 1} /\ (settings.enabled => late' = 0)
      <3>1. late = 0
        BY <2>1 DEF Safe, Cleanups, OffOK
      <3>2. late' = IF settings.enabled THEN late ELSE late + 1
        BY <1>8 DEF CloseWindows, Acts
      <3> QED
        BY <3>1, <3>2
    <2>4. j.at = "reread"
      BY <2>2
    <2>5. /\ UNCHANGED settings /\ tickets' \in {None, tickets} /\ pending' \in {None, pending}
          /\ running' = FALSE /\ ReviewsStand
          /\ job[Worker].at # "idle" => Head(queue').kind = Head(queue).kind
      <3>1. /\ UNCHANGED <<settings, tickets, pending>> /\ running' = FALSE
            /\ \A p \in Pages : page'[p].review = None
        BY <1>8 DEF CloseWindows, Finish, storage, ClosedPage
      <3> DEFINE f == [i \in DOMAIN queue |-> None]
      <3>2. queue' = [i \in DOMAIN queue |-> [queue[i] EXCEPT !.page = f[i]]]
        BY <1>8 DEF CloseWindows
      <3> HIDE DEF f
      <3>3. job[Worker].at # "idle" => Head(queue').kind = Head(queue).kind
        BY <3>2, HeadStaysToo DEF Safe
      <3> QED
        BY <3>1, <3>3 DEF ReviewsStand
    <2> HIDE DEF j
    <2>6. Cleanups'
      BY <2>1, <2>2, <2>3, <2>4, <2>5, CleanupMoves DEF Safe
    <2> QED
      BY <1>t, <2>1, <2>2, <2>5, <2>6, CleanupSafe
  <1>9. CASE CloseFails(o)
    <2> DEFINE j == [job[o] EXCEPT !.at = "failed", !.kind = "failed"]
    <2>1. Removing(o) /\ job[o].at = "close" /\ job[o] \in JobType
      BY <1>9 DEF CloseFails, At, Removing, Safe, Typed, JobsOK
    <2>2. /\ job' = [job EXCEPT ![o] = j] /\ j.at \in {"failed"}
          /\ j.plan = job[o].plan /\ j.reviewed = job[o].reviewed
      BY <1>9, <2>1 DEF JobType, CloseFails, At, Fail, Safe, Typed, JobsOK
    <2>3. late' \in {0, 1} /\ (settings.enabled => late' = 0)
      BY <1>9, <2>1 DEF CloseFails, Safe, Cleanups, OffOK, history
    <2>4. j.at \notin {"record", "settle", "follow", "close", "reload"}
      BY <2>2
    <2>5. /\ UNCHANGED settings /\ tickets' \in {None, tickets} /\ pending' \in {None, pending}
          /\ UNCHANGED running /\ ReviewsStand
          /\ job[Worker].at # "idle" => Head(queue').kind = Head(queue).kind
      BY <1>9 DEF CloseFails, storage, history, ReviewsStand
    <2> HIDE DEF j
    <2>6. Cleanups'
      BY <2>1, <2>2, <2>3, <2>4, <2>5, CleanupMoves DEF Safe
    <2> QED
      BY <1>t, <2>1, <2>2, <2>5, <2>6, CleanupSafe
  <1>10. CASE ReloadTab(o)
    <2> DEFINE j == [job[o] EXCEPT !.at = "reread"]
    <2>1. Removing(o) /\ job[o].at = "reload" /\ job[o] \in JobType
      BY <1>10 DEF ReloadTab, At, Removing, Safe, Typed, JobsOK
    <2>2. /\ job' = [job EXCEPT ![o] = j] /\ j.at \in {"reread"}
          /\ j.plan = job[o].plan /\ j.reviewed = job[o].reviewed
      BY <1>10, <2>1 DEF JobType, ReloadTab, At, Finish, GoTo, Safe, Typed, JobsOK
    <2>3. late' \in {0, 1} /\ (settings.enabled => late' = 0)
      <3>1. late = 0
        BY <2>1 DEF Safe, Cleanups, OffOK
      <3>2. late' = IF settings.enabled THEN late ELSE late + 1
        BY <1>10 DEF ReloadTab, Acts
      <3> QED
        BY <3>1, <3>2
    <2>4. j.at = "reread"
      BY <2>2
    <2>5. /\ UNCHANGED settings /\ tickets' \in {None, tickets} /\ pending' \in {None, pending}
          /\ running' = FALSE /\ ReviewsStand
          /\ job[Worker].at # "idle" => Head(queue').kind = Head(queue).kind
      BY <1>10 DEF ReloadTab, storage, history, ReviewsStand, Finish
    <2> HIDE DEF j
    <2>6. Cleanups'
      BY <2>1, <2>2, <2>3, <2>4, <2>5, CleanupMoves DEF Safe
    <2> QED
      BY <1>t, <2>1, <2>2, <2>5, <2>6, CleanupSafe
  <1>11. CASE ReadAgain(o)
    <2>1. ~Removing(o) /\ Unchanged /\ tickets' \in {None, tickets} /\ (o = Worker => queue # <<>>)
      BY <1>11, OwnersType DEF ReadAgain, At, Starts, Removing, Unchanged, storage, history, Safe, Typed, HeldOK
    <2>2. CASE GiveUp(o)
      BY <1>t, <2>1, <2>2, OwnersType, GiveUpSafe
    <2>3. CASE job' = [job EXCEPT ![o].at = "clear", ![o].set = settings] /\ UNCHANGED <<queue, page>>
      <3> DEFINE j == [job[o] EXCEPT !.at = "clear", !.set = settings]
      <3>1. job' = [job EXCEPT ![o] = j] /\ j.at = "clear"
        BY <2>3, OwnersType DEF Safe, Typed, JobsOK, JobType
      <3>2. ReviewsStand
        BY <2>3 DEF ReviewsStand
      <3> HIDE DEF j
      <3> QED
        BY <1>t, <2>1, <2>3, <3>1, <3>2, OwnersType, Settles
    <2> QED
      BY <1>11, <2>2, <2>3 DEF ReadAgain
  <1> QED
    BY <1>1, <1>2, <1>3, <1>4, <1>5, <1>6, <1>7, <1>8, <1>9, <1>10, <1>11 DEF Cleanup

\* The steps of the queue keep Safe.
LEMMA SafeQueued ==
    ASSUME Safe, Queued
    PROVE  Safe'
  <1>t. Typed'
    BY TypedQueued DEF Safe
  <1>1. CASE StartSave
    <2>1. ~Removing(Worker) /\ Unchanged /\ tickets' \in {None, tickets} /\ queue # <<>>
      BY <1>1, OwnersType DEF StartSave, At, Starts, Removing, Unchanged, storage, history
    <2>2. CASE Release
      BY <1>t, <2>1, <2>2, ReleaseSafe
    <2>3. CASE ~Release
      <3>1. PICK s : job' = [job EXCEPT ![Worker].at = "write", ![Worker].set = s] /\ UNCHANGED <<queue, page>>
        BY <1>1, <2>3 DEF StartSave
      <3> DEFINE j == [job[Worker] EXCEPT !.at = "write", !.set = s]
      <3>2. job' = [job EXCEPT ![Worker] = j] /\ j.at = "write"
        BY <3>1, OwnersType DEF Safe, Typed, JobsOK, JobType
      <3>3. ReviewsStand
        BY <3>1 DEF ReviewsStand
      <3> HIDE DEF j
      <3> QED
        BY <1>t, <2>1, <3>1, <3>2, <3>3, OwnersType, Settles
    <2> QED
      BY <2>2, <2>3
  <1>2. CASE WriteSettings
    <2>1. /\ job[Worker].at = "write" /\ job'[Worker].at = "clear"
          /\ \A q \in Pages : job'[q] = job[q]
      BY <1>2, OwnersType DEF WriteSettings, At, GoTo, Safe, Typed, JobsOK, JobType
    <2>2. CleanupKept
      BY <1>2, <2>1, OwnersType DEF WriteSettings, CleanupKept, Removing, Owners
    <2>3. ReviewsKept
      BY <1>2, <2>1 DEF WriteSettings, ReviewsKept
    <2>4. AutomationKept
      BY <1>2, <2>1 DEF WriteSettings, AutomationKept
    <2> QED
      BY <1>t, <2>2, <2>3, <2>4, SafeStays
  <1>3. CASE Publish
    <2>1. /\ queue # <<>> /\ Release /\ ~Removing(Worker)
          /\ Unchanged /\ tickets' \in {None, tickets}
      BY <1>3 DEF Publish, At, Removing, Unchanged, storage, history, Safe, Typed, HeldOK
    <2> QED
      BY <1>t, <2>1, ReleaseSafe
  <1>4. CASE ReceiveSync
    <2>1. ~Removing(Worker) /\ Unchanged /\ tickets' \in {None, tickets} /\ queue # <<>>
      BY <1>4, OwnersType DEF ReceiveSync, At, Starts, Removing, Unchanged, storage, history
    <2>2. CASE Release
      BY <1>t, <2>1, <2>2, ReleaseSafe
    <2>3. CASE ~Release
      <3>1. PICK s : job' = [job EXCEPT ![Worker].at = "write", ![Worker].set = s] /\ UNCHANGED <<queue, page>>
        BY <1>4, <2>3 DEF ReceiveSync
      <3> DEFINE j == [job[Worker] EXCEPT !.at = "write", !.set = s]
      <3>2. job' = [job EXCEPT ![Worker] = j] /\ j.at = "write"
        BY <3>1, OwnersType DEF Safe, Typed, JobsOK, JobType
      <3>3. ReviewsStand
        BY <3>1 DEF ReviewsStand
      <3> HIDE DEF j
      <3> QED
        BY <1>t, <2>1, <3>1, <3>2, <3>3, OwnersType, Settles
    <2> QED
      BY <2>2, <2>3
  <1>5. CASE StartUp
    <2>1. ~Removing(Worker) /\ Unchanged /\ tickets' \in {None, tickets} /\ queue # <<>>
      BY <1>5, OwnersType DEF StartUp, At, Starts, Removing, Unchanged, storage, history, Safe, Typed, HeldOK
    <2>2. CASE Release
      BY <1>t, <2>1, <2>2, OwnersType, ReleaseSafe
    <2>3. CASE job' = [job EXCEPT ![Worker].at = "clear", ![Worker].set = settings] /\ UNCHANGED <<queue, page>>
      <3> DEFINE j == [job[Worker] EXCEPT !.at = "clear", !.set = settings]
      <3>1. job' = [job EXCEPT ![Worker] = j] /\ j.at = "clear"
        BY <2>3, OwnersType DEF Safe, Typed, JobsOK, JobType
      <3>2. ReviewsStand
        BY <2>3 DEF ReviewsStand
      <3> HIDE DEF j
      <3> QED
        BY <1>t, <2>1, <2>3, <3>1, <3>2, OwnersType, Settles
    <2> QED
      BY <1>5, <2>2, <2>3 DEF StartUp
  <1>6. CASE Automate
    <2>1. queue # <<>> /\ ~Removing(Worker) /\ UNCHANGED <<settings, pending, tickets>>
      BY <1>6 DEF Automate, At, Starts, Removing, storage, Safe, Typed, HeldOK
    <2>2. CASE Release /\ UNCHANGED <<running, history>>
      BY <1>t, <2>1, <2>2, ReleaseSafe DEF Unchanged, history
    <2>3. CASE GoTo(Worker, "defer") /\ UNCHANGED <<running, queue, page, history>>
      <3>1. job'[Worker].at = "defer" /\ \A q \in Pages : job'[q] = job[q]
        BY <2>3, OwnersType DEF GoTo, Safe, Typed, JobsOK, JobType
      <3>2. Cleanups'
        <4>1. CleanupKept
          BY <2>1, <2>3, <3>1, OwnersType DEF CleanupKept, Removing, Owners, history
        <4> QED
          BY <4>1, CleanupsKept DEF Safe
      <3>3. ReviewsOK'
        <4>1. ReviewsKept
          BY <2>1, <2>3, <3>1 DEF ReviewsKept
        <4> QED
          BY <4>1, ReviewsStay DEF Safe
      <3>4. Head(queue).kind \in Sources
        BY <1>6 DEF Automate, Starts, At, Safe, AutomationOK, Sources
      <3>5. AutomationOK'
        BY <2>1, <2>3, <3>1, <3>4 DEF AutomationOK, AutomationIsCurrent, Safe
      <3> QED
        BY <1>t, <3>2, <3>3, <3>5 DEF Safe
    <2>4. CASE /\ Due /\ AutomaticPlan(settings).automaticSafe
               /\ Launch(Worker, AutomaticPlan(settings), None)
      <3> DEFINE p == settings.presets[settings.automation.presetId]
      <3>1. /\ AutomaticPlan(settings).calls = Plan(p, None).calls
            /\ AutomaticPlan(settings).closeWindows = Plan(p, None).closeWindows
            /\ AutomaticPlan(settings).automaticSafe = Plan(p, None).automaticSafe
        BY DEF AutomaticPlan, Plan
      <3>2. Harmless(Plan(p, None))
        BY <2>4, <3>1, SafeIsHarmless
      <3>3. Harmless(AutomaticPlan(settings))
        BY <3>1, <3>2 DEF Harmless
      <3> QED
        BY <1>t, <2>1, <2>4, <3>3, OwnersType, LaunchSafe DEF Due
    <2> QED
      BY <1>6, <2>2, <2>3, <2>4 DEF Automate
  <1>7. CASE DeferToUser
    <2>1. job[Worker].at = "defer" /\ job'[Worker].at = "mark" /\ \A q \in Pages : job'[q] = job[q]
      BY <1>7, OwnersType DEF DeferToUser, At, GoTo, Safe, Typed, JobsOK, JobType
    <2>2. Cleanups'
      <3>1. CleanupKept
        BY <1>7, <2>1, OwnersType DEF CleanupKept, DeferToUser, Removing, Owners, history
      <3> QED
        BY <3>1, CleanupsKept DEF Safe
    <2>3. ReviewsOK'
      <3>1. ReviewsKept
        BY <1>7, <2>1 DEF ReviewsKept, DeferToUser
      <3> QED
        BY <3>1, ReviewsStay DEF Safe
    <2>4. AutomationOK'
      BY <1>7, <2>1 DEF AutomationOK, AutomationIsCurrent, Safe, DeferToUser
    <2> QED
      BY <1>t, <2>2, <2>3, <2>4 DEF Safe
  <1>8. CASE MarkBadge
    <2>1. /\ queue # <<>> /\ Release /\ ~Removing(Worker)
          /\ Unchanged /\ tickets' \in {None, tickets}
      BY <1>8 DEF MarkBadge, At, Removing, Unchanged, storage, history, Safe, Typed, HeldOK
    <2> QED
      BY <1>t, <2>1, ReleaseSafe
  <1> QED
    BY <1>1, <1>2, <1>3, <1>4, <1>5, <1>6, <1>7, <1>8 DEF Queued

\* The steps of requests keep Safe.
LEMMA SafeRequest ==
    ASSUME Safe, NEW p \in Pages, Request(p)
    PROVE  Safe'
  <1>t. Typed'
    BY TypedRequest DEF Safe
  <1>1. CASE ReadForPreview(p)
    <2>1. ~Removing(p) /\ Unchanged /\ tickets' \in {None, tickets} /\ UNCHANGED queue
      BY <1>1, OwnersType DEF ReadForPreview, At, Starts, Removing, Unchanged, storage, history, Safe, Typed, HeldOK
    <2>2. CASE Refuse(p)
      BY <1>t, <2>1, <2>2, OwnersType, ReplySafe DEF Refuse
    <2>3. CASE job' = [job EXCEPT ![p].at = "target", ![p].set = settings] /\ UNCHANGED page
      <3> DEFINE j == [job[p] EXCEPT !.at = "target", !.set = settings]
      <3>1. job' = [job EXCEPT ![p] = j] /\ j.at = "target"
        BY <2>3, OwnersType DEF Safe, Typed, JobsOK, JobType
      <3>2. ReviewsStand
        BY <2>3 DEF ReviewsStand
      <3> HIDE DEF j
      <3> QED
        BY <1>t, <2>1, <2>3, <3>1, <3>2, OwnersType, Settles
    <2> QED
      BY <1>1, <2>2, <2>3 DEF ReadForPreview
  <1>2. CASE MakePlan(p)
    <2> DEFINE s == job[p].set
               id == IF job[p].preset = None THEN s.activePreset ELSE job[p].preset
               plan == Plan(s.presets[id], url)
    <2>1. ~Removing(p) /\ Unchanged /\ UNCHANGED queue /\ p \in Owners
      BY <1>2, OwnersType DEF MakePlan, At, Removing, Unchanged, storage, history
    <2>2. CASE Refuse(p) /\ UNCHANGED tickets
      BY <1>t, <2>1, <2>2, ReplySafe DEF Refuse
    <2>3. CASE /\ AtOnce(p, plan) /\ tickets' = None /\ UNCHANGED page
               /\ job' = [job EXCEPT ![p].at = "verify", ![p].plan = plan, ![p].url = url]
      <3>1. Harmless(plan)
        BY <2>3, SafeIsHarmless DEF AtOnce
      <3> HIDE DEF s, id, plan
      <3>2. job'[p].at = "verify" /\ job'[p].plan = plan /\ \A q \in Owners : q # p => job'[q] = job[q]
        BY <2>1, <2>3 DEF Safe, Typed, JobsOK, JobType
      <3>3. Cleanups'
        <4>1. CleanupKept
          BY <2>1, <3>2 DEF CleanupKept, Unchanged, Removing
        <4> QED
          BY <4>1, CleanupsKept DEF Safe
      <3>4. ReviewsOK'
        <4>1. \A q \in Pages : q # p => job'[q] = job[q]
          BY <3>2, OwnersType
        <4> QED
          BY <2>3, <3>1, <3>2, <4>1 DEF ReviewsOK, Safe, Harmless
      <3>5. AutomationOK'
        <4>1. AutomationKept
          BY <2>1, <3>2, OwnersType DEF AutomationKept, Unchanged
        <4> QED
          BY <4>1, AutomationStays DEF Safe
      <3> QED
        BY <1>t, <3>3, <3>4, <3>5 DEF Safe
    <2>4. CASE /\ NewToken \in Tokens \ UsedTokens
               /\ tickets' = [token |-> NewToken, plan |-> plan, url |-> url, set |-> s, fresh |-> TRUE]
               /\ Reply(p, page[p].snap, [token |-> NewToken, plan |-> plan])
      <3> HIDE DEF s, id, plan
      <3>1. job'[p] = IdleJob /\ IdleJob.at = "idle" /\ \A q \in Owners : q # p => job'[q] = job[q]
        BY <2>1, <2>4 DEF Reply, Safe, Typed, JobsOK, IdleJob
      <3>2. Cleanups'
        <4>1. CleanupKept
          BY <2>1, <3>1 DEF CleanupKept, Unchanged, Removing
        <4> QED
          BY <4>1, CleanupsKept DEF Safe
      <3>3. ReviewsOK'
        <4>1. tickets'.token = NewToken /\ tickets'.plan = plan
          BY <2>4
        <4>2. \A q \in Pages : page[q].review # None => page[q].review.token # NewToken
          BY <2>4 DEF UsedTokens
        <4>3. \A q \in Pages : \/ page'[q].review = page[q].review
                               \/ page'[q].review.plan = plan
          <5>1. CASE page[p].busy
            <6>1. page' = [page EXCEPT ![p].busy = FALSE, ![p].snap = page[p].snap,
                                       ![p].review = [token |-> NewToken, plan |-> plan]]
              BY <2>4, <5>1 DEF Reply
            <6> QED
              BY <6>1 DEF Safe, Typed, PagesOK, PageType
          <5>2. CASE ~page[p].busy
            BY <2>4, <5>2 DEF Reply
          <5> QED
            BY <5>1, <5>2
        <4>4. \A q \in Pages : job'[q].at \in {"verify", "tab"} => job'[q] = job[q]
          BY <3>1, OwnersType
        <4> QED
          BY <4>1, <4>2, <4>3, <4>4 DEF ReviewsOK, Safe, Harmless
      <3>4. AutomationOK'
        <4>1. AutomationKept
          BY <2>1, <3>1, OwnersType DEF AutomationKept, Unchanged
        <4> QED
          BY <4>1, AutomationStays DEF Safe
      <3> QED
        BY <1>t, <3>2, <3>3, <3>4 DEF Safe
    <2> QED
      BY <1>2, <2>2, <2>3, <2>4 DEF MakePlan
  <1>3. CASE Verify(p)
    <2>1. ~Removing(p) /\ p \in Owners /\ p # Worker /\ UNCHANGED <<settings, pending, tickets>>
      BY <1>3, OwnersType DEF Verify, At, Removing, storage
    <2>2. job[p].reviewed = job[p].plan \/ Harmless(job[p].plan)
      BY <1>3 DEF Verify, At, Safe, ReviewsOK
    <2>3. CASE Refuse(p) /\ UNCHANGED <<running, queue, history>>
      BY <1>t, <2>1, <2>3, ReplySafe DEF Refuse, Unchanged, history
    <2>4. CASE Launch(p, job[p].plan, job[p].reviewed)
      BY <1>t, <2>1, <2>2, <2>4, LaunchSafe
    <2>5. CASE job' = [job EXCEPT ![p].at = "tab"] /\ UNCHANGED <<running, queue, page, history>>
      <3>1. /\ job[p].at = "verify" /\ job'[p].plan = job[p].plan /\ job'[p].reviewed = job[p].reviewed
            /\ job'[p].at = "tab" /\ \A q \in Owners : q # p => job'[q] = job[q]
        BY <1>3, <2>1, <2>5 DEF Verify, At, Safe, Typed, JobsOK, JobType
      <3>2. CleanupKept
        BY <2>1, <2>5, <3>1 DEF CleanupKept, Removing, history
      <3>3. ReviewsKept
        BY <2>1, <2>5, <3>1, OwnersType DEF ReviewsKept
      <3>4. AutomationKept
        BY <2>1, <2>5, <3>1, OwnersType DEF AutomationKept
      <3> QED
        BY <1>t, <3>2, <3>3, <3>4, SafeStays
    <2> QED
      BY <1>3, <2>3, <2>4, <2>5 DEF Verify
  <1>4. CASE CheckTab(p)
    <2>1. ~Removing(p) /\ p \in Owners /\ p # Worker /\ UNCHANGED <<settings, pending, tickets>>
      BY <1>4, OwnersType DEF CheckTab, At, Removing, storage
    <2>2. job[p].reviewed = job[p].plan \/ Harmless(job[p].plan)
      BY <1>4 DEF CheckTab, At, Safe, ReviewsOK
    <2>3. CASE Refuse(p) /\ UNCHANGED <<running, queue, history>>
      BY <1>t, <2>1, <2>3, ReplySafe DEF Refuse, Unchanged, history
    <2>4. CASE Launch(p, job[p].plan, job[p].reviewed)
      BY <1>t, <2>1, <2>2, <2>4, LaunchSafe
    <2> QED
      BY <1>4, <2>3, <2>4 DEF CheckTab
  <1> QED
    BY <1>1, <1>2, <1>3, <1>4 DEF Request

\* The steps of users keep Safe.
LEMMA SafeUser ==
    ASSUME Safe, NEW p \in Pages, User(p)
    PROVE  Safe'
  <1>t. Typed'
    BY TypedUser DEF Safe
  <1>1. CASE Open(p)
    <2>1. UNCHANGED job /\ Unchanged /\ UNCHANGED tickets
      BY <1>1 DEF Open, Unchanged, storage, history
    <2>2. ReviewsStand
      BY <1>1 DEF Open, ReviewsStand, ClosedPage, Safe, Typed, PagesOK, PageType
    <2>3. job[Worker].at # "idle" => Head(queue').kind = Head(queue).kind
      BY <1>1 DEF Open
    <2> QED
      BY <1>t, <2>1, <2>2, <2>3, Idles
  <1>2. CASE Close(p)
    <2>1. UNCHANGED job /\ Unchanged /\ UNCHANGED tickets
      BY <1>2 DEF Close, Unchanged, storage, history
    <2>2. ReviewsStand
      BY <1>2 DEF Close, ReviewsStand, ClosedPage, Safe, Typed, PagesOK, PageType
    <2>3. job[Worker].at # "idle" => Head(queue').kind = Head(queue).kind
      <3> DEFINE f == [i \in DOMAIN queue |-> IF queue[i].page = p THEN None ELSE queue[i].page]
      <3>1. queue' = [i \in DOMAIN queue |-> [queue[i] EXCEPT !.page = f[i]]]
        BY <1>2 DEF Close
      <3> HIDE DEF f
      <3> QED
        BY <3>1, HeadStaysToo DEF Safe
    <2> QED
      BY <1>t, <2>1, <2>2, <2>3, Idles
  <1>3. CASE Confirm(p)
    <2> DEFINE review == page[p].review
               match == tickets # None /\ tickets.token = review.token
    <2>1. /\ job[p].at = "idle" /\ review # None /\ Unchanged /\ UNCHANGED queue /\ p \in Owners
          /\ tickets' \in {None, tickets} /\ p # Worker
      BY <1>3, OwnersType DEF Confirm, CanPress, At, Unchanged, storage, history
    <2>2. ReviewsStand
      <3>1. \/ page' = [page EXCEPT ![p].review = None, ![p].busy = TRUE]
            \/ page' = [page EXCEPT ![p].review = None]
        BY <1>3 DEF Confirm
      <3> QED
        BY <3>1 DEF ReviewsStand, Safe, Typed, PagesOK, PageType
    <2>3. CASE UNCHANGED job
      BY <1>t, <2>1, <2>2, <2>3, Idles
    <2>4. CASE /\ match
               /\ job' = [job EXCEPT ![p] = [IdleJob EXCEPT !.at = "verify", !.kind = "execute",
                              !.set = tickets.set, !.plan = tickets.plan, !.url = tickets.url,
                              !.reviewed = review.plan]]
      <3>1. review.plan = tickets.plan
        BY <2>1, <2>4 DEF Safe, ReviewsOK
      <3>2. /\ job'[p].at = "verify" /\ job'[p].plan = tickets.plan /\ job'[p].reviewed = review.plan
            /\ \A q \in Owners : q # p => job'[q] = job[q]
        BY <2>1, <2>4 DEF Safe, Typed, JobsOK, IdleJob
      <3> HIDE DEF review, match
      <3>3. Cleanups'
        <4>1. CleanupKept
          BY <2>1, <3>2 DEF CleanupKept, Unchanged, Removing
        <4> QED
          BY <4>1, CleanupsKept DEF Safe
      <3>4. ReviewsOK'
        <4>1. \A q \in Pages : q # p => job'[q] = job[q]
          BY <3>2, OwnersType
        <4>2. job'[p].reviewed = job'[p].plan
          BY <3>1, <3>2
        <4> QED
          BY <2>1, <2>2, <4>1, <4>2 DEF ReviewsOK, Safe, Harmless, ReviewsStand
      <3>5. AutomationOK'
        <4>1. AutomationKept
          BY <2>1, <3>2, OwnersType DEF AutomationKept, Unchanged
        <4> QED
          BY <4>1, AutomationStays DEF Safe
      <3> QED
        BY <1>t, <3>3, <3>4, <3>5 DEF Safe
    <2> QED
      BY <1>3, <2>3, <2>4 DEF Confirm
  <1>4. CASE Cancel(p)
    <2>1. UNCHANGED job /\ Unchanged /\ UNCHANGED tickets
      BY <1>4 DEF Cancel, Unchanged, storage, history
    <2>2. ReviewsStand
      BY <1>4 DEF Cancel, ReviewsStand, ClosedPage, Safe, Typed, PagesOK, PageType
    <2>3. job[Worker].at # "idle" => Head(queue').kind = Head(queue).kind
      BY <1>4 DEF Cancel
    <2> QED
      BY <1>t, <2>1, <2>2, <2>3, Idles
  <1>5. CASE Switch(p)
    <2>1. UNCHANGED job /\ Unchanged /\ UNCHANGED tickets
      BY <1>5 DEF Switch, Unchanged, storage, history
    <2>2. ReviewsStand
      BY <1>5 DEF Switch, ReviewsStand, ClosedPage, Safe, Typed, PagesOK, PageType
    <2>3. job[Worker].at # "idle" => Head(queue').kind = Head(queue).kind
      <3>1. PICK op : Serialized(op)
        BY <1>5 DEF Switch
      <3> QED
        BY <3>1, HeadStays DEF Safe
    <2> QED
      BY <1>t, <2>1, <2>2, <2>3, Idles
  <1>6. CASE Submit(p)
    <2>1. UNCHANGED job /\ Unchanged /\ UNCHANGED tickets
      BY <1>6 DEF Submit, Unchanged, storage, history
    <2>2. ReviewsStand
      BY <1>6 DEF Submit, ReviewsStand, ClosedPage, Safe, Typed, PagesOK, PageType
    <2>3. job[Worker].at # "idle" => Head(queue').kind = Head(queue).kind
      <3>1. PICK op : Serialized(op)
        BY <1>6 DEF Submit
      <3> QED
        BY <3>1, HeadStays DEF Safe
    <2> QED
      BY <1>t, <2>1, <2>2, <2>3, Idles
  <1>7. CASE Review(p)
    <2> DEFINE j == [job[p] EXCEPT !.at = "preview", !.kind = "preview", !.preset = page[p].snap.activePreset]
    <2>1. job' = [job EXCEPT ![p] = j] /\ j.at \in {"preview"} /\ ~Removing(p)
      BY <1>7, OwnersType DEF Review, At, GoTo, Safe, Typed, JobsOK, JobType, Removing, Ask, CanPress
    <2>2. Unchanged /\ tickets' \in {None, tickets} /\ UNCHANGED queue /\ ReviewsStand
      BY <1>7 DEF Unchanged, ReviewsStand, Review, storage, history, Safe, Typed, PagesOK, PageType, Ask, CanPress
    <2> HIDE DEF j
    <2> QED
      BY <1>t, <2>1, <2>2, OwnersType, Settles
  <1>8. CASE Clean(p)
    <2> DEFINE j == [job[p] EXCEPT !.at = "preview", !.kind = "clean", !.preset = None]
    <2>1. job' = [job EXCEPT ![p] = j] /\ j.at \in {"preview"} /\ ~Removing(p)
      BY <1>8, OwnersType DEF Clean, At, GoTo, Safe, Typed, JobsOK, JobType, Removing, Ask, CanPress
    <2>2. Unchanged /\ tickets' \in {None, tickets} /\ UNCHANGED queue /\ ReviewsStand
      BY <1>8 DEF Unchanged, ReviewsStand, Clean, storage, history, Safe, Typed, PagesOK, PageType, Ask, CanPress
    <2> HIDE DEF j
    <2> QED
      BY <1>t, <2>1, <2>2, OwnersType, Settles
  <1> QED
    BY <1>1, <1>2, <1>3, <1>4, <1>5, <1>6, <1>7, <1>8 DEF User

\* The steps of the environment keep Safe.
LEMMA SafeEnvironment ==
    ASSUME Safe, Environment
    PROVE  Safe'
  <1>t. Typed'
    BY TypedEnvironment DEF Safe
  <1>1. CASE Event
    <2>1. UNCHANGED job /\ Unchanged /\ UNCHANGED tickets
      BY <1>1 DEF Event, Unchanged, storage, history
    <2>2. ReviewsStand
      BY <1>1 DEF Event, ReviewsStand, ClosedPage, Safe, Typed, PagesOK, PageType
    <2>3. job[Worker].at # "idle" => Head(queue').kind = Head(queue).kind
      <3>1. PICK op : Serialized(op)
        BY <1>1 DEF Event, AlarmFires, TabCloses, Updated, Trigger
      <3> QED
        BY <3>1, HeadStays DEF Safe
    <2> QED
      BY <1>t, <2>1, <2>2, <2>3, Idles
  <1>2. CASE DeliverSync
    <2>1. UNCHANGED job /\ Unchanged /\ UNCHANGED tickets
      BY <1>2 DEF DeliverSync, Unchanged, storage, history
    <2>2. ReviewsStand
      BY <1>2 DEF DeliverSync, ReviewsStand, ClosedPage, Safe, Typed, PagesOK, PageType
    <2>3. job[Worker].at # "idle" => Head(queue').kind = Head(queue).kind
      <3>1. PICK op : Serialized(op)
        BY <1>2 DEF DeliverSync
      <3> QED
        BY <3>1, HeadStays DEF Safe
    <2> QED
      BY <1>t, <2>1, <2>2, <2>3, Idles
  <1>3. CASE ForeignChange
    <2>1. UNCHANGED job /\ Unchanged /\ UNCHANGED tickets
      BY <1>3 DEF ForeignChange, Unchanged, storage, history
    <2>2. ReviewsStand
      BY <1>3 DEF ForeignChange, ReviewsStand, ClosedPage, Safe, Typed, PagesOK, PageType
    <2>3. job[Worker].at # "idle" => Head(queue').kind = Head(queue).kind
      BY <1>3 DEF ForeignChange
    <2> QED
      BY <1>t, <2>1, <2>2, <2>3, Idles
  <1>4. CASE Navigate
    <2>1. UNCHANGED job /\ Unchanged /\ UNCHANGED tickets
      BY <1>4 DEF Navigate, Unchanged, storage, history
    <2>2. ReviewsStand
      BY <1>4 DEF Navigate, ReviewsStand, ClosedPage, Safe, Typed, PagesOK, PageType
    <2>3. job[Worker].at # "idle" => Head(queue').kind = Head(queue).kind
      BY <1>4 DEF Navigate
    <2> QED
      BY <1>t, <2>1, <2>2, <2>3, Idles
  <1>5. CASE Expire
    <2>1. /\ UNCHANGED job /\ Unchanged /\ ReviewsStand /\ UNCHANGED queue
          /\ tickets # None /\ tickets' = [tickets EXCEPT !.fresh = FALSE] /\ tickets \in TicketType
      BY <1>5 DEF Expire, Unchanged, storage, history, ReviewsStand, Safe, Typed, StoreOK
    <2>2. tickets'.token = tickets.token /\ tickets'.plan = tickets.plan
      BY <2>1 DEF TicketType
    <2> QED
      BY <1>t, <2>1, <2>2, Idles
  <1>6. CASE WorkerEnds
    <2>1. Reset /\ UNCHANGED <<settings, pending, late>> /\ ReviewsStand
      BY <1>6 DEF WorkerEnds, storage, history, ReviewsStand, ClosedPage, Safe, Typed, PagesOK, PageType
    <2> QED
      BY <1>t, <2>1, ResetSafe
  <1>7. CASE BrowserRestarts
    <2>1. Reset /\ UNCHANGED <<settings, pending, late>> /\ ReviewsStand
      BY <1>7 DEF BrowserRestarts, storage, history, ReviewsStand, ClosedPage, Safe, Typed, PagesOK, PageType
    <2> QED
      BY <1>t, <2>1, ResetSafe
  <1>8. CASE ReviewFails
    <2>1. UNCHANGED job /\ Unchanged /\ UNCHANGED tickets
      BY <1>8 DEF ReviewFails, Unchanged, storage, history
    <2>2. ReviewsStand
      BY <1>8 DEF ReviewFails, ReviewsStand, Safe, Typed, PagesOK, PageType
    <2>3. job[Worker].at # "idle" => Head(queue').kind = Head(queue).kind
      BY <1>8 DEF ReviewFails
    <2> QED
      BY <1>t, <2>1, <2>2, <2>3, Idles
  <1> QED
    BY <1>1, <1>2, <1>3, <1>4, <1>5, <1>6, <1>7, <1>8 DEF Environment

-----------------------------------------------------------------------------
(* Alarm and badge: what each stage of configure, and of what comes before   *)
(* it, has done about them, as long as no two owners did so at once.         *)

Agree == alarm = WantsAlarm(settings) /\ badge = BadgeOf(settings, pending # None)

Ending == {"settle", "follow", "close", "reload", "failed", "reread"}

Fact(o) ==
    /\ job[o].at \in {"clear", "create", "peek", "badge"} => job[o].set = settings
    /\ job[o].at = "create" => WantsAlarm(settings)
    /\ job[o].at \in {"peek", "badge", "defer", "mark"} \cup Ending => alarm = WantsAlarm(settings)
    /\ job[o].at = "badge" => BadgeOf(settings, job[o].pend) = BadgeOf(settings, pending # None)
    /\ job[o].at \in Ending => Readable \/ badge = BadgeOf(settings, pending # None)
    /\ job[o].at = "mark" => pending # None

Alone == \A o1, o2 \in Owners : Window(o1) /\ Window(o2) => o1 = o2

ShownOK ==
    /\ disturbed \in BOOLEAN
    /\ pending # None => Readable
    /\ job[Worker].at \in {"defer", "mark"} => Readable /\ settings.enabled
    /\ ~disturbed => /\ Alone
                     /\ \A o \in Owners : Window(o) => Fact(o)
                     /\ (\A o \in Owners : ~Window(o)) => Agree

LEMMA TrackOK ==
    ASSUME ShownOK, Track
    PROVE  disturbed' \in BOOLEAN /\ (~disturbed' => ~disturbed /\ Alone')
  <1>1. disturbed' \in BOOLEAN /\ (~disturbed' => ~disturbed /\ ~Disturbs)
    BY DEF Track, ShownOK
  <1>2. ~Disturbs => Alone'
    BY DEF Disturbs, Alone
  <1> QED
    BY <1>1, <1>2

\* A step of others, or of an owner that has nothing to do with alarm and badge.
LEMMA ShownStays ==
    ASSUME ShownOK, Track, \A o \in Owners : Window(o) \/ Window(o)' => job'[o] = job[o],
           UNCHANGED <<settings, pending, alarm, badge>>
    PROVE  ShownOK'
  <1>1. \A o \in Owners : Window(o)' <=> Window(o)
    BY DEF Window
  <1>2. job'[Worker].at \in {"defer", "mark"} => Readable' /\ settings'.enabled
    BY OwnersType DEF ShownOK, Window, Readable
  <1>3. ASSUME ~disturbed', NEW o \in Owners, Window(o)' PROVE Fact(o)'
    <2>1. Fact(o) /\ job'[o] = job[o]
      BY <1>1, <1>3, TrackOK DEF ShownOK
    <2> QED
      BY <2>1 DEF Fact, WantsAlarm, BadgeOf, Readable
  <1>4. ~disturbed' /\ (\A o \in Owners : ~Window(o)') => Agree'
    BY <1>1, TrackOK DEF ShownOK, Agree, WantsAlarm, BadgeOf
  <1>5. pending' # None => Readable'
    BY DEF ShownOK, Readable
  <1> QED
    BY <1>2, <1>3, <1>4, <1>5, TrackOK DEF ShownOK

\* An owner goes on with what concerns alarm and badge.
LEMMA ShownGoesOn ==
    ASSUME ShownOK, Track, NEW o \in Owners, \A q \in Owners : q # o => job'[q] = job[q], Window(o),
           UNCHANGED settings \/ o = Worker, pending' # None => Readable',
           o = Worker /\ job'[o].at \in {"defer", "mark"} => Readable' /\ settings'.enabled,
           Fact(o) => IF Window(o)' THEN Fact(o)' ELSE Agree'
    PROVE  ShownOK'
  <1>1. \A q \in Owners : q # o => (Window(q)' <=> Window(q))
    BY DEF Window
  <1>2. ~disturbed => Fact(o) /\ \A q \in Owners : q # o => ~Window(q)
    BY DEF ShownOK, Alone
  <1>3. job'[Worker].at \in {"defer", "mark"} => Readable' /\ settings'.enabled
    BY OwnersType DEF ShownOK, Readable
  <1>4. ~disturbed' => \A q \in Owners : Window(q)' => q = o /\ Fact(q)'
    BY <1>1, <1>2, TrackOK
  <1>5. ~disturbed' /\ (\A q \in Owners : ~Window(q)') => Agree'
    BY <1>2, TrackOK
  <1> QED
    BY <1>3, <1>4, <1>5, TrackOK DEF ShownOK

\* An owner turns to it.
LEMMA ShownTakenUp ==
    ASSUME ShownOK, Track, NEW o \in Owners, \A q \in Owners : q # o => job'[q] = job[q],
           ~Window(o), Window(o)', UNCHANGED <<settings, pending, alarm, badge>>,
           o = Worker /\ job'[o].at \in {"defer", "mark"} => Readable /\ settings.enabled,
           Agree => Fact(o)'
    PROVE  ShownOK'
  <1>1. \A q \in Owners : q # o => (Window(q)' <=> Window(q))
    BY DEF Window
  <1>2. ~disturbed' => ~disturbed /\ \A q \in Owners : ~Window(q)
    BY <1>1, TrackOK DEF Alone
  <1>3. ~disturbed' => Fact(o)'
    BY <1>2 DEF ShownOK
  <1>4. job'[Worker].at \in {"defer", "mark"} => Readable' /\ settings'.enabled
    BY OwnersType DEF ShownOK, Readable
  <1>5. pending' # None => Readable'
    BY DEF ShownOK, Readable
  <1>6. ~disturbed' => \A q \in Owners : Window(q)' => Fact(q)'
    BY <1>1, <1>2, <1>3
  <1> QED
    BY <1>4, <1>5, <1>6, TrackOK DEF ShownOK

\* One owner's step leaves the jobs of the others alone.
LEMMA OthersStay ==
    ASSUME Typed, NEW o \in Owners, NEW j, job' = [job EXCEPT ![o] = j]
    PROVE  job'[o] = j /\ \A q \in Owners : q # o => job'[q] = job[q]
  BY DEF Typed, JobsOK

\* An owner's step outside the stages that concern alarm and badge.
LEMMA ShownOther ==
    ASSUME Typed, ShownOK, Track, NEW o \in Owners, NEW j, job' = [job EXCEPT ![o] = j],
           ~Window(o), ~(j.at \in {"write", "clear", "create", "peek", "badge", "settle", "follow",
                                   "close", "reload", "failed", "reread", "defer", "mark"}),
           UNCHANGED <<settings, pending, alarm, badge>>
    PROVE  ShownOK'
  <1>1. \A q \in Owners : Window(q) \/ Window(q)' => job'[q] = job[q]
    BY OthersStay DEF Window
  <1> QED
    BY <1>1, ShownStays

\* What the steps below start from.
Both == Safe /\ Typed /\ ShownOK

\* An answer or a refusal, and a cleanup that begins, leave alarm and badge as they are.
LEMMA EndsIdle ==
    ASSUME NEW o \in Owners, GiveUp(o) \/ (o = Worker /\ Release)
    PROVE  job' = [job EXCEPT ![o] = IdleJob]
  BY DEF GiveUp, Release, Refuse, Reply

LEMMA LaunchShown ==
    ASSUME Typed, ShownOK, Track, NEW o \in Owners, ~Window(o), NEW plan, NEW reviewed,
           Launch(o, plan, reviewed), UNCHANGED <<settings, pending, alarm, badge>>
    PROVE  ShownOK'
  <1>1. CASE running
    BY <1>1, EndsIdle, ShownOther DEF Launch, IdleJob
  <1>2. CASE ~running
    <2> DEFINE j == [IdleJob EXCEPT !.at = "check", !.kind = "cleanup", !.plan = plan,
                                    !.todo = plan.calls, !.reviewed = reviewed]
    <2>1. job' = [job EXCEPT ![o] = j]
      BY <1>2 DEF Launch
    <2>2. j.at = "check"
      BY DEF IdleJob
    <2> HIDE DEF j
    <2> QED
      BY <2>1, <2>2, ShownOther
  <1> QED
    BY <1>1, <1>2

\* A cleanup fails that has not touched alarm and badge.
LEMMA FailShown ==
    ASSUME Both, Track, NEW o \in Owners, ~Window(o), Fail(o), UNCHANGED <<settings, pending, alarm, badge>>
    PROVE  ShownOK'
  <1>1. job'[o].at = "failed" /\ \A q \in Owners : q # o => job'[q] = job[q]
    BY DEF Fail, Both, Typed, JobsOK, JobType
  <1>2. Window(o)'
    BY <1>1 DEF Window
  <1>3. Agree => Fact(o)'
    BY <1>1 DEF Agree, Fact, Ending, WantsAlarm, BadgeOf, Readable
  <1> QED
    BY <1>1, <1>2, <1>3, ShownTakenUp DEF Both

\* An owner between the end of its cleanup and configure goes on to another such stage.
LEMMA EndingShown ==
    ASSUME Both, Track, NEW o \in Owners, job[o].at \in Ending, job'[o].at \in Ending,
           \A q \in Owners : q # o => job'[q] = job[q], UNCHANGED <<settings, pending, alarm, badge>>
    PROVE  ShownOK'
  <1>1. Window(o) /\ Window(o)'
    BY DEF Window, Ending
  <1>2. Fact(o) => Fact(o)'
    BY DEF Fact, Ending, WantsAlarm, BadgeOf, Readable
  <1>3. job'[o].at \notin {"defer", "mark"} /\ (pending' # None => Readable')
    BY DEF Ending, Both, ShownOK, Readable
  <1> QED
    BY <1>1, <1>2, <1>3, ShownGoesOn DEF Both

LEMMA ReleaseShown ==
    ASSUME Both, Track, ~Window(Worker), Release, UNCHANGED <<settings, pending, alarm, badge>>
    PROVE  ShownOK'
  <1>1. job' = [job EXCEPT ![Worker] = IdleJob] /\ IdleJob.at = "idle"
    BY DEF Release, IdleJob
  <1> QED
    BY <1>1, OwnersType, ShownOther DEF Both

LEMMA ReplyShown ==
    ASSUME Both, Track, NEW p \in Pages, ~Window(p), NEW snap, NEW review, Reply(p, snap, review),
           UNCHANGED <<settings, pending, alarm, badge>>
    PROVE  ShownOK'
  <1>1. job' = [job EXCEPT ![p] = IdleJob] /\ IdleJob.at = "idle"
    BY DEF Reply, IdleJob
  <1> QED
    BY <1>1, OwnersType, ShownOther DEF Both

\* The steps of configure keep ShownOK.
LEMMA ShownConfigure ==
    ASSUME Both, Track, NEW o \in Owners, Configure(o)
    PROVE  ShownOK'
  <1>1. CASE ClearAlarm(o)
    <2>1. job[o].at = "clear" /\ Window(o) /\ job[o] \in JobType /\ o \in Owners
      BY <1>1, OwnersType DEF ClearAlarm, At, Window, Both, Typed, JobsOK
    <2>2. /\ job'[o] = [job[o] EXCEPT !.at = IF WantsAlarm(job[o].set) THEN "create" ELSE "peek"]
          /\ \A q \in Owners : q # o => job'[q] = job[q]
      BY <1>1, <2>1 DEF ClearAlarm, GoTo, Both, Typed, JobsOK
    <2>3. /\ UNCHANGED settings /\ (pending' # None => Readable')
          /\ o = Worker => job'[o].at \notin {"defer", "mark"}
      BY <1>1, <2>1, <2>2 DEF ClearAlarm, storage, JobType, Both, ShownOK, Readable
    <2>4. Fact(o) => Window(o)' /\ Fact(o)'
      <3>1. Fact(o) => job[o].set = settings
        BY <2>1 DEF Fact
      <3>2. job'[o].at \in {"create", "peek"} /\ (job'[o].at = "create" <=> WantsAlarm(job[o].set))
        BY <2>1, <2>2 DEF JobType
      <3>3. job'[o].set = job[o].set
        BY <2>1, <2>2 DEF JobType
      <3>4. UNCHANGED settings /\ alarm' = FALSE /\ WantsAlarm(settings) \in BOOLEAN
        BY <1>1, EnabledType DEF ClearAlarm, storage, WantsAlarm, Both, Typed, StoreOK
      <3> QED
        BY <3>1, <3>2, <3>3, <3>4 DEF Fact, Window, WantsAlarm, Ending
    <2> QED
      BY <2>1, <2>2, <2>3, <2>4, ShownGoesOn DEF Both
  <1>2. CASE CreateAlarm(o)
    <2>1. job[o].at = "create" /\ Window(o) /\ job[o] \in JobType /\ o \in Owners
      BY <1>2, OwnersType DEF CreateAlarm, At, Window, Both, Typed, JobsOK
    <2>2. /\ job'[o] = [job[o] EXCEPT !.at = "peek"]
          /\ \A q \in Owners : q # o => job'[q] = job[q]
      BY <1>2, <2>1 DEF CreateAlarm, GoTo, Both, Typed, JobsOK
    <2>3. /\ UNCHANGED settings /\ (pending' # None => Readable')
          /\ o = Worker => job'[o].at \notin {"defer", "mark"}
      BY <1>2, <2>1, <2>2 DEF CreateAlarm, storage, JobType, Both, ShownOK, Readable
    <2>4. Fact(o) => Window(o)' /\ Fact(o)'
      <3>1. Fact(o) => job[o].set = settings /\ WantsAlarm(settings)
        BY <2>1 DEF Fact
      <3>2. job'[o].at = "peek" /\ job'[o].set = job[o].set
        BY <2>1, <2>2 DEF JobType
      <3>3. UNCHANGED settings /\ alarm' = TRUE /\ WantsAlarm(settings) \in BOOLEAN
        BY <1>2, EnabledType DEF CreateAlarm, storage, WantsAlarm, Both, Typed, StoreOK
      <3> QED
        BY <3>1, <3>2, <3>3 DEF Fact, Window, WantsAlarm, Ending
    <2> QED
      BY <2>1, <2>2, <2>3, <2>4, ShownGoesOn DEF Both
  <1>3. CASE ReadPending(o)
    <2>1. job[o].at = "peek" /\ Window(o) /\ job[o] \in JobType /\ o \in Owners
      BY <1>3, OwnersType DEF ReadPending, At, Window, Both, Typed, JobsOK
    <2>2. /\ job'[o].at = "badge" /\ job'[o].set = job[o].set
          /\ job'[o].pend = (pending # None)
          /\ \A q \in Owners : q # o => job'[q] = job[q]
      BY <1>3, <2>1 DEF ReadPending, Both, Typed, JobsOK, JobType
    <2>3. /\ UNCHANGED settings /\ (pending' # None => Readable')
          /\ o = Worker => job'[o].at \notin {"defer", "mark"}
      BY <1>3, <2>1, <2>2 DEF ReadPending, storage, JobType, Both, ShownOK, Readable, shown
    <2>4. Fact(o) => Window(o)' /\ Fact(o)'
      <3>1. Fact(o) => job[o].set = settings /\ alarm = WantsAlarm(settings)
        BY <2>1 DEF Fact
      <3>2. UNCHANGED <<settings, pending, alarm, badge>>
        BY <1>3 DEF ReadPending, storage, shown
      <3> QED
        BY <2>2, <3>1, <3>2 DEF Fact, Window, WantsAlarm, Ending
    <2> QED
      BY <2>1, <2>2, <2>3, <2>4, ShownGoesOn DEF Both
  <1>4. CASE SetBadge(o)
    <2>1. job[o].at = "badge" /\ Window(o) /\ job[o] \in JobType /\ o \in Owners
      BY <1>4, OwnersType DEF SetBadge, At, Window, Both, Typed, JobsOK
    <2>2. ~Window(o)' /\ \A q \in Owners : q # o => job'[q] = job[q]
      <3>1. \/ job' = [job EXCEPT ![o] = IdleJob]
            \/ GoTo(o, "publish") \/ GoTo(o, "automate")
        BY <1>4 DEF SetBadge, Reply, Release
      <3> QED
        BY <2>1, <3>1 DEF GoTo, Window, IdleJob, Both, Typed, JobsOK, JobType
    <2>3. /\ UNCHANGED settings /\ (pending' # None => Readable')
          /\ o = Worker => job'[o].at \notin {"defer", "mark"}
      BY <1>4, <2>2 DEF SetBadge, storage, Both, ShownOK, Readable, Window
    <2>4. Fact(o) => Agree'
      <3>1. Fact(o) => /\ job[o].set = settings /\ alarm = WantsAlarm(settings)
                       /\ BadgeOf(settings, job[o].pend) = BadgeOf(settings, pending # None)
        BY <2>1 DEF Fact
      <3>2. badge' = BadgeOf(job[o].set, job[o].pend) /\ UNCHANGED <<settings, pending, alarm>>
        BY <1>4 DEF SetBadge, storage
      <3> QED
        BY <3>1, <3>2 DEF Agree, WantsAlarm, BadgeOf
    <2> QED
      BY <2>1, <2>2, <2>3, <2>4, ShownGoesOn DEF Both
  <1> QED
    BY <1>1, <1>2, <1>3, <1>4 DEF Configure

\* The steps of a cleanup keep ShownOK.
LEMMA ShownCleanup ==
    ASSUME Both, Track, NEW o \in Owners, Cleanup(o)
    PROVE  ShownOK'
  <1>1. CASE CheckEnabled(o)
    <2>1. CASE GoTo(o, "remove")
      <3> DEFINE j == [job[o] EXCEPT !.at = "remove"]
      <3>1. job' = [job EXCEPT ![o] = j] /\ j.at = "remove"
        BY <2>1 DEF GoTo, Both, Typed, JobsOK, JobType
      <3>2. ~Window(o) /\ UNCHANGED <<settings, pending, alarm, badge>>
        BY <1>1 DEF CheckEnabled, At, Window, storage, shown
      <3> HIDE DEF j
      <3> QED
        BY <3>1, <3>2, ShownOther DEF Both
    <2>2. CASE Fail(o)
      BY <1>1, <2>2, FailShown DEF CheckEnabled, At, Window, storage, shown
    <2> QED
      BY <1>1, <2>1, <2>2 DEF CheckEnabled
  <1>2. CASE Remove(o)
    <2>1. PICK c \in job[o].todo :
              job' = [job EXCEPT ![o].todo = @ \ {c},
                                 ![o].at = IF job[o].todo = {c} THEN "record" ELSE "check"]
      BY <1>2 DEF Remove
    <2>2. job'[o].at \in {"record", "check"} /\ \A q \in Owners : q # o => job'[q] = job[q]
      BY <2>1 DEF Both, Typed, JobsOK, JobType
    <2>3. ~Window(o) /\ UNCHANGED <<settings, pending, alarm, badge>>
      BY <1>2 DEF Remove, At, Window, storage, shown
    <2>4. \A q \in Owners : Window(q) \/ Window(q)' => job'[q] = job[q]
      BY <2>2, <2>3 DEF Window
    <2> QED
      BY <2>3, <2>4, ShownStays DEF Both
  <1>3. CASE RemoveFails(o)
    <2>1. ~Window(o) /\ Fail(o) /\ UNCHANGED <<settings, pending, alarm, badge>>
      BY <1>3 DEF RemoveFails, At, Window, storage, shown
    <2> QED
      BY <2>1, FailShown
  <1>4. CASE RecordDone(o)
    <2>1. job'[o].at = "settle" /\ \A q \in Owners : q # o => job'[q] = job[q]
      BY <1>4 DEF RecordDone, GoTo, Both, Typed, JobsOK, JobType
    <2>2. ~Window(o) /\ Window(o)' /\ UNCHANGED <<settings, pending, alarm, badge>>
      BY <1>4, <2>1 DEF RecordDone, At, Window, shown
    <2>3. Agree => Fact(o)'
      BY <2>1, <2>2 DEF Agree, Fact, Ending, WantsAlarm, BadgeOf
    <2> QED
      BY <2>1, <2>2, <2>3, ShownTakenUp DEF Both
  <1>5. CASE RecordFailed(o)
    <2>1. /\ job[o].at \in Ending /\ job'[o].at \in Ending
          /\ \A q \in Owners : q # o => job'[q] = job[q]
      BY <1>5 DEF RecordFailed, At, GoTo, Finish, Ending, Both, Typed, JobsOK, JobType
    <2>2. UNCHANGED <<settings, pending, alarm, badge>>
      BY <1>5 DEF RecordFailed, storage, shown
    <2> QED
      BY <2>1, <2>2, EndingShown
  <1>6. CASE ClearPending(o)
    <2>1. job[o].at = "settle" /\ Window(o) /\ job[o] \in JobType /\ o \in Owners
      BY <1>6, OwnersType DEF ClearPending, At, Window, Both, Typed, JobsOK
    <2>2. /\ job'[o] = [job[o] EXCEPT !.at = "follow"]
          /\ \A q \in Owners : q # o => job'[q] = job[q]
      BY <1>6, <2>1 DEF ClearPending, GoTo, Both, Typed, JobsOK
    <2>3. /\ UNCHANGED settings /\ (pending' # None => Readable')
          /\ o = Worker => job'[o].at \notin {"defer", "mark"}
      BY <1>6, <2>1, <2>2 DEF ClearPending, JobType
    <2>4. Fact(o) => Window(o)' /\ Fact(o)'
      <3>1. Fact(o) => alarm = WantsAlarm(settings) /\ (Readable \/ badge = BadgeOf(settings, pending # None))
        BY <2>1 DEF Fact, Ending
      <3>2. job'[o].at = "follow"
        BY <2>1, <2>2 DEF JobType
      <3>3. pending' = None /\ UNCHANGED <<settings, alarm, badge>>
        BY <1>6 DEF ClearPending, shown
      <3>4. ~Readable => pending = None
        BY DEF Both, ShownOK
      <3>5. Fact(o) => Readable \/ badge = BadgeOf(settings, pending' # None)
        BY <3>1, <3>3, <3>4 DEF BadgeOf
      <3> QED
        BY <3>1, <3>2, <3>3, <3>5 DEF Fact, Window, WantsAlarm, BadgeOf, Readable, Ending
    <2> QED
      BY <2>1, <2>2, <2>3, <2>4, ShownGoesOn DEF Both
  <1>7. CASE ChooseFollowUp(o)
    <2>1. /\ job[o].at \in Ending /\ job'[o].at \in Ending
          /\ \A q \in Owners : q # o => job'[q] = job[q]
      BY <1>7 DEF ChooseFollowUp, At, GoTo, Finish, Fail, Ending, Both, Typed, JobsOK, JobType
    <2>2. UNCHANGED <<settings, pending, alarm, badge>>
      BY <1>7 DEF ChooseFollowUp, storage, shown
    <2> QED
      BY <2>1, <2>2, EndingShown
  <1>8. CASE CloseWindows(o)
    <2>1. /\ job[o].at \in Ending /\ job'[o].at \in Ending
          /\ \A q \in Owners : q # o => job'[q] = job[q]
      BY <1>8 DEF CloseWindows, At, GoTo, Finish, Ending, Both, Typed, JobsOK, JobType
    <2>2. UNCHANGED <<settings, pending, alarm, badge>>
      BY <1>8 DEF CloseWindows, storage, shown
    <2> QED
      BY <2>1, <2>2, EndingShown
  <1>9. CASE CloseFails(o)
    <2>1. /\ job[o].at \in Ending /\ job'[o].at \in Ending
          /\ \A q \in Owners : q # o => job'[q] = job[q]
      BY <1>9 DEF CloseFails, At, GoTo, Fail, Ending, Both, Typed, JobsOK, JobType
    <2>2. UNCHANGED <<settings, pending, alarm, badge>>
      BY <1>9 DEF CloseFails, storage, shown
    <2> QED
      BY <2>1, <2>2, EndingShown
  <1>10. CASE ReloadTab(o)
    <2>1. /\ job[o].at \in Ending /\ job'[o].at \in Ending
          /\ \A q \in Owners : q # o => job'[q] = job[q]
      BY <1>10 DEF ReloadTab, At, GoTo, Finish, Ending, Both, Typed, JobsOK, JobType
    <2>2. UNCHANGED <<settings, pending, alarm, badge>>
      BY <1>10 DEF ReloadTab, storage, shown
    <2> QED
      BY <2>1, <2>2, EndingShown
  <1>11. CASE ReadAgain(o)
    <2>1. job[o].at = "reread" /\ Window(o) /\ job[o] \in JobType /\ o \in Owners
      BY <1>11, OwnersType DEF ReadAgain, At, Window, Both, Typed, JobsOK
    <2>2. /\ \A q \in Owners : q # o => job'[q] = job[q]
          /\ \/ Readable /\ job'[o].at = "clear" /\ job'[o].set = settings
             \/ ~Readable /\ job'[o].at = "idle"
      <3>1. CASE Readable
        BY <1>11, <2>1, <3>1 DEF ReadAgain, Both, Typed, JobsOK, JobType
      <3>2. CASE ~Readable
        <4>1. GiveUp(o)
          BY <1>11, <3>2 DEF ReadAgain
        <4> QED
          BY <3>2, <4>1, EndsIdle, OthersStay DEF Both, IdleJob
      <3> QED
        BY <3>1, <3>2
    <2>3. /\ UNCHANGED settings /\ (pending' # None => Readable')
          /\ o = Worker => job'[o].at \notin {"defer", "mark"}
      BY <1>11, <2>1, <2>2 DEF ReadAgain, storage, JobType, Both, ShownOK, Readable
    <2>4. Fact(o) => IF Window(o)' THEN Fact(o)' ELSE Agree'
      <3>1. Fact(o) => alarm = WantsAlarm(settings) /\ (Readable \/ badge = BadgeOf(settings, pending # None))
        BY <2>1 DEF Fact, Ending
      <3>2. UNCHANGED <<settings, pending, alarm, badge>>
        BY <1>11 DEF ReadAgain, storage, shown
      <3>3. CASE Readable
        BY <2>2, <3>2, <3>3 DEF Fact, Window, Ending
      <3>4. CASE ~Readable
        BY <2>2, <3>1, <3>2, <3>4 DEF Agree, Window, WantsAlarm, BadgeOf
      <3> QED
        BY <3>3, <3>4
    <2> QED
      BY <2>1, <2>2, <2>3, <2>4, ShownGoesOn DEF Both
  <1> QED
    BY <1>1, <1>2, <1>3, <1>4, <1>5, <1>6, <1>7, <1>8, <1>9, <1>10, <1>11 DEF Cleanup

\* The steps of the queue keep ShownOK.
LEMMA ShownQueued ==
    ASSUME Both, Track, Queued
    PROVE  ShownOK'
  <1>1. CASE StartSave
    <2>1. CASE Release
      <3>1. ~Window(Worker) /\ UNCHANGED <<settings, pending, alarm, badge>>
        BY <1>1 DEF StartSave, At, Starts, Window, storage, shown
      <3> QED
        BY <2>1, <3>1, ReleaseShown DEF Both
    <2>2. CASE ~Release
      <3>1. PICK s : job' = [job EXCEPT ![Worker].at = "write", ![Worker].set = s]
        BY <1>1, <2>2 DEF StartSave
      <3>2. job'[Worker].at = "write" /\ \A q \in Owners : q # Worker => job'[q] = job[q]
        BY <3>1, OwnersType DEF Both, Typed, JobsOK, JobType
      <3>3. ~Window(Worker) /\ Window(Worker)' /\ UNCHANGED <<settings, pending, alarm, badge>>
        BY <1>1, <3>2 DEF StartSave, At, Starts, Window, storage, shown
      <3>4. Fact(Worker)'
        BY <3>2 DEF Fact, Ending
      <3> QED
        BY <3>2, <3>3, <3>4, OwnersType, ShownTakenUp DEF Both
    <2> QED
      BY <2>1, <2>2
  <1>2. CASE WriteSettings
    <2>1. job[Worker].at = "write" /\ Window(Worker) /\ job[Worker] \in JobType /\ Worker \in Owners
      BY <1>2, OwnersType DEF WriteSettings, At, Window, Both, Typed, JobsOK
    <2>2. /\ job'[Worker].at = "clear" /\ job'[Worker].set = job[Worker].set
          /\ \A q \in Owners : q # Worker => job'[q] = job[q]
      BY <1>2, <2>1 DEF WriteSettings, GoTo, Both, Typed, JobsOK, JobType
    <2>3. /\ pending' = None /\ settings' = job[Worker].set
          /\ job'[Worker].at \notin {"defer", "mark"}
      BY <1>2, <2>2 DEF WriteSettings
    <2>4. Window(Worker)' /\ Fact(Worker)'
      BY <2>2, <2>3 DEF Window, Fact, Ending
    <2> QED
      BY <2>1, <2>2, <2>3, <2>4, ShownGoesOn DEF Both
  <1>3. CASE Publish
    <2>1. Release /\ ~Window(Worker) /\ UNCHANGED <<settings, pending, alarm, badge>>
      BY <1>3 DEF Publish, At, Window, storage, shown
    <2> QED
      BY <2>1, ReleaseShown
  <1>4. CASE ReceiveSync
    <2>1. CASE Release
      <3>1. ~Window(Worker) /\ UNCHANGED <<settings, pending, alarm, badge>>
        BY <1>4 DEF ReceiveSync, At, Starts, Window, storage, shown
      <3> QED
        BY <2>1, <3>1, ReleaseShown DEF Both
    <2>2. CASE ~Release
      <3>1. PICK s : job' = [job EXCEPT ![Worker].at = "write", ![Worker].set = s]
        BY <1>4, <2>2 DEF ReceiveSync
      <3>2. job'[Worker].at = "write" /\ \A q \in Owners : q # Worker => job'[q] = job[q]
        BY <3>1, OwnersType DEF Both, Typed, JobsOK, JobType
      <3>3. ~Window(Worker) /\ Window(Worker)' /\ UNCHANGED <<settings, pending, alarm, badge>>
        BY <1>4, <3>2 DEF ReceiveSync, At, Starts, Window, storage, shown
      <3>4. Fact(Worker)'
        BY <3>2 DEF Fact, Ending
      <3> QED
        BY <3>2, <3>3, <3>4, OwnersType, ShownTakenUp DEF Both
    <2> QED
      BY <2>1, <2>2
  <1>5. CASE StartUp
    <2>1. CASE Release
      <3>1. ~Window(Worker) /\ UNCHANGED <<settings, pending, alarm, badge>>
        BY <1>5 DEF StartUp, At, Starts, Window, storage, shown
      <3> QED
        BY <2>1, <3>1, ReleaseShown DEF Both
    <2>2. CASE Readable /\ job' = [job EXCEPT ![Worker].at = "clear", ![Worker].set = settings]
      <3>1. job'[Worker].at = "clear" /\ job'[Worker].set = settings /\ \A q \in Owners : q # Worker => job'[q] = job[q]
        BY <2>2, OwnersType DEF Both, Typed, JobsOK, JobType
      <3>2. ~Window(Worker) /\ Window(Worker)' /\ UNCHANGED <<settings, pending, alarm, badge>>
        BY <1>5, <3>1 DEF StartUp, At, Starts, Window, storage, shown
      <3>3. Agree => Fact(Worker)'
        BY <3>1, <3>2 DEF Agree, Fact, Ending, WantsAlarm, BadgeOf
      <3> QED
        BY <3>1, <3>2, <3>3, OwnersType, ShownTakenUp DEF Both
    <2> QED
      BY <1>5, <2>1, <2>2 DEF StartUp
  <1>6. CASE Automate
    <2>0. ~Window(Worker) /\ UNCHANGED <<settings, pending, alarm, badge>>
      BY <1>6 DEF Automate, At, Starts, Window, storage, shown
    <2>1. CASE Release
      BY <2>0, <2>1, ReleaseShown DEF Both
    <2>2. CASE Due /\ GoTo(Worker, "defer")
      <3>1. job'[Worker].at = "defer" /\ \A q \in Owners : q # Worker => job'[q] = job[q]
        BY <2>2, OwnersType DEF GoTo, Both, Typed, JobsOK, JobType
      <3>2. Window(Worker)' /\ Readable /\ settings.enabled
        BY <2>2, <3>1 DEF Window, Due
      <3>3. Agree => Fact(Worker)'
        BY <2>0, <3>1 DEF Agree, Fact, Ending, WantsAlarm, BadgeOf
      <3> QED
        BY <2>0, <3>1, <3>2, <3>3, OwnersType, ShownTakenUp DEF Both
    <2>3. CASE Launch(Worker, AutomaticPlan(settings), None)
      BY <2>0, <2>3, OwnersType, LaunchShown DEF Both
    <2> QED
      BY <1>6, <2>1, <2>2, <2>3 DEF Automate
  <1>7. CASE DeferToUser
    <2>1. job[Worker].at = "defer" /\ Window(Worker) /\ job[Worker] \in JobType /\ Worker \in Owners
      BY <1>7, OwnersType DEF DeferToUser, At, Window, Both, Typed, JobsOK
    <2>2. /\ job'[Worker].at = "mark" /\ \A q \in Owners : q # Worker => job'[q] = job[q]
      BY <1>7, <2>1 DEF DeferToUser, GoTo, Both, Typed, JobsOK, JobType
    <2>3. /\ UNCHANGED settings /\ Readable' /\ settings'.enabled
      BY <1>7, <2>1 DEF DeferToUser, Both, ShownOK, Readable
    <2>4. Fact(Worker) => Window(Worker)' /\ Fact(Worker)'
      <3>1. pending' # None
        BY <1>7, <2>1, PendingAssumption DEF DeferToUser, Both, Safe, AutomationOK, Sources
      <3>2. UNCHANGED <<settings, alarm>>
        BY <1>7 DEF DeferToUser, shown
      <3> QED
        BY <2>1, <2>2, <3>1, <3>2 DEF Fact, Window, WantsAlarm, Ending
    <2> QED
      BY <2>1, <2>2, <2>3, <2>4, ShownGoesOn DEF Both
  <1>8. CASE MarkBadge
    <2>1. job[Worker].at = "mark" /\ Window(Worker) /\ job[Worker] \in JobType /\ Worker \in Owners
      BY <1>8, OwnersType DEF MarkBadge, At, Window, Both, Typed, JobsOK
    <2>2. /\ job'[Worker].at = "idle" /\ \A q \in Owners : q # Worker => job'[q] = job[q]
      BY <1>8, <2>1 DEF MarkBadge, Release, IdleJob, Both, Typed, JobsOK
    <2>3. /\ UNCHANGED settings /\ (pending' # None => Readable')
          /\ job'[Worker].at \notin {"defer", "mark"}
      BY <1>8, <2>2 DEF MarkBadge, storage, Both, ShownOK, Readable
    <2>4. Fact(Worker) => Agree' /\ ~Window(Worker)'
      <3>1. settings.enabled /\ (Fact(Worker) => pending # None /\ alarm = WantsAlarm(settings))
        BY <2>1 DEF Fact, Both, ShownOK
      <3>2. badge' = "!" /\ UNCHANGED <<settings, pending, alarm>>
        BY <1>8 DEF MarkBadge, storage
      <3> QED
        BY <2>2, <3>1, <3>2 DEF Agree, Window, WantsAlarm, BadgeOf
    <2> QED
      BY <2>1, <2>2, <2>3, <2>4, ShownGoesOn DEF Both
  <1> QED
    BY <1>1, <1>2, <1>3, <1>4, <1>5, <1>6, <1>7, <1>8 DEF Queued

\* The steps of requests keep ShownOK.
LEMMA ShownRequest ==
    ASSUME Both, Track, NEW p \in Pages, Request(p)
    PROVE  ShownOK'
  <1>1. CASE ReadForPreview(p)
    <2>0. ~Window(p) /\ UNCHANGED <<settings, pending, alarm, badge>>
      BY <1>1 DEF ReadForPreview, At, Window, storage, shown
    <2>1. CASE Refuse(p)
      BY <2>0, <2>1, ReplyShown DEF Refuse
    <2>2. CASE job' = [job EXCEPT ![p].at = "target", ![p].set = settings]
      <3> DEFINE j == [job[p] EXCEPT !.at = "target", !.set = settings]
      <3>1. job' = [job EXCEPT ![p] = j] /\ j.at = "target"
        BY <2>2, OwnersType DEF Both, Typed, JobsOK, JobType
      <3> HIDE DEF j
      <3> QED
        BY <2>0, <3>1, OwnersType, ShownOther DEF Both
    <2> QED
      BY <1>1, <2>1, <2>2 DEF ReadForPreview
  <1>2. CASE MakePlan(p)
    <2>0. ~Window(p) /\ UNCHANGED <<settings, pending, alarm, badge>>
      BY <1>2 DEF MakePlan, At, Window, storage, shown
    <2>1. ASSUME NEW snap, NEW review, Reply(p, snap, review) PROVE ShownOK'
      BY <2>0, <2>1, ReplyShown
    <2>2. ASSUME NEW plan, job' = [job EXCEPT ![p].at = "verify", ![p].plan = plan, ![p].url = url]
          PROVE  ShownOK'
      <3> DEFINE j == [job[p] EXCEPT !.at = "verify", !.plan = plan, !.url = url]
      <3>1. job' = [job EXCEPT ![p] = j] /\ j.at = "verify"
        BY <2>2, OwnersType DEF Both, Typed, JobsOK, JobType
      <3> HIDE DEF j
      <3> QED
        BY <2>0, <3>1, OwnersType, ShownOther DEF Both
    <2> QED
      BY <1>2, <2>1, <2>2 DEF MakePlan, Refuse
  <1>3. CASE Verify(p)
    <2>0. ~Window(p) /\ UNCHANGED <<settings, pending, alarm, badge>>
      BY <1>3 DEF Verify, At, Window, storage, shown
    <2>1. CASE Refuse(p)
      BY <2>0, <2>1, ReplyShown DEF Refuse
    <2>2. CASE Launch(p, job[p].plan, job[p].reviewed)
      BY <2>0, <2>2, OwnersType, LaunchShown DEF Both
    <2>3. CASE job' = [job EXCEPT ![p].at = "tab"]
      <3> DEFINE j == [job[p] EXCEPT !.at = "tab"]
      <3>1. job' = [job EXCEPT ![p] = j] /\ j.at = "tab"
        BY <2>3, OwnersType DEF Both, Typed, JobsOK, JobType
      <3> HIDE DEF j
      <3> QED
        BY <2>0, <3>1, OwnersType, ShownOther DEF Both
    <2> QED
      BY <1>3, <2>1, <2>2, <2>3 DEF Verify
  <1>4. CASE CheckTab(p)
    <2>0. ~Window(p) /\ UNCHANGED <<settings, pending, alarm, badge>>
      BY <1>4 DEF CheckTab, At, Window, storage, shown
    <2>1. CASE Refuse(p)
      BY <2>0, <2>1, ReplyShown DEF Refuse
    <2>2. CASE Launch(p, job[p].plan, job[p].reviewed)
      BY <2>0, <2>2, OwnersType, LaunchShown DEF Both
    <2> QED
      BY <1>4, <2>1, <2>2 DEF CheckTab
  <1> QED
    BY <1>1, <1>2, <1>3, <1>4 DEF Request

\* The steps of users keep ShownOK.
LEMMA ShownUser ==
    ASSUME Both, Track, NEW p \in Pages, User(p)
    PROVE  ShownOK'
  <1>1. CASE Open(p)
    <2>1. UNCHANGED job /\ UNCHANGED <<settings, pending, alarm, badge>>
      BY <1>1 DEF Open, storage, shown
    <2> QED
      BY <2>1, ShownStays DEF Both
  <1>2. CASE Close(p)
    <2>1. UNCHANGED job /\ UNCHANGED <<settings, pending, alarm, badge>>
      BY <1>2 DEF Close, storage, shown
    <2> QED
      BY <2>1, ShownStays DEF Both
  <1>3. CASE Confirm(p)
    <2>1. UNCHANGED <<settings, pending, alarm, badge>> /\ ~Window(p)
      BY <1>3 DEF Confirm, CanPress, At, Window, storage, shown
    <2>2. CASE UNCHANGED job
      BY <2>1, <2>2, ShownStays DEF Both
    <2>3. CASE ~UNCHANGED job
      <3> DEFINE j == [IdleJob EXCEPT !.at = "verify", !.kind = "execute", !.set = tickets.set,
                                      !.plan = tickets.plan, !.url = tickets.url,
                                      !.reviewed = page[p].review.plan]
      <3>1. job' = [job EXCEPT ![p] = j]
        BY <1>3, <2>3 DEF Confirm
      <3>2. j.at = "verify"
        BY DEF IdleJob
      <3> HIDE DEF j
      <3> QED
        BY <2>1, <3>1, <3>2, OwnersType, ShownOther DEF Both
    <2> QED
      BY <2>2, <2>3
  <1>4. CASE Cancel(p)
    <2>1. UNCHANGED job /\ UNCHANGED <<settings, pending, alarm, badge>>
      BY <1>4 DEF Cancel, storage, shown
    <2> QED
      BY <2>1, ShownStays DEF Both
  <1>5. CASE Switch(p)
    <2>1. UNCHANGED job /\ UNCHANGED <<settings, pending, alarm, badge>>
      BY <1>5 DEF Switch, storage, shown
    <2> QED
      BY <2>1, ShownStays DEF Both
  <1>6. CASE Submit(p)
    <2>1. UNCHANGED job /\ UNCHANGED <<settings, pending, alarm, badge>>
      BY <1>6 DEF Submit, storage, shown
    <2> QED
      BY <2>1, ShownStays DEF Both
  <1>7. CASE Review(p)
    <2>1. UNCHANGED <<settings, pending, alarm, badge>> /\ ~Window(p)
      BY <1>7 DEF Review, Ask, CanPress, At, Window, storage, shown
    <2>2. job'[p].at = "preview" /\ \A q \in Owners : q # p => job'[q] = job[q]
      BY <1>7, OwnersType DEF Review, Ask, Both, Typed, JobsOK, JobType
    <2>3. \A q \in Owners : Window(q) \/ Window(q)' => job'[q] = job[q]
      BY <2>1, <2>2 DEF Window
    <2> QED
      BY <2>1, <2>3, ShownStays DEF Both
  <1>8. CASE Clean(p)
    <2>1. UNCHANGED <<settings, pending, alarm, badge>> /\ ~Window(p)
      BY <1>8 DEF Clean, Ask, CanPress, At, Window, storage, shown
    <2>2. job'[p].at = "preview" /\ \A q \in Owners : q # p => job'[q] = job[q]
      BY <1>8, OwnersType DEF Clean, Ask, Both, Typed, JobsOK, JobType
    <2>3. \A q \in Owners : Window(q) \/ Window(q)' => job'[q] = job[q]
      BY <2>1, <2>2 DEF Window
    <2> QED
      BY <2>1, <2>3, ShownStays DEF Both
  <1> QED
    BY <1>1, <1>2, <1>3, <1>4, <1>5, <1>6, <1>7, <1>8 DEF User

\* The steps of the environment keep ShownOK.
LEMMA ShownEnvironment ==
    ASSUME Both, Track, Environment
    PROVE  ShownOK'
  <1>1. CASE Event
    <2>1. UNCHANGED job /\ UNCHANGED <<settings, pending, alarm, badge>>
      BY <1>1 DEF Event, storage, shown
    <2> QED
      BY <2>1, ShownStays DEF Both
  <1>2. CASE DeliverSync
    <2>1. UNCHANGED job /\ UNCHANGED <<settings, pending, alarm, badge>>
      BY <1>2 DEF DeliverSync, storage, shown
    <2> QED
      BY <2>1, ShownStays DEF Both
  <1>3. CASE ForeignChange
    <2>1. UNCHANGED job /\ UNCHANGED <<settings, pending, alarm, badge>>
      BY <1>3 DEF ForeignChange, storage, shown
    <2> QED
      BY <2>1, ShownStays DEF Both
  <1>4. CASE Navigate
    <2>1. UNCHANGED job /\ UNCHANGED <<settings, pending, alarm, badge>>
      BY <1>4 DEF Navigate, storage, shown
    <2> QED
      BY <2>1, ShownStays DEF Both
  <1>5. CASE Expire
    <2>1. UNCHANGED job /\ UNCHANGED <<settings, pending, alarm, badge>>
      BY <1>5 DEF Expire, storage, shown
    <2> QED
      BY <2>1, ShownStays DEF Both
  <1>6. CASE WorkerEnds
    <2>1. UNCHANGED <<settings, pending, alarm, badge>> /\ \A o \in Owners : job'[o].at = "idle"
      BY <1>6 DEF WorkerEnds, Reset, IdleJob, storage, shown
    <2>2. ~disturbed' => ~disturbed /\ \A o \in Owners : ~Window(o)
      BY <1>6 DEF Track, Disturbs, Both, ShownOK
    <2>3. \A o \in Owners : ~Window(o)'
      BY <2>1 DEF Window
    <2>4. ~disturbed' => Agree'
      BY <2>1, <2>2 DEF Both, ShownOK, Agree, WantsAlarm, BadgeOf
    <2>5. /\ disturbed' \in BOOLEAN /\ (pending' # None => Readable')
          /\ job'[Worker].at \notin {"defer", "mark"}
      BY <2>1, OwnersType, TrackOK DEF Both, ShownOK, Readable
    <2> QED
      BY <2>3, <2>4, <2>5 DEF ShownOK, Alone
  <1>7. CASE BrowserRestarts
    <2>1. UNCHANGED <<settings, pending, alarm, badge>> /\ \A o \in Owners : job'[o].at = "idle"
      BY <1>7 DEF BrowserRestarts, Reset, IdleJob, storage, shown
    <2>2. ~disturbed' => ~disturbed /\ \A o \in Owners : ~Window(o)
      BY <1>7 DEF Track, Disturbs, Both, ShownOK
    <2>3. \A o \in Owners : ~Window(o)'
      BY <2>1 DEF Window
    <2>4. ~disturbed' => Agree'
      BY <2>1, <2>2 DEF Both, ShownOK, Agree, WantsAlarm, BadgeOf
    <2>5. /\ disturbed' \in BOOLEAN /\ (pending' # None => Readable')
          /\ job'[Worker].at \notin {"defer", "mark"}
      BY <2>1, OwnersType, TrackOK DEF Both, ShownOK, Readable
    <2> QED
      BY <2>3, <2>4, <2>5 DEF ShownOK, Alone
  <1>8. CASE ReviewFails
    <2>1. UNCHANGED job /\ UNCHANGED <<settings, pending, alarm, badge>>
      BY <1>8 DEF ReviewFails, storage, shown
    <2> QED
      BY <2>1, ShownStays DEF Both
  <1> QED
    BY <1>1, <1>2, <1>3, <1>4, <1>5, <1>6, <1>7, <1>8 DEF Environment

-----------------------------------------------------------------------------
(* A job comes to the end of its cleanup, and to what follows its record,    *)
(* only by a step of the cleanup.                                            *)

Logged == {"settle", "follow", "close", "reload"}

NoneEnds == \A q \in Owners : job'[q].at \in Logged \cup {"reread"} => job'[q] = job[q]

LEMMA ReleaseEndsNone ==
    ASSUME Typed, Release
    PROVE  NoneEnds
  BY DEF Release, NoneEnds, Logged, Typed, JobsOK, IdleJob

LEMMA LaunchEndsNone ==
    ASSUME Typed, NEW o \in Owners, NEW plan, NEW reviewed, Launch(o, plan, reviewed)
    PROVE  NoneEnds
  <1>1. CASE running
    BY <1>1, EndsIdle DEF Launch, NoneEnds, Logged, Typed, JobsOK, IdleJob
  <1>2. CASE ~running
    BY <1>2 DEF Launch, NoneEnds, Logged, Typed, JobsOK, IdleJob
  <1> QED
    BY <1>1, <1>2

\* The steps of configure end no cleanup.
LEMMA EndsConfigure ==
    ASSUME Typed, NEW o \in Owners, Configure(o)
    PROVE  NoneEnds
  <1>1. CASE ClearAlarm(o)
    BY <1>1, OwnersType DEF NoneEnds, Logged, Typed, JobsOK, JobType, IdleJob, ClearAlarm
  <1>2. CASE CreateAlarm(o)
    BY <1>2, OwnersType DEF NoneEnds, Logged, Typed, JobsOK, JobType, IdleJob, CreateAlarm, GoTo
  <1>3. CASE ReadPending(o)
    BY <1>3, OwnersType DEF NoneEnds, Logged, Typed, JobsOK, JobType, IdleJob, ReadPending
  <1>4. CASE SetBadge(o)
    BY <1>4, OwnersType DEF NoneEnds, Logged, Typed, JobsOK, JobType, IdleJob, SetBadge, Release,
       Reply, GoTo
  <1> QED
    BY <1>1, <1>2, <1>3, <1>4 DEF Configure

\* The steps of the queue end no cleanup.
LEMMA EndsQueued ==
    ASSUME Typed, Queued
    PROVE  NoneEnds
  <1>1. CASE StartSave
    <2>1. CASE Release
      BY <2>1, OwnersType, ReleaseEndsNone
    <2>2. CASE \E s : job' = [job EXCEPT ![Worker].at = "write", ![Worker].set = s]
      BY <2>2, OwnersType DEF NoneEnds, Logged, Typed, JobsOK, JobType
    <2> QED
      BY <1>1, <2>1, <2>2 DEF StartSave
  <1>2. CASE WriteSettings
    BY <1>2, OwnersType DEF NoneEnds, Logged, Typed, JobsOK, JobType, IdleJob, WriteSettings, GoTo
  <1>3. CASE Publish
    BY <1>3, ReleaseEndsNone DEF Publish
  <1>4. CASE ReceiveSync
    <2>1. CASE Release
      BY <2>1, OwnersType, ReleaseEndsNone
    <2>2. CASE \E s : job' = [job EXCEPT ![Worker].at = "write", ![Worker].set = s]
      BY <2>2, OwnersType DEF NoneEnds, Logged, Typed, JobsOK, JobType
    <2> QED
      BY <1>4, <2>1, <2>2 DEF ReceiveSync
  <1>5. CASE StartUp
    <2>1. CASE Release
      BY <2>1, OwnersType, ReleaseEndsNone
    <2>2. CASE job' = [job EXCEPT ![Worker].at = "clear", ![Worker].set = settings]
      BY <2>2, OwnersType DEF NoneEnds, Logged, Typed, JobsOK, JobType
    <2> QED
      BY <1>5, <2>1, <2>2 DEF StartUp
  <1>6. CASE Automate
    <2>1. CASE Release
      BY <2>1, OwnersType, ReleaseEndsNone
    <2>2. CASE Launch(Worker, AutomaticPlan(settings), None)
      BY <2>2, OwnersType, LaunchEndsNone
    <2>3. CASE GoTo(Worker, "defer")
      BY <2>3, OwnersType DEF GoTo, NoneEnds, Logged, Typed, JobsOK, JobType
    <2> QED
      BY <1>6, <2>1, <2>2, <2>3 DEF Automate
  <1>7. CASE DeferToUser
    BY <1>7, OwnersType DEF NoneEnds, Logged, Typed, JobsOK, JobType, IdleJob, DeferToUser, GoTo
  <1>8. CASE MarkBadge
    BY <1>8, ReleaseEndsNone DEF MarkBadge
  <1> QED
    BY <1>1, <1>2, <1>3, <1>4, <1>5, <1>6, <1>7, <1>8 DEF Queued

\* The steps of requests end no cleanup.
LEMMA EndsRequest ==
    ASSUME Typed, NEW p \in Pages, Request(p)
    PROVE  NoneEnds
  <1>1. CASE ReadForPreview(p)
    BY <1>1, OwnersType DEF NoneEnds, Logged, Typed, JobsOK, JobType, IdleJob, ReadForPreview,
       Refuse, Reply
  <1>2. CASE MakePlan(p)
    BY <1>2, OwnersType DEF NoneEnds, Logged, Typed, JobsOK, JobType, IdleJob, MakePlan, Refuse,
       Reply
  <1>3. CASE Verify(p)
    <2>1. CASE Refuse(p)
      BY <2>1, OwnersType DEF Refuse, Reply, NoneEnds, Logged, Typed, JobsOK, IdleJob
    <2>2. CASE Launch(p, job[p].plan, job[p].reviewed)
      BY <2>2, OwnersType, LaunchEndsNone
    <2>3. CASE job' = [job EXCEPT ![p].at = "tab"]
      BY <2>3, OwnersType DEF NoneEnds, Logged, Typed, JobsOK, JobType
    <2> QED
      BY <1>3, <2>1, <2>2, <2>3 DEF Verify
  <1>4. CASE CheckTab(p)
    <2>1. CASE Refuse(p)
      BY <2>1, OwnersType DEF Refuse, Reply, NoneEnds, Logged, Typed, JobsOK, IdleJob
    <2>2. CASE Launch(p, job[p].plan, job[p].reviewed)
      BY <2>2, OwnersType, LaunchEndsNone
    <2> QED
      BY <1>4, <2>1, <2>2 DEF CheckTab
  <1> QED
    BY <1>1, <1>2, <1>3, <1>4 DEF Request

\* The steps of users end no cleanup.
LEMMA EndsUser ==
    ASSUME Typed, NEW p \in Pages, User(p)
    PROVE  NoneEnds
  <1>1. CASE Open(p)
    BY <1>1, OwnersType DEF NoneEnds, Logged, Typed, JobsOK, JobType, IdleJob, Open
  <1>2. CASE Close(p)
    BY <1>2, OwnersType DEF NoneEnds, Logged, Typed, JobsOK, JobType, IdleJob, Close
  <1>3. CASE Confirm(p)
    <2>1. CASE UNCHANGED job
      BY <2>1 DEF NoneEnds, Logged
    <2>2. CASE ~UNCHANGED job
      <3> DEFINE j == [IdleJob EXCEPT !.at = "verify", !.kind = "execute", !.set = tickets.set,
                                      !.plan = tickets.plan, !.url = tickets.url,
                                      !.reviewed = page[p].review.plan]
      <3>1. job' = [job EXCEPT ![p] = j]
        BY <1>3, <2>2 DEF Confirm
      <3>2. j.at = "verify"
        BY DEF IdleJob
      <3> HIDE DEF j
      <3> QED
        BY <3>1, <3>2 DEF NoneEnds, Logged, Typed, JobsOK
    <2> QED
      BY <2>1, <2>2
  <1>4. CASE Cancel(p)
    BY <1>4, OwnersType DEF NoneEnds, Logged, Typed, JobsOK, JobType, IdleJob, Cancel
  <1>5. CASE Switch(p)
    BY <1>5, OwnersType DEF NoneEnds, Logged, Typed, JobsOK, JobType, IdleJob, Switch
  <1>6. CASE Submit(p)
    BY <1>6, OwnersType DEF NoneEnds, Logged, Typed, JobsOK, JobType, IdleJob, Submit
  <1>7. CASE Review(p)
    BY <1>7, OwnersType DEF NoneEnds, Logged, Typed, JobsOK, JobType, IdleJob, Review, Ask
  <1>8. CASE Clean(p)
    BY <1>8, OwnersType DEF NoneEnds, Logged, Typed, JobsOK, JobType, IdleJob, Clean, Ask
  <1> QED
    BY <1>1, <1>2, <1>3, <1>4, <1>5, <1>6, <1>7, <1>8 DEF User

\* The steps of the environment end no cleanup.
LEMMA EndsEnvironment ==
    ASSUME Typed, Environment
    PROVE  NoneEnds
  <1>1. CASE Event
    BY <1>1, OwnersType DEF NoneEnds, Logged, Typed, JobsOK, JobType, IdleJob, Event
  <1>2. CASE DeliverSync
    BY <1>2, OwnersType DEF NoneEnds, Logged, Typed, JobsOK, JobType, IdleJob, DeliverSync
  <1>3. CASE ForeignChange
    BY <1>3, OwnersType DEF NoneEnds, Logged, Typed, JobsOK, JobType, IdleJob, ForeignChange
  <1>4. CASE Navigate
    BY <1>4, OwnersType DEF NoneEnds, Logged, Typed, JobsOK, JobType, IdleJob, Navigate
  <1>5. CASE Expire
    BY <1>5, OwnersType DEF NoneEnds, Logged, Typed, JobsOK, JobType, IdleJob, Expire
  <1>6. CASE WorkerEnds
    BY <1>6, OwnersType DEF NoneEnds, Logged, Typed, JobsOK, JobType, IdleJob, WorkerEnds, Reset
  <1>7. CASE BrowserRestarts
    BY <1>7, OwnersType DEF NoneEnds, Logged, Typed, JobsOK, JobType, IdleJob, BrowserRestarts,
       Reset
  <1>8. CASE ReviewFails
    BY <1>8 DEF NoneEnds, Logged, ReviewFails
  <1> QED
    BY <1>1, <1>2, <1>3, <1>4, <1>5, <1>6, <1>7, <1>8 DEF Environment

-----------------------------------------------------------------------------
(* Reports of failed operations, and the log.                                *)

ReportsOK == reports \in [Reporters -> ReportType] /\ overtaken \in BOOLEAN

\* After its record was added, a cleanup finds it the newest, unless a report put an older log back.
LoggedOK == \A o \in Owners : job[o].at \in Logged => overtaken \/ activity = Result(o, TRUE)

LogOK == ReportsOK /\ LoggedOK

\* Whatever else happens only begins reports or cuts all of them off.
ReportsKept == UNCHANGED reports \/ Report \/ reports' = [r \in Reporters |-> NoReport]

LEMMA GiveUpReports ==
    ASSUME NEW o \in Owners, GiveUp(o)
    PROVE  ReportsKept
  BY DEF GiveUp, Reported, ReportsKept

LEMMA LaunchReports ==
    ASSUME NEW o \in Owners, NEW plan, NEW reviewed, Launch(o, plan, reviewed)
    PROVE  ReportsKept
  BY GiveUpReports DEF Launch, ReportsKept

LEMMA ReportsConfigure ==
    ASSUME NEW o \in Owners, Configure(o)
    PROVE  ReportsKept
  <1>1. CASE ClearAlarm(o) \/ CreateAlarm(o) \/ ReadPending(o)
    BY <1>1 DEF ClearAlarm, CreateAlarm, ReadPending, ReportsKept
  <1>2. CASE SetBadge(o)
    BY <1>2 DEF SetBadge, Reported, ReportsKept
  <1> QED
    BY <1>1, <1>2 DEF Configure

LEMMA ReportsCleanup ==
    ASSUME NEW o \in Owners, Cleanup(o)
    PROVE  ReportsKept
  <1>1. CASE CheckEnabled(o) \/ Remove(o) \/ RemoveFails(o) \/ RecordDone(o) \/ RecordFailed(o)
    BY <1>1 DEF CheckEnabled, Remove, RemoveFails, RecordDone, RecordFailed, ReportsKept
  <1>2. CASE ClearPending(o) \/ ChooseFollowUp(o) \/ CloseWindows(o) \/ CloseFails(o) \/ ReloadTab(o)
    BY <1>2 DEF ClearPending, ChooseFollowUp, CloseWindows, CloseFails, ReloadTab, ReportsKept
  <1>3. CASE ReadAgain(o)
    BY <1>3, GiveUpReports DEF ReadAgain, ReportsKept
  <1> QED
    BY <1>1, <1>2, <1>3 DEF Cleanup

LEMMA ReportsQueued ==
    ASSUME Queued
    PROVE  ReportsKept
  <1>1. CASE StartSave \/ ReceiveSync \/ StartUp
    BY <1>1 DEF StartSave, ReceiveSync, StartUp, Reported, ReportsKept
  <1>2. CASE WriteSettings \/ Publish \/ DeferToUser \/ MarkBadge
    BY <1>2 DEF WriteSettings, Publish, DeferToUser, MarkBadge, ReportsKept
  <1>3. CASE Automate
    BY <1>3, OwnersType, LaunchReports DEF Automate, Reported, ReportsKept
  <1> QED
    BY <1>1, <1>2, <1>3 DEF Queued

LEMMA ReportsRequest ==
    ASSUME NEW p \in Pages, Request(p)
    PROVE  ReportsKept
  <1>1. CASE ReadForPreview(p) \/ MakePlan(p)
    BY <1>1 DEF ReadForPreview, MakePlan, ReportsKept
  <1>2. CASE Verify(p) \/ CheckTab(p)
    BY <1>2, OwnersType, LaunchReports DEF Verify, CheckTab, ReportsKept
  <1> QED
    BY <1>1, <1>2 DEF Request

LEMMA ReportsUser ==
    ASSUME NEW p \in Pages, User(p)
    PROVE  ReportsKept
  BY DEF User, Open, Close, Confirm, Cancel, Switch, Submit, Review, Clean, Ask, ReportsKept

LEMMA ReportsEnvironment ==
    ASSUME Environment
    PROVE  ReportsKept
  BY DEF Environment, Event, DeliverSync, ReviewFails, ForeignChange, Navigate, Expire, WorkerEnds,
         BrowserRestarts, Reset, ReportsKept

LEMMA ReportsStay ==
    ASSUME ReportsOK, Track, ReportsKept
    PROVE  ReportsOK'
  <1>1. overtaken' \in BOOLEAN
    BY DEF ReportsOK, Track
  <1>2. NoReport \in ReportType
    BY DEF NoReport, ReportType, Log
  <1>3. CASE Report
    BY <1>1, <1>3 DEF Report, ReportsOK, ReportType
  <1> QED
    BY <1>1, <1>2, <1>3 DEF ReportsKept, ReportsOK

\* A report reads the log or writes it back, and touches nothing else.
LEMMA ReportingSafe ==
    ASSUME Safe, LogOK, NEW r \in Reporters, Reporting(r)
    PROVE  Safe' /\ UNCHANGED <<settings, pending, alarm, badge, job>>
  <1>1. /\ UNCHANGED <<settings, pending, alarm, badge, cloud, published, tickets, running, queue, job,
                       page, url, spent, late, ignored>>
        /\ activity' \in {activity, reports[r].log}
    BY DEF Reporting, ReportRead, ReportWritten, storage, shown, sync, history
  <1>2. activity' \in [done : SUBSET Types, ok : BOOLEAN] \cup {None}
    BY <1>1 DEF Safe, Typed, StoreOK, LogOK, ReportsOK, ReportType, Log
  <1>3. Typed'
    <2>1. JobsOK' /\ QueueOK' /\ HeldOK' /\ PagesOK'
      BY <1>1 DEF Safe, Typed, JobsOK, QueueOK, HeldOK, PagesOK
    <2>2. StoreOK'
      BY <1>1, <1>2 DEF Safe, Typed, StoreOK
    <2> QED
      BY <2>1, <2>2 DEF Typed
  <1> QED
    BY <1>1, <1>3, Idles DEF Unchanged, ReviewsStand

LEMMA ReportingReports ==
    ASSUME Typed, ReportsOK, Track, NEW r \in Reporters, Reporting(r)
    PROVE  ReportsOK'
  <1>1. overtaken' \in BOOLEAN
    BY DEF ReportsOK, Track
  <1>2. NoReport \in ReportType /\ [at |-> "write", log |-> activity] \in ReportType
    BY DEF NoReport, ReportType, Log, Typed, StoreOK
  <1> QED
    BY <1>1, <1>2 DEF Reporting, ReportRead, ReportWritten, ReportsOK

\* While a cleanup is past its record no other adds one.
LEMMA NoneRecords ==
    ASSUME OneCleanup, NEW o \in Owners, job[o].at \in Logged
    PROVE  ~Records
  BY DEF Records, Logged, OneCleanup, Removing

LEMMA LoggedStays ==
    ASSUME OneCleanup, LoggedOK, Track,
           \A q \in Owners : job'[q].at \in Logged =>
               \/ /\ job[q].at \in Logged
                  /\ job'[q].plan = job[q].plan /\ job'[q].todo = job[q].todo
               \/ activity' = Result(q, TRUE)'
    PROVE  LoggedOK'
  <1> SUFFICES ASSUME NEW q \in Owners, job'[q].at \in Logged
               PROVE  overtaken' \/ activity' = Result(q, TRUE)'
    BY DEF LoggedOK
  <1>1. CASE job[q].at \in Logged /\ job'[q].plan = job[q].plan /\ job'[q].todo = job[q].todo
    <2>1. overtaken \/ activity = Result(q, TRUE)
      BY <1>1 DEF LoggedOK
    <2>2. overtaken' = (overtaken \/ activity' # activity)
      BY <1>1, NoneRecords DEF Track
    <2>3. Result(q, TRUE)' = Result(q, TRUE)
      BY <1>1 DEF Result
    <2> QED
      BY <2>1, <2>2, <2>3
  <1> QED
    BY <1>1

LEMMA LoggedNoneEnds ==
    ASSUME OneCleanup, LoggedOK, Track, NoneEnds
    PROVE  LoggedOK'
  BY LoggedStays DEF NoneEnds, Logged

\* A step of a cleanup leaves the jobs of the others alone.
LEMMA CleanupAlone ==
    ASSUME Typed, NEW o \in Owners, Cleanup(o)
    PROVE  \A q \in Owners : q # o => job'[q] = job[q]
  <1>1. CASE ReadAgain(o)
    BY <1>1, EndsIdle DEF ReadAgain, Typed, JobsOK
  <1>2. CASE ~ReadAgain(o)
    BY <1>2 DEF Cleanup, CheckEnabled, Remove, RemoveFails, RecordDone, RecordFailed, ClearPending,
                ChooseFollowUp, CloseWindows, CloseFails, ReloadTab, Finish, GoTo, Fail, Typed, JobsOK
  <1> QED
    BY <1>1, <1>2

\* Where a step of a cleanup leads.
LEMMA CleanupLeads ==
    ASSUME Typed, NEW o \in Owners, Cleanup(o)
    PROVE  \/ job'[o].at \notin Logged \cup {"reread"}
           \/ RecordDone(o) \/ RecordFailed(o) \/ ClearPending(o) \/ ChooseFollowUp(o)
           \/ CloseWindows(o) \/ ReloadTab(o)
  <1>1. CASE Remove(o)
    <2>1. PICK c \in job[o].todo :
              job' = [job EXCEPT ![o].todo = @ \ {c},
                                 ![o].at = IF job[o].todo = {c} THEN "record" ELSE "check"]
      BY <1>1 DEF Remove
    <2>2. job'[o].at \in {"record", "check"}
      BY <2>1 DEF Typed, JobsOK, JobType
    <2> QED
      BY <2>2 DEF Logged
  <1>2. CASE CheckEnabled(o) \/ RemoveFails(o) \/ CloseFails(o)
    <2>1. Fail(o) \/ GoTo(o, "remove")
      BY <1>2 DEF CheckEnabled, RemoveFails, CloseFails
    <2>2. job'[o].at \in {"failed", "remove"}
      BY <2>1 DEF GoTo, Fail, Typed, JobsOK, JobType
    <2> QED
      BY <2>2 DEF Logged
  <1>3. CASE ReadAgain(o)
    <2>1. \/ job' = [job EXCEPT ![o].at = "clear", ![o].set = settings]
          \/ job' = [job EXCEPT ![o] = IdleJob]
      BY <1>3, EndsIdle DEF ReadAgain
    <2>2. job'[o].at \in {"clear", "idle"}
      BY <2>1 DEF Typed, JobsOK, JobType, IdleJob
    <2> QED
      BY <2>2 DEF Logged
  <1> QED
    BY <1>1, <1>2, <1>3 DEF Cleanup

LEMMA LoggedCleanup ==
    ASSUME Safe, LoggedOK, Track, NEW o \in Owners, Cleanup(o)
    PROVE  LoggedOK'
  <1>0. OneCleanup /\ Typed
    BY DEF Safe, Cleanups
  <1>1. ASSUME job'[o].at \in Logged
        PROVE  \/ /\ job[o].at \in Logged
                  /\ job'[o].plan = job[o].plan /\ job'[o].todo = job[o].todo
               \/ activity' = Result(o, TRUE)'
    <2>1. CASE RecordDone(o)
      <3>1. job'[o].plan = job[o].plan /\ job'[o].todo = job[o].todo
        BY <2>1 DEF RecordDone, GoTo, Safe, Typed, JobsOK, JobType
      <3>2. activity' = Result(o, TRUE)
        BY <2>1 DEF RecordDone
      <3> QED
        BY <3>1, <3>2 DEF Result
    <2>2. CASE ClearPending(o) \/ ChooseFollowUp(o)
      <3>1. job[o].at \in Logged
        BY <2>2 DEF ClearPending, ChooseFollowUp, At, Logged
      <3>2. Fail(o) \/ \E stage : GoTo(o, stage)
        BY <2>2 DEF ClearPending, ChooseFollowUp, Finish
      <3>3. job'[o].plan = job[o].plan /\ job'[o].todo = job[o].todo
        BY <3>2 DEF Fail, GoTo, Safe, Typed, JobsOK, JobType
      <3> QED
        BY <3>1, <3>3
    <2>3. CASE RecordFailed(o) \/ CloseWindows(o) \/ ReloadTab(o)
      <3>1. GoTo(o, "reread")
        BY <2>3 DEF RecordFailed, CloseWindows, ReloadTab, Finish
      <3>2. job'[o].at = "reread"
        BY <3>1 DEF GoTo, Safe, Typed, JobsOK, JobType
      <3> QED
        BY <1>1, <3>2 DEF Logged
    <2> QED
      BY <1>0, <1>1, <2>1, <2>2, <2>3, CleanupLeads
  <1>2. \A q \in Owners : q # o => job'[q] = job[q]
    BY <1>0, CleanupAlone
  <1> QED
    BY <1>0, <1>1, <1>2, LoggedStays

\* The record a cleanup leaves, over one of its steps.
Recorded(o) ==
    Removing(o) /\ job'[o].at = "reread" =>
        \/ overtaken'
        \/ /\ activity'.done = {c.type : c \in job[o].plan.calls \ job[o].todo}
           /\ job[o].todo # {} => ~activity'.ok

LEMMA RecordsCleanup ==
    ASSUME Safe, LoggedOK, Track, NEW o \in Owners, Cleanup(o), NEW q \in Owners
    PROVE  Recorded(q)
  <1>0. OneCleanup /\ Typed
    BY DEF Safe, Cleanups
  <1>1. CASE q = o /\ RecordFailed(o)
    BY <1>1 DEF Recorded, RecordFailed, Result
  <1>2. CASE q = o /\ (ChooseFollowUp(o) \/ CloseWindows(o) \/ ReloadTab(o))
    <2>1. job[o].at \in Logged /\ UNCHANGED activity
      BY <1>2 DEF ChooseFollowUp, CloseWindows, ReloadTab, At, Logged, storage
    <2>2. job[o].todo = {} /\ (overtaken \/ activity = Result(o, TRUE))
      BY <2>1 DEF LoggedOK, Logged, Safe, Cleanups, RecordOK
    <2>3. ~Records
      BY <1>0, <2>1, NoneRecords
    <2>4. overtaken => overtaken'
      BY <2>3 DEF Track
    <2> QED
      BY <1>2, <2>1, <2>2, <2>4 DEF Recorded, Result
  <1>3. CASE q = o /\ (RecordDone(o) \/ ClearPending(o))
    <2>1. job'[o].at \in {"settle", "follow"}
      BY <1>3 DEF RecordDone, ClearPending, GoTo, Safe, Typed, JobsOK, JobType
    <2> QED
      BY <1>3, <2>1 DEF Recorded
  <1>4. CASE q = o /\ job'[o].at \notin Logged \cup {"reread"}
    BY <1>4 DEF Recorded
  <1>5. CASE q # o
    BY <1>0, <1>5, CleanupAlone DEF Recorded, Removing
  <1> QED
    BY <1>0, <1>1, <1>2, <1>3, <1>4, <1>5, CleanupLeads

\* Reports and log, over the steps that are neither a report's nor a cleanup's.
LEMMA LogStays ==
    ASSUME Safe, LogOK, Track, ReportsKept, NoneEnds
    PROVE  LogOK'
  BY ReportsStay, LoggedNoneEnds DEF LogOK, Safe, Cleanups

-----------------------------------------------------------------------------
(* The theorems.                                                             *)

IInv == Safe /\ ShownOK /\ LogOK

LEMMA Initially ==
    ASSUME Init
    PROVE  IInv
  <1>1. settings \in SettingsType /\ settings \in InitialSettings
    BY SettingsAssumption DEF Init, SettingsType
  <1>2. \A o \in Owners : job[o] = IdleJob /\ IdleJob.at = "idle"
    BY DEF Init, IdleJob
  <1>3. JobsOK /\ HeldOK
    BY <1>2, IdleJobOK, OwnersType DEF Init, JobsOK, HeldOK
  <1>4. QueueOK
    BY DEF Init, QueueOK
  <1>5. PagesOK
    <2>1. [ClosedPage EXCEPT !.snap = settings] \in PageType
      BY <1>1 DEF ClosedPage, PageType, SomeSettings
    <2> QED
      BY <2>1 DEF Init, PagesOK
  <1>6. StoreOK
    <2>1. WantsAlarm(settings) \in BOOLEAN /\ BadgeOf(settings, FALSE) \in {"", "!", "DEV"}
      BY <1>1, EnabledType DEF WantsAlarm, BadgeOf
    <2>2. cloud \in SomeSettings
      BY <1>1, SharedType DEF Init, SomeSettings, SettingsType
    <2>3. url \in Urls
      <3>1. PICK h \in Hosts : TRUE
        BY HostAssumption
      <3>2. [scheme |-> "http", host |-> h, exact |-> TRUE] \in Origin
        BY DEF Origin
      <3>3. (CHOOSE q \in Origin : TRUE) \in Origin
        BY <3>2
      <3> QED
        BY <3>3 DEF Init, Urls
    <2>4. published \in Seq(SettingsType) /\ spent \in Nat /\ late \in Nat /\ ignored \in Nat
      BY DEF Init
    <2>5. alarm \in BOOLEAN /\ badge \in {"", "!", "DEV"} /\ running \in BOOLEAN
      BY <2>1 DEF Init
    <2>6. tickets \in TicketType \cup {None} /\ activity \in [done : SUBSET Types, ok : BOOLEAN] \cup {None}
      BY DEF Init
    <2> QED
      BY <1>1, <2>2, <2>3, <2>4, <2>5, <2>6 DEF StoreOK
  <1>7. Cleanups
    BY <1>2 DEF Init, Cleanups, OneCleanup, NothingUnreviewed, OffOK, RecordOK, Removing
  <1>8. ReviewsOK
    BY <1>2, OwnersType DEF Init, ReviewsOK
  <1>9. AutomationOK
    BY <1>2, OwnersType DEF Init, AutomationOK, AutomationIsCurrent
  <1>10. ShownOK
    <2>1. \A o \in Owners : ~Window(o)
      BY <1>2 DEF Window
    <2>2. Agree
      BY DEF Init, Agree, BadgeOf
    <2> QED
      BY <1>2, <2>1, <2>2, OwnersType DEF Init, ShownOK, Alone
  <1>11. LogOK
    BY <1>2 DEF Init, LogOK, ReportsOK, LoggedOK, Logged, NoReport, ReportType, Log
  <1> QED
    BY <1>3, <1>4, <1>5, <1>6, <1>7, <1>8, <1>9, <1>10, <1>11 DEF IInv, Safe, Typed

LEMMA Stepwise ==
    ASSUME IInv, [Next]_vars
    PROVE  IInv'
  <1> USE DEF IInv
  <1>0. Both
    BY DEF Both, Safe
  <1>1. ASSUME NEW o \in Owners, Proceed(o), Track PROVE IInv'
    <2>1. CASE Cleanup(o)
      <3>1. Safe' /\ ShownOK'
        BY <1>0, <1>1, <2>1, SafeCleanup, ShownCleanup
      <3>2. LogOK'
        BY <1>1, <2>1, ReportsCleanup, ReportsStay, LoggedCleanup DEF LogOK
      <3> QED
        BY <3>1, <3>2
    <2>2. CASE Configure(o)
      BY <1>0, <1>1, <2>2, SafeConfigure, ShownConfigure, ReportsConfigure, EndsConfigure, LogStays
         DEF Both
    <2>3. CASE Queued
      BY <1>0, <1>1, <2>3, SafeQueued, ShownQueued, ReportsQueued, EndsQueued, LogStays DEF Both
    <2>4. CASE o \in Pages /\ Request(o)
      BY <1>0, <1>1, <2>4, SafeRequest, ShownRequest, ReportsRequest, EndsRequest, LogStays DEF Both
    <2> QED
      BY <1>1, <2>1, <2>2, <2>3, <2>4 DEF Proceed
  <1>2. ASSUME NEW p \in Pages, User(p), Track PROVE IInv'
    BY <1>0, <1>2, SafeUser, ShownUser, ReportsUser, EndsUser, LogStays DEF Both
  <1>3. CASE Environment /\ Track
    BY <1>0, <1>3, SafeEnvironment, ShownEnvironment, ReportsEnvironment, EndsEnvironment, LogStays
       DEF Both
  <1>5. ASSUME NEW r \in Reporters, Reporting(r), Track PROVE IInv'
    <2>1. Safe' /\ UNCHANGED <<settings, pending, alarm, badge, job>>
      BY <1>5, ReportingSafe
    <2>2. ShownOK'
      BY <1>0, <1>5, <2>1, ShownStays DEF Both
    <2>3. ReportsOK'
      BY <1>0, <1>5, ReportingReports DEF Both, LogOK
    <2>4. LoggedOK'
      BY <1>0, <1>5, <2>1, LoggedNoneEnds DEF NoneEnds, Safe, Cleanups, LogOK
    <2> QED
      BY <2>1, <2>2, <2>3, <2>4 DEF LogOK
  <1>4. CASE UNCHANGED vars
    <2>1. UNCHANGED <<settings, pending, activity, alarm, badge, cloud, published, tickets, running,
                      queue, job, reports, page, url, spent, late, ignored, disturbed, overtaken>>
      BY <1>4 DEF vars
    <2>2. Typed'
      BY <2>1 DEF Safe, Typed, JobsOK, QueueOK, HeldOK, PagesOK, StoreOK
    <2>3. Safe'
      BY <2>1, <2>2, Idles DEF Unchanged, ReviewsStand
    <2>4. ShownOK'
      BY <2>1 DEF ShownOK, Readable, Alone, Window, Fact, Agree, WantsAlarm, BadgeOf
    <2>5. LogOK'
      BY <2>1 DEF LogOK, ReportsOK, LoggedOK, Result
    <2> QED
      BY <2>3, <2>4, <2>5
  <1> QED
    BY <1>1, <1>2, <1>3, <1>4, <1>5 DEF Next

LEMMA Always == Spec => []IInv
  <1>1. Init => IInv
    BY Initially
  <1>2. IInv /\ [Next]_vars => IInv'
    BY Stepwise
  <1> QED
    BY <1>1, <1>2, PTL DEF Spec

\* Type correctness: every variable has its type in every state.
THEOREM TypeCorrect == Spec => []TypeOK
  <1>1. IInv => TypeOK
    BY DEF IInv, Safe, Typed, JobsOK, QueueOK, PagesOK, StoreOK, AutomationOK, ShownOK, LogOK, ReportsOK,
           Log, TypeOK
  <1> QED
    BY <1>1, Always, PTL

\* For any presets, pages, drafts, files and devices, a cleanup that is not harmless carries out
\* a plan as a user was shown and confirmed it (background.js 109-127 and 137).
THEOREM ReviewedFirst == Spec => []NothingUnreviewed
  <1>1. IInv => NothingUnreviewed
    BY DEF IInv, Safe, Cleanups
  <1> QED
    BY <1>1, Always, PTL

\* No two cleanups overlap, and the running flag says whether there is one
\* (background.js 60, 77, 100, 131).
THEOREM CleanupsAlone == Spec => []OneCleanup
  <1>1. IInv => OneCleanup
    BY DEF IInv, Safe, Cleanups
  <1> QED
    BY <1>1, Always, PTL

\* While an unattended cleanup removes data, the settings in force are the ones it was planned
\* from, and still ask for it (background.js 129-151).
THEOREM AutomationCurrent == Spec => []AutomationIsCurrent
  <1>1. IInv => AutomationIsCurrent
    BY DEF IInv, Safe, AutomationOK
  <1> QED
    BY <1>1, Always, PTL

\* After developer mode is off in the stored settings a cleanup touches the browser at most once
\* more (background.js 83 and 90).
THEOREM OffStops == Spec => []OffStopsCleanup
  <1>1. IInv => OffStopsCleanup
    BY DEF IInv, Safe, Cleanups, OffOK, OffStopsCleanup
  <1> QED
    BY <1>1, Always, PTL

\* Unless two owners or a restart came between each other, alarm and badge are those of the
\* stored settings and review once nothing is under way (background.js 22-30 and 137-140).
THEOREM ShownAgree == Spec => []ShownAgrees
  <1>1. IInv => ShownAgrees
    BY DEF IInv, ShownOK, Agree, ShownAgrees
  <1> QED
    BY <1>1, Always, PTL

\* Every cleanup that ends has recorded what it removed, as failed unless that was all, and one
\* that stops short follows up on nothing; the record is then the newest, unless a failed
\* operation's report put an older log back (background.js 71-74, 76-106 and 189-192).
THEOREM PartialRecorded == Spec => PartialIsRecorded
  <1>1. ASSUME IInv, [Next]_vars, NEW q \in Owners PROVE Recorded(q)
    <2>1. CASE \E o \in Owners : Cleanup(o) /\ Track
      BY <1>1, <2>1, RecordsCleanup DEF IInv, LogOK
    <2>2. CASE NoneEnds
      BY <2>2 DEF NoneEnds, Logged, Recorded, Removing
    <2>3. CASE \E o \in Owners : Configure(o) \/ (o = Worker /\ Queued) \/ (o \in Pages /\ Request(o))
      BY <1>1, <2>2, <2>3, EndsConfigure, EndsQueued, EndsRequest DEF IInv, Safe
    <2>4. CASE (\E p \in Pages : User(p)) \/ Environment
      BY <1>1, <2>2, <2>4, EndsUser, EndsEnvironment DEF IInv, Safe
    <2>5. CASE UNCHANGED vars
      BY <2>2, <2>5 DEF vars, NoneEnds
    <2>6. CASE \E r \in Reporters : Reporting(r)
      BY <1>1, <2>2, <2>6, ReportingSafe DEF IInv, NoneEnds
    <2> QED
      BY <1>1, <2>1, <2>3, <2>4, <2>5, <2>6 DEF Next, Proceed
  <1>2. ASSUME IInv, NEW o \in Owners, job[o].at \in {"close", "reload"}
        PROVE  job[o].todo = {} /\ (overtaken \/ activity.ok)
    BY <1>2 DEF IInv, Safe, Cleanups, RecordOK, LogOK, LoggedOK, Logged, Result
  <1>3. IInv /\ [Next]_vars =>
            [\A o \in Owners :
               LET left == job[o].todo # {}
               IN  /\ Removing(o) /\ job'[o].at = "reread" =>
                         \/ overtaken'
                         \/ /\ activity'.done = {c.type : c \in job[o].plan.calls \ job[o].todo}
                            /\ left => ~activity'.ok
                   /\ job[o].at \in {"close", "reload"} => ~left /\ (overtaken \/ activity.ok)]_vars
    BY <1>1, <1>2 DEF Recorded
  <1> QED
    BY <1>3, Always, PTL DEF Spec, PartialIsRecorded

-----------------------------------------------------------------------------
(* What is stored, and what is stored once a bare host became its two        *)
(* origins.                                                                  *)

LEMMA StoredOrigins == \A v \in SUBSET Origin : Origins(v) = v
  BY DEF Origins, Origin

LEMMA StoredRule == \A r \in RuleOf(Origin) : Rule(r) = r
  BY StoredOrigins DEF RuleOf, Rule

LEMMA StoredPreset ==
    ASSUME NEW p \in PresetOf(Origin)
    PROVE  Preset(p) = p
  <1> DEFINE rules == [t \in Types |-> IF p.typeRules[t] = None THEN None ELSE Rule(p.typeRules[t])]
  <1>1. p.typeRules \in [Types -> RuleOf(Origin) \cup {None}] /\ p.origins \in SUBSET Origin
    BY DEF PresetOf
  <1>2. \A t \in Types : rules[t] = p.typeRules[t]
    BY <1>1, StoredRule
  <1>3. rules = p.typeRules
    BY <1>1, <1>2
  <1>4. Preset(p) = [p EXCEPT !.origins = Origins(p.origins), !.typeRules = rules]
    BY DEF Preset, PresetOf
  <1> HIDE DEF rules
  <1> QED
    BY <1>1, <1>3, <1>4, StoredOrigins DEF PresetOf

LEMMA StoredSettings ==
    ASSUME NEW s \in SettingsOf(Origin)
    PROVE  Normal(s) = s
  <1> DEFINE kept == [i \in PresetIds |-> IF s.presets[i] = None THEN None ELSE Preset(s.presets[i])]
  <1>1. s.presets \in [PresetIds -> PresetOf(Origin) \cup {None}]
    BY DEF SettingsOf
  <1>2. \A i \in PresetIds : kept[i] = s.presets[i]
    BY <1>1, StoredPreset
  <1>3. kept = s.presets
    BY <1>1, <1>2
  <1>4. Normal(s) = [s EXCEPT !.presets = kept]
    BY DEF Normal, SettingsOf
  <1> HIDE DEF kept
  <1> QED
    BY <1>3, <1>4 DEF SettingsOf

\* What was read from storage is stored as it is: to expand a list a second time changes
\* nothing (core.js 36-52 and 92-108).
THEOREM ExpandedOnce ==
    ASSUME NEW s \in SettingsOf(Entry), SettingsOK(s)
    PROVE  Normal(Normal(s)) = Normal(s)
  BY NormalType, StoredSettings

\* A list with room for both origins of its bare hosts.
HasRoom(values) == Cardinality(Origins(values)) <= MaxOrigins

PresetHasRoom(p) ==
    /\ HasRoom(p.origins)
    /\ \A t \in Types : p.typeRules[t] # None => HasRoom(p.typeRules[t].origins)

LEMMA ExpandedRule ==
    ASSUME NEW r, r.origins \in SUBSET Entry, RuleOK(r), HasRoom(r.origins),
           NEW q, q.scope = r.scope, q.origins = Origins(r.origins)
    PROVE  RuleOK(q)
  <1>1. q.origins \in SUBSET Origin
    BY OriginsType DEF RuleOK
  <1>2. OriginsOK(q.origins)
    BY <1>1 DEF OriginsOK, HasRoom, Origin
  <1>3. ASSUME NEW e \in r.origins PROVE q.origins # {}
    <2>1. CASE e.scheme = "bare"
      <3>1. [scheme |-> "http", host |-> e.host, exact |-> TRUE] \in Origin
        BY <1>3 DEF Entry, Origin
      <3>2. [scheme |-> "http", host |-> e.host, exact |-> TRUE] \in {o \in Origin : o.host = e.host}
        BY <3>1
      <3> QED
        BY <1>3, <2>1, <3>2 DEF Origins
    <2>2. CASE e.scheme # "bare"
      BY <1>3, <2>2 DEF Origins
    <2> QED
      BY <2>1, <2>2
  <1> QED
    BY <1>2, <1>3 DEF RuleOK

LEMMA ExpandedPreset ==
    ASSUME NEW p \in PresetOf(Entry), PresetOK(p), PresetHasRoom(p)
    PROVE  PresetOK(Preset(p))
  <1> DEFINE q == Preset(p)
             rules == [t \in Types |-> IF p.typeRules[t] = None THEN None ELSE Rule(p.typeRules[t])]
  <1>1. q = [p EXCEPT !.origins = Origins(p.origins), !.typeRules = rules]
    BY DEF Preset, PresetOf
  <1>2. /\ q.scope = p.scope /\ q.types = p.types /\ q.flags = p.flags
        /\ q.origins = Origins(p.origins) /\ q.typeRules = rules
    <2> HIDE DEF q, rules
    <2> QED
      BY <1>1 DEF PresetOf
  <1> HIDE DEF q
  <1>3. RuleOK(q)
    BY <1>2, ExpandedRule DEF PresetOK, PresetHasRoom, PresetOf
  <1>4. ASSUME NEW t \in Types
        PROVE  /\ q.typeRules[t] = None <=> p.typeRules[t] = None
               /\ q.typeRules[t] # None => RuleOK(q.typeRules[t]) /\ q.typeRules[t].scope = p.typeRules[t].scope
    <2>1. CASE p.typeRules[t] = None
      BY <1>2, <2>1
    <2>2. CASE p.typeRules[t] # None
      <3>1. p.typeRules[t] \in RuleOf(Entry) /\ RuleOK(p.typeRules[t]) /\ HasRoom(p.typeRules[t].origins)
        BY <2>2 DEF PresetOf, PresetOK, PresetHasRoom
      <3>2. q.typeRules[t] = Rule(p.typeRules[t])
        BY <1>2, <2>2
      <3>3. Rule(p.typeRules[t]) \in RuleOf(Entry)
        BY <3>1, RuleType, OriginsAreEntries DEF RuleOf
      <3>4. q.typeRules[t] # None
        BY <3>2, <3>3, NoneAssumption
      <3>5. p.typeRules[t].origins \in SUBSET Entry
        BY <3>1 DEF RuleOf
      <3>6. q.typeRules[t].scope = p.typeRules[t].scope /\ q.typeRules[t].origins = Origins(p.typeRules[t].origins)
        BY <3>2 DEF Rule
      <3> QED
        BY <2>2, <3>1, <3>4, <3>5, <3>6, ExpandedRule
    <2> QED
      BY <2>1, <2>2
  <1>5. \A t \in Types : Filter(q, t).scope = Filter(p, t).scope
    BY <1>2, <1>4 DEF Filter
  <1>6. \A t \in p.types : t \in Types
    BY DEF PresetOK
  <1>7. \A t \in q.types : (t \in GlobalTypes \/ q.flags \cap Apps # {}) => Filter(q, t).scope = "all"
    BY <1>2, <1>5, <1>6 DEF PresetOK
  <1>8. q.types # {} /\ q.types \subseteq Types
    BY <1>2 DEF PresetOK
  <1>9. PresetOK(q)
    BY <1>3, <1>4, <1>7, <1>8 DEF PresetOK
  <1> QED
    BY <1>9 DEF q
\* What passes the check as it comes passes it as it is stored.
StillOK(s) == SettingsOK(s) => SettingsOK(Normal(s))

PresetStillOK(p) == PresetOK(p) => PresetOK(Preset(p))

LEMMA ExpandedSettings ==
    ASSUME NEW s \in SettingsOf(Entry), \A i \in Ids(s) : PresetStillOK(s.presets[i])
    PROVE  StillOK(s)
  <1> DEFINE kept == [i \in PresetIds |-> IF s.presets[i] = None THEN None ELSE Preset(s.presets[i])]
             n == Normal(s)
  <1>1. SUFFICES ASSUME SettingsOK(s) PROVE SettingsOK(n)
    BY DEF StillOK
  <1>2. n = [s EXCEPT !.presets = kept]
    BY DEF Normal, SettingsOf
  <1>3. n.presets = kept /\ n.activePreset = s.activePreset /\ n.automation = s.automation
    <2> HIDE DEF n, kept
    <2> QED
      BY <1>2 DEF SettingsOf
  <1>4. \A i \in Ids(s) : Preset(s.presets[i]) # None /\ PresetOK(Preset(s.presets[i]))
    <2> TAKE i \in Ids(s)
    <2>1. s.presets[i] \in PresetOf(Entry) /\ PresetOK(s.presets[i])
      BY <1>1 DEF SettingsOf, SettingsOK, Ids
    <2>2. Preset(s.presets[i]) \in PresetOf(Entry)
      BY <2>1, PresetType, StoredPresetsAreEntries
    <2> QED
      BY <2>1, <2>2, NoneAssumption DEF PresetStillOK
  <1>5. Ids(n) = Ids(s)
    BY <1>3, <1>4 DEF Ids
  <1>6. \A i \in Ids(n) : PresetOK(n.presets[i])
    BY <1>3, <1>4, <1>5 DEF Ids
  <1> HIDE DEF n
  <1> QED
    BY <1>1, <1>3, <1>5, <1>6 DEF SettingsOK

LEMMA SharedOK ==
    ASSUME NEW s \in SettingsType, SettingsOK(s)
    PROVE  SettingsOK(Shared(s))
  <1>1. /\ Shared(s).presets = s.presets /\ Shared(s).activePreset = s.activePreset
        /\ Shared(s).automation.presetId = s.activePreset
    BY DEF Shared, NoAutomation, SettingsType, SettingsOf
  <1> QED
    BY <1>1 DEF SettingsOK, Ids

LEMMA StoredStillOK == \A s \in SettingsOf(Origin) : StillOK(s)
  BY StoredSettings DEF StillOK

\* Everything a user may submit has room for what it expands to.  (A file is submitted expanded.)
InputsHaveRoom == \A p \in Drafts \cup Found : PresetHasRoom(p)

LEMMA DefaultStillOK == PresetStillOK(DefaultPreset)
  <1>1. DefaultPreset \in PresetOf(Origin)
    BY DEF DefaultPreset, PresetOf, Scopes, Types, Flags
  <1> QED
    BY <1>1, StoredPreset DEF PresetStillOK

LEMMA EditsStillOK ==
    ASSUME InputsHaveRoom, NEW s \in SettingsType, NEW e \in Edits(s)
    PROVE  StillOK(e)
  <1>1. e \in SettingsOf(Entry)
    BY EditsType
  <1>2. \A i \in Ids(s) : PresetStillOK(s.presets[i])
    <2> TAKE i \in Ids(s)
    <2>1. s.presets[i] \in PresetOf(Origin)
      BY DEF SettingsType, SettingsOf, Ids
    <2> QED
      BY <2>1, StoredPreset DEF PresetStillOK
  <1>3. \A d \in Drafts \cup Found : PresetStillOK(d)
    BY SettingsAssumption, ExpandedPreset DEF InputsHaveRoom, PresetStillOK
  <1>4. s.presets \in [PresetIds -> PresetOf(Origin) \cup {None}] /\ s.activePreset \in PresetIds
    BY DEF SettingsType, SettingsOf
  <1>5. CASE e \in ChoosePreset(s) \cup ChooseSync(s) \cup SubmitAutomation(s)
    <2>1. e.presets = s.presets
      BY <1>5 DEF ChoosePreset, ChooseSync, SubmitAutomation, SettingsType, SettingsOf
    <2> QED
      BY <1>1, <1>2, <2>1, ExpandedSettings DEF Ids
  <1>6. CASE e \in SubmitEditor(s)
    <2>1. PICK d \in Drafts : e = [s EXCEPT !.presets[s.activePreset] = d]
      BY <1>6 DEF SubmitEditor
    <2>2. e.presets = [s.presets EXCEPT ![s.activePreset] = d]
      BY <2>1 DEF SettingsType, SettingsOf
    <2>3. \A i \in Ids(e) : PresetStillOK(e.presets[i])
      BY <1>2, <1>3, <1>4, <2>2 DEF Ids
    <2> QED
      BY <1>1, <2>3, ExpandedSettings
  <1>7. CASE e \in AddPreset(s)
    <2>1. PICK id \in PresetIds \ Ids(s), preset \in {DefaultPreset, s.presets[s.activePreset]} \cup Found :
              e = WithPreset(s, id, preset)
      BY <1>7 DEF AddPreset
    <2>2. e.presets = [s.presets EXCEPT ![id] = preset]
      BY <2>1 DEF WithPreset, SettingsType, SettingsOf
    <2>3. preset # None => PresetStillOK(preset)
      BY <1>2, <1>3, <1>4, <2>1, DefaultStillOK DEF Ids
    <2>4. \A i \in Ids(e) : PresetStillOK(e.presets[i])
      BY <1>2, <1>4, <2>1, <2>2, <2>3 DEF Ids
    <2> QED
      BY <1>1, <2>4, ExpandedSettings
  <1>8. CASE e \in DeletePreset(s)
    <2>1. PICK i \in Ids(s) :
              e = [s EXCEPT !.activePreset = i, !.presets[s.activePreset] = None,
                            !.automation = IF s.automation.presetId = s.activePreset
                                             THEN NoAutomation(i) ELSE s.automation]
      BY <1>8 DEF DeletePreset
    <2>2. e.presets = [s.presets EXCEPT ![s.activePreset] = None]
      BY <2>1 DEF SettingsType, SettingsOf
    <2>3. \A j \in Ids(e) : PresetStillOK(e.presets[j])
      BY <1>2, <1>4, <2>2 DEF Ids
    <2> QED
      BY <1>1, <2>3, ExpandedSettings
  <1>9. CASE e \in ImportFile
    <2>1. PICK f \in Files :
              /\ SettingsOK(f)
              /\ e = [Normal(f) EXCEPT !.enabled = FALSE, !.syncEnabled = FALSE,
                                       !.automation = NoAutomation(f.activePreset)]
      BY <1>9 DEF ImportFile
    <2>2. Normal(f) \in SettingsOf(Origin)
      BY <2>1, SettingsAssumption, NormalType
    <2>3. e.presets = Normal(f).presets
      BY <2>1, <2>2 DEF SettingsOf
    <2>4. \A i \in Ids(e) : e.presets[i] \in PresetOf(Origin)
      BY <2>2, <2>3 DEF Ids, SettingsOf
    <2> QED
      BY <1>1, <2>4, StoredPreset, ExpandedSettings DEF PresetStillOK
  <1> QED
    BY <1>5, <1>6, <1>7, <1>8, <1>9 DEF Edits

\* A list of at most half the limit has room for what it expands to, whatever hosts are in it
\* (core.js 36-40).
THEOREM ShortListHasRoom ==
    ASSUME MaxOrigins \in Nat, NEW v \in SUBSET Entry, IsFiniteSet(v), 2 * Cardinality(v) <= MaxOrigins
    PROVE  HasRoom(v)
  <1> DEFINE As(x, e) == IF e.scheme = "bare" THEN [scheme |-> x, host |-> e.host, exact |-> TRUE] ELSE e
             first == {As("http", e) : e \in v}
             second == {As("https", e) : e \in v}
  <1>1. IsFiniteSet(first) /\ Cardinality(first) <= Cardinality(v)
    <2>1. [e \in v |-> As("http", e)] \in Surjection(v, first)
      BY DEF Surjection
    <2> QED
      BY <2>1, FS_Surjection
  <1>2. IsFiniteSet(second) /\ Cardinality(second) <= Cardinality(v)
    <2>1. [e \in v |-> As("https", e)] \in Surjection(v, second)
      BY DEF Surjection
    <2> QED
      BY <2>1, FS_Surjection
  <1>3. ASSUME NEW o \in Origins(v) PROVE o \in first \cup second
    <2>1. PICK e \in v : o \in (IF e.scheme = "bare" THEN {q \in Origin : q.host = e.host} ELSE {e})
      BY DEF Origins
    <2>2. CASE e.scheme = "bare"
      <3>1. o = [scheme |-> "http", host |-> e.host, exact |-> TRUE]
              \/ o = [scheme |-> "https", host |-> e.host, exact |-> TRUE]
        BY <2>1, <2>2 DEF Origin
      <3>2. o = As("http", e) \/ o = As("https", e)
        BY <2>2, <3>1
      <3> QED
        BY <3>2
    <2>3. CASE e.scheme # "bare"
      BY <2>1, <2>3
    <2> QED
      BY <2>2, <2>3
  <1> HIDE DEF first, second
  <1>4. IsFiniteSet(first \cup second) /\ IsFiniteSet(Origins(v))
      /\ Cardinality(Origins(v)) <= Cardinality(first \cup second)
    BY <1>1, <1>2, <1>3, FS_Union, FS_Subset
  <1>5. Cardinality(first \cup second) <= Cardinality(first) + Cardinality(second)
    <2>1. IsFiniteSet(first \cap second)
      BY <1>1, FS_Subset
    <2>2. Cardinality(first \cap second) \in Nat
      BY <2>1, FS_CardinalityType
    <2>3. Cardinality(first) \in Nat /\ Cardinality(second) \in Nat
      BY <1>1, <1>2, FS_CardinalityType
    <2>4. Cardinality(first \cup second)
            = Cardinality(first) + Cardinality(second) - Cardinality(first \cap second)
      BY <1>1, <1>2, FS_Union
    <2> QED
      BY <2>2, <2>3, <2>4
  <1>6. /\ Cardinality(v) \in Nat /\ Cardinality(first) \in Nat /\ Cardinality(second) \in Nat
        /\ Cardinality(first \cup second) \in Nat /\ Cardinality(Origins(v)) \in Nat
    BY <1>1, <1>2, <1>4, FS_CardinalityType
  <1>7. Cardinality(Origins(v)) <= MaxOrigins
    BY <1>1, <1>2, <1>4, <1>5, <1>6
  <1> QED
    BY <1>7 DEF HasRoom

-----------------------------------------------------------------------------
(* Settings on their way into storage.                                       *)

Saves == {"save", "sync"}

\* What an operation of the queue would store can be read again.
Lasting(op) ==
    /\ op.kind = "save" => StillOK(op.set)
    /\ op.kind = "sync" => op.set \in SettingsType

Durable ==
    /\ SettingsOK(settings)
    /\ job[Worker].at = "write" => SettingsOK(job[Worker].set)
    /\ \A i \in DOMAIN queue : Lasting(queue[i])

\* No settings come nearer to storage in a step.
WriteKept == job'[Worker].at = "write" => job[Worker].at = "write" /\ job'[Worker].set = job[Worker].set

SavesKept ==
    \A i \in DOMAIN queue' :
        queue'[i].kind \in Saves =>
            \E j \in DOMAIN queue : queue[j].kind = queue'[i].kind /\ queue[j].set = queue'[i].set

Quiet == UNCHANGED settings /\ WriteKept /\ SavesKept

LEMMA DurableQuiet ==
    ASSUME Durable, Quiet
    PROVE  Durable'
  <1>1. SettingsOK(settings)' 
    BY DEF Durable, Quiet
  <1>2. (job[Worker].at = "write" => SettingsOK(job[Worker].set))'
    BY DEF Durable, Quiet, WriteKept
  <1>3. (\A i \in DOMAIN queue : Lasting(queue[i]))'
    BY DEF Durable, Quiet, SavesKept, Saves, Lasting
  <1> QED
    BY <1>1, <1>2, <1>3 DEF Durable

LEMMA QueueStays == UNCHANGED queue => SavesKept
  BY DEF SavesKept

LEMMA TailKept ==
    ASSUME Typed, queue # <<>>, queue' = Tail(queue)
    PROVE  SavesKept
  <1>1. queue \in Seq(OperationType)
    BY DEF Typed, QueueOK
  <1> QED
    BY <1>1 DEF SavesKept

LEMMA PagesKept ==
    ASSUME NEW f, queue' = [i \in DOMAIN queue |-> [queue[i] EXCEPT !.page = f[i]]], Typed
    PROVE  SavesKept
  <1>1. \A i \in DOMAIN queue : queue[i] \in OperationType
    BY DEF Typed, QueueOK
  <1> QED
    BY <1>1 DEF SavesKept, OperationType

LEMMA ReleaseKept ==
    ASSUME Typed, queue # <<>>, Release
    PROVE  WriteKept /\ SavesKept
  BY TailKept, OwnersType DEF Release, WriteKept, IdleJob, Typed, JobsOK

LEMMA ReplyKept ==
    ASSUME Typed, NEW p \in Pages, NEW snap, NEW review, Reply(p, snap, review)
    PROVE  WriteKept
  BY OwnersType DEF Reply, WriteKept, Typed, JobsOK

LEMMA GiveUpKept ==
    ASSUME Typed, NEW o \in Owners, o = Worker => queue # <<>>, GiveUp(o)
    PROVE  WriteKept /\ SavesKept
  <1>1. CASE o = Worker
    BY <1>1, ReleaseKept DEF GiveUp
  <1>2. CASE o # Worker
    BY <1>2, ReplyKept, QueueStays DEF GiveUp, Refuse, Owners
  <1> QED
    BY <1>1, <1>2

\* A job goes on without a write.
LEMMA GoesOnKept ==
    ASSUME Typed, NEW o \in Owners, NEW j, job' = [job EXCEPT ![o] = j], j.at # "write"
    PROVE  WriteKept
  BY DEF WriteKept, Typed, JobsOK

LEMMA LaunchKept ==
    ASSUME Typed, NEW o \in Owners, NEW plan, NEW reviewed, o = Worker => queue # <<>>,
           Launch(o, plan, reviewed)
    PROVE  WriteKept /\ SavesKept
  <1>1. CASE running
    BY <1>1, GiveUpKept DEF Launch
  <1>2. CASE ~running
    <2> DEFINE j == [IdleJob EXCEPT !.at = "check", !.kind = "cleanup", !.plan = plan,
                                    !.todo = plan.calls, !.reviewed = reviewed]
    <2>1. job' = [job EXCEPT ![o] = j] /\ UNCHANGED queue
      BY <1>2 DEF Launch
    <2>2. j.at = "check"
      BY DEF IdleJob
    <2> HIDE DEF j
    <2> QED
      BY <2>1, <2>2, GoesOnKept, QueueStays
  <1> QED
    BY <1>1, <1>2

LEMMA GoToKept ==
    ASSUME Typed, NEW o \in Owners, NEW stage, GoTo(o, stage), stage # "write"
    PROVE  WriteKept
  BY DEF GoTo, WriteKept, Typed, JobsOK, JobType

LEMMA FailKept ==
    ASSUME Typed, NEW o \in Owners, Fail(o)
    PROVE  WriteKept
  <1> DEFINE j == [job[o] EXCEPT !.at = "failed", !.kind = "failed"]
  <1>1. job' = [job EXCEPT ![o] = j]
    BY DEF Fail, Typed, JobsOK
  <1>2. j.at = "failed"
    BY DEF Typed, JobsOK, JobType
  <1> HIDE DEF j
  <1> QED
    BY <1>1, <1>2, GoesOnKept

LEMMA QuietConfigure ==
    ASSUME Typed, NEW o \in Owners, Configure(o)
    PROVE  Quiet
  <1>1. CASE ClearAlarm(o)
    BY <1>1, QueueStays DEF ClearAlarm, Quiet, storage, WriteKept, Typed, JobsOK, JobType
  <1>2. CASE CreateAlarm(o)
    BY <1>2, QueueStays, GoToKept DEF CreateAlarm, Quiet, storage
  <1>3. CASE ReadPending(o)
    <2> DEFINE j == [job[o] EXCEPT !.at = "badge", !.pend = pending # None]
    <2>1. job' = [job EXCEPT ![o] = j]
      BY <1>3 DEF ReadPending, Typed, JobsOK
    <2>2. j.at # "write"
      BY DEF Typed, JobsOK, JobType
    <2> HIDE DEF j
    <2> QED
      BY <1>3, <2>1, <2>2, GoesOnKept, QueueStays DEF ReadPending, Quiet, storage
  <1>4. CASE SetBadge(o)
    <2>1. UNCHANGED settings
      BY <1>4 DEF SetBadge, storage
    <2>2. CASE o # Worker
      <3>1. WriteKept
        BY <1>4, <2>2, ReplyKept DEF SetBadge, Owners
      <3> QED
        BY <1>4, <2>1, <2>2, <3>1, QueueStays DEF SetBadge, Quiet
    <2>3. CASE o = Worker /\ Release
      BY <1>4, <2>1, <2>3, ReleaseKept DEF SetBadge, At, Typed, HeldOK, Quiet
    <2>4. CASE o = Worker /\ ~Release
      BY <1>4, <2>1, <2>4, GoToKept, QueueStays DEF SetBadge, Quiet
    <2> QED
      BY <2>2, <2>3, <2>4
  <1> QED
    BY <1>1, <1>2, <1>3, <1>4 DEF Configure

LEMMA QuietCleanup ==
    ASSUME Typed, NEW o \in Owners, Cleanup(o)
    PROVE  Quiet
  <1>1. CASE CheckEnabled(o)
    BY <1>1, QueueStays, GoToKept, FailKept DEF CheckEnabled, Quiet, storage
  <1>2. CASE Remove(o)
    <2>1. PICK c \in job[o].todo :
              job' = [job EXCEPT ![o].todo = @ \ {c},
                                 ![o].at = IF job[o].todo = {c} THEN "record" ELSE "check"]
      BY <1>2 DEF Remove
    <2> DEFINE j == [job[o] EXCEPT !.todo = @ \ {c},
                                   !.at = IF job[o].todo = {c} THEN "record" ELSE "check"]
    <2>2. job' = [job EXCEPT ![o] = j]
      BY <2>1 DEF Typed, JobsOK
    <2>3. j.at # "write"
      BY DEF Typed, JobsOK, JobType
    <2> HIDE DEF j
    <2> QED
      BY <1>2, <2>2, <2>3, GoesOnKept, QueueStays DEF Remove, Quiet, storage
  <1>3. CASE RemoveFails(o)
    BY <1>3, QueueStays, FailKept DEF RemoveFails, Quiet, storage
  <1>4. CASE RecordDone(o)
    BY <1>4, QueueStays, GoToKept DEF RecordDone, Quiet, storage
  <1>5. CASE RecordFailed(o)
    BY <1>5, QueueStays, GoToKept DEF RecordFailed, Finish, Quiet
  <1>6. CASE ClearPending(o)
    BY <1>6, QueueStays, GoToKept DEF ClearPending, Quiet
  <1>7. CASE ChooseFollowUp(o)
    BY <1>7, QueueStays, GoToKept, FailKept DEF ChooseFollowUp, Finish, Quiet, storage
  <1>8. CASE CloseWindows(o)
    <2>1. SavesKept
      <3> DEFINE f == [i \in DOMAIN queue |-> None]
      <3>1. queue' = [i \in DOMAIN queue |-> [queue[i] EXCEPT !.page = f[i]]]
        BY <1>8 DEF CloseWindows
      <3> HIDE DEF f
      <3> QED
        BY <3>1, PagesKept
    <2> QED
      BY <1>8, <2>1, GoToKept DEF CloseWindows, Finish, Quiet, storage
  <1>9. CASE CloseFails(o)
    BY <1>9, QueueStays, FailKept DEF CloseFails, Quiet, storage
  <1>10. CASE ReloadTab(o)
    BY <1>10, QueueStays, GoToKept DEF ReloadTab, Finish, Quiet, storage
  <1>11. CASE ReadAgain(o)
    <2>1. CASE GiveUp(o)
      BY <1>11, <2>1, GiveUpKept DEF ReadAgain, At, Typed, HeldOK, Quiet, storage
    <2>2. CASE ~GiveUp(o)
      <3> DEFINE j == [job[o] EXCEPT !.at = "clear", !.set = settings]
      <3>1. job' = [job EXCEPT ![o] = j] /\ UNCHANGED queue
        BY <1>11, <2>2 DEF ReadAgain, Typed, JobsOK
      <3>2. j.at # "write"
        BY DEF Typed, JobsOK, JobType
      <3> HIDE DEF j
      <3> QED
        BY <1>11, <3>1, <3>2, GoesOnKept, QueueStays DEF ReadAgain, Quiet, storage
    <2> QED
      BY <2>1, <2>2
  <1> QED
    BY <1>1, <1>2, <1>3, <1>4, <1>5, <1>6, <1>7, <1>8, <1>9, <1>10, <1>11 DEF Cleanup

LEMMA DurableQueued ==
    ASSUME Typed, Durable, Queued
    PROVE  Durable'
  <1>0. Worker \in Owners /\ (job[Worker].at # "idle" => queue # <<>>)
    BY OwnersType DEF Typed, HeldOK
  <1>1. CASE StartSave
    <2> DEFINE s == IF Starts("save") THEN Head(queue).set ELSE settings
    <2>1. queue # <<>> /\ UNCHANGED settings
      BY <1>1 DEF StartSave, Starts, storage
    <2>2. CASE Release
      BY <1>1, <2>1, <2>2, ReleaseKept, DurableQuiet DEF Quiet
    <2>3. CASE ~Release
      <3> DEFINE j == [job[Worker] EXCEPT !.at = "write", !.set = Normal(s)]
      <3>1. SettingsOK(s) /\ job' = [job EXCEPT ![Worker] = j] /\ UNCHANGED queue
        BY <1>0, <1>1, <2>3 DEF StartSave, Typed, JobsOK
      <3>2. j.set = Normal(s)
        BY <1>0 DEF Typed, JobsOK, JobType
      <3>3. StillOK(s)
        <4>1. CASE Starts("save")
          <5>1. Head(queue) = queue[1] /\ 1 \in DOMAIN queue
            BY <2>1 DEF Typed, QueueOK
          <5> QED
            BY <4>1, <5>1 DEF Starts, Durable, Lasting
        <4>2. CASE ~Starts("save")
          BY <4>2, StoredStillOK DEF Typed, StoreOK, SettingsType
        <4> QED
          BY <4>1, <4>2
      <3> HIDE DEF s, j
      <3>4. job'[Worker].set = Normal(s)
        BY <1>0, <3>1, <3>2 DEF Typed, JobsOK
      <3> QED
        BY <2>1, <3>1, <3>3, <3>4 DEF Durable, StillOK
    <2> QED
      BY <2>2, <2>3
  <1>2. CASE WriteSettings
    <2>1. job[Worker].at = "write" /\ settings' = job[Worker].set /\ UNCHANGED queue
      BY <1>2 DEF WriteSettings, At
    <2>2. WriteKept /\ job'[Worker].at = "clear"
      BY <1>0, <1>2, GoToKept DEF WriteSettings, GoTo, Typed, JobsOK, JobType
    <2> QED
      BY <2>1, <2>2 DEF Durable
  <1>3. CASE Publish
    <2>1. queue # <<>> /\ UNCHANGED settings
      BY <1>0, <1>3 DEF Publish, At, storage
    <2> QED
      BY <1>3, <2>1, ReleaseKept, DurableQuiet DEF Publish, Quiet
  <1>4. CASE ReceiveSync
    <2> DEFINE s == Head(queue).set
               incoming == Normal(Shared(s))
    <2>1. queue # <<>> /\ UNCHANGED settings /\ Head(queue).kind = "sync"
      BY <1>4 DEF ReceiveSync, Starts, storage
    <2>2. CASE Release
      BY <1>4, <2>1, <2>2, ReleaseKept, DurableQuiet DEF Quiet
    <2>3. CASE ~Release
      <3> DEFINE j == [job[Worker] EXCEPT !.at = "write", !.set = incoming]
      <3>1. SettingsOK(s) /\ job' = [job EXCEPT ![Worker] = j] /\ UNCHANGED queue
        BY <1>0, <1>4, <2>3 DEF ReceiveSync, Typed, JobsOK
      <3>2. j.set = incoming
        BY <1>0 DEF Typed, JobsOK, JobType
      <3>3. s \in SettingsType
        <4>1. Head(queue) = queue[1] /\ 1 \in DOMAIN queue
          BY <2>1 DEF Typed, QueueOK
        <4> QED
          BY <2>1, <4>1 DEF Durable, Lasting
      <3>4. incoming = Shared(s)
        BY <3>3, SharedType, StoredSettings DEF SettingsType
      <3>5. SettingsOK(Shared(s))
        BY <3>1, <3>3, SharedOK
      <3> HIDE DEF s, incoming, j
      <3>6. job'[Worker].set = Shared(s)
        BY <1>0, <3>1, <3>2, <3>4 DEF Typed, JobsOK
      <3> QED
        BY <2>1, <3>1, <3>5, <3>6 DEF Durable
    <2> QED
      BY <2>2, <2>3
  <1>5. CASE StartUp
    <2>1. queue # <<>> /\ UNCHANGED settings
      BY <1>5 DEF StartUp, Starts, storage
    <2>2. CASE Release
      BY <2>1, <2>2, ReleaseKept, DurableQuiet DEF Quiet
    <2>3. CASE ~Release
      <3> DEFINE j == [job[Worker] EXCEPT !.at = "clear", !.set = settings]
      <3>1. job' = [job EXCEPT ![Worker] = j] /\ UNCHANGED queue
        BY <1>0, <1>5, <2>3 DEF StartUp, Typed, JobsOK
      <3>2. j.at # "write"
        BY <1>0 DEF Typed, JobsOK, JobType
      <3> HIDE DEF j
      <3> QED
        BY <1>0, <2>1, <3>1, <3>2, GoesOnKept, QueueStays, DurableQuiet DEF Quiet
    <2> QED
      BY <2>2, <2>3
  <1>6. CASE Automate
    <2>1. queue # <<>> /\ UNCHANGED settings
      BY <1>0, <1>6 DEF Automate, Starts, At, storage
    <2>2. \/ Release
          \/ GoTo(Worker, "defer") /\ UNCHANGED queue
          \/ Launch(Worker, AutomaticPlan(settings), None)
      BY <1>6 DEF Automate
    <2>3. WriteKept /\ SavesKept
      BY <1>0, <2>1, <2>2, ReleaseKept, GoToKept, QueueStays, LaunchKept
    <2> QED
      BY <2>1, <2>3, DurableQuiet DEF Quiet
  <1>7. CASE DeferToUser
    BY <1>0, <1>7, GoToKept, QueueStays, DurableQuiet DEF DeferToUser, Quiet
  <1>8. CASE MarkBadge
    <2>1. queue # <<>> /\ UNCHANGED settings
      BY <1>0, <1>8 DEF MarkBadge, At, storage
    <2> QED
      BY <1>8, <2>1, ReleaseKept, DurableQuiet DEF MarkBadge, Quiet
  <1> QED
    BY <1>1, <1>2, <1>3, <1>4, <1>5, <1>6, <1>7, <1>8 DEF Queued

LEMMA QuietRequest ==
    ASSUME Typed, NEW p \in Pages, Request(p)
    PROVE  Quiet
  <1>0. p \in Owners /\ p # Worker
    BY OwnersType
  <1>1. UNCHANGED settings
    BY DEF Request, ReadForPreview, MakePlan, Verify, CheckTab, storage
  <1>2. ASSUME NEW j, job' = [job EXCEPT ![p] = j]
        PROVE  WriteKept
    BY <1>0, <1>2 DEF WriteKept, Typed, JobsOK
  <1>3. CASE ReadForPreview(p)
    <2>1. UNCHANGED queue
      BY <1>3 DEF ReadForPreview
    <2>2. CASE Refuse(p)
      BY <1>1, <2>1, <2>2, QueueStays, ReplyKept DEF Refuse, Quiet
    <2>3. CASE ~Refuse(p)
      <3>1. job' = [job EXCEPT ![p] = [job[p] EXCEPT !.at = "target", !.set = settings]]
        BY <1>0, <1>3, <2>3 DEF ReadForPreview, Typed, JobsOK
      <3> QED
        BY <1>1, <1>2, <2>1, <3>1, QueueStays DEF Quiet
    <2> QED
      BY <2>2, <2>3
  <1>4. CASE MakePlan(p)
    <2>1. UNCHANGED queue
      BY <1>4 DEF MakePlan
    <2>2. \/ \E snap, review : Reply(p, snap, review)
          \/ \E plan : job' = [job EXCEPT ![p].at = "verify", ![p].plan = plan, ![p].url = url]
      BY <1>4 DEF MakePlan, Refuse
    <2>3. ASSUME NEW plan, job' = [job EXCEPT ![p].at = "verify", ![p].plan = plan, ![p].url = url]
          PROVE  WriteKept
      <3>1. job' = [job EXCEPT ![p] = [job[p] EXCEPT !.at = "verify", !.plan = plan, !.url = url]]
        BY <1>0, <2>3 DEF Typed, JobsOK
      <3> QED
        BY <1>2, <3>1
    <2> QED
      BY <1>1, <2>1, <2>2, <2>3, ReplyKept, QueueStays DEF Quiet
  <1>5. CASE Verify(p)
    <2>1. \/ Refuse(p) /\ UNCHANGED queue
          \/ job' = [job EXCEPT ![p].at = "tab"] /\ UNCHANGED queue
          \/ Launch(p, job[p].plan, job[p].reviewed)
      BY <1>5 DEF Verify
    <2>2. CASE Launch(p, job[p].plan, job[p].reviewed)
      BY <1>0, <1>1, <2>2, LaunchKept DEF Quiet
    <2>3. CASE Refuse(p) /\ UNCHANGED queue
      BY <1>1, <2>3, QueueStays, ReplyKept DEF Refuse, Quiet
    <2>4. CASE job' = [job EXCEPT ![p].at = "tab"] /\ UNCHANGED queue
      BY <1>0, <1>1, <2>4, QueueStays, GoToKept DEF GoTo, Quiet
    <2> QED
      BY <2>1, <2>2, <2>3, <2>4
  <1>6. CASE CheckTab(p)
    <2>1. \/ Refuse(p) /\ UNCHANGED queue
          \/ Launch(p, job[p].plan, job[p].reviewed)
      BY <1>6 DEF CheckTab
    <2>2. CASE Launch(p, job[p].plan, job[p].reviewed)
      BY <1>0, <1>1, <2>2, LaunchKept DEF Quiet
    <2>3. CASE Refuse(p) /\ UNCHANGED queue
      BY <1>1, <2>3, QueueStays, ReplyKept DEF Refuse, Quiet
    <2> QED
      BY <2>1, <2>2, <2>3
  <1> QED
    BY <1>3, <1>4, <1>5, <1>6 DEF Request

LEMMA AppendDurable ==
    ASSUME Typed, Durable, UNCHANGED <<settings, job>>, NEW op, Serialized(op), Lasting(op)
    PROVE  Durable'
  <1>1. queue \in Seq(OperationType) /\ queue' = Append(queue, op)
    BY DEF Typed, QueueOK, Serialized
  <1>2. \A i \in DOMAIN queue' : (i \in DOMAIN queue /\ queue'[i] = queue[i]) \/ queue'[i] = op
    BY <1>1
  <1>3. \A i \in DOMAIN queue' : Lasting(queue'[i])
    BY <1>2 DEF Durable
  <1> QED
    BY <1>3 DEF Durable, Lasting

LEMMA PressedQuiet ==
    ASSUME Typed, NEW p \in Pages, NEW j, job' = [job EXCEPT ![p] = j], UNCHANGED <<settings, queue>>
    PROVE  Quiet
  BY OwnersType, QueueStays DEF Quiet, WriteKept, Typed, JobsOK

LEMMA DurableUser ==
    ASSUME Typed, Durable, InputsHaveRoom, NEW p \in Pages, User(p)
    PROVE  Durable'
  <1>0. p \in Owners /\ page[p] \in PageType /\ job[p] \in JobType
    BY OwnersType DEF Typed, PagesOK, JobsOK
  <1>1. CASE Open(p) \/ Cancel(p)
    BY <1>1, QueueStays, DurableQuiet DEF Open, Cancel, Quiet, WriteKept, storage
  <1>2. CASE Close(p)
    <2> DEFINE f == [i \in DOMAIN queue |-> IF queue[i].page = p THEN None ELSE queue[i].page]
    <2>1. queue' = [i \in DOMAIN queue |-> [queue[i] EXCEPT !.page = f[i]]]
      BY <1>2 DEF Close
    <2> HIDE DEF f
    <2>2. SavesKept
      BY <2>1, PagesKept
    <2> QED
      BY <1>2, <2>2, DurableQuiet DEF Close, Quiet, WriteKept, storage
  <1>3. CASE Confirm(p)
    <2>1. UNCHANGED job \/ \E j : job' = [job EXCEPT ![p] = j]
      BY <1>3 DEF Confirm
    <2>2. UNCHANGED <<settings, queue>>
      BY <1>3 DEF Confirm, storage
    <2> QED
      BY <2>1, <2>2, PressedQuiet, QueueStays, DurableQuiet DEF Quiet, WriteKept
  <1>4. CASE Switch(p)
    <2> DEFINE s == [page[p].snap EXCEPT !.enabled = ~page[p].snap.enabled]
    <2>1. page[p].snap \in SettingsType
      BY <1>0, <1>4 DEF Switch, PageType, SomeSettings
    <2>2. StillOK(s)
      BY <2>1, StoredStillOK DEF SettingsType, SettingsOf
    <2>3. Serialized(Operation("save", s, p, TRUE)) /\ UNCHANGED <<settings, job>>
      BY <1>4 DEF Switch, storage
    <2> HIDE DEF s
    <2> QED
      BY <2>2, <2>3, AppendDurable DEF Operation, Lasting
  <1>5. CASE Submit(p)
    <2>1. page[p].snap \in SettingsType
      BY <1>0, <1>5 DEF Submit, CanPress, PageType, SomeSettings
    <2>2. PICK s \in Edits(page[p].snap) : Serialized(Operation("save", s, p, FALSE))
      BY <1>5 DEF Submit
    <2>3. StillOK(s)
      BY <2>1, EditsStillOK
    <2> QED
      BY <1>5, <2>2, <2>3, AppendDurable DEF Submit, storage, Operation, Lasting
  <1>6. CASE Review(p) \/ Clean(p)
    <2>1. PICK kind, preset : Ask(p, kind, preset)
      BY <1>6 DEF Review, Clean
    <2>2. job' = [job EXCEPT ![p] = [job[p] EXCEPT !.at = "preview", !.kind = kind, !.preset = preset]]
      BY <1>0, <2>1 DEF Ask, Typed, JobsOK
    <2>3. UNCHANGED <<settings, queue>>
      BY <2>1 DEF Ask, storage
    <2> QED
      BY <2>2, <2>3, PressedQuiet, DurableQuiet
  <1> QED
    BY <1>1, <1>2, <1>3, <1>4, <1>5, <1>6 DEF User

LEMMA DurableEnvironment ==
    ASSUME Typed, Durable, Environment
    PROVE  Durable'
  <1>1. CASE Event
    <2>1. PICK kind \in Sources \cup {"installed"} : Trigger(kind)
      BY <1>1 DEF Event, AlarmFires, TabCloses, Updated, Sources
    <2> QED
      BY <1>1, <2>1, AppendDurable DEF Event, storage, Trigger, Operation, Lasting, Sources
  <1>2. CASE DeliverSync
    <2>1. Head(published) \in SettingsType
      BY <1>2, PublishedHead DEF DeliverSync
    <2> QED
      BY <1>2, <2>1, AppendDurable DEF DeliverSync, storage, Operation, Lasting
  <1>3. CASE ForeignChange \/ Navigate \/ Expire \/ ReviewFails
    BY <1>3, QueueStays, DurableQuiet
       DEF ForeignChange, Navigate, Expire, ReviewFails, Quiet, WriteKept, storage
  <1>4. CASE WorkerEnds
    <2>1. UNCHANGED settings /\ job'[Worker] = IdleJob /\ queue' = <<>>
      BY <1>4, OwnersType DEF WorkerEnds, Reset, storage
    <2>2. WriteKept
      BY <2>1 DEF WriteKept, IdleJob
    <2>3. SavesKept
      BY <2>1 DEF SavesKept
    <2> QED
      BY <2>1, <2>2, <2>3, DurableQuiet DEF Quiet
  <1>5. CASE BrowserRestarts
    BY <1>5, OwnersType, DurableQuiet DEF BrowserRestarts, Reset, Quiet, WriteKept, SavesKept, storage,
       IdleJob, Operation, Saves
  <1> QED
    BY <1>1, <1>2, <1>3, <1>4, <1>5 DEF Environment

\* If every list a user may submit has room for both origins of its bare hosts, and
\* the settings stored at first can be read, whatever is stored later can be read too: the
\* expanded lists are all that StoredIsReadable fails for (core.js 36-52 and 92-108;
\* background.js 10-13, 32-43 and 216-228).
THEOREM RoomyListsAreReadable ==
    ASSUME InputsHaveRoom, \A s \in InitialSettings : SettingsOK(s)
    PROVE  Spec => []StoredIsReadable
  <1>1. Init => Durable
    BY OwnersType DEF Init, Durable, IdleJob
  <1>2. ASSUME IInv, Durable, [Next]_vars PROVE Durable'
    <2>0. Typed
      BY <1>2 DEF IInv, Safe
    <2>1. ASSUME NEW o \in Owners, Proceed(o) PROVE Durable'
      BY <1>2, <2>0, <2>1, QuietCleanup, QuietConfigure, QuietRequest, DurableQuiet, DurableQueued
         DEF Proceed
    <2>2. ASSUME NEW p \in Pages, User(p) PROVE Durable'
      BY <1>2, <2>0, <2>2, DurableUser
    <2>3. CASE Environment
      BY <1>2, <2>0, <2>3, DurableEnvironment
    <2>4. CASE UNCHANGED vars
      BY <1>2, <2>4, QueueStays, DurableQuiet DEF vars, Quiet, WriteKept
    <2>5. ASSUME NEW r \in Reporters, Reporting(r) PROVE Durable'
      BY <1>2, <2>5, QueueStays, DurableQuiet DEF Reporting, ReportRead, ReportWritten, storage, Quiet, WriteKept
    <2> QED
      BY <1>2, <2>1, <2>2, <2>3, <2>4, <2>5 DEF Next
  <1>3. Durable => StoredIsReadable
    BY DEF Durable, StoredIsReadable, Readable
  <1> QED
    BY <1>1, <1>2, <1>3, Always, PTL DEF Spec

=============================================================================
