\* One settings page and one popup; an enabled, synchronised device with a schedule.
CONSTANTS
    None = None
    setup = setup
    popup = popup
    Worker = Worker
    SetupPages = {setup}
    Popups = {popup}
    Reporters = {1}
    CacheTypes = {"cache", "cacheStorage"}
    SiteTypes = {}
    GlobalTypes = {"history"}
    Hosts = {"h", "g"}
    PresetIds = {"one", "two"}
    MaxOrigins = 2
    MaxPresets = 2
    SyncPresets = 1
    Tokens = {1, 2, 3}
    Drafts <- MCDrafts
    Files <- MCFiles
    Foreign <- MCForeign
    Found = {}
    Triggers <- MCTriggers
    InitialSettings <- MCInitialSettings
    MaxQueue = 2
    Cost <- MCCost
    Budget = 7
SPECIFICATION FairSpec
INVARIANTS
    TypeOK
    NothingUnreviewed
    OneCleanup
    AutomationIsCurrent
    OffStopsCleanup
    ShownAgrees
PROPERTIES
    PartialIsRecorded
    ComesToRest

CHECK_DEADLOCK FALSE
