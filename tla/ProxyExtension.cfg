\* Two pages, two configurations, one failing call and one restart.
CONSTANTS
    f1 = f1
    f2 = f2
    A = A
    B = B
    NoConfig = NoConfig
    Flows <- MCFlows
    Configs <- MCConfigs
    MaxFaults = 1
    MaxRestarts = 1
SPECIFICATION Spec
SYMMETRY Symmetry
INVARIANTS
    TypeOK
    TestsCleanUp
    SettingsAgree
    DisabledWithoutCredentials
