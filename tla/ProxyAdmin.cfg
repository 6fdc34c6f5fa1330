\* A browser and a service with the API token; one account.
CONSTANTS
    Clients = {browser, service}
    ApiClients = {service}
    Names = {alice}
    Passwords = {p1, p2}
    Bootstrap = p1
    Levels = {INFO, DEBUG}
    Default = INFO
    Absent = Absent
    NoFile = NoFile
    MaxFaults = 2
SPECIFICATION Spec
INVARIANTS TypeOK RotationIsFinal LevelAgrees
PROPERTIES ChangesNeedRotation ImplementsStore
