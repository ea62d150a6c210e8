CONSTANTS
    Client = {1, 2}
    Floor <- MCFloor
    Narou <- MCNarou
    Settings <- MCSettings
    Runtime = {"native", "worker"}
    NONE = NONE
    NAROU_STEPS = 2
    STEPS_WAIT_TIME = 3
    TTL = 2
    LEGACY_LIFETIME = 2
    Fences = {0, 4}
    Cap = 4
    FetchTime = 1
    Requests <- MCRequests
    MaxChanges = 1
    MaxFaults = 1
SPECIFICATION Spec
INVARIANTS SettingsReach DenialReservesNothing
PROPERTIES Spaced
