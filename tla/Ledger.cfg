\* One process over its SQLite database.
SPECIFICATION Spec
CONSTANTS
    server = server
    monitor1 = monitor1
    Process <- OneProcess
    Monitor <- OneMonitor
    SeededStatus <- Decided
    ControlValue <- Switch
    Seeded <- SwitchSeed
    NoSnapshot = NoSnapshot
    MaxEvents = 4
    MaxLabels = 2
    MaxSignals = 1
    MaxUnfinished = 1
    MaxFaults = 1
INVARIANTS
    TypeOK
    LedgerExplainsSnapshot
    LabelsAccountedFor
PROPERTIES
    SnapshotNeverRegresses
    VerdictExact
