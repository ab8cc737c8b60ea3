\* One server, two databases, a built-in workload and one that is imported,
\* with thresholds that DecisionPolicy takes or refuses.
SPECIFICATION FairSpec
CONSTANTS
    db1 = db1
    db2 = db2
    risk = risk
    custom = custom
    Database <- TwoDatabases
    DefaultDatabase = db1
    Workload <- TwoWorkloads
    DefaultWorkload = risk
    Builtin <- OneBuiltin
    Absent = Absent
    Torn = Torn
    MaxVersion = 2
    Refused <- SecondRefused
    MaxState = 1
INVARIANTS
    TypeOK
    StoresAgree
    RestartFindsTheSame
PROPERTIES
    OnlyBadFilesKeepDown
