\* Two processes over one Postgres database.
SPECIFICATION Spec
CONSTANTS
    server1 = server1
    server2 = server2
    control1 = control1
    control2 = control2
    t1 = t1
    t2 = t2
    f1 = f1
    f2 = f2
    RuntimeClient <- TwoServers
    ControlClient <- TwoControls
    Transaction <- TwoTransactions
    Fingerprint <- TwoFingerprints
    Namespace = Namespace
    NoValue = NoValue
    MaxVersion = 2
INVARIANTS
    TypeOK
    AnswersFound
    OneFingerprint
