\* One server; its process ends after an answer.
SPECIFICATION Spec
CONSTANTS
    server1 = server1
    server2 = server2
    control1 = control1
    control2 = control2
    t1 = t1
    t2 = t2
    f1 = f1
    f2 = f2
    RuntimeClient <- OneServer
    ControlClient <- OneControl
    Transaction <- TwoTransactions
    Fingerprint <- TwoFingerprints
    Namespace = Namespace
    NoValue = NoValue
    MaxVersion = 2
INVARIANT AnswersDurable
