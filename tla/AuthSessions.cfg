SPECIFICATION Spec
CONSTANTS
    p1 = p1
    p2 = p2
    e1 = e1
    e2 = e2
    e3 = e3
    admin = admin
    operator = operator
    Process <- MCProcess
    Email <- MCEmail
    MaxTokens = 3
    Role <- MCRole
    Admin = admin
    NoRow = NoRow
    Never = Never
    SessionTtl = 1
    KeyExpiry <- MCKeyExpiry
    MaxTime = 2
SYMMETRY Symmetry
INVARIANTS
    TypeOK
    OneBootstrapEach
    DeliveredAreRecorded
    RoleNeverRises
PROPERTIES
    EndedIsFinal
