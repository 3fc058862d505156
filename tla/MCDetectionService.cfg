SPECIFICATION MCSpec
CONSTANTS
    e1 = e1
    e2 = e2
    m1 = m1
    Unresolved = Unresolved
    NoAction = NoAction
    Manual = Manual
    Events <- MCEvents
    Motions <- MCMotions
    MotionOf <- MCMotionOf
    Actions = {a1}
    SeedActions = {a1}
    BindingIds = {b1, b2}
    Handlers = {h1, h2}
    Cooldown = 2
    Durable = TRUE
    DatabaseFails = TRUE
    MaxStamp = 2
    MaxLogs = 2
    MaxRestarts = 1
SYMMETRY MCSymmetry
INVARIANTS
    ServiceInv
    ExecutedAtMostOnce
    LogsTellTheTruth
    MemoryKeepsOutcomes
    StoreInv
    CooldownSpacing
PROPERTIES
    ImplementsContract
    CoolingNeedsGrant
