SPECIFICATION DeliveryFairSpec
CONSTANTS
    e1 = e1
    m1 = m1
    Unresolved = Unresolved
    NoAction = NoAction
    Manual = Manual
    Events <- MCEvents
    Motions <- MCMotions
    MotionOf <- MCMotionOf
    Actions = {a1}
    SeedActions = {a1}
    BindingIds = {b1}
    Handlers = {h1, h2, h3}
    Workers = {w1}
    Nobody = Nobody
    Retries = 2
    Cooldown = 1
    Durable = TRUE
    DatabaseFails = TRUE
    MaxStamp = 0
    MaxRestarts = 1
INVARIANTS
    DeliveryTypeOK
    DeliveredIsDecided
PROPERTIES
    ImplementsService
    SendsEnd
