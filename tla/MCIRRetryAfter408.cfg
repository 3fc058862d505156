SPECIFICATION Spec
CONSTANTS
    Clients = {c1, c2}
    Nobody = Nobody
    Appliances = {a1}
    Names = {n1}
    LearnTime = 2
    AnswersWith408 = TRUE
    DatabaseFails = FALSE
    DirectCreates = FALSE
    MaxTime = 3
    MaxCaptures = 2
    MaxSessions = 1
    MaxRestarts = 0
SYMMETRY MCSymmetry
INVARIANTS
    FreeWithoutSession
