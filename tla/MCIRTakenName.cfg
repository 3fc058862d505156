SPECIFICATION Spec
CONSTANTS
    Clients = {c1, c2}
    Nobody = Nobody
    Appliances = {a1}
    Names = {n1}
    LearnTime = 1
    AnswersWith408 = FALSE
    DatabaseFails = FALSE
    DirectCreates = TRUE
    MaxTime = 2
    MaxCaptures = 1
    MaxSessions = 1
    MaxRestarts = 0
SYMMETRY MCSymmetry
PROPERTIES
    TakenNameRefused
