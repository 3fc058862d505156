SPECIFICATION Spec
CONSTANTS
    Clients = {c1, c2}
    Nobody = Nobody
    Appliances = {a1, a2}
    Names = {n1}
    LearnTime = 1
    AnswersWith408 = FALSE
    DatabaseFails = TRUE
    DirectCreates = TRUE
    MaxTime = 1
    MaxCaptures = 1
    MaxSessions = 2
    MaxRestarts = 1
SYMMETRY MCSymmetry
INVARIANTS
    LearningTypeOK
    WaitingIsFlagged
    CaptureIsCurrent
    FreeWithoutSession
    ConfirmedNamesUnique
    SomeRequestMoves
