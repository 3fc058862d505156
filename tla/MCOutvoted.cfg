SPECIFICATION Spec
CONSTANTS
    None = None
    Collected = {3}
    Disabled = {4}
    Registered <- MCFewSamples
    Thresholds <- MCThresholds
    Shots <- MCShots
    K = 3
    Penalty = 10
    Exact = 0
    Compared = 3
    Fine = 12
    FullWeight = 4
    MaxTime = 5
    Unit = 4
    MinWidth = 1
    Alpha = 1
    AlphaOf = 2
    FillTime = 1
    FillWeight = 2
    FillLeast = 1
    Interval = 1
    Window = 3
    MinWindow = 2
    Stride = 2
    Confirmations = 2
    Cooldown = 3
    Gap = 2
INVARIANTS
    SelectedIsWithin
