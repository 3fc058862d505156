SPECIFICATION Spec
CONSTANTS
    None = None
    MaxTime = 4
    Reach = 3
    Threshold = 2
    Margin = 1
    MinFrames = 2
    Hold = 1
    Gap = 1
    Cooldown = 2
    SwipeTime = 2
    SnapTime = 2
    SnapGuard = 2
    GateTime = 2
    RotateMin = 1
    RotateMax = 2
    RotateCooldown = 3
    Missing = 1
INVARIANTS
    EngineTypeOK
    DuplicateGuard
    OneMovementOneDetection
    PoseIsSteady
