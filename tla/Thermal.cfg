\* Two sensors.  20 degrees lie between the two limits and below the setpoint, 70
\* above both limits; the board's 40 make a level in between.
CONSTANTS
    NumSensors = 2
    Temps = {20, 70}
    Limits = {10, 60}
    Default = 60
    Torn = Torn
    BoardLimit = 60
    BoardTemp = 40
    Setpoint = 30
    MaxMoves = 2
    MaxTools = 1
SPECIFICATION FairSpec
INVARIANTS TypeOK HotDecidesPass
PROPERTIES HotIsAlarmed LimitReachesAll HotFansFull HealthFollowsRail
\* Every service may end up failed for good; then only the bounded environment is left.
CHECK_DEADLOCK FALSE
