CONSTANTS
    t1 = t1
    t2 = t2
    Timer = {t1, t2}
    Durations = {0, 1, 3}
    MaxDuration = 3
    PollTries = 3
    MaxWait = 2
SPECIFICATION FairSpec
INVARIANTS HandlesCounted ClosedTimersSilent SleepBounded
PROPERTIES DueTimersFire ClosingDelivered TimersReturn LoopReturns
CHECK_DEADLOCK FALSE
