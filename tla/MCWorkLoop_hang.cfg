SPECIFICATION Spec
CONSTANTS
    Threads = {t1, t2, t3}
    Reqs = {r1}
    LoopThread = LoopThread
    exit_sig = exit_sig
    NoReq = NoReq
    FifoCond = FALSE
    CreateMayFail = FALSE
    ReadLen = 2
    PipeCap = 3
INVARIANT TeardownProgress
CHECK_DEADLOCK FALSE
