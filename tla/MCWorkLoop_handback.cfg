SPECIFICATION Spec
CONSTANTS
    Threads = {t1, t2}
    Reqs = {r1, r2}
    LoopThread = LoopThread
    exit_sig = exit_sig
    NoReq = NoReq
    FifoCond = TRUE
    CreateMayFail = FALSE
    ReadLen = 2
    PipeCap = 3
INVARIANT HandedBackUntouched
