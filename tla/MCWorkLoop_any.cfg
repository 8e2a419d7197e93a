SPECIFICATION Spec
CONSTANTS
    Threads = {t1, t2, t3}
    Reqs = {r1, r2, r3}
    LoopThread = LoopThread
    exit_sig = exit_sig
    NoReq = NoReq
    FifoCond = FALSE
    CreateMayFail = TRUE
    ReadLen = 2
    PipeCap = 3
SYMMETRY Symmetry
INVARIANT RequestConservation
INVARIANT NoLostWakeup
INVARIANT WorkConserving
INVARIANT IdleCount
INVARIANT QuiescentTeardown
CHECK_DEADLOCK FALSE
