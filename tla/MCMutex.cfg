CONSTANTS
    boot = boot
    idle = idle
    t1 = t1
    t2 = t2
    wq = wq
    Thread <- ThreadsThree
    Boot = boot
    Idle = idle
    WaitQueue = {wq}
    THRD_QUOTA = 1
    CHAR_MOD = 2
    IRQ_SCHED_SCHEDULE = 0
    MaxLag = 1
SPECIFICATION MutexFairSpec
INVARIANTS LockMatchesHolder NoWaiterForgotten
PROPERTY ImplementsLock
