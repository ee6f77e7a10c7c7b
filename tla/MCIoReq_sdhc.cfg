CONSTANTS
    boot = boot
    idle = idle
    t1 = t1
    NoReq = NoReq
    Thread <- ThreadsTwo
    Boot = boot
    Idle = idle
    WaitQueue <- ThreadsTwo
    THRD_QUOTA = 1
    CHAR_MOD = 2
    IRQ_SCHED_SCHEDULE = 1
    MaxLag = 1
    Driver = {"sdhc"}
SPECIFICATION IoSpec
INVARIANT NoIrqWhileRunning
