CONSTANTS
    boot = boot
    idle = idle
    t1 = t1
    Thread <- ThreadsTwo
    Boot = boot
    Idle = idle
    WaitQueue <- ThreadsTwo
    THRD_QUOTA = 1
    CHAR_MOD = 2
    IRQ_SCHED_SCHEDULE = 1
    MaxLag = 3
    SCHED_MAX_TOUT_TICKS = 3
SPECIFICATION SleepSpec
INVARIANTS WheelExact NoDanglingTimer NeverMissed
