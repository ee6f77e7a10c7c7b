CONSTANTS
    boot = boot
    idle = idle
    t1 = t1
    t2 = t2
    q1 = q1
    Thread <- ThreadsThree
    Boot = boot
    Idle = idle
    WaitQueue = {q1}
    THRD_QUOTA = 1
    CHAR_MOD = 3
    IRQ_SCHED_SCHEDULE = 1
    MaxLag = 1
SPECIFICATION Spec
SYMMETRY Symmetry
INVARIANTS TypeOK QueueDiscipline AssertionsHold SuspendedClean IdleYields
PROPERTY NoOvertaking
