CONSTANTS
    boot = boot
    t1 = t1
    t2 = t2
    Thread <- ThreadsMC
    Boot = boot
    IRQ_SOFT_MAX = 1
    IRQ_SCHED_SCHEDULE = 1
    MaxNest = 2
SPECIFICATION Spec
SYMMETRY SymmetryMC
INVARIANTS TypeOK CountersMatch SoftExclusive SchedExclusive
PROPERTY SwitchAtDepthOne
