SPECIFICATION MCSpec
CONSTANTS
    Workers = {w1, w2}
    Jobs = 2
    SubJobs <- MCSubJobs
    SlotOf <- OneEffect
    CounterLimit = 12
INVARIANTS SubIsBarrier NoOrphanSubJob InTime Settles NoRace
PROPERTIES GoIsBarrier
SYMMETRY AnyWorker
