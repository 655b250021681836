\* Two enqueuers whose Enqueue calls may overlap.
SPECIFICATION Spec
CONSTANTS
    r1 = r1
    Routines <- OneRoutine
    Enqueuers <- TwoEnqueuers
    Priorities = {0}
    Lifetimes = {0}
    Waits = {1}
    Backoff <- MCBackoff
    MaxAttempts <- MCMaxAttempts
    MaxJobs = 2
    MaxTime = 1
    MaxPageOps = 0
    MaxAborts = 0
INVARIANTS
    NoFreshDuplicate
CHECK_DEADLOCK FALSE
