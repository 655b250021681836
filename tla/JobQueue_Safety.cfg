\* One job through everything that can happen to it.
SPECIFICATION Spec
CONSTANTS
    r1 = r1
    Routines <- OneRoutine
    Enqueuers <- TwoEnqueuers
    Priorities = {0}
    Lifetimes = {0, 1}
    Waits = {1}
    Backoff <- MCBackoff
    MaxAttempts <- MCMaxAttempts
    MaxJobs = 2
    MaxTime = 3
    MaxPageOps = 2
    MaxAborts = 1
INVARIANTS
    RunningIsHeld
    AttemptsWithinAllowance
    EnqueueIsServed
    OneFreshJobPerEnqueuer
PROPERTIES
    ImplementsLifecycle
CONSTRAINT LongOrCrowded
CHECK_DEADLOCK FALSE
