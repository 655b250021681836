SPECIFICATION TimersSpec
CONSTANTS
    Items = {a, b}
    a = a
    b = b
    Workers <- MCWorkers
    Once = {"hand"}
    MaxFaults = 1
INVARIANTS
    NothingLostUndisturbed
PROPERTIES
    ParkedIsAnswered
    DueIsNotified
CHECK_DEADLOCK FALSE
