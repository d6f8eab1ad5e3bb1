\* The idle GC (violation).
SPECIFICATION FairStoreSpec
CONSTANTS
    t1 = t1
    t2 = t2
    t3 = t3
    task = task
    m1 = m1
    m2 = m2
    artifact = artifact
    Threads <- MCTwoThreads
    Tasks <- MCTasks
    Messages <- MCMessages
    Artifacts <- MCNone
    ClientStates <- MCInterrupted
    Calls <- MCSlotCalls
    MaxEntries = 1
    MaxSlots = 1
    Env <- MCEnvAll
PROPERTIES
    IdleTasksFail
CHECK_DEADLOCK FALSE
