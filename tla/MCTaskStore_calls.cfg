\* Every call of the store, by two threads, under fairness.  The idle sweep may deadlock
\* the store, and threads need not call, so TLC does not look for deadlock.
SPECIFICATION FairStoreSpec
CONSTANTS
    t1 = t1
    t2 = t2
    t3 = t3
    task = task
    m1 = m1
    m2 = m2
    artifact = artifact
    Threads <- MCTwoThreads
    Tasks <- MCTasks
    Messages <- MCMessages
    Artifacts <- MCArtifacts
    ClientStates <- MCOneState
    Calls <- MCAllCalls
    MaxEntries = 1
    MaxSlots = 1
    Env <- MCEnvAll
INVARIANTS
    StoreTypeOK
PROPERTIES
    SuspensionsEnd
CHECK_DEADLOCK FALSE
