\* Suspend, resume, timeout, retention and shutdown by three threads.
SPECIFICATION StoreSpec
CONSTANTS
    t1 = t1
    t2 = t2
    t3 = t3
    task = task
    m1 = m1
    m2 = m2
    artifact = artifact
    Threads <- MCThreads
    Tasks <- MCTasks
    Messages <- MCTwoMessages
    Artifacts <- MCNone
    ClientStates <- MCOneState
    Calls <- MCSlotCalls
    MaxEntries = 2
    MaxSlots = 2
    Env <- MCEnvNoIdle
SYMMETRY SlotSymmetry
INVARIANTS
    SlotOwned
    ExclusiveCompletion
    NoOrphanWaiter
    SlotInv
PROPERTIES
    SlotSetOnce
    ImplementsHandoff
    ShutdownReleases
