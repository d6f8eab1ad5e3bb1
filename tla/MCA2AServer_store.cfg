\* The server uses the store as TaskStore says: every event of the environment, a
\* handler that goes on after complete() and returns the sentinel at any time, and a
\* callback that cannot be reached.
\* The idle sweep deadlocks the store, so TLC does not look for deadlock.
SPECIFICATION Spec
CONSTANTS
    r1 = r1
    r2 = r2
    r3 = r3
    r4 = r4
    taskA = taskA
    Requests <- MCTwo
    Kind <- SendResub
    Target <- MCTarget
    WithPush <- MCOne
    Invalid <- MCNone
    Raising <- MCNone
    HandlerOps <- MCLingerMoves
    AskStates <- MCInput
    UpdateStates <- MCNone
    Faults <- MCUnreachable
    Threads <- MCThreads
    Tasks <- MCTasks
    Messages <- MCMessages
    Artifacts <- MCArtifacts
    ClientStates <- MCStates
    Calls <- MCCalls
    Env <- MCEnvAll
    MaxOps = 1
    MaxEntries = 1
    MaxSlots = 1
INVARIANTS
    TypeOK
PROPERTIES
    StoreSpec
CHECK_DEADLOCK FALSE
