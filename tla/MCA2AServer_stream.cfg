\* A stream, whose client may go away and whose handler thread may die, and a send to
\* one task under fairness.  A thread that died leaves the task open and both requests
\* waiting, and the send's deadline is left out, so TLC does not look for deadlock.
SPECIFICATION FairSpec
CONSTANTS
    r1 = r1
    r2 = r2
    r3 = r3
    r4 = r4
    taskA = taskA
    Requests <- MCTwo
    Kind <- StreamSend
    Target <- MCTarget
    WithPush <- MCNone
    Invalid <- MCNone
    Raising <- MCFirst
    HandlerOps <- MCAskFail
    AskStates <- MCInput
    UpdateStates <- MCNone
    Faults <- MCDisconnect
    Threads <- MCThreads
    Tasks <- MCTasks
    Messages <- MCMessages
    Artifacts <- MCArtifacts
    ClientStates <- MCStates
    Calls <- MCCalls
    Env <- MCTimeout
    MaxOps = 1
    MaxEntries = 1
    MaxSlots = 2
INVARIANTS
    StreamShowsWorking
    StreamEndsWithFinal
PROPERTIES
    StreamCloses
CHECK_DEADLOCK FALSE
