\* Two sends to one task under fairness.  Timeouts are left out: a handler that
\* asked last then waits for ever, so TLC does not look for deadlock.
SPECIFICATION FairSpec
CONSTANTS
    r1 = r1
    r2 = r2
    r3 = r3
    r4 = r4
    taskA = taskA
    Requests <- MCTwo
    Kind <- SendSend
    Target <- MCTarget
    WithPush <- MCNone
    Invalid <- MCNone
    Raising <- MCNone
    HandlerOps <- MCTalkMoves
    AskStates <- MCBoth
    UpdateStates <- MCNone
    Faults <- MCNone
    Threads <- MCThreads
    Tasks <- MCTasks
    Messages <- MCMessages
    Artifacts <- MCArtifacts
    ClientStates <- MCStates
    Calls <- MCCalls
    Env <- MCNone
    MaxOps = 2
    MaxEntries = 1
    MaxSlots = 3
INVARIANTS
    HandedOverOnce
    NoLostMessage
PROPERTIES
    MessageHandled
    SendAnswered
CHECK_DEADLOCK FALSE
