\* A send with an inline push config, a send whose payload is rejected, a push config
\* set later and a tasks/get; nearly every move of a handler, with update() to a
\* terminal and to an interrupted state.
SPECIFICATION Spec
CONSTANTS
    r1 = r1
    r2 = r2
    r3 = r3
    r4 = r4
    taskA = taskA
    Requests <- MCFour
    Kind <- SendSendSetGet
    Target <- MCTarget
    WithPush <- MCOne
    Invalid <- MCSecond
    Raising <- MCNone
    HandlerOps <- MCPushMoves
    AskStates <- MCInput
    UpdateStates <- MCUpdates
    Faults <- MCNone
    Threads <- MCThreads
    Tasks <- MCTasks
    Messages <- MCMessages
    Artifacts <- MCArtifacts
    ClientStates <- MCStates
    Calls <- MCCalls
    Env <- MCTimeout
    MaxOps = 1
    MaxEntries = 1
    MaxSlots = 2
INVARIANTS
    PushReportsOutcome
