\* Two messages, at the conversion of one of which a thread may die, and a tasks/cancel
\* on one task, with timeouts and deadlines.
SPECIFICATION Spec
CONSTANTS
    r1 = r1
    r2 = r2
    r3 = r3
    r4 = r4
    taskA = taskA
    Requests <- MCThree
    Kind <- SendSendCancel
    Target <- MCTarget
    WithPush <- MCNone
    Invalid <- MCNone
    Raising <- MCSecond
    HandlerOps <- MCTalkMoves
    AskStates <- MCInput
    UpdateStates <- MCNone
    Faults <- MCDeadline
    Threads <- MCThreads
    Tasks <- MCTasks
    Messages <- MCMessages
    Artifacts <- MCArtifacts
    ClientStates <- MCStates
    Calls <- MCCalls
    Env <- MCTimeout
    MaxOps = 1
    MaxEntries = 1
    MaxSlots = 3
INVARIANTS
    NoStrandedTask
    HistoryComplete
    CompletedHasResult
