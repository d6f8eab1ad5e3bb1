----------------------------- MODULE OutcomeProofs -----------------------------
(***************************************************************************)
(* What becomes of a task, proved for any requests, tasks, handlers and    *)
(* bounds: no task is left open, and what clients read, are streamed and   *)
(* are notified of is what happened to it.                                 *)
(***************************************************************************)
EXTENDS A2AServerProofs

-----------------------------------------------------------------------------
(* Entries.                                                                 *)

(* No two tasks share an entry, and a call stays on an entry of its own task
   although the task may have been retired and created again since.         *)
OwnEntries ==
    /\ \A t \in Tasks : registry[t] <= nEntries
    /\ \A t, u \in Tasks : registry[t] = registry[u] /\ Registered(t) => t = u
    /\ \A r \in Requests : \A th \in Actors(r) : ~Idle(th) =>
          /\ call[th].ent <= nEntries
          /\ \A t \in Tasks : registry[t] = call[th].ent => t = Target[r]

(* A thread of x that is inside the store is on the entry it was on, or on the one
   that is registered for the task of x. *)
StaysOnTask(x) ==
    \A th \in Actors(x) : call'[th].at # "idle" =>
        \/ ~Idle(th) /\ call'[th].ent = call[th].ent
        \/ /\ UNCHANGED <<registry, nEntries>>
           /\ Registered(Target[x]) /\ call'[th].ent = registry[Target[x]]

(* A request whose threads stay where they are stays on its task. *)
LEMMA StaysAtOnTask ==
  ASSUME NEW x \in Requests, StaysAt(x)
  PROVE  StaysOnTask(x)
  BY DEF StaysAt, StaysOnTask, Actors, Idle

(* r makes its calls on its own task. *)
LEMMA RequestOnTask ==
  ASSUME StoreTypeOK, NEW r \in Requests, Sending(r) \/ Answering(r) \/ Streaming(r)
  PROVE  StaysOnTask(r)
  <1> DEFINE th == Request(r)
  <1>1. th \in Threads /\ Handler(r) \in Threads \ {th}
    BY RequestThreads, DistinctThreads
  <1>2. call'[Handler(r)] = call[Handler(r)]
    BY <1>1, RequestCall
  <1> USE DEF ReadThen, storeVars, Lookup, GetBegin, GetEnd, Calling, NoCall, Idle, At
  <1>3. \/ call' = call
        \/ call' = [call EXCEPT ![th] = NoCall]
        \/ /\ UNCHANGED <<registry, nEntries>> /\ Registered(Target[r])
           /\ \E at, s, arg :
                 call' = [call EXCEPT ![th] = [at |-> at, ent |-> registry[Target[r]], slot |-> s, arg |-> arg]]
    <2>1. CASE Sending(r)
      BY <2>1 DEF Sending, StartMessage, SetPush, CheckInterrupted, ResumeHandler, ResumeNobody,
                AppendMessage, SetWorking, Spawn, GetOrCreate, CallSetPush, CallResume,
                CallAppendMessage, CallSetState, Suspended
    <2>2. CASE Answering(r)
      BY <2>2 DEF Answering, StartOther, Cancel, Settle, SettleDeadline, BeginResponse, Respond,
                RespondGone, CallSetState
    <2>3. CASE Streaming(r)
      BY <2>3 DEF Streaming, BeginSnapshot, QueueSnapshot, SnapshotGone, SubscribeStream, Drain,
                CheckFinished, Disconnect, Close, Subscribe, Unsubscribe
    <2> QED
      BY <2>1, <2>2, <2>3
  <1>4. \/ call'[th] = call[th]
        \/ call'[th].at = "idle"
        \/ /\ UNCHANGED <<registry, nEntries>> /\ Registered(Target[r])
           /\ call'[th].ent = registry[Target[r]]
    BY <1>1, <1>3 DEF StoreTypeOK
  <1> QED
    BY <1>2, <1>4 DEF StaysOnTask, Actors

(* A handler's moves stay on the task of its request. *)
LEMMA HandlerOnTask ==
  ASSUME StoreTypeOK, NEW r \in Requests, Running(r) \/ Finishing(r) \/ Asking(r)
  PROVE  StaysOnTask(r) /\ UNCHANGED <<registry, nEntries>>
  <1> DEFINE th == Handler(r)
  <1>1. th \in Threads /\ Request(r) \in Threads \ {th}
    BY RequestThreads, DistinctThreads
  <1>2. call'[Request(r)] = call[Request(r)]
    BY <1>1, HandlerCall
  <1> USE DEF HandlerReadThen, storeVars, Lookup, Calling, NoCall, Idle, HandlerAt, Move, CallSetState,
              CallAppendArtifact
  <1>3. /\ UNCHANGED <<registry, nEntries>>
        /\ \/ call' = call
           \/ call' = [call EXCEPT ![th] = NoCall]
           \/ /\ Registered(Target[r])
              /\ \E at, s, arg :
                    call' = [call EXCEPT ![th] = [at |-> at, ent |-> registry[Target[r]], slot |-> s, arg |-> arg]]
    <2>1. CASE Running(r)
      BY <2>1 DEF Running, Reject, RunHandler, EmitArtifact, Update, Return, Raise, CheckReturn,
                CheckRaise, ReadPushConfig, DeliverPush, Die, ReturnDone, PushFails
    <2>2. CASE Finishing(r)
      BY <2>2 DEF Finishing, Complete, SetCompleted, Fail, CancelTask
    <2>3. CASE Asking(r)
      BY <2>3 DEF Asking, Ask, SuspendHandler, SuspendRaises, Answered, AskRaises, ResumeWorking,
                AppendReply, Catch, Propagate, Suspend, SuspendRefused, Finally, CallAppendMessage
    <2> QED
      BY <2>1, <2>2, <2>3
  <1>4. \/ call'[th] = call[th]
        \/ call'[th].at = "idle"
        \/ Registered(Target[r]) /\ call'[th].ent = registry[Target[r]]
    BY <1>1, <1>3 DEF StoreTypeOK
  <1> QED
    BY <1>2, <1>3, <1>4 DEF StaysOnTask, Actors

(* So do the steps inside the store. *)
LEMMA CallOnTask ==
  ASSUME StoreTypeOK, NEW r \in Requests, NEW th \in Actors(r), Inside(th) \/ Publish(th)
  PROVE  StaysOnTask(r) /\ UNCHANGED <<registry, nEntries>>
  <1>1. /\ {Request(r), Handler(r)} \subseteq Threads /\ th \in Threads
    BY RequestThreads DEF Actors
  <1>2. \A x \in Threads \ {th} : call'[x] = call[x]
    BY <1>1, InStoreCall
  <1>3. call[th].at # "idle" /\ (call'[th] = NoCall \/ call'[th].ent = call[th].ent)
    BY <1>1, InStoreMoves
  <1>4. UNCHANGED <<registry, nEntries>>
    BY DEF Inside, Publish, WriteState, WriteMessage, WriteArtifact, WritePush, WriteEntry,
           Broadcast, Wake, TimeOut, TestSlot, Resolve
  <1> QED
    BY <1>1, <1>2, <1>3, <1>4 DEF StaysOnTask, Actors, Idle, NoCall

(* Only a message that arrives registers a task, under a new entry. *)
LEMMA RequestRegistry ==
  ASSUME StoreTypeOK, NEW r \in Requests, Sending(r) \/ Answering(r) \/ Streaming(r)
  PROVE  \/ UNCHANGED <<registry, nEntries>>
         \/ /\ StartMessage(r) /\ ~Registered(Target[r])
            /\ nEntries' = nEntries + 1
            /\ registry' = [registry EXCEPT ![Target[r]] = nEntries + 1]
  <1> USE DEF ReadThen, storeVars, Lookup, GetBegin, GetEnd
  <1>1. CASE StartMessage(r)
    BY <1>1 DEF StartMessage, GetOrCreate
  <1>2. CASE Sending(r) /\ ~StartMessage(r)
    BY <1>2 DEF Sending, SetPush, CheckInterrupted, ResumeHandler, ResumeNobody,
              AppendMessage, SetWorking, Spawn, CallSetPush, CallResume,
              CallAppendMessage, CallSetState
  <1>3. CASE Answering(r)
    BY <1>3 DEF Answering, StartOther, Cancel, Settle, SettleDeadline, BeginResponse, Respond,
              RespondGone, CallSetState
  <1>4. CASE Streaming(r)
    BY <1>4 DEF Streaming, BeginSnapshot, QueueSnapshot, SnapshotGone, SubscribeStream, Drain,
              CheckFinished, Disconnect, Close, Subscribe, Unsubscribe
  <1> QED
    BY <1>1, <1>2, <1>3, <1>4

(* The registry gains a new entry for one task, or loses entries. *)
LEMMA RegistryChanges ==
  ASSUME StoreTypeOK, [Next]_vars
  PROVE  \/ UNCHANGED <<registry, nEntries>>
         \/ \E r \in Requests :
               /\ StartMessage(r) /\ ~Registered(Target[r])
               /\ nEntries' = nEntries + 1
               /\ registry' = [registry EXCEPT ![Target[r]] = nEntries + 1]
         \/ /\ EnvironmentStep /\ nEntries' = nEntries
            /\ \A t \in Tasks : registry'[t] \in {registry[t], Null}
  <1>1. CASE EnvironmentStep
    BY <1>1 DEF EnvironmentStep, SweeperStep, ShutdownStep, StartSweeper, SweepDue, SweepStop, Sweep, SweepIdle, Pop,
           ShutdownBegin, ShutdownCancel, StoreTypeOK
  <1>2. CASE UNCHANGED vars
    BY <1>2 DEF vars, storeVars
  <1> QED
    BY <1>1, <1>2, StepCases, RequestRegistry, HandlerOnTask, CallOnTask

(* No thread leaves its task. *)
LEMMA OnTask ==
  ASSUME StoreTypeOK, ServerType, [Next]_vars, NEW x \in Requests
  PROVE  StaysOnTask(x)
  <1>1. ASSUME NEW r \in Requests, Sending(r) \/ Answering(r) \/ Streaming(r)
        PROVE  StaysOnTask(x)
    BY <1>1, RequestOnTask, OthersStay, StaysAtOnTask
  <1>2. ASSUME NEW r \in Requests, Running(r) \/ Finishing(r) \/ Asking(r)
        PROVE  StaysOnTask(x)
    BY <1>2, HandlerOnTask, OthersStay, StaysAtOnTask
  <1>3. ASSUME NEW r \in Requests, NEW th \in Actors(r), Inside(th) \/ Publish(th)
        PROVE  StaysOnTask(x)
    BY <1>3, CallOnTask, OthersStay, StaysAtOnTask
  <1> QED
    BY <1>1, <1>2, <1>3, StepCases, EnvironmentStays, StaysAtOnTask

(* OwnEntries is inductive. *)
LEMMA OwnEntriesStep ==
  ASSUME ServerInv, OwnEntries, [Next]_vars
  PROVE  OwnEntries'
  <1> USE DEF ServerInv
  <1>1. /\ registry \in [Tasks -> Entries \cup {Null}] /\ nEntries \in Nat
        /\ \A r \in Requests : Target[r] \in Tasks
        /\ \A r \in Requests : \A th \in Actors(r) : ~Idle(th) => call[th].ent # Null
    <2>1. ASSUME NEW r \in Requests, NEW th \in Actors(r), ~Idle(th) PROVE call[th].ent # Null
      BY <2>1, RequestThreads DEF StoreTypeOK, CallOK, Idle, Actors
    <2> QED
      BY <2>1, RequestThreads, BoundsAssumption DEF StoreTypeOK
  <1> USE DEF OwnEntries, Registered, Null
  <1>2. CASE UNCHANGED <<registry, nEntries>>
    <2>1. ASSUME NEW r \in Requests, NEW th \in Actors(r), call'[th].at # "idle"
          PROVE  /\ call'[th].ent <= nEntries
                 /\ \A t \in Tasks : registry[t] = call'[th].ent => t = Target[r]
      BY <1>1, <2>1, OnTask DEF StaysOnTask
    <2> QED
      BY <1>2, <2>1 DEF Idle
  <1>3. ASSUME NEW r \in Requests, ~Registered(Target[r]), nEntries' = nEntries + 1,
               registry' = [registry EXCEPT ![Target[r]] = nEntries + 1]
        PROVE  OwnEntries'
    <2>1. ASSUME NEW x \in Requests, NEW th \in Actors(x), call'[th].at # "idle"
          PROVE  /\ call'[th].ent <= nEntries'
                 /\ \A t \in Tasks : registry'[t] = call'[th].ent => t = Target[x]
      <3>1. ~Idle(th) /\ call'[th].ent = call[th].ent
        BY <1>1, <1>3, <2>1, OnTask DEF StaysOnTask
      <3>2. call[th].ent <= nEntries /\ \A t \in Tasks : registry[t] = call[th].ent => t = Target[x]
        BY <3>1
      <3>3. call[th].ent \in Nat
        BY RequestThreads, BoundsAssumption DEF StoreTypeOK, CallType, Actors, Entries
      <3> QED
        BY <1>1, <1>3, <3>1, <3>2, <3>3
    <2>2. \A t \in Tasks : registry[t] \in Nat
      BY <1>1, BoundsAssumption DEF Entries
    <2>3. /\ \A t \in Tasks : registry'[t] <= nEntries'
          /\ \A t, u \in Tasks : registry'[t] = registry'[u] /\ registry'[t] # 0 => t = u
      BY <1>1, <1>3, <2>2
    <2> QED
      BY <2>1, <2>3 DEF Idle
  <1>4. ASSUME EnvironmentStep, nEntries' = nEntries, \A t \in Tasks : registry'[t] \in {registry[t], Null}
        PROVE  OwnEntries'
    <2>1. call' = call
      BY <1>4 DEF EnvironmentStep, SweeperStep, ShutdownStep, StartSweeper, SweepDue, SweepStop, Sweep, SweepIdle,
           ShutdownBegin, ShutdownCancel
    <2> QED
      BY <1>1, <1>4, <2>1 DEF Idle
  <1> QED
    BY <1>2, <1>3, <1>4, RegistryChanges

-----------------------------------------------------------------------------
(* What becomes of an entry.                                                *)

(* Nothing is taken from an entry but a subscription, by the thread whose it is. *)
Grows(e) ==
    /\ entry[e].history \subseteq entry'[e].history
    /\ entry[e].artifacts \subseteq entry'[e].artifacts
    /\ entry[e].push => entry'[e].push
    /\ \A r \in Requests : Request(r) \in entry[e].subs =>
          Request(r) \in entry'[e].subs \/ Close(r)

KeepsState(e) == entry'[e].state = entry[e].state

(* A request's own steps keep an entry's contents and its state. *)
LEMMA RequestGrows ==
  ASSUME StoreTypeOK, NEW r \in Requests, Sending(r) \/ Answering(r) \/ Streaming(r), NEW e \in Entries
  PROVE  Grows(e) /\ KeepsState(e)
  <1>1. CASE Close(r)
    <2>1. entry' = [x \in Entries |-> [entry[x] EXCEPT !.subs = @ \ {Request(r)}]]
      BY <1>1 DEF Close, Unsubscribe
    <2>2. /\ entry'[e] = [entry[e] EXCEPT !.subs = @ \ {Request(r)}]
          /\ entry[e] \in EntryType
      BY <2>1 DEF StoreTypeOK
    <2>3. /\ entry'[e].history = entry[e].history /\ entry'[e].artifacts = entry[e].artifacts
          /\ entry'[e].push = entry[e].push /\ entry'[e].state = entry[e].state
          /\ entry'[e].subs = entry[e].subs \ {Request(r)}
      BY <2>2 DEF EntryType
    <2> QED
      BY <1>1, <2>3, DistinctThreads DEF Grows, KeepsState
  <1>2. CASE ResumeHandler(r)
    BY <1>2 DEF ResumeHandler, CallResume, Detached, Grows, KeepsState, StoreTypeOK, EntryType
  <1>3. CASE SubscribeStream(r)
    BY <1>3 DEF SubscribeStream, Subscribe, Grows, KeepsState, StoreTypeOK, EntryType
  <1>4. CASE ~Close(r) /\ ~ResumeHandler(r) /\ ~SubscribeStream(r)
    <2> USE DEF ReadThen, storeVars, Lookup, GetBegin, GetEnd
    <2>1. CASE Sending(r)
      BY <1>4, <2>1 DEF Sending, StartMessage, SetPush, CheckInterrupted, ResumeNobody, AppendMessage,
                  SetWorking, Spawn, GetOrCreate, CallSetPush, CallAppendMessage, CallSetState, Grows, KeepsState
    <2>2. CASE Answering(r)
      BY <2>2 DEF Answering, StartOther, Cancel, Settle, SettleDeadline, BeginResponse, Respond,
                RespondGone, CallSetState, Grows, KeepsState
    <2>3. CASE Streaming(r)
      BY <1>4, <2>3 DEF Streaming, BeginSnapshot, QueueSnapshot, SnapshotGone, Drain,
                CheckFinished, Disconnect, Grows, KeepsState
    <2> QED
      BY <2>1, <2>2, <2>3
  <1> QED
    BY <1>1, <1>2, <1>3, <1>4

(* So do a handler's own steps. *)
LEMMA HandlerGrows ==
  ASSUME StoreTypeOK, NEW r \in Requests, Running(r) \/ Finishing(r) \/ Asking(r), NEW e \in Entries
  PROVE  Grows(e) /\ KeepsState(e)
  <1>1. CASE SuspendHandler(r)
    BY <1>1 DEF SuspendHandler, Suspend, Grows, KeepsState, StoreTypeOK, EntryType
  <1>2. CASE Answered(r) \/ AskRaises(r)
    BY <1>2 DEF Answered, AskRaises, Finally, Cleared, Grows, KeepsState, StoreTypeOK, EntryType
  <1>3. CASE ~SuspendHandler(r) /\ ~Answered(r) /\ ~AskRaises(r)
    <2> USE DEF HandlerReadThen, storeVars, Lookup, CallSetState, CallAppendArtifact, Grows, KeepsState
    <2>1. CASE Running(r)
      BY <2>1 DEF Running, Reject, RunHandler, EmitArtifact, Update, Return, Raise, CheckReturn,
                CheckRaise, ReadPushConfig, DeliverPush, Die, ReturnDone, PushFails
    <2>2. CASE Finishing(r)
      BY <2>2 DEF Finishing, Complete, SetCompleted, Fail, CancelTask
    <2>3. CASE Asking(r)
      BY <1>3, <2>3 DEF Asking, Ask, SuspendRaises, ResumeWorking, AppendReply, Catch, Propagate,
                  CallAppendMessage
    <2> QED
      BY <2>1, <2>2, <2>3
  <1> QED
    BY <1>1, <1>2, <1>3

(* Inside the store contents only grow, and only a write of the state changes it. *)
LEMMA CallGrows ==
  ASSUME StoreTypeOK, NEW th \in Threads, Inside(th) \/ Publish(th), NEW e \in Entries
  PROVE  /\ Grows(e)
         /\ \/ KeepsState(e)
            \/ WriteState(th) /\ call[th].ent = e /\ entry'[e].state = call[th].arg
  <1>1. CASE WriteState(th) \/ WriteMessage(th) \/ WriteArtifact(th) \/ WritePush(th)
    <2> DEFINE c == call[th].ent
    <2>1. c \in Entries /\ entry[c] \in EntryType
      BY <1>1 DEF StoreTypeOK, CallType, CallOK, WriteState, WriteMessage, WriteArtifact, WritePush, WriteEntry
    <2>2. /\ entry[c].history \subseteq entry'[c].history
          /\ entry[c].artifacts \subseteq entry'[c].artifacts
          /\ entry[c].push => entry'[c].push
          /\ entry'[c].subs = entry[c].subs
          /\ \/ entry'[c].state = entry[c].state
             \/ WriteState(th) /\ entry'[c].state = call[th].arg
      <3> USE DEF EntryType, StoreTypeOK, WriteEntry
      <3>1. CASE WriteState(th)
        BY <2>1, <3>1 DEF WriteState, WithState
      <3>2. CASE WriteMessage(th)
        BY <2>1, <3>2 DEF WriteMessage
      <3>3. CASE WriteArtifact(th)
        BY <2>1, <3>3 DEF WriteArtifact
      <3>4. CASE WritePush(th)
        BY <2>1, <3>4 DEF WritePush
      <3> QED
        BY <1>1, <3>1, <3>2, <3>3, <3>4
    <2>3. e # c => entry'[e] = entry[e]
      BY <1>1, <2>1 DEF StoreTypeOK, WriteState, WriteMessage, WriteArtifact, WritePush, WriteEntry
    <2> HIDE DEF c
    <2> QED
      BY <2>2, <2>3 DEF Grows, KeepsState, c
  <1>2. CASE Wake(th) \/ TimeOut(th) \/ TestSlot(th) \/ Resolve(th) \/ Broadcast(th)
    BY <1>2 DEF Wake, TimeOut, TestSlot, Resolve, Broadcast, Grows, KeepsState
  <1> QED
    BY <1>1, <1>2 DEF Inside, Publish

(* Entries grow, and only set_state changes the state of one. *)
LEMMA EntryChanges ==
  ASSUME StoreTypeOK, [Next]_vars, NEW e \in Entries
  PROVE  /\ Grows(e)
         /\ \/ KeepsState(e)
            \/ \E r \in Requests : \E th \in Actors(r) :
                 WriteState(th) /\ Inside(th) /\ call[th].ent = e /\ entry'[e].state = call[th].arg
  <1>1. CASE EnvironmentStep \/ UNCHANGED vars
    <2>1. entry' = entry
      BY <1>1 DEF EnvironmentStep, SweeperStep, ShutdownStep, StartSweeper, SweepDue, SweepStop, Sweep, SweepIdle,
           ShutdownBegin, ShutdownCancel, vars, storeVars
    <2> QED
      BY <2>1 DEF Grows, KeepsState
  <1>2. ASSUME NEW r \in Requests, Sending(r) \/ Answering(r) \/ Streaming(r)
               \/ Running(r) \/ Finishing(r) \/ Asking(r)
        PROVE  Grows(e) /\ KeepsState(e)
    BY <1>2, RequestGrows, HandlerGrows
  <1>3. ASSUME NEW r \in Requests, NEW th \in Actors(r), Inside(th) \/ Publish(th)
        PROVE  /\ Grows(e)
               /\ KeepsState(e) \/ (WriteState(th) /\ Inside(th) /\ call[th].ent = e
                                      /\ entry'[e].state = call[th].arg)
    <2>1. th \in Threads
      BY RequestThreads DEF Actors
    <2>2. WriteState(th) => Inside(th)
      BY <1>3, <2>1 DEF Publish, WriteState, WriteEntry, Broadcast
    <2> QED
      BY <1>3, <2>1, <2>2, CallGrows
  <1> QED
    BY <1>1, <1>2, <1>3, StepCases

-----------------------------------------------------------------------------
(* Who still has to finish a task.                                          *)

(* r will set its task's state, or is about to write a final one. *)
Owes(r) ==
    \/ Kind[r] \in {"send", "stream"}
       /\ pc[r] \in {"push", "check", "resume", "append", "subscribe", "work", "spawn"}
    \/ hpc[r] \notin {"none", "push", "deliver", "done", "died"}
    \/ /\ call[Handler(r)].at = "write_state"
       /\ call[Handler(r)].arg \in TerminalStates
       /\ call[Handler(r)].ent = registry[Target[r]]

(* Every open task has somebody who will finish it, unless the thread of one of its
   messages died. *)
OpenIsOwed ==
    \A t \in Tasks : Registered(t) /\ StateOf(t) \notin TerminalStates =>
        Dropped(t) \/ \E r \in Requests : Target[r] = t /\ Owes(r)

(* A handler that goes on after complete(), fail() or cancel() and returns later what
   they returned leaves its task ended, or with a message that has yet to end it:
   "Handler explicitly drove the task to a terminal state" (server.py:832). *)
SentinelMeansDone ==
    \A r \in Requests : ReturnDone(r) =>
        \/ StateOf(Target[r]) \in TerminalStates \/ Gone(Target[r])
        \/ \E h \in Requests \ {r} : Target[h] = Target[r] /\ Owes(h)

(* A request that owes its task an end still does, unless it wakes the handler that
   will finish the task. *)
LEMMA RequestOwes ==
  ASSUME ServerInv, NEW r \in Requests, Sending(r) \/ Answering(r) \/ Streaming(r), Owes(r), ~ResumeHandler(r)
  PROVE  Owes(r)'
  <1> USE DEF ServerInv
  <1>1. /\ PointsOK(r) /\ Kind[r] \in Kinds
        /\ call'[Handler(r)] = call[Handler(r)]
    BY RequestThreads, DistinctThreads, RequestCall, RequestsAssumption DEF ControlInv
  <1>2. CASE StartMessage(r)
    BY <1>1, <1>2 DEF StartMessage, Goto, PushOr, Owes, ServerType
  <1>3. CASE Spawn(r)
    BY <1>1, <1>3 DEF Spawn, Owes, ServerType
  <1>4. CASE ~StartMessage(r) /\ ~Spawn(r)
    <2>1. hpc' = hpc
      BY <1>4, RequestMoved
    <2>2. registry' = registry
      BY <1>4, RequestRegistry
    <2>3. Kind[r] \in {"send", "stream"}
             /\ pc[r] \in {"push", "check", "resume", "append", "subscribe", "work", "spawn"}
          => pc'[r] \in {"push", "check", "resume", "append", "subscribe", "work", "spawn"}
      <3> USE DEF ServerType, PointsOK, AfterSpawn, Kinds, Goto, ReadThen, CallThen, PushOr, AfterSubscribe, At
      <3>1. CASE Sending(r)
        BY <1>1, <1>4, <3>1 DEF Sending, SetPush, CheckInterrupted, ResumeNobody, AppendMessage, SetWorking
      <3>2. CASE Answering(r)
        BY <1>1, <3>2 DEF Answering, StartOther, Cancel, Settle, SettleDeadline, BeginResponse, Respond,
                  RespondGone, serverVars
      <3>3. CASE Streaming(r)
        BY <1>1, <3>3 DEF Streaming, BeginSnapshot, QueueSnapshot, SnapshotGone, SubscribeStream, Drain,
                  CheckFinished, Disconnect, Close, serverVars
      <3> QED
        BY <3>1, <3>2, <3>3
    <2> QED
      BY <1>1, <2>1, <2>2, <2>3 DEF Owes
  <1> QED
    BY <1>2, <1>3, <1>4

(* A thread that died stays so. *)
LEMMA DiedStays ==
  ASSUME ServerInv, [Next]_vars, NEW x \in Requests, hpc[x] = "died"
  PROVE  hpc'[x] = "died"
  <1> USE DEF ServerInv
  <1>1. ASSUME Sending(x) \/ Answering(x) \/ Streaming(x)
        PROVE  hpc'[x] = hpc[x]
    <2>1. ~Spawn(x)
      BY DEF ControlInv, PointsOK, AfterSpawn, Spawn, At
    <2> QED
      BY <1>1, <2>1, RequestMoved
  <1>2. ASSUME NEW th \in Actors(x), Inside(th) \/ Publish(th)
        PROVE  hpc'[x] = hpc[x]
    BY <1>2 DEF Inside, Publish, serverVars
  <1>3. ASSUME Running(x) \/ Finishing(x) \/ Asking(x)
        PROVE  FALSE
    BY <1>3 DEF Running, Reject, RunHandler, EmitArtifact, Update, Return, Raise, CheckReturn,
                CheckRaise, ReadPushConfig, DeliverPush, Die, ReturnDone, PushFails,
                Finishing, Complete, SetCompleted, Fail, CancelTask,
                Asking, Ask, SuspendHandler, SuspendRaises, Answered, AskRaises, ResumeWorking,
                AppendReply, Catch, Propagate, Move, HandlerAt
  <1> QED
    BY <1>1, <1>2, <1>3, StepCases, OthersStay, EnvironmentStays DEF StaysAt

(* A handler that owes its task an end still does, or found that it has one, unless
   its thread dies or it returns the sentinel. *)
LEMMA HandlerOwes ==
  ASSUME ServerInv, NEW r \in Requests, Running(r) \/ Finishing(r) \/ Asking(r), Owes(r),
         Registered(Target[r]), StateOf(Target[r]) \notin TerminalStates, ~Die(r), ~ReturnDone(r)
  PROVE  Owes(r)'
  <1> USE DEF ServerInv
  <1>1. Handler(r) \in Threads /\ pc' = pc /\ registry' = registry
    BY RequestThreads, HandlerMoved, HandlerOnTask
  <1>2. StillOpen(Target[r])
    <2>1. StateOf(Target[r]) \in TaskStates
      BY RequestThreads DEF StateOf, StoreTypeOK, EntryType, Registered
    <2> QED
      BY <2>1 DEF StillOpen, NoArg, TaskStates, TerminalStates, InterruptedStates
  <1>3. \/ hpc'[r] \notin {"none", "push", "deliver", "done", "died"}
        \/ /\ hpc[r] \in {"push", "deliver"} /\ hpc'[r] \in {"push", "deliver", "done"}
           /\ call[Handler(r)].at = "idle"
        \/ /\ call'[Handler(r)].at = "write_state" /\ call'[Handler(r)].arg \in TerminalStates
           /\ call'[Handler(r)].ent = registry[Target[r]]
    <2> USE DEF ServerType, HandlerGoto, HandlerReadThen, HandlerCallThen, HandlerAt, Idle,
                HandlerFinishes, Move, CountMove
    <2>1. CASE Running(r) /\ ~Reject(r)
      BY <1>1, <1>2, <2>1 DEF Running, RunHandler, EmitArtifact, Update, Return, Raise, CheckReturn,
                CheckRaise, ReadPushConfig, DeliverPush, Die, ReturnDone, PushFails
    <2>2. CASE Asking(r)
      BY <1>1, <2>2 DEF Asking, Ask, SuspendHandler, SuspendRaises, Answered, AskRaises, ResumeWorking,
                AppendReply, Catch, Propagate
    <2>3. CASE Complete(r)
      BY <1>1, <2>3 DEF Complete
    <2>4. CASE Reject(r) \/ SetCompleted(r) \/ Fail(r) \/ CancelTask(r)
      <3>1. \E state \in {"rejected", "completed", "failed", "canceled"} :
              CallSetState(Handler(r), Target[r], state)
        BY <2>4 DEF Reject, SetCompleted, Fail, CancelTask
      <3> QED
        BY <1>1, <3>1 DEF CallSetState, Lookup, Calling, StoreTypeOK, TerminalStates
    <2> QED
      BY <2>1, <2>2, <2>3, <2>4 DEF Finishing
  <1>4. CASE hpc'[r] \notin {"none", "push", "deliver", "done", "died"}
    BY <1>4 DEF Owes
  <1>5. CASE /\ hpc[r] \in {"push", "deliver"} /\ call[Handler(r)].at = "idle"
    BY <1>1, <1>5 DEF Owes
  <1>6. CASE /\ call'[Handler(r)].at = "write_state" /\ call'[Handler(r)].arg \in TerminalStates
             /\ call'[Handler(r)].ent = registry[Target[r]]
    BY <1>1, <1>6 DEF Owes
  <1> QED
    BY <1>3, <1>4, <1>5, <1>6

(* A call under way ends a request's debt only by the write that pays it. *)
LEMMA CallOwes ==
  ASSUME ServerInv, NEW r \in Requests, NEW th \in Actors(r), Inside(th) \/ Publish(th), Owes(r),
         Registered(Target[r]), StateOf(Target[r])' \notin TerminalStates, UNCHANGED registry
  PROVE  Owes(r)'
  <1> USE DEF ServerInv
  <1>1. /\ {Request(r), Handler(r)} \subseteq Threads /\ Request(r) # Handler(r)
        /\ th \in Threads /\ Target[r] \in Tasks
        /\ UNCHANGED <<pc, hpc>>
    BY RequestThreads, DistinctThreads DEF Actors, Inside, Publish, serverVars
  <1>2. \A x \in Threads \ {th} : call'[x] = call[x]
    BY <1>1, InStoreCall
  <1>3. CASE call'[Handler(r)] = call[Handler(r)]
    BY <1>1, <1>3 DEF Owes
  <1>4. CASE th = Handler(r) /\ call[th].at = "write_state" /\ call[th].arg \in TerminalStates
             /\ call[th].ent = registry[Target[r]]
    <2>1. WriteState(th)
      BY <1>4 DEF Inside, Publish, Broadcast, WriteState, WriteMessage, WriteArtifact, WritePush, WriteEntry,
                  Wake, TimeOut, TestSlot, Resolve
    <2>2. registry[Target[r]] \in Entries
      BY <1>1 DEF StoreTypeOK, Registered
    <2>3. entry'[registry[Target[r]]].state = call[th].arg
      BY <1>1, <1>4, <2>1, <2>2 DEF WriteState, WriteEntry, WithState, StoreTypeOK, EntryType
    <2> QED
      BY <1>4, <2>2, <2>3 DEF StateOf, Registered
  <1>5. CASE th = Handler(r) /\ ~(/\ call[th].at = "write_state" /\ call[th].arg \in TerminalStates
                                  /\ call[th].ent = registry[Target[r]])
    BY <1>1, <1>5 DEF Owes
  <1> QED
    BY <1>1, <1>2, <1>3, <1>4, <1>5 DEF Actors

(* The handler a message is given to will finish the task. *)
LEMMA ResumeOwes ==
  ASSUME ServerInv, OwnEntries, NEW r \in Requests, ResumeHandler(r)
  PROVE  \E h \in Requests : Target[h] = Target[r] /\ Owes(h)'
  <1> USE DEF ServerInv
  <1>1. /\ Registered(Target[r]) /\ entry[registry[Target[r]]].slot # Null
        /\ registry[Target[r]] \in Entries /\ Target[r] \in Tasks
        /\ UNCHANGED hpc
    BY RequestThreads DEF ResumeHandler, CallResume, Suspended, Registered, StoreTypeOK, CallThen
  <1>2. PICK th \in Threads : InSuspend(th) /\ call[th].ent = registry[Target[r]]
    BY <1>1 DEF SlotInv, SlotOwned
  <1>3. PICK h \in Requests : th = Handler(h)
    BY <1>2, StoreUseAssumption DEF ControlInv, RequestCallOK, InSuspend, Request, Handler
  <1>4. hpc[h] = "suspended" /\ Target[h] = Target[r]
    BY <1>1, <1>2, <1>3 DEF ControlInv, HandlerCallOK, InSuspend, OwnEntries, Actors, Idle
  <1> QED
    BY <1>1, <1>4 DEF Owes

(* OpenIsOwed is inductive, given whose the entries are. *)
LEMMA OpenIsOwedStep ==
  ASSUME ServerInv, OwnEntries, OpenIsOwed, SentinelMeansDone, [Next]_vars
  PROVE  OpenIsOwed'
  <1> SUFFICES ASSUME NEW t \in Tasks, Registered(t)', StateOf(t)' \notin TerminalStates,
                      ~Dropped(t)'
               PROVE  \E r \in Requests : Target[r] = t /\ Owes(r)'
    BY DEF OpenIsOwed
  <1> USE DEF ServerInv
  <1>1. CASE registry'[t] # registry[t]
    <2>1. PICK r \in Requests : StartMessage(r) /\ Target[r] = t
      BY <1>1, RegistryChanges, RequestThreads DEF StoreTypeOK, Registered
    <2> QED
      BY <2>1 DEF StartMessage, Goto, PushOr, Owes, ServerType
  <1>2. CASE registry'[t] = registry[t] /\ StateOf(t) \in TerminalStates
    <2>1. Registered(t) /\ registry[t] \in Entries /\ ~KeepsState(registry[t])
      BY <1>2 DEF Registered, StateOf, KeepsState, StoreTypeOK
    <2>2. PICK r \in Requests : \E th \in Actors(r) :
            WriteState(th) /\ Inside(th) /\ call[th].ent = registry[t] /\ entry'[registry[t]].state = call[th].arg
      BY <2>1, EntryChanges
    <2>3. PICK th \in Actors(r) :
            WriteState(th) /\ Inside(th) /\ call[th].ent = registry[t] /\ entry'[registry[t]].state = call[th].arg
      BY <2>2
    <2>4. Target[r] = t /\ call[th].at = "write_state" /\ call[th].arg \notin TerminalStates
      BY <1>2, <2>1, <2>3 DEF OwnEntries, WriteState, WriteEntry, Idle, StateOf, Registered
    <2>5. UNCHANGED <<pc, hpc>>
      BY <2>3 DEF Inside, serverVars
    <2>6. CASE th = Request(r)
      BY <2>4, <2>5, <2>6 DEF ControlInv, RequestCallOK, PointsOK, TerminalStates, Owes
    <2>7. CASE th = Handler(r)
      BY <2>4, <2>5, <2>7 DEF ControlInv, HandlerCallOK, TerminalStates, Owes
    <2> QED
      BY <2>6, <2>7 DEF Actors
  <1>3. CASE registry'[t] = registry[t] /\ StateOf(t) \notin TerminalStates
    <2>1. Registered(t)
      BY <1>3 DEF Registered
    <2> DEFINE Others(x) == \E h \in Requests \ {x} : Target[h] = t /\ Owes(h)
    <2>2. PICK r \in Requests : Target[r] = t /\ Owes(r) /\ (ReturnDone(r) => Others(r))
      <3>1. ~Dropped(t)
        BY DiedStays DEF Dropped
      <3>2. PICK r \in Requests : Target[r] = t /\ Owes(r)
        BY <1>3, <2>1, <3>1 DEF OpenIsOwed
      <3>3. ReturnDone(r) => Others(r)
        BY <1>3, <2>1, <3>2 DEF SentinelMeansDone, Gone
      <3> QED
        BY <3>2, <3>3
    <2>3. ASSUME NEW h \in Requests, StaysAt(h), Owes(h), Target[h] = t PROVE Owes(h)'
      BY <1>3, <2>3 DEF StaysAt, Owes
    <2>4. CASE Sending(r) \/ Answering(r) \/ Streaming(r)
      BY <2>2, <2>4, RequestOwes, ResumeOwes
    <2>5. CASE Running(r) \/ Finishing(r) \/ Asking(r)
      <3>1. ~Die(r)
        BY <2>2 DEF Die, HandlerCallThen, HandlerGoto, Dropped, ServerType
      <3>2. CASE ReturnDone(r)
        <4>1. PICK h \in Requests \ {r} : Target[h] = t /\ Owes(h)
          BY <2>2, <3>2
        <4> QED
          BY <2>3, <2>5, <4>1, OthersStay
      <3> QED
        BY <1>3, <2>1, <2>2, <2>5, <3>1, <3>2, HandlerOwes
    <2>6. ASSUME NEW th \in Actors(r), Inside(th) \/ Publish(th)
          PROVE  Owes(r)'
      BY <2>1, <2>2, <2>6, CallOwes, CallOnTask
    <2> QED
      BY <2>2, <2>3, <2>4, <2>5, <2>6, StepCases, OthersStay, EnvironmentStays
  <1> QED
    BY <1>1, <1>2, <1>3

(* There is no task at first. *)
LEMMA OwedInit == Init => OwnEntries /\ OpenIsOwed
  BY RequestThreads
     DEF Init, StoreInit, OwnEntries, OpenIsOwed, Registered, Actors, Idle, NoCall, Null

(* Whose the entries are, in every behaviour. *)
LEMMA OwnEntriesCorrect == Spec => [](ServerInv /\ HandoverInv /\ OwnEntries)
  BY HandoverCorrect, OwnEntriesStep, OwedInit, PTL DEF Spec

(* Open tasks are owed an outcome, where the sentinel means what it says. *)
LEMMA OwedCorrect ==
  Spec /\ [][SentinelMeansDone]_vars => []OpenIsOwed
  <1>1. ServerInv /\ [SentinelMeansDone]_vars => SentinelMeansDone
    <2> SUFFICES ASSUME ServerInv, UNCHANGED vars, NEW r \in Requests, ReturnDone(r) PROVE FALSE
      BY DEF SentinelMeansDone
    <2>1. hpc' = hpc /\ hpc[r] = "run" /\ hpc' = [hpc EXCEPT ![r] = "push"]
      BY DEF vars, serverVars, ReturnDone, Move, HandlerAt, HandlerCallThen, HandlerGoto
    <2> QED
      BY <2>1 DEF ServerInv, ServerType
  <1> QED
    BY <1>1, HandoverCorrect, OwnEntriesCorrect, OpenIsOwedStep, OwedInit, PTL DEF Spec

(* Nobody is left holding a task open, whether or not suspensions time out, are aborted
   by shutdown or lose their task to the sweeper: once every request is answered and every
   handler has returned, each task is in a terminal state.  There are two ways around it,
   and only two: the thread of a message dies where _dispatch converts the message, and a
   handler returns the sentinel after it has opened its task again. *)
THEOREM TasksNotStranded == Spec /\ [][SentinelMeansDone]_vars => []NoStrandedTask
  <1>1. OpenIsOwed => NoStrandedTask
    BY DEF OpenIsOwed, NoStrandedTask, AllDone, RequestDone, HandlerDone, Owes, Idle
  <1> QED
    BY <1>1, OwedCorrect, PTL

-----------------------------------------------------------------------------
(* Streams.                                                                 *)

(* What is on a stream's queue stays there. *)
LEMMA FeedKeeps ==
  ASSUME ServerInv, [Next]_vars, NEW x \in Requests
  PROVE  /\ DOMAIN feed[x] \subseteq DOMAIN feed'[x]
         /\ \A i \in DOMAIN feed[x] : feed'[x][i] = feed[x][i]
  <1> USE DEF ServerInv
  <1>1. feed[x] \in Seq(Events) /\ feed \in [Requests -> Seq(Events)]
    BY DEF ServerType
  <1>2. CASE feed'[x] = feed[x]
    BY <1>2
  <1>3. ASSUME NEW ev \in Events, feed'[x] = Append(feed[x], ev)
        PROVE  /\ DOMAIN feed[x] \subseteq DOMAIN feed'[x]
               /\ \A i \in DOMAIN feed[x] : feed'[x][i] = feed[x][i]
    BY <1>1, <1>3, FeedGrows
  <1>4. ASSUME NEW r \in Requests, QueueSnapshot(r)
        PROVE  \E ev \in Events : feed'[x] \in {feed[x], Append(feed[x], ev)}
    <2>1. TaskEvent(Snapshot(Request(r))) \in Events
      BY <1>4, SnapshotType, RequestThreads DEF QueueSnapshot, GetEnd, TaskEvent, Events, TaskType
    <2> HIDE DEF TaskEvent
    <2> QED
      BY <1>1, <1>4, <2>1 DEF QueueSnapshot
  <1>5. ASSUME NEW r \in Requests, NEW th \in Actors(r), Publish(th)
        PROVE  \E ev \in Events : feed'[x] \in {feed[x], Append(feed[x], ev)}
    <2>1. EventOf(call[th]) \in Events
      BY <1>5, EventType, RequestThreads DEF Publish, Actors
    <2> HIDE DEF EventOf
    <2> QED
      BY <1>1, <1>5, <2>1 DEF Publish
  <1>6. CASE UNCHANGED feed
    BY <1>6
  <1>7. ASSUME NEW r \in Requests, Sending(r) \/ Answering(r) \/ Streaming(r), ~QueueSnapshot(r)
        PROVE  UNCHANGED feed
    BY <1>7 DEF Sending, StartMessage, SetPush, CheckInterrupted, ResumeHandler, ResumeNobody,
                AppendMessage, SetWorking, Spawn, Answering, StartOther, Cancel, Settle, SettleDeadline,
                BeginResponse, Respond, RespondGone, Streaming, BeginSnapshot, SnapshotGone,
                SubscribeStream, Drain, CheckFinished, Disconnect, Close, ReadThen, CallThen, progress,
                serverVars
  <1>8. ASSUME NEW r \in Requests, Running(r) \/ Finishing(r) \/ Asking(r)
        PROVE  UNCHANGED feed
    BY <1>8, HandlerKeeps
  <1>9. EnvironmentStep \/ UNCHANGED vars \/ (\E th \in Threads : Inside(th)) => UNCHANGED feed
    BY DEF EnvironmentStep, Inside, vars, serverVars
  <1> QED
    BY <1>2, <1>3, <1>4, <1>5, <1>6, <1>7, <1>8, <1>9, StepCases, RequestThreads DEF Actors

(* What a generator has yielded stays yielded, and it closes when it has yielded
   everything there is and a final event was among it. *)
LEMMA SentKeeps ==
  ASSUME ServerInv, [Next]_vars, NEW x \in Requests
  PROVE  /\ \/ sent'[x] = sent[x]
            \/ pc'[x] = "yielded"
         /\ pc'[x] = "closing" =>
               \/ pc[x] = "closing" /\ sent'[x] = sent[x]
               \/ CheckFinished(x) /\ StreamEnds(x) /\ sent'[x] = sent[x]
  <1> USE DEF ServerInv, ServerType
  <1>1. CASE StaysAt(x) /\ sent'[x] = sent[x]
    BY <1>1 DEF StaysAt
  <1>2. ASSUME NEW r \in Requests, Sending(r) \/ Answering(r) \/ Streaming(r), ~Drain(r)
        PROVE  sent' = sent
    BY <1>2 DEF Sending, StartMessage, SetPush, CheckInterrupted, ResumeHandler, ResumeNobody,
                AppendMessage, SetWorking, Spawn, Answering, StartOther, Cancel, Settle, SettleDeadline,
                BeginResponse, Respond, RespondGone, Streaming, BeginSnapshot, QueueSnapshot, SnapshotGone,
                SubscribeStream, CheckFinished, Disconnect, Close, ReadThen, CallThen, progress,
                serverVars
  <1>3. ASSUME NEW r \in Requests, Drain(r)
        PROVE  pc'[r] = "yielded" /\ \A y \in Requests \ {r} : sent'[y] = sent[y]
    BY <1>3 DEF Drain, Goto
  <1>4. ASSUME NEW r \in Requests, \/ Running(r) \/ Finishing(r) \/ Asking(r)
                                  \/ \E th \in Actors(r) : Inside(th) \/ Publish(th)
        PROVE  sent' = sent /\ pc' = pc
    BY <1>4, HandlerKeeps DEF Inside, Publish, serverVars
  <1>5. EnvironmentStep \/ UNCHANGED vars => sent' = sent /\ pc' = pc
    BY DEF EnvironmentStep, vars, serverVars
  <1>6. ASSUME Sending(x) \/ Answering(x) \/ Streaming(x), ~Drain(x), pc'[x] = "closing"
        PROVE  \/ pc[x] = "closing" /\ sent'[x] = sent[x]
               \/ CheckFinished(x) /\ StreamEnds(x) /\ sent'[x] = sent[x]
    <2>1. sent' = sent
      BY <1>2, <1>6
    <2> USE DEF Goto, ReadThen, CallThen, PushOr, AfterSubscribe, serverVars
    <2>2. CASE Sending(x)
      BY <1>6, <2>2 DEF Sending, StartMessage, SetPush, CheckInterrupted, ResumeHandler, ResumeNobody,
                  AppendMessage, SetWorking, Spawn
    <2>3. CASE StartOther(x)
      <3>1. pc'[x] \in {"done", "final", "cancel", "snapshot", "push"}
        BY <2>3, RequestsAssumption DEF StartOther, Kinds
      <3> QED
        BY <1>6, <3>1
    <2>4. CASE Answering(x) /\ ~StartOther(x)
      BY <1>6, <2>1, <2>4 DEF Answering, Cancel, Settle, SettleDeadline, BeginResponse, Respond, RespondGone
    <2>5. CASE CheckFinished(x)
      BY <1>6, <2>1, <2>5 DEF CheckFinished
    <2>6. CASE Streaming(x) /\ ~CheckFinished(x)
      BY <1>6, <2>1, <2>6 DEF Streaming, BeginSnapshot, QueueSnapshot, SnapshotGone, SubscribeStream,
                  Disconnect, Close
    <2> QED
      BY <1>6, <2>2, <2>3, <2>4, <2>5, <2>6
  <1>7. ASSUME NEW r \in Requests, Sending(r) \/ Answering(r) \/ Streaming(r), x # r
        PROVE  StaysAt(x) /\ sent'[x] = sent[x]
    BY <1>2, <1>3, <1>7, OthersStay
  <1>8. ASSUME Sending(x) \/ Answering(x) \/ Streaming(x)
        PROVE  /\ sent'[x] = sent[x] \/ pc'[x] = "yielded"
               /\ pc'[x] = "closing" =>
                     \/ pc[x] = "closing" /\ sent'[x] = sent[x]
                     \/ CheckFinished(x) /\ StreamEnds(x) /\ sent'[x] = sent[x]
    BY <1>2, <1>3, <1>6, <1>8
  <1> QED
    BY <1>1, <1>4, <1>5, <1>7, <1>8, StepCases

(* A stream that closes by itself has yielded every event up to a final one, whatever
   was put on its queue while it was read: no final event is on the queue unread when
   the generator returns. *)
THEOREM StreamsEndWithFinal == Spec => []StreamEndsWithFinal
  <1>1. Init => StreamEndsWithFinal
    BY DEF Init, StreamEndsWithFinal
  <1>2. ServerInv /\ StreamEndsWithFinal /\ [Next]_vars => StreamEndsWithFinal'
    <2> SUFFICES ASSUME ServerInv, StreamEndsWithFinal, [Next]_vars, NEW r \in Requests,
                        pc'[r] = "closing"
                 PROVE  \E i \in 1 .. sent'[r] : feed'[r][i].state \in TerminalStates
      BY DEF StreamEndsWithFinal
    <2>1. /\ feed[r] \in Seq(Events) /\ sent[r] \in Nat /\ sent[r] <= Len(feed[r])
          /\ DOMAIN feed[r] = 1 .. Len(feed[r]) /\ Len(feed[r]) \in Nat
      BY DEF ServerInv, ServerType
    <2>2. CASE pc[r] = "closing" /\ sent'[r] = sent[r]
      <3>1. PICK i \in 1 .. sent[r] : feed[r][i].state \in TerminalStates
        BY <2>2 DEF StreamEndsWithFinal
      <3>2. i \in DOMAIN feed[r]
        BY <2>1, <3>1
      <3> QED
        BY <2>2, <3>1, <3>2, FeedKeeps
    <2>3. CASE CheckFinished(r) /\ StreamEnds(r) /\ sent'[r] = sent[r]
      <3>1. PICK i \in DOMAIN feed[r] : feed[r][i].state \in TerminalStates
        BY <2>3 DEF StreamEnds, Finished
      <3>2. i \in 1 .. sent[r]
        BY <2>1, <2>3, <3>1 DEF StreamEnds
      <3> QED
        BY <2>3, <3>1, <3>2, FeedKeeps
    <2> QED
      BY <2>2, <2>3, SentKeeps
  <1> QED
    BY <1>1, <1>2, ServerCorrect, PTL DEF Spec

-----------------------------------------------------------------------------
(* Where no task is retired that a message is at work on.                   *)

IsMessage(r) == Kind[r] \in {"send", "stream"}

(* The message r has arrived, and its request or its handler has not come to its end. *)
InUse(r) == IsMessage(r) /\ pc[r] # "start" /\ ~(RequestDone(r) /\ HandlerDone(r))

(* The sweeper leaves the tasks of such messages alone. *)
RetiresIdleTasksOnly ==
    \A r \in Requests : InUse(r) /\ Registered(Target[r]) => Registered(Target[r])'

(* A message works on the entry it found or made, which is the one registered for its
   task as long as it works. *)
SameEntry ==
    \A r \in Requests : IsMessage(r) =>
        /\ live[r] \in Entries <=> pc[r] # "start"
        /\ InUse(r) => registry[Target[r]] = live[r]
        /\ \A th \in Actors(r) : ~Idle(th) => call[th].ent = live[r]

(* The task of a message at work stays registered, under the same entry. *)
LEMMA RegistryKept ==
  ASSUME RetiresIdleTasksOnly, ServerInv, SameEntry, [Next]_vars, NEW r \in Requests, InUse(r)
  PROVE  /\ Target[r] \in Tasks /\ live[r] \in Entries /\ Registered(Target[r])
         /\ registry[Target[r]] = live[r] /\ registry'[Target[r]] = live[r]
  <1> USE DEF ServerInv
  <1>1. /\ Target[r] \in Tasks /\ live[r] \in Entries /\ Registered(Target[r])
        /\ registry[Target[r]] = live[r]
    BY RequestThreads, BoundsAssumption DEF SameEntry, InUse, Registered, Entries, Null
  <1>2. registry'[Target[r]] = registry[Target[r]]
    BY <1>1, RegistryChanges DEF StoreTypeOK, Registered, RetiresIdleTasksOnly
  <1> QED
    BY <1>1, <1>2

(* A request keeps the entry it was given, and only StartMessage gives it one. *)
LEMMA LiveKept ==
  ASSUME ServerInv, [Next]_vars, NEW x \in Requests
  PROVE  /\ live'[x] = live[x] \/ StartMessage(x)
         /\ pc[x] # "start" => live'[x] = live[x]
  <1> USE DEF ServerInv, ServerType
  <1>1. ASSUME NEW r \in Requests, Sending(r) \/ Answering(r) \/ Streaming(r), ~StartMessage(r)
        PROVE  live' = live
    BY <1>1, RequestKeeps
  <1>2. ASSUME NEW r \in Requests, StartMessage(r)
        PROVE  pc[r] = "start" /\ \A y \in Requests \ {r} : live'[y] = live[y]
    BY <1>2 DEF StartMessage, At
  <1>3. ASSUME NEW r \in Requests, \/ Running(r) \/ Finishing(r) \/ Asking(r)
                                  \/ \E th \in Actors(r) : Inside(th) \/ Publish(th)
        PROVE  live' = live
    BY <1>3, HandlerKeeps DEF Inside, Publish, serverVars
  <1>4. EnvironmentStep \/ UNCHANGED vars => live' = live
    BY DEF EnvironmentStep, vars, serverVars
  <1> QED
    BY <1>1, <1>2, <1>3, <1>4, StepCases

(* A message leaves its start by StartMessage. *)
LEMMA OnlyByStart ==
  ASSUME ServerInv, [Next]_vars, NEW x \in Requests, IsMessage(x), pc[x] = "start", pc'[x] # "start"
  PROVE  StartMessage(x)
  <1> USE DEF ServerInv
  <1>1. ASSUME Sending(x) \/ Answering(x) \/ Streaming(x)
        PROVE  StartMessage(x)
    BY <1>1 DEF Sending, SetPush, CheckInterrupted, ResumeHandler, ResumeNobody,
                AppendMessage, SetWorking, Spawn, Answering, StartOther, Cancel, Settle, SettleDeadline,
                BeginResponse, Respond, RespondGone, Streaming, BeginSnapshot, QueueSnapshot, SnapshotGone,
                SubscribeStream, Drain, CheckFinished, Disconnect, Close, At, IsMessage
  <1>2. ASSUME \/ Running(x) \/ Finishing(x) \/ Asking(x)
               \/ \E th \in Actors(x) : Inside(th) \/ Publish(th)
        PROVE  pc' = pc
    BY <1>2, HandlerKeeps DEF Inside, Publish, serverVars
  <1> QED
    BY <1>1, <1>2, StepCases, OthersStay, EnvironmentStays DEF StaysAt

(* Nobody starts again. *)
LEMMA StaysStarted ==
  ASSUME ServerInv, [Next]_vars, NEW x \in Requests, pc[x] # "start"
  PROVE  pc'[x] # "start"
  <1> USE DEF ServerInv, ServerType, Goto, ReadThen, CallThen, PushOr, AfterSubscribe, serverVars
  <1>1. CASE Sending(x)
    BY <1>1 DEF Sending, StartMessage, SetPush, CheckInterrupted, ResumeHandler, ResumeNobody,
                AppendMessage, SetWorking, Spawn, At
  <1>2. CASE Answering(x)
    <2>1. ~StartOther(x)
      BY DEF StartOther, At
    <2> QED
      BY <1>2, <2>1 DEF Answering, Cancel, Settle, SettleDeadline, BeginResponse, Respond, RespondGone
  <1>3. CASE Streaming(x)
    BY <1>3 DEF Streaming, BeginSnapshot, QueueSnapshot, SnapshotGone, SubscribeStream, Drain,
                CheckFinished, Disconnect, Close
  <1>4. ASSUME \/ Running(x) \/ Finishing(x) \/ Asking(x)
               \/ \E th \in Actors(x) : Inside(th) \/ Publish(th)
        PROVE  pc' = pc
    BY <1>4, HandlerMoved DEF Inside, Publish
  <1> QED
    BY <1>1, <1>2, <1>3, <1>4, StepCases, OthersStay, EnvironmentStays DEF StaysAt

(* A message that has come to its end makes no further step. *)
LEMMA EndedStays ==
  ASSUME ServerInv, [Next]_vars, NEW x \in Requests, RequestDone(x), HandlerDone(x)
  PROVE  StaysAt(x)
  <1> USE DEF ServerInv, RequestDone, HandlerDone, Idle
  <1>1. ASSUME Sending(x) \/ Answering(x) \/ Streaming(x) PROVE FALSE
    BY <1>1 DEF Sending, StartMessage, SetPush, CheckInterrupted, ResumeHandler, ResumeNobody,
                AppendMessage, SetWorking, Spawn, Answering, StartOther, Cancel, Settle, SettleDeadline,
                BeginResponse, Respond, RespondGone, Streaming, BeginSnapshot, QueueSnapshot, SnapshotGone,
                SubscribeStream, Drain, CheckFinished, Disconnect, Close, At
  <1>2. ASSUME Running(x) \/ Finishing(x) \/ Asking(x) PROVE FALSE
    BY <1>2 DEF Running, Reject, RunHandler, EmitArtifact, Update, Return, Raise, CheckReturn,
                CheckRaise, ReadPushConfig, DeliverPush, Die, ReturnDone, PushFails, Finishing, Complete, SetCompleted, Fail, CancelTask,
                Asking, Ask, SuspendHandler, SuspendRaises, Answered, AskRaises, ResumeWorking,
                AppendReply, Catch, Propagate, Move, HandlerAt
  <1>3. ASSUME NEW th \in Actors(x), Inside(th) \/ Publish(th) PROVE FALSE
    BY <1>3, InStoreMoves, RequestThreads DEF Actors
  <1> QED
    BY <1>1, <1>2, <1>3, StepCases, OthersStay, EnvironmentStays

(* A message at work was so before, or has just arrived. *)
LEMMA UseBegins ==
  ASSUME ServerInv, [Next]_vars, NEW x \in Requests, InUse(x)'
  PROVE  InUse(x) \/ StartMessage(x)
  <1>1. IsMessage(x) /\ pc'[x] # "start"
    BY DEF InUse, IsMessage
  <1>2. CASE RequestDone(x) /\ HandlerDone(x)
    BY <1>2, EndedStays DEF StaysAt, InUse, RequestDone, HandlerDone, Idle
  <1> QED
    BY <1>1, <1>2, OnlyByStart DEF InUse

(* A message is at work as long as it or its handler is anywhere but at its end. *)
LEMMA AtWork ==
  ASSUME ServerInv, NEW r \in Requests
  PROVE  /\ IsMessage(r) /\ pc[r] \notin {"start", "done"} => InUse(r)
         /\ hpc[r] # "none" => IsMessage(r) /\ pc[r] # "start"
         /\ hpc[r] \notin {"none", "done", "died"} => InUse(r)
         /\ IsMessage(r) /\ ~Idle(Request(r)) => pc[r] # "start" /\ InUse(r)
         /\ ~Idle(Handler(r)) => InUse(r)
  BY DEF ServerInv, ControlInv, PointsOK, AfterSpawn, RequestCallOK, HandlerCallOK,
         InUse, IsMessage, RequestDone, HandlerDone, Idle

(* SameEntry is inductive where only idle tasks are retired. *)
LEMMA SameEntryStep ==
  ASSUME RetiresIdleTasksOnly, ServerInv, ServerInv', SameEntry, [Next]_vars
  PROVE  SameEntry'
  <1> SUFFICES ASSUME NEW x \in Requests, IsMessage(x)
               PROVE  /\ live'[x] \in Entries <=> pc'[x] # "start"
                      /\ InUse(x)' => registry'[Target[x]] = live'[x]
                      /\ \A th \in Actors(x) : call'[th].at # "idle" => call'[th].ent = live'[x]
    BY DEF SameEntry, IsMessage, Idle
  <1>1. ASSUME StartMessage(x) PROVE live'[x] \in Entries /\ registry'[Target[x]] = live'[x]
    BY <1>1, RequestThreads, BoundsAssumption
       DEF StartMessage, GetOrCreate, Registered, StoreTypeOK, ServerType, ServerInv, Entries, Null
  <1>2. live'[x] \in Entries <=> pc'[x] # "start"
    <2>1. pc'[x] = "start" => ~StartMessage(x)
      BY DEF StartMessage, Goto, PushOr, ServerInv, ServerType
    <2> QED
      BY <1>1, <2>1, LiveKept, OnlyByStart, StaysStarted DEF SameEntry
  <1>3. InUse(x)' => registry'[Target[x]] = live'[x]
    BY <1>1, UseBegins, RegistryKept, LiveKept DEF InUse
  <1>4. ASSUME NEW th \in Actors(x), call'[th].at # "idle" PROVE call'[th].ent = live'[x]
    <2>1. CASE ~Idle(th) /\ call'[th].ent = call[th].ent
      <3>1. InUse(x) /\ call[th].ent = live[x]
        BY <2>1, AtWork DEF Actors, SameEntry
      <3> QED
        BY <2>1, <3>1, LiveKept DEF InUse
    <2>2. CASE registry' = registry /\ call'[th].ent = registry[Target[x]]
      <3>1. InUse(x)'
        BY <1>4 DEF Actors, ServerInv, ControlInv, PointsOK, AfterSpawn, RequestCallOK, HandlerCallOK,
                    InUse, IsMessage, RequestDone, HandlerDone, Idle
      <3> QED
        BY <1>3, <2>2, <3>1
    <2> QED
      BY <1>4, <2>1, <2>2, OnTask DEF StaysOnTask, ServerInv
  <1> QED
    BY <1>2, <1>3, <1>4

-----------------------------------------------------------------------------
(* Whose message a handler is woken with.                                   *)

(* The handler a message is carried to, or in whose slot it is, works on the message's
   entry. *)
AnswersOwnEntry ==
    \A r, h \in Requests :
        /\ InSuspend(Handler(h))
        /\ \/ Resolving(Request(r)) /\ call[Request(r)].slot = call[Handler(h)].slot
           \/ slot[call[Handler(h)].slot] = r
        => live[h] = live[r]

(* x carries no message it did not carry, and sleeps on no slot it did not. *)
NoNewHandover(x) ==
    /\ Resolving(Request(x))' => Resolving(Request(x)) /\ call'[Request(x)].slot = call[Request(x)].slot
    /\ InSuspend(Handler(x))' => InSuspend(Handler(x)) /\ call'[Handler(x)].slot = call[Handler(x)].slot

(* Only a resume and a suspension begin to hand anything over. *)
LEMMA NoNewHandovers ==
  ASSUME ServerInv, NEW r \in Requests, NEW x \in Requests,
         \/ (Sending(r) \/ Answering(r) \/ Streaming(r)) /\ ~ResumeHandler(r)
         \/ (Running(r) \/ Finishing(r) \/ Asking(r)) /\ ~SuspendHandler(r)
         \/ \E th \in Actors(r) : Inside(th) \/ Publish(th)
  PROVE  NoNewHandover(x)
  <1> USE DEF ServerInv
  <1>1. CASE x # r
    BY <1>1, OthersStay DEF StaysAt, NoNewHandover, Resolving, InSuspend
  <1>2. CASE (Sending(r) \/ Answering(r) \/ Streaming(r)) /\ ~ResumeHandler(r)
    <2>1. PassesBy(r) /\ call'[Handler(r)] = call[Handler(r)]
      BY <1>2, RequestPassesBy, RequestCall, RequestThreads, DistinctThreads
    <2>2. ~Resolving(Request(r))
      BY <1>2, RequestAt DEF Resolving
    <2>3. NoNewHandover(r)
      BY <2>1, <2>2 DEF PassesBy, NoNewHandover, InSuspend
    <2> QED
      BY <1>1, <2>3
  <1>3. CASE (Running(r) \/ Finishing(r) \/ Asking(r)) /\ ~SuspendHandler(r)
    <2>1. call'[Request(r)] = call[Request(r)]
      BY <1>3, HandlerCall, RequestThreads, DistinctThreads
    <2>2. CASE RunHandler(r)
      BY <2>1, <2>2 DEF RunHandler, storeVars, NoNewHandover, Resolving, InSuspend
    <2>3. CASE Answered(r)
      BY <2>1, <2>3, RequestThreads DEF Answered, Finally, StoreTypeOK, NoCall, NoNewHandover, Resolving, InSuspend
    <2>4. CASE ~RunHandler(r) /\ ~Answered(r)
      <3>1. PassesBy(r)
        BY <1>3, <2>4, HandlerPassesBy
      <3>2. InSuspend(Handler(r))' => call'[Handler(r)] = call[Handler(r)]
        BY <3>1 DEF PassesBy
      <3>3. NoNewHandover(r)
        BY <2>1, <3>2 DEF NoNewHandover, Resolving, InSuspend
      <3> QED
        BY <1>1, <3>3
    <2> QED
      BY <1>1, <2>2, <2>3, <2>4
  <1>4. ASSUME NEW th \in Actors(r), Inside(th) \/ Publish(th) PROVE NoNewHandover(r)
    <2>1. {Request(r), Handler(r)} \subseteq Threads /\ Request(r) # Handler(r) /\ th \in Threads
      BY RequestThreads, DistinctThreads DEF Actors
    <2>2. \A y \in Threads \ {th} : call'[y] = call[y]
      BY <1>4, <2>1, InStoreCall
    <2>3. /\ Resolving(th)' => Resolving(th) /\ call'[th].slot = call[th].slot
          /\ InSuspend(th)' => InSuspend(th) /\ call'[th].slot = call[th].slot
      BY <1>4, <2>1, InStoreMoves DEF Resolving, InSuspend, NoCall
    <2> QED
      BY <2>1, <2>2, <2>3 DEF NoNewHandover, Resolving, InSuspend, Actors
  <1> QED
    BY <1>1, <1>2, <1>3, <1>4

(* What is handed over is a message at work, to a handler at work. *)
LEMMA UnderWay ==
  ASSUME ServerInv, HandoverInv, NEW r \in Requests
  PROVE  /\ InSuspend(Handler(r)) => IsMessage(r) /\ pc[r] # "start" /\ InUse(r)
         /\ Resolving(Request(r)) => pc[r] # "start"
         /\ \A s \in Slots : slot[s] = r => pc[r] # "start"
  BY AtWork DEF ServerInv, ControlInv, RequestCallOK, InUse, InSuspend, Resolving, Idle,
                HandoverInv, SlottedOnce

(* Such a message and such a handler keep their entry. *)
LEMMA OwnEntryKept ==
  ASSUME ServerInv, HandoverInv, AnswersOwnEntry, [Next]_vars,
         NEW r \in Requests, NEW h \in Requests, InSuspend(Handler(h)),
         \/ Resolving(Request(r)) /\ call[Request(r)].slot = call[Handler(h)].slot
         \/ slot[call[Handler(h)].slot] = r
  PROVE  live'[h] = live'[r]
  <1>1. call[Handler(h)].slot \in Slots
    BY RequestThreads DEF ServerInv, StoreTypeOK, CallType, CallOK, InSuspend
  <1>2. pc[h] # "start" /\ pc[r] # "start"
    BY <1>1, UnderWay
  <1> QED
    BY <1>2, LiveKept DEF AnswersOwnEntry

(* AnswersOwnEntry is inductive where only idle tasks are retired. *)
LEMMA AnswersOwnEntryStep ==
  ASSUME ServerInv, HandoverInv, SameEntry, AnswersOwnEntry, [Next]_vars
  PROVE  AnswersOwnEntry'
  <1> USE DEF ServerInv
  <1>1. ASSUME \A x \in Requests : NoNewHandover(x),
               \A s \in Slots, x \in Requests : slot'[s] = x => slot[s] = x
        PROVE  AnswersOwnEntry'
    <2>1. \A h \in Requests : InSuspend(Handler(h)) => call[Handler(h)].slot \in Slots
      BY RequestThreads DEF StoreTypeOK, CallType, CallOK, InSuspend
    <2> QED
      BY <1>1, <2>1, OwnEntryKept DEF AnswersOwnEntry, NoNewHandover
  <1>2. ASSUME NEW r \in Requests, ResumeHandler(r)
        PROVE  AnswersOwnEntry'
    <2> DEFINE e == registry[Target[r]]
    <2>1. /\ e \in Entries /\ entry[e].slot # Null /\ Target[r] \in Tasks /\ e # Null
          /\ call' = [call EXCEPT ![Request(r)] = Calling("resolve", e, entry[e].slot, r)]
          /\ UNCHANGED slot
      BY <1>2, RequestThreads DEF ResumeHandler, CallResume, Suspended, Registered, StoreTypeOK
    <2> HIDE DEF e
    <2>2. /\ call'[Request(r)].slot = entry[e].slot
          /\ \A x \in Requests : /\ call'[Handler(x)] = call[Handler(x)]
                                 /\ x # r => call'[Request(x)] = call[Request(x)]
      BY <2>1, RequestThreads, DistinctThreads DEF StoreTypeOK, Calling
    <2>3. ASSUME NEW h \in Requests, InSuspend(Handler(h)), call[Handler(h)].slot = entry[e].slot
          PROVE  live'[h] = live'[r]
      <3>1. PICK th \in Threads : InSuspend(th) /\ call[th].ent = e /\ call[th].slot = entry[e].slot
        BY <2>1 DEF SlotInv, SlotOwned
      <3>2. th = Handler(h)
        BY <2>3, <3>1, RequestThreads DEF SlotInv, SuspensionsDistinct
      <3>3. live[h] = e
        BY <2>3, <3>1, <3>2, UnderWay DEF SameEntry, Actors, InSuspend, Idle
      <3>4. live[r] = e
        BY <1>2, AtWork DEF SameEntry, ResumeHandler, At, ControlInv, PointsOK, IsMessage, e
      <3> QED
        BY <1>2, <2>3, <3>3, <3>4, LiveKept, UnderWay DEF ResumeHandler, At
    <2> QED
      BY <2>1, <2>2, <2>3, OwnEntryKept DEF AnswersOwnEntry, Resolving, InSuspend
  <1>3. ASSUME NEW r \in Requests, SuspendHandler(r)
        PROVE  AnswersOwnEntry'
    <2> DEFINE n == nSlots + 1
    <2>1. /\ UNCHANGED slot /\ nSlots < MaxSlots
          /\ call' = [call EXCEPT ![Handler(r)] = Calling("wait", registry[Target[r]], n, NoArg)]
      BY <1>3 DEF SuspendHandler, Suspend
    <2>2. n \in Slots /\ slot[n] = Unset
      BY <2>1, BoundsAssumption DEF StoreTypeOK, Slots, SlotInv, SlotsNumbered
    <2>3. \A th \in Threads : call[th].slot # n
      BY <2>1, BoundsAssumption DEF StoreTypeOK, SlotInv, SlotsNumbered, CallType, Slots, Null
    <2> HIDE DEF n
    <2>4. /\ call'[Handler(r)].slot = n
          /\ \A x \in Requests : /\ call'[Request(x)] = call[Request(x)]
                                 /\ x # r => call'[Handler(x)] = call[Handler(x)]
      BY <2>1, RequestThreads, DistinctThreads DEF StoreTypeOK, Calling
    <2> QED
      BY <2>1, <2>2, <2>3, <2>4, NotTimedOut, RequestThreads, OwnEntryKept
         DEF AnswersOwnEntry, Resolving, InSuspend
  <1>4. ASSUME NEW r \in Requests, NEW th \in Actors(r), Inside(th), Resolve(th)
        PROVE  AnswersOwnEntry'
    <2>1. \A x \in Requests : NoNewHandover(x)
      BY <1>4, NoNewHandovers
    <2>2. th = Request(r) /\ call[th].arg = r /\ Resolving(th) /\ th \in Threads
      BY <1>4, RequestThreads DEF Actors, ControlInv, HandlerCallOK, RequestCallOK, Resolve, Resolving
    <2>3. /\ \A s \in Slots : slot'[s] = IF s = call[th].slot THEN r ELSE slot[s]
      BY <1>4, <2>2 DEF Resolve, StoreTypeOK
    <2>4. \A h \in Requests : InSuspend(Handler(h)) => call[Handler(h)].slot \in Slots
      BY RequestThreads DEF StoreTypeOK, CallType, CallOK, InSuspend
    <2> QED
      BY <2>1, <2>2, <2>3, <2>4, OwnEntryKept DEF AnswersOwnEntry, NoNewHandover
  <1>5. CASE EnvironmentStep \/ UNCHANGED vars
    <2>1. \A x \in Requests : NoNewHandover(x)
      BY <1>5, EnvironmentStays DEF StaysAt, NoNewHandover, Resolving, InSuspend
    <2>2. \A s \in Slots : slot'[s] \in {slot[s], Abort}
      BY <1>5 DEF EnvironmentStep, SweeperStep, ShutdownStep, StartSweeper, SweepDue, SweepStop, Sweep, SweepIdle,
                  ShutdownBegin, ShutdownCancel, vars, storeVars
    <2> QED
      BY <1>1, <2>1, <2>2, NotTimedOut
  <1>6. ASSUME NEW r \in Requests, Sending(r) \/ Answering(r) \/ Streaming(r), ~ResumeHandler(r)
        PROVE  AnswersOwnEntry'
    BY <1>1, <1>6, NoNewHandovers, RequestPassesBy
  <1>7. ASSUME NEW r \in Requests, Running(r) \/ Finishing(r) \/ Asking(r), ~SuspendHandler(r)
        PROVE  AnswersOwnEntry'
    BY <1>1, <1>7, NoNewHandovers, HandlerRegisters
  <1>8. ASSUME NEW r \in Requests, NEW th \in Actors(r), Inside(th) \/ Publish(th), ~Resolve(th)
        PROVE  AnswersOwnEntry'
    <2>1. UNCHANGED slot
      BY <1>8 DEF Inside, Publish, WriteState, WriteMessage, WriteArtifact, WritePush, WriteEntry,
                  Broadcast, Wake, TimeOut, TestSlot
    <2> QED
      BY <1>1, <1>8, <2>1, NoNewHandovers
  <1>9. ASSUME NEW r \in Requests, NEW th \in Actors(r), Inside(th) \/ Publish(th), Resolve(th)
        PROVE  AnswersOwnEntry'
    <2>1. Inside(th)
      BY <1>9 DEF Resolve, Publish, Broadcast
    <2> QED
      BY <1>4, <1>9, <2>1
  <1> QED
    BY <1>2, <1>3, <1>5, <1>6, <1>7, <1>8, <1>9, StepCases

(* A handler is woken with a message on its own entry. *)
LEMMA AnsweredOwnEntry ==
  ASSUME ServerInv, HandoverInv, AnswersOwnEntry, NEW h \in Requests, Answered(h),
         NEW r \in Requests, call[Handler(h)].arg = r
  PROVE  live[h] = live[r]
  <1>1. call[Handler(h)].at = "finally"
    BY DEF Answered, Finally
  <1>2. slot[call[Handler(h)].slot] = r
    BY <1>1, NotTimedOut DEF HandoverInv, WokenWithSlot
  <1> QED
    BY <1>1, <1>2 DEF AnswersOwnEntry, InSuspend

-----------------------------------------------------------------------------
(* What a message leaves on its entry.                                      *)

(* Which steps give a handler a message, use one up, report and answer. *)
LEMMA ProgressChanges ==
  ASSUME ServerInv, [Next]_vars, NEW x \in Requests
  PROVE  /\ reply'[x] = reply[x] \/ Answered(x) \/ AppendReply(x)
         /\ pushed'[x] = pushed[x] \/ DeliverPush(x)
         /\ \/ takers'[x] = takers[x] \/ RunHandler(x)
            \/ \E h \in Requests : Answered(h) /\ call[Handler(h)].arg = x
         /\ response'[x] = response[x] \/ Respond(x)
  <1> USE DEF ServerInv, ServerType
  <1>1. CASE UNCHANGED <<reply, takers, pushed, response>>
    BY <1>1
  <1>2. ASSUME NEW r \in Requests, Sending(r) \/ Answering(r) \/ Streaming(r)
        PROVE  UNCHANGED <<reply, takers, pushed>> /\ (response'[x] = response[x] \/ Respond(x))
    <2>1. UNCHANGED <<reply, takers, pushed>>
      BY <1>2, RequestKeeps
    <2>2. CASE Respond(r)
      BY <2>2 DEF Respond
    <2>3. CASE ~Respond(r)
      BY <1>2, <2>3 DEF Sending, StartMessage, SetPush, CheckInterrupted, ResumeHandler, ResumeNobody,
                AppendMessage, SetWorking, Spawn, Answering, StartOther, Cancel, Settle, SettleDeadline,
                BeginResponse, RespondGone, Streaming, BeginSnapshot, QueueSnapshot, SnapshotGone,
                SubscribeStream, Drain, CheckFinished, Disconnect, Close, ReadThen, CallThen, progress, serverVars
    <2> QED
      BY <2>1, <2>2, <2>3
  <1>3. ASSUME NEW r \in Requests, Running(r) \/ Finishing(r) \/ Asking(r)
        PROVE  /\ response' = response
               /\ reply'[x] = reply[x] \/ Answered(x) \/ AppendReply(x)
               /\ pushed'[x] = pushed[x] \/ DeliverPush(x)
               /\ \/ takers'[x] = takers[x] \/ RunHandler(x)
                  \/ \E h \in Requests : Answered(h) /\ call[Handler(h)].arg = x
    <2>1. response' = response
      BY <1>3, HandlerKeeps
    <2> USE DEF HandlerReadThen, HandlerCallThen, HandlerFinishes, CountMove, progress
    <2>2. CASE Running(r)
      BY <2>1, <2>2 DEF Running, Reject, RunHandler, EmitArtifact, Update, Return,
         Raise, CheckReturn, CheckRaise, ReadPushConfig, DeliverPush, Die, ReturnDone, PushFails
    <2>3. CASE Finishing(r)
      BY <2>1, <2>3 DEF Finishing, Complete, SetCompleted, Fail, CancelTask
    <2>4. CASE Answered(r)
      BY <2>1, <2>4 DEF Answered
    <2>5. CASE Asking(r) /\ ~Answered(r)
      BY <2>1, <2>5 DEF Asking, Ask, SuspendHandler, SuspendRaises,
         AskRaises, ResumeWorking, AppendReply, Catch, Propagate
    <2> QED
      BY <1>3, <2>2, <2>3, <2>4, <2>5
  <1>4. EnvironmentStep \/ UNCHANGED vars \/ (\E th \in Threads : Inside(th) \/ Publish(th))
          => UNCHANGED <<reply, takers, pushed, response>>
    BY DEF EnvironmentStep, Inside, Publish, vars, serverVars
  <1> QED
    BY <1>1, <1>2, <1>3, <1>4, StepCases, RequestThreads DEF Actors

(* r is in the history of the task it came for. *)
Recorded(r) == r \in entry[live[r]].history

(* A message is recorded before its handler starts, or will be by the handler
   that was woken with it. *)
RecordedOrDue ==
    \A r \in Requests :
        /\ \/ pc[r] \in {"work", "spawn"} \/ hpc[r] # "none"
           \/ Kind[r] = "stream" /\ pc[r] \in {"push", "subscribe"}
           => Recorded(r) \/ call[Request(r)].at = "write_message"
        /\ hpc[r] = "none" /\ takers[r] # {} =>
              \/ Recorded(r)
              \/ \E h \in Requests :
                    /\ live[h] = live[r]
                    /\ \/ hpc[h] \in {"resumed", "append_reply"} /\ reply[h] = r
                       \/ call[Handler(h)].at = "write_message" /\ call[Handler(h)].arg = r

(* What is recorded in a task stays recorded. *)
LEMMA RecordedKept ==
  ASSUME ServerInv, SameEntry, [Next]_vars, NEW x \in Requests, IsMessage(x), pc[x] # "start", Recorded(x)
  PROVE  Recorded(x)'
  <1>1. live[x] \in Entries /\ live'[x] = live[x]
    BY LiveKept DEF SameEntry
  <1> QED
    BY <1>1, EntryChanges DEF ServerInv, Recorded, Grows

(* A call under way is gone on with by its own thread. *)
LEMMA CallGoesOn ==
  ASSUME ServerInv, [Next]_vars, NEW h \in Requests, NEW th \in Actors(h),
         call[th].at \notin {"idle", "copy", "finally"}
  PROVE  call'[th] = call[th] \/ Inside(th) \/ Publish(th)
  <1> USE DEF ServerInv
  <1>1. th \in Threads
    BY RequestThreads DEF Actors
  <1>2. ASSUME NEW r \in Requests, Sending(r) \/ Answering(r) \/ Streaming(r)
        PROVE  call'[th] = call[th]
    <2>1. call[Request(r)].at \in {"idle", "copy"}
      BY <1>2, RequestAt
    <2> QED
      BY <1>1, <1>2, <2>1, RequestCall
  <1>3. ASSUME NEW r \in Requests, Running(r) \/ Finishing(r) \/ Asking(r)
        PROVE  call'[th] = call[th]
    <2>1. call[Handler(r)].at \in {"idle", "finally"}
      BY <1>3, HandlerIs
    <2> QED
      BY <1>1, <1>3, <2>1, HandlerCall
  <1>4. ASSUME NEW r \in Requests, NEW y \in Actors(r), Inside(y) \/ Publish(y), y # th
        PROVE  call'[th] = call[th]
    BY <1>1, <1>4, InStoreCall, RequestThreads DEF Actors
  <1>5. EnvironmentStep \/ UNCHANGED vars => call'[th] = call[th]
    BY EnvironmentStays DEF StaysAt, Actors
  <1> QED
    BY <1>2, <1>3, <1>4, <1>5, StepCases

(* A message of which the write is under way is recorded by it. *)
LEMMA WriteRecords ==
  ASSUME ServerInv, SameEntry, [Next]_vars, NEW h \in Requests, IsMessage(h), NEW th \in Actors(h),
         call[th].at = "write_message", NEW x \in Requests, pc[x] # "start", call[th].arg = x,
         live[h] = live[x], call'[th] # call[th]
  PROVE  Recorded(x)'
  <1> USE DEF ServerInv
  <1>1. th \in Threads /\ pc[h] # "start" /\ call[th].ent = live[h]
    BY AtWork, RequestThreads DEF Actors, SameEntry, Idle, InUse
  <1>2. live[x] \in Entries /\ live'[x] = live[x]
    BY <1>1, LiveKept DEF SameEntry
  <1>3. WriteMessage(th) \/ call'[th] = call[th]
    BY CallGoesOn DEF Inside, Publish, Broadcast, WriteState, WriteArtifact, WritePush, WriteEntry,
                      Wake, TimeOut, TestSlot, Resolve
  <1> QED
    BY <1>1, <1>2, <1>3 DEF WriteMessage, WriteEntry, StoreTypeOK, EntryType, Recorded

(* r appends its message, or has. *)
PastAppend(r) ==
    \/ pc[r] \in {"work", "spawn"} \/ hpc[r] # "none"
    \/ Kind[r] = "stream" /\ pc[r] \in {"push", "subscribe"}

(* Only AppendMessage takes a request there. *)
LEMMA OnlyByAppend ==
  ASSUME ServerInv, [Next]_vars, NEW x \in Requests, ~PastAppend(x), PastAppend(x)'
  PROVE  AppendMessage(x)
  <1> USE DEF ServerInv
  <1>1. PointsOK(x) /\ Kind[x] \in Kinds
    BY RequestsAssumption DEF ControlInv
  <1>2. ~StaysAt(x)
    BY DEF StaysAt, PastAppend
  <1>3. ASSUME \/ Running(x) \/ Finishing(x) \/ Asking(x)
               \/ \E th \in Actors(x) : Inside(th) \/ Publish(th)
        PROVE  FALSE
    BY <1>3, HandlerIs DEF Inside, Publish, serverVars, PastAppend
  <1> USE DEF ServerType, PointsOK, AfterSpawn, Kinds, Goto, ReadThen, CallThen, PushOr, AfterSubscribe, At,
              progress, serverVars
  <1>4. CASE Sending(x)
    BY <1>1, <1>4 DEF Sending, StartMessage, SetPush, CheckInterrupted, ResumeHandler, ResumeNobody,
                  SetWorking, Spawn, PastAppend
  <1>5. ASSUME Answering(x) \/ Streaming(x) PROVE FALSE
    <2>1. hpc'[x] = hpc[x]
      BY <1>5, RequestMoved DEF Spawn, Answering, StartOther, Cancel, Settle, SettleDeadline, BeginResponse,
             Respond, RespondGone, Streaming, BeginSnapshot, QueueSnapshot, SnapshotGone, SubscribeStream,
             Drain, CheckFinished, Disconnect, Close
    <2>2. CASE StartOther(x)
      <3>1. pc'[x] \in {"done", "final", "cancel", "snapshot", "push"} /\ Kind[x] # "stream"
        BY <1>1, <2>2 DEF StartOther
      <3> QED
        BY <2>1, <3>1 DEF PastAppend
    <2>3. CASE Answering(x) /\ ~StartOther(x)
      BY <1>1, <2>1, <2>3 DEF Answering, Cancel, Settle, SettleDeadline, BeginResponse, Respond, RespondGone, PastAppend
    <2>4. CASE Streaming(x)
      BY <1>1, <2>1, <2>4 DEF Streaming, BeginSnapshot, QueueSnapshot, SnapshotGone, SubscribeStream,
                  Drain, CheckFinished, Disconnect, Close, PastAppend
    <2> QED
      BY <1>5, <2>2, <2>3, <2>4
  <1> QED
    BY <1>2, <1>3, <1>4, <1>5, StepCases, OthersStay, EnvironmentStays

(* A handler keeps the answer it was woken with until it appends it. *)
LEMMA AnswerKept ==
  ASSUME ServerInv, SameEntry, [Next]_vars, NEW h \in Requests, NEW x \in Requests,
         hpc[h] \in {"resumed", "append_reply"}, reply[h] = x
  PROVE  \/ hpc'[h] \in {"resumed", "append_reply"} /\ reply'[h] = x
         \/ call'[Handler(h)].at = "write_message" /\ call'[Handler(h)].arg = x
  <1> USE DEF ServerInv
  <1>1. CASE AppendReply(h)
    <2>1. Registered(Target[h])
      BY AtWork, RequestThreads, BoundsAssumption DEF SameEntry, InUse, Registered, Entries, Null
    <2> QED
      BY <1>1, <2>1, RequestThreads
         DEF AppendReply, CallAppendMessage, Lookup, Calling, StoreTypeOK
  <1>2. ~Answered(h)
    BY DEF Answered
  <1>3. ASSUME ~AppendReply(h) PROVE hpc'[h] \in {"resumed", "append_reply"} /\ reply'[h] = x
    <2>1. reply'[h] = x
      BY <1>2, <1>3, ProgressChanges
    <2>2. CASE StaysAt(h)
      BY <2>1, <2>2 DEF StaysAt
    <2>3. CASE Sending(h) \/ Answering(h) \/ Streaming(h)
      <3>1. ~Spawn(h)
        BY DEF Spawn, At, ControlInv, PointsOK, AfterSpawn
      <3> QED
        BY <2>1, <2>3, <3>1, RequestMoved
    <2>4. CASE Running(h) \/ Finishing(h) \/ Asking(h)
      <3> USE DEF ServerType, HandlerGoto, HandlerReadThen, HandlerCallThen, HandlerAt, Move
      <3>1. ResumeWorking(h)
        BY <1>2, <1>3, <2>4
           DEF Running, Reject, RunHandler, EmitArtifact, Update, Return,
               Raise, CheckReturn, CheckRaise, ReadPushConfig, DeliverPush, Die, ReturnDone, PushFails,
               Finishing, Complete, SetCompleted, Fail, CancelTask,
               Asking, Ask, SuspendHandler, SuspendRaises, AskRaises, Catch, Propagate
      <3> QED
        BY <2>1, <3>1 DEF ResumeWorking
    <2>5. (\E th \in Actors(h) : Inside(th) \/ Publish(th)) => hpc' = hpc
      BY DEF Inside, Publish, serverVars
    <2> QED
      BY <2>1, <2>2, <2>3, <2>4, <2>5, StepCases, OthersStay, EnvironmentStays
  <1> QED
    BY <1>1, <1>3

(* RecordedOrDue is inductive. *)
LEMMA RecordedOrDueStep ==
  ASSUME ServerInv, HandoverInv, SameEntry, AnswersOwnEntry, RecordedOrDue, [Next]_vars
  PROVE  RecordedOrDue'
  <1> USE DEF ServerInv
  <1>1. ASSUME NEW x \in Requests, PastAppend(x)'
        PROVE  Recorded(x)' \/ call'[Request(x)].at = "write_message"
    <2>1. CASE PastAppend(x)
      <3>1. IsMessage(x) /\ pc[x] # "start"
        BY <2>1 DEF PastAppend, ControlInv, PointsOK, AfterSpawn, IsMessage
      <3>3. CASE Recorded(x)
        BY <3>1, <3>3, RecordedKept
      <3>4. CASE call[Request(x)].at = "write_message"
        <4>1. call[Request(x)].arg = x /\ Request(x) \in Actors(x)
          BY <3>4 DEF ControlInv, RequestCallOK, Actors
        <4> QED
          BY <3>1, <3>4, <4>1, WriteRecords
      <3> QED
        BY <2>1, <3>3, <3>4 DEF RecordedOrDue, PastAppend
    <2>2. CASE ~PastAppend(x)
      <3>1. AppendMessage(x)
        BY <1>1, <2>2, OnlyByAppend
      <3>2. IsMessage(x) /\ pc[x] = "append"
        BY <3>1 DEF AppendMessage, At, ControlInv, PointsOK, IsMessage
      <3>3. Registered(Target[x])
        BY <3>2, AtWork, RequestThreads, BoundsAssumption DEF SameEntry, InUse, Registered, Entries, Null
      <3> QED
        BY <3>1, <3>3, RequestThreads
           DEF AppendMessage, CallAppendMessage, Lookup, Calling, StoreTypeOK
    <2> QED
      BY <2>1, <2>2
  <1>2. ASSUME NEW x \in Requests, hpc'[x] = "none", takers'[x] # {}
        PROVE  \/ Recorded(x)'
               \/ \E h \in Requests :
                     /\ live'[h] = live'[x]
                     /\ \/ hpc'[h] \in {"resumed", "append_reply"} /\ reply'[h] = x
                        \/ call'[Handler(h)].at = "write_message" /\ call'[Handler(h)].arg = x
    <2>1. ASSUME NEW h \in Requests, Answered(h), call[Handler(h)].arg = x
          PROVE  live'[h] = live'[x] /\ hpc'[h] = "resumed" /\ reply'[h] = x
      <3>1. InSuspend(Handler(h)) /\ slot[call[Handler(h)].slot] = x
        BY <2>1, NotTimedOut DEF Answered, Finally, InSuspend, HandoverInv, WokenWithSlot
      <3>2. live'[h] = live'[x]
        BY <3>1, OwnEntryKept
      <3> QED
        BY <2>1, <3>2 DEF Answered, HandlerGoto, ServerType
    <2>2. ~RunHandler(x)
      BY <1>2 DEF RunHandler, HandlerGoto, ServerType
    <2>3. CASE takers'[x] = takers[x]
      <3>1. hpc[x] = "none"
        <4>1. CASE Running(x) \/ Finishing(x) \/ Asking(x)
          BY <1>2, <4>1, HandlerNotNone
        <4>2. hpc'[x] = hpc[x] \/ hpc'[x] = "start" \/ Running(x) \/ Finishing(x) \/ Asking(x)
          <5>1. ASSUME Sending(x) \/ Answering(x) \/ Streaming(x)
                PROVE  hpc'[x] = hpc[x] \/ hpc'[x] = "start"
            BY <5>1, RequestMoved DEF ServerType
          <5>2. ASSUME NEW th \in Actors(x), Inside(th) \/ Publish(th) PROVE hpc' = hpc
            BY <5>2 DEF Inside, Publish, serverVars
          <5>3. StaysAt(x) => hpc'[x] = hpc[x]
            BY DEF StaysAt
          <5> QED
            BY <5>1, <5>2, <5>3, StepCases, OthersStay, EnvironmentStays
        <4> QED
          BY <1>2, <4>1, <4>2
      <3>2. Kind[x] = "send" /\ IsMessage(x) /\ pc[x] # "start"
        <4>1. PICK s \in Slots : slot[s] = x
          BY <1>2, <2>3, <3>1 DEF HandoverInv, TakenOnce
        <4> QED
          BY <4>1 DEF HandoverInv, SlottedOnce, IsMessage
      <3>3. CASE Recorded(x)
        BY <3>2, <3>3, RecordedKept
      <3>4. ASSUME NEW h \in Requests, live[h] = live[x],
                   \/ hpc[h] \in {"resumed", "append_reply"} /\ reply[h] = x
                   \/ call[Handler(h)].at = "write_message" /\ call[Handler(h)].arg = x
            PROVE  /\ IsMessage(h) /\ live'[h] = live'[x]
        BY <3>2, <3>4, AtWork, LiveKept DEF Idle, InUse
      <3>5. ASSUME NEW h \in Requests, hpc[h] \in {"resumed", "append_reply"}, reply[h] = x
            PROVE  \/ hpc'[h] \in {"resumed", "append_reply"} /\ reply'[h] = x
                   \/ call'[Handler(h)].at = "write_message" /\ call'[Handler(h)].arg = x
        BY <3>5, AnswerKept
      <3>6. ASSUME NEW h \in Requests, live[h] = live[x],
                   call[Handler(h)].at = "write_message", call[Handler(h)].arg = x
            PROVE  Recorded(x)' \/ call'[Handler(h)] = call[Handler(h)]
        BY <3>2, <3>4, <3>6, WriteRecords DEF Actors
      <3> QED
        BY <1>2, <2>3, <3>1, <3>3, <3>4, <3>5, <3>6 DEF RecordedOrDue
    <2> QED
      BY <2>1, <2>2, <2>3, ProgressChanges
  <1>3. ASSUME NEW x \in Requests
        PROVE  /\ \/ pc'[x] \in {"work", "spawn"} \/ hpc'[x] # "none"
                  \/ Kind[x] = "stream" /\ pc'[x] \in {"push", "subscribe"}
                  => Recorded(x)' \/ call'[Request(x)].at = "write_message"
               /\ hpc'[x] = "none" /\ takers'[x] # {} =>
                  \/ Recorded(x)'
                  \/ \E h \in Requests :
                        /\ live'[h] = live'[x]
                        /\ \/ hpc'[h] \in {"resumed", "append_reply"} /\ reply'[h] = x
                           \/ call'[Handler(h)].at = "write_message" /\ call'[Handler(h)].arg = x
    BY <1>1, <1>2 DEF PastAppend
  <1> QED
    BY <1>3 DEF RecordedOrDue

HasResult(e) == entry[e].artifacts \cap Requests # {}

(* An artifact is in the entry before `completed` is, and before a copy can
   hold `completed`. *)
ResultBeforeState ==
    /\ \A e \in Entries : entry[e].state = "completed" => HasResult(e)
    /\ \A r \in Requests :
          /\ hpc[r] \in {"completing", "finishing"} =>
                \/ call[Handler(r)].at = "write_artifact"
                \/ r \in entry[live[r]].artifacts
          /\ call[Handler(r)].at = "write_state" /\ call[Handler(r)].arg = "completed" =>
                HasResult(call[Handler(r)].ent)
          /\ call[Request(r)].at = "copy" /\ call[Request(r)].arg = "completed" =>
                HasResult(call[Request(r)].ent)

(* An entry that has a result keeps it. *)
LEMMA HasResultKept ==
  ASSUME ServerInv, [Next]_vars, NEW e \in Entries, HasResult(e)
  PROVE  HasResult(e)'
  BY EntryChanges DEF ServerInv, HasResult, Grows

(* Only complete() goes for the result, and only after it for the state, as long as no
   handler writes `completed` itself. *)
LEMMA OnlyByComplete ==
  ASSUME "completed" \notin UpdateStates, ServerInv, [Next]_vars, NEW x \in Requests
  PROVE  /\ hpc'[x] \in {"completing", "finishing"} => hpc'[x] = hpc[x] \/ Complete(x)
         /\ call'[Handler(x)].at = "write_state" /\ call'[Handler(x)].arg = "completed" =>
               call'[Handler(x)] = call[Handler(x)] \/ SetCompleted(x)
  <1> USE DEF ServerInv
  <1>1. Handler(x) \in Threads
    BY RequestThreads
  <1>2. CASE StaysAt(x)
    BY <1>2 DEF StaysAt
  <1>3. CASE Sending(x) \/ Answering(x) \/ Streaming(x)
    <2>1. call'[Handler(x)] = call[Handler(x)]
      BY <1>1, <1>3, RequestCall, DistinctThreads
    <2>2. hpc'[x] = hpc[x] \/ hpc'[x] = "start"
      BY <1>3, RequestMoved DEF ServerType
    <2> QED
      BY <2>1, <2>2
  <1>4. CASE Running(x) \/ Finishing(x) \/ Asking(x)
    <2>1. CASE SetCompleted(x)
      BY <2>1 DEF SetCompleted, HandlerFinishes, HandlerCallThen, HandlerGoto, ServerType
    <2>2. CASE Complete(x)
      BY <1>1, <2>2 DEF Complete, CallAppendArtifact, Lookup, Calling, StoreTypeOK
    <2>3. CASE ~SetCompleted(x) /\ ~Complete(x)
      <3> USE DEF ServerType, StoreTypeOK, HandlerGoto, HandlerReadThen, HandlerCallThen, HandlerFinishes,
                  Move, CountMove, Lookup, Calling, CallSetState, CallAppendArtifact, storeVars
      <3>1. CASE Running(x)
        BY <1>1, <3>1 DEF Running, Reject, RunHandler, EmitArtifact, Update, Return, Raise, CheckReturn,
                CheckRaise, ReadPushConfig, DeliverPush, Die, ReturnDone, PushFails
      <3>2. CASE Fail(x) \/ CancelTask(x)
        BY <1>1, <3>2 DEF Fail, CancelTask
      <3>3. AskStates \subseteq {"input-required", "auth-required"}
        BY RequestsAssumption DEF InterruptedStates
      <3>4. CASE Asking(x)
        <4>1. CASE \E state \in AskStates : Ask(x, state)
          BY <1>1, <3>3, <4>1 DEF Ask
        <4>2. CASE SuspendHandler(x)
          BY <1>1, <4>2 DEF SuspendHandler, Suspend
        <4>3. CASE Answered(x) \/ AskRaises(x)
          BY <1>1, <4>3 DEF Answered, AskRaises, Finally, NoCall
        <4>4. CASE SuspendRaises(x) \/ ResumeWorking(x) \/ Catch(x) \/ Propagate(x)
          BY <1>1, <4>4 DEF SuspendRaises, ResumeWorking, Catch, Propagate
        <4>5. CASE AppendReply(x)
          BY <1>1, <4>5 DEF AppendReply, CallAppendMessage
        <4> QED
          BY <3>4, <4>1, <4>2, <4>3, <4>4, <4>5 DEF Asking
      <3> QED
        BY <1>4, <2>3, <3>1, <3>2, <3>4 DEF Finishing
    <2> QED
      BY <2>1, <2>2, <2>3
  <1>5. ASSUME NEW th \in Actors(x), Inside(th) \/ Publish(th)
        PROVE  hpc' = hpc /\ (call'[Handler(x)] = call[Handler(x)] \/ call'[Handler(x)].at # "write_state")
    BY <1>5, InStoreMoves, InStoreCall, RequestThreads DEF Actors, Inside, Publish, serverVars, NoCall
  <1> QED
    BY <1>2, <1>3, <1>4, <1>5, StepCases, OthersStay, EnvironmentStays

(* Only a get() begins to copy a task, in the state it is in. *)
LEMMA OnlyByGet ==
  ASSUME ServerInv, [Next]_vars, NEW x \in Requests, call'[Request(x)].at = "copy"
  PROVE  \/ call'[Request(x)] = call[Request(x)]
         \/ /\ Registered(Target[x]) /\ entry' = entry
            /\ call'[Request(x)].ent = registry[Target[x]]
            /\ call'[Request(x)].arg = entry[registry[Target[x]]].state
  <1> USE DEF ServerInv
  <1>1. Request(x) \in Threads
    BY RequestThreads
  <1>2. CASE Sending(x) \/ Answering(x) \/ Streaming(x)
    <2> USE DEF StoreTypeOK, ReadThen, storeVars, Lookup, GetBegin, GetEnd, Calling, NoCall
    <2>1. CASE Sending(x)
      BY <1>1, <2>1 DEF Sending, StartMessage, SetPush, CheckInterrupted, ResumeHandler, ResumeNobody,
                AppendMessage, SetWorking, Spawn, GetOrCreate, CallSetPush, CallResume,
                CallAppendMessage, CallSetState
    <2>2. CASE Answering(x)
      BY <1>1, <2>2 DEF Answering, StartOther, Cancel, Settle, SettleDeadline, BeginResponse, Respond,
                RespondGone, CallSetState
    <2>3. CASE Streaming(x)
      BY <1>1, <2>3 DEF Streaming, BeginSnapshot, QueueSnapshot, SnapshotGone, SubscribeStream, Drain,
                CheckFinished, Disconnect, Close, Subscribe, Unsubscribe
    <2> QED
      BY <1>2, <2>1, <2>2, <2>3
  <1>3. CASE Running(x) \/ Finishing(x) \/ Asking(x)
    BY <1>1, <1>3, HandlerCall, DistinctThreads
  <1>4. ASSUME NEW th \in Actors(x), Inside(th) \/ Publish(th)
        PROVE  call'[Request(x)] = call[Request(x)]
    BY <1>1, <1>4, InStoreMoves, InStoreCall, RequestThreads DEF Actors, NoCall
  <1> QED
    BY <1>2, <1>3, <1>4, StepCases, OthersStay, EnvironmentStays DEF StaysAt

(* ResultBeforeState is inductive. *)
LEMMA ResultBeforeStateStep ==
  ASSUME "completed" \notin UpdateStates, RetiresIdleTasksOnly, ServerInv, SameEntry, ResultBeforeState, [Next]_vars
  PROVE  ResultBeforeState'
  <1> USE DEF ServerInv
  <1>1. ASSUME NEW e \in Entries, entry'[e].state = "completed" PROVE HasResult(e)'
    <2>1. CASE KeepsState(e)
      BY <1>1, <2>1, HasResultKept DEF KeepsState, ResultBeforeState
    <2>2. ASSUME NEW r \in Requests, NEW th \in Actors(r), WriteState(th), call[th].ent = e,
                 call[th].arg = "completed"
          PROVE  HasResult(e)
      <3>1. th = Handler(r) /\ call[th].at = "write_state"
        BY <2>2 DEF Actors, ControlInv, RequestCallOK, WriteState, WriteEntry
      <3> QED
        BY <2>2, <3>1 DEF ResultBeforeState
    <2> QED
      BY <1>1, <2>1, <2>2, EntryChanges, HasResultKept
  <1>2. ASSUME NEW x \in Requests, hpc'[x] \in {"completing", "finishing"}
        PROVE  \/ call'[Handler(x)].at = "write_artifact"
               \/ x \in entry'[live'[x]].artifacts
    <2>1. ASSUME hpc[x] \notin {"none", "done", "died"}
          PROVE  /\ Registered(Target[x]) /\ Target[x] \in Tasks /\ registry[Target[x]] = live[x]
                 /\ live[x] \in Entries /\ live'[x] = live[x]
      BY <2>1, AtWork, RegistryKept, LiveKept DEF InUse
    <2>2. CASE Complete(x)
      <3>1. hpc[x] \notin {"none", "done", "died"}
        BY <2>2 DEF Complete, Move, HandlerAt
      <3> QED
        BY <2>1, <2>2, <3>1, RequestThreads DEF Complete, CallAppendArtifact, Lookup, Calling, StoreTypeOK
    <2>3. CASE hpc'[x] = hpc[x] /\ x \in entry[live[x]].artifacts
      BY <1>2, <2>1, <2>3, EntryChanges DEF Grows
    <2>4. CASE hpc'[x] = hpc[x] /\ call[Handler(x)].at = "write_artifact"
      <3>1. /\ call[Handler(x)].arg = x /\ call[Handler(x)].ent = live[x]
            /\ Handler(x) \in Actors(x)
        BY <1>2, <2>4, AtWork DEF ControlInv, HandlerCallOK, SameEntry, Actors, Idle
      <3>2. WriteArtifact(Handler(x)) \/ call'[Handler(x)] = call[Handler(x)]
        BY <2>4, <3>1, CallGoesOn
           DEF Inside, Publish, Broadcast, WriteState, WriteMessage, WritePush, WriteEntry,
               Wake, TimeOut, TestSlot, Resolve
      <3> QED
        BY <1>2, <2>1, <2>4, <3>1, <3>2 DEF WriteArtifact, WriteEntry, StoreTypeOK, EntryType
    <2> QED
      BY <1>2, <2>2, <2>3, <2>4, OnlyByComplete DEF ResultBeforeState
  <1>3. ASSUME NEW x \in Requests, call'[Handler(x)].at = "write_state", call'[Handler(x)].arg = "completed"
        PROVE  entry'[call'[Handler(x)].ent].artifacts \cap Requests # {}
    <2>1. Handler(x) \in Threads /\ Target[x] \in Tasks
      BY RequestThreads
    <2>2. CASE call'[Handler(x)] = call[Handler(x)]
      <3>1. call[Handler(x)].ent \in Entries /\ HasResult(call[Handler(x)].ent)
        BY <1>3, <2>1, <2>2 DEF ResultBeforeState, StoreTypeOK, CallOK, CallType
      <3> QED
        BY <2>2, <3>1, HasResultKept DEF HasResult
    <2>3. CASE SetCompleted(x)
      <3>1. /\ hpc[x] \in {"completing", "finishing"} /\ call[Handler(x)].at = "idle"
            /\ CallSetState(Handler(x), Target[x], "completed")
        BY <2>3 DEF SetCompleted, HandlerAt, Idle
      <3>2. x \in entry[registry[Target[x]]].artifacts
        BY <3>1, AtWork DEF ResultBeforeState, SameEntry
      <3>3. call'[Handler(x)].ent = registry[Target[x]] /\ entry' = entry
        BY <1>3, <2>1, <3>1 DEF CallSetState, Lookup, Calling, StoreTypeOK
      <3> QED
        BY <3>2, <3>3 DEF HasResult
    <2> QED
      BY <1>3, <2>2, <2>3, OnlyByComplete
  <1>4. ASSUME NEW x \in Requests, call'[Request(x)].at = "copy", call'[Request(x)].arg = "completed"
        PROVE  entry'[call'[Request(x)].ent].artifacts \cap Requests # {}
    <2>1. Request(x) \in Threads /\ Target[x] \in Tasks
      BY RequestThreads
    <2>2. CASE call'[Request(x)] = call[Request(x)]
      <3>1. call[Request(x)].ent \in Entries /\ HasResult(call[Request(x)].ent)
        BY <1>4, <2>1, <2>2 DEF ResultBeforeState, StoreTypeOK, CallOK, CallType
      <3> QED
        BY <2>2, <3>1, HasResultKept DEF HasResult
    <2>3. CASE /\ Registered(Target[x]) /\ entry' = entry
               /\ call'[Request(x)].ent = registry[Target[x]]
               /\ call'[Request(x)].arg = entry[registry[Target[x]]].state
      BY <1>4, <2>1, <2>3 DEF ResultBeforeState, HasResult, StoreTypeOK, Registered
    <2> QED
      BY <1>4, <2>2, <2>3, OnlyByGet
  <1> QED
    BY <1>1, <1>2, <1>3, <1>4 DEF ResultBeforeState, HasResult

(* What holds where only idle tasks are retired. *)
KeptInv == SameEntry /\ AnswersOwnEntry /\ RecordedOrDue

(* Nothing is due at first. *)
LEMMA KeptInit == Init => KeptInv /\ ResultBeforeState
  <1> SUFFICES ASSUME Init PROVE KeptInv /\ ResultBeforeState
    OBVIOUS
  <1>1. SameEntry
    BY RequestThreads, BoundsAssumption DEF Init, StoreInit, SameEntry, InUse, IsMessage, Actors, Idle, NoCall,
         Entries, Null
  <1>2. AnswersOwnEntry
    BY RequestThreads DEF Init, StoreInit, AnswersOwnEntry, InSuspend, NoCall
  <1>3. RecordedOrDue
    BY DEF Init, RecordedOrDue
  <1>4. ResultBeforeState
    BY RequestThreads DEF Init, StoreInit, ResultBeforeState, NewEntry, NoCall
  <1> QED
    BY <1>1, <1>2, <1>3, <1>4 DEF KeptInv

(* A step in which nothing changes retires no task. *)
LEMMA IdleOnly ==
  ASSUME [RetiresIdleTasksOnly]_vars
  PROVE  RetiresIdleTasksOnly
  BY DEF vars, storeVars, RetiresIdleTasksOnly, Registered

(* What a task keeps, in every behaviour that retires idle tasks only. *)
LEMMA KeptCorrect ==
  Spec /\ [][RetiresIdleTasksOnly]_vars => [](ServerInv /\ HandoverInv /\ KeptInv)
  <1>1. [RetiresIdleTasksOnly]_vars => RetiresIdleTasksOnly
    BY IdleOnly
  <1>2. RetiresIdleTasksOnly /\ ServerInv /\ ServerInv' /\ HandoverInv /\ KeptInv /\ [Next]_vars => KeptInv'
    BY SameEntryStep, AnswersOwnEntryStep, RecordedOrDueStep DEF KeptInv
  <1> QED
    BY <1>1, <1>2, OwnEntriesCorrect, KeptInit, PTL DEF Spec

(* Where no task is retired that a message is at work on, the history of a task holds
   every message a handler of it was given once every handler has returned: the request
   that dispatched appends its message before the handler starts, and the ask() that was
   woken with one appends it after, to the same entry. *)
THEOREM HistoryKept ==
  Spec /\ [][RetiresIdleTasksOnly]_vars => []HistoryComplete
  <1>1. ServerInv /\ HandoverInv /\ KeptInv => HistoryComplete
    <2> SUFFICES ASSUME ServerInv, HandoverInv, KeptInv, AllDone, NEW r \in Requests, takers[r] # {}
                 PROVE  r \in entry[live[r]].history
      BY DEF HistoryComplete
    <2> USE DEF ServerInv, AllDone, RequestDone, HandlerDone, Idle
    <2>1. \A h \in Requests : /\ pc[h] = "done" /\ hpc[h] \in {"none", "done", "died"}
                              /\ call[Request(h)].at = "idle" /\ call[Handler(h)].at = "idle"
      OBVIOUS
    <2>2. Recorded(r)
      BY <2>1 DEF KeptInv, RecordedOrDue
    <2> QED
      BY <2>2 DEF Recorded
  <1> QED
    BY <1>1, KeptCorrect, PTL

(* Where no task is retired that a message is at work on and no handler writes `completed`
   by update(), which takes any state, no answer says `completed` without a result,
   although the handler of the task looks the task up again for each of the two writes of
   complete(), and they are under another lock than the copy is made under. *)
THEOREM CompletedAnswersHaveResult ==
  ASSUME "completed" \notin UpdateStates
  PROVE  Spec /\ [][RetiresIdleTasksOnly]_vars => []CompletedHasResult
  <1>1. Init => CompletedHasResult
    BY DEF Init, CompletedHasResult, NoTask, NoArg
  <1>2. ServerInv /\ ResultBeforeState /\ CompletedHasResult /\ [Next]_vars => CompletedHasResult'
    <2> SUFFICES ASSUME ServerInv, ResultBeforeState, CompletedHasResult, [Next]_vars, NEW x \in Requests,
                        response'[x].state = "completed"
                 PROVE  response'[x].artifacts \cap Requests # {}
      BY DEF CompletedHasResult
    <2>1. CASE response'[x] = response[x]
      BY <2>1 DEF CompletedHasResult
    <2>2. CASE Respond(x)
      <3>1. call[Request(x)].at = "copy" /\ response'[x] = Snapshot(Request(x))
        BY <2>2 DEF Respond, GetEnd, ServerInv, ServerType
      <3> QED
        BY <3>1 DEF Snapshot, ResultBeforeState, HasResult
    <2> QED
      BY <2>1, <2>2, ProgressChanges
  <1>3. RetiresIdleTasksOnly /\ ServerInv /\ KeptInv /\ ResultBeforeState /\ [Next]_vars
          => ResultBeforeState'
    BY ResultBeforeStateStep DEF KeptInv
  <1>4. [RetiresIdleTasksOnly]_vars => RetiresIdleTasksOnly
    BY IdleOnly
  <1> QED
    BY <1>1, <1>2, <1>3, <1>4, KeptInit, KeptCorrect, PTL DEF Spec

-----------------------------------------------------------------------------
(* What a stream shows.                                                      *)

ShownWorking(r) == \E i \in DOMAIN feed[r] : feed[r][i] = StatusEvent("working")

(* A stream is subscribed before its task is set working. *)
SubscribedFirst ==
    \A r \in Requests : Kind[r] = "stream" =>
        /\ pc[r] \in {"work", "spawn", "stream", "yielded", "closing"} =>
              Request(r) \in entry[live[r]].subs
        /\ pc[r] = "spawn" =>
              ShownWorking(r) \/ call[Request(r)].at \in {"write_state", "broadcast_state"}
        /\ pc[r] \in {"stream", "yielded", "closing"} => ShownWorking(r)

(* How a message/stream gets from subscribing to its end. *)
LEMMA StreamMoves ==
  ASSUME ServerInv, [Next]_vars, NEW x \in Requests, Kind[x] = "stream",
         pc'[x] \in {"work", "spawn", "stream", "yielded", "closing"}
  PROVE  \/ pc'[x] = pc[x]
         \/ SubscribeStream(x) /\ pc'[x] = "work"
         \/ SetWorking(x) /\ pc'[x] = "spawn"
         \/ Spawn(x) /\ pc'[x] = "stream"
         \/ pc[x] \in {"stream", "yielded"} /\ pc'[x] \in {"stream", "yielded", "closing"}
  <1> USE DEF ServerInv, ServerType, Goto, ReadThen, CallThen, PushOr, AfterSubscribe, serverVars
  <1>1. CASE StaysAt(x)
    BY <1>1 DEF StaysAt
  <1>2. CASE Sending(x)
    <2>1. PointsOK(x)
      BY DEF ControlInv
    <2> QED
      BY <1>2, <2>1 DEF Sending, StartMessage, SetPush, CheckInterrupted, ResumeHandler, ResumeNobody,
              AppendMessage, SetWorking, Spawn, At, PointsOK
  <1>3. CASE Answering(x)
    <2>1. CASE StartOther(x)
      BY <2>1 DEF StartOther
    <2> QED
      BY <1>3, <2>1 DEF Answering, Cancel, Settle, SettleDeadline, BeginResponse, Respond, RespondGone
  <1>4. CASE Streaming(x)
    BY <1>4 DEF Streaming, BeginSnapshot, QueueSnapshot, SnapshotGone, SubscribeStream, Drain,
                CheckFinished, Disconnect, Close, At
  <1>5. ASSUME Running(x) \/ Finishing(x) \/ Asking(x)
        PROVE  pc' = pc
    BY <1>5, HandlerMoved
  <1>6. ASSUME NEW th \in Actors(x), Inside(th) \/ Publish(th)
        PROVE  pc' = pc
    BY <1>6 DEF Inside, Publish
  <1> QED
    BY <1>1, <1>2, <1>3, <1>4, <1>5, <1>6, StepCases, OthersStay, EnvironmentStays

(* SubscribedFirst is inductive where only idle tasks are retired. *)
LEMMA SubscribedFirstStep ==
  ASSUME RetiresIdleTasksOnly, ServerInv, SameEntry, SubscribedFirst, [Next]_vars
  PROVE  SubscribedFirst'
  <1> USE DEF ServerInv
  <1> SUFFICES ASSUME NEW x \in Requests, Kind[x] = "stream"
               PROVE  /\ pc'[x] \in {"work", "spawn", "stream", "yielded", "closing"} =>
                            Request(x) \in entry'[live'[x]].subs
                      /\ pc'[x] = "spawn" =>
                            \/ ShownWorking(x)'
                            \/ call'[Request(x)].at \in {"write_state", "broadcast_state"}
                      /\ pc'[x] \in {"stream", "yielded", "closing"} => ShownWorking(x)'
    BY DEF SubscribedFirst
  <1>1. Request(x) \in Threads /\ Request(x) \in Actors(x) /\ Target[x] \in Tasks
    BY RequestThreads DEF Actors
  <1>2. /\ pc[x] # "start" => live[x] \in Entries /\ live'[x] = live[x]
        /\ pc[x] \notin {"start", "done"} => Registered(Target[x]) /\ registry[Target[x]] = live[x]
    BY AtWork, RegistryKept, LiveKept DEF IsMessage, SameEntry
  <1>3. ShownWorking(x) => ShownWorking(x)'
    BY FeedKeeps DEF ShownWorking
  <1>4. ASSUME pc'[x] \in {"work", "spawn", "stream", "yielded", "closing"}
        PROVE  Request(x) \in entry'[live'[x]].subs
    <2>1. CASE SubscribeStream(x)
      <3>1. pc[x] \notin {"start", "done"}
        BY <2>1 DEF SubscribeStream, At
      <3> QED
        BY <1>2, <2>1, <3>1 DEF SubscribeStream, Subscribe, StoreTypeOK, EntryType
    <2>2. CASE pc[x] \in {"work", "spawn", "stream", "yielded", "closing"}
      <3>1. Request(x) \in entry[live[x]].subs /\ pc[x] # "start"
        BY <2>2 DEF SubscribedFirst
      <3>2. ~Close(x)
        BY <1>4 DEF Close, CallThen, Goto, ServerType
      <3>3. Request(x) \in entry'[live[x]].subs
        BY <1>2, <3>1, <3>2, EntryChanges DEF Grows
      <3> QED
        BY <1>2, <3>1, <3>3
    <2>3. SetWorking(x) => pc[x] = "work"
      BY DEF SetWorking, At
    <2>4. Spawn(x) => pc[x] = "spawn"
      BY DEF Spawn, At
    <2> QED
      BY <1>4, <2>1, <2>2, <2>3, <2>4, StreamMoves
  <1>5. ASSUME pc'[x] = "spawn"
        PROVE  ShownWorking(x)' \/ call'[Request(x)].at \in {"write_state", "broadcast_state"}
    <2>1. CASE SetWorking(x)
      <3>1. pc[x] \notin {"start", "done"}
        BY <2>1 DEF SetWorking, At
      <3> QED
        BY <1>1, <1>2, <2>1, <3>1 DEF SetWorking, CallSetState, Lookup, Calling, StoreTypeOK
    <2>2. CASE pc[x] = "spawn" /\ call[Request(x)].at \in {"write_state", "broadcast_state"}
      <3>1. /\ call[Request(x)].arg = "working" /\ call[Request(x)].ent = live[x]
            /\ Request(x) \in entry[live[x]].subs
        BY <1>1, <2>2 DEF ControlInv, RequestCallOK, SameEntry, SubscribedFirst, Idle, IsMessage
      <3>2. CASE Publish(Request(x))
        <4>1. /\ call[Request(x)].at = "broadcast_state"
              /\ feed'[x] = Append(feed[x], StatusEvent("working"))
          BY <2>2, <3>1, <3>2 DEF Publish, Broadcast, EventOf
        <4>2. feed[x] \in Seq(Events)
          BY DEF ServerType
        <4>3. /\ Len(feed[x]) + 1 \in DOMAIN feed'[x]
              /\ feed'[x][Len(feed[x]) + 1] = StatusEvent("working")
          BY <4>1, <4>2
        <4> QED
          BY <4>3 DEF ShownWorking
      <3>3. CASE Inside(Request(x))
        BY <1>1, <2>2, <3>3, InStoreMoves DEF Inside, WriteState, WriteMessage, WriteArtifact, WritePush,
               WriteEntry, Wake, TimeOut, TestSlot, Resolve
      <3>4. CASE call'[Request(x)] = call[Request(x)]
        BY <2>2, <3>4
      <3> QED
        BY <1>1, <2>2, <3>2, <3>3, <3>4, CallGoesOn
    <2>3. CASE pc[x] = "spawn" /\ ShownWorking(x)
      BY <1>3, <2>3
    <2> QED
      BY <1>5, <2>1, <2>2, <2>3, StreamMoves DEF SubscribedFirst
  <1>6. ASSUME pc'[x] \in {"stream", "yielded", "closing"}
        PROVE  ShownWorking(x)'
    <2>1. CASE Spawn(x)
      <3>1. pc[x] = "spawn" /\ call[Request(x)].at = "idle"
        BY <2>1 DEF Spawn, At, Idle
      <3> QED
        BY <1>3, <3>1 DEF SubscribedFirst
    <2> QED
      BY <1>3, <1>6, <2>1, StreamMoves DEF SubscribedFirst
  <1> QED
    BY <1>4, <1>5, <1>6

(* Where no task is retired that a message is at work on, a message/stream that ran to its
   end has shown its client the transition to `working`: it subscribes before it sets the
   state, nothing but its own generator unsubscribes it, and the generator ends with an
   empty queue. *)
THEOREM StreamsShowWorking ==
  Spec /\ [][RetiresIdleTasksOnly]_vars => []StreamShowsWorking
  <1>1. Init => SubscribedFirst /\ StreamShowsWorking
    BY DEF Init, SubscribedFirst, StreamShowsWorking
  <1>2. ServerInv /\ SubscribedFirst /\ StreamShowsWorking /\ [Next]_vars => StreamShowsWorking'
    <2> SUFFICES ASSUME ServerInv, SubscribedFirst, StreamShowsWorking, [Next]_vars, NEW r \in Requests,
                        Kind[r] = "stream", pc'[r] = "closing"
                 PROVE  \E i \in 1 .. sent'[r] : feed'[r][i] = StatusEvent("working")
      BY DEF StreamShowsWorking
    <2>1. /\ feed[r] \in Seq(Events) /\ sent[r] \in Nat /\ sent[r] <= Len(feed[r])
          /\ DOMAIN feed[r] = 1 .. Len(feed[r]) /\ Len(feed[r]) \in Nat
      BY DEF ServerInv, ServerType
    <2>2. CASE pc[r] = "closing" /\ sent'[r] = sent[r]
      <3>1. PICK i \in 1 .. sent[r] : feed[r][i] = StatusEvent("working")
        BY <2>2 DEF StreamShowsWorking
      <3>2. i \in DOMAIN feed[r]
        BY <2>1, <3>1
      <3> QED
        BY <2>2, <3>1, <3>2, FeedKeeps
    <2>3. CASE CheckFinished(r) /\ StreamEnds(r) /\ sent'[r] = sent[r]
      <3>1. PICK i \in DOMAIN feed[r] : feed[r][i] = StatusEvent("working")
        BY <2>3 DEF CheckFinished, At, SubscribedFirst, ShownWorking
      <3>2. i \in 1 .. sent[r]
        BY <2>1, <2>3, <3>1 DEF StreamEnds
      <3> QED
        BY <2>3, <3>1, <3>2, FeedKeeps
    <2> QED
      BY <2>2, <2>3, SentKeeps
  <1>3. RetiresIdleTasksOnly /\ ServerInv /\ KeptInv /\ SubscribedFirst /\ [Next]_vars => SubscribedFirst'
    BY SubscribedFirstStep DEF KeptInv
  <1>4. [RetiresIdleTasksOnly]_vars => RetiresIdleTasksOnly
    BY IdleOnly
  <1> QED
    BY <1>1, <1>2, <1>3, <1>4, KeptCorrect, PTL DEF Spec

-----------------------------------------------------------------------------
(* What a callback is told.                                                  *)

(* A callback that was given inline is set before its message is handed over. *)
HasSetPush(r) ==
    \/ Kind[r] = "send" /\ pc[r] \notin {"start", "push"}
    \/ Kind[r] = "stream" /\ pc[r] \notin {"start", "append", "push"}

CallbackSet ==
    \A r \in WithPush : HasSetPush(r) =>
        entry[live[r]].push \/ call[Request(r)].at = "write_push"

(* The end of a task is reported, or a handler of it has yet to look for a
   callback. *)
Reports(h) == hpc[h] \notin {"none", "start", "done", "died"} \/ pushed[h] = entry[live[h]].state

ReportedOrDue ==
    \A r \in WithPush : takers[r] # {} /\ entry[live[r]].state \in {"completed", "failed"} =>
        \E h \in Requests : live[h] = live[r] /\ Reports(h)

(* A request goes past that point by setting its callback. *)
LEMMA OnlyBySetPush ==
  ASSUME ServerInv, [Next]_vars, NEW x \in WithPush, ~HasSetPush(x), HasSetPush(x)'
  PROVE  SetPush(x)
  <1> USE DEF ServerInv, ServerType, HasSetPush, Goto, ReadThen, CallThen, PushOr, AfterSubscribe, serverVars
  <1>1. x \in Requests /\ PointsOK(x)
    BY RequestsAssumption DEF ControlInv
  <1>2. pc'[x] # pc[x]
    OBVIOUS
  <1>3. Sending(x) \/ Answering(x) \/ Streaming(x)
    <2>1. ASSUME \/ Running(x) \/ Finishing(x) \/ Asking(x)
                 \/ \E th \in Actors(x) : Inside(th) \/ Publish(th)
          PROVE  pc' = pc
      BY <1>1, <2>1, HandlerMoved DEF Inside, Publish
    <2> QED
      BY <1>1, <1>2, <2>1, StepCases, OthersStay, EnvironmentStays DEF StaysAt
  <1>4. CASE Sending(x)
    BY <1>1, <1>4 DEF Sending, StartMessage, SetPush, CheckInterrupted, ResumeHandler, ResumeNobody,
            AppendMessage, SetWorking, Spawn, At, PointsOK
  <1>5. CASE Answering(x)
    <2>1. CASE StartOther(x)
      BY <2>1 DEF StartOther
    <2> QED
      BY <1>1, <1>5, <2>1 DEF Answering, Cancel, Settle, SettleDeadline, BeginResponse, Respond,
              RespondGone, At, PointsOK
  <1>6. CASE Streaming(x)
    BY <1>1, <1>6 DEF Streaming, BeginSnapshot, QueueSnapshot, SnapshotGone, SubscribeStream, Drain,
            CheckFinished, Disconnect, Close, At, PointsOK
  <1> QED
    BY <1>3, <1>4, <1>5, <1>6

(* CallbackSet is inductive where only idle tasks are retired. *)
LEMMA CallbackSetStep ==
  ASSUME RetiresIdleTasksOnly, ServerInv, SameEntry, CallbackSet, [Next]_vars
  PROVE  CallbackSet'
  <1> USE DEF ServerInv
  <1> SUFFICES ASSUME NEW x \in WithPush, HasSetPush(x)'
               PROVE  entry'[live'[x]].push \/ call'[Request(x)].at = "write_push"
    BY DEF CallbackSet
  <1>1. /\ x \in Requests /\ Request(x) \in Threads /\ Request(x) \in Actors(x)
    BY RequestsAssumption, RequestThreads DEF Actors
  <1>2. ASSUME IsMessage(x), pc[x] # "start" PROVE live[x] \in Entries /\ live'[x] = live[x]
    BY <1>1, <1>2, LiveKept DEF SameEntry
  <1>3. CASE ~HasSetPush(x)
    <2>1. SetPush(x)
      BY <1>3, OnlyBySetPush
    <2>2. pc[x] = "push" /\ IsMessage(x)
      BY <1>1, <2>1 DEF SetPush, At, HasSetPush, IsMessage
    <2>3. Registered(Target[x])
      BY <1>1, <2>2, AtWork, RegistryKept
    <2> QED
      BY <1>1, <2>1, <2>3, RequestThreads DEF SetPush, CallSetPush, Lookup, Calling, StoreTypeOK
  <1>4. CASE HasSetPush(x) /\ entry[live[x]].push
    <2>1. pc[x] # "start" /\ IsMessage(x)
      BY <1>4 DEF HasSetPush, IsMessage
    <2> QED
      BY <1>2, <1>4, <2>1, EntryChanges DEF Grows
  <1>5. CASE HasSetPush(x) /\ call[Request(x)].at = "write_push"
    <2>1. pc[x] # "start" /\ IsMessage(x)
      BY <1>5 DEF HasSetPush, IsMessage
    <2>2. call[Request(x)].ent = live[x]
      BY <1>1, <1>5, <2>1 DEF SameEntry, Idle
    <2>3. call'[Request(x)] = call[Request(x)] \/ WritePush(Request(x))
      BY <1>1, <1>5, CallGoesOn
         DEF Inside, Publish, Broadcast, WriteState, WriteMessage, WriteArtifact, WriteEntry,
             Wake, TimeOut, TestSlot, Resolve
    <2> QED
      BY <1>2, <1>5, <2>1, <2>2, <2>3 DEF WritePush, WriteEntry, StoreTypeOK, EntryType
  <1> QED
    BY <1>3, <1>4, <1>5 DEF CallbackSet

(* A handler that was given a message ends its thread in the push delivery. *)
LEMMA HandlerEnds ==
  ASSUME ServerInv, [Next]_vars, NEW x \in Requests,
         hpc[x] \notin {"none", "start", "done", "died"}, hpc'[x] \in {"none", "start", "done", "died"}
  PROVE  DeliverPush(x) \/ PushFails(x) \/ (ReadPushConfig(x) /\ ~HasPush(Target[x]))
  <1> USE DEF ServerInv, ServerType
  <1>1. ASSUME Sending(x) \/ Answering(x) \/ Streaming(x)
        PROVE  hpc'[x] = hpc[x]
    <2>1. ~Spawn(x)
      BY DEF ControlInv, PointsOK, AfterSpawn, Spawn, At
    <2> QED
      BY <1>1, <2>1, RequestMoved
  <1>2. ASSUME NEW th \in Actors(x), Inside(th) \/ Publish(th)
        PROVE  hpc'[x] = hpc[x]
    BY <1>2 DEF Inside, Publish, serverVars
  <1> USE DEF HandlerGoto, HandlerReadThen, HandlerCallThen, HandlerAt, HandlerFinishes, Move, CountMove
  <1>3. CASE Running(x)
    BY <1>3 DEF Running, Reject, RunHandler, EmitArtifact, Update, Return, Raise, CheckReturn,
                CheckRaise, ReadPushConfig, DeliverPush, Die, ReturnDone, PushFails
  <1>4. CASE Finishing(x)
    BY <1>4 DEF Finishing, Complete, SetCompleted, Fail, CancelTask
  <1>5. CASE Asking(x)
    BY <1>5 DEF Asking, Ask, SuspendHandler, SuspendRaises, Answered, AskRaises, ResumeWorking,
                AppendReply, Catch, Propagate
  <1> QED
    BY <1>1, <1>2, <1>3, <1>4, <1>5, StepCases, OthersStay, EnvironmentStays DEF StaysAt

(* A message that was handed over is past its callback. *)
LEMMA TakenHasPush ==
  ASSUME ServerInv, HandoverInv, CallbackSet, NEW r \in WithPush, takers[r] # {}
  PROVE  r \in Requests /\ IsMessage(r) /\ pc[r] # "start" /\ entry[live[r]].push
  <1> USE DEF ServerInv
  <1>1. r \in Requests /\ PointsOK(r) /\ RequestCallOK(r)
    BY RequestsAssumption DEF ControlInv
  <1>2. Kind[r] \in {"send", "stream"} /\ pc[r] \in {"settle", "final", "done"} \cup AfterSpawn(r)
    <2>1. CASE hpc[r] = "none"
      BY <1>1, <2>1 DEF HandoverInv, TakenOnce, SlottedOnce
    <2>2. CASE hpc[r] # "none"
      BY <1>1, <2>2 DEF PointsOK
    <2> QED
      BY <2>1, <2>2
  <1>3. HasSetPush(r) /\ pc[r] # "start"
    BY <1>2 DEF HasSetPush, AfterSpawn
  <1>4. call[Request(r)].at # "write_push"
    BY <1>1, <1>2 DEF RequestCallOK, AfterSpawn
  <1> QED
    BY <1>1, <1>2, <1>3, <1>4 DEF CallbackSet, IsMessage

(* ReportedOrDue is inductive where only idle tasks are retired. *)
LEMMA ReportedOrDueStep ==
  ASSUME "unreachable" \notin Faults,
         RetiresIdleTasksOnly, ServerInv, HandoverInv, SameEntry, AnswersOwnEntry, CallbackSet,
         ReportedOrDue, [Next]_vars
  PROVE  ReportedOrDue'
  <1> USE DEF ServerInv
  <1> SUFFICES ASSUME NEW r \in WithPush, takers'[r] # {},
                      entry'[live'[r]].state \in {"completed", "failed"}
               PROVE  \E h \in Requests : live'[h] = live'[r] /\ Reports(h)'
    BY DEF ReportedOrDue
  <1> DEFINE e == live[r]
  <1>1. r \in Requests
    BY RequestsAssumption
  <1>2. ASSUME NEW h \in Requests, Answered(h), call[Handler(h)].arg = r
        PROVE  pc[r] # "start" /\ IsMessage(r) /\ live[h] = e
    <2>1. InSuspend(Handler(h)) /\ slot[call[Handler(h)].slot] = r /\ call[Handler(h)].slot \in Slots
      BY <1>1, <1>2, NotTimedOut, RequestThreads
         DEF Answered, Finally, InSuspend, HandoverInv, WokenWithSlot, StoreTypeOK, CallType, CallOK
    <2> QED
      BY <1>1, <1>2, <2>1, AnsweredOwnEntry DEF HandoverInv, SlottedOnce, IsMessage
  <1>3. IsMessage(r) /\ pc[r] # "start"
    <2>1. RunHandler(r) => hpc[r] # "none"
      BY DEF RunHandler, HandlerAt
    <2> QED
      BY <1>1, <1>2, <2>1, TakenHasPush, AtWork, ProgressChanges
  <1>4. e \in Entries /\ live'[r] = e /\ entry'[e].state \in {"completed", "failed"}
    BY <1>1, <1>3, LiveKept DEF SameEntry
  <1> HIDE DEF e
  <1>5. ASSUME NEW h \in Requests, live[h] = e PROVE live'[h] = e
    BY <1>4, <1>5, LiveKept DEF StartMessage, At, SameEntry, IsMessage
  <1>6. ASSUME NEW h \in Requests, live[h] = e, hpc'[h] \notin {"none", "start", "done", "died"}
        PROVE  \E x \in Requests : live'[x] = live'[r] /\ Reports(x)'
    BY <1>4, <1>5, <1>6 DEF Reports
  <1>7. ASSUME NEW q \in Requests, NEW th \in Actors(q), WriteState(th), Inside(th), call[th].ent = e,
               entry'[e].state = call[th].arg
        PROVE  live[q] = e /\ hpc'[q] \notin {"none", "start", "done", "died"}
    <2>1. call[th].at = "write_state"
      BY <1>7 DEF WriteState, WriteEntry
    <2>2. th = Handler(q) /\ hpc[q] \in {"push", "run"}
      BY <1>4, <1>7, <2>1 DEF Actors, ControlInv, RequestCallOK, HandlerCallOK, TerminalStates
    <2>3. live[q] = e
      BY <1>7, <2>1, <2>2, AtWork DEF SameEntry, Actors, Idle
    <2> QED
      BY <1>7, <2>2, <2>3 DEF Inside, serverVars
  <1>8. CASE KeepsState(e) /\ takers'[r] = takers[r]
    <2>1. entry'[e].state = entry[e].state /\ takers[r] # {} /\ entry[e].push
      BY <1>8, TakenHasPush DEF KeepsState, e
    <2>2. PICK h \in Requests : live[h] = e /\ Reports(h)
      BY <1>1, <1>4, <2>1 DEF ReportedOrDue, e
    <2>3. live'[h] = e
      BY <1>5, <2>2
    <2>4. CASE DeliverPush(h)
      <3>1. hpc[h] = "deliver"
        BY <2>4 DEF DeliverPush, HandlerAt
      <3>2. StateOf(Target[h]) = entry[e].state
        <4>1. InUse(h)
          BY <3>1, AtWork
        <4> QED
          BY <2>2, <4>1, RegistryKept DEF StateOf
      <3>3. pushed'[h] = entry[e].state
        BY <1>4, <2>1, <2>4, <3>2 DEF DeliverPush, Notifiable, TerminalStates, ServerType
      <3> QED
        BY <1>4, <2>1, <2>3, <3>3 DEF Reports
    <2>5. CASE pushed[h] = entry[e].state /\ ~DeliverPush(h)
      BY <1>4, <2>1, <2>3, <2>5, ProgressChanges DEF Reports
    <2>6. CASE hpc[h] \notin {"none", "start", "done", "died"} /\ ~DeliverPush(h)
      <3>1. HasPush(Target[h]) /\ ~PushFails(h)
        BY <2>1, <2>2, <2>6, AtWork, RegistryKept DEF HasPush, PushFails
      <3> QED
        BY <1>6, <2>2, <2>6, <3>1, HandlerEnds
    <2> QED
      BY <2>2, <2>4, <2>5, <2>6 DEF Reports
  <1>9. CASE RunHandler(r)
    <2>1. hpc'[r] = "run"
      BY <1>1, <1>9 DEF RunHandler, HandlerGoto, ServerType
    <2> QED
      BY <1>1, <1>6, <2>1 DEF e
  <1>10. ASSUME NEW h \in Requests, Answered(h), call[Handler(h)].arg = r
         PROVE  \E x \in Requests : live'[x] = live'[r] /\ Reports(x)'
    <2>1. hpc'[h] = "resumed"
      BY <1>10 DEF Answered, HandlerGoto, ServerType
    <2> QED
      BY <1>2, <1>6, <1>10, <2>1
  <1> QED
    BY <1>1, <1>4, <1>6, <1>7, <1>8, <1>9, <1>10, EntryChanges, ProgressChanges

(* Where no task is retired that a message is at work on, a client that registered a
   callback inline and can be reached there is told of the end of its task: whichever
   handler writes `completed` or `failed` looks for a callback afterwards, finds the one
   set before the message was handed over, and reads the state again before it reports. *)
THEOREM CallbacksToldOutcome ==
  ASSUME "unreachable" \notin Faults
  PROVE  Spec /\ [][RetiresIdleTasksOnly]_vars => []PushReportsOutcome
  <1>1. Init => CallbackSet /\ ReportedOrDue
    BY RequestsAssumption DEF Init, CallbackSet, HasSetPush, ReportedOrDue
  <1>2. RetiresIdleTasksOnly /\ ServerInv /\ HandoverInv /\ KeptInv /\ CallbackSet /\ ReportedOrDue /\ [Next]_vars
          => CallbackSet' /\ ReportedOrDue'
    BY CallbackSetStep, ReportedOrDueStep DEF KeptInv
  <1>3. [RetiresIdleTasksOnly]_vars => RetiresIdleTasksOnly
    BY IdleOnly
  <1>4. ReportedOrDue => PushReportsOutcome
    <2> SUFFICES ASSUME ReportedOrDue, AllDone, NEW r \in WithPush, takers[r] # {},
                        entry[live[r]].state \in {"completed", "failed"}
                 PROVE  \E h \in Requests : live[h] = live[r] /\ pushed[h] = entry[live[r]].state
      BY DEF PushReportsOutcome
    <2> QED
      BY DEF ReportedOrDue, Reports, AllDone, HandlerDone
  <1> QED
    BY <1>1, <1>2, <1>3, <1>4, KeptCorrect, PTL DEF Spec

(* A store without retention retires nothing, so its behaviours satisfy the hypothesis
   of the four theorems above. *)
THEOREM IdleOnlyWithoutRetention ==
  ASSUME "retention" \notin Env
  PROVE  Spec => [][RetiresIdleTasksOnly]_vars
  <1>1. StoreTypeOK /\ [Next]_vars => RetiresIdleTasksOnly
    <2> SUFFICES ASSUME StoreTypeOK, [Next]_vars PROVE RetiresIdleTasksOnly
      OBVIOUS
    <2>1. ASSUME EnvironmentStep PROVE registry' = registry
      BY <2>1 DEF EnvironmentStep, SweeperStep, ShutdownStep, StartSweeper, SweepDue, SweepStop, Sweep, SweepIdle,
             Pop, ShutdownBegin, ShutdownCancel, StoreTypeOK
    <2>2. ASSUME NEW r \in Requests, ~Registered(Target[r]), Target[r] \in Tasks,
                 registry' = [registry EXCEPT ![Target[r]] = nEntries + 1]
          PROVE  RetiresIdleTasksOnly
      BY <2>2, RequestThreads DEF RetiresIdleTasksOnly, Registered, StoreTypeOK
    <2> QED
      BY <2>1, <2>2, RegistryChanges, RequestThreads DEF RetiresIdleTasksOnly, Registered
  <1> QED
    BY <1>1, ServerCorrect, PTL DEF Spec, ServerInv

=============================================================================
