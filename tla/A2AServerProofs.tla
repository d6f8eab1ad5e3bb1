--------------------------- MODULE A2AServerProofs ---------------------------
(***************************************************************************)
(* The server, proved for any requests, tasks, handlers and bounds.  It    *)
(* uses the task store as the store's specification says, so what is       *)
(* proved of the store for any callers holds in the server.  Every         *)
(* variable is well typed, a message goes to one handler and, where        *)
(* nothing times out, none is lost.                                        *)
(***************************************************************************)
EXTENDS A2AServer, TaskStoreProofs, SequenceTheorems

-----------------------------------------------------------------------------
(* The server refines the store.                                           *)

(* A handler that is about to append an answer has one. *)
ReplyOK ==
    /\ hpc \in [Requests -> HandlerPoints]
    /\ reply \in [Requests -> Messages \cup {NoArg}]
    /\ \A r \in Requests : hpc[r] \in {"resumed", "append_reply"} => reply[r] \in Messages

(* The threads, tasks and messages of the requests are the store's. *)
LEMMA RequestThreads ==
  ASSUME NEW r \in Requests
  PROVE  Request(r) \in Threads /\ Handler(r) \in Threads /\ Target[r] \in Tasks
  BY RequestsAssumption, StoreUseAssumption DEF Request, Handler

(* The calls the server makes are calls the store allows. *)
LEMMA ServerCalls ==
  ASSUME NEW th \in Threads, NEW t \in Tasks,
         \/ GetOrCreate(th, t) \/ GetBegin(th, t)
         \/ \E state \in TaskStates : CallSetState(th, t, state)
         \/ \E m \in Messages : CallAppendMessage(th, t, m) \/ CallResume(th, t, m)
         \/ \E a \in Artifacts : CallAppendArtifact(th, t, a)
         \/ CallSetPush(th, t) \/ Subscribe(th, t) \/ Unsubscribe(th) \/ Suspend(th, t)
  PROVE  Begin(th, t)
  BY StoreUseAssumption DEF Begin, StoreCalls

(* A step of a request's thread. *)
LEMMA RequestSteps ==
  ASSUME NEW r \in Requests, RequestStep(r)
  PROVE  [StoreNext]_storeVars
  <1> DEFINE th == Request(r)
             t == Target[r]
  <1>1. th \in Threads /\ t \in Tasks
    BY RequestThreads
  <1>2. r \in Messages
    BY StoreUseAssumption
  <1>3. {"working", "canceled"} \subseteq TaskStates
    BY DEF TaskStates, TerminalStates
  <1>4. Continue(th) => StoreNext
    BY <1>1 DEF StoreNext
  <1>5. Begin(th, t) => StoreNext
    BY <1>1 DEF StoreNext
  <1> HIDE DEF th, t
  <1>6. CASE Arrive(r)
    <2>1. GetOrCreate(th, t) \/ UNCHANGED storeVars
      BY <1>6 DEF Arrive, StartMessage, StartOther, ReadThen, th, t
    <2> QED
      BY <1>1, <1>5, <2>1, ServerCalls
  <1>7. CASE SettleDeadline(r) \/ Disconnect(r)
    BY <1>7 DEF SettleDeadline, Disconnect
  <1>8. CASE RequestProgress(r)
    <2>1. CASE SetPush(r) \/ ResumeHandler(r) \/ AppendMessage(r) \/ SetWorking(r) \/ Cancel(r)
               \/ BeginResponse(r) \/ BeginSnapshot(r) \/ SubscribeStream(r) \/ Close(r)
      <3>1. \/ CallSetPush(th, t) \/ CallResume(th, t, r) \/ CallAppendMessage(th, t, r)
            \/ CallSetState(th, t, "working") \/ CallSetState(th, t, "canceled")
            \/ GetBegin(th, t) \/ Subscribe(th, t) \/ Unsubscribe(th)
        BY <2>1 DEF SetPush, ResumeHandler, AppendMessage, SetWorking, Cancel,
                    BeginResponse, BeginSnapshot, SubscribeStream, Close, th, t
      <3> QED
        BY <1>1, <1>2, <1>3, <1>5, <3>1, ServerCalls
    <2>2. CASE Respond(r) \/ QueueSnapshot(r) \/ Inside(Request(r)) \/ Publish(Request(r))
      <3>1. Continue(th)
        BY <2>2 DEF Respond, QueueSnapshot, Inside, Publish, Continue, th
      <3> QED
        BY <1>4, <3>1
    <2>3. CASE CheckInterrupted(r) \/ ResumeNobody(r) \/ Spawn(r) \/ Settle(r) \/ RespondGone(r)
               \/ SnapshotGone(r) \/ Drain(r) \/ CheckFinished(r)
      BY <2>3 DEF CheckInterrupted, ResumeNobody, Spawn, Settle, RespondGone, SnapshotGone,
                  Drain, CheckFinished, ReadThen
    <2> QED
      BY <1>8, <2>1, <2>2, <2>3 DEF RequestProgress
  <1> QED
    BY <1>6, <1>7, <1>8 DEF RequestStep

(* A step of a handler's thread. *)
LEMMA HandlerSteps ==
  ASSUME ReplyOK, NEW r \in Requests, HandlerStep(r)
  PROVE  [StoreNext]_storeVars
  <1> DEFINE th == Handler(r)
             t == Target[r]
  <1>1. th \in Threads /\ t \in Tasks
    BY RequestThreads
  <1>2. r \in Artifacts /\ Partial \in Artifacts
    BY StoreUseAssumption
  <1>3. {"working", "completed", "failed", "canceled", "rejected"} \cup AskStates \cup UpdateStates
          \subseteq TaskStates
    BY RequestsAssumption DEF TaskStates, TerminalStates
  <1>4. Continue(th) => StoreNext
    BY <1>1 DEF StoreNext
  <1>5. Begin(th, t) => StoreNext
    BY <1>1 DEF StoreNext
  <1> HIDE DEF th, t
  <1>6. CASE \/ Reject(r) \/ (\E state \in AskStates : Ask(r, state))
             \/ (\E state \in UpdateStates : Update(r, state))
             \/ SetCompleted(r) \/ Fail(r) \/ CancelTask(r) \/ ResumeWorking(r)
    <2>1. \E state \in TaskStates : CallSetState(th, t, state)
      BY <1>3, <1>6 DEF Reject, Ask, Update, SetCompleted, Fail, CancelTask, ResumeWorking, th, t
    <2> QED
      BY <1>1, <1>5, <2>1, ServerCalls
  <1>7. CASE EmitArtifact(r) \/ Complete(r)
    <2>1. \E a \in Artifacts : CallAppendArtifact(th, t, a)
      BY <1>2, <1>7 DEF EmitArtifact, Complete, th, t
    <2> QED
      BY <1>1, <1>5, <2>1, ServerCalls
  <1>8. CASE SuspendHandler(r) \/ AppendReply(r)
    <2>1. Suspend(th, t) \/ \E m \in Messages : CallAppendMessage(th, t, m)
      BY <1>8 DEF SuspendHandler, AppendReply, HandlerAt, ReplyOK, th, t
    <2> QED
      BY <1>1, <1>5, <2>1, ServerCalls
  <1>9. CASE Answered(r) \/ AskRaises(r) \/ Inside(Handler(r)) \/ Publish(Handler(r))
    <2>1. Continue(th)
      BY <1>9 DEF Answered, AskRaises, Inside, Publish, Continue, th
    <2> QED
      BY <1>4, <2>1
  <1>10. CASE \/ Die(r) \/ RunHandler(r) \/ Return(r) \/ ReturnDone(r) \/ Raise(r)
              \/ CheckReturn(r) \/ CheckRaise(r) \/ SuspendRaises(r) \/ Catch(r) \/ Propagate(r)
              \/ ReadPushConfig(r) \/ DeliverPush(r) \/ PushFails(r)
    BY <1>10 DEF Die, RunHandler, Return, ReturnDone, Raise, CheckReturn, CheckRaise, SuspendRaises,
                 Catch, Propagate, ReadPushConfig, DeliverPush, PushFails, HandlerReadThen
  <1> QED
    BY <1>6, <1>7, <1>8, <1>9, <1>10 DEF HandlerStep

(* A handler's step that moves it anywhere but to those two points. *)
LEMMA ReplyFrame ==
  ASSUME ReplyOK, NEW r \in Requests, NEW point \in HandlerPoints \ {"resumed", "append_reply"},
         hpc' = [hpc EXCEPT ![r] = point],
         reply' = reply \/ reply' = [reply EXCEPT ![r] = NoArg]
  PROVE  ReplyOK'
  BY DEF ReplyOK

(* ReplyOK is inductive by itself. *)
LEMMA ReplyStep ==
  ASSUME ReplyOK, [Next]_vars
  PROVE  ReplyOK'
  <1> USE DEF HandlerGoto, HandlerCallThen, HandlerReadThen, HandlerPoints, progress
  <1>1. ASSUME UNCHANGED <<hpc, reply>> PROVE ReplyOK'
    BY <1>1 DEF ReplyOK
  <1>2. ASSUME NEW r \in Requests, RequestStep(r) PROVE ReplyOK'
    <2>1. CASE Spawn(r)
      <3>1. hpc' = [hpc EXCEPT ![r] = "start"] /\ reply' = reply
        BY <2>1 DEF Spawn
      <3> QED
        BY <3>1, ReplyFrame
    <2>2. CASE ~Spawn(r)
      <3>1. UNCHANGED <<hpc, reply>>
        BY <1>2, <2>2
           DEF RequestStep, Arrive, RequestProgress, StartMessage, StartOther, SetPush, CheckInterrupted,
               ResumeHandler, ResumeNobody, AppendMessage, SetWorking, Settle, BeginResponse, Respond,
               RespondGone, Cancel, BeginSnapshot, QueueSnapshot, SnapshotGone, SubscribeStream, Drain,
               CheckFinished, Close, Inside, Publish, SettleDeadline, Disconnect, ReadThen, CallThen,
               serverVars
      <3> QED
        BY <1>1, <3>1
    <2> QED
      BY <2>1, <2>2
  <1>3. ASSUME NEW r \in Requests, HandlerStep(r) PROVE ReplyOK'
    <2>1. CASE Answered(r)
      <3>1. hpc' = [hpc EXCEPT ![r] = "resumed"] /\ reply' = [reply EXCEPT ![r] = call[Handler(r)].arg]
            /\ call[Handler(r)].arg \in Messages
        BY <2>1 DEF Answered
      <3> QED
        BY <3>1 DEF ReplyOK
    <2>2. CASE ResumeWorking(r)
      <3>1. hpc[r] = "resumed" /\ hpc' = [hpc EXCEPT ![r] = "append_reply"] /\ reply' = reply
        BY <2>2 DEF ResumeWorking, HandlerAt
      <3> QED
        BY <3>1 DEF ReplyOK
    <2>3. CASE \/ EmitArtifact(r) \/ (\E state \in UpdateStates : Update(r, state))
               \/ Inside(Handler(r)) \/ Publish(Handler(r))
      <3>1. UNCHANGED <<hpc, reply>>
        BY <2>3 DEF EmitArtifact, Update, CountMove, Inside, Publish, serverVars
      <3> QED
        BY <1>1, <3>1
    <2>4. CASE \/ Reject(r) \/ Die(r) \/ RunHandler(r) \/ (\E state \in AskStates : Ask(r, state))
               \/ Complete(r) \/ SetCompleted(r) \/ Fail(r) \/ CancelTask(r)
               \/ Return(r) \/ ReturnDone(r) \/ Raise(r)
               \/ CheckReturn(r) \/ CheckRaise(r) \/ SuspendHandler(r) \/ SuspendRaises(r)
               \/ AskRaises(r) \/ AppendReply(r) \/ Catch(r) \/ Propagate(r)
               \/ ReadPushConfig(r) \/ DeliverPush(r) \/ PushFails(r)
      <3>1. /\ \E point \in HandlerPoints \ {"resumed", "append_reply"} :
                  hpc' = [hpc EXCEPT ![r] = point]
            /\ reply' = reply \/ reply' = [reply EXCEPT ![r] = NoArg]
        BY <2>4
           DEF Reject, RunHandler, Ask, CountMove, Complete, SetCompleted, Fail, CancelTask,
               HandlerFinishes, Return, Raise, CheckReturn, CheckRaise, SuspendHandler, SuspendRaises,
               AskRaises, AppendReply, Catch, Propagate, ReadPushConfig, DeliverPush,
               Die, ReturnDone, PushFails
      <3> QED
        BY <3>1, ReplyFrame
    <2> QED
      BY <1>3, <2>1, <2>2, <2>3, <2>4 DEF HandlerStep
  <1>4. CASE EnvironmentStep \/ Terminating \/ UNCHANGED vars
    BY <1>1, <1>4 DEF EnvironmentStep, Terminating, vars, serverVars
  <1> QED
    BY <1>2, <1>3, <1>4 DEF Next

(* In the server, the threads use the store exactly as StoreSpec allows: no step
   of a request, of a handler or of its environment reaches past the store's
   calls, so the server implements the store's specification. *)
THEOREM ServerUsesStore == Spec => StoreSpec
  <1>1. Init => StoreInit /\ ReplyOK
    BY DEF Init, ReplyOK, HandlerPoints
  <1>2. ReplyOK /\ [Next]_vars => ReplyOK'
    BY ReplyStep
  <1>3. ReplyOK /\ [Next]_vars => [StoreNext]_storeVars
    <2> SUFFICES ASSUME ReplyOK, [Next]_vars PROVE [StoreNext]_storeVars
      OBVIOUS
    <2>1. ASSUME NEW r \in Requests, RequestStep(r) PROVE [StoreNext]_storeVars
      BY <2>1, RequestSteps
    <2>2. ASSUME NEW r \in Requests, HandlerStep(r) PROVE [StoreNext]_storeVars
      BY <2>2, HandlerSteps
    <2>3. CASE EnvironmentStep \/ Terminating \/ UNCHANGED vars
      BY <2>3 DEF EnvironmentStep, Terminating, vars, StoreNext
    <2> QED
      BY <2>1, <2>2, <2>3 DEF Next
  <1> QED
    BY <1>1, <1>2, <1>3, PTL DEF Spec, StoreSpec

(* Whatever clients send and handlers do, a suspended handler's slot is its own,
   is completed from one side only, once, and always within somebody's reach. *)
THEOREM ServerSlots == Spec => []SlotInv /\ SlotSetOnce
  BY ServerUsesStore, SlotsCorrect, SlotsAreSetOnce, PTL

-----------------------------------------------------------------------------
(* The steps of a request and of its handler, in groups.                    *)

Sending(r) ==
    \/ StartMessage(r) \/ SetPush(r) \/ CheckInterrupted(r) \/ ResumeHandler(r)
    \/ ResumeNobody(r) \/ AppendMessage(r) \/ SetWorking(r) \/ Spawn(r)

Answering(r) ==
    \/ StartOther(r) \/ Cancel(r) \/ Settle(r) \/ SettleDeadline(r)
    \/ BeginResponse(r) \/ Respond(r) \/ RespondGone(r)

Streaming(r) ==
    \/ BeginSnapshot(r) \/ QueueSnapshot(r) \/ SnapshotGone(r) \/ SubscribeStream(r)
    \/ Drain(r) \/ CheckFinished(r) \/ Disconnect(r) \/ Close(r)

Running(r) ==
    \/ Reject(r) \/ Die(r) \/ RunHandler(r)
    \/ EmitArtifact(r) \/ (\E state \in UpdateStates : Update(r, state))
    \/ Return(r) \/ ReturnDone(r) \/ Raise(r) \/ CheckReturn(r) \/ CheckRaise(r)
    \/ ReadPushConfig(r) \/ DeliverPush(r) \/ PushFails(r)

Finishing(r) == Complete(r) \/ SetCompleted(r) \/ Fail(r) \/ CancelTask(r)

Asking(r) ==
    \/ (\E state \in AskStates : Ask(r, state))
    \/ SuspendHandler(r) \/ SuspendRaises(r) \/ Answered(r) \/ AskRaises(r)
    \/ ResumeWorking(r) \/ AppendReply(r) \/ Catch(r) \/ Propagate(r)

Actors(r) == {Request(r), Handler(r)}

(* Every step belongs to one request, or to the environment. *)
LEMMA StepCases ==
  ASSUME [Next]_vars
  PROVE  \/ \E r \in Requests :
               \/ Sending(r) \/ Answering(r) \/ Streaming(r)
               \/ Running(r) \/ Finishing(r) \/ Asking(r)
               \/ \E th \in Actors(r) : Inside(th) \/ Publish(th)
         \/ EnvironmentStep
         \/ UNCHANGED vars
  BY DEF Next, RequestStep, Arrive, RequestProgress, HandlerStep, Terminating,
         Sending, Answering, Streaming, Running, Finishing, Asking, Actors

-----------------------------------------------------------------------------
(* Type correctness.                                                        *)

Events == [kind : {"status", "artifact", "task"}, state : TaskStates \cup {NoArg},
           artifacts : SUBSET Artifacts]

(* TypeOK of the server's own variables, with the queues as sequences. *)
ServerType ==
    /\ pc \in [Requests -> RequestPoints]
    /\ hpc \in [Requests -> HandlerPoints]
    /\ live \in [Requests -> Entries \cup {Null}]
    /\ ops \in [Requests -> 0 .. MaxOps]
    /\ reply \in [Requests -> Requests \cup {NoArg}]
    /\ takers \in [Requests -> SUBSET Requests]
    /\ feed \in [Requests -> Seq(Events)]
    /\ sent \in [Requests -> Nat] /\ \A r \in Requests : sent[r] <= Len(feed[r])
    /\ response \in [Requests -> TaskType]
    /\ pushed \in [Requests -> TaskStates \cup {NoArg}]

-----------------------------------------------------------------------------
(* The program points a request and its handler can be at together.         *)

AfterSpawn(r) ==
    IF Kind[r] = "send" THEN {"settle", "final", "done"}
                        ELSE {"stream", "yielded", "closing", "gone", "done"}

PointsOK(r) ==
    /\ pc[r] \in RequestPoints /\ hpc[r] \in HandlerPoints
    /\ pc[r] \in {"check", "resume", "settle"} => Kind[r] = "send"
    /\ pc[r] \in {"append", "work", "spawn"} => Kind[r] \in {"send", "stream"}
    /\ pc[r] = "push" => Kind[r] \in {"send", "stream", "push_set"}
    /\ pc[r] = "cancel" => Kind[r] = "cancel"
    /\ pc[r] = "snapshot" => Kind[r] = "resubscribe"
    /\ pc[r] \in {"subscribe", "stream", "yielded", "closing", "gone"} =>
          Kind[r] \in {"stream", "resubscribe"}
    /\ hpc[r] # "none" => Kind[r] \in {"send", "stream"} /\ pc[r] \in AfterSpawn(r)

(* The calls a request's thread can be inside of, and at which point. *)
RequestCallOK(r) ==
    LET c == call[Request(r)] IN
    /\ c.at \in {"idle", "copy", "write_state", "broadcast_state", "write_message",
                 "write_push", "resolve", "store"}
    /\ c.at = "copy" => pc[r] \in {"final", "snapshot"}
    /\ c.at \in {"write_state", "broadcast_state"} =>
          \/ pc[r] = "spawn" /\ c.arg = "working"
          \/ pc[r] = "final" /\ c.arg = "canceled"
    /\ c.at = "write_message" => pc[r] \in {"work", "push", "subscribe"} /\ c.arg = r
    /\ c.at = "write_push" =>
          pc[r] \in {"check", "subscribe"} \/ (pc[r] = "done" /\ Kind[r] = "push_set")
    /\ c.at \in {"resolve", "store"} => pc[r] = "settle" /\ hpc[r] = "none" /\ c.arg = r

(* The calls a handler's thread can be inside of: it sleeps exactly while ask()
   does, and only the write that ends its task is made on its way out.        *)
HandlerCallOK(r) ==
    LET c == call[Handler(r)] IN
    /\ c.at \in {"idle", "write_state", "broadcast_state", "write_message",
                 "write_artifact", "broadcast_artifact", "wait", "finally"}
    /\ hpc[r] = "suspended" <=> c.at \in {"wait", "finally"}
    /\ hpc[r] \in {"none", "start"} => c.at = "idle"
    /\ c.at \in {"write_state", "broadcast_state"} =>
          \/ hpc[r] = "push" /\ c.arg \in {"completed", "failed", "canceled"}
          \/ hpc[r] = "done" /\ c.arg = "rejected"
          \/ hpc[r] \in {"suspend", "append_reply"} /\ c.arg \in TaskStates \ TerminalStates
          \/ hpc[r] = "run" /\ c.arg \in TaskStates
    /\ c.at = "write_message" => hpc[r] = "run"
    /\ c.at \in {"write_artifact", "broadcast_artifact"} =>
          \/ hpc[r] \in {"completing", "finishing"} /\ c.arg = r
          \/ hpc[r] = "run" /\ c.arg = Partial

ControlInv == \A r \in Requests : PointsOK(r) /\ RequestCallOK(r) /\ HandlerCallOK(r)

(* The threads of requests are distinct. *)
LEMMA DistinctThreads ==
  ASSUME NEW r \in Requests, NEW x \in Requests
  PROVE  /\ Request(r) # Handler(x)
         /\ Request(r) = Request(x) => r = x
         /\ Handler(r) = Handler(x) => r = x
  BY DEF Request, Handler

(* Request x and its handler are where they were. *)
StaysAt(x) ==
    /\ pc'[x] = pc[x] /\ hpc'[x] = hpc[x]
    /\ call'[Request(x)] = call[Request(x)] /\ call'[Handler(x)] = call[Handler(x)]

(* A thread's step inside the store changes the call of that thread only. *)
LEMMA InStoreCall ==
  ASSUME StoreTypeOK, NEW th \in Threads, Inside(th) \/ Publish(th)
  PROVE  \A x \in Threads \ {th} : call'[x] = call[x]
  BY DEF StoreTypeOK, Inside, Publish, WriteState, WriteMessage, WriteArtifact, WritePush, WriteEntry,
         Broadcast, Wake, TimeOut, TestSlot, Resolve

(* Where such a step takes its call. *)
LEMMA InStoreMoves ==
  ASSUME StoreTypeOK, NEW th \in Threads, Inside(th) \/ Publish(th)
  PROVE  /\ \/ call[th].at = "write_state" /\ call'[th].at = "broadcast_state"
            \/ call[th].at = "write_artifact" /\ call'[th].at = "broadcast_artifact"
            \/ call[th].at = "resolve" /\ call'[th].at = "store"
            \/ call[th].at = "wait" /\ call'[th].at = "finally"
            \/ /\ call[th].at \in {"write_message", "write_push", "broadcast_state",
                                   "broadcast_artifact", "resolve", "store"}
               /\ call'[th] = NoCall
         /\ call'[th] # NoCall =>
               /\ call'[th].ent = call[th].ent /\ call'[th].slot = call[th].slot
               /\ call[th].at # "wait" => call'[th].arg = call[th].arg
  <1> USE DEF NoCall, CallType
  <1>1. call \in [Threads -> CallType]
    BY DEF StoreTypeOK
  <1>2. CASE WriteState(th) \/ WriteMessage(th) \/ WriteArtifact(th) \/ WritePush(th)
    BY <1>1, <1>2 DEF WriteState, WriteMessage, WriteArtifact, WritePush, WriteEntry
  <1>3. CASE Wake(th) \/ TimeOut(th)
    BY <1>1, <1>3 DEF Wake, TimeOut
  <1>4. CASE TestSlot(th) \/ Resolve(th) \/ Broadcast(th)
    BY <1>1, <1>4 DEF TestSlot, Resolve, Broadcast
  <1> QED
    BY <1>2, <1>3, <1>4 DEF Inside, Publish

(* A step of r's threads between calls changes the call of one of them only. *)
LEMMA RequestCall ==
  ASSUME StoreTypeOK, NEW r \in Requests, Sending(r) \/ Answering(r) \/ Streaming(r)
  PROVE  \A x \in Threads \ {Request(r)} : call'[x] = call[x]
  <1> USE DEF StoreTypeOK, ReadThen, storeVars, Lookup, GetBegin, GetEnd
  <1>1. CASE Sending(r)
    BY <1>1 DEF Sending, StartMessage, SetPush, CheckInterrupted, ResumeHandler, ResumeNobody,
                AppendMessage, SetWorking, Spawn, GetOrCreate, CallSetPush, CallResume,
                CallAppendMessage, CallSetState
  <1>2. CASE Answering(r)
    BY <1>2 DEF Answering, StartOther, Cancel, Settle, SettleDeadline, BeginResponse, Respond,
                RespondGone, CallSetState
  <1>3. CASE Streaming(r)
    BY <1>3 DEF Streaming, BeginSnapshot, QueueSnapshot, SnapshotGone, SubscribeStream, Drain,
                CheckFinished, Disconnect, Close, Subscribe, Unsubscribe
  <1> QED
    BY <1>1, <1>2, <1>3

(* A handler's own moves touch no other thread's call. *)
LEMMA HandlerCall ==
  ASSUME StoreTypeOK, NEW r \in Requests, Running(r) \/ Finishing(r) \/ Asking(r)
  PROVE  \A x \in Threads \ {Handler(r)} : call'[x] = call[x]
  <1> USE DEF StoreTypeOK, HandlerReadThen, storeVars, Lookup, CallSetState, CallAppendArtifact
  <1>1. CASE Running(r)
    BY <1>1 DEF Running, Reject, RunHandler, EmitArtifact, Update, Return, Raise, CheckReturn,
                CheckRaise, ReadPushConfig, DeliverPush, Die, ReturnDone, PushFails
  <1>2. CASE Finishing(r)
    BY <1>2 DEF Finishing, Complete, SetCompleted, Fail, CancelTask
  <1>3. CASE Asking(r)
    BY <1>3 DEF Asking, Ask, SuspendHandler, SuspendRaises, Answered, AskRaises, ResumeWorking,
                AppendReply, Catch, Propagate, Suspend, Finally, CallAppendMessage
  <1> QED
    BY <1>1, <1>2, <1>3

(* A step of r moves r's own threads only. *)
LEMMA RequestMoved ==
  ASSUME NEW r \in Requests, Sending(r) \/ Answering(r) \/ Streaming(r)
  PROVE  /\ \E point : pc' = pc \/ pc' = [pc EXCEPT ![r] = point]
         /\ IF Spawn(r) THEN hpc' = [hpc EXCEPT ![r] = "start"] ELSE hpc' = hpc
  <1> USE DEF Goto, ReadThen, CallThen, serverVars
  <1>1. CASE Sending(r)
    BY <1>1 DEF Sending, StartMessage, SetPush, CheckInterrupted, ResumeHandler, ResumeNobody,
                AppendMessage, SetWorking, Spawn
  <1>2. CASE Answering(r)
    BY <1>2 DEF Answering, StartOther, Cancel, Settle, SettleDeadline, BeginResponse, Respond,
                RespondGone, Spawn, At
  <1>3. CASE Streaming(r)
    BY <1>3 DEF Streaming, BeginSnapshot, QueueSnapshot, SnapshotGone, SubscribeStream, Drain,
                CheckFinished, Disconnect, Close, Spawn, At
  <1> QED
    BY <1>1, <1>2, <1>3

(* They move its own program counter and no request's. *)
LEMMA HandlerMoved ==
  ASSUME NEW r \in Requests, Running(r) \/ Finishing(r) \/ Asking(r)
  PROVE  pc' = pc /\ \E point : hpc' = hpc \/ hpc' = [hpc EXCEPT ![r] = point]
  <1> USE DEF HandlerGoto, HandlerReadThen, HandlerCallThen, CountMove
  <1>1. CASE Running(r)
    BY <1>1 DEF Running, Reject, RunHandler, EmitArtifact, Update, Return, Raise, CheckReturn,
                CheckRaise, ReadPushConfig, DeliverPush, Die, ReturnDone, PushFails
  <1>2. CASE Finishing(r)
    BY <1>2 DEF Finishing, Complete, SetCompleted, Fail, CancelTask, HandlerFinishes
  <1>3. CASE Asking(r)
    BY <1>3 DEF Asking, Ask, SuspendHandler, SuspendRaises, Answered, AskRaises, ResumeWorking,
                AppendReply, Catch, Propagate
  <1> QED
    BY <1>1, <1>2, <1>3

(* Such steps are not taken in the middle of another call. *)
LEMMA RequestAt ==
  ASSUME NEW r \in Requests, Sending(r) \/ Answering(r) \/ Streaming(r)
  PROVE  call[Request(r)].at \in {"idle", "copy"}
  BY DEF Sending, StartMessage, SetPush, CheckInterrupted, ResumeHandler, ResumeNobody, AppendMessage,
         SetWorking, Spawn, Answering, StartOther, Cancel, Settle, SettleDeadline, BeginResponse,
         Respond, RespondGone, Streaming, BeginSnapshot, QueueSnapshot, SnapshotGone, SubscribeStream,
         Drain, CheckFinished, Disconnect, Close, At, Idle, GetEnd

(* A handler moves only when its last call of the store has come back. *)
LEMMA HandlerIs ==
  ASSUME NEW r \in Requests, Running(r) \/ Finishing(r) \/ Asking(r)
  PROVE  /\ call[Handler(r)].at = "idle" \/ (call[Handler(r)].at = "finally" /\ (Answered(r) \/ AskRaises(r)))
         /\ hpc[r] # "none"
  BY DEF Running, Reject, RunHandler, EmitArtifact, Update, Return,
         Raise, CheckReturn, CheckRaise, ReadPushConfig, DeliverPush, Die, ReturnDone, PushFails,
         Finishing, Complete, SetCompleted, Fail, CancelTask,
         Asking, Ask, SuspendHandler, SuspendRaises, Answered,
         AskRaises, ResumeWorking, AppendReply, Catch, Propagate, Move, HandlerAt, Idle, Finally

(* A handler that has been started stays started. *)
LEMMA HandlerNotNone ==
  ASSUME ServerType, NEW r \in Requests, Running(r) \/ Finishing(r) \/ Asking(r)
  PROVE  hpc'[r] # "none"
  <1> USE DEF ServerType, HandlerGoto, HandlerReadThen, HandlerCallThen, HandlerAt, HandlerFinishes, Move, CountMove
  <1>1. CASE Running(r)
    BY <1>1 DEF Running, Reject, RunHandler, EmitArtifact, Update, Return, Raise, CheckReturn,
                CheckRaise, ReadPushConfig, DeliverPush, Die, ReturnDone, PushFails
  <1>2. CASE Finishing(r)
    BY <1>2 DEF Finishing, Complete, SetCompleted, Fail, CancelTask
  <1>3. CASE Asking(r)
    BY <1>3 DEF Asking, Ask, SuspendHandler, SuspendRaises, Answered, AskRaises, ResumeWorking,
                AppendReply, Catch, Propagate
  <1> QED
    BY <1>1, <1>2, <1>3

(* A step of r leaves every other request and its handler where they are. *)
LEMMA OthersStay ==
  ASSUME StoreTypeOK, ServerType, NEW r \in Requests, NEW x \in Requests \ {r},
         \/ Sending(r) \/ Answering(r) \/ Streaming(r)
         \/ Running(r) \/ Finishing(r) \/ Asking(r)
         \/ \E th \in Actors(r) : Inside(th) \/ Publish(th)
  PROVE  StaysAt(x)
  <1>1. /\ {Request(x), Handler(x), Request(r), Handler(r)} \subseteq Threads
        /\ Request(x) \notin Actors(r) /\ Handler(x) \notin Actors(r)
    BY RequestThreads, DistinctThreads DEF Actors
  <1>2. CASE Sending(r) \/ Answering(r) \/ Streaming(r)
    BY <1>1, <1>2, RequestCall, RequestMoved DEF StaysAt, ServerType, Actors
  <1>3. CASE Running(r) \/ Finishing(r) \/ Asking(r)
    BY <1>1, <1>3, HandlerCall, HandlerMoved DEF StaysAt, ServerType, Actors
  <1>4. ASSUME NEW th \in Actors(r), Inside(th) \/ Publish(th) PROVE StaysAt(x)
    <2>1. th \in Threads
      BY <1>1 DEF Actors
    <2>2. call'[Request(x)] = call[Request(x)] /\ call'[Handler(x)] = call[Handler(x)]
      BY <1>1, <1>4, <2>1, InStoreCall
    <2>3. UNCHANGED <<pc, hpc>>
      BY <1>4 DEF Inside, Publish, serverVars
    <2> QED
      BY <2>2, <2>3 DEF StaysAt
  <1> QED
    BY <1>2, <1>3, <1>4

(* So does a step of the environment. *)
LEMMA EnvironmentStays ==
  ASSUME EnvironmentStep \/ UNCHANGED vars, NEW x \in Requests
  PROVE  StaysAt(x)
  BY DEF EnvironmentStep, SweeperStep, ShutdownStep, StartSweeper, SweepDue, SweepStop, Sweep, SweepIdle,
         ShutdownBegin, ShutdownCancel, serverVars, vars, storeVars, StaysAt

(* Between calls a request moves from point to point and begins one call. *)
LEMMA RequestControl ==
  ASSUME StoreTypeOK, ServerType, ControlInv, NEW r \in Requests,
         Sending(r) \/ Answering(r) \/ Streaming(r)
  PROVE  (PointsOK(r) /\ RequestCallOK(r) /\ HandlerCallOK(r))'
  <1> DEFINE c == call[Request(r)]
  <1>1. /\ PointsOK(r) /\ RequestCallOK(r) /\ HandlerCallOK(r)
        /\ Request(r) \in Threads /\ Handler(r) \in Threads \ {Request(r)}
        /\ Kind[r] \in Kinds /\ call \in [Threads -> CallType]
    BY RequestThreads, DistinctThreads, RequestsAssumption DEF ControlInv, StoreTypeOK
  <1>2. call'[Handler(r)] = call[Handler(r)]
    BY <1>1, RequestCall
  <1> USE DEF ServerType, PointsOK, RequestPoints, AfterSpawn, Kinds, Goto, ReadThen, CallThen, PushOr,
              AfterSubscribe, At, Idle, progress, serverVars
  <1>3. PointsOK(r)'
    <2>1. CASE Sending(r)
      BY <1>1, <2>1 DEF Sending, StartMessage, SetPush, CheckInterrupted, ResumeHandler, ResumeNobody,
                  AppendMessage, SetWorking, Spawn, HandlerPoints
    <2>2. CASE StartOther(r)
      <3>1. hpc' = hpc /\ hpc[r] = "none"
        BY <1>1, <2>2 DEF StartOther
      <3>2. /\ pc'[r] \in {"done", "final", "cancel", "snapshot", "push"}
            /\ pc'[r] = "push" => Kind[r] = "push_set"
            /\ pc'[r] = "cancel" => Kind[r] = "cancel"
            /\ pc'[r] = "snapshot" => Kind[r] = "resubscribe"
        BY <1>1, <2>2 DEF StartOther
      <3> QED
        BY <1>1, <3>1, <3>2
    <2>3. CASE Answering(r) /\ ~StartOther(r)
      <3>1. Cancel(r) \/ Settle(r) \/ SettleDeadline(r) \/ BeginResponse(r) \/ Respond(r) \/ RespondGone(r)
        BY <2>3 DEF Answering
      <3> QED
        BY <1>1, <3>1 DEF Cancel, Settle, SettleDeadline, BeginResponse, Respond, RespondGone
    <2>4. CASE Streaming(r)
      <3>1. /\ hpc'[r] = hpc[r]
            /\ \/ pc'[r] = pc[r]
               \/ pc[r] = "snapshot" /\ pc'[r] = "subscribe"
               \/ pc[r] = "subscribe" /\ pc'[r] = IF Kind[r] = "stream" THEN "work" ELSE "stream"
               \/ pc[r] \in {"stream", "yielded"} /\ pc'[r] \in {"stream", "yielded", "closing", "gone"}
               \/ pc[r] \in {"closing", "gone"} /\ pc'[r] = "done"
        BY <1>1, <2>4 DEF Streaming, BeginSnapshot, QueueSnapshot, SnapshotGone, SubscribeStream, Drain,
                  CheckFinished, Disconnect, Close
      <3>2. pc[r] = "snapshot" => Kind[r] = "resubscribe"
        BY <1>1
      <3> QED
        BY <1>1, <3>1, <3>2
    <2> QED
      BY <2>1, <2>2, <2>3, <2>4
  <1>4. RequestCallOK(r)'
    <2> USE DEF RequestCallOK, CallType, storeVars, Calling, NoCall, Lookup, GetBegin, GetEnd
    <2>1. CASE Sending(r)
      BY <1>1, <2>1 DEF Sending, StartMessage, SetPush, CheckInterrupted, ResumeHandler, ResumeNobody,
                  AppendMessage, SetWorking, Spawn, GetOrCreate, CallSetPush, CallResume,
                  CallAppendMessage, CallSetState
    <2>2. CASE Answering(r)
      BY <1>1, <2>2 DEF Answering, StartOther, Cancel, Settle, SettleDeadline, BeginResponse, Respond,
                  RespondGone, CallSetState
    <2>3. CASE Streaming(r)
      BY <1>1, <2>3 DEF Streaming, BeginSnapshot, QueueSnapshot, SnapshotGone, SubscribeStream, Drain,
                  CheckFinished, Disconnect, Close, Subscribe, Unsubscribe
    <2> QED
      BY <2>1, <2>2, <2>3
  <1>5. HandlerCallOK(r)'
    <2>1. CASE Spawn(r)
      BY <1>1, <1>2, <2>1, RequestMoved DEF Spawn, HandlerCallOK
    <2>2. CASE ~Spawn(r)
      BY <1>1, <1>2, <2>2, RequestMoved DEF HandlerCallOK
    <2> QED
      BY <2>1, <2>2
  <1> QED
    BY <1>3, <1>4, <1>5

(* So does a handler, which is started after its request has set its task
   working and returns after it has ended its task. *)
LEMMA HandlerControl ==
  ASSUME StoreTypeOK, ServerType, ControlInv, NEW r \in Requests,
         Running(r) \/ Finishing(r) \/ Asking(r)
  PROVE  (PointsOK(r) /\ RequestCallOK(r) /\ HandlerCallOK(r))'
  <1>1. /\ PointsOK(r) /\ RequestCallOK(r) /\ HandlerCallOK(r)
        /\ Handler(r) \in Threads /\ Request(r) \in Threads \ {Handler(r)}
        /\ call \in [Threads -> CallType]
        /\ AskStates \subseteq TaskStates \ TerminalStates
        /\ "working" \in TaskStates \ TerminalStates
        /\ UpdateStates \cup {"completed", "failed", "canceled"} \subseteq TaskStates
        /\ "rejected" \in TerminalStates
    BY RequestThreads, DistinctThreads, RequestsAssumption
       DEF ControlInv, StoreTypeOK, TaskStates, TerminalStates, InterruptedStates
  <1>2. call'[Request(r)] = call[Request(r)] /\ pc' = pc
    BY <1>1, HandlerCall, HandlerMoved
  <1> USE DEF ServerType, HandlerPoints, HandlerGoto, HandlerReadThen, HandlerCallThen, HandlerAt, Idle,
              HandlerFinishes, Move, CountMove
  <1>3. hpc[r] # "none" /\ hpc'[r] \in HandlerPoints \ {"none"}
    <2>1. CASE Running(r)
      BY <2>1 DEF Running, Reject, RunHandler, EmitArtifact, Update, Return, Raise, CheckReturn,
                CheckRaise, ReadPushConfig, DeliverPush, Die, ReturnDone, PushFails
    <2>2. CASE Finishing(r)
      BY <2>2 DEF Finishing, Complete, SetCompleted, Fail, CancelTask
    <2>3. CASE Asking(r)
      BY <2>3 DEF Asking, Ask, SuspendHandler, SuspendRaises, Answered, AskRaises, ResumeWorking,
                AppendReply, Catch, Propagate
    <2> QED
      BY <2>1, <2>2, <2>3
  <1>4. PointsOK(r)' /\ RequestCallOK(r)'
    BY <1>1, <1>2, <1>3 DEF PointsOK, AfterSpawn, RequestCallOK
  <1>5. HandlerCallOK(r)'
    <2> USE DEF HandlerCallOK, CallType, storeVars, Calling, NoCall, Lookup, CallSetState, CallAppendArtifact
    <2>1. CASE Running(r)
      BY <1>1, <2>1 DEF Running, Reject, RunHandler, EmitArtifact, Update, Return, Raise, CheckReturn,
                CheckRaise, ReadPushConfig, DeliverPush, Die, ReturnDone, PushFails
    <2>2. CASE Finishing(r)
      BY <1>1, <2>2 DEF Finishing, Complete, SetCompleted, Fail, CancelTask
    <2>3. CASE Asking(r)
      BY <1>1, <2>3 DEF Asking, Ask, SuspendHandler, SuspendRaises, Answered, AskRaises, ResumeWorking,
                AppendReply, Catch, Propagate, Suspend, Finally, CallAppendMessage
    <2> QED
      BY <2>1, <2>2, <2>3
  <1> QED
    BY <1>4, <1>5

(* The steps inside a call lead to the end of that call. *)
LEMMA InStoreControl ==
  ASSUME StoreTypeOK, ServerType, ControlInv, NEW r \in Requests, NEW th \in Actors(r),
         Inside(th) \/ Publish(th)
  PROVE  (PointsOK(r) /\ RequestCallOK(r) /\ HandlerCallOK(r))'
  <1>1. /\ PointsOK(r) /\ RequestCallOK(r) /\ HandlerCallOK(r)
        /\ Handler(r) \in Threads /\ Request(r) \in Threads /\ Request(r) # Handler(r)
        /\ call \in [Threads -> CallType]
    BY RequestThreads, DistinctThreads DEF ControlInv, StoreTypeOK
  <1>2. UNCHANGED <<pc, hpc>>
    BY DEF Inside, Publish, serverVars
  <1>3. PointsOK(r)'
    BY <1>1, <1>2 DEF PointsOK, AfterSpawn
  <1>4. CASE th = Request(r)
    <2>1. call'[Handler(r)] = call[Handler(r)]
      BY <1>1, <1>4, InStoreCall
    <2>2. RequestCallOK(r)'
      BY <1>1, <1>2, <1>4, InStoreMoves DEF RequestCallOK, NoCall
    <2> QED
      BY <1>1, <1>2, <1>3, <2>1, <2>2 DEF HandlerCallOK
  <1>5. CASE th = Handler(r)
    <2>1. call'[Request(r)] = call[Request(r)]
      BY <1>1, <1>5, InStoreCall
    <2>2. HandlerCallOK(r)'
      BY <1>1, <1>2, <1>5, InStoreMoves DEF HandlerCallOK, NoCall
    <2> QED
      BY <1>1, <1>2, <1>3, <2>1, <2>2 DEF RequestCallOK
  <1> QED
    BY <1>4, <1>5 DEF Actors

(* ControlInv is inductive, given the types. *)
LEMMA ControlStep ==
  ASSUME StoreTypeOK, ServerType, ControlInv, [Next]_vars
  PROVE  ControlInv'
  <1>1. ASSUME NEW x \in Requests, StaysAt(x)
        PROVE  (PointsOK(x) /\ RequestCallOK(x) /\ HandlerCallOK(x))'
    BY <1>1 DEF ControlInv, StaysAt, PointsOK, AfterSpawn, RequestCallOK, HandlerCallOK
  <1>2. ASSUME NEW r \in Requests,
               \/ Sending(r) \/ Answering(r) \/ Streaming(r)
               \/ Running(r) \/ Finishing(r) \/ Asking(r)
               \/ \E th \in Actors(r) : Inside(th) \/ Publish(th)
        PROVE  ControlInv'
    <2>1. (PointsOK(r) /\ RequestCallOK(r) /\ HandlerCallOK(r))'
      BY <1>2, RequestControl, HandlerControl, InStoreControl
    <2>2. \A x \in Requests \ {r} : StaysAt(x)
      BY <1>2, OthersStay
    <2> QED
      BY <1>1, <2>1, <2>2 DEF ControlInv
  <1>3. CASE EnvironmentStep \/ UNCHANGED vars
    BY <1>1, <1>3, EnvironmentStays DEF ControlInv
  <1> QED
    BY <1>2, <1>3, StepCases

(* The steps of message/send and message/stream up to the handler's start. *)
LEMMA SendingType ==
  ASSUME StoreTypeOK, StoreTypeOK', ServerType, NEW r \in Requests, Sending(r)
  PROVE  ServerType'
  <1> USE DEF Goto, ReadThen, CallThen, PushOr, progress
  <1>1. pc' \in [Requests -> RequestPoints]
    BY DEF ServerType, RequestPoints, Sending, StartMessage, SetPush, CheckInterrupted,
           ResumeHandler, ResumeNobody, AppendMessage, SetWorking, Spawn
  <1>2. hpc' \in [Requests -> HandlerPoints]
    BY DEF ServerType, HandlerPoints, Sending, StartMessage, SetPush, CheckInterrupted,
           ResumeHandler, ResumeNobody, AppendMessage, SetWorking, Spawn
  <1>3. live' \in [Requests -> Entries \cup {Null}]
    BY RequestThreads DEF ServerType, StoreTypeOK, Sending, StartMessage, SetPush, CheckInterrupted,
           ResumeHandler, ResumeNobody, AppendMessage, SetWorking, Spawn
  <1>4. UNCHANGED <<ops, reply, takers, feed, sent, response, pushed>>
    BY DEF Sending, StartMessage, SetPush, CheckInterrupted,
           ResumeHandler, ResumeNobody, AppendMessage, SetWorking, Spawn
  <1> QED
    BY <1>1, <1>2, <1>3, <1>4 DEF ServerType

(* A copy that get() returns is a task. *)
LEMMA SnapshotType ==
  ASSUME StoreTypeOK, NEW th \in Threads, GetEnd(th)
  PROVE  Snapshot(th) \in TaskType
  <1>1. call[th] \in CallType /\ CallOK(call[th]) /\ call[th].at = "copy"
    BY DEF StoreTypeOK, GetEnd
  <1>2. call[th].ent \in Entries /\ call[th].arg \in TaskStates
    BY <1>1 DEF CallOK, CallType
  <1>3. entry[call[th].ent] \in EntryType
    BY <1>2 DEF StoreTypeOK
  <1> QED
    BY <1>2, <1>3 DEF Snapshot, TaskType, EntryType

(* The state a status read returns. *)
LEMMA StateOfType ==
  ASSUME StoreTypeOK, NEW t \in Tasks
  PROVE  StateOf(t) \in TaskStates \cup {NoArg}
  BY DEF StoreTypeOK, StateOf, Registered, EntryType

(* The steps that answer a request. *)
LEMMA AnsweringType ==
  ASSUME StoreTypeOK, ServerType, NEW r \in Requests, Answering(r)
  PROVE  ServerType'
  <1> USE DEF Goto, ReadThen, CallThen, progress, serverVars
  <1>1. pc' \in [Requests -> RequestPoints]
    BY RequestsAssumption
       DEF ServerType, RequestPoints, Kinds, Answering, StartOther, Cancel, Settle, SettleDeadline,
           BeginResponse, Respond, RespondGone
  <1>2. response' \in [Requests -> TaskType]
    <2>1. CASE Respond(r)
      <3>1. Snapshot(Request(r)) \in TaskType
        BY <2>1, RequestThreads, SnapshotType DEF Respond
      <3>2. response' = [response EXCEPT ![r] = Snapshot(Request(r))]
        BY <2>1 DEF Respond
      <3> QED
        BY <3>1, <3>2 DEF ServerType
    <2>2. CASE ~Respond(r)
      <3>1. response' = response
        BY <2>2 DEF Answering, StartOther, Cancel, Settle, SettleDeadline, BeginResponse, RespondGone
      <3> QED
        BY <3>1 DEF ServerType
    <2> QED
      BY <2>1, <2>2
  <1>3. UNCHANGED <<hpc, live, ops, reply, takers, feed, sent, pushed>>
    BY DEF Answering, StartOther, Cancel, Settle, SettleDeadline,
           BeginResponse, Respond, RespondGone
  <1> QED
    BY <1>1, <1>2, <1>3 DEF ServerType

(* An event more on a queue. *)
LEMMA FeedGrows ==
  ASSUME NEW q \in Seq(Events), NEW ev \in Events
  PROVE  /\ Append(q, ev) \in Seq(Events)
         /\ Len(Append(q, ev)) = Len(q) + 1
         /\ \A i \in DOMAIN q : i \in DOMAIN Append(q, ev) /\ Append(q, ev)[i] = q[i]
         /\ Append(q, ev)[Len(q) + 1] = ev
         /\ DOMAIN q = 1 .. Len(q) /\ DOMAIN Append(q, ev) = 1 .. (Len(q) + 1) /\ Len(q) \in Nat
  OBVIOUS

(* The steps of a stream. *)
LEMMA StreamingType ==
  ASSUME StoreTypeOK, ServerType, NEW r \in Requests, Streaming(r)
  PROVE  ServerType'
  <1> USE DEF Goto, ReadThen, CallThen, progress, serverVars
  <1>1. pc' \in [Requests -> RequestPoints]
    BY DEF ServerType, RequestPoints, AfterSubscribe, Streaming, BeginSnapshot, QueueSnapshot,
           SnapshotGone, SubscribeStream, Drain, CheckFinished, Disconnect, Close
  <1>2. UNCHANGED <<hpc, live, ops, reply, takers, response, pushed>>
    BY DEF Streaming, BeginSnapshot, QueueSnapshot, SnapshotGone, SubscribeStream, Drain,
           CheckFinished, Disconnect, Close
  <1>3. /\ feed' \in [Requests -> Seq(Events)]
        /\ sent' \in [Requests -> Nat] /\ \A x \in Requests : sent'[x] <= Len(feed'[x])
    <2>1. CASE QueueSnapshot(r)
      <3> DEFINE ev == TaskEvent(Snapshot(Request(r)))
      <3>1. ev \in Events
        BY <2>1, RequestThreads, SnapshotType DEF QueueSnapshot, TaskEvent, TaskType, Events
      <3>2. feed' = [feed EXCEPT ![r] = Append(feed[r], ev)] /\ sent' = sent
        BY <2>1 DEF QueueSnapshot
      <3> HIDE DEF ev
      <3>3. feed[r] \in Seq(Events)
        BY DEF ServerType
      <3> QED
        BY <3>1, <3>2, <3>3, FeedGrows DEF ServerType
    <2>2. CASE Drain(r)
      <3>1. feed' = feed /\ sent' = [sent EXCEPT ![r] = Len(feed[r])]
        BY <2>2 DEF Drain
      <3>2. Len(feed[r]) \in Nat
        BY DEF ServerType
      <3> QED
        BY <3>1, <3>2 DEF ServerType
    <2>3. CASE UNCHANGED <<feed, sent>>
      BY <2>3 DEF ServerType
    <2>4. QueueSnapshot(r) \/ Drain(r) \/ UNCHANGED <<feed, sent>>
      BY DEF Streaming, BeginSnapshot, SnapshotGone, SubscribeStream, CheckFinished, Disconnect, Close
    <2> QED
      BY <2>1, <2>2, <2>3, <2>4
  <1> QED
    BY <1>1, <1>2, <1>3 DEF ServerType

(* What a call broadcasts is an event. *)
LEMMA EventType ==
  ASSUME ControlInv, NEW r \in Requests, NEW th \in Actors(r), Broadcast(th)
  PROVE  EventOf(call[th]) \in Events
  <1>1. CASE call[th].at = "broadcast_state"
    <2>1. call[th].arg \in TaskStates
      BY <1>1 DEF ControlInv, RequestCallOK, HandlerCallOK, Actors, TaskStates, TerminalStates
    <2> QED
      BY <1>1, <2>1 DEF EventOf, StatusEvent, Events
  <1>2. CASE call[th].at = "broadcast_artifact"
    <2>1. call[th].arg \in Artifacts
      BY <1>2, StoreUseAssumption DEF ControlInv, RequestCallOK, HandlerCallOK, Actors
    <2> QED
      BY <1>2, <2>1 DEF EventOf, ArtifactEvent, Events
  <1> QED
    BY <1>1, <1>2 DEF Broadcast

(* The steps of a call, and an event put on the queues. *)
LEMMA InStoreType ==
  ASSUME ControlInv, ServerType, NEW r \in Requests, NEW th \in Actors(r),
         Inside(th) \/ Publish(th)
  PROVE  ServerType'
  <1>1. CASE Inside(th)
    BY <1>1 DEF Inside, ServerType, serverVars
  <1>2. CASE Publish(th)
    <2>1. EventOf(call[th]) \in Events
      BY <1>2, EventType DEF Publish
    <2>2. feed' = [x \in Requests |-> IF Request(x) \in entry[call[th].ent].subs
                                      THEN Append(feed[x], EventOf(call[th])) ELSE feed[x]]
      BY <1>2 DEF Publish
    <2> HIDE DEF EventOf
    <2>3. ASSUME NEW x \in Requests
          PROVE  feed'[x] \in Seq(Events) /\ sent[x] <= Len(feed'[x])
      BY <2>1, <2>2, FeedGrows DEF ServerType
    <2>4. UNCHANGED <<pc, hpc, live, ops, reply, takers, sent, response, pushed>>
      BY <1>2 DEF Publish
    <2>5. feed' \in [Requests -> Seq(Events)]
      BY <2>2, <2>3
    <2> QED
      BY <2>3, <2>4, <2>5 DEF ServerType
  <1> QED
    BY <1>1, <1>2

(* A handler leaves to the request what is the request's. *)
LEMMA HandlerKeeps ==
  ASSUME NEW r \in Requests, Running(r) \/ Finishing(r) \/ Asking(r)
  PROVE  UNCHANGED <<pc, live, feed, sent, response>>
  BY DEF HandlerGoto, HandlerReadThen, HandlerCallThen, progress,
         Running, Reject, RunHandler, EmitArtifact, Update, Return,
         Raise, CheckReturn, CheckRaise, ReadPushConfig, DeliverPush, Die, ReturnDone, PushFails,
         Finishing, Complete, SetCompleted, Fail, CancelTask, HandlerFinishes,
         Asking, Ask, SuspendHandler, SuspendRaises, Answered,
         AskRaises, ResumeWorking, AppendReply, Catch, Propagate, CountMove

(* And a request to the handler what is the handler's. *)
LEMMA RequestKeeps ==
  ASSUME NEW r \in Requests, Sending(r) \/ Answering(r) \/ Streaming(r)
  PROVE  /\ UNCHANGED <<ops, reply, takers, pushed>>
         /\ ~StartMessage(r) => UNCHANGED live
  <1> USE DEF Goto, ReadThen, CallThen, progress, serverVars
  <1>1. CASE Sending(r)
    BY <1>1 DEF Sending, StartMessage, SetPush, CheckInterrupted, ResumeHandler, ResumeNobody,
                AppendMessage, SetWorking, Spawn
  <1>2. CASE Answering(r)
    BY <1>2 DEF Answering, StartOther, Cancel, Settle, SettleDeadline, BeginResponse, Respond,
                RespondGone
  <1>3. CASE Streaming(r)
    BY <1>3 DEF Streaming, BeginSnapshot, QueueSnapshot, SnapshotGone, SubscribeStream, Drain,
                CheckFinished, Disconnect, Close
  <1> QED
    BY <1>1, <1>2, <1>3

(* The moves of a handler. *)
LEMMA HandlerType ==
  ASSUME StoreTypeOK, ServerType, NEW r \in Requests, Running(r) \/ Finishing(r) \/ Asking(r)
  PROVE  ServerType'
  <1> USE DEF HandlerGoto, HandlerReadThen, HandlerCallThen, progress
  <1>1. hpc' \in [Requests -> HandlerPoints]
    <2>1. CASE Running(r)
      BY <2>1 DEF ServerType, HandlerPoints, Running, Reject, RunHandler, EmitArtifact, Update, Return,
                  Raise, CheckReturn, CheckRaise, ReadPushConfig, DeliverPush, Die, ReturnDone, PushFails
    <2>2. CASE Finishing(r)
      BY <2>2 DEF ServerType, HandlerPoints, Finishing, Complete, SetCompleted, Fail, CancelTask,
                  HandlerFinishes
    <2>3. CASE Asking(r)
      BY <2>3 DEF ServerType, HandlerPoints, Asking, Ask, SuspendHandler, SuspendRaises, Answered,
                  AskRaises, ResumeWorking, AppendReply, Catch, Propagate
    <2> QED
      BY <2>1, <2>2, <2>3
  <1>2. UNCHANGED <<pc, live, feed, sent, response>>
    BY HandlerKeeps
  <1>3. ops' \in [Requests -> 0 .. MaxOps]
    <2>1. \/ ops' = ops
          \/ ops[r] < MaxOps /\ ops' = [ops EXCEPT ![r] = ops[r] + 1]
      BY DEF Running, Reject, RunHandler, EmitArtifact, Update, Return,
             Raise, CheckReturn, CheckRaise, ReadPushConfig, DeliverPush, Die, ReturnDone, PushFails,
             Finishing, Complete, SetCompleted, Fail, CancelTask, HandlerFinishes,
             Asking, Ask, SuspendHandler, SuspendRaises, Answered,
             AskRaises, ResumeWorking, AppendReply, Catch, Propagate, CountMove
    <2>2. ops[r] \in 0 .. MaxOps /\ MaxOps \in Nat
      BY RequestsAssumption DEF ServerType
    <2>3. ops[r] < MaxOps => ops[r] + 1 \in 0 .. MaxOps
      BY <2>2
    <2> QED
      BY <2>1, <2>3 DEF ServerType
  <1>4. reply' \in [Requests -> Requests \cup {NoArg}] /\ takers' \in [Requests -> SUBSET Requests]
    <2>1. CASE Answered(r)
      BY <2>1, StoreUseAssumption DEF Answered, ServerType
    <2>2. CASE AppendReply(r)
      BY <2>2 DEF AppendReply, ServerType
    <2>5. CASE RunHandler(r)
      BY <2>5 DEF RunHandler, ServerType
    <2>3. CASE UNCHANGED <<reply, takers>>
      BY <2>3 DEF ServerType
    <2>4. Answered(r) \/ AppendReply(r) \/ RunHandler(r) \/ UNCHANGED <<reply, takers>>
      BY DEF Running, Reject, EmitArtifact, Update, Return,
             Raise, CheckReturn, CheckRaise, ReadPushConfig, DeliverPush, Die, ReturnDone, PushFails,
             Finishing, Complete, SetCompleted, Fail, CancelTask, HandlerFinishes,
             Asking, Ask, SuspendHandler, SuspendRaises,
             AskRaises, ResumeWorking, Catch, Propagate, CountMove
    <2> QED
      BY <2>1, <2>2, <2>3, <2>4, <2>5
  <1>5. pushed' \in [Requests -> TaskStates \cup {NoArg}]
    <2>1. CASE DeliverPush(r)
      BY <2>1, RequestThreads, StateOfType DEF DeliverPush, ServerType
    <2>2. CASE ~DeliverPush(r)
      <3>1. pushed' = pushed
        BY <2>2 DEF Running, Reject, RunHandler, EmitArtifact, Update, Return,
             Raise, CheckReturn, CheckRaise, ReadPushConfig, Die, ReturnDone, PushFails,
             Finishing, Complete, SetCompleted, Fail, CancelTask, HandlerFinishes,
             Asking, Ask, SuspendHandler, SuspendRaises, Answered,
             AskRaises, ResumeWorking, AppendReply, Catch, Propagate, CountMove
      <3> QED
        BY <3>1 DEF ServerType
    <2> QED
      BY <2>1, <2>2
  <1> QED
    BY <1>1, <1>2, <1>3, <1>4, <1>5 DEF ServerType

(* The server's invariant on which the others rest. *)
ServerInv == StoreTypeOK /\ SlotInv /\ ServerType /\ ControlInv

(* The initial state. *)
LEMMA ServerInit == Init => ServerType /\ ControlInv
  <1> SUFFICES ASSUME Init PROVE ServerType /\ ControlInv
    OBVIOUS
  <1>1. ServerType
    BY RequestsAssumption
       DEF Init, ServerType, RequestPoints, HandlerPoints, NoTask, TaskType
  <1>2. ControlInv
    BY RequestThreads
       DEF Init, StoreInit, NoCall, ControlInv, PointsOK, RequestPoints, HandlerPoints, RequestCallOK,
           HandlerCallOK
  <1> QED
    BY <1>1, <1>2

(* ServerType is inductive, given where the threads are. *)
LEMMA ServerTypeStep ==
  ASSUME StoreTypeOK, StoreTypeOK', ServerType, ControlInv, [Next]_vars
  PROVE  ServerType'
  <1>1. CASE EnvironmentStep \/ UNCHANGED vars
    BY <1>1 DEF EnvironmentStep, vars, serverVars, ServerType
  <1> QED
    BY <1>1, StepCases, SendingType, AnsweringType, StreamingType, HandlerType, InStoreType

(* The store's guarantees and the server's own hold together. *)
THEOREM ServerCorrect == Spec => []ServerInv
  <1>1. Spec => [](StoreTypeOK /\ SlotInv)
    BY ServerUsesStore, TypeCorrect, ServerSlots, PTL
  <1>2. StoreTypeOK /\ StoreTypeOK' /\ ServerType /\ ControlInv /\ [Next]_vars
          => (ServerType /\ ControlInv)'
    BY ControlStep, ServerTypeStep
  <1> QED
    BY <1>1, <1>2, ServerInit, PTL DEF Spec, ServerInv

(* The server never holds a value it cannot hold: every point, task, event and
   notification is one of those the code has, and no stream has yielded more events
   than its queue was given. *)
THEOREM ServerTypeCorrect == Spec => []TypeOK
  <1>1. ServerInv => TypeOK
    <2> SUFFICES ASSUME ServerInv PROVE TypeOK
      OBVIOUS
    <2>1. ASSUME NEW r \in Requests, NEW i \in DOMAIN feed[r] PROVE IsEvent(feed[r][i])
      <3>1. feed[r][i] \in Events
        BY <2>1 DEF ServerInv, ServerType
      <3> QED
        BY <3>1 DEF Events, IsEvent
    <2>2. ASSUME NEW r \in Requests PROVE sent[r] \in 0 .. Len(feed[r])
      BY DEF ServerInv, ServerType
    <2> QED
      BY <2>1, <2>2 DEF ServerInv, ServerType, TypeOK
  <1> QED
    BY <1>1, ServerCorrect, PTL

-----------------------------------------------------------------------------
(* Where a message can be: with a handler of its own, in the slot of a
   suspended handler, or on its way there, and never in two of these places. *)

(* The resume that carries r is the only holder of r. *)
CarriedOnce ==
    \A r \in Requests : Resolving(Request(r)) =>
        takers[r] = {} /\ \A s \in Slots : slot[s] # r

(* A message in a slot is a message/send that was not dispatched, is in no other
   slot, and once it was taken nobody is suspended on the slot it was in. *)
SlottedOnce ==
    \A r \in Requests : \A s \in Slots : slot[s] = r =>
        /\ Kind[r] = "send" /\ hpc[r] = "none" /\ pc[r] \in {"settle", "final", "done"}
        /\ \A s2 \in Slots : slot[s2] = r => s2 = s
        /\ takers[r] # {} =>
              \A h \in Requests : InSuspend(Handler(h)) => call[Handler(h)].slot # s

(* A wait that has returned did so with the value of its slot, or timed out. *)
WokenWithSlot ==
    \A h \in Requests : call[Handler(h)].at = "finally" =>
        \/ call[Handler(h)].arg = TimedOut
        \/ /\ call[Handler(h)].arg = slot[call[Handler(h)].slot]
           /\ slot[call[Handler(h)].slot] # Unset

(* A dispatched message is its own handler's; another was in a slot. *)
TakenOnce ==
    \A r \in Requests :
        /\ \A a, b \in takers[r] : a = b
        /\ takers[r] \subseteq Requests
        /\ hpc[r] = "start" => takers[r] = {}
        /\ hpc[r] = "none" /\ takers[r] # {} => \E s \in Slots : slot[s] = r
        /\ hpc[r] \notin {"none", "start"} /\ r \in Readable => takers[r] # {}

HandoverInv == CarriedOnce /\ SlottedOnce /\ WokenWithSlot /\ TakenOnce

(* x neither takes nor gives a message away: its handler starts, runs or sleeps on,
   and a request that waits for the answer waits on. *)
PassesBy(x) ==
    /\ pc[x] \in {"settle", "final", "done"} => pc'[x] \in {"settle", "final", "done"}
    /\ hpc'[x] = "none" => hpc[x] = "none"
    /\ hpc[x] = "none" => hpc'[x] \in {"none", "start"}
    /\ hpc'[x] = "start" => hpc[x] = "start" \/ pc[x] = "spawn"
    /\ hpc'[x] \notin {"none", "start"} => hpc[x] \notin {"none", "start"} \/ x \notin Readable
    /\ Resolving(Request(x))' => Resolving(Request(x))
    /\ InSuspend(Handler(x))' => call'[Handler(x)] = call[Handler(x)]

(* Requests and handlers that pass by keep the invariant. *)
LEMMA HandoverFrame ==
  ASSUME ControlInv, HandoverInv, UNCHANGED <<slot, takers>>, \A x \in Requests : PassesBy(x)
  PROVE  HandoverInv'
  <1>1. CarriedOnce'
    BY DEF HandoverInv, CarriedOnce, PassesBy
  <1>2. ASSUME NEW r \in Requests, NEW s \in Slots, slot[s] = r
        PROVE  hpc'[r] = "none" /\ pc'[r] \in {"settle", "final", "done"}
    BY <1>2 DEF HandoverInv, SlottedOnce, PassesBy
  <1>3. SlottedOnce'
    BY <1>2 DEF HandoverInv, SlottedOnce, PassesBy, InSuspend
  <1>4. WokenWithSlot'
    BY DEF HandoverInv, WokenWithSlot, PassesBy, InSuspend
  <1>5. ASSUME NEW r \in Requests, hpc'[r] = "start" PROVE takers[r] = {}
    BY <1>5 DEF HandoverInv, SlottedOnce, TakenOnce, PassesBy, ControlInv, PointsOK, AfterSpawn
  <1>6. TakenOnce'
    BY <1>5 DEF HandoverInv, TakenOnce, PassesBy
  <1> QED
    BY <1>1, <1>3, <1>4, <1>6 DEF HandoverInv

(* A request whose threads stay where they are disturbs nobody's message. *)
LEMMA StaysPassesBy ==
  ASSUME NEW x \in Requests, StaysAt(x)
  PROVE  PassesBy(x)
  BY DEF StaysAt, PassesBy, Resolving, InSuspend

(* A request that does not resume a handler passes by. *)
LEMMA RequestPassesBy ==
  ASSUME StoreTypeOK, ServerType, ControlInv, NEW r \in Requests,
         Sending(r) \/ Answering(r) \/ Streaming(r), ~ResumeHandler(r)
  PROVE  PassesBy(r) /\ UNCHANGED <<slot, takers>>
  <1>1. /\ PointsOK(r) /\ RequestCallOK(r) /\ HandlerCallOK(r)
        /\ Request(r) \in Threads /\ Handler(r) \in Threads \ {Request(r)}
    BY RequestThreads, DistinctThreads DEF ControlInv
  <1>2. call'[Handler(r)] = call[Handler(r)]
    BY <1>1, RequestCall
  <1>3. /\ hpc' = hpc \/ (pc[r] = "spawn" /\ hpc' = [hpc EXCEPT ![r] = "start"])
        /\ pc[r] = "spawn" => hpc[r] = "none"
    <2>1. Spawn(r) => pc[r] = "spawn"
      BY DEF Spawn, At
    <2>2. pc[r] = "spawn" => hpc[r] = "none"
      BY <1>1 DEF PointsOK, AfterSpawn
    <2> QED
      BY <2>1, <2>2, RequestMoved
  <1> USE DEF ServerType, StoreTypeOK, Goto, ReadThen, CallThen, PushOr, AfterSubscribe, At, Idle, Resolving,
              progress, serverVars, storeVars, Calling, NoCall, Lookup, GetBegin, GetEnd
  <1>4. CASE Sending(r)
    <2>1. /\ pc[r] \notin {"settle", "final", "done"}
          /\ ~Resolving(Request(r))'
          /\ UNCHANGED <<slot, takers>>
      BY <1>1, <1>4 DEF Sending, StartMessage, SetPush, CheckInterrupted, ResumeNobody, AppendMessage,
                  SetWorking, Spawn, GetOrCreate, CallSetPush, CallAppendMessage, CallSetState
    <2> QED
      BY <1>2, <1>3, <2>1 DEF PassesBy, InSuspend
  <1>5. CASE Answering(r)
    <2>1. /\ pc[r] \in {"settle", "final", "done"} => pc'[r] \in {"settle", "final", "done"}
          /\ ~Resolving(Request(r))'
          /\ pc[r] # "spawn"
          /\ UNCHANGED <<slot, takers>>
      BY <1>1, <1>5 DEF Answering, StartOther, Cancel, Settle, SettleDeadline, BeginResponse, Respond,
                  RespondGone, CallSetState
    <2> QED
      BY <1>2, <1>3, <2>1 DEF PassesBy, InSuspend
  <1>6. CASE Streaming(r)
    <2>1. /\ pc[r] \notin {"settle", "final", "done", "spawn"}
          /\ ~Resolving(Request(r))'
          /\ UNCHANGED <<slot, takers>>
      BY <1>1, <1>6 DEF Streaming, BeginSnapshot, QueueSnapshot, SnapshotGone, SubscribeStream, Drain,
                CheckFinished, Disconnect, Close, Subscribe, Unsubscribe
    <2> QED
      BY <1>2, <1>3, <2>1 DEF PassesBy, InSuspend
  <1> QED
    BY <1>4, <1>5, <1>6

(* So does a handler that is not given a message and does not go to sleep. *)
LEMMA HandlerPassesBy ==
  ASSUME StoreTypeOK, ServerType, ControlInv, NEW r \in Requests,
         Running(r) \/ Finishing(r) \/ Asking(r),
         ~RunHandler(r), ~SuspendHandler(r), ~Answered(r)
  PROVE  PassesBy(r) /\ UNCHANGED <<slot, takers>>
  <1>1. /\ Handler(r) \in Threads /\ Request(r) \in Threads \ {Handler(r)}
    BY RequestThreads, DistinctThreads
  <1>2. call'[Request(r)] = call[Request(r)] /\ pc' = pc
    BY <1>1, HandlerCall, HandlerMoved
  <1> USE DEF ServerType, StoreTypeOK, HandlerGoto, HandlerReadThen, HandlerCallThen, HandlerAt, Idle, InSuspend,
              HandlerFinishes, Move, CountMove, storeVars, Calling, NoCall, Lookup, CallSetState,
              CallAppendArtifact, CallAppendMessage, progress
  <1>3. /\ ~InSuspend(Handler(r))'
        /\ hpc[r] # "none" /\ hpc'[r] \notin {"none", "start"}
        /\ hpc[r] = "start" => r \notin Readable
        /\ UNCHANGED <<slot, takers>>
    <2>1. CASE Running(r)
      BY <1>1, <2>1 DEF Running, Reject, RunHandler, EmitArtifact, Update, Return, Raise, CheckReturn,
                  CheckRaise, ReadPushConfig, DeliverPush, Die, ReturnDone, PushFails, Readable
    <2>2. CASE Finishing(r)
      BY <1>1, <2>2 DEF Finishing, Complete, SetCompleted, Fail, CancelTask
    <2>3. CASE Asking(r)
      BY <1>1, <2>3 DEF Asking, Ask, SuspendRaises, AskRaises, ResumeWorking, AppendReply, Catch,
                  Propagate, Finally
    <2> QED
      BY <2>1, <2>2, <2>3
  <1> QED
    BY <1>2, <1>3 DEF PassesBy, Resolving

(* Nor does a call under way pass a message on, unless it wakes a handler or stores
   the message in a slot. *)
LEMMA CallPassesBy ==
  ASSUME StoreTypeOK, NEW r \in Requests, NEW th \in Actors(r), Inside(th) \/ Publish(th),
         ~Wake(th), ~TimeOut(th), ~Resolve(th)
  PROVE  PassesBy(r) /\ UNCHANGED <<slot, takers>>
  <1>1. /\ {Request(r), Handler(r)} \subseteq Threads /\ Request(r) # Handler(r)
        /\ th \in Threads
    BY RequestThreads, DistinctThreads DEF Actors
  <1>2. \A x \in Threads \ {th} : call'[x] = call[x]
    BY <1>1, InStoreCall
  <1>3. UNCHANGED <<pc, hpc, slot, takers>>
    BY DEF Inside, Publish, serverVars, WriteState, WriteMessage, WriteArtifact, WritePush, WriteEntry,
           Broadcast, TestSlot
  <1>4. /\ Resolving(th)' => Resolving(th)
        /\ ~InSuspend(th)'
    BY <1>1 DEF Inside, Publish, WriteState, WriteMessage, WriteArtifact, WritePush, WriteEntry,
           Broadcast, TestSlot, StoreTypeOK, CallType, Resolving, InSuspend, NoCall
  <1> QED
    BY <1>1, <1>2, <1>3, <1>4 DEF PassesBy, Actors, Resolving, InSuspend

(* A message that is about to be given to a sleeping handler was given to nobody. *)
LEMMA ResumeHandsOver ==
  ASSUME StoreTypeOK, ServerType, ControlInv, HandoverInv, NEW r \in Requests, ResumeHandler(r)
  PROVE  HandoverInv'
  <1>1. /\ pc[r] = "resume" /\ hpc[r] = "none"
        /\ takers[r] = {} /\ \A s \in Slots : slot[s] # r
    <2>1. pc[r] = "resume"
      BY DEF ResumeHandler, At
    <2>2. hpc[r] = "none"
      BY <2>1 DEF ControlInv, PointsOK, AfterSpawn
    <2> QED
      BY <2>1, <2>2 DEF HandoverInv, SlottedOnce, TakenOnce
  <1>2. /\ pc' = [pc EXCEPT ![r] = "settle"]
        /\ UNCHANGED <<hpc, slot, takers>>
    BY DEF ResumeHandler, CallThen, Goto, CallResume, progress
  <1>3. \A x \in Requests : call'[Handler(x)] = call[Handler(x)]
    BY RequestThreads, DistinctThreads, RequestCall DEF Sending
  <1>4. \A x \in Requests \ {r} : call'[Request(x)] = call[Request(x)]
    BY RequestThreads, DistinctThreads, RequestCall DEF Sending
  <1>5. CarriedOnce'
    BY <1>1, <1>2, <1>4 DEF HandoverInv, CarriedOnce, Resolving
  <1>6. SlottedOnce'
    <2>1. \A x \in Requests \ {r} : pc'[x] = pc[x]
      BY <1>2 DEF ServerType
    <2>2. ASSUME NEW x \in Requests, NEW s \in Slots, slot[s] = x PROVE x # r
      BY <1>1, <2>2
    <2> QED
      BY <1>2, <1>3, <2>1, <2>2 DEF HandoverInv, SlottedOnce, InSuspend
  <1>7. WokenWithSlot' /\ TakenOnce'
    BY <1>2, <1>3 DEF HandoverInv, WokenWithSlot, TakenOnce
  <1> QED
    BY <1>5, <1>6, <1>7 DEF HandoverInv

(* A wait returns with what its slot holds. *)
LEMMA WakeHandsOver ==
  ASSUME StoreTypeOK, ControlInv, HandoverInv, NEW r \in Requests, NEW th \in Actors(r),
         Inside(th), Wake(th) \/ TimeOut(th)
  PROVE  HandoverInv'
  <1>1. th \in Threads /\ call[th].at = "wait" /\ UNCHANGED <<pc, hpc, slot, takers>>
    BY RequestThreads DEF Actors, Wake, TimeOut, Inside, serverVars
  <1>2. th = Handler(r)
    BY <1>1 DEF Actors, ControlInv, RequestCallOK
  <1>3. \A x \in Threads \ {th} : call'[x] = call[x]
    BY <1>1, InStoreCall
  <1>4. /\ call'[th].at = "finally" /\ call'[th].slot = call[th].slot
        /\ \/ call'[th].arg = TimedOut
           \/ call'[th].arg = slot[call[th].slot] /\ slot[call[th].slot] # Unset
    BY <1>1 DEF Wake, TimeOut, StoreTypeOK, CallType
  <1>5. \A x \in Requests : /\ call'[Request(x)] = call[Request(x)]
                            /\ x # r => call'[Handler(x)] = call[Handler(x)]
    BY <1>2, <1>3, RequestThreads, DistinctThreads
  <1>6. CarriedOnce' /\ TakenOnce'
    BY <1>1, <1>5 DEF HandoverInv, CarriedOnce, TakenOnce, Resolving
  <1>7. \A h \in Requests : InSuspend(Handler(h))' =>
          InSuspend(Handler(h)) /\ call'[Handler(h)].slot = call[Handler(h)].slot
    BY <1>1, <1>2, <1>4, <1>5 DEF InSuspend
  <1>8. SlottedOnce'
    BY <1>1, <1>7 DEF HandoverInv, SlottedOnce
  <1>9. WokenWithSlot'
    BY <1>1, <1>2, <1>4, <1>5 DEF HandoverInv, WokenWithSlot
  <1> QED
    BY <1>6, <1>8, <1>9 DEF HandoverInv

(* The resume stores its message in a slot that holds nothing. *)
LEMMA ResolveHandsOver ==
  ASSUME StoreTypeOK, SlotInv, ControlInv, HandoverInv, NEW r \in Requests, NEW th \in Actors(r),
         Inside(th), Resolve(th)
  PROVE  HandoverInv'
  <1> DEFINE s == call[th].slot
  <1>1. th \in Threads /\ call[th].at = "store" /\ UNCHANGED <<pc, hpc, takers>>
    BY RequestThreads DEF Actors, Resolve, Inside, serverVars
  <1>2. th = Request(r)
    BY <1>1 DEF Actors, ControlInv, HandlerCallOK
  <1>3. /\ Kind[r] = "send" /\ pc[r] = "settle" /\ hpc[r] = "none" /\ call[th].arg = r
        /\ takers[r] = {} /\ \A x \in Slots : slot[x] # r
    BY <1>1, <1>2 DEF HandoverInv, CarriedOnce, ControlInv, PointsOK, RequestCallOK, Resolving
  <1>4. /\ s \in Slots /\ slot[s] = Unset /\ slot' = [slot EXCEPT ![s] = r]
        /\ slot \in [Slots -> Messages \cup {Unset, Abort}]
    <2>1. CallOK(call[th]) /\ call[th] \in CallType
      BY <1>1 DEF StoreTypeOK
    <2> QED
      BY <1>1, <1>3, <2>1 DEF Resolve, SlotInv, StoreFindsUnset, StoreTypeOK, CallOK, CallType
  <1>5. \A x \in Requests : x # Unset
    BY MessagesAssumption, StoreUseAssumption
  <1>6. \A x \in Threads \ {th} : call'[x] = call[x]
    BY <1>1, InStoreCall
  <1>7. call'[th] = NoCall
    BY <1>1 DEF Resolve, StoreTypeOK
  <1>8. \A x \in Requests : /\ call'[Handler(x)] = call[Handler(x)]
                            /\ x # r => call'[Request(x)] = call[Request(x)]
    BY <1>2, <1>6, RequestThreads, DistinctThreads
  <1> HIDE DEF s
  <1>9. \A x \in Requests \ {r} : \A u \in Slots : slot'[u] = x <=> slot[u] = x
    BY <1>4, <1>5
  <1>10. \A u \in Slots : slot'[u] = r => u = s
    BY <1>3, <1>4
  <1>11. CarriedOnce'
    BY <1>1, <1>2, <1>7, <1>8, <1>9 DEF HandoverInv, CarriedOnce, Resolving, NoCall
  <1>12. SlottedOnce'
    BY <1>1, <1>3, <1>8, <1>9, <1>10 DEF HandoverInv, SlottedOnce, InSuspend
  <1>13. WokenWithSlot'
    <2> SUFFICES ASSUME NEW h \in Requests, call'[Handler(h)].at = "finally",
                        call'[Handler(h)].arg # TimedOut
                 PROVE  /\ call'[Handler(h)].arg = slot'[call'[Handler(h)].slot]
                        /\ slot'[call'[Handler(h)].slot] # Unset
      BY DEF WokenWithSlot
    <2>1. /\ call[Handler(h)].arg = slot[call[Handler(h)].slot]
          /\ slot[call[Handler(h)].slot] # Unset
      BY <1>8 DEF HandoverInv, WokenWithSlot
    <2>2. slot'[call[Handler(h)].slot] = slot[call[Handler(h)].slot]
      BY <1>4, <2>1
    <2> QED
      BY <1>8, <2>1, <2>2
  <1>14. TakenOnce'
    <2> SUFFICES ASSUME NEW x \in Requests, hpc[x] = "none", takers[x] # {}
                 PROVE  \E u \in Slots : slot'[u] = x
      BY <1>1 DEF HandoverInv, TakenOnce
    <2>1. PICK u \in Slots : slot[u] = x
      BY DEF HandoverInv, TakenOnce
    <2> QED
      BY <1>3, <1>9, <2>1
  <1> QED
    BY <1>11, <1>12, <1>13, <1>14 DEF HandoverInv

(* A handler starts with the message it was dispatched for. *)
LEMMA DispatchHandsOver ==
  ASSUME StoreTypeOK, ServerType, ControlInv, HandoverInv, NEW r \in Requests, RunHandler(r)
  PROVE  HandoverInv'
  <1>1. /\ hpc[r] = "start" /\ hpc' = [hpc EXCEPT ![r] = "run"]
        /\ takers' = [takers EXCEPT ![r] = @ \cup {r}]
        /\ UNCHANGED <<pc, call, slot>>
    BY DEF RunHandler, HandlerAt, HandlerGoto, storeVars
  <1>2. hpc'[r] = "run" /\ \A x \in Requests \ {r} : hpc'[x] = hpc[x] /\ takers'[x] = takers[x]
    BY <1>1 DEF ServerType
  <1>3. takers'[r] = {r}
    BY <1>1 DEF HandoverInv, TakenOnce, ServerType
  <1>4. \A s \in Slots : slot[s] # r
    BY <1>1 DEF HandoverInv, SlottedOnce
  <1>5. ~Resolving(Request(r))
    BY <1>1 DEF ControlInv, RequestCallOK, Resolving
  <1>6. CarriedOnce'
    BY <1>1, <1>2, <1>5 DEF HandoverInv, CarriedOnce, Resolving
  <1>7. SlottedOnce'
    <2>1. ASSUME NEW x \in Requests, NEW s \in Slots, slot[s] = x
          PROVE  x # r /\ hpc'[x] = hpc[x] /\ takers'[x] = takers[x]
      BY <1>2, <1>4, <2>1
    <2> QED
      BY <1>1, <2>1 DEF HandoverInv, SlottedOnce, InSuspend
  <1>8. WokenWithSlot'
    BY <1>1 DEF HandoverInv, WokenWithSlot
  <1>9. TakenOnce'
    <2>1. ASSUME NEW x \in Requests, x # r
          PROVE  /\ \A a, b \in takers'[x] : a = b
                 /\ takers'[x] \subseteq Requests
                 /\ hpc'[x] = "start" => takers'[x] = {}
                 /\ hpc'[x] = "none" /\ takers'[x] # {} => \E s \in Slots : slot'[s] = x
                 /\ hpc'[x] \notin {"none", "start"} /\ x \in Readable => takers'[x] # {}
      BY <1>1, <1>2, <2>1 DEF HandoverInv, TakenOnce
    <2> QED
      BY <1>2, <1>3, <2>1 DEF TakenOnce
  <1> QED
    BY <1>6, <1>7, <1>8, <1>9 DEF HandoverInv

(* The slot a handler goes to sleep on holds nothing. *)
LEMMA SleepHandsOver ==
  ASSUME StoreTypeOK, SlotInv, ServerType, ControlInv, HandoverInv, NEW r \in Requests,
         SuspendHandler(r)
  PROVE  HandoverInv'
  <1> DEFINE n == nSlots + 1
  <1>1. /\ hpc[r] = "suspend" /\ hpc' = [hpc EXCEPT ![r] = "suspended"]
        /\ UNCHANGED <<pc, slot, takers>>
        /\ call' = [call EXCEPT ![Handler(r)] = Calling("wait", registry[Target[r]], n, NoArg)]
        /\ nSlots < MaxSlots
    BY DEF SuspendHandler, HandlerAt, HandlerCallThen, HandlerGoto, progress, Suspend
  <1>2. n \in Slots /\ slot[n] = Unset
    BY <1>1, BoundsAssumption DEF StoreTypeOK, Slots, SlotInv, SlotsNumbered
  <1> HIDE DEF n
  <1>3. /\ call'[Handler(r)].at = "wait" /\ call'[Handler(r)].slot = n
        /\ \A x \in Requests : /\ call'[Request(x)] = call[Request(x)]
                               /\ x # r => call'[Handler(x)] = call[Handler(x)]
    BY <1>1, RequestThreads, DistinctThreads DEF StoreTypeOK, Calling
  <1>4. hpc'[r] = "suspended" /\ \A x \in Requests \ {r} : hpc'[x] = hpc[x]
    BY <1>1 DEF ServerType
  <1>5. CarriedOnce'
    BY <1>1, <1>3 DEF HandoverInv, CarriedOnce, Resolving
  <1>6. SlottedOnce'
    <2>1. ASSUME NEW x \in Requests, NEW s \in Slots, slot[s] = x
          PROVE  s # n /\ hpc'[x] = hpc[x]
      BY <1>1, <1>2, <1>4, <2>1, MessagesAssumption, StoreUseAssumption
         DEF HandoverInv, SlottedOnce
    <2> QED
      BY <1>1, <1>3, <2>1 DEF HandoverInv, SlottedOnce, InSuspend
  <1>7. WokenWithSlot'
    BY <1>1, <1>3 DEF HandoverInv, WokenWithSlot
  <1>8. TakenOnce'
    BY <1>1, <1>4 DEF HandoverInv, TakenOnce
  <1> QED
    BY <1>5, <1>6, <1>7, <1>8 DEF HandoverInv

(* A woken handler takes a message nobody else can take any more. *)
LEMMA AnswerHandsOver ==
  ASSUME StoreTypeOK, SlotInv, ServerType, ControlInv, HandoverInv, NEW r \in Requests, Answered(r)
  PROVE  HandoverInv'
  <1> DEFINE m == call[Handler(r)].arg
             s == call[Handler(r)].slot
  <1>1. /\ hpc[r] = "suspended" /\ hpc' = [hpc EXCEPT ![r] = "resumed"]
        /\ takers' = [takers EXCEPT ![m] = @ \cup {r}]
        /\ UNCHANGED <<pc, slot>>
        /\ call[Handler(r)].at = "finally" /\ call' = [call EXCEPT ![Handler(r)] = NoCall]
        /\ m \in Messages \ Invalid
    BY DEF Answered, HandlerGoto, Finally
  <1>2. /\ m \in Requests /\ Handler(r) \in Threads
        /\ s \in Slots /\ slot[s] = m
    <2>1. m \in Requests /\ m # TimedOut /\ Handler(r) \in Threads
      BY <1>1, MessagesAssumption, StoreUseAssumption, RequestThreads
    <2>2. CallOK(call[Handler(r)]) /\ call[Handler(r)] \in CallType
      BY <2>1 DEF StoreTypeOK
    <2> QED
      BY <1>1, <2>1, <2>2 DEF HandoverInv, WokenWithSlot, CallOK, CallType
  <1>3. InSuspend(Handler(r))
    BY <1>1 DEF InSuspend
  <1> HIDE DEF m, s
  <1>4. /\ takers[m] = {} /\ hpc[m] = "none" /\ m # r
        /\ pc[m] \in {"settle", "final", "done"}
        /\ \A s2 \in Slots : slot[s2] = m => s2 = s
        /\ ~Resolving(Request(m))
    BY <1>1, <1>2, <1>3 DEF HandoverInv, SlottedOnce, CarriedOnce, s
  <1>5. /\ call'[Handler(r)] = NoCall
        /\ \A x \in Requests : /\ call'[Request(x)] = call[Request(x)]
                               /\ x # r => call'[Handler(x)] = call[Handler(x)]
    BY <1>1, RequestThreads, DistinctThreads DEF StoreTypeOK
  <1>6. /\ hpc'[r] = "resumed" /\ \A x \in Requests \ {r} : hpc'[x] = hpc[x]
        /\ takers'[m] = {r} /\ \A x \in Requests \ {m} : takers'[x] = takers[x]
    BY <1>1, <1>2, <1>4 DEF ServerType
  <1>7. \A h \in Requests : InSuspend(Handler(h))' =>
          InSuspend(Handler(h)) /\ h # r /\ call'[Handler(h)] = call[Handler(h)]
    BY <1>5 DEF InSuspend, NoCall
  <1>8. CarriedOnce'
    BY <1>1, <1>2, <1>4, <1>5, <1>6 DEF HandoverInv, CarriedOnce, Resolving
  <1>9. SlottedOnce'
    <2>1. ASSUME NEW x \in Requests, NEW u \in Slots, slot[u] = x
          PROVE  /\ Kind[x] = "send" /\ hpc'[x] = "none" /\ pc[x] \in {"settle", "final", "done"}
                 /\ \A s2 \in Slots : slot[s2] = x => s2 = u
      BY <1>1, <1>6, <2>1 DEF HandoverInv, SlottedOnce
    <2>2. ASSUME NEW u \in Slots, slot[u] = m, NEW h \in Requests, InSuspend(Handler(h))'
          PROVE  call'[Handler(h)].slot # u
      <3>1. u = s
        BY <1>4, <2>2
      <3>2. /\ InSuspend(Handler(h)) /\ h # r /\ call'[Handler(h)] = call[Handler(h)]
            /\ Handler(h) \in Threads /\ Handler(h) # Handler(r)
        BY <1>7, <2>2, RequestThreads, DistinctThreads
      <3> QED
        BY <1>2, <1>3, <3>1, <3>2 DEF SlotInv, SuspensionsDistinct, s
    <2>3. ASSUME NEW x \in Requests \ {m}, NEW u \in Slots, slot[u] = x, takers'[x] # {},
                 NEW h \in Requests, InSuspend(Handler(h))'
          PROVE  call'[Handler(h)].slot # u
      BY <1>6, <1>7, <2>3 DEF HandoverInv, SlottedOnce
    <2> QED
      BY <1>1, <2>1, <2>2, <2>3 DEF SlottedOnce
  <1>10. WokenWithSlot'
    BY <1>1, <1>5 DEF HandoverInv, WokenWithSlot, NoCall
  <1>11. TakenOnce'
    <2>1. ASSUME NEW x \in Requests, x # m
          PROVE  /\ \A a, b \in takers'[x] : a = b
                 /\ takers'[x] \subseteq Requests
                 /\ hpc'[x] = "start" => takers'[x] = {}
                 /\ hpc'[x] = "none" /\ takers'[x] # {} => \E u \in Slots : slot'[u] = x
                 /\ hpc'[x] \notin {"none", "start"} /\ x \in Readable => takers'[x] # {}
      BY <1>1, <1>6, <2>1 DEF HandoverInv, TakenOnce
    <2>2. hpc'[m] = "none" /\ slot'[s] = m
      BY <1>1, <1>2, <1>4, <1>6
    <2> QED
      BY <1>2, <1>6, <2>1, <2>2 DEF TakenOnce
  <1> QED
    BY <1>8, <1>9, <1>10, <1>11 DEF HandoverInv

(* Shutdown aborts the slots that hold nothing. *)
LEMMA ShutdownHandsOver ==
  ASSUME StoreTypeOK, HandoverInv, EnvironmentStep
  PROVE  HandoverInv'
  <1>1. UNCHANGED <<pc, hpc, takers, call>>
    BY DEF EnvironmentStep, SweeperStep, ShutdownStep, StartSweeper, SweepDue, SweepStop, Sweep, SweepIdle,
           ShutdownBegin, ShutdownCancel, serverVars
  <1>2. \A s \in Slots : slot'[s] = slot[s] \/ (slot[s] = Unset /\ slot'[s] = Abort)
    BY DEF EnvironmentStep, SweeperStep, ShutdownStep, StartSweeper, SweepDue, SweepStop, Sweep, SweepIdle,
           ShutdownBegin, ShutdownCancel
  <1>3. \A x \in Requests : x \notin {Unset, Abort}
    BY MessagesAssumption, StoreUseAssumption
  <1>4. \A x \in Requests, s \in Slots : slot'[s] = x <=> slot[s] = x
    BY <1>2, <1>3
  <1>5. CarriedOnce' /\ SlottedOnce' /\ TakenOnce'
    BY <1>1, <1>4 DEF HandoverInv, CarriedOnce, SlottedOnce, TakenOnce, Resolving, InSuspend
  <1>6. WokenWithSlot'
    <2> SUFFICES ASSUME NEW h \in Requests, call[Handler(h)].at = "finally"
                 PROVE  \/ call[Handler(h)].arg = TimedOut
                        \/ /\ call[Handler(h)].arg = slot'[call[Handler(h)].slot]
                           /\ slot'[call[Handler(h)].slot] # Unset
      BY <1>1 DEF WokenWithSlot
    <2>1. call[Handler(h)].slot \in Slots
      BY RequestThreads DEF StoreTypeOK, CallOK, CallType
    <2> QED
      BY <1>2, <2>1 DEF HandoverInv, WokenWithSlot
  <1> QED
    BY <1>5, <1>6 DEF HandoverInv

(* HandoverInv is inductive, given the slots and where the threads are. *)
LEMMA HandoverStep ==
  ASSUME ServerInv, HandoverInv, [Next]_vars
  PROVE  HandoverInv'
  <1> USE DEF ServerInv
  <1>1. CASE EnvironmentStep
    BY <1>1, ShutdownHandsOver
  <1>2. CASE UNCHANGED vars
    <2>1. UNCHANGED <<slot, takers>>
      BY <1>2 DEF vars, storeVars, serverVars
    <2> QED
      BY <1>2, <2>1, EnvironmentStays, StaysPassesBy, HandoverFrame
  <1>3. ASSUME NEW r \in Requests, Sending(r) \/ Answering(r) \/ Streaming(r), ~ResumeHandler(r)
        PROVE  HandoverInv'
    BY <1>3, OthersStay, StaysPassesBy, RequestPassesBy, HandoverFrame
  <1>4. ASSUME NEW r \in Requests, Running(r) \/ Finishing(r) \/ Asking(r),
               ~RunHandler(r), ~SuspendHandler(r), ~Answered(r)
        PROVE  HandoverInv'
    BY <1>4, OthersStay, StaysPassesBy, HandlerPassesBy, HandoverFrame
  <1>5. ASSUME NEW r \in Requests, NEW th \in Actors(r), Inside(th) \/ Publish(th),
               ~Wake(th), ~TimeOut(th), ~Resolve(th)
        PROVE  HandoverInv'
    BY <1>5, OthersStay, StaysPassesBy, CallPassesBy, HandoverFrame
  <1>6. ASSUME NEW r \in Requests, NEW th \in Actors(r), Inside(th) \/ Publish(th),
               Wake(th) \/ TimeOut(th) \/ Resolve(th)
        PROVE  HandoverInv'
    <2>1. th \in Threads /\ call[th].at \in {"wait", "store"}
      BY <1>6, RequestThreads DEF Actors, Wake, TimeOut, Resolve
    <2>2. Inside(th)
      BY <1>6, <2>1 DEF Publish, Broadcast
    <2> QED
      BY <1>6, <2>2, WakeHandsOver, ResolveHandsOver
  <1> QED
    BY <1>1, <1>2, <1>3, <1>4, <1>5, <1>6, StepCases, ResumeHandsOver, DispatchHandsOver,
       SleepHandsOver, AnswerHandsOver

(* Nothing is carried at first. *)
LEMMA HandoverInit == Init => HandoverInv
  BY RequestThreads, MessagesAssumption, StoreUseAssumption
     DEF Init, StoreInit, HandoverInv, CarriedOnce, SlottedOnce, WokenWithSlot, TakenOnce, Resolving, NoCall

(* The invariant of the hand-over, for every behaviour. *)
LEMMA HandoverCorrect == Spec => [](ServerInv /\ HandoverInv)
  BY ServerCorrect, HandoverStep, HandoverInit, PTL DEF Spec

(* A message is handed to one handler only, although message/send decides on a state
   it read under no lock whether to wake a handler or to dispatch a new one: a message
   that was put into a slot is in no other slot and is never dispatched. *)
THEOREM MessagesHandedOverOnce == Spec => []HandedOverOnce
  <1>1. HandoverInv => HandedOverOnce
    BY DEF HandoverInv, TakenOnce, HandedOverOnce
  <1> QED
    BY <1>1, HandoverCorrect, PTL

-----------------------------------------------------------------------------
(* Where no answer comes too late.                                           *)

(* While a resume carries a message to a slot, whoever suspended with that slot still
   waits: the wait has neither timed out nor been aborted by shutdown. *)
AnswersInTime ==
    \A r, h \in Requests :
        /\ Resolving(Request(r)) /\ InSuspend(Handler(h))
        /\ call[Handler(h)].slot = call[Request(r)].slot
        => Waiting(Handler(h)) /\ slot[call[Request(r)].slot] = Unset

(* The slot that a resume has detached is unset, and the handler that created it sleeps
   on it. *)
SleeperWaits ==
    /\ \A h \in Requests : Waiting(Handler(h)) => call[Handler(h)].arg # TimedOut
    /\ \A r \in Requests : Resolving(Request(r)) =>
          /\ slot[call[Request(r)].slot] = Unset
          /\ \E h \in Requests : /\ Waiting(Handler(h))
                                 /\ call[Handler(h)].slot = call[Request(r)].slot

(* A message/send that neither waits for its turn nor was dispatched is carried to
   a sleeping handler, is in its slot, or was taken. *)
OnItsWay ==
    \A r \in Readable :
        pc[r] \in {"settle", "final", "done"} /\ Kind[r] = "send" /\ hpc[r] = "none" =>
            \/ takers[r] # {}
            \/ Resolving(Request(r))
            \/ \E h \in Requests : HoldsAnswer(h, r)

LosslessInv == SleeperWaits /\ OnItsWay

(* x carries what it carried, and its handler sleeps on what it slept on. *)
CarriesOn(x) ==
    /\ pc'[x] \in {"settle", "final", "done"} /\ hpc'[x] = "none" /\ Kind[x] = "send" =>
          pc[x] \in {"settle", "final", "done"} /\ hpc[x] = "none"
    /\ Resolving(Request(x))' <=> Resolving(Request(x))
    /\ Resolving(Request(x)) => call'[Request(x)].slot = call[Request(x)].slot
    /\ InSuspend(Handler(x)) => call'[Handler(x)] = call[Handler(x)]
    /\ InSuspend(Handler(x))' => InSuspend(Handler(x))

(* A step after which every request carries on. *)
LEMMA LosslessFrame ==
  ASSUME LosslessInv, slot' = slot,
         \A x \in Requests : takers[x] \subseteq takers'[x],
         \A x \in Requests : CarriesOn(x)
  PROVE  LosslessInv'
  <1> USE DEF CarriesOn
  <1>1. \A h \in Requests : Waiting(Handler(h)) =>
          Waiting(Handler(h))' /\ call'[Handler(h)].slot = call[Handler(h)].slot
    BY DEF Waiting, InSuspend
  <1>2. \A r, h \in Requests : HoldsAnswer(h, r) => HoldsAnswer(h, r)'
    BY DEF HoldsAnswer, InSuspend
  <1>3. SleeperWaits'
    <2>1. ASSUME NEW r \in Requests, Resolving(Request(r))'
          PROVE  /\ slot'[call'[Request(r)].slot] = Unset
                 /\ \E h \in Requests : /\ Waiting(Handler(h))'
                                        /\ call'[Handler(h)].slot = call'[Request(r)].slot
      BY <1>1, <2>1 DEF LosslessInv, SleeperWaits
    <2> QED
      BY <2>1 DEF LosslessInv, SleeperWaits, Waiting, InSuspend
  <1>4. OnItsWay'
    <2> SUFFICES ASSUME NEW r \in Readable, pc'[r] \in {"settle", "final", "done"},
                        Kind[r] = "send", hpc'[r] = "none"
                 PROVE  \/ takers'[r] # {}
                        \/ Resolving(Request(r))'
                        \/ \E h \in Requests : HoldsAnswer(h, r)'
      BY DEF OnItsWay, Readable
    <2>1. \/ takers[r] # {} \/ Resolving(Request(r)) \/ \E h \in Requests : HoldsAnswer(h, r)
      BY DEF LosslessInv, OnItsWay, Readable
    <2> QED
      BY <1>2, <2>1 DEF Readable
  <1> QED
    BY <1>3, <1>4 DEF LosslessInv

(* A request whose threads stay where they are carries on. *)
LEMMA StaysCarriesOn ==
  ASSUME NEW x \in Requests, StaysAt(x)
  PROVE  CarriesOn(x)
  BY DEF StaysAt, CarriesOn, Resolving, InSuspend, Waiting

(* A request that does not resume a handler goes on as it was. *)
LEMMA RequestCarriesOn ==
  ASSUME StoreTypeOK, ServerType, ControlInv, NEW r \in Requests,
         Sending(r) \/ Answering(r) \/ Streaming(r), ~ResumeHandler(r)
  PROVE  CarriesOn(r)
  <1>1. /\ PointsOK(r) /\ Kind[r] \in Kinds /\ Request(r) \in Threads
        /\ call'[Handler(r)] = call[Handler(r)]
    BY RequestThreads, DistinctThreads, RequestCall, RequestsAssumption DEF ControlInv
  <1>2. ~Resolving(Request(r)) /\ ~Resolving(Request(r))'
    <2>1. call[Request(r)].at \in {"idle", "copy"}
      BY RequestAt
    <2> QED
      BY <2>1, RequestPassesBy DEF PassesBy, Resolving
  <1> USE DEF ServerType, PointsOK, AfterSpawn, Kinds, Goto, ReadThen, CallThen, PushOr, AfterSubscribe, At,
              progress, serverVars
  <1>3. pc'[r] \in {"settle", "final", "done"} /\ hpc'[r] = "none" /\ Kind[r] = "send" =>
          pc[r] \in {"settle", "final", "done"} /\ hpc[r] = "none"
    <2>1. CASE Sending(r)
      BY <1>1, <2>1 DEF Sending, StartMessage, SetPush, CheckInterrupted, ResumeNobody,
                  AppendMessage, SetWorking, Spawn
    <2>2. CASE Answering(r)
      BY <1>1, <2>2 DEF Answering, StartOther, Cancel, Settle, SettleDeadline, BeginResponse, Respond,
                  RespondGone
    <2>3. CASE Streaming(r)
      BY <1>1, <2>3 DEF Streaming, BeginSnapshot, QueueSnapshot, SnapshotGone, SubscribeStream, Drain,
                  CheckFinished, Disconnect, Close
    <2> QED
      BY <2>1, <2>2, <2>3
  <1> QED
    BY <1>1, <1>2, <1>3 DEF CarriesOn, InSuspend

(* The arguments of a handler's calls are states, messages and artifacts. *)
LEMMA NotTimedOut ==
  /\ TimedOut \notin TaskStates \cup Requests \cup {Partial, NoArg, Abort}
  /\ \A r \in Requests : r \notin {Unset, Abort, TimedOut, NoArg}
  BY MessagesAssumption, StoreUseAssumption
     DEF TimedOut, TaskStates, TerminalStates, InterruptedStates, Partial, NoArg, Abort

(* A handler that is not about to return from a suspension goes on as it was. *)
LEMMA HandlerCarriesOn ==
  ASSUME StoreTypeOK, ServerType, ControlInv, NEW r \in Requests,
         Running(r) \/ Finishing(r) \/ Asking(r),
         ~SuspendHandler(r), ~Answered(r), ~AskRaises(r)
  PROVE  CarriesOn(r)
  <1>1. /\ Handler(r) \in Threads /\ Request(r) \in Threads \ {Handler(r)}
        /\ call'[Request(r)] = call[Request(r)] /\ pc' = pc
    BY RequestThreads, DistinctThreads, HandlerCall, HandlerMoved
  <1> USE DEF ServerType, StoreTypeOK, HandlerGoto, HandlerReadThen, HandlerCallThen, HandlerAt, Idle,
              HandlerFinishes, Move, CountMove, storeVars, Calling, NoCall, Lookup, CallSetState,
              CallAppendArtifact, CallAppendMessage, progress
  <1>2. /\ call[Handler(r)].at = "idle"
        /\ hpc[r] # "none" /\ hpc'[r] # "none"
        /\ \/ call' = call
           \/ \E at, ent, arg : /\ at \notin {"wait", "finally"}
                                /\ call' = [call EXCEPT ![Handler(r)] =
                                              [at |-> at, ent |-> ent, slot |-> Null, arg |-> arg]]
    <2>1. CASE Running(r)
      BY <1>1, <2>1 DEF Running, Reject, RunHandler, EmitArtifact, Update, Return, Raise, CheckReturn,
                  CheckRaise, ReadPushConfig, DeliverPush, Die, ReturnDone, PushFails
    <2>2. CASE Finishing(r)
      BY <1>1, <2>2 DEF Finishing, Complete, SetCompleted, Fail, CancelTask
    <2>3. CASE Asking(r)
      BY <1>1, <2>3 DEF Asking, Ask, SuspendRaises, ResumeWorking, AppendReply, Catch, Propagate
    <2> QED
      BY <2>1, <2>2, <2>3
  <1> QED
    BY <1>1, <1>2 DEF CarriesOn, InSuspend, Resolving, Waiting

(* So does a call under way that neither returns from a wait nor fills a slot. *)
LEMMA CallCarriesOn ==
  ASSUME StoreTypeOK, ControlInv, NEW r \in Requests, NEW th \in Actors(r), Inside(th) \/ Publish(th),
         ~Wake(th), ~TimeOut(th), ~Resolve(th),
         Resolving(Request(r)) => slot[call[Request(r)].slot] = Unset
  PROVE  CarriesOn(r)
  <1>1. /\ {Request(r), Handler(r)} \subseteq Threads /\ Request(r) # Handler(r)
        /\ th \in Threads
    BY RequestThreads, DistinctThreads DEF Actors
  <1>2. \A x \in Threads \ {th} : call'[x] = call[x]
    BY <1>1, InStoreCall
  <1>3. UNCHANGED <<pc, hpc>>
    BY DEF Inside, Publish, serverVars
  <1>4. /\ ~InSuspend(th)
        /\ call'[th].at \notin {"wait", "finally"}
        /\ call'[th].at = "store" => call[th].at = "resolve" /\ call'[th].slot = call[th].slot
        /\ call'[th].at # "resolve" /\ call[th].at # "store"
        /\ call[th].at = "resolve" /\ slot[call[th].slot] = Unset => call'[th].at = "store"
    BY <1>1, NotTimedOut
       DEF Inside, Publish, WriteState, WriteMessage, WriteArtifact, WritePush, WriteEntry,
           Broadcast, TestSlot, StoreTypeOK, CallType, InSuspend, NoCall
  <1>5. CASE th = Request(r)
    BY <1>1, <1>2, <1>3, <1>4, <1>5 DEF CarriesOn, Resolving, InSuspend
  <1>6. CASE th = Handler(r)
    BY <1>1, <1>2, <1>3, <1>4, <1>6 DEF CarriesOn, Resolving, InSuspend
  <1> QED
    BY <1>5, <1>6 DEF Actors

(* Whoever created a slot that is registered has not left its suspension. *)
LEMMA RegisteredSleeper ==
  ASSUME ServerInv, NEW e \in Entries, entry[e].slot # Null
  PROVE  \E h \in Requests : InSuspend(Handler(h)) /\ call[Handler(h)].slot = entry[e].slot
  <1>1. PICK th \in Threads : InSuspend(th) /\ call[th].slot = entry[e].slot
    BY DEF ServerInv, SlotInv, SlotOwned
  <1>2. PICK h \in Requests : th = Handler(h)
    BY <1>1, StoreUseAssumption DEF ServerInv, ControlInv, RequestCallOK, InSuspend, Request, Handler
  <1> QED
    BY <1>1, <1>2

(* Detaching a slot in time puts its message under way to the sleeper. *)
LEMMA ResumeLosesNothing ==
  ASSUME ServerInv, LosslessInv, AnswersInTime', NEW r \in Requests, ResumeHandler(r)
  PROVE  LosslessInv'
  <1> DEFINE e == registry[Target[r]]
  <1> USE DEF ServerInv
  <1>1. /\ e \in Entries /\ entry[e].slot # Null
        /\ call' = [call EXCEPT ![Request(r)] = Calling("resolve", e, entry[e].slot, r)]
        /\ UNCHANGED <<slot, takers, hpc>>
        /\ pc' = [pc EXCEPT ![r] = "settle"]
    BY RequestThreads DEF ResumeHandler, CallResume, Suspended, Registered, CallThen, Goto, progress, StoreTypeOK
  <1> HIDE DEF e
  <1>2. /\ call'[Request(r)].at = "resolve" /\ call'[Request(r)].slot = entry[e].slot
        /\ \A x \in Requests : /\ call'[Handler(x)] = call[Handler(x)]
                               /\ x # r => call'[Request(x)] = call[Request(x)]
    BY <1>1, RequestThreads, DistinctThreads DEF StoreTypeOK, Calling
  <1>3. PICK h \in Requests : InSuspend(Handler(h)) /\ call[Handler(h)].slot = entry[e].slot
    BY <1>1, RegisteredSleeper
  <1>4. Waiting(Handler(h)) /\ slot[entry[e].slot] = Unset
    BY <1>1, <1>2, <1>3 DEF AnswersInTime, Resolving, InSuspend, Waiting
  <1>6. SleeperWaits'
    <2>1. ASSUME NEW x \in Requests, Resolving(Request(x))'
          PROVE  /\ slot'[call'[Request(x)].slot] = Unset
                 /\ \E y \in Requests : /\ Waiting(Handler(y))'
                                        /\ call'[Handler(y)].slot = call'[Request(x)].slot
      <3>1. CASE x = r
        BY <1>1, <1>2, <1>3, <1>4, <3>1 DEF Waiting
      <3>2. CASE x # r
        BY <1>1, <1>2, <2>1, <3>2 DEF LosslessInv, SleeperWaits, Waiting, Resolving
      <3> QED
        BY <3>1, <3>2
    <2> QED
      BY <1>2, <2>1 DEF LosslessInv, SleeperWaits, Waiting
  <1>7. OnItsWay'
    <2>1. Resolving(Request(r))'
      BY <1>2 DEF Resolving
    <2>2. \A x \in Requests \ {r} : pc'[x] = pc[x]
      BY <1>1 DEF ServerType
    <2> QED
      BY <1>1, <1>2, <2>1, <2>2 DEF LosslessInv, OnItsWay, Readable, HoldsAnswer, InSuspend, Resolving
  <1> QED
    BY <1>6, <1>7 DEF LosslessInv

(* A new suspension waits on a slot nobody has answered. *)
LEMMA SleepLosesNothing ==
  ASSUME ServerInv, HandoverInv, LosslessInv, NEW r \in Requests, SuspendHandler(r)
  PROVE  LosslessInv'
  <1> DEFINE n == nSlots + 1
             e == registry[Target[r]]
  <1> USE DEF ServerInv
  <1>1. /\ hpc[r] = "suspend" /\ hpc' = [hpc EXCEPT ![r] = "suspended"]
        /\ UNCHANGED <<pc, slot, takers>>
        /\ call' = [call EXCEPT ![Handler(r)] = Calling("wait", e, n, NoArg)]
        /\ entry' = [entry EXCEPT ![e].slot = n]
        /\ nSlots < MaxSlots /\ call[Handler(r)].at = "idle"
    BY DEF SuspendHandler, HandlerAt, HandlerCallThen, HandlerGoto, progress, Suspend, Idle
  <1> HIDE DEF n, e
  <1>4. /\ call'[Handler(r)].at = "wait" /\ call'[Handler(r)].arg = NoArg
        /\ \A x \in Requests : /\ call'[Request(x)] = call[Request(x)]
                               /\ x # r => call'[Handler(x)] = call[Handler(x)]
    BY <1>1, RequestThreads, DistinctThreads DEF StoreTypeOK, Calling
  <1>5. \A x \in Requests : hpc'[x] = "none" => hpc[x] = "none"
    BY <1>1 DEF ServerType
  <1>6. ~InSuspend(Handler(r))
    BY <1>1 DEF InSuspend
  <1>7. SleeperWaits'
    BY <1>1, <1>4, <1>6, NotTimedOut DEF LosslessInv, SleeperWaits, Waiting, Resolving, InSuspend
  <1>8. \A x, h \in Requests : HoldsAnswer(h, x) => HoldsAnswer(h, x)'
    BY <1>1, <1>4, <1>6 DEF HoldsAnswer, InSuspend
  <1>9. OnItsWay'
    BY <1>1, <1>4, <1>5, <1>8 DEF LosslessInv, OnItsWay, Readable, Resolving
  <1> QED
    BY <1>7, <1>9 DEF LosslessInv

(* A handler that returns from a suspension takes the message of its slot, if
   there is one. *)
LEMMA ReturnLosesNothing ==
  ASSUME ServerInv, HandoverInv, LosslessInv, NEW r \in Requests, Answered(r) \/ AskRaises(r)
  PROVE  LosslessInv'
  <1> DEFINE m == call[Handler(r)].arg
  <1> USE DEF ServerInv
  <1>1. /\ hpc[r] = "suspended" /\ call[Handler(r)].at = "finally"
        /\ call' = [call EXCEPT ![Handler(r)] = NoCall]
        /\ UNCHANGED <<pc, slot>>
    BY DEF Answered, AskRaises, HandlerCallThen, progress, Finally
  <1>2. /\ call'[Handler(r)] = NoCall
        /\ \A x \in Requests : /\ call'[Request(x)] = call[Request(x)]
                               /\ x # r => call'[Handler(x)] = call[Handler(x)]
    BY <1>1, RequestThreads, DistinctThreads DEF StoreTypeOK
  <1>4. \A x \in Requests : hpc'[x] = "none" => hpc[x] = "none"
    BY DEF Answered, AskRaises, HandlerCallThen, HandlerGoto, ServerType
  <1>5. \A x \in Requests : takers[x] \subseteq takers'[x]
    <2>1. CASE Answered(r)
      <3>1. m \in Requests /\ takers' = [takers EXCEPT ![m] = @ \cup {r}]
        BY <2>1, StoreUseAssumption DEF Answered
      <3> QED
        BY <3>1 DEF ServerType
    <2>2. CASE AskRaises(r)
      BY <2>2 DEF AskRaises, HandlerCallThen, progress
    <2> QED
      BY <2>1, <2>2
  <1>6. ~Waiting(Handler(r)) /\ (m = TimedOut \/ slot[call[Handler(r)].slot] = m)
    BY <1>1 DEF Waiting, HandoverInv, WokenWithSlot
  <1>7. \A x \in Readable : HoldsAnswer(r, x) => takers'[x] # {}
    <2>1. ASSUME NEW x \in Readable, HoldsAnswer(r, x) PROVE takers'[x] # {}
      <3>1. m = x
        BY <1>6, <2>1 DEF HoldsAnswer
      <3>2. x \in Requests /\ Answered(r)
        BY <3>1, NotTimedOut DEF AskRaises, Readable
      <3> QED
        BY <3>1, <3>2 DEF Answered, ServerType
    <2> QED
      BY <2>1
  <1> HIDE DEF m
  <1>8. SleeperWaits'
    <2>1. ASSUME NEW x \in Requests, Resolving(Request(x))'
          PROVE  /\ slot'[call'[Request(x)].slot] = Unset
                 /\ \E h \in Requests : /\ Waiting(Handler(h))'
                                        /\ call'[Handler(h)].slot = call'[Request(x)].slot
      BY <1>1, <1>2, <1>6, <2>1 DEF LosslessInv, SleeperWaits, Waiting, Resolving
    <2> QED
      BY <1>2, <2>1, NotTimedOut DEF LosslessInv, SleeperWaits, NoCall, Waiting
  <1>9. OnItsWay'
    <2> SUFFICES ASSUME NEW x \in Readable, pc[x] \in {"settle", "final", "done"},
                        Kind[x] = "send", hpc[x] = "none"
                 PROVE  \/ takers'[x] # {}
                        \/ Resolving(Request(x))'
                        \/ \E h \in Requests : HoldsAnswer(h, x)'
      BY <1>1, <1>4 DEF OnItsWay, Readable
    <2>1. \/ takers[x] # {} \/ Resolving(Request(x)) \/ \E h \in Requests : HoldsAnswer(h, x)
      BY DEF LosslessInv, OnItsWay, Readable
    <2>2. \A h \in Requests \ {r} : HoldsAnswer(h, x) => HoldsAnswer(h, x)'
      BY <1>1, <1>2 DEF HoldsAnswer, InSuspend
    <2> QED
      BY <1>2, <1>5, <1>7, <2>1, <2>2 DEF Resolving, Readable
  <1> QED
    BY <1>8, <1>9 DEF LosslessInv

(* A sleeper that wakes takes what its slot was given, and one that times out was
   given nothing. *)
LEMMA WakeLosesNothing ==
  ASSUME ServerInv, LosslessInv, AnswersInTime', NEW r \in Requests, NEW th \in Actors(r),
         Inside(th), Wake(th) \/ TimeOut(th)
  PROVE  LosslessInv'
  <1> USE DEF ServerInv
  <1>1. th \in Threads /\ call[th].at = "wait" /\ UNCHANGED <<pc, hpc, slot, takers>>
    BY RequestThreads DEF Actors, Wake, TimeOut, Inside, serverVars
  <1>2. th = Handler(r)
    BY <1>1 DEF Actors, ControlInv, RequestCallOK
  <1>3. /\ call'[th].at = "finally" /\ call'[th].slot = call[th].slot
        /\ call'[th].arg = TimedOut => slot[call[th].slot] \in {Unset, TimedOut}
    <2>1. /\ call \in [Threads -> CallType]
          /\ call[th] \in [at : CallPoints, ent : Entries \cup {Null}, slot : Slots \cup {Null}, arg : Args]
      BY <1>1 DEF StoreTypeOK, CallType
    <2>2. CASE Wake(th)
      <3>1. call' = [call EXCEPT ![th] = [call[th] EXCEPT !.at = "finally", !.arg = slot[call[th].slot]]]
        BY <2>2 DEF Wake
      <3>2. call'[th] = [call[th] EXCEPT !.at = "finally", !.arg = slot[call[th].slot]]
        BY <1>1, <2>1, <3>1
      <3> QED
        BY <2>1, <3>2
    <2>3. CASE TimeOut(th)
      <3>1. /\ call' = [call EXCEPT ![th] = [call[th] EXCEPT !.at = "finally", !.arg = TimedOut]]
            /\ slot[call[th].slot] = Unset
        BY <2>3 DEF TimeOut
      <3>2. call'[th] = [call[th] EXCEPT !.at = "finally", !.arg = TimedOut]
        BY <1>1, <2>1, <3>1
      <3> QED
        BY <2>1, <3>1, <3>2
    <2> QED
      BY <2>2, <2>3
  <1>4. \A x \in Requests : /\ call'[Request(x)] = call[Request(x)]
                            /\ x # r => call'[Handler(x)] = call[Handler(x)]
    BY <1>1, <1>2, RequestThreads, DistinctThreads DEF Wake, TimeOut, StoreTypeOK
  <1>5. SleeperWaits'
    <2>1. ASSUME NEW x \in Requests, Resolving(Request(x))'
          PROVE  /\ slot'[call'[Request(x)].slot] = Unset
                 /\ \E h \in Requests : /\ Waiting(Handler(h))'
                                        /\ call'[Handler(h)].slot = call'[Request(x)].slot
      <3>1. slot[call[Request(x)].slot] = Unset
        BY <1>4, <2>1 DEF LosslessInv, SleeperWaits, Resolving
      <3>2. PICK h \in Requests : Waiting(Handler(h)) /\ call[Handler(h)].slot = call[Request(x)].slot
        BY <1>4, <2>1 DEF LosslessInv, SleeperWaits, Resolving
      <3>3. h # r
        BY <1>2, <1>3, <1>4, <2>1, <3>2 DEF AnswersInTime, InSuspend, Waiting
      <3> QED
        BY <1>1, <1>4, <3>1, <3>2, <3>3 DEF Waiting
    <2> QED
      BY <1>2, <1>3, <1>4, <2>1 DEF LosslessInv, SleeperWaits, Waiting
  <1>6. \A x, h \in Requests : HoldsAnswer(h, x) => HoldsAnswer(h, x)'
    BY <1>1, <1>2, <1>3, <1>4, NotTimedOut DEF HoldsAnswer, InSuspend
  <1>7. OnItsWay'
    BY <1>1, <1>4, <1>6 DEF LosslessInv, OnItsWay, Readable, Resolving
  <1> QED
    BY <1>5, <1>7 DEF LosslessInv

(* Setting the slot hands the message to the one who sleeps on it. *)
LEMMA StoreLosesNothing ==
  ASSUME ServerInv, HandoverInv, LosslessInv, NEW r \in Requests, NEW th \in Actors(r),
         Inside(th), Resolve(th)
  PROVE  LosslessInv'
  <1> DEFINE s == call[th].slot
  <1> USE DEF ServerInv
  <1>1. th \in Threads /\ call[th].at = "store" /\ UNCHANGED <<pc, hpc, takers>>
    BY RequestThreads DEF Actors, Resolve, Inside, serverVars
  <1>2. th = Request(r) /\ Resolving(th)
    BY <1>1 DEF Actors, ControlInv, HandlerCallOK, Resolving
  <1>3. /\ call[th].arg = r
        /\ call' = [call EXCEPT ![th] = NoCall]
        /\ s \in Slots /\ slot[s] = Unset /\ slot' = [slot EXCEPT ![s] = r]
    <2>1. call[th].arg = r
      BY <1>1, <1>2 DEF ControlInv, RequestCallOK
    <2>2. CallOK(call[th]) /\ call[th] \in CallType
      BY <1>1 DEF StoreTypeOK
    <2> QED
      BY <1>1, <2>1, <2>2 DEF Resolve, SlotInv, StoreFindsUnset, CallOK, CallType
  <1>4. PICK h \in Requests : Waiting(Handler(h)) /\ call[Handler(h)].slot = s
    BY <1>2 DEF LosslessInv, SleeperWaits
  <1>5. \A other \in Threads \ {th} : Resolving(other) => call[other].slot # s
    BY <1>1, <1>2 DEF SlotInv, ExclusiveCompletion
  <1> HIDE DEF s
  <1>6. /\ slot'[s] = r /\ \A u : u # s => slot'[u] = slot[u]
        /\ call'[th] = NoCall
        /\ \A x \in Requests : /\ call'[Handler(x)] = call[Handler(x)]
                               /\ x # r => call'[Request(x)] = call[Request(x)]
    BY <1>1, <1>2, <1>3, RequestThreads, DistinctThreads DEF StoreTypeOK
  <1>7. SleeperWaits'
    <2>1. ASSUME NEW x \in Requests, Resolving(Request(x))'
          PROVE  /\ slot'[call'[Request(x)].slot] = Unset
                 /\ \E y \in Requests : /\ Waiting(Handler(y))'
                                        /\ call'[Handler(y)].slot = call'[Request(x)].slot
      <3>1. x # r /\ Resolving(Request(x)) /\ call'[Request(x)] = call[Request(x)]
        BY <1>2, <1>6, <2>1 DEF Resolving, NoCall
      <3>2. call[Request(x)].slot # s
        BY <1>2, <1>5, <3>1, RequestThreads, DistinctThreads
      <3> QED
        BY <1>6, <3>1, <3>2 DEF LosslessInv, SleeperWaits, Waiting
    <2> QED
      BY <1>6, <2>1 DEF LosslessInv, SleeperWaits, Waiting
  <1>8. HoldsAnswer(h, r)'
    BY <1>4, <1>6 DEF HoldsAnswer, InSuspend, Waiting, LosslessInv, SleeperWaits
  <1>9. \A x, y \in Requests : x # r /\ HoldsAnswer(y, x) => HoldsAnswer(y, x)'
    BY <1>3, <1>6, NotTimedOut DEF HoldsAnswer, InSuspend
  <1>10. OnItsWay'
    BY <1>1, <1>6, <1>8, <1>9 DEF LosslessInv, OnItsWay, Readable, Resolving
  <1> QED
    BY <1>7, <1>10 DEF LosslessInv

(* Shutdown aborts only what nobody has answered. *)
LEMMA EnvironmentLosesNothing ==
  ASSUME ServerInv, LosslessInv, AnswersInTime', EnvironmentStep
  PROVE  LosslessInv'
  <1> USE DEF ServerInv
  <1>1. UNCHANGED <<pc, hpc, takers, call>>
    BY DEF EnvironmentStep, SweeperStep, ShutdownStep, StartSweeper, SweepDue, SweepStop, Sweep, SweepIdle,
           ShutdownBegin, ShutdownCancel, serverVars
  <1>2. \A s \in Slots : slot[s] # Unset => slot'[s] = slot[s]
    BY DEF EnvironmentStep, SweeperStep, ShutdownStep, StartSweeper, SweepDue, SweepStop, Sweep, SweepIdle,
           ShutdownBegin, ShutdownCancel
  <1>3. SleeperWaits'
    BY <1>1 DEF LosslessInv, SleeperWaits, AnswersInTime, Waiting, Resolving, InSuspend
  <1>4. \A h, x \in Requests : HoldsAnswer(h, x) => HoldsAnswer(h, x)'
    <2>1. \A h \in Requests : InSuspend(Handler(h)) => call[Handler(h)].slot \in Slots
      BY RequestThreads DEF StoreTypeOK, CallOK, CallType, InSuspend
    <2> QED
      BY <1>1, <1>2, <2>1, NotTimedOut DEF HoldsAnswer, InSuspend
  <1>5. OnItsWay'
    BY <1>1, <1>4 DEF LosslessInv, OnItsWay, Readable, Resolving
  <1> QED
    BY <1>3, <1>5 DEF LosslessInv

(* LosslessInv is inductive where answers come in time. *)
LEMMA LosslessStep ==
  ASSUME ServerInv, HandoverInv, LosslessInv, AnswersInTime', [Next]_vars
  PROVE  LosslessInv'
  <1> USE DEF ServerInv
  <1>1. ASSUME UNCHANGED <<slot, takers>>, \A x \in Requests : CarriesOn(x)
        PROVE  LosslessInv'
    BY <1>1, LosslessFrame
  <1>2. CASE UNCHANGED vars
    <2>1. UNCHANGED <<slot, takers>>
      BY <1>2 DEF vars, storeVars, serverVars
    <2> QED
      BY <1>1, <1>2, <2>1, EnvironmentStays, StaysCarriesOn
  <1>3. ASSUME NEW r \in Requests, Sending(r) \/ Answering(r) \/ Streaming(r), ~ResumeHandler(r)
        PROVE  LosslessInv'
    <2>1. UNCHANGED <<slot, takers>>
      BY <1>3, RequestPassesBy
    <2> QED
      BY <1>1, <1>3, <2>1, OthersStay, StaysCarriesOn, RequestCarriesOn
  <1>4. ASSUME NEW r \in Requests, Running(r) \/ Finishing(r) \/ Asking(r),
               ~SuspendHandler(r), ~Answered(r), ~AskRaises(r)
        PROVE  LosslessInv'
    <2>1. slot' = slot
      BY <1>4, HandlerPassesBy DEF RunHandler, storeVars
    <2>2. \A x \in Requests : takers[x] \subseteq takers'[x]
      <3>1. CASE RunHandler(r)
        BY <3>1 DEF RunHandler, ServerType
      <3>2. CASE ~RunHandler(r)
        BY <1>4, <3>2, HandlerPassesBy
      <3> QED
        BY <3>1, <3>2
    <2> QED
      BY <1>4, <2>1, <2>2, OthersStay, StaysCarriesOn, HandlerCarriesOn, LosslessFrame
  <1>5. ASSUME NEW r \in Requests, NEW th \in Actors(r), Inside(th) \/ Publish(th),
               ~Wake(th), ~TimeOut(th), ~Resolve(th)
        PROVE  LosslessInv'
    <2>1. UNCHANGED <<slot, takers>>
      BY <1>5, CallPassesBy
    <2>2. CarriesOn(r)
      BY <1>5, CallCarriesOn DEF LosslessInv, SleeperWaits
    <2> QED
      BY <1>1, <1>5, <2>1, <2>2, OthersStay, StaysCarriesOn
  <1>6. ASSUME NEW r \in Requests, NEW th \in Actors(r), Inside(th) \/ Publish(th),
               Wake(th) \/ TimeOut(th) \/ Resolve(th)
        PROVE  LosslessInv'
    <2>1. th \in Threads /\ call[th].at \in {"wait", "store"}
      BY <1>6, RequestThreads DEF Actors, Wake, TimeOut, Resolve
    <2>2. Inside(th)
      BY <1>6, <2>1 DEF Publish, Broadcast
    <2> QED
      BY <1>6, <2>2, WakeLosesNothing, StoreLosesNothing
  <1> QED
    BY <1>2, <1>3, <1>4, <1>5, <1>6, StepCases, EnvironmentLosesNothing, ResumeLosesNothing,
       SleepLosesNothing, ReturnLosesNothing

(* Nothing is under way at first. *)
LEMMA LosslessInit == Init => LosslessInv
  BY RequestThreads DEF Init, StoreInit, LosslessInv, SleeperWaits, OnItsWay, Readable, NoCall, Resolving, Waiting

(* No message/send that was answered is lost, as long as no answer comes too late: a
   handler has it or is about to start with it.  The condition is needed, and is all
   that is.  A wait that has timed out, or was aborted, may still hold its slot when a
   message is put there; a wait that nobody answers may end in any way. *)
THEOREM MessagesNotLost == Spec /\ []AnswersInTime => []NoLostMessage
  <1>1. ServerInv /\ HandoverInv /\ LosslessInv => NoLostMessage
    <2> SUFFICES ASSUME ServerInv, HandoverInv, LosslessInv, NEW r \in Readable,
                        Kind[r] = "send", pc[r] = "done"
                 PROVE  \/ takers[r] # {} \/ hpc[r] = "start"
                        \/ \E h \in Requests : HoldsAnswer(h, r)
      BY DEF NoLostMessage
    <2>1. ~Resolving(Request(r))
      BY DEF ServerInv, ControlInv, RequestCallOK, Resolving, Readable
    <2>2. CASE hpc[r] = "none"
      BY <2>1, <2>2 DEF LosslessInv, OnItsWay, Readable
    <2>3. CASE hpc[r] \notin {"none", "start"}
      BY <2>3 DEF HandoverInv, TakenOnce, Readable
    <2> QED
      BY <2>2, <2>3
  <1>2. ServerInv /\ HandoverInv /\ LosslessInv /\ AnswersInTime' /\ [Next]_vars => LosslessInv'
    BY LosslessStep
  <1> QED
    BY <1>1, <1>2, HandoverCorrect, LosslessInit, PTL DEF Spec

-----------------------------------------------------------------------------
(* Without timeouts and shutdown every answer comes in time.                 *)

(* Where nothing times out and the store is not shut down. *)
NothingGivesUp == Env \cap {"timeout", "shutdown"} = {}

(* Nobody has given up: a slot is unset as long as it is registered, and then until
   the resume that detached it fills it. *)
SleepsUntilAnswered ==
    /\ closed # "closing"
    /\ \A h \in Requests : InSuspend(Handler(h)) => call[Handler(h)].arg # TimedOut
    /\ \A s \in Slots : slot[s] # Abort
    /\ \A e \in Entries : entry[e].slot # Null => slot[entry[e].slot] = Unset
    /\ \A r \in Requests : Resolving(Request(r)) => slot[call[Request(r)].slot] = Unset

(* No suspension begins. *)
NothingRegistered == \A e \in Entries : entry'[e].slot \in {entry[e].slot, Null}

(* Only ask() registers a slot. *)
LEMMA RequestRegisters ==
  ASSUME StoreTypeOK, NEW r \in Requests, Sending(r) \/ Answering(r) \/ Streaming(r)
  PROVE  NothingRegistered /\ closed' = closed
  <1> USE DEF StoreTypeOK, EntryType, NothingRegistered, ReadThen, storeVars, Lookup, GetBegin, GetEnd
  <1>1. CASE Sending(r)
    BY <1>1 DEF Sending, StartMessage, SetPush, CheckInterrupted, ResumeHandler, ResumeNobody,
                AppendMessage, SetWorking, Spawn, GetOrCreate, CallSetPush, CallResume,
                CallAppendMessage, CallSetState, Detached
  <1>2. CASE Answering(r)
    BY <1>2 DEF Answering, StartOther, Cancel, Settle, SettleDeadline, BeginResponse, Respond,
                RespondGone, CallSetState
  <1>3. CASE Streaming(r)
    BY <1>3 DEF Streaming, BeginSnapshot, QueueSnapshot, SnapshotGone, SubscribeStream, Drain,
                CheckFinished, Disconnect, Close, Subscribe, Unsubscribe
  <1> QED
    BY <1>1, <1>2, <1>3

(* A handler registers a slot by suspending and in no other way. *)
LEMMA HandlerRegisters ==
  ASSUME StoreTypeOK, NEW r \in Requests, Running(r) \/ Finishing(r) \/ Asking(r)
  PROVE  /\ ~SuspendHandler(r) => NothingRegistered
         /\ UNCHANGED <<slot, closed>>
  <1> USE DEF StoreTypeOK, EntryType, NothingRegistered, HandlerReadThen, storeVars, Lookup, CallSetState,
              CallAppendArtifact
  <1>1. CASE Running(r)
    BY <1>1 DEF Running, Reject, RunHandler, EmitArtifact, Update, Return, Raise, CheckReturn,
                CheckRaise, ReadPushConfig, DeliverPush, Die, ReturnDone, PushFails
  <1>2. CASE Finishing(r)
    BY <1>2 DEF Finishing, Complete, SetCompleted, Fail, CancelTask
  <1>3. CASE Asking(r)
    BY <1>3 DEF Asking, Ask, SuspendHandler, SuspendRaises, Answered, AskRaises, ResumeWorking,
                AppendReply, Catch, Propagate, Suspend, Finally, Cleared, CallAppendMessage
  <1> QED
    BY <1>1, <1>2, <1>3

(* No step inside the store registers one, or closes the store. *)
LEMMA InStoreRegisters ==
  ASSUME StoreTypeOK, NEW th \in Threads, Inside(th) \/ Publish(th)
  PROVE  NothingRegistered /\ closed' = closed
  <1>1. CASE WriteState(th) \/ WriteMessage(th) \/ WriteArtifact(th) \/ WritePush(th)
    <2>1. /\ closed' = closed
          /\ \E new : entry' = [entry EXCEPT ![call[th].ent] = new] /\ new.slot = entry[call[th].ent].slot
      BY <1>1 DEF StoreTypeOK, CallType, CallOK, EntryType, WriteState, WriteMessage, WriteArtifact,
            WritePush, WriteEntry, WithState
    <2> QED
      BY <2>1 DEF StoreTypeOK, NothingRegistered
  <1>2. CASE Wake(th) \/ TimeOut(th) \/ TestSlot(th) \/ Resolve(th) \/ Broadcast(th)
    BY <1>2 DEF Wake, TimeOut, TestSlot, Resolve, Broadcast, NothingRegistered
  <1> QED
    BY <1>1, <1>2 DEF Inside, Publish

(* A step that registers nothing and after which every request carries on. *)
LEMMA SleepFrame ==
  ASSUME SleepsUntilAnswered, UNCHANGED <<slot, closed>>, NothingRegistered,
         \A x \in Requests : CarriesOn(x)
  PROVE  SleepsUntilAnswered'
  BY DEF SleepsUntilAnswered, NothingRegistered, CarriesOn, InSuspend

(* What a resume detaches and a suspension registers is unset. *)
LEMMA HandoverKeepsSleep ==
  ASSUME ServerInv, SleepsUntilAnswered, NEW r \in Requests, ResumeHandler(r) \/ SuspendHandler(r)
  PROVE  SleepsUntilAnswered'
  <1> USE DEF ServerInv
  <1>1. CASE ResumeHandler(r)
    <2> DEFINE e == registry[Target[r]]
    <2>1. /\ e \in Entries /\ entry[e].slot # Null
          /\ call' = [call EXCEPT ![Request(r)] = Calling("resolve", e, entry[e].slot, r)]
          /\ UNCHANGED <<slot, closed>>
      BY <1>1, RequestThreads
         DEF ResumeHandler, CallResume, Suspended, Registered, CallThen, Goto, progress, StoreTypeOK
    <2>2. NothingRegistered
      BY <1>1, RequestRegisters DEF Sending
    <2> HIDE DEF e
    <2>3. /\ call'[Request(r)].slot = entry[e].slot
          /\ \A x \in Requests : /\ call'[Handler(x)] = call[Handler(x)]
                                 /\ x # r => call'[Request(x)] = call[Request(x)]
      BY <2>1, RequestThreads, DistinctThreads DEF StoreTypeOK, Calling
    <2> QED
      BY <2>1, <2>2, <2>3 DEF SleepsUntilAnswered, NothingRegistered, InSuspend, Resolving
  <1>2. CASE SuspendHandler(r)
    <2> DEFINE n == nSlots + 1
               e == registry[Target[r]]
    <2>1. /\ call' = [call EXCEPT ![Handler(r)] = Calling("wait", e, n, NoArg)]
          /\ entry' = [entry EXCEPT ![e].slot = n]
          /\ nSlots < MaxSlots /\ UNCHANGED <<slot, closed>>
      BY <1>2 DEF SuspendHandler, HandlerCallThen, progress, Suspend
    <2>2. n \in Slots /\ slot[n] = Unset
      BY <2>1, BoundsAssumption DEF StoreTypeOK, Slots, SlotInv, SlotsNumbered
    <2>3. \A x \in Entries : entry'[x].slot \in {entry[x].slot, n}
      BY <2>1 DEF StoreTypeOK, EntryType
    <2> HIDE DEF n, e
    <2>4. /\ call'[Handler(r)].arg = NoArg
          /\ \A x \in Requests : /\ call'[Request(x)] = call[Request(x)]
                                 /\ x # r => call'[Handler(x)] = call[Handler(x)]
      BY <2>1, RequestThreads, DistinctThreads DEF StoreTypeOK, Calling
    <2> QED
      BY <2>1, <2>2, <2>3, <2>4, NotTimedOut DEF SleepsUntilAnswered, InSuspend, Resolving
  <1> QED
    BY <1>1, <1>2

(* A handler that returns from a suspension leaves the other sleepers alone. *)
LEMMA ReturnKeepsSleep ==
  ASSUME ServerInv, SleepsUntilAnswered, NEW r \in Requests, Answered(r) \/ AskRaises(r)
  PROVE  SleepsUntilAnswered'
  <1> USE DEF ServerInv
  <1>1. /\ call' = [call EXCEPT ![Handler(r)] = NoCall]
        /\ UNCHANGED <<slot, closed>>
    BY DEF Answered, AskRaises, HandlerCallThen, progress, Finally
  <1>2. NothingRegistered
    BY HandlerRegisters DEF Asking, SuspendHandler, HandlerAt, Answered, AskRaises
  <1>3. /\ call'[Handler(r)] = NoCall
        /\ \A x \in Requests : /\ call'[Request(x)] = call[Request(x)]
                               /\ x # r => call'[Handler(x)] = call[Handler(x)]
    BY <1>1, RequestThreads, DistinctThreads DEF StoreTypeOK
  <1> QED
    BY <1>1, <1>2, <1>3 DEF SleepsUntilAnswered, NothingRegistered, InSuspend, Resolving, NoCall

(* A sleeper wakes with what its slot was given, and only a detached slot is filled. *)
LEMMA WakeKeepsSleep ==
  ASSUME NothingGivesUp, ServerInv, SleepsUntilAnswered, NEW r \in Requests, NEW th \in Actors(r),
         Inside(th), Wake(th) \/ TimeOut(th) \/ Resolve(th)
  PROVE  SleepsUntilAnswered'
  <1> USE DEF ServerInv
  <1>1. th \in Threads /\ UNCHANGED <<entry, closed>> /\ ~TimeOut(th)
    BY RequestThreads DEF Actors, Wake, TimeOut, Resolve, NothingGivesUp
  <1>2. CallOK(call[th]) /\ call[th] \in CallType
    BY <1>1 DEF StoreTypeOK
  <1>3. CASE Wake(th)
    <2>1. th = Handler(r)
      BY <1>3 DEF Wake, Actors, ControlInv, RequestCallOK
    <2>2. call'[th].arg # TimedOut /\ slot' = slot
      BY <1>1, <1>2, <1>3, MessagesAssumption DEF Wake, StoreTypeOK, CallOK, CallType, Unset, Abort, TimedOut
    <2>3. \A x \in Requests : /\ call'[Request(x)] = call[Request(x)]
                              /\ x # r => call'[Handler(x)] = call[Handler(x)]
      BY <1>1, <1>3, <2>1, RequestThreads, DistinctThreads DEF Wake, StoreTypeOK
    <2> QED
      BY <1>1, <2>1, <2>2, <2>3 DEF SleepsUntilAnswered, InSuspend, Resolving
  <1>4. CASE Resolve(th)
    <2> DEFINE s == call[th].slot
    <2>1. th = Request(r) /\ Resolving(th) /\ call[th].arg = r
      BY <1>4 DEF Resolve, Actors, ControlInv, HandlerCallOK, RequestCallOK, Resolving
    <2>2. /\ call' = [call EXCEPT ![th] = NoCall]
          /\ s \in Slots /\ slot' = [slot EXCEPT ![s] = r]
      BY <1>2, <1>4, <2>1 DEF Resolve, CallOK, CallType
    <2>3. /\ \A e \in Entries : entry[e].slot # s
          /\ \A other \in Threads \ {th} : Resolving(other) => call[other].slot # s
      BY <1>1, <2>1 DEF SlotInv, ExclusiveCompletion
    <2> HIDE DEF s
    <2>4. /\ slot'[s] = r /\ \A u : u # s => slot'[u] = slot[u]
          /\ call'[th] = NoCall
          /\ \A x \in Requests : /\ call'[Handler(x)] = call[Handler(x)]
                                 /\ x # r => call'[Request(x)] = call[Request(x)]
      BY <1>1, <2>1, <2>2, RequestThreads, DistinctThreads DEF StoreTypeOK
    <2>5. \A x \in Requests \ {r} : Resolving(Request(x)) => call[Request(x)].slot # s
      BY <2>1, <2>3, RequestThreads, DistinctThreads
    <2>6. \A u \in Slots : slot'[u] # Abort
      BY <2>4, NotTimedOut DEF SleepsUntilAnswered
    <2> QED
      BY <1>1, <2>1, <2>3, <2>4, <2>5, <2>6 DEF SleepsUntilAnswered, InSuspend, Resolving, NoCall
  <1> QED
    BY <1>1, <1>3, <1>4

(* Nothing else sets or registers a slot. *)
LEMMA EnvironmentKeepsSleep ==
  ASSUME NothingGivesUp, StoreTypeOK, SleepsUntilAnswered, EnvironmentStep
  PROVE  SleepsUntilAnswered'
  <1>1. UNCHANGED <<call, slot, entry>> /\ closed' # "closing"
    BY DEF EnvironmentStep, SweeperStep, ShutdownStep, StartSweeper, SweepDue, SweepStop, Sweep, SweepIdle,
           ShutdownBegin, ShutdownCancel, serverVars, NothingGivesUp, SleepsUntilAnswered
  <1> QED
    BY <1>1 DEF SleepsUntilAnswered, InSuspend, Resolving

(* Nobody gives up. *)
LEMMA SleepStep ==
  ASSUME NothingGivesUp, ServerInv, SleepsUntilAnswered, [Next]_vars
  PROVE  SleepsUntilAnswered'
  <1> USE DEF ServerInv
  <1>1. CASE UNCHANGED vars
    <2>1. UNCHANGED <<slot, closed>> /\ NothingRegistered
      BY <1>1 DEF vars, storeVars, NothingRegistered
    <2> QED
      BY <1>1, <2>1, EnvironmentStays, StaysCarriesOn, SleepFrame
  <1>2. ASSUME NEW r \in Requests, Sending(r) \/ Answering(r) \/ Streaming(r), ~ResumeHandler(r)
        PROVE  SleepsUntilAnswered'
    <2>1. UNCHANGED <<slot, closed>> /\ NothingRegistered
      BY <1>2, RequestPassesBy, RequestRegisters
    <2> QED
      BY <1>2, <2>1, OthersStay, StaysCarriesOn, RequestCarriesOn, SleepFrame
  <1>3. ASSUME NEW r \in Requests, Running(r) \/ Finishing(r) \/ Asking(r),
               ~SuspendHandler(r), ~Answered(r), ~AskRaises(r)
        PROVE  SleepsUntilAnswered'
    <2>1. UNCHANGED <<slot, closed>> /\ NothingRegistered
      BY <1>3, HandlerRegisters
    <2> QED
      BY <1>3, <2>1, OthersStay, StaysCarriesOn, HandlerCarriesOn, SleepFrame
  <1>4. ASSUME NEW r \in Requests, NEW th \in Actors(r), Inside(th) \/ Publish(th),
               ~Wake(th), ~TimeOut(th), ~Resolve(th)
        PROVE  SleepsUntilAnswered'
    <2>1. UNCHANGED <<slot, closed>> /\ NothingRegistered
      BY <1>4, CallPassesBy, InStoreRegisters, RequestThreads DEF Actors
    <2>2. CarriesOn(r)
      BY <1>4, CallCarriesOn DEF SleepsUntilAnswered
    <2> QED
      BY <1>4, <2>1, <2>2, OthersStay, StaysCarriesOn, SleepFrame
  <1>5. ASSUME NEW r \in Requests, NEW th \in Actors(r), Inside(th) \/ Publish(th),
               Wake(th) \/ TimeOut(th) \/ Resolve(th)
        PROVE  SleepsUntilAnswered'
    <2>1. th \in Threads /\ call[th].at \in {"wait", "store"}
      BY <1>5, RequestThreads DEF Actors, Wake, TimeOut, Resolve
    <2>2. Inside(th)
      BY <1>5, <2>1 DEF Publish, Broadcast
    <2> QED
      BY <1>5, <2>2, WakeKeepsSleep
  <1> QED
    BY <1>1, <1>2, <1>3, <1>4, <1>5, StepCases, EnvironmentKeepsSleep, HandoverKeepsSleep, ReturnKeepsSleep

(* No answer comes too late where suspensions do not time out and the store is not shut
   down: the condition MessagesNotLost sets fails only by their doing. *)
THEOREM InTimeUnlessGivenUp ==
  ASSUME NothingGivesUp
  PROVE  Spec => []AnswersInTime
  <1>1. Init => SleepsUntilAnswered
    BY RequestThreads DEF Init, StoreInit, SleepsUntilAnswered, NoCall, NewEntry, Resolving, InSuspend,
                          Unset, Abort
  <1>2. ServerInv /\ SleepsUntilAnswered /\ [Next]_vars => SleepsUntilAnswered'
    BY SleepStep
  <1>3. HandoverInv /\ SleepsUntilAnswered => AnswersInTime
    BY DEF HandoverInv, WokenWithSlot, SleepsUntilAnswered, AnswersInTime, InSuspend, Waiting
  <1> QED
    BY <1>1, <1>2, <1>3, HandoverCorrect, PTL DEF Spec
=============================================================================
