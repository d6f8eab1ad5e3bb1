------------------------------ MODULE A2AServer ------------------------------
(***************************************************************************)
(* The JSON-RPC server of an agent, src/zyndai_agent/a2a/server.py, and    *)
(* the TaskHandle through which the user's handler drives a task.          *)
(*                                                                         *)
(* Every inbound request has a Flask thread of its own and, when it        *)
(* dispatches the user's handler, a second daemon thread.  Both are        *)
(* programs over the calls of TaskStore: pc[r] and hpc[r] name the next    *)
(* call, and a program moves only when its thread is not inside one.       *)
(*                                                                         *)
(* The requests are those that passed parsing and x-zynd-auth: a request   *)
(* that is refused there touches no state modelled here.  A message        *)
(* without a taskId gets a fresh one, so it is a request whose Target no   *)
(* other request has.                                                      *)
(***************************************************************************)
EXTENDS TaskStore, Sequences

CONSTANTS
    Requests,      \* the inbound requests
    Kind,          \* Kind[r]: the JSON-RPC method of r
    Target,        \* Target[r]: the task r names
    WithPush,      \* sends and streams with an inline pushNotificationConfig
    Invalid,       \* messages no handler accepts: none registered, or payload invalid
    Raising,       \* messages whose conversion may raise another error than ValidationError
    HandlerOps,    \* what the user's handler may do: see HandlerMoves
    AskStates,     \* input-required for ask(), auth-required for require_auth()
    UpdateStates,  \* the states the user's handler passes to update()
    MaxOps,        \* bound on the asks, artifacts and updates of one handler
    Faults         \* "deadline": _wait_for_settle gives up;
                   \* "disconnect": an SSE client goes away;
                   \* "unreachable": the POST of a push notification fails

Kinds == {"send", "stream", "cancel", "resubscribe", "push_set", "get"}
HandlerMoves == {"ask", "emit", "update", "complete", "fail", "cancel", "return",
                 "done", "raise", "catch", "linger"}
Partial == "partial"   \* an artifact the handler emits; its result is named after r

Request(r) == <<r, "request">>
Handler(r) == <<r, "handler">>

ASSUME RequestsAssumption ==
    /\ Kind \in [Requests -> Kinds]
    /\ Target \in [Requests -> Tasks]
    /\ WithPush \subseteq Requests
    /\ Invalid \subseteq Requests /\ Raising \subseteq Requests
    /\ MaxOps \in Nat
    /\ HandlerOps \subseteq HandlerMoves
    /\ AskStates \subseteq InterruptedStates
    /\ UpdateStates \subseteq TaskStates
ASSUME StoreUseAssumption ==
    /\ Threads = Requests \X {"request", "handler"}
    /\ Messages = Requests
    /\ Artifacts = Requests \cup {Partial}
    /\ Calls = StoreCalls
    /\ ClientStates = TaskStates

VARIABLES
    pc,        \* the next call of each request's thread
    hpc,       \* the next call of each handler's thread
    live,      \* the entry whose task dict get_or_create returned
    ops,       \* how many bounded moves the handler has made
    reply,     \* the message a resumed ask() still has to append
    takers,    \* the handlers a message was handed to
    feed,      \* every event put on the stream's queue
    sent,      \* how many of them the SSE generator has taken
    response,  \* the task the request answered with
    pushed     \* the state the handler's push notification carried

progress == <<live, ops, reply, takers, feed, sent, response, pushed>>
serverVars == <<pc, hpc, live, ops, reply, takers, feed, sent, response, pushed>>
vars == <<storeVars, serverVars>>

NoTask == [state |-> NoArg, artifacts |-> {}]

Init ==
    /\ StoreInit
    /\ pc = [r \in Requests |-> "start"]
    /\ hpc = [r \in Requests |-> "none"]
    /\ live = [r \in Requests |-> Null]
    /\ ops = [r \in Requests |-> 0]
    /\ reply = [r \in Requests |-> NoArg]
    /\ takers = [r \in Requests |-> {}]
    /\ feed = [r \in Requests |-> <<>>]
    /\ sent = [r \in Requests |-> 0]
    /\ response = [r \in Requests |-> NoTask]
    /\ pushed = [r \in Requests |-> NoArg]

-----------------------------------------------------------------------------

At(r, point) == pc[r] = point /\ Idle(Request(r))
Goto(r, point) == pc' = [pc EXCEPT ![r] = point]

(* The state of a task as a get() returns it; NoArg when get() returns None.
   A get() of which only the status is used reads it in one step.          *)
StateOf(t) == IF Registered(t) THEN entry[registry[t]].state ELSE NoArg
Gone(t) == ~Registered(t)

(* A step that reads the store, under its lock, and changes only pc[r]. *)
ReadThen(r, point) == LockFree /\ Goto(r, point) /\ UNCHANGED <<storeVars, hpc, progress>>

(* A step that begins a call of the store and changes only pc[r] besides. *)
CallThen(r, point) == Goto(r, point) /\ UNCHANGED <<hpc, progress>>

(* _maybe_set_inline_push_config: nothing to do without an inline config. *)
PushOr(r, point) == IF r \in WithPush THEN "push" ELSE point

-----------------------------------------------------------------------------
(* message/send and message/stream.                                         *)

StartMessage(r) ==
    /\ At(r, "start") /\ Kind[r] \in {"send", "stream"}
    /\ GetOrCreate(Request(r), Target[r])
    /\ live' = [live EXCEPT ![r] = registry'[Target[r]]]
    /\ Goto(r, IF Kind[r] = "send" THEN PushOr(r, "check") ELSE "append")
    /\ UNCHANGED <<hpc, ops, reply, takers, feed, sent, response, pushed>>

SetPush(r) ==
    /\ At(r, "push")
    /\ CallSetPush(Request(r), Target[r])
    /\ CallThen(r, CASE Kind[r] = "send" -> "check"
                     [] Kind[r] = "stream" -> "subscribe"
                     [] OTHER -> "done")

(* message/send reads the state in the live task dict, under no lock. *)
CheckInterrupted(r) ==
    /\ At(r, "check")
    /\ Goto(r, IF entry[live[r]].state \in InterruptedStates THEN "resume" ELSE "append")
    /\ UNCHANGED <<storeVars, hpc, progress>>

(* Variant: after waking the handler the message is dispatched as well. *)
ResumeAndDispatch(r) ==
    /\ At(r, "resume")
    /\ CallResume(Request(r), Target[r], r)
    /\ CallThen(r, "append")

ResumeHandler(r) ==
    /\ At(r, "resume")
    /\ CallResume(Request(r), Target[r], r)
    /\ CallThen(r, "settle")

(* Variant: the result of resume_if_suspended is ignored. *)
ResumeNobodySettles(r) ==
    /\ At(r, "resume")
    /\ ~Suspended(Target[r])
    /\ ReadThen(r, "settle")

ResumeNobody(r) ==
    /\ At(r, "resume")
    /\ ~Suspended(Target[r])
    /\ ReadThen(r, "append")

AppendMessage(r) ==
    /\ At(r, "append")
    /\ CallAppendMessage(Request(r), Target[r], r)
    /\ CallThen(r, IF Kind[r] = "send" THEN "work" ELSE PushOr(r, "subscribe"))

(* Variant: the state is written through the live dict, past the store. *)
SetWorkingDirectly(r) ==
    /\ At(r, "work")
    /\ entry' = [entry EXCEPT ![live[r]].state = "working"]
    /\ UNCHANGED <<registry, nEntries, slot, nSlots, call, sweeper, closed>>
    /\ CallThen(r, "spawn")

SetWorking(r) ==
    /\ At(r, "work")
    /\ CallSetState(Request(r), Target[r], "working")
    /\ CallThen(r, "spawn")

Spawn(r) ==
    /\ At(r, "spawn")
    /\ hpc' = [hpc EXCEPT ![r] = "start"]
    /\ Goto(r, IF Kind[r] = "send" THEN "settle" ELSE "stream")
    /\ UNCHANGED <<storeVars, progress>>

(* Variant: a failed task is not recognised as settled. *)
SettledUnlessFailed(t) == Gone(t) \/ StateOf(t) \in InterruptedStates \cup {"completed"}

Settled(t) == Gone(t) \/ StateOf(t) \in TerminalStates \cup InterruptedStates

(* _wait_for_settle polls until the task is settled.  Polls that find it
   unsettled change nothing.                                               *)
Settle(r) ==
    /\ At(r, "settle")
    /\ Settled(Target[r])
    /\ ReadThen(r, "final")

SettleDeadline(r) ==
    /\ "deadline" \in Faults
    /\ At(r, "settle")
    /\ Goto(r, "final")
    /\ UNCHANGED <<storeVars, hpc, progress>>

(* The get() whose copy is the JSON-RPC result. *)
BeginResponse(r) ==
    /\ At(r, "final")
    /\ GetBegin(Request(r), Target[r])
    /\ UNCHANGED serverVars

Respond(r) ==
    /\ pc[r] = "final"
    /\ GetEnd(Request(r))
    /\ response' = [response EXCEPT ![r] = Snapshot(Request(r))]
    /\ Goto(r, "done")
    /\ UNCHANGED <<hpc, live, ops, reply, takers, feed, sent, pushed>>

RespondGone(r) ==
    /\ At(r, "final")
    /\ Gone(Target[r])
    /\ ReadThen(r, "done")

-----------------------------------------------------------------------------
(* tasks/get, tasks/cancel, tasks/resubscribe and pushNotificationConfig/set. *)

(* tasks/get is one get().  The others look the task up first, and answer an
   error when it is not there or, for cancel, already in a terminal state.   *)
Refused(r) ==
    \/ Kind[r] # "get" /\ Gone(Target[r])
    \/ Kind[r] = "cancel" /\ StateOf(Target[r]) \in TerminalStates

StartOther(r) ==
    /\ At(r, "start") /\ Kind[r] \notin {"send", "stream"}
    /\ ReadThen(r, IF Refused(r) THEN "done"
                   ELSE CASE Kind[r] = "get" -> "final"
                          [] Kind[r] = "cancel" -> "cancel"
                          [] Kind[r] = "resubscribe" -> "snapshot"
                          [] Kind[r] = "push_set" -> "push")

Cancel(r) ==
    /\ At(r, "cancel")
    /\ CallSetState(Request(r), Target[r], "canceled")
    /\ CallThen(r, "final")

(* The events on a stream's queue. *)
StatusEvent(state) == [kind |-> "status", state |-> state, artifacts |-> {}]
ArtifactEvent(a) == [kind |-> "artifact", state |-> NoArg, artifacts |-> {a}]
TaskEvent(task) == [kind |-> "task", state |-> task.state, artifacts |-> task.artifacts]

BeginSnapshot(r) ==
    /\ At(r, "snapshot")
    /\ GetBegin(Request(r), Target[r])
    /\ UNCHANGED serverVars

QueueSnapshot(r) ==
    /\ pc[r] = "snapshot"
    /\ GetEnd(Request(r))
    /\ feed' = [feed EXCEPT ![r] = Append(@, TaskEvent(Snapshot(Request(r))))]
    /\ Goto(r, "subscribe")
    /\ UNCHANGED <<hpc, live, ops, reply, takers, sent, response, pushed>>

SnapshotGone(r) ==
    /\ At(r, "snapshot")
    /\ Gone(Target[r])
    /\ ReadThen(r, "subscribe")

-----------------------------------------------------------------------------
(* Variant: message/stream does not set the task working. *)
AfterSubscribeSpawn(r) == IF Kind[r] = "stream" THEN "spawn" ELSE "stream"

(* Server-sent events.                                                      *)

AfterSubscribe(r) == IF Kind[r] = "stream" THEN "work" ELSE "stream"

SubscribeStream(r) ==
    /\ At(r, "subscribe")
    /\ Subscribe(Request(r), Target[r])
    /\ CallThen(r, AfterSubscribe(r))

(* Variant: only `completed` counts as final. *)
FinishedByCompletion(r) == \E i \in DOMAIN feed[r] : feed[r][i].state = "completed"

(* The `finished` event: a final status, or a snapshot already terminal. *)
Finished(r) == \E i \in DOMAIN feed[r] : feed[r][i].state \in TerminalStates

(* Variant: the generator counts one event too many. *)
DrainOneMore(r) ==
    /\ At(r, "stream")
    /\ sent[r] < Len(feed[r]) \/ Finished(r)
    /\ sent' = [sent EXCEPT ![r] = Len(feed[r]) + 1]
    /\ Goto(r, "yielded")
    /\ UNCHANGED <<storeVars, hpc, live, ops, reply, takers, feed, response, pushed>>

Drain(r) ==
    /\ At(r, "stream")
    /\ sent[r] < Len(feed[r]) \/ Finished(r)
    /\ sent' = [sent EXCEPT ![r] = Len(feed[r])]
    /\ Goto(r, "yielded")
    /\ UNCHANGED <<storeVars, hpc, live, ops, reply, takers, feed, response, pushed>>

(* Variant: the generator returns without looking at the queue again. *)
StreamEndsAtOnce(r) == Finished(r)

(* The generator returns when the stream is finished and the queue empty. *)
StreamEnds(r) == Finished(r) /\ sent[r] = Len(feed[r])

CheckFinished(r) ==
    /\ At(r, "yielded")
    /\ Goto(r, IF StreamEnds(r) THEN "closing" ELSE "stream")
    /\ UNCHANGED <<storeVars, hpc, progress>>

Disconnect(r) ==
    /\ "disconnect" \in Faults
    /\ At(r, "stream") \/ At(r, "yielded")
    /\ Goto(r, "gone")
    /\ UNCHANGED <<storeVars, hpc, progress>>

Close(r) ==
    /\ At(r, "closing") \/ At(r, "gone")
    /\ Unsubscribe(Request(r))
    /\ CallThen(r, "done")

-----------------------------------------------------------------------------
(* _dispatch: the handler thread of r.                                      *)

HandlerAt(r, point) == hpc[r] = point /\ Idle(Handler(r))
HandlerGoto(r, point) == hpc' = [hpc EXCEPT ![r] = point]
HandlerCallThen(r, point) == HandlerGoto(r, point) /\ UNCHANGED <<pc, progress>>
HandlerReadThen(r, point) ==
    LockFree /\ HandlerGoto(r, point) /\ UNCHANGED <<storeVars, pc, progress>>

Reject(r) ==
    /\ HandlerAt(r, "start") /\ r \in Invalid
    /\ CallSetState(Handler(r), Target[r], "rejected")
    /\ HandlerCallThen(r, "done")

(* An error of another class is caught by nobody: the thread dies before the handler
   has run, without a final state and without the push notification.         *)
Die(r) ==
    /\ HandlerAt(r, "start") /\ r \in Raising
    /\ HandlerCallThen(r, "died") /\ UNCHANGED storeVars

RunHandler(r) ==
    /\ HandlerAt(r, "start") /\ r \notin Invalid
    /\ HandlerGoto(r, "run")
    /\ takers' = [takers EXCEPT ![r] = @ \cup {r}]
    /\ UNCHANGED <<storeVars, pc, live, ops, reply, feed, sent, response, pushed>>

(* The user's code makes one of its moves. *)
Move(r, move) == HandlerAt(r, "run") /\ move \in HandlerOps

CountMove(r) ==
    /\ ops[r] < MaxOps
    /\ ops' = [ops EXCEPT ![r] = @ + 1]
    /\ UNCHANGED <<pc, live, reply, takers, feed, sent, response, pushed>>

Ask(r, state) ==
    /\ Move(r, "ask") /\ CountMove(r)
    /\ CallSetState(Handler(r), Target[r], state)
    /\ HandlerGoto(r, "suspend")

EmitArtifact(r) ==
    /\ Move(r, "emit") /\ CountMove(r)
    /\ CallAppendArtifact(Handler(r), Target[r], Partial)
    /\ UNCHANGED hpc

(* update() passes on whatever state it is given, a terminal one included. *)
Update(r, state) ==
    /\ Move(r, "update") /\ CountMove(r)
    /\ CallSetState(Handler(r), Target[r], state)
    /\ UNCHANGED hpc

(* complete(), fail() and cancel() return a sentinel, which ends the dispatch if
   the handler returns it at once; a handler that does not may go on.        *)
HandlerFinishes(r) ==
    \/ HandlerCallThen(r, "push")
    \/ /\ hpc[r] \in {"run", "completing"} /\ "linger" \in HandlerOps
       /\ CountMove(r)
       /\ HandlerGoto(r, "run")

(* Variant: complete() sets the state and adds no artifact. *)
CompleteWithoutResult(r) ==
    /\ Move(r, "complete") \/ HandlerAt(r, "complete")
    /\ CallSetState(Handler(r), Target[r], "completed")
    /\ HandlerCallThen(r, "push")

(* complete(): the result artifact first, then the state.  It is called by the
   handler, or by _dispatch with what the handler returned.                  *)
Complete(r) ==
    /\ Move(r, "complete") \/ HandlerAt(r, "complete")
    /\ CallAppendArtifact(Handler(r), Target[r], r)
    /\ HandlerCallThen(r, IF hpc[r] = "run" THEN "completing" ELSE "finishing")

SetCompleted(r) ==
    /\ HandlerAt(r, "completing") \/ HandlerAt(r, "finishing")
    /\ CallSetState(Handler(r), Target[r], "completed")
    /\ HandlerFinishes(r)

(* fail(): by the handler, by complete() on output that does not validate, or
   by _dispatch for an exception.                                            *)
Fail(r) ==
    /\ \/ Move(r, "fail")
       \/ HandlerAt(r, "complete") /\ "fail" \in HandlerOps
       \/ HandlerAt(r, "fail")
    /\ CallSetState(Handler(r), Target[r], "failed")
    /\ HandlerFinishes(r)

CancelTask(r) ==
    /\ Move(r, "cancel")
    /\ CallSetState(Handler(r), Target[r], "canceled")
    /\ HandlerFinishes(r)

(* The handler returns a plain value, returns the sentinel later on, or raises. *)
Return(r) ==
    /\ Move(r, "return")
    /\ HandlerCallThen(r, "returned") /\ UNCHANGED storeVars

ReturnDone(r) ==
    /\ Move(r, "done")
    /\ HandlerCallThen(r, "push") /\ UNCHANGED storeVars

Raise(r) ==
    /\ Move(r, "raise")
    /\ HandlerCallThen(r, "raised") /\ UNCHANGED storeVars

(* Variant: a task that waits for input is left to its client. *)
StillOpenIfWorking(t) == StateOf(t) = "working"

(* _dispatch finishes the task unless it is gone or already terminal. *)
StillOpen(t) == StateOf(t) \notin TerminalStates \cup {NoArg}

CheckReturn(r) ==
    /\ HandlerAt(r, "returned")
    /\ HandlerReadThen(r, IF StillOpen(Target[r]) THEN "complete" ELSE "push")

CheckRaise(r) ==
    /\ HandlerAt(r, "raised")
    /\ HandlerReadThen(r, IF StillOpen(Target[r]) THEN "fail" ELSE "push")

(* ask() and require_auth() after the state is set: suspend, and on an answer
   that converts set the task working again and append the answer to its
   history.  They raise on an abort, a timeout or an answer that does not.   *)
SuspendHandler(r) ==
    /\ HandlerAt(r, "suspend")
    /\ Suspend(Handler(r), Target[r])
    /\ HandlerCallThen(r, "suspended")

SuspendRaises(r) ==
    /\ HandlerAt(r, "suspend")
    /\ SuspendRefused(Target[r])
    /\ HandlerReadThen(r, "ask_raised")

Answered(r) ==
    /\ hpc[r] = "suspended"
    /\ Finally(Handler(r))
    /\ call[Handler(r)].arg \in Messages \ Invalid
    /\ reply' = [reply EXCEPT ![r] = call[Handler(r)].arg]
    /\ takers' = [takers EXCEPT ![call[Handler(r)].arg] = @ \cup {r}]
    /\ HandlerGoto(r, "resumed")
    /\ UNCHANGED <<pc, live, ops, feed, sent, response, pushed>>

AskRaises(r) ==
    /\ hpc[r] = "suspended"
    /\ Finally(Handler(r))
    /\ call[Handler(r)].arg \in {Abort, TimedOut} \cup Invalid \cup Raising
    /\ HandlerCallThen(r, "ask_raised")

ResumeWorking(r) ==
    /\ HandlerAt(r, "resumed")
    /\ CallSetState(Handler(r), Target[r], "working")
    /\ HandlerCallThen(r, "append_reply")

(* Variant: ask() does not append the answer to the history. *)
AppendReplyNever(r) ==
    /\ HandlerAt(r, "append_reply")
    /\ HandlerGoto(r, "run")
    /\ reply' = [reply EXCEPT ![r] = NoArg]
    /\ UNCHANGED <<storeVars, pc, live, ops, takers, feed, sent, response, pushed>>

AppendReply(r) ==
    /\ HandlerAt(r, "append_reply")
    /\ CallAppendMessage(Handler(r), Target[r], reply[r])
    /\ HandlerGoto(r, "run")
    /\ reply' = [reply EXCEPT ![r] = NoArg]
    /\ UNCHANGED <<pc, live, ops, takers, feed, sent, response, pushed>>

(* The handler catches what ask() raised, or lets it propagate. *)
Catch(r) ==
    /\ HandlerAt(r, "ask_raised") /\ "catch" \in HandlerOps
    /\ HandlerCallThen(r, "run") /\ UNCHANGED storeVars

Propagate(r) ==
    /\ HandlerAt(r, "ask_raised")
    /\ HandlerCallThen(r, "raised") /\ UNCHANGED storeVars

(* _deliver_push_if_configured: the config is read, then the task.  A POST that
   fails is logged and not repeated.                                         *)
HasPush(t) == Registered(t) /\ entry[registry[t]].push

ReadPushConfig(r) ==
    /\ HandlerAt(r, "push")
    /\ HandlerReadThen(r, IF HasPush(Target[r]) THEN "deliver" ELSE "done")

(* Variant: failures are not notified. *)
NotifiableIfCompleted(t) == StateOf(t) = "completed"

Notifiable(t) == StateOf(t) \in TerminalStates \cup InterruptedStates

DeliverPush(r) ==
    /\ HandlerAt(r, "deliver")
    /\ LockFree
    /\ pushed' = [pushed EXCEPT ![r] = IF Notifiable(Target[r]) THEN StateOf(Target[r]) ELSE @]
    /\ HandlerGoto(r, "done")
    /\ UNCHANGED <<storeVars, pc, live, ops, reply, takers, feed, sent, response>>

PushFails(r) ==
    /\ "unreachable" \in Faults
    /\ HandlerAt(r, "deliver") /\ Notifiable(Target[r])
    /\ HandlerReadThen(r, "done")

-----------------------------------------------------------------------------
(* Steps inside a call of the store.  Those that end it in a program step of
   their own (GetEnd, Finally) are above.                                    *)

Inside(th) ==
    /\ \/ WriteState(th) \/ WriteMessage(th) \/ WriteArtifact(th) \/ WritePush(th)
       \/ Wake(th) \/ TimeOut(th)
       \/ TestSlot(th) \/ Resolve(th)
    /\ UNCHANGED serverVars

EventOf(c) == IF c.at = "broadcast_state" THEN StatusEvent(c.arg) ELSE ArtifactEvent(c.arg)

(* on_event of every subscribed stream appends to its queue. *)
Publish(th) ==
    /\ Broadcast(th)
    /\ feed' = [r \in Requests |-> IF Request(r) \in entry[call[th].ent].subs
                                   THEN Append(feed[r], EventOf(call[th])) ELSE feed[r]]
    /\ UNCHANGED <<pc, hpc, live, ops, reply, takers, sent, response, pushed>>

Arrive(r) == StartMessage(r) \/ StartOther(r)

RequestProgress(r) ==
    \/ SetPush(r) \/ CheckInterrupted(r) \/ ResumeHandler(r) \/ ResumeNobody(r)
    \/ AppendMessage(r) \/ SetWorking(r) \/ Spawn(r)
    \/ Settle(r) \/ BeginResponse(r) \/ Respond(r) \/ RespondGone(r)
    \/ Cancel(r)
    \/ BeginSnapshot(r) \/ QueueSnapshot(r) \/ SnapshotGone(r)
    \/ SubscribeStream(r) \/ Drain(r) \/ CheckFinished(r) \/ Close(r)
    \/ Inside(Request(r)) \/ Publish(Request(r))

RequestStep(r) == Arrive(r) \/ RequestProgress(r) \/ SettleDeadline(r) \/ Disconnect(r)

HandlerStep(r) ==
    \/ Reject(r) \/ Die(r) \/ RunHandler(r)
    \/ (\E state \in AskStates : Ask(r, state))
    \/ EmitArtifact(r) \/ (\E state \in UpdateStates : Update(r, state))
    \/ Complete(r) \/ SetCompleted(r) \/ Fail(r) \/ CancelTask(r)
    \/ Return(r) \/ ReturnDone(r) \/ Raise(r) \/ CheckReturn(r) \/ CheckRaise(r)
    \/ SuspendHandler(r) \/ SuspendRaises(r)
    \/ Answered(r) \/ AskRaises(r) \/ ResumeWorking(r) \/ AppendReply(r)
    \/ Catch(r) \/ Propagate(r)
    \/ ReadPushConfig(r) \/ DeliverPush(r) \/ PushFails(r)
    \/ Inside(Handler(r)) \/ Publish(Handler(r))

EnvironmentStep == (SweeperStep \/ ShutdownStep) /\ UNCHANGED serverVars

RequestDone(r) == pc[r] = "done" /\ Idle(Request(r))
HandlerDone(r) == hpc[r] \in {"none", "done", "died"} /\ Idle(Handler(r))
AllDone == \A r \in Requests : RequestDone(r) /\ HandlerDone(r)

(* Every request was answered and every handler has returned or died. *)
Terminating == AllDone /\ UNCHANGED vars

Next ==
    \/ \E r \in Requests : RequestStep(r) \/ HandlerStep(r)
    \/ EnvironmentStep
    \/ Terminating

Spec == Init /\ [][Next]_vars

(* Threads are scheduled and the user's handler makes its moves; clients need
   not send, disconnect or wait for a deadline.                             *)
Fairness ==
    \A r \in Requests :
        /\ WF_vars(RequestProgress(r))
        /\ WF_vars(HandlerStep(r))

FairSpec == Spec /\ Fairness

-----------------------------------------------------------------------------
(* Properties.                                                              *)

RequestPoints == {"start", "push", "check", "resume", "append", "work", "spawn", "settle",
                  "final", "cancel", "snapshot", "subscribe", "stream", "yielded",
                  "closing", "gone", "done"}
HandlerPoints == {"none", "start", "run", "complete", "completing", "finishing", "fail", "returned",
                  "raised", "suspend", "suspended", "ask_raised", "resumed",
                  "append_reply", "push", "deliver", "done", "died"}

TaskType == [state : TaskStates \cup {NoArg}, artifacts : SUBSET Artifacts]
IsEvent(ev) ==
    /\ ev.kind \in {"status", "artifact", "task"}
    /\ ev.state \in TaskStates \cup {NoArg}
    /\ ev.artifacts \subseteq Artifacts

(* Every variable holds a value the program can hold, and a generator never
   counts more events as yielded than its queue was given. *)
TypeOK ==
    /\ StoreTypeOK
    /\ pc \in [Requests -> RequestPoints]
    /\ hpc \in [Requests -> HandlerPoints]
    /\ live \in [Requests -> Entries \cup {Null}]
    /\ ops \in [Requests -> 0 .. MaxOps]
    /\ reply \in [Requests -> Requests \cup {NoArg}]
    /\ takers \in [Requests -> SUBSET Requests]
    /\ \A r \in Requests :
          /\ \A i \in DOMAIN feed[r] : IsEvent(feed[r][i])
          /\ sent[r] \in 0 .. Len(feed[r])
    /\ response \in [Requests -> TaskType]
    /\ pushed \in [Requests -> TaskStates \cup {NoArg}]

(* The handler of h is suspended, or about to return from its suspension, with
   the message of r in its slot. *)
HoldsAnswer(h, r) == /\ InSuspend(Handler(h))
                     /\ slot[call[Handler(h)].slot] = r
                     /\ call[Handler(h)].arg # TimedOut

(* A message is handed to one handler only: message/send either wakes the
   handler that asked or dispatches a new one, and never both. *)
HandedOverOnce ==
    \A r \in Requests : \A a, b \in takers[r] : a = b

(* The messages that convert for certain. *)
Readable == Requests \ (Invalid \cup Raising)

(* The handler thread of some message on task t died at an error nobody catches. *)
Dropped(t) == \E r \in Requests : Target[r] = t /\ hpc[r] = "died"

(* A message/send that was answered is not lost: a handler has it, has it in the
   slot it sleeps on, or is about to start with it. *)
NoLostMessage ==
    \A r \in Readable : Kind[r] = "send" /\ pc[r] = "done" =>
        \/ takers[r] # {}
        \/ hpc[r] = "start"
        \/ \E h \in Requests : HoldsAnswer(h, r)

(* A task copied by get() while complete() runs under another lock is never
   `completed` without its result: complete() appends the artifact before it
   sets the state, and the copy reads the state before the artifacts. *)
CompletedHasResult ==
    \A r \in Requests : response[r].state = "completed" => response[r].artifacts \cap Requests # {}

(* A message/stream that ran to its end showed its client the transition to
   `working`: "Subscribe before kicking off dispatch so we don't miss the
   initial `working` transition". *)
StreamShowsWorking ==
    \A r \in Requests : Kind[r] = "stream" /\ pc[r] = "closing" =>
        \E i \in 1 .. sent[r] : feed[r][i] = StatusEvent("working")

(* A stream that closes by itself has yielded every event up to a final one. *)
StreamEndsWithFinal ==
    \A r \in Requests : pc[r] = "closing" =>
        \E i \in 1 .. sent[r] : feed[r][i].state \in TerminalStates

(* Nobody is left holding a task open: once every request is answered and every
   handler has returned, each task is in a terminal state, unless the thread of one of
   its messages died where _dispatch converts the message. *)
NoStrandedTask ==
    AllDone => \A t \in Tasks :
        Registered(t) => StateOf(t) \in TerminalStates \/ Dropped(t)

(* The history of a task holds every message a handler was given, whether the
   request appended it before dispatching or the resumed ask() after it. *)
HistoryComplete ==
    AllDone => \A r \in Requests :
        takers[r] # {} => r \in entry[live[r]].history

(* A client that registered a callback inline is told how its task ended: the
   notification of some handler of that task carries the final state, `completed`
   or `failed`. *)
PushReportsOutcome ==
    AllDone => \A r \in WithPush :
        takers[r] # {} /\ entry[live[r]].state \in {"completed", "failed"} =>
            \E h \in Requests : live[h] = live[r] /\ pushed[h] = entry[live[r]].state

(* Every message/send that arrives is answered: its task is terminal or waiting
   for input some time, long enough for a poll to see it, or a handler thread of the
   task died and only the deadline ends the wait. *)
SendAnswered ==
    \A r \in Requests :
        (Kind[r] = "send" /\ pc[r] # "start") ~> (pc[r] = "done" \/ Dropped(Target[r]))

(* Every message that arrives and converts is handled; one that was put into the slot
   of a suspended handler does wake that handler. *)
MessageHandled ==
    \A r \in Readable : (Kind[r] \in {"send", "stream"} /\ pc[r] # "start") ~> takers[r] # {}

(* A message/stream whose client stays is closed by the server, "one JSON-RPC
   response per SSE frame until terminal state", unless its own handler thread died:
   another message may then never come, and the stream stays open. *)
StreamCloses ==
    \A r \in Requests :
        (Kind[r] = "stream" /\ pc[r] # "start") ~> (pc[r] = "done" \/ hpc[r] = "died")
=============================================================================
