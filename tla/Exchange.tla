------------------------------ MODULE Exchange ------------------------------
(***************************************************************************)
(* A program that calls an agent through A2AClient                         *)
(* (src/zyndai_agent/a2a/client.py), from the arguments of the call to what *)
(* the agent's handler is given, and from what the handler says to what the *)
(* program reads.  The caller makes one call after the other on one task;   *)
(* it may give up on a call whose handler goes on.                          *)
(*                                                                         *)
(* The interleavings inside the server are A2AServer's subject: here a      *)
(* message is taken, dispatched and answered in one step each.  A stream is *)
(* modelled by the pieces of its frames, which arrive in chunks cut anywhere.*)
(* A call "ask" is call_via_card followed by task_reply_text, which is what *)
(* ask() does with a card's URL; "stream" is stream().                      *)
(***************************************************************************)
EXTENDS Integers, Payload

(* Where the code looks for a text, or for a list, it finds one or takes nothing. *)
MayBeSeq(v) == Given(v) => IsSeq(v)

TextsIn(dict) == \A k \in {"response", "text", "content"} : MayBeSeq(Get(dict, k))

TypedResult(result) ==
    IF result.form = "dict"
    THEN /\ TextsIn(result.value)
         /\ MayBeSeq(Get(result.value, "attachments"))
         /\ Given(Get(result.value, "data")) => TextsIn(result.value["data"])
    ELSE result.form # "none" => IsSeq(result.value)

INSTANCE Card WITH Unset <- None

CONSTANTS
    Utterances,   \* the questions handlers ask and the reasons they fail with
    Complaint,    \* the text of an error that the SDK words
    Required,     \* the fields the agent's payload model requires
    Refuted,      \* the data its output model refuses
    Deployments,  \* configurations of the agent (config), with the URL it is reached
                  \* at (public), what callers do there (calls, at most turns of
                  \* them) and what handlers and other agents return (results)
    Caller        \* the entity id of the caller

ASSUME ExchangeBounds ==
    /\ \A d \in Deployments :
         /\ d.turns \in Nat
         /\ \A c \in d.calls :
              \/ c.op = "ask"
              \/ c.op = "stream" /\ c.target = None /\ c.prefer = "auto"
         /\ \A c \in d.calls : c.target # None =>
              c.target.additionalInterfaces \in Seq(Range(c.target.additionalInterfaces))
    /\ None # [kind |-> "ended"]
    /\ NoText \notin Utterances \cup {Complaint}

ASSUME WellTyped ==
    /\ \A d \in Deployments :
         /\ \A c \in d.calls : /\ IsSeq(c.input.text) /\ c.input.text # None
                               /\ IsSeq(c.input.attachments)
         /\ \A returned \in d.results : TypedResult(Handled(returned))
    /\ \A t \in Utterances \cup {Complaint} : IsSeq(t)

Own == None     \* the target that is an agent of this SDK
Terminal == {"completed", "failed", "rejected"}

NoTask == [state |-> "none", status |-> <<>>, artifacts |-> <<>>, history |-> <<>>]
NoStream == [sent |-> <<>>, net |-> <<>>, buffer |-> <<>>, got |-> <<>>, end |-> "none"]
Idle == [at |-> "none", args |-> None, input |-> None]

VARIABLES
    deployment,   \* how the agent is configured, and where it is reached
    agent,        \* the key of the process that serves, or None
    task,         \* the task in its store; its history holds parts
    handler,      \* of each turn: where its handler is, what it was given last
    said,         \* history: what the agent said since the last message arrived
    turn,         \* calls made
    client,       \* where the caller is
    call,         \* the call: its arguments, its target, the interface resolved
    response,     \* what the server answered the open request
    stream,       \* events sent, pieces on their way, received, events yielded
    outcome,      \* how the last call ended
    peers         \* history: the entities whose cards the caller was given

Turns == 1 .. deployment.turns
serverVars == <<task, handler, said>>
exchangeVars == <<deployment, agent, serverVars, turn, client, call, response, stream,
                  outcome, peers>>

ExchangeInit ==
    /\ deployment \in Deployments
    /\ agent = None
    /\ task = NoTask
    /\ handler = [n \in Turns |-> Idle]
    /\ said = NoText
    /\ turn = 0
    /\ client = "idle"
    /\ call = None
    /\ response = None
    /\ stream = NoStream
    /\ outcome = None
    /\ peers = {}

-----------------------------------------------------------------------------
(* The caller: making a call.                                               *)

Ends(result) == client' = "idle" /\ outcome' = result
Raised == [kind |-> "raised"]

OwnCard == AgentCard(deployment.config, agent, None).body

(* The message is built first: an attachment without data or URL raises before
   anything is sent.  stream() is given the endpoint itself. *)
Call ==
    /\ client = "idle" /\ turn < deployment.turns
    /\ \E c \in deployment.calls :
          /\ call' = [op |-> c.op, input |-> c.input, prefer |-> c.prefer, target |-> c.target,
                      via |-> Interface("JSONRPC", Endpoint(deployment.config))]
          /\ IF \E i \in DOMAIN c.input.attachments : ~HasSource(c.input.attachments[i])
             THEN Ends(Raised)
             ELSE client' = (IF c.op = "ask" THEN "resolve" ELSE "post") /\ outcome' = None
    /\ turn' = turn + 1
    /\ response' = None
    /\ stream' = NoStream
    /\ UNCHANGED <<deployment, agent, serverVars, peers>>

(* resolve_transport: the card is fetched anew for every call. *)
Resolve ==
    /\ client = "resolve"
    /\ call.target = Own => agent # None
    /\ LET card == IF call.target = Own THEN OwnCard ELSE call.target
           via == Resolved(card, call.prefer)
       IN  /\ peers' = IF call.target = Own THEN peers \cup {card.entityId} ELSE peers
           /\ IF via = None THEN Ends(Raised) /\ UNCHANGED call
              ELSE /\ call' = [call EXCEPT !.via = via]
                   /\ client' = "post"
                   /\ UNCHANGED outcome
    /\ UNCHANGED <<deployment, agent, serverVars, turn, response, stream>>

(* Nobody serves at the URL, a request fails or runs into its timeout, or the
   consumer of a stream stops reading.  The server goes on. *)
GiveUp ==
    /\ client \in {"resolve", "post", "wait", "reading"}
    /\ Ends(Raised)
    /\ response' = None
    /\ stream' = NoStream
    /\ UNCHANGED <<deployment, agent, serverVars, turn, call, peers>>

-----------------------------------------------------------------------------
(* Events and the pieces of their frames: the two halves of the data line and *)
(* the blank line that ends it.                                               *)

NL == <<0, 0>>
Frame(i) == <<<<i, 1>>, <<i, 2>>, NL, NL>>

(* Those of the events after the n-th and up to the m-th, one after the other. *)
Frames(n, m) == [k \in 1 .. 4 * (m - n) |-> Frame(n + 1 + (k - 1) \div 4)[1 + ((k - 1) % 4)]]

Says(text) == <<TextPart(text)>>
StatusUpdate(state) == [kind |-> "status-update", state |-> state]
ArtifactUpdate == [kind |-> "artifact-update", state |-> "none"]

(* Variant: a task that waits for input is taken for a finished one. *)
FinalOrAsking(event) ==
    event.kind = "status-update" /\ event.state \in Terminal \cup {"input-required"}

Final(event) == event.kind = "status-update" /\ event.state \in Terminal

(* The server writes events out until one is final. *)
Sends(events) ==
    LET last == Len(stream.sent)
        final == \E i \in DOMAIN events : Final(events[i])
    IN  stream' = IF stream.end # "open" THEN stream
                  ELSE [stream EXCEPT
                          !.sent = @ \o events,
                          !.net = @ \o Frames(last, last + Len(events)),
                          !.end = IF final THEN "closed" ELSE @]

-----------------------------------------------------------------------------
(* The agent: taking a message.                                             *)

Message == [id |-> turn, parts |-> MessageParts(call.input), sender |-> Caller,
            context |-> "context", task |-> "task"]

Reached ==
    /\ client = "post" /\ call.target = Own
    /\ agent # None /\ call.via.url = deployment.public

Asking == {n \in Turns : handler[n].at = "suspended"}

(* The request is refused: its auth block, its parameters.  A JSON-RPC error is
   one line, for a stream too. *)
Refuse ==
    /\ Reached
    /\ IF call.op = "ask"
       THEN client' = "wait" /\ response' = [kind |-> "error"] /\ UNCHANGED stream
       ELSE /\ client' = "reading"
            /\ stream' = [NoStream EXCEPT !.net = <<<<0, 1>>, NL>>, !.end = "closed"]
            /\ UNCHANGED response
    /\ UNCHANGED <<deployment, agent, serverVars, turn, call, outcome, peers>>

(* message/send to a suspended handler: ask() converts the message, which may
   raise inside the handler and fail the task. *)
Resume ==
    /\ Reached /\ call.op = "ask"
    /\ task.state = "input-required"
    /\ \E n \in Asking :
         IF Validates(Payload(Message), Required)
         THEN /\ task' = [task EXCEPT !.state = "working", !.status = <<>>,
                                      !.history = Append(@, Message.parts)]
              /\ handler' = [handler EXCEPT ![n] = [at |-> "run", args |-> call.input,
                                                    input |-> HandlerInput(Message)]]
              /\ said' = NoText
         ELSE /\ task' = [task EXCEPT !.state = "failed", !.status = Says(Complaint)]
              /\ handler' = [handler EXCEPT ![n].at = "done"]
              /\ said' = Complaint
    /\ client' = "wait"
    /\ UNCHANGED <<deployment, agent, turn, call, response, stream, outcome, peers>>

(* Fresh dispatch: a stream always starts a handler.  A message the payload model
   refuses is rejected. *)
Start ==
    /\ Reached
    /\ call.op = "stream" \/ task.state # "input-required" \/ Asking = {}
    /\ LET valid == Validates(Payload(Message), Required)
           first == <<StatusUpdate("working")>>
           events == IF valid THEN first ELSE first \o <<StatusUpdate("rejected")>>
       IN  /\ task' = [task EXCEPT !.state = IF valid THEN "working" ELSE "rejected",
                                   !.status = IF valid THEN <<>> ELSE Says(Complaint),
                                   !.history = Append(@, Message.parts)]
           /\ said' = IF valid THEN NoText ELSE Complaint
           /\ handler' = IF ~valid THEN handler
                         ELSE [handler EXCEPT ![turn] = [at |-> "run", args |-> call.input,
                                                         input |-> HandlerInput(Message)]]
           /\ IF call.op = "ask" THEN client' = "wait" /\ UNCHANGED stream
              ELSE /\ client' = "reading"
                   /\ stream' = [sent |-> events,
                                 net |-> Frames(0, Len(events)),
                                 buffer |-> <<>>, got |-> <<>>,
                                 end |-> IF valid THEN "open" ELSE "closed"]
    /\ UNCHANGED <<deployment, agent, turn, call, response, outcome, peers>>

-----------------------------------------------------------------------------
(* Its handlers.                                                            *)

Running(n) == handler[n].at = "run"

(* What a result says: the text that coerce_handler_output looks for, or the
   `response` of a dictionary that is all data. *)
Meant(result) ==
    LET dict == result.value
        whole == {"data", "attachments"} \cap DOMAIN dict = {}
        texts == <<Get(dict, "text"), Get(dict, "content"),
                   IF whole THEN Get(dict, "response") ELSE None>>
    IN  CASE result.form = "none" -> NoText
          [] result.form = "dict" -> First(texts, Untyped, NoText)
          [] OTHER -> dict

(* A handler returns: complete(), unless the task is over.  The output model may
   refuse the data, which fails the task. *)
Return(n) ==
    /\ Running(n)
    /\ handler' = [handler EXCEPT ![n].at = "done"]
    /\ \E returned \in deployment.results :
         LET result == Handled(returned)
             out == Coerced(result)
         IN  IF task.state \in Terminal THEN UNCHANGED <<task, said, stream>>
             ELSE IF out.data \in Refuted
             THEN /\ task' = [task EXCEPT !.state = "failed", !.status = Says(Complaint)]
                  /\ said' = Complaint
                  /\ Sends(<<StatusUpdate("failed")>>)
             ELSE /\ task' = [task EXCEPT !.state = "completed", !.status = <<>>,
                                          !.artifacts = Append(@, ResultParts(out))]
                  /\ said' = Meant(result)
                  /\ Sends(<<ArtifactUpdate, StatusUpdate("completed")>>)
    /\ UNCHANGED <<deployment, agent, turn, client, call, response, outcome, peers>>

(* task.ask(): the question is published whatever the task's state; a second
   handler that asks while one waits raises, which fails the task. *)
Ask(n) ==
    /\ Running(n)
    /\ \E question \in Utterances :
         IF Asking = {}
         THEN /\ handler' = [handler EXCEPT ![n].at = "suspended"]
              /\ task' = [task EXCEPT !.state = "input-required", !.status = Says(question)]
              /\ said' = question
              /\ Sends(<<StatusUpdate("input-required")>>)
         ELSE /\ handler' = [handler EXCEPT ![n].at = "done"]
              /\ task' = [task EXCEPT !.state = "failed", !.status = Says(Complaint)]
              /\ said' = Complaint
              /\ Sends(<<StatusUpdate("input-required"), StatusUpdate("failed")>>)
    /\ UNCHANGED <<deployment, agent, turn, client, call, response, outcome, peers>>

(* task.fail(), or an exception of the handler, which spares a finished task. *)
Fail(n) ==
    /\ Running(n)
    /\ handler' = [handler EXCEPT ![n].at = "done"]
    /\ \E reason \in Utterances, raises \in BOOLEAN :
         IF raises /\ task.state \in Terminal THEN UNCHANGED <<task, said, stream>>
         ELSE /\ task' = [task EXCEPT !.state = "failed", !.status = Says(reason)]
              /\ said' = reason
              /\ Sends(<<StatusUpdate("failed")>>)
    /\ UNCHANGED <<deployment, agent, turn, client, call, response, outcome, peers>>

(* A suspended handler times out: an exception like any other. *)
AskTimesOut(n) ==
    /\ handler[n].at = "suspended"
    /\ handler' = [handler EXCEPT ![n].at = "done"]
    /\ IF task.state \in Terminal THEN UNCHANGED <<task, said, stream>>
       ELSE /\ task' = [task EXCEPT !.state = "failed", !.status = Says(Complaint)]
            /\ said' = Complaint
            /\ Sends(<<StatusUpdate("failed")>>)
    /\ UNCHANGED <<deployment, agent, turn, client, call, response, outcome, peers>>

-----------------------------------------------------------------------------
(* The reply.                                                               *)

Answer(t, words) == [kind |-> "task", task |-> t, said |-> words]

(* The snapshot of the task, when it is settled or the wait for that runs out; one
   that cannot be written as JSON turns into an error. *)
Respond ==
    /\ client = "wait" /\ response = None
    /\ call.target = Own
    /\ response' = IF \A i \in DOMAIN task.artifacts : Serialisable(task.artifacts[i])
                   THEN Answer(task, said)
                   ELSE [kind |-> "error"]
    /\ UNCHANGED <<deployment, agent, serverVars, turn, client, call, stream, outcome, peers>>

(* Other software answers with a task or, as A2A allows, with a message alone. *)
ForeignAnswer ==
    /\ client = "post" /\ call.target # Own
    /\ \E returned \in deployment.results, bare \in BOOLEAN :
         LET result == Handled(returned)
             parts == ResultParts(Coerced(result))
         IN  response' = IF bare THEN [kind |-> "message", parts |-> parts, said |-> Meant(result)]
                         ELSE Answer([NoTask EXCEPT !.state = "completed", !.artifacts = <<parts>>],
                                     Meant(result))
    /\ client' = "wait"
    /\ UNCHANGED <<deployment, agent, serverVars, turn, call, stream, outcome, peers>>

(* _wrap_message_as_task *)
Wrapped(parts) == [NoTask EXCEPT !.state = "completed", !.history = <<parts>>]

(* sync() raises for an error; task_reply_text reads the rest. *)
Read ==
    /\ client = "wait" /\ response # None
    /\ IF response.kind = "error" THEN Ends(Raised)
       ELSE LET t == IF response.kind = "task" THEN response.task ELSE Wrapped(response.parts)
            IN  Ends([kind |-> "reply", text |-> TaskReply(t), state |-> t.state,
                      artifacts |-> Len(t.artifacts), said |-> response.said])
    /\ response' = None
    /\ UNCHANGED <<deployment, agent, serverVars, turn, call, stream, peers>>

-----------------------------------------------------------------------------
(* Reading a stream.                                                        *)

Breaks == {k \in 1 .. Len(stream.buffer) - 1 : stream.buffer[k] = NL /\ stream.buffer[k + 1] = NL}

(* Variant: each chunk is parsed by itself. *)
JoinedLast(buffer, chunk) == chunk

Joined(buffer, chunk) == buffer \o chunk

(* A chunk, cut anywhere. *)
ReadChunk ==
    /\ client = "reading" /\ Breaks = {}
    /\ \E k \in 1 .. Len(stream.net) :
         stream' = [stream EXCEPT !.buffer = Joined(@, SubSeq(stream.net, 1, k)),
                                  !.net = SubSeq(@, k + 1, Len(@))]
    /\ UNCHANGED <<deployment, agent, serverVars, turn, client, call, response, outcome, peers>>

(* The first frame of the buffer: what is not a whole event is skipped; the final
   event is the last one read. *)
TakeFrame ==
    /\ client = "reading" /\ Breaks # {}
    /\ LET k == CHOOSE i \in Breaks : \A j \in Breaks : i <= j
           frame == SubSeq(stream.buffer, 1, k - 1)
           whole == Len(frame) = 2 /\ frame[1][1] = frame[2][1]
           got == IF whole THEN Append(stream.got, frame[1][1]) ELSE stream.got
       IN  /\ stream' = [stream EXCEPT !.buffer = SubSeq(@, k + 2, Len(@)), !.got = got]
           /\ IF whole /\ Final(stream.sent[frame[1][1]])
              THEN Ends([kind |-> "ended"])
              ELSE UNCHANGED <<client, outcome>>
    /\ UNCHANGED <<deployment, agent, serverVars, turn, call, response, peers>>

(* The body ends: the generator returns.  A connection that broke raises. *)
EndOfStream ==
    /\ client = "reading" /\ Breaks = {}
    /\ \/ stream.end = "closed" /\ stream.net = <<>> /\ Ends([kind |-> "ended"])
       \/ stream.end = "broken" /\ Ends(Raised)
    /\ UNCHANGED <<deployment, agent, serverVars, turn, call, response, stream, peers>>

-----------------------------------------------------------------------------
(* The agent's process starts serving with a key, and dies: what is in memory,
   the tasks above all, is lost, and requests it has not answered fail. *)

AgentUp(key) ==
    /\ agent' = key
    /\ UNCHANGED <<deployment, serverVars, turn, client, call, response, stream, outcome, peers>>

AgentDown ==
    /\ agent # None
    /\ agent' = None
    /\ task' = NoTask
    /\ handler' = [n \in Turns |-> Idle]
    /\ said' = NoText
    /\ stream' = [stream EXCEPT !.end = IF @ = "open" THEN "broken" ELSE @]
    /\ IF client = "wait" /\ call.target = Own /\ response = None
       THEN Ends(Raised)
       ELSE UNCHANGED <<client, outcome>>
    /\ UNCHANGED <<deployment, turn, call, response, peers>>

Conversation ==
    \/ Call \/ Resolve \/ GiveUp \/ Refuse \/ Resume \/ Start
    \/ \E n \in Turns : Return(n) \/ Ask(n) \/ Fail(n) \/ AskTimesOut(n)
    \/ Respond \/ ForeignAnswer \/ Read
    \/ ReadChunk \/ TakeFrame \/ EndOfStream

-----------------------------------------------------------------------------
(* Properties.                                                              *)

(* The reply that a caller reads is the answer: of a completed task what its
   handler returned last, at the end of everything it returned, and of any other
   task that has returned nothing the question, the reason or the error.  (Of a
   handler that says nothing the caller reads its own message.) *)
ReplyIsAnswer ==
    outcome # None /\ outcome.kind = "reply" /\ outcome.said # NoText =>
        IF outcome.state = "completed" THEN IsSuffix(outcome.said, outcome.text)
        ELSE outcome.artifacts = 0 => outcome.text = outcome.said

Reserved == {"content", "prompt", "attachments", "conversation_id", "in_reply_to",
             "sender_id", "message_id"}

(* The text, the files with their bytes or else their URLs, and every entry of the
   data, none of which can stand in for the sender or the text. *)
Arrived(args, input) ==
    LET files == args.attachments
    IN  /\ input.message.content = args.text
        /\ input.message.sender = Caller /\ input.payload["sender_id"] = Caller
        /\ args.text # NoText => input.payload["content"] = args.text
        /\ \A k \in DOMAIN args.data \ Reserved : input.payload[k] = args.data[k]
        /\ Len(input.attachments) = Len(files)
        /\ \A i \in DOMAIN files :
             /\ input.attachments[i].name = files[i].name
             /\ input.attachments[i].data = files[i].data
             /\ files[i].data = None => input.attachments[i].url = files[i].url

(* What a handler is given is what the caller passed, first or in answer to a
   question. *)
InputArrives ==
    \A n \in Turns : handler[n].at # "none" => Arrived(handler[n].args, handler[n].input)

(* However its frames are cut into chunks, a stream loses, repeats and reorders
   nothing: the events yielded and the frames still to come are those sent. *)
StreamLossless ==
    stream.sent # <<>> =>
        LET got == Len(stream.got)
        IN  /\ got <= Len(stream.sent) /\ stream.got = [i \in 1 .. got |-> i]
            /\ stream.buffer \o stream.net = Frames(got, Len(stream.sent))

(* A stream that ends without an exception has yielded the final event, unless the
   request was refused: then it ends at once, and yields nothing. *)
StreamComplete ==
    outcome = [kind |-> "ended"] =>
        IF stream.sent = <<>> THEN stream.got = <<>>
        ELSE /\ stream.got # <<>>
             /\ stream.sent[Last(stream.got)].kind = "status-update"
             /\ stream.sent[Last(stream.got)].state \in Terminal

(* However the operator writes the agent's public URL, a caller that goes by its
   card, or is given the URL that the agent shows, posts to the agent; and by no
   other transport than the one it insists on. *)
CallsReachEndpoint ==
    client \in {"post", "wait", "reading"} =>
        /\ call.target = Own => call.via.url = deployment.public
        /\ call.prefer # "auto" => call.via.transport = call.prefer
=============================================================================
