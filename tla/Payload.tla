------------------------------- MODULE Payload -------------------------------
(***************************************************************************)
(* The conversions between what programs say to each other and what goes   *)
(* over the wire: src/zyndai_agent/a2a/adapter.py, AgentPayload in         *)
(* src/zyndai_agent/payload.py and TaskHandle.complete.                    *)
(*                                                                         *)
(* A text is the sequence of its non-blank lines, so that joining texts    *)
(* with newlines and stripping the result is concatenation.  A dictionary  *)
(* is a function from its keys; Blob is any value that is not of the type  *)
(* the code looks for.  The name of a file stands for its MIME type too.   *)
(***************************************************************************)
EXTENDS SequencesExt

CONSTANTS
    None,       \* a field that is None or missing
    Blob,       \* a value of another type than the one expected
    Foreign     \* an attachment of the class that zyndai_agent exports

NoText == <<>>
NoData == [k \in {} |-> k]

(* The code knows texts and lists by their type. *)
IsSeq(s) == s \in Seq(Range(s))

Get(dict, key) == IF key \in DOMAIN dict THEN dict[key] ELSE None

Untyped == {None, Blob}
Falsy == {None, NoText}
Given(v) == v \notin Untyped

(* The first of these values that is not among the missing ones. *)
First(values, missing, otherwise) ==
    LET found == {i \in DOMAIN values : values[i] \notin missing}
    IN  IF found = {} THEN otherwise ELSE values[Min(found)]

TextPart(t) == [kind |-> "text", text |-> t]
DataPart(d) == [kind |-> "data", data |-> d]
FilePart(f) == [kind |-> "file", file |-> f]

-----------------------------------------------------------------------------
(* Outbound: what a caller passes to A2AClient.                             *)

HasSource(att) == att.data # None \/ att.url # None

(* _attachment_to_file: inline data wins over a URL. *)
AttachmentToFile(att) ==
    [name |-> att.name, bytes |-> att.data, uri |-> IF att.data # None THEN None ELSE att.url]

Files(atts) == [i \in DOMAIN atts |-> FilePart(AttachmentToFile(atts[i]))]

(* Data, then text, then files; what is empty is left out. *)
Parts(data, text, files) ==
    (IF data = NoData THEN <<>> ELSE <<DataPart(data)>>)
    \o (IF text = NoText THEN <<>> ELSE <<TextPart(text)>>)
    \o files

(* to_a2a_message *)
MessageParts(input) == Parts(input.data, input.text, Files(input.attachments))

-----------------------------------------------------------------------------
(* Inbound: from_a2a_message and the default payload model.                 *)

FileToAttachment(file) == [name |-> file.name, data |-> file.bytes, url |-> file.uri]

Attachments(parts) ==
    FlattenSeq([i \in DOMAIN parts |->
        IF parts[i].kind = "file" THEN <<FileToAttachment(parts[i].file)>> ELSE <<>>])

Content(parts) ==
    FlattenSeq([i \in DOMAIN parts |-> IF parts[i].kind = "text" THEN parts[i].text ELSE NoText])

(* Later parts win. *)
MergedData(parts) ==
    LET with(k) == {i \in DOMAIN parts : parts[i].kind = "data" /\ k \in DOMAIN parts[i].data}
        keys == UNION {DOMAIN parts[i].data : i \in {j \in DOMAIN parts : parts[j].kind = "data"}}
    IN  [k \in keys |-> parts[Max(with(k))].data[k]]

(* `content or data["content"] or data["prompt"] or ""` *)
TextValue(parts) ==
    LET dict == MergedData(parts)
    IN  First(<<Content(parts), Get(dict, "content"), Get(dict, "prompt")>>, Falsy, NoText)

(* What the message says of itself, and those of the fields that it fills. *)
Header(m) ==
    [content |-> TextValue(m.parts), prompt |-> TextValue(m.parts),
     attachments |-> Attachments(m.parts), conversation_id |-> m.context,
     in_reply_to |-> m.task, sender_id |-> m.sender, message_id |-> m.id]

Filled(m) ==
    DOMAIN Header(m) \ ({k \in {"content", "prompt", "attachments"} : Header(m)[k] = NoText}
                        \cup {k \in {"conversation_id", "in_reply_to"} : Header(m)[k] = None})

(* Variant: the sender's own data is applied last. *)
PayloadDataLast(m) ==
    LET dict == MergedData(m.parts)
    IN  [k \in Filled(m) \cup DOMAIN dict |-> IF k \in DOMAIN dict THEN dict[k] ELSE Header(m)[k]]

(* The dictionary the payload model validates.  What the message itself says,
   its sender above all, overrides the data that came with it. *)
Payload(m) ==
    LET dict == MergedData(m.parts)
    IN  [k \in Filled(m) \cup DOMAIN dict |-> IF k \in Filled(m) THEN Header(m)[k] ELSE dict[k]]

StringFields == {"content", "sender_id", "message_id", "conversation_id", "in_reply_to"}

(* AgentPayload and a subclass of it that requires some fields: `prompt` becomes
   `content` first, which must be a string and is empty by default. *)
Aliased(payload) ==
    LET content == IF Get(payload, "prompt") # None THEN payload["prompt"]
                   ELSE IF "content" \in DOMAIN payload THEN payload["content"]
                   ELSE NoText
    IN  [k \in DOMAIN payload \cup {"content"} |-> IF k = "content" THEN content ELSE payload[k]]

Validates(payload, required) ==
    /\ Given(Aliased(payload)["content"])
    /\ \A k \in StringFields \cap DOMAIN payload : Aliased(payload)[k] # Blob
    /\ required \subseteq DOMAIN payload

(* What the message itself says; a conversation without an id is named after its
   first message. *)
AgentMessage(m) ==
    [content |-> Content(m.parts), sender |-> m.sender, id |-> m.id,
     conversation |-> IF m.context = None THEN m.id ELSE m.context]

(* What the handler is given. *)
HandlerInput(m) ==
    [message |-> AgentMessage(m), attachments |-> Attachments(m.parts),
     payload |-> Aliased(Payload(m))]

-----------------------------------------------------------------------------
(* The result of a handler: coerce_handler_output and complete().           *)

CoercedDict(dict) ==
    LET text == First(<<Get(dict, "text"), Get(dict, "content")>>, Untyped, None)
        atts == Get(dict, "attachments")
    IN  [text |-> IF text = None THEN NoText ELSE text,
         attachments |-> IF Given(atts) THEN atts ELSE <<>>,
         data |-> IF Given(Get(dict, "data")) THEN dict["data"]
                  ELSE IF text = None /\ ~Given(atts) THEN dict
                  ELSE NoData]

(* A handler returns None, a string or another object, of which str() is taken,
   or a dictionary. *)
Coerced(result) ==
    IF result.form = "dict" THEN CoercedDict(result.value)
    ELSE [text |-> IF result.form = "none" THEN NoText ELSE result.value,
          data |-> NoData, attachments |-> <<>>]

(* Where the frameworks an agent may be wired to (ZyndAIAgent.invoke) keep their
   answer; without one, str() of the whole result is taken, in one line.  A custom
   function, or a service's, gives the answer itself. *)
AnswerField == [langchain |-> "output", langgraph |-> "content",
                crewai |-> "raw", pydantic_ai |-> "data"]

Invoked(framework, result) ==
    IF framework = "custom" THEN result
    ELSE LET value == Get(result, AnswerField[framework])
         IN  IF value = None THEN <<result>>
             ELSE IF framework = "pydantic_ai" /\ value = Blob THEN <<Blob>>
             ELSE value

(* The default handlers wrap that in a dictionary, whatever its type. *)
DefaultHandler(answer) == [form |-> "dict", value |-> [text |-> answer]]

(* An agent or a service answers with the default handler or with one of its own. *)
Handled(result) ==
    IF result.form \in DOMAIN AnswerField \cup {"custom"}
    THEN DefaultHandler(Invoked(result.form, result.value))
    ELSE result

(* The artifact of complete(): an attachment that is not of the adapter's class
   is taken for a file as it is. *)
ResultParts(out) ==
    LET files == [i \in DOMAIN out.attachments |->
                     FilePart(IF out.attachments[i] = Foreign THEN Foreign
                              ELSE AttachmentToFile(out.attachments[i]))]
        parts == Parts(out.data, out.text, files)
    IN  IF parts = <<>> THEN <<TextPart(NoText)>> ELSE parts

(* The response of a task can be written as JSON. *)
Serialisable(parts) == \A i \in DOMAIN parts : parts[i] # FilePart(Foreign)

-----------------------------------------------------------------------------
(* What a caller reads: parts_to_reply_text and task_reply_text.            *)

(* A dictionary without an answer in it is shown as JSON, in one line. *)
DataText(dict) == First(<<Get(dict, "response"), Get(dict, "text")>>, Untyped, <<dict>>)

PartText(p) ==
    CASE p.kind = "text" -> p.text
      [] p.kind = "data" -> DataText(p.data)
      [] OTHER -> NoText

PartsText(parts) == FlattenSeq([i \in DOMAIN parts |-> PartText(parts[i])])

ArtifactsText(artifacts) == FlattenSeq([i \in DOMAIN artifacts |-> PartsText(artifacts[i])])

Said(task) ==
    <<ArtifactsText(task.artifacts), PartsText(task.status),
      IF task.history = <<>> THEN NoText ELSE PartsText(Last(task.history))>>

Nothing(task) == <<[task |-> task.state]>>

(* Variant: the conversation is read first. *)
TaskReplyFromHistory(task) == First(Reverse(Said(task)), {NoText}, Nothing(task))

(* Artifacts, then the status message, then the last message of the history. *)
TaskReply(task) == First(Said(task), {NoText}, Nothing(task))
=============================================================================
