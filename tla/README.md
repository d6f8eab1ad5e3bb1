# Verification of the Zynd AI Python SDK

TLA+ models of `zyndai_agent`, the SDK with which an agent joins the Zynd network:
TLC configurations that check them on small instances, and TLAPS proofs of what
matters most for every instance. Paths below are relative to `src/`.

## 1. The system

An agent process owns an Ed25519 identity, serves the A2A protocol (JSON-RPC and
server-sent events over Flask), keeps its tasks in memory, registers itself with a
registry and sends it heartbeats. A client side signs and sends messages to other
agents.

| Component | State | Operations | Interacts with |
|---|---|---|---|
| Task store `a2a/task_store.py` | task entries, each with a lock, a subscriber list and at most one resume slot; the registry dict and its `_lock`; the GC thread; `_closed` | get_or_create, get, set_state, append_message, append_artifact, set_push_config, subscribe, suspend_until_next_message, resume_if_suspended, sweep, shutdown | called by request threads, handler threads and the GC thread |
| A2A server and TaskHandle `a2a/server.py` | none of its own besides the store: the program counters of request and handler threads, SSE queues | message/send, message/stream, tasks/get, tasks/cancel, tasks/resubscribe, pushNotificationConfig/set and get; ask, require_auth, emit_artifact, update, complete, fail, cancel; start, stop | store (shared state), user handler (callback), push receiver (HTTP) |
| Lifecycle and registry client `base.py`, `dns_registry.py` | heartbeat Event and threads, `_is_running`; the registry's record | start, stop, upsert, heartbeat | server, store, registry (HTTP, WebSocket) |
| Authentication `a2a/auth.py` | the replay cache: per sender, an ordered dict of nonces; no lock | sign_message, verify_message, check_and_record | server (inbound), client and push delivery (outbound) |
| Identity and configuration `config_manager.py`, `ed25519_identity.py`, `identity.py` | the config file, key files, environment | load_or_create, create, migrate, save_config, resolve_keypair | registry, file system; `ZyndBase` only reads |
| A2A client `a2a/client.py` | none that lasts: the buffer of a stream | sync over JSON-RPC and HTTP+JSON, call_via_card, ask, stream | remote agents, their cards |
| Payload adapter `a2a/adapter.py`, payload models, default handlers of `agent.py` and `service.py` | none | conversions: arguments to message, message to handler input, result to artifact, task to reply text | server, client |
| Agent card `a2a/card.py`, `entity_card_loader.py` | none | build, sign; resolve (in the client) | server, client, identity |
| Wire types, canonical JSON | none | data declarations; serialisation | server, client |
| Discovery, payments, logo, utilities | none | HTTP queries, library wrappers | registry, x402 library |

### What is hard

* **Concurrency.** Flask serves every request on a thread of its own, each dispatch
  starts another, and the store is shared by all of them under two kinds of lock.
  A handler that asks a question sleeps inside the store until another request's
  thread wakes it; a timeout, a second message, a cancel, a retention sweep and
  shutdown all compete for the same resume slot.
* **Ordering.** Events are broadcast after the lock is released; streams subscribe
  and read snapshots in separate steps; the settlement of a request is a poll of
  another thread's state.
* **Failure.** Every registry request may fail, be refused, or succeed with its
  answer lost; the process may die between its lookup and its write; two processes
  of one entity may overlap in a rolling deploy.
* **Conversions.** What a program says goes through six translations before another
  program reads it, each with precedence rules over the same few keys (`text`,
  `content`, `prompt`, `response`, `data`), and a stream through a transport that cuts
  it anywhere.
* **Timeouts.** Suspensions, settlement deadlines, retention and idle periods.

`PROJECT.json` lists each hazard at its line with the property that covers it, or
why none does.

### What makes each component correct

* Store: an answer wakes the handler it is for, exactly once; no exit from a
  suspension leaves a slot behind; a sleeping handler is out of reach of the next
  message and of shutdown only when retention has popped its task, and its timeout
  ends its suspension then, too.
* Server: each message reaches one handler; nobody is left with an open task; a
  stream shows the transitions it promises and ends; a callback learns the outcome. A
  message at whose conversion the handler thread dies is the exception.
* Lifecycle: in what upserts send, the registry shows one deployment's record, the
  running one's; a running entity stays active; stop() ends its threads.
* Authentication: a message is accepted once, within its validity only; a replay is
  refused only because another copy has passed the replay check; the cache stays small.
* Conversation: a handler is given what was passed and by whom; the caller reads what
  was answered; a stream loses and repeats nothing, and ends with the final event;
  calls go to the endpoint the agent serves.
* Identity: an agent keeps its key over restarts, crashes and concurrent starts, and
  the registry knows it by that key.

## 2. Modules

| Module | Models | Uses |
|---|---|---|
| `TaskStore` | `a2a/task_store.py`, the state sets of `a2a/types.py` | |
| `Handoff` | abstract: what suspend and resume promise to handlers | implemented by `TaskStore` |
| `A2AServer` | `a2a/server.py` as programs over the store's calls | EXTENDS `TaskStore` |
| `Lifecycle` | `base.py`, `dns_registry.py`, server start and stop | |
| `Auth` | `a2a/auth.py`: copies of signed messages against the replay cache | |
| `Payload` | `a2a/adapter.py`, `AgentPayload`, `TaskHandle.complete`, the default handlers, as operators | |
| `Card` | building, signing and resolving agent cards, as operators | |
| `Exchange` | a program that calls an agent through `a2a/client.py`, the agent's answers, a stream's bytes | EXTENDS `Payload`, INSTANCE `Card` |
| `Identity` | `config_manager.py`, `resolve_keypair`, by processes that share a config file | |
| `Deployment` | an agent that is started, dies and is started again, and its conversation | EXTENDS `Exchange`, INSTANCE `Identity` |
| `TaskStoreProofs`, `HandoffProofs`, `A2AServerProofs`, `LifecycleProofs`, `AuthProofs`, `DeploymentProofs` | theorems | the module each is named after (`HandoffProofs`: `TaskStoreProofs`), and TLAPS |
| `OutcomeProofs` | theorems about the server: tasks, histories, answers, streams and callbacks in the end | EXTENDS `A2AServerProofs` |
| `ConversationProofs` | theorems about the conversation: what is passed arrives, what is answered is read | EXTENDS `DeploymentProofs` |
| `MCTaskStore`, `MCA2AServer`, `MCLifecycle`, `MCAuth`, `MCDeployment` | instances for TLC | |

### TaskStore

One step per critical section. A mutator of the code (`set_state`, ...) is
`Call...`, the lookup under `_lock` that returns at once for a missing task, then
`Write...` under the entry's own lock, then `Broadcast` under none. `get()` is
`GetBegin` and `GetEnd`, because it deep-copies under `_lock` while writers hold
only the entry's lock. `suspend_until_next_message` is `Suspend`, `Wake` or
`TimeOut`, and `Finally`; `resume_if_suspended` is `CallResume` under `_lock`, then
`TestSlot` and `Resolve`, the unlocked check-then-act of `_ResumeSlot.resolve`.
The sweeper is `StartSweeper`, `SweepDue`, `Sweep`, `SweepIdle`, `SweepStop`;
shutdown is `ShutdownBegin` and `ShutdownCancel`.

`call[th]` is where thread `th` is inside the store and which entry, slot and
argument it holds. Entries and slots are numbered heap objects: a thread keeps its
reference to an entry the sweeper has popped. Clocks are left out: a period may
elapse whenever the constant `Env` admits its event, which includes every real
timing. Task bodies are abstracted to state, set of messages, set of artifacts.

`Handoff` is the abstract specification of suspending and resuming: a handler sleeps,
one message may be claimed for it, that message and no other is delivered, the
handler may leave at any time, shutdown aborts only sleepers nothing was claimed for.
`ImplementsHandoff` in `TaskStore` maps a store to it: a handler is `asleep` while its slot
is registered, `owed` a message once a resume has detached the slot and until it is
set, and `answered` or `aborted` by the slot's value.

### A2AServer

A request `r` has two threads, `<<r, "request">>` and `<<r, "handler">>`; `pc[r]` and
`hpc[r]` name the next call of each, and every action of the server that touches a task
is an action of `TaskStore` conjoined with a move of a program counter. `Kind` and
`Target` say which method `r` is and on which task. The user's handler is
nondeterministic: `HandlerOps` lists the moves it may make (ask, emit, update to any of
`UpdateStates`, complete, fail, cancel, return, raise, catch what ask raised, go on
after complete, and return the sentinel at any time: `ReturnDone`). `feed[r]` is the
queue of the stream, `sent[r]` how far its generator has got. `takers` is a history
variable: to which handlers a message was handed.

A request that fails to parse or to authenticate touches no state that is modelled,
and is left out; so are context ids and the bodies of messages. `Invalid` are the
messages no handler accepts (none registered, or the payload does not validate):
`Reject`. `Raising` are those whose conversion may raise an error of another class, which
`_dispatch` does not catch (`server.py:807`): in `Die` the handler thread ends at `died`,
with the task as it was. A callback is told (`DeliverPush`) or, where `Faults` has
"unreachable", its POST fails, which the code logs and forgets (`PushFails`). `update()`
passes any string on; a state outside `TaskStates` behaves as an open one and is left
out.

### Lifecycle

`pc[p]` is where the main thread of process `p` is in `start()`: `ProbeRaises` or
`StartServer`, then `Lookup`, then `Update`, `Register` or nothing, `Conflict` and its
fallback, and `StartHeartbeat`. The registry is external: an answer is one of those
`dns_registry.py` tells apart, and any kind of request in `Failures` may fail. A
registration may be carried out although its answer is lost. `hb[p][k]` is the heartbeat
thread of the k-th `start()`. `Crash` kills a process anywhere, `Boot` starts one with
any configuration; several may overlap. `lost` and `raced` are history variables. A
configuration and the registry's record are functions from the fields they have to
opaque values: `Always` are the fields every configuration gives, `OnlyAtFirst` those
that are registered and never updated (`entity_pricing`), and the rest, such as
`openapi_url`, may be missing. `Desired` is what an upsert compares and sends, `Diff`
walks its keys only, and `Updated` leaves other fields of the record alone.
`LookupRaises` is the branch that gives the upsert up. A request that never returns
(none of them has a timeout) is a process that makes no further step. Left out: the
missing `websockets` package, an unreadable developer key, the card file and the banner.

### Auth

A message stands for its nonce. `Receive` is the part of `verify_message` that looks at
the mode, the block and its version; `CheckWindow` the expiry window; `Sweep`, `Trim`,
`PopOldest`, `Lookup` and `Record` are `ReplayCache.check_and_record`, one step per
access of the shared dictionary, because threads of the server run it without a lock and
each reads the clock anew; `CheckContent` is entity id, signature and developer proof.
The cryptography is external: `Arrives[m]` are the forms in which copies of `m` may
arrive, and every copy that `Receive` takes has a form of its own, which says what the
checks will find: a block or none, its version, a field it lacks, whether it is intact,
its proof. An altered copy keeps sender, nonce and window: with another nonce or sender
it would be another message, and the window is what the cache entry of a nonce is about.
`accepted`, `results` and `doubt` are history variables; `doubt[m]` collects the reasons
why the cache may have forgotten `m`: `overlap` (two lookups before the first record),
`lapsed` (expired between two readings of the clock), `evicted`. Senders' clocks differ
by `Drift`.

### Payload, Card, Exchange

`Payload` and `Card` are the pure functions, as operators. A text is the sequence of its
non-blank lines, so that joining with newlines and stripping is concatenation; a
dictionary is a function; a URL an origin and path segments; a signature the key and
what it signs. `Exchange` lets a program call an agent, one call after the other on one
task: `Call` builds the message, `Resolve` fetches a card and picks an interface, `Refuse`,
`Resume` and `Start` are what the server does with the request, `Return`, `Ask`, `Fail` and
`AskTimesOut` what its handlers do, `Respond` and `Read` the answer and `task_reply_text`.
`ForeignAnswer` is an agent of another SDK. A stream is the pieces of its frames (two
halves of a data line, two newlines each), which `ReadChunk` cuts anywhere. The server's
inner interleavings are A2AServer's subject: here a message is taken in one step. A
caller may give up while the handler goes on, so answers, questions and artifacts of
earlier calls are in the task when a later one reads it.

### Identity, Deployment

`Identity` has `load_or_create` (`LoadComplete`, `Migrate`, `Create`), `save_config` as
the truncation by `open(path, "w")` and the later write, with another process's bytes
left behind a shorter text, and `resolve_keypair`, by several processes that may die
anywhere. A new key is registered, successfully or not, before it is saved (`Holds`);
`registered` is what the registry has learned of, and the history variable `abandoned`
those entities whose process died before it had saved the key. `setup` says which
sources of keys are configured and what the file was at first (absent, legacy, broken).
`ZyndBase` itself only resolves a key; a program may call `load_or_create` before it or
not. `Deployment` starts and stops the agent of an `Exchange` with the key that the
process has resolved; when the process dies, its tasks are gone and open requests fail.

## 3. Runs

Each cfg is one question. Names of bounds: `MaxEntries`, `MaxSlots` (objects ever
allocated), `MaxOps` (asks, artifacts and updates of one handler), `MaxBoots`,
`MaxStarts`, `MaxTime` and `MaxCopies` (`Auth`), and `turns` and `starts` of a
deployment. Message, task and thread sets are model values.

| Run | Question | Bounds and why they are enough |
|---|---|---|
| `store_slots` | Whatever the order of suspend, answer, timeout, retention and shutdown, has a slot one owner, one completer, one value, do the next message and shutdown find every sleeper whose task was not popped, and does the store implement `Handoff`? | three threads: a sleeper and two rivals for its slot, two messages that must not be confused, with symmetry; two entries, so that a popped task exists next to its successor; two slots, so that a suspension follows one that left badly |
| `store_calls` | Does any step find its entry, slot or argument missing, and does every suspension end, whatever happens to its task, unless the idle sweep stops the store? | all calls and events, two threads, one entry, one slot: each missing object takes one thread and the sweeper, and so does a sleeper whose task is popped |
| `store_idle` (violation) | Does a sweep fail an idle task? | |
| `server_send` | Two messages to one task: is each given to exactly one handler, none lost, each handled and answered? | each handler may make two moves, so it can ask again after an answer; three slots |
| `server_cancel` | Two messages and a cancel, with timeouts: does the task end, is the history whole, does no answer show `completed` without its result? | three requests on one task; two handlers compete to complete it; at the second message the thread may die |
| `server_stream` | Does a stream show `working`, end with a final event, and close? | a second message to the task, a client that may go away, and a handler thread of the stream's message that may die |
| `server_push` | Does somebody report the outcome to the callback? | a rejected message may overwrite the state; a callback may be added late; nearly every handler move, with `update()` to a terminal and to an interrupted state |
| `server_store` | Does the server use the store only as `TaskStore` specifies? | all events of the environment, a handler that goes on after completing and returns the sentinel whenever it likes, callbacks that cannot be reached |
| `lifecycle_upsert` | Does the record ever mix deployments, and does a clean upsert publish? | two processes, three boots, four fields, three configurations: the second moves the address, changes the price and drops the optional field of the first, the third has another name, so partial updates can mix them and a price and an optional field of an earlier deployment stay behind; any upsert request may fail |
| `lifecycle_heartbeat` | Does a running entity stay active, and does stop() end its threads? | one process, two starts (two heartbeat threads), two boots, all requests may fail |
| `auth` | Is a message accepted once, is a replay refused only for a copy that passed the replay check, does the cache stay small? | two threads; one sender, since buckets are separate; four messages against a limit of one nonce, so that buckets overflow, sweep and evict; two copies of the first, each as sent, altered, or without its nonce (the other forms end a verification in one step, and are left to the proofs); lifetime and skew 1 and a clock up to 2, so that a nonce expires exactly at, before and after a lookup; a mode that verifies and one that does not |
| `deployment` | Do handlers and callers read what was said, do streams survive any cut, do calls reach the agent, does it keep its key? | two processes, two keys to generate, registrations that succeed or fail. Once a long conversation with an agent that is started once: two turns, every kind of argument, result, transport preference and foreign card; once two turns with an agent that is started twice; once every combination of key sources with three starts, and one simple call |

Passing runs are exhaustive: between 8 thousand and 2.5 million distinct states.
Runs in which the system really may stop say so: `server_send` leaves timeouts
out, so a handler that asked last waits for ever; the idle sweep deadlocks the store
in `store_calls` and `server_store`; all processes may be gone in the lifecycle runs;
the copies that arrive, and the calls and starts of a deployment, are used up.

Every property has a mutant: a definition with the bug a programmer could have
written (a dropped `finally`, a detach that leaves the slot, an ignored result, a
swallowed 409), under which TLC finds the property violated. The mutated forms stand
next to the definitions they replace, as "Variant".

### Fairness

* Server (`Fairness`): weak fairness of each request's thread once the request has
  arrived, and of each handler thread. Threads are scheduled by the operating
  system; the user's handler is assumed to make some move. Clients need not send,
  disconnect or wait, and deadlines need not pass. Timeouts are part of the handler
  thread's steps: `wait()` returns when its time is up.
* Store (`StoreFairness`): weak fairness of a call under way, strong fairness of the
  steps that compete for `_lock`, since a thread that waits for a `threading.Lock`
  which is released again and again gets it. `store_idle` uses it to make the
  counterexample a real one: not even a fair lock saves the sweeper. `store_calls` uses
  it for `SuspensionsEnd`: `wait()` returns when its time is up.
* Lifecycle: weak fairness of start() and of the heartbeat threads; strong fairness
  of a connection and of a message, i.e. the network is not down for ever. Nothing
  is assumed of the registry's expiry, of crashes or of boots.

## 4. Proofs

All are checked by TLAPS for any number of threads, tasks, messages, requests,
processes, senders, clocks and configurations. The assumptions are those on the constants,
named in the modules: bounds are natural numbers, the sets callers draw from are subsets of
the code's, a message is none of the four sentinels, there is a field that every
configuration gives and that is not among those sent at the registration only, given
and derived keys are not among those
that are generated, a caller asks or streams (a stream is opened at an endpoint, so it
has no card and no preference), a card's additional interfaces are a sequence, "ended" is
not the value that stands for no outcome; texts and lists are sequences (`WellTyped`).
Where a theorem has a hypothesis of its own, it is named below, with what the code does
where it does not hold.

* **`TaskStoreProofs`.** `TypeCorrect`: `StoreTypeOK`, whose part `CallOK` says that a call
  under way always has the entry, slot and argument its next step uses.
  `SlotsCorrect`: `SlotInv` is invariant. The properties a reader wants are not
  inductive: that a resume which has detached a slot is alone with it needs that a slot
  number is never reused (`SlotsNumbered`), that no two suspensions share a slot
  (`SuspensionsDistinct`), that the unlocked test in `resolve()` is not stale when it
  stores (`StoreFindsUnset`), and that the slot of a sleeper is in its entry or with a
  resume (`SlotWithSleeper`). `SlotInv` is the conjunction of these with `SlotOwned` and
  `ExclusiveCompletion`; one lemma per action shows that it is kept. `SlotsAreOwned`,
  `CompletionIsExclusive`, `SlotsAreSetOnce` and `ShutdownReleasesHandlers` follow.
  `WaitersAreReachable` is `NoOrphanWaiter`: the entry a sleeper sleeps on is the one its
  task id leads to, or it was terminal once and was popped. Besides `SlotInv` it needs
  that an entry leaves the registry by retention only (`EntriesListed`).
* **`A2AServerProofs`.** `ServerUsesStore`: `Spec => StoreSpec`, the server refines the
  store's specification under the identity mapping. Each server action is shown to be
  a store action or to leave the store unchanged; the one fact needed about the
  server is `ReplyOK`, that a resumed `ask()` holds a message when it appends it.
  `ServerSlots`: hence the slot theorems hold in the server, whatever clients send and
  handlers do. `ServerCorrect`: `ServerInv` is invariant, the ground of the two modules of
  server proofs. Its part `ControlInv` says where a request and its handler can
  be together (`PointsOK`) and which call of the store each can be inside of there
  (`RequestCallOK`, `HandlerCallOK`): a handler is in a suspension exactly while it is in
  `ask()`. `ServerTypeCorrect` follows. `MessagesHandedOverOnce`: `HandedOverOnce` speaks of
  messages that were taken; the invariant follows a message before that. It is carried by
  one resume (`CarriedOnce`), or in one slot and no longer to be dispatched (`SlottedOnce`),
  a wait returns with its slot's value or has timed out (`WokenWithSlot`), and what was
  taken is its own handler's or was in a slot (`TakenOnce`). `MessagesNotLost` has the
  hypothesis `[]AnswersInTime`, and speaks of messages whose conversion does not fail
  (`Readable`): while a resume carries a message to a slot, the suspension
  on that slot has neither timed out nor been aborted. That race is the one way to
  lose a message (section 5); a wait that nobody answers may end in any way. The proof needs
  that the sleeper stays on a detached slot (`SleeperWaits`), and `OnItsWay`.
  `InTimeUnlessGivenUp`: the hypothesis holds wherever nothing times out and nothing is shut
  down (`SleepsUntilAnswered`), as in the run `server_send`.
* **`OutcomeProofs`.** `TasksNotStranded`: while a task is open, some thread owes it an end
  (`OpenIsOwed`): a request that will still dispatch or wake a handler, or a handler that
  runs, sleeps or is about to write a final state. It holds with timeouts, cancels,
  updates to any state, shutdown and retention, with two limits. A task at whose
  message a thread died (`Dropped`) stays open, which the property itself says. And
  `_dispatch` asks nothing more of a handler that returns the sentinel: the hypothesis
  `[][SentinelMeansDone]_vars` says that a handler that does so later than complete(),
  fail() or cancel() gave it leaves the task ended, or with another message that will end
  it; a handler that asks again after complete() and then returns the sentinel leaves the
  task open (section 5). Handlers that return at once what these calls return need no
  such hypothesis. `StreamsEndWithFinal` needs no more than `ServerInv`. The other
  four have the hypothesis `[][RetiresIdleTasksOnly]_vars`: the sweeper may retire tasks, but
  none that a message is at work on, which is what retention is for. The code does not see
  to it: `terminal_at` is not cleared when a follow-up opens the task again (section 5), so
  the sweeper may take it from its handler, whose next lookup fails or finds the task that
  the next message created, and the properties are false. `IdleOnlyWithoutRetention`: the
  hypothesis holds wherever the retention period does not elapse, as in the runs that check
  the four. Under it, both threads of a message work on the entry its request found or
  made (`SameEntry`), although the task may be retired and created again between two
  messages, and an answer goes to a handler that works on the same entry
  (`AnswersOwnEntry`); so the four speak of entries (`live`), not of tasks.
  `HistoryKept` needs that a message is recorded or will be by the handler it wakes
  (`RecordedOrDue`); `CompletedAnswersHaveResult` that no entry and no copy under way is
  `completed` before it has an artifact (`ResultBeforeState`), for handlers that do not
  write `completed` with `update()`, which adds no artifact; `StreamsShowWorking` that
  the queue was subscribed before `working` is written (`SubscribedFirst`);
  `CallbacksToldOutcome` that the callback is set before the message is handed over
  (`CallbackSet`) and that the final state is pushed or a handler has yet to look
  for a callback (`ReportedOrDue`), for callbacks that can be reached: a POST that fails
  is not repeated.
* **`LifecycleProofs`.** `TypeCorrect`; `UpsertsCorrect`: `UpsertInv` is invariant.
  `RecordIsOneConfig` alone is not inductive: an update writes only the fields that
  differed at the lookup, so one needs that, unless two processes overlapped, this
  difference is still the difference to the record when the update arrives.
  `NoMixedRecord` and the action property `UpsertsPublish` follow. Configurations may
  give some optional fields and not others: both speak of what an upsert sends
  (`Desired`), and `UpsertsPublish` adds that the fields it does not send stay as they
  were. What the code thereby leaves behind is in section 5.

* **`HandoffProofs`.** `StoreImplementsHandoff`: every behaviour of the store is one of
  `Handoff` under the mapping above. Each action of the store is shown to be the step of
  `Handoff` it is named after or a stutter; the facts it needs are `SlotInv` and
  `StoreTypeOK`, above all that a detached slot has one resume and one waiter.
* **`AuthProofs`.** `NoncesCorrect`: `NonceInv` is invariant; `AcceptedAtMostOnce` and
  `ReplaysAreNotLost` follow, and `AuthTypeCorrect`. `AcceptedOnce` alone says nothing of
  threads under way: one needs that an accepted message is still cached or in doubt,
  that whoever is past the lookup of an accepted message is so with doubt, and that two
  threads past the lookup of one message are as well. The proof shows that each way to
  lose a nonce leaves its reason behind. Copies come in any forms, so `ReplayedNotLost` has a
  third case beside a copy that was accepted and one in its checks: a copy that failed
  them when the nonce was recorded already (`Burnt`). `BucketsBounded`: `BucketBounded` is not
  inductive,
  as threads test the limit and insert in separate steps. `BucketInv` counts the threads in
  between (`Due`) with the nonces of the bucket.
* **`DeploymentProofs`.** `IdentityKept` and `OneAgentServes`. `OneIdentity` compares the
  callers' knowledge, running processes, the file and the registry, without the entities
  of processes that died before they had saved their key; the invariant adds which keys a
  process can hold in each situation: with a given key, with a derived one, or with one
  generated, where the first config written without disturbance is the only one
  (`GivenInv`, `DerivedInv`, `WrittenOnce`).

  `DeploymentTypeCorrect`: the types of the processes and of the conversation.
  `StreamsAreLossless` and `StreamsAreComplete`: `StreamInv` is invariant. It says that the
  pieces in the client's buffer followed by those on their way are exactly the frames of
  the events not yet yielded, that a refused stream holds nothing but its error
  (`NothingSent`), and that a stream is closed only after its final event and read only by
  an open call (`StreamOpened`). `Frames(n, m)` gives the pieces of the events n+1 to m
  in closed form, so a chunk moves the border between buffer and network, a frame
  that is taken removes four pieces at the front, and no induction is needed.
  `CallsGoToEndpoint`: a card that resolves yields the interface the caller asked for, and
  the URL of the agent's own card is where it is reached. Its hypothesis `ReachedAsWritten`
  says what a deployment is: the agent is reached at the A2A path below the operator's
  base URL, which the configuration gives with any number of trailing slashes, and with
  or without the legacy `webhook` segment. The theorem is about `Endpoint` finding it back.

* **`ConversationProofs`.** `InputsArrive` and `RepliesAreAnswers`, the two properties about
  what programs say. The model reads parts with the folds of the code (`FlattenSeq`), and
  the provers have no induction over data; but any set of numbers has a least one
  (`AllNumbers`), so a concatenation of n texts is followed from its n-1 first by a least
  counterexample (`FlattenOneMore`). The rest is about operators: `PartsOfInput` says which
  part is at which place of a message, `HandlerIsGiven` that the payload built of them has
  every file, every entry of the data and the sender; `ResultSays` and `CoercedSays` that
  the parts of a result end with the words its form stands for (`Meant`), whichever of
  `text`, `content`, `response` and `data` holds them; `ReadsAnswer` that `task_reply_text`
  finds them last, behind the artifacts of earlier turns. Neither property is inductive: an
  answer is read later than it is given, and a handler starts later than its caller has
  called. `WordsInv` adds that the arguments of a call under way are typed (`CallTyped`),
  that the task always says what the agent said last (`TaskAnswers`), and that the copy
  of the task on its way to the caller does too (`ResponseAnswers`).
  Their assumption `WellTyped` is the code's type annotations: a text is a text and
  a list is a list where a caller passes one, or where the code tests for one and finds it.

Model-checked only: all liveness (fairness and ENABLED are out of the prover's reach).
Every invariant and every action property of a passing run is a theorem, those about
the server just named under their hypotheses. No module declares RECURSIVE operators.

## 5. What the code does not keep

One statement of the repository is refuted by a run.

* `store_idle`: `_sweep_once` calls `set_state` while holding `_lock`, which `set_state`
  takes first (`task_store.py:364`, `376`, `198`). `_lock` is not reentrant, so the first
  idle task stops the sweeper and with it every later call of the store. The header
  promises that idle tasks transition to `failed` and subscribers are notified.

### Known divergences

The models have these behaviours as well; no run is spent on them.

* `terminal_at` is never cleared (`task_store.py:208`, `367`): a task that was terminal once
  and works again, or waits for input, is popped five minutes after it first ended.
* `tasks/resubscribe` reads the task (`server.py:724`), then subscribes (730). A final event
  in between is in neither, and the stream stays open.
* `tasks/cancel` sets the state and leaves the suspended handler asleep until its
  timeout, while `suspend_until_next_message` documents "Raises if the task is
  canceled". (`NoStrandedTask` shows that the task is terminal in the end.)
* A message that arrives after `ask()` has published `input-required` and before it has
  registered its slot finds nobody suspended and starts a second handler; the
  first waits for another message. (`MessageHandled`: it is handled, by the second.)
* The response to a message that answers a question can be the unchanged question:
  the poll for settlement may come before the woken handler sets `working`.
* `resume_if_suspended` can return True for a wait that has just timed out.
* A handler that sleeps on a retired task is out of reach of messages and shutdown
  (`Popped` in `NoOrphanWaiter`), until its timeout (`SuspensionsEnd`).
* The mutators look a task up under one lock and write under another: a write to a task
  that was retired in between is lost. Events are broadcast after the lock is released,
  so subscribers may see two writers' events in the opposite order.
* `update_entity` returns False on failure; the caller reports an update all the same.
* An update never removes a field and never sends the price: `openapi_url` is in the
  desired record only if it is set, `_compute_update_diff` walks the desired keys only,
  and `entity_pricing` is sent with the registration only (`base.py:420`, `664`, `480`). A
  redeployment without `openapi_url` keeps the old one, one with another price the old
  price. `RecordIsOneConfig` and `UpsertPublishes` speak of the fields that are sent.
* Two overlapping upserts may leave a record that mixes their configurations, and two
  processes may pass the port probe together (`raced`, and `Bind` to `dead`).
* `start()` after `stop()` in one process raises at the port probe, as the server thread
  never ends. If that thread has died, it goes through with a heartbeat that ends at
  once and a store that is not swept.
* The docstring of `check_and_record` says "record it (even on hit, refresh expiry)"; a hit
  returns before anything is recorded (`auth.py:114`, `129`).
* The nonce is recorded before the signature is checked (`auth.py:261`, `288`): an altered
  copy that arrives first is refused and uses the nonce up, and the genuine one is then
  refused as a replay (`Burnt` in `ReplayedNotLost`). A block without `entity_id` or
  `nonce` raises a KeyError instead of a ZyndAuthError, one without `public_key` or
  `signature` does so with the nonce recorded (262, 271, 288).
* A stream that is refused ends with no event and no exception: the error is a JSON body
  without a blank line, which the client never parses (`client.py:226`). `StreamComplete`
  names the case.
* `task_reply_text` falls back to the last message of the history, so the caller of a handler
  that says nothing reads its own text, which the docstrings of `ask` and of the
  function itself warn of (`adapter.py:296`); later turns of one task read the artifacts of
  earlier ones before the question or failure. `ReplyIsAnswer` leaves both out.
* A dictionary with `response` and `attachments` loses the `response` (`adapter.py:250-257`).
  A default handler whose framework gives no string sends its answer as data.
* An attachment of the class the package exports is not the one `complete` looks for
  (`server.py:223`): the response cannot be serialised, and the caller gets an error.
* `prompt` takes precedence over `content` in the payload model (`payload.py:146`), the text
  of the message over both in the adapter.
* `_dispatch` catches only `ValidationError` of `from_a2a_message` (`server.py:807`). A payload
  model whose validators raise another error ends the handler thread: the task stays
  `working`, its stream open, a callback untold, and message/send answers at its deadline
  (`Die`). `NoStrandedTask`, `SendAnswered` and `StreamCloses` name the case.
* `_dispatch` takes the sentinel's word for it that the task is ended (`server.py:831`): a
  handler that asks again after `complete()` and then returns the sentinel leaves the
  task waiting for input (`ReturnDone`, `SentinelMeansDone`).
* `update()` takes any state: `update("completed")` completes a task without a result.
* A push notification whose POST fails is logged and not repeated (`server.py:882`).
* `require_auth` does not look for an abort (`server.py:184`); `ask` sets `signed` from the
  presence of a block,
  also in mode `open`, where none is verified.
* A follow-up without a contextId is dispatched under a fresh one (`server.py:529`).
* The comment "Resolve $ref if present" (`card.py:324`) is not implemented, so a list of a
  pydantic model is not detected as attachments (`AcceptsFiles`).
* A process that dies between the truncation and the write of the config loses its key and
  the old seed, which the migration is to preserve (`config_manager.py:64`, `79`); two
  processes that create a config at once go on with different keys. `OneIdentity` names
  both (`disturbed`). A new key is registered before it is saved (93, 152): a process that
  dies in between leaves an entity in the registry for which nobody has the key
  (`abandoned`).

## 6. Plan

Done: the store and its hand-over, the server, the lifecycle, authentication, the
conversation and the identity, each with proofs. Left, in this order:

1. A run of the server with retention and `RetiresIdleTasksOnly` as part of its next-state
   relation, so that TLC sees on a small instance what the four theorems say of it.
2. The server's `pushNotificationConfig/get` and the order of `_resolve_provider` and the first
   card.

The number of runs is kept at about a dozen, so later modules take the place of
the smaller questions above or share a run with them.

## 7. Not modelled

* Canonical JSON and logos: pure transformations of documents, the former with test
  vectors in `tests/cross_sdk`.
* Cryptography (`ed25519_identity.py`, `utils.py`) and the x402 library: external. A key, a
  hash and a signature are modelled by what they identify.
* Discovery: stateless HTTP queries. `communication.py` and `webhook_communication.py`
  only raise errors that name their successor.
* Parts of modelled components, listed with each in `PROJECT.json`: parsing errors, optional
  fields of the card, the registry URL's precedence, `ask`'s guess whether its target is an
  endpoint or a base URL, downloading attachments.
* The user's handler, beyond the calls it may make, and the push receiver.
