------------------------------ MODULE TaskStore ------------------------------
(***************************************************************************)
(* The in-memory task store of an agent process,                           *)
(* src/zyndai_agent/a2a/task_store.py.                                     *)
(*                                                                         *)
(* Any number of threads call the store.  A call is one step per critical  *)
(* section: the lookup under the registry lock `_lock`, the write under    *)
(* the entry's own lock, the broadcast under no lock.  Between them the    *)
(* thread is at the point call[th].at names.                               *)
(*                                                                         *)
(* Task entries and resume slots are heap objects: a thread that looked an *)
(* entry up keeps its reference after the sweeper popped the task, so both *)
(* are numbered in the order they are allocated.  Clocks are left out: the *)
(* retention period, the idle period and a suspension's timeout may elapse *)
(* at any moment, when Env admits the event.                               *)
(***************************************************************************)
EXTENDS Naturals

CONSTANTS
    Threads,       \* threads that call the store
    Tasks,         \* task ids
    Messages,      \* inbound messages
    Artifacts,     \* artifact ids
    ClientStates,  \* the states callers pass to set_state
    Calls,         \* the calls callers make: see StoreCalls
    MaxEntries,    \* bound on _TaskEntry objects ever allocated
    MaxSlots,      \* bound on _ResumeSlot objects ever allocated
    Env            \* events of the environment: see EnvEvents

StoreCalls == {"get_or_create", "get", "set_state", "append_message", "append_artifact",
               "set_push_config", "subscribe", "suspend", "resume"}
EnvEvents == {"retention", "idle", "timeout", "shutdown"}

TerminalStates == {"completed", "canceled", "failed", "rejected"}
InterruptedStates == {"input-required", "auth-required"}
TaskStates == TerminalStates \cup InterruptedStates \cup {"submitted", "working"}

Null == 0                       \* Python's None for an entry or a slot
Entries == 1 .. MaxEntries
Slots == 1 .. MaxSlots
Unset == "unset"                \* a slot's Event is not set
Abort == "abort"                \* cancel() stored {"__abort__": reason}
TimedOut == "timedout"          \* wait() raised TimeoutError
NoArg == "none"

ASSUME BoundsAssumption == MaxEntries \in Nat /\ MaxSlots \in Nat
ASSUME StatesAssumption == ClientStates \subseteq TaskStates
ASSUME CallsAssumption == Calls \subseteq StoreCalls
ASSUME EnvAssumption == Env \subseteq EnvEvents
ASSUME MessagesAssumption == Messages \cap {Unset, Abort, TimedOut, NoArg} = {}

VARIABLES
    registry,   \* _tasks: the entry registered under a task id, or Null
    entry,      \* the _TaskEntry objects
    nEntries,   \* how many entries have been allocated
    slot,       \* the _ResumeSlot objects: the value, Unset until the Event is set
    nSlots,     \* how many slots have been allocated
    call,       \* where each thread is inside the store, and on which objects
    sweeper,    \* the GC thread
    closed      \* _closed, and whether shutdown is between its two steps

storeVars == <<registry, entry, nEntries, slot, nSlots, call, sweeper, closed>>

-----------------------------------------------------------------------------

(* A new _TaskEntry holding the task dict get_or_create builds. *)
NewEntry == [state     |-> "submitted",
             stamped   |-> FALSE,   \* terminal_at is not None
             history   |-> {},
             artifacts |-> {},
             subs      |-> {},      \* the threads whose on_event is subscribed
             push      |-> FALSE,   \* a push_config is set
             slot      |-> Null]    \* resume_slot

NoCall == [at |-> "idle", ent |-> Null, slot |-> Null, arg |-> NoArg]

Calling(at, e, s, arg) == [at |-> at, ent |-> e, slot |-> s, arg |-> arg]

Idle(th) == call[th].at = "idle"

(* `_lock` is held across steps in two places only: by get() while it copies
   the task, and for ever by a sweeper that calls set_state while holding it. *)
LockFree == sweeper # "failing" /\ \A th \in Threads : call[th].at # "copy"

Registered(t) == registry[t] # Null

Suspended(t) == Registered(t) /\ entry[registry[t]].slot # Null

StoreInit ==
    /\ registry = [t \in Tasks |-> Null]
    /\ entry = [e \in Entries |-> NewEntry]
    /\ nEntries = 0
    /\ slot = [s \in Slots |-> Unset]
    /\ nSlots = 0
    /\ call = [th \in Threads |-> NoCall]
    /\ sweeper = "off"
    /\ closed = "open"

-----------------------------------------------------------------------------
(* Creation and reading.                                                    *)

GetOrCreate(th, t) ==
    /\ Idle(th) /\ LockFree
    /\ \/ /\ Registered(t)
          /\ UNCHANGED <<registry, nEntries>>
       \/ /\ ~Registered(t)
          /\ nEntries < MaxEntries
          /\ nEntries' = nEntries + 1
          /\ registry' = [registry EXCEPT ![t] = nEntries + 1]
    /\ UNCHANGED <<entry, slot, nSlots, call, sweeper, closed>>

(* deepcopy walks the task dict in insertion order: status first, artifacts
   and history after it.  The copy holds `_lock`, the writers do not. *)
GetBegin(th, t) ==
    /\ Idle(th) /\ LockFree /\ Registered(t)
    /\ call' = [call EXCEPT ![th] =
                  Calling("copy", registry[t], Null, entry[registry[t]].state)]
    /\ UNCHANGED <<registry, entry, nEntries, slot, nSlots, sweeper, closed>>

(* What the get() of th returns when it ends in this state. *)
Snapshot(th) == [state     |-> call[th].arg,
                 artifacts |-> entry[call[th].ent].artifacts]

GetEnd(th) ==
    /\ call[th].at = "copy"
    /\ call' = [call EXCEPT ![th] = NoCall]
    /\ UNCHANGED <<registry, entry, nEntries, slot, nSlots, sweeper, closed>>

-----------------------------------------------------------------------------
(* The mutators: a lookup under `_lock`, which returns at once when the task *)
(* is gone, then the write on the entry that was found.                     *)

(* Variant: the mutators do not test for a missing entry. *)
LookupUnchecked(th, t, at, arg) ==
    /\ Idle(th) /\ LockFree
    /\ call' = [call EXCEPT ![th] = Calling(at, registry[t], Null, arg)]
    /\ UNCHANGED <<registry, entry, nEntries, slot, nSlots, sweeper, closed>>

Lookup(th, t, at, arg) ==
    /\ Idle(th) /\ LockFree
    /\ call' = IF Registered(t)
               THEN [call EXCEPT ![th] = Calling(at, registry[t], Null, arg)]
               ELSE call
    /\ UNCHANGED <<registry, entry, nEntries, slot, nSlots, sweeper, closed>>

CallSetState(th, t, state) == Lookup(th, t, "write_state", state)
CallAppendMessage(th, t, m) == Lookup(th, t, "write_message", m)
CallAppendArtifact(th, t, a) == Lookup(th, t, "write_artifact", a)
CallSetPush(th, t) == Lookup(th, t, "write_push", NoArg)

WriteEntry(th, at, next, newEntry) ==
    /\ call[th].at = at
    /\ entry' = [entry EXCEPT ![call[th].ent] = newEntry]
    /\ call' = [call EXCEPT ![th] = next]
    /\ UNCHANGED <<registry, nEntries, slot, nSlots, sweeper, closed>>

(* The entry as set_state leaves it: terminal_at is stamped, never cleared. *)
WithState(e, state) ==
    [entry[e] EXCEPT !.state = state,
                     !.stamped = @ \/ state \in TerminalStates]

WriteState(th) ==
    WriteEntry(th, "write_state", [call[th] EXCEPT !.at = "broadcast_state"],
               WithState(call[th].ent, call[th].arg))

WriteMessage(th) ==
    WriteEntry(th, "write_message", NoCall,
               [entry[call[th].ent] EXCEPT !.history = @ \cup {call[th].arg}])

WriteArtifact(th) ==
    WriteEntry(th, "write_artifact", [call[th] EXCEPT !.at = "broadcast_artifact"],
               [entry[call[th].ent] EXCEPT !.artifacts = @ \cup {call[th].arg}])

WritePush(th) ==
    WriteEntry(th, "write_push", NoCall,
               [entry[call[th].ent] EXCEPT !.push = TRUE])

(* _broadcast: the event reaches every subscriber of the entry. *)
Broadcast(th) ==
    /\ call[th].at \in {"broadcast_state", "broadcast_artifact"}
    /\ call' = [call EXCEPT ![th] = NoCall]
    /\ UNCHANGED <<registry, entry, nEntries, slot, nSlots, sweeper, closed>>

Subscribe(th, t) ==
    /\ Idle(th) /\ LockFree
    /\ entry' = IF Registered(t)
                THEN [entry EXCEPT ![registry[t]].subs = @ \cup {th}]
                ELSE entry
    /\ UNCHANGED <<registry, nEntries, slot, nSlots, call, sweeper, closed>>

(* The closure subscribe() returned: no lock, on the entry it captured. *)
Unsubscribe(th) ==
    /\ Idle(th)
    /\ entry' = [e \in Entries |-> [entry[e] EXCEPT !.subs = @ \ {th}]]
    /\ UNCHANGED <<registry, nEntries, slot, nSlots, call, sweeper, closed>>

-----------------------------------------------------------------------------
(* Suspend and resume.                                                      *)

(* Variant: a second suspension replaces the pending one. *)
SuspendRefusedIfMissing(t) == ~Registered(t)

(* The state on which suspend_until_next_message raises at once. *)
SuspendRefused(t) == ~Registered(t) \/ entry[registry[t]].slot # Null

Suspend(th, t) ==
    /\ Idle(th) /\ LockFree
    /\ ~SuspendRefused(t)
    /\ nSlots < MaxSlots
    /\ nSlots' = nSlots + 1
    /\ entry' = [entry EXCEPT ![registry[t]].slot = nSlots + 1]
    /\ call' = [call EXCEPT ![th] = Calling("wait", registry[t], nSlots + 1, NoArg)]
    /\ UNCHANGED <<registry, nEntries, slot, sweeper, closed>>

(* The Event is set: wait() returns the message, or raises after a cancel. *)
Wake(th) ==
    /\ call[th].at = "wait"
    /\ slot[call[th].slot] # Unset
    /\ call' = [call EXCEPT ![th] = [@ EXCEPT !.at = "finally", !.arg = slot[call[th].slot]]]
    /\ UNCHANGED <<registry, entry, nEntries, slot, nSlots, sweeper, closed>>

(* Variant: a wait whose caller gave no timeout has none. *)
TimeOutNever(th) == FALSE

TimeOut(th) ==
    /\ "timeout" \in Env
    /\ call[th].at = "wait"
    /\ slot[call[th].slot] = Unset
    /\ call' = [call EXCEPT ![th] = [@ EXCEPT !.at = "finally", !.arg = TimedOut]]
    /\ UNCHANGED <<registry, entry, nEntries, slot, nSlots, sweeper, closed>>

(* Variant: the finally clause is missing. *)
ClearedNever(e, s) == entry[e]

(* The entry after the finally clause: only its own slot is cleared. *)
Cleared(e, s) == [entry[e] EXCEPT !.slot = IF @ = s THEN Null ELSE @]

Finally(th) ==
    /\ call[th].at = "finally"
    /\ LockFree
    /\ entry' = [entry EXCEPT ![call[th].ent] = Cleared(call[th].ent, call[th].slot)]
    /\ call' = [call EXCEPT ![th] = NoCall]
    /\ UNCHANGED <<registry, nEntries, slot, nSlots, sweeper, closed>>

(* Variant: the resume leaves the slot in the entry. *)
DetachedNever(e) == entry[e]

(* resume_if_suspended detaches the slot under `_lock` ...                  *)
Detached(e) == [entry[e] EXCEPT !.slot = Null]

CallResume(th, t, m) ==
    /\ Idle(th) /\ LockFree
    /\ Suspended(t)
    /\ entry' = [entry EXCEPT ![registry[t]] = Detached(registry[t])]
    /\ call' = [call EXCEPT ![th] =
                  Calling("resolve", registry[t], entry[registry[t]].slot, m)]
    /\ UNCHANGED <<registry, nEntries, slot, nSlots, sweeper, closed>>

(* ... and resolves it after the lock is released: _ResumeSlot.resolve tests
   the Event and only then stores the message and sets it.                  *)
TestSlot(th) ==
    /\ call[th].at = "resolve"
    /\ call' = [call EXCEPT ![th] = IF slot[call[th].slot] = Unset
                                    THEN [@ EXCEPT !.at = "store"] ELSE NoCall]
    /\ UNCHANGED <<registry, entry, nEntries, slot, nSlots, sweeper, closed>>

Resolve(th) ==
    /\ call[th].at = "store"
    /\ slot' = [slot EXCEPT ![call[th].slot] = call[th].arg]
    /\ call' = [call EXCEPT ![th] = NoCall]
    /\ UNCHANGED <<registry, entry, nEntries, nSlots, sweeper, closed>>

-----------------------------------------------------------------------------
(* The sweeper thread and shutdown.                                         *)

StartSweeper ==
    /\ Env \cap {"retention", "idle"} # {}  \* else a pass finds nothing to do
    /\ sweeper = "off" /\ closed = "open"
    /\ sweeper' = "waiting"
    /\ UNCHANGED <<registry, entry, nEntries, slot, nSlots, call, closed>>

SweepDue ==
    /\ sweeper = "waiting" /\ closed = "open"
    /\ sweeper' = "sweeping"
    /\ UNCHANGED <<registry, entry, nEntries, slot, nSlots, call, closed>>

SweepStop ==
    /\ sweeper = "waiting" /\ closed # "open"
    /\ sweeper' = "stopped"
    /\ UNCHANGED <<registry, entry, nEntries, slot, nSlots, call, closed>>

(* Entries a pass pops once their retention has elapsed: terminal_at is set,
   whatever the task's state is by now. *)
Retired(t) == Registered(t) /\ entry[registry[t]].stamped

MayIdleOut(t) == Registered(t) /\ entry[registry[t]].state \notin TerminalStates

Pop(expired) ==
    registry' = [t \in Tasks |-> IF t \in expired THEN Null ELSE registry[t]]

Sweep(expired) ==
    /\ sweeper = "sweeping" /\ LockFree
    /\ expired = {} \/ "retention" \in Env
    /\ \A t \in expired : Retired(t)
    /\ Pop(expired)
    /\ sweeper' = "waiting"
    /\ UNCHANGED <<entry, nEntries, slot, nSlots, call, closed>>

(* The pass reaches a task past its idle period and calls set_state, whose
   `with self._lock` waits for the lock the sweeper itself holds: the rest of
   the branch (state `failed`, slot.cancel) is never reached. *)
SweepIdle(expired, t) ==
    /\ "idle" \in Env
    /\ sweeper = "sweeping" /\ LockFree
    /\ expired = {} \/ "retention" \in Env
    /\ \A x \in expired : Retired(x)
    /\ t \notin expired /\ MayIdleOut(t)
    /\ Pop(expired)
    /\ sweeper' = "failing"
    /\ UNCHANGED <<entry, nEntries, slot, nSlots, call, closed>>

ShutdownBegin ==
    /\ "shutdown" \in Env
    /\ closed # "closing"
    /\ closed' = "closing"
    /\ UNCHANGED <<registry, entry, nEntries, slot, nSlots, call, sweeper>>

(* Variant: shutdown only stops the sweeper. *)
PendingSlotsIgnored == {}

(* Variant: shutdown cancels every slot a handler still sleeps on. *)
PendingSlotsOfWaiters ==
    {call[th].slot : th \in {x \in Threads : call[x].at = "wait"}}

(* The slots shutdown cancels: those of the entries still registered. *)
PendingSlots == {entry[registry[t]].slot : t \in {x \in Tasks : Suspended(x)}}

ShutdownCancel ==
    /\ closed = "closing" /\ LockFree
    /\ slot' = [s \in Slots |-> IF s \in PendingSlots /\ slot[s] = Unset
                                THEN Abort ELSE slot[s]]
    /\ closed' = "closed"
    /\ UNCHANGED <<registry, entry, nEntries, nSlots, call, sweeper>>

-----------------------------------------------------------------------------
(* The store used by threads that may make any call at any time.            *)

(* The steps of a call that is already under way. *)
Continue(th) ==
    \/ GetEnd(th)
    \/ WriteState(th) \/ WriteMessage(th) \/ WriteArtifact(th) \/ WritePush(th)
    \/ Broadcast(th)
    \/ Wake(th) \/ TimeOut(th) \/ Finally(th)
    \/ TestSlot(th) \/ Resolve(th)

Begin(th, t) ==
    \/ "get_or_create" \in Calls /\ GetOrCreate(th, t)
    \/ "get" \in Calls /\ GetBegin(th, t)
    \/ "set_state" \in Calls /\ \E state \in ClientStates : CallSetState(th, t, state)
    \/ "append_message" \in Calls /\ \E m \in Messages : CallAppendMessage(th, t, m)
    \/ "append_artifact" \in Calls /\ \E a \in Artifacts : CallAppendArtifact(th, t, a)
    \/ "set_push_config" \in Calls /\ CallSetPush(th, t)
    \/ "subscribe" \in Calls /\ (Subscribe(th, t) \/ Unsubscribe(th))
    \/ "suspend" \in Calls /\ Suspend(th, t)
    \/ "resume" \in Calls /\ \E m \in Messages : CallResume(th, t, m)

SweeperStep ==
    \/ StartSweeper \/ SweepDue \/ SweepStop
    \/ \E expired \in SUBSET Tasks :
          Sweep(expired) \/ \E t \in Tasks : SweepIdle(expired, t)

ShutdownStep == ShutdownBegin \/ ShutdownCancel

StoreNext ==
    \/ \E th \in Threads : Continue(th) \/ \E t \in Tasks : Begin(th, t)
    \/ SweeperStep
    \/ ShutdownStep

StoreSpec == StoreInit /\ [][StoreNext]_storeVars

(* threading.Lock grants a waiting thread eventually, so a step that needs
   `_lock` is strongly fair; every other step of a call that is under way, and
   an elapsed timeout, is weakly fair.  Callers are never obliged to call. *)
StoreFairness ==
    /\ \A th \in Threads :
         /\ WF_storeVars(Continue(th))
         /\ SF_storeVars(Finally(th))
    /\ SF_storeVars(ShutdownCancel)

FairStoreSpec == StoreSpec /\ StoreFairness

-----------------------------------------------------------------------------
(* Properties.                                                              *)

Waiting(th) == call[th].at = "wait"
InSuspend(th) == call[th].at \in {"wait", "finally"}
Resolving(th) == call[th].at \in {"resolve", "store"}

CallPoints == {"idle", "copy", "write_state", "write_message", "write_artifact",
               "write_push", "broadcast_state", "broadcast_artifact",
               "wait", "finally", "resolve", "store"}

EntryType == [state : TaskStates, stamped : BOOLEAN, history : SUBSET Messages,
              artifacts : SUBSET Artifacts, subs : SUBSET Threads,
              push : BOOLEAN, slot : Slots \cup {Null}]

Args == TaskStates \cup Messages \cup Artifacts \cup {NoArg, Abort, TimedOut}

CallType == [at : CallPoints, ent : Entries \cup {Null}, slot : Slots \cup {Null}, arg : Args]

(* The entry, slot and argument the next step of a call uses are there. *)
CallOK(c) ==
    /\ c.at # "idle" => c.ent # Null
    /\ c.at \in {"wait", "finally", "resolve", "store"} => c.slot # Null
    /\ c.at \in {"copy", "write_state"} => c.arg \in TaskStates
    /\ c.at \in {"write_message", "resolve", "store"} => c.arg \in Messages
    /\ c.at = "write_artifact" => c.arg \in Artifacts

(* Every variable holds a value the program can hold; in particular a call
   under way always has the entry, slot and argument its next step uses. *)
StoreTypeOK ==
    /\ registry \in [Tasks -> Entries \cup {Null}]
    /\ entry \in [Entries -> EntryType]
    /\ nEntries \in 0 .. MaxEntries
    /\ slot \in [Slots -> Messages \cup {Unset, Abort}]
    /\ nSlots \in 0 .. MaxSlots
    /\ call \in [Threads -> CallType] /\ \A th \in Threads : CallOK(call[th])
    /\ sweeper \in {"off", "waiting", "sweeping", "failing", "stopped"}
    /\ closed \in {"open", "closing", "closed"}

(* A slot left in entry.resume_slot always belongs to a thread still inside
   suspend_until_next_message on that entry: no exit from a suspension, not a
   timeout racing an answer nor a cancel, leaves a stale slot that would make
   every later ask raise "already has a pending suspended handler". *)
SlotOwned ==
    \A e \in Entries : entry[e].slot # Null =>
        \E th \in Threads : InSuspend(th) /\ call[th].ent = e /\ call[th].slot = entry[e].slot

(* A slot can be completed from one side only: by the one resume that detached
   it, or by whoever finds it registered under `_lock`.  _ResumeSlot itself has
   no lock (check of the Event, then store, then set): this is what makes its
   unlocked resolve and cancel safe. *)
ExclusiveCompletion ==
    \A th \in Threads : Resolving(th) =>
        /\ \A e \in Entries : entry[e].slot # call[th].slot
        /\ \A other \in Threads \ {th} :
              Resolving(other) => call[other].slot # call[th].slot

(* The slot of a handler that sleeps on an unset Event is in the entry it sleeps on,
   popped or not, or with the resume that detached it. *)
SlotWithSleeper ==
    \A th \in Threads : Waiting(th) /\ slot[call[th].slot] = Unset =>
        \/ entry[call[th].ent].slot = call[th].slot
        \/ \E other \in Threads : Resolving(other) /\ call[other].slot = call[th].slot

(* Retention has popped entry e: its task had reached a terminal state, and no task
   id leads to it any more. *)
Popped(e) == entry[e].stamped /\ \A t \in Tasks : registry[t] # e

(* The next message and shutdown find a handler that sleeps on an unset Event, in the
   slot of the entry its task id leads to, or a resume that detached the slot is about
   to resolve it.  Only retention takes a sleeper out of their reach, when it pops a
   task that was once finished; what then remains is the timeout of its wait. *)
NoOrphanWaiter ==
    \A th \in Threads : Waiting(th) /\ slot[call[th].slot] = Unset =>
        \/ \E t \in Tasks : registry[t] = call[th].ent /\ entry[registry[t]].slot = call[th].slot
        \/ \E other \in Threads : Resolving(other) /\ call[other].slot = call[th].slot
        \/ Popped(call[th].ent)

(* Where waits time out every suspension ends, be its task popped, its slot detached or
   the store shut down meanwhile: the Event is the thread's own, and the lookup in the
   finally clause goes by the entry it has and not by the task id.  Only the sweeper that
   waits for its own lock keeps a thread from the lock it needs to leave. *)
SuspensionsEnd ==
    \A th \in Threads : InSuspend(th) ~> ~InSuspend(th) \/ sweeper = "failing"

(* A slot, once its Event is set, keeps its value: the message a handler was
   woken with is neither replaced by a later one nor by shutdown's abort. *)
SlotSetOnce == [][\A s \in Slots : slot[s] # Unset => slot'[s] = slot[s]]_storeVars

(* Slots are allocated in order, and unset until they are. *)
SlotsNumbered ==
    /\ \A th \in Threads : call[th].slot <= nSlots
    /\ \A e \in Entries : entry[e].slot <= nSlots
    /\ \A s \in Slots : s > nSlots => slot[s] = Unset

(* No two suspensions share a slot. *)
SuspensionsDistinct ==
    \A a, b \in Threads : InSuspend(a) /\ InSuspend(b) /\ a # b => call[a].slot # call[b].slot

(* resolve()'s test is not stale: the Event it found unset still is when it
   stores the message, although no lock is held in between. *)
StoreFindsUnset ==
    \A th \in Threads : call[th].at = "store" => slot[call[th].slot] = Unset

(* The inductive invariant behind the slot properties: a hand-over involves one
   suspension, one resume and a slot nobody else can reach. *)
SlotInv ==
    /\ SlotsNumbered /\ SuspensionsDistinct /\ StoreFindsUnset
    /\ SlotOwned /\ ExclusiveCompletion /\ SlotWithSleeper

(* What suspension x waits for: the mail of its handler in Handoff. *)
Claimant(x) ==
    CHOOSE other \in Threads : Resolving(other) /\ call[other].slot = call[x].slot

Mail(x) ==
    IF ~Waiting(x) THEN [at |-> "awake", letter |-> NoArg]
    ELSE IF slot[call[x].slot] = Abort THEN [at |-> "aborted", letter |-> NoArg]
    ELSE IF slot[call[x].slot] # Unset
         THEN [at |-> "answered", letter |-> slot[call[x].slot]]
    ELSE IF \E other \in Threads : Resolving(other) /\ call[other].slot = call[x].slot
         THEN [at |-> "owed", letter |-> call[Claimant(x)].arg]
    ELSE [at |-> "asleep", letter |-> NoArg]

Mailbox == INSTANCE Handoff WITH
    Sleepers <- Threads, Letters <- Messages, Nothing <- NoArg,
    mail <- [x \in Threads |-> Mail(x)]

(* The store implements the hand-over Handoff specifies: although a resume takes
   three steps, two of them under no lock, and races timeouts, a second answer and
   shutdown, a handler is answered with the one message claimed for it. *)
ImplementsHandoff == Mailbox!Spec

(* What the module's header says of the idle GC: "tasks in `input-required` /
   `auth-required` past TTL transition to `failed`".  A sweep that picks an idle
   task brings it there. *)
IdleTasksFail == sweeper = "failing" ~> \E e \in Entries : entry[e].state = "failed"

(* shutdown: "Cancel any suspended handlers so they don't hang forever".  When it
   returns, a handler that sleeps on a task still registered has been woken, or
   the resume that took its slot a moment before is about to wake it. *)
ShutdownReleases ==
    [][closed = "closing" /\ closed' = "closed" =>
         \A th \in Threads : Waiting(th) /\ (\E t \in Tasks : registry[t] = call[th].ent) =>
             \/ slot'[call[th].slot] # Unset
             \/ \E other \in Threads : Resolving(other) /\ call[other].slot = call[th].slot]_storeVars
=============================================================================
