--------------------------- MODULE TaskStoreProofs ---------------------------
(***************************************************************************)
(* Proofs about TaskStore, for any number of threads, tasks and messages.  *)
(***************************************************************************)
EXTENDS TaskStore, TLAPS

-----------------------------------------------------------------------------
(* Type correctness.                                                        *)

(* The initial state is well typed. *)
LEMMA InitType == StoreInit => StoreTypeOK
  <1> SUFFICES ASSUME StoreInit PROVE StoreTypeOK
    OBVIOUS
  <1> USE DEF StoreInit
  <1>1. registry \in [Tasks -> Entries \cup {Null}]
    OBVIOUS
  <1>2. entry \in [Entries -> EntryType]
    BY DEF EntryType, NewEntry, TaskStates, TerminalStates, InterruptedStates
  <1>3. nEntries \in 0 .. MaxEntries /\ nSlots \in 0 .. MaxSlots
    BY BoundsAssumption
  <1>4. slot \in [Slots -> Messages \cup {Unset, Abort}]
    OBVIOUS
  <1>5. call \in [Threads -> CallType] /\ \A th \in Threads : CallOK(call[th])
    BY DEF CallType, NoCall, CallPoints, Args, CallOK
  <1> QED
    BY <1>1, <1>2, <1>3, <1>4, <1>5 DEF StoreTypeOK

(* A call that starts or ends keeps the type of the thread's record. *)
LEMMA CallPreserved ==
  ASSUME StoreTypeOK,
         NEW th \in Threads, NEW c \in CallType, CallOK(c),
         call' = [call EXCEPT ![th] = c]
  PROVE  call' \in [Threads -> CallType] /\ \A x \in Threads : CallOK(call'[x])
  <1>1. call' \in [Threads -> CallType]
    BY DEF StoreTypeOK
  <1>2. ASSUME NEW x \in Threads PROVE CallOK(call'[x])
    BY DEF StoreTypeOK
  <1> QED
    BY <1>1, <1>2

(* A thread outside the store. *)
LEMMA NoCallOK == NoCall \in CallType /\ CallOK(NoCall)
  BY DEF NoCall, CallType, CallPoints, Args, CallOK

(* The same for the one entry a call writes. *)
LEMMA EntryPreserved ==
  ASSUME StoreTypeOK,
         NEW e, NEW x \in EntryType,
         entry' = [entry EXCEPT ![e] = x]
  PROVE  entry' \in [Entries -> EntryType]
  BY DEF StoreTypeOK

(* The first step of every mutator. *)
LEMMA LookupType ==
  ASSUME StoreTypeOK, NEW th \in Threads, NEW t \in Tasks,
         NEW at \in {"write_state", "write_message", "write_artifact", "write_push"},
         NEW arg \in Args,
         at = "write_state" => arg \in TaskStates,
         at = "write_message" => arg \in Messages,
         at = "write_artifact" => arg \in Artifacts,
         Lookup(th, t, at, arg)
  PROVE  StoreTypeOK'
  <1>1. CASE Registered(t)
    <2>1. Calling(at, registry[t], Null, arg) \in CallType
      BY <1>1 DEF StoreTypeOK, Registered, Calling, CallType, CallPoints
    <2>2. CallOK(Calling(at, registry[t], Null, arg))
      BY <1>1 DEF StoreTypeOK, Registered, Calling, CallOK
    <2>3. call' = [call EXCEPT ![th] = Calling(at, registry[t], Null, arg)]
      BY <1>1 DEF Lookup
    <2> HIDE DEF Calling
    <2>4. call' \in [Threads -> CallType] /\ \A x \in Threads : CallOK(call'[x])
      BY <2>1, <2>2, <2>3, CallPreserved
    <2> QED
      BY <2>4 DEF Lookup, StoreTypeOK
  <1>2. CASE ~Registered(t)
    BY <1>2 DEF Lookup, StoreTypeOK
  <1> QED
    BY <1>1, <1>2

(* The write of a mutator, with the entry and the call it leaves behind. *)
LEMMA WriteType ==
  ASSUME StoreTypeOK, NEW th \in Threads, NEW at, NEW next \in CallType, CallOK(next),
         NEW x \in EntryType, WriteEntry(th, at, next, x)
  PROVE  StoreTypeOK'
  <1>1. call' \in [Threads -> CallType] /\ \A y \in Threads : CallOK(call'[y])
    BY CallPreserved DEF WriteEntry
  <1>2. entry' \in [Entries -> EntryType]
    BY EntryPreserved DEF WriteEntry
  <1> QED
    BY <1>1, <1>2 DEF WriteEntry, StoreTypeOK

(* The mutators' second steps. *)
LEMMA MutatorType ==
  ASSUME StoreTypeOK, NEW th \in Threads,
         WriteState(th) \/ WriteMessage(th) \/ WriteArtifact(th) \/ WritePush(th)
  PROVE  StoreTypeOK'
  <1> DEFINE c == call[th]
  <1>1. c \in CallType /\ CallOK(c)
    BY DEF StoreTypeOK
  <1>2. ASSUME c.at # "idle" PROVE c.ent \in Entries /\ entry[c.ent] \in EntryType
    BY <1>1, <1>2 DEF CallOK, CallType, StoreTypeOK
  <1>3. CASE WriteState(th)
    <2>1. c.at = "write_state" /\ c.arg \in TaskStates
      BY <1>1, <1>3 DEF WriteState, WriteEntry, CallOK
    <2>2. [c EXCEPT !.at = "broadcast_state"] \in CallType
      BY <1>1 DEF CallType, CallPoints
    <2>3. CallOK([c EXCEPT !.at = "broadcast_state"])
      BY <1>1, <2>1 DEF CallType, CallOK
    <2>4. WithState(c.ent, c.arg) \in EntryType
      BY <1>2, <2>1 DEF WithState, EntryType
    <2> QED
      BY <1>3, <2>2, <2>3, <2>4, WriteType DEF WriteState
  <1>4. CASE WriteMessage(th)
    <2>1. c.at = "write_message" /\ c.arg \in Messages
      BY <1>1, <1>4 DEF WriteMessage, WriteEntry, CallOK
    <2>2. [entry[c.ent] EXCEPT !.history = @ \cup {c.arg}] \in EntryType
      BY <1>2, <2>1 DEF EntryType
    <2> QED
      BY <1>4, <2>2, NoCallOK, WriteType DEF WriteMessage
  <1>5. CASE WriteArtifact(th)
    <2>1. c.at = "write_artifact" /\ c.arg \in Artifacts
      BY <1>1, <1>5 DEF WriteArtifact, WriteEntry, CallOK
    <2>2. [c EXCEPT !.at = "broadcast_artifact"] \in CallType
      BY <1>1 DEF CallType, CallPoints
    <2>3. CallOK([c EXCEPT !.at = "broadcast_artifact"])
      BY <1>1, <2>1 DEF CallType, CallOK
    <2>4. [entry[c.ent] EXCEPT !.artifacts = @ \cup {c.arg}] \in EntryType
      BY <1>2, <2>1 DEF EntryType
    <2> QED
      BY <1>5, <2>2, <2>3, <2>4, WriteType DEF WriteArtifact
  <1>6. CASE WritePush(th)
    <2>1. c.at = "write_push"
      BY <1>6 DEF WritePush, WriteEntry
    <2>2. [entry[c.ent] EXCEPT !.push = TRUE] \in EntryType
      BY <1>2, <2>1 DEF EntryType
    <2> QED
      BY <1>6, <2>2, NoCallOK, WriteType DEF WritePush
  <1> QED
    BY <1>3, <1>4, <1>5, <1>6

(* The remaining steps of a call that is under way. *)
LEMMA ContinueType ==
  ASSUME StoreTypeOK, NEW th \in Threads, Continue(th)
  PROVE  StoreTypeOK'
  <1> DEFINE c == call[th]
  <1>1. c \in CallType /\ CallOK(c)
    BY DEF StoreTypeOK
  <1>2. CASE GetEnd(th) \/ Broadcast(th)
    <2>1. call' = [call EXCEPT ![th] = NoCall]
      BY <1>2 DEF GetEnd, Broadcast
    <2>2. call' \in [Threads -> CallType] /\ \A x \in Threads : CallOK(call'[x])
      BY <2>1, NoCallOK, CallPreserved
    <2> QED
      BY <1>2, <2>2 DEF GetEnd, Broadcast, StoreTypeOK
  <1>3. CASE WriteState(th) \/ WriteMessage(th) \/ WriteArtifact(th) \/ WritePush(th)
    BY <1>3, MutatorType
  <1>4. CASE Wake(th) \/ TimeOut(th)
    <2>1. PICK a \in Messages \cup {Abort, TimedOut} :
             call' = [call EXCEPT ![th] = [c EXCEPT !.at = "finally", !.arg = a]]
      <3>1. CASE Wake(th)
        <4>1. c.slot \in Slots
          BY <1>1, <3>1 DEF Wake, CallOK, CallType
        <4>2. slot[c.slot] \in Messages \cup {Abort}
          BY <3>1, <4>1 DEF Wake, StoreTypeOK
        <4> QED
          BY <3>1, <4>2 DEF Wake
      <3>2. CASE TimeOut(th)
        BY <3>2 DEF TimeOut
      <3> QED
        BY <1>4, <3>1, <3>2
    <2>2. [c EXCEPT !.at = "finally", !.arg = a] \in CallType
      BY <1>1 DEF CallType, CallPoints, Args
    <2>3. CallOK([c EXCEPT !.at = "finally", !.arg = a])
      BY <1>1, <1>4 DEF CallType, CallOK, Wake, TimeOut
    <2>4. call' \in [Threads -> CallType] /\ \A x \in Threads : CallOK(call'[x])
      BY <2>1, <2>2, <2>3, CallPreserved
    <2> QED
      BY <1>4, <2>4 DEF Wake, TimeOut, StoreTypeOK
  <1>5. CASE Finally(th)
    <2>1. c.ent \in Entries
      BY <1>1, <1>5 DEF Finally, CallOK, CallType
    <2>2. Cleared(c.ent, c.slot) \in EntryType
      BY <2>1 DEF StoreTypeOK, Cleared, EntryType
    <2>3. entry' \in [Entries -> EntryType]
      BY <1>5, <2>2, EntryPreserved DEF Finally
    <2>4. call' \in [Threads -> CallType] /\ \A x \in Threads : CallOK(call'[x])
      BY <1>5, NoCallOK, CallPreserved DEF Finally
    <2> QED
      BY <1>5, <2>3, <2>4 DEF Finally, StoreTypeOK
  <1>6. CASE TestSlot(th)
    <2>1. [c EXCEPT !.at = "store"] \in CallType
      BY <1>1 DEF CallType, CallPoints
    <2>2. CallOK([c EXCEPT !.at = "store"])
      BY <1>1, <1>6 DEF CallType, CallOK, TestSlot
    <2>3. call' = [call EXCEPT ![th] = [c EXCEPT !.at = "store"]]
          \/ call' = [call EXCEPT ![th] = NoCall]
      BY <1>6 DEF TestSlot
    <2>4. call' \in [Threads -> CallType] /\ \A x \in Threads : CallOK(call'[x])
      BY <2>1, <2>2, <2>3, NoCallOK, CallPreserved
    <2> QED
      BY <1>6, <2>4 DEF TestSlot, StoreTypeOK
  <1>7. CASE Resolve(th)
    <2>1. c.arg \in Messages
      BY <1>1, <1>7 DEF Resolve, CallOK
    <2>2. slot' \in [Slots -> Messages \cup {Unset, Abort}]
      BY <1>7, <2>1 DEF Resolve, StoreTypeOK
    <2>3. call' \in [Threads -> CallType] /\ \A x \in Threads : CallOK(call'[x])
      BY <1>7, NoCallOK, CallPreserved DEF Resolve
    <2> QED
      BY <1>7, <2>2, <2>3 DEF Resolve, StoreTypeOK
  <1> QED
    BY <1>2, <1>3, <1>4, <1>5, <1>6, <1>7 DEF Continue

(* The first steps of the calls. *)
LEMMA BeginType ==
  ASSUME StoreTypeOK, NEW th \in Threads, NEW t \in Tasks, Begin(th, t)
  PROVE  StoreTypeOK'
  <1>1. CASE GetOrCreate(th, t)
    <2>1. nEntries' \in 0 .. MaxEntries /\ registry' \in [Tasks -> Entries \cup {Null}]
      BY <1>1, BoundsAssumption DEF GetOrCreate, StoreTypeOK, Entries
    <2> QED
      BY <1>1, <2>1 DEF GetOrCreate, StoreTypeOK
  <1>2. CASE GetBegin(th, t)
    <2> DEFINE c == Calling("copy", registry[t], Null, entry[registry[t]].state)
    <2>1. registry[t] \in Entries /\ entry[registry[t]].state \in TaskStates
      BY <1>2 DEF GetBegin, Registered, StoreTypeOK, EntryType
    <2>2. c \in CallType
      BY <2>1 DEF Calling, CallType, CallPoints, Args
    <2>3. CallOK(c)
      BY <2>1 DEF Calling, CallOK, Entries, Null
    <2>4. call' = [call EXCEPT ![th] = c]
      BY <1>2 DEF GetBegin
    <2> HIDE DEF c
    <2>5. call' \in [Threads -> CallType] /\ \A x \in Threads : CallOK(call'[x])
      BY <2>2, <2>3, <2>4, CallPreserved
    <2> QED
      BY <1>2, <2>5 DEF GetBegin, StoreTypeOK
  <1>3. ASSUME NEW state \in ClientStates, CallSetState(th, t, state) PROVE StoreTypeOK'
    BY <1>3, LookupType, StatesAssumption DEF CallSetState, Args
  <1>4. ASSUME NEW m \in Messages, CallAppendMessage(th, t, m) PROVE StoreTypeOK'
    BY <1>4, LookupType DEF CallAppendMessage, Args
  <1>5. ASSUME NEW a \in Artifacts, CallAppendArtifact(th, t, a) PROVE StoreTypeOK'
    BY <1>5, LookupType DEF CallAppendArtifact, Args
  <1>6. CASE CallSetPush(th, t)
    BY <1>6, LookupType DEF CallSetPush, Args
  <1>7. CASE Subscribe(th, t) \/ Unsubscribe(th)
    <2>1. CASE Subscribe(th, t)
      <3> DEFINE E == [entry[registry[t]] EXCEPT !.subs = @ \cup {th}]
      <3>1. CASE Registered(t)
        <4>1. registry[t] \in Entries
          BY <3>1 DEF Registered, StoreTypeOK
        <4>2. E \in EntryType
          BY <4>1 DEF StoreTypeOK, EntryType
        <4>3. entry' = [entry EXCEPT ![registry[t]] = E]
          BY <2>1, <3>1 DEF Subscribe
        <4> QED
          BY <2>1, <4>2, <4>3, EntryPreserved DEF Subscribe, StoreTypeOK
      <3>2. CASE ~Registered(t)
        BY <2>1, <3>2 DEF Subscribe, StoreTypeOK
      <3> QED
        BY <3>1, <3>2
    <2>2. CASE Unsubscribe(th)
      <3>1. ASSUME NEW e \in Entries
            PROVE  [entry[e] EXCEPT !.subs = @ \ {th}] \in EntryType
        BY DEF StoreTypeOK, EntryType
      <3>2. entry' \in [Entries -> EntryType]
        BY <2>2, <3>1 DEF Unsubscribe
      <3> QED
        BY <2>2, <3>2 DEF Unsubscribe, StoreTypeOK
    <2> QED
      BY <1>7, <2>1, <2>2
  <1>8. CASE Suspend(th, t)
    <2> DEFINE c == Calling("wait", registry[t], nSlots + 1, NoArg)
    <2>1. registry[t] \in Entries /\ nSlots + 1 \in Slots
      BY <1>8, BoundsAssumption
         DEF Suspend, SuspendRefused, Registered, StoreTypeOK, Slots
    <2>2. c \in CallType
      BY <2>1 DEF Calling, CallType, CallPoints, Args
    <2>3. CallOK(c)
      BY <2>1 DEF Calling, CallOK, Entries, Slots, Null
    <2>4. call' = [call EXCEPT ![th] = c]
      BY <1>8 DEF Suspend
    <2> HIDE DEF c
    <2>5. call' \in [Threads -> CallType] /\ \A x \in Threads : CallOK(call'[x])
      BY <2>2, <2>3, <2>4, CallPreserved
    <2>6. entry' \in [Entries -> EntryType]
      BY <1>8, <2>1 DEF Suspend, StoreTypeOK, EntryType
    <2>7. nSlots' \in 0 .. MaxSlots
      BY <1>8, BoundsAssumption DEF Suspend, StoreTypeOK
    <2> QED
      BY <1>8, <2>5, <2>6, <2>7 DEF Suspend, StoreTypeOK
  <1>9. ASSUME NEW m \in Messages, CallResume(th, t, m) PROVE StoreTypeOK'
    <2> DEFINE c == Calling("resolve", registry[t], entry[registry[t]].slot, m)
    <2>1. registry[t] \in Entries /\ entry[registry[t]].slot \in Slots
      BY <1>9 DEF CallResume, Suspended, Registered, StoreTypeOK, EntryType
    <2>2. c \in CallType
      BY <2>1 DEF Calling, CallType, CallPoints, Args
    <2>3. CallOK(c)
      BY <2>1 DEF Calling, CallOK, Entries, Slots, Null
    <2>4. call' = [call EXCEPT ![th] = c]
      BY <1>9 DEF CallResume
    <2> HIDE DEF c
    <2>5. call' \in [Threads -> CallType] /\ \A x \in Threads : CallOK(call'[x])
      BY <2>2, <2>3, <2>4, CallPreserved
    <2>6. entry' \in [Entries -> EntryType]
      BY <1>9, <2>1 DEF CallResume, Detached, StoreTypeOK, EntryType
    <2> QED
      BY <1>9, <2>5, <2>6 DEF CallResume, StoreTypeOK
  <1> QED
    BY <1>1, <1>2, <1>3, <1>4, <1>5, <1>6, <1>7, <1>8, <1>9 DEF Begin

(* The sweeper and shutdown. *)
LEMMA EnvironmentType ==
  ASSUME StoreTypeOK, SweeperStep \/ ShutdownStep
  PROVE  StoreTypeOK'
  <1>1. CASE SweeperStep
    BY <1>1 DEF SweeperStep, StartSweeper, SweepDue, SweepStop, Sweep, SweepIdle, Pop, StoreTypeOK
  <1>2. CASE ShutdownStep
    BY <1>2 DEF ShutdownStep, ShutdownBegin, ShutdownCancel, StoreTypeOK
  <1> QED
    BY <1>1, <1>2

(* The store never holds a value it cannot hold, and every call under way has
   the entry, slot and argument of its next step, whatever the threads do. *)
THEOREM TypeCorrect == StoreSpec => []StoreTypeOK
  <1>1. StoreInit => StoreTypeOK
    BY InitType
  <1>2. StoreTypeOK /\ [StoreNext]_storeVars => StoreTypeOK'
    <2> SUFFICES ASSUME StoreTypeOK, [StoreNext]_storeVars PROVE StoreTypeOK'
      OBVIOUS
    <2>1. ASSUME NEW th \in Threads, Continue(th) PROVE StoreTypeOK'
      BY <2>1, ContinueType
    <2>2. ASSUME NEW th \in Threads, NEW t \in Tasks, Begin(th, t) PROVE StoreTypeOK'
      BY <2>2, BeginType
    <2>3. CASE SweeperStep \/ ShutdownStep
      BY <2>3, EnvironmentType
    <2>4. CASE UNCHANGED storeVars
      BY <2>4 DEF storeVars, StoreTypeOK
    <2> QED
      BY <2>1, <2>2, <2>3, <2>4 DEF StoreNext
  <1> QED
    BY <1>1, <1>2, PTL DEF StoreSpec

-----------------------------------------------------------------------------
(* The slots: who holds one, and who may complete it.                       *)

SlotPoints == {"wait", "finally", "resolve", "store"}

(* A thread that waits, or that resolves, does so on an entry and on a slot. *)
LEMMA WaitingThread ==
  ASSUME StoreTypeOK, NEW th \in Threads, call[th].at \in SlotPoints
  PROVE  call[th].ent \in Entries /\ call[th].slot \in Slots
  BY DEF StoreTypeOK, CallType, CallOK, SlotPoints

(* Initially there are no slots. *)
LEMMA InitSlots == StoreInit => SlotInv
  <1> SUFFICES ASSUME StoreInit PROVE SlotInv
    OBVIOUS
  <1>1. /\ \A th \in Threads : call[th] = NoCall
        /\ \A e \in Entries : entry[e].slot = Null
        /\ \A s \in Slots : slot[s] = Unset
        /\ nSlots = 0
    BY DEF StoreInit, NewEntry
  <1>2. NoCall.at = "idle" /\ NoCall.slot = 0
    BY DEF NoCall, Null
  <1>3. SlotsNumbered
    BY <1>1, <1>2 DEF SlotsNumbered, Null
  <1>4. SuspensionsDistinct /\ StoreFindsUnset /\ SlotOwned /\ ExclusiveCompletion /\ SlotWithSleeper
    BY <1>1, <1>2 DEF SuspensionsDistinct, StoreFindsUnset, SlotOwned, ExclusiveCompletion,
                      SlotWithSleeper, InSuspend, Resolving, Waiting
  <1> QED
    BY <1>3, <1>4 DEF SlotInv

(* A step of one thread outside suspend and resume that leaves every slot and
   every resume_slot alone. *)
LEMMA SlotFrame ==
  ASSUME StoreTypeOK, SlotInv, NEW th \in Threads,
         nSlots' = nSlots, slot' = slot,
         \A e \in Entries : entry'[e].slot = entry[e].slot,
         \A x \in Threads \ {th} : call'[x] = call[x],
         call'[th].slot <= nSlots,
         call[th].at \notin SlotPoints, call'[th].at \notin SlotPoints
  PROVE  SlotInv'
  <1> USE DEF SlotPoints
  <1>1. \A x \in Threads : (InSuspend(x)' <=> InSuspend(x)) /\ (Waiting(x)' <=> Waiting(x))
                           /\ (Resolving(x)' <=> Resolving(x))
    BY DEF InSuspend, Waiting, Resolving
  <1>2. \A x \in Threads : InSuspend(x) \/ Waiting(x) \/ Resolving(x) => call'[x] = call[x]
    BY DEF InSuspend, Waiting, Resolving
  <1>3. SlotsNumbered'
    BY DEF SlotInv, SlotsNumbered
  <1>4. SuspensionsDistinct'
    BY <1>1, <1>2 DEF SlotInv, SuspensionsDistinct
  <1>5. StoreFindsUnset'
    BY DEF SlotInv, StoreFindsUnset
  <1>6. SlotOwned'
    BY <1>1, <1>2 DEF SlotInv, SlotOwned
  <1>7. ExclusiveCompletion'
    BY <1>1, <1>2 DEF SlotInv, ExclusiveCompletion
  <1>8. SlotWithSleeper'
    <2>1. \A x \in Threads : Waiting(x) => call[x].ent \in Entries
      BY WaitingThread DEF Waiting
    <2> QED
      BY <1>1, <1>2, <2>1 DEF SlotInv, SlotWithSleeper
  <1> QED
    BY <1>3, <1>4, <1>5, <1>6, <1>7, <1>8 DEF SlotInv

(* The calls that neither suspend nor resume. *)
LEMMA PlainSlots ==
  ASSUME StoreTypeOK, SlotInv, NEW th \in Threads, NEW t,
         \/ GetOrCreate(th, t) \/ GetBegin(th, t) \/ GetEnd(th)
         \/ Subscribe(th, t) \/ Unsubscribe(th)
         \/ \E state \in ClientStates : CallSetState(th, t, state)
         \/ \E m \in Messages : CallAppendMessage(th, t, m)
         \/ \E a \in Artifacts : CallAppendArtifact(th, t, a)
         \/ CallSetPush(th, t)
         \/ WriteState(th) \/ WriteMessage(th) \/ WriteArtifact(th) \/ WritePush(th)
         \/ Broadcast(th)
  PROVE  SlotInv'
  <1> USE DEF SlotPoints
  <1>1. call[th].slot <= nSlots /\ 0 <= nSlots
    BY BoundsAssumption DEF SlotInv, SlotsNumbered, StoreTypeOK
  <1>2. CASE GetOrCreate(th, t)
    BY <1>1, <1>2, SlotFrame DEF GetOrCreate, Idle
  <1>3. CASE GetBegin(th, t) \/ GetEnd(th)
    BY <1>1, <1>3, SlotFrame DEF GetBegin, GetEnd, Idle, Calling, NoCall, Null, StoreTypeOK
  <1>4. CASE Subscribe(th, t) \/ Unsubscribe(th)
    <2>1. \A e \in Entries : entry'[e].slot = entry[e].slot
      BY <1>4 DEF Subscribe, Unsubscribe, StoreTypeOK, EntryType
    <2> QED
      BY <1>1, <1>4, <2>1, SlotFrame DEF Subscribe, Unsubscribe, Idle
  <1>5. ASSUME NEW at \in {"write_state", "write_message", "write_artifact", "write_push"},
               NEW arg, Lookup(th, t, at, arg)
        PROVE  SlotInv'
    BY <1>1, <1>5, SlotFrame DEF Lookup, Idle, Calling, Null, StoreTypeOK
  <1>6. ASSUME NEW at \in {"write_state", "write_message", "write_artifact", "write_push"},
               NEW next, NEW e, WriteEntry(th, at, next, e),
               next.at \notin SlotPoints, next.slot \in {call[th].slot, 0},
               e.slot = entry[call[th].ent].slot
        PROVE  SlotInv'
    <2>1. \A x \in Entries : entry'[x].slot = entry[x].slot
      BY <1>6 DEF WriteEntry, StoreTypeOK
    <2> QED
      BY <1>1, <1>6, <2>1, SlotFrame DEF WriteEntry, StoreTypeOK
  <1>7. CASE WriteState(th) \/ WriteMessage(th) \/ WriteArtifact(th) \/ WritePush(th)
    <2>1. call[th] \in CallType /\ entry[call[th].ent] \in EntryType
      BY <1>7 DEF WriteState, WriteMessage, WriteArtifact, WritePush, WriteEntry,
                  StoreTypeOK, CallOK, CallType
    <2>2. CASE WriteState(th)
      <3> DEFINE next == [call[th] EXCEPT !.at = "broadcast_state"]
                 e == WithState(call[th].ent, call[th].arg)
      <3>1. next.at \notin SlotPoints /\ next.slot \in {call[th].slot, 0}
        BY <2>1 DEF CallType, NoCall, Null
      <3>2. e.slot = entry[call[th].ent].slot
        BY <2>1 DEF EntryType, WithState
      <3>3. WriteEntry(th, "write_state", next, e)
        BY <2>2 DEF WriteState
      <3> HIDE DEF next, e
      <3> QED
        BY <1>6, <3>1, <3>2, <3>3
    <2>3. CASE WriteMessage(th)
      <3> DEFINE next == NoCall
                 e == [entry[call[th].ent] EXCEPT !.history = @ \cup {call[th].arg}]
      <3>1. next.at \notin SlotPoints /\ next.slot \in {call[th].slot, 0}
        BY <2>1 DEF CallType, NoCall, Null
      <3>2. e.slot = entry[call[th].ent].slot
        BY <2>1 DEF EntryType
      <3>3. WriteEntry(th, "write_message", next, e)
        BY <2>3 DEF WriteMessage
      <3> HIDE DEF next, e
      <3> QED
        BY <1>6, <3>1, <3>2, <3>3
    <2>4. CASE WriteArtifact(th)
      <3> DEFINE next == [call[th] EXCEPT !.at = "broadcast_artifact"]
                 e == [entry[call[th].ent] EXCEPT !.artifacts = @ \cup {call[th].arg}]
      <3>1. next.at \notin SlotPoints /\ next.slot \in {call[th].slot, 0}
        BY <2>1 DEF CallType, NoCall, Null
      <3>2. e.slot = entry[call[th].ent].slot
        BY <2>1 DEF EntryType
      <3>3. WriteEntry(th, "write_artifact", next, e)
        BY <2>4 DEF WriteArtifact
      <3> HIDE DEF next, e
      <3> QED
        BY <1>6, <3>1, <3>2, <3>3
    <2>5. CASE WritePush(th)
      <3> DEFINE next == NoCall
                 e == [entry[call[th].ent] EXCEPT !.push = TRUE]
      <3>1. next.at \notin SlotPoints /\ next.slot \in {call[th].slot, 0}
        BY <2>1 DEF CallType, NoCall, Null
      <3>2. e.slot = entry[call[th].ent].slot
        BY <2>1 DEF EntryType
      <3>3. WriteEntry(th, "write_push", next, e)
        BY <2>5 DEF WritePush
      <3> HIDE DEF next, e
      <3> QED
        BY <1>6, <3>1, <3>2, <3>3
    <2> QED
      BY <1>7, <2>2, <2>3, <2>4, <2>5
  <1>8. CASE Broadcast(th)
    BY <1>1, <1>8, SlotFrame DEF Broadcast, NoCall, Null, StoreTypeOK
  <1> QED
    BY <1>2, <1>3, <1>4, <1>5, <1>7, <1>8
       DEF CallSetState, CallAppendMessage, CallAppendArtifact, CallSetPush

(* Entering a suspension: the new slot is one no thread and no entry has. *)
LEMMA SuspendSlots ==
  ASSUME StoreTypeOK, SlotInv, NEW th \in Threads, NEW t \in Tasks, Suspend(th, t)
  PROVE  SlotInv'
  <1> DEFINE e0 == registry[t]
             s0 == nSlots + 1
  <1>1. /\ e0 \in Entries /\ entry[e0].slot = Null
        /\ s0 \in Slots /\ slot[s0] = Unset /\ nSlots \in Nat
    BY BoundsAssumption DEF Suspend, SuspendRefused, Registered, StoreTypeOK, Slots,
                            SlotInv, SlotsNumbered
  <1>2. /\ nSlots' = s0 /\ slot' = slot
        /\ \A x \in Threads \ {th} : call'[x] = call[x]
        /\ call'[th].at = "wait" /\ call'[th].ent = e0 /\ call'[th].slot = s0
        /\ call[th].at = "idle"
    BY DEF Suspend, Calling, Idle, StoreTypeOK
  <1>3. /\ entry'[e0].slot = s0
        /\ \A e \in Entries \ {e0} : entry'[e].slot = entry[e].slot
    BY <1>1 DEF Suspend, StoreTypeOK, EntryType
  <1>4. /\ \A x \in Threads : call[x].slot <= nSlots /\ call[x].slot \in Nat
        /\ \A e \in Entries : entry[e].slot <= nSlots /\ entry[e].slot \in Nat
    BY DEF SlotInv, SlotsNumbered, StoreTypeOK, CallType, EntryType, Slots, Null
  <1>5. /\ \A x \in Threads : call[x].slot # s0
        /\ \A e \in Entries : entry[e].slot # s0
    BY <1>1, <1>4
  <1> HIDE DEF e0, s0
  <1> USE DEF InSuspend, Waiting, Resolving
  <1>6. SlotsNumbered'
    BY <1>1, <1>2, <1>3, <1>4 DEF SlotInv, SlotsNumbered, s0, Slots
  <1>7. SuspensionsDistinct'
    BY <1>2, <1>5 DEF SlotInv, SuspensionsDistinct
  <1>8. StoreFindsUnset'
    BY <1>2 DEF SlotInv, StoreFindsUnset
  <1>9. SlotOwned'
    BY <1>1, <1>2, <1>3 DEF SlotInv, SlotOwned
  <1>10. ExclusiveCompletion'
    BY <1>1, <1>2, <1>3, <1>5 DEF SlotInv, ExclusiveCompletion
  <1>11. SlotWithSleeper'
    <2> SUFFICES ASSUME NEW w \in Threads, call'[w].at = "wait", slot'[call'[w].slot] = Unset
                 PROVE  \/ entry'[call'[w].ent].slot = call'[w].slot
                        \/ \E o \in Threads : Resolving(o)' /\ call'[o].slot = call'[w].slot
      BY DEF SlotWithSleeper
    <2>1. CASE w = th
      BY <1>2, <1>3, <2>1
    <2>2. CASE w # th
      <3>1. call[w].ent \in Entries /\ call[w].slot # Null
        BY <1>2, <2>2, WaitingThread DEF SlotPoints, Slots, Null
      <3> QED
        BY <1>1, <1>2, <1>3, <2>2, <3>1 DEF SlotInv, SlotWithSleeper
    <2> QED
      BY <2>1, <2>2
  <1> QED
    BY <1>6, <1>7, <1>8, <1>9, <1>10, <1>11 DEF SlotInv

(* wait() returning, with a value or for its timeout: the thread keeps its slot. *)
LEMMA WakeSlots ==
  ASSUME StoreTypeOK, SlotInv, NEW th \in Threads, Wake(th) \/ TimeOut(th)
  PROVE  SlotInv'
  <1>1. /\ nSlots' = nSlots /\ slot' = slot /\ entry' = entry
        /\ \A x \in Threads \ {th} : call'[x] = call[x]
        /\ call[th].at = "wait" /\ call'[th].at = "finally"
        /\ call'[th].ent = call[th].ent /\ call'[th].slot = call[th].slot
    BY DEF Wake, TimeOut, StoreTypeOK, CallType
  <1> USE <1>1 DEF InSuspend, Waiting, Resolving
  <1>2. SlotsNumbered'
    BY DEF SlotInv, SlotsNumbered
  <1>3. SuspensionsDistinct'
    BY DEF SlotInv, SuspensionsDistinct
  <1>4. StoreFindsUnset'
    BY DEF SlotInv, StoreFindsUnset
  <1>5. SlotOwned'
    BY DEF SlotInv, SlotOwned
  <1>6. ExclusiveCompletion'
    BY DEF SlotInv, ExclusiveCompletion
  <1>7. SlotWithSleeper'
    BY DEF SlotInv, SlotWithSleeper
  <1> QED
    BY <1>2, <1>3, <1>4, <1>5, <1>6, <1>7 DEF SlotInv

(* The finally clause: the slot it clears is its own, and nobody else's. *)
LEMMA FinallySlots ==
  ASSUME StoreTypeOK, SlotInv, NEW th \in Threads, Finally(th)
  PROVE  SlotInv'
  <1> DEFINE e0 == call[th].ent
             s0 == call[th].slot
  <1>1. e0 \in Entries /\ s0 \in Slots /\ call[th].at = "finally"
    BY WaitingThread DEF Finally, SlotPoints
  <1>2. /\ nSlots' = nSlots /\ slot' = slot
        /\ \A x \in Threads \ {th} : call'[x] = call[x]
        /\ call'[th].at = "idle" /\ call'[th].slot = 0
    BY DEF Finally, NoCall, Null, StoreTypeOK
  <1>3. /\ entry'[e0].slot = IF entry[e0].slot = s0 THEN Null ELSE entry[e0].slot
        /\ \A e \in Entries \ {e0} : entry'[e].slot = entry[e].slot
    BY <1>1 DEF Finally, Cleared, StoreTypeOK, EntryType
  <1> HIDE DEF e0, s0
  <1> USE DEF InSuspend, Waiting, Resolving
  <1>4. SlotsNumbered'
    BY <1>1, <1>2, <1>3, BoundsAssumption DEF SlotInv, SlotsNumbered, StoreTypeOK, Null
  <1>5. SuspensionsDistinct'
    BY <1>2 DEF SlotInv, SuspensionsDistinct
  <1>6. StoreFindsUnset'
    BY <1>2 DEF SlotInv, StoreFindsUnset
  <1>7. SlotOwned'
    <2> SUFFICES ASSUME NEW e \in Entries, entry'[e].slot # Null
                 PROVE  \E w \in Threads : /\ InSuspend(w)' /\ call'[w].ent = e
                                           /\ call'[w].slot = entry'[e].slot
      BY DEF SlotOwned
    <2>1. entry'[e].slot = entry[e].slot
      BY <1>3
    <2>2. PICK w \in Threads : InSuspend(w) /\ call[w].ent = e /\ call[w].slot = entry[e].slot
      BY <2>1 DEF SlotInv, SlotOwned
    <2>3. w # th
      BY <1>3, <2>1, <2>2 DEF e0, s0
    <2> QED
      BY <1>2, <2>1, <2>2, <2>3
  <1>8. ExclusiveCompletion'
    <2>1. \A x \in Threads : Resolving(x)' => x # th /\ Resolving(x) /\ call'[x] = call[x]
      BY <1>2
    <2>2. \A x \in Threads : Resolving(x) => call[x].slot # Null
      BY WaitingThread DEF SlotPoints, Slots, Null
    <2> QED
      BY <1>3, <2>1, <2>2 DEF SlotInv, ExclusiveCompletion
  <1>9. SlotWithSleeper'
    <2> SUFFICES ASSUME NEW w \in Threads, call'[w].at = "wait", slot'[call'[w].slot] = Unset
                 PROVE  \/ entry'[call'[w].ent].slot = call'[w].slot
                        \/ \E o \in Threads : Resolving(o)' /\ call'[o].slot = call'[w].slot
      BY DEF SlotWithSleeper
    <2>1. w # th /\ call'[w] = call[w] /\ call[w].slot # s0 /\ call[w].ent \in Entries
      BY <1>1, <1>2, WaitingThread DEF SlotInv, SuspensionsDistinct, s0, SlotPoints
    <2>2. CASE entry[call[w].ent].slot = call[w].slot
      BY <1>3, <2>1, <2>2
    <2>3. CASE \E o \in Threads : Resolving(o) /\ call[o].slot = call[w].slot
      BY <1>1, <1>2, <2>1, <2>3
    <2> QED
      BY <1>2, <2>1, <2>2, <2>3 DEF SlotInv, SlotWithSleeper
  <1> QED
    BY <1>4, <1>5, <1>6, <1>7, <1>8, <1>9 DEF SlotInv

(* A resume detaches the slot of the one suspension that owns it. *)
LEMMA ResumeSlots ==
  ASSUME StoreTypeOK, SlotInv, NEW th \in Threads, NEW t \in Tasks, NEW m \in Messages,
         CallResume(th, t, m)
  PROVE  SlotInv'
  <1> DEFINE e0 == registry[t]
             s0 == entry[e0].slot
  <1>1. e0 \in Entries /\ s0 \in Slots /\ s0 # Null /\ call[th].at = "idle"
    BY DEF CallResume, Suspended, Registered, Idle, StoreTypeOK, EntryType
  <1>2. /\ nSlots' = nSlots /\ slot' = slot
        /\ \A x \in Threads \ {th} : call'[x] = call[x]
        /\ call'[th].at = "resolve" /\ call'[th].slot = s0
    BY DEF CallResume, Calling, StoreTypeOK
  <1>3. /\ entry'[e0].slot = Null
        /\ \A e \in Entries \ {e0} : entry'[e].slot = entry[e].slot
    BY <1>1 DEF CallResume, Detached, StoreTypeOK, EntryType
  <1>4. s0 <= nSlots /\ 0 <= nSlots
    BY <1>1, BoundsAssumption DEF SlotInv, SlotsNumbered, StoreTypeOK
  <1>5. \A e \in Entries \ {e0} : entry[e].slot # s0
    <2> SUFFICES ASSUME NEW e \in Entries, entry[e].slot = s0 PROVE e = e0
      OBVIOUS
    <2>1. PICK a \in Threads : InSuspend(a) /\ call[a].ent = e /\ call[a].slot = s0
      BY <1>1 DEF SlotInv, SlotOwned
    <2>2. PICK b \in Threads : InSuspend(b) /\ call[b].ent = e0 /\ call[b].slot = s0
      BY <1>1 DEF SlotInv, SlotOwned
    <2> QED
      BY <2>1, <2>2 DEF SlotInv, SuspensionsDistinct
  <1>6. \A x \in Threads : Resolving(x) => call[x].slot # s0
    BY <1>1 DEF SlotInv, ExclusiveCompletion
  <1> HIDE DEF e0, s0
  <1> USE DEF InSuspend, Waiting, Resolving
  <1>7. SlotsNumbered'
    BY <1>2, <1>3, <1>4 DEF SlotInv, SlotsNumbered, Null
  <1>8. SuspensionsDistinct'
    BY <1>2 DEF SlotInv, SuspensionsDistinct
  <1>9. StoreFindsUnset'
    BY <1>2 DEF SlotInv, StoreFindsUnset
  <1>10. SlotOwned'
    BY <1>1, <1>2, <1>3 DEF SlotInv, SlotOwned
  <1>11. ExclusiveCompletion'
    <2> SUFFICES ASSUME NEW x \in Threads, Resolving(x)'
                 PROVE  /\ \A e \in Entries : entry'[e].slot # call'[x].slot
                        /\ \A o \in Threads \ {x} : Resolving(o)' => call'[o].slot # call'[x].slot
      BY DEF ExclusiveCompletion
    <2>1. CASE x = th
      BY <1>1, <1>2, <1>3, <1>5, <1>6, <2>1
    <2>2. CASE x # th
      <3>1. call[x].slot # Null
        BY <1>2, <2>2, WaitingThread DEF SlotPoints, Slots, Null
      <3> QED
        BY <1>2, <1>3, <1>6, <2>2, <3>1 DEF SlotInv, ExclusiveCompletion
    <2> QED
      BY <2>1, <2>2
  <1>12. SlotWithSleeper'
    <2> SUFFICES ASSUME NEW w \in Threads, call'[w].at = "wait", slot'[call'[w].slot] = Unset
                 PROVE  \/ entry'[call'[w].ent].slot = call'[w].slot
                        \/ \E o \in Threads : Resolving(o)' /\ call'[o].slot = call'[w].slot
      BY DEF SlotWithSleeper
    <2>1. w # th /\ call'[w] = call[w] /\ call[w].ent \in Entries
      BY <1>2, WaitingThread DEF SlotPoints
    <2>2. CASE entry[call[w].ent].slot = call[w].slot
      <3>1. CASE call[w].ent = e0
        BY <1>2, <2>1, <2>2, <3>1 DEF s0
      <3>2. CASE call[w].ent # e0
        BY <1>3, <2>1, <2>2, <3>2
      <3> QED
        BY <3>1, <3>2
    <2>3. CASE \E o \in Threads : Resolving(o) /\ call[o].slot = call[w].slot
      BY <1>1, <1>2, <2>1, <2>3
    <2> QED
      BY <1>2, <2>1, <2>2, <2>3 DEF SlotInv, SlotWithSleeper
  <1> QED
    BY <1>7, <1>8, <1>9, <1>10, <1>11, <1>12 DEF SlotInv

(* The test of the Event, which either ends the resume or finds it unset. *)
LEMMA TestSlots ==
  ASSUME StoreTypeOK, SlotInv, NEW th \in Threads, TestSlot(th)
  PROVE  SlotInv'
  <1>1. /\ nSlots' = nSlots /\ slot' = slot /\ entry' = entry
        /\ \A x \in Threads \ {th} : call'[x] = call[x]
        /\ call[th].at = "resolve"
        /\ IF slot[call[th].slot] = Unset
           THEN call'[th].at = "store" /\ call'[th].slot = call[th].slot
           ELSE call'[th].at = "idle" /\ call'[th].slot = 0
    BY DEF TestSlot, NoCall, Null, StoreTypeOK, CallType
  <1> USE <1>1 DEF InSuspend, Waiting, Resolving
  <1>2. SlotsNumbered'
    BY BoundsAssumption DEF SlotInv, SlotsNumbered, StoreTypeOK
  <1>3. SuspensionsDistinct'
    BY DEF SlotInv, SuspensionsDistinct
  <1>4. StoreFindsUnset'
    BY DEF SlotInv, StoreFindsUnset
  <1>5. SlotOwned'
    BY DEF SlotInv, SlotOwned
  <1>6. ExclusiveCompletion'
    BY DEF SlotInv, ExclusiveCompletion
  <1>7. SlotWithSleeper'
    BY DEF SlotInv, SlotWithSleeper
  <1> QED
    BY <1>2, <1>3, <1>4, <1>5, <1>6, <1>7 DEF SlotInv

(* The message is stored and the Event set: only this resume could do it. *)
LEMMA ResolveSlots ==
  ASSUME StoreTypeOK, SlotInv, NEW th \in Threads, Resolve(th)
  PROVE  SlotInv'
  <1> DEFINE s0 == call[th].slot
  <1>1. /\ s0 \in Slots /\ call[th].at = "store" /\ call[th].arg \in Messages
    BY WaitingThread DEF Resolve, SlotPoints, StoreTypeOK, CallOK
  <1>2. /\ nSlots' = nSlots /\ entry' = entry
        /\ \A x \in Threads \ {th} : call'[x] = call[x]
        /\ call'[th].at = "idle" /\ call'[th].slot = 0
        /\ slot'[s0] # Unset
        /\ \A s \in Slots \ {s0} : slot'[s] = slot[s]
    BY <1>1, MessagesAssumption DEF Resolve, NoCall, Null, StoreTypeOK
  <1>3. s0 <= nSlots /\ 0 <= nSlots
    BY BoundsAssumption DEF SlotInv, SlotsNumbered, StoreTypeOK
  <1>4. \A x \in Threads \ {th} : Resolving(x) => call[x].slot # s0 /\ call[x].slot \in Slots
    BY <1>1, WaitingThread DEF SlotInv, ExclusiveCompletion, Resolving, SlotPoints
  <1> HIDE DEF s0
  <1> USE <1>2 DEF InSuspend, Waiting, Resolving
  <1>5. SlotsNumbered'
    <2>1. \A s \in Slots : s > nSlots => s # s0
      BY <1>1, <1>3, BoundsAssumption DEF Slots, StoreTypeOK
    <2> QED
      BY <1>3, <2>1 DEF SlotInv, SlotsNumbered
  <1>6. SuspensionsDistinct'
    BY <1>1 DEF SlotInv, SuspensionsDistinct
  <1>7. StoreFindsUnset'
    BY <1>4 DEF SlotInv, StoreFindsUnset
  <1>8. SlotOwned'
    BY <1>1 DEF SlotInv, SlotOwned
  <1>9. ExclusiveCompletion'
    BY DEF SlotInv, ExclusiveCompletion
  <1>10. SlotWithSleeper'
    <2> SUFFICES ASSUME NEW w \in Threads, call'[w].at = "wait", slot'[call'[w].slot] = Unset
                 PROVE  \/ entry'[call'[w].ent].slot = call'[w].slot
                        \/ \E o \in Threads : Resolving(o)' /\ call'[o].slot = call'[w].slot
      BY DEF SlotWithSleeper
    <2>1. w # th /\ call'[w] = call[w] /\ call[w].slot \in Slots /\ call[w].slot # s0
      BY <1>1, WaitingThread DEF SlotPoints
    <2>2. slot[call[w].slot] = Unset
      BY <2>1
    <2> QED
      BY <1>1, <2>1, <2>2 DEF SlotInv, SlotWithSleeper, s0
  <1> QED
    BY <1>5, <1>6, <1>7, <1>8, <1>9, <1>10 DEF SlotInv

(* Shutdown aborts registered slots, which no resume is about to write. *)
LEMMA ShutdownSlots ==
  ASSUME StoreTypeOK, SlotInv, ShutdownCancel
  PROVE  SlotInv'
  <1>1. nSlots' = nSlots /\ entry' = entry /\ call' = call
    BY DEF ShutdownCancel
  <1>2. \A s \in Slots : slot'[s] # slot[s] => s \in PendingSlots /\ slot[s] = Unset
    BY DEF ShutdownCancel, StoreTypeOK
  <1>3. \A s \in PendingSlots : s # Null /\ \E e \in Entries : s = entry[e].slot
    BY DEF PendingSlots, Suspended, Registered, StoreTypeOK
  <1>4. \A s \in Slots : slot[s] # Unset => slot'[s] = slot[s]
    BY <1>2
  <1>5. \A x \in Threads : Resolving(x) => slot'[call[x].slot] = slot[call[x].slot]
    BY <1>2, <1>3, WaitingThread DEF SlotInv, ExclusiveCompletion, Resolving, SlotPoints
  <1> USE <1>1 DEF InSuspend, Waiting, Resolving
  <1>6. SlotsNumbered'
    <2> SUFFICES ASSUME NEW s \in Slots, s > nSlots PROVE slot'[s] = Unset
      BY DEF SlotInv, SlotsNumbered
    <2>1. s \notin PendingSlots
      BY <1>3, BoundsAssumption DEF SlotInv, SlotsNumbered, Slots, StoreTypeOK, EntryType
    <2> QED
      BY <1>2, <2>1 DEF SlotInv, SlotsNumbered
  <1>7. SuspensionsDistinct' /\ SlotOwned' /\ ExclusiveCompletion'
    BY DEF SlotInv, SuspensionsDistinct, SlotOwned, ExclusiveCompletion
  <1>8. StoreFindsUnset'
    BY <1>5 DEF SlotInv, StoreFindsUnset
  <1>9. SlotWithSleeper'
    BY <1>4, WaitingThread DEF SlotInv, SlotWithSleeper, SlotPoints
  <1> QED
    BY <1>6, <1>7, <1>8, <1>9 DEF SlotInv

(* Everything else leaves the slots and the calls alone. *)
LEMMA UnchangedSlots ==
  ASSUME SlotInv, UNCHANGED <<entry, slot, nSlots, call>>
  PROVE  SlotInv'
  BY DEF SlotInv, SlotsNumbered, SuspensionsDistinct, StoreFindsUnset, SlotOwned,
         ExclusiveCompletion, SlotWithSleeper, InSuspend, Waiting, Resolving

(* A step changes a slot's value only while its Event is unset. *)
LEMMA SlotWrites ==
  ASSUME StoreTypeOK, SlotInv, [StoreNext]_storeVars
  PROVE  \A s \in Slots : slot[s] # Unset => slot'[s] = slot[s]
  <1>1. ASSUME NEW th \in Threads, Resolve(th)
        PROVE  \A s \in Slots : slot[s] # Unset => slot'[s] = slot[s]
    BY <1>1 DEF Resolve, SlotInv, StoreFindsUnset, StoreTypeOK
  <1>2. ASSUME ShutdownCancel
        PROVE  \A s \in Slots : slot[s] # Unset => slot'[s] = slot[s]
    BY <1>2 DEF ShutdownCancel, StoreTypeOK
  <1>3. ASSUME NEW th \in Threads, Continue(th), ~Resolve(th) PROVE slot' = slot
    BY <1>3 DEF Continue, GetEnd, WriteState, WriteMessage, WriteArtifact, WritePush, WriteEntry,
                Broadcast, Wake, TimeOut, Finally, TestSlot
  <1>4. ASSUME NEW th \in Threads, NEW t \in Tasks, Begin(th, t) PROVE slot' = slot
    BY <1>4 DEF Begin, GetOrCreate, GetBegin, CallSetState, CallAppendMessage, CallAppendArtifact,
                CallSetPush, Lookup, Subscribe, Unsubscribe, Suspend, CallResume
  <1>5. CASE SweeperStep \/ ShutdownBegin \/ UNCHANGED storeVars
    BY <1>5 DEF SweeperStep, StartSweeper, SweepDue, SweepStop, Sweep, SweepIdle, ShutdownBegin,
                storeVars
  <1> QED
    BY <1>1, <1>2, <1>3, <1>4, <1>5 DEF StoreNext, ShutdownStep

(* SlotInv is inductive, given that the state is well typed. *)
LEMMA SlotStep ==
  ASSUME StoreTypeOK, SlotInv, [StoreNext]_storeVars
  PROVE  SlotInv'
  <1>1. ASSUME NEW th \in Threads, Continue(th) PROVE SlotInv'
    <2>1. CASE Wake(th) \/ TimeOut(th)
      BY <2>1, WakeSlots
    <2>2. CASE Finally(th)
      BY <2>2, FinallySlots
    <2>3. CASE TestSlot(th)
      BY <2>3, TestSlots
    <2>4. CASE Resolve(th)
      BY <2>4, ResolveSlots
    <2>5. CASE GetEnd(th) \/ WriteState(th) \/ WriteMessage(th) \/ WriteArtifact(th)
               \/ WritePush(th) \/ Broadcast(th)
      BY <2>5, PlainSlots
    <2> QED
      BY <1>1, <2>1, <2>2, <2>3, <2>4, <2>5 DEF Continue
  <1>2. ASSUME NEW th \in Threads, NEW t \in Tasks, Begin(th, t) PROVE SlotInv'
    <2>1. CASE Suspend(th, t)
      BY <2>1, SuspendSlots
    <2>2. CASE \E m \in Messages : CallResume(th, t, m)
      BY <2>2, ResumeSlots
    <2> QED
      BY <1>2, <2>1, <2>2, PlainSlots DEF Begin
  <1>3. CASE ShutdownCancel
    BY <1>3, ShutdownSlots
  <1>4. CASE SweeperStep \/ ShutdownBegin \/ UNCHANGED storeVars
    BY <1>4, UnchangedSlots
       DEF SweeperStep, StartSweeper, SweepDue, SweepStop, Sweep, SweepIdle, ShutdownBegin, storeVars
  <1> QED
    BY <1>1, <1>2, <1>3, <1>4 DEF StoreNext, ShutdownStep

(* What the store's hand-over of messages relies on, for any number of threads. *)
THEOREM SlotsCorrect == StoreSpec => []SlotInv
  <1>1. StoreInit => SlotInv
    BY InitSlots
  <1>2. StoreTypeOK /\ SlotInv /\ [StoreNext]_storeVars => SlotInv'
    BY SlotStep
  <1> QED
    BY <1>1, <1>2, TypeCorrect, PTL DEF StoreSpec

(* No exit from a suspension leaves a stale slot in an entry. *)
THEOREM SlotsAreOwned == StoreSpec => []SlotOwned
  <1>1. SlotInv => SlotOwned
    BY DEF SlotInv
  <1> QED
    BY <1>1, SlotsCorrect, PTL

(* A slot is completed from one side only, although resolve() has no lock. *)
THEOREM CompletionIsExclusive == StoreSpec => []ExclusiveCompletion
  <1>1. SlotInv => ExclusiveCompletion
    BY DEF SlotInv
  <1> QED
    BY <1>1, SlotsCorrect, PTL

(* An entry was allocated before a thread is on it, and leads from some task id unless
   retention has popped it. *)
EntriesListed ==
    /\ \A t \in Tasks : registry[t] <= nEntries
    /\ \A th \in Threads : call[th].ent <= nEntries
    /\ \A e \in Entries : e <= nEntries =>
          entry[e].stamped \/ \E t \in Tasks : registry[t] = e

(* A call finds its entry under a task id and keeps it, and no call takes terminal_at
   from an entry. *)
LEMMA ThreadEntries ==
  ASSUME StoreTypeOK, NEW th \in Threads, Continue(th) \/ \E t \in Tasks : Begin(th, t)
  PROVE  /\ \A x \in Threads : call'[x].ent \in {call[x].ent, Null} \cup {registry[t] : t \in Tasks}
         /\ \A e \in Entries : entry[e].stamped => entry'[e].stamped
         /\ \/ UNCHANGED <<registry, nEntries>>
            \/ \E t \in Tasks :
                  /\ ~Registered(t) /\ nEntries' = nEntries + 1
                  /\ registry' = [registry EXCEPT ![t] = nEntries + 1]
                  /\ UNCHANGED <<entry, call>>
  <1> USE DEF StoreTypeOK, EntryType, NoCall, Calling
  <1>1. CASE Continue(th)
    <2>1. call[th] \in CallType /\ CallOK(call[th])
      OBVIOUS
    <2>2. UNCHANGED <<registry, nEntries>>
      BY <1>1 DEF Continue, GetEnd, WriteState, WriteMessage, WriteArtifact, WritePush, WriteEntry,
                  Broadcast, Wake, TimeOut, Finally, TestSlot, Resolve
    <2>3. \A x \in Threads : call'[x].ent \in {call[x].ent, Null}
      <3>1. \A at : [call[th] EXCEPT !.at = at].ent = call[th].ent
        BY <2>1 DEF CallType
      <3>2. \A a : [call[th] EXCEPT !.at = "finally", !.arg = a].ent = call[th].ent
        BY <2>1 DEF CallType
      <3>3. ASSUME NEW c, call' = [call EXCEPT ![th] = c], c.ent \in {call[th].ent, Null}
            PROVE  \A x \in Threads : call'[x].ent \in {call[x].ent, Null}
        BY <3>3
      <3>4. CASE Wake(th) \/ TimeOut(th)
        BY <3>2, <3>3, <3>4 DEF Wake, TimeOut
      <3>5. CASE WriteState(th) \/ WriteArtifact(th)
        BY <3>1, <3>3, <3>5 DEF WriteState, WriteArtifact, WriteEntry
      <3>6. CASE TestSlot(th)
        BY <3>1, <3>3, <3>6 DEF TestSlot
      <3>7. CASE \/ GetEnd(th) \/ WriteMessage(th) \/ WritePush(th) \/ Broadcast(th)
                 \/ Finally(th) \/ Resolve(th)
        BY <3>3, <3>7 DEF GetEnd, WriteMessage, WritePush, WriteEntry, Broadcast, Finally, Resolve
      <3> QED
        BY <1>1, <3>4, <3>5, <3>6, <3>7 DEF Continue
    <2>4. ASSUME NEW e \in Entries PROVE entry[e].stamped => entry'[e].stamped
      <3>1. entry[e] \in EntryType
        OBVIOUS
      <3>2. CASE WriteState(th) \/ WriteMessage(th) \/ WriteArtifact(th) \/ WritePush(th)
        <4>1. call[th].ent \in Entries
          BY <2>1, <3>2 DEF WriteState, WriteMessage, WriteArtifact, WritePush, WriteEntry, CallOK, CallType
        <4>2. entry[call[th].ent] \in EntryType
          BY <4>1
        <4>3. CASE WriteState(th)
          BY <3>1, <4>1, <4>2, <4>3 DEF WriteState, WriteEntry, WithState
        <4>4. CASE WriteMessage(th)
          BY <3>1, <4>1, <4>2, <4>4 DEF WriteMessage, WriteEntry
        <4>5. CASE WriteArtifact(th)
          BY <3>1, <4>1, <4>2, <4>5 DEF WriteArtifact, WriteEntry
        <4>6. CASE WritePush(th)
          BY <3>1, <4>1, <4>2, <4>6 DEF WritePush, WriteEntry
        <4> QED
          BY <3>2, <4>3, <4>4, <4>5, <4>6
      <3>3. CASE Finally(th)
        BY <3>1, <3>3 DEF Finally, Cleared
      <3> QED
        BY <1>1, <3>2, <3>3 DEF Continue, GetEnd, Broadcast, Wake, TimeOut, TestSlot, Resolve
    <2> QED
      BY <2>2, <2>3, <2>4
  <1>2. ASSUME NEW t \in Tasks, GetOrCreate(th, t)
        PROVE  \/ UNCHANGED <<registry, nEntries, entry, call>>
               \/ /\ ~Registered(t) /\ nEntries' = nEntries + 1
                  /\ registry' = [registry EXCEPT ![t] = nEntries + 1]
                  /\ UNCHANGED <<entry, call>>
    BY <1>2 DEF GetOrCreate
  <1>3. ASSUME NEW t \in Tasks, Begin(th, t), ~GetOrCreate(th, t)
        PROVE  /\ \A x \in Threads : call'[x].ent \in {call[x].ent, Null, registry[t]}
               /\ \A e \in Entries : entry[e].stamped => entry'[e].stamped
               /\ UNCHANGED <<registry, nEntries>>
    BY <1>3 DEF Begin, GetBegin, CallSetState, CallAppendMessage, CallAppendArtifact, CallSetPush,
                Lookup, Subscribe, Unsubscribe, Suspend, CallResume, Detached
  <1>4. CASE \E t \in Tasks : Begin(th, t)
    BY <1>2, <1>3, <1>4
  <1> QED
    BY <1>1, <1>4, <1>1

(* EntriesListed is inductive: what a pass pops has terminal_at set. *)
LEMMA EntriesListedStep ==
  ASSUME StoreTypeOK, EntriesListed, [StoreNext]_storeVars
  PROVE  EntriesListed'
  <1> USE DEF EntriesListed
  <1>1. /\ registry \in [Tasks -> Entries \cup {Null}] /\ nEntries \in Nat
        /\ \A th \in Threads : call[th].ent \in Entries \cup {Null}
    BY DEF StoreTypeOK, CallType
  <1>2. /\ Entries \subseteq Nat \ {0} /\ Null = 0
        /\ \A t \in Tasks : registry[t] \in Nat
        /\ \A th \in Threads : call[th].ent \in Nat
    BY <1>1, BoundsAssumption DEF Entries, Null
  <1>3. ASSUME NEW th \in Threads, Continue(th) \/ \E t \in Tasks : Begin(th, t)
        PROVE  EntriesListed'
    <2>1. CASE UNCHANGED <<registry, nEntries>>
      BY <1>1, <1>2, <1>3, <2>1, ThreadEntries
    <2>2. ASSUME NEW t \in Tasks, ~Registered(t), nEntries' = nEntries + 1,
                 registry' = [registry EXCEPT ![t] = nEntries + 1], UNCHANGED <<entry, call>>
          PROVE  EntriesListed'
      <3>1. \A u \in Tasks : registry'[u] = IF u = t THEN nEntries + 1 ELSE registry[u]
        BY <1>1, <2>2
      <3>2. \A u \in Tasks : registry'[u] <= nEntries'
        <4>1. \A u \in Tasks : registry[u] \in Nat /\ registry[u] <= nEntries
          BY <1>2
        <4> QED
          BY <1>1, <2>2, <3>1, <4>1
      <3>3. \A x \in Threads : call'[x].ent <= nEntries'
        <4>1. \A x \in Threads : call[x].ent \in Nat /\ call[x].ent <= nEntries
          BY <1>2
        <4> QED
          BY <1>1, <2>2, <4>1
      <3>4. ASSUME NEW e \in Entries, e <= nEntries'
            PROVE  entry'[e].stamped \/ \E u \in Tasks : registry'[u] = e
        <4>1. CASE e = nEntries + 1
          BY <3>1, <4>1
        <4>2. CASE e <= nEntries
          BY <1>2, <2>2, <3>1, <4>2 DEF Registered
        <4> QED
          BY <1>1, <1>2, <2>2, <3>4, <4>1, <4>2
      <3> QED
        BY <3>2, <3>3, <3>4
    <2> QED
      BY <1>3, <2>1, <2>2, ThreadEntries
  <1>4. ASSUME NEW expired \in SUBSET Tasks, \A t \in expired : Retired(t), Pop(expired),
               UNCHANGED <<entry, call, nEntries>>
        PROVE  EntriesListed'
    <2>1. \A t \in Tasks : registry'[t] = IF t \in expired THEN Null ELSE registry[t]
      BY <1>4 DEF Pop
    <2>2. \A t \in Tasks : registry'[t] <= nEntries'
      BY <1>1, <1>2, <1>4, <2>1
    <2> QED
      BY <1>4, <2>1, <2>2 DEF Retired
  <1>5. CASE SweeperStep
    <2>1. CASE StartSweeper \/ SweepDue \/ SweepStop
      BY <2>1 DEF StartSweeper, SweepDue, SweepStop
    <2>2. ASSUME NEW expired \in SUBSET Tasks, Sweep(expired) PROVE EntriesListed'
      BY <1>4, <2>2 DEF Sweep
    <2>3. ASSUME NEW expired \in SUBSET Tasks, NEW t \in Tasks, SweepIdle(expired, t) PROVE EntriesListed'
      BY <1>4, <2>3 DEF SweepIdle
    <2> QED
      BY <1>5, <2>1, <2>2, <2>3 DEF SweeperStep
  <1>6. CASE ShutdownStep \/ UNCHANGED storeVars
    BY <1>6 DEF ShutdownStep, ShutdownBegin, ShutdownCancel, storeVars
  <1> QED
    BY <1>3, <1>5, <1>6 DEF StoreNext

(* A handler that sleeps on an unset Event is found by the next message and by shutdown,
   or is about to be woken, unless its task was finished and popped: entries leave the
   registry by retention only, and no call takes a slot from its sleeper but a resume. *)
THEOREM WaitersAreReachable == StoreSpec => []NoOrphanWaiter
  <1>1. StoreInit => EntriesListed
    BY BoundsAssumption DEF StoreInit, EntriesListed, NoCall, Null, Entries
  <1>2. ASSUME StoreTypeOK, SlotInv, EntriesListed PROVE NoOrphanWaiter
    <2> SUFFICES ASSUME NEW th \in Threads, Waiting(th), slot[call[th].slot] = Unset,
                        entry[call[th].ent].slot = call[th].slot, ~Popped(call[th].ent)
                 PROVE  \E t \in Tasks : registry[t] = call[th].ent
      BY <1>2 DEF NoOrphanWaiter, SlotInv, SlotWithSleeper
    <2>1. call[th].ent \in Entries
      BY <1>2, WaitingThread DEF Waiting, SlotPoints
    <2> QED
      BY <1>2, <2>1 DEF EntriesListed, Popped
  <1> QED
    BY <1>1, <1>2, EntriesListedStep, TypeCorrect, SlotsCorrect, PTL DEF StoreSpec

(* The message a handler was woken with is never replaced. *)
THEOREM SlotsAreSetOnce == StoreSpec => SlotSetOnce
  <1>1. StoreTypeOK /\ SlotInv /\ [StoreNext]_storeVars
          => [\A s \in Slots : slot[s] # Unset => slot'[s] = slot[s]]_storeVars
    BY SlotWrites
  <1> QED
    BY <1>1, TypeCorrect, SlotsCorrect, PTL DEF StoreSpec, SlotSetOnce

(* Only shutdown's second step closes the store. *)
LEMMA ClosedByCancel ==
  ASSUME StoreNext, closed = "closing", closed' = "closed"
  PROVE  ShutdownCancel
  <1>1. ASSUME NEW th \in Threads, Continue(th) PROVE closed' = closed
    BY <1>1 DEF Continue, GetEnd, WriteState, WriteMessage, WriteArtifact, WritePush, WriteEntry,
                Broadcast, Wake, TimeOut, Finally, TestSlot, Resolve
  <1>2. ASSUME NEW th \in Threads, NEW t \in Tasks, Begin(th, t) PROVE closed' = closed
    BY <1>2 DEF Begin, GetOrCreate, GetBegin, CallSetState, CallAppendMessage, CallAppendArtifact,
                CallSetPush, Lookup, Subscribe, Unsubscribe, Suspend, CallResume
  <1>3. SweeperStep => closed' = closed
    BY DEF SweeperStep, StartSweeper, SweepDue, SweepStop, Sweep, SweepIdle
  <1> QED
    BY <1>1, <1>2, <1>3 DEF StoreNext, ShutdownStep, ShutdownBegin

(* shutdown() leaves no handler asleep on a task it can find, except one whose
   answer is in flight: the slot is in the entry, where PendingSlots sees it, or
   a resume has it. *)
THEOREM ShutdownReleasesHandlers == StoreSpec => ShutdownReleases
  <1> DEFINE Woken(th) == \/ slot'[call[th].slot] # Unset
                          \/ \E other \in Threads : Resolving(other) /\ call[other].slot = call[th].slot
  <1>1. ASSUME StoreTypeOK, SlotInv, StoreNext, closed = "closing", closed' = "closed",
               NEW th \in Threads, Waiting(th), NEW t \in Tasks, registry[t] = call[th].ent
        PROVE  Woken(th)
    <2>1. ShutdownCancel
      BY <1>1, ClosedByCancel
    <2>2. call[th] \in CallType /\ CallOK(call[th])
      BY <1>1 DEF StoreTypeOK
    <2>3. call[th].slot \in Slots /\ call[th].ent \in Entries
      BY <2>2, <1>1, SMT DEF CallType, CallOK, Waiting, Null
    <2>4. CASE slot[call[th].slot] # Unset
      BY <2>1, <2>3, <2>4 DEF ShutdownCancel, Unset, Abort
    <2>5. CASE slot[call[th].slot] = Unset /\ entry[call[th].ent].slot = call[th].slot
      <3>1. Suspended(t) /\ entry[registry[t]].slot = call[th].slot
        BY <1>1, <2>3, <2>5 DEF Suspended, Registered, Null, Entries, Slots
      <3>2. call[th].slot \in PendingSlots
        BY <3>1 DEF PendingSlots
      <3> QED
        BY <2>1, <2>3, <2>5, <3>2 DEF ShutdownCancel, Unset, Abort
    <2> QED
      BY <1>1, <2>4, <2>5 DEF SlotInv, SlotWithSleeper
  <1>2. StoreTypeOK /\ SlotInv /\ [StoreNext]_storeVars
          => [closed = "closing" /\ closed' = "closed" =>
                \A th \in Threads : Waiting(th) /\ (\E t \in Tasks : registry[t] = call[th].ent) =>
                    \/ slot'[call[th].slot] # Unset
                    \/ \E other \in Threads : Resolving(other)
                                              /\ call[other].slot = call[th].slot]_storeVars
    BY <1>1
  <1> QED
    BY <1>2, TypeCorrect, SlotsCorrect, PTL DEF StoreSpec, ShutdownReleases
=============================================================================
