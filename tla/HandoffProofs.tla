---------------------------- MODULE HandoffProofs ----------------------------
(***************************************************************************)
(* TaskStore implements Handoff, for any number of threads, tasks and      *)
(* messages: the initial state maps to the initial state, and every step   *)
(* of the store to a step of the hand-over or to a stutter.                *)
(***************************************************************************)
EXTENDS TaskStoreProofs

(* The thread p is about to complete the slot that x waits on. *)
Owes(p, x) == Resolving(p) /\ call[p].slot = call[x].slot

-----------------------------------------------------------------------------
(* The value of the mail in every situation a suspension can be in.         *)

(* An unset slot that a resume has detached: the message is the resume's. *)
LEMMA MailOwed ==
  ASSUME SlotInv, NEW x \in Threads, NEW p \in Threads,
         Waiting(x), slot[call[x].slot] = Unset, Owes(p, x)
  PROVE  Mail(x) = Mailbox!Owed(call[p].arg)
  <1>1. Claimant(x) \in Threads /\ Owes(Claimant(x), x)
    BY DEF Claimant, Owes
  <1>2. Claimant(x) = p
    BY <1>1 DEF Owes, SlotInv, ExclusiveCompletion
  <1> QED
    BY <1>2 DEF Mail, Owes, Mailbox!Owed, Unset, Abort

(* The same after a step. *)
LEMMA MailOwedNext ==
  ASSUME SlotInv', NEW x \in Threads, NEW p \in Threads,
         Waiting(x)', slot'[call'[x].slot] = Unset, Owes(p, x)'
  PROVE  Mail(x)' = Mailbox!Owed(call'[p].arg)
  <1>1. Claimant(x)' \in Threads /\ Owes(Claimant(x), x)'
    BY DEF Claimant, Owes
  <1>2. Claimant(x)' = p
    BY <1>1 DEF Owes, SlotInv, ExclusiveCompletion
  <1> QED
    BY <1>2 DEF Mail, Owes, Mailbox!Owed, Unset, Abort

(* The mail of a thread changes only with its own call, its slot, or a resume of
   that slot. *)
LEMMA MailFrame ==
  ASSUME SlotInv, SlotInv', NEW x \in Threads,
         Waiting(x)' <=> Waiting(x),
         Waiting(x) => /\ call'[x].slot = call[x].slot
                       /\ slot'[call[x].slot] = slot[call[x].slot],
         Waiting(x) /\ slot[call[x].slot] = Unset =>
             \A p \in Threads : /\ Owes(p, x)' <=> Owes(p, x)
                                /\ Owes(p, x) => call'[p].arg = call[p].arg
  PROVE  Mail(x)' = Mail(x)
  <1>1. CASE ~Waiting(x)
    BY <1>1 DEF Mail
  <1>2. CASE Waiting(x) /\ slot[call[x].slot] # Unset
    BY <1>2 DEF Mail
  <1>3. CASE Waiting(x) /\ slot[call[x].slot] = Unset /\ \E p \in Threads : Owes(p, x)
    <2>1. PICK p \in Threads : Owes(p, x)
      BY <1>3
    <2> QED
      BY <1>3, <2>1, MailOwed, MailOwedNext
  <1>4. CASE Waiting(x) /\ slot[call[x].slot] = Unset /\ ~\E p \in Threads : Owes(p, x)
    BY <1>4 DEF Mail, Owes
  <1> QED
    BY <1>1, <1>2, <1>3, <1>4

(* A step in which no thread but th moves, and no slot changes. *)
LEMMA OthersFrame ==
  ASSUME StoreTypeOK, SlotInv, SlotInv', slot' = slot, NEW th,
         \A x \in Threads \ {th} : call'[x] = call[x],
         ~Resolving(th), ~Resolving(th)'
  PROVE  \A x \in Threads \ {th} : Mail(x)' = Mail(x)
  <1> SUFFICES ASSUME NEW x \in Threads, x # th PROVE Mail(x)' = Mail(x)
    OBVIOUS
  <1>1. \A p \in Threads : Owes(p, x)' <=> Owes(p, x)
    BY DEF Owes, Resolving
  <1>2. \A p \in Threads : Owes(p, x) => call'[p] = call[p]
    BY DEF Owes
  <1> QED
    BY <1>1, <1>2, MailFrame DEF Waiting

-----------------------------------------------------------------------------
(* The steps.                                                               *)

(* A call outside suspend and resume, and the end of a suspension. *)
LEMMA PlainStutters ==
  ASSUME StoreTypeOK, SlotInv, SlotInv', NEW th \in Threads, NEW t,
         \/ GetOrCreate(th, t) \/ GetBegin(th, t) \/ GetEnd(th)
         \/ Subscribe(th, t) \/ Unsubscribe(th) \/ Finally(th)
         \/ \E state \in ClientStates : CallSetState(th, t, state)
         \/ \E m \in Messages : CallAppendMessage(th, t, m)
         \/ \E a \in Artifacts : CallAppendArtifact(th, t, a)
         \/ CallSetPush(th, t)
         \/ WriteState(th) \/ WriteMessage(th) \/ WriteArtifact(th) \/ WritePush(th)
         \/ Broadcast(th)
  PROVE  \A x \in Threads : Mail(x)' = Mail(x)
  <1> DEFINE Outside == {"wait", "resolve", "store"}
  <1>1. /\ slot' = slot
        /\ \A x \in Threads \ {th} : call'[x] = call[x]
        /\ call[th].at \notin Outside /\ call'[th].at \notin Outside
    <2>1. CASE GetOrCreate(th, t) \/ Subscribe(th, t) \/ Unsubscribe(th)
      BY <2>1 DEF GetOrCreate, Subscribe, Unsubscribe, Idle
    <2>2. CASE GetBegin(th, t) \/ GetEnd(th) \/ Finally(th) \/ Broadcast(th)
      BY <2>2 DEF GetBegin, GetEnd, Finally, Broadcast, Calling, NoCall, Idle, StoreTypeOK
    <2>3. ASSUME NEW at \in {"write_state", "write_message", "write_artifact", "write_push"},
                 NEW arg, Lookup(th, t, at, arg)
          PROVE  /\ slot' = slot
                 /\ \A x \in Threads \ {th} : call'[x] = call[x]
                 /\ call[th].at \notin Outside /\ call'[th].at \notin Outside
      BY <2>3 DEF Lookup, Calling, Idle, StoreTypeOK
    <2>4. CASE WriteState(th) \/ WriteArtifact(th)
      BY <2>4 DEF WriteState, WriteArtifact, WriteEntry, StoreTypeOK, CallType
    <2>5. CASE WriteMessage(th) \/ WritePush(th)
      BY <2>5 DEF WriteMessage, WritePush, WriteEntry, NoCall, StoreTypeOK
    <2> QED
      BY <2>1, <2>2, <2>3, <2>4, <2>5
         DEF CallSetState, CallAppendMessage, CallAppendArtifact, CallSetPush
  <1>2. Mail(th)' = Mail(th)
    BY <1>1 DEF Mail, Waiting
  <1> QED
    BY <1>1, <1>2, OthersFrame DEF Resolving

(* The steps of such a call that is already under way. *)
LEMMA PlainContinue ==
  ASSUME StoreTypeOK, SlotInv, SlotInv', NEW th \in Threads,
         \/ GetEnd(th) \/ WriteState(th) \/ WriteMessage(th) \/ WriteArtifact(th)
         \/ WritePush(th) \/ Broadcast(th) \/ Finally(th)
  PROVE  \A x \in Threads : Mail(x)' = Mail(x)
  BY PlainStutters

(* suspend_until_next_message puts the handler to sleep: the slot is new. *)
LEMMA SuspendSleeps ==
  ASSUME StoreTypeOK, SlotInv, SlotInv', NEW th \in Threads, NEW t \in Tasks, Suspend(th, t)
  PROVE  /\ Mail(th) = Mailbox!Awake /\ Mail(th)' = Mailbox!Asleep
         /\ \A x \in Threads \ {th} : Mail(x)' = Mail(x)
  <1>1. /\ slot' = slot
        /\ \A x \in Threads \ {th} : call'[x] = call[x]
        /\ call[th].at = "idle"
        /\ call'[th].at = "wait" /\ call'[th].slot = nSlots + 1
    BY DEF Suspend, Calling, Idle, StoreTypeOK
  <1>2. slot[nSlots + 1] = Unset
    BY BoundsAssumption DEF Suspend, StoreTypeOK, SlotInv, SlotsNumbered, Slots
  <1>3. \A p \in Threads : call[p].slot # nSlots + 1
    BY BoundsAssumption DEF StoreTypeOK, SlotInv, SlotsNumbered, CallType, Slots, Null
  <1>4. Mail(th) = Mailbox!Awake
    BY <1>1 DEF Mail, Waiting, Mailbox!Awake
  <1>5. \A p \in Threads : ~(Resolving(p)' /\ call'[p].slot = call'[th].slot)
    BY <1>1, <1>3 DEF Resolving
  <1>6. Mail(th)' = Mailbox!Asleep
    BY <1>1, <1>2, <1>5 DEF Mail, Waiting, Mailbox!Asleep, Unset, Abort
  <1> QED
    BY <1>1, <1>4, <1>6, OthersFrame DEF Resolving

(* wait() returns or raises: the handler goes on. *)
LEMMA WakeLeaves ==
  ASSUME StoreTypeOK, SlotInv, SlotInv', NEW th \in Threads, Wake(th) \/ TimeOut(th)
  PROVE  /\ Mail(th) # Mailbox!Awake /\ Mail(th)' = Mailbox!Awake
         /\ \A x \in Threads \ {th} : Mail(x)' = Mail(x)
  <1>1. /\ slot' = slot
        /\ \A x \in Threads \ {th} : call'[x] = call[x]
        /\ call[th].at = "wait" /\ call'[th].at = "finally"
    BY DEF Wake, TimeOut, StoreTypeOK, CallType
  <1>2. Mail(th).at # "awake"
    BY <1>1 DEF Mail, Waiting
  <1>3. Mail(th)' = Mailbox!Awake
    BY <1>1 DEF Mail, Waiting, Mailbox!Awake
  <1> QED
    BY <1>1, <1>2, <1>3, OthersFrame DEF Resolving, Mailbox!Awake

(* resume_if_suspended claims its message for the handler that sleeps on the slot
   it detaches, if that handler still sleeps and shutdown has not aborted it. *)
LEMMA ResumeClaims ==
  ASSUME StoreTypeOK, SlotInv, SlotInv', NEW th \in Threads, NEW t \in Tasks,
         NEW m \in Messages, CallResume(th, t, m)
  PROVE  \/ \A x \in Threads : Mail(x)' = Mail(x)
         \/ \E x \in Threads : /\ Mail(x) = Mailbox!Asleep /\ Mail(x)' = Mailbox!Owed(m)
                               /\ \A y \in Threads \ {x} : Mail(y)' = Mail(y)
  <1> DEFINE s0 == entry[registry[t]].slot
             Sleeps(x) == Waiting(x) /\ call[x].slot = s0 /\ slot[s0] = Unset
  <1>1. /\ slot' = slot
        /\ \A x \in Threads \ {th} : call'[x] = call[x]
        /\ call[th].at = "idle"
        /\ call'[th].at = "resolve" /\ call'[th].slot = s0 /\ call'[th].arg = m
    BY DEF CallResume, Calling, Idle, StoreTypeOK
  <1>2. \A p \in Threads : Resolving(p) => call[p].slot # s0
    BY DEF SlotInv, ExclusiveCompletion, CallResume, Suspended, Registered, StoreTypeOK
  <1> HIDE DEF s0
  <1>3. \A x \in Threads : Waiting(x)' <=> Waiting(x)
    BY <1>1 DEF Waiting
  <1>4. ASSUME NEW x \in Threads, ~Sleeps(x) PROVE Mail(x)' = Mail(x)
    <2>1. CASE Waiting(x) /\ slot[call[x].slot] = Unset
      <3>1. call[x].slot # s0 /\ x # th
        BY <1>1, <1>4, <2>1 DEF Waiting
      <3>2. \A p \in Threads : /\ Owes(p, x)' <=> Owes(p, x)
                               /\ Owes(p, x) => call'[p].arg = call[p].arg
        BY <1>1, <3>1 DEF Owes, Resolving
      <3> QED
        BY <1>1, <1>3, <3>1, <3>2, MailFrame
    <2>2. CASE ~(Waiting(x) /\ slot[call[x].slot] = Unset)
      BY <1>1, <1>3, <2>2, MailFrame DEF Waiting
    <2> QED
      BY <2>1, <2>2
  <1>5. ASSUME NEW x \in Threads, Sleeps(x)
        PROVE  Mail(x) = Mailbox!Asleep /\ Mail(x)' = Mailbox!Owed(m)
    <2>1. x # th /\ call'[x] = call[x] /\ Waiting(x)'
      BY <1>1, <1>3, <1>5 DEF Waiting
    <2>2. Mail(x) = Mailbox!Asleep
      BY <1>2, <1>5 DEF Mail, Mailbox!Asleep, Unset, Abort
    <2>3. Owes(th, x)'
      BY <1>1, <1>5, <2>1 DEF Owes, Resolving
    <2> QED
      BY <1>1, <1>5, <2>1, <2>2, <2>3, MailOwedNext
  <1>6. \A x, y \in Threads : Sleeps(x) /\ Sleeps(y) => x = y
    BY DEF SlotInv, SuspensionsDistinct, InSuspend, Waiting
  <1> HIDE DEF Sleeps
  <1> QED
    BY <1>4, <1>5, <1>6

(* The test of the Event: a resume ends here only if the Event was set already. *)
LEMMA TestStutters ==
  ASSUME StoreTypeOK, SlotInv, SlotInv', NEW th \in Threads, TestSlot(th)
  PROVE  \A x \in Threads : Mail(x)' = Mail(x)
  <1>1. /\ slot' = slot
        /\ \A x \in Threads \ {th} : call'[x] = call[x]
        /\ call[th].at = "resolve"
        /\ IF slot[call[th].slot] = Unset
           THEN /\ call'[th].at = "store" /\ call'[th].slot = call[th].slot
                /\ call'[th].arg = call[th].arg
           ELSE call'[th].at = "idle"
    BY DEF TestSlot, NoCall, StoreTypeOK, CallType
  <1> SUFFICES ASSUME NEW x \in Threads PROVE Mail(x)' = Mail(x)
    OBVIOUS
  <1>2. Waiting(x)' <=> Waiting(x)
    BY <1>1 DEF Waiting
  <1>3. Waiting(x) => call'[x] = call[x]
    BY <1>1 DEF Waiting
  <1>4. Waiting(x) /\ slot[call[x].slot] = Unset =>
            \A p \in Threads : /\ Owes(p, x)' <=> Owes(p, x)
                               /\ Owes(p, x) => call'[p].arg = call[p].arg
    BY <1>1, <1>3 DEF Owes, Resolving
  <1> QED
    BY <1>1, <1>2, <1>3, <1>4, MailFrame

(* The Event is set: the message reaches the handler, if it still waits. *)
LEMMA ResolveDelivers ==
  ASSUME StoreTypeOK, SlotInv, SlotInv', NEW th \in Threads, Resolve(th)
  PROVE  \/ \A x \in Threads : Mail(x)' = Mail(x)
         \/ \E x \in Threads, m \in Messages :
               /\ Mail(x) = Mailbox!Owed(m) /\ Mail(x)' = Mailbox!Answered(m)
               /\ \A y \in Threads \ {x} : Mail(y)' = Mail(y)
  <1> DEFINE s0 == call[th].slot
             m == call[th].arg
             Sleeps(x) == Waiting(x) /\ call[x].slot = s0
  <1>1. s0 \in Slots /\ call[th].at = "store" /\ m \in Messages /\ slot[s0] = Unset
    BY WaitingThread DEF Resolve, SlotPoints, StoreTypeOK, CallOK, SlotInv, StoreFindsUnset
  <1>2. /\ \A x \in Threads \ {th} : call'[x] = call[x]
        /\ call'[th].at = "idle"
        /\ slot'[s0] = m
        /\ \A s \in Slots \ {s0} : slot'[s] = slot[s]
    BY <1>1 DEF Resolve, NoCall, StoreTypeOK
  <1>3. \A x \in Threads : Waiting(x) => call[x].slot \in Slots /\ x # th
    BY <1>1, WaitingThread DEF Waiting, SlotPoints
  <1>4. Resolving(th)
    BY <1>1 DEF Resolving
  <1> HIDE DEF s0, m
  <1>5. \A x \in Threads : Waiting(x)' <=> Waiting(x)
    BY <1>1, <1>2 DEF Waiting
  <1>6. ASSUME NEW x \in Threads, ~Sleeps(x) PROVE Mail(x)' = Mail(x)
    <2>1. Waiting(x) => /\ call'[x] = call[x] /\ call[x].slot # s0
                        /\ slot'[call[x].slot] = slot[call[x].slot]
      BY <1>2, <1>3, <1>6
    <2>2. Waiting(x) => \A p \in Threads : /\ Owes(p, x)' <=> Owes(p, x)
                                           /\ Owes(p, x) => call'[p].arg = call[p].arg
      BY <1>2, <2>1 DEF Owes, Resolving, s0
    <2> QED
      BY <1>5, <2>1, <2>2, MailFrame
  <1>7. ASSUME NEW x \in Threads, Sleeps(x)
        PROVE  Mail(x) = Mailbox!Owed(m) /\ Mail(x)' = Mailbox!Answered(m)
    <2>1. Owes(th, x)
      BY <1>4, <1>7 DEF Owes, s0
    <2>2. Mail(x) = Mailbox!Owed(m)
      BY <1>1, <1>7, <2>1, MailOwed DEF m
    <2>3. m # Unset /\ m # Abort
      BY <1>1, MessagesAssumption
    <2>4. Waiting(x)' /\ call'[x].slot = s0
      BY <1>2, <1>3, <1>5, <1>7
    <2> QED
      BY <1>2, <2>2, <2>3, <2>4 DEF Mail, Mailbox!Answered
  <1>8. \A x, y \in Threads : Sleeps(x) /\ Sleeps(y) => x = y
    BY DEF SlotInv, SuspensionsDistinct, InSuspend, Waiting
  <1> HIDE DEF Sleeps
  <1> QED
    BY <1>1, <1>6, <1>7, <1>8

(* shutdown aborts handlers that sleep, and nothing has been claimed for. *)
LEMMA ShutdownCloses ==
  ASSUME StoreTypeOK, SlotInv, SlotInv', ShutdownCancel
  PROVE  \E S \in SUBSET Threads :
            \A x \in Threads : IF x \in S
                               THEN Mail(x) = Mailbox!Asleep /\ Mail(x)' = Mailbox!Aborted
                               ELSE Mail(x)' = Mail(x)
  <1> DEFINE S == {x \in Threads : /\ Waiting(x) /\ slot[call[x].slot] = Unset
                                   /\ call[x].slot \in PendingSlots}
  <1>1. call' = call /\ \A s \in Slots : slot'[s] = IF s \in PendingSlots /\ slot[s] = Unset
                                                   THEN Abort ELSE slot[s]
    BY DEF ShutdownCancel
  <1>2. \A s \in PendingSlots : \E e \in Entries : s = entry[e].slot
    BY DEF PendingSlots, Suspended, Registered, StoreTypeOK
  <1>3. \A x \in Threads : Waiting(x) => call[x].slot \in Slots
    BY WaitingThread DEF Waiting, SlotPoints
  <1>4. ASSUME NEW x \in S PROVE Mail(x) = Mailbox!Asleep /\ Mail(x)' = Mailbox!Aborted
    <2>1. \A p \in Threads : ~Owes(p, x)
      BY <1>2 DEF Owes, SlotInv, ExclusiveCompletion
    <2>2. Mail(x) = Mailbox!Asleep
      BY <2>1 DEF Mail, Owes, Mailbox!Asleep, Unset, Abort
    <2>3. Waiting(x)' /\ slot'[call'[x].slot] = Abort
      BY <1>1, <1>3 DEF Waiting
    <2> QED
      BY <2>2, <2>3 DEF Mail, Mailbox!Aborted
  <1>5. ASSUME NEW x \in Threads \ S PROVE Mail(x)' = Mail(x)
    BY <1>1, <1>3, MailFrame DEF Waiting, Owes, Resolving
  <1> QED
    <2>1. S \in SUBSET Threads
      OBVIOUS
    <2> HIDE DEF S
    <2> QED
      BY <1>4, <1>5, <2>1

-----------------------------------------------------------------------------
(* The refinement.                                                          *)

(* A step of the store changes the mail of nobody, or is a step of the hand-over. *)
LEMMA HandoffStep ==
  ASSUME StoreTypeOK, SlotInv, SlotInv', [StoreNext]_storeVars
  PROVE  [Mailbox!Next]_([x \in Threads |-> Mail(x)])
  <1> DEFINE M == [x \in Threads |-> Mail(x)]
             Same == \A x \in Threads : Mail(x)' = Mail(x)
             Becomes(x, v) == Mail(x)' = v /\ \A y \in Threads \ {x} : Mail(y)' = Mail(y)
  <1>1. ASSUME Same PROVE M' = M
    BY <1>1
  <1>2. ASSUME NEW x \in Threads, NEW v, Becomes(x, v) PROVE M' = [M EXCEPT ![x] = v]
    BY <1>2
  <1>3. ASSUME NEW th \in Threads, Continue(th) PROVE [Mailbox!Next]_M
    <2>1. CASE Wake(th) \/ TimeOut(th)
      <3>1. Mailbox!Leave(th)
        BY <1>2, <2>1, WakeLeaves DEF Mailbox!Leave
      <3> QED
        BY <3>1 DEF Mailbox!Next
    <2>2. CASE TestSlot(th)
      BY <1>1, <2>2, TestStutters
    <2>3. CASE Resolve(th)
      <3>1. CASE Same
        BY <1>1, <3>1
      <3>2. CASE \E x \in Threads, m \in Messages :
                    Mail(x) = Mailbox!Owed(m) /\ Becomes(x, Mailbox!Answered(m))
        <4>1. PICK x \in Threads, m \in Messages :
                    Mail(x) = Mailbox!Owed(m) /\ Becomes(x, Mailbox!Answered(m))
          BY <3>2
        <4>2. Mailbox!Deliver(x, m)
          BY <1>2, <4>1 DEF Mailbox!Deliver
        <4> QED
          BY <4>2 DEF Mailbox!Next
      <3> QED
        BY <2>3, <3>1, <3>2, ResolveDelivers
    <2>4. CASE GetEnd(th) \/ WriteState(th) \/ WriteMessage(th) \/ WriteArtifact(th)
               \/ WritePush(th) \/ Broadcast(th) \/ Finally(th)
      <3>1. Same
        BY <2>4, PlainContinue
      <3> QED
        BY <1>1, <3>1
    <2> QED
      BY <1>3, <2>1, <2>2, <2>3, <2>4 DEF Continue
  <1>4. ASSUME NEW th \in Threads, NEW t \in Tasks, Begin(th, t) PROVE [Mailbox!Next]_M
    <2>1. CASE Suspend(th, t)
      <3>1. Mailbox!Sleep(th)
        BY <1>2, <2>1, SuspendSleeps DEF Mailbox!Sleep
      <3> QED
        BY <3>1 DEF Mailbox!Next
    <2>2. CASE \E m \in Messages : CallResume(th, t, m)
      <3>1. PICK m \in Messages : CallResume(th, t, m)
        BY <2>2
      <3>2. CASE Same
        BY <1>1, <3>2
      <3>3. CASE \E x \in Threads : Mail(x) = Mailbox!Asleep /\ Becomes(x, Mailbox!Owed(m))
        <4>1. PICK x \in Threads : Mail(x) = Mailbox!Asleep /\ Becomes(x, Mailbox!Owed(m))
          BY <3>3
        <4>2. Mailbox!Claim(x, m)
          BY <1>2, <4>1 DEF Mailbox!Claim
        <4> QED
          BY <4>2 DEF Mailbox!Next
      <3> QED
        BY <3>1, <3>2, <3>3, ResumeClaims
    <2>3. CASE ~Suspend(th, t) /\ ~\E m \in Messages : CallResume(th, t, m)
      <3>1. Same
        BY <1>4, <2>3, PlainStutters DEF Begin
      <3> QED
        BY <1>1, <3>1
    <2> QED
      BY <2>1, <2>2, <2>3
  <1>5. ASSUME ShutdownCancel PROVE [Mailbox!Next]_M
    <2>1. PICK S \in SUBSET Threads :
             \A x \in Threads : IF x \in S
                                THEN Mail(x) = Mailbox!Asleep /\ Mail(x)' = Mailbox!Aborted
                                ELSE Mail(x)' = Mail(x)
      BY <1>5, ShutdownCloses
    <2>2. Mailbox!Close(S)
      BY <2>1 DEF Mailbox!Close
    <2> QED
      BY <2>2 DEF Mailbox!Next
  <1>6. CASE SweeperStep \/ ShutdownBegin \/ UNCHANGED storeVars
    <2>1. slot' = slot /\ call' = call
      BY <1>6 DEF SweeperStep, StartSweeper, SweepDue, SweepStop, Sweep, SweepIdle,
                  ShutdownBegin, storeVars
    <2>2. Same
      BY <2>1, MailFrame DEF Waiting, Owes, Resolving
    <2> QED
      BY <1>1, <2>2
  <1> QED
    BY <1>3, <1>4, <1>5, <1>6 DEF StoreNext, ShutdownStep

(* TaskStore implements Handoff. *)
THEOREM StoreImplementsHandoff == StoreSpec => ImplementsHandoff
  <1>1. StoreInit => Mailbox!Init
    BY DEF StoreInit, NoCall, Mailbox!Init, Mailbox!Awake, Mail, Waiting
  <1>2. StoreTypeOK /\ SlotInv /\ SlotInv' /\ [StoreNext]_storeVars
          => [Mailbox!Next]_([x \in Threads |-> Mail(x)])
    BY HandoffStep
  <1> QED
    BY <1>1, <1>2, TypeCorrect, SlotsCorrect, PTL DEF StoreSpec, ImplementsHandoff, Mailbox!Spec
=============================================================================
