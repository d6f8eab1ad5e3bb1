------------------------------- MODULE Handoff -------------------------------
(***************************************************************************)
(* What suspend_until_next_message and resume_if_suspended promise to the  *)
(* handlers of an agent, without entries, slots, locks or Events.          *)
(*                                                                         *)
(* A handler that asks goes to sleep.  One message may be claimed for it,  *)
(* and from then on that message, and no other, is what it is answered     *)
(* with; it may stop waiting at any moment (a timeout).  Shutdown aborts   *)
(* sleepers nothing was claimed for, and never overwrites an answer.       *)
(* TaskStore implements this specification.                                *)
(***************************************************************************)
CONSTANTS
    Sleepers,   \* the threads that run handlers
    Letters,    \* the messages that may answer a question
    Nothing     \* no message: not one of Letters

VARIABLE mail   \* what each sleeper waits for, and what it has been given

Mail == [at : {"awake", "asleep", "aborted"}, letter : {Nothing}]
            \cup [at : {"owed", "answered"}, letter : Letters]

Awake == [at |-> "awake", letter |-> Nothing]
Asleep == [at |-> "asleep", letter |-> Nothing]
Aborted == [at |-> "aborted", letter |-> Nothing]
Owed(m) == [at |-> "owed", letter |-> m]
Answered(m) == [at |-> "answered", letter |-> m]

Init == mail = [x \in Sleepers |-> Awake]

(* The handler asks. *)
Sleep(x) == mail[x] = Awake /\ mail' = [mail EXCEPT ![x] = Asleep]

(* A message is taken for the handler of x ... *)
Claim(x, m) == mail[x] = Asleep /\ mail' = [mail EXCEPT ![x] = Owed(m)]

(* ... and reaches it. *)
Deliver(x, m) == mail[x] = Owed(m) /\ mail' = [mail EXCEPT ![x] = Answered(m)]

(* The handler goes on: answered, aborted or out of patience. *)
Leave(x) == mail[x] # Awake /\ mail' = [mail EXCEPT ![x] = Awake]

(* Shutdown: the handlers of S, which nothing has been claimed for. *)
Close(S) ==
    /\ \A x \in S : mail[x] = Asleep
    /\ mail' = [x \in Sleepers |-> IF x \in S THEN Aborted ELSE mail[x]]

Next ==
    \/ \E x \in Sleepers :
          \/ Sleep(x) \/ Leave(x)
          \/ \E m \in Letters : Claim(x, m) \/ Deliver(x, m)
    \/ \E S \in SUBSET Sleepers : Close(S)

Spec == Init /\ [][Next]_mail
=============================================================================
