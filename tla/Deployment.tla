----------------------------- MODULE Deployment -----------------------------
(***************************************************************************)
(* An agent that is started, dies and is started again, and the program that *)
(* converses with it: Identity and Exchange over one agent.  The key that a *)
(* process resolves is the one its cards show and are signed with.          *)
(***************************************************************************)
EXTENDS Exchange

CONSTANTS Processes, Keys, GivenKey, DerivedKey

ASSUME KeyAssumption ==
    /\ GivenKey # None /\ DerivedKey # None
    /\ Keys \cap {GivenKey, DerivedKey, None} = {}

ASSUME StartsBounds == \A d \in Deployments : d.starts \in Nat

VARIABLES
    setup, file, process, minted, registered, abandoned, disturbed,
    starts        \* programs started, bounded by the deployment's `starts`

I == INSTANCE Identity WITH NoKey <- None

identityVars == <<setup, file, process, minted, registered, abandoned, disturbed>>
vars == <<exchangeVars, identityVars, starts>>

Init == ExchangeInit /\ I!IdentityInit /\ setup \in deployment.setups /\ starts = 0

(* What a program does before it serves. *)
Prepare ==
    \E p \in Processes :
        /\ process[p].at = "off" => starts < deployment.starts
        /\ I!Preparation(p)
        /\ starts' = IF process[p].at = "off" THEN starts + 1 ELSE starts
        /\ UNCHANGED exchangeVars

Up == \E p \in Processes : I!Serve(p) /\ AgentUp(process[p].key) /\ UNCHANGED starts

Down ==
    \E p \in Processes :
        /\ I!Stop(p)
        /\ IF I!Up(p) THEN AgentDown ELSE UNCHANGED exchangeVars
        /\ UNCHANGED starts

Talk == Conversation /\ UNCHANGED <<identityVars, starts>>

Next == Prepare \/ Up \/ Down \/ Talk

Spec == Init /\ [][Next]_vars

-----------------------------------------------------------------------------
(* Properties.                                                              *)

Ats == {"off", "save", "write", "resolve", "start", "up"}

AllKeys == Keys \cup {GivenKey, DerivedKey}

IdentityTypeOK ==
    /\ setup \in [given : BOOLEAN, derived : BOOLEAN, first : {"absent", "legacy", "broken"}]
    /\ file \in [kind : {"absent", "legacy", "broken", "v2"}, key : AllKeys \cup {None},
                 seed : BOOLEAN]
    /\ process \in [Processes -> [at : Ats, key : AllKeys \cup {None}, seed : BOOLEAN]]
    /\ minted \subseteq Keys /\ disturbed \in BOOLEAN
    /\ registered \subseteq AllKeys /\ abandoned \subseteq registered

(* The agent that serves is the process that is up, with its key. *)
AgentIsUp ==
    IF agent = None THEN \A p \in Processes : ~I!Up(p)
    ELSE \E p \in Processes : /\ I!Up(p) /\ process[p].key = agent
                              /\ \A q \in Processes \ {p} : ~I!Up(q)

(* Every variable has its type, and the agent is a process that is up. *)
TypeOK ==
    /\ IdentityTypeOK
    /\ AgentIsUp
    /\ deployment \in Deployments
    /\ turn \in {0} \cup Turns /\ starts \in 0 .. deployment.starts
    /\ client \in {"idle", "resolve", "post", "wait", "reading"}
    /\ task.state \in {"none", "working", "input-required"} \cup Terminal
    /\ \A n \in Turns : handler[n].at \in {"none", "run", "suspended", "done"}
    /\ stream.end \in {"none", "open", "closed", "broken"}
    /\ peers \subseteq AllKeys

(* A program that stays out of another's way: none dies while it saves the config
   and no two create it at once, or its key does not depend on the file. *)
Steady ==
    \/ ~disturbed
    \/ setup.given
    \/ setup.derived /\ setup.first # "legacy"

InUse == {process[p].key : p \in {q \in Processes : process[q].at \in {"start", "up"}}}

(* What the config file tells of the agent: its own key, and the entities the registry
   was told of before their keys were to be saved.                             *)
OfFile == (IF file.kind = "v2" THEN {file.key} ELSE {}) \cup (registered \ abandoned)

(* An agent keeps its identity over restarts: the entities that callers have been
   shown, the key of every process that starts or serves, the key in the file and
   the entity in the registry are one and the same.  The registry also keeps the
   entities that programs registered which died before they saved the key: nobody
   can speak for these again.                                                 *)
OneIdentity ==
    Steady =>
        LET keys == peers \cup InUse \cup IF setup.given THEN {} ELSE OfFile
        IN  \A a, b \in keys : a = b
=============================================================================
