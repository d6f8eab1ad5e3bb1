------------------------------ MODULE Lifecycle ------------------------------
(***************************************************************************)
(* The life of one entity on the network: ZyndBase.start and stop in       *)
(* src/zyndai_agent/base.py, A2AServer.start and stop, the registry client *)
(* src/zyndai_agent/dns_registry.py and the heartbeat thread.              *)
(*                                                                         *)
(* Processes are the OS processes that run the same entity (one keypair)   *)
(* on one host and port, one after the other or, during a rolling deploy,  *)
(* at the same time.  A process that died may be booted again with another *)
(* configuration.  The registry is external: it is modelled by the answers *)
(* dns_registry.py tells apart.  The card file and the banner are left out.*)
(* A configuration and a record are functions from the registry fields they*)
(* have to opaque values.                                                  *)
(***************************************************************************)
EXTENDS Naturals

CONSTANTS
    Processes,
    Fields,        \* the fields of a registry record
    Always,        \* those every configuration gives: name, entity_url, ...
    OnlyAtFirst,   \* those sent with the registration and never updated: entity_pricing
    Values,        \* what a field may hold
    Configs,       \* the configurations the entity is deployed with
    HasKey,        \* the processes that find a developer keypair
    Failures,      \* the registry requests that may fail: see RequestKinds
    MaxBoots,      \* bound on how often a process is booted, all together
    MaxStarts      \* bound on the calls of start() in one process

RequestKinds == {"lookup", "register", "update", "connect", "beat"}
NoRecord == [f \in {} |-> f]
StartNumbers == 1 .. MaxStarts

(* What has some of the fields. *)
Records == UNION {[D -> Values] : D \in SUBSET Fields}

ASSUME ConfigsAssumption ==
    /\ Always # {} /\ Always \subseteq Fields \ OnlyAtFirst
    /\ Configs \subseteq Records /\ \A c \in Configs : Always \subseteq DOMAIN c
ASSUME ProcessesAssumption == HasKey \subseteq Processes /\ Failures \subseteq RequestKinds
ASSUME LifecycleBounds == MaxBoots \in Nat /\ MaxStarts \in Nat

VARIABLES
    pc,         \* where the main thread is; "gone" when there is no process
    cfg,        \* what the configuration gives; NoRecord without a process
    diff,       \* the fields the update that is about to be sent carries
    running,    \* A2AServer._is_running
    flask,      \* the server thread
    store,      \* the task store: "new", "swept" by its GC, or "closed"
    stopping,   \* _heartbeat_stop is set
    starts,     \* how often start() was called in this process
    hb,         \* the heartbeat thread each start() created
    boots,      \* how many processes were booted
    record,     \* the registry's record of the entity
    status,     \* the registry's view of it: "active" or "inactive"
    lost,       \* history: the upsert under way was given up, or a write of it failed
    raced       \* history: two processes were between lookup and write at once

server == <<running, flask, store>>
registry == <<record, status>>
vars == <<pc, cfg, diff, server, stopping, starts, hb, boots, registry, lost, raced>>

Init ==
    /\ pc = [p \in Processes |-> "gone"]
    /\ cfg = [p \in Processes |-> NoRecord]
    /\ diff = [p \in Processes |-> {}]
    /\ running = [p \in Processes |-> FALSE]
    /\ flask = [p \in Processes |-> "none"]
    /\ store = [p \in Processes |-> "new"]
    /\ stopping = [p \in Processes |-> FALSE]
    /\ starts = [p \in Processes |-> 0]
    /\ hb = [p \in Processes |-> [k \in StartNumbers |-> "none"]]
    /\ boots = 0
    /\ record \in Configs \cup {NoRecord}
    /\ status = "inactive"
    /\ lost = [p \in Processes |-> FALSE]
    /\ raced = FALSE

-----------------------------------------------------------------------------
(* The process and its server.                                              *)

At(p, point) == pc[p] = point
Goto(p, point) == pc' = [pc EXCEPT ![p] = point]

(* The main thread is in the user's code, not inside start(). *)
Outside(p) == pc[p] \in {"ready", "raised", "up"}

(* ZyndBase.__init__ in a new process. *)
Boot(p) ==
    /\ At(p, "gone") /\ boots < MaxBoots
    /\ Goto(p, "ready")
    /\ \E c \in Configs : cfg' = [cfg EXCEPT ![p] = c]
    /\ boots' = boots + 1
    /\ UNCHANGED <<diff, server, stopping, starts, hb, registry, lost, raced>>

(* The process dies, its memory, its daemon threads and its sockets with it. *)
Crash(p) ==
    /\ ~At(p, "gone")
    /\ Goto(p, "gone")
    /\ cfg' = [cfg EXCEPT ![p] = NoRecord]
    /\ diff' = [diff EXCEPT ![p] = {}]
    /\ running' = [running EXCEPT ![p] = FALSE]
    /\ flask' = [flask EXCEPT ![p] = "none"]
    /\ store' = [store EXCEPT ![p] = "new"]
    /\ stopping' = [stopping EXCEPT ![p] = FALSE]
    /\ starts' = [starts EXCEPT ![p] = 0]
    /\ hb' = [hb EXCEPT ![p] = [k \in StartNumbers |-> "none"]]
    /\ lost' = [lost EXCEPT ![p] = FALSE]
    /\ UNCHANGED <<boots, registry, raced>>

(* start(): a server that is running already is not started again, but the
   rest of start() is repeated.                                              *)
Start(p) ==
    /\ Outside(p) /\ starts[p] < MaxStarts
    /\ starts' = [starts EXCEPT ![p] = @ + 1]
    /\ Goto(p, IF running[p] THEN "lookup" ELSE "probe")
    /\ UNCHANGED <<cfg, diff, server, stopping, hb, boots, registry, lost, raced>>

PortFree == \A q \in Processes : flask[q] # "listening"

(* The fail-fast probe: a stopped server still holds its port. *)
ProbeRaises(p) ==
    /\ At(p, "probe") /\ ~PortFree
    /\ Goto(p, "raised")
    /\ UNCHANGED <<cfg, diff, server, stopping, starts, hb, boots, registry, lost, raced>>

(* start_sweeper() does nothing on a store that has been shut down. *)
StartServer(p) ==
    /\ At(p, "probe") /\ PortFree
    /\ store' = [store EXCEPT ![p] = IF @ = "closed" THEN @ ELSE "swept"]
    /\ flask' = [flask EXCEPT ![p] = "starting"]
    /\ running' = [running EXCEPT ![p] = TRUE]
    /\ Goto(p, "lookup")
    /\ UNCHANGED <<cfg, diff, stopping, starts, hb, boots, registry, lost, raced>>

(* The server thread binds the port, unless another process was faster. *)
Bind(p) ==
    /\ flask[p] = "starting"
    /\ flask' = [flask EXCEPT ![p] = IF PortFree THEN "listening" ELSE "dead"]
    /\ UNCHANGED <<pc, cfg, diff, running, store, stopping, starts, hb, boots, registry, lost, raced>>

(* stop(): the heartbeat is told to end and the store is shut down.  The
   server thread serves on until the process ends.                           *)
Stop(p) ==
    /\ Outside(p)
    /\ stopping' = [stopping EXCEPT ![p] = TRUE]
    /\ store' = [store EXCEPT ![p] = "closed"]
    /\ running' = [running EXCEPT ![p] = FALSE]
    /\ UNCHANGED <<pc, cfg, diff, flask, starts, hb, boots, registry, lost, raced>>

-----------------------------------------------------------------------------
(* _upsert_on_registry.                                                     *)

(* The keys of `desired`: an optional field is among them only if the
   configuration gives it.                                                   *)
Desired(config) == DOMAIN config \ OnlyAtFirst

(* Variant: entity_url is not compared. *)
DiffOfNames(have, want) ==
    {f \in Desired(want) \ {"entity_url"} : f \in DOMAIN have => have[f] # want[f]}

(* _compute_update_diff: only the keys of `desired` are looked at. *)
Diff(have, want) == {f \in Desired(want) : f \in DOMAIN have => have[f] # want[f]}

(* The main thread is between its lookup and its write. *)
Writing(p) == pc[p] \in {"update", "register", "fallback"}

(* Variant: an update is sent even when nothing changed. *)
AfterLookupAlways(p, found) ==
    IF found # NoRecord THEN "update" ELSE IF p \in HasKey THEN "register" ELSE "heartbeat"

(* What follows the lookup: an update if a field differs, a registration if
   there is no record and a developer key to sign it with.                   *)
AfterLookup(p, found) ==
    IF found # NoRecord
    THEN IF Diff(found, cfg[p]) # {} THEN "update" ELSE "heartbeat"
    ELSE IF p \in HasKey THEN "register" ELSE "heartbeat"

(* get_entity() answers None both for "not found" and for a failed request. *)
Lookup(p) ==
    /\ At(p, "lookup")
    /\ \E found \in {record} \cup IF "lookup" \in Failures THEN {NoRecord} ELSE {} :
          /\ diff' = [diff EXCEPT ![p] = IF found = NoRecord THEN {} ELSE Diff(found, cfg[p])]
          /\ Goto(p, AfterLookup(p, found))
    /\ raced' = (raced \/ \E q \in Processes \ {p} : Writing(q))
    /\ UNCHANGED <<cfg, server, stopping, starts, hb, boots, registry, lost>>

(* get_entity() raises: the upsert is given up. *)
LookupRaises(p) ==
    /\ "lookup" \in Failures
    /\ At(p, "lookup")
    /\ lost' = [lost EXCEPT ![p] = TRUE]
    /\ Goto(p, "heartbeat")
    /\ UNCHANGED <<cfg, diff, server, stopping, starts, hb, boots, registry, raced>>

(* The record after an update of some of its fields. *)
Updated(have, fields, want) ==
    [f \in DOMAIN have \cup fields |-> IF f \in fields THEN want[f] ELSE have[f]]

(* update_entity() reached the registry.  Its result, False when the answer is
   not 200 or was lost, is not looked at.                                    *)
Update(p) ==
    /\ At(p, "update") \/ At(p, "fallback")
    /\ record' = IF record = NoRecord THEN NoRecord ELSE Updated(record, diff[p], cfg[p])
    /\ diff' = [diff EXCEPT ![p] = {}]
    /\ Goto(p, "heartbeat")
    /\ UNCHANGED <<cfg, server, stopping, starts, hb, boots, status, lost, raced>>

UpdateFails(p) ==
    /\ "update" \in Failures
    /\ At(p, "update") \/ At(p, "fallback")
    /\ lost' = [lost EXCEPT ![p] = TRUE]
    /\ diff' = [diff EXCEPT ![p] = {}]
    /\ Goto(p, "heartbeat")
    /\ UNCHANGED <<cfg, server, stopping, starts, hb, boots, registry, raced>>

(* A registration carries every field the configuration gives. *)
Register(p) ==
    /\ At(p, "register") /\ record = NoRecord
    /\ record' = cfg[p]
    /\ Goto(p, "heartbeat")
    /\ UNCHANGED <<cfg, diff, server, stopping, starts, hb, boots, status, lost, raced>>

(* Variant: a 409 is an error like any other. *)
ConflictGivesUp(p) ==
    /\ At(p, "register") /\ record # NoRecord
    /\ Goto(p, "heartbeat")
    /\ UNCHANGED <<cfg, diff, server, stopping, starts, hb, boots, registry, lost, raced>>

(* Variant: the fallback sends the difference to the failed lookup. *)
ConflictKeepsDiff(p) ==
    /\ At(p, "register") /\ record # NoRecord
    /\ Goto(p, "fallback")
    /\ UNCHANGED <<cfg, diff, server, stopping, starts, hb, boots, registry, lost, raced>>

(* The registry answers 409, the lookup having failed or been overtaken: all of
   `desired` is sent as an update.                                           *)
Conflict(p) ==
    /\ At(p, "register") /\ record # NoRecord
    /\ diff' = [diff EXCEPT ![p] = Desired(cfg[p])]
    /\ Goto(p, "fallback")
    /\ UNCHANGED <<cfg, server, stopping, starts, hb, boots, registry, lost, raced>>

(* Any other failure; the registration may have been carried out.  A message in
   which "409" merely occurs is taken for a conflict.                        *)
RegisterFails(p) ==
    /\ "register" \in Failures
    /\ At(p, "register")
    /\ record' \in {record} \cup IF record = NoRecord THEN {cfg[p]} ELSE {}
    /\ lost' = [lost EXCEPT ![p] = TRUE]
    /\ \/ /\ Goto(p, "heartbeat")
          /\ UNCHANGED diff
       \/ /\ Goto(p, "fallback")
          /\ diff' = [diff EXCEPT ![p] = Desired(cfg[p])]
    /\ UNCHANGED <<cfg, server, stopping, starts, hb, boots, status, raced>>

-----------------------------------------------------------------------------
(* The heartbeat threads: one for every call of start().                    *)

StartHeartbeat(p) ==
    /\ At(p, "heartbeat")
    /\ hb' = [hb EXCEPT ![p][starts[p]] = "check"]
    /\ Goto(p, "up")
    /\ lost' = [lost EXCEPT ![p] = FALSE]
    /\ UNCHANGED <<cfg, diff, server, stopping, starts, boots, registry, raced>>

Beats(p, k, from, to) ==
    /\ hb[p][k] = from
    /\ hb' = [hb EXCEPT ![p][k] = to]
    /\ UNCHANGED <<pc, cfg, diff, server, stopping, starts, boots, record, lost, raced>>

(* Variant: the outer loop does not look at the Event. *)
CheckForever(p, k) == Beats(p, k, "check", "connect") /\ UNCHANGED status

Check(p, k) ==
    /\ Beats(p, k, "check", IF stopping[p] THEN "ended" ELSE "connect")
    /\ UNCHANGED status

Connect(p, k) == Beats(p, k, "connect", "connected") /\ UNCHANGED status

Connected(p, k) ==
    /\ Beats(p, k, "connected", IF stopping[p] THEN "check" ELSE "send")
    /\ UNCHANGED status

(* A signed timestamp arrives: the registry counts a registered entity active. *)
Send(p, k) ==
    /\ Beats(p, k, "send", "sleep")
    /\ status' = IF record = NoRecord THEN status ELSE "active"

Sleep(p, k) ==
    /\ Beats(p, k, "sleep", IF stopping[p] THEN "ended" ELSE "connected")
    /\ UNCHANGED status

(* Variant: an exception ends the thread. *)
LosesConnectionForGood(p, k) ==
    /\ \/ "connect" \in Failures /\ Beats(p, k, "connect", "ended")
       \/ "beat" \in Failures /\ Beats(p, k, "send", "ended")
    /\ UNCHANGED status

(* connect() or send() raises: reconnect after five seconds. *)
LosesConnection(p, k) ==
    /\ \/ "connect" \in Failures /\ Beats(p, k, "connect", "backoff")
       \/ "beat" \in Failures /\ Beats(p, k, "send", "backoff")
    /\ UNCHANGED status

Backoff(p, k) ==
    /\ Beats(p, k, "backoff", IF stopping[p] THEN "ended" ELSE "check")
    /\ UNCHANGED status

(* The registry has not heard of the entity for too long. *)
Expire ==
    /\ status = "active"
    /\ status' = "inactive"
    /\ UNCHANGED <<pc, cfg, diff, server, stopping, starts, hb, boots, record, lost, raced>>

-----------------------------------------------------------------------------

(* The steps of start() once it has been called. *)
StartStep(p) ==
    \/ ProbeRaises(p) \/ StartServer(p)
    \/ Lookup(p) \/ LookupRaises(p) \/ Update(p) \/ UpdateFails(p)
    \/ Register(p) \/ Conflict(p) \/ RegisterFails(p)
    \/ StartHeartbeat(p)

BeatStep(p, k) ==
    \/ Check(p, k) \/ Connect(p, k) \/ Connected(p, k) \/ Send(p, k) \/ Sleep(p, k)
    \/ LosesConnection(p, k) \/ Backoff(p, k)

Next ==
    \/ \E p \in Processes :
          \/ Boot(p) \/ Crash(p) \/ Start(p) \/ Stop(p) \/ Bind(p)
          \/ StartStep(p)
          \/ \E k \in StartNumbers : BeatStep(p, k)
    \/ Expire

Spec == Init /\ [][Next]_vars

(* Threads that can run do run, and the network is not down for ever: a
   connection that is tried again and again, and a message sent again and
   again, get through some time.                                             *)
Fairness ==
    \A p \in Processes :
        /\ WF_vars(StartStep(p))
        /\ \A k \in StartNumbers :
              /\ WF_vars(BeatStep(p, k))
              /\ SF_vars(Connect(p, k))
              /\ SF_vars(Send(p, k))

FairSpec == Spec /\ Fairness

-----------------------------------------------------------------------------
(* Properties.                                                              *)

Points == {"gone", "ready", "probe", "raised", "lookup", "update", "register",
           "fallback", "heartbeat", "up"}
BeatPoints == {"none", "check", "connect", "connected", "send", "sleep", "backoff", "ended"}

(* Every variable holds a value the program can hold, an update carries a field
   at least and only fields of `desired`, and one process at most listens on the
   port.                                                                     *)
TypeOK ==
    /\ pc \in [Processes -> Points]
    /\ cfg \in [Processes -> Configs \cup {NoRecord}]
    /\ \A p \in Processes : cfg[p] = NoRecord <=> pc[p] = "gone"
    /\ diff \in [Processes -> SUBSET Fields]
    /\ \A p \in Processes : diff[p] \subseteq Desired(cfg[p])
    /\ \A p \in Processes : pc[p] \in {"update", "fallback"} => diff[p] # {}
    /\ running \in [Processes -> BOOLEAN]
    /\ flask \in [Processes -> {"none", "starting", "listening", "dead"}]
    /\ \A p, q \in Processes : flask[p] = "listening" /\ flask[q] = "listening" => p = q
    /\ store \in [Processes -> {"new", "swept", "closed"}]
    /\ stopping \in [Processes -> BOOLEAN]
    /\ starts \in [Processes -> 0 .. MaxStarts]
    /\ hb \in [Processes -> [StartNumbers -> BeatPoints]]
    /\ boots \in 0 .. MaxBoots
    /\ record \in Records
    /\ record # NoRecord => Always \subseteq DOMAIN record
    /\ status \in {"active", "inactive"}
    /\ lost \in [Processes -> BOOLEAN]
    /\ raced \in BOOLEAN

(* The record agrees with a configuration on everything that an upsert with that
   configuration sends.                                                      *)
Shows(have, config) == \A f \in Desired(config) : f \in DOMAIN have /\ have[f] = config[f]

(* The registry never shows a mixture of two deployments in the fields an upsert
   sends: although an update carries only those that differed at the lookup, and
   although any request, and the process itself, may fail between the two, the
   record shows one configuration, as long as no two processes upserted at once.
   What that configuration's upserts do not send may be another's: an optional
   field it does not give, and the fields sent at the first registration only. *)
RecordIsOneConfig == ~raced /\ record # NoRecord => \E c \in Configs : Shows(record, c)

(* An upsert that was not given up and none of whose writes failed leaves the
   registry with what the process desires, even when its lookup failed: the
   registration is then refused with 409 and all of `desired` is updated instead.
   Fields the process does not send keep what they had.                       *)
UpsertPublishes ==
    [][\A p \in HasKey :
          pc[p] # "heartbeat" /\ pc'[p] = "heartbeat" /\ ~lost'[p] /\ ~raced'
              => /\ Shows(record', cfg[p])
                 /\ \A f \in DOMAIN record \ Desired(cfg[p]) :
                        f \in DOMAIN record' /\ record'[f] = record[f]]_vars

(* The inductive invariant behind both: of two processes between their lookup
   and their write one was late, and else the difference an update carries is
   still the difference to the record it will meet. *)
UpsertInv ==
    /\ \A p, q \in Processes : Writing(p) /\ Writing(q) /\ p # q => raced
    /\ \A p \in Processes :
          /\ pc[p] = "update" /\ ~raced => record # NoRecord /\ diff[p] = Diff(record, cfg[p])
          /\ pc[p] = "fallback" => diff[p] = Desired(cfg[p]) /\ (lost[p] \/ record # NoRecord)
    /\ RecordIsOneConfig

(* "registered entities stay active": a registered entity that is up is counted
   active again and again, whatever connections and messages are lost. *)
HeartbeatKeepsActive ==
    \A p \in Processes :
        LET Up == pc[p] = "up" /\ ~stopping[p] /\ record # NoRecord
        IN  Up ~> (status = "active" \/ ~Up)

(* After stop() every heartbeat thread of the process ends, also one that is
   reconnecting or that a repeated start() created. *)
StopEndsHeartbeats ==
    \A p \in Processes :
        stopping[p] ~> (~stopping[p] \/ \A k \in StartNumbers : hb[p][k] \in {"none", "ended"})
=============================================================================
