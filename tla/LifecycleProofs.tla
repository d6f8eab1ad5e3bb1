--------------------------- MODULE LifecycleProofs ---------------------------
(***************************************************************************)
(* Proofs about Lifecycle, for any number of processes, fields and         *)
(* configurations, and for any failures.                                   *)
(***************************************************************************)
EXTENDS Lifecycle, TLAPS

(* A configuration has fields, some of which every upsert sends, and NoRecord has
   none. *)
LEMMA NoRecordIsNoConfig ==
  /\ NoRecord \notin Configs /\ NoRecord \in Records /\ Desired(NoRecord) = {}
  /\ \A c \in Configs : Desired(c) # {} /\ Desired(c) \subseteq Fields
  <1>1. DOMAIN NoRecord = {}
    BY DEF NoRecord
  <1>2. \A r \in Records : DOMAIN r \subseteq Fields
    BY DEF Records
  <1>3. NoRecord \in [{} -> Values]
    BY DEF NoRecord
  <1> QED
    BY <1>1, <1>2, <1>3, ConfigsAssumption DEF Desired, Records

(* A difference consists of fields of `desired`. *)
LEMMA DiffIsDesired == \A have, want : Diff(have, want) \subseteq Desired(want)
  BY DEF Diff

(* An update of fields of `desired` makes a record of a record. *)
LEMMA UpdatedRecord ==
  \A have \in Records, want \in Configs : \A fields :
     fields \subseteq Desired(want) => Updated(have, fields, want) \in Records
  <1> SUFFICES ASSUME NEW have \in Records, NEW want \in Configs, NEW fields,
                      fields \subseteq Desired(want)
               PROVE  Updated(have, fields, want) \in Records
    OBVIOUS
  <1>1. PICK D \in SUBSET Fields : have \in [D -> Values]
    BY DEF Records
  <1>2. PICK E \in SUBSET Fields : want \in [E -> Values]
    BY ConfigsAssumption DEF Records
  <1>3. fields \subseteq E
    BY <1>2 DEF Desired
  <1>4. Updated(have, fields, want) \in [D \cup fields -> Values]
    BY <1>1, <1>2, <1>3 DEF Updated
  <1>5. D \cup fields \in SUBSET Fields
    BY <1>3
  <1> QED
    BY <1>4, <1>5 DEF Records

(* The initial state is well typed. *)
LEMMA InitType == Init => TypeOK
  <1> SUFFICES ASSUME Init PROVE TypeOK
    OBVIOUS
  <1> USE DEF Init
  <1>1. /\ pc \in [Processes -> Points]
        /\ running \in [Processes -> BOOLEAN] /\ stopping \in [Processes -> BOOLEAN]
        /\ flask \in [Processes -> {"none", "starting", "listening", "dead"}]
        /\ store \in [Processes -> {"new", "swept", "closed"}]
        /\ diff \in [Processes -> SUBSET Fields]
        /\ \A p \in Processes : diff[p] \subseteq Desired(cfg[p])
        /\ lost \in [Processes -> BOOLEAN]
    BY DEF Points
  <1>2. starts \in [Processes -> 0 .. MaxStarts] /\ boots \in 0 .. MaxBoots
    BY LifecycleBounds
  <1>3. hb \in [Processes -> [StartNumbers -> BeatPoints]]
    BY DEF BeatPoints
  <1>4. record \in Records /\ (record # NoRecord => Always \subseteq DOMAIN record)
    BY ConfigsAssumption, NoRecordIsNoConfig
  <1>5. /\ cfg \in [Processes -> Configs \cup {NoRecord}]
        /\ \A p \in Processes : cfg[p] = NoRecord <=> pc[p] = "gone"
    OBVIOUS
  <1> QED
    BY <1>1, <1>2, <1>3, <1>4, <1>5 DEF TypeOK

(* So is what any step makes of a well-typed state. *)
LEMMA StepType == TypeOK /\ [Next]_vars => TypeOK'
  <1> SUFFICES ASSUME TypeOK, [Next]_vars PROVE TypeOK'
    OBVIOUS
  <1> USE DEF server, registry
  <1>1. ASSUME NEW p \in Processes, Boot(p) PROVE TypeOK'
    <2>1. PICK c \in Configs : cfg' = [cfg EXCEPT ![p] = c]
      BY <1>1 DEF Boot
    <2>2. /\ cfg' \in [Processes -> Configs \cup {NoRecord}]
          /\ pc' \in [Processes -> Points]
          /\ \A q \in Processes : cfg'[q] = NoRecord <=> pc'[q] = "gone"
      BY <1>1, <2>1, NoRecordIsNoConfig DEF Boot, TypeOK, Points, At, Goto
    <2>3. /\ \A q \in Processes : pc'[q] \in {"update", "fallback"} => diff'[q] # {}
          /\ \A q \in Processes : diff'[q] \subseteq Desired(cfg'[q])
      <3>1. diff[p] = {}
        BY <1>1, NoRecordIsNoConfig DEF Boot, TypeOK, At
      <3> QED
        BY <1>1, <2>1, <3>1 DEF Boot, TypeOK, At, Goto
    <2>4. boots' \in 0 .. MaxBoots
      BY <1>1, LifecycleBounds DEF Boot, TypeOK
    <2> QED
      BY <1>1, <2>2, <2>3, <2>4 DEF Boot, TypeOK
  <1>2. ASSUME NEW p \in Processes, Crash(p) PROVE TypeOK'
    <2> USE <1>2 DEF Crash, At, Goto
    <2>1. /\ pc' \in [Processes -> Points]
          /\ cfg' \in [Processes -> Configs \cup {NoRecord}]
          /\ \A q \in Processes : cfg'[q] = NoRecord <=> pc'[q] = "gone"
      BY DEF TypeOK, Points
    <2>2. /\ diff' \in [Processes -> SUBSET Fields]
          /\ \A q \in Processes : diff'[q] \subseteq Desired(cfg'[q])
          /\ \A q \in Processes : pc'[q] \in {"update", "fallback"} => diff'[q] # {}
      BY DEF TypeOK
    <2>3. /\ running' \in [Processes -> BOOLEAN] /\ stopping' \in [Processes -> BOOLEAN]
          /\ store' \in [Processes -> {"new", "swept", "closed"}]
          /\ lost' \in [Processes -> BOOLEAN]
      BY DEF TypeOK
    <2>4. /\ flask' \in [Processes -> {"none", "starting", "listening", "dead"}]
          /\ \A q, x \in Processes : flask'[q] = "listening" /\ flask'[x] = "listening" => q = x
      BY DEF TypeOK
    <2>5. starts' \in [Processes -> 0 .. MaxStarts]
      BY LifecycleBounds DEF TypeOK
    <2>6. hb' \in [Processes -> [StartNumbers -> BeatPoints]]
      BY DEF TypeOK, BeatPoints
    <2> QED
      BY <2>1, <2>2, <2>3, <2>4, <2>5, <2>6 DEF TypeOK
  <1>3. ASSUME NEW p \in Processes, Start(p) PROVE TypeOK'
    BY <1>3, LifecycleBounds DEF Start, Outside, TypeOK, Points, BeatPoints, At, Goto
  <1>4. ASSUME NEW p \in Processes, Stop(p) PROVE TypeOK'
    BY <1>4 DEF Stop, Outside, TypeOK, Points, BeatPoints, At, Goto
  <1>5. ASSUME NEW p \in Processes, Bind(p) PROVE TypeOK'
    BY <1>5 DEF Bind, PortFree, TypeOK, Points, BeatPoints, At, Goto
  <1>6. ASSUME NEW p \in Processes, StartStep(p) PROVE TypeOK'
    <2>1. CASE ProbeRaises(p)
      BY <2>1 DEF ProbeRaises, TypeOK, Points, BeatPoints, At, Goto
    <2>2. CASE StartServer(p)
      BY <2>2 DEF StartServer, PortFree, TypeOK, Points, BeatPoints, At, Goto
    <2>3. CASE Lookup(p)
      <3>1. PICK found \in {record, NoRecord} :
              /\ diff' = [diff EXCEPT ![p] = IF found = NoRecord THEN {}
                                             ELSE Diff(found, cfg[p])]
              /\ pc' = [pc EXCEPT ![p] = AfterLookup(p, found)]
        BY <2>3 DEF Lookup, Goto
      <3>2. cfg[p] \in Configs /\ UNCHANGED cfg
        BY <2>3 DEF Lookup, At, TypeOK
      <3>3. Diff(found, cfg[p]) \subseteq Desired(cfg[p]) /\ Desired(cfg[p]) \subseteq Fields
        BY <3>2, DiffIsDesired, NoRecordIsNoConfig
      <3>4. /\ diff' \in [Processes -> SUBSET Fields]
            /\ \A q \in Processes : diff'[q] \subseteq Desired(cfg'[q])
        BY <3>1, <3>2, <3>3 DEF TypeOK
      <3>5. AfterLookup(p, found) \in {"update", "register", "heartbeat"}
        BY DEF AfterLookup
      <3>6. AfterLookup(p, found) = "update" => found # NoRecord /\ Diff(found, cfg[p]) # {}
        BY DEF AfterLookup
      <3>7. /\ pc' \in [Processes -> Points]
            /\ \A q \in Processes : cfg'[q] = NoRecord <=> pc'[q] = "gone"
            /\ \A q \in Processes : pc'[q] \in {"update", "fallback"} => diff'[q] # {}
        BY <2>3, <3>1, <3>2, <3>5, <3>6 DEF Lookup, At, TypeOK, Points
      <3>8. raced' \in BOOLEAN
        BY <2>3 DEF Lookup, Writing, TypeOK
      <3> QED
        BY <2>3, <3>4, <3>7, <3>8 DEF Lookup, TypeOK
    <2>10. CASE LookupRaises(p)
      BY <2>10 DEF LookupRaises, TypeOK, Points, BeatPoints, At, Goto
    <2>4. CASE Update(p)
      <3>1. /\ pc' \in [Processes -> Points] /\ diff' \in [Processes -> SUBSET Fields]
            /\ \A q \in Processes : diff'[q] \subseteq Desired(cfg'[q])
            /\ \A q \in Processes : cfg'[q] = NoRecord <=> pc'[q] = "gone"
            /\ \A q \in Processes : pc'[q] \in {"update", "fallback"} => diff'[q] # {}
        BY <2>4 DEF Update, TypeOK, Points, At, Goto
      <3>2. cfg[p] \in Configs /\ diff[p] \subseteq Desired(cfg[p])
        BY <2>4 DEF Update, At, TypeOK
      <3>3. record' \in Records /\ (record' # NoRecord => Always \subseteq DOMAIN record')
        <4>1. CASE record = NoRecord
          BY <2>4, <4>1 DEF Update, TypeOK
        <4>2. CASE record # NoRecord
          <5>1. record' = Updated(record, diff[p], cfg[p])
            BY <2>4, <4>2 DEF Update
          <5>2. record \in Records /\ Always \subseteq DOMAIN record
            BY <4>2 DEF TypeOK
          <5>3. Updated(record, diff[p], cfg[p]) \in Records
            BY <3>2, <5>2, UpdatedRecord
          <5>4. record' \in Records /\ DOMAIN record' = DOMAIN record \cup diff[p]
            <6>1. DOMAIN Updated(record, diff[p], cfg[p]) = DOMAIN record \cup diff[p]
              BY DEF Updated
            <6> QED
              BY <5>1, <5>3, <6>1
          <5> QED
            BY <5>2, <5>4
        <4> QED
          BY <4>1, <4>2
      <3> QED
        BY <2>4, <3>1, <3>3 DEF Update, TypeOK
    <2>5. CASE UpdateFails(p)
      BY <2>5 DEF UpdateFails, TypeOK, Points, BeatPoints, At, Goto
    <2>6. CASE Register(p)
      <3>1. record' \in Records /\ Always \subseteq DOMAIN record'
        BY <2>6, ConfigsAssumption DEF Register, At, TypeOK
      <3> QED
        BY <2>6, <3>1 DEF Register, TypeOK, Points, BeatPoints, At, Goto
    <2>7. CASE Conflict(p)
      BY <2>7, NoRecordIsNoConfig DEF Conflict, TypeOK, Points, BeatPoints, At, Goto
    <2>8. CASE RegisterFails(p)
      <3>1. record' \in Records /\ (record' # NoRecord => Always \subseteq DOMAIN record')
        BY <2>8, ConfigsAssumption DEF RegisterFails, At, TypeOK
      <3>2. /\ pc' \in [Processes -> Points]
            /\ diff' \in [Processes -> SUBSET Fields]
            /\ \A q \in Processes : diff'[q] \subseteq Desired(cfg'[q])
            /\ \A q \in Processes : pc'[q] \in {"update", "fallback"} => diff'[q] # {}
            /\ \A q \in Processes : cfg'[q] = NoRecord <=> pc'[q] = "gone"
        <4>1. CASE Goto(p, "heartbeat") /\ UNCHANGED diff
          BY <2>8, <4>1 DEF RegisterFails, TypeOK, Points, At, Goto
        <4>2. CASE Goto(p, "fallback") /\ diff' = [diff EXCEPT ![p] = Desired(cfg[p])]
          BY <2>8, <4>2, NoRecordIsNoConfig DEF RegisterFails, TypeOK, Points, At, Goto
        <4> QED
          BY <2>8, <4>1, <4>2 DEF RegisterFails
      <3>3. lost' \in [Processes -> BOOLEAN]
        BY <2>8 DEF RegisterFails, TypeOK
      <3> QED
        BY <2>8, <3>1, <3>2, <3>3 DEF RegisterFails, TypeOK
    <2>9. CASE StartHeartbeat(p)
      BY <2>9 DEF StartHeartbeat, TypeOK, Points, BeatPoints, At, Goto
    <2> QED
      BY <1>6, <2>1, <2>2, <2>3, <2>4, <2>5, <2>6, <2>7, <2>8, <2>9, <2>10 DEF StartStep
  <1>7. ASSUME NEW p \in Processes, NEW k \in StartNumbers, BeatStep(p, k) PROVE TypeOK'
    <2>1. PICK from, to \in BeatPoints : Beats(p, k, from, to)
      BY <1>7 DEF BeatStep, Check, Connect, Connected, Send, Sleep, LosesConnection, Backoff,
                  BeatPoints
    <2>2. hb' \in [Processes -> [StartNumbers -> BeatPoints]]
      BY <2>1 DEF Beats, TypeOK
    <2>3. status' \in {"active", "inactive"}
      BY <1>7 DEF BeatStep, Check, Connect, Connected, Send, Sleep, LosesConnection, Backoff, TypeOK
    <2> QED
      BY <2>1, <2>2, <2>3 DEF Beats, TypeOK
  <1>8. CASE Expire
    BY <1>8 DEF Expire, TypeOK
  <1>9. CASE UNCHANGED vars
    BY <1>9 DEF vars, TypeOK
  <1> QED
    BY <1>1, <1>2, <1>3, <1>4, <1>5, <1>6, <1>7, <1>8, <1>9 DEF Next

(* The type invariant, including that an update never goes out empty and that the
   port has one owner. *)
THEOREM TypeCorrect == Spec => []TypeOK
  BY InitType, StepType, PTL DEF Spec

-----------------------------------------------------------------------------
(* The upsert.                                                              *)

(* Before anything was written. *)
LEMMA InitUpsert == Init => UpsertInv
  <1> SUFFICES ASSUME Init PROVE UpsertInv
    OBVIOUS
  <1>1. record \in Configs \cup {NoRecord} /\ \A p \in Processes : pc[p] = "gone"
    BY DEF Init
  <1>2. RecordIsOneConfig
    BY <1>1 DEF RecordIsOneConfig, Shows, Desired
  <1> QED
    BY <1>1, <1>2 DEF UpsertInv, Writing

(* Steps that leave the registry and every upsert alone, but may abandon one. *)
LEMMA QuietStep ==
  ASSUME UpsertInv, UNCHANGED <<record, raced>>,
         \A p \in Processes : \/ ~Writing(p)'
                            \/ UNCHANGED <<pc[p], cfg[p], diff[p], lost[p]>>
  PROVE  UpsertInv'
  BY DEF UpsertInv, Writing, RecordIsOneConfig, Diff, Shows

(* The lookup: a record that is found is the record the difference refers to, and
   whoever comes between another process's lookup and write sets raced. *)
LEMMA LookupStep ==
  ASSUME TypeOK, UpsertInv, NEW p \in Processes, Lookup(p)
  PROVE  UpsertInv'
  <1>1. PICK found \in {record, NoRecord} :
          /\ diff' = [diff EXCEPT ![p] = IF found = NoRecord THEN {} ELSE Diff(found, cfg[p])]
          /\ pc' = [pc EXCEPT ![p] = AfterLookup(p, found)]
    BY DEF Lookup, Goto
  <1>2. pc[p] = "lookup" /\ UNCHANGED <<record, cfg, lost>>
    BY DEF Lookup, At, registry
  <1>3. pc'[p] \in {"update", "register", "heartbeat"}
    BY <1>1 DEF AfterLookup, TypeOK
  <1>4. \A q \in Processes \ {p} : pc'[q] = pc[q] /\ diff'[q] = diff[q]
    BY <1>1 DEF TypeOK
  <1>5. \A x, y \in Processes : Writing(x)' /\ Writing(y)' /\ x # y => raced'
    BY <1>4 DEF Lookup, UpsertInv, Writing
  <1>6. raced => raced'
    BY DEF Lookup
  <1>7. pc'[p] = "update" => record # NoRecord /\ diff'[p] = Diff(record, cfg[p])
    BY <1>1 DEF AfterLookup, TypeOK
  <1>8. \A q \in Processes :
          /\ pc'[q] = "update" /\ ~raced' => record' # NoRecord /\ diff'[q] = Diff(record', cfg'[q])
          /\ pc'[q] = "fallback" => diff'[q] = Desired(cfg'[q]) /\ (lost'[q] \/ record' # NoRecord)
    BY <1>2, <1>3, <1>4, <1>6, <1>7 DEF UpsertInv, Diff
  <1> QED
    BY <1>2, <1>5, <1>6, <1>8 DEF UpsertInv, RecordIsOneConfig, Shows

(* A write that nobody overtook makes the record show the writer's configuration,
   and leaves it the fields the writer does not send. *)
LEMMA UpdateShowsConfig ==
  ASSUME TypeOK, UpsertInv, NEW p \in Processes, Update(p), ~raced, record # NoRecord
  PROVE  /\ Shows(record', cfg[p])
         /\ \A f \in DOMAIN record \ Desired(cfg[p]) :
               f \in DOMAIN record' /\ record'[f] = record[f]
  <1>1. cfg[p] \in Configs /\ diff[p] \subseteq Desired(cfg[p])
    BY DEF Update, At, TypeOK
  <1>2. record' = Updated(record, diff[p], cfg[p])
    BY DEF Update
  <1>4. /\ DOMAIN record' = DOMAIN record \cup diff[p]
        /\ \A f \in diff[p] : record'[f] = cfg[p][f]
        /\ \A f \in DOMAIN record \ diff[p] : record'[f] = record[f]
    BY <1>2 DEF Updated
  <1>5. \A f \in Desired(cfg[p]) \ diff[p] : f \in DOMAIN record /\ record[f] = cfg[p][f]
    BY DEF Update, At, UpsertInv, Diff
  <1> QED
    BY <1>1, <1>4, <1>5 DEF Shows

(* While nobody else is writing, a write disturbs nobody's difference. *)
LEMMA WriteStep ==
  ASSUME TypeOK, UpsertInv, NEW p \in Processes, Writing(p),
         UNCHANGED <<cfg, raced>>, record' # NoRecord \/ record' = record,
         ~raced /\ record' # NoRecord => \E c \in Configs : Shows(record', c),
         \A q \in Processes \ {p} : UNCHANGED <<pc[q], diff[q], lost[q]>>,
         \/ pc'[p] = "heartbeat"
         \/ pc'[p] = "fallback" /\ diff'[p] = Desired(cfg'[p]) /\ (lost'[p] \/ record' # NoRecord)
  PROVE  UpsertInv'
  <1>1. \A x, y \in Processes : Writing(x)' /\ Writing(y)' /\ x # y => raced'
    BY DEF UpsertInv, Writing
  <1>2. \A q \in Processes : pc'[q] = "update" => raced'
    BY DEF UpsertInv, Writing
  <1>3. \A q \in Processes :
          pc'[q] = "fallback" => diff'[q] = Desired(cfg'[q]) /\ (lost'[q] \/ record' # NoRecord)
    BY DEF UpsertInv
  <1> QED
    BY <1>1, <1>2, <1>3 DEF UpsertInv, RecordIsOneConfig

(* UpsertInv is inductive, given that the state is well typed. *)
LEMMA UpsertStep == TypeOK /\ UpsertInv /\ [Next]_vars => UpsertInv'
  <1> SUFFICES ASSUME TypeOK, UpsertInv, [Next]_vars PROVE UpsertInv'
    OBVIOUS
  <1> USE DEF server, registry
  <1>1. ASSUME NEW p \in Processes,
               Boot(p) \/ Crash(p) \/ Start(p) \/ Stop(p) \/ Bind(p)
        PROVE  UpsertInv'
    <2>1. /\ UNCHANGED <<record, raced>>
          /\ ~Writing(p)' \/ UNCHANGED <<pc[p], cfg[p], diff[p], lost[p]>>
          /\ \A q \in Processes \ {p} : UNCHANGED <<pc[q], cfg[q], diff[q], lost[q]>>
      BY <1>1 DEF Boot, Crash, Start, Stop, Bind, Outside, At, Goto, Writing, TypeOK
    <2> QED
      BY <2>1, QuietStep
  <1>2. ASSUME NEW p \in Processes, StartStep(p) PROVE UpsertInv'
    <2>1. CASE ProbeRaises(p) \/ StartServer(p) \/ LookupRaises(p) \/ StartHeartbeat(p)
      <3>1. /\ UNCHANGED <<record, raced>>
            /\ ~Writing(p)'
            /\ \A q \in Processes \ {p} : UNCHANGED <<pc[q], cfg[q], diff[q], lost[q]>>
        BY <2>1 DEF ProbeRaises, StartServer, LookupRaises, StartHeartbeat, At, Goto, Writing, TypeOK
      <3> QED
        BY <3>1, QuietStep
    <2>2. CASE Lookup(p)
      BY <2>2, LookupStep
    <2>3. CASE Update(p)
      <3>1. cfg[p] \in Configs /\ diff[p] \subseteq Desired(cfg[p]) /\ diff[p] # {}
        BY <2>3 DEF Update, At, TypeOK
      <3>2. record' # NoRecord \/ record' = record
        <4>1. CASE record = NoRecord
          BY <2>3, <4>1 DEF Update
        <4>2. CASE record # NoRecord
          <5>1. DOMAIN record' = DOMAIN record \cup diff[p]
            BY <2>3, <4>2 DEF Update, Updated
          <5> QED
            BY <3>1, <5>1 DEF NoRecord
        <4> QED
          BY <4>1, <4>2
      <3>4. ~raced /\ record' # NoRecord => \E c \in Configs : Shows(record', c)
        <4>1. record = NoRecord => record' = NoRecord
          BY <2>3 DEF Update
        <4> QED
          BY <2>3, <3>1, <4>1, UpdateShowsConfig
      <3>3. /\ Writing(p) /\ pc'[p] = "heartbeat" /\ UNCHANGED <<cfg, raced>>
            /\ \A q \in Processes \ {p} : UNCHANGED <<pc[q], diff[q], lost[q]>>
        BY <2>3 DEF Update, At, Goto, Writing, TypeOK
      <3> QED
        BY <3>2, <3>3, <3>4, WriteStep
    <2>4. CASE UpdateFails(p)
      <3>1. /\ Writing(p) /\ pc'[p] = "heartbeat" /\ UNCHANGED <<record, cfg, raced>>
            /\ \A q \in Processes \ {p} : UNCHANGED <<pc[q], diff[q], lost[q]>>
        BY <2>4 DEF UpdateFails, At, Goto, Writing, TypeOK
      <3> QED
        BY <3>1, WriteStep DEF UpsertInv, RecordIsOneConfig, Shows
    <2>5. CASE Register(p)
      <3>1. record' \in Configs /\ Shows(record', record')
        BY <2>5 DEF Register, At, TypeOK, Shows, Desired
      <3>2. /\ Writing(p) /\ pc'[p] = "heartbeat" /\ UNCHANGED <<cfg, raced>>
            /\ \A q \in Processes \ {p} : UNCHANGED <<pc[q], diff[q], lost[q]>>
        BY <2>5 DEF Register, At, Goto, Writing, TypeOK
      <3> QED
        BY <3>1, <3>2, NoRecordIsNoConfig, WriteStep
    <2>6. CASE Conflict(p)
      <3>1. /\ Writing(p) /\ pc'[p] = "fallback" /\ diff'[p] = Desired(cfg'[p])
            /\ record # NoRecord /\ UNCHANGED <<record, cfg, raced>>
            /\ \A q \in Processes \ {p} : UNCHANGED <<pc[q], diff[q], lost[q]>>
        BY <2>6 DEF Conflict, At, Goto, Writing, TypeOK
      <3> QED
        BY <3>1, WriteStep DEF UpsertInv, RecordIsOneConfig, Shows
    <2>7. CASE RegisterFails(p)
      <3>1. /\ Writing(p) /\ lost'[p] /\ UNCHANGED <<cfg, raced>>
            /\ \/ pc'[p] = "heartbeat"
               \/ pc'[p] = "fallback" /\ diff'[p] = Desired(cfg'[p])
            /\ \A q \in Processes \ {p} : UNCHANGED <<pc[q], diff[q], lost[q]>>
        <4>1. Writing(p) /\ UNCHANGED <<cfg, raced>> /\ lost' = [lost EXCEPT ![p] = TRUE]
          BY <2>7 DEF RegisterFails, At, Writing
        <4>2. lost'[p] /\ \A q \in Processes \ {p} : UNCHANGED lost[q]
          BY <4>1 DEF TypeOK
        <4>3. CASE Goto(p, "heartbeat") /\ UNCHANGED diff
          BY <4>1, <4>2, <4>3 DEF Goto, TypeOK
        <4>4. CASE Goto(p, "fallback") /\ diff' = [diff EXCEPT ![p] = Desired(cfg[p])]
          <5>1. pc'[p] = "fallback" /\ diff'[p] = Desired(cfg'[p])
            BY <4>1, <4>4 DEF Goto, TypeOK
          <5>2. \A q \in Processes \ {p} : UNCHANGED <<pc[q], diff[q]>>
            BY <4>4 DEF Goto, TypeOK
          <5> QED
            BY <4>1, <4>2, <5>1, <5>2
        <4> QED
          BY <2>7, <4>3, <4>4 DEF RegisterFails
      <3>2. cfg[p] \in Configs /\ record' \in {record, cfg[p]} /\ Shows(cfg[p], cfg[p])
        BY <2>7 DEF RegisterFails, At, TypeOK, Shows, Desired
      <3> QED
        BY <3>1, <3>2, NoRecordIsNoConfig, WriteStep DEF UpsertInv, RecordIsOneConfig, Shows
    <2> QED
      BY <1>2, <2>1, <2>2, <2>3, <2>4, <2>5, <2>6, <2>7 DEF StartStep
  <1>3. ASSUME NEW p \in Processes, NEW k \in StartNumbers, BeatStep(p, k) PROVE UpsertInv'
    <2>1. UNCHANGED <<pc, cfg, diff, record, lost, raced>>
      BY <1>3 DEF BeatStep, Check, Connect, Connected, Send, Sleep, LosesConnection, Backoff, Beats
    <2> QED
      BY <2>1, QuietStep
  <1>4. CASE Expire \/ UNCHANGED vars
    BY <1>4, QuietStep DEF Expire, vars
  <1> QED
    BY <1>1, <1>2, <1>3, <1>4 DEF Next

(* The invariant behind the two theorems that follow. *)
THEOREM UpsertsCorrect == Spec => []UpsertInv
  BY InitUpsert, UpsertStep, TypeCorrect, PTL DEF Spec

(* In the fields its upserts send, the record is that of one deployment, whatever
   fails, unless two processes upserted at once. *)
THEOREM NoMixedRecord == Spec => []RecordIsOneConfig
  <1>1. UpsertInv => RecordIsOneConfig
    BY DEF UpsertInv
  <1> QED
    BY <1>1, UpsertsCorrect, PTL

(* An upsert that was not given up and whose writes did not fail has published what
   the process desires: there was no difference, or the write removed it. *)
THEOREM UpsertsPublish == Spec => UpsertPublishes
  <1> DEFINE Published(p) ==
               /\ Shows(record', cfg[p])
               /\ \A f \in DOMAIN record \ Desired(cfg[p]) :
                     f \in DOMAIN record' /\ record'[f] = record[f]
  <1> DEFINE Done(p) == pc[p] # "heartbeat" /\ pc'[p] = "heartbeat" /\ ~lost'[p] /\ ~raced'
  <1> USE DEF server, registry
  <1>1. ASSUME TypeOK, UpsertInv, Next, NEW p \in HasKey, Done(p) PROVE Published(p)
    <2>1. p \in Processes
      BY ProcessesAssumption
    <2>2. StartStep(p)
      <3>1. ASSUME NEW q \in Processes, NEW point \in Points \ {"heartbeat"}, Goto(q, point)
            PROVE  pc'[p] # "heartbeat" \/ pc'[p] = pc[p]
        BY <1>1, <2>1, <3>1 DEF Goto, TypeOK
      <3>2. ASSUME NEW q \in Processes, Boot(q) \/ Crash(q) \/ Start(q) \/ Stop(q) \/ Bind(q)
            PROVE  pc'[p] # "heartbeat" \/ pc'[p] = pc[p]
        <4>1. CASE Boot(q) \/ Crash(q) \/ Start(q)
          BY <3>1, <4>1 DEF Boot, Crash, Start, Points
        <4>2. CASE Stop(q) \/ Bind(q)
          BY <4>2 DEF Stop, Bind
        <4> QED
          BY <3>2, <4>1, <4>2
      <3>3. ASSUME NEW q \in Processes, NEW k \in StartNumbers, BeatStep(q, k) PROVE pc' = pc
        BY <3>3 DEF BeatStep, Check, Connect, Connected, Send, Sleep, LosesConnection, Backoff, Beats
      <3>4. ASSUME NEW q \in Processes \ {p}, StartStep(q) PROVE pc'[p] = pc[p]
        <4>1. \E point : Goto(q, point)
          BY <3>4 DEF StartStep, ProbeRaises, StartServer, Lookup, LookupRaises, Update, UpdateFails, Register,
                      Conflict, RegisterFails, StartHeartbeat
        <4> QED
          BY <1>1, <2>1, <4>1 DEF Goto, TypeOK
      <3> QED
        BY <1>1, <3>2, <3>3, <3>4 DEF Next, Expire
    <2>3. CASE Lookup(p)
      <3>1. PICK found \in {record, NoRecord} : pc' = [pc EXCEPT ![p] = AfterLookup(p, found)]
        BY <2>3 DEF Lookup, Goto
      <3>2. record # NoRecord /\ Diff(record, cfg[p]) = {}
        BY <1>1, <2>1, <3>1 DEF AfterLookup, TypeOK
      <3> QED
        BY <2>3, <3>2 DEF Lookup, Diff, Shows
    <2>4. CASE Update(p)
      <3>1. ~raced /\ ~lost[p] /\ pc[p] \in {"update", "fallback"}
        BY <1>1, <2>4 DEF Update, At
      <3>2. record # NoRecord
        BY <1>1, <2>1, <3>1 DEF UpsertInv
      <3> QED
        BY <1>1, <2>1, <2>4, <3>1, <3>2, UpdateShowsConfig
    <2>5. CASE Register(p)
      BY <2>5 DEF Register, Shows, Desired, NoRecord
    <2>6. CASE LookupRaises(p) \/ UpdateFails(p) \/ RegisterFails(p)
      BY <1>1, <2>1, <2>6 DEF LookupRaises, UpdateFails, RegisterFails, TypeOK
    <2>7. CASE ProbeRaises(p) \/ StartServer(p) \/ Conflict(p) \/ StartHeartbeat(p)
      BY <1>1, <2>1, <2>7 DEF ProbeRaises, StartServer, Conflict, StartHeartbeat, Goto, TypeOK
    <2> QED
      BY <2>2, <2>3, <2>4, <2>5, <2>6, <2>7 DEF StartStep
  <1>2. TypeOK /\ UpsertInv /\ [Next]_vars
          => [\A p \in HasKey : Done(p) => Published(p)]_vars
    BY <1>1
  <1> QED
    BY <1>2, TypeCorrect, UpsertsCorrect, PTL DEF Spec, UpsertPublishes
=============================================================================
