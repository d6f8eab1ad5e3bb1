-------------------------- MODULE DeploymentProofs --------------------------
(***************************************************************************)
(* Proofs about Deployment, for any number of programs that share the      *)
(* config file, of keys and of restarts, and for any conversation: an      *)
(* agent keeps its identity; the types; a stream loses nothing and ends    *)
(* with the final event; calls go to the endpoint the agent serves.        *)
(***************************************************************************)
EXTENDS Deployment, SequenceTheorems, WellFoundedInduction, TLAPS

Holding(p) == process[p].at \in {"start", "up"}

(* The keys in use and shown are all equal to one key. *)
AllAre(key) ==
    /\ \A p \in Processes : Holding(p) => process[p].key = key
    /\ \A k \in peers : k = key

(* With a key in the environment the file plays no part. *)
GivenInv == setup.given => AllAre(GivenKey)

(* With a derived key every file that is written has the same key: unless there
   was a legacy file, whose migration generates one. *)
DerivedInv ==
    ~setup.given /\ setup.derived /\ setup.first # "legacy" =>
        /\ file.kind # "legacy"
        /\ file.kind = "v2" => file.key = DerivedKey
        /\ \A p \in Processes : I!Saving(p) => process[p].key = DerivedKey
        /\ \A k \in registered : k = DerivedKey
        /\ AllAre(DerivedKey)

(* Undisturbed, the file is written once: one program at a time saves, before
   the file is complete and before any key is used; and what was registered and
   not abandoned is the key it saves, or the one that is saved. *)
WrittenOnce ==
    ~setup.given /\ ~disturbed =>
        /\ \A p, q \in Processes : I!Saving(p) /\ I!Saving(q) => p = q
        /\ \A p \in Processes : I!Saving(p) => file.kind # "v2"
        /\ \A p \in Processes : Holding(p) => file.kind = "v2" /\ process[p].key = file.key
        /\ \A k \in peers : file.kind = "v2" /\ k = file.key
        /\ \A p \in Processes : process[p].at = "write" => ~file.seed
        /\ \A k \in registered \ abandoned :
              \/ file.kind = "v2" /\ k = file.key
              \/ \E p \in Processes : I!Saving(p) /\ process[p].key = k

(* None of them is missing. *)
HasKey == \A p \in Processes : Holding(p) => process[p].key # None

IInv == IdentityTypeOK /\ AgentIsUp /\ HasKey /\ GivenInv /\ DerivedInv /\ WrittenOnce

(* The invariant is strong enough. *)
LEMMA Suffices == IInv => OneIdentity
  <1> SUFFICES ASSUME IInv, Steady PROVE OneIdentity
    BY DEF OneIdentity
  <1> DEFINE shown == peers \cup InUse \cup IF setup.given THEN {} ELSE OfFile
  <1>1. PICK key : \A k \in shown : k = key
    <2>1. CASE setup.given
      BY <2>1 DEF IInv, GivenInv, AllAre, Holding, InUse
    <2>2. CASE ~setup.given /\ setup.derived /\ setup.first # "legacy"
      BY <2>2 DEF IInv, DerivedInv, AllAre, Holding, InUse, OfFile
    <2>3. CASE ~setup.given /\ ~disturbed
      <3>1. CASE file.kind = "v2"
        BY <2>3, <3>1 DEF IInv, WrittenOnce, Holding, InUse, OfFile
      <3>2. CASE file.kind # "v2"
        <4>1. peers = {} /\ InUse = {}
          BY <2>3, <3>2 DEF IInv, WrittenOnce, Holding, InUse
        <4>2. \A k \in registered \ abandoned : \E p \in Processes :
                 I!Saving(p) /\ process[p].key = k
          BY <2>3, <3>2 DEF IInv, WrittenOnce
        <4>3. \A p, q \in Processes : I!Saving(p) /\ I!Saving(q) => p = q
          BY <2>3 DEF IInv, WrittenOnce
        <4>4. \A k, l \in registered \ abandoned : k = l
          BY <4>2, <4>3
        <4> QED
          BY <2>3, <3>2, <4>1, <4>4 DEF OfFile
      <3> QED
        BY <3>1, <3>2
    <2> QED
      BY <2>1, <2>2, <2>3 DEF Steady
  <1> QED
    BY <1>1 DEF OneIdentity

(* Nothing is in use at first. *)
LEMMA InitIdentity == Init => IInv
  <1> SUFFICES ASSUME Init PROVE IInv
    OBVIOUS
  <1> USE DEF Init, ExchangeInit, I!IdentityInit, I!FirstFiles, I!Content, I!Truncated,
              I!Process, I!Off
  <1>1. IdentityTypeOK
    <2>1. setup \in [given : BOOLEAN, derived : BOOLEAN, first : {"absent", "legacy", "broken"}]
      <3>1. file.kind \in {"absent", "legacy", "broken"}
        OBVIOUS
      <3>2. setup \in [given : BOOLEAN, derived : BOOLEAN, first : {file.kind}]
        OBVIOUS
      <3> QED
        BY ONLY <3>1, <3>2
    <2>2. file \in [kind : {"absent", "legacy", "broken", "v2"}, key : AllKeys \cup {None},
                   seed : BOOLEAN]
      <3>1. CASE file = [kind |-> "absent", key |-> None, seed |-> FALSE]
        BY ONLY <3>1
      <3>2. CASE file = [kind |-> "legacy", key |-> None, seed |-> TRUE]
        BY ONLY <3>2
      <3>3. CASE file = [kind |-> "broken", key |-> None, seed |-> FALSE]
        BY ONLY <3>3
      <3> QED
        BY <3>1, <3>2, <3>3
    <2>3. process \in [Processes -> [at : Ats, key : AllKeys \cup {None}, seed : BOOLEAN]]
      BY DEF Ats
    <2> QED
      BY <2>1, <2>2, <2>3 DEF IdentityTypeOK
  <1>2. \A p \in Processes : process[p].at = "off"
    OBVIOUS
  <1>3. setup.first = file.kind /\ file.kind # "v2" /\ peers = {}
    OBVIOUS
  <1>4. AgentIsUp
    BY <1>2 DEF AgentIsUp, I!Up
  <1> QED
    BY <1>1, <1>2, <1>3, <1>4 DEF IInv, HasKey, GivenInv, DerivedInv, WrittenOnce, AllAre, Holding, I!Saving

-----------------------------------------------------------------------------
(* Steps.                                                                   *)

(* A conversation shows callers no other entity than the agent that serves. *)
LEMMA TalkShows ==
  ASSUME Conversation
  PROVE  agent' = agent /\ peers' \subseteq peers \cup ({agent} \ {None})
  <1>1. CASE Resolve
    <2>1. call.target = Own => agent # None /\ OwnCard.entityId = agent
      BY <1>1 DEF Resolve, OwnCard, AgentCard, Signed
    <2> QED
      BY <1>1, <2>1 DEF Resolve
  <1>2. CASE Call \/ GiveUp \/ Refuse \/ Resume \/ Start
    BY <1>2 DEF Call, GiveUp, Refuse, Resume, Start
  <1>3. CASE \E n \in Turns : Return(n) \/ Ask(n) \/ Fail(n) \/ AskTimesOut(n)
    BY <1>3 DEF Return, Ask, Fail, AskTimesOut
  <1>4. CASE Respond \/ ForeignAnswer \/ Read
    BY <1>4 DEF Respond, ForeignAnswer, Read
  <1>5. CASE ReadChunk \/ TakeFrame \/ EndOfStream
    BY <1>5 DEF ReadChunk, TakeFrame, EndOfStream
  <1> QED
    BY <1>1, <1>2, <1>3, <1>4, <1>5 DEF Conversation

(* So what holds of the keys in use holds of those shown. *)
LEMMA TalkKeeps ==
  ASSUME IInv, Talk
  PROVE  IInv'
  <1>1. UNCHANGED identityVars /\ agent' = agent
        /\ peers' \subseteq peers \cup ({agent} \ {None})
    BY TalkShows DEF Talk
  <1>2. \A k \in peers' \ peers : \E p \in Processes : Holding(p) /\ process[p].key = k
    BY <1>1 DEF IInv, AgentIsUp, I!Up, Holding
  <1>3. IdentityTypeOK' /\ AgentIsUp'
    BY <1>1 DEF IInv, IdentityTypeOK, AgentIsUp, I!Up, identityVars
  <1>4. \A key : AllAre(key) => AllAre(key)'
    BY <1>1, <1>2 DEF AllAre, Holding, identityVars
  <1>5. GivenInv' /\ HasKey'
    BY <1>1, <1>4 DEF IInv, GivenInv, HasKey, Holding, identityVars
  <1>6. DerivedInv'
    BY <1>1, <1>4 DEF IInv, DerivedInv, identityVars, I!Saving
  <1>7. WrittenOnce'
    BY <1>1, <1>2 DEF IInv, WrittenOnce, identityVars, I!Saving, Holding
  <1> QED
    BY <1>3, <1>5, <1>6, <1>7 DEF IInv

(* A program that is not up goes from one place to another without a key. *)
LEMMA Moves ==
  ASSUME IInv, NEW p \in Processes, UNCHANGED exchangeVars,
         NEW r \in [at : Ats \ {"up"}, key : AllKeys \cup {None}, seed : BOOLEAN],
         ~I!Up(p), process' = [process EXCEPT ![p] = r]
  PROVE  /\ process' \in [Processes -> [at : Ats, key : AllKeys \cup {None}, seed : BOOLEAN]]
         /\ \A q \in Processes : process'[q] = IF q = p THEN r ELSE process[q]
         /\ AgentIsUp'
  <1>1. \A q \in Processes : process'[q] = IF q = p THEN r ELSE process[q]
    BY DEF IInv, IdentityTypeOK
  <1>2. process' \in [Processes -> [at : Ats, key : AllKeys \cup {None}, seed : BOOLEAN]]
    BY DEF IInv, IdentityTypeOK
  <1>3. \A q \in Processes : I!Up(q)' <=> I!Up(q)
    BY <1>1 DEF I!Up
  <1>4. agent' = agent
    BY DEF exchangeVars
  <1>5. AgentIsUp'
    BY <1>1, <1>3, <1>4 DEF IInv, AgentIsUp
  <1> QED
    BY <1>1, <1>2, <1>5

(* What a program does before it serves. *)
LEMMA PrepareKeeps ==
  ASSUME IInv, NEW p \in Processes, I!Preparation(p), UNCHANGED exchangeVars
  PROVE  IInv'
  <1> USE DEF I!Content, I!Truncated, I!Process, I!Off
  <1>0. peers' = peers /\ agent' = agent
    BY DEF exchangeVars
  <1>1. CASE I!LoadComplete(p) \/ I!PortTaken(p)
    <2>1. PICK r \in [at : {"off", "resolve"}, key : {None}, seed : {FALSE}] :
             process' = [process EXCEPT ![p] = r]
      BY <1>1 DEF I!LoadComplete, I!PortTaken, I!registry
    <2>2. UNCHANGED <<setup, file, minted, registered, abandoned, disturbed>> /\ process[p].at \in {"off", "start"}
      BY <1>1 DEF I!LoadComplete, I!PortTaken, I!registry
    <2>3. /\ process' \in [Processes -> [at : Ats, key : AllKeys \cup {None}, seed : BOOLEAN]]
          /\ \A q \in Processes : process'[q] = IF q = p THEN r ELSE process[q]
          /\ AgentIsUp'
      BY <2>1, <2>2, Moves DEF Ats, I!Up
    <2>4. \A q \in Processes : /\ Holding(q)' => Holding(q) /\ process'[q] = process[q]
                               /\ I!Saving(q)' <=> I!Saving(q)
                               /\ I!Saving(q) => process'[q] = process[q]
                               /\ process'[q].at = "write" => process[q].at = "write"
      BY <2>2, <2>3 DEF Holding, I!Saving
    <2>5. IdentityTypeOK'
      BY <2>2, <2>3 DEF IInv, IdentityTypeOK
    <2> QED
      BY <1>0, <2>2, <2>3, <2>4, <2>5 DEF IInv, HasKey, GivenInv, DerivedInv, WrittenOnce, AllAre
  <1>2. CASE I!Migrate(p) \/ I!Create(p)
    <2>1. PICK key \in Keys \cup {DerivedKey}, seed \in BOOLEAN :
            /\ I!Holds(p, key, seed)
            /\ setup.derived /\ file.kind # "legacy" => key = DerivedKey
      BY <1>2 DEF I!Migrate, I!Create, I!Legacy
    <2>2. process[p].at = "off" /\ file.kind # "v2"
      BY <1>2 DEF I!Migrate, I!Create, I!Legacy
    <2>3. UNCHANGED <<setup, file, abandoned>> /\ minted' \subseteq Keys
          /\ registered \subseteq registered' /\ registered' \subseteq registered \cup {key}
          /\ disturbed' = (disturbed \/ \E q \in Processes : I!Saving(q))
      BY <2>1 DEF I!Holds, IInv, IdentityTypeOK
    <2> DEFINE r == [at |-> "save", key |-> key, seed |-> seed]
    <2>4. /\ process' \in [Processes -> [at : Ats, key : AllKeys \cup {None}, seed : BOOLEAN]]
          /\ \A q \in Processes : process'[q] = IF q = p THEN r ELSE process[q]
          /\ AgentIsUp'
      <3>1. r \in [at : Ats \ {"up"}, key : AllKeys \cup {None}, seed : BOOLEAN]
        BY DEF Ats, AllKeys
      <3> QED
        BY <2>1, <2>2, <3>1, Moves DEF I!Holds, I!Up
    <2>5. \A q \in Processes : /\ Holding(q)' => Holding(q) /\ process'[q] = process[q]
                               /\ q # p => process'[q] = process[q]
      BY <2>4 DEF Holding
    <2>6. IdentityTypeOK'
      BY <2>3, <2>4 DEF IInv, IdentityTypeOK, AllKeys
    <2>7. GivenInv' /\ HasKey'
      BY <1>0, <2>3, <2>5 DEF IInv, GivenInv, HasKey, AllAre
    <2>8. DerivedInv'
      BY <1>0, <2>1, <2>3, <2>4, <2>5 DEF IInv, DerivedInv, AllAre, I!Saving
    <2>9. WrittenOnce'
      <3> SUFFICES ASSUME ~setup.given, ~disturbed' PROVE WrittenOnce'
        BY <2>3 DEF WrittenOnce
      <3>1. ~disturbed /\ \A q \in Processes : ~I!Saving(q)
        BY <2>3
      <3>2. \A k \in registered' \ abandoned' :
               \/ file'.kind = "v2" /\ k = file'.key
               \/ I!Saving(p)' /\ process'[p].key = k
        BY <2>3, <2>4, <3>1 DEF IInv, WrittenOnce, I!Saving
      <3>3. \A q \in Processes : I!Saving(q)' => q = p
        BY <2>4, <3>1 DEF I!Saving
      <3>4. \A q \in Processes : process'[q].at # "write"
        BY <2>4, <3>1 DEF I!Saving
      <3> QED
        BY <1>0, <2>2, <2>3, <2>5, <3>1, <3>2, <3>3, <3>4 DEF IInv, WrittenOnce
    <2> QED
      BY <2>4, <2>6, <2>7, <2>8, <2>9 DEF IInv
  <1>3. CASE I!OpenConfig(p)
    <2> DEFINE r == [process[p] EXCEPT !.at = "write"]
    <2>1. process[p].at = "save" /\ process' = [process EXCEPT ![p] = r]
          /\ file' = [kind |-> "broken", key |-> None, seed |-> FALSE]
          /\ UNCHANGED <<setup, minted, registered, abandoned, disturbed>>
      BY <1>3 DEF I!OpenConfig, I!registry
    <2>2. r \in [at : Ats \ {"up"}, key : AllKeys \cup {None}, seed : BOOLEAN]
      BY DEF IInv, IdentityTypeOK, Ats
    <2>3. /\ process' \in [Processes -> [at : Ats, key : AllKeys \cup {None}, seed : BOOLEAN]]
          /\ \A q \in Processes : process'[q] = IF q = p THEN r ELSE process[q]
          /\ AgentIsUp'
      BY <2>1, <2>2, Moves DEF I!Up
    <2>4. \A q \in Processes : /\ Holding(q)' <=> Holding(q)
                               /\ I!Saving(q)' <=> I!Saving(q)
                               /\ process'[q].key = process[q].key
      BY <2>1, <2>3 DEF Holding, I!Saving, IInv, IdentityTypeOK
    <2>5. I!Saving(p)
      BY <2>1 DEF I!Saving
    <2>6. IdentityTypeOK'
      BY <2>1, <2>3 DEF IInv, IdentityTypeOK
    <2>7. GivenInv' /\ HasKey' /\ DerivedInv'
      BY <1>0, <2>1, <2>4 DEF IInv, GivenInv, HasKey, DerivedInv, AllAre
    <2>8. WrittenOnce'
      BY <1>0, <2>1, <2>4, <2>5 DEF IInv, WrittenOnce
    <2> QED
      BY <2>3, <2>6, <2>7, <2>8 DEF IInv
  <1>4. CASE I!WriteConfig(p)
    <2> DEFINE r == [at |-> "resolve", key |-> None, seed |-> FALSE]
    <2>1. process[p].at = "write" /\ process' = [process EXCEPT ![p] = r]
          /\ UNCHANGED <<setup, minted, registered, abandoned, disturbed>>
      BY <1>4 DEF I!WriteConfig, I!registry
    <2>2. \/ file' = [kind |-> "broken", key |-> None, seed |-> TRUE]
          \/ file' = [kind |-> "v2", key |-> process[p].key, seed |-> process[p].seed]
      BY <1>4 DEF I!WriteConfig
    <2>3. /\ process' \in [Processes -> [at : Ats, key : AllKeys \cup {None}, seed : BOOLEAN]]
          /\ \A q \in Processes : process'[q] = IF q = p THEN r ELSE process[q]
          /\ AgentIsUp'
      <3>1. r \in [at : Ats \ {"up"}, key : AllKeys \cup {None}, seed : BOOLEAN]
        BY DEF Ats
      <3> QED
        BY <2>1, <3>1, Moves DEF I!Up
    <2>4. \A q \in Processes : /\ Holding(q)' => Holding(q) /\ process'[q] = process[q]
                               /\ I!Saving(q)' => I!Saving(q) /\ process'[q] = process[q] /\ q # p
      BY <2>3 DEF Holding, I!Saving
    <2>5. I!Saving(p)
      BY <2>1 DEF I!Saving
    <2>6. IdentityTypeOK'
      <3>1. process[p].key \in AllKeys \cup {None} /\ process[p].seed \in BOOLEAN
        BY DEF IInv, IdentityTypeOK
      <3>2. file' \in [kind : {"absent", "legacy", "broken", "v2"}, key : AllKeys \cup {None},
                      seed : BOOLEAN]
        <4> DEFINE key == process[p].key
                   seed == process[p].seed
        <4>1. CASE file' = [kind |-> "broken", key |-> None, seed |-> TRUE]
          BY <4>1
        <4>2. CASE file' = [kind |-> "v2", key |-> key, seed |-> seed]
          <5>1. key \in AllKeys \cup {None} /\ seed \in BOOLEAN
            BY <3>1
          <5> HIDE DEF key, seed
          <5> QED
            BY <4>2, <5>1
        <4> QED
          BY <2>2, <4>1, <4>2
      <3> QED
        BY <2>1, <2>3, <3>2 DEF IInv, IdentityTypeOK
    <2>7. GivenInv' /\ HasKey'
      BY <1>0, <2>1, <2>4 DEF IInv, GivenInv, HasKey, AllAre
    <2>8. DerivedInv'
      BY <1>0, <2>1, <2>2, <2>4, <2>5 DEF IInv, DerivedInv, AllAre
    <2>9. WrittenOnce'
      <3> SUFFICES ASSUME ~setup.given, ~disturbed PROVE WrittenOnce'
        BY <2>1 DEF WrittenOnce
      <3>1. ~file.seed /\ \A q \in Processes : I!Saving(q) => q = p
        BY <2>1, <2>5 DEF IInv, WrittenOnce
      <3>2. file' = [kind |-> "v2", key |-> process[p].key, seed |-> process[p].seed]
        BY <1>4, <3>1 DEF I!WriteConfig
      <3>3. file'.kind = "v2" /\ file'.key = process[p].key
        BY <3>2
      <3>4. \A q \in Processes : ~I!Saving(q)' /\ ~Holding(q)' /\ process'[q].at # "write"
        <4>1. \A q \in Processes : ~Holding(q)
          BY <2>5 DEF IInv, WrittenOnce
        <4> QED
          BY <2>4, <3>1, <4>1 DEF I!Saving
      <3>5. peers = {} /\ \A k \in registered \ abandoned : k = process[p].key
        BY <2>5, <3>1 DEF IInv, WrittenOnce
      <3> QED
        BY <1>0, <2>1, <3>3, <3>4, <3>5 DEF WrittenOnce
    <2> QED
      BY <2>3, <2>6, <2>7, <2>8, <2>9 DEF IInv
  <1>5. CASE I!ResolveKey(p)
    <2> DEFINE r == IF I!Resolution = None THEN [at |-> "off", key |-> None, seed |-> FALSE]
                    ELSE [at |-> "start", key |-> I!Resolution, seed |-> FALSE]
    <2>1. process[p].at \in {"off", "resolve"} /\ process' = [process EXCEPT ![p] = r]
          /\ UNCHANGED <<setup, file, minted, registered, abandoned, disturbed>>
      BY <1>5 DEF I!ResolveKey, I!registry
    <2>2. I!Resolution \in AllKeys \cup {None}
      BY DEF I!Resolution, IInv, IdentityTypeOK, AllKeys
    <2>3. /\ process' \in [Processes -> [at : Ats, key : AllKeys \cup {None}, seed : BOOLEAN]]
          /\ \A q \in Processes : process'[q] = IF q = p THEN r ELSE process[q]
          /\ AgentIsUp'
      <3>1. r \in [at : Ats \ {"up"}, key : AllKeys \cup {None}, seed : BOOLEAN]
        BY <2>2 DEF Ats
      <3> QED
        BY <2>1, <3>1, Moves DEF I!Up
    <2>4. \A q \in Processes :
             /\ Holding(q)' => \/ Holding(q) /\ process'[q] = process[q]
                               \/ process'[q].key = I!Resolution /\ I!Resolution # None
             /\ I!Saving(q)' <=> I!Saving(q)
             /\ I!Saving(q) => process'[q] = process[q]
             /\ process'[q].at = "write" => process[q].at = "write"
      BY <2>1, <2>3 DEF Holding, I!Saving
    <2>5. IdentityTypeOK'
      BY <2>1, <2>3 DEF IInv, IdentityTypeOK
    <2>6. GivenInv' /\ HasKey'
      BY <1>0, <2>1, <2>4 DEF IInv, GivenInv, HasKey, AllAre, I!Resolution
    <2>7. DerivedInv'
      BY <1>0, <2>1, <2>4 DEF IInv, DerivedInv, AllAre, I!Resolution
    <2>8. WrittenOnce'
      BY <1>0, <2>1, <2>4 DEF IInv, WrittenOnce, I!Resolution
    <2> QED
      BY <2>3, <2>5, <2>6, <2>7, <2>8 DEF IInv
  <1> QED
    BY <1>1, <1>2, <1>3, <1>4, <1>5 DEF I!Preparation

(* A process that starts to serve has its key already. *)
LEMMA UpKeeps ==
  ASSUME IInv, Up
  PROVE  IInv'
  <1>1. PICK p \in Processes : I!Serve(p) /\ AgentUp(process[p].key)
    BY DEF Up
  <1>2. /\ process[p].at = "start" /\ \A q \in Processes : ~I!Up(q)
        /\ process' = [process EXCEPT ![p].at = "up"]
        /\ UNCHANGED <<setup, file, minted, registered, abandoned, disturbed, peers>> /\ agent' = process[p].key
    BY <1>1 DEF I!Serve, AgentUp, I!registry
  <1>3. /\ process' \in [Processes -> [at : Ats, key : AllKeys \cup {None}, seed : BOOLEAN]]
        /\ \A q \in Processes : /\ process'[q].key = process[q].key
                                /\ q # p => process'[q] = process[q]
                                /\ process'[p].at = "up"
    BY <1>2 DEF IInv, IdentityTypeOK, Ats
  <1>4. \A q \in Processes : (Holding(q)' <=> Holding(q)) /\ (I!Saving(q)' <=> I!Saving(q))
    BY <1>2, <1>3 DEF Holding, I!Saving
  <1>5. IdentityTypeOK'
    BY <1>2, <1>3 DEF IInv, IdentityTypeOK
  <1>6. AgentIsUp'
    BY <1>2, <1>3 DEF IInv, HasKey, Holding, AgentIsUp, I!Up
  <1> QED
    BY <1>2, <1>3, <1>4, <1>5, <1>6 DEF IInv, HasKey, GivenInv, DerivedInv, WrittenOnce, AllAre

(* A program that stops takes no key with it. *)
LEMMA DownKeeps ==
  ASSUME IInv, Down
  PROVE  IInv'
  <1>1. PICK p \in Processes : I!Stop(p) /\ IF I!Up(p) THEN AgentDown ELSE UNCHANGED exchangeVars
    BY DEF Down
  <1>2. /\ process' = [process EXCEPT ![p] = [at |-> "off", key |-> None, seed |-> FALSE]]
        /\ disturbed' = (disturbed \/ process[p].at = "write")
        /\ abandoned' = abandoned \cup IF I!Saving(p) THEN {process[p].key} \cap registered
                                      ELSE {}
        /\ UNCHANGED <<setup, file, minted, registered>>
    BY <1>1 DEF I!Stop, I!Off, I!Process
  <1>3. peers' = peers /\ agent' = IF I!Up(p) THEN None ELSE agent
    BY <1>1 DEF AgentDown, exchangeVars
  <1>4. /\ process' \in [Processes -> [at : Ats, key : AllKeys \cup {None}, seed : BOOLEAN]]
        /\ \A q \in Processes : process'[q] = IF q = p
                                              THEN [at |-> "off", key |-> None, seed |-> FALSE]
                                              ELSE process[q]
    BY <1>2 DEF IInv, IdentityTypeOK, Ats
  <1>5. \A q \in Processes : /\ Holding(q)' => Holding(q) /\ process'[q] = process[q]
                             /\ I!Saving(q)' <=> I!Saving(q) /\ q # p
                             /\ q # p => process'[q] = process[q]
                             /\ process'[q].at = "write" => process[q].at = "write"
                             /\ I!Up(q)' <=> I!Up(q) /\ q # p
    BY <1>4 DEF Holding, I!Saving, I!Up
  <1>6. IdentityTypeOK'
    BY <1>2, <1>4 DEF IInv, IdentityTypeOK
  <1>7. AgentIsUp'
    BY <1>3, <1>4, <1>5 DEF IInv, AgentIsUp
  <1>8. GivenInv' /\ HasKey' /\ DerivedInv'
    BY <1>2, <1>3, <1>5 DEF IInv, GivenInv, HasKey, DerivedInv, AllAre
  <1>9. WrittenOnce'
    <2> SUFFICES ASSUME ~setup.given, ~disturbed PROVE WrittenOnce'
      BY <1>2 DEF WrittenOnce
    <2>1. \A k \in registered' \ abandoned' :
             \/ file.kind = "v2" /\ k = file.key
             \/ \E q \in Processes \ {p} : I!Saving(q) /\ process[q].key = k
      <3>1. ASSUME NEW k \in registered \ abandoned', I!Saving(p) PROVE k # process[p].key
        BY <1>2, <3>1
      <3> QED
        BY <1>2, <3>1 DEF IInv, WrittenOnce
    <2>2. \A k \in registered' \ abandoned' :
             \/ file'.kind = "v2" /\ k = file'.key
             \/ \E q \in Processes : I!Saving(q)' /\ process'[q].key = k
      BY <1>2, <1>5, <2>1
    <2> QED
      BY <1>2, <1>3, <1>5, <2>2 DEF IInv, WrittenOnce
  <1> QED
    BY <1>6, <1>7, <1>8, <1>9 DEF IInv

(* A step that changes nothing. *)
LEMMA StutterKeeps ==
  ASSUME IInv, UNCHANGED vars
  PROVE  IInv'
  BY DEF IInv, vars, exchangeVars, identityVars, IdentityTypeOK, AgentIsUp, HasKey, GivenInv, DerivedInv,
         WrittenOnce, AllAre, Holding, I!Up, I!Saving

-----------------------------------------------------------------------------

(* The invariant holds. *)
LEMMA Inductive == Spec => []IInv
  <1>1. IInv /\ [Next]_vars => IInv'
    <2> SUFFICES ASSUME IInv, [Next]_vars PROVE IInv'
      OBVIOUS
    <2>1. CASE Prepare
      BY <2>1, PrepareKeeps DEF Prepare
    <2> QED
      BY <2>1, UpKeeps, DownKeeps, TalkKeeps, StutterKeeps DEF Next
  <1> QED
    BY <1>1, InitIdentity, PTL DEF Spec

(* An agent keeps its identity over restarts, whatever programs share its config
   file: unless one dies while it saves the config or two create it at once. *)
THEOREM IdentityKept == Spec => []OneIdentity
  BY Inductive, Suffices, PTL

(* At most one process serves, and its key is the one that the cards show. *)
THEOREM OneAgentServes == Spec => []AgentIsUp
  <1>1. IInv => AgentIsUp
    BY DEF IInv
  <1> QED
    BY <1>1, Inductive, PTL

-----------------------------------------------------------------------------
(* The conversation: types.                                                 *)

(* The types of what the conversation keeps, but for the stream. *)
TalkTypeOK ==
    /\ deployment \in Deployments
    /\ turn \in {0} \cup Turns
    /\ client \in {"idle", "resolve", "post", "wait", "reading"}
    /\ DOMAIN task = {"state", "status", "artifacts", "history"}
    /\ task.state \in {"none", "working", "input-required"} \cup Terminal
    /\ DOMAIN handler = Turns
    /\ \A n \in Turns : /\ DOMAIN handler[n] = {"at", "args", "input"}
                        /\ handler[n].at \in {"none", "run", "suspended", "done"}

(* The conversation leaves alone what was deployed. *)
LEMMA DeploymentStays == Conversation => deployment' = deployment
  <1>1. CASE Call \/ Resolve \/ GiveUp \/ Refuse \/ Resume \/ Start
    BY <1>1 DEF Call, Resolve, GiveUp, Refuse, Resume, Start
  <1>2. CASE \E n \in Turns : Return(n) \/ Ask(n) \/ Fail(n) \/ AskTimesOut(n)
    BY <1>2 DEF Return, Ask, Fail, AskTimesOut
  <1>3. CASE Respond \/ ForeignAnswer \/ Read \/ ReadChunk \/ TakeFrame \/ EndOfStream
    BY <1>3 DEF Respond, ForeignAnswer, Read, ReadChunk, TakeFrame, EndOfStream
  <1> QED
    BY <1>1, <1>2, <1>3 DEF Conversation

(* Each of its steps keeps the types. *)
LEMMA TalkTypes ==
  ASSUME TalkTypeOK, Conversation
  PROVE  TalkTypeOK'
  <1> USE DEF TalkTypeOK, Turns
  <1>1. deployment' = deployment
    BY DeploymentStays
  <1>2. CASE Call
    <2>1. turn' \in {0} \cup Turns
      BY <1>2, ExchangeBounds DEF Call
    <2>2. client' \in {"idle", "resolve", "post"} /\ UNCHANGED <<task, handler>>
      BY <1>2 DEF Call, Ends, serverVars
    <2> QED
      BY <1>1, <2>1, <2>2
  <1>3. CASE Resolve \/ GiveUp \/ Refuse \/ Respond \/ ForeignAnswer
    BY <1>1, <1>3 DEF Resolve, GiveUp, Refuse, Respond, ForeignAnswer, Ends, serverVars
  <1>4. CASE Read \/ ReadChunk \/ TakeFrame \/ EndOfStream
    <2>1. client' \in {client, "idle"}
      BY <1>4 DEF Read, ReadChunk, TakeFrame, EndOfStream, Ends
    <2>2. UNCHANGED <<task, handler, turn>>
      BY <1>4 DEF Read, ReadChunk, TakeFrame, EndOfStream, serverVars
    <2> QED
      BY <1>1, <2>1, <2>2
  <1>5. CASE Resume
    <2>1. PICK n \in Turns : \/ handler' = [handler EXCEPT ![n].at = "done"]
                             \/ \E args, input :
                                   handler' = [handler EXCEPT
                                                 ![n] = [at |-> "run", args |-> args, input |-> input]]
      BY <1>5 DEF Resume, Asking
    <2>4. DOMAIN handler' = Turns
      BY <2>1
    <2>5. \A m \in Turns : /\ DOMAIN handler'[m] = {"at", "args", "input"}
                           /\ handler'[m].at \in {"none", "run", "suspended", "done"}
      <3>1. CASE handler' = [handler EXCEPT ![n].at = "done"]
        BY <3>1
      <3>2. CASE handler' # [handler EXCEPT ![n].at = "done"]
        <4>1. PICK args, input :
                handler' = [handler EXCEPT ![n] = [at |-> "run", args |-> args, input |-> input]]
          BY <2>1, <3>2
        <4> QED
          BY <4>1
      <3> QED
        BY <3>1, <3>2
    <2>2. DOMAIN task' = DOMAIN task /\ task'.state \in {"working", "failed"}
      BY <1>5 DEF Resume
    <2>3. client' = "wait" /\ turn' = turn
      BY <1>5 DEF Resume
    <2> QED
      BY <1>1, <2>2, <2>3, <2>4, <2>5 DEF Terminal
  <1>6. CASE Start
    BY <1>1, <1>6 DEF Start, Terminal
  <1>7. CASE \E n \in Turns : Return(n) \/ Ask(n) \/ Fail(n) \/ AskTimesOut(n)
    <2>1. PICK n \in Turns : Return(n) \/ Ask(n) \/ Fail(n) \/ AskTimesOut(n)
      BY <1>7
    <2>2. UNCHANGED <<turn, client>>
      BY <2>1 DEF Return, Ask, Fail, AskTimesOut
    <2>3. \E at \in {"done", "suspended"} : handler' = [handler EXCEPT ![n].at = at]
      BY <2>1 DEF Return, Ask, Fail, AskTimesOut
    <2>4. DOMAIN task' = DOMAIN task /\ task'.state \in {task.state, "input-required"} \cup Terminal
      BY <2>1 DEF Return, Ask, Fail, AskTimesOut, Terminal
    <2> QED
      BY <1>1, <2>2, <2>3, <2>4
  <1> QED
    BY <1>2, <1>3, <1>4, <1>5, <1>6, <1>7 DEF Conversation

-----------------------------------------------------------------------------
(* The conversation: where calls go.                                        *)

(* Any number of slashes at the end of a URL. *)
Slashes(k) == [i \in 1 .. k |-> Blank]

(* The ways to write the URL base in the configuration: not at all, or with slashes
   or the webhook's path or both behind it. *)
Written(base, config) ==
    /\ base.path \in Seq(Range(base.path))
    /\ ~EndsWith(base.path, Blank) /\ ~EndsWith(base.path, "webhook")
    /\ IF config.entity_url = None THEN base = URL(Local, <<>>)
       ELSE /\ config.entity_url.origin = base.origin
            /\ \E k \in Nat :
                 config.entity_url.path \in {base.path \o Slashes(k),
                                             (base.path \o Slashes(k)) \o <<"webhook">>,
                                             (base.path \o <<"webhook">>) \o Slashes(k)}

(* An empty segment is no word. *)
LEMMA BlankIsOther == Blank # "webhook"
  BY Zenon DEF Blank

(* Adding trailing slashes to a path. *)
LEMMA SlashesAdded ==
  ASSUME NEW S, Blank \in S, NEW path \in Seq(S), NEW k \in Nat
  PROVE  /\ path \o Slashes(k) \in Seq(S)
         /\ Len(path \o Slashes(k)) = Len(path) + k
         /\ \A i \in 1 .. Len(path) : (path \o Slashes(k))[i] = path[i]
         /\ \A i \in Len(path) + 1 .. Len(path) + k : (path \o Slashes(k))[i] = Blank
  <1>1. Slashes(k) \in [1 .. k -> S] /\ \A i \in 1 .. k : Slashes(k)[i] = Blank
    BY DEF Slashes
  <1>2. Slashes(k) \in Seq(S) /\ Len(Slashes(k)) = k
    BY <1>1
  <1>3. Len(path) \in Nat
    BY LenProperties
  <1>4. /\ path \o Slashes(k) \in Seq(S)
        /\ Len(path \o Slashes(k)) = Len(path) + k
        /\ \A i \in 1 .. Len(path) + k : (path \o Slashes(k))[i] =
                     IF i <= Len(path) THEN path[i] ELSE Slashes(k)[i - Len(path)]
    BY <1>2, ConcatProperties
  <1> QED
    BY <1>1, <1>3, <1>4

(* rstrip takes the slashes off and nothing else. *)
LEMMA StripsSlashes ==
  ASSUME NEW S, Blank \in S, NEW path \in Seq(S), ~EndsWith(path, Blank), NEW k \in Nat
  PROVE  Stripped(path \o Slashes(k)) = path
  <1> DEFINE long == path \o Slashes(k)
             kept == {i \in DOMAIN long : long[i] # Blank}
             end == IF kept = {} THEN 0 ELSE CHOOSE i \in kept : \A j \in kept : j <= i
  <1>1. /\ long \in Seq(S) /\ Len(long) = Len(path) + k
        /\ \A i \in 1 .. Len(path) : long[i] = path[i]
        /\ \A i \in Len(path) + 1 .. Len(path) + k : long[i] = Blank
    BY SlashesAdded
  <1>2. DOMAIN long = 1 .. Len(path) + k /\ Len(path) \in Nat
    BY <1>1, LenProperties
  <1>3. kept \subseteq 1 .. Len(path)
    <2> HIDE DEF long
    <2> QED
      BY <1>1, <1>2
  <1>4. path # <<>> => Len(path) \in kept
    <2> HIDE DEF long
    <2> QED
      BY <1>1, <1>2 DEF EndsWith
  <1>5. end = Len(path)
    <2>1. CASE path = <<>>
      <3>1. kept = {}
        BY <1>3, <2>1
      <3> HIDE DEF kept
      <3> QED
        BY <2>1, <3>1
    <2>2. CASE path # <<>>
      <3> HIDE DEF kept
      <3>1. \A i \in kept : (\A j \in kept : j <= i) <=> i = Len(path)
        BY <1>2, <1>3, <1>4, <2>2
      <3> QED
        BY <1>3, <1>4, <2>2, <3>1
    <2> QED
      BY <2>1, <2>2
  <1>6. Stripped(long) = SubSeq(long, 1, Len(path))
    BY <1>5 DEF Stripped
  <1>7. SubSeq(long, 1, Len(path)) = path
    <2>1. CASE path = <<>>
      BY <1>2, <2>1, SubSeqEmpty, EmptySeq
    <2>2. CASE path # <<>>
      <3>1. Len(path) \in 1 .. Len(path) /\ 1 \in 1 .. Len(path)
        BY <1>2, <2>2, EmptySeq
      <3>2. Slashes(k) \in Seq(S)
        BY DEF Slashes
      <3>3. SubSeq(long, 1, Len(path)) = SubSeq(path, 1, Len(path))
        BY <3>1, <3>2, SubSeqOfConcat1
      <3> QED
        BY <3>3, SubSeqFull
    <2> QED
      BY <2>1, <2>2
  <1> QED
    BY <1>6, <1>7

(* The last segment of a path, and the path without it. *)
LEMMA DropsLast ==
  ASSUME NEW S, NEW path \in Seq(S), NEW segment \in S
  PROVE  /\ path \o <<segment>> \in Seq(S)
         /\ EndsWith(path \o <<segment>>, segment)
         /\ DropLast(path \o <<segment>>) = path
         /\ \A other : EndsWith(path \o <<segment>>, other) => other = segment
  <1> DEFINE long == path \o <<segment>>
  <1>1. long \in Seq(S) /\ Len(long) = Len(path) + 1 /\ long[Len(path) + 1] = segment
        /\ \A i \in 1 .. Len(path) : long[i] = path[i]
    OBVIOUS
  <1>2. SubSeq(long, 1, Len(long) - 1) = path
    <2> HIDE DEF long
    <2> QED
      BY <1>1
  <1> HIDE DEF long
  <1>3. long # <<>>
    BY <1>1
  <1> QED
    BY <1>1, <1>2, <1>3 DEF long, EndsWith, DropLast

(* The endpoint of the card is that of the URL that was meant. *)
LEMMA EndpointIsMeant ==
  ASSUME NEW config, NEW base, Written(base, config)
  PROVE  Endpoint(config) = URL(base.origin, base.path \o config.a2a_path)
  <1> DEFINE path == base.path
             given == config.entity_url
             S == Range(path) \cup {Blank, "webhook"}
  <1>0. "webhook" \in S /\ Blank \in S
    OBVIOUS
  <1>1. path \in Seq(S) /\ ~EndsWith(path, Blank) /\ ~EndsWith(path, "webhook")
    BY SeqMonotonic DEF Written
  <1> HIDE DEF S
  <1>2. \A k \in Nat : ~EndsWith(path \o Slashes(k), "webhook")
    <2> TAKE k \in Nat
    <2>1. /\ Len(path \o Slashes(k)) = Len(path) + k /\ Len(path) \in Nat
          /\ \A i \in 1 .. Len(path) : (path \o Slashes(k))[i] = path[i]
          /\ \A i \in Len(path) + 1 .. Len(path) + k : (path \o Slashes(k))[i] = Blank
          /\ path \o Slashes(k) \in Seq(S)
      <3>1. Len(path) \in Nat
        BY <1>1, LenProperties
      <3> QED
        BY <1>0, <1>1, <3>1, SlashesAdded
    <2>2. CASE k = 0
      BY <1>1, <2>1, <2>2 DEF EndsWith
    <2>3. CASE k # 0
      <3> DEFINE n == Len(path)
      <3>1. Len(path \o Slashes(k)) \in n + 1 .. n + k
        <4>1. n \in Nat /\ Len(path \o Slashes(k)) = n + k
          BY <2>1
        <4> HIDE DEF n
        <4> QED
          BY <2>3, <4>1
      <3>2. (path \o Slashes(k))[Len(path \o Slashes(k))] = Blank
        BY <2>1, <3>1
      <3> QED
        BY <3>2, BlankIsOther DEF EndsWith
    <2> QED
      BY <2>2, <2>3
  <1>3. \A k \in Nat : Stripped(path \o Slashes(k)) = path
    BY <1>0, <1>1, StripsSlashes
  <1>4. path \o Slashes(0) = path
    <2>1. Slashes(0) = <<>>
      BY DEF Slashes
    <2> QED
      BY <1>1, <2>1
  <1>5. ~EndsWith(path, "webhook") /\ Stripped(path) = path
    BY <1>1, <1>3, <1>4
  <1>a. given # None =>
           /\ EntityURL(config).origin = given.origin
           /\ EntityURL(config).path = IF EndsWith(given.path, "webhook") THEN DropLast(given.path)
                                      ELSE Stripped(given.path)
    BY DEF EntityURL, URL
  <1>b. /\ BaseURL(config).origin = EntityURL(config).origin
        /\ BaseURL(config).path = Stripped(IF EndsWith(EntityURL(config).path, "webhook")
                                          THEN DropLast(EntityURL(config).path)
                                          ELSE EntityURL(config).path)
    BY DEF BaseURL, URL
  <1>6. EntityURL(config).origin = base.origin
        /\ \E k \in Nat : EntityURL(config).path \in {path \o Slashes(k), path \o <<"webhook">>}
    <2>1. CASE given = None
      <3>1. EntityURL(config).origin = base.origin /\ EntityURL(config).path = path
        BY <2>1 DEF Written, EntityURL, URL
      <3> QED
        BY <1>4, <3>1
    <2>2. CASE given # None
      <3>1. PICK k \in Nat : given.path \in {path \o Slashes(k),
                                             (path \o Slashes(k)) \o <<"webhook">>,
                                             (path \o <<"webhook">>) \o Slashes(k)}
        BY <2>2 DEF Written
      <3>2. given.origin = base.origin
        BY <2>2 DEF Written
      <3>3. CASE given.path = path \o Slashes(k)
        <4>1. ~EndsWith(given.path, "webhook") /\ Stripped(given.path) = path
          BY <1>2, <1>3, <3>3
        <4>2. EntityURL(config).path = path
          BY <1>a, <2>2, <4>1
        <4> QED
          BY <1>a, <1>4, <2>2, <3>2, <4>2
      <3>4. CASE given.path = (path \o Slashes(k)) \o <<"webhook">>
        <4>1. path \o Slashes(k) \in Seq(S)
          BY <1>0, <1>1, SlashesAdded
        <4>2. EndsWith(given.path, "webhook") /\ DropLast(given.path) = path \o Slashes(k)
          <5>1. \A long \in Seq(S) : /\ EndsWith(long \o <<"webhook">>, "webhook")
                                    /\ DropLast(long \o <<"webhook">>) = long
            BY <1>0, DropsLast
          <5> QED
            BY <3>4, <4>1, <5>1
        <4>3. EntityURL(config).path = path \o Slashes(k)
          BY <1>a, <2>2, <4>2
        <4> QED
          BY <1>a, <2>2, <3>2, <4>3
      <3>5. CASE given.path = (path \o <<"webhook">>) \o Slashes(k)
        <4>1. path \o <<"webhook">> \in Seq(S) /\ EndsWith(path \o <<"webhook">>, "webhook")
              /\ DropLast(path \o <<"webhook">>) = path /\ ~EndsWith(path \o <<"webhook">>, Blank)
          BY <1>0, <1>1, BlankIsOther, DropsLast
        <4>2. Stripped(given.path) = path \o <<"webhook">>
          BY <1>0, <3>5, <4>1, StripsSlashes
        <4>3. CASE EndsWith(given.path, "webhook")
          <5>1. k = 0
            <6>1. /\ Len(given.path) = Len(path \o <<"webhook">>) + k
                  /\ Len(path \o <<"webhook">>) \in Nat
                  /\ \A i \in Len(path \o <<"webhook">>) + 1 .. Len(path \o <<"webhook">>) + k :
                       given.path[i] = Blank
              <7> DEFINE long == path \o <<"webhook">>
              <7>1. long \in Seq(S)
                BY <4>1
              <7>2. given.path = long \o Slashes(k)
                BY <3>5
              <7> HIDE DEF long
              <7>3. Len(long) \in Nat
                BY <7>1, LenProperties
              <7>4. /\ Len(long \o Slashes(k)) = Len(long) + k
                    /\ \A i \in Len(long) + 1 .. Len(long) + k : (long \o Slashes(k))[i] = Blank
                BY <1>0, <7>1, SlashesAdded
              <7> QED
                BY <7>2, <7>3, <7>4 DEF long
            <6> DEFINE n == Len(path \o <<"webhook">>)
            <6> HIDE DEF n
            <6>2. /\ Len(given.path) = n + k /\ n \in Nat
                  /\ \A i \in n + 1 .. n + k : given.path[i] = Blank
              BY <6>1 DEF n
            <6> QED
              BY <4>3, <6>2, BlankIsOther DEF EndsWith
          <5>2. given.path = path \o <<"webhook">>
            <6>1. Slashes(0) = <<>>
              BY DEF Slashes
            <6> QED
              BY <3>5, <4>1, <5>1, <6>1, ConcatEmptySeq
          <5>3. DropLast(given.path) = path \o Slashes(0)
            BY <1>4, <4>1, <5>2
          <5> QED
            BY <1>a, <2>2, <3>2, <4>3, <5>3
        <4>4. CASE ~EndsWith(given.path, "webhook")
          BY <1>a, <2>2, <3>2, <4>2, <4>4
        <4> QED
          BY <4>3, <4>4
      <3> QED
        BY <3>1, <3>3, <3>4, <3>5
    <2> QED
      BY <2>1, <2>2
  <1>7. BaseURL(config).path = path
    <2>1. PICK k \in Nat : EntityURL(config).path \in {path \o Slashes(k), path \o <<"webhook">>}
      BY <1>6
    <2>2. CASE EntityURL(config).path = path \o Slashes(k)
      BY <1>b, <1>2, <1>3, <2>2
    <2>3. CASE EntityURL(config).path = path \o <<"webhook">>
      <3>1. EndsWith(path \o <<"webhook">>, "webhook") /\ DropLast(path \o <<"webhook">>) = path
        BY <1>0, <1>1, BlankIsOther, DropsLast
      <3> QED
        BY <1>b, <1>5, <2>3, <3>1
    <2> QED
      BY <2>1, <2>2, <2>3
  <1> QED
    BY <1>b, <1>6, <1>7 DEF Endpoint

(* A set of numbers has a least one. *)
LEMMA LeastIn ==
  ASSUME NEW S \in SUBSET Nat, S # {}
  PROVE  (CHOOSE i \in S : \A j \in S : i <= j) \in S
  <1>1. PICK i \in S : \A j \in S : <<j, i>> \notin OpToRel(<, Nat)
    BY NatLessThanWellFounded, WFMin
  <1>2. \A j \in S : ~(j < i)
    BY <1>1 DEF OpToRel
  <1>3. \A j \in S : i <= j
    BY <1>2
  <1> QED
    BY <1>3

(* The interface that is chosen has the transport asked for. *)
LEMMA ResolvedFits ==
  ASSUME NEW card, card.additionalInterfaces \in Seq(Range(card.additionalInterfaces)),
         NEW prefer, Offered(card, prefer) # {}
  PROVE  prefer # "auto" => Resolved(card, prefer).transport = prefer
  <1> DEFINE all == card.additionalInterfaces
             others == [i \in DOMAIN all |-> Interface(all[i].transport, all[i].url)]
             first == Interface(card.preferredTransport, card.url)
             S == {first} \cup {others[i] : i \in DOMAIN all}
  <1>1. others \in Seq(S)
    <2>1. DOMAIN all = 1 .. Len(all) /\ Len(all) \in Nat
      BY LenProperties
    <2>2. others \in [1 .. Len(all) -> S]
      BY <2>1
    <2> HIDE DEF others, S
    <2> QED
      BY <2>1, <2>2, SeqDef
  <1>2. <<first>> \in Seq(S)
    <2> HIDE DEF first, others
    <2> QED
      OBVIOUS
  <1>3. Interfaces(card) \in Seq(S)
    <2>1. Interfaces(card) = <<first>> \o others
      BY DEF Interfaces
    <2> HIDE DEF first, others, S
    <2> QED
      BY <1>1, <1>2, <2>1, ConcatProperties
  <1>4. DOMAIN Interfaces(card) \subseteq Nat
    <2> HIDE DEF S
    <2> QED
      BY <1>3, LenProperties
  <1>5. Offered(card, prefer) \in SUBSET Nat
    BY <1>4 DEF Offered
  <1> DEFINE k == CHOOSE i \in Offered(card, prefer) : \A j \in Offered(card, prefer) : i <= j
  <1>6. k \in Offered(card, prefer)
    <2> HIDE DEF k
    <2> QED
      BY <1>5, LeastIn DEF k
  <1>7. Resolved(card, prefer) = Interfaces(card)[k]
    BY DEF Resolved
  <1> HIDE DEF k
  <1> QED
    BY <1>6, <1>7 DEF Offered

(* An agent's own card offers its endpoint and nothing else. *)
LEMMA OwnCardOffers ==
  ASSUME NEW prefer, Offered(OwnCard, prefer) # {}
  PROVE  /\ Resolved(OwnCard, prefer).url = Endpoint(deployment.config)
         /\ prefer # "auto" => Resolved(OwnCard, prefer).transport = prefer
  <1> DEFINE url == Endpoint(deployment.config)
             own == Interface("JSONRPC", url)
  <1>1. OwnCard.additionalInterfaces = <<>> /\ OwnCard.url = url
        /\ OwnCard.preferredTransport = "JSONRPC"
    BY DEF OwnCard, AgentCard, Signed
  <1>2. [i \in DOMAIN OwnCard.additionalInterfaces |->
             Interface(OwnCard.additionalInterfaces[i].transport,
                       OwnCard.additionalInterfaces[i].url)] = <<>>
    BY <1>1
  <1>3. Interfaces(OwnCard) = <<own>>
    <2>1. Interfaces(OwnCard) = <<own>> \o <<>>
      BY <1>1, <1>2 DEF Interfaces
    <2> HIDE DEF own
    <2>2. <<own>> \in Seq({own})
      OBVIOUS
    <2> QED
      BY <2>1, <2>2, ConcatEmptySeq
  <1>4. Offered(OwnCard, prefer) \subseteq {1}
    <2> HIDE DEF own
    <2> QED
      BY <1>3 DEF Offered
  <1>5. Resolved(OwnCard, prefer) = own
    <2> HIDE DEF own
    <2>1. (CHOOSE i \in {1} : \A j \in {1} : i <= j) = 1
      OBVIOUS
    <2>2. Offered(OwnCard, prefer) = {1}
      BY <1>4
    <2> QED
      BY <1>3, <2>1, <2>2 DEF Resolved
  <1>6. own.url = url
    BY DEF Interface
  <1>7. prefer # "auto" => own.transport = prefer
    <2> HIDE DEF own
    <2> QED
      BY <1>3, <1>4 DEF Offered
  <1> QED
    BY <1>5, <1>6, <1>7

(* A call under way was made with the arguments callers use, and once it is posted
   goes where its target is. *)
CallInv ==
    client # "idle" =>
        /\ DOMAIN call = {"op", "input", "prefer", "target", "via"}
        /\ call.target # None =>
              call.target.additionalInterfaces \in Seq(Range(call.target.additionalInterfaces))
        /\ CallsReachEndpoint

(* Whatever is resolved or read from a configuration, a call goes there. *)
LEMMA TalkReaches ==
  ASSUME deployment \in Deployments, Endpoint(deployment.config) = deployment.public,
         CallInv, Conversation
  PROVE  CallInv'
  <1>1. CASE Call
    <2>1. deployment' = deployment
      BY <1>1 DEF Call
    <2>2. PICK c \in deployment.calls :
             /\ call' = [op |-> c.op, input |-> c.input, prefer |-> c.prefer, target |-> c.target,
                         via |-> Interface("JSONRPC", Endpoint(deployment.config))]
             /\ client' \in {"idle", IF c.op = "ask" THEN "resolve" ELSE "post"}
      BY <1>1 DEF Call, Ends
    <2>3. /\ c.op # "ask" => c.target = None /\ c.prefer = "auto"
          /\ c.target # None =>
               c.target.additionalInterfaces \in Seq(Range(c.target.additionalInterfaces))
      BY ExchangeBounds
    <2>4. call'.via.url = Endpoint(deployment.config)
      BY <2>2 DEF Interface
    <2>5. CallsReachEndpoint'
      BY <2>1, <2>2, <2>3, <2>4 DEF CallsReachEndpoint
    <2> QED
      BY <2>2, <2>3, <2>5 DEF CallInv
  <1>2. CASE Resolve
    <2> DEFINE card == IF call.target = Own THEN OwnCard ELSE call.target
               via == Resolved(card, call.prefer)
    <2>1. deployment' = deployment
      BY <1>2 DEF Resolve
    <2>2. CASE via = None
      <3>1. client' = "idle"
        BY <1>2, <2>2 DEF Resolve, Ends
      <3> QED
        BY <3>1 DEF CallInv
    <2>3. CASE via # None
      <3>1. client' = "post" /\ call' = [call EXCEPT !.via = via] /\ client = "resolve"
        BY <1>2, <2>3 DEF Resolve
      <3>2. Offered(card, call.prefer) # {}
        BY <2>3 DEF Resolved
      <3>3. call.target = Own => via.url = Endpoint(deployment.config)
        BY <3>2, OwnCardOffers
      <3>4. call.prefer # "auto" => via.transport = call.prefer
        <4>1. CASE call.target = Own
          BY <3>2, <4>1, OwnCardOffers
        <4>2. CASE call.target # Own
          BY <3>1, <3>2, <4>2, ResolvedFits DEF CallInv, Own
        <4> QED
          BY <4>1, <4>2
      <3> HIDE DEF card, via
      <3> QED
        BY <2>1, <3>1, <3>3, <3>4 DEF CallInv, CallsReachEndpoint, Own
    <2> QED
      BY <2>2, <2>3
  <1>3. CASE GiveUp \/ Refuse \/ Resume \/ Start \/ Respond \/ ForeignAnswer
    <2>1. UNCHANGED <<deployment, call>>
      BY <1>3 DEF GiveUp, Refuse, Resume, Start, Respond, ForeignAnswer
    <2>2. client' # "idle" => client \in {"post", "wait", "reading"}
      BY <1>3 DEF GiveUp, Refuse, Resume, Start, Respond, ForeignAnswer, Reached, Ends
    <2> QED
      BY <2>1, <2>2 DEF CallInv, CallsReachEndpoint
  <1>4. CASE \/ \E n \in Turns : Return(n) \/ Ask(n) \/ Fail(n) \/ AskTimesOut(n)
             \/ Read \/ ReadChunk \/ TakeFrame \/ EndOfStream
    <2>1. UNCHANGED <<deployment, call>>
      BY <1>4 DEF Return, Ask, Fail, AskTimesOut, Read, ReadChunk, TakeFrame, EndOfStream
    <2>2. client' \in {client, "idle"}
      BY <1>4 DEF Return, Ask, Fail, AskTimesOut, Read, ReadChunk, TakeFrame, EndOfStream, Ends
    <2> QED
      BY <2>1, <2>2 DEF CallInv, CallsReachEndpoint
  <1> QED
    BY <1>1, <1>2, <1>3, <1>4 DEF Conversation

-----------------------------------------------------------------------------
(* The conversation: streams.                                               *)

Events == [kind : {"status-update", "artifact-update"},
           state : {"none", "working", "input-required"} \cup Terminal]

Pieces == Nat \X Nat

(* The frames of events, piece by piece. *)
LEMMA FramesAre ==
  ASSUME NEW n \in Nat, NEW m \in Nat, n <= m
  PROVE  /\ Frames(n, m) \in Seq(Pieces)
         /\ Len(Frames(n, m)) = 4 * (m - n)
         /\ \A k \in 1 .. 4 * (m - n) :
              Frames(n, m)[k] = Frame(n + 1 + (k - 1) \div 4)[1 + ((k - 1) % 4)]
  <1>1. \A k \in 1 .. 4 * (m - n) :
          n + 1 + (k - 1) \div 4 \in Nat /\ 1 + ((k - 1) % 4) \in 1 .. 4
    OBVIOUS
  <1>2. \A i \in Nat, j \in 1 .. 4 : Frame(i)[j] \in Pieces
    <2> TAKE i \in Nat, j \in 1 .. 4
    <2>1. Frame(i)[1] \in Pieces /\ Frame(i)[2] \in Pieces
          /\ Frame(i)[3] \in Pieces /\ Frame(i)[4] \in Pieces
      BY DEF Frame, NL, Pieces
    <2>2. j = 1 \/ j = 2 \/ j = 3 \/ j = 4
      OBVIOUS
    <2> QED
      BY <2>1, <2>2
  <1>3. 4 * (m - n) \in Nat
    OBVIOUS
  <1>4. Frames(n, m) \in [1 .. 4 * (m - n) -> Pieces]
    BY <1>1, <1>2 DEF Frames
  <1>5. Frames(n, m) \in Seq(Pieces) /\ DOMAIN Frames(n, m) = 1 .. 4 * (m - n)
    BY <1>3, <1>4, SeqDef
  <1>6. Len(Frames(n, m)) = 4 * (m - n)
    BY <1>3, <1>5, LenProperties
  <1> QED
    BY <1>5, <1>6 DEF Frames

(* They begin with the frame of the first. *)
LEMMA FirstFrame ==
  ASSUME NEW n \in Nat, NEW m \in Nat, n < m
  PROVE  /\ Frames(n, m)[1] = <<n + 1, 1>> /\ Frames(n, m)[2] = <<n + 1, 2>>
         /\ Frames(n, m)[3] = NL /\ Frames(n, m)[4] = NL
         /\ Len(Frames(n, m)) >= 4
  <1>1. \A k \in 1 .. 4 : (k - 1) \div 4 = 0 /\ ((k - 1) % 4) = k - 1
    OBVIOUS
  <1>2. \A k \in 1 .. 4 : k \in 1 .. 4 * (m - n)
    OBVIOUS
  <1>3. \A k \in 1 .. 4 : Frames(n, m)[k] = Frame(n + 1)[k]
    <2> TAKE k \in 1 .. 4
    <2>0. \A i \in 1 .. 4 * (m - n) :
            Frames(n, m)[i] = Frame(n + 1 + (i - 1) \div 4)[1 + ((i - 1) % 4)]
      BY FramesAre
    <2>1. Frames(n, m)[k] = Frame(n + 1 + (k - 1) \div 4)[1 + ((k - 1) % 4)]
      BY <1>2, <2>0
    <2>2. n + 1 + (k - 1) \div 4 = n + 1 /\ 1 + ((k - 1) % 4) = k
      BY <1>1
    <2> QED
      BY <2>1, <2>2
  <1>4. 1 \in 1 .. 4 /\ 2 \in 1 .. 4 /\ 3 \in 1 .. 4 /\ 4 \in 1 .. 4
    OBVIOUS
  <1>5. Len(Frames(n, m)) = 4 * (m - n)
    BY FramesAre
  <1> QED
    BY <1>3, <1>4, <1>5 DEF Frame

(* Without it they are the frames of the others. *)
LEMMA OtherFrames ==
  ASSUME NEW n \in Nat, NEW m \in Nat, n < m
  PROVE  SubSeq(Frames(n, m), 5, Len(Frames(n, m))) = Frames(n + 1, m)
  <1> DEFINE s == Frames(n, m)
             t == Frames(n + 1, m)
             rest == SubSeq(s, 5, 4 * (m - n))
  <1>1. /\ s \in Seq(Pieces) /\ Len(s) = 4 * (m - n)
        /\ \A k \in 1 .. 4 * (m - n) : s[k] = Frame(n + 1 + (k - 1) \div 4)[1 + ((k - 1) % 4)]
    BY FramesAre
  <1>2. /\ t \in Seq(Pieces) /\ Len(t) = 4 * (m - n) - 4
        /\ \A k \in 1 .. 4 * (m - n) - 4 :
             t[k] = Frame(n + 2 + (k - 1) \div 4)[1 + ((k - 1) % 4)]
    <2> DEFINE p == n + 1
    <2>1. p \in Nat /\ p <= m /\ 4 * (m - p) = 4 * (m - n) - 4
      OBVIOUS
    <2>2. \A k \in 1 .. 4 * (m - n) - 4 : p + 1 + (k - 1) \div 4 = n + 2 + (k - 1) \div 4
      OBVIOUS
    <2>3. t = Frames(p, m)
      OBVIOUS
    <2> HIDE DEF p, t
    <2>4. /\ Frames(p, m) \in Seq(Pieces) /\ Len(Frames(p, m)) = 4 * (m - p)
          /\ \A k \in 1 .. 4 * (m - p) :
               Frames(p, m)[k] = Frame(p + 1 + (k - 1) \div 4)[1 + ((k - 1) % 4)]
      BY <2>1, FramesAre
    <2> QED
      BY <2>1, <2>2, <2>3, <2>4
  <1> HIDE DEF s, t
  <1>3. \A k \in 1 .. 4 * (m - n) - 4 : s[k + 4] = t[k]
    <2> TAKE k \in 1 .. 4 * (m - n) - 4
    <2>1. k + 4 \in 1 .. 4 * (m - n)
      OBVIOUS
    <2>2. /\ n + 1 + ((k + 4) - 1) \div 4 = n + 2 + (k - 1) \div 4
          /\ (((k + 4) - 1) % 4) = ((k - 1) % 4)
      OBVIOUS
    <2>3. s[k + 4] = Frame(n + 1 + ((k + 4) - 1) \div 4)[1 + (((k + 4) - 1) % 4)]
      BY <1>1, <2>1
    <2> QED
      BY <1>2, <2>2, <2>3
  <1>4. /\ rest \in Seq(Pieces) /\ Len(rest) = 4 * (m - n) - 4
        /\ \A k \in 1 .. 4 * (m - n) - 4 : rest[k] = s[k + 4]
    BY <1>1
  <1> HIDE DEF rest
  <1>5. rest = t
    BY <1>2, <1>3, <1>4, SeqEqual
  <1> QED
    BY <1>1, <1>5 DEF s, t, rest

(* Those of later events follow. *)
LEMMA MoreFrames ==
  ASSUME NEW n \in Nat, NEW m \in Nat, NEW l \in Nat, n <= m, m <= l
  PROVE  Frames(n, m) \o Frames(m, l) = Frames(n, l)
  <1> DEFINE s == Frames(n, m)
             t == Frames(m, l)
             u == Frames(n, l)
             a == 4 * (m - n)
             b == 4 * (l - m)
  <1>0. a \in Nat /\ b \in Nat /\ n <= l /\ 4 * (l - n) = a + b
    OBVIOUS
  <1>1. /\ s \in Seq(Pieces) /\ Len(s) = a
        /\ \A k \in 1 .. a : s[k] = Frame(n + 1 + (k - 1) \div 4)[1 + ((k - 1) % 4)]
    BY FramesAre
  <1>2. /\ t \in Seq(Pieces) /\ Len(t) = b
        /\ \A k \in 1 .. b : t[k] = Frame(m + 1 + (k - 1) \div 4)[1 + ((k - 1) % 4)]
    BY FramesAre
  <1>3. /\ u \in Seq(Pieces) /\ Len(u) = a + b
        /\ \A k \in 1 .. a + b : u[k] = Frame(n + 1 + (k - 1) \div 4)[1 + ((k - 1) % 4)]
    BY <1>0, FramesAre
  <1>4. \A k \in a + 1 .. a + b : /\ m + 1 + ((k - a) - 1) \div 4 = n + 1 + (k - 1) \div 4
                                  /\ (((k - a) - 1) % 4) = ((k - 1) % 4)
    OBVIOUS
  <1> HIDE DEF s, t, u, a, b
  <1>5. /\ s \o t \in Seq(Pieces) /\ Len(s \o t) = a + b
        /\ \A k \in 1 .. a + b : (s \o t)[k] = IF k <= a THEN s[k] ELSE t[k - a]
    BY <1>1, <1>2, ConcatProperties
  <1>6. \A k \in 1 .. a + b : (s \o t)[k] = u[k]
    <2> TAKE k \in 1 .. a + b
    <2>1. CASE k <= a
      <3>1. k \in 1 .. a
        BY <1>0, <2>1
      <3> QED
        BY <1>1, <1>3, <1>5, <2>1, <3>1
    <2>2. CASE ~(k <= a)
      <3>1. k - a \in 1 .. b /\ k \in a + 1 .. a + b
        BY <1>0, <2>2
      <3>2. (s \o t)[k] = t[k - a]
        BY <1>5, <2>2
      <3>3. t[k - a] = Frame(m + 1 + ((k - a) - 1) \div 4)[1 + (((k - a) - 1) % 4)]
        BY <1>2, <3>1
      <3>4. u[k] = Frame(n + 1 + (k - 1) \div 4)[1 + ((k - 1) % 4)]
        BY <1>3
      <3> QED
        BY <1>4, <3>1, <3>2, <3>3, <3>4
    <2> QED
      BY <2>1, <2>2
  <1>7. s \o t = u
    BY <1>3, <1>5, <1>6, SeqEqual
  <1> QED
    BY <1>7 DEF s, t, u

StreamTypeOK ==
    stream \in [sent : Seq(Events), net : Seq(Pieces), buffer : Seq(Pieces), got : Seq(Nat),
                end : {"none", "open", "closed", "broken"}]

(* A stream without events is none, or a refusal. *)
NothingSent ==
    stream.sent = <<>> =>
        /\ stream.got = <<>> /\ stream.end # "open"
        /\ stream.buffer \o stream.net \in {<<>>, <<<<0, 1>>, NL>>}

(* A stream is read by a call that has not ended, and is closed after the final event. *)
StreamOpened ==
    /\ client \in {"resolve", "post", "wait"} => stream = NoStream
    /\ client # "idle" => outcome # [kind |-> "ended"]
    /\ stream.sent # <<>> /\ stream.end = "closed" => Final(stream.sent[Len(stream.sent)])

StreamInv == StreamTypeOK /\ NothingSent /\ StreamOpened /\ StreamLossless /\ StreamComplete

(* A turn without a stream, unless it reports that one ended. *)
LEMMA NoStreamKeeps ==
  ASSUME stream' = NoStream, client' # "idle" => outcome' # [kind |-> "ended"]
  PROVE  StreamInv'
  <1>1. /\ stream'.sent = <<>> /\ stream'.got = <<>> /\ stream'.net = <<>> /\ stream'.buffer = <<>>
        /\ stream'.end = "none"
    BY DEF NoStream
  <1>2. StreamTypeOK'
    BY DEF StreamTypeOK, NoStream
  <1>3. stream'.buffer \o stream'.net = <<>>
    BY <1>1
  <1> QED
    BY <1>1, <1>2, <1>3 DEF StreamInv, NothingSent, StreamOpened, StreamLossless, StreamComplete

(* A step that does not touch the stream, nor what its reader knows. *)
LEMMA SameStreamKeeps ==
  ASSUME StreamInv, UNCHANGED <<stream, client, outcome>>
  PROVE  StreamInv'
  BY DEF StreamInv, StreamTypeOK, NothingSent, StreamOpened, StreamLossless, StreamComplete

(* Writing events out. *)
LEMMA SendsKeeps ==
  ASSUME StreamInv, NEW events \in Seq(Events), events # <<>>, Sends(events),
         (\E i \in DOMAIN events : Final(events[i])) => Final(events[Len(events)]),
         UNCHANGED <<client, outcome>>
  PROVE  StreamInv'
  <1>1. CASE stream.end # "open"
    BY <1>1, SameStreamKeeps DEF Sends
  <1>2. CASE stream.end = "open"
    <2> DEFINE l == Len(stream.sent)
               n == Len(events)
               g == Len(stream.got)
               more == Frames(l, l + n)
    <2>1. /\ stream'.sent = stream.sent \o events
          /\ stream'.net = stream.net \o more
          /\ stream'.buffer = stream.buffer /\ stream'.got = stream.got
          /\ stream'.end \in {"open", "closed"}
          /\ stream'.end = "closed" => \E i \in DOMAIN events : Final(events[i])
          /\ stream' = [stream EXCEPT !.sent = stream'.sent, !.net = stream'.net, !.end = stream'.end]
      BY <1>2 DEF Sends, StreamInv, StreamTypeOK
    <2>2. /\ stream.sent \in Seq(Events) /\ stream.net \in Seq(Pieces)
          /\ stream.buffer \in Seq(Pieces)
          /\ stream.got \in Seq(Nat)
      BY DEF StreamInv, StreamTypeOK
    <2>3. l \in Nat /\ n \in Nat /\ n > 0 /\ g \in Nat
      BY <2>2, LenProperties, EmptySeq
    <2>4. stream.sent # <<>>
      BY <1>2 DEF StreamInv, NothingSent
    <2>5. /\ g <= l /\ stream.got = [i \in 1 .. g |-> i]
          /\ stream.buffer \o stream.net = Frames(g, l)
      BY <2>4 DEF StreamInv, StreamLossless
    <2> HIDE DEF l, n, g
    <2>6. more \in Seq(Pieces)
      <3>1. l + n \in Nat /\ l <= l + n
        BY <2>3
      <3> QED
        BY <2>3, <3>1, FramesAre
    <2>7. /\ stream'.sent \in Seq(Events) /\ Len(stream'.sent) = l + n
          /\ \A i \in 1 .. l : stream'.sent[i] = stream.sent[i]
          /\ stream'.sent[l + n] = events[n]
      BY <2>1, <2>2, <2>3, ConcatProperties DEF l, n
    <2>8. stream'.net \in Seq(Pieces)
      BY <2>1, <2>2, <2>6, ConcatProperties
    <2>9. stream'.buffer \o stream'.net = Frames(g, l + n)
      <3>1. stream'.buffer \o stream'.net = (stream.buffer \o stream.net) \o more
        <4>1. stream'.buffer \o stream'.net = stream.buffer \o (stream.net \o more)
          BY <2>1
        <4>2. (stream.buffer \o stream.net) \o more = stream.buffer \o (stream.net \o more)
          <5>1. \A s, t, u \in Seq(Pieces) : (s \o t) \o u = s \o (t \o u)
            BY ConcatAssociative
          <5> HIDE DEF more
          <5> QED
            BY <2>2, <2>6, <5>1
        <4> QED
          BY <4>1, <4>2
      <3>2. Frames(g, l) \o more = Frames(g, l + n)
        <4>1. l + n \in Nat /\ l <= l + n
          BY <2>3
        <4> QED
          BY <2>3, <2>5, <4>1, MoreFrames
      <3> QED
        BY <2>5, <3>1, <3>2
    <2> HIDE DEF more
    <2>10. StreamTypeOK'
      <3> DEFINE s == stream'.sent
                 t == stream'.net
                 e == stream'.end
      <3>1. s \in Seq(Events) /\ t \in Seq(Pieces) /\ e \in {"none", "open", "closed", "broken"}
        BY <2>1, <2>7, <2>8
      <3>2. stream' = [stream EXCEPT !.sent = s, !.net = t, !.end = e]
        BY <2>1
      <3> HIDE DEF s, t, e
      <3> QED
        BY <3>1, <3>2 DEF StreamInv, StreamTypeOK
    <2>11. stream'.sent # <<>>
      BY <2>3, <2>7, EmptySeq
    <2>12. NothingSent' /\ StreamLossless'
      <3>1. g <= l + n
        BY <2>3, <2>5
      <3>2. Len(stream'.got) = g
        BY <2>1 DEF g
      <3> QED
        BY <2>1, <2>5, <2>7, <2>9, <2>11, <3>1, <3>2 DEF NothingSent, StreamLossless
    <2>13. StreamOpened'
      <3>1. client \notin {"resolve", "post", "wait"}
        BY <1>2 DEF StreamInv, StreamOpened, NoStream
      <3>2. stream'.end = "closed" => Final(stream'.sent[Len(stream'.sent)])
        BY <2>1, <2>7 DEF n
      <3> QED
        BY <3>1, <3>2 DEF StreamInv, StreamOpened
    <2>14. StreamComplete'
      <3> SUFFICES ASSUME outcome = [kind |-> "ended"]
                   PROVE  StreamComplete'
        BY DEF StreamComplete
      <3>1. stream.got # <<>> /\ stream.sent[Last(stream.got)].kind = "status-update"
            /\ stream.sent[Last(stream.got)].state \in Terminal
        BY <2>4 DEF StreamInv, StreamComplete
      <3>2. Last(stream.got) \in 1 .. l
        <4>1. g > 0 /\ stream.got[g] = g
          BY <2>2, <2>3, <2>5, <3>1, EmptySeq DEF g
        <4> QED
          BY <2>3, <2>5, <4>1 DEF Last, g
      <3>3. stream'.sent[Last(stream.got)] = stream.sent[Last(stream.got)]
        BY <2>7, <3>2
      <3> QED
        BY <2>1, <2>11, <3>1, <3>3 DEF StreamComplete
    <2> QED
      BY <2>10, <2>12, <2>13, <2>14 DEF StreamInv
  <1> QED
    BY <1>1, <1>2

(* Starting one. *)
LEMMA StartKeeps ==
  ASSUME StreamInv, Start
  PROVE  StreamInv'
  <1>1. CASE call.op = "ask"
    <2>1. UNCHANGED <<stream, outcome>> /\ client = "post" /\ client' = "wait"
      BY <1>1 DEF Start, Reached
    <2> QED
      BY <2>1, NoStreamKeeps DEF StreamInv, StreamOpened
  <1>2. CASE call.op # "ask"
    <2> DEFINE working == StatusUpdate("working")
               rejected == StatusUpdate("rejected")
    <2>1. /\ client = "post" /\ client' = "reading" /\ outcome' = outcome
          /\ \E events \in {<<working>>, <<working>> \o <<rejected>>}, end \in {"open", "closed"} :
               /\ end = "closed" => events = <<working>> \o <<rejected>>
               /\ stream' = [sent |-> events, net |-> Frames(0, Len(events)),
                             buffer |-> <<>>, got |-> <<>>, end |-> end]
      BY <1>2 DEF Start, Reached
    <2>2. working \in Events /\ rejected \in Events /\ Final(rejected)
      BY DEF StatusUpdate, Events, Terminal, Final
    <2> HIDE DEF working, rejected
    <2>3. PICK events \in {<<working>>, <<working>> \o <<rejected>>}, end \in {"open", "closed"} :
               /\ end = "closed" => events = <<working>> \o <<rejected>>
               /\ stream' = [sent |-> events, net |-> Frames(0, Len(events)),
                             buffer |-> <<>>, got |-> <<>>, end |-> end]
      BY <2>1
    <2>4. /\ events \in Seq(Events) /\ Len(events) \in Nat /\ events # <<>>
          /\ end = "closed" => Final(events[Len(events)])
      <3>1. CASE events = <<working>>
        <4>1. events # <<working>> \o <<rejected>>
          <5>1. <<working>> \in Seq(Events) /\ <<rejected>> \in Seq(Events)
            BY <2>2
          <5>2. Len(<<working>> \o <<rejected>>) = 2
            BY <5>1, ConcatProperties
          <5> QED
            BY <3>1, <5>2
        <4> QED
          BY <2>2, <2>3, <3>1, <4>1
      <3>2. CASE events = <<working>> \o <<rejected>>
        <4>1. <<working>> \in Seq(Events) /\ <<rejected>> \in Seq(Events)
          BY <2>2
        <4>2. events \in Seq(Events) /\ Len(events) = 2 /\ events[2] = rejected
          BY <3>2, <4>1, ConcatProperties
        <4> QED
          BY <2>2, <4>2
      <3> QED
        BY <2>3, <3>1, <3>2
    <2>5. Frames(0, Len(events)) \in Seq(Pieces)
      BY <2>4, FramesAre
    <2>6. /\ stream'.sent = events /\ stream'.net = Frames(0, Len(events))
          /\ stream'.buffer = <<>> /\ stream'.got = <<>> /\ stream'.end = end
      BY <2>3
    <2>7. StreamTypeOK'
      BY <2>3, <2>4, <2>5 DEF StreamTypeOK
    <2>8. stream'.buffer \o stream'.net = Frames(0, Len(events))
      BY <2>5, <2>6, ConcatEmptySeq
    <2>9. StreamLossless'
      <3>1. Len(stream'.got) = 0 /\ stream'.got = [i \in 1 .. 0 |-> i]
        BY <2>6
      <3> QED
        BY <2>4, <2>6, <2>8, <3>1 DEF StreamLossless
    <2>10. outcome # [kind |-> "ended"]
      BY <2>1 DEF StreamInv, StreamOpened
    <2> QED
      BY <2>1, <2>4, <2>6, <2>7, <2>9, <2>10 DEF StreamInv, NothingSent, StreamOpened, StreamComplete
  <1> QED
    BY <1>1, <1>2

(* A refused stream is closed with nothing in it. *)
LEMMA RefuseKeeps ==
  ASSUME StreamInv, Refuse
  PROVE  StreamInv'
  <1>1. CASE call.op = "ask"
    <2>1. UNCHANGED <<stream, outcome>> /\ client = "post" /\ client' = "wait"
      BY <1>1 DEF Refuse, Reached
    <2> QED
      BY <2>1, NoStreamKeeps DEF StreamInv, StreamOpened
  <1>2. CASE call.op # "ask"
    <2> DEFINE line == <<<<0, 1>>, NL>>
    <2>1. /\ stream' = [sent |-> <<>>, net |-> line, buffer |-> <<>>, got |-> <<>>,
                        end |-> "closed"]
          /\ client = "post" /\ client' = "reading" /\ outcome' = outcome
      BY <1>2 DEF Refuse, Reached, NoStream
    <2>2. line \in Seq(Pieces)
      BY DEF Pieces, NL
    <2>3. <<>> \o line = line
      BY <2>2, ConcatEmptySeq
    <2> HIDE DEF line
    <2>4. /\ stream'.sent = <<>> /\ stream'.net = line
          /\ stream'.buffer = <<>> /\ stream'.got = <<>> /\ stream'.end = "closed"
      BY <2>1
    <2>5. StreamTypeOK'
      BY <2>1, <2>2 DEF StreamTypeOK
    <2>6. outcome # [kind |-> "ended"]
      BY <2>1 DEF StreamInv, StreamOpened
    <2>7. NothingSent'
      BY <2>3, <2>4 DEF NothingSent, line
    <2> QED
      BY <2>1, <2>4, <2>5, <2>6, <2>7 DEF StreamInv, StreamOpened, StreamLossless, StreamComplete
  <1> QED
    BY <1>1, <1>2

(* A handler writes out one event, or two of which the second is the final one. *)
LEMMA HandlerKeeps ==
  ASSUME StreamInv, NEW n \in Turns, Return(n) \/ Ask(n) \/ Fail(n) \/ AskTimesOut(n)
  PROVE  StreamInv'
  <1> DEFINE asks == StatusUpdate("input-required")
             fails == StatusUpdate("failed")
             completes == StatusUpdate("completed")
  <1>1. /\ UNCHANGED <<client, outcome>>
        /\ \/ UNCHANGED stream \/ Sends(<<asks>>) \/ Sends(<<fails>>)
           \/ Sends(<<asks, fails>>) \/ Sends(<<ArtifactUpdate, completes>>)
    <2>1. CASE Return(n)
      BY <2>1 DEF Return
    <2>2. CASE Ask(n)
      BY <2>2 DEF Ask
    <2>3. CASE Fail(n)
      BY <2>3 DEF Fail
    <2>4. CASE AskTimesOut(n)
      BY <2>4 DEF AskTimesOut
    <2> QED
      BY <2>1, <2>2, <2>3, <2>4
  <1>2. /\ asks \in Events /\ fails \in Events /\ completes \in Events /\ ArtifactUpdate \in Events
        /\ Final(fails) /\ Final(completes) /\ ~Final(asks)
    BY DEF StatusUpdate, ArtifactUpdate, Events, Terminal, Final
  <1> HIDE DEF asks, fails, completes
  <1>3. \A e \in Events : Sends(<<e>>) => StreamInv'
    <2> SUFFICES ASSUME NEW e \in Events, Sends(<<e>>) PROVE StreamInv'
      OBVIOUS
    <2>1. <<e>> \in Seq(Events) /\ <<e>> # <<>> /\ DOMAIN <<e>> = {1} /\ Len(<<e>>) = 1
      OBVIOUS
    <2>2. (\E i \in DOMAIN <<e>> : Final(<<e>>[i])) => Final(<<e>>[Len(<<e>>)])
      BY <2>1
    <2> QED
      BY <1>1, <2>1, <2>2, SendsKeeps
  <1>4. \A d, e \in Events : Final(e) /\ Sends(<<d, e>>) => StreamInv'
    <2> SUFFICES ASSUME NEW d \in Events, NEW e \in Events, Final(e), Sends(<<d, e>>)
                 PROVE  StreamInv'
      OBVIOUS
    <2>1. <<d, e>> \in Seq(Events) /\ <<d, e>> # <<>> /\ Len(<<d, e>>) = 2 /\ <<d, e>>[2] = e
      OBVIOUS
    <2>2. Final(<<d, e>>[Len(<<d, e>>)])
      BY <2>1
    <2> QED
      BY <1>1, <2>1, <2>2, SendsKeeps
  <1> QED
    BY <1>1, <1>2, <1>3, <1>4, SameStreamKeeps

(* Cutting what is on its way anywhere keeps the whole. *)
LEMMA ReadChunkKeeps ==
  ASSUME StreamInv, ReadChunk
  PROVE  StreamInv'
  <1>1. PICK k \in 1 .. Len(stream.net) :
          stream' = [stream EXCEPT !.buffer = Joined(@, SubSeq(stream.net, 1, k)),
                                   !.net = SubSeq(@, k + 1, Len(@))]
    BY DEF ReadChunk
  <1>2. stream.net \in Seq(Pieces) /\ stream.buffer \in Seq(Pieces)
    BY DEF StreamInv, StreamTypeOK
  <1> DEFINE net == stream.net
             buffer == stream.buffer
             first == SubSeq(net, 1, k)
             rest == SubSeq(net, k + 1, Len(net))
  <1>3. Len(net) \in Nat /\ k \in 1 .. Len(net)
    BY <1>2, LenProperties
  <1>4. first \in Seq(Pieces) /\ rest \in Seq(Pieces) /\ first \o rest = net
    <2> HIDE DEF net
    <2>1. net \in Seq(Pieces)
      BY <1>2 DEF net
    <2>2. first \o rest = SubSeq(net, 1, Len(net))
      <3>1. 1 \in 1 .. Len(net) + 1 /\ k \in 1 - 1 .. Len(net) /\ Len(net) \in k .. Len(net)
        BY <1>3
      <3> QED
        BY <2>1, <3>1, ConcatAdjacentSubSeq
    <2>3. SubSeq(net, 1, Len(net)) = net
      BY <2>1, SubSeqFull
    <2>4. first \in Seq(Pieces) /\ rest \in Seq(Pieces)
      BY <1>3, <2>1
    <2> QED
      BY <2>2, <2>3, <2>4
  <1>5. stream' = [stream EXCEPT !.buffer = buffer \o first, !.net = rest]
    BY <1>1 DEF Joined
  <1>6. (buffer \o first) \o rest = buffer \o net
    <2>1. \A s, t, u \in Seq(Pieces) : (s \o t) \o u = s \o (t \o u)
      BY ConcatAssociative
    <2>2. buffer \in Seq(Pieces)
      BY <1>2
    <2> HIDE DEF first, rest, buffer, net
    <2>3. (buffer \o first) \o rest = buffer \o (first \o rest)
      BY <1>4, <2>1, <2>2
    <2> QED
      BY <1>4, <2>3
  <1>7. buffer \o first \in Seq(Pieces)
    BY <1>2, <1>4, ConcatProperties
  <1>8. UNCHANGED <<client, outcome>> /\ client = "reading"
    BY DEF ReadChunk
  <1> DEFINE joined == buffer \o first
  <1>9. joined \in Seq(Pieces) /\ joined \o rest = stream.buffer \o stream.net
        /\ stream' = [stream EXCEPT !.buffer = joined, !.net = rest] /\ rest \in Seq(Pieces)
    BY <1>4, <1>5, <1>6, <1>7
  <1> HIDE DEF joined, rest, buffer, net, first
  <1>10. StreamTypeOK'
    BY <1>9 DEF StreamInv, StreamTypeOK
  <1>11. /\ stream'.sent = stream.sent /\ stream'.got = stream.got /\ stream'.end = stream.end
         /\ stream'.buffer = joined /\ stream'.net = rest
    BY <1>9 DEF StreamInv, StreamTypeOK
  <1>12. stream'.buffer \o stream'.net = stream.buffer \o stream.net
    BY <1>9, <1>11
  <1> QED
    BY <1>8, <1>10, <1>11, <1>12
    DEF StreamInv, NothingSent, StreamOpened, StreamLossless, StreamComplete

(* What is buffered is the beginning of the frames not yet yielded. *)
LEMMA BufferBegins ==
  ASSUME StreamInv, stream.sent # <<>>,
         NEW k \in 1 .. Len(stream.buffer)
  PROVE  /\ k \in 1 .. Len(Frames(Len(stream.got), Len(stream.sent)))
         /\ stream.buffer[k] = Frames(Len(stream.got), Len(stream.sent))[k]
  <1> DEFINE buffer == stream.buffer
             net == stream.net
  <1>1. buffer \in Seq(Pieces) /\ net \in Seq(Pieces)
    BY DEF StreamInv, StreamTypeOK
  <1>2. Frames(Len(stream.got), Len(stream.sent)) = buffer \o net
    BY DEF StreamInv, StreamLossless
  <1>3. k \in 1 .. Len(buffer)
    OBVIOUS
  <1> HIDE DEF buffer, net
  <1>4. Len(buffer) \in Nat /\ Len(net) \in Nat
    BY <1>1, LenProperties
  <1>5. Len(buffer \o net) = Len(buffer) + Len(net) /\ (buffer \o net)[k] = buffer[k]
    BY <1>1, <1>3, <1>4, ConcatProperties
  <1>6. k \in 1 .. Len(buffer \o net)
    BY <1>3, <1>4, <1>5
  <1> QED
    BY <1>2, <1>5, <1>6 DEF buffer

(* The buffer has a whole frame, or no break. *)
LEMMA BreaksAfterFrame ==
  ASSUME StreamInv
  PROVE  /\ stream.sent = <<>> => Breaks = {}
         /\ stream.sent # <<>> =>
              LET g == Len(stream.got)
              IN  /\ Breaks # {} <=> Len(stream.buffer) >= 4
                  /\ Len(stream.buffer) >= 4 =>
                       /\ g < Len(stream.sent)
                       /\ stream.buffer[1] = <<g + 1, 1>> /\ stream.buffer[2] = <<g + 1, 2>>
                       /\ 3 \in Breaks /\ \A k \in Breaks : 3 <= k
  <1> DEFINE buffer == stream.buffer
             net == stream.net
  <1>1. buffer \in Seq(Pieces) /\ net \in Seq(Pieces)
        /\ stream.got \in Seq(Nat) /\ stream.sent \in Seq(Events)
    BY DEF StreamInv, StreamTypeOK
  <1>2. Len(buffer) \in Nat /\ Len(net) \in Nat /\ Len(stream.got) \in Nat /\ Len(stream.sent) \in Nat
    BY <1>1, LenProperties
  <1>3. CASE stream.sent = <<>>
    <2>1. buffer \o net \in {<<>>, <<<<0, 1>>, NL>>}
      BY <1>3 DEF StreamInv, NothingSent
    <2>2. <<0, 1>> # NL
      BY DEF NL
    <2>3. Len(buffer \o net) <= 2 /\ (Len(buffer \o net) = 2 => (buffer \o net)[1] # NL)
      <3>1. Len(<<>>) = 0 /\ Len(<<<<0, 1>>, NL>>) = 2 /\ <<<<0, 1>>, NL>>[1] = <<0, 1>>
        OBVIOUS
      <3> DEFINE s == buffer \o net
      <3>2. CASE s = <<>>
        BY <3>1, <3>2
      <3>3. CASE s = <<<<0, 1>>, NL>>
        BY <2>2, <3>1, <3>3
      <3> QED
        BY <2>1, <3>2, <3>3
    <2> HIDE DEF buffer, net
    <2>4. /\ Len(buffer \o net) = Len(buffer) + Len(net)
          /\ \A k \in 1 .. Len(buffer) : (buffer \o net)[k] = buffer[k]
      <3>1. \A k \in 1 .. Len(buffer) : k \in 1 .. Len(buffer) + Len(net) /\ k <= Len(buffer)
        BY <1>2
      <3> QED
        BY <1>1, <3>1, ConcatProperties
    <2>5. \A k \in 1 .. Len(buffer) - 1 : buffer[k] # NL
      <3> SUFFICES ASSUME NEW k \in 1 .. Len(buffer) - 1 PROVE buffer[k] # NL
        OBVIOUS
      <3>1. Len(buffer) = 2 /\ Len(net) = 0 /\ k = 1 /\ k \in 1 .. Len(buffer)
        <4>1. Len(buffer) + Len(net) <= 2
          BY <2>3, <2>4
        <4>2. k \in Int /\ 1 <= k /\ k <= Len(buffer) - 1
          BY <1>2
        <4>3. \A b, n, i \in Int : b + n <= 2 /\ n >= 0 /\ 1 <= i /\ i <= b - 1
                                   => b = 2 /\ n = 0 /\ i = 1
          OBVIOUS
        <4>4. Len(buffer) \in Int /\ Len(net) \in Int /\ Len(net) >= 0
          BY <1>2
        <4>5. Len(buffer) = 2 /\ Len(net) = 0 /\ k = 1
          BY <4>1, <4>2, <4>3, <4>4
        <4> QED
          BY <4>5
      <3>2. Len(buffer \o net) = 2 /\ (buffer \o net)[k] = buffer[k]
        BY <2>4, <3>1
      <3> QED
        BY <2>3, <3>1, <3>2
    <2>6. Breaks = {}
      BY <2>5 DEF Breaks, buffer
    <2> QED
      BY <1>3, <2>6
  <1>4. CASE stream.sent # <<>>
    <2> DEFINE g == Len(stream.got)
               m == Len(stream.sent)
               all == Frames(g, m)
    <2>1. \A k \in 1 .. Len(buffer) : k \in 1 .. Len(all) /\ buffer[k] = all[k]
      BY <1>4, BufferBegins
    <2>2. g <= m
      BY <1>4 DEF StreamInv, StreamLossless
    <2>3. Len(all) = 4 * (m - g)
      BY <1>2, <2>2, FramesAre
    <2>4. g < m => /\ all[1] = <<g + 1, 1>> /\ all[2] = <<g + 1, 2>> /\ all[3] = NL /\ all[4] = NL
      BY <1>2, FirstFrame
    <2>5. g \in Nat => <<g + 1, 1>> # NL /\ <<g + 1, 2>> # NL
      BY DEF NL
    <2>6. Len(buffer) >= 1 => g < m
      <3> SUFFICES ASSUME Len(buffer) >= 1 PROVE g < m
        OBVIOUS
      <3>1. 1 \in 1 .. Len(buffer)
        BY <1>2
      <3>2. 1 <= Len(all)
        <4> HIDE DEF all, buffer
        <4>1. 1 \in 1 .. Len(all)
          BY <2>1, <3>1
        <4> QED
          BY <4>1
      <3>3. g \in Nat /\ m \in Nat
        BY <1>2
      <3> HIDE DEF g, m, all
      <3> QED
        BY <2>2, <2>3, <3>2, <3>3
    <2>7. Breaks = {k \in 1 .. Len(buffer) - 1 : buffer[k] = NL /\ buffer[k + 1] = NL}
      BY DEF Breaks
    <2>8. g \in Nat
      BY <1>2
    <2> HIDE DEF g, m, all, buffer
    <2>9. \A k \in Breaks : 3 <= k /\ Len(buffer) >= 4
      <3> TAKE k \in Breaks
      <3>1. k \in 1 .. Len(buffer) - 1 /\ buffer[k] = NL
        BY <2>7
      <3>2. k \in 1 .. Len(buffer) /\ g < m
        BY <1>2, <2>6, <3>1
      <3>3. all[k] = NL
        BY <2>1, <3>1, <3>2
      <3>4. k # 1 /\ k # 2
        BY <2>4, <2>5, <2>8, <3>2, <3>3
      <3> QED
        BY <1>2, <3>1, <3>4
    <2>10. Len(buffer) >= 4 => /\ g < m /\ buffer[1] = <<g + 1, 1>> /\ buffer[2] = <<g + 1, 2>>
                               /\ 3 \in Breaks
      <3> SUFFICES ASSUME Len(buffer) >= 4
                   PROVE  /\ g < m /\ buffer[1] = <<g + 1, 1>> /\ buffer[2] = <<g + 1, 2>>
                          /\ 3 \in Breaks
        OBVIOUS
      <3>1. /\ 1 \in 1 .. Len(buffer) /\ 2 \in 1 .. Len(buffer) /\ 3 \in 1 .. Len(buffer)
            /\ 4 \in 1 .. Len(buffer) /\ 3 \in 1 .. Len(buffer) - 1 /\ g < m
        BY <1>2, <2>6
      <3>2. buffer[1] = all[1] /\ buffer[2] = all[2] /\ buffer[3] = all[3] /\ buffer[4] = all[4]
        BY <2>1, <3>1
      <3>3. 3 + 1 = 4
        OBVIOUS
      <3> QED
        BY <2>4, <2>7, <3>1, <3>2, <3>3
    <2> QED
      BY <1>4, <2>9, <2>10 DEF g, m, buffer
  <1> QED
    BY <1>3, <1>4

(* Taking four pieces off the front of a buffer. *)
LEMMA DropsFront ==
  ASSUME NEW s \in Seq(Pieces), NEW t \in Seq(Pieces), Len(s) >= 4
  PROVE  /\ SubSeq(s, 5, Len(s)) \in Seq(Pieces)
         /\ SubSeq(s, 5, Len(s)) \o t = SubSeq(s \o t, 5, Len(s \o t))
  <1> DEFINE a == Len(s)
             b == Len(t)
             u == s \o t
             x == SubSeq(s, 5, a)
             y == SubSeq(u, 5, a + b)
  <1>1. a \in Nat /\ b \in Nat /\ a >= 4
    BY LenProperties
  <1>2. /\ u \in Seq(Pieces) /\ Len(u) = a + b
        /\ \A k \in 1 .. a + b : u[k] = IF k <= a THEN s[k] ELSE t[k - a]
    BY ConcatProperties
  <1> HIDE DEF u, a, b
  <1>3. /\ x \in Seq(Pieces) /\ Len(x) = a - 4 /\ \A k \in 1 .. a - 4 : x[k] = s[k + 4]
    <2>1. \A i \in 5 .. a : s[i] \in Pieces
      BY <1>1, ElementOfSeq DEF a
    <2>2. /\ x \in Seq(Pieces) /\ Len(x) = IF 5 <= a THEN a - 5 + 1 ELSE 0
          /\ \A i \in 1 .. a - 5 + 1 : x[i] = s[5 + i - 1]
      BY <1>1, <2>1, SubSeqProperties
    <2>3. \A k \in 1 .. a - 4 : k \in 1 .. a - 5 + 1 /\ 5 + k - 1 = k + 4
      BY <1>1
    <2>4. (IF 5 <= a THEN a - 5 + 1 ELSE 0) = a - 4
      BY <1>1
    <2> HIDE DEF x
    <2> QED
      BY <2>2, <2>3, <2>4
  <1>4. /\ y \in Seq(Pieces) /\ Len(y) = a + b - 4 /\ \A k \in 1 .. a + b - 4 : y[k] = u[k + 4]
    BY <1>1, <1>2
  <1> HIDE DEF x, y
  <1>5. /\ x \o t \in Seq(Pieces) /\ Len(x \o t) = a + b - 4
        /\ \A k \in 1 .. a + b - 4 : (x \o t)[k] = IF k <= a - 4 THEN x[k] ELSE t[k - (a - 4)]
    BY <1>1, <1>3, ConcatProperties DEF b
  <1>6. \A k \in 1 .. a + b - 4 : (x \o t)[k] = y[k]
    <2> TAKE k \in 1 .. a + b - 4
    <2>1. k + 4 \in 1 .. a + b /\ (k <= a - 4 <=> k + 4 <= a) /\ k - (a - 4) = (k + 4) - a
          /\ (k <= a - 4 => k \in 1 .. a - 4)
      BY <1>1
    <2> QED
      BY <1>2, <1>3, <1>4, <1>5, <2>1
  <1>7. x \o t = y
    BY <1>4, <1>5, <1>6, SeqEqual
  <1> QED
    BY <1>2, <1>3, <1>7 DEF x, y, u, a

(* Taking a frame yields the next event. *)
LEMMA TakeFrameKeeps ==
  ASSUME StreamInv, TakeFrame
  PROVE  StreamInv'
  <1> DEFINE g == Len(stream.got)
             m == Len(stream.sent)
             buffer == stream.buffer
             net == stream.net
             k == CHOOSE i \in Breaks : \A j \in Breaks : i <= j
             frame == SubSeq(buffer, 1, k - 1)
             left == SubSeq(buffer, k + 2, Len(buffer))
             yielded == Append(stream.got, g + 1)
  <1>1. Breaks # {} /\ client = "reading"
    BY DEF TakeFrame
  <1>2. /\ stream.sent # <<>> /\ Len(buffer) >= 4 /\ g < m
        /\ buffer[1] = <<g + 1, 1>> /\ buffer[2] = <<g + 1, 2>>
        /\ 3 \in Breaks /\ \A i \in Breaks : 3 <= i
    BY <1>1, BreaksAfterFrame
  <1>3. k = 3
    <2>1. \A i \in Breaks : (\A j \in Breaks : i <= j) <=> i = 3
      <3>1. Breaks \subseteq Int
        BY DEF Breaks
      <3> QED
        BY <1>2, <3>1
    <2> QED
      BY <1>2, <2>1
  <1>4. /\ buffer \in Seq(Pieces) /\ net \in Seq(Pieces) /\ stream.got \in Seq(Nat)
        /\ stream.sent \in Seq(Events)
    BY DEF StreamInv, StreamTypeOK
  <1>5. g \in Nat /\ m \in Nat /\ g + 1 \in 1 .. m /\ g + 1 \in Nat
    <2>1. g \in Nat /\ m \in Nat
      BY <1>4, LenProperties
    <2> HIDE DEF g, m
    <2> QED
      BY <1>2, <2>1
  <1>6. frame = SubSeq(buffer, 1, 2) /\ left = SubSeq(buffer, 5, Len(buffer))
    <2> HIDE DEF k, buffer
    <2>1. k - 1 = 2 /\ k + 2 = 5
      BY <1>3
    <2> QED
      BY <2>1
  <1>7. Len(frame) = 2 /\ frame[1] = <<g + 1, 1>> /\ frame[2] = <<g + 1, 2>>
    <2> HIDE DEF frame, g
    <2>1. \A i \in 1 .. 2 : buffer[i] \in Pieces
      <3>1. Len(buffer) \in Nat
        BY <1>4, LenProperties
      <3>2. \A i \in 1 .. 2 : i \in 1 .. Len(buffer)
        BY <1>2, <3>1
      <3> QED
        BY <1>4, <3>2, ElementOfSeq
    <2>2. /\ Len(SubSeq(buffer, 1, 2)) = IF 1 <= 2 THEN 2 - 1 + 1 ELSE 0
          /\ \A i \in 1 .. 2 - 1 + 1 : SubSeq(buffer, 1, 2)[i] = buffer[1 + i - 1]
      BY <2>1, SubSeqProperties
    <2>3. Len(frame) = 2 /\ frame[1] = buffer[1] /\ frame[2] = buffer[2]
      BY <1>6, <2>2
    <2> QED
      BY <1>2, <2>3
  <1>8. frame[1][1] = frame[2][1] /\ frame[1][1] = g + 1
    <2> HIDE DEF frame, g
    <2> QED
      BY <1>7
  <1>9. /\ stream' = [stream EXCEPT !.buffer = left, !.got = yielded]
        /\ IF Final(stream.sent[g + 1]) THEN Ends([kind |-> "ended"]) ELSE UNCHANGED <<client, outcome>>
    <2> DEFINE whole == Len(frame) = 2 /\ frame[1][1] = frame[2][1]
    <2>1. /\ stream' = [stream EXCEPT !.buffer = left,
                                      !.got = IF whole THEN Append(stream.got, frame[1][1]) ELSE stream.got]
          /\ IF whole /\ Final(stream.sent[frame[1][1]])
             THEN Ends([kind |-> "ended"]) ELSE UNCHANGED <<client, outcome>>
      BY DEF TakeFrame
    <2>2. whole
      BY <1>7, <1>8
    <2> HIDE DEF whole, frame, left
    <2> QED
      BY <1>8, <2>1, <2>2
  <1>10. /\ left \in Seq(Pieces) /\ left \o net = Frames(g + 1, m)
    <2>1. buffer \o net = Frames(g, m)
      BY <1>2 DEF StreamInv, StreamLossless
    <2> HIDE DEF buffer, net, left, g, m, k, frame
    <2>2. left \in Seq(Pieces) /\ left \o net = SubSeq(buffer \o net, 5, Len(buffer \o net))
      BY <1>2, <1>4, <1>6, DropsFront
    <2> QED
      BY <1>2, <1>5, <2>1, <2>2, OtherFrames
  <1>11. /\ yielded \in Seq(Nat) /\ Len(yielded) = g + 1 /\ yielded # <<>>
         /\ yielded = [i \in 1 .. g + 1 |-> i] /\ yielded[g + 1] = g + 1
    <2> DEFINE got == stream.got
    <2>1. got \in Seq(Nat) /\ got = [i \in 1 .. g |-> i]
      BY <1>2, <1>4 DEF StreamInv, StreamLossless
    <2>2. g = Len(got) /\ yielded = Append(got, g + 1)
      OBVIOUS
    <2> HIDE DEF got, g, yielded
    <2>a. g + 1 \in Nat
      BY <1>5
    <2>b. /\ yielded \in Seq(Nat) /\ Len(yielded) = Len(got) + 1 /\ yielded # <<>>
          /\ yielded[Len(got) + 1] = g + 1 /\ \A i \in 1 .. Len(got) : yielded[i] = got[i]
      <3>1. \A s \in Seq(Nat), e \in Nat :
               /\ Append(s, e) \in Seq(Nat) /\ Len(Append(s, e)) = Len(s) + 1 /\ Append(s, e) # <<>>
               /\ Append(s, e)[Len(s) + 1] = e /\ \A i \in 1 .. Len(s) : Append(s, e)[i] = s[i]
        BY AppendProperties
      <3>2. got \in Seq(Nat)
        BY <2>1
      <3> QED
        BY <2>2, <2>a, <3>1, <3>2
    <2>3. /\ yielded \in Seq(Nat) /\ Len(yielded) = g + 1 /\ yielded # <<>>
          /\ yielded[g + 1] = g + 1 /\ \A i \in 1 .. g : yielded[i] = got[i]
      BY <2>2, <2>b
    <2>4. \A i \in 1 .. g + 1 : yielded[i] = i
      <3> TAKE i \in 1 .. g + 1
      <3>1. CASE i = g + 1
        BY <2>3, <3>1
      <3>2. CASE i # g + 1
        <4>1. i \in 1 .. g
          BY <1>5, <3>2
        <4> QED
          BY <2>1, <2>3, <4>1
      <3> QED
        BY <3>1, <3>2
    <2>5. DOMAIN yielded = 1 .. g + 1 /\ yielded \in [1 .. g + 1 -> Nat]
      BY <2>3, LenProperties
    <2>6. yielded = [i \in 1 .. g + 1 |-> i]
      BY <2>4, <2>5
    <2> QED
      BY <2>3, <2>6
  <1> HIDE DEF left, yielded, frame, k
  <1>12. /\ stream'.sent = stream.sent /\ stream'.net = net /\ stream'.buffer = left
         /\ stream'.got = yielded /\ stream'.end = stream.end
    BY <1>9 DEF StreamInv, StreamTypeOK
  <1>13. StreamTypeOK'
    BY <1>9, <1>10, <1>11 DEF StreamInv, StreamTypeOK
  <1> HIDE DEF net, buffer
  <1>14. Len(stream'.got) = g + 1 /\ Len(stream'.sent) = m /\ Last(stream'.got) = g + 1
    BY <1>11, <1>12 DEF Last
  <1> HIDE DEF g, m
  <1>15. StreamLossless'
    BY <1>5, <1>10, <1>11, <1>12, <1>14 DEF StreamLossless
  <1>16. outcome # [kind |-> "ended"]
    BY <1>1 DEF StreamInv, StreamOpened
  <1>17. client' \in {"reading", "idle"} /\ (client' # "idle" => outcome' = outcome)
    BY <1>1, <1>9 DEF Ends
  <1>18. StreamOpened'
    BY <1>12, <1>16, <1>17 DEF StreamInv, StreamOpened
  <1>19. StreamComplete'
    <2>1. outcome' = [kind |-> "ended"] => Final(stream.sent[g + 1])
      BY <1>9, <1>16
    <2> QED
      BY <1>2, <1>11, <1>12, <1>14, <2>1 DEF StreamComplete, Final
  <1> QED
    BY <1>2, <1>12, <1>13, <1>15, <1>18, <1>19 DEF StreamInv, NothingSent

(* The body ends when all events have been taken, the final one among them. *)
LEMMA EndKeeps ==
  ASSUME StreamInv, EndOfStream
  PROVE  StreamInv'
  <1>1. /\ client = "reading" /\ Breaks = {} /\ stream' = stream /\ client' = "idle"
        /\ \/ stream.end = "closed" /\ stream.net = <<>> /\ outcome' = [kind |-> "ended"]
           \/ outcome' = Raised
    BY DEF EndOfStream, Ends
  <1>2. StreamTypeOK' /\ NothingSent' /\ StreamOpened' /\ StreamLossless'
    BY <1>1 DEF StreamInv, StreamTypeOK, NothingSent, StreamOpened, StreamLossless
  <1>3. Raised # [kind |-> "ended"]
    BY DEF Raised
  <1>4. CASE stream.sent = <<>>
    BY <1>1, <1>2, <1>4 DEF StreamInv, NothingSent, StreamComplete
  <1>5. CASE stream.sent # <<>> /\ stream.end = "closed" /\ stream.net = <<>>
    <2> DEFINE g == Len(stream.got)
               m == Len(stream.sent)
    <2>1. /\ stream.buffer \in Seq(Pieces) /\ stream.got \in Seq(Nat) /\ stream.sent \in Seq(Events)
      BY DEF StreamInv, StreamTypeOK
    <2>2. g \in Nat /\ m \in Nat /\ m > 0
      BY <1>5, <2>1, LenProperties, EmptySeq
    <2>3. /\ g <= m /\ stream.got = [i \in 1 .. g |-> i]
          /\ stream.buffer \o stream.net = Frames(g, m)
      BY <1>5 DEF StreamInv, StreamLossless
    <2>4. stream.buffer = Frames(g, m)
      BY <1>5, <2>1, <2>3, ConcatEmptySeq
    <2>5. ~(Len(stream.buffer) >= 4)
      BY <1>1, <1>5, BreaksAfterFrame
    <2>6. g = m
      <3> HIDE DEF g, m
      <3>1. ~(g < m)
        BY <2>2, <2>4, <2>5, FirstFrame
      <3> QED
        BY <2>2, <2>3, <3>1
    <2>7. Last(stream.got) = m /\ stream.got # <<>>
      <3>1. stream.got[g] = g
        BY <2>2, <2>3, <2>6
      <3> QED
        BY <2>1, <2>2, <2>6, <3>1, EmptySeq DEF Last
    <2>8. Final(stream.sent[m])
      BY <1>5 DEF StreamInv, StreamOpened
    <2>9. StreamComplete'
      BY <1>1, <1>5, <2>7, <2>8 DEF StreamComplete, Final
    <2> QED
      BY <1>2, <2>9 DEF StreamInv
  <1> QED
    BY <1>1, <1>2, <1>3, <1>4, <1>5 DEF StreamInv, StreamComplete

(* The agent dies: its connections break. *)
LEMMA AgentDownKeeps ==
  ASSUME StreamInv, AgentDown
  PROVE  StreamInv'
  <1> DEFINE end == IF stream.end = "open" THEN "broken" ELSE stream.end
  <1>1. stream' = [stream EXCEPT !.end = end]
    BY DEF AgentDown
  <1>2. end \in {"none", "closed", "broken"} /\ (end = "closed" => stream.end = "closed")
    BY DEF StreamInv, StreamTypeOK
  <1>3. client \in {"resolve", "post", "wait"} => end = stream.end
    BY DEF StreamInv, StreamOpened, NoStream
  <1> HIDE DEF end
  <1>4. /\ stream'.sent = stream.sent /\ stream'.net = stream.net /\ stream'.buffer = stream.buffer
        /\ stream'.got = stream.got /\ stream'.end = end /\ StreamTypeOK'
    BY <1>1, <1>2 DEF StreamInv, StreamTypeOK
  <1>5. \/ UNCHANGED <<client, outcome>>
        \/ client = "wait" /\ client' = "idle" /\ outcome' = Raised
    BY DEF AgentDown, Ends
  <1>6. client \in {"resolve", "post", "wait"} => stream' = NoStream
    <2> SUFFICES ASSUME client \in {"resolve", "post", "wait"} PROVE stream' = NoStream
      OBVIOUS
    <2>1. stream = NoStream /\ end = stream.end
      BY <1>3 DEF StreamInv, StreamOpened
    <2> QED
      BY <1>1, <2>1 DEF NoStream
  <1>7. CASE client = "wait"
    BY <1>5, <1>6, <1>7, NoStreamKeeps DEF StreamInv, StreamOpened
  <1>8. CASE client # "wait"
    <2>1. UNCHANGED <<client, outcome>>
      BY <1>5, <1>8
    <2>2. StreamOpened'
      BY <1>2, <1>4, <1>6, <2>1 DEF StreamInv, StreamOpened
    <2> QED
      BY <1>2, <1>4, <2>1, <2>2 DEF StreamInv, NothingSent, StreamLossless, StreamComplete
  <1> QED
    BY <1>7, <1>8

(* The steps of a conversation. *)
LEMMA StreamsTalk ==
  ASSUME StreamInv, Conversation
  PROVE  StreamInv'
  <1>1. CASE Call
    <2>1. stream' = NoStream
      BY <1>1 DEF Call
    <2>2. client' # "idle" => outcome' = None
      BY <1>1 DEF Call, Ends
    <2> QED
      BY <2>1, <2>2, NoStreamKeeps, ExchangeBounds
  <1>2. CASE Resolve
    <2>1. stream' = stream /\ client = "resolve" /\ (client' # "idle" => outcome' = outcome)
      BY <1>2 DEF Resolve, Ends
    <2> QED
      BY <2>1, NoStreamKeeps DEF StreamInv, StreamOpened
  <1>3. CASE GiveUp
    BY <1>3, NoStreamKeeps DEF GiveUp, Ends
  <1>4. CASE Resume \/ ForeignAnswer \/ Read
    <2>1. stream' = stream /\ client \in {"post", "wait"} /\ (client' # "idle" => outcome' = outcome)
      BY <1>4 DEF Resume, ForeignAnswer, Read, Reached, Ends
    <2> QED
      BY <2>1, NoStreamKeeps DEF StreamInv, StreamOpened
  <1>5. CASE Respond
    BY <1>5, SameStreamKeeps DEF Respond
  <1> QED
    BY <1>1, <1>2, <1>3, <1>4, <1>5, StartKeeps, RefuseKeeps, HandlerKeeps, ReadChunkKeeps,
       TakeFrameKeeps, EndKeeps DEF Conversation

-----------------------------------------------------------------------------
(* The conversation and the processes together.                             *)

(* The types of everything. *)
AllTypeOK ==
    /\ TalkTypeOK
    /\ starts \in 0 .. deployment.starts
    /\ peers \subseteq AllKeys

(* Nothing has been said at first. *)
LEMMA InitTalks ==
  ASSUME Init
  PROVE  AllTypeOK /\ StreamInv /\ CallInv
  <1> USE DEF Init, ExchangeInit
  <1>1. TalkTypeOK
    BY DEF TalkTypeOK, NoTask, Idle
  <1>2. deployment.starts \in Nat
    BY StartsBounds
  <1>3. stream = NoStream /\ client = "idle"
    OBVIOUS
  <1>4. StreamTypeOK /\ NothingSent /\ StreamOpened /\ StreamLossless /\ StreamComplete
    <2>1. /\ stream.sent = <<>> /\ stream.got = <<>> /\ stream.net = <<>> /\ stream.buffer = <<>>
          /\ stream.end = "none"
      BY <1>3 DEF NoStream
    <2>2. StreamTypeOK
      BY <1>3 DEF StreamTypeOK, NoStream
    <2>3. stream.buffer \o stream.net = <<>>
      BY <2>1
    <2> QED
      BY <1>3, <2>1, <2>2, <2>3 DEF NothingSent, StreamOpened, StreamLossless, StreamComplete
  <1>5. CallInv
    BY <1>3 DEF CallInv
  <1> QED
    BY <1>1, <1>2, <1>4, <1>5 DEF AllTypeOK, StreamInv

(* A step of a process is none of the conversation, but for the agent's death. *)
LEMMA ProcessSteps ==
  ASSUME AllTypeOK, Prepare \/ Up \/ Down
  PROVE  /\ starts' \in 0 .. deployment.starts
         /\ UNCHANGED <<deployment, turn, call, peers>>
         /\ \/ AgentDown
            \/ UNCHANGED <<task, handler, stream, client, outcome>>
  <1>1. CASE Prepare
    <2>1. /\ UNCHANGED exchangeVars
          /\ starts' \in {starts, starts + 1}
          /\ starts' # starts => starts < deployment.starts
      BY <1>1 DEF Prepare
    <2>2. deployment.starts \in Nat
      BY StartsBounds DEF AllTypeOK, TalkTypeOK
    <2> QED
      BY <2>1, <2>2 DEF AllTypeOK, exchangeVars, serverVars
  <1>2. CASE Up
    BY <1>2 DEF Up, AgentUp, AllTypeOK, serverVars
  <1>3. CASE Down
    BY <1>3 DEF Down, AgentDown, AllTypeOK, exchangeVars, serverVars
  <1> QED
    BY <1>1, <1>2, <1>3

(* The types are kept. *)
LEMMA TypesKept ==
  ASSUME AllTypeOK, IInv, [Next]_vars
  PROVE  AllTypeOK'
  <1>1. CASE Prepare \/ Up \/ Down
    <2>1. CASE AgentDown
      <3>1. client' \in {client, "idle"} /\ task' = NoTask /\ handler' = [n \in Turns |-> Idle]
        BY <2>1 DEF AgentDown, Ends
      <3>2. TalkTypeOK'
        BY <1>1, <3>1, ProcessSteps DEF AllTypeOK, TalkTypeOK, NoTask, Idle, Turns
      <3> QED
        BY <1>1, <3>2, ProcessSteps DEF AllTypeOK
    <2>2. CASE UNCHANGED <<task, handler, stream, client, outcome>>
      <3>1. TalkTypeOK'
        BY <1>1, <2>2, ProcessSteps DEF AllTypeOK, TalkTypeOK, Turns
      <3> QED
        BY <1>1, <3>1, ProcessSteps DEF AllTypeOK
    <2> QED
      BY <1>1, <2>1, <2>2, ProcessSteps
  <1>2. CASE Talk
    <2>1. TalkTypeOK' /\ peers' \subseteq peers \cup ({agent} \ {None}) /\ starts' = starts
      BY <1>2, TalkTypes, TalkShows DEF AllTypeOK, Talk
    <2>2. deployment' = deployment
      BY <1>2, DeploymentStays DEF Talk
    <2>3. agent \in AllKeys \cup {None}
      BY DEF IInv, AgentIsUp, IdentityTypeOK
    <2> QED
      BY <2>1, <2>2, <2>3 DEF AllTypeOK
  <1>3. CASE UNCHANGED vars
    <2>1. UNCHANGED <<deployment, turn, client, task, handler, starts, peers>>
      BY <1>3 DEF vars, exchangeVars, serverVars
    <2> QED
      BY <2>1 DEF AllTypeOK, TalkTypeOK, Turns
  <1> QED
    BY <1>1, <1>2, <1>3 DEF Next

(* And so is what the stream and the call rest on. *)
LEMMA StreamKept ==
  ASSUME AllTypeOK, StreamInv, [Next]_vars
  PROVE  StreamInv'
  <1>1. CASE Prepare \/ Up \/ Down
    BY <1>1, ProcessSteps, AgentDownKeeps, SameStreamKeeps
  <1>2. CASE Talk
    BY <1>2, StreamsTalk DEF Talk
  <1>3. CASE UNCHANGED vars
    BY <1>3, SameStreamKeeps DEF vars, exchangeVars
  <1> QED
    BY <1>1, <1>2, <1>3 DEF Next

(* The agent is reached where the operator meant it to be: at the A2A path of the
   public URL, however that is written in the configuration. *)
ReachedAsWritten ==
    \A d \in Deployments : \E base :
        /\ Written(base, d.config)
        /\ d.public = URL(base.origin, base.path \o d.config.a2a_path)

(* Neither the processes' steps nor the conversation's disturb where calls go. *)
LEMMA CallKept ==
  ASSUME ReachedAsWritten, AllTypeOK, CallInv, [Next]_vars
  PROVE  CallInv'
  <1>1. CASE Prepare \/ Up \/ Down
    <2>1. UNCHANGED <<deployment, call>>
      BY <1>1, ProcessSteps
    <2>2. client' \in {client, "idle"}
      BY <1>1, ProcessSteps DEF AgentDown, Ends
    <2> QED
      BY <2>1, <2>2 DEF CallInv, CallsReachEndpoint
  <1>2. CASE Talk
    <2>1. deployment \in Deployments
      BY DEF AllTypeOK, TalkTypeOK
    <2>2. Endpoint(deployment.config) = deployment.public
      BY <2>1, EndpointIsMeant DEF ReachedAsWritten
    <2> QED
      BY <1>2, <2>1, <2>2, TalkReaches DEF Talk
  <1>3. CASE UNCHANGED vars
    <2>1. UNCHANGED <<deployment, call, client>>
      BY <1>3 DEF vars, exchangeVars
    <2> QED
      BY <2>1 DEF CallInv, CallsReachEndpoint
  <1> QED
    BY <1>1, <1>2, <1>3 DEF Next

(* The types, with what is known of the processes. *)
LEMMA TypesInductive == Spec => []AllTypeOK
  <1>1. Init => AllTypeOK
    BY InitTalks
  <1>2. AllTypeOK /\ IInv /\ [Next]_vars => AllTypeOK'
    BY TypesKept
  <1> QED
    BY <1>1, <1>2, Inductive, PTL DEF Spec

(* The stream's invariant, given the types. *)
LEMMA StreamsInductive == Spec => []StreamInv
  <1>1. Init => StreamInv
    BY InitTalks
  <1>2. AllTypeOK /\ StreamInv /\ [Next]_vars => StreamInv'
    BY StreamKept
  <1> QED
    BY <1>1, <1>2, TypesInductive, PTL DEF Spec

(* Every variable of an agent's processes and of the conversation has its type. *)
THEOREM DeploymentTypeCorrect == Spec => []TypeOK
  <1>1. AllTypeOK /\ IInv /\ StreamInv => TypeOK
    BY DEF AllTypeOK, IInv, StreamInv, StreamTypeOK, TalkTypeOK, TypeOK
  <1> QED
    BY <1>1, Inductive, TypesInductive, StreamsInductive, PTL

(* However a stream is cut into chunks on its way, the client yields its events in
   order, without loss or repetition. *)
THEOREM StreamsAreLossless == Spec => []StreamLossless
  <1>1. StreamInv => StreamLossless
    BY DEF StreamInv
  <1> QED
    BY <1>1, StreamsInductive, PTL

(* A stream that ends without an exception has yielded its final event. *)
THEOREM StreamsAreComplete == Spec => []StreamComplete
  <1>1. StreamInv => StreamComplete
    BY DEF StreamInv
  <1> QED
    BY <1>1, StreamsInductive, PTL

(* Whatever slashes, or legacy webhook path, the operator leaves behind the public
   URL, callers post to where the agent is reached, and by the transport they ask
   for. *)
THEOREM CallsGoToEndpoint ==
  ASSUME ReachedAsWritten
  PROVE  Spec => []CallsReachEndpoint
  <1>1. Init => CallInv
    BY InitTalks
  <1>2. AllTypeOK /\ CallInv /\ [Next]_vars => CallInv'
    BY CallKept
  <1>3. CallInv => CallsReachEndpoint
    BY DEF CallInv, CallsReachEndpoint
  <1> QED
    BY <1>1, <1>2, <1>3, TypesInductive, PTL DEF Spec
=============================================================================
