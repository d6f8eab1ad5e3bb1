------------------------------ MODULE Identity ------------------------------
(***************************************************************************)
(* How an agent comes by its key, and keeps it over restarts:              *)
(* ConfigManager.load_or_create (src/zyndai_agent/config_manager.py), which *)
(* creates the config file or migrates an old one, and resolve_keypair      *)
(* (src/zyndai_agent/entity_card_loader.py), which reads it.  Programs that *)
(* share the file run these steps concurrently and may die between any two. *)
(*                                                                         *)
(* A key stands for the pair and for the entity id that is computed from it. *)
(* A new key is registered before it is saved, and the code goes on alike   *)
(* whether the registration succeeds or fails.                              *)
(***************************************************************************)
CONSTANTS
    Processes,    \* programs that share the config file
    Keys,         \* keys that can be generated
    GivenKey,     \* the key in the environment or in a keypair file
    DerivedKey,   \* the key derived from the developer's key and the agent's index
    NoKey         \* no key

VARIABLES
    setup,        \* which sources of keys are configured, what the file was at first
    file,         \* the config file
    process,      \* of each program: where it is, its key and whether it has the old seed
    minted,       \* keys generated so far
    registered,   \* the entities the registry has learned of
    abandoned,    \* history: those whose program died before it had saved their key
    disturbed     \* history: a program died amid saving, or two were creating at once

registry == <<registered, abandoned>>

(* A config file is absent, in the legacy format, complete ("v2"), or not JSON.
   `seed` says that it reaches as far as one that carries the old seed does. *)
Content(kind, key, seed) == [kind |-> kind, key |-> key, seed |-> seed]
Truncated == Content("broken", NoKey, FALSE)
Process(at, key, seed) == [at |-> at, key |-> key, seed |-> seed]
Off == Process("off", NoKey, FALSE)

FirstFiles ==
    {Content("absent", NoKey, FALSE), Content("legacy", NoKey, TRUE), Truncated}

IdentityInit ==
    /\ file \in FirstFiles
    /\ setup \in [given : BOOLEAN, derived : BOOLEAN, first : {file.kind}]
    /\ process = [p \in Processes |-> Off]
    /\ minted = {}
    /\ registered = {} /\ abandoned = {}
    /\ disturbed = FALSE

-----------------------------------------------------------------------------
(* ConfigManager.load_or_create.                                            *)

Saving(p) == process[p].at \in {"save", "write"}

(* Variant: a config that was migrated is migrated again. *)
LegacyBySeed(f) == f.kind = "legacy" \/ f.seed

Legacy(f) == f.kind = "legacy"

(* A complete config is used as it is. *)
LoadComplete(p) ==
    /\ process[p].at = "off"
    /\ file.kind = "v2" /\ ~Legacy(file)
    /\ process' = [process EXCEPT ![p] = Process("resolve", NoKey, FALSE)]
    /\ UNCHANGED <<setup, file, minted, registry, disturbed>>

(* There is a key, registered or not, and the new config is ready to be saved. *)
Holds(p, key, seed) ==
    /\ process' = [process EXCEPT ![p] = Process("save", key, seed)]
    /\ minted' = minted \cup ({key} \cap Keys)
    /\ registered' \in {registered, registered \cup {key}}
    /\ disturbed' = (disturbed \/ \E q \in Processes : Saving(q))
    /\ UNCHANGED <<setup, file, abandoned>>

(* _migrate_legacy_config always generates a key. *)
Migrate(p) ==
    /\ process[p].at = "off"
    /\ Legacy(file)
    /\ \E key \in Keys \ minted : Holds(p, key, TRUE)

(* create_agent; a file that is not JSON counts as none. *)
Create(p) ==
    /\ process[p].at = "off"
    /\ file.kind \in {"absent", "broken"}
    /\ IF setup.derived THEN Holds(p, DerivedKey, FALSE)
       ELSE \E key \in Keys \ minted : Holds(p, key, FALSE)

(* save_config: open(path, "w") truncates the file ... *)
OpenConfig(p) ==
    /\ process[p].at = "save"
    /\ process' = [process EXCEPT ![p].at = "write"]
    /\ file' = Truncated
    /\ UNCHANGED <<setup, minted, registry, disturbed>>

(* ... and the text is written from its start when it is closed: what another
   program has written meanwhile is overwritten, but for a tail if it was longer. *)
WriteConfig(p) ==
    /\ process[p].at = "write"
    /\ file' = IF file.seed /\ ~process[p].seed
               THEN Content("broken", NoKey, TRUE)
               ELSE Content("v2", process[p].key, process[p].seed)
    /\ process' = [process EXCEPT ![p] = Process("resolve", NoKey, FALSE)]
    /\ UNCHANGED <<setup, minted, registry, disturbed>>

-----------------------------------------------------------------------------
(* resolve_keypair, which a program may also run without having loaded or     *)
(* created a config.                                                          *)

Resolution ==
    IF setup.given THEN GivenKey
    ELSE IF file.kind = "v2" THEN file.key
    ELSE NoKey

(* A missing, broken or legacy file raises, and the program ends. *)
ResolveKey(p) ==
    /\ process[p].at \in {"off", "resolve"}
    /\ process' = [process EXCEPT ![p] = IF Resolution = NoKey THEN Off
                                         ELSE Process("start", Resolution, FALSE)]
    /\ UNCHANGED <<setup, file, minted, registry, disturbed>>

Up(p) == process[p].at = "up"

(* Variant: the port is not probed. *)
ServeAnyway(p) ==
    /\ process[p].at = "start"
    /\ process' = [process EXCEPT ![p].at = "up"]
    /\ UNCHANGED <<setup, file, minted, registry, disturbed>>

(* start(): the agent serves, or finds its port taken. *)
Serve(p) ==
    /\ process[p].at = "start"
    /\ \A q \in Processes : ~Up(q)
    /\ process' = [process EXCEPT ![p].at = "up"]
    /\ UNCHANGED <<setup, file, minted, registry, disturbed>>

PortTaken(p) ==
    /\ process[p].at = "start"
    /\ \E q \in Processes : Up(q)
    /\ process' = [process EXCEPT ![p] = Off]
    /\ UNCHANGED <<setup, file, minted, registry, disturbed>>

(* A program ends or dies, wherever it is. *)
Stop(p) ==
    /\ process[p].at # "off"
    /\ process' = [process EXCEPT ![p] = Off]
    /\ disturbed' = (disturbed \/ process[p].at = "write")
    /\ abandoned' = abandoned \cup IF Saving(p) THEN {process[p].key} \cap registered ELSE {}
    /\ UNCHANGED <<setup, file, minted, registered>>

Preparation(p) ==
    \/ LoadComplete(p) \/ Migrate(p) \/ Create(p)
    \/ OpenConfig(p) \/ WriteConfig(p)
    \/ ResolveKey(p) \/ PortTaken(p)
=============================================================================
