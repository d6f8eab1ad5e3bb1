---------------------------- MODULE MCLifecycle ----------------------------
(* Instances of Lifecycle for TLC. *)
EXTENDS Lifecycle, TLC

CONSTANTS p1, p2, a, b

MCProcesses == {p1, p2}
MCFields == {"name", "entity_url", "openapi_url", "entity_pricing"}
MCAlways == {"name", "entity_url"}
MCOnlyAtFirst == {"entity_pricing"}
MCValues == {a, b}

(* Three deployments: the first gives everything; the next changes the address and
   the price and drops the optional field; the last has a name of its own and
   gives neither.                                                            *)
First == "name" :> a @@ "entity_url" :> a @@ "openapi_url" :> a @@ "entity_pricing" :> a
Moved == "name" :> a @@ "entity_url" :> b @@ "entity_pricing" :> b
Renamed == "name" :> b @@ "entity_url" :> a
MCConfigs == {First, Moved, Renamed}
MCTwoConfigs == {First, Moved}
MCFirst == {p1}
MCFailures == RequestKinds
MCUpsertFailures == {"lookup", "register", "update"}
=============================================================================
