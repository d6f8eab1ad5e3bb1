--------------------------------- MODULE Card ---------------------------------
(***************************************************************************)
(* The agent card: how an entity builds and signs it (build_runtime_card in *)
(* src/zyndai_agent/entity_card_loader.py, src/zyndai_agent/a2a/card.py,    *)
(* build_entity_url in src/zyndai_agent/config_manager.py), and how a caller *)
(* finds the endpoint in one (src/zyndai_agent/a2a/client.py).              *)
(*                                                                         *)
(* A URL is an origin and the segments of its path; a trailing slash is an  *)
(* empty last segment.  An entity's id is a hash of its public key, which is *)
(* modelled by the key; a signature by the key and what was signed.         *)
(***************************************************************************)
EXTENDS Integers, Sequences

CONSTANTS
    Unset       \* a field that is None or missing

URL(origin, path) == [origin |-> origin, path |-> path]
Local == "localhost"
Blank == ""     \* the segment after a trailing slash

DropLast(path) == SubSeq(path, 1, Len(path) - 1)
EndsWith(path, segment) == path # <<>> /\ path[Len(path)] = segment

(* str.rstrip("/") *)
Stripped(path) ==
    LET kept == {i \in DOMAIN path : path[i] # Blank}
        end == IF kept = {} THEN 0 ELSE CHOOSE i \in kept : \A j \in kept : j <= i
    IN  SubSeq(path, 1, end)

(* build_entity_url: a configured public URL without "/webhook" or slashes at its
   end, or else the address the server binds. *)
EntityURL(config) ==
    IF config.entity_url = Unset THEN URL(Local, <<>>)
    ELSE LET u == config.entity_url
         IN  URL(u.origin, IF EndsWith(u.path, "webhook") THEN DropLast(u.path) ELSE Stripped(u.path))

(* _get_base_url, which does the same once more. *)
BaseURL(config) ==
    LET u == EntityURL(config)
    IN  URL(u.origin, Stripped(IF EndsWith(u.path, "webhook") THEN DropLast(u.path) ELSE u.path))

(* Variant: the base URL is joined as it was configured. *)
EndpointUnstripped(config) ==
    LET u == IF config.entity_url = Unset THEN URL(Local, <<>>) ELSE config.entity_url
    IN  URL(u.origin, u.path \o config.a2a_path)

(* `url` of the card. *)
Endpoint(config) == URL(BaseURL(config).origin, BaseURL(config).path \o config.a2a_path)

-----------------------------------------------------------------------------
(* Building a card.                                                         *)

Or(value, default) == IF value = Unset THEN default ELSE value

(* The configured provider, unless its organization is blank, or the one that the
   developer's record names. *)
Provider(config, fallback) == Or(config.provider, fallback)

(* `entity_pricing`, or the legacy `price` string. *)
Pricing(config) == Or(config.entity_pricing, config.price)

InputModes(config, acceptsFiles) ==
    Or(config.input_modes,
       {"text/plain", "application/json"} \cup IF acceptsFiles THEN {"multipart/form-data"} ELSE {})

(* _detects_attachments: an array whose items spell the fields of an attachment
   out in place.  Items given by a reference, which is how pydantic writes a list
   of a model, are not looked up. *)
AcceptsFiles(model) == \E f \in model : f.type = "array" /\ f.items = "inline"

Skills(config) == Or(config.skills, {[id |-> "default", name |-> config.name]})

Streaming(config) == Or(config.streaming, TRUE)

Sign(card, key) == [card |-> card, by |-> key]
Signed(card, key) == [body |-> card, signature |-> Sign(card, key)]

(* build_agent_card for an entity with this key. *)
AgentCard(config, key, fallback) ==
    Signed([url |-> Endpoint(config), preferredTransport |-> "JSONRPC",
            additionalInterfaces |-> <<>>,
            entityId |-> key, publicKey |-> key,
            streaming |-> Streaming(config),
            provider |-> Provider(config, fallback), pricing |-> Pricing(config),
            inputModes |-> InputModes(config, AcceptsFiles(config.model)),
            skills |-> Skills(config)],
           key)

-----------------------------------------------------------------------------
(* Resolving a card.                                                        *)

(* _normalize_transport: no transport at all counts as JSON-RPC. *)
Normalized(transport) ==
    CASE transport \in {"JSONRPC", Unset} -> "JSONRPC"
      [] transport = "HTTP+JSON" -> "HTTP+JSON"
      [] OTHER -> Unset

Interface(transport, url) == [transport |-> Normalized(transport), url |-> url]
Usable(interface) == interface.transport # Unset /\ interface.url # Unset

(* The card's own URL comes first. *)
Interfaces(card) ==
    <<Interface(card.preferredTransport, card.url)>>
      \o [i \in DOMAIN card.additionalInterfaces |->
             Interface(card.additionalInterfaces[i].transport, card.additionalInterfaces[i].url)]

(* Those of them that have a transport the client speaks and an address, and are of
   the transport asked for. *)
Offered(card, prefer) ==
    {i \in DOMAIN Interfaces(card) :
        LET interface == Interfaces(card)[i]
        IN  Usable(interface) /\ (prefer = "auto" \/ interface.transport = prefer)}

(* resolve_transport_from_card: the first interface with the transport asked for,
   the first one altogether for "auto"; Unset where the code raises. *)
Resolved(card, prefer) ==
    LET offered == Offered(card, prefer)
    IN  IF offered = {} THEN Unset
        ELSE Interfaces(card)[CHOOSE i \in offered : \A j \in offered : i <= j]
=============================================================================
