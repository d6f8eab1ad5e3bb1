---- MODULE MCDeployment ----
EXTENDS Deployment, TLC
CONSTANTS t1, t2, t3, t4, f1, f2, bytes, uri, site, mallory

File(name, d, u) == [name |-> name, data |-> d, url |-> u]
Input(text, data, atts) == [text |-> text, data |-> data, attachments |-> atts]

OnlyData == Input(NoText, [topic |-> <<t2>>, prompt |-> <<t2>>], <<>>)

AllInputs ==
    { Input(<<t1>>, NoData, <<>>),
      Input(<<t1>>, [topic |-> <<t2>>, content |-> <<t2>>, sender_id |-> mallory],
            <<File(f1, bytes, uri), File(f2, None, uri)>>),
      OnlyData,
      Input(<<t1>>, NoData, <<File(f1, None, None)>>) }

Returned(form, value) == [form |-> form, value |-> value]

AllResults ==
    { Returned("none", NoData),
      Returned("text", <<t3>>),
      Returned("dict", [response |-> <<t3>>]),
      Returned("dict", [text |-> <<t3>>, data |-> [response |-> <<t4>>],
                        attachments |-> <<File(f1, bytes, None)>>]),
      Returned("dict", [content |-> <<t3>>, attachments |-> <<Foreign>>]),
      Returned("dict", [data |-> [wrong |-> Blob]]),
      Returned("langgraph", [content |-> Blob]),
      Returned("crewai", [other |-> <<t4>>]) }

TheUtterances == {<<t4>>}
TheComplaint == <<"error">>
TheRequired == {"topic"}
TheRefuted == {[wrong |-> Blob]}

Config(entity_url) ==
    [entity_url |-> entity_url, a2a_path |-> <<"a2a", "v1">>, name |-> "agent",
     provider |-> None, entity_pricing |-> None, price |-> None, input_modes |-> None,
     skills |-> None, streaming |-> None,
     model |-> {[type |-> "array", items |-> "reference"]}]

Setup(given, derived, first) == [given |-> given, derived |-> derived, first |-> first]

TheForeignCards ==
    { [url |-> URL(mallory, <<>>), preferredTransport |-> "GRPC",
       additionalInterfaces |-> <<[transport |-> "HTTP+JSON", url |-> URL(mallory, <<"rest">>)]>>],
      [url |-> URL(mallory, <<>>), preferredTransport |-> None, additionalInterfaces |-> <<>>] }

CallOf(op, input, prefer, target) ==
    [op |-> op, input |-> input, prefer |-> prefer, target |-> target]

AllCalls ==
    {CallOf("stream", input, "auto", None) : input \in AllInputs}
    \cup {CallOf("ask", input, prefer, target) :
             input \in AllInputs, prefer \in {"auto", "JSONRPC", "HTTP+JSON"},
             target \in {None} \cup TheForeignCards}

Deployed(path, setups, n, turns, calls, results) ==
    [config |-> Config(URL(site, path)), public |-> URL(site, <<"x", "a2a", "v1">>),
     setups |-> setups, starts |-> n, turns |-> turns, calls |-> calls, results |-> results]

(* A long conversation with an agent that does not come back; one with an agent that
   does, between two calls or amid one; and a call to an agent that is set up and
   restarted often, whatever its sources of keys.                              *)
OneCall == {CallOf("ask", OnlyData, "auto", None)}
OneResult == {Returned("text", <<t3>>)}
TheDeployments ==
    { Deployed(<<"x", "">>, {Setup(TRUE, FALSE, "absent")}, 1, 2, AllCalls, AllResults),
      Deployed(<<"x", "webhook">>, {Setup(FALSE, FALSE, "absent")}, 2, 2, OneCall, OneResult),
      Deployed(<<"x", "webhook">>, [given : BOOLEAN, derived : BOOLEAN,
                                    first : {"absent", "legacy", "broken"}],
               3, 1, OneCall, OneResult) }

ProcessSymmetry == Permutations(Processes) \cup Permutations(Keys)
====
