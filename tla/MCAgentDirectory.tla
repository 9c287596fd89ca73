-------------------------- MODULE MCAgentDirectory --------------------------
(* A small registry for the directory client.                               *)
EXTENDS AgentDirectory, TLC

MCNoFilter == [x402Support |-> NULL, allowedProtocols |-> NULL, hasServiceUrl |-> NULL]
MCFilters == {MCNoFilter, [MCNoFilter EXCEPT !.allowedProtocols = {"mcp", "did"}]}
MCDefault == MergeProfileFilters(MCNoFilter, MCNoFilter)
MCConfigurations ==
    {<<"onchain">>, <<"envio", "onchain">>, <<"envio", "onchainUnset">>,
     <<"scan", "envio">>, <<"envio", "onchain", "scan">>}
MCPolicies ==
    {[preferredProtocols |-> <<"a2a", "web", "mcp", "oasf">>, minTrustScore |-> 2,
      requireX402Support |-> FALSE, requireHttps |-> TRUE]}
MCUris == {"ipfs:1", "data:2", "data:3", NULL}
MCInlineUris == {"data:2", "data:3"}
MCServices(given) ==
    [p \in Protocols |-> IF p \in DOMAIN given THEN given[p] ELSE NULL]
MCDocument(name, x402, services, endpoints) ==
    [name |-> name, x402Support |-> x402, x402_supported |-> x402, x402Supported |-> NULL,
     services |-> MCServices(services), endpoints |-> MCServices(endpoints),
     servicesListed |-> FALSE]
\* Both documents that are in the URI have an endpoint for a2a.
MCDocumentOf(u) ==
    CASE u = "ipfs:1" -> MCDocument("n1", TRUE, [mcp |-> "https://1", a2a |-> "http://1"],
                                    [web |-> "https://2", did |-> "did:2"])
      [] u = "data:2" -> MCDocument("n2", NULL, [a2a |-> "https://1", did |-> "https://4"],
                                    << >>)
      [] u = "data:3" -> MCDocument(NULL, FALSE, [a2a |-> "https://3"], << >>)
MCDocumentAt == [u \in MCUris \ {NULL} |-> MCDocumentOf(u)]
MCNames == {"n1", "n2", "n3"}
MCUrlObjects == {"https://4"}
MCHttps == {"https://1", "https://2", "https://3", "https://4"}
MCAddresses == MCHttps \cup {"http://1", "did:2"}
CONSTANTS o1, o2, zero
MCMetadata == {<<"agentWallet", zero>>, <<"x402Support", TRUE>>, <<"name", "n3">>}
MCScores == {1}
MCOwners == {o1, o2}
MCAccounts == MCOwners \cup {zero}
MCSymmetry == Permutations(MCOwners) \cup Permutations(Calls)

OneCall == \A c, d \in Calls : c # d => calls[c] = NULL \/ calls[d] = NULL
WithoutFilter(c) == calls[c] # NULL => calls[c].filter = MCDefault
Resolves(c) == calls[c] # NULL => calls[c].kind = "resolve"

\* The indexer alone has the longest histories, with all the events.
IndexerAlone ==
    /\ providers = <<"envio", "onchain">> /\ clock = 0
    /\ \A c \in Calls : calls[c] = NULL
    /\ \A a \in Agents : cache[a] = NULL

\* While clients ask, an agent is registered and changes hands once.  Two calls
\* overlap where there are two providers that both fetch, up to time 1, and are
\* unfiltered resolve calls, which share the cache.  No search has a filter; three
\* providers are only asked to resolve, up to time 1 and without a filter.
ClientsAsk ==
    /\ Len(log) <= 3 /\ providers # <<"scan", "envio">>
    /\ \A i \in DOMAIN log :
         \/ log[i].kind = "Transfer"
         \/ log[i].kind = "Registered" /\ log[i].uri = "ipfs:1"
    /\ \/ OneCall
       \/ /\ clock <= 1
          /\ \A c \in Calls : Resolves(c) /\ WithoutFilter(c) /\ ~calls[c].unchecked
    /\ \A c \in Calls : Resolves(c) \/ WithoutFilter(c)
    /\ Len(providers) # 2 => clock <= 1 /\ OneCall /\ \A c \in Calls : WithoutFilter(c)
    /\ Len(providers) = 3 => \A c \in Calls : Resolves(c)

\* While payers ask, one at a time, an agent that is registered at the start goes
\* from one document to another, twice where they resolve it by index and registry.
PayersAsk ==
    /\ OneCall /\ \A c \in Calls : WithoutFilter(c)
    /\ clock = 0 \/ log # << >>
    /\ \A i \in DOMAIN log :
         \/ i = 1 /\ log[i].at = 0
         \/ i = 2 /\ log[i].uri = "data:3"
         \/ /\ log[i].kind = "URIUpdated" /\ log[i].uri # NULL
            /\ \A j \in 2..(i - 1) : log[i].uri # log[j].uri
    /\ \/ providers = <<"scan", "envio">> /\ Len(log) <= 3
       \/ /\ providers = <<"envio", "onchain">> /\ Len(log) <= 4
          /\ \A c \in Calls : Resolves(c)

Small == IndexerAlone \/ ClientsAsk \/ PayersAsk
=============================================================================
