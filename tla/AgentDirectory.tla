--------------------------- MODULE AgentDirectory ---------------------------
(***************************************************************************)
(* The directory client of packages/erc8004-adapter over its three         *)
(* providers, the ERC-8004 registry they all report on, and the indexer    *)
(* (services/envio-erc8004-indexer) behind one of them.                    *)
(*                                                                         *)
(* The registry is outside the repository: here it is the log of its       *)
(* events.  The indexer handles the log in order, at its own pace.  A call *)
(* of the client asks one provider after another and awaits each answer;   *)
(* the cache is shared by all calls.  Between two awaits nothing else runs. *)
(***************************************************************************)
EXTENDS AgentProfiles, Functions

CONSTANTS
    Agents,         \* token ids of one registry
    Owners,         \* the accounts that own agents
    Metadata,       \* the entries <<key, value>> of metadata that are set
    Scores,         \* the values feedback gives
    Configurations, \* lists of providers a client may be configured with
    Filters,        \* what callers filter by
    Policies,       \* what payers demand of an endpoint
    DefaultFilter,  \* the filter the client is configured with
    Calls,          \* how many calls there may be at a time, as slots
    CacheTtl,       \* cacheTtlMs
    MaxCall,        \* how long a call may take: its fetches time out
    MaxEvents, MaxClock,  \* bounds of the model
    UNAVAILABLE     \* the answer of a call that throws

ASSUME DirectoryConstants ==
    /\ CacheTtl \in Nat /\ MaxCall \in Nat \ {0}
    /\ \A list \in Configurations :
         list \in Seq({"onchain", "onchainUnset", "envio", "scan"}) /\ list # << >>
    /\ Owners \subseteq Accounts /\ Scores \subseteq Int
    /\ \A entry \in Metadata :
         /\ entry[1] = "agentWallet" => entry[2] \in Accounts
         /\ entry[1] = "x402Support" => entry[2] \in BOOLEAN
         /\ entry[1] = "name" => entry[2] \in Names

VARIABLES
    clock,          \* Date.now()
    log,            \* the registry's events, with the time of their block
    indexed,        \* when each of the first events was handled
    rows,           \* the indexer's table: agent -> its row or NULL
    providers,      \* config.providers
    cache,          \* resolveCache: agent -> NULL or a CacheEntry
    calls,          \* the calls under way, NULL for a free slot
    answered        \* the call the last step answered, or NULL

vars == <<clock, log, indexed, rows, providers, cache, calls, answered>>

-----------------------------------------------------------------------------
(* What the registry says after its first n events.                         *)

Said(agent, kinds, n) == {i \in 1..n : log[i].agent = agent /\ log[i].kind \in kinds}
LastOf(agent, kinds, n) == Max({0} \cup Said(agent, kinds, n))

Known(agent, n) == LastOf(agent, {"Registered"}, n) # 0
OwnerAfter(agent, n) == log[LastOf(agent, {"Transfer"}, n)].to
UriAfter(agent, n) == log[LastOf(agent, {"Registered", "URIUpdated"}, n)].uri

Registered(agent) == Known(agent, Len(log))
Owner(agent) == OwnerAfter(agent, Len(log))
\* The URI is what tokenURI says or, when that says nothing, agentURI.
ReadTokenUri(agent) == UriAfter(agent, Len(log))
Document(agent) ==
    IF ReadTokenUri(agent) = NULL THEN NULL ELSE DocumentAt[ReadTokenUri(agent)]
Feedback(agent) ==
    LET given == Said(agent, {"NewFeedback"}, Len(log))
    IN  Trust(Cardinality(given), SumFunctionOnSet([i \in given |-> log[i].value], given))

(* The registry's transactions.  A registration mints the token first.      *)

Emit(events) ==
    /\ Len(log) + Len(events) <= MaxEvents
    /\ log' = log \o events
    /\ answered' = NULL
    /\ UNCHANGED <<clock, indexed, rows, providers, cache, calls>>

Register(agent, owner, uri) ==
    /\ ~Registered(agent)
    /\ Emit(<<[at |-> clock, kind |-> "Transfer", agent |-> agent, to |-> owner],
              [at |-> clock, kind |-> "Registered", agent |-> agent,
               owner |-> owner, uri |-> uri]>>)
TransferAgent(agent, to) ==
    /\ Registered(agent) /\ to # Owner(agent)
    /\ Emit(<<[at |-> clock, kind |-> "Transfer", agent |-> agent, to |-> to]>>)
SetAgentUri(agent, uri) ==
    /\ Registered(agent)
    /\ Emit(<<[at |-> clock, kind |-> "URIUpdated", agent |-> agent, uri |-> uri]>>)
SetMetadata(agent, entry) ==
    /\ Registered(agent)
    /\ Emit(<<[at |-> clock, kind |-> "MetadataSet", agent |-> agent,
               entry |-> entry]>>)
GiveFeedback(agent, score) ==
    /\ Registered(agent)
    /\ Emit(<<[at |-> clock, kind |-> "NewFeedback", agent |-> agent, value |-> score]>>)
RevokeFeedback(agent) ==
    /\ LastOf(agent, {"NewFeedback"}, Len(log)) # 0
    /\ Emit(<<[at |-> clock, kind |-> "FeedbackRevoked", agent |-> agent]>>)

-----------------------------------------------------------------------------
(* The indexer.                                                             *)

getOrCreateProfile(agent) == Else(rows[agent], EmptyProfile)

IndexNext ==
    /\ Len(indexed) < Len(log)
    /\ LET event == log[Len(indexed) + 1]
       IN  rows' = [rows EXCEPT ![event.agent] =
                       Handle(getOrCreateProfile(event.agent), event)]
    /\ indexed' = Append(indexed, clock)
    /\ answered' = NULL
    /\ UNCHANGED <<clock, log, providers, cache, calls>>

-----------------------------------------------------------------------------
(* A call of the client.  found has, for each agent the call is about, the  *)
(* profiles its providers have given so far.  unchecked is a history        *)
(* variable: a provider has said that there is no such agent although       *)
(* neither the registry nor the index had said so.                          *)

\* Only resolveAgent asks the registry itself: that provider has no search.
Asked(kind) ==
    {i \in DOMAIN providers :
        kind = "resolve" \/ providers[i] \notin {"onchain", "onchainUnset"}}

\* onchainUnset is a provider without a registry or an RPC URL for the chain.
FirstStep(provider) ==
    CASE provider = "onchain" -> "ownerOf"
      [] provider = "onchainUnset" -> "unset"
      [] provider = "envio" -> "graphql"
      [] provider = "scan" -> "agent"

\* A call before the first provider.
NewCall(kind, agents, filter) ==
    [kind |-> kind, agents |-> agents, filter |-> MergeProfileFilters(DefaultFilter, filter),
     start |-> clock, provider |-> 0, step |-> NULL,
     held |-> NULL, found |-> [a \in Agents |-> << >>], errors |-> 0,
     unchecked |-> FALSE]

\* A call that returned, or threw UNAVAILABLE.
Ended(call, answer) ==
    [kind |-> call.kind, filter |-> call.filter, start |-> call.start,
     unchecked |-> call.unchecked, answer |-> answer]

Filtered(profiles, filter) ==
    [a \in DOMAIN profiles |-> ApplyProfileFilter(profiles[a], filter)]

Running(c) == calls[c] # NULL
At(c, step) == Running(c) /\ calls[c].step = step

\* A bug to guard against: the cache keeps what this call's filter leaves.
CacheFiltered(c, call) ==
    LET merged == [a \in call.agents |-> MergeProfiles(call.found[a])]
        answer == Filtered(merged, call.filter)
    IN  /\ calls' = [calls EXCEPT ![c] = NULL]
        /\ answered' = Ended(call, answer)
        /\ cache' = [a \in Agents |->
                       IF a \in call.agents /\ call.kind = "resolve"
                       THEN [value |-> answer[a], expiresAt |-> clock + CacheTtl,
                             unchecked |-> call.unchecked]
                       ELSE cache[a]]

\* The end of the loop over the providers: nothing is awaited between the
\* last answer and the return.  The cache keeps the profile as it was merged.
Finish(c, call) ==
    LET merged == [a \in call.agents |-> MergeProfiles(call.found[a])]
        nothing == \A a \in call.agents : merged[a] = NULL
        unavailable == nothing /\ IF call.kind = "resolve"
                                  THEN call.errors = Len(providers)
                                  ELSE call.errors > 0
    IN  /\ calls' = [calls EXCEPT ![c] = NULL]
        /\ answered' = Ended(call, IF unavailable THEN UNAVAILABLE
                                   ELSE Filtered(merged, call.filter))
        /\ cache' = IF unavailable \/ call.kind # "resolve" THEN cache
                    ELSE [a \in Agents |->
                            IF a \in call.agents
                            THEN [value |-> merged[a], expiresAt |-> clock + CacheTtl,
                                  unchecked |-> call.unchecked]
                            ELSE cache[a]]

\* On to the next provider.
Advance(c, call) ==
    LET rest == {i \in Asked(call.kind) : i > call.provider}
    IN  IF rest = {} THEN Finish(c, call)
        ELSE /\ calls' = [calls EXCEPT ![c] =
                            [call EXCEPT !.provider = Min(rest), !.held = NULL,
                                         !.step = FirstStep(providers[Min(rest)])]]
             /\ answered' = NULL
             /\ UNCHANGED cache

\* The provider's answer: a profile or NULL for each agent.
Provided(c, profiles) ==
    Advance(c, [calls[c] EXCEPT !.found =
                  [a \in Agents |-> IF a \in DOMAIN profiles /\ profiles[a] # NULL
                                    THEN Append(@[a], profiles[a]) ELSE @[a]]])

AwaitNext(c, step, held) ==
    /\ calls' = [calls EXCEPT ![c].step = step, ![c].held = held]
    /\ answered' = NULL
    /\ UNCHANGED cache

World == <<clock, log, indexed, rows, providers>>

\* A bug to guard against: a profile is served at the time it expires.
ServeExpiring(c, agent, filter) ==
    LET cached == cache[agent]
        call == NewCall("resolve", {agent}, filter)
    IN  /\ ~Running(c)
        /\ IF cached # NULL /\ cached.expiresAt >= clock
           THEN /\ answered' = Ended([call EXCEPT !.unchecked = cached.unchecked],
                                     Filtered([a \in {agent} |-> cached.value],
                                              call.filter))
                /\ UNCHANGED <<calls, cache>>
           ELSE Advance(c, call)
        /\ UNCHANGED World

\* resolveAgent: a cached profile is answered at once, through this call's
\* own filter.
ResolveAgent(c, agent, filter) ==
    LET cached == cache[agent]
        call == NewCall("resolve", {agent}, filter)
    IN  /\ ~Running(c)
        /\ IF cached # NULL /\ cached.expiresAt > clock
           THEN /\ answered' = Ended([call EXCEPT !.unchecked = cached.unchecked],
                                     Filtered([a \in {agent} |-> cached.value],
                                              call.filter))
                /\ UNCHANGED <<calls, cache>>
           ELSE Advance(c, call)
        /\ UNCHANGED World

Search(c, filter) ==
    /\ ~Running(c)
    /\ Advance(c, NewCall("search", Agents, filter))
    /\ UNCHANGED World

\* A fetch that fails or times out: whatever its provider had read so far is
\* lost, and the provider counts as failed.
FetchFails(c) ==
    /\ Running(c) /\ ~At(c, "unset")
    /\ Advance(c, [calls[c] EXCEPT !.errors = @ + 1])
    /\ UNCHANGED World

(* The provider of the registry: two calls of the RPC node and a fetch of   *)
(* the document.  An error the node answers with is no failure: the agent   *)
(* counts as absent, or as one without a document.                          *)

TheAgent(c) == CHOOSE a \in calls[c].agents : TRUE

\* The provider answers null; absent: whether there is no such agent.
NotFound(c, absent) == Advance(c, [calls[c] EXCEPT !.unchecked = @ \/ ~absent])

\* Without a registry or an RPC URL nothing is fetched, so nothing fails.
RegistryUnset(c) ==
    /\ At(c, "unset")
    /\ NotFound(c, FALSE)
    /\ UNCHANGED World

RpcError(c) ==
    /\ \/ At(c, "ownerOf") /\ NotFound(c, FALSE)
       \/ At(c, "tokenURI") /\ Provided(c, [a \in calls[c].agents |->
                                               OnchainProfile(calls[c].held, NULL)])
    /\ UNCHANGED World

OwnerOf(c) ==
    /\ At(c, "ownerOf")
    /\ IF Registered(TheAgent(c)) THEN AwaitNext(c, "tokenURI", Owner(TheAgent(c)))
       ELSE NotFound(c, TRUE)
    /\ UNCHANGED World

\* The document may not be there: the profile is made without it.
TokenUri(c) ==
    /\ At(c, "tokenURI")
    /\ \E document \in {NULL, Document(TheAgent(c))} :
          Provided(c, [a \in calls[c].agents |->
                         OnchainProfile(calls[c].held, document)])
    /\ UNCHANGED World

(* The provider of the index: one query.  A search is answered a page at a  *)
(* time, so an agent may not be on it.                                      *)

\* postGraphqlWithTableFallback: the rows, under whichever of its names the
\* server knows the table.
RowsOf(agents) == {a \in agents : rows[a] # NULL}

Graphql(c) ==
    /\ At(c, "graphql")
    /\ LET agents == calls[c].agents
       IN  \E page \in SUBSET RowsOf(agents) :
              /\ calls[c].kind = "resolve" => page = RowsOf(agents)
              /\ Provided(c, [a \in agents |->
                                IF a \in page THEN EnvioProfile(rows[a]) ELSE NULL])
    /\ UNCHANGED World

(* The provider of the scan API.  It may not have an agent, or have it on   *)
(* another page of a search; the records it has are what the registry says. *)
(* Its statistics may not be there; then the client asks getTrust for them, *)
(* and when that fails, the profile is lost.                                *)

ScanRecord(agent, trust) ==
    LET document == Document(agent)
    IN  [owner |-> Owner(agent), trust |-> trust,
         name |-> IF document = NULL THEN NULL ELSE document.name,
         x402_supported |-> IF document = NULL THEN NULL ELSE document.x402Support,
         services |-> IF document = NULL THEN [p \in Protocols |-> NULL]
                      ELSE ReadServices(document)]

\* What the statistics of an agent may be.
GetTrust(agent) == {NULL, Feedback(agent)}

\* What fetchJson may make of the API's answer when it does not throw: NULL for
\* a 404, or the record, which may carry the statistics.
FetchJson(agent) ==
    {NULL} \cup IF Registered(agent)
               THEN {ScanRecord(agent, trust) : trust \in GetTrust(agent)} ELSE {}

ScanAgent(c) ==
    /\ At(c, "agent") /\ calls[c].kind = "resolve"
    /\ \E record \in FetchJson(TheAgent(c)) :
          IF record # NULL THEN AwaitNext(c, "stats", record)
          ELSE NotFound(c, ~Registered(TheAgent(c)))
    /\ UNCHANGED World

ScanStats(c) ==
    /\ At(c, "stats")
    /\ \E stats \in GetTrust(TheAgent(c)) :
          LET profile == ScanProfile(calls[c].held, stats)
          IN  IF profile.trust = NULL THEN AwaitNext(c, "trust", profile)
              ELSE Provided(c, [a \in calls[c].agents |-> profile])
    /\ UNCHANGED World

\* runOptionalTrustEnrichment
ScanTrust(c) ==
    /\ At(c, "trust")
    /\ \E trust \in GetTrust(TheAgent(c)) :
          Provided(c, [a \in calls[c].agents |->
                         [calls[c].held EXCEPT !.trust = trust]])
    /\ UNCHANGED World

\* The records of a search come without statistics.
ScanSearch(c) ==
    /\ At(c, "agent") /\ calls[c].kind = "search"
    /\ \E records \in [calls[c].agents -> UNION {FetchJson(a) : a \in Agents}] :
          /\ \A a \in DOMAIN records : records[a] \in FetchJson(a)
          /\ Provided(c, [a \in DOMAIN records |->
                            IF records[a] = NULL THEN NULL
                            ELSE ScanProfile(records[a], NULL)])
    /\ UNCHANGED World

-----------------------------------------------------------------------------
Tick ==
    /\ clock < MaxClock
    /\ \A c \in Calls : Running(c) => clock < calls[c].start + MaxCall
    /\ clock' = clock + 1
    /\ answered' = NULL
    /\ UNCHANGED <<log, indexed, rows, providers, cache, calls>>

Init ==
    /\ clock = 0 /\ log = << >> /\ indexed = << >>
    /\ rows = [a \in Agents |-> NULL]
    /\ cache = [a \in Agents |-> NULL]
    /\ calls = [c \in Calls |-> NULL]
    /\ answered = NULL
    /\ providers \in Configurations

Registry ==
    \E a \in Agents :
        \/ \E owner \in Owners, uri \in Uris : Register(a, owner, uri)
        \/ \E to \in Owners : TransferAgent(a, to)
        \/ \E uri \in Uris : SetAgentUri(a, uri)
        \/ \E entry \in Metadata : SetMetadata(a, entry)
        \/ \E score \in Scores : GiveFeedback(a, score)
        \/ RevokeFeedback(a)

Step(c) ==
    \/ FetchFails(c) \/ RegistryUnset(c) \/ RpcError(c)
    \/ OwnerOf(c) \/ TokenUri(c) \/ Graphql(c)
    \/ ScanAgent(c) \/ ScanStats(c) \/ ScanTrust(c) \/ ScanSearch(c)

Next ==
    \/ Registry \/ IndexNext \/ Tick
    \/ \E c \in Calls :
          \/ \E agent \in Agents, filter \in Filters : ResolveAgent(c, agent, filter)
          \/ \E filter \in Filters : Search(c, filter)
          \/ Step(c)

Spec == Init /\ [][Next]_vars

-----------------------------------------------------------------------------
(* Properties.                                                              *)

Event ==
    [at : Nat, kind : {"Transfer"}, agent : Agents, to : Owners] \cup
    [at : Nat, kind : {"Registered"}, agent : Agents, owner : Owners, uri : Uris] \cup
    [at : Nat, kind : {"URIUpdated"}, agent : Agents, uri : Uris] \cup
    [at : Nat, kind : {"MetadataSet"}, agent : Agents, entry : Metadata] \cup
    [at : Nat, kind : {"NewFeedback"}, agent : Agents, value : Scores] \cup
    [at : Nat, kind : {"FeedbackRevoked"}, agent : Agents]

Call ==
    [kind : {"resolve", "search"}, agents : SUBSET Agents,
     filter : {MergeProfileFilters(DefaultFilter, filter) : filter \in Filters},
     start : Nat, provider : Nat,
     step : Maybe({"unset", "ownerOf", "tokenURI", "graphql", "agent", "stats", "trust"}),
     held : Maybe(Accounts) \cup AgentRecord \cup Profile,
     found : [Agents -> Seq(Profile)], errors : Nat, unchecked : BOOLEAN]
CacheEntry == [value : Maybe(Profile), expiresAt : Nat, unchecked : BOOLEAN]

TypeOK ==
    /\ clock \in Nat
    /\ log \in Seq(Event)
    /\ indexed \in Seq(Nat) /\ Len(indexed) <= Len(log)
    /\ rows \in [Agents -> Maybe(Row)]
    /\ providers \in Configurations
    /\ cache \in [Agents -> Maybe(CacheEntry)]
    /\ calls \in [Calls -> Maybe(Call)]

\* What the registry, or the index, said at some time since then.
RegistrySince(time) == {n \in 0..Len(log) : n < Len(log) => log[n + 1].at >= time}
IndexSince(time) == {n \in 0..Len(indexed) : n < Len(indexed) => indexed[n + 1] >= time}

\* What a call answers was read after this: a cached profile lives for
\* CacheTtl after the end of the call that read it.
ReadSince(call) ==
    IF call.kind = "resolve" THEN call.start - CacheTtl - MaxCall + 1 ELSE call.start

Answered == answered # NULL /\ answered.answer # UNAVAILABLE

OwnedSince(agent, owner, time) ==
    \E n \in RegistrySince(time) \cup IndexSince(time) :
       LastOf(agent, {"Transfer"}, n) # 0 /\ owner = OwnerAfter(agent, n)

\* The owner in an answer is one the registry or the index named not long ago,
\* however slow the calls that filled the cache were and in whatever order
\* they ended (client.ts, resolveAgent).
AnswersAreRecent ==
    Answered =>
        \A a \in DOMAIN answered.answer :
            answered.answer[a] # NULL =>
                OwnedSince(a, answered.answer[a].owner, ReadSince(answered))

\* The registry or the index did not have the agent at some time since then.
AbsentSince(agent, time) ==
    \/ \E n \in RegistrySince(time) : ~Known(agent, n)
    \/ \E n \in IndexSince(time) : \A i \in 1..n : log[i].agent # agent

\* A filter that every profile passes.
Unfiltered(filter) ==
    /\ filter.x402Support \notin {"required_true", "exclude_false"}
    /\ filter.allowedProtocols \in {NULL, {}}
    /\ filter.hasServiceUrl # TRUE

\* When an agent is resolved without a filter and the answer is that there is no
\* such agent, that is no provider's failure, nor what some other caller filters
\* by: not long ago the registry or the index did not have the agent, or one of
\* the providers that made this very answer took an unset registry, an error of
\* the RPC node or the scan API's 404 for absence (client.ts, resolveAgent).
AbsenceIsReported ==
    Answered /\ answered.kind = "resolve" /\ Unfiltered(answered.filter) =>
        \A a \in DOMAIN answered.answer :
            answered.answer[a] = NULL =>
                AbsentSince(a, ReadSince(answered)) \/ answered.unchecked

\* The events that give a token URI.
Telling(agent, n) ==
    {i \in Said(agent, {"Registered", "URIUpdated"}, n) : log[i].uri # NULL}

\* Those of them whose document is in the URI and has an endpoint for the protocol.
Gives(event, p) ==
    event.uri \in InlineUris /\ ReadServices(DocumentAt[event.uri])[p] # NULL
Giving(agent, p, n) == {i \in Telling(agent, n) : Gives(log[i], p)}

\* A row after the first n events, column by column.
RowSays(agent, row, n) ==
    /\ row.tokenURI = IF Telling(agent, n) = {} THEN NULL ELSE log[Max(Telling(agent, n))].uri
    /\ row.feedbackCount = Cardinality(Said(agent, {"NewFeedback"}, n))
    /\ row.feedbackRevokedCount = Cardinality(Said(agent, {"FeedbackRevoked"}, n))
    /\ \A p \in Protocols :
         LET giving == Giving(agent, p, n)
         IN  row.services[p] = IF giving = {} THEN NULL
                               ELSE ReadServices(DocumentAt[log[Max(giving)].uri])[p]

TableSays(table, n) ==
    \A a \in Agents :
        IF \A i \in 1..n : log[i].agent # a THEN table[a] = NULL
        ELSE table[a] # NULL /\ table[a].owner = OwnerAfter(a, n) /\ RowSays(a, table[a], n)

\* The row of an agent is what its events said last, and each endpoint is the
\* one of the newest document that has one for the protocol: an event that is
\* silent on a column leaves it, however many events there were
\* (EventHandlers.ts).
IndexFollowsLog ==
    [][indexed' # indexed => TableSays(rows', Len(indexed'))]_vars

\* The endpoints of a document.
Given(document) ==
    Endpoints(document.services, UrlObjects) \cup Endpoints(document.endpoints, UrlObjects)

\* The endpoint was in the document the agent had in the registry, or was the one
\* that the newest document the index could read gave for the protocol, at some
\* time since then.
CurrentSince(agent, endpoint, time) ==
    \/ \E n \in RegistrySince(time) :
          /\ Known(agent, n) /\ UriAfter(agent, n) # NULL
          /\ endpoint \in Given(DocumentAt[UriAfter(agent, n)])
    \/ \E n \in IndexSince(time) :
          LET giving == Giving(agent, endpoint.protocol, n)
          IN  /\ giving # {}
              /\ endpoint.address =
                    ReadServices(DocumentAt[log[Max(giving)].uri])[endpoint.protocol]
              /\ endpoint.url <=> endpoint.protocol \in UrlProtocols

\* An endpoint that is chosen for payment from an answer is one the agent had not
\* long ago, by the registry or by the index, in whatever way stale rows, cached
\* profiles and late answers were merged; it is of a protocol the caller allows,
\* and https if the policy demands it (client.ts with counterpartyPolicy.ts).
PayeesAreCurrent ==
    Answered =>
        \A a \in DOMAIN answered.answer : \A policy \in Policies :
            answered.answer[a] # NULL =>
              \A endpoint \in SelectCounterpartyEndpoint(answered.answer[a], policy) :
                 /\ CurrentSince(a, endpoint, ReadSince(answered))
                 /\ policy.requireHttps => endpoint.address \in HttpsAddresses
                 /\ answered.filter.allowedProtocols \notin {NULL, {}} =>
                      endpoint.protocol \in answered.filter.allowedProtocols
=============================================================================
