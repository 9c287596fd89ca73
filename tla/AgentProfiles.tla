---------------------------- MODULE AgentProfiles ----------------------------
(***************************************************************************)
(* What is known of an ERC-8004 agent, in the form of each source, and how *)
(* one form becomes another: the registration document an agent publishes, *)
(* the row the indexer keeps (services/envio-erc8004-indexer), the profile *)
(* a provider makes of what it reads, the merge and the filters of the     *)
(* directory client (packages/erc8004-adapter), and the choice of the      *)
(* endpoint to pay (sdk/client counterpartyPolicy).                        *)
(*                                                                         *)
(* name stands for name, description and image, which are treated alike;   *)
(* an endpoint is a protocol, an address and whether the address is its    *)
(* URL.  The score of a trust snapshot is a quotient: it is kept as        *)
(* scoreSum over feedbackCount.                                            *)
(***************************************************************************)
EXTENDS Integers, Sequences, FiniteSetsExt

CONSTANTS
    NULL,           \* an undefined or absent value
    Accounts,       \* addresses of owners and wallets
    Names,          \* what agents may be called
    Addresses,      \* where services are: URLs and identifiers
    HttpsAddresses, \* the addresses that start with https://
    UrlObjects,     \* the addresses that documents give in an object, as its url
    BlankAccounts,  \* the accounts whose bytes make no text: the zero address
    Uris,           \* token URIs, with NULL for an empty one
    InlineUris,     \* those that are data:application/json
    DocumentAt      \* uri -> the registration document behind it

UrlProtocols == {"a2a", "mcp", "web", "oasf"}
IdProtocols == {"did", "ens", "email"}
Protocols == UrlProtocols \cup IdProtocols

(* What each form is made of.                                               *)

Maybe(S) == S \cup {NULL}
Services == [Protocols -> Maybe(Addresses)]
Endpoint == [protocol : Protocols, address : Addresses, url : BOOLEAN]
TrustSnapshot == [feedbackCount : Nat, scoreSum : Int]

RegistrationDocument ==
    [name : Maybe(Names), x402Support : Maybe(BOOLEAN), x402_supported : Maybe(BOOLEAN),
     x402Supported : Maybe(BOOLEAN), services : Services, endpoints : Services,
     servicesListed : BOOLEAN]
Row ==
    [owner : Maybe(Accounts), agentWallet : Maybe(Accounts), tokenURI : Uris,
     name : Maybe(Names), x402Supported : Maybe(BOOLEAN), services : Services,
     feedbackCount : Nat, feedbackScoreSum : Int, feedbackRevokedCount : Nat]
AgentRecord ==
    [owner : Accounts, trust : Maybe(TrustSnapshot), name : Maybe(Names),
     x402_supported : Maybe(BOOLEAN), services : Services]
Profile ==
    [owner : Maybe(Accounts), name : Maybe(Names), x402Supported : Maybe(BOOLEAN),
     services : SUBSET Endpoint, trust : Maybe(TrustSnapshot),
     onchainResolved : BOOLEAN, indexerResolved : BOOLEAN]

ASSUME ProfileConstants ==
    /\ InlineUris \subseteq Uris /\ BlankAccounts \subseteq Accounts
    /\ HttpsAddresses \subseteq Addresses /\ UrlObjects \subseteq Addresses
    /\ NULL \in Uris /\ DocumentAt \in [Uris \ {NULL} -> RegistrationDocument]

ASSUME NullIsNoValue ==
    /\ NULL \notin Accounts /\ NULL \notin Addresses /\ NULL \notin InlineUris
    /\ NULL \notin BOOLEAN /\ NULL \notin Nat /\ NULL \notin Row
    /\ NULL \notin AgentRecord /\ NULL \notin Profile

\* a ?? b
Else(a, b) == IF a # NULL THEN a ELSE b
FirstDefined(values) ==
    LET defined == {i \in DOMAIN values : values[i] # NULL}
    IN  IF defined = {} THEN NULL ELSE values[Min(defined)]

\* {...g, ...f}
Over(f, g) == [p \in Protocols |-> Else(f[p], g[p])]

-----------------------------------------------------------------------------
(* The indexer's handlers: a row and an event make a row.  A row has one    *)
(* column for each protocol.                                                *)

EmptyProfile ==
    [owner |-> NULL, agentWallet |-> NULL, tokenURI |-> NULL, name |-> NULL,
     x402Supported |-> NULL, services |-> [p \in Protocols |-> NULL],
     feedbackCount |-> 0, feedbackScoreSum |-> 0, feedbackRevokedCount |-> 0]

\* A list of services is read after endpoints, an object of them before.
ReadServices(document) ==
    IF document.servicesListed THEN Over(document.services, document.endpoints)
    ELSE Over(document.endpoints, document.services)

\* A bug to guard against: the row forgets what the document leaves out.
ForgetUngiven(row, document) ==
    [row EXCEPT !.name = document.name, !.services = ReadServices(document)]

\* A bug to guard against: what the row has already comes before what the
\* document gives.
KeepGiven(row, document) ==
    [row EXCEPT !.name = Else(document.name, @),
                !.x402Supported =
                   Else(Else(document.x402Support, document.x402_supported), @),
                !.services = Over(@, ReadServices(document))]

\* What a document does not give stays as it was.
ApplyRegistrationData(row, document) ==
    [row EXCEPT !.name = Else(document.name, @),
                !.x402Supported =
                   Else(Else(document.x402Support, document.x402_supported), @),
                !.services = Over(ReadServices(document), @)]

\* An empty URI, NULL, leaves the row as it was; only a document that is in
\* the URI itself is read.
WithTokenURI(row, uri) ==
    LET updated == [row EXCEPT !.tokenURI = Else(uri, @)]
    IN  IF uri \in InlineUris THEN ApplyRegistrationData(updated, DocumentAt[uri])
        ELSE updated

OnTransfer(row, event) == [row EXCEPT !.owner = event.to]
OnRegistered(row, event) == WithTokenURI([row EXCEPT !.owner = event.owner], event.uri)
OnURIUpdated(row, event) == WithTokenURI(row, event.uri)

\* bytesHexToUtf8OrHex and then lowerHexOrUndefined: the bytes of an account are
\* stored as text if they make any, and text is no address to whoever reads it.
StoredWallet(account) == IF account \in BlankAccounts THEN account ELSE NULL

\* The keys of metadata that have a column; other keys change nothing.
OnMetadataSet(row, event) ==
    CASE event.entry[1] = "agentWallet" ->
            [row EXCEPT !.agentWallet = StoredWallet(event.entry[2])]
      [] event.entry[1] = "x402Support" -> [row EXCEPT !.x402Supported = event.entry[2]]
      [] event.entry[1] = "name" -> [row EXCEPT !.name = event.entry[2]]
      [] OTHER -> row

OnNewFeedback(row, event) ==
    [row EXCEPT !.feedbackCount = @ + 1, !.feedbackScoreSum = @ + event.value]
OnFeedbackRevoked(row, event) == [row EXCEPT !.feedbackRevokedCount = @ + 1]

Handle(row, event) ==
    CASE event.kind = "Transfer" -> OnTransfer(row, event)
      [] event.kind = "Registered" -> OnRegistered(row, event)
      [] event.kind = "URIUpdated" -> OnURIUpdated(row, event)
      [] event.kind = "MetadataSet" -> OnMetadataSet(row, event)
      [] event.kind = "NewFeedback" -> OnNewFeedback(row, event)
      [] event.kind = "FeedbackRevoked" -> OnFeedbackRevoked(row, event)

-----------------------------------------------------------------------------
(* CanonicalAgentProfile, as each provider makes it.                        *)

\* buildTrust
Trust(count, sum) == [feedbackCount |-> count, scoreSum |-> sum]

\* An identifier has a URL only where it is given in an object with one.
Endpoints(services, objects) ==
    {[protocol |-> p, address |-> services[p],
      url |-> p \in UrlProtocols \/ services[p] \in objects] :
         p \in {q \in Protocols : services[q] # NULL}}

\* mapRow: what the index says counts as resolved on chain.  Its columns are
\* text, so no identifier has a URL; it indexes no validations, so they never
\* enter the score.
EnvioProfile(row) ==
    [owner |-> Else(row.owner, row.agentWallet), name |-> row.name,
     x402Supported |-> row.x402Supported, services |-> Endpoints(row.services, {}),
     trust |-> Trust(row.feedbackCount, row.feedbackScoreSum),
     onchainResolved |-> TRUE, indexerResolved |-> TRUE]

\* A list of services is not read here.
ServicesFromMetadata(document) ==
    Endpoints(document.endpoints, UrlObjects) \cup
    IF document.servicesListed THEN {} ELSE Endpoints(document.services, UrlObjects)

\* createOnchainRegistryProvider, once it has the owner and the document, or
\* NULL when that could not be had.
OnchainProfile(owner, document) ==
    LET base == [owner |-> owner, name |-> NULL, x402Supported |-> NULL,
                 services |-> {}, trust |-> NULL,
                 onchainResolved |-> TRUE, indexerResolved |-> FALSE]
    IN  IF document = NULL THEN base
        ELSE [base EXCEPT
                !.name = document.name,
                !.x402Supported = Else(document.x402_supported, document.x402Supported),
                !.services = ServicesFromMetadata(document)]

ExtractServices(agent) == Endpoints(agent.services, UrlObjects)

\* What the statistics say comes before what the record carries itself.
ExtractTrust(agent, stats) == Else(stats, agent.trust)

\* mapAgentRecord: agent is the API's record, stats NULL or its statistics.
ScanProfile(agent, stats) ==
    [owner |-> agent.owner, name |-> agent.name,
     x402Supported |-> agent.x402_supported,
     services |-> ExtractServices(agent), trust |-> ExtractTrust(agent, stats),
     onchainResolved |-> FALSE, indexerResolved |-> TRUE]

-----------------------------------------------------------------------------
(* The directory client.                                                    *)

\* An identifier that one source gives with a URL and another without one stays
\* here twice; for filters and payers that is the one endpoint with a URL.
MergeServices(profiles) == UNION {profiles[i].services : i \in DOMAIN profiles}

\* All trust comes from indexers here, and of those the last one counts.
MergeTrust(profiles) ==
    LET rated == {i \in DOMAIN profiles : profiles[i].trust # NULL}
    IN  IF rated = {} THEN NULL ELSE profiles[Max(rated)].trust

\* Identity from the first source on chain, metadata from indexers first.
MergeProfiles(profiles) ==
    LET onchain == {i \in DOMAIN profiles : profiles[i].onchainResolved}
        preferredIdentity == profiles[IF onchain = {} THEN 1 ELSE Min(onchain)]
        NameFrom(sources) == FirstDefined([i \in DOMAIN profiles |->
                                IF i \in sources THEN profiles[i].name ELSE NULL])
    IN  IF profiles = << >> THEN NULL
        ELSE [owner |-> preferredIdentity.owner,
              name |-> Else(NameFrom(DOMAIN profiles \ onchain), NameFrom(onchain)),
              x402Supported |->
                 FirstDefined([i \in DOMAIN profiles |-> profiles[i].x402Supported]),
              services |-> MergeServices(profiles),
              trust |-> MergeTrust(profiles),
              onchainResolved |-> onchain # {},
              indexerResolved |-> \E i \in DOMAIN profiles : profiles[i].indexerResolved]

\* A filter is [x402Support, allowedProtocols, hasServiceUrl], each of them NULL
\* if it is not given.
MergeProfileFilters(default, input) ==
    [x402Support |-> Else(Else(input.x402Support, default.x402Support), "any"),
     allowedProtocols |-> Else(input.allowedProtocols, default.allowedProtocols),
     hasServiceUrl |-> Else(input.hasServiceUrl, default.hasServiceUrl)]

WithProtocols(profile, protocols) ==
    IF protocols \in {NULL, {}} THEN profile
    ELSE [profile EXCEPT !.services = {s \in @ : s.protocol \in protocols}]

Passes(profile, filter) ==
    /\ filter.allowedProtocols \notin {NULL, {}} => profile.services # {}
    /\ filter.hasServiceUrl = TRUE => \E s \in profile.services : s.url
    /\ filter.x402Support = "required_true" => profile.x402Supported = TRUE
    /\ filter.x402Support = "exclude_false" => profile.x402Supported # FALSE

ApplyProfileFilter(profile, filter) ==
    IF profile = NULL THEN NULL
    ELSE LET filtered == WithProtocols(profile, filter.allowedProtocols)
         IN  IF Passes(filtered, filter) THEN filtered ELSE NULL

-----------------------------------------------------------------------------
(* selectCounterpartyEndpoint.  The health, trust and activity parts of the *)
(* rank are the same for all endpoints of a profile: the protocol decides.  *)

\* A policy is [preferredProtocols, minTrustScore, requireX402Support,
\* requireHttps].
ProtocolPriority(protocol, preferred) ==
    IF \E i \in DOMAIN preferred : preferred[i] = protocol
    THEN 1 + Len(preferred) - (CHOOSE i \in DOMAIN preferred : preferred[i] = protocol)
    ELSE 0

Acceptable(profile, endpoint, policy) ==
    /\ endpoint.url
    /\ policy.requireHttps => endpoint.address \in HttpsAddresses
    /\ policy.requireX402Support => profile.x402Supported # FALSE
    /\ \/ policy.minTrustScore = NULL \/ profile.trust = NULL
       \/ profile.trust.feedbackCount = 0
       \/ profile.trust.scoreSum >= policy.minTrustScore * profile.trust.feedbackCount

\* The endpoints that can come first among the acceptable ones; the labels
\* settle which of them does.
SelectCounterpartyEndpoint(profile, policy) ==
    LET acceptable == {s \in profile.services : Acceptable(profile, s, policy)}
        Rank(s) == ProtocolPriority(s.protocol, policy.preferredProtocols)
    IN  {s \in acceptable : \A t \in acceptable : Rank(t) <= Rank(s)}
=============================================================================
