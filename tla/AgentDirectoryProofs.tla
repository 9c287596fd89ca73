------------------------ MODULE AgentDirectoryProofs ------------------------
(***************************************************************************)
(* Theorems about the agent directory, for every number of agents, events, *)
(* providers and overlapping calls.                                        *)
(***************************************************************************)
EXTENDS AgentDirectory, FiniteSums, SequenceTheorems

-----------------------------------------------------------------------------
(* What the forms of a profile are made of.                                 *)

LEMMA MaxIsLargest ==
    ASSUME NEW T, NEW bound \in Nat, T \subseteq 0..bound, T # {}
    PROVE  Max(T) \in T /\ \A k \in T : k <= Max(T)
  <1>1. PICK m \in T : \A k \in T : m >= k
    BY LargestElement
  <1> QED
    BY <1>1 DEF Max

LEMMA MinIsLeast ==
    ASSUME NEW T, T \subseteq Nat, T # {}
    PROVE  Min(T) \in T /\ \A k \in T : Min(T) <= k
  <1>1. PICK m \in T : \A k \in T : m <= k
    BY LeastElement
  <1> QED
    BY <1>1 DEF Min

LEMMA FirstDefinedType ==
    ASSUME NEW S, NEW n \in Nat, NEW values \in [1..n -> Maybe(S)]
    PROVE  FirstDefined(values) \in Maybe(S)
  <1> DEFINE defined == {i \in DOMAIN values : values[i] # NULL}
  <1>1. CASE defined = {}
    BY <1>1 DEF FirstDefined, Maybe
  <1>2. CASE defined # {}
    <2>1. Min(defined) \in 1..n
      BY <1>2, MinIsLeast
    <2> QED
      BY <1>2, <2>1 DEF FirstDefined
  <1> QED
    BY <1>1, <1>2

LEMMA OverType ==
    ASSUME NEW f \in Services, NEW g \in Services
    PROVE  Over(f, g) \in Services
  BY DEF Over, Services, Else, Maybe

LEMMA ReadServicesType ==
    ASSUME NEW d \in RegistrationDocument
    PROVE  ReadServices(d) \in Services
  <1>1. d.services \in Services /\ d.endpoints \in Services
    BY DEF RegistrationDocument
  <1> QED
    BY <1>1, OverType DEF ReadServices

LEMMA EndpointsType ==
    ASSUME NEW services \in Services, NEW objects
    PROVE  Endpoints(services, objects) \subseteq Endpoint
  <1>1. ASSUME NEW p \in Protocols, services[p] # NULL
        PROVE  services[p] \in Addresses
    BY <1>1 DEF Services, Maybe
  <1>2. ASSUME NEW p \in Protocols
        PROVE  (p \in UrlProtocols \/ services[p] \in objects) \in BOOLEAN
    OBVIOUS
  <1>3. ASSUME NEW p \in Protocols, services[p] # NULL, NEW u \in BOOLEAN
        PROVE  [protocol |-> p, address |-> services[p], url |-> u] \in Endpoint
    BY <1>1, <1>3 DEF Endpoint
  <1> QED
    BY <1>2, <1>3 DEF Endpoints

LEMMA EmptyProfileType == EmptyProfile \in Row
  BY ProfileConstants DEF EmptyProfile, Row, Services, Maybe

LEMMA ApplyRegistrationDataType ==
    ASSUME NEW row \in Row, NEW d \in RegistrationDocument
    PROVE  ApplyRegistrationData(row, d) \in Row
  <1>1. ReadServices(d) \in Services /\ row.services \in Services
    BY ReadServicesType DEF Row
  <1>2. Over(ReadServices(d), row.services) \in Services
    BY <1>1, OverType
  <1>3. Else(d.name, row.name) \in Maybe(Names)
    BY DEF Else, Row, RegistrationDocument
  <1>4. Else(Else(d.x402Support, d.x402_supported), row.x402Supported) \in Maybe(BOOLEAN)
    BY DEF Else, Row, RegistrationDocument
  <1> QED
    BY <1>2, <1>3, <1>4 DEF ApplyRegistrationData, Row

LEMMA WithTokenURIType ==
    ASSUME NEW row \in Row, NEW uri \in Uris
    PROVE  WithTokenURI(row, uri) \in Row
  <1> DEFINE updated == [row EXCEPT !.tokenURI = Else(uri, row.tokenURI)]
  <1>1. updated \in Row
    BY DEF Row, Else
  <1>2. CASE uri \in InlineUris
    <2>1. DocumentAt[uri] \in RegistrationDocument
      BY <1>2, ProfileConstants, NullIsNoValue
    <2> QED
      BY <1>1, <1>2, <2>1, ApplyRegistrationDataType DEF WithTokenURI
  <1> QED
    BY <1>1, <1>2 DEF WithTokenURI

LEMMA HandleType ==
    ASSUME NEW row \in Row, NEW event \in Event
    PROVE  Handle(row, event) \in Row
  <1>1. CASE event.kind = "Transfer"
    BY <1>1, DirectoryConstants DEF Handle, OnTransfer, Event, Row, Maybe
  <1>2. CASE event.kind = "Registered"
    <2>1. event.owner \in Accounts /\ event.uri \in Uris
      BY <1>2, DirectoryConstants DEF Event
    <2>2. [row EXCEPT !.owner = event.owner] \in Row
      BY <2>1 DEF Row, Maybe
    <2> QED
      BY <1>2, <2>1, <2>2, WithTokenURIType DEF Handle, OnRegistered
  <1>3. CASE event.kind = "URIUpdated"
    <2>1. event.uri \in Uris
      BY <1>3 DEF Event
    <2> QED
      BY <1>3, <2>1, WithTokenURIType DEF Handle, OnURIUpdated
  <1>4. CASE event.kind = "MetadataSet"
    <2>1. event.entry \in Metadata
      BY <1>4 DEF Event
    <2> DEFINE key == event.entry[1]
               value == event.entry[2]
    <2>2. Handle(row, event) = OnMetadataSet(row, event)
      BY <1>4 DEF Handle
    <2>3. CASE key = "agentWallet"
      <3>1. StoredWallet(value) \in Maybe(Accounts)
        BY <2>1, <2>3, DirectoryConstants DEF StoredWallet, Maybe
      <3> QED
        BY <2>2, <2>3, <3>1 DEF OnMetadataSet, Row
    <2>4. CASE key = "x402Support"
      <3>1. value \in Maybe(BOOLEAN)
        BY <2>1, <2>4, DirectoryConstants DEF Maybe
      <3> QED
        BY <2>2, <2>4, <3>1 DEF OnMetadataSet, Row
    <2>5. CASE key = "name"
      <3>1. value \in Maybe(Names)
        BY <2>1, <2>5, DirectoryConstants DEF Maybe
      <3> QED
        BY <2>2, <2>5, <3>1 DEF OnMetadataSet, Row
    <2>6. CASE key \notin {"agentWallet", "x402Support", "name"}
      BY <2>2, <2>6 DEF OnMetadataSet
    <2> QED
      BY <2>3, <2>4, <2>5, <2>6
  <1>5. CASE event.kind = "NewFeedback"
    <2>1. event.value \in Int
      BY <1>5, DirectoryConstants DEF Event
    <2>2. Handle(row, event) = OnNewFeedback(row, event)
      BY <1>5 DEF Handle
    <2>3. row.feedbackCount + 1 \in Nat /\ row.feedbackScoreSum + event.value \in Int
      BY <2>1 DEF Row
    <2> QED
      BY <2>2, <2>3 DEF OnNewFeedback, Row
  <1>6. CASE event.kind = "FeedbackRevoked"
    <2>1. Handle(row, event) = OnFeedbackRevoked(row, event)
      BY <1>6 DEF Handle
    <2>2. row.feedbackRevokedCount + 1 \in Nat
      BY DEF Row
    <2> QED
      BY <2>1, <2>2 DEF OnFeedbackRevoked, Row
  <1> QED
    BY <1>1, <1>2, <1>3, <1>4, <1>5, <1>6 DEF Event
LEMMA TrustType ==
    ASSUME NEW count \in Nat, NEW sum \in Int
    PROVE  Trust(count, sum) \in TrustSnapshot
  BY DEF Trust, TrustSnapshot

LEMMA EnvioProfileType ==
    ASSUME NEW row \in Row
    PROVE  /\ EnvioProfile(row) \in Profile
           /\ EnvioProfile(row).owner = Else(row.owner, row.agentWallet)
           /\ EnvioProfile(row).services = Endpoints(row.services, {})
  <1>1. Else(row.owner, row.agentWallet) \in Maybe(Accounts)
    BY DEF Else, Row
  <1>2. Endpoints(row.services, {}) \in SUBSET Endpoint
    BY EndpointsType DEF Row
  <1>3. Trust(row.feedbackCount, row.feedbackScoreSum) \in Maybe(TrustSnapshot)
    BY TrustType DEF Row, Maybe
  <1>4. row.name \in Maybe(Names) /\ row.x402Supported \in Maybe(BOOLEAN)
    BY DEF Row
  <1> QED
    BY <1>1, <1>2, <1>3, <1>4 DEF EnvioProfile, Profile

LEMMA GivenHasReadServices ==
    ASSUME NEW d \in RegistrationDocument
    PROVE  Endpoints(ReadServices(d), UrlObjects) \subseteq Given(d)
  BY DEF Endpoints, ReadServices, Over, Else, Given, RegistrationDocument, Services

LEMMA OnchainProfileType ==
    ASSUME NEW owner \in Accounts, NEW document \in Maybe(RegistrationDocument)
    PROVE  /\ OnchainProfile(owner, document) \in Profile
           /\ OnchainProfile(owner, document).owner = owner
           /\ document = NULL => OnchainProfile(owner, document).services = {}
           /\ document # NULL =>
                 OnchainProfile(owner, document).services \subseteq Given(document)
  <1> DEFINE base == [owner |-> owner, name |-> NULL, x402Supported |-> NULL,
                      services |-> {}, trust |-> NULL,
                      onchainResolved |-> TRUE, indexerResolved |-> FALSE]
  <1>1. base \in Profile
    BY DEF Profile, Maybe
  <1>2. CASE document = NULL
    BY <1>1, <1>2 DEF OnchainProfile
  <1>3. CASE document # NULL
    <2>1. document \in RegistrationDocument
      BY <1>3 DEF Maybe
    <2> DEFINE x402 == Else(document.x402_supported, document.x402Supported)
               services == ServicesFromMetadata(document)
    <2>2. document.name \in Maybe(Names) /\ x402 \in Maybe(BOOLEAN)
      BY <2>1 DEF RegistrationDocument, Else
    <2>3. services \subseteq Given(document)
      BY <2>1 DEF ServicesFromMetadata, Given
    <2>4. Given(document) \subseteq Endpoint
      BY <2>1, EndpointsType DEF Given, RegistrationDocument
    <2>5. OnchainProfile(owner, document) =
            [base EXCEPT !.name = document.name, !.x402Supported = x402, !.services = services]
      BY <1>3 DEF OnchainProfile
    <2> HIDE DEF x402, services
    <2> QED
      BY <1>3, <2>2, <2>3, <2>4, <2>5 DEF Profile, Maybe
  <1> QED
    BY <1>2, <1>3

LEMMA ScanProfileType ==
    ASSUME NEW record \in AgentRecord, NEW stats \in Maybe(TrustSnapshot)
    PROVE  /\ ScanProfile(record, stats) \in Profile
           /\ ScanProfile(record, stats).owner = record.owner
           /\ ScanProfile(record, stats).services = Endpoints(record.services, UrlObjects)
  <1>1. Endpoints(record.services, UrlObjects) \in SUBSET Endpoint
    BY EndpointsType DEF AgentRecord
  <1>2. Else(stats, record.trust) \in Maybe(TrustSnapshot)
    BY DEF Else, AgentRecord
  <1>3. /\ record.owner \in Maybe(Accounts) /\ record.name \in Maybe(Names)
        /\ record.x402_supported \in Maybe(BOOLEAN)
    BY DEF AgentRecord, Maybe
  <1> QED
    BY <1>1, <1>2, <1>3 DEF ScanProfile, ExtractServices, ExtractTrust, Profile

LEMMA MergeTrustType ==
    ASSUME NEW profiles \in Seq(Profile)
    PROVE  MergeTrust(profiles) \in Maybe(TrustSnapshot)
  <1> DEFINE rated == {i \in DOMAIN profiles : profiles[i].trust # NULL}
  <1>1. CASE rated = {}
    BY <1>1 DEF MergeTrust, Maybe
  <1>2. CASE rated # {}
    <2>1. rated \subseteq 0..Len(profiles) /\ Len(profiles) \in Nat
      OBVIOUS
    <2>2. Max(rated) \in rated
      BY <1>2, <2>1, MaxIsLargest
    <2>3. profiles[Max(rated)] \in Profile
      BY <2>2
    <2> QED
      BY <1>2, <2>3 DEF MergeTrust, Profile
  <1> QED
    BY <1>1, <1>2

\* A merged profile names the owner that one of the profiles names, and no
\* endpoint that none of them has.
LEMMA MergeProfilesFacts ==
    ASSUME NEW profiles \in Seq(Profile), profiles # << >>
    PROVE  /\ MergeProfiles(profiles) \in Profile
           /\ \E i \in 1..Len(profiles) : MergeProfiles(profiles).owner = profiles[i].owner
           /\ \A s \in MergeProfiles(profiles).services :
                 \E i \in 1..Len(profiles) : s \in profiles[i].services
  <1> DEFINE onchain == {i \in DOMAIN profiles : profiles[i].onchainResolved}
             best == IF onchain = {} THEN 1 ELSE Min(onchain)
             NameFrom(sources) == FirstDefined([i \in DOMAIN profiles |->
                                     IF i \in sources THEN profiles[i].name ELSE NULL])
             name == Else(NameFrom(DOMAIN profiles \ onchain), NameFrom(onchain))
             x402 == FirstDefined([i \in DOMAIN profiles |-> profiles[i].x402Supported])
             services == MergeServices(profiles)
             trust == MergeTrust(profiles)
  <1>1. DOMAIN profiles = 1..Len(profiles) /\ Len(profiles) \in Nat \ {0}
    OBVIOUS
  <1>2. \A i \in 1..Len(profiles) : profiles[i] \in Profile
    OBVIOUS
  <1>3. best \in 1..Len(profiles)
    <2>1. CASE onchain = {}
      BY <1>1, <2>1
    <2>2. CASE onchain # {}
      BY <1>1, <2>2, MinIsLeast, SMTT(30)
    <2> QED
      BY <2>1, <2>2
  <1>4. \A sources : NameFrom(sources) \in Maybe(Names)
    <2> SUFFICES ASSUME NEW sources PROVE NameFrom(sources) \in Maybe(Names)
      OBVIOUS
    <2> DEFINE values == [i \in DOMAIN profiles |->
                            IF i \in sources THEN profiles[i].name ELSE NULL]
    <2>1. values \in [1..Len(profiles) -> Maybe(Names)]
      BY <1>1, <1>2 DEF Profile, Maybe
    <2> HIDE DEF values
    <2>2. FirstDefined(values) \in Maybe(Names)
      BY <1>1, <2>1, FirstDefinedType
    <2> QED
      BY <2>2 DEF values
  <1>5. name \in Maybe(Names)
    <2> HIDE DEF NameFrom
    <2> QED
      BY <1>4 DEF Else
  <1>6. x402 \in Maybe(BOOLEAN)
    <2> DEFINE values == [i \in DOMAIN profiles |-> profiles[i].x402Supported]
    <2>1. values \in [1..Len(profiles) -> Maybe(BOOLEAN)]
      BY <1>1, <1>2 DEF Profile
    <2> HIDE DEF values
    <2>2. FirstDefined(values) \in Maybe(BOOLEAN)
      BY <1>1, <2>1, FirstDefinedType
    <2> QED
      BY <2>2 DEF values
  <1>7. trust \in Maybe(TrustSnapshot)
    BY MergeTrustType
  <1>8. \A s \in services : \E i \in 1..Len(profiles) : s \in profiles[i].services
    BY <1>1 DEF MergeServices
  <1>9. services \in SUBSET Endpoint
    BY <1>2, <1>8 DEF Profile
  <1>10. profiles[best].owner \in Maybe(Accounts)
    BY <1>2, <1>3 DEF Profile
  <1>11. MergeProfiles(profiles) =
           [owner |-> profiles[best].owner, name |-> name, x402Supported |-> x402,
            services |-> services, trust |-> trust, onchainResolved |-> onchain # {},
            indexerResolved |-> \E i \in DOMAIN profiles : profiles[i].indexerResolved]
    BY DEF MergeProfiles
  <1> HIDE DEF onchain, best, name, x402, services, trust
  <1> QED
    BY <1>3, <1>5, <1>6, <1>7, <1>8, <1>9, <1>10, <1>11 DEF Profile

LEMMA NothingMerged == MergeProfiles(<< >>) = NULL
  BY DEF MergeProfiles

\* A filter takes endpoints away, or the profile.
LEMMA FilterFacts ==
    ASSUME NEW profile \in Maybe(Profile), NEW filter,
           ApplyProfileFilter(profile, filter) # NULL
    PROVE  /\ profile # NULL
           /\ ApplyProfileFilter(profile, filter) \in Profile
           /\ ApplyProfileFilter(profile, filter).owner = profile.owner
           /\ ApplyProfileFilter(profile, filter).services \subseteq profile.services
           /\ filter.allowedProtocols \notin {NULL, {}} =>
                 \A s \in ApplyProfileFilter(profile, filter).services :
                    s.protocol \in filter.allowedProtocols
  <1> DEFINE kept == {s \in profile.services : s.protocol \in filter.allowedProtocols}
  <1>1. profile \in Profile /\ profile # NULL
    BY DEF ApplyProfileFilter, Maybe
  <1>2. ApplyProfileFilter(profile, filter) = WithProtocols(profile, filter.allowedProtocols)
    BY DEF ApplyProfileFilter
  <1>3. CASE filter.allowedProtocols \in {NULL, {}}
    BY <1>1, <1>2, <1>3 DEF WithProtocols
  <1>4. CASE filter.allowedProtocols \notin {NULL, {}}
    <2>1. ApplyProfileFilter(profile, filter) = [profile EXCEPT !.services = kept]
      BY <1>2, <1>4 DEF WithProtocols
    <2>2. kept \in SUBSET Endpoint
      BY <1>1 DEF Profile
    <2>3. kept \subseteq profile.services
          /\ \A s \in kept : s.protocol \in filter.allowedProtocols
      OBVIOUS
    <2> HIDE DEF kept
    <2> QED
      BY <1>1, <1>4, <2>1, <2>2, <2>3 DEF Profile
  <1> QED
    BY <1>3, <1>4

\* What no filter is in the way of is answered.
LEMMA UnfilteredFacts ==
    ASSUME NEW profile \in Maybe(Profile), NEW filter, Unfiltered(filter),
           ApplyProfileFilter(profile, filter) = NULL
    PROVE  profile = NULL
  <1>1. SUFFICES ASSUME profile # NULL PROVE FALSE
    OBVIOUS
  <1>2. WithProtocols(profile, filter.allowedProtocols) = profile
    BY DEF WithProtocols, Unfiltered
  <1>3. Passes(profile, filter)
    BY DEF Passes, Unfiltered
  <1> QED
    BY <1>1, <1>2, <1>3 DEF ApplyProfileFilter
-----------------------------------------------------------------------------
(* What the registry and the index said before.                             *)

LEMMA LastOfFacts ==
    ASSUME log \in Seq(Event), NEW a, NEW kinds, NEW n \in 0..Len(log)
    PROVE  /\ LastOf(a, kinds, n) \in 0..n
           /\ LastOf(a, kinds, n) # 0 =>
                 log[LastOf(a, kinds, n)].agent = a /\ log[LastOf(a, kinds, n)].kind \in kinds
           /\ \A i \in 1..n : log[i].agent = a /\ log[i].kind \in kinds =>
                 LastOf(a, kinds, n) # 0 /\ i <= LastOf(a, kinds, n)
  <1> DEFINE said == {0} \cup {i \in 1..n : log[i].agent = a /\ log[i].kind \in kinds}
  <1>1. said \subseteq 0..n /\ said # {} /\ n \in Nat
    OBVIOUS
  <1>2. Max(said) \in said /\ \A i \in said : i <= Max(said)
    BY <1>1, MaxIsLargest
  <1>3. LastOf(a, kinds, n) = Max(said)
    BY DEF LastOf, Said
  <1>4. ASSUME NEW i \in 1..n, log[i].agent = a /\ log[i].kind \in kinds
        PROVE  i \in said
    BY <1>4
  <1> HIDE DEF said
  <1>5. LastOf(a, kinds, n) \in said
    BY <1>2, <1>3
  <1> QED
    BY <1>1, <1>2, <1>3, <1>4, <1>5 DEF said

\* An agent's last event of some kinds is the newest event, if that is one, and
\* otherwise what it was.
LEMMA LastOfNext ==
    ASSUME log \in Seq(Event), NEW a, NEW kinds, NEW n \in Nat, n + 1 \in 1..Len(log)
    PROVE  LastOf(a, kinds, n + 1) =
              IF log[n + 1].agent = a /\ log[n + 1].kind \in kinds
              THEN n + 1 ELSE LastOf(a, kinds, n)
  <1>1. n \in 0..Len(log) /\ n + 1 \in 0..Len(log)
    OBVIOUS
  <1> DEFINE new == LastOf(a, kinds, n + 1)
             old == LastOf(a, kinds, n)
  <1>2. /\ new \in 0..(n + 1)
        /\ new # 0 => log[new].agent = a /\ log[new].kind \in kinds
        /\ \A i \in 1..(n + 1) : log[i].agent = a /\ log[i].kind \in kinds => new # 0 /\ i <= new
    BY <1>1, LastOfFacts
  <1>3. /\ old \in 0..n
        /\ old # 0 => log[old].agent = a /\ log[old].kind \in kinds
        /\ \A i \in 1..n : log[i].agent = a /\ log[i].kind \in kinds => old # 0 /\ i <= old
    BY <1>1, LastOfFacts
  <1> HIDE DEF new, old
  <1>4. CASE log[n + 1].agent = a /\ log[n + 1].kind \in kinds
    <2>1. n + 1 \in 1..(n + 1)
      OBVIOUS
    <2>2. n + 1 <= new
      BY <1>2, <1>4, <2>1
    <2>3. new = n + 1
      BY <1>2, <2>2
    <2> QED
      BY <1>4, <2>3 DEF new
  <1>5. CASE ~(log[n + 1].agent = a /\ log[n + 1].kind \in kinds)
    <2>1. new # n + 1
      BY <1>2, <1>5
    <2>2. new \in 0..n
      BY <1>2, <2>1
    <2>3. old <= new
      <3>1. CASE old = 0
        BY <2>2, <3>1
      <3>2. CASE old # 0
        <4>1. old \in 1..(n + 1)
          BY <1>3, <3>2
        <4> QED
          BY <1>2, <1>3, <3>2, <4>1
      <3> QED
        BY <3>1, <3>2
    <2>4. new <= old
      <3>1. CASE new = 0
        BY <1>3, <3>1
      <3>2. CASE new # 0
        <4>1. new \in 1..n
          BY <2>2, <3>2
        <4> QED
          BY <1>2, <1>3, <3>2, <4>1
      <3> QED
        BY <3>1, <3>2
    <2>5. new = old
      BY <1>3, <2>2, <2>3, <2>4
    <2> QED
      BY <1>5, <2>5 DEF new, old
  <1> QED
    BY <1>4, <1>5 DEF new, old

\* The endpoints an agent has had since then.
Current(a, t) == {s \in Endpoint : CurrentSince(a, s, t)}

\* The earlier ask back, the more the registry said since then: after a step.
LEMMA EarlierIsWeaker ==
    ASSUME NEW t \in Int, NEW u \in Int, u <= t, TypeOK'
    PROVE  /\ \A a, owner : OwnedSince(a, owner, t)' => OwnedSince(a, owner, u)'
           /\ \A a : AbsentSince(a, t)' => AbsentSince(a, u)'
           /\ \A a : Current(a, t)' \subseteq Current(a, u)'
  <1>1. \A n \in 0..Len(log') : n < Len(log') => log'[n + 1].at \in Nat
    <2> SUFFICES ASSUME NEW n \in 0..Len(log'), n < Len(log') PROVE log'[n + 1].at \in Nat
      OBVIOUS
    <2>1. n + 1 \in 1..Len(log') /\ log' \in Seq(Event)
      BY DEF TypeOK
    <2>2. log'[n + 1] \in Event
      BY <2>1
    <2> QED
      BY <2>2 DEF Event
  <1>2. \A n \in 0..Len(indexed') : n < Len(indexed') => indexed'[n + 1] \in Nat
    <2> SUFFICES ASSUME NEW n \in 0..Len(indexed'), n < Len(indexed')
                 PROVE indexed'[n + 1] \in Nat
      OBVIOUS
    <2>1. n + 1 \in 1..Len(indexed') /\ indexed' \in Seq(Nat)
      BY DEF TypeOK
    <2> QED
      BY <2>1
  <1>3. RegistrySince(t)' \subseteq RegistrySince(u)'
    BY <1>1 DEF RegistrySince
  <1>4. IndexSince(t)' \subseteq IndexSince(u)'
    BY <1>2 DEF IndexSince
  <1> QED
    BY <1>3, <1>4 DEF OwnedSince, AbsentSince, CurrentSince, Current

\* What no step takes back: the log and the index grow by what is new now.
Grows ==
    /\ clock' \in Nat /\ clock <= clock'
    /\ log' \in Seq(Event) /\ Len(log) <= Len(log')
    /\ \A i \in 1..Len(log) : log'[i] = log[i]
    /\ \A i \in (Len(log) + 1)..Len(log') : log'[i].at = clock
    /\ indexed' \in Seq(Nat) /\ Len(indexed) <= Len(indexed') /\ Len(indexed') <= Len(log')
    /\ \A i \in 1..Len(indexed) : indexed'[i] = indexed[i]
    /\ \A i \in (Len(indexed) + 1)..Len(indexed') : indexed'[i] = clock
    /\ providers' = providers

LEMMA SinceGrows ==
    ASSUME TypeOK, Grows, NEW t \in Int, t <= clock
    PROVE  /\ RegistrySince(t) \subseteq RegistrySince(t)'
           /\ IndexSince(t) \subseteq IndexSince(t)'
  <1>1. ASSUME NEW n \in RegistrySince(t) PROVE n \in RegistrySince(t)'
    <2>1. n \in 0..Len(log) /\ (n < Len(log) => log[n + 1].at >= t)
      BY DEF RegistrySince
    <2>2. Len(log) \in Nat /\ Len(log') \in Nat /\ Len(log) <= Len(log')
      BY DEF TypeOK, Grows
    <2>3. ASSUME n < Len(log') PROVE log'[n + 1].at >= t
      <3>1. CASE n < Len(log)
        <4>1. n + 1 \in 1..Len(log)
          BY <2>1, <3>1
        <4>2. log'[n + 1] = log[n + 1]
          BY <4>1 DEF Grows
        <4> QED
          BY <2>1, <3>1, <4>2
      <3>2. CASE n = Len(log)
        <4>1. n + 1 \in (Len(log) + 1)..Len(log')
          BY <2>2, <2>3, <3>2
        <4>2. log'[n + 1].at = clock
          BY <4>1 DEF Grows
        <4> QED
          BY <4>2 DEF TypeOK
      <3> QED
        BY <2>1, <3>1, <3>2
    <2> QED
      BY <2>1, <2>2, <2>3 DEF RegistrySince
  <1>2. ASSUME NEW n \in IndexSince(t) PROVE n \in IndexSince(t)'
    <2>1. n \in 0..Len(indexed) /\ (n < Len(indexed) => indexed[n + 1] >= t)
      BY DEF IndexSince
    <2>2. Len(indexed) \in Nat /\ Len(indexed') \in Nat /\ Len(indexed) <= Len(indexed')
      BY DEF TypeOK, Grows
    <2>3. ASSUME n < Len(indexed') PROVE indexed'[n + 1] >= t
      <3>1. CASE n < Len(indexed)
        <4>1. n + 1 \in 1..Len(indexed)
          BY <2>1, <3>1
        <4>2. indexed'[n + 1] = indexed[n + 1]
          BY <4>1 DEF Grows
        <4> QED
          BY <2>1, <3>1, <4>2
      <3>2. CASE n = Len(indexed)
        <4>1. n + 1 \in (Len(indexed) + 1)..Len(indexed')
          BY <2>2, <2>3, <3>2
        <4>2. indexed'[n + 1] = clock
          BY <4>1 DEF Grows
        <4> QED
          BY <4>2 DEF TypeOK
      <3> QED
        BY <2>1, <3>1, <3>2
    <2> QED
      BY <2>1, <2>2, <2>3 DEF IndexSince
  <1> QED
    BY <1>1, <1>2

LEMMA LastOfStays ==
    ASSUME TypeOK, Grows, NEW a, NEW kinds, NEW n \in 0..Len(log)
    PROVE  LastOf(a, kinds, n)' = LastOf(a, kinds, n)
  <1>1. \A i \in 1..Len(log) : log'[i] = log[i]
    BY DEF Grows
  <1>2. Len(log) \in Nat
    BY DEF TypeOK
  <1>3. \A i \in 1..n : i \in 1..Len(log)
    BY <1>2
  <1>4. \A i \in 1..n : log'[i] = log[i]
    BY <1>1, <1>3
  <1> QED
    BY <1>4 DEF LastOf, Said

LEMMA SinceIsInTheLog ==
    ASSUME TypeOK, NEW t, NEW n \in RegistrySince(t) \cup IndexSince(t)
    PROVE  n \in 0..Len(log)
  BY DEF TypeOK, RegistrySince, IndexSince

LEMMA OwnedStays ==
    ASSUME TypeOK, Grows, NEW t \in Int, t <= clock, NEW a, NEW owner,
           OwnedSince(a, owner, t)
    PROVE  OwnedSince(a, owner, t)'
  <1>1. PICK n \in RegistrySince(t) \cup IndexSince(t) :
          LastOf(a, {"Transfer"}, n) # 0 /\ owner = OwnerAfter(a, n)
    BY DEF OwnedSince
  <1>2. n \in 0..Len(log)
    BY SinceIsInTheLog
  <1>3. LastOf(a, {"Transfer"}, n)' = LastOf(a, {"Transfer"}, n)
    BY <1>2, LastOfStays
  <1>4. LastOf(a, {"Transfer"}, n) \in 1..Len(log)
    BY <1>1, <1>2, LastOfFacts DEF TypeOK
  <1>5. log'[LastOf(a, {"Transfer"}, n)] = log[LastOf(a, {"Transfer"}, n)]
    BY <1>4 DEF Grows
  <1>6. OwnerAfter(a, n)' = OwnerAfter(a, n)
    BY <1>3, <1>5 DEF OwnerAfter
  <1>7. n \in RegistrySince(t)' \cup IndexSince(t)'
    BY SinceGrows
  <1> QED
    BY <1>1, <1>3, <1>6, <1>7 DEF OwnedSince

LEMMA AbsentStays ==
    ASSUME TypeOK, Grows, NEW t \in Int, t <= clock, NEW a, AbsentSince(a, t)
    PROVE  AbsentSince(a, t)'
  <1>1. ASSUME NEW n \in RegistrySince(t), ~Known(a, n) PROVE AbsentSince(a, t)'
    <2>1. n \in 0..Len(log) /\ n \in RegistrySince(t)'
      BY SinceIsInTheLog, SinceGrows
    <2>2. LastOf(a, {"Registered"}, n)' = LastOf(a, {"Registered"}, n)
      BY <2>1, LastOfStays
    <2> QED
      BY <1>1, <2>1, <2>2 DEF AbsentSince, Known
  <1>2. ASSUME NEW n \in IndexSince(t), \A i \in 1..n : log[i].agent # a
        PROVE  AbsentSince(a, t)'
    <2>1. n \in 0..Len(log) /\ n \in IndexSince(t)'
      BY SinceIsInTheLog, SinceGrows
    <2>2. \A i \in 1..n : log'[i] = log[i]
      BY <2>1 DEF Grows, TypeOK
    <2> QED
      BY <1>2, <2>1, <2>2 DEF AbsentSince
  <1> QED
    BY <1>1, <1>2 DEF AbsentSince

LEMMA CurrentStays ==
    ASSUME TypeOK, Grows, NEW t \in Int, t <= clock, NEW a
    PROVE  Current(a, t) \subseteq Current(a, t)'
  <1> SUFFICES ASSUME NEW s \in Endpoint, CurrentSince(a, s, t)
               PROVE  CurrentSince(a, s, t)'
    BY DEF Current
  <1>1. log \in Seq(Event) /\ Len(log) \in Nat
    BY DEF TypeOK
  <1>2. ASSUME NEW n \in RegistrySince(t), Known(a, n), UriAfter(a, n) # NULL,
               s \in Given(DocumentAt[UriAfter(a, n)])
        PROVE  CurrentSince(a, s, t)'
    <2> DEFINE k == LastOf(a, {"Registered", "URIUpdated"}, n)
    <2>1. n \in 0..Len(log) /\ n \in RegistrySince(t)'
      BY SinceIsInTheLog, SinceGrows
    <2>2. LastOf(a, {"Registered"}, n)' = LastOf(a, {"Registered"}, n) /\ k' = k
      BY <2>1, LastOfStays
    <2>3. k \in 1..Len(log)
      <3> DEFINE r == LastOf(a, {"Registered"}, n)
      <3>1. r \in 1..n /\ log[r].agent = a /\ log[r].kind \in {"Registered"}
        BY <1>1, <1>2, <2>1, LastOfFacts DEF Known
      <3> HIDE DEF r
      <3>2. k \in 0..n /\ k # 0
        BY <1>1, <2>1, <3>1, LastOfFacts
      <3> QED
        BY <1>1, <2>1, <3>2
    <2>4. UriAfter(a, n)' = UriAfter(a, n)
      BY <2>2, <2>3 DEF UriAfter, Grows
    <2> QED
      BY <1>2, <2>1, <2>2, <2>4 DEF CurrentSince, Known
  <1>3. ASSUME NEW n \in IndexSince(t), Giving(a, s.protocol, n) # {},
               s.address = ReadServices(DocumentAt[log[Max(Giving(a, s.protocol, n))].uri])
                              [s.protocol],
               s.url <=> s.protocol \in UrlProtocols
        PROVE  CurrentSince(a, s, t)'
    <2> DEFINE giving == Giving(a, s.protocol, n)
    <2>1. n \in 0..Len(log) /\ n \in IndexSince(t)'
      BY SinceIsInTheLog, SinceGrows
    <2>2. \A i \in 1..n : log'[i] = log[i] /\ i \in 1..Len(log)
      BY <1>1, <2>1 DEF Grows
    <2>3. giving' = giving /\ giving \subseteq 1..n
      BY <2>2 DEF Giving, Gives, Telling, Said
    <2>4. Max(giving) \in 1..n
      <3> HIDE DEF giving
      <3>1. giving # {} /\ giving \subseteq 0..n /\ n \in Nat
        BY <1>1, <1>3, <2>1, <2>3 DEF giving
      <3> QED
        BY <2>3, <3>1, MaxIsLargest
    <2>5. log'[Max(giving)] = log[Max(giving)]
      BY <2>2, <2>4
    <2> QED
      BY <1>3, <2>1, <2>3, <2>5 DEF CurrentSince
  <1> QED
    BY <1>2, <1>3 DEF CurrentSince

LEMMA RegisteredStays ==
    ASSUME TypeOK, Grows, NEW a, Registered(a)
    PROVE  Registered(a)'
  <1> DEFINE i == LastOf(a, {"Registered"}, Len(log))
  <1>1. Len(log) \in 0..Len(log) /\ Len(log) \in Nat
    BY DEF TypeOK
  <1>2. i \in 1..Len(log) /\ log[i].agent = a /\ log[i].kind \in {"Registered"}
    BY <1>1, LastOfFacts DEF TypeOK, Registered, Known
  <1>3. i \in 1..Len(log') /\ log'[i].agent = a /\ log'[i].kind \in {"Registered"}
    BY <1>1, <1>2 DEF Grows
  <1> HIDE DEF i
  <1>4. log' \in Seq(Event) /\ Len(log') \in 0..Len(log')
    BY DEF Grows
  <1>5. LastOf(a, {"Registered"}, Len(log))' # 0
    <2> DEFINE told == {0} \cup {j \in 1..Len(log') :
                          log'[j].agent = a /\ log'[j].kind \in {"Registered"}}
    <2>1. told \subseteq 0..Len(log') /\ told # {} /\ Len(log') \in Nat
      BY <1>4
    <2>2. Max(told) \in told /\ \A j \in told : j <= Max(told)
      BY <2>1, MaxIsLargest
    <2>3. i \in told
      BY <1>3
    <2>4. LastOf(a, {"Registered"}, Len(log))' = Max(told)
      BY DEF LastOf, Said
    <2> HIDE DEF told
    <2> QED
      BY <1>2, <2>2, <2>3, <2>4
  <1> QED
    BY <1>5 DEF Registered, Known

-----------------------------------------------------------------------------
(* The invariant.                                                           *)

\* A registration mints the token in the event before it, and no event of an
\* agent comes before its first transfer.
LogOK ==
    \A i \in 1..Len(log) :
        /\ log[i].kind = "Registered" =>
              /\ i - 1 \in 1..Len(log) /\ log[i - 1].kind = "Transfer"
              /\ log[i - 1].agent = log[i].agent /\ log[i - 1].to = log[i].owner
        /\ \E j \in 1..i : log[j].kind = "Transfer" /\ log[j].agent = log[i].agent

\* A profile that was true of the agent at some time since then.
Good(a, profile, time) ==
    /\ profile \in Profile
    /\ OwnedSince(a, profile.owner, time)
    /\ profile.services \subseteq Current(a, time)

\* What a call has collected once its first k providers are done: if it has no
\* profile of the agent it resolves, it has been told so unless every provider
\* failed.
Collected(call, k) ==
    /\ call.kind = "resolve" => \E a \in Agents : call.agents = {a}
    /\ call.start <= clock /\ clock <= call.start + MaxCall
    /\ \A a \in Agents : \A i \in 1..Len(call.found[a]) :
          Good(a, call.found[a][i], call.start)
    /\ call.kind = "resolve" => call.errors <= k
    /\ call.kind = "resolve" /\ call.errors < k =>
          \A a \in call.agents :
             call.found[a] = << >> => AbsentSince(a, call.start) \/ call.unchecked

\* A call is at a provider it asks, and holds what that provider has read.
HeldOK(call) ==
    /\ call.provider \in Asked(call.kind)
    /\ call.step \in {"unset", "ownerOf", "tokenURI", "stats", "trust"} => call.kind = "resolve"
    /\ \A a \in call.agents :
       /\ call.step = "tokenURI" =>
          call.held \in Accounts /\ Registered(a) /\ OwnedSince(a, call.held, call.start)
       /\ call.step = "stats" =>
          /\ call.held \in AgentRecord
          /\ OwnedSince(a, call.held.owner, call.start)
          /\ Endpoints(call.held.services, UrlObjects) \subseteq Current(a, call.start)
       /\ call.step = "trust" => Good(a, call.held, call.start)

CallOK(call) == Collected(call, call.provider - 1) /\ HeldOK(call)

\* The cache keeps for CacheTtl what a call collected that took MaxCall at most.
EntryOK(a, entry) ==
    LET since == entry.expiresAt - CacheTtl - MaxCall
    IN  /\ entry.expiresAt <= clock + CacheTtl
        /\ entry.value # NULL => Good(a, entry.value, since)
        /\ entry.value = NULL => AbsentSince(a, since) \/ entry.unchecked

CacheOK == \A a \in Agents : cache[a] # NULL => EntryOK(a, cache[a])

IInv ==
    /\ TypeOK
    /\ LogOK
    /\ TableSays(rows, Len(indexed))
    /\ \A c \in Calls : Running(c) => CallOK(calls[c])
    /\ CacheOK

AnswerOK == AnswersAreRecent /\ AbsenceIsReported /\ PayeesAreCurrent

LEMMA GoodStays ==
    ASSUME TypeOK, Grows, NEW t \in Int, t <= clock, NEW a, NEW profile, Good(a, profile, t)
    PROVE  Good(a, profile, t)'
  BY OwnedStays, CurrentStays DEF Good

LEMMA EntryStays ==
    ASSUME TypeOK, Grows, NEW a \in Agents, NEW entry \in CacheEntry, EntryOK(a, entry)
    PROVE  EntryOK(a, entry)'
  <1> DEFINE since == entry.expiresAt - CacheTtl - MaxCall
  <1>1. since \in Int /\ since <= clock /\ entry.expiresAt <= clock' + CacheTtl
    <2>1. CacheTtl \in Nat /\ MaxCall \in Nat /\ entry.expiresAt \in Nat
      BY DirectoryConstants DEF CacheEntry
    <2>2. clock \in Nat /\ clock' \in Nat /\ clock <= clock'
      BY DEF TypeOK, Grows
    <2>3. entry.expiresAt <= clock + CacheTtl
      BY DEF EntryOK
    <2> QED
      BY <2>1, <2>2, <2>3
  <1>2. ASSUME entry.value # NULL PROVE Good(a, entry.value, since)'
    BY <1>1, <1>2, GoodStays DEF EntryOK
  <1>3. ASSUME entry.value = NULL PROVE AbsentSince(a, since)' \/ entry.unchecked
    BY <1>1, <1>3, AbsentStays DEF EntryOK
  <1> QED
    BY <1>1, <1>2, <1>3 DEF EntryOK

\* What a call has collected stays true while it is waiting.
LEMMA CollectedStays ==
    ASSUME TypeOK, Grows, NEW call \in Call, NEW k \in Nat, Collected(call, k),
           clock' <= call.start + MaxCall
    PROVE  Collected(call, k)'
  <1>1. call.start \in Int /\ call.start <= clock /\ call.start <= clock' /\ call.errors \in Nat
    BY DEF Collected, Call, Grows, TypeOK
  <1>2. ASSUME NEW a \in Agents, NEW i \in 1..Len(call.found[a])
        PROVE  Good(a, call.found[a][i], call.start)'
    BY <1>1, GoodStays DEF Collected
  <1>3. ASSUME NEW a \in call.agents, AbsentSince(a, call.start)
        PROVE  AbsentSince(a, call.start)'
    BY <1>1, <1>3, AbsentStays
  <1> QED
    BY <1>1, <1>2, <1>3 DEF Collected

LEMMA HeldStays ==
    ASSUME TypeOK, Grows, NEW call \in Call, call.start <= clock, HeldOK(call)
    PROVE  HeldOK(call)'
  <1>1. call.start \in Int
    BY DEF Call
  <1>2. Asked(call.kind)' = Asked(call.kind)
    BY DEF Asked, Grows
  <1>3. ASSUME NEW a \in call.agents, call.step = "tokenURI"
        PROVE  /\ call.held \in Accounts
               /\ Registered(a)' /\ OwnedSince(a, call.held, call.start)'
    BY <1>1, <1>3, RegisteredStays, OwnedStays DEF HeldOK
  <1>4. ASSUME NEW a \in call.agents, call.step = "stats"
        PROVE  /\ call.held \in AgentRecord
               /\ OwnedSince(a, call.held.owner, call.start)'
               /\ Endpoints(call.held.services, UrlObjects) \subseteq Current(a, call.start)'
    BY <1>1, <1>4, OwnedStays, CurrentStays DEF HeldOK
  <1>5. ASSUME NEW a \in call.agents, call.step = "trust"
        PROVE  Good(a, call.held, call.start)'
    BY <1>1, <1>5, GoodStays DEF HeldOK
  <1> QED
    BY <1>2, <1>3, <1>4, <1>5 DEF HeldOK
-----------------------------------------------------------------------------
(* What a provider's answer makes of a call.                                 *)

LEMMA ProfilesAreCollected ==
    ASSUME NEW call \in Call, call.provider \in Nat \ {0}, Collected(call, call.provider - 1)',
           NEW profiles, DOMAIN profiles = call.agents,
           \A a \in call.agents :
              /\ profiles[a] # NULL => Good(a, profiles[a], call.start)'
              /\ profiles[a] = NULL => call.kind = "search" \/ AbsentSince(a, call.start)'
    PROVE  LET new == [call EXCEPT !.found =
                         [a \in Agents |-> IF a \in DOMAIN profiles /\ profiles[a] # NULL
                                           THEN Append(@[a], profiles[a]) ELSE @[a]]]
           IN  /\ new \in Call /\ new.kind = call.kind /\ new.provider = call.provider
               /\ Collected(new, call.provider)'
  <1> DEFINE found == [a \in Agents |->
                         IF a \in DOMAIN profiles /\ profiles[a] # NULL
                         THEN Append(call.found[a], profiles[a]) ELSE call.found[a]]
             new == [call EXCEPT !.found = found]
  <1>1. call.found \in [Agents -> Seq(Profile)]
    BY DEF Call
  <1>2. ASSUME NEW a \in Agents
        PROVE  /\ found[a] \in Seq(Profile)
               /\ \A i \in 1..Len(found[a]) : Good(a, found[a][i], call.start)'
               /\ found[a] = << >> =>
                     call.found[a] = << >> /\ (a \in call.agents => profiles[a] = NULL)
    <2>1. call.found[a] \in Seq(Profile)
      BY <1>1
    <2>2. \A i \in 1..Len(call.found[a]) : Good(a, call.found[a][i], call.start)'
      BY DEF Collected
    <2>3. CASE a \in DOMAIN profiles /\ profiles[a] # NULL
      <3>1. found[a] = Append(call.found[a], profiles[a])
        BY <2>3
      <3>2. Good(a, profiles[a], call.start)' /\ profiles[a] \in Profile
        BY <2>3 DEF Good
      <3>3. /\ Append(call.found[a], profiles[a]) \in Seq(Profile)
            /\ Len(Append(call.found[a], profiles[a])) = Len(call.found[a]) + 1
            /\ \A i \in 1..Len(call.found[a]) :
                  Append(call.found[a], profiles[a])[i] = call.found[a][i]
            /\ Append(call.found[a], profiles[a])[Len(call.found[a]) + 1] = profiles[a]
        BY <2>1, <3>2
      <3>4. ASSUME NEW i \in 1..Len(found[a]) PROVE Good(a, found[a][i], call.start)'
        <4>1. CASE i \in 1..Len(call.found[a])
          BY <2>2, <3>1, <3>3, <4>1
        <4>2. CASE i = Len(call.found[a]) + 1
          BY <3>1, <3>2, <3>3, <4>2
        <4> QED
          BY <2>1, <3>1, <3>3, <4>1, <4>2
      <3>5. Append(call.found[a], profiles[a]) # << >>
        BY <2>1, <3>2, AppendProperties
      <3> QED
        BY <3>1, <3>3, <3>4, <3>5
    <2>4. CASE ~(a \in DOMAIN profiles /\ profiles[a] # NULL)
      BY <2>1, <2>2, <2>4
    <2> QED
      BY <2>3, <2>4
  <1> HIDE DEF found
  <1>3. found \in [Agents -> Seq(Profile)]
    BY <1>2 DEF found
  <1>4. /\ new \in Call /\ new.kind = call.kind /\ new.provider = call.provider
        /\ new.agents = call.agents /\ new.start = call.start /\ new.errors = call.errors
        /\ new.found = found /\ new.unchecked = call.unchecked
    BY <1>3 DEF Call
  <1> HIDE DEF new
  <1>5. call.errors \in Nat
    BY DEF Call
  <1>6. ASSUME NEW a \in call.agents, found[a] = << >>, call.kind = "resolve"
        PROVE  AbsentSince(a, call.start)'
    <2>1. a \in Agents
      BY DEF Call
    <2> QED
      BY <1>2, <1>6, <2>1
  <1>7. Collected(new, call.provider)'
    BY <1>2, <1>4, <1>5, <1>6 DEF Collected
  <1> QED
    BY <1>4, <1>7 DEF found, new

LEMMA FailureIsCounted ==
    ASSUME NEW call \in Call, call.provider \in Nat \ {0}, Collected(call, call.provider - 1)'
    PROVE  LET new == [call EXCEPT !.errors = @ + 1]
           IN  /\ new \in Call /\ new.kind = call.kind /\ new.provider = call.provider
               /\ Collected(new, call.provider)'
  <1> DEFINE new == [call EXCEPT !.errors = call.errors + 1]
  <1>1. /\ new \in Call /\ new.kind = call.kind /\ new.provider = call.provider
        /\ new.agents = call.agents /\ new.start = call.start /\ new.errors = call.errors + 1
        /\ new.found = call.found /\ new.unchecked = call.unchecked
    BY DEF Call
  <1>2. call.errors \in Nat
    BY DEF Call
  <1> HIDE DEF new
  <1>3. Collected(new, call.provider)'
    BY <1>1, <1>2 DEF Collected
  <1> QED
    BY <1>1, <1>3 DEF new

LEMMA NothingIsCollected ==
    ASSUME NEW call \in Call, call.provider \in Nat \ {0}, Collected(call, call.provider - 1)',
           NEW absent \in BOOLEAN,
           absent => \A a \in call.agents : AbsentSince(a, call.start)'
    PROVE  LET new == [call EXCEPT !.unchecked = @ \/ ~absent]
           IN  /\ new \in Call /\ new.kind = call.kind /\ new.provider = call.provider
               /\ Collected(new, call.provider)'
  <1> DEFINE new == [call EXCEPT !.unchecked = call.unchecked \/ ~absent]
  <1>1. call.errors \in Nat /\ call.unchecked \in BOOLEAN
    BY DEF Call
  <1>2. /\ new \in Call /\ new.kind = call.kind /\ new.provider = call.provider
        /\ new.agents = call.agents /\ new.start = call.start /\ new.errors = call.errors
        /\ new.found = call.found /\ new.unchecked = (call.unchecked \/ ~absent)
    BY <1>1 DEF Call
  <1> HIDE DEF new
  <1>3. ASSUME NEW a \in call.agents
        PROVE  AbsentSince(a, call.start)' \/ new.unchecked
    BY <1>2
  <1>4. call.kind = "resolve" => call.errors <= call.provider
    BY <1>1 DEF Collected
  <1>5. Collected(new, call.provider)'
    BY <1>2, <1>3, <1>4 DEF Collected
  <1> QED
    BY <1>2, <1>5 DEF new

\* What a call answers, if it is true at some time t that is not too long ago.
LEMMA AnswerIsRight ==
    ASSUME NEW kind \in {"resolve", "search"}, NEW agents \in SUBSET Agents, NEW filter,
           NEW start \in Nat, NEW unchecked, NEW merged \in [agents -> Maybe(Profile)],
           NEW t \in Int,
           TypeOK',
           (IF kind = "resolve" THEN start - CacheTtl - MaxCall + 1 ELSE start) <= t,
           answered' = [kind |-> kind, filter |-> filter, start |-> start,
                        unchecked |-> unchecked, answer |-> Filtered(merged, filter)],
           \A a \in agents : merged[a] # NULL => Good(a, merged[a], t)',
           kind = "resolve" =>
              \A a \in agents : merged[a] = NULL => AbsentSince(a, t)' \/ unchecked
    PROVE  AnswerOK'
  <1> DEFINE since == IF kind = "resolve" THEN start - CacheTtl - MaxCall + 1 ELSE start
             answer == Filtered(merged, filter)
  <1>1. since \in Int /\ since <= t
    BY DirectoryConstants
  <1>2. /\ answered'.kind = kind /\ answered'.filter = filter /\ answered'.unchecked = unchecked
        /\ answered'.answer = answer
    OBVIOUS
  <1>3. ReadSince(answered') = since
    BY DEF ReadSince
  <1>4. DOMAIN answer = agents
    BY DEF Filtered
  <1>5. ASSUME NEW a \in agents
        PROVE  answer[a] = ApplyProfileFilter(merged[a], filter) /\ merged[a] \in Maybe(Profile)
    BY DEF Filtered
  <1> HIDE DEF since, answer
  <1>6. ASSUME NEW a \in agents, answer[a] # NULL
        PROVE  /\ OwnedSince(a, answer[a].owner, since)'
               /\ answer[a].services \subseteq Current(a, since)'
               /\ filter.allowedProtocols \notin {NULL, {}} =>
                     \A s \in answer[a].services : s.protocol \in filter.allowedProtocols
    <2>1. /\ merged[a] # NULL /\ answer[a].owner = merged[a].owner
          /\ answer[a].services \subseteq merged[a].services
          /\ filter.allowedProtocols \notin {NULL, {}} =>
                \A s \in answer[a].services : s.protocol \in filter.allowedProtocols
      BY <1>5, <1>6, FilterFacts
    <2>2. Good(a, merged[a], t)'
      BY <2>1
    <2> DEFINE owner == merged[a].owner
    <2>3. OwnedSince(a, owner, t)' /\ merged[a].services \subseteq Current(a, t)'
      BY <2>2 DEF Good
    <2>4. OwnedSince(a, owner, since)' /\ Current(a, t)' \subseteq Current(a, since)'
      BY <1>1, <2>3, EarlierIsWeaker
    <2> QED
      BY <2>1, <2>3, <2>4
  <1>7. ASSUME NEW a \in agents, answer[a] = NULL, Unfiltered(filter), kind = "resolve"
        PROVE  AbsentSince(a, since)' \/ unchecked
    <2>1. merged[a] = NULL
      BY <1>5, <1>7, UnfilteredFacts
    <2>2. AbsentSince(a, t)' => AbsentSince(a, since)'
      BY <1>1, EarlierIsWeaker
    <2> QED
      BY <1>7, <2>1, <2>2
  <1>8. AnswersAreRecent'
    BY <1>2, <1>3, <1>4, <1>6 DEF AnswersAreRecent
  <1>9. AbsenceIsReported'
    BY <1>2, <1>3, <1>4, <1>7 DEF AbsenceIsReported
  <1>10. PayeesAreCurrent'
    <2> SUFFICES ASSUME NEW a \in agents, NEW policy \in Policies, answer[a] # NULL,
                        NEW endpoint \in SelectCounterpartyEndpoint(answer[a], policy)
                 PROVE  /\ CurrentSince(a, endpoint, since)'
                        /\ policy.requireHttps => endpoint.address \in HttpsAddresses
                        /\ filter.allowedProtocols \notin {NULL, {}} =>
                              endpoint.protocol \in filter.allowedProtocols
      BY <1>2, <1>3, <1>4 DEF PayeesAreCurrent
    <2>1. endpoint \in answer[a].services /\ Acceptable(answer[a], endpoint, policy)
      BY DEF SelectCounterpartyEndpoint
    <2>2. policy.requireHttps => endpoint.address \in HttpsAddresses
      BY <2>1 DEF Acceptable
    <2>3. endpoint \in Current(a, since)'
      BY <1>6, <2>1
    <2> QED
      BY <1>6, <2>1, <2>2, <2>3 DEF Current
  <1> QED
    BY <1>8, <1>9, <1>10 DEF AnswerOK
-----------------------------------------------------------------------------
(* On to the next provider, or the answer.                                  *)

LEMMA NextProvider ==
    ASSUME TypeOK, NEW kind \in {"resolve", "search"}, NEW k \in Nat,
           k <= Len(providers)
    PROVE  LET rest == {i \in Asked(kind) : i > k}
           IN  /\ rest # {} =>
                    /\ Min(rest) \in Asked(kind) /\ Min(rest) \in 1..Len(providers)
                    /\ kind = "resolve" => Min(rest) - 1 = k
                    /\ \A i \in Asked(kind) : i <= Min(rest) - 1 => i <= k
                    /\ FirstStep(providers[Min(rest)]) \in {"unset", "ownerOf", "graphql", "agent"}
                    /\ kind = "search" =>
                          FirstStep(providers[Min(rest)]) \in {"graphql", "agent"}
               /\ rest = {} /\ kind = "resolve" => k = Len(providers) /\ k # 0
               /\ rest = {} => \A i \in Asked(kind) : i <= k
  <1> DEFINE rest == {i \in Asked(kind) : i > k}
  <1>1. providers \in Seq({"onchain", "onchainUnset", "envio", "scan"}) /\ providers # << >>
    BY DirectoryConstants DEF TypeOK
  <1>2. DOMAIN providers = 1..Len(providers) /\ Len(providers) \in Nat /\ Len(providers) # 0
    BY <1>1
  <1>3. Asked(kind) \subseteq 1..Len(providers) /\ Asked("resolve") = 1..Len(providers)
    BY <1>2 DEF Asked
  <1>4. ASSUME rest # {}
        PROVE  /\ Min(rest) \in Asked(kind) /\ Min(rest) \in 1..Len(providers)
               /\ kind = "resolve" => Min(rest) - 1 = k
               /\ \A i \in Asked(kind) : i <= Min(rest) - 1 => i <= k
               /\ FirstStep(providers[Min(rest)]) \in {"unset", "ownerOf", "graphql", "agent"}
               /\ kind = "search" => FirstStep(providers[Min(rest)]) \in {"graphql", "agent"}
    <2> DEFINE m == Min(rest)
    <2>1. m \in rest /\ \A i \in rest : m <= i
      <3>1. rest \subseteq Nat
        BY <1>3
      <3> QED
        BY <1>4, <3>1, MinIsLeast
    <2>2. m \in Asked(kind) /\ m > k /\ m \in 1..Len(providers)
      BY <1>3, <2>1
    <2>3. \A i \in Asked(kind) : i > k => m <= i
      BY <2>1
    <2> HIDE DEF m, rest
    <2>4. ASSUME kind = "resolve" PROVE m - 1 = k
      <3>1. k + 1 \in 1..Len(providers)
        BY <1>2, <2>2
      <3>2. m <= k + 1
        BY <1>3, <2>3, <2>4, <3>1
      <3> QED
        BY <2>2, <3>2
    <2>5. ASSUME NEW i \in Asked(kind), i <= m - 1 PROVE i <= k
      <3>1. i \in Nat /\ m \in Nat
        BY <1>3, <2>2
      <3> QED
        BY <2>3, <2>5, <3>1
    <2>6. providers[m] \in {"onchain", "onchainUnset", "envio", "scan"}
      BY <1>1, <2>2
    <2>7. FirstStep(providers[m]) \in {"unset", "ownerOf", "graphql", "agent"}
      BY <2>6 DEF FirstStep
    <2>8. ASSUME kind = "search" PROVE FirstStep(providers[m]) \in {"graphql", "agent"}
      <3>1. providers[m] \notin {"onchain", "onchainUnset"}
        BY <2>2, <2>8 DEF Asked
      <3> QED
        BY <2>6, <3>1 DEF FirstStep
    <2> QED
      BY <2>2, <2>4, <2>5, <2>7, <2>8 DEF m
  <1>5. ASSUME rest = {} PROVE \A i \in Asked(kind) : i <= k
    BY <1>3, <1>5
  <1>6. ASSUME rest = {}, kind = "resolve" PROVE k = Len(providers) /\ k # 0
    <2>1. Len(providers) <= k
      BY <1>2, <1>3, <1>5, <1>6
    <2>2. Len(providers) \in Nat /\ Len(providers) # 0
      BY <1>2
    <2>3. k = Len(providers)
      BY <2>1, <2>2
    <2> QED
      BY <2>2, <2>3
  <1> QED
    BY <1>4, <1>5, <1>6

\* The end of a call: its answer is right, and so is what the cache keeps.
LEMMA FinishIsRight ==
    ASSUME TypeOK, TypeOK', Grows, clock' = clock, CacheOK,
           NEW c, NEW call \in Call, Collected(call, call.provider)',
           call.provider <= Len(providers),
           {i \in Asked(call.kind) : i > call.provider} = {},
           Finish(c, call)
    PROVE  CacheOK' /\ AnswerOK'
  <1> DEFINE merged == [a \in call.agents |-> MergeProfiles(call.found[a])]
             nothing == \A a \in DOMAIN merged : merged[a] = NULL
             unavailable == nothing /\ IF call.kind = "resolve"
                                       THEN call.errors = Len(providers)
                                       ELSE call.errors > 0
  <1>1. /\ call.kind \in {"resolve", "search"} /\ call.agents \in SUBSET Agents
        /\ call.start \in Nat /\ call.provider \in Nat /\ call.errors \in Nat
        /\ call.found \in [Agents -> Seq(Profile)]
    BY DEF Call
  <1>2. /\ call.kind = "resolve" => call.provider = Len(providers) /\ call.provider # 0
        /\ \A i \in Asked(call.kind) : i <= call.provider
    BY <1>1, NextProvider
  <1>4. ASSUME NEW a \in call.agents
        PROVE  /\ merged[a] \in Maybe(Profile)
               /\ merged[a] # NULL => Good(a, merged[a], call.start)'
               /\ merged[a] = NULL => call.found[a] = << >>
    <2> DEFINE found == call.found[a]
    <2>1. a \in Agents /\ found \in Seq(Profile) /\ merged[a] = MergeProfiles(found)
      BY <1>1
    <2>2. \A i \in 1..Len(found) : Good(a, found[i], call.start)'
      BY <2>1 DEF Collected
    <2> HIDE DEF found, merged
    <2>3. CASE found = << >>
      BY <2>1, <2>3, NothingMerged DEF Maybe, found
    <2>4. CASE found # << >>
      <3>1. /\ merged[a] \in Profile
            /\ \E i \in 1..Len(found) : merged[a].owner = found[i].owner
            /\ \A s \in merged[a].services : \E i \in 1..Len(found) : s \in found[i].services
        BY <2>1, <2>4, MergeProfilesFacts
      <3>2. merged[a].services \subseteq Current(a, call.start)'
        BY <2>2, <3>1 DEF Good
      <3>3. OwnedSince(a, merged[a].owner, call.start)'
        <4>1. PICK i \in 1..Len(found) : merged[a].owner = found[i].owner
          BY <3>1
        <4>2. OwnedSince(a, found[i].owner, call.start)'
          BY <2>2 DEF Good
        <4> QED
          BY <4>1, <4>2
      <3>4. merged[a] # NULL
        BY <3>1, NullIsNoValue
      <3> QED
        BY <3>1, <3>2, <3>3, <3>4 DEF Good, Maybe
    <2> QED
      BY <2>3, <2>4
  <1>5. ASSUME NEW a \in call.agents, merged[a] = NULL, ~unavailable, call.kind = "resolve"
        PROVE  AbsentSince(a, call.start)' \/ call.unchecked
    <2>1. call.found[a] = << >>
      BY <1>4, <1>5
    <2>2. call.agents = {a}
      BY <1>5 DEF Collected
    <2>3. call.errors # call.provider
      BY <1>2, <1>5, <2>2
    <2>4. call.errors < call.provider
      BY <1>1, <1>5, <2>3 DEF Collected
    <2> QED
      BY <1>5, <2>1, <2>4 DEF Collected
  <1>6. /\ answered' = Ended(call, IF unavailable THEN UNAVAILABLE
                                   ELSE Filtered(merged, call.filter))
        /\ cache' = IF unavailable \/ call.kind # "resolve" THEN cache
                    ELSE [a \in Agents |->
                            IF a \in call.agents
                            THEN [value |-> merged[a], expiresAt |-> clock + CacheTtl,
                                  unchecked |-> call.unchecked]
                            ELSE cache[a]]
    BY DEF Finish
  <1> HIDE DEF merged, unavailable
  <1>7. AnswerOK'
    <2>1. CASE unavailable
      <3>1. answered'.answer = UNAVAILABLE
        BY <1>6, <2>1 DEF Ended
      <3> QED
        BY <3>1 DEF AnswerOK, AnswersAreRecent, AbsenceIsReported, PayeesAreCurrent, Answered
    <2>2. CASE ~unavailable
      <3>1. answered' = [kind |-> call.kind, filter |-> call.filter, start |-> call.start,
                         unchecked |-> call.unchecked,
                         answer |-> Filtered(merged, call.filter)]
        BY <1>6, <2>2 DEF Ended
      <3>2. merged \in [call.agents -> Maybe(Profile)]
        BY <1>4 DEF merged
      <3>3. /\ call.start \in Int
            /\ (IF call.kind = "resolve" THEN call.start - CacheTtl - MaxCall + 1
                ELSE call.start) <= call.start
        BY <1>1, DirectoryConstants
      <3>4. call.kind = "resolve" =>
               \A a \in call.agents :
                  merged[a] = NULL => AbsentSince(a, call.start)' \/ call.unchecked
        BY <1>5, <2>2
      <3>5. \A a \in call.agents : merged[a] # NULL => Good(a, merged[a], call.start)'
        BY <1>4
      <3>6. PICK kind, agents, filter, start, unchecked, t :
               /\ kind = call.kind
               /\ agents = call.agents
               /\ filter = call.filter
               /\ start = call.start
               /\ unchecked = call.unchecked
               /\ t = call.start
        OBVIOUS
      <3>7. /\ kind \in {"resolve", "search"} /\ agents \in SUBSET Agents /\ start \in Nat
            /\ merged \in [agents -> Maybe(Profile)] /\ t \in Int
            /\ (IF kind = "resolve" THEN start - CacheTtl - MaxCall + 1 ELSE start) <= t
            /\ answered' = [kind |-> kind, filter |-> filter, start |-> start,
                            unchecked |-> unchecked, answer |-> Filtered(merged, filter)]
        BY <1>1, <3>1, <3>2, <3>3, <3>6
      <3>8. \A a \in agents : merged[a] # NULL => Good(a, merged[a], t)'
        BY <3>5, <3>6
      <3>9. kind = "resolve" =>
               \A a \in agents : merged[a] = NULL => AbsentSince(a, t)' \/ unchecked
        BY <3>4, <3>6
      <3> HIDE DEF nothing
      <3> QED
        BY <3>7, <3>8, <3>9, AnswerIsRight, ZenonT(40)
    <2> QED
      BY <2>1, <2>2
  <1>8. CacheOK'
    <2>1. ASSUME NEW a \in Agents, cache'[a] = cache[a], cache[a] # NULL
          PROVE  EntryOK(a, cache[a])'
      <3>1. PICK entry : entry = cache[a]
        OBVIOUS
      <3>2. entry \in CacheEntry /\ EntryOK(a, entry)
        BY <2>1, <3>1 DEF TypeOK, Maybe, CacheOK
      <3>3. EntryOK(a, entry)'
        BY <3>2, EntryStays
      <3> QED
        BY <2>1, <3>1, <3>3
    <2>2. CASE unavailable \/ call.kind # "resolve"
      <3>1. cache' = cache
        BY <1>6, <2>2
      <3> QED
        BY <2>1, <3>1 DEF CacheOK
    <2>3. CASE ~unavailable /\ call.kind = "resolve"
      <3> SUFFICES ASSUME NEW a \in Agents, cache'[a] # NULL
                   PROVE  EntryOK(a, cache[a])'
        BY DEF CacheOK
      <3>1. CASE a \notin call.agents
        BY <1>6, <2>1, <2>3, <3>1
      <3>2. CASE a \in call.agents
        <4>1. PICK entry : entry = [value |-> merged[a], expiresAt |-> clock + CacheTtl,
                                    unchecked |-> call.unchecked]
          OBVIOUS
        <4>2. cache'[a] = entry
          BY <1>6, <2>3, <3>2, <4>1
        <4>3. /\ entry.value = merged[a] /\ entry.expiresAt = clock + CacheTtl
              /\ entry.unchecked = call.unchecked
          BY <4>1
        <4> DEFINE since == entry.expiresAt - CacheTtl - MaxCall
        <4>4. since \in Int /\ since <= call.start /\ entry.expiresAt <= clock' + CacheTtl
          BY <1>1, <4>3, DirectoryConstants DEF TypeOK, Collected
        <4>5. ASSUME entry.value # NULL PROVE Good(a, entry.value, since)'
          <5>1. Good(a, entry.value, call.start)'
            BY <1>4, <3>2, <4>3, <4>5
          <5>2. /\ OwnedSince(a, entry.value.owner, since)'
                /\ Current(a, call.start)' \subseteq Current(a, since)'
            BY <1>1, <4>4, <5>1, EarlierIsWeaker DEF Good
          <5> QED
            BY <5>1, <5>2 DEF Good
        <4>6. ASSUME entry.value = NULL PROVE AbsentSince(a, since)' \/ entry.unchecked
          <5>1. AbsentSince(a, call.start)' \/ entry.unchecked
            BY <1>5, <2>3, <3>2, <4>3, <4>6
          <5> QED
            BY <1>1, <4>4, <5>1, EarlierIsWeaker
        <4>7. EntryOK(a, entry)'
          BY <4>4, <4>5, <4>6 DEF EntryOK
        <4> QED
          BY <4>2, <4>7
      <3> QED
        BY <3>1, <3>2
    <2> QED
      BY <2>2, <2>3
  <1> QED
    BY <1>7, <1>8
-----------------------------------------------------------------------------
(* The steps of the client leave the world as it is.                        *)

Still == UNCHANGED World

LEMMA StillGrows ==
    ASSUME TypeOK, Still
    PROVE  /\ Grows /\ clock' = clock
           /\ LogOK => LogOK'
           /\ TableSays(rows, Len(indexed)) => TableSays(rows, Len(indexed))'
  <1>1. /\ clock' = clock /\ log' = log /\ indexed' = indexed /\ rows' = rows
        /\ providers' = providers
    BY DEF Still, World
  <1>2. /\ clock \in Nat /\ log \in Seq(Event) /\ indexed \in Seq(Nat)
        /\ Len(indexed) <= Len(log)
    BY DEF TypeOK
  <1>3. Grows
    BY <1>1, <1>2 DEF Grows
  <1>4. LogOK => LogOK'
    BY <1>1 DEF LogOK
  <1>5. TableSays(rows, Len(indexed)) => TableSays(rows, Len(indexed))'
    <2>1. PICK table, n : table = rows /\ n = Len(indexed)
      OBVIOUS
    <2>2. TableSays(table, n)' = TableSays(table, n)
      BY <1>1 DEF TableSays, RowSays, Telling, Giving, OwnerAfter, LastOf, Said
    <2> QED
      BY <1>1, <2>1, <2>2
  <1> QED
    BY <1>1, <1>3, <1>4, <1>5

LEMMA CallStays ==
    ASSUME TypeOK, Grows, NEW call \in Call, CallOK(call), clock' <= call.start + MaxCall
    PROVE  CallOK(call)'
  <1>1. Collected(call, call.provider - 1) /\ HeldOK(call)
    BY DEF CallOK
  <1>2. call.provider - 1 \in Nat
    <2>1. call.provider \in DOMAIN providers
      BY <1>1 DEF HeldOK, Asked
    <2>2. DOMAIN providers = 1..Len(providers)
      BY DirectoryConstants DEF TypeOK
    <2> QED
      BY <2>1, <2>2
  <1>3. Collected(call, call.provider - 1)'
    BY <1>1, <1>2, CollectedStays
  <1>4. call.start <= clock
    BY <1>1 DEF Collected
  <1>5. HeldOK(call)'
    BY <1>1, <1>4, HeldStays
  <1> QED
    BY <1>3, <1>5 DEF CallOK

LEMMA OtherCallsStay ==
    ASSUME IInv, Grows, clock' = clock, NEW d \in Calls, Running(d), calls'[d] = calls[d]
    PROVE  CallOK(calls[d])'
  <1>1. PICK call : call = calls[d]
    OBVIOUS
  <1>2. call \in Call /\ CallOK(call)
    BY <1>1 DEF IInv, TypeOK, Running, Maybe
  <1>3. clock' <= call.start + MaxCall
    BY <1>2 DEF CallOK, Collected
  <1>4. CallOK(call)'
    BY <1>2, <1>3, CallStays DEF IInv
  <1> QED
    BY <1>1, <1>4

LEMMA CacheStays ==
    ASSUME IInv, Grows, cache' = cache
    PROVE  CacheOK'
  <1> SUFFICES ASSUME NEW a \in Agents, cache[a] # NULL PROVE EntryOK(a, cache[a])'
    BY DEF CacheOK
  <1>1. PICK entry : entry = cache[a]
    OBVIOUS
  <1>2. entry \in CacheEntry /\ EntryOK(a, entry)
    BY <1>1 DEF IInv, TypeOK, Maybe, CacheOK
  <1>3. EntryOK(a, entry)'
    BY <1>2, EntryStays DEF IInv
  <1> QED
    BY <1>1, <1>3

LEMMA NothingAnswered == answered' = NULL => AnswerOK'
  BY DEF AnswerOK, AnswersAreRecent, AbsenceIsReported, PayeesAreCurrent, Answered

\* The call that goes on is well-formed, if it was.
LEMMA AdvanceType ==
    ASSUME TypeOK, Still, NEW c \in Calls, NEW call \in Call,
           call.provider <= Len(providers), Advance(c, call)
    PROVE  TypeOK'
  <1> DEFINE rest == {i \in Asked(call.kind) : i > call.provider}
  <1>1. /\ call.kind \in {"resolve", "search"} /\ call.provider \in Nat
        /\ call.agents \in SUBSET Agents /\ call.found \in [Agents -> Seq(Profile)]
    BY DEF Call
  <1>2. /\ clock' = clock /\ log' = log /\ indexed' = indexed /\ rows' = rows
        /\ providers' = providers
    BY DEF Still, World
  <1>3. /\ clock' \in Nat /\ log' \in Seq(Event) /\ indexed' \in Seq(Nat)
        /\ Len(indexed') <= Len(log') /\ rows' \in [Agents -> Maybe(Row)]
        /\ providers' \in Configurations
    BY <1>2 DEF TypeOK, Maybe
  <1>4. calls \in [Calls -> Maybe(Call)] /\ cache \in [Agents -> Maybe(CacheEntry)]
    BY DEF TypeOK
  <1>5. CASE rest # {}
    <2> DEFINE next == Min(rest)
               step == FirstStep(providers[next])
               new == [call EXCEPT !.provider = next, !.held = NULL, !.step = step]
    <2>1. next \in 1..Len(providers) /\ step \in {"unset", "ownerOf", "graphql", "agent"}
      BY <1>1, <1>5, NextProvider
    <2> HIDE DEF next, step
    <2>2. new \in Call
      <3>1. next \in Nat
        BY <2>1
      <3> QED
        BY <2>1, <3>1 DEF Call, Maybe
    <2> USE DEF next, step
    <2>3. calls' = [calls EXCEPT ![c] = new] /\ cache' = cache
      BY <1>5 DEF Advance
    <2> HIDE DEF new
    <2>4. calls' \in [Calls -> Maybe(Call)]
      BY <1>4, <2>2, <2>3 DEF Maybe
    <2> QED
      BY <1>3, <1>4, <2>3, <2>4 DEF TypeOK
  <1>6. CASE rest = {}
    <2>1. Finish(c, call)
      BY <1>6 DEF Advance
    <2>2. calls' = [calls EXCEPT ![c] = NULL]
      BY <2>1 DEF Finish
    <2>3. calls' \in [Calls -> Maybe(Call)]
      BY <1>4, <2>2 DEF Maybe
    <2>4. \A a \in call.agents : MergeProfiles(call.found[a]) \in Maybe(Profile)
      <3> SUFFICES ASSUME NEW a \in call.agents
                   PROVE  MergeProfiles(call.found[a]) \in Maybe(Profile)
        OBVIOUS
      <3>1. call.found[a] \in Seq(Profile)
        BY <1>1
      <3>2. CASE call.found[a] = << >>
        BY <3>2, NothingMerged DEF Maybe
      <3>3. CASE call.found[a] # << >>
        BY <3>1, <3>3, MergeProfilesFacts DEF Maybe
      <3> QED
        BY <3>2, <3>3
    <2>5. cache' \in [Agents -> Maybe(CacheEntry)]
      <3>1. CASE cache' = cache
        BY <1>4, <3>1
      <3>2. CASE cache' = [a \in Agents |->
                             IF a \in call.agents
                             THEN [value |-> MergeProfiles(call.found[a]),
                                   expiresAt |-> clock + CacheTtl,
                                   unchecked |-> call.unchecked]
                             ELSE cache[a]]
        <4>1. clock + CacheTtl \in Nat
          BY DirectoryConstants DEF TypeOK
        <4>2. \A a \in call.agents :
                 [value |-> MergeProfiles(call.found[a]), expiresAt |-> clock + CacheTtl,
                  unchecked |-> call.unchecked] \in Maybe(CacheEntry)
          <5>1. call.unchecked \in BOOLEAN
            BY DEF Call
          <5> QED
            BY <2>4, <4>1, <5>1 DEF CacheEntry, Maybe
        <4> QED
          BY <1>4, <3>2, <4>2
      <3>3. cache' = cache \/ cache' = [a \in Agents |->
                             IF a \in call.agents
                             THEN [value |-> MergeProfiles(call.found[a]),
                                   expiresAt |-> clock + CacheTtl,
                                   unchecked |-> call.unchecked]
                             ELSE cache[a]]
        BY <2>1 DEF Finish
      <3> QED
        BY <3>1, <3>2, <3>3
    <2> QED
      BY <1>3, <2>3, <2>5 DEF TypeOK
  <1> QED
    BY <1>5, <1>6

LEMMA AdvanceKeeps ==
    ASSUME IInv, Still, NEW c \in Calls, NEW call \in Call,
           call.provider <= Len(providers), Collected(call, call.provider)', Advance(c, call)
    PROVE  IInv' /\ AnswerOK'
  <1> DEFINE rest == {i \in Asked(call.kind) : i > call.provider}
  <1>1. TypeOK'
    BY AdvanceType DEF IInv
  <1>2. Grows /\ clock' = clock /\ LogOK' /\ TableSays(rows, Len(indexed))'
    BY StillGrows DEF IInv
  <1>3. call.kind \in {"resolve", "search"} /\ call.provider \in Nat
    BY DEF Call
  <1>4. \A k : Asked(k)' = Asked(k)
    BY <1>2 DEF Asked, Grows
  <1>5. calls \in [Calls -> Maybe(Call)]
    BY DEF IInv, TypeOK
  <1>6. CASE rest # {}
    <2>1. PICK next, step : next = Min(rest) /\ step = FirstStep(providers[next])
      OBVIOUS
    <2> DEFINE new == [call EXCEPT !.provider = next, !.held = NULL, !.step = step]
    <2>2. calls' = [calls EXCEPT ![c] = new] /\ cache' = cache /\ answered' = NULL
      BY <1>6, <2>1 DEF Advance
    <2>3. /\ next \in Asked(call.kind) /\ next \in 1..Len(providers)
          /\ call.kind = "resolve" => next - 1 = call.provider
          /\ \A i \in Asked(call.kind) : i <= next - 1 => i <= call.provider
          /\ step \in {"unset", "ownerOf", "graphql", "agent"}
          /\ call.kind = "search" => step \in {"graphql", "agent"}
      BY <1>3, <1>6, <2>1, NextProvider DEF IInv
    <2>4. /\ new.kind = call.kind /\ new.agents = call.agents /\ new.start = call.start
          /\ new.found = call.found /\ new.errors = call.errors /\ new.provider = next
          /\ new.step = step /\ new.unchecked = call.unchecked
      BY DEF Call
    <2> HIDE DEF new, rest
    <2>5. Collected(new, next - 1)'
      <3>1. new.kind = "resolve" => new.errors <= next - 1
        BY <2>3, <2>4 DEF Collected
      <3>2. ASSUME NEW a \in new.agents, new.found[a] = << >>,
                   new.kind = "resolve", new.errors < next - 1
            PROVE  AbsentSince(a, new.start)' \/ new.unchecked
        <4>1. a \in call.agents /\ call.found[a] = << >>
          BY <2>4, <3>2
        <4> QED
          BY <2>3, <2>4, <3>2, <4>1 DEF Collected
      <3> QED
        BY <2>4, <3>1, <3>2 DEF Collected
    <2>6. HeldOK(new)'
      <3>1. new.provider \in Asked(new.kind)'
        BY <1>4, <2>3, <2>4
      <3>2. new.step \in {"unset", "ownerOf", "graphql", "agent"}
            /\ (new.kind = "search" => new.step \in {"graphql", "agent"})
        BY <2>3, <2>4
      <3> QED
        BY <1>3, <2>4, <3>1, <3>2 DEF HeldOK
    <2>7. ASSUME NEW d \in Calls, Running(d)' PROVE CallOK(calls[d])'
      <3>1. CASE d = c
        <4>1. calls'[d] = new
          BY <1>5, <2>2, <3>1
        <4>2. CallOK(new)'
          BY <2>4, <2>5, <2>6 DEF CallOK
        <4> QED
          BY <4>1, <4>2
      <3>2. CASE d # c
        <4>1. calls'[d] = calls[d]
          BY <1>5, <2>2, <3>2
        <4> QED
          BY <1>2, <2>7, <4>1, OtherCallsStay DEF Running
      <3> QED
        BY <3>1, <3>2
    <2>8. CacheOK'
      BY <1>2, <2>2, CacheStays
    <2>9. AnswerOK'
      BY <2>2, NothingAnswered
    <2> QED
      BY <1>1, <1>2, <2>7, <2>8, <2>9 DEF IInv
  <1>7. CASE rest = {}
    <2>1. Finish(c, call)
      BY <1>7 DEF Advance
    <2>2. CacheOK' /\ AnswerOK'
      BY <1>1, <1>2, <1>7, <2>1, FinishIsRight DEF IInv
    <2>3. calls' = [calls EXCEPT ![c] = NULL]
      BY <2>1 DEF Finish
    <2>4. ASSUME NEW d \in Calls, Running(d)' PROVE CallOK(calls[d])'
      <3>1. d # c /\ calls'[d] = calls[d]
        BY <1>5, <2>3, <2>4 DEF Running
      <3> QED
        BY <1>2, <2>4, <3>1, OtherCallsStay DEF Running
    <2> QED
      BY <1>1, <1>2, <2>2, <2>4 DEF IInv
  <1> QED
    BY <1>6, <1>7

\* A call that goes on at the same provider.
LEMMA AwaitKeeps ==
    ASSUME IInv, Still, NEW c \in Calls, Running(c), NEW call, call = calls[c],
           NEW step \in {"tokenURI", "stats", "trust"}, NEW held,
           held \in Maybe(Accounts) \cup AgentRecord \cup Profile,
           AwaitNext(c, step, held),
           call.kind = "resolve",
           \A a \in call.agents :
              /\ step = "tokenURI" =>
                 held \in Accounts /\ Registered(a)' /\ OwnedSince(a, held, call.start)'
              /\ step = "stats" =>
                 /\ held \in AgentRecord
                 /\ OwnedSince(a, held.owner, call.start)'
                 /\ Endpoints(held.services, UrlObjects) \subseteq Current(a, call.start)'
              /\ step = "trust" => Good(a, held, call.start)'
    PROVE  IInv' /\ AnswerOK'
  <1>1. /\ clock' = clock /\ log' = log /\ indexed' = indexed /\ rows' = rows
        /\ providers' = providers
        /\ cache' = cache /\ answered' = NULL
        /\ calls' = [calls EXCEPT ![c].step = step, ![c].held = held]
    BY DEF Still, World, AwaitNext
  <1>2. Grows /\ LogOK' /\ TableSays(rows, Len(indexed))'
    BY StillGrows DEF IInv
  <1>3. calls \in [Calls -> Maybe(Call)] /\ call \in Call /\ CallOK(call)
    BY DEF IInv, TypeOK, Running, Maybe
  <1> DEFINE new == [call EXCEPT !.step = step, !.held = held]
  <1>4. /\ new \in Call /\ new.kind = call.kind /\ new.agents = call.agents
        /\ new.start = call.start /\ new.found = call.found /\ new.errors = call.errors
        /\ new.provider = call.provider /\ new.step = step /\ new.held = held
        /\ new.unchecked = call.unchecked
    BY <1>3 DEF Call, Maybe
  <1>5. calls'[c] = new /\ \A d \in Calls : d # c => calls'[d] = calls[d]
    BY <1>1, <1>3
  <1>6. calls' \in [Calls -> Maybe(Call)]
    BY <1>1, <1>3, <1>4, <1>5 DEF Maybe
  <1> HIDE DEF new
  <1>7. TypeOK'
    BY <1>1, <1>6 DEF IInv, TypeOK, Maybe
  <1>8. CallOK(call)'
    <2>1. clock' <= call.start + MaxCall
      BY <1>1, <1>3 DEF CallOK, Collected
    <2> QED
      BY <1>2, <1>3, <2>1, CallStays DEF IInv
  <1>9. CallOK(new)'
    <2>1. Collected(new, new.provider - 1)'
      BY <1>4, <1>8 DEF CallOK, Collected
    <2>2. new.provider \in Asked(new.kind)'
      BY <1>4, <1>8 DEF CallOK, HeldOK
    <2>3. HeldOK(new)'
      BY <1>4, <2>2 DEF HeldOK
    <2> QED
      BY <2>1, <2>3 DEF CallOK
  <1>10. ASSUME NEW d \in Calls, Running(d)' PROVE CallOK(calls[d])'
    <2>1. CASE d = c
      BY <1>5, <1>9, <2>1
    <2>2. CASE d # c
      BY <1>1, <1>2, <1>5, <1>10, <2>2, OtherCallsStay DEF Running
    <2> QED
      BY <2>1, <2>2
  <1>11. CacheOK' /\ AnswerOK'
    BY <1>1, <1>2, CacheStays, NothingAnswered
  <1> QED
    BY <1>2, <1>7, <1>10, <1>11 DEF IInv
LEMMA RunningCall ==
    ASSUME IInv, Still, NEW c \in Calls, Running(c), NEW call, call = calls[c]
    PROVE  /\ call \in Call /\ CallOK(call) /\ CallOK(call)'
           /\ call.provider \in Nat \ {0} /\ call.provider <= Len(providers)
           /\ call.provider \in Asked(call.kind)
           /\ call.start \in Nat /\ call.start <= clock
           /\ call.agents \in SUBSET Agents
           /\ call.kind \in {"resolve", "search"}
           /\ call.kind = "resolve" => TheAgent(c) \in Agents /\ call.agents = {TheAgent(c)}
  <1>1. call \in Call /\ CallOK(call)
    BY DEF IInv, TypeOK, Running, Maybe
  <1>2. Collected(call, call.provider - 1) /\ HeldOK(call)
    BY <1>1 DEF CallOK
  <1>3. call.start \in Nat /\ call.start <= clock /\ clock <= call.start + MaxCall
    BY <1>1, <1>2 DEF Call, Collected
  <1>4. CallOK(call)'
    BY <1>1, <1>3, CallStays, StillGrows DEF IInv
  <1>5. call.provider \in Asked(call.kind)
    BY <1>2 DEF HeldOK
  <1>6. DOMAIN providers = 1..Len(providers) /\ Len(providers) \in Nat
    BY DirectoryConstants DEF IInv, TypeOK
  <1>7. call.provider \in Nat \ {0} /\ call.provider <= Len(providers)
    BY <1>5, <1>6 DEF Asked
  <1>8. ASSUME call.kind = "resolve"
        PROVE  TheAgent(c) \in Agents /\ call.agents = {TheAgent(c)}
    <2>1. PICK a \in Agents : call.agents = {a}
      BY <1>2, <1>8 DEF Collected
    <2>2. TheAgent(c) = a
      BY <2>1 DEF TheAgent
    <2> QED
      BY <2>1, <2>2
  <1> QED
    BY <1>1, <1>3, <1>4, <1>5, <1>7, <1>8 DEF Call

LEMMA ProvidedKeeps ==
    ASSUME IInv, Still, NEW c \in Calls, Running(c), NEW call, call = calls[c],
           NEW profiles, DOMAIN profiles = call.agents,
           \A a \in call.agents :
              /\ profiles[a] # NULL => Good(a, profiles[a], call.start)'
              /\ profiles[a] = NULL => call.kind = "search" \/ AbsentSince(a, call.start)',
           Provided(c, profiles)
    PROVE  IInv' /\ AnswerOK'
  <1>1. /\ call \in Call /\ Collected(call, call.provider - 1)'
        /\ call.provider \in Nat \ {0} /\ call.provider <= Len(providers)
    BY RunningCall DEF CallOK
  <1>2. PICK new : new = [call EXCEPT !.found =
                            [a \in Agents |-> IF a \in DOMAIN profiles /\ profiles[a] # NULL
                                              THEN Append(@[a], profiles[a]) ELSE @[a]]]
    OBVIOUS
  <1>3. /\ new \in Call /\ new.kind = call.kind /\ new.provider = call.provider
        /\ Collected(new, call.provider)'
    BY <1>1, <1>2, ProfilesAreCollected, SMTT(30)
  <1>4. Advance(c, new)
    BY <1>2 DEF Provided
  <1> QED
    BY <1>1, <1>3, <1>4, AdvanceKeeps

LEMMA FetchFailsKeeps ==
    ASSUME IInv, NEW c \in Calls, FetchFails(c)
    PROVE  IInv' /\ AnswerOK'
  <1>1. Still /\ Running(c)
    BY DEF FetchFails, Still
  <1>2. PICK call : call = calls[c]
    OBVIOUS
  <1>3. /\ call \in Call /\ Collected(call, call.provider - 1)'
        /\ call.provider \in Nat \ {0} /\ call.provider <= Len(providers)
    BY <1>1, <1>2, RunningCall DEF CallOK
  <1>4. PICK new : new = [call EXCEPT !.errors = @ + 1]
    OBVIOUS
  <1>5. /\ new \in Call /\ new.kind = call.kind /\ new.provider = call.provider
        /\ Collected(new, call.provider)'
    BY <1>3, <1>4, FailureIsCounted
  <1>6. Advance(c, new)
    BY <1>2, <1>4 DEF FetchFails
  <1> QED
    BY <1>1, <1>3, <1>5, <1>6, AdvanceKeeps

LEMMA NotFoundKeeps ==
    ASSUME IInv, Still, NEW c \in Calls, Running(c), NEW call, call = calls[c],
           NEW absent \in BOOLEAN,
           absent => \A a \in call.agents : AbsentSince(a, call.start)',
           NotFound(c, absent)
    PROVE  IInv' /\ AnswerOK'
  <1>1. /\ call \in Call /\ Collected(call, call.provider - 1)'
        /\ call.provider \in Nat \ {0} /\ call.provider <= Len(providers)
    BY RunningCall DEF CallOK
  <1>2. PICK new : new = [call EXCEPT !.unchecked = @ \/ ~absent]
    OBVIOUS
  <1>3. /\ new \in Call /\ new.kind = call.kind /\ new.provider = call.provider
        /\ Collected(new, call.provider)'
    BY <1>1, <1>2, NothingIsCollected
  <1>4. Advance(c, new)
    BY <1>2 DEF NotFound
  <1> QED
    BY <1>1, <1>3, <1>4, AdvanceKeeps

\* What the registry says now, it said at some time since any time.
LEMMA NowIsSince ==
    ASSUME TypeOK, NEW t
    PROVE  /\ Len(log) \in RegistrySince(t) /\ Len(indexed) \in IndexSince(t)
           /\ Len(log) \in 0..Len(log) /\ Len(indexed) \in 0..Len(log)
  BY DEF TypeOK, RegistrySince, IndexSince

LEMMA RegisteredIsOwned ==
    ASSUME TypeOK, LogOK, NEW a, Registered(a)
    PROVE  /\ Owner(a) \in Owners
           /\ \A t : OwnedSince(a, Owner(a), t)
  <1> DEFINE i == LastOf(a, {"Registered"}, Len(log))
             k == LastOf(a, {"Transfer"}, Len(log))
  <1>1. Len(log) \in 0..Len(log) /\ log \in Seq(Event)
    BY DEF TypeOK
  <1>2. i \in 1..Len(log) /\ log[i].agent = a
    BY <1>1, LastOfFacts DEF Registered, Known
  <1>3. PICK j \in 1..i : log[j].kind = "Transfer" /\ log[j].agent = a
    BY <1>2 DEF LogOK
  <1>4. j \in 1..Len(log)
    BY <1>2
  <1>5. /\ k \in 0..Len(log) /\ k # 0
        /\ log[k].agent = a /\ log[k].kind \in {"Transfer"}
    BY <1>1, <1>3, <1>4, LastOfFacts
  <1> HIDE DEF k
  <1>6. log[k] \in Event
    BY <1>1, <1>5
  <1>7. log[k].to \in Owners
    BY <1>5, <1>6 DEF Event
  <1>8. Owner(a) = log[k].to /\ Owner(a) = OwnerAfter(a, Len(log))
    BY DEF Owner, OwnerAfter, k
  <1> QED
    BY <1>5, <1>7, <1>8, NowIsSince DEF OwnedSince, k

LEMMA UnregisteredIsAbsent ==
    ASSUME TypeOK, NEW a, ~Registered(a), NEW t
    PROVE  AbsentSince(a, t)
  BY NowIsSince DEF Registered, AbsentSince

\* The endpoints of the document a registered agent has now.
LEMMA DocumentIsCurrent ==
    ASSUME TypeOK, NEW a, Registered(a), NEW t
    PROVE  /\ Document(a) \in Maybe(RegistrationDocument)
           /\ Document(a) # NULL => Given(Document(a)) \subseteq Current(a, t)
  <1> DEFINE i == LastOf(a, {"Registered"}, Len(log))
             k == LastOf(a, {"Registered", "URIUpdated"}, Len(log))
             uri == ReadTokenUri(a)
  <1>1. Len(log) \in 0..Len(log) /\ log \in Seq(Event) /\ DOMAIN log = 1..Len(log)
    BY DEF TypeOK
  <1>2. i \in 1..Len(log) /\ log[i].agent = a /\ log[i].kind \in {"Registered"}
    BY <1>1, LastOfFacts DEF Registered, Known
  <1>3. /\ k \in 0..Len(log) /\ k # 0
        /\ log[k].agent = a /\ log[k].kind \in {"Registered", "URIUpdated"}
    BY <1>1, <1>2, LastOfFacts
  <1>4. uri = log[k].uri
    BY DEF ReadTokenUri, UriAfter
  <1> HIDE DEF k, uri
  <1>5. k \in DOMAIN log /\ log[k] \in Event
    BY <1>1, <1>3
  <1>6. uri \in Uris
    BY <1>3, <1>4, <1>5 DEF Event
  <1>7. Document(a) = IF uri = NULL THEN NULL ELSE DocumentAt[uri]
    BY DEF Document, uri
  <1>8. CASE uri = NULL
    BY <1>7, <1>8 DEF Maybe
  <1>9. CASE uri # NULL
    <2>1. Document(a) = DocumentAt[uri] /\ DocumentAt[uri] \in RegistrationDocument
      BY <1>6, <1>7, <1>9, ProfileConstants
    <2>2. Given(Document(a)) \subseteq Endpoint
      BY <2>1, EndpointsType DEF Given, RegistrationDocument
    <2>3. ASSUME NEW s \in Given(Document(a)) PROVE CurrentSince(a, s, t)
      <3>1. Len(log) \in RegistrySince(t) /\ Known(a, Len(log))
        BY NowIsSince DEF Registered
      <3>2. UriAfter(a, Len(log)) = uri
        BY DEF uri, ReadTokenUri
      <3> QED
        BY <1>9, <2>1, <3>1, <3>2 DEF CurrentSince
    <2> QED
      BY <2>1, <2>2, <2>3 DEF Maybe, Current
  <1> QED
    BY <1>8, <1>9
-----------------------------------------------------------------------------
(* The steps of the providers.                                              *)

LEMMA OnchainIsGood ==
    ASSUME TypeOK, NEW a, Registered(a), NEW owner \in Accounts, NEW t,
           OwnedSince(a, owner, t), NEW document \in {NULL, Document(a)}
    PROVE  Good(a, OnchainProfile(owner, document), t)
  <1>1. /\ document \in Maybe(RegistrationDocument)
        /\ document # NULL => Given(document) \subseteq Current(a, t)
    BY DocumentIsCurrent DEF Maybe
  <1>2. /\ OnchainProfile(owner, document) \in Profile
        /\ OnchainProfile(owner, document).owner = owner
        /\ document = NULL => OnchainProfile(owner, document).services = {}
        /\ document # NULL => OnchainProfile(owner, document).services \subseteq Given(document)
    BY <1>1, OnchainProfileType
  <1>3. OnchainProfile(owner, document).services \subseteq Current(a, t)
    BY <1>1, <1>2
  <1> QED
    BY <1>2, <1>3 DEF Good

LEMMA RegistryUnsetKeeps ==
    ASSUME IInv, NEW c \in Calls, RegistryUnset(c)
    PROVE  IInv' /\ AnswerOK'
  <1>1. Still /\ Running(c) /\ NotFound(c, FALSE)
    BY DEF RegistryUnset, Still, At
  <1>2. PICK call, absent : call = calls[c] /\ absent = FALSE
    OBVIOUS
  <1> QED
    BY <1>1, <1>2, NotFoundKeeps

LEMMA RpcErrorKeeps ==
    ASSUME IInv, NEW c \in Calls, RpcError(c)
    PROVE  IInv' /\ AnswerOK'
  <1>1. Still /\ Running(c)
    BY DEF RpcError, Still, At
  <1>2. PICK call, absent : call = calls[c] /\ absent = FALSE
    OBVIOUS
  <1>3. CASE NotFound(c, FALSE)
    BY <1>1, <1>2, <1>3, NotFoundKeeps
  <1>4. CASE /\ calls[c].step = "tokenURI"
             /\ Provided(c, [a \in calls[c].agents |-> OnchainProfile(calls[c].held, NULL)])
    <2>1. PICK profiles : profiles = [a \in call.agents |-> OnchainProfile(call.held, NULL)]
      OBVIOUS
    <2>2. Provided(c, profiles)
      BY <1>2, <1>4, <2>1
    <2>3. call.start \in Nat /\ call.start <= clock /\ HeldOK(call)
      BY <1>1, <1>2, RunningCall DEF CallOK
    <2>4. Grows /\ TypeOK
      BY <1>1, StillGrows DEF IInv
    <2>5. ASSUME NEW a \in call.agents
          PROVE  profiles[a] # NULL /\ Good(a, profiles[a], call.start)'
      <3>1. PICK p : p = profiles[a]
        OBVIOUS
      <3>2. p = OnchainProfile(call.held, NULL)
        BY <2>1, <3>1
      <3>3. call.held \in Accounts /\ Registered(a) /\ OwnedSince(a, call.held, call.start)
        BY <1>2, <1>4, <2>3 DEF HeldOK
      <3>4. Good(a, p, call.start)
        BY <2>4, <3>2, <3>3, OnchainIsGood
      <3>5. Good(a, p, call.start)'
        BY <2>3, <2>4, <3>4, GoodStays
      <3>6. p # NULL
        BY <3>4, NullIsNoValue DEF Good
      <3> QED
        BY <3>1, <3>5, <3>6
    <2>6. DOMAIN profiles = call.agents
      BY <2>1
    <2> QED
      BY <1>1, <1>2, <2>2, <2>5, <2>6, ProvidedKeeps
  <1> QED
    BY <1>3, <1>4 DEF RpcError, At

LEMMA OwnerOfKeeps ==
    ASSUME IInv, NEW c \in Calls, OwnerOf(c)
    PROVE  IInv' /\ AnswerOK'
  <1>1. Still /\ Running(c) /\ calls[c].step = "ownerOf"
    BY DEF OwnerOf, Still, At
  <1>2. PICK call : call = calls[c]
    OBVIOUS
  <1>3. PICK agent : agent = TheAgent(c)
    OBVIOUS
  <1>4. /\ call.start \in Nat /\ call.start <= clock /\ call.kind = "resolve"
        /\ agent \in Agents /\ call.agents = {agent}
    BY <1>1, <1>2, <1>3, RunningCall DEF CallOK, HeldOK
  <1>5. Grows /\ TypeOK /\ LogOK
    BY <1>1, StillGrows DEF IInv
  <1>6. CASE Registered(agent)
    <2>1. PICK owner : owner = Owner(agent)
      OBVIOUS
    <2>2. owner \in Accounts /\ OwnedSince(agent, owner, call.start)
      BY <1>5, <1>6, <2>1, RegisteredIsOwned, DirectoryConstants
    <2>3. OwnedSince(agent, owner, call.start)' /\ Registered(agent)'
      BY <1>4, <1>5, <1>6, <2>2, OwnedStays, RegisteredStays
    <2>4. AwaitNext(c, "tokenURI", owner)
      BY <1>3, <1>6, <2>1 DEF OwnerOf
    <2>5. owner \in Maybe(Accounts) \cup AgentRecord \cup Profile
      BY <2>2 DEF Maybe
    <2> QED
      BY <1>1, <1>2, <1>4, <2>2, <2>3, <2>4, <2>5, AwaitKeeps
  <1>7. CASE ~Registered(agent)
    <2>1. PICK absent : absent = TRUE
      OBVIOUS
    <2>2. NotFound(c, absent)
      BY <1>3, <1>7, <2>1 DEF OwnerOf
    <2>3. AbsentSince(agent, call.start)'
      BY <1>4, <1>5, <1>7, UnregisteredIsAbsent, AbsentStays
    <2> QED
      BY <1>1, <1>2, <1>4, <2>1, <2>2, <2>3, NotFoundKeeps
  <1> QED
    BY <1>6, <1>7

LEMMA TokenUriKeeps ==
    ASSUME IInv, NEW c \in Calls, TokenUri(c)
    PROVE  IInv' /\ AnswerOK'
  <1>1. Still /\ Running(c) /\ calls[c].step = "tokenURI"
    BY DEF TokenUri, Still, At
  <1>2. PICK call : call = calls[c]
    OBVIOUS
  <1>3. PICK agent : agent = TheAgent(c)
    OBVIOUS
  <1>4. /\ call.start \in Nat /\ call.start <= clock
        /\ agent \in Agents /\ call.agents = {agent}
        /\ call.held \in Accounts /\ Registered(agent)
        /\ OwnedSince(agent, call.held, call.start)
    BY <1>1, <1>2, <1>3, RunningCall DEF CallOK, HeldOK
  <1>5. Grows /\ TypeOK
    BY <1>1, StillGrows DEF IInv
  <1>6. PICK document \in {NULL, Document(agent)} :
          Provided(c, [a \in calls[c].agents |-> OnchainProfile(calls[c].held, document)])
    BY <1>3 DEF TokenUri
  <1>7. PICK p : p = OnchainProfile(call.held, document)
    OBVIOUS
  <1>8. PICK profiles : profiles = [a \in call.agents |-> p]
    OBVIOUS
  <1>9. Provided(c, profiles)
    BY <1>2, <1>6, <1>7, <1>8
  <1>10. Good(agent, p, call.start)
    BY <1>4, <1>5, <1>7, OnchainIsGood
  <1>11. Good(agent, p, call.start)'
    BY <1>4, <1>5, <1>10, GoodStays
  <1>12. p # NULL
    BY <1>10, NullIsNoValue DEF Good
  <1>13. DOMAIN profiles = call.agents /\ \A a \in call.agents : profiles[a] = p
    BY <1>8
  <1> QED
    BY <1>1, <1>2, <1>4, <1>9, <1>11, <1>12, <1>13, ProvidedKeeps

\* The row of an agent has the owner the index saw last, and the endpoints of
\* the newest documents that have any.
LEMMA RowIsGood ==
    ASSUME TypeOK, LogOK, TableSays(rows, Len(indexed)), NEW a \in Agents, NEW t
    PROVE  /\ rows[a] # NULL => Good(a, EnvioProfile(rows[a]), t)
           /\ rows[a] = NULL => AbsentSince(a, t)
  <1> DEFINE n == Len(indexed)
             row == rows[a]
  <1>1. n \in 0..Len(log) /\ n \in Nat /\ n \in IndexSince(t) /\ log \in Seq(Event)
        /\ DOMAIN log = 1..Len(log) /\ Len(log) \in Nat
    BY NowIsSince DEF TypeOK
  <1>2. row \in Maybe(Row)
    BY DEF TypeOK
  <1>3. CASE row = NULL
    <2>1. \A i \in 1..n : log[i].agent # a
      BY <1>3 DEF TableSays
    <2> HIDE DEF n
    <2> QED
      BY <1>1, <1>3, <2>1 DEF AbsentSince
  <1>4. CASE row # NULL
    <2>1. row.owner = OwnerAfter(a, n) /\ RowSays(a, row, n) /\ row \in Row
      BY <1>2, <1>4 DEF TableSays, Maybe
    <2>2. PICK i \in 1..n : log[i].agent = a
      BY <1>4 DEF TableSays
    <2>3. PICK j \in 1..i : log[j].kind = "Transfer" /\ log[j].agent = log[i].agent
      <3>1. i \in 1..Len(log)
        BY <1>1
      <3> QED
        BY <3>1 DEF LogOK
    <2> DEFINE k == LastOf(a, {"Transfer"}, n)
    <2>4. k \in 1..n /\ log[k].kind \in {"Transfer"}
      <3>1. j \in 1..n /\ log[j].agent = a /\ log[j].kind \in {"Transfer"}
        BY <1>1, <2>2, <2>3
      <3> HIDE DEF n
      <3> QED
        BY <1>1, <3>1, LastOfFacts
    <2> HIDE DEF k, n
    <2>5. log[k] \in Event
      BY <1>1, <2>4
    <2>6. log[k].to \in Owners
      BY <2>4, <2>5 DEF Event
    <2>7. row.owner = log[k].to
      BY <2>1 DEF OwnerAfter, k
    <2>8. row.owner # NULL
      BY <2>6, <2>7, NullIsNoValue, DirectoryConstants
    <2>9. OwnedSince(a, row.owner, t)
      BY <1>1, <2>1, <2>4 DEF OwnedSince, k
    <2>10. Endpoints(row.services, {}) \subseteq Current(a, t)
      <3>1. Endpoints(row.services, {}) \subseteq Endpoint
        BY <2>1, EndpointsType DEF Row
      <3>2. ASSUME NEW s \in Endpoints(row.services, {}) PROVE CurrentSince(a, s, t)
        <4>1. PICK p \in Protocols :
                 row.services[p] # NULL /\ s = [protocol |-> p, address |-> row.services[p],
                                               url |-> p \in UrlProtocols]
          BY <3>2 DEF Endpoints
        <4> DEFINE giving == Giving(a, p, n)
        <4>2. row.services[p] = IF giving = {} THEN NULL
                                ELSE ReadServices(DocumentAt[log[Max(giving)].uri])[p]
          BY <2>1 DEF RowSays
        <4>3. /\ s.protocol = p /\ s.address = row.services[p]
              /\ s.url <=> p \in UrlProtocols
          BY <4>1
        <4>4. giving # {}
              /\ s.address = ReadServices(DocumentAt[log[Max(giving)].uri])[p]
          BY <4>1, <4>2, <4>3
        <4> QED
          BY <1>1, <4>3, <4>4 DEF CurrentSince
      <3> QED
        BY <3>1, <3>2 DEF Current
    <2>11. /\ EnvioProfile(row) \in Profile /\ EnvioProfile(row).owner = row.owner
           /\ EnvioProfile(row).services = Endpoints(row.services, {})
      BY <2>1, <2>8, EnvioProfileType DEF Else
    <2>12. Good(a, EnvioProfile(row), t)
      BY <2>9, <2>10, <2>11 DEF Good
    <2> QED
      BY <1>4, <2>12
  <1> QED
    BY <1>3, <1>4
LEMMA GraphqlKeeps ==
    ASSUME IInv, NEW c \in Calls, Graphql(c)
    PROVE  IInv' /\ AnswerOK'
  <1>1. Still /\ Running(c)
    BY DEF Graphql, Still, At
  <1>2. PICK call : call = calls[c]
    OBVIOUS
  <1>3. call.start \in Nat /\ call.start <= clock /\ call.agents \in SUBSET Agents
    BY <1>1, <1>2, RunningCall
  <1>4. Grows /\ TypeOK /\ LogOK /\ TableSays(rows, Len(indexed))
    BY <1>1, StillGrows DEF IInv
  <1>9. PICK page \in SUBSET RowsOf(calls[c].agents) :
          /\ calls[c].kind = "resolve" => page = RowsOf(calls[c].agents)
          /\ Provided(c, [a \in calls[c].agents |->
                            IF a \in page THEN EnvioProfile(rows[a]) ELSE NULL])
    BY DEF Graphql
  <1>5. PICK profiles : profiles = [a \in calls[c].agents |->
                          IF a \in page THEN EnvioProfile(rows[a]) ELSE NULL]
    OBVIOUS
  <1>6. Provided(c, profiles)
    BY <1>9, <1>5
  <1>7. ASSUME NEW a \in call.agents
        PROVE  /\ profiles[a] # NULL => Good(a, profiles[a], call.start)'
               /\ profiles[a] = NULL => call.kind = "search" \/ AbsentSince(a, call.start)'
    <2>1. PICK p : p = profiles[a]
      OBVIOUS
    <2>2. CASE a \in page
      <3>0. rows[a] # NULL
        BY <1>9, <2>2 DEF RowsOf
      <3>1. p = EnvioProfile(rows[a])
        BY <1>2, <1>5, <2>1, <2>2
      <3>2. Good(a, p, call.start)
        BY <1>3, <1>4, <3>0, <3>1, RowIsGood
      <3>3. Good(a, p, call.start)'
        BY <1>3, <1>4, <3>2, GoodStays
      <3>4. p # NULL
        BY <3>2, NullIsNoValue DEF Good
      <3> QED
        BY <2>1, <3>3, <3>4
    <2>3. CASE a \notin page /\ call.kind = "resolve"
      <3>0. rows[a] = NULL
        BY <1>9, <1>2, <2>3 DEF RowsOf
      <3>1. p = NULL
        BY <1>2, <1>5, <2>1, <2>3
      <3>2. AbsentSince(a, call.start)
        BY <1>3, <1>4, <3>0, RowIsGood
      <3>3. AbsentSince(a, call.start)'
        BY <1>3, <1>4, <3>2, AbsentStays
      <3> QED
        BY <2>1, <3>1, <3>3
    <2>4. CASE a \notin page /\ call.kind = "search"
      BY <1>2, <1>5, <2>4
    <2>5. call.kind \in {"resolve", "search"}
      BY <1>1, <1>2, RunningCall
    <2> QED
      BY <2>2, <2>3, <2>4, <2>5
  <1>8. DOMAIN profiles = call.agents
    BY <1>2, <1>5
  <1> QED
    BY <1>1, <1>2, <1>6, <1>7, <1>8, ProvidedKeeps

\* The statistics of an agent are numbers.
LEMMA GetTrustType ==
    ASSUME TypeOK, NEW a
    PROVE  GetTrust(a) \subseteq Maybe(TrustSnapshot)
  <1> DEFINE given == Said(a, {"NewFeedback"}, Len(log))
             scores == [i \in given |-> log[i].value]
  <1>1. DOMAIN log = 1..Len(log) /\ Len(log) \in Nat /\ log \in Seq(Event)
    BY DEF TypeOK
  <1>2. IsFiniteSet(given)
    <2>1. IsFiniteSet(1..Len(log)) /\ given \subseteq 1..Len(log)
      BY <1>1, FS_Interval DEF Said
    <2> QED
      BY <2>1, FS_Subset
  <1>3. Cardinality(given) \in Nat
    BY <1>2, FS_CardinalityType
  <1>4. \A i \in given : scores[i] \in Int
    <2> SUFFICES ASSUME NEW i \in given PROVE log[i].value \in Int
      OBVIOUS
    <2>1. log[i] \in Event /\ log[i].kind = "NewFeedback"
      BY <1>1 DEF Said
    <2> QED
      BY <2>1, DirectoryConstants DEF Event
  <1> HIDE DEF given, scores
  <1>5. SumFunctionOnSet(scores, given) \in Int
    BY <1>2, <1>4, SumType
  <1>6. Feedback(a) = Trust(Cardinality(given), SumFunctionOnSet(scores, given))
    BY DEF Feedback, given, scores
  <1>7. Feedback(a) \in TrustSnapshot
    BY <1>3, <1>5, <1>6, TrustType
  <1> QED
    BY <1>7 DEF GetTrust, Maybe

\* The record of a registered agent.
LEMMA RecordIsGood ==
    ASSUME TypeOK, LogOK, NEW a, NEW record \in FetchJson(a), record # NULL, NEW t
    PROVE  /\ record \in AgentRecord /\ Registered(a)
           /\ OwnedSince(a, record.owner, t)
           /\ Endpoints(record.services, UrlObjects) \subseteq Current(a, t)
  <1>1. Registered(a) /\ \E trust \in GetTrust(a) : record = ScanRecord(a, trust)
    BY DEF FetchJson
  <1>9. PICK trust \in GetTrust(a) : record = ScanRecord(a, trust)
    BY <1>1
  <1>2. trust \in Maybe(TrustSnapshot)
    BY GetTrustType
  <1>3. Owner(a) \in Accounts /\ OwnedSince(a, Owner(a), t)
    BY <1>1, RegisteredIsOwned, DirectoryConstants
  <1> DEFINE d == Document(a)
             services == IF d = NULL THEN [p \in Protocols |-> NULL] ELSE ReadServices(d)
             name == IF d = NULL THEN NULL ELSE d.name
             x402 == IF d = NULL THEN NULL ELSE d.x402Support
  <1>4. d \in Maybe(RegistrationDocument) /\ (d # NULL => Given(d) \subseteq Current(a, t))
    BY <1>1, DocumentIsCurrent
  <1>5. record = [owner |-> Owner(a), trust |-> trust, name |-> name,
                  x402_supported |-> x402, services |-> services]
    BY <1>9 DEF ScanRecord
  <1> HIDE DEF d
  <1>6. services \in Services /\ Endpoints(services, UrlObjects) \subseteq Current(a, t)
    <2>1. CASE d = NULL
      BY <2>1 DEF Services, Maybe, Endpoints
    <2>2. CASE d # NULL
      <3>1. d \in RegistrationDocument
        BY <1>4, <2>2 DEF Maybe
      <3> QED
        BY <1>4, <2>2, <3>1, ReadServicesType, GivenHasReadServices
    <2> QED
      BY <2>1, <2>2
  <1>7. name \in Maybe(Names) /\ x402 \in Maybe(BOOLEAN)
    BY <1>4 DEF Maybe, RegistrationDocument
  <1> HIDE DEF services, name, x402
  <1>8. record \in AgentRecord
    BY <1>2, <1>3, <1>5, <1>6, <1>7 DEF AgentRecord
  <1> QED
    BY <1>1, <1>3, <1>5, <1>6, <1>8

LEMMA ScanAgentKeeps ==
    ASSUME IInv, NEW c \in Calls, ScanAgent(c)
    PROVE  IInv' /\ AnswerOK'
  <1>1. Still /\ Running(c) /\ calls[c].kind = "resolve"
    BY DEF ScanAgent, Still, At
  <1>2. PICK call : call = calls[c]
    OBVIOUS
  <1>3. PICK agent : agent = TheAgent(c)
    OBVIOUS
  <1>4. /\ call.start \in Nat /\ call.start <= clock /\ call.kind = "resolve"
        /\ agent \in Agents /\ call.agents = {agent}
    BY <1>1, <1>2, <1>3, RunningCall
  <1>5. Grows /\ TypeOK /\ LogOK
    BY <1>1, StillGrows DEF IInv
  <1>6. PICK record \in FetchJson(agent) :
          IF record # NULL THEN AwaitNext(c, "stats", record)
          ELSE NotFound(c, ~Registered(agent))
    BY <1>3 DEF ScanAgent
  <1>7. CASE record # NULL
    <2>1. /\ record \in AgentRecord
          /\ OwnedSince(agent, record.owner, call.start)
          /\ Endpoints(record.services, UrlObjects) \subseteq Current(agent, call.start)
      BY <1>5, <1>6, <1>7, RecordIsGood
    <2>2. PICK owner : owner = record.owner
      OBVIOUS
    <2>3. OwnedSince(agent, owner, call.start)'
      BY <1>4, <1>5, <2>1, <2>2, OwnedStays
    <2>4. Endpoints(record.services, UrlObjects) \subseteq Current(agent, call.start)'
      BY <1>4, <1>5, <2>1, CurrentStays
    <2>5. AwaitNext(c, "stats", record)
      BY <1>6, <1>7
    <2> QED
      BY <1>1, <1>2, <1>4, <2>1, <2>2, <2>3, <2>4, <2>5, AwaitKeeps
  <1>8. CASE record = NULL
    <2>1. PICK absent : absent = ~Registered(agent)
      OBVIOUS
    <2>2. absent \in BOOLEAN /\ NotFound(c, absent)
      BY <1>6, <1>8, <2>1
    <2>3. ASSUME absent PROVE AbsentSince(agent, call.start)'
      <3>1. ~Registered(agent)
        BY <2>1, <2>3
      <3> QED
        BY <1>4, <1>5, <3>1, UnregisteredIsAbsent, AbsentStays
    <2>4. absent => \A a \in call.agents : AbsentSince(a, call.start)'
      BY <1>4, <2>3
    <2> QED
      BY <1>1, <1>2, <2>2, <2>4, NotFoundKeeps
  <1> QED
    BY <1>7, <1>8

LEMMA ScanStatsKeeps ==
    ASSUME IInv, NEW c \in Calls, ScanStats(c)
    PROVE  IInv' /\ AnswerOK'
  <1>1. Still /\ Running(c) /\ calls[c].step = "stats"
    BY DEF ScanStats, Still, At
  <1>2. PICK call : call = calls[c]
    OBVIOUS
  <1>3. PICK agent : agent = TheAgent(c)
    OBVIOUS
  <1>4. /\ call.start \in Nat /\ call.start <= clock /\ call.kind = "resolve"
        /\ agent \in Agents /\ call.agents = {agent}
        /\ call.held \in AgentRecord
        /\ OwnedSince(agent, call.held.owner, call.start)
        /\ Endpoints(call.held.services, UrlObjects) \subseteq Current(agent, call.start)
    BY <1>1, <1>2, <1>3, RunningCall DEF CallOK, HeldOK
  <1>5. Grows /\ TypeOK
    BY <1>1, StillGrows DEF IInv
  <1>6. PICK stats \in GetTrust(agent) :
          LET profile == ScanProfile(calls[c].held, stats)
          IN  IF profile.trust = NULL THEN AwaitNext(c, "trust", profile)
              ELSE Provided(c, [a \in calls[c].agents |-> profile])
    BY <1>3 DEF ScanStats
  <1>7. PICK p : p = ScanProfile(call.held, stats)
    OBVIOUS
  <1>8. p \in Profile /\ p.owner = call.held.owner /\ p.services = Endpoints(call.held.services, UrlObjects)
    <2>1. stats \in Maybe(TrustSnapshot)
      BY <1>5, <1>6, GetTrustType
    <2> QED
      BY <1>4, <1>7, <2>1, ScanProfileType
  <1>9. Good(agent, p, call.start)
    BY <1>4, <1>8 DEF Good
  <1>10. Good(agent, p, call.start)'
    BY <1>4, <1>5, <1>9, GoodStays
  <1>11. p # NULL
    BY <1>8, NullIsNoValue
  <1>12. CASE p.trust = NULL
    <2>1. AwaitNext(c, "trust", p)
      BY <1>2, <1>6, <1>7, <1>12
    <2>2. p \in Maybe(Accounts) \cup AgentRecord \cup Profile
      BY <1>8
    <2> QED
      BY <1>1, <1>2, <1>4, <1>10, <2>1, <2>2, AwaitKeeps
  <1>13. CASE p.trust # NULL
    <2>1. PICK profiles : profiles = [a \in call.agents |-> p]
      OBVIOUS
    <2>2. Provided(c, profiles)
      BY <1>2, <1>6, <1>7, <1>13, <2>1
    <2>3. DOMAIN profiles = call.agents /\ \A a \in call.agents : profiles[a] = p
      BY <2>1
    <2> QED
      BY <1>1, <1>2, <1>4, <1>10, <1>11, <2>2, <2>3, ProvidedKeeps
  <1> QED
    BY <1>12, <1>13

LEMMA ScanTrustKeeps ==
    ASSUME IInv, NEW c \in Calls, ScanTrust(c)
    PROVE  IInv' /\ AnswerOK'
  <1>1. Still /\ Running(c) /\ calls[c].step = "trust"
    BY DEF ScanTrust, Still, At
  <1>2. PICK call : call = calls[c]
    OBVIOUS
  <1>3. PICK agent : agent = TheAgent(c)
    OBVIOUS
  <1>4. /\ call.start \in Nat /\ call.start <= clock
        /\ agent \in Agents /\ call.agents = {agent}
        /\ Good(agent, call.held, call.start)
    BY <1>1, <1>2, <1>3, RunningCall DEF CallOK, HeldOK
  <1>5. Grows /\ TypeOK
    BY <1>1, StillGrows DEF IInv
  <1>6. PICK trust \in GetTrust(agent) :
          Provided(c, [a \in calls[c].agents |-> [calls[c].held EXCEPT !.trust = trust]])
    BY <1>3 DEF ScanTrust
  <1>7. PICK p : p = [call.held EXCEPT !.trust = trust]
    OBVIOUS
  <1>8. p \in Profile /\ p.owner = call.held.owner /\ p.services = call.held.services
    <2>1. trust \in Maybe(TrustSnapshot)
      BY <1>5, <1>6, GetTrustType
    <2>2. call.held \in Profile
      BY <1>4 DEF Good
    <2> QED
      BY <1>7, <2>1, <2>2 DEF Profile
  <1>9. Good(agent, p, call.start)
    BY <1>4, <1>8 DEF Good
  <1>10. Good(agent, p, call.start)'
    BY <1>4, <1>5, <1>9, GoodStays
  <1>11. p # NULL
    BY <1>8, NullIsNoValue
  <1>12. PICK profiles : profiles = [a \in call.agents |-> p]
    OBVIOUS
  <1>13. Provided(c, profiles)
    BY <1>2, <1>6, <1>7, <1>12
  <1>14. DOMAIN profiles = call.agents /\ \A a \in call.agents : profiles[a] = p
    BY <1>12
  <1> QED
    BY <1>1, <1>2, <1>4, <1>10, <1>11, <1>13, <1>14, ProvidedKeeps

LEMMA ScanSearchKeeps ==
    ASSUME IInv, NEW c \in Calls, ScanSearch(c)
    PROVE  IInv' /\ AnswerOK'
  <1>1. Still /\ Running(c) /\ calls[c].kind = "search"
    BY DEF ScanSearch, Still, At
  <1>2. PICK call : call = calls[c]
    OBVIOUS
  <1>3. call.start \in Nat /\ call.start <= clock /\ call.agents \in SUBSET Agents
    BY <1>1, <1>2, RunningCall
  <1>4. Grows /\ TypeOK /\ LogOK
    BY <1>1, StillGrows DEF IInv
  <1>5. PICK records \in [calls[c].agents -> UNION {FetchJson(a) : a \in Agents}] :
          /\ \A a \in DOMAIN records : records[a] \in FetchJson(a)
          /\ Provided(c, [a \in DOMAIN records |->
                            IF records[a] = NULL THEN NULL
                            ELSE ScanProfile(records[a], NULL)])
    BY DEF ScanSearch
  <1>6. PICK profiles : profiles = [a \in DOMAIN records |->
                            IF records[a] = NULL THEN NULL
                            ELSE ScanProfile(records[a], NULL)]
    OBVIOUS
  <1>7. DOMAIN records = call.agents
    BY <1>2, <1>5
  <1>8. ASSUME NEW a \in call.agents
        PROVE  profiles[a] # NULL => Good(a, profiles[a], call.start)'
    <2>1. PICK p, record : p = profiles[a] /\ record = records[a]
      OBVIOUS
    <2>2. record \in FetchJson(a)
      BY <1>5, <1>7, <2>1
    <2>3. CASE record # NULL
      <3>1. /\ record \in AgentRecord
            /\ OwnedSince(a, record.owner, call.start)
            /\ Endpoints(record.services, UrlObjects) \subseteq Current(a, call.start)
        BY <1>4, <2>2, <2>3, RecordIsGood
      <3>2. p = ScanProfile(record, NULL)
        BY <1>6, <1>7, <2>1, <2>3
      <3>3. p \in Profile /\ p.owner = record.owner /\ p.services = Endpoints(record.services, UrlObjects)
        BY <3>1, <3>2, ScanProfileType DEF Maybe
      <3>4. Good(a, p, call.start)
        BY <3>1, <3>3 DEF Good
      <3>5. Good(a, p, call.start)'
        BY <1>3, <1>4, <3>4, GoodStays
      <3>6. p # NULL
        BY <3>3, NullIsNoValue
      <3> QED
        BY <2>1, <3>5, <3>6
    <2>4. CASE record = NULL
      BY <1>6, <1>7, <2>1, <2>4
    <2> QED
      BY <2>3, <2>4
  <1>9. DOMAIN profiles = call.agents
    BY <1>6, <1>7
  <1>10. Provided(c, profiles)
    BY <1>5, <1>6
  <1> QED
    BY <1>1, <1>2, <1>8, <1>9, <1>10, ProvidedKeeps
-----------------------------------------------------------------------------
(* A call begins.                                                           *)

\* A new call has collected nothing and has asked nobody.
LEMMA NewCallIsOK ==
    ASSUME IInv, Still, NEW kind \in {"resolve", "search"}, NEW agents \in SUBSET Agents,
           kind = "resolve" => \E a \in Agents : agents = {a},
           NEW filter \in Filters, NEW call, call = NewCall(kind, agents, filter)
    PROVE  call \in Call /\ call.provider = 0 /\ Collected(call, 0)'
  <1>1. clock \in Nat /\ clock' = clock /\ providers' = providers /\ providers \in Configurations
    BY DEF IInv, TypeOK, Still, World
  <1>2. [a \in Agents |-> << >>] \in [Agents -> Seq(Profile)]
    OBVIOUS
  <1>3. call \in Call
    BY <1>1, <1>2 DEF NewCall, Call, Maybe
  <1>4. /\ call.kind = kind /\ call.agents = agents /\ call.start = clock
        /\ call.provider = 0 /\ call.errors = 0
        /\ \A a \in Agents : Len(call.found[a]) = 0
    BY DEF NewCall
  <1>6. Collected(call, 0)'
    BY <1>1, <1>4, DirectoryConstants DEF Collected
  <1> QED
    BY <1>3, <1>4, <1>6

LEMMA SearchKeeps ==
    ASSUME IInv, NEW c \in Calls, NEW filter \in Filters, Search(c, filter)
    PROVE  IInv' /\ AnswerOK'
  <1>1. Still
    BY DEF Search, Still
  <1>2. PICK call : call = NewCall("search", Agents, filter)
    OBVIOUS
  <1>3. call \in Call /\ call.provider = 0 /\ Collected(call, call.provider)'
    BY <1>1, <1>2, NewCallIsOK
  <1>4. call.provider <= Len(providers)
    BY <1>3, DirectoryConstants DEF IInv, TypeOK
  <1>5. Advance(c, call)
    BY <1>2 DEF Search
  <1> QED
    BY <1>1, <1>3, <1>4, <1>5, AdvanceKeeps

\* A cached profile is as old as the cache keeps one and a call lasts.
LEMMA ResolveAgentKeeps ==
    ASSUME IInv, NEW c \in Calls, NEW agent \in Agents, NEW filter \in Filters,
           ResolveAgent(c, agent, filter)
    PROVE  IInv' /\ AnswerOK'
  <1>1. Still
    BY DEF ResolveAgent, Still
  <1>2. PICK call, cached : call = NewCall("resolve", {agent}, filter) /\ cached = cache[agent]
    OBVIOUS
  <1>3. call \in Call /\ call.provider = 0 /\ Collected(call, call.provider)'
    <2>1. PICK kind, agents : kind = "resolve" /\ agents = {agent}
      OBVIOUS
    <2>2. call \in Call /\ call.provider = 0 /\ Collected(call, 0)'
      BY <1>1, <1>2, <2>1, NewCallIsOK
    <2> QED
      BY <2>2
  <1>4. CASE cached # NULL /\ cached.expiresAt > clock
    <2> DEFINE merged == [a \in {agent} |-> cached.value]
               t == cached.expiresAt - CacheTtl - MaxCall
    <2>1. /\ answered' = Ended([call EXCEPT !.unchecked = cached.unchecked],
                              Filtered(merged, call.filter))
          /\ calls' = calls /\ cache' = cache
      BY <1>2, <1>4 DEF ResolveAgent
    <2>2. cached \in CacheEntry /\ EntryOK(agent, cached)
      BY <1>2, <1>4 DEF IInv, TypeOK, Maybe, CacheOK
    <2>3. Grows /\ clock' = clock /\ LogOK' /\ TableSays(rows, Len(indexed))'
      BY <1>1, StillGrows DEF IInv
    <2>4. EntryOK(agent, cached)'
      BY <2>2, <2>3, EntryStays DEF IInv
    <2>5. TypeOK'
      BY <1>1, <2>1 DEF IInv, TypeOK, Still, World, Maybe
    <2>6. ASSUME NEW d \in Calls, Running(d)' PROVE CallOK(calls[d])'
      BY <2>1, <2>3, <2>6, OtherCallsStay DEF Running
    <2>7. CacheOK'
      BY <2>1, <2>3, CacheStays
    <2>8. AnswerOK'
      <3>1. PICK kind, agents, pf, start, unchecked, time, profiles :
              /\ kind = "resolve"
              /\ agents = {agent}
              /\ pf = call.filter
              /\ start = clock
              /\ unchecked = cached.unchecked
              /\ time = t
              /\ profiles = merged
        OBVIOUS
      <3>2. call.kind = kind /\ call.start = start /\ start \in Nat /\ "unchecked" \in DOMAIN call
        BY <1>2, <3>1 DEF NewCall, IInv, TypeOK
      <3>3. answered' = [kind |-> kind, filter |-> pf, start |-> start,
                         unchecked |-> unchecked, answer |-> Filtered(profiles, pf)]
        <4>1. PICK told : told = [call EXCEPT !.unchecked = cached.unchecked]
          OBVIOUS
        <4>2. /\ told.kind = kind /\ told.filter = pf /\ told.start = start
              /\ told.unchecked = unchecked
          BY <1>3, <3>1, <3>2, <4>1 DEF Call
        <4> QED
          BY <2>1, <3>1, <4>1, <4>2 DEF Ended
      <3>4. /\ cached.value \in Maybe(Profile) /\ cached.expiresAt \in Nat
            /\ clock \in Nat
        BY <2>2 DEF CacheEntry, IInv, TypeOK
      <3>5. time \in Int /\ start - CacheTtl - MaxCall + 1 <= time
        BY <1>4, <3>1, <3>4, DirectoryConstants
      <3>6. profiles \in [agents -> Maybe(Profile)] /\ agents \in SUBSET Agents
        BY <3>1, <3>4
      <3>7. \A a \in agents : profiles[a] # NULL => Good(a, profiles[a], time)'
        BY <2>4, <3>1 DEF EntryOK
      <3>8. \A a \in agents : profiles[a] = NULL => AbsentSince(a, time)' \/ unchecked
        BY <2>4, <3>1 DEF EntryOK
      <3> HIDE DEF merged, t
      <3>9. kind \in {"resolve", "search"}
        BY <3>1
      <3>10. (IF kind = "resolve" THEN start - CacheTtl - MaxCall + 1 ELSE start) <= time
        BY <3>1, <3>5
      <3> QED
        BY <2>5, <3>2, <3>3, <3>5, <3>6, <3>7, <3>8, <3>9, <3>10, AnswerIsRight
    <2> QED
      BY <2>3, <2>5, <2>6, <2>7, <2>8 DEF IInv
  <1>5. CASE ~(cached # NULL /\ cached.expiresAt > clock)
    <2>1. Advance(c, call)
      BY <1>2, <1>5 DEF ResolveAgent
    <2>2. call.provider <= Len(providers)
      BY <1>3, DirectoryConstants DEF IInv, TypeOK
    <2> QED
      BY <1>1, <1>3, <2>1, <2>2, AdvanceKeeps
  <1> QED
    BY <1>4, <1>5
-----------------------------------------------------------------------------
(* The world goes on.                                                       *)

\* A step of the world leaves the calls and the cache alone.
LEMMA WorldKeeps ==
    ASSUME IInv, Grows, TypeOK', LogOK', TableSays(rows, Len(indexed))',
           calls' = calls, cache' = cache, answered' = NULL,
           \A c \in Calls : Running(c) => clock' <= calls[c].start + MaxCall
    PROVE  IInv' /\ AnswerOK'
  <1>1. ASSUME NEW c \in Calls, Running(c)' PROVE CallOK(calls[c])'
    <2>1. PICK call : call = calls[c]
      OBVIOUS
    <2>2. Running(c)
      BY <1>1 DEF Running
    <2>3. call \in Call /\ CallOK(call) /\ clock' <= call.start + MaxCall
      BY <2>1, <2>2 DEF IInv, TypeOK, Running, Maybe
    <2>4. CallOK(call)'
      BY <2>3, CallStays DEF IInv
    <2> QED
      BY <2>1, <2>4
  <1>2. CacheOK' /\ AnswerOK'
    BY CacheStays, NothingAnswered
  <1> QED
    BY <1>1, <1>2 DEF IInv

LEMMA TickKeeps ==
    ASSUME IInv, Tick
    PROVE  IInv' /\ AnswerOK'
  <1>1. /\ clock' = clock + 1 /\ answered' = NULL /\ log' = log /\ indexed' = indexed
        /\ rows' = rows /\ providers' = providers
        /\ cache' = cache /\ calls' = calls
    BY DEF Tick
  <1>2. Grows /\ TypeOK'
    BY <1>1 DEF IInv, TypeOK, Grows
  <1>3. LogOK'
    BY <1>1 DEF IInv, LogOK
  <1>4. TableSays(rows, Len(indexed))'
    <2>1. PICK table, n : table = rows /\ n = Len(indexed)
      OBVIOUS
    <2>2. TableSays(table, n)' = TableSays(table, n)
      BY <1>1 DEF TableSays, RowSays, Telling, Giving, OwnerAfter, LastOf, Said
    <2> QED
      BY <1>1, <2>1, <2>2 DEF IInv
  <1>5. ASSUME NEW c \in Calls, Running(c) PROVE clock' <= calls[c].start + MaxCall
    <2>1. clock < calls[c].start + MaxCall
      BY <1>5 DEF Tick
    <2>2. calls[c].start \in Nat /\ clock \in Nat
      BY <1>5 DEF IInv, TypeOK, Maybe, Running, Call
    <2> QED
      BY <1>1, <2>1, <2>2, DirectoryConstants
  <1> QED
    BY <1>1, <1>2, <1>3, <1>4, <1>5, WorldKeeps
\* What the table says of the first events does not change with the log.
LEMMA TableStays ==
    ASSUME TypeOK, LogOK, Grows, NEW table, NEW n \in 0..Len(log), TableSays(table, n)
    PROVE  TableSays(table, n)'
  <1>1. n \in Nat /\ Len(log) \in Nat /\ Len(log') \in Nat
    BY DEF TypeOK, Grows
  <1>2. \A i \in 1..n : log'[i] = log[i] /\ i \in 1..Len(log)
    BY <1>1 DEF Grows
  <1>3. \A a, kinds : Said(a, kinds, n)' = Said(a, kinds, n) /\ Said(a, kinds, n) \subseteq 1..n
    BY <1>2 DEF Said
  <1>4. \A a : Telling(a, n)' = Telling(a, n) /\ Telling(a, n) \subseteq 1..n
    BY <1>2, <1>3 DEF Telling
  <1>5. \A a, p : Giving(a, p, n)' = Giving(a, p, n) /\ Giving(a, p, n) \subseteq 1..n
    BY <1>2, <1>4 DEF Giving, Gives
  <1>6. ASSUME NEW a, NEW row, RowSays(a, row, n) PROVE RowSays(a, row, n)'
    <2>1. Telling(a, n) # {} => Max(Telling(a, n)) \in 1..n
      <3> DEFINE T == Telling(a, n)
      <3>1. T \subseteq 0..n
        BY <1>1, <1>4
      <3> HIDE DEF T
      <3>2. T # {} => Max(T) \in T
        BY <1>1, <3>1, MaxIsLargest
      <3> QED
        BY <1>4, <3>2 DEF T
    <2>2. ASSUME NEW p \in Protocols, Giving(a, p, n) # {} PROVE Max(Giving(a, p, n)) \in 1..n
      <3> DEFINE G == Giving(a, p, n)
      <3>1. G \subseteq 0..n
        BY <1>1, <1>5
      <3> HIDE DEF G
      <3>2. G # {} => Max(G) \in G
        BY <1>1, <3>1, MaxIsLargest
      <3> QED
        BY <1>5, <2>2, <3>2 DEF G
    <2>3. row.tokenURI' = (IF Telling(a, n) = {} THEN NULL ELSE log[Max(Telling(a, n))].uri)'
      BY <1>2, <1>4, <1>6, <2>1 DEF RowSays
    <2>4. ASSUME NEW p \in Protocols
          PROVE  row.services[p]' = (LET giving == Giving(a, p, n)
                                     IN  IF giving = {} THEN NULL
                                         ELSE ReadServices(DocumentAt[log[Max(giving)].uri])[p])'
      <3>1. Giving(a, p, n)' = Giving(a, p, n)
        BY <1>5
      <3>2. Giving(a, p, n) # {} => log'[Max(Giving(a, p, n))] = log[Max(Giving(a, p, n))]
        BY <1>2, <2>2
      <3> QED
        BY <1>6, <3>1, <3>2 DEF RowSays
    <2>5. row' = row
      OBVIOUS
    <2> QED
      BY <1>3, <1>6, <2>3, <2>4 DEF RowSays
  <1>7. ASSUME NEW a, ~ \A i \in 1..n : log[i].agent # a
        PROVE  OwnerAfter(a, n)' = OwnerAfter(a, n)
    <2>1. PICK i \in 1..n : log[i].agent = a
      BY <1>7
    <2>2. PICK j \in 1..i : log[j].kind = "Transfer" /\ log[j].agent = log[i].agent
      BY <1>2 DEF LogOK
    <2>3. j \in 1..n /\ log[j].agent = a /\ log[j].kind \in {"Transfer"}
      BY <1>1, <2>1, <2>2
    <2>4. LastOf(a, {"Transfer"}, n) \in 1..n
      <3>1. log \in Seq(Event)
        BY DEF TypeOK
      <3>2. LastOf(a, {"Transfer"}, n) \in 0..n /\ LastOf(a, {"Transfer"}, n) # 0
        BY <2>3, <3>1, LastOfFacts
      <3> QED
        BY <1>1, <3>2
    <2>5. LastOf(a, {"Transfer"}, n)' = LastOf(a, {"Transfer"}, n)
      BY LastOfStays
    <2> QED
      BY <1>2, <2>4, <2>5 DEF OwnerAfter
  <1> QED
    BY <1>2, <1>6, <1>7 DEF TableSays

\* New events at the end of the log.
LEMMA EmitKeeps ==
    ASSUME IInv, NEW events \in Seq(Event), Emit(events),
           \A i \in 1..Len(events) : events[i].at = clock,
           LogOK'
    PROVE  IInv' /\ AnswerOK'
  <1>1. /\ log' = log \o events /\ answered' = NULL /\ clock' = clock /\ indexed' = indexed
        /\ rows' = rows /\ providers' = providers
        /\ cache' = cache /\ calls' = calls
    BY DEF Emit
  <1>2. TypeOK /\ LogOK /\ TableSays(rows, Len(indexed))
    BY DEF IInv
  <1>3. log \in Seq(Event) /\ clock \in Nat /\ indexed \in Seq(Nat) /\ Len(indexed) <= Len(log)
    BY <1>2 DEF TypeOK
  <1>4. /\ log' \in Seq(Event) /\ Len(log') = Len(log) + Len(events)
        /\ \A i \in 1..Len(log) : log'[i] = log[i]
        /\ \A i \in (Len(log) + 1)..Len(log') : log'[i] = events[i - Len(log)]
    BY <1>1, <1>3
  <1>5. Len(log) \in Nat /\ Len(events) \in Nat /\ Len(indexed) \in Nat
    BY <1>3
  <1>6. ASSUME NEW i \in (Len(log) + 1)..Len(log') PROVE log'[i].at = clock
    <2>1. i - Len(log) \in 1..Len(events)
      BY <1>4, <1>5
    <2> QED
      BY <1>4, <2>1
  <1>7. Grows
    BY <1>1, <1>3, <1>4, <1>5, <1>6 DEF Grows
  <1>8. TypeOK'
    BY <1>1, <1>2, <1>4, <1>5 DEF TypeOK
  <1>9. TableSays(rows, Len(indexed))'
    <2>1. PICK table, n : table = rows /\ n = Len(indexed)
      OBVIOUS
    <2>2. n \in 0..Len(log) /\ TableSays(table, n)
      BY <1>2, <1>3, <1>5, <2>1
    <2>3. TableSays(table, n)'
      BY <1>2, <1>7, <2>2, TableStays
    <2> QED
      BY <1>1, <2>1, <2>3
  <1>10. ASSUME NEW c \in Calls, Running(c) PROVE clock' <= calls[c].start + MaxCall
    <2>1. CallOK(calls[c])
      BY <1>10 DEF IInv
    <2> QED
      BY <1>1, <2>1 DEF CallOK, Collected
  <1> QED
    BY <1>1, <1>7, <1>8, <1>9, <1>10, WorldKeeps
\* An event of an agent the log knows of already.
LEMMA EventKeeps ==
    ASSUME IInv, NEW event \in Event, event.at = clock, event.kind # "Registered",
           \E i \in 1..Len(log) : log[i].agent = event.agent,
           Emit(<<event>>)
    PROVE  IInv' /\ AnswerOK'
  <1>1. log' = log \o <<event>>
    BY DEF Emit
  <1>2. log \in Seq(Event) /\ LogOK
    BY DEF IInv, TypeOK
  <1>3. Len(log) \in Nat /\ <<event>> \in Seq(Event)
    BY <1>2
  <1>4. /\ Len(log') = Len(log) + 1 /\ log'[Len(log) + 1] = event
        /\ \A i \in 1..Len(log) : log'[i] = log[i]
    BY <1>1, <1>2
  <1>5. ASSUME NEW i \in 1..Len(log')
        PROVE  /\ log'[i].kind = "Registered" =>
                     /\ i - 1 \in 1..Len(log') /\ log'[i - 1].kind = "Transfer"
                     /\ log'[i - 1].agent = log'[i].agent /\ log'[i - 1].to = log'[i].owner
               /\ \E j \in 1..i : log'[j].kind = "Transfer" /\ log'[j].agent = log'[i].agent
    <2>1. CASE i \in 1..Len(log)
      <3>1. \A j \in 1..i : j \in 1..Len(log) /\ log'[j] = log[j]
        BY <1>3, <1>4, <2>1
      <3>2. \E j \in 1..i : log[j].kind = "Transfer" /\ log[j].agent = log[i].agent
        BY <1>2, <2>1 DEF LogOK
      <3>3. ASSUME log[i].kind = "Registered"
            PROVE  /\ i - 1 \in 1..Len(log') /\ log'[i - 1].kind = "Transfer"
                   /\ log'[i - 1].agent = log[i].agent /\ log'[i - 1].to = log[i].owner
        <4>1. /\ i - 1 \in 1..Len(log) /\ log[i - 1].kind = "Transfer"
              /\ log[i - 1].agent = log[i].agent /\ log[i - 1].to = log[i].owner
          BY <1>2, <2>1, <3>3 DEF LogOK
        <4> QED
          BY <1>3, <1>4, <4>1
      <3> QED
        BY <1>4, <2>1, <3>1, <3>2, <3>3
    <2>2. CASE i = Len(log) + 1
      <3>1. PICK k \in 1..Len(log) : log[k].agent = event.agent
        OBVIOUS
      <3>2. PICK j \in 1..k : log[j].kind = "Transfer" /\ log[j].agent = log[k].agent
        BY <1>2 DEF LogOK
      <3>3. j \in 1..Len(log) /\ j \in 1..i
        BY <1>3, <2>2
      <3>4. log'[j].kind = "Transfer" /\ log'[j].agent = log'[i].agent
        BY <1>4, <2>2, <3>1, <3>2, <3>3
      <3> QED
        BY <1>4, <2>2, <3>3, <3>4
    <2>3. i \in 1..Len(log) \/ i = Len(log) + 1
      <3>1. Len(log') = Len(log) + 1
        BY <1>4
      <3> QED
        BY <1>3, <3>1
    <2> QED
      BY <2>1, <2>2, <2>3
  <1>6. LogOK'
    BY <1>5 DEF LogOK
  <1>7. \A i \in 1..Len(<<event>>) : <<event>>[i].at = clock
    OBVIOUS
  <1>8. PICK events : events = <<event>>
    OBVIOUS
  <1>9. events \in Seq(Event) /\ Emit(events) /\ \A i \in 1..Len(events) : events[i].at = clock
    BY <1>3, <1>7, <1>8
  <1> QED
    BY <1>6, <1>9, EmitKeeps

\* A registration: the mint and the event after it.
LEMMA RegisterKeeps ==
    ASSUME IInv, NEW agent \in Agents, NEW owner \in Owners, NEW uri \in Uris,
           Register(agent, owner, uri)
    PROVE  IInv' /\ AnswerOK'
  <1>1. PICK mint, event :
          /\ mint = [at |-> clock, kind |-> "Transfer", agent |-> agent, to |-> owner]
          /\ event = [at |-> clock, kind |-> "Registered", agent |-> agent,
                      owner |-> owner, uri |-> uri]
    OBVIOUS
  <1>2. log \in Seq(Event) /\ LogOK /\ clock \in Nat
    BY DEF IInv, TypeOK
  <1>3. /\ mint \in Event /\ event \in Event /\ mint.at = clock /\ event.at = clock
        /\ mint.kind = "Transfer" /\ mint.agent = agent /\ mint.to = owner
        /\ event.kind = "Registered" /\ event.agent = agent /\ event.owner = owner
    BY <1>1, <1>2 DEF Event
  <1>4. PICK events : events = <<mint, event>>
    OBVIOUS
  <1>5. /\ events \in Seq(Event) /\ Len(events) = 2 /\ Len(log) \in Nat
        /\ events[1] = mint /\ events[2] = event
    BY <1>2, <1>3, <1>4
  <1>6. Emit(events)
    BY <1>1, <1>4 DEF Register
  <1>7. log' = log \o events
    BY <1>6 DEF Emit
  <1>8. /\ Len(log') = Len(log) + 2 /\ log'[Len(log) + 1] = mint /\ log'[Len(log) + 2] = event
        /\ \A i \in 1..Len(log) : log'[i] = log[i]
    <2>1. /\ Len(log \o events) = Len(log) + Len(events)
          /\ \A i \in 1..(Len(log) + Len(events)) :
                (log \o events)[i] = IF i <= Len(log) THEN log[i] ELSE events[i - Len(log)]
      BY <1>2, <1>5, ConcatProperties
    <2>2. /\ (log \o events)[Len(log) + 1] = events[1]
          /\ (log \o events)[Len(log) + 2] = events[2]
          /\ \A i \in 1..Len(log) : (log \o events)[i] = log[i]
      <3>1. /\ Len(log) + 1 \in 1..(Len(log) + Len(events)) /\ ~(Len(log) + 1 <= Len(log))
            /\ Len(log) + 2 \in 1..(Len(log) + Len(events)) /\ ~(Len(log) + 2 <= Len(log))
            /\ Len(log) + 1 - Len(log) = 1 /\ Len(log) + 2 - Len(log) = 2
        BY <1>5
      <3>2. \A i \in 1..Len(log) : i \in 1..(Len(log) + Len(events)) /\ i <= Len(log)
        BY <1>5
      <3> QED
        BY <2>1, <3>1, <3>2
    <2>3. Len(log \o events) = Len(log) + 2
      BY <1>5, <2>1
    <2> QED
      BY <1>5, <1>7, <2>1, <2>2, <2>3
  <1>9. ASSUME NEW i \in 1..Len(log')
        PROVE  /\ log'[i].kind = "Registered" =>
                     /\ i - 1 \in 1..Len(log') /\ log'[i - 1].kind = "Transfer"
                     /\ log'[i - 1].agent = log'[i].agent /\ log'[i - 1].to = log'[i].owner
               /\ \E j \in 1..i : log'[j].kind = "Transfer" /\ log'[j].agent = log'[i].agent
    <2>1. CASE i \in 1..Len(log)
      <3>1. \A j \in 1..i : j \in 1..Len(log) /\ log'[j] = log[j]
        BY <1>5, <1>8, <2>1
      <3>2. \E j \in 1..i : log[j].kind = "Transfer" /\ log[j].agent = log[i].agent
        BY <1>2, <2>1 DEF LogOK
      <3>3. ASSUME log[i].kind = "Registered"
            PROVE  /\ i - 1 \in 1..Len(log') /\ log'[i - 1].kind = "Transfer"
                   /\ log'[i - 1].agent = log[i].agent /\ log'[i - 1].to = log[i].owner
        <4>1. /\ i - 1 \in 1..Len(log) /\ log[i - 1].kind = "Transfer"
              /\ log[i - 1].agent = log[i].agent /\ log[i - 1].to = log[i].owner
          BY <1>2, <2>1, <3>3 DEF LogOK
        <4> QED
          BY <1>5, <1>8, <4>1
      <3> QED
        BY <1>8, <2>1, <3>1, <3>2, <3>3
    <2>2. CASE i = Len(log) + 1
      <3>1. log'[i] = mint /\ i \in 1..i
        BY <1>5, <1>8, <2>2
      <3> QED
        BY <1>3, <3>1
    <2>3. CASE i = Len(log) + 2
      <3>1. i - 1 = Len(log) + 1 /\ i - 1 \in 1..Len(log') /\ i - 1 \in 1..i
        BY <1>5, <1>8, <2>3
      <3>2. log'[i] = event /\ log'[i - 1] = mint
        BY <1>8, <2>3, <3>1
      <3> QED
        BY <1>3, <3>1, <3>2
    <2>4. i \in 1..Len(log) \/ i = Len(log) + 1 \/ i = Len(log) + 2
      <3>1. Len(log') = Len(log) + 2
        BY <1>8
      <3> QED
        BY <1>5, <3>1
    <2> QED
      BY <2>1, <2>2, <2>3, <2>4
  <1>10. LogOK'
    BY <1>9 DEF LogOK
  <1>11. \A i \in 1..Len(events) : events[i].at = clock
    BY <1>3, <1>5
  <1> QED
    BY <1>5, <1>6, <1>10, <1>11, EmitKeeps

LEMMA RegistryKeeps ==
    ASSUME IInv, Registry
    PROVE  IInv' /\ AnswerOK'
  <1>1. log \in Seq(Event) /\ clock \in Nat /\ Len(log) \in 0..Len(log)
    BY DEF IInv, TypeOK
  <1>2. ASSUME NEW agent, NEW kinds, LastOf(agent, kinds, Len(log)) # 0
        PROVE  \E i \in 1..Len(log) : log[i].agent = agent
    BY <1>1, <1>2, LastOfFacts
  <1>3. ASSUME NEW agent, Registered(agent)
        PROVE  \E i \in 1..Len(log) : log[i].agent = agent
    BY <1>2, <1>3 DEF Registered, Known
  <1>4. PICK agent \in Agents :
          \/ \E owner \in Owners, uri \in Uris : Register(agent, owner, uri)
          \/ \E to \in Owners : TransferAgent(agent, to)
          \/ \E uri \in Uris : SetAgentUri(agent, uri)
          \/ \E entry \in Metadata : SetMetadata(agent, entry)
          \/ \E score \in Scores : GiveFeedback(agent, score)
          \/ RevokeFeedback(agent)
    BY DEF Registry
  <1>5. ASSUME NEW to \in Owners, TransferAgent(agent, to) PROVE IInv' /\ AnswerOK'
    <2>1. PICK event : event = [at |-> clock, kind |-> "Transfer", agent |-> agent, to |-> to]
      OBVIOUS
    <2>2. /\ event \in Event /\ event.at = clock /\ event.kind # "Registered"
          /\ event.agent = agent
      BY <1>1, <2>1 DEF Event
    <2>3. Registered(agent) /\ Emit(<<event>>)
      BY <1>5, <2>1 DEF TransferAgent
    <2> QED
      BY <1>3, <2>2, <2>3, EventKeeps
  <1>6. ASSUME NEW uri \in Uris, SetAgentUri(agent, uri) PROVE IInv' /\ AnswerOK'
    <2>1. PICK event : event = [at |-> clock, kind |-> "URIUpdated", agent |-> agent,
                                uri |-> uri]
      OBVIOUS
    <2>2. /\ event \in Event /\ event.at = clock /\ event.kind # "Registered"
          /\ event.agent = agent
      BY <1>1, <2>1 DEF Event
    <2>3. Registered(agent) /\ Emit(<<event>>)
      BY <1>6, <2>1 DEF SetAgentUri
    <2> QED
      BY <1>3, <2>2, <2>3, EventKeeps
  <1>7. ASSUME NEW entry \in Metadata, SetMetadata(agent, entry) PROVE IInv' /\ AnswerOK'
    <2>1. PICK event : event = [at |-> clock, kind |-> "MetadataSet", agent |-> agent,
                                entry |-> entry]
      OBVIOUS
    <2>2. /\ event \in Event /\ event.at = clock /\ event.kind # "Registered"
          /\ event.agent = agent
      BY <1>1, <2>1 DEF Event
    <2>3. Registered(agent) /\ Emit(<<event>>)
      BY <1>7, <2>1 DEF SetMetadata
    <2> QED
      BY <1>3, <2>2, <2>3, EventKeeps
  <1>8. ASSUME NEW score \in Scores, GiveFeedback(agent, score) PROVE IInv' /\ AnswerOK'
    <2>1. PICK event : event = [at |-> clock, kind |-> "NewFeedback", agent |-> agent,
                                value |-> score]
      OBVIOUS
    <2>2. /\ event \in Event /\ event.at = clock /\ event.kind # "Registered"
          /\ event.agent = agent
      BY <1>1, <2>1 DEF Event
    <2>3. Registered(agent) /\ Emit(<<event>>)
      BY <1>8, <2>1 DEF GiveFeedback
    <2> QED
      BY <1>3, <2>2, <2>3, EventKeeps
  <1>9. ASSUME RevokeFeedback(agent) PROVE IInv' /\ AnswerOK'
    <2>1. PICK event : event = [at |-> clock, kind |-> "FeedbackRevoked", agent |-> agent]
      OBVIOUS
    <2>2. /\ event \in Event /\ event.at = clock /\ event.kind # "Registered"
          /\ event.agent = agent
      BY <1>1, <2>1 DEF Event
    <2>3. LastOf(agent, {"NewFeedback"}, Len(log)) # 0 /\ Emit(<<event>>)
      BY <1>9, <2>1 DEF RevokeFeedback
    <2> QED
      BY <1>2, <2>2, <2>3, EventKeeps
  <1> QED
    BY <1>4, <1>5, <1>6, <1>7, <1>8, <1>9, RegisterKeeps
-----------------------------------------------------------------------------
(* The indexer handles the next event.                                      *)

LEMMA SaidNext ==
    ASSUME log \in Seq(Event), NEW a, NEW kinds, NEW n \in Nat, n + 1 \in 1..Len(log)
    PROVE  /\ Said(a, kinds, n) \subseteq 1..n
           /\ Said(a, kinds, n + 1) =
                 IF log[n + 1].agent = a /\ log[n + 1].kind \in kinds
                 THEN Said(a, kinds, n) \cup {n + 1} ELSE Said(a, kinds, n)
  <1>1. 1..(n + 1) = (1..n) \cup {n + 1}
    OBVIOUS
  <1> QED
    BY <1>1 DEF Said

LEMMA TellingNext ==
    ASSUME log \in Seq(Event), NEW a, NEW n \in Nat, n + 1 \in 1..Len(log)
    PROVE  /\ Telling(a, n) \subseteq 1..n
           /\ Telling(a, n + 1) =
                 IF /\ log[n + 1].agent = a /\ log[n + 1].kind \in {"Registered", "URIUpdated"}
                    /\ log[n + 1].uri # NULL
                 THEN Telling(a, n) \cup {n + 1} ELSE Telling(a, n)
  <1>1. PICK kinds : kinds = {"Registered", "URIUpdated"}
    OBVIOUS
  <1>2. /\ Said(a, kinds, n) \subseteq 1..n
        /\ Said(a, kinds, n + 1) =
              IF log[n + 1].agent = a /\ log[n + 1].kind \in kinds
              THEN Said(a, kinds, n) \cup {n + 1} ELSE Said(a, kinds, n)
    BY SaidNext
  <1>3. \A m : Telling(a, m) = {i \in Said(a, kinds, m) : log[i].uri # NULL}
    BY <1>1 DEF Telling
  <1>4. CASE log[n + 1].agent = a /\ log[n + 1].kind \in kinds
    <2>1. Said(a, kinds, n + 1) = Said(a, kinds, n) \cup {n + 1}
      BY <1>2, <1>4
    <2>2. Telling(a, n + 1) = IF log[n + 1].uri # NULL
                              THEN Telling(a, n) \cup {n + 1} ELSE Telling(a, n)
      BY <1>3, <2>1, ZenonT(40)
    <2> QED
      BY <1>1, <1>2, <1>3, <1>4, <2>2
  <1>5. CASE ~(log[n + 1].agent = a /\ log[n + 1].kind \in kinds)
    <2>1. Telling(a, n + 1) = Telling(a, n)
      BY <1>2, <1>3, <1>5
    <2> QED
      BY <1>1, <1>2, <1>3, <1>5, <2>1
  <1> QED
    BY <1>4, <1>5

LEMMA GivingNext ==
    ASSUME log \in Seq(Event), NEW a, NEW p, NEW n \in Nat, n + 1 \in 1..Len(log)
    PROVE  /\ Giving(a, p, n) \subseteq 1..n
           /\ Giving(a, p, n + 1) =
                 IF /\ log[n + 1].agent = a /\ log[n + 1].kind \in {"Registered", "URIUpdated"}
                    /\ log[n + 1].uri # NULL /\ Gives(log[n + 1], p)
                 THEN Giving(a, p, n) \cup {n + 1} ELSE Giving(a, p, n)
  BY TellingNext, ZenonT(40) DEF Giving

LEMMA NewestIsMax ==
    ASSUME NEW n \in Nat, NEW S, S \subseteq 1..n
    PROVE  Max(S \cup {n + 1}) = n + 1
  <1> DEFINE T == S \cup {n + 1}
  <1>1. T \subseteq 0..(n + 1) /\ T # {} /\ n + 1 \in Nat /\ n + 1 \in T
    OBVIOUS
  <1>2. \A i \in T : i <= n + 1
    OBVIOUS
  <1> HIDE DEF T
  <1>3. Max(T) \in T /\ n + 1 <= Max(T)
    BY <1>1, MaxIsLargest
  <1>4. Max(T) \in 0..(n + 1)
    BY <1>1, <1>3
  <1>5. Max(T) = n + 1
    BY <1>2, <1>3, <1>4
  <1> QED
    BY <1>5 DEF T

LEMMA OneMore ==
    ASSUME NEW n \in Nat, NEW S, S \subseteq 1..n
    PROVE  Cardinality(S \cup {n + 1}) = Cardinality(S) + 1
  <1>1. IsFiniteSet(1..n)
    BY FS_Interval
  <1>2. IsFiniteSet(S)
    BY <1>1, FS_Subset
  <1>3. PICK x : x = n + 1
    OBVIOUS
  <1>4. x \notin S
    <2>1. x \notin 1..n
      BY <1>3
    <2> QED
      BY <2>1
  <1>5. Cardinality(S \cup {x}) = Cardinality(S) + 1
    BY <1>2, <1>4, FS_AddElement
  <1> QED
    BY <1>3, <1>5

\* An event of another agent changes nothing.
LEMMA OtherEvent ==
    ASSUME log \in Seq(Event), NEW a, NEW n \in Nat, n + 1 \in 1..Len(log),
           log[n + 1].agent # a, NEW row, RowSays(a, row, n)
    PROVE  RowSays(a, row, n + 1)
  <1>1. \A kinds : Said(a, kinds, n + 1) = Said(a, kinds, n)
    BY SaidNext
  <1>2. Telling(a, n + 1) = Telling(a, n)
    BY TellingNext
  <1>3. \A p : Giving(a, p, n + 1) = Giving(a, p, n)
    BY GivingNext
  <1> QED
    BY <1>1, <1>2, <1>3 DEF RowSays

\* Before an agent's first event its row would be empty.
LEMMA EmptySays ==
    ASSUME NEW a, NEW n, \A i \in 1..n : log[i].agent # a
    PROVE  RowSays(a, EmptyProfile, n)
  <1>1. \A kinds : Said(a, kinds, n) = {}
    BY DEF Said
  <1>2. Telling(a, n) = {} /\ \A p : Giving(a, p, n) = {}
    BY <1>1 DEF Telling, Giving
  <1>3. Cardinality({}) = 0
    BY FS_EmptySet
  <1> QED
    BY <1>1, <1>2, <1>3 DEF RowSays, EmptyProfile

LEMMA WithTokenURIFacts ==
    ASSUME NEW row \in Row, NEW uri \in Uris
    PROVE  LET new == WithTokenURI(row, uri)
           IN  /\ new.owner = row.owner /\ new.tokenURI = Else(uri, row.tokenURI)
               /\ new.feedbackCount = row.feedbackCount
               /\ new.feedbackRevokedCount = row.feedbackRevokedCount
               /\ \A p \in Protocols :
                    new.services[p] =
                       IF uri \in InlineUris /\ ReadServices(DocumentAt[uri])[p] # NULL
                       THEN ReadServices(DocumentAt[uri])[p] ELSE row.services[p]
  <1>1. CASE uri \in InlineUris
    BY <1>1 DEF WithTokenURI, ApplyRegistrationData, Over, Else, Row
  <1>2. CASE uri \notin InlineUris
    BY <1>2 DEF WithTokenURI, Row
  <1> QED
    BY <1>1, <1>2

\* A handled event makes the columns what they are to be.
LEMMA HandleSays ==
    ASSUME log \in Seq(Event), NEW n \in Nat, n + 1 \in 1..Len(log),
           NEW event, event = log[n + 1], NEW a, event.agent = a,
           NEW row \in Row, RowSays(a, row, n)
    PROVE  RowSays(a, Handle(row, event), n + 1)
  <1> DEFINE new == Handle(row, event)
             given == Said(a, {"NewFeedback"}, n)
             revoked == Said(a, {"FeedbackRevoked"}, n)
             telling == Telling(a, n)
             Docs(p) == Giving(a, p, n)
             Source(i) == ReadServices(DocumentAt[log[i].uri])
  <1>1. event \in Event
    OBVIOUS
  <1>2. /\ row.tokenURI = IF telling = {} THEN NULL ELSE log[Max(telling)].uri
        /\ row.feedbackCount = Cardinality(given)
        /\ row.feedbackRevokedCount = Cardinality(revoked)
        /\ \A p \in Protocols :
              row.services[p] = IF Docs(p) = {} THEN NULL ELSE Source(Max(Docs(p)))[p]
    BY DEF RowSays
  <1>3. /\ given \subseteq 1..n
        /\ Said(a, {"NewFeedback"}, n + 1) =
              IF event.kind = "NewFeedback" THEN given \cup {n + 1} ELSE given
    BY SaidNext, ZenonT(40)
  <1>4. /\ revoked \subseteq 1..n
        /\ Said(a, {"FeedbackRevoked"}, n + 1) =
              IF event.kind = "FeedbackRevoked" THEN revoked \cup {n + 1} ELSE revoked
    BY SaidNext, ZenonT(40)
  <1>5. /\ telling \subseteq 1..n
        /\ Telling(a, n + 1) =
              IF event.kind \in {"Registered", "URIUpdated"} /\ event.uri # NULL
              THEN telling \cup {n + 1} ELSE telling
    BY TellingNext
  <1>6. ASSUME NEW p
        PROVE  /\ Docs(p) \subseteq 1..n
               /\ Giving(a, p, n + 1) =
                     IF /\ event.kind \in {"Registered", "URIUpdated"}
                        /\ event.uri # NULL /\ Gives(event, p)
                     THEN Docs(p) \cup {n + 1} ELSE Docs(p)
    BY GivingNext
  <1> HIDE DEF new, given, revoked, telling, Docs, Source
  <1>7. SUFFICES
          /\ new.feedbackCount = Cardinality(Said(a, {"NewFeedback"}, n + 1))
          /\ new.feedbackRevokedCount = Cardinality(Said(a, {"FeedbackRevoked"}, n + 1))
          /\ new.tokenURI = IF Telling(a, n + 1) = {} THEN NULL
                            ELSE log[Max(Telling(a, n + 1))].uri
          /\ \A p \in Protocols :
                new.services[p] = IF Giving(a, p, n + 1) = {} THEN NULL
                                  ELSE Source(Max(Giving(a, p, n + 1)))[p]
    BY DEF RowSays, new, Source
  <1>8. CASE event.kind \in {"Registered", "URIUpdated"}
    <2>1. PICK before \in Row : /\ new = WithTokenURI(before, event.uri)
                                /\ before.tokenURI = row.tokenURI
                                /\ before.services = row.services
                                /\ before.feedbackCount = row.feedbackCount
                                /\ before.feedbackRevokedCount = row.feedbackRevokedCount
      <3>1. CASE event.kind = "Registered"
        <4>1. event.owner \in Accounts
          BY <1>1, <3>1, DirectoryConstants DEF Event
        <4>2. [row EXCEPT !.owner = event.owner] \in Row
          BY <4>1 DEF Row, Maybe
        <4> QED
          BY <3>1, <4>2 DEF new, Handle, OnRegistered, Row
      <3>2. CASE event.kind = "URIUpdated"
        BY <3>2 DEF new, Handle, OnURIUpdated
      <3> QED
        BY <1>8, <3>1, <3>2
    <2>2. event.uri \in Uris
      BY <1>1, <1>8 DEF Event
    <2>3. /\ new.tokenURI = Else(event.uri, row.tokenURI)
          /\ new.feedbackCount = row.feedbackCount
          /\ new.feedbackRevokedCount = row.feedbackRevokedCount
          /\ \A p \in Protocols :
               new.services[p] =
                  IF event.uri \in InlineUris /\ ReadServices(DocumentAt[event.uri])[p] # NULL
                  THEN ReadServices(DocumentAt[event.uri])[p] ELSE row.services[p]
      BY <2>1, <2>2, WithTokenURIFacts
    <2>4. new.tokenURI = IF Telling(a, n + 1) = {} THEN NULL
                         ELSE log[Max(Telling(a, n + 1))].uri
      <3>1. CASE event.uri = NULL
        BY <1>2, <1>5, <2>3, <3>1 DEF Else
      <3>2. CASE event.uri # NULL
        <4>1. Telling(a, n + 1) = telling \cup {n + 1}
          BY <1>5, <1>8, <3>2
        <4>2. Max(Telling(a, n + 1)) = n + 1
          BY <1>5, <4>1, NewestIsMax
        <4> QED
          BY <2>3, <3>2, <4>1, <4>2 DEF Else
      <3> QED
        BY <3>1, <3>2
    <2>5. ASSUME NEW p \in Protocols
          PROVE  new.services[p] = IF Giving(a, p, n + 1) = {} THEN NULL
                                   ELSE Source(Max(Giving(a, p, n + 1)))[p]
      <3>1. CASE event.uri # NULL /\ Gives(event, p)
        <4>1. Giving(a, p, n + 1) = Docs(p) \cup {n + 1}
          BY <1>6, <1>8, <3>1
        <4>2. Max(Giving(a, p, n + 1)) = n + 1
          BY <1>6, <4>1, NewestIsMax
        <4>3. new.services[p] = ReadServices(DocumentAt[event.uri])[p]
          BY <2>3, <3>1 DEF Gives
        <4> QED
          BY <4>1, <4>2, <4>3 DEF Source
      <3>2. CASE ~(event.uri # NULL /\ Gives(event, p))
        <4>1. Giving(a, p, n + 1) = Docs(p)
          BY <1>6, <3>2
        <4>2. new.services[p] = row.services[p]
          BY <2>3, <3>2, NullIsNoValue DEF Gives
        <4> QED
          BY <1>2, <4>1, <4>2
      <3> QED
        BY <3>1, <3>2
    <2>6. event.kind \notin {"NewFeedback", "FeedbackRevoked"}
      BY <1>8
    <2> QED
      BY <1>2, <1>3, <1>4, <2>3, <2>4, <2>5, <2>6
  <1>9. CASE event.kind \notin {"Registered", "URIUpdated"}
    <2>1. event.kind \in {"Transfer", "MetadataSet", "NewFeedback", "FeedbackRevoked"}
      BY <1>1, <1>9 DEF Event
    <2>2. new.services = row.services /\ new.tokenURI = row.tokenURI
      BY <2>1 DEF new, Handle, OnTransfer, OnMetadataSet, OnNewFeedback, OnFeedbackRevoked, Row
    <2>3. new.feedbackCount =
            IF event.kind = "NewFeedback" THEN row.feedbackCount + 1 ELSE row.feedbackCount
      BY <2>1 DEF new, Handle, OnTransfer, OnMetadataSet, OnNewFeedback, OnFeedbackRevoked, Row
    <2>4. new.feedbackRevokedCount =
            IF event.kind = "FeedbackRevoked" THEN row.feedbackRevokedCount + 1
            ELSE row.feedbackRevokedCount
      BY <2>1 DEF new, Handle, OnTransfer, OnMetadataSet, OnNewFeedback, OnFeedbackRevoked, Row
    <2>5. Cardinality(given \cup {n + 1}) = Cardinality(given) + 1
      BY <1>3, OneMore
    <2>6. Cardinality(revoked \cup {n + 1}) = Cardinality(revoked) + 1
      BY <1>4, OneMore
    <2>7. Telling(a, n + 1) = telling /\ \A p : Giving(a, p, n + 1) = Docs(p)
      BY <1>5, <1>6, <1>9
    <2> QED
      BY <1>2, <1>3, <1>4, <2>2, <2>3, <2>4, <2>5, <2>6, <2>7
  <1> QED
    BY <1>8, <1>9
\* The owner a handled event leaves is the one of the agent's last transfer: a
\* registration comes right after the one that mints the token.
LEMMA HandleOwns ==
    ASSUME log \in Seq(Event), LogOK, NEW n \in Nat, n + 1 \in 1..Len(log),
           NEW event, event = log[n + 1], NEW a, event.agent = a, NEW row \in Row,
           (\E i \in 1..n : log[i].agent = a) => row.owner = OwnerAfter(a, n)
    PROVE  Handle(row, event).owner = OwnerAfter(a, n + 1)
  <1> DEFINE new == Handle(row, event)
             k == LastOf(a, {"Transfer"}, n)
  <1>1. event \in Event
    OBVIOUS
  <1>2. LastOf(a, {"Transfer"}, n + 1) = IF event.kind = "Transfer" THEN n + 1 ELSE k
    <2>1. PICK kinds : kinds = {"Transfer"}
      OBVIOUS
    <2>2. LastOf(a, kinds, n + 1) = IF log[n + 1].agent = a /\ log[n + 1].kind \in kinds
                                    THEN n + 1 ELSE LastOf(a, kinds, n)
      BY LastOfNext
    <2> QED
      BY <2>1, <2>2
  <1>3. n \in 0..Len(log)
    OBVIOUS
  <1>4. /\ k \in 0..n
        /\ \A i \in 1..n : log[i].agent = a /\ log[i].kind \in {"Transfer"} => k # 0 /\ i <= k
    BY <1>3, LastOfFacts
  <1>5. OwnerAfter(a, n + 1) = IF event.kind = "Transfer" THEN event.to ELSE OwnerAfter(a, n)
    BY <1>2 DEF OwnerAfter, k
  <1>6. OwnerAfter(a, n) = log[k].to
    BY DEF OwnerAfter
  <1> HIDE DEF new, k
  <1>7. CASE event.kind = "Transfer"
    BY <1>5, <1>7 DEF new, Handle, OnTransfer, Row
  <1>8. CASE event.kind = "Registered"
    <2>1. /\ n + 1 - 1 \in 1..Len(log) /\ log[n + 1 - 1].kind = "Transfer"
          /\ log[n + 1 - 1].agent = event.agent /\ log[n + 1 - 1].to = event.owner
      BY <1>8 DEF LogOK
    <2>2. n \in 1..n /\ log[n].kind \in {"Transfer"} /\ log[n].agent = a
          /\ log[n].to = event.owner
      <3>1. n + 1 - 1 = n
        OBVIOUS
      <3> QED
        BY <2>1, <3>1
    <2>3. k = n
      BY <1>4, <2>2
    <2>4. event.owner \in Accounts /\ event.uri \in Uris
      BY <1>1, <1>8, DirectoryConstants DEF Event
    <2>5. PICK before : before = [row EXCEPT !.owner = event.owner]
      OBVIOUS
    <2>6. before \in Row /\ before.owner = event.owner
      BY <2>4, <2>5 DEF Row, Maybe
    <2>7. new = WithTokenURI(before, event.uri)
      BY <1>8, <2>5 DEF new, Handle, OnRegistered
    <2>8. new.owner = event.owner
      BY <2>4, <2>6, <2>7, WithTokenURIFacts
    <2> QED
      BY <1>5, <1>6, <1>8, <2>2, <2>3, <2>8 DEF new
  <1>9. CASE event.kind \notin {"Transfer", "Registered"}
    <2>1. PICK j \in 1..(n + 1) : log[j].kind = "Transfer" /\ log[j].agent = event.agent
      BY DEF LogOK
    <2>2. j \in 1..n
      <3>1. j # n + 1
        BY <1>9, <2>1
      <3> QED
        BY <3>1
    <2>3. row.owner = OwnerAfter(a, n)
      BY <2>1, <2>2
    <2>4. new.owner = row.owner
      <3>1. CASE event.kind = "URIUpdated"
        <4>1. event.uri \in Uris
          BY <1>1, <3>1 DEF Event
        <4> QED
          BY <3>1, <4>1, WithTokenURIFacts DEF new, Handle, OnURIUpdated
      <3>2. CASE event.kind \in {"MetadataSet", "NewFeedback", "FeedbackRevoked"}
        BY <3>2 DEF new, Handle, OnMetadataSet, OnNewFeedback, OnFeedbackRevoked, Row
      <3>3. event.kind \in {"URIUpdated", "MetadataSet", "NewFeedback", "FeedbackRevoked"}
        BY <1>1, <1>9 DEF Event
      <3> QED
        BY <3>1, <3>2, <3>3
    <2> QED
      BY <1>5, <1>9, <2>3, <2>4 DEF new
  <1> QED
    BY <1>7, <1>8, <1>9

\* The table after the next event.
LEMMA HandledTable ==
    ASSUME log \in Seq(Event), LogOK, NEW n \in Nat, n + 1 \in 1..Len(log),
           NEW event, event = log[n + 1],
           NEW table \in [Agents -> Maybe(Row)], TableSays(table, n),
           NEW new, new = [table EXCEPT ![event.agent] =
                             Handle(Else(table[event.agent], EmptyProfile), event)]
    PROVE  new \in [Agents -> Maybe(Row)] /\ TableSays(new, n + 1)
  <1>1. event \in Event /\ event.agent \in Agents
    <2>1. event \in Event
      OBVIOUS
    <2> QED
      BY <2>1 DEF Event
  <1>2. PICK a, old : a = event.agent /\ old = Else(table[a], EmptyProfile)
    OBVIOUS
  <1>3. /\ old \in Row /\ RowSays(a, old, n)
        /\ (\E i \in 1..n : log[i].agent = a) => old.owner = OwnerAfter(a, n)
    <2>1. CASE \A i \in 1..n : log[i].agent # a
      <3>1. table[a] = NULL
        BY <1>1, <1>2, <2>1 DEF TableSays
      <3>2. old = EmptyProfile
        BY <1>2, <3>1 DEF Else
      <3> QED
        BY <2>1, <3>2, EmptySays, EmptyProfileType
    <2>2. CASE ~ \A i \in 1..n : log[i].agent # a
      <3>1. table[a] # NULL /\ table[a].owner = OwnerAfter(a, n) /\ RowSays(a, table[a], n)
        BY <1>1, <1>2, <2>2 DEF TableSays
      <3>2. old = table[a] /\ table[a] \in Row
        BY <1>1, <1>2, <3>1 DEF Else, Maybe
      <3> QED
        BY <3>1, <3>2
    <2> QED
      BY <2>1, <2>2
  <1>4. PICK row : row = Handle(old, event)
    OBVIOUS
  <1>5. row \in Row
    BY <1>1, <1>3, <1>4, HandleType
  <1>6. new = [table EXCEPT ![a] = row]
    BY <1>2, <1>4
  <1>7. RowSays(a, row, n + 1)
    BY <1>2, <1>3, <1>4, HandleSays
  <1>8. row.owner = OwnerAfter(a, n + 1)
    BY <1>2, <1>3, <1>4, HandleOwns
  <1>9. new \in [Agents -> Maybe(Row)]
    BY <1>1, <1>2, <1>5, <1>6 DEF Maybe
  <1>10. ASSUME NEW b \in Agents
         PROVE  IF \A i \in 1..(n + 1) : log[i].agent # b THEN new[b] = NULL
                ELSE /\ new[b] # NULL /\ new[b].owner = OwnerAfter(b, n + 1)
                     /\ RowSays(b, new[b], n + 1)
    <2>1. CASE b = a
      <3>1. new[b] = row
        BY <1>6, <2>1
      <3>2. n + 1 \in 1..(n + 1) /\ log[n + 1].agent = b
        BY <1>2, <2>1
      <3>3. row # NULL
        BY <1>5, NullIsNoValue
      <3> QED
        BY <1>7, <1>8, <2>1, <3>1, <3>2, <3>3
    <2>2. CASE b # a
      <3>1. new[b] = table[b]
        BY <1>6, <2>2
      <3>2. log[n + 1].agent # b
        BY <1>2, <2>2
      <3>3. (\A i \in 1..(n + 1) : log[i].agent # b) <=> (\A i \in 1..n : log[i].agent # b)
        <4>1. \A i \in 1..(n + 1) : i \in 1..n \/ i = n + 1
          OBVIOUS
        <4>2. \A i \in 1..n : i \in 1..(n + 1)
          OBVIOUS
        <4> QED
          BY <3>2, <4>1, <4>2
      <3>4. OwnerAfter(b, n + 1) = OwnerAfter(b, n)
        BY <3>2, LastOfNext DEF OwnerAfter
      <3>5. IF \A i \in 1..n : log[i].agent # b THEN table[b] = NULL
            ELSE /\ table[b] # NULL /\ table[b].owner = OwnerAfter(b, n)
                 /\ RowSays(b, table[b], n)
        BY DEF TableSays
      <3>6. RowSays(b, table[b], n) => RowSays(b, table[b], n + 1)
        BY <3>2, OtherEvent
      <3> QED
        BY <3>1, <3>3, <3>4, <3>5, <3>6
    <2> QED
      BY <2>1, <2>2
  <1>11. TableSays(new, n + 1)
    BY <1>10 DEF TableSays
  <1> QED
    BY <1>9, <1>11

LEMMA IndexNextKeeps ==
    ASSUME IInv, IndexNext
    PROVE  IInv' /\ AnswerOK' /\ TableSays(rows', Len(indexed'))
  <1>1. PICK n, event, table, new :
          /\ n = Len(indexed)
          /\ event = log[n + 1]
          /\ table = rows
          /\ new = [table EXCEPT ![event.agent] =
                      Handle(Else(table[event.agent], EmptyProfile), event)]
    OBVIOUS
  <1>2. /\ rows' = new /\ indexed' = Append(indexed, clock) /\ answered' = NULL
        /\ clock' = clock /\ log' = log
        /\ providers' = providers /\ cache' = cache /\ calls' = calls
        /\ n < Len(log)
    BY <1>1 DEF IndexNext, getOrCreateProfile
  <1>3. /\ log \in Seq(Event) /\ clock \in Nat /\ indexed \in Seq(Nat) /\ LogOK
        /\ table \in [Agents -> Maybe(Row)] /\ TableSays(table, n)
    BY <1>1 DEF IInv, TypeOK
  <1>4. /\ indexed' \in Seq(Nat) /\ Len(indexed') = n + 1 /\ indexed'[n + 1] = clock
        /\ \A i \in 1..n : indexed'[i] = indexed[i]
    BY <1>1, <1>2, <1>3
  <1>5. n \in Nat /\ Len(log) \in Nat
    BY <1>1, <1>3
  <1>6. n + 1 \in 1..Len(log) /\ n + 1 <= Len(log)
    BY <1>2, <1>5
  <1>7. new \in [Agents -> Maybe(Row)] /\ TableSays(new, n + 1)
    BY <1>1, <1>3, <1>5, <1>6, HandledTable, ZenonT(40)
  <1>8. Grows
    <2>1. ASSUME NEW i \in (n + 1)..Len(indexed') PROVE indexed'[i] = clock
      <3>1. i = n + 1
        BY <1>4, <1>5
      <3> QED
        BY <1>4, <3>1
    <2> QED
      BY <1>1, <1>2, <1>3, <1>4, <1>5, <1>6, <2>1 DEF Grows
  <1>9. TypeOK'
    BY <1>2, <1>4, <1>6, <1>7 DEF IInv, TypeOK
  <1>10. LogOK'
    BY <1>2, <1>3 DEF LogOK
  <1>11. TableSays(rows, Len(indexed))'
    <2>1. PICK m : m = n + 1
      OBVIOUS
    <2>2. m \in 0..Len(log) /\ TableSays(new, m)
      BY <1>5, <1>6, <1>7, <2>1
    <2>3. TableSays(new, m)'
      BY <1>3, <1>8, <2>2, TableStays DEF IInv
    <2> QED
      BY <1>2, <1>4, <2>1, <2>3
  <1>12. ASSUME NEW c \in Calls, Running(c) PROVE clock' <= calls[c].start + MaxCall
    <2>1. CallOK(calls[c])
      BY <1>12 DEF IInv
    <2> QED
      BY <1>2, <2>1 DEF CallOK, Collected
  <1>13. TableSays(rows', Len(indexed'))
    BY <1>2, <1>4, <1>7
  <1> QED
    BY <1>2, <1>8, <1>9, <1>10, <1>11, <1>12, <1>13, WorldKeeps
-----------------------------------------------------------------------------
(* All steps, and the theorems.                                             *)

LEMMA StutterKeeps ==
    ASSUME IInv, AnswerOK, UNCHANGED vars
    PROVE  IInv' /\ AnswerOK'
  <1>1. Still /\ calls' = calls /\ cache' = cache /\ answered' = answered
    BY DEF vars, Still, World
  <1>2. Grows /\ clock' = clock /\ LogOK' /\ TableSays(rows, Len(indexed))'
    BY <1>1, StillGrows DEF IInv
  <1>3. TypeOK'
    BY DEF vars, IInv, TypeOK
  <1>4. CacheOK'
    BY <1>1, <1>2, CacheStays
  <1>5. \A c \in Calls : Running(c)' => CallOK(calls[c])'
    BY <1>1, <1>2, OtherCallsStay DEF Running
  <1>6. log' = log /\ indexed' = indexed /\ providers' = providers
    BY DEF vars
  <1>7. \A a, owner, t : OwnedSince(a, owner, t)' = OwnedSince(a, owner, t)
    BY <1>6 DEF OwnedSince, RegistrySince, IndexSince, LastOf, Said, OwnerAfter
  <1>8. \A a, t : AbsentSince(a, t)' = AbsentSince(a, t)
    BY <1>6 DEF AbsentSince, RegistrySince, IndexSince, Known, LastOf, Said
  <1>9. \A a, s, t : CurrentSince(a, s, t)' = CurrentSince(a, s, t)
    BY <1>6 DEF CurrentSince, RegistrySince, IndexSince, Known, UriAfter, LastOf, Said,
                Giving, Gives, Telling
  <1>11. AnswersAreRecent'
    BY <1>1, <1>7 DEF AnswerOK, AnswersAreRecent, Answered, ReadSince
  <1>12. AbsenceIsReported'
    BY <1>1, <1>8 DEF AnswerOK, AbsenceIsReported, Answered, ReadSince
  <1>13. PayeesAreCurrent'
    BY <1>1, <1>9 DEF AnswerOK, PayeesAreCurrent, Answered, ReadSince
  <1> QED
    BY <1>2, <1>3, <1>4, <1>5, <1>11, <1>12, <1>13 DEF IInv, AnswerOK

LEMMA StepKeeps ==
    ASSUME IInv, NEW c \in Calls, Step(c)
    PROVE  IInv' /\ AnswerOK'
  BY FetchFailsKeeps, RegistryUnsetKeeps, RpcErrorKeeps, OwnerOfKeeps, TokenUriKeeps, GraphqlKeeps, ScanAgentKeeps,
     ScanStatsKeeps, ScanTrustKeeps, ScanSearchKeeps DEF Step

LEMMA NextKeeps ==
    ASSUME IInv, AnswerOK, [Next]_vars
    PROVE  IInv' /\ AnswerOK'
  <1>1. CASE Registry
    BY <1>1, RegistryKeeps
  <1>2. CASE IndexNext
    BY <1>2, IndexNextKeeps
  <1>3. CASE Tick
    BY <1>3, TickKeeps
  <1>4. ASSUME NEW c \in Calls, NEW agent \in Agents, NEW filter \in Filters,
               ResolveAgent(c, agent, filter)
        PROVE  IInv' /\ AnswerOK'
    BY <1>4, ResolveAgentKeeps
  <1>5. ASSUME NEW c \in Calls, NEW filter \in Filters, Search(c, filter)
        PROVE  IInv' /\ AnswerOK'
    BY <1>5, SearchKeeps
  <1>6. ASSUME NEW c \in Calls, Step(c) PROVE IInv' /\ AnswerOK'
    BY <1>6, StepKeeps
  <1>7. CASE UNCHANGED vars
    BY <1>7, StutterKeeps
  <1> QED
    BY <1>1, <1>2, <1>3, <1>4, <1>5, <1>6, <1>7 DEF Next

LEMMA InitKeeps ==
    ASSUME Init
    PROVE  IInv /\ AnswerOK
  <1>1. /\ clock = 0 /\ log = << >> /\ indexed = << >>
        /\ rows = [a \in Agents |-> NULL] /\ cache = [a \in Agents |-> NULL]
        /\ calls = [c \in Calls |-> NULL] /\ answered = NULL /\ providers \in Configurations
    BY DEF Init
  <1>2. log \in Seq(Event) /\ indexed \in Seq(Nat) /\ Len(log) = 0 /\ Len(indexed) = 0
    BY <1>1
  <1>3. TypeOK
    BY <1>1, <1>2 DEF TypeOK, Maybe
  <1>4. LogOK
    BY <1>2 DEF LogOK
  <1>5. TableSays(rows, Len(indexed))
    BY <1>1, <1>2 DEF TableSays
  <1>6. CacheOK /\ \A c \in Calls : ~Running(c)
    BY <1>1 DEF CacheOK, Running
  <1>7. AnswerOK
    BY <1>1 DEF AnswerOK, AnswersAreRecent, AbsenceIsReported, PayeesAreCurrent, Answered
  <1> QED
    BY <1>3, <1>4, <1>5, <1>6, <1>7 DEF IInv

LEMMA InvariantHolds == Spec => [](IInv /\ AnswerOK)
  <1>1. Init => IInv /\ AnswerOK
    BY InitKeeps
  <1>2. IInv /\ AnswerOK /\ [Next]_vars => (IInv /\ AnswerOK)'
    BY NextKeeps
  <1> QED
    BY <1>1, <1>2, PTL DEF Spec

\* Every variable of the directory, the index and the registry stays of its type
\* (client.ts, index.ts of the indexer's handlers).
THEOREM TypeCorrect == Spec => []TypeOK
  <1>1. IInv => TypeOK
    BY DEF IInv
  <1> QED
    BY <1>1, InvariantHolds, PTL

\* The owner in an answer is one the registry or the index named within the
\* time a cached profile lives and a call takes, for any number of agents, calls
\* and events and any list of providers (client.ts, resolveAgent and search).
THEOREM RecentAnswers == Spec => []AnswersAreRecent
  <1>1. AnswerOK => AnswersAreRecent
    BY DEF AnswerOK
  <1> QED
    BY <1>1, InvariantHolds, PTL

\* An agent that is resolved without a filter is answered to be absent only if it
\* was absent not long ago, or if a provider of that very answer took an unset
\* registry, an error of the RPC node or a 404 for absence: a call that fails does
\* not make it so, nor does another caller's filter (client.ts, resolveAgent).
THEOREM ReportedAbsence == Spec => []AbsenceIsReported
  <1>1. AnswerOK => AbsenceIsReported
    BY DEF AnswerOK
  <1> QED
    BY <1>1, InvariantHolds, PTL

\* An endpoint chosen for payment is one the agent had within the time a cached
\* profile lives and a call takes, by the registry or by the index, of a protocol
\* the caller allows, and https where the policy asks for it (client.ts with
\* counterpartyPolicy.ts).
THEOREM CurrentPayees == Spec => []PayeesAreCurrent
  <1>1. AnswerOK => PayeesAreCurrent
    BY DEF AnswerOK
  <1> QED
    BY <1>1, InvariantHolds, PTL

\* Only the indexer's own step moves the table, and it leaves each row as the
\* agent's events said last (EventHandlers.ts).
THEOREM TheIndexFollowsTheLog == Spec => IndexFollowsLog
  <1>1. ASSUME IInv, [Next]_vars, indexed' # indexed PROVE TableSays(rows', Len(indexed'))
    <2>1. ASSUME UNCHANGED World PROVE FALSE
      BY <1>1, <2>1 DEF World
    <2>2. ~UNCHANGED vars /\ ~Tick
      BY <1>1 DEF vars, Tick
    <2>3. ~Registry
      BY <1>1 DEF Registry, Register, TransferAgent, SetAgentUri, SetMetadata, GiveFeedback,
                  RevokeFeedback, Emit
    <2>4. ASSUME NEW c \in Calls PROVE ~Step(c)
      BY <2>1 DEF Step, FetchFails, RegistryUnset, RpcError, OwnerOf, TokenUri, Graphql, ScanAgent, ScanStats,
                  ScanTrust, ScanSearch
    <2>5. ASSUME NEW c \in Calls, NEW agent, NEW filter
          PROVE  ~ResolveAgent(c, agent, filter) /\ ~Search(c, filter)
      BY <2>1 DEF ResolveAgent, Search
    <2>6. IndexNext
      BY <1>1, <2>2, <2>3, <2>4, <2>5 DEF Next
    <2> QED
      BY <1>1, <2>6, IndexNextKeeps
  <1>2. IInv /\ [Next]_vars => [indexed' # indexed => TableSays(rows', Len(indexed'))]_vars
    BY <1>1
  <1> QED
    BY <1>2, InvariantHolds, PTL DEF Spec, IndexFollowsLog
=============================================================================
