----------------------------- MODULE WireFormats -----------------------------
(***************************************************************************)
(* What is signed and what is hashed, seen from the side of who checks it: *)
(* a signature or a hash is worth something when it stands for one         *)
(* message.  The state is an epoch of the log, or one message made by its  *)
(* party; whichever it is, it is compared with all others.                 *)
(*                                                                         *)
(* Ed25519 signs the SHA-256 of the canonical bytes, which do not say of   *)
(* what kind the message is; only the filed hashes are tagged.             *)
(***************************************************************************)
EXTENDS MerkleProofs, CanonicalBytes

CONSTANTS
    Intents, Reclaims, Authorizations, Reports,   \* what the parties sign
    AuthIds, LeafInputs,   \* what ids and leaves are derived from
    Merchants    \* services at their endpoints, [serviceRegistryId, url]

\* What the encoders take; a reclaim that is verified names the agent, and is
\* signed in the agent's scheme.
ASSUME MessageAssumption ==
    /\ Intents \subseteq IntentV1
    /\ Reclaims \subseteq [signatureScheme: SignatureScheme, request: ReclaimRequestV1]
    /\ \A r \in Reclaims : r.request.agentId # NULL
    /\ Authorizations \subseteq AuthorizationV1
    /\ Reports \subseteq ExecutionReportV1
    /\ AuthIds \subseteq AuthorizationIdInput
    /\ LeafInputs \subseteq AuthorizationLeafInput

\* new URL() leaves no slash in a host and one at the start of a path; the colons
\* of a host are those of an IPv6 address, which no port follows without its
\* bracket; no service is registered under one of the domain tags.
ASSUME MerchantAssumption ==
    \A merchant \in Merchants :
        /\ merchant \in [serviceRegistryId: Seq(Nat), url: Url]
        /\ \A other \in Merchants :
              LET host == merchant.url.host
              IN  Len(host) > 1 /\ host[Len(host) - 1] = Colon =>
                     host[Len(host)] # other.url.port
        /\ \A tag \in {Tag.intentV1, Tag.authorizationV1, Tag.authLeafV1,
                       Tag.executionReportV1} :
              Len(tag) <= Len(merchant.serviceRegistryId) =>
                 SubSeq(merchant.serviceRegistryId \o <<0>>, 1, Len(tag) + 1)
                    # tag \o <<0>>

VARIABLE message

wireVars == <<leaves, message>>

Of(kind, bodies) == {[kind |-> kind, body |-> body] : body \in bodies}

Signed ==
    Of("intent", Intents) \cup Of("reclaim", Reclaims)
    \cup Of("authorization", Authorizations) \cup Of("report", Reports)
Messages ==
    Signed \cup Of("authId", AuthIds) \cup Of("leaf", LeafInputs)
    \cup Of("merchant", Merchants)

\* Whose key signs it.  A server may have one key under two ids.
AgentOf(m) == IF m.kind = "intent" THEN m.body.agentId ELSE m.body.request.agentId
SignerOf(m) ==
    CASE m.kind \in {"intent", "reclaim"} -> <<m.body.signatureScheme, AgentOf(m)>>
      [] m.kind = "authorization" -> <<"sequencer">>
      [] m.kind = "report" -> <<"relayer">>

\* What the key signs, as the verifier rebuilds it.
IntentPayload(intent) ==
    IF intent.signatureScheme = "eip712-secp256k1" THEN IntentTypedData(intent)
                                                  ELSE CanonicalIntentBytes(intent)
ReclaimPayload(scheme, request) ==
    IF scheme = "eip712-secp256k1" THEN ReclaimTypedData(request)
                                   ELSE CanonicalReclaimRequestBytes(request)
AuthorizationPayload(auth) == CanonicalAuthorizationBytes(auth)
ReportPayload(report) == CanonicalExecutionReportBytes(report)

Payload(m) ==
    CASE m.kind = "intent" -> IntentPayload(m.body)
      [] m.kind = "reclaim" -> ReclaimPayload(m.body.signatureScheme, m.body.request)
      [] m.kind = "authorization" -> AuthorizationPayload(m.body)
      [] m.kind = "report" -> ReportPayload(m.body)

\* The hashes it is filed under.
Digests(m) ==
    CASE m.kind = "intent" -> {HashIntent(m.body)}
      [] m.kind = "reclaim" -> {}
      [] m.kind = "authorization" -> {HashAuthorization(m.body)}
      [] m.kind = "authId" -> {DeriveAuthorizationId(m.body)}
      [] m.kind = "report" -> {HashExecutionReport(m.body)}
      [] m.kind = "leaf" -> {ComputeAuthorizationLeaf(m.body)}
      [] m.kind = "merchant" -> {DeriveMerchantId(m.body)}

-----------------------------------------------------------------------------
FormatsInit == NoLeaves /\ message = NULL

Make(m) ==
    /\ leaves = << >> /\ message = NULL
    /\ message' = m
    /\ UNCHANGED leaves

GrowEpoch == message = NULL /\ Growing /\ UNCHANGED message

FormatsNext == GrowEpoch \/ \E m \in Messages : Make(m)

FormatsSpec == FormatsInit /\ [][FormatsNext]_wireVars

-----------------------------------------------------------------------------

\* Intents with the same typed data: a hash left out is shown as the zero hash.
SameIntent(i, j) ==
    IF i.signatureScheme = "eip712-secp256k1"
    THEN [i EXCEPT !.serviceHash = OrZero(@), !.memoHash = OrZero(@)]
         = [j EXCEPT !.serviceHash = OrZero(@), !.memoHash = OrZero(@)]
    ELSE i = j

SameBody(kind, a, b) == IF kind = "intent" THEN SameIntent(a, b) ELSE a = b

\* What a key signed for one message it signs for no other message of its
\* holder: an agent's reclaim is never an intent, and no field of variable
\* length runs over into the next.
SignatureStandsFor(m) ==
    \A n \in Signed :
        SignerOf(n) = SignerOf(m) /\ Payload(n) = Payload(m) =>
            n.kind = m.kind /\ SameBody(m.kind, n.body, m.body)

\* Two names of one endpoint.
SamePort(p, q) == p = q \/ {p, q} \subseteq {NULL, 443}
SamePath(p, q) == p = q \/ p = Append(q, Slash) \/ q = Append(p, Slash)
SameMerchant(a, b) ==
    /\ a.serviceRegistryId = b.serviceRegistryId /\ a.url.host = b.url.host
    /\ SamePort(a.url.port, b.url.port) /\ SamePath(a.url.path, b.url.path)

SameEntry(kind, a, b) == IF kind = "merchant" THEN SameMerchant(a, b) ELSE a = b

DigestStandsFor(m) ==
    \A n \in Messages :
        Digests(n) \cap Digests(m) # {} =>
            n.kind = m.kind /\ SameEntry(m.kind, n.body, m.body)

\* A signature shows one message, up to what a wallet cannot tell apart, and a
\* hash under which the servers file something is the hash of that thing alone,
\* also where an authorization and its id share a domain tag: what is verified
\* or looked up is what was signed or stored.
BytesStandForOneMessage ==
    message # NULL =>
        /\ message \in Signed => SignatureStandsFor(message)
        /\ DigestStandsFor(message)
=============================================================================
