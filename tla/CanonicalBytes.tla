--------------------------- MODULE CanonicalBytes ---------------------------
(***************************************************************************)
(* What the parties sign and hash: the canonical encodings of              *)
(* packages/shared-types/src/sequencer.ts, byte for byte, in a narrower    *)
(* format.  A byte is a digit below Base, a hash has HashWidth of them, a  *)
(* number Uint64Width, the length of a text Uint16Width.                   *)
(*                                                                         *)
(* SHA-256 has no collisions: bytes stand for their digest, and hashes     *)
(* inside a message are any values of their width.                         *)
(***************************************************************************)
EXTENDS Integers, Sequences

CONSTANTS Base, HashWidth, Uint64Width, Uint16Width,
          NULL   \* an optional field left out

ASSUME WidthAssumption ==
    /\ Base \in Nat \ 0..3
    /\ {HashWidth, Uint64Width, Uint16Width} \subseteq Nat \ {0}
    /\ NULL \notin [1..HashWidth -> 0..(Base - 1)] /\ NULL \notin Nat

\* Spans(width)[w] is Base to the power of w; Digits(width)[w][n] are the last w
\* digits of n.
Spans(width) ==
    LET span[w \in 0..width] == IF w = 0 THEN 1 ELSE Base * span[w - 1]
    IN  span
Digits(width) ==
    LET digits[w \in 0..width] ==
            [n \in Nat |-> IF w = 0 THEN << >>
                           ELSE Append(digits[w - 1][n \div Base], n % Base)]
    IN  digits

\* What can be encoded: the code throws at anything else.
Byte == 0..(Base - 1)
Hex32 == [1..HashWidth -> Byte]
Uint64 == {n \in Nat : n < Spans(Uint64Width)[Uint64Width]}
Text == {bytes \in Seq(Byte) : Len(bytes) < Spans(Uint16Width)[Uint16Width]}

BigEndian(n, width) == Digits(width)[width][n]

EncodeU8(n) == <<n>>
EncodeU16(n) == BigEndian(n, Uint16Width)
EncodeU64(n) == BigEndian(n, Uint64Width)
EncodeHex32(hash) == hash
ZeroHash == BigEndian(0, HashWidth)

EncodeBytes(bytes) == EncodeU16(Len(bytes)) \o bytes
Unprefixed(text) == text
EncodeUtf8WithU16Length(text) == EncodeU16(Len(text)) \o text

-----------------------------------------------------------------------------
(* Messages *)

SignatureScheme == {"eip712-secp256k1", "ed25519-sha256-v1"}

IntentV1 ==
    [agentId: Hex32, agentPubKey: Text, signatureScheme: SignatureScheme,
     agentNonce: Uint64, amountMicros: Uint64, merchantId: Hex32,
     requiredChainRef: Text, expiresAt: Uint64, requestId: Hex32,
     serviceHash: Hex32 \cup {NULL}, memoHash: Hex32 \cup {NULL}]
AuthorizationV1 ==
    [intentId: Hex32, authId: Hex32, authorizedAmountMicros: Uint64,
     agentId: Hex32, agentNonce: Uint64, merchantId: Hex32, chainRef: Text,
     issuedAt: Uint64, expiresAt: Uint64, sequencerEpochHint: Uint64,
     logSeqNo: Uint64, sequencerKeyId: Text]
ExecutionReportV1 ==
    [authId: Hex32, chainRef: Text, executionTxHash: Text,
     status: {"SUCCESS", "FAILED"}, reportId: Hex32, reportedAt: Uint64,
     relayerKeyId: Text]
ReclaimRequestV1 ==
    [authId: Hex32, callerType: {"agent", "sequencer"},
     agentId: Hex32 \cup {NULL}, requestedAt: Uint64]
AuthorizationIdInput == [intentId: Hex32, sequencerEpoch: Uint64, seqNo: Uint64]
AuthorizationLeafInput ==
    [logSeqNo: Uint64, prevLeafHash: Hex32, authHash: Hex32, salt: Hex32]

SchemeCode(scheme) == IF scheme = "eip712-secp256k1" THEN 1 ELSE 2
StatusCode(status) == IF status = "SUCCESS" THEN 1 ELSE 2
CallerTypeCode(callerType) == IF callerType = "agent" THEN 1 ELSE 2

OptionalBitmap(intent) ==
    (IF intent.serviceHash = NULL THEN 0 ELSE 1)
    + (IF intent.memoHash = NULL THEN 0 ELSE 2)

Optional(hash) == IF hash = NULL THEN << >> ELSE EncodeHex32(hash)

CanonicalIntentBytes(intent) ==
    EncodeU8(1) \o EncodeHex32(intent.agentId)
    \o EncodeU8(SchemeCode(intent.signatureScheme))
    \o EncodeBytes(intent.agentPubKey)
    \o EncodeU64(intent.agentNonce) \o EncodeU64(intent.amountMicros)
    \o EncodeHex32(intent.merchantId)
    \o EncodeUtf8WithU16Length(intent.requiredChainRef)
    \o EncodeU64(intent.expiresAt) \o EncodeHex32(intent.requestId)
    \o EncodeU8(OptionalBitmap(intent))
    \o Optional(intent.serviceHash) \o Optional(intent.memoHash)

CanonicalAuthorizationBytes(auth) ==
    EncodeU8(1) \o EncodeHex32(auth.intentId) \o EncodeHex32(auth.authId)
    \o EncodeU64(auth.authorizedAmountMicros) \o EncodeHex32(auth.agentId)
    \o EncodeU64(auth.agentNonce) \o EncodeHex32(auth.merchantId)
    \o EncodeUtf8WithU16Length(auth.chainRef)
    \o EncodeU64(auth.issuedAt) \o EncodeU64(auth.expiresAt)
    \o EncodeU64(auth.sequencerEpochHint) \o EncodeU64(auth.logSeqNo)
    \o EncodeUtf8WithU16Length(auth.sequencerKeyId)

CanonicalExecutionReportBytes(report) ==
    EncodeHex32(report.authId)
    \o EncodeUtf8WithU16Length(report.chainRef)
    \o EncodeUtf8WithU16Length(report.executionTxHash)
    \o EncodeU8(StatusCode(report.status)) \o EncodeHex32(report.reportId)
    \o EncodeU64(report.reportedAt)
    \o EncodeUtf8WithU16Length(report.relayerKeyId)

CanonicalReclaimRequestBytes(request) ==
    EncodeHex32(request.authId) \o EncodeU8(CallerTypeCode(request.callerType))
    \o (IF request.agentId = NULL THEN EncodeU16(0)
        ELSE EncodeU16(HashWidth) \o EncodeHex32(request.agentId))
    \o EncodeU64(request.requestedAt)

-----------------------------------------------------------------------------
(* Digests *)

\* The UTF-8 of the domain tags: distinct texts without a zero byte, as is "id".
Tag == [intentV1 |-> <<1, 1>>, authorizationV1 |-> <<1, 2>>,
        authLeafV1 |-> <<1, 3>>, executionReportV1 |-> <<1, 2, 1>>]
IdText == <<3, 2>>

HashWithTag(tag, payload) == tag \o <<0>> \o payload

HashIntent(intent) == HashWithTag(Tag.intentV1, CanonicalIntentBytes(intent))
HashAuthorization(auth) ==
    HashWithTag(Tag.authorizationV1, CanonicalAuthorizationBytes(auth))
HashExecutionReport(report) ==
    HashWithTag(Tag.executionReportV1, CanonicalExecutionReportBytes(report))

DeriveAuthorizationId(input) ==
    HashWithTag(Tag.authorizationV1,
                IdText \o EncodeHex32(input.intentId)
                \o EncodeU64(input.sequencerEpoch) \o EncodeU64(input.seqNo))

ComputeAuthorizationLeaf(input) ==
    HashWithTag(Tag.authLeafV1,
                EncodeU64(input.logSeqNo) \o EncodeHex32(input.prevLeafHash)
                \o EncodeHex32(input.authHash) \o EncodeHex32(input.salt))

\* The parts of an https URL that count: neither its query nor its user.  Port
\* 443 is the default, and one slash at the end of a path is dropped.
Slash == 1
Colon == 2
Url == [host: Seq(Nat \ {0, Slash}), port: (Nat \ {0, Slash}) \cup {NULL},
        path: {path \in Seq(Nat \ {0}) : Len(path) > 0 /\ path[1] = Slash}]
NormalizedPort(port) == IF port \in {NULL, 443} THEN << >> ELSE <<Colon, port>>
NormalizedPath(path) ==
    IF Len(path) > 1 /\ path[Len(path)] = Slash
    THEN SubSeq(path, 1, Len(path) - 1) ELSE path
NormalizeMerchantEndpointUrl(url) ==
    url.host \o NormalizedPort(url.port) \o NormalizedPath(url.path)

\* A URL holds no zero byte; the registry id is any text.
DeriveMerchantId(input) ==
    input.serviceRegistryId \o <<0>> \o NormalizeMerchantEndpointUrl(input.url)

-----------------------------------------------------------------------------
(* EIP-712, whose structured hash has no collisions either *)

OrZero(hash) == IF hash = NULL THEN ZeroHash ELSE hash

IntentTypedData(intent) ==
    [domain |-> Tag.intentV1, primaryType |-> "IntentV1",
     message |-> [intent EXCEPT !.serviceHash = OrZero(@), !.memoHash = OrZero(@)]]

ReclaimTypedData(request) ==
    [domain |-> Tag.authorizationV1, primaryType |-> "ReclaimV1",
     message |-> [request EXCEPT !.agentId = OrZero(@)]]
=============================================================================
