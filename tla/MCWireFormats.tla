---------------------------- MODULE MCWireFormats ----------------------------
(***************************************************************************)
(* Epochs of a few leaves, and messages for TLC that share all but a field *)
(* or two, with texts that are prefixes and suffixes of each other.        *)
(***************************************************************************)
EXTENDS WireFormats, TLC

HashValues == {<<0, 0>>, <<0, 1>>}
Numbers == {0, 1}
Texts == {<<1>>, <<1, 1>>, <<2, 1>>}

\* A record and those that differ from it in one field.
Variants(record, changed) ==
    {record} \cup {[record EXCEPT ![field] = changed[field]] : field \in DOMAIN changed}

\* Two agents with Ed25519 keys, two with addresses.
Agent(scheme, key, id) == [scheme |-> scheme, key |-> key, id |-> id]
MCAgents ==
    {Agent("ed25519-sha256-v1", <<1, 2>>, <<0, 1>>),
     Agent("ed25519-sha256-v1", <<2, 1>>, <<1, 0>>),
     Agent("eip712-secp256k1", <<1>>, <<1, 1>>),
     Agent("eip712-secp256k1", <<2>>, <<1, 2>>)}

OptionalHashes == HashValues \cup {NULL}
MCIntents ==
    UNION {Variants(
              [agentId |-> a.id, agentPubKey |-> a.key, signatureScheme |-> a.scheme,
               agentNonce |-> 0, amountMicros |-> 0, merchantId |-> <<0, 0>>,
               requiredChainRef |-> chainRef, expiresAt |-> 0,
               requestId |-> <<0, 0>>, serviceHash |-> s, memoHash |-> h],
              [agentNonce |-> 1, amountMicros |-> 1, merchantId |-> <<0, 1>>,
               expiresAt |-> 1, requestId |-> <<0, 1>>]) :
           a \in MCAgents, chainRef \in Texts, s, h \in OptionalHashes}

MCReclaims ==
    {[signatureScheme |-> a.scheme,
      request |-> [authId |-> id, callerType |-> c, agentId |-> a.id,
                   requestedAt |-> n]] :
        a \in MCAgents, id \in HashValues, c \in {"agent", "sequencer"}, n \in Numbers}

MCAuthorizations ==
    UNION {Variants(
              [intentId |-> <<0, 0>>, authId |-> <<0, 0>>,
               authorizedAmountMicros |-> 0, agentId |-> <<0, 0>>,
               agentNonce |-> 0, merchantId |-> <<0, 0>>, chainRef |-> chainRef,
               issuedAt |-> 0, expiresAt |-> 0, sequencerEpochHint |-> 0,
               logSeqNo |-> 0, sequencerKeyId |-> keyId],
              [intentId |-> <<0, 1>>, authId |-> <<0, 1>>,
               authorizedAmountMicros |-> 1, agentId |-> <<0, 1>>,
               agentNonce |-> 1, merchantId |-> <<0, 1>>, issuedAt |-> 1,
               expiresAt |-> 1, sequencerEpochHint |-> 1, logSeqNo |-> 1]) :
           chainRef, keyId \in Texts}

MCReports ==
    UNION {Variants(
              [authId |-> <<0, 0>>, chainRef |-> chainRef, executionTxHash |-> tx,
               status |-> "SUCCESS", reportId |-> <<0, 0>>, reportedAt |-> 0,
               relayerKeyId |-> keyId],
              [authId |-> <<0, 1>>, status |-> "FAILED", reportId |-> <<0, 1>>,
               reportedAt |-> 1]) :
           chainRef, tx, keyId \in Texts}

MCAuthIds ==
    [intentId: HashValues, sequencerEpoch: Numbers, seqNo: Numbers]
MCLeafInputs ==
    [logSeqNo: Numbers, prevLeafHash: HashValues, authHash: HashValues,
     salt: HashValues]

MCUrls ==
    [host: {<<3>>, <<3, 3>>}, port: {NULL, 443, 3},
     path: {<<1>>, <<1, 1>>, <<1, 3>>, <<1, 3, 1>>, <<1, 3, 1, 1>>}]
MCMerchants == [serviceRegistryId: {<<2>>, <<2, 0>>, <<2, 0, 3>>}, url: MCUrls]
=============================================================================
