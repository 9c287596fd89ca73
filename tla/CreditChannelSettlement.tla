----------------------- MODULE CreditChannelSettlement -----------------------
(***************************************************************************)
(* contracts/src/CreditChannelSettlement.sol: relayers escrow credit for   *)
(* agents in channels; a channel is closed with a credit state both have   *)
(* signed, may be challenged with a later one, and pays out when nobody    *)
(* has challenged for challengePeriod.  A call that reverts is a           *)
(* stuttering step.                                                        *)
(*                                                                         *)
(* The signing of credit states happens off chain, in no code of this      *)
(* repository: CoSign stands for it.  The parties number their states      *)
(* upwards, spread no more than the escrow, and do not sign while the      *)
(* channel is closing.  A signature is what its signer is.                 *)
(***************************************************************************)
EXTENDS Integers, FiniteSets, Functions

CONSTANTS
    ChannelIds,
    Agents, Relayers,    \* addresses of the two roles
    NoAddress,           \* address(0)
    ChallengePeriod,     \* challengePeriod
    Watchful,            \* parties that challenge in time
    TopUps,              \* amounts openOrTopup is called with
    MaxEscrow, MaxSeq, MaxTime    \* bounds of the model

ASSUME ChannelConstants ==
    /\ IsFiniteSet(ChannelIds)    \* bytes32
    /\ NoAddress \notin Agents \cup Relayers
    /\ ChallengePeriod \in Nat \ {0}
    /\ TopUps \subseteq Nat \ {0}
    /\ {MaxEscrow, MaxSeq, MaxTime} \subseteq Nat

VARIABLES
    timestamp,   \* block.timestamp
    channels,    \* mapping channels, an empty channel where there is none
    held,        \* what the asset says this contract holds
    signed       \* the credit states both parties have signed

vars == <<timestamp, channels, held, signed>>

CreditState == [channelId: ChannelIds, seq: Nat, available: Nat,
                cumulativeSpent: Nat, agentAddress: Agents,
                relayerAddress: Relayers]
Channel == [exists: BOOLEAN, closing: BOOLEAN,
            agent: Agents \cup {NoAddress}, relayer: Relayers \cup {NoAddress},
            escrowed: Nat, closeSeq: Nat, challengeDeadline: Nat,
            closeAvailable: Nat, closeCumulativeSpent: Nat]

\* What `delete channels[channelId]' leaves.
EmptyChannel ==
    [exists |-> FALSE, closing |-> FALSE, agent |-> NoAddress,
     relayer |-> NoAddress, escrowed |-> 0, closeSeq |-> 0,
     challengeDeadline |-> 0, closeAvailable |-> 0, closeCumulativeSpent |-> 0]

Init ==
    /\ timestamp = 0
    /\ channels = [id \in ChannelIds |-> EmptyChannel]
    /\ held = 0
    /\ signed = {}

-----------------------------------------------------------------------------
(* openOrTopup: msg.sender is the relayer. *)

Opened(agent, relayer) ==
    [EmptyChannel EXCEPT !.exists = TRUE, !.agent = agent, !.relayer = relayer]

WithLastPayment(channel, amount) == [channel EXCEPT !.escrowed = amount]
WithEscrow(channel, amount) == [channel EXCEPT !.escrowed = @ + amount]

Open(id, agent, relayer, amount) ==
    /\ ~channels[id].exists
    /\ held + amount <= MaxEscrow
    /\ channels' = [channels EXCEPT
                      ![id] = WithEscrow(Opened(agent, relayer), amount)]
    /\ held' = held + amount
    /\ UNCHANGED <<timestamp, signed>>

TopUp(id, amount) ==
    /\ channels[id].exists /\ ~channels[id].closing
    /\ held + amount <= MaxEscrow
    /\ channels' = [channels EXCEPT ![id] = WithEscrow(@, amount)]
    /\ held' = held + amount
    /\ UNCHANGED <<timestamp, signed>>

-----------------------------------------------------------------------------
(* startClose, challengeClose, finalizeClose *)

ChannelMatches(channel, s) ==
    channel.agent = s.agentAddress /\ channel.relayer = s.relayerAddress

AvailableWithinEscrow(channel, s) == s.available <= channel.escrowed
StateTotalWithinEscrow(channel, s) ==
    s.available + s.cumulativeSpent <= channel.escrowed

\* The checks startClose and challengeClose share: both signatures, the
\* parties, the totals.
Admissible(s) ==
    /\ channels[s.channelId].exists
    /\ s \in signed
    /\ ChannelMatches(channels[s.channelId], s)
    /\ StateTotalWithinEscrow(channels[s.channelId], s)

WithClose(channel, s) ==
    [channel EXCEPT !.closing = TRUE, !.closeSeq = s.seq,
                    !.closeAvailable = s.available,
                    !.closeCumulativeSpent = s.cumulativeSpent,
                    !.challengeDeadline = timestamp + ChallengePeriod]

\* Model bound: a close starts only if the clock can still see it end.
ClockHasRoom == timestamp + ChallengePeriod * MaxSeq <= MaxTime

StartClose(s) ==
    /\ ClockHasRoom
    /\ Admissible(s)
    /\ ~channels[s.channelId].closing
    /\ channels' = [channels EXCEPT ![s.channelId] = WithClose(@, s)]
    /\ UNCHANGED <<timestamp, held, signed>>

SeqNotLower(channel, s) == s.seq >= channel.closeSeq
SeqHigher(channel, s) == s.seq > channel.closeSeq

ChallengeClose(s) ==
    /\ Admissible(s)
    /\ channels[s.channelId].closing
    /\ timestamp < channels[s.channelId].challengeDeadline
    /\ SeqHigher(channels[s.channelId], s)
    /\ channels' = [channels EXCEPT ![s.channelId] = WithClose(@, s)]
    /\ UNCHANGED <<timestamp, held, signed>>

WindowClosing(channel) == timestamp + 1 >= channel.challengeDeadline
WindowClosed(channel) == timestamp >= channel.challengeDeadline

PaidToAgent(channel) == channel.closeAvailable
PaidToRelayer(channel) == channel.escrowed - channel.closeAvailable

FinalizeClose(id) ==
    /\ channels[id].exists /\ channels[id].closing
    /\ WindowClosed(channels[id])
    /\ PaidToAgent(channels[id]) <= channels[id].escrowed
    /\ channels' = [channels EXCEPT ![id] = EmptyChannel]
    /\ held' = held - PaidToAgent(channels[id]) - PaidToRelayer(channels[id])
    /\ UNCHANGED <<timestamp, signed>>

-----------------------------------------------------------------------------
(* The parties and the clock *)

SeqIsNew(id, seq) == \A s \in signed : s.channelId = id => s.seq < seq

CoSign(id, seq, available) ==
    LET channel == channels[id]
    IN  /\ channel.exists /\ ~channel.closing
        /\ SeqIsNew(id, seq)
        /\ available <= channel.escrowed
        /\ signed' = signed \cup
              {[channelId |-> id, seq |-> seq, available |-> available,
                cumulativeSpent |-> channel.escrowed - available,
                agentAddress |-> channel.agent,
                relayerAddress |-> channel.relayer]}
        /\ UNCHANGED <<timestamp, channels, held>>

\* A later state that would be accepted, had its owner called in time.
Superseded(id) ==
    \E s \in signed :
        /\ s.channelId = id /\ Admissible(s)
        /\ s.seq > channels[id].closeSeq

Watched(id) == {channels[id].agent, channels[id].relayer} \cap Watchful # {}

\* Time passes; a watchful party does not let a window close on it.
Tick ==
    /\ timestamp < MaxTime
    /\ \A id \in ChannelIds :
          channels[id].closing /\ Watched(id) /\ Superseded(id)
             => timestamp + 1 < channels[id].challengeDeadline
    /\ timestamp' = timestamp + 1
    /\ UNCHANGED <<channels, held, signed>>

Next ==
    \/ \E id \in ChannelIds :
          \/ \E agent \in Agents, relayer \in Relayers, amount \in TopUps :
                Open(id, agent, relayer, amount)
          \/ \E amount \in TopUps : TopUp(id, amount)
          \/ FinalizeClose(id)
          \/ \E seq \in 1..MaxSeq, available \in 0..MaxEscrow :
                CoSign(id, seq, available)
    \/ \E s \in signed : StartClose(s) \/ ChallengeClose(s)
    \/ Tick

Spec == Init /\ [][Next]_vars

\* Blocks come, anybody may finalize, and a watchful party challenges.
Fairness ==
    /\ WF_vars(Tick)
    /\ \A id \in ChannelIds :
          /\ WF_vars(FinalizeClose(id))
          /\ WF_vars(\E s \in signed : s.channelId = id /\ Watched(id)
                                       /\ ChallengeClose(s))

FairSpec == Spec /\ Fairness

-----------------------------------------------------------------------------
TypeOK ==
    /\ timestamp \in Nat
    /\ channels \in [ChannelIds -> Channel]
    /\ held \in Nat
    /\ signed \subseteq CreditState

\* The contract holds exactly what its open channels escrow: no channel is
\* paid out of another's escrow, and nothing is stranded by a close.
EscrowBacked ==
    held = SumFunction([id \in ChannelIds |-> channels[id].escrowed])

\* A close that was accepted can always be finalized: top-ups, challenges and
\* the two checks of the totals never leave a channel whose agent is due more
\* than its escrow (finalizeClose would revert InvalidStateTotals for ever).
CloseCovered ==
    \A id \in ChannelIds :
        LET c == channels[id]
        IN  /\ c.closing => c.exists
            /\ c.closing => c.closeAvailable + c.closeCumulativeSpent <= c.escrowed
            /\ ~c.exists => c = EmptyChannel

\* While a channel closes, its close state only moves to a later sequence
\* number and its parties and escrow stay; it ends in a payout, and not before
\* the deadline the last state set.
MovesForward(id) ==
    channels[id].closing =>
       \/ channels'[id] = channels[id]
       \/ /\ channels'[id].closing
          /\ channels'[id].closeSeq > channels[id].closeSeq
          /\ channels'[id].challengeDeadline >= channels[id].challengeDeadline
          /\ channels'[id].escrowed = channels[id].escrowed
          /\ channels'[id].agent = channels[id].agent
          /\ channels'[id].relayer = channels[id].relayer
       \/ /\ channels'[id] = EmptyChannel
          /\ timestamp >= channels[id].challengeDeadline
          /\ held' = held - channels[id].escrowed

ClosesMoveForward == [][\A id \in ChannelIds : MovesForward(id)]_vars

\* The newest state prevails: where a party watches, no channel pays out on a
\* state older than the newest one the parties signed within the escrow.
NewestPrevails ==
    [][\A id \in ChannelIds :
          channels[id].closing /\ ~channels'[id].closing /\ Watched(id)
             => ~Superseded(id)
      ]_vars

\* Closing ends: challenges cannot go on for ever, so every channel that
\* starts to close pays out.
EveryCloseSettles ==
    \A id \in ChannelIds : channels[id].closing ~> ~channels[id].closing
=============================================================================
