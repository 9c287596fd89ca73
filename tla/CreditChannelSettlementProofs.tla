-------------------- MODULE CreditChannelSettlementProofs --------------------
(***************************************************************************)
(* What the settlement contract guarantees for any channels, parties and   *)
(* amounts: it holds what its channels escrow, a close that was accepted   *)
(* stays payable, and closes only move forward.                            *)
(***************************************************************************)
EXTENDS CreditChannelSettlement, FiniteSums

\* What the contract keeps true of each channel: its parties are known while
\* it exists, and a close fits the escrow.
Sound(c) ==
    /\ c \in Channel
    /\ c.exists => c.agent \in Agents /\ c.relayer \in Relayers
    /\ c.closing => c.exists
    /\ c.closing => c.closeAvailable + c.closeCumulativeSpent <= c.escrowed
    /\ ~c.exists => c = EmptyChannel

\* No window reaches further than a period from now.
Windowed(c) ==
    c.closing => c.challengeDeadline <= timestamp + ChallengePeriod

\* The inductive invariant.  `held' is only an integer here: that it is never
\* negative follows from EscrowBacked.
ChannelInv ==
    /\ timestamp \in Nat
    /\ held \in Int
    /\ signed \subseteq CreditState
    /\ DOMAIN channels = ChannelIds
    /\ channels = [id \in ChannelIds |-> channels[id]]
    /\ \A id \in ChannelIds : Sound(channels[id]) /\ Windowed(channels[id])

LEMMA EmptySound == Sound(EmptyChannel)
  BY DEF Sound, EmptyChannel, Channel

LEMMA InitChannelInv == Init => ChannelInv
  BY EmptySound DEF Init, ChannelInv, Windowed, EmptyChannel

\* A step that changes one channel to a sound one keeps the invariant.
LEMMA ChannelUpdate ==
  ASSUME ChannelInv, NEW id \in ChannelIds, NEW c, Sound(c), Windowed(c),
         channels' = [channels EXCEPT ![id] = c],
         timestamp' = timestamp, held' \in Int, signed' = signed
  PROVE  ChannelInv'
  BY DEF ChannelInv, Windowed

LEMMA NextChannelInv == ChannelInv /\ [Next]_vars => ChannelInv'
  <1> SUFFICES ASSUME ChannelInv, [Next]_vars PROVE ChannelInv'
    OBVIOUS
  <1>1. ASSUME NEW id \in ChannelIds, NEW agent \in Agents,
               NEW relayer \in Relayers, NEW amount \in TopUps,
               Open(id, agent, relayer, amount)
        PROVE  ChannelInv'
    <2>1. amount \in Nat
      BY ChannelConstants DEF ChannelConstants
    <2> DEFINE c == WithEscrow(Opened(agent, relayer), amount)
    <2>4. /\ Opened(agent, relayer) \in Channel
          /\ Opened(agent, relayer).exists /\ ~Opened(agent, relayer).closing
          /\ Opened(agent, relayer).agent = agent
          /\ Opened(agent, relayer).relayer = relayer
      BY DEF Opened, EmptyChannel, Channel
    <2>2. Sound(c) /\ Windowed(c)
      BY <2>1, <2>4 DEF WithEscrow, Sound, Windowed, Channel
    <2>3. held' \in Int
      BY <1>1, <2>1 DEF Open, ChannelInv
    <2> QED
      BY <1>1, <2>2, <2>3, ChannelUpdate DEF Open
  <1>2. ASSUME NEW id \in ChannelIds, NEW amount \in TopUps, TopUp(id, amount)
        PROVE  ChannelInv'
    <2>1. amount \in Nat /\ Sound(channels[id]) /\ Windowed(channels[id])
      BY ChannelConstants DEF ChannelConstants, ChannelInv
    <2>2. /\ Sound(WithEscrow(channels[id], amount))
          /\ Windowed(WithEscrow(channels[id], amount))
      BY <1>2, <2>1 DEF TopUp, Sound, Windowed, WithEscrow, Channel
    <2>3. held' \in Int
      BY <1>2, <2>1 DEF TopUp, ChannelInv
    <2> QED
      BY <1>2, <2>2, <2>3, ChannelUpdate DEF TopUp
  <1>3. ASSUME NEW id \in ChannelIds, FinalizeClose(id)
        PROVE  ChannelInv'
    <2>1. channels[id] \in Channel /\ held \in Int
      BY DEF ChannelInv, Sound
    <2>2. held' \in Int
      BY <1>3, <2>1 DEF FinalizeClose, PaidToAgent, PaidToRelayer, Channel
    <2> QED
      BY <1>3, <2>2, EmptySound, ChannelUpdate
         DEF FinalizeClose, Windowed, EmptyChannel
  <1>4. ASSUME NEW id \in ChannelIds, NEW seq \in 1..MaxSeq,
               NEW available \in 0..MaxEscrow, CoSign(id, seq, available)
        PROVE  ChannelInv'
    <2> DEFINE s ==
           [channelId |-> id, seq |-> seq, available |-> available,
            cumulativeSpent |-> channels[id].escrowed - available,
            agentAddress |-> channels[id].agent,
            relayerAddress |-> channels[id].relayer]
    <2>1. Sound(channels[id])
      BY DEF ChannelInv
    <2>2. signed' = signed \cup {s}
      BY <1>4 DEF CoSign
    <2>3. channels[id].escrowed - available \in Nat
      BY <1>4, <2>1 DEF CoSign, Sound, Channel
    <2>4. s \in CreditState
      BY <1>4, <2>1, <2>3 DEF CoSign, Sound, CreditState
    <2> QED
      BY <1>4, <2>2, <2>4 DEF CoSign, ChannelInv, Windowed
  <1>5. ASSUME NEW s \in signed, StartClose(s) \/ ChallengeClose(s)
        PROVE  ChannelInv'
    <2>1. s \in CreditState /\ s.channelId \in ChannelIds /\ timestamp \in Nat
      BY DEF ChannelInv, CreditState
    <2>2. Sound(channels[s.channelId])
      BY <2>1 DEF ChannelInv
    <2>3. timestamp + ChallengePeriod \in Nat
      BY <2>1, ChannelConstants DEF ChannelConstants
    <2> DEFINE old == channels[s.channelId]
                  c == WithClose(old, s)
    <2>6. old.exists /\ s.available + s.cumulativeSpent <= old.escrowed
      BY <1>5 DEF StartClose, ChallengeClose, Admissible, StateTotalWithinEscrow
    <2>7. /\ c \in Channel
          /\ c.exists /\ c.agent = old.agent /\ c.relayer = old.relayer
          /\ c.escrowed = old.escrowed
          /\ c.closeAvailable = s.available
          /\ c.closeCumulativeSpent = s.cumulativeSpent
          /\ c.challengeDeadline = timestamp + ChallengePeriod
      BY <2>1, <2>2, <2>3, <2>6 DEF WithClose, Sound, CreditState, Channel
    <2>4. Sound(c) /\ Windowed(c)
      <3> HIDE DEF c
      <3> QED
        BY <2>1, <2>2, <2>3, <2>6, <2>7 DEF Sound, Windowed, CreditState, Channel
    <2>5. /\ channels' = [channels EXCEPT
                            ![s.channelId] = WithClose(channels[s.channelId], s)]
          /\ UNCHANGED <<timestamp, held, signed>>
      BY <1>5 DEF StartClose, ChallengeClose
    <2> QED
      BY <2>1, <2>4, <2>5, ChannelUpdate DEF ChannelInv
  <1>6. CASE Tick
    <2>1. \A id \in ChannelIds : Windowed(channels[id])'
      BY <1>6, ChannelConstants
         DEF ChannelConstants, Tick, ChannelInv, Windowed, Sound, Channel
    <2> QED
      BY <1>6, <2>1 DEF Tick, ChannelInv
  <1>7. CASE UNCHANGED vars
    BY <1>7 DEF vars, ChannelInv, Windowed
  <1> QED
    BY <1>1, <1>2, <1>3, <1>4, <1>5, <1>6, <1>7 DEF Next

\* A close that was accepted can always be finalized: the agent is never due
\* more than the escrow (startClose, challengeClose, openOrTopup).
THEOREM ClosesAreCovered == Spec => []CloseCovered
  <1>1. ChannelInv => CloseCovered
    BY DEF ChannelInv, Sound, CloseCovered
  <1> QED
    BY <1>1, InitChannelInv, NextChannelInv, PTL DEF Spec

LEMMA StepsForward ==
  ASSUME ChannelInv, [Next]_vars, NEW id \in ChannelIds
  PROVE  MovesForward(id)
  <1>1. /\ Sound(channels[id]) /\ Windowed(channels[id])
        /\ timestamp \in Nat /\ held \in Int
        /\ channels = [x \in ChannelIds |-> channels[x]]
    BY DEF ChannelInv
  <1>2. CASE FinalizeClose(id)
    BY <1>1, <1>2 DEF FinalizeClose, WindowClosed, PaidToAgent,
                      PaidToRelayer, Sound, Channel, MovesForward
  <1>3. ASSUME NEW s \in signed, s.channelId = id, ChallengeClose(s)
        PROVE  MovesForward(id)
    <2>1. s.seq \in Nat /\ timestamp + ChallengePeriod \in Nat
      BY <1>1, ChannelConstants
         DEF ChannelInv, CreditState, ChannelConstants
    <2>2. channels'[id] = WithClose(channels[id], s)
      BY <1>1, <1>3 DEF ChallengeClose
    <2> QED
      BY <1>1, <1>3, <2>1, <2>2
         DEF ChallengeClose, SeqHigher, WithClose, Sound, Windowed, Channel,
             MovesForward
  <1>4. ASSUME channels[id].closing, ~FinalizeClose(id),
               ~\E s \in signed : s.channelId = id /\ ChallengeClose(s)
        PROVE  channels'[id] = channels[id]
    <2>1. \A x \in ChannelIds, agent \in Agents, relayer \in Relayers,
             amount \in TopUps :
             Open(x, agent, relayer, amount) => channels'[id] = channels[id]
      BY <1>1, <1>4 DEF Open, Sound
    <2>2. \A x \in ChannelIds, amount \in TopUps :
             TopUp(x, amount) => channels'[id] = channels[id]
      BY <1>1, <1>4 DEF TopUp
    <2>3. \A x \in ChannelIds :
             FinalizeClose(x) => channels'[id] = channels[id]
      BY <1>1, <1>4 DEF FinalizeClose
    <2>4. \A s \in signed : StartClose(s) \/ ChallengeClose(s)
                              => channels'[id] = channels[id]
      BY <1>1, <1>4 DEF StartClose, ChallengeClose
    <2> QED
      BY <1>1, <2>1, <2>2, <2>3, <2>4 DEF Next, CoSign, Tick, vars
  <1> QED
    BY <1>2, <1>3, <1>4 DEF MovesForward

\* Closing channels only move forward, for any number of parties that start,
\* challenge and finalize in any order.
THEOREM ClosesOnlyMoveForward == Spec => ClosesMoveForward
  <1>1. ChannelInv /\ [Next]_vars => [\A id \in ChannelIds : MovesForward(id)]_vars
    BY StepsForward
  <1> QED
    BY <1>1, InitChannelInv, NextChannelInv, PTL
       DEF Spec, ClosesMoveForward

-----------------------------------------------------------------------------
\* Watched windows stay open while there is still something to answer.
Answerable(id) ==
    channels[id].closing /\ Watched(id) /\ Superseded(id)
       => timestamp < channels[id].challengeDeadline
WatchInv == \A id \in ChannelIds : Answerable(id)

LEMMA InitWatchInv == Init => WatchInv
  BY DEF Init, WatchInv, Answerable, EmptyChannel

\* A step that leaves a channel, the signed states about it and the clock
\* alone leaves it answerable.
LEMMA StillAnswerable ==
  ASSUME NEW id \in ChannelIds, Answerable(id), channels'[id] = channels[id],
         timestamp' = timestamp,
         \A s \in signed' : s.channelId = id => s \in signed
  PROVE  Answerable(id)'
  BY DEF Answerable, Watched, Superseded, Admissible, ChannelMatches,
         StateTotalWithinEscrow

LEMMA NextWatchInv == ChannelInv /\ WatchInv /\ [Next]_vars => WatchInv'
  <1> SUFFICES ASSUME ChannelInv, WatchInv, [Next]_vars, NEW id \in ChannelIds
               PROVE  Answerable(id)'
    BY DEF WatchInv
  <1>0. Answerable(id) /\ channels = [x \in ChannelIds |-> channels[x]]
    BY DEF WatchInv, ChannelInv
  <1>1. ASSUME NEW x \in ChannelIds, NEW agent \in Agents,
               NEW relayer \in Relayers, NEW amount \in TopUps,
               Open(x, agent, relayer, amount)
        PROVE  Answerable(id)'
    <2>1. CASE x = id
      <3>1. ~channels'[id].closing
        BY <1>0, <1>1, <2>1 DEF Open, WithEscrow, Opened, EmptyChannel
      <3> QED
        BY <3>1 DEF Answerable
    <2>2. CASE x # id
      BY <1>0, <1>1, <2>2, StillAnswerable DEF Open
    <2> QED
      BY <2>1, <2>2
  <1>2. ASSUME NEW x \in ChannelIds, NEW amount \in TopUps, TopUp(x, amount)
        PROVE  Answerable(id)'
    <2>1. CASE x = id
      <3>1. ~channels'[id].closing
        BY <1>0, <1>2, <2>1 DEF TopUp, WithEscrow, ChannelInv, Sound, Channel
      <3> QED
        BY <3>1 DEF Answerable
    <2>2. CASE x # id
      BY <1>0, <1>2, <2>2, StillAnswerable DEF TopUp
    <2> QED
      BY <2>1, <2>2
  <1>3. ASSUME NEW x \in ChannelIds, FinalizeClose(x)
        PROVE  Answerable(id)'
    <2>1. CASE x = id
      BY <1>0, <1>3, <2>1 DEF FinalizeClose, EmptyChannel, Answerable
    <2>2. CASE x # id
      BY <1>0, <1>3, <2>2, StillAnswerable DEF FinalizeClose
    <2> QED
      BY <2>1, <2>2
  <1>4. ASSUME NEW x \in ChannelIds, NEW seq \in 1..MaxSeq,
               NEW available \in 0..MaxEscrow, CoSign(x, seq, available)
        PROVE  Answerable(id)'
    <2>1. CASE x = id
      BY <1>4, <2>1 DEF CoSign, Answerable
    <2>2. CASE x # id
      BY <1>0, <1>4, <2>2, StillAnswerable DEF CoSign
    <2> QED
      BY <2>1, <2>2
  <1>5. ASSUME NEW s \in signed, StartClose(s) \/ ChallengeClose(s)
        PROVE  Answerable(id)'
    <2>1. s.channelId \in ChannelIds /\ timestamp \in Nat
      BY DEF ChannelInv, CreditState
    <2>2. CASE s.channelId = id
      <3>1. channels[id] \in Channel
        BY DEF ChannelInv, Sound
      <3>2. channels'[id] = WithClose(channels[id], s) /\ timestamp' = timestamp
        BY <1>0, <1>5, <2>2 DEF StartClose, ChallengeClose
      <3>3. channels'[id].challengeDeadline = timestamp + ChallengePeriod
        BY <3>1, <3>2 DEF WithClose, Channel
      <3> QED
        BY <2>1, <3>2, <3>3, ChannelConstants DEF Answerable, ChannelConstants
    <2>3. CASE s.channelId # id
      BY <1>0, <1>5, <2>1, <2>3, StillAnswerable DEF StartClose, ChallengeClose
    <2> QED
      BY <2>2, <2>3
  <1>6. CASE Tick
    <2>1. /\ Watched(id)' <=> Watched(id)
          /\ Superseded(id)' <=> Superseded(id)
      BY <1>6 DEF Tick, Watched, Superseded, Admissible, ChannelMatches,
                  StateTotalWithinEscrow
    <2> QED
      BY <1>6, <2>1 DEF Tick, Answerable
  <1>7. CASE UNCHANGED vars
    BY <1>0, <1>7, StillAnswerable DEF vars
  <1> QED
    BY <1>1, <1>2, <1>3, <1>4, <1>5, <1>6, <1>7 DEF Next

\* Where a party watches, the payout is by the newest state it could show:
\* no window closes before it has been shown (challengeClose, finalizeClose).
THEOREM WatchedClosesAreNewest == Spec => NewestPrevails
  <1> DEFINE Newest(id) ==
        channels[id].closing /\ ~channels'[id].closing /\ Watched(id)
           => ~Superseded(id)
  <1>1. ASSUME ChannelInv, WatchInv, [Next]_vars, NEW id \in ChannelIds
        PROVE  Newest(id)
    <2>1. timestamp \in Nat /\ Sound(channels[id]) /\ Answerable(id)
      BY <1>1 DEF ChannelInv, WatchInv
    <2>2. channels[id].closing /\ ~channels'[id].closing
             => timestamp >= channels[id].challengeDeadline
      BY <1>1, StepsForward DEF MovesForward
    <2> QED
      BY <2>1, <2>2 DEF Answerable, Sound, Channel
  <1>2. ChannelInv /\ WatchInv /\ [Next]_vars
           => [\A id \in ChannelIds : Newest(id)]_vars
    BY <1>1
  <1> QED
    BY <1>2, InitChannelInv, NextChannelInv, InitWatchInv, NextWatchInv, PTL
       DEF Spec, NewestPrevails
-----------------------------------------------------------------------------
(* The escrow *)

\* A step that changes one channel and moves the change of its escrow in or
\* out of the contract keeps the two in balance.
LEMMA EscrowMoves ==
  ASSUME ChannelInv, ChannelInv', EscrowBacked, NEW id \in ChannelIds,
         \A x \in ChannelIds \ {id} : channels'[x] = channels[x],
         held' = held - channels[id].escrowed + channels'[id].escrowed
  PROVE  EscrowBacked'
  <1>1. PICK f : f = [x \in ChannelIds |-> channels[x].escrowed]
    OBVIOUS
  <1>2. PICK h : h = [x \in ChannelIds |-> channels'[x].escrowed]
    OBVIOUS
  <1>3. \A x \in ChannelIds : f[x] \in Int /\ h[x] \in Int
    BY <1>1, <1>2 DEF ChannelInv, Sound, Channel
  <1>4. \A x \in ChannelIds \ {id} : h[x] = f[x]
    BY <1>1, <1>2
  <1>5. SumFunctionOnSet(h, ChannelIds)
           = SumFunctionOnSet(f, ChannelIds) - f[id] + h[id]
    BY <1>3, <1>4, SumChange, ChannelConstants DEF ChannelConstants
  <1>6. held = SumFunctionOnSet(f, ChannelIds)
    BY <1>1 DEF EscrowBacked, SumFunction
  <1>7. held' = SumFunctionOnSet(h, ChannelIds)
    BY <1>1, <1>2, <1>5, <1>6
  <1> QED
    BY <1>2, <1>7 DEF EscrowBacked, SumFunction

LEMMA InitEscrowBacked == Init => EscrowBacked
  <1> SUFFICES ASSUME Init PROVE EscrowBacked
    OBVIOUS
  <1>1. PICK f : f = [x \in ChannelIds |-> channels[x].escrowed]
    OBVIOUS
  <1>2. \A x \in ChannelIds : f[x] = 0
    BY <1>1 DEF Init, EmptyChannel
  <1>3. SumFunctionOnSet(f, ChannelIds) = 0
    BY <1>2, SumOfZeros, ChannelConstants DEF ChannelConstants
  <1> QED
    BY <1>1, <1>3 DEF EscrowBacked, SumFunction, Init

LEMMA NextEscrowBacked ==
  ASSUME ChannelInv, ChannelInv', EscrowBacked, [Next]_vars
  PROVE  EscrowBacked'
  <1>0. /\ held \in Int /\ channels = [x \in ChannelIds |-> channels[x]]
        /\ \A x \in ChannelIds : channels[x] \in Channel
        /\ \A x \in ChannelIds : channels[x].escrowed \in Nat
        /\ TopUps \subseteq Nat
    BY ChannelConstants DEF ChannelConstants, ChannelInv, Sound, Channel
  <1>1. ASSUME NEW id \in ChannelIds, NEW agent \in Agents,
               NEW relayer \in Relayers, NEW amount \in TopUps,
               Open(id, agent, relayer, amount)
        PROVE  EscrowBacked'
    <2>1. channels[id] = EmptyChannel
      BY <1>1 DEF Open, ChannelInv, Sound
    <2>3. Opened(agent, relayer) \in Channel /\ Opened(agent, relayer).escrowed = 0
      BY DEF Opened, EmptyChannel, Channel
    <2>4. amount \in Nat /\ WithEscrow(Opened(agent, relayer), amount).escrowed = amount
      BY <1>0, <2>3 DEF WithEscrow, Channel
    <2>2. channels'[id].escrowed = amount /\ channels[id].escrowed = 0
      BY <1>0, <1>1, <2>1, <2>4 DEF Open, EmptyChannel
    <2> QED
      BY <1>0, <1>1, <2>2, EscrowMoves DEF Open
  <1>2. ASSUME NEW id \in ChannelIds, NEW amount \in TopUps, TopUp(id, amount)
        PROVE  EscrowBacked'
    <2>1. channels'[id].escrowed = channels[id].escrowed + amount
      BY <1>0, <1>2 DEF TopUp, WithEscrow, Channel
    <2> QED
      BY <1>0, <1>2, <2>1, EscrowMoves DEF TopUp
  <1>3. ASSUME NEW id \in ChannelIds, FinalizeClose(id)
        PROVE  EscrowBacked'
    <2>1. channels'[id].escrowed = 0
      BY <1>0, <1>3 DEF FinalizeClose, EmptyChannel
    <2>2. channels[id].closeAvailable \in Nat
      BY <1>0 DEF Channel
    <2>3. held' = held - channels[id].escrowed
      BY <1>0, <1>3, <2>2 DEF FinalizeClose, PaidToAgent, PaidToRelayer
    <2> QED
      BY <1>0, <1>3, <2>1, <2>3, EscrowMoves DEF FinalizeClose
  <1>4. ASSUME NEW s \in signed, StartClose(s) \/ ChallengeClose(s)
        PROVE  EscrowBacked'
    <2>1. s.channelId \in ChannelIds
      BY DEF ChannelInv, CreditState
    <2>2. /\ channels' = [channels EXCEPT
                            ![s.channelId] = WithClose(channels[s.channelId], s)]
          /\ held' = held
      BY <1>4 DEF StartClose, ChallengeClose
    <2>3. channels'[s.channelId].escrowed = channels[s.channelId].escrowed
      BY <1>0, <2>1, <2>2 DEF WithClose, Channel
    <2> QED
      BY <1>0, <2>1, <2>2, <2>3, EscrowMoves
  <1>5. CASE UNCHANGED <<channels, held>>
    BY <1>5 DEF EscrowBacked
  <1> QED
    BY <1>1, <1>2, <1>3, <1>4, <1>5 DEF Next, CoSign, Tick, vars

\* The contract holds what its open channels escrow, whoever opens, tops up
\* and closes which channels and in whatever order: no channel is paid out of
\* another's escrow and nothing is stranded.
THEOREM EscrowIsHeld == Spec => []EscrowBacked
  BY InitChannelInv, NextChannelInv, InitEscrowBacked, NextEscrowBacked, PTL
     DEF Spec

\* What the contract holds is never less than nothing: with the escrow it is
\* a sum over the channels.
THEOREM TypeCorrect == Spec => []TypeOK
  <1>1. ChannelInv /\ EscrowBacked => TypeOK
    <2> SUFFICES ASSUME ChannelInv, EscrowBacked PROVE TypeOK
      OBVIOUS
    <2>1. PICK f : f = [x \in ChannelIds |-> channels[x].escrowed]
      OBVIOUS
    <2>2. \A x \in ChannelIds : channels[x] \in Channel /\ f[x] \in Nat
      BY <2>1 DEF ChannelInv, Sound, Channel
    <2>3. held = SumFunctionOnSet(f, ChannelIds)
      BY <2>1 DEF EscrowBacked, SumFunction
    <2>4. held \in Nat
      BY <2>2, <2>3, SumNatural, ChannelConstants DEF ChannelConstants
    <2> QED
      BY <2>2, <2>4 DEF ChannelInv, TypeOK
  <1> QED
    BY <1>1, InitChannelInv, NextChannelInv, InitEscrowBacked,
       NextEscrowBacked, PTL DEF Spec
=============================================================================
