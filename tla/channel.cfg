SPECIFICATION FairSpec
CONSTANTS
    agent1 = agent1  agent2 = agent2  relayer1 = relayer1
    NoAddress = NoAddress
    ChannelIds = {ch1, ch2}
    Agents = {agent1, agent2}
    Relayers = {relayer1}
    Watchful = {agent1}
    ChallengePeriod = 2
    TopUps = {1}
    MaxEscrow = 2
    MaxSeq = 2
    MaxTime = 6
INVARIANTS
    EscrowBacked
    CloseCovered
PROPERTIES
    ClosesMoveForward
    NewestPrevails
    EveryCloseSettles
CHECK_DEADLOCK FALSE
