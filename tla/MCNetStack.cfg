SPECIFICATION Spec
CONSTANTS
    Dests <- TwoPeers
    Wire <- Frames
    hostIp <- HostIp
    Garbage <- Memory
    MaxUdp = 3
    MaxIn = 3
INVARIANTS TypeOK TableBeforeInterrupts NotToAnotherHost AnswerIsFound QueryFirst HeaderSumsUp
PROPERTY SendEnds
CHECK_DEADLOCK FALSE
