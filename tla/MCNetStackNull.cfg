SPECIFICATION Spec
CONSTANTS
    Dests <- TwoPeers
    Wire <- Frames
    hostIp <- HostIp
    Garbage <- Memory
    MaxUdp = 1
    MaxIn = 1
INVARIANT IpToMacResult
CHECK_DEADLOCK FALSE
