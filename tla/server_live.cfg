CONSTANTS
    Fds = {f1}
    NoFd = NoFd
    Conns = {c1, c2}
    NoConn = NoConn
    Workers = {w1}
    Backend = "epoll"
    RespLen = 2
    SndBuf = 1
    MaxReqs = 2
    PeerFaults = {"fin"}
SPECIFICATION FairSpec
PROPERTIES
    RequestAnswered
    DepartedPeerReleased
