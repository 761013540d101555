CONSTANTS
    Fds = {f1, f2}
    NoFd = NoFd
    Conns = {c1, c2}
    NoConn = NoConn
    Workers = {w1}
    Backend = "epoll"
    RespLen = 2
    SndBuf = 1
    MaxReqs = 1
    PeerFaults = {"fin"}
    UpstreamFaults = {"unhealthy", "fails", "broken_pipe"}
    UpstreamHeaders = {"none", "close", "keep-alive"}
SPECIFICATION FairBalancerSpec
CHECK_DEADLOCK FALSE
INVARIANTS
    UpstreamSocketIsPrivate
    CloseIsHonoured
    EndIsExpected
PROPERTIES
    RequestAnswered
