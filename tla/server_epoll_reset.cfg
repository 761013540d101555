CONSTANTS
    Fds = {f1}
    NoFd = NoFd
    Conns = {c1}
    NoConn = NoConn
    Workers = {w1}
    Backend = "epoll"
    RespLen = 2
    SndBuf = 1
    MaxReqs = 1
    PeerFaults = {"reset"}
SPECIFICATION Spec
INVARIANT
    ConnectionOutlivesHandler
