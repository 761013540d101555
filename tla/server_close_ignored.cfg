CONSTANTS
    Fds = {f1}
    NoFd = NoFd
    Conns = {c1}
    NoConn = NoConn
    Workers = {w1}
    Backend = "kqueue"
    RespLen = 2
    SndBuf = 1
    MaxReqs = 2
    PeerFaults = {}
SPECIFICATION Spec
INVARIANT
    CloseIsHonoured
