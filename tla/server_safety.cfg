CONSTANTS
    Fds = {f1, f2}
    NoFd = NoFd
    Conns = {c1, c2}
    NoConn = NoConn
    Workers = {w1, w2}
    Backend = "kqueue"
    RespLen = 2
    SndBuf = 1
    MaxReqs = 2
    PeerFaults = {"fin", "reset", "fin_reset"}
SPECIFICATION Spec
SYMMETRY Symmetry
CHECK_DEADLOCK FALSE
INVARIANTS
    TypeOK
    SingleCustodian
    ArmedForWhatIsNeeded
    ConnectionOutlivesHandler
    ParserIsFed
    NothingOwedWhileReading
