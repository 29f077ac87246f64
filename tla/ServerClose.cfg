SPECIFICATION FairSpec
CONSTANTS
    Conns = {c1, c2}
    Addrs = {a1, a2}
    EarlyClose = FALSE
    NoAddr = NoAddr
    NoConn = NoConn
CHECK_DEADLOCK FALSE
PROPERTIES CloseStopsServer
