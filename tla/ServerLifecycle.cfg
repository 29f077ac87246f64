SPECIFICATION FairSpec
CONSTANTS
    Conns = {c1, c2}
    Addrs = {a1, a2}
    EarlyClose = TRUE
    NoAddr = NoAddr
    NoConn = NoConn
CHECK_DEADLOCK FALSE
INVARIANTS TypeOK NoGhosts UncontestedIsTracked OpenAfterClose
PROPERTIES ServeReturns CloseReturns HandlersEnd
