CONSTANTS
    Accounts = {u1}
    Peers = {p1, p2}
    Rooms = {r1}
    Members = {m1}
    Hosts = {h1}
    Nodes = {n1, n2}
    ItemNodes = {n1}
    Items = {i1}
    Vals = {v1, v2}
    Payloads = {w1}
    Callers = {c1, c2}
    MaxMsgs = 3
    MaxFaults = 1
    Wild = Wild
    NoVal = NoVal
    Torn = Torn
    Gone = Gone
    Idle = Idle
    IDAt <- MCIDAt
    safeFileName <- MCFileName
    Scenarios <- MCScenarios
SPECIFICATION Spec
  
PROPERTIES  SchemaComplete ListsTellKnown
VIEW WithoutRet
SYMMETRY Symmetric
