SPECIFICATION FairSpec
CONSTANTS
    s1 = s1
    s2 = s2
    alice = alice
    r1 = r1
    NoUser = NoUser
    NoResource = NoResource
    NoSession = NoSession
    Sessions = {s1, s2}
    Users = {alice}
    Resources = {r1}
    TLSConfigured = FALSE
    WireCap = 1
PROPERTIES
    VanishedIsCleanedUp
    RoutingEnds
