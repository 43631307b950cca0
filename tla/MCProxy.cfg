\* Channels of one point: the handlers wait for the workers.
CONSTANTS
    h1 = h1
    h2 = h2
    k1 = k1
    k2 = k2
    u1 = u1
    u2 = u2
    Handler <- MCHandler
    Key <- MCKey
    Requests <- MCRequests
    Circles = 2
    Backends = 2
    HashKeys = {"idx", "url"}
    Urls <- MCUrls
    Rings <- MCRings
    ChanCap = 1
    MayClose = TRUE
SPECIFICATION FairSpec
\* Requests end.
CHECK_DEADLOCK FALSE
INVARIANTS
    RouteIsRing
    Replicated
    HandedHome
PROPERTIES
    RequestsEnd
