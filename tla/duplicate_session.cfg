\* Three calls for one device: two syncs of it at the same time.
SPECIFICATION Spec
CONSTANTS
    d1 = d1
    d2 = d2
    h1 = h1
    h2 = h2
    h3 = h3
    Device <- MCOneDevice
    Session <- MCThreeCalls
    NoSession = NoSession
    NoDevice = NoDevice
    MaxHistory = 1
    MaxConn = 5
    MaxQueue = 1
INVARIANTS
    OneSyncPerDevice
