\* Two calls, two devices, one sync slot: every interleaving of two callers.
SPECIFICATION FairSpec
CONSTANTS
    d1 = d1
    d2 = d2
    h1 = h1
    h2 = h2
    h3 = h3
    Device <- MCTwoDevices
    Session <- MCTwoCalls
    NoSession = NoSession
    NoDevice = NoDevice
    MaxHistory = 1
    MaxConn = 1
    MaxQueue = 1
INVARIANTS
    EntryHasLiveOwner
    EachSyncRecordedOnce
    HistoryInOrder
PROPERTIES
    DeviceNeverLockedOut
    StopIsHonoured
