\* One device, two books, every kind of fault, two faults and one edit.
\* Two archives without a readable sidecar are enough for a refusal.
SPECIFICATION FairSpec
CONSTANTS
    b1 = b1
    b2 = b2
    n1 = n1
    n2 = n2
    dA = dA
    dB = dB
    Book <- MCTwoBooks
    Name <- MCTwoNames
    NameOf <- MCTwoNameOf
    Device <- MCOneDevice
    NoBook = NoBook
    NoDevice = NoDevice
    NoFile = NoFile
    Partial = Partial
    NoSidecar = NoSidecar
    Garbled = Garbled
    FaultKinds <- MCAllFaults
    MaxUnmapped = 1
    MaxFaults = 2
    MaxEdits = 1
    MaxPage = 1
INVARIANTS
    CleanSyncMirrorsPlan
    ProgressHeld
PROPERTIES
    KeepsGoodCopies
    EventuallyInSync
