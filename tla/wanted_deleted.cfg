\* One list that cannot be evaluated.
SPECIFICATION Spec
CONSTANTS
    b1 = b1
    b2 = b2
    n1 = n1
    n2 = n2
    dA = dA
    dB = dB
    Book <- MCOneBook
    Name <- MCOneName
    NameOf <- MCOneNameOf
    Device <- MCOneDevice
    NoBook = NoBook
    NoDevice = NoDevice
    NoFile = NoFile
    Partial = Partial
    NoSidecar = NoSidecar
    Garbled = Garbled
    FaultKinds <- MCAllFaults
    MaxUnmapped = 5
    MaxFaults = 1
    MaxEdits = 0
    MaxPage = 1
INVARIANTS
    OnlyUnwantedDeleted
