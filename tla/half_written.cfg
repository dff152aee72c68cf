\* A failed acknowledgement, a second try and an interruption.
SPECIFICATION Spec
CONSTANTS
    b1 = b1
    b2 = b2
    n1 = n1
    n2 = n2
    dA = dA
    dB = dB
    Book <- MCOneBook
    Name <- MCOneName
    NameOf <- MCOneNameOf
    Device <- MCOneDevice
    NoBook = NoBook
    NoDevice = NoDevice
    NoFile = NoFile
    Partial = Partial
    NoSidecar = NoSidecar
    Garbled = Garbled
    FaultKinds <- MCNoFaults
    MaxUnmapped = 5
    MaxFaults = 3
    MaxEdits = 2
    MaxPage = 1
INVARIANTS
    HalfWrittenCannotStay
