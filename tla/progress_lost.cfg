\* One book, two devices, no fault at all: one reassignment.
SPECIFICATION Spec
CONSTANTS
    b1 = b1
    b2 = b2
    n1 = n1
    n2 = n2
    dA = dA
    dB = dB
    Book <- MCOneBook
    Name <- MCOneName
    NameOf <- MCOneNameOf
    Device <- MCTwoDevices
    NoBook = NoBook
    NoDevice = NoDevice
    NoFile = NoFile
    Partial = Partial
    NoSidecar = NoSidecar
    Garbled = Garbled
    FaultKinds <- MCNoFaults
    MaxUnmapped = 5
    MaxFaults = 0
    MaxEdits = 1
    MaxPage = 1
INVARIANTS
    ProgressHeld
