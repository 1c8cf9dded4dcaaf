SPECIFICATION Spec
CONSTANTS
    r1 = r1
    r2 = r2
    w1 = w1
    w2 = w2
    s1 = s1
    f1 = f1
    f2 = f2
    f3 = f3
    NoFile = NoFile
    NoRecording = NoRecording
    NoWorker = NoWorker
    Recordings = {r1}
    Workers = {w1, w2}
    Sweepers = {s1}
    Files = {f1, f2}
    Attempts = 2
    MayOutlive = TRUE
    Endings = {"abandoned"}
    MayRetryDelivery = TRUE
    MaxFaults = 1
    RetryBackoff <- MCRetryBackoff
    StaleAge = 1
    RecordingStaleAge = 2
SYMMETRY MCSymmetry
INVARIANTS
    NoStrayFile
PROPERTIES
    ObjectOutlivesDelivery
    NoDeliveryIsDropped
    KeepsContract
