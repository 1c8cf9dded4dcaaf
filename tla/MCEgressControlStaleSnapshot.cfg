SPECIFICATION Spec
CONSTANTS
    r1 = r1
    r2 = r2
    j1 = j1
    j2 = j2
    h1 = h1
    h2 = h2
    s1 = s1
    s2 = s2
    NoJob = NoJob
    NoRecording = NoRecording
    Recordings = {r1}
    Jobs = {j1}
    Handlers = {h1, h2}
    Sweepers = {s1}
    PrimaryRooms = {r1}
    JobStatuses = {"complete"}
    MaxFaults = 0
    MayKill = FALSE
    MayRetryDelivery = FALSE
    RetryBackoff <- MCShortBackoff
    StaleAge = 1
    RecordingStaleAge = 2
SYMMETRY MCSymmetry
PROPERTIES
    SweepSparesQueued
