SPECIFICATION Spec
CONSTANTS
    InviteTime = 2
    PairTime = 1
    HardTime = 2
    KeepTime = 2
    ObserveTime = 4
    RecordTime = 2
    Savings <- MCSavings
    MaxFaults = 2
    q1 = q1
    q2 = q2
    i1 = i1
    i2 = i2
    pinned = pinned
    Candidates = {q1, q2}
    PinnedRoom = pinned
    Rooms <- MCRooms
    ConsentRooms <- MCRooms
    NoStart = NoStart
    MaxConcurrent = 1
    GuestLimit = 1
    Interviews = {i1, i2}
    Accounts = {a1}
    NoAccount = NoAccount
    NoRoom = NoRoom
    MaxInterviews = 2
    NoInterview = NoInterview
    MaxLosses = 1
INVARIANTS
    LateRefusalHolds
    
PROPERTIES
    
    EndIsTold
    ReleasedIsNotStaffed
    ConsentIsSpentOnce
    ConsentComesBack
CHECK_DEADLOCK FALSE
