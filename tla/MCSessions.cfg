SPECIFICATION Spec
CONSTANTS
    t1 = t1
    t2 = t2
    q1 = q1
    q2 = q2
    NoTab = NoTab
    Tabs = {t1, t2}
    InviteTime = 3
    PairTime = 2
    HardTime = 3
    IdleTime = 2
    RoundTime = 1
    FinishGrace = 1
    LeaseTime = 2
    BlindTime = 2
    MaxMail = 2
    MaxEdits = 2
    Duration = 2
    WrapUpTime = 1
    RunTime = 1
    RejoinTime = 1
    RevisionSlots = 3
    EvidenceSlots = 1
    RunSlots = 1
    RequestSlots = 4
    HintLimit = 1
    FollowupLimit = 1
    Checks = {q1}
    NoCheck = NoCheck
    TurnSlots = 1
    MaxRevisions = 3
    MaxRequests = 4
    RestartLimit = 1
    Hints = 1
    Questions = {q1, q2}
    WrapUpChecks = 1
    Notice = Notice
    Nothing = Nothing
    MaxQueue = 1
    Projects = 2
    Askers = {q1}
    Pins = {1}
    Trust = 3
    ProbeTime = 1
SYMMETRY MCSymmetry
INVARIANTS
    ConfirmationIsCurrent
    OnePlaceAtATime
    RecordIsWhole
    HandInFindsRoom
    IndependenceIsEarned
    NotMutedForNothing
    QuestionsAreAsked
    OwedIsUnheard
    BriefingIsOwed
PROPERTIES
    FeedbackIsBlind
    ImplementsLife
    CodeIsKept
    PoolServes
    EffectsAreOnce
    OwedIsCarried
CHECK_DEADLOCK FALSE
