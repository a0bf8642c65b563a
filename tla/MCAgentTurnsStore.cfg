\* Two overlapping requests, one tool that is granted and revoked, and time that passes.
SPECIFICATION FairSpec
CONSTANTS
    Request = {r1, r2}
    Tool = {x}
    Size = {1, 2, 4}
    LeaseTTL = 2
    MaxHistory = 2
    MaxSize = 3
    MaxTurns = 3
INVARIANTS TypeOK HistoryOfOneVersion LeaseholderIsCurrent HistoryFits
PROPERTIES OnlyOwnLeaseReleased ImplementsConversation LeaseEnds
