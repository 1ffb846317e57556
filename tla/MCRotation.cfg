SPECIFICATION Spec
CONSTANTS
    m1 = m1
    b1 = b1
    Pieces <- MCPieces
    Ids <- MCIds
    Names = {e1}
    Secrets = {s1, s2, s3}
    Bodies <- MCBodies
    TooLong <- MCTooLong
    None = None
    NotANumber = NotANumber
    Times = {0, 1, 2, 3, 4, 5, 6}
    Stamps <- MCStamps
    Tolerances = {0, 1}
    MaxInt = 31
    DefaultTolerance = 2
    Name = e1
    Id <- MCId
    Body <- MCBody
    First = s1
    SentAt = 3
    Offsets <- MCOffsets
    MaxDelays = 2
    MaxChanges = 1
    MaxKills = 1
INVARIANTS
    ReceiverCovered
    RefusalExplained
    AcceptedWasSent
    SentIsAccepted
PROPERTIES
    EventuallyDelivered
CHECK_DEADLOCK FALSE
