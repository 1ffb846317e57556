SPECIFICATION ExchangeSpec
CONSTANTS
    Urls = {endpoint, elsewhere}
    Endpoint = endpoint
    NoUrl = NoUrl
    Codes <- MCCodes
    MaxRequests = 10
INVARIANTS
    AnswerStands
PROPERTIES
    AttemptEnds
CHECK_DEADLOCK FALSE
