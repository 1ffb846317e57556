SPECIFICATION ExchangeSpec
CONSTANTS
    Urls = {endpoint, elsewhere}
    Endpoint = endpoint
    NoUrl = NoUrl
    Codes <- MCCodes
    MaxRequests = 10
INVARIANTS
    RedirectRetried
CHECK_DEADLOCK FALSE
