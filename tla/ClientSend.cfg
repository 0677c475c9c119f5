SPECIFICATION MCSpec
CONSTANTS
    MaxRedirects = 2
    Size = 2
    Homes <- MCHomes
    Methods = {"HEAD", "POST"}
    OwnHeaders <- MCOwnHeaders
    Locations <- MCLocations
    Statuses = {301, 307}
CHECK_DEADLOCK FALSE
INVARIANTS NothingLeftOpen OneOpenAtATime HistorySound CredentialsStayHome BodyOrError
PROPERTIES SendTerminates
