SPECIFICATION FairSpec
CONSTANTS
    Hosts = {"h1", "h2"}
    Ports = {"p1", "p2"}
    Paths = {"a"}
    Master <- MCMaster
    MaxRedirects = 2
    MaxCreds = 2
    Null = Null
INVARIANTS
    RequestBound
PROPERTIES
    EndpointReached
    UnreachableEverywhere
    FreshBeforeUnauthorized
    CallEnds
