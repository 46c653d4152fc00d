SPECIFICATION Spec
CONSTANTS
    Hosts = {"h1", "h2"}
    Ports = {"p1", "p2"}
    Paths = {"a"}
    Master <- MCMaster
    MaxRedirects = 2
    MaxCreds = 2
    Null = Null
PROPERTY
    ConnectedIsKept
