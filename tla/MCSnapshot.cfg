SPECIFICATION Spec
CONSTANTS
    Hosts = {"camera", "other"}
    Ports = {"p80", "p8080"}
    Paths = {"picture", "moved"}
    CameraHost = "camera"
    CameraPort = "p80"
    Null = Null
    RedirectLimit = 2
INVARIANTS
    TextsOwned
    AddressKept
    RequestsBounded
    ResultHonest
CHECK_DEADLOCK FALSE
