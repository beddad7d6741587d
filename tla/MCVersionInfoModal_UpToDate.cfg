CONSTANTS
    AppVersions = {"4.1.0", "4.2.0"}
    RobotVersions = {"3.19.0", "4.0.0"}
    CURRENT_VERSION = "4.0.0"
    NULL = NULL
SPECIFICATION Spec
INVARIANT UpToDateOnlyWhenReinstall
