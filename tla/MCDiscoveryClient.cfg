CONSTANTS
    i1 = i1
    i2 = i2
    r1 = r1
    r2 = r2
    NULL = NULL
    Ips <- MCIps
    Names <- MCNames
    IpLocality <- MCIpLocality
    InitialRobotsChoices <- MCInitialRobotsChoices
    ManualChoices <- MCManualChoices
    Responses <- MCResponses
    Services <- MCServices

SPECIFICATION Spec

INVARIANT TypeOK
INVARIANT HostsReferToKnownRobots
INVARIANT PollerTracksAddresses
INVARIANT SelectorsMeetTheirTests

PROPERTY SeenLatch
PROPERTY StaleSiblingsEvicted
PROPERTY ImplementsLifecycle
