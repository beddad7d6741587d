CONSTANTS
    i1 = i1
    i2 = i2
    i3 = i3
    r1 = r1
    r2 = r2
    NULL = NULL
    Ips <- LiveIps
    Names <- LiveNames
    IpLocality <- LiveIpLocality
    InitialRobotsChoices <- LiveInitialRobotsChoices
    ManualChoices <- LiveManualChoices
    Responses <- LiveResponses
    Services <- LiveServices

SPECIFICATION Spec

PROPERTY AddressesEventuallyPolled
PROPERTY UnseenSiblingsEventuallyEvicted
PROPERTY RobotsFollowAnswers
