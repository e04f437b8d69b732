SPECIFICATION FairSpec
CONSTANTS
    a1 = a1
    a2 = a2
    u1 = u1
    Apps = {a1}
    Users = {u1}
    Owner <- OneUser
    Requires <- NoPair
    MaxReleases = 2
    MaxHealthAttempts = 1
    EnginePing = {TRUE}
INVARIANTS RoutePassedHealth RoutedContainerKept
PROPERTIES JobsEnd StopsEnd
