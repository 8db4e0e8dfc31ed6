\* Two runs, three providers with two registries, up to three binding sets in each,
\* and snapshots of the host with a version the session uses too.
SPECIFICATION Spec
CONSTANTS
    Runs = {"r1", "r2"}
    Tools = {"echo", "other"}
    Keys = {"default", "b"}
    Registries = {"g1", "g2"}
    Chain <- SomeChain
    Explicit = "none"
    HostVersions = {0, 2}
    MaxSets = 3
INVARIANTS
    RoutedAsSelected
    OnlyNoMatchContinues
CHECK_DEADLOCK FALSE
