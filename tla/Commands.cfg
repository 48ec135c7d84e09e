\* Each command alone, on the smallest instance in which its hazards occur.
SPECIFICATION CommandsSpec
CONSTANTS
    Shells = {p1, p2}
    ContextNames = {"a", "b", "-"}
    Targets = {1, 2}
    MaxContextCommands = 3
    Terminals = {p1, p2}
    Releases <- MCReleases
    Running <- MCRunning
    CheckInterval = 2
    MaxClock = 3
    MaxChecks = 3
    ListRegions <- MCRegions
    ClustersIn <- MCClusters
    RegionWorkers = 2
    SweepRegions = {"r1", "r2"}
    Fleet <- MCFleet
    Patterns <- MCPatterns
    FirstVersion <- MCFirstVersion
    LatestImage <- MCLatestImage
    LatestAddon <- MCLatestAddon
    Tier <- MCTier
    Calendar <- MCCalendar
    RowWorkers = 2
    MaxFaults = 1
    Sizes = {1, 2}
    UpdateAttempts = 3
    MaxOtherScales = 1
    InstancesOf <- MCInstances
    Situations <- MCSituations
    Loads = {96}
    MaxTrouble = 1
    SkewGroups <- MCSkewGroups
    SkewAddons <- MCSkewAddons
    FirstPlane = 4
    FirstGroups <- MCFirstGroups
    InstalledAddon <- MCInstalled
    NewestAddon <- MCNewest
    Insight <- MCInsight
    References <- MCReferences
    MaxReadFaults = 1
INVARIANTS
    CommandsInvariant
    StoreReadable
    UpdateCheckKeepsPromise
    RegionsAccounted
    StatusHonest
    ScaleHonest
    OneReading
    GateEarned
    ReadinessHonest
PROPERTIES
    LossNeedsOverlap
    FreshEntriesStay
