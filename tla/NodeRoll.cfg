\* One node is replaced while two fresh instances come up, one of which may take
\* the gone node's name; a node is uncordoned or loses readiness along the way.
SPECIFICATION Spec
CONSTANTS
    OldNodes <- MCOldNodes
    FreshNames <- MCFreshNames
    MaxPods = 1
    MaxLaunches = 2
    MaxUpsets = 1
INVARIANTS
    RollInvariant
    FeedMatchesPanel
    EvictedIsReal
    CompletionHonest
PROPERTIES
    StableRollEndsPanel
