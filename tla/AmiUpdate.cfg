SPECIFICATION FairSpec
\* A process ends, and EKS comes to rest.
CHECK_DEADLOCK FALSE
CONSTANTS
  east = east
  west = west
  web = web
  batch = batch
  api = api
  gpu = gpu
  Clusters = {east, west}
  ClusterOrder <- EastThenWest
  RegionOf <- OwnRegion
  Nodegroups = {web, batch, api, gpu}
  NodegroupsOf <- AllNodegroups
  Matching <- EastPattern
  CustomAMI = {gpu}
  LastAMI = 2
  Pods = {pod}
  KubeClusters = {east, nowhere}
  NoCluster = nowhere
  StartNodegroups <- Found
  Invocations <- Invoked
  FaultKinds = {"call fails", "answer lost", "update fails", "update cancelled", "somebody else rolls", "degrades", "pod stuck"}
  MaxFaults = 1
INVARIANTS
  SafetyInvariant
  SummaryAccounts
  OneClusterAtATime
  WorstOutcome
  SuccessMeansPatched
PROPERTIES
  EveryRunEnds
