SPECIFICATION Spec
\* A process ends, and EKS comes to rest.
CHECK_DEADLOCK FALSE
CONSTANTS
  east = east
  west = west
  web = web
  batch = batch
  api = api
  gpu = gpu
  Clusters = {east, west}
  ClusterOrder <- EastThenWest
  RegionOf <- OwnRegion
  Nodegroups = {web, batch, api, gpu}
  NodegroupsOf <- AllNodegroups
  Matching <- EastPattern
  CustomAMI = {gpu}
  LastAMI = 2
  Pods = {pod}
  KubeClusters = {east}
  NoCluster = nowhere
  StartNodegroups <- AllOld
  Invocations <- One
  FaultKinds = {}
  MaxFaults = 0
INVARIANTS
  VerifiedAfterCompletion
