SPECIFICATION FairSpec
\* A process ends, and EKS comes to rest.
CHECK_DEADLOCK FALSE
CONSTANTS
  cni = cni
  dns = dns
  csi = csi
  Addons = {cni, dns, csi}
  Absent = absent
  DependsOn <- Needs
  ListOrders <- SomeOrders
  Versions = {0, 1, 2, 3}
  Offered <- OfferedHere
  Published <- PublishedAll
  Cap = 2
  MaxAttempts = 2
  StartAddons <- Remains
  Invocations <- Asked
  FaultKinds = {"call fails", "answer lost", "wait times out", "unhealthy", "update fails", "somebody else updates"}
  MaxFaults = 1
INVARIANTS
  AddonsInvariant
  OrderIsSafe
  AppliedOnce
  DependenciesSettled
  SuccessMeansUpdated
  ResultsHonest
PROPERTIES
  EveryRunEnds
