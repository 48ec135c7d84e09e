SPECIFICATION Spec
CONSTANTS
  workers = workers
  system = system
  gpu = gpu
  cni = cni
  ebs = ebs
  dns = dns
  FirstMinor = 1
  LastMinor = 6
  OfferedMinors = {3, 4, 5}
  Nodegroups = {workers, gpu}
  NodegroupOrder <- WorkersAndGpu
  CustomAMI = {}
  SkipNodegroups = {gpu}
  Addons = {cni, ebs, dns}
  AddonOrder <- CNIThenEBSThenDNS
  SkipAddons = {ebs}
  Offered <- NewestPerMinor
  Runs = {r1}
  Targets = {4, 5, 6}
  StartClusters <- Trailing
  FaultKinds = {"call fails", "answer lost", "update fails", "unhealthy", "degrades", "configuration update", "cluster fails"}
  MaxFaults = 2
INVARIANTS
  RollAfterAddons
  DependenciesFirst
  ReportTruthful
  SuccessMeansUpgraded
PROPERTIES
  HopsInOrder
