SPECIFICATION FairSpec
CONSTANTS
  workers = workers
  system = system
  gpu = gpu
  cni = cni
  ebs = ebs
  dns = dns
  FirstMinor = 1
  LastMinor = 6
  OfferedMinors = {4}
  Nodegroups = {workers, gpu}
  NodegroupOrder <- WorkersAndGpu
  CustomAMI = {gpu}
  SkipNodegroups = {}
  Addons = {cni, dns}
  AddonOrder <- CNIThenDNS
  SkipAddons = {}
  Offered <- NewestPerMinor
  Runs = {r1}
  Targets = {4}
  StartClusters <- Mixed
  FaultKinds = {"call fails", "answer lost", "update fails", "unhealthy", "decline", "insights", "degrades", "configuration update"}
  MaxFaults = 2
INVARIANTS
  OneHopInvariant
  OneInFlight
PROPERTIES
  EventuallyUpgraded
