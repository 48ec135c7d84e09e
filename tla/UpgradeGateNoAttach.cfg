SPECIFICATION Spec
CONSTANTS
  workers = workers
  system = system
  gpu = gpu
  cni = cni
  ebs = ebs
  dns = dns
  FirstMinor = 1
  LastMinor = 6
  OfferedMinors = {4}
  Nodegroups = {workers}
  NodegroupOrder <- JustWorkers
  CustomAMI = {}
  SkipNodegroups = {}
  Addons = {cni}
  AddonOrder <- JustCNI
  SkipAddons = {}
  Offered <- NewestPerMinor
  Runs = {r1}
  Targets = {4}
  StartClusters <- Level
  FaultKinds = {"call fails"}
  MaxFaults = 1
PROPERTIES
  NodegroupPhaseAttaches
