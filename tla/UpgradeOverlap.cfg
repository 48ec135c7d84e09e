SPECIFICATION Spec
CONSTANTS
  workers = workers
  system = system
  gpu = gpu
  cni = cni
  ebs = ebs
  dns = dns
  FirstMinor = 1
  LastMinor = 6
  OfferedMinors = {3, 4, 5}
  Nodegroups = {workers, gpu}
  NodegroupOrder <- WorkersAndGpu
  CustomAMI = {}
  SkipNodegroups = {gpu}
  Addons = {cni}
  AddonOrder <- JustCNI
  SkipAddons = {}
  Offered <- NewestPerMinor
  Runs = {r1, r2}
  Targets = {5}
  StartClusters <- GpuTrailing
  FaultKinds = {"call fails"}
  MaxFaults = 1
INVARIANTS
  SkewSupported
  SafetyInvariant
PROPERTIES
  ContractKept
SYMMETRY
  AnyRun
