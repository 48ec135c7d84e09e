SPECIFICATION Spec
CONSTANTS
  workers = workers
  system = system
  gpu = gpu
  cni = cni
  ebs = ebs
  dns = dns
  FirstMinor = 1
  LastMinor = 6
  OfferedMinors = {3, 4, 5}
  Nodegroups = {workers}
  NodegroupOrder <- JustWorkers
  CustomAMI = {}
  SkipNodegroups = {}
  Addons = {cni}
  AddonOrder <- JustCNI
  SkipAddons = {}
  Offered <- NewestPerMinor
  Runs = {r1}
  Targets = {5}
  StartClusters <- Level
  FaultKinds = {"call fails"}
  MaxFaults = 1
PROPERTIES
  ResumeFinishesHop
