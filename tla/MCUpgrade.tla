------------------------------- MODULE MCUpgrade -------------------------------
(***************************************************************************)
(* Small clusters for UpgradeRun: minors 1 to 6 stand for six successive     *)
(* Kubernetes minors; add-on version 2k is the newest compatible with minor  *)
(* k, and each version also runs on the minor after its own.                 *)
(***************************************************************************)
EXTENDS UpgradeSerial, TLC

CONSTANTS workers, system, gpu, cni, ebs, dns

JustCNI == <<cni>>
CNIThenDNS == <<cni, dns>>
CNIThenEBSThenDNS == <<cni, ebs, dns>>
JustWorkers == <<workers>>
WorkersAndGpu == <<workers, gpu>>
SystemWorkersGpu == <<system, workers, gpu>>

NewestPerMinor ==
  [a \in Addons |-> [k \in Minors |-> {v \in 1 .. 2 * k : v >= 2 * k - 2}]]

At(v) == [version |-> v, to |-> v, status |-> "ACTIVE", healthy |-> TRUE]
In(v, s) == [version |-> v, to |-> v, status |-> s, healthy |-> s = "CREATING"]
Cluster(nodes, addons) ==
  [cp |-> [version |-> 3, to |-> 3, status |-> "ACTIVE"], ng |-> nodes, addon |-> addons]

\* Nodes at or behind the control plane; one add-on may not be settled.
Mixed ==
  {Cluster(n, a) :
     n \in [Nodegroups -> {At(2), At(3)}],
     a \in {f \in [Addons -> {At(6), In(5, "CREATING"), In(6, "DEGRADED")}] :
              \A x, y \in Addons : x # y => At(6) \in {f[x], f[y]}}}

\* Nodegroups up to the limit of the skew behind the control plane.
Trailing ==
  {Cluster(n, [a \in Addons |-> At(6)]) : n \in [Nodegroups -> {At(1), At(2), At(3)}]}

\* A skipped nodegroup at the limit of the skew for target 5, or beyond it.
GpuTrailing ==
  {Cluster([g \in Nodegroups |-> IF g = gpu THEN At(v) ELSE At(3)],
           [a \in Addons |-> At(6)]) : v \in {1, 2}}

\* Overlapping runs are interchangeable.
AnyRun == Permutations(Runs)

\* Everything at the control plane's version.
Level == {Cluster([g \in Nodegroups |-> At(3)], [a \in Addons |-> At(6)])}
================================================================================
