----------------------------- MODULE MCAddonUpdate -----------------------------
(***************************************************************************)
(* Three add-ons with the dependencies of vpc-cni, coredns and a storage     *)
(* driver; the newest driver is not offered for the cluster's version.       *)
(***************************************************************************)
EXTENDS AddonInvariant, TLC

CONSTANTS cni, dns, csi

Needs == [a \in Addons |-> CASE a = cni -> {} [] a = dns -> {cni} [] a = csi -> {cni, dns}]
SomeOrders == {<<csi, dns, cni>>, <<dns, cni, csi>>}
OfferedHere == [a \in Names |-> CASE a = dns -> {1, 2} [] a = Absent -> {} [] OTHER -> {2}]
PublishedAll == [a \in Names |-> CASE a = csi -> {2, 3} [] a = Absent -> {} [] OTHER -> {1, 2}]

On(status) == [version |-> 1, to |-> 1, status |-> status, healthy |-> TRUE]
Updating == [On("UPDATING") EXCEPT !.to = 2]
Remains ==
  {[a \in Addons |-> On("ACTIVE")],
   [a \in Addons |-> CASE a = cni -> Updating [] a = dns -> On("UPDATE_FAILED") [] OTHER -> On("ACTIVE")]}

All(switches, skip) ==
  [switches |-> switches \cup {"all"}, addon |-> Absent, version |-> 0, skip |-> skip]
One(switches, name, version) ==
  [switches |-> switches, addon |-> name, version |-> version, skip |-> {}]
Asked ==
  {All({"parallel", "wait"}, {}), All({"parallel"}, {cni}),
   All({"dependencyOrder", "wait", "healthCheck"}, {}), All({"dryRun"}, {csi}),
   One({"wait"}, dns, 1), One({"healthCheck"}, dns, 3), One({}, Absent, 0), One({}, Absent, 2)}
================================================================================
