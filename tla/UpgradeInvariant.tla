---------------------------- MODULE UpgradeInvariant ----------------------------
(***************************************************************************)
(* The inductive invariant behind SkewSupported and ContractKept: what a run *)
(* knows at each call, whatever other runs and EKS do between its calls.     *)
(***************************************************************************)
EXTENDS UpgradeRun

\* Updates in flight go up, nodegroups not past the control plane, and only to what
\* some run may choose.
CloudDirection ==
  /\ cp.to \in {cp.version, cp.version + 1}
  /\ \A g \in Nodegroups : /\ ng[g].version <= ng[g].to
                           /\ ng[g].to <= cp.version
                           /\ ng[g].to # ng[g].version => g \in Rollable
  /\ \A a \in Addons : addon[a].to # addon[a].version =>
       /\ a \in Converged
       /\ \E k \in FirstMinor .. cp.version : addon[a].to = Latest(a, k)

\* What a run read about versions is a lower bound of what they are now.
Snapshots(r) ==
  /\ plan[r].cp <= cp.version
  /\ \A g \in Nodegroups : /\ plan[r].ng[g] <= ng[g].version
                           /\ listed[r][g] <= ng[g].version

\* The call a run is at belongs to the phase it is in.
LabelsMatch(r) ==
  /\ pc[r] \in PlanLabels \cup ControlPlaneLabels => phase[r] = "control plane"
  /\ pc[r] \in AddonLabels => phase[r] = "addons"
  /\ pc[r] \in NodegroupLabels => phase[r] = "nodegroups"

\* Execute walks the hops of an unblocked plan: the control plane has reached the hop
\* after its phase, the nodegroups the hop before it.
Walk(r) ==
  pc[r] \in PhaseLabels \cup {"phase"} =>
    /\ hop[r] \in Hops(plan[r])
    /\ \A h \in Hops(plan[r]) : SkewSafe(plan[r], h)
    /\ phase[r] # "control plane" => hop[r] <= cp.version
    /\ phase[r] = "control plane" /\ hop[r] > FirstHop(plan[r]) =>
         \A g \in Rollable : hop[r] - 1 <= ng[g].version

\* Items the loops act on are not skipped; those behind the index are at the hop.
Looping(r) ==
  /\ pc[r] \in AddonLabels \ {"addon list", "addon next"} => CurrentAddon(r) \in Converged
  /\ pc[r] \in {"ng gate", "ng start", "ng wait"} => CurrentNodegroup(r) \in Rollable
  /\ pc[r] \in NodegroupLabels \ {"ng list"} =>
       \A i \in 1 .. Len(NodegroupOrder) :
         i < pos[r] /\ NodegroupOrder[i] \in Rollable => hop[r] <= ng[NodegroupOrder[i]].version

\* What DescribeUpdate says to run r of the roll of nodegroup g to hop h is what EKS
\* does to the nodegroup.
Told(r, g, h) ==
  /\ update[r].of = g
  /\ update[r].status = "InProgress" => ng[g].status = "UPDATING" /\ ng[g].to = h
  /\ update[r].status = "Successful" => h <= ng[g].version

Awaited(r) == pc[r] = "ng wait" => Told(r, CurrentNodegroup(r), hop[r])

RunInvariant(r) == Snapshots(r) /\ LabelsMatch(r) /\ Walk(r) /\ Looping(r) /\ Awaited(r)

\* Everything above, of every run, with the types and the skew itself: what a rerun or
\* an overlapping run finds is always a state some plan may go on from.
SafetyInvariant ==
  /\ TypeOK
  /\ CloudDirection
  /\ SkewSupported
  /\ \A r \in Runs : RunInvariant(r)
================================================================================
