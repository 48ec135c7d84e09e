------------------------------ MODULE UpgradePlan ------------------------------
(***************************************************************************)
(* BuildPlan of internal/services/upgrade/plan.go as pure operators over    *)
(* what it read: a plan p is the target with the live versions of the       *)
(* control plane, the nodegroups and the add-ons, each as it was read.      *)
(***************************************************************************)
EXTENDS EKS

CONSTANTS
  CustomAMI,         \* nodegroups whose AMI type is CUSTOM
  SkipNodegroups,    \* nodegroups that match a --skip-nodegroup pattern
  SkipAddons         \* add-ons that match a --skip pattern

KubeletSkew == 3

Rollable == Nodegroups \ (CustomAMI \cup SkipNodegroups)
Converged == Addons \ SkipAddons

(***************************************************************************)
(* expandHops: one hop per minor; a control plane already at the target     *)
(* still gets a same-version hop, so that stragglers are caught up.         *)
(***************************************************************************)
FirstHopAlwaysNext(p) == p.cp + 1   \* mutant: no hop for a control plane at the target
FirstHop(p) == IF p.cp = p.target THEN p.target ELSE p.cp + 1
Hops(p) == FirstHop(p) .. p.target

\* Where the planner expects nodegroup g to be when hop h starts.
SimulatedVersion(p, g, h) ==
  IF g \in Rollable /\ h > FirstHop(p) /\ p.ng[g] < h - 1 THEN h - 1 ELSE p.ng[g]

\* Mutant: looks only at the nodegroups the run rolls.
SkewSafeRollable(p, h) ==
  \A g \in Rollable : h - SimulatedVersion(p, g, h) <= KubeletSkew

SkewSafe(p, h) ==
  \A g \in Nodegroups : h - SimulatedVersion(p, g, h) <= KubeletSkew

ControlPlaneStep(p, h) == IF p.cp >= h THEN "completed" ELSE "pending"

AddonStep(p, a, h) ==
  CASE a \in SkipAddons -> "manual"
    [] a \notin SkipAddons /\ Latest(a, h) = 0 -> "blocked"
    [] a \notin SkipAddons /\ Latest(a, h) # 0 ->
         IF p.addon[a] >= Latest(a, h) THEN "completed" ELSE "pending"

NodegroupStep(p, g, h) ==
  IF p.ng[g] >= h THEN "completed"
  ELSE IF g \in SkipNodegroups \cup CustomAMI THEN "manual" ELSE "pending"

\* Plan.Blocked, for the reasons that are in the snapshot.
Blocked(p) ==
  \E h \in Hops(p) : \/ ~SkewSafe(p, h)
                     \/ \E a \in Addons : AddonStep(p, a, h) = "blocked"

\* The phase of hop h has pending steps: what Execute runs and asks about.
Pending(p, h, ph) ==
  \/ ph = "control plane" /\ ControlPlaneStep(p, h) = "pending"
  \/ ph = "addons" /\ \E a \in Addons : AddonStep(p, a, h) = "pending"
  \/ ph = "nodegroups" /\ \E g \in Nodegroups : NodegroupStep(p, g, h) = "pending"

Phases == {"control plane", "addons", "nodegroups"}

\* PendingSteps() = 0
NothingToDo(p) == \A h \in Hops(p), ph \in Phases : ~Pending(p, h, ph)
================================================================================
