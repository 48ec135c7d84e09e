---------------------------------- MODULE EKS ----------------------------------
(***************************************************************************)
(* The EKS side of an upgrade, modelled from how internal/services uses it: *)
(* the control plane, the managed nodegroups and the add-ons of one         *)
(* cluster, the asynchronous updates that run on them whether or not        *)
(* anybody is watching, and the ledger DescribeUpdate reads.                *)
(*                                                                         *)
(* A Kubernetes version is its minor ("1.31" is 31), an add-on version a    *)
(* positive number ordered as compareAddonVersions orders the strings.      *)
(* "to" is the version an in-flight update installs, or "version" itself.   *)
(***************************************************************************)
EXTENDS Integers, Sequences

CONSTANTS
  FirstMinor, LastMinor,  \* the minors in play
  Nodegroups, Addons,     \* names
  Runs,                   \* `refresh cluster upgrade` processes, one per terminal
  OfferedMinors,          \* what DescribeClusterVersions lists
  Offered,                \* Offered[a][k]: add-on versions compatible with minor k
  FaultKinds, MaxFaults   \* which faults may occur, and how many in a behaviour

Minors == FirstMinor .. LastMinor

ASSUME MinorsAssumption == /\ FirstMinor \in Nat
                           /\ LastMinor \in Nat
                           /\ OfferedMinors \subseteq Minors

ASSUME FaultsAssumption == MaxFaults \in Nat

VARIABLES
  cp,      \* control plane: version, to, status
  ng,      \* nodegroup: version, to, status, healthy (no health issues reported)
  addon,   \* add-on: version, to, status, healthy
  update,  \* the update each run started last: of (the resource), status
  faults   \* faults so far

cloudVars == <<cp, ng, addon, update, faults>>

ControlPlane == "control plane"
NoResource == "no resource"
Busy == {"CREATING", "UPDATING"}

ASSUME NamesAssumption == ControlPlane \notin Nodegroups

NoUpdate == [of |-> NoResource, status |-> "Successful"]

ControlPlaneStates ==
  [version : Minors, to : Minors, status : {"ACTIVE", "UPDATING", "FAILED"}]
NodegroupStates ==
  [version : Minors, to : Minors, status : {"ACTIVE", "UPDATING", "DEGRADED"},
   healthy : BOOLEAN]
AddonStates ==
  [version : Nat, to : Nat, healthy : BOOLEAN,
   status : Busy \cup {"ACTIVE", "DEGRADED", "CREATE_FAILED", "UPDATE_FAILED"}]
Updates ==
  [of : {ControlPlane, NoResource} \cup Nodegroups,
   status : {"InProgress", "Successful", "Failed"}]

CloudTypeOK ==
  /\ cp \in ControlPlaneStates
  /\ ng \in [Nodegroups -> NodegroupStates]
  /\ addon \in [Addons -> AddonStates]
  /\ update \in [Runs -> Updates]
  /\ faults \in Nat

(***************************************************************************)
(* versions[0] of GetAvailableVersions, which sorts newest first; 0 when it *)
(* finds no version and returns an error.                                   *)
(***************************************************************************)
Latest(a, k) ==
  IF Offered[a][k] = {} THEN 0
  ELSE CHOOSE v \in Offered[a][k] : \A w \in Offered[a][k] : w <= v

ASSUME OfferedAssumption ==
  \A a \in Addons, k \in Minors : Latest(a, k) \in Nat

Fault(kind) == kind \in FaultKinds /\ faults < MaxFaults /\ faults' = faults + 1
NoFault == faults' = faults

(***************************************************************************)
(* DescribeUpdate answers by update id; a run only asks about the update it *)
(* started last, so the ledger keeps that one.                              *)
(***************************************************************************)
StartUpdate(r, x) ==
  update' = [update EXCEPT ![r] = [of |-> x, status |-> "InProgress"]]

FinishUpdate(x, result) ==
  update' = [r \in Runs |->
               IF update[r].of = x /\ update[r].status = "InProgress"
               THEN [update[r] EXCEPT !.status = result]
               ELSE update[r]]

(***************************************************************************)
(* What the mutating calls accept: one update at a time per resource, one   *)
(* minor at a time for the control plane, nodegroups never ahead of it.     *)
(***************************************************************************)
AcceptsControlPlane(v) ==
  /\ cp.status = "ACTIVE"
  /\ v = cp.version + 1
  /\ v \in OfferedMinors

AcceptsNodegroup(g, v) ==
  /\ ng[g].status = "ACTIVE"
  /\ ng[g].version <= v
  /\ v <= cp.version

AcceptsAddon(a, v) ==
  /\ addon[a].status \notin Busy
  /\ v \in Offered[a][cp.version]

UpdateClusterVersion(r, v) ==
  /\ cp' = [cp EXCEPT !.status = "UPDATING", !.to = v]
  /\ StartUpdate(r, ControlPlane)

UpdateNodegroupVersion(r, g, v) ==
  /\ ng' = [ng EXCEPT ![g].status = "UPDATING", ![g].to = v]
  /\ StartUpdate(r, g)

UpdateAddon(a, v) ==
  addon' = [addon EXCEPT ![a].status = "UPDATING", ![a].to = v]

--------------------------------------------------------------------------------
(***************************************************************************)
(* What happens server-side. A version update of the control plane is       *)
(* reported Successful before the cluster is ACTIVE again.                  *)
(***************************************************************************)
ControlPlaneUpdateSucceeds ==
  /\ cp.status = "UPDATING" /\ cp.to # cp.version
  /\ cp' = [cp EXCEPT !.version = cp.to]
  /\ FinishUpdate(ControlPlane, "Successful")
  /\ NoFault
  /\ UNCHANGED <<ng, addon>>

ControlPlaneUpdateFails ==
  /\ cp.status = "UPDATING" /\ cp.to # cp.version
  /\ Fault("update fails")
  /\ cp' = [cp EXCEPT !.to = cp.version, !.status = "ACTIVE"]
  /\ FinishUpdate(ControlPlane, "Failed")
  /\ UNCHANGED <<ng, addon>>

ControlPlaneSettles ==
  /\ cp.status = "UPDATING" /\ cp.to = cp.version
  /\ \/ cp' = [cp EXCEPT !.status = "ACTIVE"] /\ NoFault
     \/ cp' = [cp EXCEPT !.status = "FAILED"] /\ Fault("cluster fails")
  /\ UNCHANGED <<ng, addon, update>>

\* Somebody else changes the cluster's configuration.
ConfigurationUpdate ==
  /\ cp.status = "ACTIVE"
  /\ Fault("configuration update")
  /\ cp' = [cp EXCEPT !.status = "UPDATING"]
  /\ UNCHANGED <<ng, addon, update>>

\* "unhealthy": the nodes joined, but the group now reports health issues.
RollSucceeds(g) ==
  /\ ng[g].status = "UPDATING"
  /\ \E healthy \in BOOLEAN :
       /\ ng' = [ng EXCEPT ![g] = [version |-> ng[g].to, to |-> ng[g].to,
                                   status |-> "ACTIVE", healthy |-> healthy]]
       /\ IF healthy THEN NoFault ELSE Fault("unhealthy")
  /\ FinishUpdate(g, "Successful")
  /\ UNCHANGED <<cp, addon>>

RollFails(g) ==
  /\ ng[g].status = "UPDATING"
  /\ Fault("update fails")
  /\ \E status \in {"ACTIVE", "DEGRADED"} :
       ng' = [ng EXCEPT ![g] = [version |-> ng[g].version, to |-> ng[g].version,
                                status |-> status, healthy |-> ng[g].healthy]]
  /\ FinishUpdate(g, "Failed")
  /\ UNCHANGED <<cp, addon>>

NodegroupDegrades(g) ==
  /\ ng[g].status = "ACTIVE" /\ ng[g].healthy
  /\ Fault("degrades")
  /\ \E status \in {"ACTIVE", "DEGRADED"} :
       ng' = [ng EXCEPT ![g].status = status, ![g].healthy = FALSE]
  /\ UNCHANGED <<cp, addon, update>>

NodegroupRecovers(g) ==
  /\ ng[g].status = "DEGRADED" \/ (ng[g].status = "ACTIVE" /\ ~ng[g].healthy)
  /\ ng' = [ng EXCEPT ![g].status = "ACTIVE", ![g].healthy = TRUE]
  /\ NoFault
  /\ UNCHANGED <<cp, addon, update>>

\* A new add-on version may come up unhealthy: DEGRADED, or ACTIVE with issues.
AddonUpdateSucceeds(a) ==
  /\ addon[a].status \in Busy
  /\ \E status \in {"ACTIVE", "DEGRADED"}, healthy \in BOOLEAN :
       /\ addon' = [addon EXCEPT ![a] = [version |-> addon[a].to, to |-> addon[a].to,
                                         status |-> status, healthy |-> healthy]]
       /\ IF healthy THEN status = "ACTIVE" /\ NoFault ELSE Fault("unhealthy")
  /\ UNCHANGED <<cp, ng, update>>

AddonUpdateFails(a) ==
  /\ addon[a].status \in Busy
  /\ Fault("update fails")
  /\ LET status == IF addon[a].status = "CREATING" THEN "CREATE_FAILED" ELSE "UPDATE_FAILED"
     IN addon' = [addon EXCEPT ![a] = [version |-> addon[a].version, to |-> addon[a].version,
                                       status |-> status, healthy |-> addon[a].healthy]]
  /\ UNCHANGED <<cp, ng, update>>

\* A failed create or update stays failed until the add-on is updated again.
AddonRecovers(a) ==
  /\ addon[a].status = "DEGRADED" \/ (addon[a].status = "ACTIVE" /\ ~addon[a].healthy)
  /\ addon' = [addon EXCEPT ![a].status = "ACTIVE", ![a].healthy = TRUE]
  /\ NoFault
  /\ UNCHANGED <<cp, ng, update>>

CloudNext ==
  \/ ControlPlaneUpdateSucceeds
  \/ ControlPlaneUpdateFails
  \/ ControlPlaneSettles
  \/ ConfigurationUpdate
  \/ \E g \in Nodegroups :
       \/ RollSucceeds(g)
       \/ RollFails(g)
       \/ NodegroupDegrades(g)
       \/ NodegroupRecovers(g)
  \/ \E a \in Addons :
       \/ AddonUpdateSucceeds(a)
       \/ AddonUpdateFails(a)
       \/ AddonRecovers(a)
================================================================================
