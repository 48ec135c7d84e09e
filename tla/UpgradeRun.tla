------------------------------ MODULE UpgradeRun -------------------------------
(***************************************************************************)
(* `refresh cluster upgrade --to X`: BuildPlan, Execute and the three phase *)
(* executors of internal/services/upgrade, as processes that read and       *)
(* change a cluster (module EKS) through separate calls. A run that was     *)
(* interrupted, refused or failed may be started again with the same        *)
(* command: everything it knew is gone, what EKS was doing goes on.         *)
(***************************************************************************)
EXTENDS UpgradePlan

CONSTANTS
  StartClusters,    \* the clusters a run may find: cp, ng, addon
  Targets,          \* the versions users ask for
  NodegroupOrder,   \* ListNodegroups order
  AddonOrder        \* the installed add-ons as SortByDependency returns them

ASSUME OrderAssumption ==
  /\ NodegroupOrder \in Seq(Nodegroups)
  /\ \A g \in Nodegroups : \E i \in 1 .. Len(NodegroupOrder) : NodegroupOrder[i] = g
  /\ AddonOrder \in Seq(Addons)
  /\ \A a \in Addons : \E i \in 1 .. Len(AddonOrder) : AddonOrder[i] = a

ASSUME TargetsAssumption == Targets \subseteq Minors

ASSUME StartAssumption ==
  \A c \in StartClusters :
    /\ c.cp \in ControlPlaneStates /\ c.cp.to = c.cp.version
    /\ c.ng \in [Nodegroups -> NodegroupStates]
    /\ c.addon \in [Addons -> AddonStates]
    /\ \A g \in Nodegroups : /\ c.ng[g].to = c.ng[g].version
                             /\ c.ng[g].version <= c.cp.version
                             /\ c.cp.version <= c.ng[g].version + KubeletSkew
    /\ \A a \in Addons : c.addon[a].to = c.addon[a].version

VARIABLES
  pc,         \* the call the run makes next
  plan,       \* target, and the versions BuildPlan read
  hop, phase, \* where Execute is
  pos,        \* position in the phase's list
  listed,     \* nodegroup versions UpgradeNodegroups listed at its start
  completed,  \* Report.Completed: <<hop, phase>>
  exit        \* how the run ended

runVars == <<pc, plan, hop, phase, pos, listed, completed, exit>>
vars == <<cp, ng, addon, update, faults, pc, plan, hop, phase, pos, listed, completed, exit>>

PlanLabels == {"plan cluster", "plan nodegroups", "plan addons", "decide"}
ControlPlaneLabels == {"cp describe", "cp attach", "cp recheck", "cp start",
                       "cp wait", "cp settle", "cp verify"}
AddonLabels == {"addon list", "addon next", "addon attach", "addon reread",
                "addon check", "addon start", "addon wait", "addon verify"}
NodegroupLabels == {"ng list", "ng next", "ng gate", "ng start", "ng wait"}
PhaseLabels == ControlPlaneLabels \cup AddonLabels \cup NodegroupLabels
Labels == PlanLabels \cup PhaseLabels \cup {"idle", "phase", "stopped"}

Exits == {"none", "error", "blocked", "nothing", "aborted", "failed",
          "gate refused", "complete"}

Goto(r, label) == pc' = [pc EXCEPT ![r] = label]

Stop(r, why) ==
  /\ Goto(r, "stopped")
  /\ exit' = [exit EXCEPT ![r] = why]
  /\ UNCHANGED <<plan, hop, phase, pos, listed, completed>>

\* The version of an add-on that has not been described.
Unread == 0

\* What a process knows when it starts.
NoPlan == [target |-> FirstMinor, cp |-> FirstMinor,
           ng |-> [g \in Nodegroups |-> FirstMinor], addon |-> [a \in Addons |-> Unread]]

\* A call that only moves the run on to its next call.
Step(r, label) == Goto(r, label) /\ UNCHANGED <<plan, hop, phase, pos, listed, completed, exit>>

CloudUntouched == UNCHANGED cloudVars

CurrentAddon(r) == AddonOrder[pos[r]]
CurrentNodegroup(r) == NodegroupOrder[pos[r]]
Chosen(r) == Latest(CurrentAddon(r), hop[r])

NextItem(r, label) ==
  /\ Goto(r, label)
  /\ pos' = [pos EXCEPT ![r] = @ + 1]
  /\ UNCHANGED <<plan, hop, phase, listed, completed, exit>>

FirstItem(r, label) ==
  /\ Goto(r, label)
  /\ pos' = [pos EXCEPT ![r] = 1]

\* listNodegroupStates describes one nodegroup after the other: the next one, and what
\* has been read with it.
DescribedOne(r, next) ==
  IF pos[r] < Len(NodegroupOrder)
  THEN pos' = [pos EXCEPT ![r] = @ + 1] /\ UNCHANGED pc
  ELSE FirstItem(r, next)

WithDescribed(read, r) ==
  [g \in Nodegroups |-> IF \E i \in DOMAIN NodegroupOrder : i = pos[r] /\ NodegroupOrder[i] = g
                        THEN ng[g].version ELSE read[g]]

--------------------------------------------------------------------------------
(***************************************************************************)
(* BuildPlan: DescribeCluster, the nodegroups, the add-ons; then the steps.  *)
(***************************************************************************)
Launch(r) ==
  /\ pc[r] \in {"idle", "stopped"}
  /\ \E t \in Targets : plan' = [plan EXCEPT ![r] = [NoPlan EXCEPT !.target = t]]
  /\ Goto(r, "plan cluster")
  /\ exit' = [exit EXCEPT ![r] = "none"]
  /\ completed' = [completed EXCEPT ![r] = {}]
  /\ hop' = [hop EXCEPT ![r] = FirstMinor]
  /\ phase' = [phase EXCEPT ![r] = "control plane"]
  /\ pos' = [pos EXCEPT ![r] = 1]
  /\ listed' = [listed EXCEPT ![r] = NoPlan.ng]
  /\ update' = [update EXCEPT ![r] = NoUpdate]
  /\ UNCHANGED <<cp, ng, addon, faults>>

\* expandHops refuses an older target, checkVersionOffered one EKS does not offer
\* (an API error there is only a warning).
PlanCluster(r) ==
  /\ pc[r] = "plan cluster"
  /\ \/ /\ \/ plan[r].target < cp.version
           \/ plan[r].target \notin OfferedMinors
        /\ Stop(r, "error")
        /\ CloudUntouched
     \/ /\ plan[r].target >= cp.version
        /\ IF plan[r].target \in OfferedMinors THEN NoFault ELSE Fault("call fails")
        /\ plan' = [plan EXCEPT ![r].cp = cp.version]
        /\ Goto(r, "plan nodegroups")
        /\ UNCHANGED <<cp, ng, addon, update, hop, phase, pos, listed, completed, exit>>

PlanNodegroups(r) ==
  /\ pc[r] = "plan nodegroups"
  /\ plan' = [plan EXCEPT ![r].ng = WithDescribed(@, r)]
  /\ DescribedOne(r, "plan addons")
  /\ UNCHANGED <<hop, phase, listed, completed, exit>>
  /\ CloudUntouched

\* List describes the add-ons concurrently: each is read once, in any order,
PlanAddon(r) ==
  /\ pc[r] = "plan addons"
  /\ \E a \in Addons :
       /\ plan[r].addon[a] = Unread
       /\ plan' = [plan EXCEPT ![r].addon[a] = addon[a].version]
  /\ UNCHANGED <<pc, hop, phase, pos, listed, completed, exit>>
  /\ CloudUntouched

\* and one it could not describe is reported with an empty version.
PlanAddonsDone(r) ==
  /\ pc[r] = "plan addons"
  /\ IF \E a \in Addons : plan[r].addon[a] = Unread THEN Fault("call fails") ELSE NoFault
  /\ Step(r, "decide")
  /\ UNCHANGED <<cp, ng, addon, update>>

\* Blocking insights, or an add-on's versions that could not be listed, block a plan.
PlanBlocked(r) ==
  /\ pc[r] = "decide"
  /\ \/ Blocked(plan[r]) /\ NoFault
     \/ ~Blocked(plan[r]) /\ Fault("insights")
  /\ Stop(r, "blocked")
  /\ UNCHANGED <<cp, ng, addon, update>>

PlanReady(r) ==
  /\ pc[r] = "decide"
  /\ ~Blocked(plan[r])
  /\ \/ /\ NothingToDo(plan[r])
        /\ Stop(r, "nothing")
     \/ /\ ~NothingToDo(plan[r])
        /\ hop' = [hop EXCEPT ![r] = FirstHop(plan[r])]
        /\ Goto(r, "phase")
        /\ UNCHANGED <<plan, phase, pos, listed, completed, exit>>
  /\ CloudUntouched

PlanFails(r) ==
  /\ pc[r] \in PlanLabels
  /\ Fault("call fails")
  /\ Stop(r, "error")
  /\ UNCHANGED <<cp, ng, addon, update>>

--------------------------------------------------------------------------------
(***************************************************************************)
(* Execute: phases in order, those without pending steps skipped, a          *)
(* confirmation before every other one.                                      *)
(***************************************************************************)
FirstCall(ph) ==
  CASE ph = "control plane" -> "cp describe"
    [] ph = "addons" -> "addon list"
    [] ph = "nodegroups" -> "ng list"

Enter(r, h, ph) ==
  /\ hop' = [hop EXCEPT ![r] = h]
  /\ phase' = [phase EXCEPT ![r] = ph]
  /\ Goto(r, "phase")
  /\ exit' = exit

\* On to the phase after the one a run is in; completed is the caller's.
NextPhase(r) ==
  /\ \/ phase[r] = "control plane" /\ Enter(r, hop[r], "addons")
     \/ phase[r] = "addons" /\ Enter(r, hop[r], "nodegroups")
     \/ /\ phase[r] = "nodegroups" /\ hop[r] < plan[r].target
        /\ Enter(r, hop[r] + 1, "control plane")
     \/ /\ phase[r] = "nodegroups" /\ hop[r] = plan[r].target
        /\ Goto(r, "stopped")
        /\ exit' = [exit EXCEPT ![r] = "complete"]
        /\ UNCHANGED <<hop, phase>>
  /\ UNCHANGED <<plan, pos, listed>>

PhaseDone(r) ==
  /\ NextPhase(r)
  /\ completed' = [completed EXCEPT ![r] = @ \cup {<<hop[r], phase[r]>>}]

SkipPhase(r) ==
  /\ pc[r] = "phase"
  /\ ~Pending(plan[r], hop[r], phase[r])
  /\ NextPhase(r)
  /\ UNCHANGED completed
  /\ CloudUntouched

Confirm(r) ==
  /\ pc[r] = "phase"
  /\ Pending(plan[r], hop[r], phase[r])
  /\ FirstItem(r, FirstCall(phase[r]))
  /\ UNCHANGED <<plan, hop, phase, listed, completed, exit>>
  /\ CloudUntouched

Decline(r) ==
  /\ pc[r] = "phase"
  /\ Pending(plan[r], hop[r], phase[r])
  /\ Fault("decline")
  /\ Stop(r, "aborted")
  /\ UNCHANGED <<cp, ng, addon, update>>

(***************************************************************************)
(* A describe that fails after its retries, Ctrl+C, the overall timeout or   *)
(* the 20 minutes an add-on may take: the phase returns an error, and what   *)
(* it started keeps running server-side.                                     *)
(***************************************************************************)
PhaseFails(r) ==
  /\ pc[r] \in PhaseLabels
  /\ Fault("call fails")
  /\ Stop(r, "failed")
  /\ UNCHANGED <<cp, ng, addon, update>>

\* The answer to a mutating call EKS accepted: lost, for every retry, or received.
Answered(r, label) ==
  \/ NoFault /\ Step(r, label)
  \/ Fault("answer lost") /\ Stop(r, "failed")

--------------------------------------------------------------------------------
(***************************************************************************)
(* UpgradeControlPlane                                                      *)
(***************************************************************************)
ControlPlaneDescribe(r) ==
  /\ pc[r] = "cp describe"
  /\ \/ cp.version >= hop[r] /\ PhaseDone(r)
     \/ cp.version < hop[r] /\ cp.status = "UPDATING" /\ Step(r, "cp attach")
     \/ cp.version < hop[r] /\ cp.status # "UPDATING" /\ Step(r, "cp start")
  /\ CloudUntouched

\* waitForClusterActive, called before and after the run's own update
WaitForClusterActive(r) ==
  /\ pc[r] \in {"cp attach", "cp settle"}
  /\ \/ /\ cp.status = "ACTIVE"
        /\ Step(r, IF pc[r] = "cp attach" THEN "cp recheck" ELSE "cp verify")
     \/ cp.status = "FAILED" /\ Stop(r, "failed")
  /\ CloudUntouched

\* Mutant: takes any update it attached to for the one it wanted.
ControlPlaneRecheckTrusting(r) ==
  /\ pc[r] = "cp recheck"
  /\ PhaseDone(r)
  /\ CloudUntouched

\* The update in flight may have been something else: fall through.
ControlPlaneRecheck(r) ==
  /\ pc[r] = "cp recheck"
  /\ \/ cp.version >= hop[r] /\ PhaseDone(r)
     \/ cp.version < hop[r] /\ Step(r, "cp start")
  /\ CloudUntouched

ControlPlaneStart(r) ==
  /\ pc[r] = "cp start"
  /\ \/ /\ AcceptsControlPlane(hop[r])
        /\ UpdateClusterVersion(r, hop[r])
        /\ Answered(r, "cp wait")
        /\ UNCHANGED <<ng, addon>>
     \/ /\ ~AcceptsControlPlane(hop[r])
        /\ Stop(r, "failed")
        /\ CloudUntouched

\* waitForUpdate, for the update this run started
ControlPlaneWait(r) ==
  /\ pc[r] = "cp wait"
  /\ \/ update[r].status = "Successful" /\ Step(r, "cp settle")
     \/ update[r].status = "Failed" /\ Stop(r, "failed")
  /\ CloudUntouched

ControlPlaneVerify(r) ==
  /\ pc[r] = "cp verify"
  /\ \/ cp.version >= hop[r] /\ PhaseDone(r)
     \/ cp.version < hop[r] /\ Stop(r, "failed")
  /\ CloudUntouched

--------------------------------------------------------------------------------
(***************************************************************************)
(* UpgradeAddons, with AddonStatus, Update and waitForAddonUpdate of the     *)
(* add-on service.                                                          *)
(***************************************************************************)
AddonsList(r) ==
  /\ pc[r] = "addon list"
  /\ FirstItem(r, "addon next")
  /\ UNCHANGED <<plan, hop, phase, listed, completed, exit>>
  /\ CloudUntouched

AddonsDone(r) ==
  /\ pc[r] = "addon next"
  /\ pos[r] > Len(AddonOrder)
  /\ PhaseDone(r)
  /\ CloudUntouched

\* Mutant: passes over an add-on that is busy instead of attaching.
AddonNextPassesBusy(r) ==
  /\ pc[r] = "addon next"
  /\ pos[r] <= Len(AddonOrder)
  /\ LET a == CurrentAddon(r) IN
     \/ (a \in SkipAddons \/ addon[a].status \in Busy \/ addon[a].version >= Chosen(r))
        /\ NextItem(r, "addon next")
     \/ /\ a \notin SkipAddons /\ addon[a].status \notin Busy
        /\ addon[a].version < Chosen(r)
        /\ Step(r, "addon check")
  /\ CloudUntouched

AddonNext(r) ==
  /\ pc[r] = "addon next"
  /\ pos[r] <= Len(AddonOrder)
  /\ LET a == CurrentAddon(r) IN
     \/ a \in SkipAddons /\ NextItem(r, "addon next")
     \/ a \notin SkipAddons /\ Chosen(r) = 0 /\ Stop(r, "failed")
     \/ /\ a \notin SkipAddons /\ Chosen(r) # 0
        /\ \/ addon[a].status \in Busy /\ Step(r, "addon attach")
           \/ /\ addon[a].status \notin Busy
              /\ \/ addon[a].version >= Chosen(r) /\ NextItem(r, "addon next")
                 \/ addon[a].version < Chosen(r) /\ Step(r, "addon check")
  /\ CloudUntouched

\* waitForAddonUpdate judges the add-on's status, not an update.
WaitForAddon(r) ==
  /\ pc[r] \in {"addon attach", "addon wait"}
  /\ addon[CurrentAddon(r)].status \notin Busy
  /\ \/ /\ addon[CurrentAddon(r)].status = "ACTIVE"
        /\ Step(r, IF pc[r] = "addon attach" THEN "addon reread" ELSE "addon verify")
     \/ addon[CurrentAddon(r)].status # "ACTIVE" /\ Stop(r, "failed")
  /\ CloudUntouched

AddonReread(r) ==
  /\ pc[r] = "addon reread"
  /\ \/ addon[CurrentAddon(r)].version >= Chosen(r) /\ NextItem(r, "addon next")
     \/ addon[CurrentAddon(r)].version < Chosen(r) /\ Step(r, "addon check")
  /\ CloudUntouched

(***************************************************************************)
(* validateVersionCompatibility against the cluster version, which the       *)
(* service memoizes at its first update of the phase and skips when it       *)
(* cannot be read; then preUpdateHealthCheck.                                *)
(***************************************************************************)
AddonCheck(r) ==
  /\ pc[r] = "addon check"
  /\ \/ /\ \E k \in hop[r] .. cp.version : Chosen(r) \notin Offered[CurrentAddon(r)][k]
        /\ Stop(r, "failed")
     \/ addon[CurrentAddon(r)].status \in Busy /\ Stop(r, "failed")
     \/ addon[CurrentAddon(r)].status \notin Busy /\ Step(r, "addon start")
  /\ CloudUntouched

\* Mutant: does not wait for the update it started.
AddonStartNoWait(r) ==
  /\ pc[r] = "addon start"
  /\ AcceptsAddon(CurrentAddon(r), Chosen(r))
  /\ UpdateAddon(CurrentAddon(r), Chosen(r))
  /\ NextItem(r, "addon next")
  /\ UNCHANGED <<cp, ng, update, faults>>

AddonStart(r) ==
  /\ pc[r] = "addon start"
  /\ \/ /\ AcceptsAddon(CurrentAddon(r), Chosen(r))
        /\ UpdateAddon(CurrentAddon(r), Chosen(r))
        /\ Answered(r, "addon wait")
        /\ UNCHANGED <<cp, ng, update>>
     \/ /\ ~AcceptsAddon(CurrentAddon(r), Chosen(r))
        /\ Stop(r, "failed")
        /\ CloudUntouched

\* postUpdateHealthCheck
AddonVerify(r) ==
  /\ pc[r] = "addon verify"
  /\ LET a == addon[CurrentAddon(r)] IN
     \/ a.status = "ACTIVE" /\ a.healthy /\ NextItem(r, "addon next")
     \/ ~(a.status = "ACTIVE" /\ a.healthy) /\ Stop(r, "failed")
  /\ CloudUntouched

--------------------------------------------------------------------------------
(***************************************************************************)
(* UpgradeNodegroups and rollNodegroup. The live panel between the start     *)
(* and the wait changes nothing here; it only takes time.                   *)
(***************************************************************************)
NodegroupsList(r) ==
  /\ pc[r] = "ng list"
  /\ listed' = [listed EXCEPT ![r] = WithDescribed(@, r)]
  /\ DescribedOne(r, "ng next")
  /\ UNCHANGED <<plan, hop, phase, completed, exit>>
  /\ CloudUntouched

NodegroupsDone(r) ==
  /\ pc[r] = "ng next"
  /\ pos[r] > Len(NodegroupOrder)
  /\ PhaseDone(r)
  /\ CloudUntouched

\* Mutant: ignores --skip-nodegroup and the AMI type.
NodegroupNextAll(r) ==
  /\ pc[r] = "ng next"
  /\ pos[r] <= Len(NodegroupOrder)
  /\ \/ listed[r][CurrentNodegroup(r)] >= hop[r] /\ NextItem(r, "ng next")
     \/ listed[r][CurrentNodegroup(r)] < hop[r] /\ Step(r, "ng gate")
  /\ CloudUntouched

NodegroupNext(r) ==
  /\ pc[r] = "ng next"
  /\ pos[r] <= Len(NodegroupOrder)
  /\ LET g == CurrentNodegroup(r) IN
     \/ (listed[r][g] >= hop[r] \/ g \notin Rollable) /\ NextItem(r, "ng next")
     \/ (listed[r][g] < hop[r] /\ g \in Rollable) /\ Step(r, "ng gate")
  /\ CloudUntouched

\* defaultNodegroupGate
NodegroupGate(r) ==
  /\ pc[r] = "ng gate"
  /\ LET g == ng[CurrentNodegroup(r)] IN
     \/ g.status = "ACTIVE" /\ g.healthy /\ Step(r, "ng start")
     \/ ~(g.status = "ACTIVE" /\ g.healthy) /\ Stop(r, "gate refused")
  /\ CloudUntouched

\* Mutant: does not wait for the roll it started.
NodegroupStartNoWait(r) ==
  /\ pc[r] = "ng start"
  /\ AcceptsNodegroup(CurrentNodegroup(r), hop[r])
  /\ UpdateNodegroupVersion(r, CurrentNodegroup(r), hop[r])
  /\ NextItem(r, "ng next")
  /\ UNCHANGED <<cp, addon, faults>>

NodegroupStart(r) ==
  /\ pc[r] = "ng start"
  /\ \/ /\ AcceptsNodegroup(CurrentNodegroup(r), hop[r])
        /\ UpdateNodegroupVersion(r, CurrentNodegroup(r), hop[r])
        /\ Answered(r, "ng wait")
        /\ UNCHANGED <<cp, addon>>
     \/ /\ ~AcceptsNodegroup(CurrentNodegroup(r), hop[r])
        /\ Stop(r, "failed")
        /\ CloudUntouched

\* Mutant: takes the end of the update for its success.
NodegroupWaitAnyEnd(r) ==
  /\ pc[r] = "ng wait"
  /\ update[r].status \in {"Successful", "Failed"}
  /\ NextItem(r, "ng next")
  /\ CloudUntouched

NodegroupWait(r) ==
  /\ pc[r] = "ng wait"
  /\ \/ update[r].status = "Successful" /\ NextItem(r, "ng next")
     \/ update[r].status = "Failed" /\ Stop(r, "failed")
  /\ CloudUntouched

--------------------------------------------------------------------------------
(***************************************************************************)
(* A cluster at rest, within the skew, with each add-on in any settled       *)
(* state or still being created.                                            *)
(***************************************************************************)
Init ==
  /\ \E c \in StartClusters : cp = c.cp /\ ng = c.ng /\ addon = c.addon
  /\ update = [r \in Runs |-> NoUpdate]
  /\ faults = 0
  /\ pc = [r \in Runs |-> "idle"]
  /\ plan = [r \in Runs |-> NoPlan]
  /\ hop = [r \in Runs |-> FirstMinor]
  /\ phase = [r \in Runs |-> "control plane"]
  /\ pos = [r \in Runs |-> 1]
  /\ listed = [r \in Runs |-> NoPlan.ng]
  /\ completed = [r \in Runs |-> {}]
  /\ exit = [r \in Runs |-> "none"]

PlanNext(r) ==
  \/ PlanCluster(r) \/ PlanNodegroups(r) \/ PlanAddon(r) \/ PlanAddonsDone(r)
  \/ PlanBlocked(r) \/ PlanReady(r)

ControlPlaneNext(r) ==
  \/ ControlPlaneDescribe(r) \/ WaitForClusterActive(r) \/ ControlPlaneRecheck(r)
  \/ ControlPlaneStart(r) \/ ControlPlaneWait(r) \/ ControlPlaneVerify(r)

AddonsNext(r) ==
  \/ AddonsList(r) \/ AddonsDone(r) \/ AddonNext(r) \/ WaitForAddon(r)
  \/ AddonReread(r) \/ AddonCheck(r) \/ AddonStart(r) \/ AddonVerify(r)

NodegroupsNext(r) ==
  \/ NodegroupsList(r) \/ NodegroupsDone(r) \/ NodegroupNext(r)
  \/ NodegroupGate(r) \/ NodegroupStart(r) \/ NodegroupWait(r)

\* What the process does when nothing outside it goes wrong.
RunNext(r) ==
  \/ PlanNext(r) \/ SkipPhase(r) \/ Confirm(r)
  \/ ControlPlaneNext(r) \/ AddonsNext(r) \/ NodegroupsNext(r)

Next ==
  \/ \E r \in Runs : \/ Launch(r)
                     \/ RunNext(r)
                     \/ Decline(r)
                     \/ PlanFails(r)
                     \/ PhaseFails(r)
  \/ CloudNext /\ UNCHANGED runVars

Spec == Init /\ [][Next]_vars

(***************************************************************************)
(* A live process goes on, EKS finishes what it accepted, issues get fixed,  *)
(* and the user starts the command again until it reports success.           *)
(***************************************************************************)
Fairness ==
  /\ \A r \in Runs : /\ WF_vars(RunNext(r))
                     /\ WF_vars(exit[r] \notin {"complete", "nothing"} /\ Launch(r))
  /\ WF_vars(ControlPlaneUpdateSucceeds /\ UNCHANGED runVars)
  /\ WF_vars(ControlPlaneSettles /\ UNCHANGED runVars)
  /\ \A g \in Nodegroups : /\ WF_vars(RollSucceeds(g) /\ UNCHANGED runVars)
                           /\ WF_vars(NodegroupRecovers(g) /\ UNCHANGED runVars)
  /\ \A a \in Addons : /\ WF_vars(AddonUpdateSucceeds(a) /\ UNCHANGED runVars)
                       /\ WF_vars(AddonRecovers(a) /\ UNCHANGED runVars)

FairSpec == Spec /\ Fairness

--------------------------------------------------------------------------------
(***************************************************************************)
(* Types, the direction of a plan, and the positions a list is indexed at.   *)
(***************************************************************************)
Plans == [target : Minors, cp : Minors,
          ng : [Nodegroups -> Minors], addon : [Addons -> Nat]]

RunTypeOK ==
  /\ pc \in [Runs -> Labels]
  /\ plan \in [Runs -> Plans]
  /\ hop \in [Runs -> Minors]
  /\ phase \in [Runs -> Phases]
  /\ pos \in [Runs -> Nat \ {0}]
  /\ listed \in [Runs -> [Nodegroups -> Minors]]
  /\ completed \in [Runs -> SUBSET (Minors \X Phases)]
  /\ exit \in [Runs -> Exits]

PositionOK ==
  \A r \in Runs :
    /\ pc[r] \in AddonLabels \ {"addon list", "addon next"} =>
         pos[r] \in 1 .. Len(AddonOrder)
    /\ pc[r] \in NodegroupLabels \ {"ng list", "ng next"} =>
         pos[r] \in 1 .. Len(NodegroupOrder)

\* A plan has a first hop: expandHops refused targets behind the control plane.
PlanAhead == \A r \in Runs : plan[r].cp <= plan[r].target

\* Every variable holds a value the Go types admit, every index is in its list and
\* every hop between the versions the plan starts from and leads to.
TypeOK == CloudTypeOK /\ RunTypeOK /\ PositionOK /\ PlanAhead

--------------------------------------------------------------------------------
(***************************************************************************)
(* What each phase of hop h promises about the cluster.                      *)
(***************************************************************************)
AddonsAt(h) == \A a \in Converged : addon[a].version >= Latest(a, h)
NodegroupsAt(h) == \A g \in Rollable : ng[g].version >= h

PhaseHolds(h, ph) ==
  CASE ph = "control plane" -> cp.version >= h
    [] ph = "addons" -> AddonsAt(h)
    [] ph = "nodegroups" -> NodegroupsAt(h)

Upgraded(t) == cp.version >= t /\ AddonsAt(t) /\ NodegroupsAt(t)

\* No control-plane update, finished or in flight, leaves a nodegroup further behind
\* than the kubelet skew: neither the groups the run rolls (an interrupted, failed or
\* skipped roll) nor those it must not touch (readinessStep looks ahead for them).
SkewSupported ==
  \A g \in Nodegroups : cp.to - ng[g].version <= KubeletSkew

\* Nodes move to a version only after every add-on the run manages has reached the
\* version chosen for it (Execute's phase order, across resumes and stale plans).
RollAfterAddons ==
  \A g \in Nodegroups : ng[g].to # ng[g].version => AddonsAt(ng[g].to)

\* Whatever a report calls completed is true of the cluster, also when the phase
\* attached to another run's update or was left early.
ReportTruthful ==
  \A r \in Runs : \A c \in completed[r] : PhaseHolds(c[1], c[2])

\* "Upgrade complete" and "Nothing to do" are printed only of a cluster at the target,
\* though the plan was read piecemeal while EKS was moving.
SuccessMeansUpgraded ==
  \A r \in Runs : exit[r] \in {"complete", "nothing"} => Upgraded(plan[r].target)

InFlight == (IF cp.to # cp.version THEN {ControlPlane} ELSE {})
            \cup {g \in Nodegroups : ng[g].to # ng[g].version}
            \cup {a \in Addons : addon[a].to # addon[a].version}

\* An upgrade by one minor never has two version updates under way, not even when a run
\* meets those of an interrupted run, or of another terminal with the same target,
\* still going (upgrades are serial, resumes attach).
OneInFlight == \A x, y \in InFlight : x = y

\* The control plane starts on a later hop only when the hop before it is finished.
HopsInOrder ==
  [][\A r \in Runs :
       (pc[r] = "cp start" /\ cp'.to # cp.to /\ hop[r] > FirstHop(plan[r]) /\ pc'[r] # pc[r])
         => Upgraded(hop[r] - 1)]_vars

\* An add-on is updated for a minor only after every add-on before it in dependency
\* order has reached its version for that minor (an unhealthy or unread one included).
DependenciesFirst ==
  \A i \in 1 .. Len(AddonOrder) :
    LET a == addon[AddonOrder[i]] IN
    (a.status = "UPDATING" /\ AddonOrder[i] \in Converged) =>
      \E k \in Minors :
        /\ a.to = Latest(AddonOrder[i], k)
        /\ \A j \in 1 .. i - 1 :
             AddonOrder[j] \in Converged => addon[AddonOrder[j]].version >= Latest(AddonOrder[j], k)

Contract == INSTANCE UpgradeContract WITH
  Skew <- KubeletSkew, Latest <- Latest,
  plane <- cp.version,
  node <- [g \in Nodegroups |-> ng[g].version],
  version <- [a \in Addons |-> addon[a].version]

\* Runs implement the contract: whatever overlaps, fails or is rerun, versions in effect
\* move one supported minor at a time and skipped resources do not move at all.
ContractKept == Contract!Spec

\* docs/reference/cluster.md: rerunning "after a failure (or Ctrl+C) resumes where it
\* left off". So a rerun leaves the hop an earlier run began only when it is finished.
ResumeFinishesHop ==
  [][(cp'.to > cp.to /\ \A c \in StartClusters : c.cp.version < cp.version)
       => Upgraded(cp.version)]_vars

\* addons.go: "The control-plane and nodegroup phases attach to such in-flight updates"
\* when they find them on a resume, instead of failing on the UPDATING status.
NodegroupPhaseAttaches ==
  [][\A r \in Runs :
       (pc[r] = "ng gate" /\ pc'[r] = "stopped" /\ exit'[r] = "gate refused")
         => ng[CurrentNodegroup(r)].status # "UPDATING"]_vars

\* docs/reference/cluster.md: "a health gate after every phase". So nodes roll only onto
\* add-ons that are ACTIVE without issues.
RollsOntoHealthyAddons ==
  [][\A g \in Nodegroups :
       (ng[g].status # "UPDATING" /\ ng'[g].status = "UPDATING")
         => \A a \in Converged : addon[a].status = "ACTIVE" /\ addon[a].healthy]_vars

\* The plan a user would get from this cluster, if nothing moved while it was built.
PlanNow(t) == [target |-> t, cp |-> cp.version,
               ng |-> [g \in Nodegroups |-> ng[g].version],
               addon |-> [a \in Addons |-> addon[a].version]]

\* If the cluster can be upgraded at all, rerunning the same command through failed
\* updates, lost answers, interruptions and refusals ends with it upgraded for good.
EventuallyUpgraded ==
  \A t \in Targets :
    (cp.version <= t /\ ~Blocked(PlanNow(t))) => <>[]Upgraded(t)
================================================================================
