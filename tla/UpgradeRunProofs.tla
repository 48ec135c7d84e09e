---------------------------- MODULE UpgradeRunProofs ----------------------------
(***************************************************************************)
(* Theorems about UpgradeRun, for every set of nodegroups, add-ons and runs, *)
(* every span of minors and every number of faults.                          *)
(***************************************************************************)
EXTENDS UpgradeRun, TLAPS

--------------------------------------------------------------------------------
(***************************************************************************)
(* The ways a run moves on preserve the types of what it knows.              *)
(***************************************************************************)

\* A plan that does not change keeps its direction.
LEMMA AheadKept ==
  ASSUME PlanAhead, UNCHANGED plan
  PROVE  PlanAhead'
  BY DEF PlanAhead

\* Whatever stops a run (Execute returning, a failed call) leaves its state well formed.
LEMMA StopTypes ==
  ASSUME RunTypeOK, PositionOK, PlanAhead, NEW r \in Runs, NEW why \in Exits, Stop(r, why)
  PROVE  RunTypeOK' /\ PositionOK' /\ PlanAhead'
  <1>1. PlanAhead'
    BY AheadKept DEF Stop
  <1>2. RunTypeOK' /\ PositionOK'
    BY DEF RunTypeOK, PositionOK, Stop, Goto, Labels, AddonLabels, NodegroupLabels
  <1> QED
    BY <1>1, <1>2

\* A step to the next call keeps the types, provided a call about an item has one.
LEMMA StepTypes ==
  ASSUME RunTypeOK, PositionOK, PlanAhead, NEW r \in Runs, NEW label \in Labels, Step(r, label),
         label \in AddonLabels \ {"addon list", "addon next"} =>
           pos[r] \in 1 .. Len(AddonOrder),
         label \in NodegroupLabels \ {"ng list", "ng next"} =>
           pos[r] \in 1 .. Len(NodegroupOrder)
  PROVE  RunTypeOK' /\ PositionOK' /\ PlanAhead'
  <1>1. PlanAhead'
    BY AheadKept DEF Step
  <1>2. RunTypeOK' /\ PositionOK'
    BY DEF RunTypeOK, PositionOK, Step, Goto
  <1> QED
    BY <1>1, <1>2

\* Positions count from 1.
LEMMA NextPosition == \A n \in Nat : n + 1 \in Nat \ {0}
  OBVIOUS

\* ... from 1 itself.
LEMMA FirstPosition == 1 \in Nat \ {0}
  OBVIOUS

\* An index that is not past the end of a list is an index of the list.
LEMMA WithinBounds == \A i, n \in Nat : i # 0 /\ i <= n => i \in 1 .. n
  OBVIOUS

\* Going on to the next add-on or nodegroup of the loop keeps the types.
LEMMA NextItemTypes ==
  ASSUME RunTypeOK, PositionOK, PlanAhead, NEW r \in Runs, NEW label \in {"addon next", "ng next"},
         NextItem(r, label)
  PROVE  RunTypeOK' /\ PositionOK' /\ PlanAhead'
  <1>1. pos[r] + 1 \in Nat \ {0}
    <2>1. pos[r] \in Nat
      BY DEF RunTypeOK
    <2> QED
      BY <2>1, NextPosition
  <1>2. pos' \in [Runs -> Nat \ {0}] /\ \A s \in Runs : s # r => pos'[s] = pos[s]
    <2>1. pos \in [Runs -> Nat \ {0}] /\ pos' = [pos EXCEPT ![r] = pos[r] + 1]
      BY DEF RunTypeOK, NextItem
    <2> QED
      BY <1>1, <2>1, Zenon
  <1>3. pc' \in [Runs -> Labels] /\ pc'[r] = label /\ \A s \in Runs : s # r => pc'[s] = pc[s]
    BY DEF RunTypeOK, NextItem, Goto, Labels, PhaseLabels, AddonLabels, NodegroupLabels
  <1>4. RunTypeOK'
    BY <1>2, <1>3 DEF RunTypeOK, NextItem
  <1>5. PositionOK'
    BY <1>2, <1>3 DEF PositionOK, AddonLabels, NodegroupLabels
  <1> QED
    BY <1>4, <1>5, AheadKept DEF NextItem

\* Execute's walk over hops and phases stays within the minors and the phases.
LEMMA NextPhaseTypes ==
  ASSUME RunTypeOK, PositionOK, PlanAhead, NEW r \in Runs, NextPhase(r),
         completed' \in [Runs -> SUBSET (Minors \X Phases)]
  PROVE  RunTypeOK' /\ PositionOK' /\ PlanAhead'
  <1>1. hop[r] \in Minors /\ plan[r].target \in Minors
    BY DEF RunTypeOK, Plans
  <1>2. hop[r] < plan[r].target => hop[r] + 1 \in Minors
    BY <1>1, MinorsAssumption DEF Minors
  <1>3. hop' \in [Runs -> Minors] /\ phase' \in [Runs -> Phases]
    BY <1>1, <1>2 DEF RunTypeOK, NextPhase, Enter, Phases
  <1>4. pc' \in [Runs -> Labels] /\ exit' \in [Runs -> Exits]
    BY DEF RunTypeOK, NextPhase, Enter, Goto, Labels, Exits
  <1>5. PositionOK'
    BY DEF RunTypeOK, PositionOK, NextPhase, Enter, Goto, AddonLabels, NodegroupLabels
  <1>6. UNCHANGED <<plan, pos, listed>>
    BY DEF NextPhase
  <1> QED
    BY <1>3, <1>4, <1>5, <1>6, AheadKept DEF RunTypeOK

\* A finished phase adds a hop and a phase to the report, and nothing else.
LEMMA PhaseDoneTypes ==
  ASSUME RunTypeOK, PositionOK, PlanAhead, NEW r \in Runs, PhaseDone(r)
  PROVE  RunTypeOK' /\ PositionOK' /\ PlanAhead'
  <1>1. completed' \in [Runs -> SUBSET (Minors \X Phases)]
    BY DEF RunTypeOK, PhaseDone
  <1> QED
    BY <1>1, NextPhaseTypes DEF PhaseDone

\* A mutating call's answer, lost or received, keeps the types.
LEMMA AnsweredTypes ==
  ASSUME RunTypeOK, PositionOK, PlanAhead, NEW r \in Runs, NEW label \in Labels, Answered(r, label),
         label \in AddonLabels \ {"addon list", "addon next"} =>
           pos[r] \in 1 .. Len(AddonOrder),
         label \in NodegroupLabels \ {"ng list", "ng next"} =>
           pos[r] \in 1 .. Len(NodegroupOrder)
  PROVE  RunTypeOK' /\ PositionOK' /\ PlanAhead'
  <1>1. CASE Step(r, label)
    BY <1>1, StepTypes
  <1>2. CASE Stop(r, "failed")
    BY <1>2, StopTypes DEF Exits
  <1> QED
    BY <1>1, <1>2 DEF Answered

--------------------------------------------------------------------------------
(***************************************************************************)
(* The cloud keeps its types, moved by itself or by a mutating call.         *)
(***************************************************************************)

\* The fault counter only counts.
LEMMA FaultTypes ==
  ASSUME faults \in Nat, NEW kind, NoFault \/ Fault(kind)
  PROVE  faults' \in Nat
  BY DEF NoFault, Fault

\* An update ends Successful or Failed in the ledger of every run.
LEMMA FinishTypes ==
  ASSUME update \in [Runs -> Updates], NEW x, NEW result \in {"Successful", "Failed"},
         FinishUpdate(x, result)
  PROVE  update' \in [Runs -> Updates]
  <1>1. \A r \in Runs : [update[r] EXCEPT !.status = result] \in Updates
    <2> TAKE r \in Runs
    <2>1. update[r] \in Updates
      OBVIOUS
    <2> QED
      BY <2>1 DEF Updates
  <1>2. \A r \in Runs : update[r] \in Updates
    OBVIOUS
  <1>3. \A r \in Runs :
          (IF update[r].of = x /\ update[r].status = "InProgress"
           THEN [update[r] EXCEPT !.status = result] ELSE update[r]) \in Updates
    BY <1>1, <1>2, Zenon
  <1> QED
    BY <1>3, Zenon DEF FinishUpdate

\* A started update is entered in the ledger of the run that started it.
LEMMA StartTypes ==
  ASSUME update \in [Runs -> Updates], NEW r \in Runs, NEW x \in {ControlPlane} \cup Nodegroups,
         StartUpdate(r, x)
  PROVE  update' \in [Runs -> Updates]
  BY DEF StartUpdate, Updates

\* The control plane stays a control plane, whatever EKS does to it.
LEMMA ControlPlaneTypes ==
  ASSUME CloudTypeOK,
         \/ ControlPlaneUpdateSucceeds \/ ControlPlaneUpdateFails
         \/ ControlPlaneSettles \/ ConfigurationUpdate
  PROVE  CloudTypeOK'
  <1>1. faults' \in Nat
    BY FaultTypes DEF CloudTypeOK, ControlPlaneUpdateSucceeds, ControlPlaneUpdateFails,
                      ControlPlaneSettles, ConfigurationUpdate
  <1>2. update' \in [Runs -> Updates]
    BY FinishTypes DEF CloudTypeOK, ControlPlaneUpdateSucceeds, ControlPlaneUpdateFails,
                       ControlPlaneSettles, ConfigurationUpdate
  <1>3. cp' \in ControlPlaneStates
    BY DEF CloudTypeOK, ControlPlaneStates, ControlPlaneUpdateSucceeds,
           ControlPlaneUpdateFails, ControlPlaneSettles, ConfigurationUpdate
  <1>4. UNCHANGED <<ng, addon>>
    BY DEF ControlPlaneUpdateSucceeds, ControlPlaneUpdateFails, ControlPlaneSettles,
           ConfigurationUpdate
  <1> QED
    BY <1>1, <1>2, <1>3, <1>4 DEF CloudTypeOK

\* The same for the nodegroups.
LEMMA NodegroupTypes ==
  ASSUME CloudTypeOK, NEW g \in Nodegroups,
         RollSucceeds(g) \/ RollFails(g) \/ NodegroupDegrades(g) \/ NodegroupRecovers(g)
  PROVE  CloudTypeOK'
  <1>1. faults' \in Nat
    BY FaultTypes DEF CloudTypeOK, RollSucceeds, RollFails, NodegroupDegrades, NodegroupRecovers
  <1>2. update' \in [Runs -> Updates]
    BY FinishTypes DEF CloudTypeOK, RollSucceeds, RollFails, NodegroupDegrades,
                       NodegroupRecovers
  <1>a. ng \in [Nodegroups -> NodegroupStates] /\ ng[g] \in NodegroupStates
    BY DEF CloudTypeOK
  <1>3. ng' \in [Nodegroups -> NodegroupStates]
    <2>1. CASE RollSucceeds(g)
      BY <1>a, <2>1 DEF NodegroupStates, RollSucceeds
    <2>2. CASE RollFails(g)
      <3>1. \A status \in {"ACTIVE", "DEGRADED"} :
              [version |-> ng[g].version, to |-> ng[g].version, status |-> status,
               healthy |-> ng[g].healthy] \in NodegroupStates
        BY <1>a DEF NodegroupStates
      <3> QED
        BY <1>a, <2>2, <3>1, Zenon DEF RollFails
    <2>3. CASE NodegroupDegrades(g)
      BY <1>a, <2>3 DEF NodegroupStates, NodegroupDegrades
    <2>4. CASE NodegroupRecovers(g)
      BY <1>a, <2>4 DEF NodegroupStates, NodegroupRecovers
    <2> QED
      BY <2>1, <2>2, <2>3, <2>4
  <1>4. UNCHANGED <<cp, addon>>
    BY DEF RollSucceeds, RollFails, NodegroupDegrades, NodegroupRecovers
  <1> QED
    BY <1>1, <1>2, <1>3, <1>4 DEF CloudTypeOK

\* The same for the add-ons.
LEMMA AddonTypes ==
  ASSUME CloudTypeOK, NEW a \in Addons,
         AddonUpdateSucceeds(a) \/ AddonUpdateFails(a) \/ AddonRecovers(a)
  PROVE  CloudTypeOK'
  <1>1. faults' \in Nat
    BY FaultTypes DEF CloudTypeOK, AddonUpdateSucceeds, AddonUpdateFails, AddonRecovers
  <1>a. addon \in [Addons -> AddonStates] /\ addon[a] \in AddonStates
    BY DEF CloudTypeOK
  <1>2. addon' \in [Addons -> AddonStates]
    <2>1. CASE AddonUpdateSucceeds(a)
      BY <1>a, <2>1 DEF AddonStates, Busy, AddonUpdateSucceeds
    <2>2. CASE AddonUpdateFails(a)
      BY <1>a, <2>2 DEF AddonStates, Busy, AddonUpdateFails
    <2>3. CASE AddonRecovers(a)
      BY <1>a, <2>3 DEF AddonStates, Busy, AddonRecovers
    <2> QED
      BY <2>1, <2>2, <2>3
  <1>3. UNCHANGED <<cp, ng, update>>
    BY DEF AddonUpdateSucceeds, AddonUpdateFails, AddonRecovers
  <1> QED
    BY <1>1, <1>2, <1>3 DEF CloudTypeOK

\* Everything EKS does by itself keeps the cloud's types.
LEMMA CloudTypes ==
  ASSUME CloudTypeOK, CloudNext
  PROVE  CloudTypeOK'
  BY ControlPlaneTypes, NodegroupTypes, AddonTypes DEF CloudNext

--------------------------------------------------------------------------------
(***************************************************************************)
(* One lemma per group of actions: together they make TypeOK inductive.      *)
(***************************************************************************)

\* A run stopping, or only moving on, leaves the cloud as it is, or counts a fault.
LEMMA CloudKept ==
  ASSUME CloudTypeOK, NEW kind, NoFault \/ Fault(kind), UNCHANGED <<cp, ng, addon, update>>
  PROVE  CloudTypeOK'
  BY FaultTypes DEF CloudTypeOK

\* A step that leaves the cloud alone keeps its types.
LEMMA CloudUntouchedTypes ==
  ASSUME CloudTypeOK, CloudUntouched
  PROVE  CloudTypeOK'
  BY DEF CloudTypeOK, CloudUntouched, cloudVars

\* Going to the head of a list keeps the types: no call there is about an item.
LEMMA FirstItemTypes ==
  ASSUME RunTypeOK, PositionOK, NEW r \in Runs, NEW label \in Labels, FirstItem(r, label),
         label \notin AddonLabels \ {"addon list", "addon next"},
         label \notin NodegroupLabels \ {"ng list", "ng next"}
  PROVE  pc' \in [Runs -> Labels] /\ pos' \in [Runs -> Nat \ {0}] /\ PositionOK'
  <1>1. pc' \in [Runs -> Labels] /\ pc'[r] = label /\ \A s \in Runs : s # r => pc'[s] = pc[s]
    BY DEF RunTypeOK, FirstItem, Goto
  <1>2. pos' \in [Runs -> Nat \ {0}] /\ \A s \in Runs : s # r => pos'[s] = pos[s]
    <2>1. pos \in [Runs -> Nat \ {0}] /\ pos' = [pos EXCEPT ![r] = 1]
      BY DEF RunTypeOK, FirstItem
    <2> QED
      BY <2>1, FirstPosition, Zenon
  <1>3. PositionOK'
    BY <1>1, <1>2 DEF PositionOK
  <1> QED
    BY <1>1, <1>2, <1>3

\* The calls that describe one nodegroup after the other keep the types.
LEMMA DescribedOneTypes ==
  ASSUME RunTypeOK, PositionOK, NEW r \in Runs, pc[r] \in {"plan nodegroups", "ng list"},
         NEW next \in {"plan addons", "ng next"}, DescribedOne(r, next)
  PROVE  pc' \in [Runs -> Labels] /\ pos' \in [Runs -> Nat \ {0}] /\ PositionOK'
  <1>1. CASE FirstItem(r, next)
    BY <1>1, FirstItemTypes DEF Labels, PlanLabels, PhaseLabels, AddonLabels, NodegroupLabels
  <1>2. CASE pos' = [pos EXCEPT ![r] = @ + 1] /\ UNCHANGED pc
    <2>1. pos \in [Runs -> Nat \ {0}] /\ pos' = [pos EXCEPT ![r] = pos[r] + 1]
      BY <1>2 DEF RunTypeOK
    <2>2. pos[r] + 1 \in Nat \ {0}
      <3>1. pos[r] \in Nat
        BY <2>1
      <3> QED
        BY <3>1, NextPosition
    <2>3. pos' \in [Runs -> Nat \ {0}] /\ \A s \in Runs : s # r => pos'[s] = pos[s]
      BY <2>1, <2>2, Zenon
    <2>4. PositionOK'
      BY <1>2, <2>3 DEF PositionOK, AddonLabels, NodegroupLabels
    <2> QED
      BY <1>2, <2>3, <2>4 DEF RunTypeOK
  <1> QED
    BY <1>1, <1>2 DEF DescribedOne

\* What has been described stays a version for each nodegroup, as it was read before or
\* as it is now.
LEMMA WithDescribedTypes ==
  ASSUME CloudTypeOK, NEW read \in [Nodegroups -> Minors], NEW r
  PROVE  /\ WithDescribed(read, r) \in [Nodegroups -> Minors]
         /\ \A g \in Nodegroups : WithDescribed(read, r)[g] \in {read[g], ng[g].version}
  <1>1. \A g \in Nodegroups : ng[g].version \in Minors /\ read[g] \in Minors
    BY DEF CloudTypeOK, NodegroupStates
  <1>2. \A g \in Nodegroups :
          WithDescribed(read, r)[g] = IF \E i \in DOMAIN NodegroupOrder :
                                           i = pos[r] /\ NodegroupOrder[i] = g
                                      THEN ng[g].version ELSE read[g]
    BY Zenon DEF WithDescribed
  <1>3. \A g \in Nodegroups : WithDescribed(read, r)[g] \in {read[g], ng[g].version}
    BY <1>2, Zenon
  <1>4. \A g \in Nodegroups : WithDescribed(read, r)[g] \in Minors
    BY <1>1, <1>3
  <1>5. WithDescribed(read, r) = [g \in Nodegroups |-> WithDescribed(read, r)[g]]
    BY DEF WithDescribed
  <1> QED
    BY <1>3, <1>4, <1>5

\* A plan is read from a well-formed cloud, so it is well formed.
LEMMA PlanningTypes ==
  ASSUME TypeOK, NEW r \in Runs,
         PlanCluster(r) \/ PlanNodegroups(r) \/ PlanAddon(r) \/ PlanAddonsDone(r)
  PROVE  TypeOK'
  <1>a. plan \in [Runs -> Plans] /\ plan[r] \in Plans
    BY DEF TypeOK, RunTypeOK
  <1>b. cp.version \in Minors /\ addon \in [Addons -> AddonStates]
    BY DEF TypeOK, CloudTypeOK, ControlPlaneStates
  <1>1. CloudTypeOK'
    BY CloudKept, CloudUntouchedTypes
    DEF TypeOK, PlanCluster, PlanNodegroups, PlanAddon, PlanAddonsDone
  <1>2. CASE Stop(r, "error")
    BY <1>1, <1>2, StopTypes DEF TypeOK, Exits
  <1>3. CASE PlanCluster(r) /\ ~Stop(r, "error")
    <2>1. plan' \in [Runs -> Plans]
      BY <1>a, <1>b, <1>3 DEF PlanCluster, Plans
    <2>2. pc' \in [Runs -> Labels] /\ UNCHANGED <<hop, phase, pos, listed, completed, exit>>
      BY <1>3 DEF TypeOK, RunTypeOK, PlanCluster, Goto, Labels, PlanLabels
    <2>3. PositionOK'
      BY <1>3, <2>2 DEF TypeOK, RunTypeOK, PositionOK, PlanCluster, Goto, AddonLabels,
                        NodegroupLabels
    <2>4. plan'[r].cp = cp.version /\ plan'[r].target = plan[r].target
      BY <1>a, <1>3 DEF PlanCluster, Plans
    <2>5. cp.version <= plan[r].target
      BY <1>3 DEF PlanCluster
    <2>6. \A s \in Runs : s # r => plan'[s] = plan[s]
      BY <1>a, <1>3 DEF PlanCluster
    <2>7. PlanAhead'
      BY <2>4, <2>5, <2>6 DEF TypeOK, PlanAhead
    <2> QED
      BY <1>1, <2>1, <2>2, <2>3, <2>7 DEF TypeOK, RunTypeOK
  <1>4. CASE PlanNodegroups(r)
    <2>a. plan[r].ng \in [Nodegroups -> Minors]
      BY <1>a DEF Plans
    <2>1. WithDescribed(plan[r].ng, r) \in [Nodegroups -> Minors]
      BY <2>a, WithDescribedTypes DEF TypeOK
    <2>2. plan' = [plan EXCEPT ![r].ng = WithDescribed(plan[r].ng, r)]
      BY <1>4 DEF PlanNodegroups
    <2>3. plan' \in [Runs -> Plans]
      BY <1>a, <2>1, <2>2 DEF Plans
    <2>4. PlanAhead'
      BY <1>a, <2>2 DEF TypeOK, PlanAhead, Plans
    <2>5. pc' \in [Runs -> Labels] /\ pos' \in [Runs -> Nat \ {0}] /\ PositionOK'
      BY <1>4, DescribedOneTypes DEF TypeOK, PlanNodegroups
    <2> QED
      BY <1>1, <1>4, <2>3, <2>4, <2>5 DEF TypeOK, RunTypeOK, PlanNodegroups
  <1>5. CASE PlanAddon(r)
    <2>1. PICK a \in Addons : plan' = [plan EXCEPT ![r].addon[a] = addon[a].version]
      BY <1>5 DEF PlanAddon
    <2>2. addon[a].version \in Nat
      BY <1>b DEF AddonStates
    <2>3. plan' \in [Runs -> Plans]
      BY <1>a, <2>1, <2>2 DEF Plans
    <2>4. PlanAhead'
      BY <1>a, <2>1 DEF TypeOK, PlanAhead, Plans
    <2>5. PositionOK'
      BY <1>5 DEF TypeOK, PositionOK, PlanAddon
    <2> QED
      BY <1>1, <1>5, <2>3, <2>4, <2>5 DEF TypeOK, RunTypeOK, PlanAddon
  <1>6. CASE PlanAddonsDone(r)
    BY <1>1, <1>6, StepTypes
    DEF TypeOK, PlanAddonsDone, Labels, PlanLabels, AddonLabels, NodegroupLabels
  <1> QED
    BY <1>2, <1>3, <1>4, <1>5, <1>6

\* A new process starts from nothing, whatever the last one knew.
LEMMA LaunchTypes ==
  ASSUME TypeOK, NEW r \in Runs, Launch(r)
  PROVE  TypeOK'
  <1>1. FirstMinor \in Minors \/ Targets = {}
    BY MinorsAssumption, TargetsAssumption DEF Minors
  <1>2. PICK t \in Targets : plan' = [plan EXCEPT ![r] = [NoPlan EXCEPT !.target = t]]
    BY DEF Launch
  <1>3. FirstMinor \in Minors /\ t \in Minors
    BY <1>1, TargetsAssumption
  <1>4. [NoPlan EXCEPT !.target = t] \in Plans /\ NoPlan.ng \in [Nodegroups -> Minors]
    BY <1>3 DEF NoPlan, Unread, Plans
  <1>5. plan' \in [Runs -> Plans]
    BY <1>2, <1>4 DEF TypeOK, RunTypeOK
  <1>6. update' \in [Runs -> Updates]
    BY DEF TypeOK, CloudTypeOK, Launch, NoUpdate, Updates
  <1>7. CloudTypeOK'
    BY <1>6 DEF TypeOK, CloudTypeOK, Launch
  <1>a. 1 \in Nat \ {0}
    BY NextPosition
  <1>8. pc' \in [Runs -> Labels] /\ pos' \in [Runs -> Nat \ {0}]
    <2>1. pc' \in [Runs -> Labels]
      BY DEF TypeOK, RunTypeOK, Launch, Goto, Labels, PlanLabels
    <2>2. pos \in [Runs -> Nat \ {0}] /\ pos' = [pos EXCEPT ![r] = 1]
      BY DEF TypeOK, RunTypeOK, Launch
    <2> QED
      BY <1>a, <2>1, <2>2, Zenon
  <1>9. RunTypeOK'
    BY <1>3, <1>4, <1>5, <1>8 DEF TypeOK, RunTypeOK, Launch, Phases, Exits
  <1>10. PositionOK'
    BY DEF TypeOK, RunTypeOK, PositionOK, Launch, Goto, AddonLabels, NodegroupLabels
  <1>11. PlanAhead'
    <2>1. plan'[r].cp = FirstMinor /\ plan'[r].target = t
      BY <1>2 DEF TypeOK, RunTypeOK, NoPlan
    <2>2. \A s \in Runs : s # r => plan'[s] = plan[s]
      BY <1>2 DEF TypeOK, RunTypeOK
    <2> QED
      BY <1>3, <2>1, <2>2 DEF TypeOK, PlanAhead, Minors
  <1> QED
    BY <1>7, <1>9, <1>10, <1>11 DEF TypeOK

\* Deciding, skipping, confirming, declining and failing.
LEMMA ExecuteTypes ==
  ASSUME TypeOK, NEW r \in Runs,
         \/ PlanBlocked(r) \/ PlanReady(r) \/ PlanFails(r)
         \/ SkipPhase(r) \/ Confirm(r) \/ Decline(r) \/ PhaseFails(r)
  PROVE  TypeOK'
  <1>1. CloudTypeOK'
    BY CloudKept, CloudUntouchedTypes
    DEF TypeOK, PlanBlocked, PlanReady, PlanFails, SkipPhase, Confirm, Decline, PhaseFails
  <1>2. CASE PlanBlocked(r) \/ PlanFails(r) \/ Decline(r) \/ PhaseFails(r)
    BY <1>1, <1>2, StopTypes
    DEF TypeOK, PlanBlocked, PlanFails, Decline, PhaseFails, Exits
  <1>3. CASE SkipPhase(r)
    <2>1. completed' \in [Runs -> SUBSET (Minors \X Phases)]
      BY <1>3 DEF TypeOK, RunTypeOK, SkipPhase
    <2> QED
      BY <1>1, <1>3, <2>1, NextPhaseTypes DEF TypeOK, SkipPhase
  <1>4. CASE Confirm(r)
    <2>1. FirstCall(phase[r]) \in {"cp describe", "addon list", "ng list"}
      BY DEF TypeOK, RunTypeOK, Phases, FirstCall
    <2>2. pc' \in [Runs -> Labels] /\ pos' \in [Runs -> Nat \ {0}] /\ PositionOK'
      BY <1>4, <2>1, FirstItemTypes
      DEF TypeOK, Confirm, Labels, PhaseLabels, ControlPlaneLabels, AddonLabels, NodegroupLabels
    <2> QED
      BY <1>1, <1>4, <2>2, AheadKept DEF TypeOK, RunTypeOK, Confirm
  <1>5. CASE PlanReady(r)
    <2>1. CASE Stop(r, "nothing")
      BY <1>1, <2>1, StopTypes DEF TypeOK, Exits
    <2>2. CASE ~Stop(r, "nothing")
      <3>a. plan[r].cp \in Minors /\ plan[r].target \in Minors /\ plan[r].cp <= plan[r].target
        BY DEF TypeOK, RunTypeOK, PlanAhead, Plans
      <3>1. FirstHop(plan[r]) \in Minors
        BY <3>a, MinorsAssumption DEF FirstHop, Minors
      <3>2. pc' \in [Runs -> Labels] /\ hop' \in [Runs -> Minors]
        BY <1>5, <2>2, <3>1 DEF TypeOK, RunTypeOK, PlanReady, Goto, Labels
      <3>3. PositionOK'
        BY <1>5, <2>2 DEF TypeOK, RunTypeOK, PositionOK, PlanReady, Goto, AddonLabels,
                          NodegroupLabels
      <3> QED
        BY <1>1, <1>5, <2>2, <3>2, <3>3, AheadKept DEF TypeOK, RunTypeOK, PlanReady
    <2> QED
      BY <2>1, <2>2
  <1> QED
    BY <1>2, <1>3, <1>4, <1>5
\* The control-plane phase: only its start changes the cloud.
LEMMA ControlPlanePhaseTypes ==
  ASSUME TypeOK, NEW r \in Runs, ControlPlaneNext(r)
  PROVE  TypeOK'
  <1>1. CASE ControlPlaneStart(r) /\ ~CloudUntouched
    <2>1. hop[r] \in Minors
      BY DEF TypeOK, RunTypeOK
    <2>2. cp' \in ControlPlaneStates
      BY <1>1, <2>1
      DEF TypeOK, CloudTypeOK, ControlPlaneStart, UpdateClusterVersion, ControlPlaneStates
    <2>3. update' \in [Runs -> Updates]
      BY <1>1, StartTypes DEF TypeOK, CloudTypeOK, ControlPlaneStart, UpdateClusterVersion
    <2>4. faults' \in Nat
      BY <1>1, FaultTypes DEF TypeOK, CloudTypeOK, ControlPlaneStart, Answered
    <2>5. CloudTypeOK'
      BY <1>1, <2>2, <2>3, <2>4 DEF TypeOK, CloudTypeOK, ControlPlaneStart
    <2> QED
      BY <1>1, <2>5, AnsweredTypes
      DEF TypeOK, ControlPlaneStart, Labels, PhaseLabels, ControlPlaneLabels, AddonLabels,
          NodegroupLabels
  <1>2. CASE CloudUntouched
    <2>1. CloudTypeOK'
      BY <1>2, CloudUntouchedTypes DEF TypeOK
    <2>2. \/ PhaseDone(r)
          \/ \E why \in Exits : Stop(r, why)
          \/ \E label \in ControlPlaneLabels : Step(r, label)
          \/ Answered(r, "cp wait")
      BY DEF ControlPlaneNext, ControlPlaneDescribe, WaitForClusterActive, ControlPlaneRecheck,
             ControlPlaneStart, ControlPlaneWait, ControlPlaneVerify, ControlPlaneLabels, Exits
    <2>3. \A label \in ControlPlaneLabels :
            label \in Labels /\ label \notin AddonLabels /\ label \notin NodegroupLabels
      BY DEF Labels, PhaseLabels, ControlPlaneLabels, AddonLabels, NodegroupLabels
    <2>4. "cp wait" \in ControlPlaneLabels
      BY DEF ControlPlaneLabels
    <2> QED
      BY <2>1, <2>2, <2>3, <2>4, PhaseDoneTypes, StopTypes, StepTypes, AnsweredTypes DEF TypeOK
  <1>3. ControlPlaneStart(r) \/ CloudUntouched
    BY DEF ControlPlaneNext, ControlPlaneDescribe, WaitForClusterActive, ControlPlaneRecheck,
           ControlPlaneWait, ControlPlaneVerify
  <1> QED
    BY <1>1, <1>2, <1>3

\* The loops index their lists only within bounds.
LEMMA CurrentTypes ==
  ASSUME TypeOK, NEW r \in Runs
  PROVE  /\ pos[r] \in 1 .. Len(AddonOrder) => CurrentAddon(r) \in Addons /\ Chosen(r) \in Nat
         /\ pos[r] \in 1 .. Len(NodegroupOrder) => CurrentNodegroup(r) \in Nodegroups
  <1>1. hop[r] \in Minors
    BY DEF TypeOK, RunTypeOK
  <1>2. pos[r] \in 1 .. Len(AddonOrder) => CurrentAddon(r) \in Addons
    BY OrderAssumption DEF CurrentAddon
  <1>3. pos[r] \in 1 .. Len(NodegroupOrder) => CurrentNodegroup(r) \in Nodegroups
    BY OrderAssumption DEF CurrentNodegroup
  <1> QED
    BY <1>1, <1>2, <1>3, OfferedAssumption DEF Chosen

\* Entering a phase's loop.
LEMMA ListTypes ==
  ASSUME TypeOK, NEW r \in Runs, AddonsList(r) \/ NodegroupsList(r)
  PROVE  TypeOK'
  <1>1. CloudTypeOK'
    BY CloudUntouchedTypes DEF TypeOK, AddonsList, NodegroupsList
  <1>2. pc' \in [Runs -> Labels] /\ pos' \in [Runs -> Nat \ {0}] /\ PositionOK'
    <2>1. CASE AddonsList(r)
      BY <2>1, FirstItemTypes
      DEF TypeOK, AddonsList, Labels, PhaseLabels, AddonLabels, NodegroupLabels
    <2>2. CASE NodegroupsList(r)
      BY <2>2, DescribedOneTypes DEF TypeOK, NodegroupsList
    <2> QED
      BY <2>1, <2>2
  <1>3. listed' \in [Runs -> [Nodegroups -> Minors]]
    <2>1. listed \in [Runs -> [Nodegroups -> Minors]]
      BY DEF TypeOK, RunTypeOK
    <2>2. WithDescribed(listed[r], r) \in [Nodegroups -> Minors]
      BY <2>1, WithDescribedTypes DEF TypeOK
    <2>3. \/ listed' = listed
          \/ listed' = [listed EXCEPT ![r] = WithDescribed(listed[r], r)]
      BY DEF AddonsList, NodegroupsList
    <2> QED
      BY <2>1, <2>2, <2>3, Zenon
  <1>4. UNCHANGED <<plan, hop, phase, completed, exit>>
    BY DEF AddonsList, NodegroupsList
  <1> QED
    BY <1>1, <1>2, <1>3, <1>4, AheadKept DEF TypeOK, RunTypeOK

\* The add-on phase.
LEMMA AddonsPhaseTypes ==
  ASSUME TypeOK, NEW r \in Runs, AddonsNext(r), ~AddonsList(r)
  PROVE  TypeOK'
  <1>a. pos[r] \in Nat /\ pos[r] # 0 /\ Len(AddonOrder) \in Nat
    BY OrderAssumption DEF TypeOK, RunTypeOK
  <1>b. pos[r] \in 1 .. Len(AddonOrder) \/ AddonsDone(r)
    <2>1. CASE AddonNext(r)
      <3>1. pos[r] <= Len(AddonOrder)
        BY <2>1 DEF AddonNext
      <3> QED
        BY <1>a, <3>1, WithinBounds
    <2>2. CASE ~AddonNext(r) /\ ~AddonsDone(r)
      <3>1. pc[r] \in AddonLabels \ {"addon list", "addon next"}
        BY <2>2 DEF AddonsNext, WaitForAddon, AddonReread, AddonCheck, AddonStart, AddonVerify,
                    AddonLabels
      <3> QED
        BY <3>1 DEF TypeOK, PositionOK
    <2> QED
      BY <2>1, <2>2
  <1>1. CASE AddonStart(r) /\ ~CloudUntouched
    <2>1. pos[r] \in 1 .. Len(AddonOrder)
      BY <1>1 DEF TypeOK, PositionOK, AddonStart, AddonLabels
    <2>2. CurrentAddon(r) \in Addons /\ Chosen(r) \in Nat
      BY <2>1, CurrentTypes
    <2>3. addon' \in [Addons -> AddonStates]
      <3>1. \A a \in Addons, v \in Nat :
              [addon EXCEPT ![a].status = "UPDATING", ![a].to = v] \in [Addons -> AddonStates]
        <4>1. addon \in [Addons -> AddonStates]
          BY DEF TypeOK, CloudTypeOK
        <4> QED
          BY <4>1 DEF AddonStates, Busy
      <3>2. UpdateAddon(CurrentAddon(r), Chosen(r))
        BY <1>1 DEF AddonStart
      <3> QED
        BY <2>2, <3>1, <3>2 DEF UpdateAddon
    <2>4. faults' \in Nat
      BY <1>1, FaultTypes DEF TypeOK, CloudTypeOK, AddonStart, Answered
    <2>5. CloudTypeOK'
      BY <1>1, <2>3, <2>4 DEF TypeOK, CloudTypeOK, AddonStart
    <2> QED
      BY <1>1, <2>1, <2>5, AnsweredTypes
      DEF TypeOK, AddonStart, Labels, PhaseLabels, AddonLabels, NodegroupLabels
  <1>2. CASE CloudUntouched
    <2>1. CloudTypeOK'
      BY <1>2, CloudUntouchedTypes DEF TypeOK
    <2>2. \/ PhaseDone(r)
          \/ \E why \in Exits : Stop(r, why)
          \/ pos[r] \in 1 .. Len(AddonOrder) /\ \E label \in AddonLabels : Step(r, label)
          \/ NextItem(r, "addon next")
          \/ pos[r] \in 1 .. Len(AddonOrder) /\ Answered(r, "addon wait")
      BY <1>b DEF AddonsNext, AddonsDone, AddonNext, WaitForAddon, AddonReread,
                  AddonCheck, AddonStart, AddonVerify, AddonLabels, Exits
    <2>3. \A label \in AddonLabels : label \in Labels /\ label \notin NodegroupLabels
      BY DEF Labels, PhaseLabels, AddonLabels, NodegroupLabels
    <2>4. "addon wait" \in AddonLabels
      BY DEF AddonLabels
    <2> QED
      BY <2>1, <2>2, <2>3, <2>4, PhaseDoneTypes, StopTypes, StepTypes, NextItemTypes,
         AnsweredTypes
      DEF TypeOK
  <1>3. AddonStart(r) \/ CloudUntouched
    BY DEF AddonsNext, AddonsDone, AddonNext, WaitForAddon, AddonReread, AddonCheck, AddonVerify
  <1> QED
    BY <1>1, <1>2, <1>3

\* The nodegroup phase.
LEMMA NodegroupsPhaseTypes ==
  ASSUME TypeOK, NEW r \in Runs, NodegroupsNext(r), ~NodegroupsList(r)
  PROVE  TypeOK'
  <1>a. pos[r] \in Nat /\ pos[r] # 0 /\ Len(NodegroupOrder) \in Nat
    BY OrderAssumption DEF TypeOK, RunTypeOK
  <1>b. pos[r] \in 1 .. Len(NodegroupOrder) \/ NodegroupsDone(r)
    <2>1. CASE NodegroupNext(r)
      <3>1. pos[r] <= Len(NodegroupOrder)
        BY <2>1 DEF NodegroupNext
      <3> QED
        BY <1>a, <3>1, WithinBounds
    <2>2. CASE ~NodegroupNext(r) /\ ~NodegroupsDone(r)
      <3>1. pc[r] \in NodegroupLabels \ {"ng list", "ng next"}
        BY <2>2 DEF NodegroupsNext, NodegroupGate, NodegroupStart, NodegroupWait, NodegroupLabels
      <3> QED
        BY <3>1 DEF TypeOK, PositionOK
    <2> QED
      BY <2>1, <2>2
  <1>1. CASE NodegroupStart(r) /\ ~CloudUntouched
    <2>1. pos[r] \in 1 .. Len(NodegroupOrder)
      BY <1>1 DEF TypeOK, PositionOK, NodegroupStart, NodegroupLabels
    <2>2. CurrentNodegroup(r) \in Nodegroups /\ hop[r] \in Minors
      BY <2>1, CurrentTypes DEF TypeOK, RunTypeOK
    <2>3. ng' \in [Nodegroups -> NodegroupStates]
      <3>1. \A g \in Nodegroups, v \in Minors :
              [ng EXCEPT ![g].status = "UPDATING", ![g].to = v] \in [Nodegroups -> NodegroupStates]
        <4>1. ng \in [Nodegroups -> NodegroupStates]
          BY DEF TypeOK, CloudTypeOK
        <4> QED
          BY <4>1 DEF NodegroupStates
      <3>2. UpdateNodegroupVersion(r, CurrentNodegroup(r), hop[r])
        BY <1>1 DEF NodegroupStart
      <3> QED
        BY <2>2, <3>1, <3>2 DEF UpdateNodegroupVersion
    <2>4. update' \in [Runs -> Updates]
      BY <1>1, <2>2, StartTypes DEF TypeOK, CloudTypeOK, NodegroupStart, UpdateNodegroupVersion
    <2>5. faults' \in Nat
      BY <1>1, FaultTypes DEF TypeOK, CloudTypeOK, NodegroupStart, Answered
    <2>6. CloudTypeOK'
      BY <1>1, <2>3, <2>4, <2>5 DEF TypeOK, CloudTypeOK, NodegroupStart
    <2> QED
      BY <1>1, <2>1, <2>6, AnsweredTypes
      DEF TypeOK, NodegroupStart, Labels, PhaseLabels, AddonLabels, NodegroupLabels
  <1>2. CASE CloudUntouched
    <2>1. CloudTypeOK'
      BY <1>2, CloudUntouchedTypes DEF TypeOK
    <2>2. \/ PhaseDone(r)
          \/ \E why \in Exits : Stop(r, why)
          \/ pos[r] \in 1 .. Len(NodegroupOrder) /\ \E label \in NodegroupLabels : Step(r, label)
          \/ NextItem(r, "ng next")
          \/ pos[r] \in 1 .. Len(NodegroupOrder) /\ Answered(r, "ng wait")
      BY <1>b DEF NodegroupsNext, NodegroupsDone, NodegroupNext, NodegroupGate, NodegroupStart,
                  NodegroupWait, NodegroupLabels, Exits
    <2>3. \A label \in NodegroupLabels : label \in Labels /\ label \notin AddonLabels
      BY DEF Labels, PhaseLabels, AddonLabels, NodegroupLabels
    <2>4. "ng wait" \in NodegroupLabels
      BY DEF NodegroupLabels
    <2> QED
      BY <2>1, <2>2, <2>3, <2>4, PhaseDoneTypes, StopTypes, StepTypes, NextItemTypes,
         AnsweredTypes
      DEF TypeOK
  <1>3. NodegroupStart(r) \/ CloudUntouched
    BY DEF NodegroupsNext, NodegroupsDone, NodegroupNext, NodegroupGate, NodegroupWait
  <1> QED
    BY <1>1, <1>2, <1>3

--------------------------------------------------------------------------------
\* The clusters a run may find are well formed.
LEMMA InitTypes == Init => TypeOK
  <1> SUFFICES ASSUME Init PROVE TypeOK
    OBVIOUS
  <1>1. PICK c \in StartClusters : cp = c.cp /\ ng = c.ng /\ addon = c.addon
    BY DEF Init
  <1>2. cp \in ControlPlaneStates /\ ng \in [Nodegroups -> NodegroupStates]
        /\ addon \in [Addons -> AddonStates]
    BY <1>1, StartAssumption
  <1>3. cp.version \in Minors
    BY <1>2 DEF ControlPlaneStates
  <1>4. FirstMinor \in Minors
    BY <1>3, MinorsAssumption DEF Minors
  <1>5. CloudTypeOK
    BY <1>2 DEF Init, CloudTypeOK, NoUpdate, Updates
  <1>6. NoPlan \in Plans
    BY <1>4 DEF NoPlan, Unread, Plans
  <1>7. RunTypeOK
    <2>1. plan \in [Runs -> Plans] /\ listed \in [Runs -> [Nodegroups -> Minors]]
      BY <1>6 DEF Init, Plans
    <2>2. pos \in [Runs -> Nat \ {0}]
      <3>1. 1 \in Nat \ {0}
        BY NextPosition
      <3>2. pos = [r \in Runs |-> 1]
        BY DEF Init
      <3> QED
        BY <3>1, <3>2, Zenon
    <2> QED
      BY <1>4, <2>1, <2>2 DEF Init, RunTypeOK, Labels, Phases, Exits
  <1>8. PositionOK
    BY DEF Init, PositionOK, AddonLabels, NodegroupLabels
  <1>9. PlanAhead
    <2>1. \A r \in Runs : plan[r].cp = FirstMinor /\ plan[r].target = FirstMinor
      BY DEF Init, NoPlan
    <2> QED
      BY <2>1, MinorsAssumption DEF PlanAhead
  <1> QED
    BY <1>5, <1>7, <1>8, <1>9 DEF TypeOK

\* Every step of every run, and of EKS, keeps the whole type invariant.
LEMMA StepTypesAll ==
  ASSUME TypeOK, [Next]_vars
  PROVE  TypeOK'
  <1>1. ASSUME NEW r \in Runs, Launch(r) PROVE TypeOK'
    BY <1>1, LaunchTypes
  <1>2. ASSUME NEW r \in Runs, RunNext(r) PROVE TypeOK'
    BY <1>2, PlanningTypes, ExecuteTypes, ControlPlanePhaseTypes, ListTypes, AddonsPhaseTypes,
       NodegroupsPhaseTypes
    DEF RunNext, PlanNext, AddonsNext, NodegroupsNext
  <1>3. ASSUME NEW r \in Runs, Decline(r) \/ PlanFails(r) \/ PhaseFails(r) PROVE TypeOK'
    BY <1>3, ExecuteTypes
  <1>4. CASE CloudNext /\ UNCHANGED runVars
    <2>1. CloudTypeOK'
      BY <1>4, CloudTypes DEF TypeOK
    <2> QED
      BY <1>4, <2>1 DEF TypeOK, RunTypeOK, PositionOK, PlanAhead, runVars
  <1>5. CASE UNCHANGED vars
    BY <1>5 DEF vars, TypeOK, CloudTypeOK, RunTypeOK, PositionOK, PlanAhead
  <1> QED
    BY <1>1, <1>2, <1>3, <1>4, <1>5 DEF Next

\* Every variable keeps its type, the loops of the phases index their lists within
\* bounds and no hop leaves the plan, for any number of runs, minors and faults.
THEOREM TypeCorrect == Spec => []TypeOK
  <1>1. Init => TypeOK
    BY InitTypes
  <1>2. TypeOK /\ [Next]_vars => TypeOK'
    BY StepTypesAll
  <1> QED
    BY <1>1, <1>2, PTL DEF Spec
================================================================================
