-------------------------- MODULE UpgradeSafetyProofs --------------------------
(***************************************************************************)
(* The skew theorem and the implementation of UpgradeContract, from the      *)
(* inductive SafetyInvariant.                                               *)
(***************************************************************************)
EXTENDS UpgradeRunProofs, UpgradeInvariant

--------------------------------------------------------------------------------
(***************************************************************************)
(* What a step can do to the cloud: a run starts an update, EKS moves, or    *)
(* nothing but bookkeeping happens.                                          *)
(***************************************************************************)
StartsControlPlane(r) ==
  /\ pc[r] = "cp start"
  /\ AcceptsControlPlane(hop[r])
  /\ UpdateClusterVersion(r, hop[r])
  /\ UNCHANGED <<ng, addon>>

StartsAddon(r) ==
  /\ pc[r] = "addon start"
  /\ UpdateAddon(CurrentAddon(r), Chosen(r))
  /\ UNCHANGED <<cp, ng, update>>

StartsNodegroup(r) ==
  /\ pc[r] = "ng start"
  /\ AcceptsNodegroup(CurrentNodegroup(r), hop[r])
  /\ UpdateNodegroupVersion(r, CurrentNodegroup(r), hop[r])
  /\ UNCHANGED <<cp, addon>>

Bookkeeping == UNCHANGED <<cp, ng, addon>>

\* A step of run r, of whatever kind.
RunActs(r) == RunNext(r) \/ Launch(r) \/ Decline(r) \/ PlanFails(r) \/ PhaseFails(r)

\* A run's step leaves the cluster alone unless it is one of the three starts.
LEMMA RunSteps ==
  ASSUME NEW r \in Runs, RunActs(r)
  PROVE  Bookkeeping \/ StartsControlPlane(r) \/ StartsAddon(r) \/ StartsNodegroup(r)
  <1>1. CASE PlanNext(r) \/ Launch(r) \/ Decline(r) \/ PlanFails(r) \/ PhaseFails(r)
             \/ SkipPhase(r) \/ Confirm(r)
    BY <1>1 DEF PlanNext, PlanCluster, PlanNodegroups, PlanAddon, PlanAddonsDone, PlanBlocked,
                PlanReady, Launch, Decline, PlanFails, PhaseFails, SkipPhase, Confirm, Bookkeeping, CloudUntouched,
                cloudVars
  <1>2. CASE ControlPlaneNext(r)
    BY <1>2 DEF ControlPlaneNext, ControlPlaneDescribe, WaitForClusterActive, ControlPlaneRecheck,
                ControlPlaneStart, ControlPlaneWait, ControlPlaneVerify, StartsControlPlane,
                Bookkeeping, CloudUntouched, cloudVars
  <1>3. CASE AddonsNext(r)
    BY <1>3 DEF AddonsNext, AddonsList, AddonsDone, AddonNext, WaitForAddon, AddonReread,
                AddonCheck, AddonStart, AddonVerify, StartsAddon, Bookkeeping, CloudUntouched,
                cloudVars
  <1>4. CASE NodegroupsNext(r)
    BY <1>4 DEF NodegroupsNext, NodegroupsList, NodegroupsDone, NodegroupNext, NodegroupGate,
                NodegroupStart, NodegroupWait, StartsNodegroup, Bookkeeping, CloudUntouched,
                cloudVars
  <1> QED
    BY <1>1, <1>2, <1>3, <1>4 DEF RunActs, RunNext

\* The same, for any step of the system.
LEMMA CloudCases ==
  ASSUME [Next]_vars
  PROVE  \/ Bookkeeping
         \/ CloudNext
         \/ \E r \in Runs : StartsControlPlane(r) \/ StartsAddon(r) \/ StartsNodegroup(r)
  <1>1. ASSUME NEW r \in Runs, RunActs(r)
        PROVE  Bookkeeping \/ StartsControlPlane(r) \/ StartsAddon(r) \/ StartsNodegroup(r)
    BY <1>1, RunSteps
  <1>2. CASE UNCHANGED vars
    BY <1>2 DEF vars, Bookkeeping
  <1> QED
    BY <1>1, <1>2 DEF Next, RunActs

--------------------------------------------------------------------------------
(***************************************************************************)
(* How the versions of one resource move.                                   *)
(***************************************************************************)
\* A control plane takes its update, drops it, starts one, or stays.
LEMMA ControlPlaneMoves ==
  ASSUME TypeOK, [Next]_vars
  PROVE  \/ cp'.version = cp.version /\ cp'.to = cp.to
         \/ cp'.version = cp.version /\ cp'.to = cp.version
         \/ cp'.version = cp.to /\ cp'.to = cp.to
         \/ \E r \in Runs : /\ StartsControlPlane(r)
                            /\ cp'.version = cp.version /\ cp'.to = hop[r]
  <1>0. cp \in ControlPlaneStates
    BY DEF TypeOK, CloudTypeOK
  <1>1. CASE CloudNext
    BY <1>0, <1>1 DEF ControlPlaneStates, CloudNext, ControlPlaneUpdateSucceeds,
       ControlPlaneUpdateFails, ControlPlaneSettles, ConfigurationUpdate, RollSucceeds, RollFails,
       NodegroupDegrades, NodegroupRecovers, AddonUpdateSucceeds, AddonUpdateFails, AddonRecovers
  <1>2. ASSUME NEW r \in Runs, StartsControlPlane(r)
        PROVE  cp'.version = cp.version /\ cp'.to = hop[r]
    BY <1>0, <1>2 DEF ControlPlaneStates, StartsControlPlane, UpdateClusterVersion
  <1> QED
    BY <1>1, <1>2, CloudCases DEF Bookkeeping, StartsAddon, StartsNodegroup

\* So does a nodegroup.
LEMMA NodegroupMoves ==
  ASSUME TypeOK, [Next]_vars, NEW g \in Nodegroups
  PROVE  \/ ng'[g].version = ng[g].version /\ ng'[g].to = ng[g].to
         \/ ng'[g].version = ng[g].version /\ ng'[g].to = ng[g].version
         \/ ng'[g].version = ng[g].to /\ ng'[g].to = ng[g].to
         \/ \E r \in Runs : /\ StartsNodegroup(r) /\ g = CurrentNodegroup(r)
                            /\ ng'[g].version = ng[g].version /\ ng'[g].to = hop[r]
  <1>0. ng \in [Nodegroups -> NodegroupStates]
    BY DEF TypeOK, CloudTypeOK
  <1>1. CASE CloudNext /\ ~UNCHANGED ng
    <2>1. PICK x \in Nodegroups : \/ RollSucceeds(x) \/ RollFails(x)
                                 \/ NodegroupDegrades(x) \/ NodegroupRecovers(x)
      BY <1>1 DEF CloudNext, ControlPlaneUpdateSucceeds, ControlPlaneUpdateFails,
         ControlPlaneSettles, ConfigurationUpdate, AddonUpdateSucceeds, AddonUpdateFails,
         AddonRecovers
    <2>2. CASE RollSucceeds(x)
      BY <1>0, <2>2 DEF NodegroupStates, RollSucceeds
    <2>3. CASE RollFails(x)
      <3>1. PICK status \in {"ACTIVE", "DEGRADED"} :
              ng' = [ng EXCEPT ![x] = [version |-> ng[x].version, to |-> ng[x].version,
                                       status |-> status, healthy |-> ng[x].healthy]]
        BY <2>3 DEF RollFails
      <3>2. ng'[x].version = ng[x].version /\ ng'[x].to = ng[x].version
        BY <1>0, <3>1
      <3>3. g # x => ng'[g] = ng[g]
        BY <1>0, <3>1
      <3> QED
        BY <3>2, <3>3
    <2>4. CASE NodegroupDegrades(x)
      BY <1>0, <2>4 DEF NodegroupStates, NodegroupDegrades
    <2>5. CASE NodegroupRecovers(x)
      BY <1>0, <2>5 DEF NodegroupStates, NodegroupRecovers
    <2> QED
      BY <2>1, <2>2, <2>3, <2>4, <2>5
  <1>2. ASSUME NEW r \in Runs, StartsNodegroup(r)
        PROVE  \/ ng'[g].version = ng[g].version /\ ng'[g].to = ng[g].to
               \/ g = CurrentNodegroup(r) /\ ng'[g].version = ng[g].version /\ ng'[g].to = hop[r]
    BY <1>0, <1>2 DEF NodegroupStates, StartsNodegroup, UpdateNodegroupVersion
  <1> QED
    BY <1>1, <1>2, CloudCases DEF Bookkeeping, StartsAddon, StartsControlPlane

\* And an add-on.
LEMMA AddonMoves ==
  ASSUME TypeOK, [Next]_vars, NEW a \in Addons
  PROVE  \/ addon'[a].version = addon[a].version /\ addon'[a].to = addon[a].to
         \/ addon'[a].version = addon[a].version /\ addon'[a].to = addon[a].version
         \/ addon'[a].version = addon[a].to /\ addon'[a].to = addon[a].to
         \/ \E r \in Runs : /\ StartsAddon(r) /\ a = CurrentAddon(r)
                            /\ addon'[a].version = addon[a].version /\ addon'[a].to = Chosen(r)
  <1>0. addon \in [Addons -> AddonStates]
    BY DEF TypeOK, CloudTypeOK
  <1>1. CASE CloudNext /\ ~UNCHANGED addon
    <2>1. PICK x \in Addons : AddonUpdateSucceeds(x) \/ AddonUpdateFails(x) \/ AddonRecovers(x)
      BY <1>1 DEF CloudNext, ControlPlaneUpdateSucceeds, ControlPlaneUpdateFails,
         ControlPlaneSettles, ConfigurationUpdate, RollSucceeds, RollFails, NodegroupDegrades,
         NodegroupRecovers
    <2>2. CASE AddonUpdateSucceeds(x)
      BY <1>0, <2>2 DEF AddonStates, AddonUpdateSucceeds
    <2>3. CASE AddonUpdateFails(x)
      BY <1>0, <2>3 DEF AddonStates, AddonUpdateFails
    <2>4. CASE AddonRecovers(x)
      BY <1>0, <2>4 DEF AddonStates, AddonRecovers
    <2> QED
      BY <2>1, <2>2, <2>3, <2>4
  <1>2. ASSUME NEW r \in Runs, StartsAddon(r)
        PROVE  \/ addon'[a].version = addon[a].version /\ addon'[a].to = addon[a].to
               \/ a = CurrentAddon(r) /\ addon'[a].version = addon[a].version
                  /\ addon'[a].to = Chosen(r)
    BY <1>0, <1>2 DEF AddonStates, StartsAddon, UpdateAddon
  <1> QED
    BY <1>1, <1>2, CloudCases DEF Bookkeeping, StartsNodegroup, StartsControlPlane

\* Versions are integers: what the arithmetic steps below need of the types.
LEMMA VersionsAreIntegers ==
  ASSUME TypeOK
  PROVE  /\ cp.version \in Int /\ cp.to \in Int
         /\ \A g \in Nodegroups : ng[g].version \in Int /\ ng[g].to \in Int
         /\ \A r \in Runs : /\ hop[r] \in Int /\ plan[r].cp \in Int /\ plan[r].target \in Int
                            /\ \A g \in Nodegroups : /\ plan[r].ng[g] \in Int
                                                     /\ listed[r][g] \in Int
  <1>1. \A m \in Minors : m \in Int
    BY MinorsAssumption DEF Minors
  <1>2. cp \in ControlPlaneStates /\ ng \in [Nodegroups -> NodegroupStates]
    BY DEF TypeOK, CloudTypeOK
  <1>3. plan \in [Runs -> Plans] /\ hop \in [Runs -> Minors]
        /\ listed \in [Runs -> [Nodegroups -> Minors]]
    BY DEF TypeOK, RunTypeOK
  <1> QED
    BY <1>1, <1>2, <1>3 DEF ControlPlaneStates, NodegroupStates, Plans

\* Versions in effect never go back, except an add-on's.
LEMMA VersionsRise ==
  ASSUME TypeOK, CloudDirection, [Next]_vars
  PROVE  /\ cp.version <= cp'.version
         /\ \A g \in Nodegroups : ng[g].version <= ng'[g].version
  <1>1. cp.version <= cp'.version
    BY ControlPlaneMoves, VersionsAreIntegers DEF CloudDirection
  <1>2. ASSUME NEW g \in Nodegroups PROVE ng[g].version <= ng'[g].version
    BY NodegroupMoves, VersionsAreIntegers DEF CloudDirection
  <1> QED
    BY <1>1, <1>2

--------------------------------------------------------------------------------
(***************************************************************************)
(* The cluster's half of the invariant.                                     *)
(***************************************************************************)
\* Updates in flight keep their direction: a start goes one minor up, or to the hop the
\* control plane has reached.
LEMMA DirectionKept ==
  ASSUME TypeOK, CloudDirection, \A r \in Runs : RunInvariant(r), [Next]_vars
  PROVE  CloudDirection'
  <1>1. cp'.to \in {cp'.version, cp'.version + 1}
    <2>1. ASSUME NEW r \in Runs, StartsControlPlane(r) PROVE hop[r] = cp.version + 1
      BY <2>1 DEF StartsControlPlane, AcceptsControlPlane
    <2> QED
      BY <2>1, ControlPlaneMoves, VersionsAreIntegers DEF CloudDirection
  <1>2. ASSUME NEW g \in Nodegroups
        PROVE  /\ ng'[g].version <= ng'[g].to
               /\ ng'[g].to <= cp'.version
               /\ ng'[g].to # ng'[g].version => g \in Rollable
    <2>1. ASSUME NEW r \in Runs, StartsNodegroup(r), g = CurrentNodegroup(r)
          PROVE  ng[g].version <= hop[r] /\ hop[r] <= cp.version /\ g \in Rollable
      BY <2>1 DEF StartsNodegroup, AcceptsNodegroup, RunInvariant, Looping
    <2>2. /\ ng[g].version <= ng[g].to /\ ng[g].to <= cp.version
          /\ ng[g].to # ng[g].version => g \in Rollable
      BY DEF CloudDirection
    <2>3. /\ cp.version \in Int /\ cp'.version \in Int /\ cp.version <= cp'.version
          /\ ng[g].version \in Int /\ ng[g].to \in Int /\ \A r \in Runs : hop[r] \in Int
      <3>1. cp'.version \in Int
        BY StepTypesAll DEF TypeOK, CloudTypeOK, ControlPlaneStates, Minors
      <3> QED
        BY <3>1, VersionsAreIntegers, VersionsRise
    <2> QED
      BY <2>1, <2>2, <2>3, NodegroupMoves
  <1>3. ASSUME NEW a \in Addons, addon'[a].to # addon'[a].version
        PROVE  a \in Converged /\ \E k \in FirstMinor .. cp'.version : addon'[a].to = Latest(a, k)
    <2>1. ASSUME NEW r \in Runs, StartsAddon(r), a = CurrentAddon(r)
          PROVE  /\ a \in Converged
                 /\ \E k \in FirstMinor .. cp.version : Chosen(r) = Latest(a, k)
      <3>1. a \in Converged /\ hop[r] <= cp.version
        BY <2>1 DEF StartsAddon, RunInvariant, Looping, LabelsMatch, Walk, AddonLabels, PhaseLabels
      <3>2. hop[r] \in FirstMinor .. cp.version
        BY <3>1, VersionsAreIntegers, MinorsAssumption DEF TypeOK, RunTypeOK, Minors
      <3> QED
        BY <2>1, <3>1, <3>2 DEF Chosen
    <2>2. FirstMinor .. cp.version \subseteq FirstMinor .. cp'.version
      <3>1. cp'.version \in Int
        BY StepTypesAll DEF TypeOK, CloudTypeOK, ControlPlaneStates, Minors
      <3> QED
        BY <3>1, VersionsRise, VersionsAreIntegers, MinorsAssumption
    <2>3. addon[a].to # addon[a].version =>
            a \in Converged /\ \E k \in FirstMinor .. cp.version : addon[a].to = Latest(a, k)
      BY DEF CloudDirection
    <2>4. \/ addon'[a].to = addon[a].to /\ addon[a].to # addon[a].version
          \/ \E r \in Runs : StartsAddon(r) /\ a = CurrentAddon(r) /\ addon'[a].to = Chosen(r)
      BY <1>3, AddonMoves
    <2> QED
      BY <2>1, <2>2, <2>3, <2>4, Zenon
  <1> QED
    BY <1>1, <1>2, <1>3 DEF CloudDirection, Latest

\* The planner's look-ahead is right: where it expects a nodegroup at a hop, the
\* nodegroup is there, or further, when the control plane starts that hop.
LEMMA StartWithinSkew ==
  ASSUME TypeOK, NEW r \in Runs, RunInvariant(r), StartsControlPlane(r), NEW g \in Nodegroups
  PROVE  hop[r] - ng[g].version <= KubeletSkew
  <1>1. /\ hop[r] \in Hops(plan[r]) /\ SkewSafe(plan[r], hop[r])
        /\ hop[r] > FirstHop(plan[r]) => \A x \in Rollable : hop[r] - 1 <= ng[x].version
    BY DEF StartsControlPlane, RunInvariant, LabelsMatch, Walk, ControlPlaneLabels, PhaseLabels
  <1>2. plan[r].ng[g] <= ng[g].version
    BY DEF RunInvariant, Snapshots
  <1>3. SimulatedVersion(plan[r], g, hop[r]) <= ng[g].version
    BY <1>1, <1>2 DEF SimulatedVersion
  <1>4. hop[r] - SimulatedVersion(plan[r], g, hop[r]) <= KubeletSkew
    BY <1>1 DEF SkewSafe
  <1>5. hop[r] \in Int /\ ng[g].version \in Int /\ SimulatedVersion(plan[r], g, hop[r]) \in Int
    BY VersionsAreIntegers DEF SimulatedVersion
  <1> QED
    BY <1>3, <1>4, <1>5 DEF KubeletSkew

\* So no step leaves a nodegroup beyond the skew.
LEMMA SkewKept ==
  ASSUME TypeOK, CloudDirection, SkewSupported, \A r \in Runs : RunInvariant(r), [Next]_vars
  PROVE  SkewSupported'
  <1> SUFFICES ASSUME NEW g \in Nodegroups PROVE cp'.to - ng'[g].version <= KubeletSkew
    BY DEF SkewSupported, KubeletSkew
  <1>1. cp'.to - ng[g].version <= KubeletSkew
    <2>1. cp.to - ng[g].version <= KubeletSkew /\ cp.version <= cp.to
      BY VersionsAreIntegers DEF SkewSupported, CloudDirection
    <2>2. ASSUME NEW r \in Runs, StartsControlPlane(r)
          PROVE  hop[r] - ng[g].version <= KubeletSkew
      BY <2>2, StartWithinSkew
    <2> QED
      BY <2>1, <2>2, ControlPlaneMoves, VersionsAreIntegers DEF KubeletSkew
  <1>2. ng[g].version <= ng'[g].version
    BY VersionsRise
  <1>3. cp'.to \in Int /\ ng[g].version \in Int /\ ng'[g].version \in Int
    BY StepTypesAll, VersionsAreIntegers
    DEF TypeOK, CloudTypeOK, ControlPlaneStates, NodegroupStates, Minors
  <1> QED
    BY <1>1, <1>2, <1>3 DEF KubeletSkew

--------------------------------------------------------------------------------
(***************************************************************************)
(* The runs' half: what a run knows stays true while it stands still ...     *)
(***************************************************************************)
Still(s) ==
  /\ pc'[s] = pc[s] /\ plan'[s] = plan[s] /\ hop'[s] = hop[s]
  /\ phase'[s] = phase[s] /\ pos'[s] = pos[s] /\ listed'[s] = listed[s]

\* Types again, of what the next state holds.
LEMMA PrimedIntegers ==
  ASSUME TypeOK, [Next]_vars
  PROVE  /\ cp'.version \in Int /\ cp'.to \in Int
         /\ \A g \in Nodegroups : ng'[g].version \in Int /\ ng'[g].to \in Int
  BY StepTypesAll
  DEF TypeOK, CloudTypeOK, ControlPlaneStates, NodegroupStates, Minors

\* Versions rise, so what was read stays a lower bound.
LEMMA SnapshotsKept ==
  ASSUME TypeOK, CloudDirection, [Next]_vars, NEW s \in Runs, Snapshots(s),
         plan'[s] = plan[s], listed'[s] = listed[s]
  PROVE  Snapshots(s)'
  <1>1. plan'[s].cp <= cp'.version
    BY VersionsRise, VersionsAreIntegers, PrimedIntegers DEF Snapshots
  <1>2. ASSUME NEW g \in Nodegroups
        PROVE  plan'[s].ng[g] <= ng'[g].version /\ listed'[s][g] <= ng'[g].version
    BY VersionsRise, VersionsAreIntegers, PrimedIntegers DEF Snapshots
  <1> QED
    BY <1>1, <1>2 DEF Snapshots

\* A run that stays in its phase stays in its plan.
LEMMA WalkKept ==
  ASSUME TypeOK, CloudDirection, [Next]_vars, NEW s \in Runs, Walk(s),
         pc[s] \in PhaseLabels \cup {"phase"},
         plan'[s] = plan[s], hop'[s] = hop[s], phase'[s] = phase[s]
  PROVE  Walk(s)'
  <1>1. /\ hop[s] \in Hops(plan[s])
        /\ \A h \in Hops(plan[s]) : SkewSafe(plan[s], h)
        /\ phase[s] # "control plane" => hop[s] <= cp.version
        /\ phase[s] = "control plane" /\ hop[s] > FirstHop(plan[s]) =>
             \A g \in Rollable : hop[s] - 1 <= ng[g].version
    BY DEF Walk
  <1>2. hop'[s] \in Hops(plan'[s]) /\ \A h \in Hops(plan'[s]) : SkewSafe(plan'[s], h)
    BY <1>1, Zenon
  <1>3. phase'[s] # "control plane" => hop'[s] <= cp'.version
    <2>1. hop[s] <= cp.version => hop'[s] <= cp'.version
      BY VersionsRise, VersionsAreIntegers, PrimedIntegers
    <2> QED
      BY <1>1, <2>1, Zenon
  <1>4. phase'[s] = "control plane" /\ hop'[s] > FirstHop(plan'[s]) =>
          \A g \in Rollable : hop'[s] - 1 <= ng'[g].version
    <2>1. \A g \in Rollable : g \in Nodegroups
      BY DEF Rollable
    <2>2. phase'[s] = "control plane" /\ hop'[s] > FirstHop(plan'[s]) =>
            \A g \in Rollable : hop[s] - 1 <= ng[g].version
      BY <1>1, Zenon
    <2>3. \A g \in Nodegroups : hop[s] - 1 <= ng[g].version => hop'[s] - 1 <= ng'[g].version
      BY VersionsRise, VersionsAreIntegers, PrimedIntegers
    <2> QED
      BY <2>1, <2>2, <2>3, Zenon
  <1> QED
    BY <1>2, <1>3, <1>4 DEF Walk, Hops, FirstHop, SkewSafe, SimulatedVersion

\* Nodegroups behind the loop's index stay at the hop.
LEMMA RolledKept ==
  ASSUME TypeOK, CloudDirection, [Next]_vars, NEW s \in Runs,
         \A i \in 1 .. Len(NodegroupOrder) :
           i < pos[s] /\ NodegroupOrder[i] \in Rollable => hop[s] <= ng[NodegroupOrder[i]].version
  PROVE  \A i \in 1 .. Len(NodegroupOrder) :
           i < pos[s] /\ NodegroupOrder[i] \in Rollable => hop[s] <= ng'[NodegroupOrder[i]].version
  <1> SUFFICES ASSUME NEW i \in 1 .. Len(NodegroupOrder), i < pos[s], NodegroupOrder[i] \in Rollable
               PROVE  hop[s] <= ng'[NodegroupOrder[i]].version
    OBVIOUS
  <1>1. NodegroupOrder[i] \in Nodegroups
    BY DEF Rollable
  <1> QED
    BY <1>1, VersionsRise, VersionsAreIntegers, PrimedIntegers

\* So a run that stands still keeps its invariant if the ledger keeps its word.
LEMMA StillKept ==
  ASSUME TypeOK, CloudDirection, [Next]_vars, NEW s \in Runs, RunInvariant(s), Still(s), Awaited(s)'
  PROVE  RunInvariant(s)'
  <1>1. Snapshots(s)'
    BY SnapshotsKept DEF RunInvariant, Still
  <1>2. LabelsMatch(s)'
    BY DEF RunInvariant, Still, LabelsMatch
  <1>3. Walk(s)'
    <2>1. CASE pc[s] \in PhaseLabels \cup {"phase"}
      BY <2>1, WalkKept DEF RunInvariant, Still
    <2>2. CASE pc[s] \notin PhaseLabels \cup {"phase"}
      BY <2>2 DEF Still, Walk
    <2> QED
      BY <2>1, <2>2
  <1>4. Looping(s)'
    BY RolledKept DEF RunInvariant, Still, Looping, CurrentAddon, CurrentNodegroup
  <1> QED
    BY <1>1, <1>2, <1>3, <1>4 DEF RunInvariant

\* An update of one resource that ends changes the ledger of nobody who waits for
\* another one.
LEMMA FinishLeavesOthers ==
  ASSUME update \in [Runs -> Updates], NEW s \in Runs, NEW x, NEW result,
         FinishUpdate(x, result), update[s].of # x
  PROVE  update'[s] = update[s]
  BY DEF FinishUpdate

\* EKS keeps the ledger true: a roll is reported Successful when it has installed its
\* version, and stays in flight until it is reported.
LEMMA ToldByCloud ==
  ASSUME TypeOK, CloudDirection, CloudNext, [Next]_vars,
         NEW s \in Runs, NEW g \in Nodegroups, NEW h \in Int, Told(s, g, h)
  PROVE  Told(s, g, h)'
  <1>1. update \in [Runs -> Updates] /\ ng \in [Nodegroups -> NodegroupStates]
    BY DEF TypeOK, CloudTypeOK
  <1>2. /\ ng[g].version <= ng'[g].version
        /\ ng[g].version \in Int /\ ng'[g].version \in Int /\ ng[g].to \in Int
    BY VersionsRise, VersionsAreIntegers, PrimedIntegers
  <1>3. h <= ng[g].version => h <= ng'[g].version
    BY <1>2
  <1>4. CASE update'[s] = update[s] /\ ng'[g] = ng[g]
    BY <1>4 DEF Told
  <1>5. CASE ControlPlaneUpdateSucceeds \/ ControlPlaneUpdateFails
    <2>1. update[s].of # ControlPlane /\ ng' = ng
      BY <1>5, NamesAssumption DEF Told, ControlPlaneUpdateSucceeds, ControlPlaneUpdateFails
    <2>2. update'[s] = update[s]
      BY <1>1, <1>5, <2>1, FinishLeavesOthers
      DEF ControlPlaneUpdateSucceeds, ControlPlaneUpdateFails
    <2> QED
      BY <1>4, <2>1, <2>2
  <1>6. CASE ControlPlaneSettles \/ ConfigurationUpdate
             \/ \E a \in Addons : AddonUpdateSucceeds(a) \/ AddonUpdateFails(a) \/ AddonRecovers(a)
    BY <1>4, <1>6 DEF ControlPlaneSettles, ConfigurationUpdate, AddonUpdateSucceeds,
                      AddonUpdateFails, AddonRecovers
  <1>7. ASSUME NEW x \in Nodegroups, x # g, RollSucceeds(x) \/ RollFails(x) PROVE Told(s, g, h)'
    <2>1. PICK group : ng' = [ng EXCEPT ![x] = group]
      BY <1>7 DEF RollSucceeds, RollFails
    <2>2. ng'[g] = ng[g]
      BY <1>1, <1>7, <2>1
    <2>3. update'[s] = update[s]
      BY <1>1, <1>7, FinishLeavesOthers DEF Told, RollSucceeds, RollFails
    <2> QED
      BY <1>4, <2>2, <2>3
  <1>8. CASE RollSucceeds(g)
    <2>1. PICK healthy \in BOOLEAN :
            ng' = [ng EXCEPT ![g] = [version |-> ng[g].to, to |-> ng[g].to,
                                     status |-> "ACTIVE", healthy |-> healthy]]
      BY <1>8 DEF RollSucceeds
    <2>2. ng'[g].version = ng[g].to
      BY <1>1, <2>1
    <2>3. \/ update'[s] = update[s] /\ update[s].status # "InProgress"
          \/ /\ update'[s].of = update[s].of /\ update'[s].status = "Successful"
             /\ update[s].status = "InProgress"
      BY <1>1, <1>8 DEF Told, RollSucceeds, FinishUpdate, Updates
    <2>4. ng[g].to = h => h <= ng'[g].version
      BY <1>2, <2>2
    <2> QED
      BY <1>3, <2>3, <2>4 DEF Told
  <1>9. CASE RollFails(g)
    <2>1. \/ update'[s] = update[s] /\ update[s].status # "InProgress"
          \/ update'[s].of = update[s].of /\ update'[s].status = "Failed"
      <3>1. FinishUpdate(g, "Failed")
        BY <1>9 DEF RollFails
      <3> QED
        BY <1>1, <3>1 DEF Told, FinishUpdate, Updates
    <2> QED
      BY <1>3, <2>1 DEF Told
  <1>10. ASSUME NEW x \in Nodegroups, NodegroupDegrades(x) \/ NodegroupRecovers(x)
         PROVE  Told(s, g, h)'
    <2>1. update' = update /\ ng[x].status # "UPDATING"
      BY <1>10 DEF NodegroupDegrades, NodegroupRecovers
    <2>2. x # g => ng'[g] = ng[g]
      BY <1>1, <1>10 DEF NodegroupDegrades, NodegroupRecovers
    <2>3. x = g => update[s].status # "InProgress"
      BY <2>1 DEF Told
    <2> QED
      BY <1>3, <1>4, <2>1, <2>2, <2>3 DEF Told
  <1> QED
    BY <1>5, <1>6, <1>7, <1>8, <1>9, <1>10 DEF CloudNext

--------------------------------------------------------------------------------
(***************************************************************************)
(* ... and while other runs move.                                           *)
(***************************************************************************)
\* A call changes what its own process knows, and the ledger's word to it, only.
LEMMA OthersStill ==
  ASSUME TypeOK, NEW r \in Runs, NEW s \in Runs, s # r, RunActs(r)
  PROVE  Still(s) /\ update'[s] = update[s]
  <1>1. /\ pc \in [Runs -> Labels] /\ plan \in [Runs -> Plans] /\ hop \in [Runs -> Minors]
        /\ phase \in [Runs -> Phases] /\ pos \in [Runs -> Nat \ {0}]
        /\ listed \in [Runs -> [Nodegroups -> Minors]] /\ update \in [Runs -> Updates]
    BY DEF TypeOK, CloudTypeOK, RunTypeOK
  <1>2. /\ \A label : Goto(r, label) => pc'[s] = pc[s]
        /\ \A why : Stop(r, why) => Still(s)
        /\ \A label : Step(r, label) => Still(s)
        /\ \A label : NextItem(r, label) => Still(s)
        /\ \A label : FirstItem(r, label) => pc'[s] = pc[s] /\ pos'[s] = pos[s]
        /\ \A next : DescribedOne(r, next) => pc'[s] = pc[s] /\ pos'[s] = pos[s]
        /\ NextPhase(r) => Still(s)
        /\ PhaseDone(r) => Still(s)
        /\ \A x : StartUpdate(r, x) => update'[s] = update[s]
        /\ CloudUntouched => update'[s] = update[s]
    BY <1>1, Zenon DEF Still, Goto, Stop, Step, NextItem, FirstItem, DescribedOne, NextPhase,
                       Enter, PhaseDone, StartUpdate, CloudUntouched, cloudVars
  <1>3. CASE Launch(r) \/ Decline(r) \/ PlanFails(r) \/ PhaseFails(r) \/ SkipPhase(r) \/ Confirm(r)
    BY <1>1, <1>2, <1>3, Zenon DEF Still, Launch, Goto, Decline, PlanFails, PhaseFails, SkipPhase,
                                   Confirm
  <1>4. CASE PlanNext(r)
    BY <1>1, <1>2, <1>4, Zenon DEF Still, PlanNext, PlanCluster, PlanNodegroups, PlanAddon,
                                   PlanAddonsDone, PlanBlocked, PlanReady, Goto
  <1>5. CASE ControlPlaneNext(r)
    BY <1>2, <1>5, Zenon DEF ControlPlaneNext, ControlPlaneDescribe, WaitForClusterActive,
       ControlPlaneRecheck, ControlPlaneStart, ControlPlaneWait, ControlPlaneVerify, Answered,
       UpdateClusterVersion
  <1>6. CASE AddonsNext(r)
    BY <1>1, <1>2, <1>6, Zenon DEF AddonsNext, AddonsList, Still, AddonsDone, AddonNext, WaitForAddon, AddonReread, AddonCheck, AddonStart, AddonVerify, Answered
  <1>7. CASE NodegroupsNext(r)
    BY <1>1, <1>2, <1>7, Zenon DEF NodegroupsNext, NodegroupsList, Still, NodegroupsDone,
       NodegroupNext, NodegroupGate, NodegroupStart, NodegroupWait, Answered,
       UpdateNodegroupVersion
  <1> QED
    BY <1>3, <1>4, <1>5, <1>6, <1>7 DEF RunActs, RunNext

\* A roll somebody else starts is not one a run still waits for: EKS takes one update at
\* a time per nodegroup.
LEMMA ToldByOthers ==
  ASSUME TypeOK, CloudDirection, [Next]_vars, NEW r \in Runs, NEW s \in Runs, s # r, RunActs(r),
         NEW g \in Nodegroups, NEW h \in Int, Told(s, g, h)
  PROVE  Told(s, g, h)'
  <1>1. ng \in [Nodegroups -> NodegroupStates] /\ update'[s] = update[s]
    BY OthersStill DEF TypeOK, CloudTypeOK
  <1>2. h <= ng[g].version => h <= ng'[g].version
    BY VersionsRise, VersionsAreIntegers, PrimedIntegers
  <1>3. CASE ng'[g] = ng[g]
    BY <1>1, <1>3 DEF Told
  <1>4. CASE StartsNodegroup(r) /\ g = CurrentNodegroup(r)
    <2>1. ng[g].status # "UPDATING"
      BY <1>4 DEF StartsNodegroup, AcceptsNodegroup
    <2> QED
      BY <1>1, <1>2, <2>1 DEF Told
  <1>5. CASE StartsNodegroup(r) /\ g # CurrentNodegroup(r)
    <2>1. ng'[g] = ng[g]
      BY <1>1, <1>5 DEF StartsNodegroup, UpdateNodegroupVersion
    <2> QED
      BY <1>3, <2>1
  <1> QED
    BY <1>3, <1>4, <1>5, RunSteps DEF Bookkeeping, StartsControlPlane, StartsAddon

\* A run that is not the one to move keeps its invariant.
LEMMA OthersKept ==
  ASSUME TypeOK, CloudDirection, [Next]_vars, NEW s \in Runs, RunInvariant(s),
         \/ \E r \in Runs : r # s /\ RunActs(r)
         \/ CloudNext /\ UNCHANGED runVars
         \/ UNCHANGED vars
  PROVE  RunInvariant(s)'
  <1>1. Still(s)
    <2>1. CASE UNCHANGED runVars \/ UNCHANGED vars
      BY <2>1 DEF runVars, vars, Still
    <2> QED
      BY <2>1, OthersStill
  <1>2. Awaited(s)'
    <2> SUFFICES ASSUME pc[s] = "ng wait"
                 PROVE  Told(s, CurrentNodegroup(s), hop[s])'
      BY <1>1 DEF Awaited, Still
    <2>1. CurrentNodegroup(s) \in Nodegroups /\ hop[s] \in Int
      BY CurrentTypes, VersionsAreIntegers DEF TypeOK, PositionOK, NodegroupLabels
    <2>2. Told(s, CurrentNodegroup(s), hop[s])
      BY DEF RunInvariant, Awaited
    <2>3. ASSUME NEW g \in Nodegroups, NEW h \in Int, Told(s, g, h)
          PROVE  /\ update'[s].of = g
                 /\ update'[s].status = "InProgress" => ng'[g].status = "UPDATING" /\ ng'[g].to = h
                 /\ update'[s].status = "Successful" => h <= ng'[g].version
      <3>1. CASE UNCHANGED vars
        BY <2>3, <3>1 DEF vars, Told
      <3>2. ASSUME CloudNext PROVE Told(s, g, h)'
        BY <2>3, <3>2, ToldByCloud
      <3>3. ASSUME NEW r \in Runs, r # s, RunActs(r) PROVE Told(s, g, h)'
        BY <2>3, <3>3, ToldByOthers
      <3> QED
        BY <3>1, <3>2, <3>3 DEF Told
    <2>4. NodegroupOrder[pos'[s]] = CurrentNodegroup(s) /\ hop'[s] = hop[s]
      BY <1>1 DEF Still, CurrentNodegroup
    <2>5. /\ update'[s].of = CurrentNodegroup(s)
          /\ update'[s].status = "InProgress" => /\ ng'[CurrentNodegroup(s)].status = "UPDATING"
                                                /\ ng'[CurrentNodegroup(s)].to = hop[s]
          /\ update'[s].status = "Successful" => hop[s] <= ng'[CurrentNodegroup(s)].version
      BY <2>1, <2>2, <2>3
    <2> QED
      BY <2>4, <2>5, Zenon DEF Told, CurrentNodegroup
  <1> QED
    BY <1>1, <1>2, StillKept

--------------------------------------------------------------------------------
(***************************************************************************)
(* A run's own steps.                                                       *)
(***************************************************************************)
\* A process that stopped knows nothing it would act on.
LEMMA StopKept ==
  ASSUME TypeOK, CloudDirection, [Next]_vars, NEW r \in Runs, RunInvariant(r),
         NEW why, Stop(r, why)
  PROVE  RunInvariant(r)'
  <1>1. pc'[r] = "stopped" /\ plan'[r] = plan[r] /\ listed'[r] = listed[r]
    BY DEF TypeOK, RunTypeOK, Stop, Goto
  <1>2. Snapshots(r)'
    BY <1>1, SnapshotsKept DEF RunInvariant
  <1>3. LabelsMatch(r)' /\ Walk(r)' /\ Looping(r)' /\ Awaited(r)'
    BY <1>1 DEF LabelsMatch, Walk, Looping, Awaited, PlanLabels, PhaseLabels, ControlPlaneLabels,
                AddonLabels, NodegroupLabels
  <1> QED
    BY <1>2, <1>3 DEF RunInvariant

\* Going on to a call of the same phase, for the same item.
LEMMA StepKept ==
  ASSUME TypeOK, CloudDirection, [Next]_vars, NEW r \in Runs, RunInvariant(r),
         NEW label \in PhaseLabels, Step(r, label), pc[r] \in PhaseLabels \cup {"phase"},
         label \in ControlPlaneLabels => phase[r] = "control plane",
         label \in AddonLabels => phase[r] = "addons",
         label \in NodegroupLabels => phase[r] = "nodegroups",
         label \in AddonLabels \ {"addon list", "addon next"} => CurrentAddon(r) \in Converged,
         label \in {"ng gate", "ng start", "ng wait"} => CurrentNodegroup(r) \in Rollable,
         label \in NodegroupLabels \ {"ng list"} => pc[r] \in NodegroupLabels \ {"ng list"},
         label = "ng wait" => Awaited(r)'
  PROVE  RunInvariant(r)'
  <1>1. /\ pc'[r] = label /\ plan'[r] = plan[r] /\ hop'[r] = hop[r] /\ phase'[r] = phase[r]
        /\ pos'[r] = pos[r] /\ listed'[r] = listed[r]
    BY DEF TypeOK, RunTypeOK, Step, Goto
  <1>2. Snapshots(r)' /\ Walk(r)'
    BY <1>1, SnapshotsKept, WalkKept DEF RunInvariant
  <1>3. LabelsMatch(r)'
    <2>1. label \notin PlanLabels
      BY DEF PlanLabels, PhaseLabels, ControlPlaneLabels, AddonLabels, NodegroupLabels
    <2> QED
      BY <1>1, <2>1 DEF LabelsMatch
  <1>4. Looping(r)'
    <2>1. label \in NodegroupLabels \ {"ng list"} =>
            \A i \in 1 .. Len(NodegroupOrder) :
              i < pos[r] /\ NodegroupOrder[i] \in Rollable => hop[r] <= ng'[NodegroupOrder[i]].version
      BY RolledKept DEF RunInvariant, Looping
    <2> QED
      BY <1>1, <2>1 DEF Looping, CurrentAddon, CurrentNodegroup
  <1>5. Awaited(r)'
    BY <1>1 DEF Awaited
  <1> QED
    BY <1>2, <1>3, <1>4, <1>5 DEF RunInvariant

\* The listing of the nodegroups is finite.
LEMMA ListLength == Len(NodegroupOrder) \in Nat
  BY OrderAssumption

\* An index up to the current one is the current one or an earlier one.
LEMMA EarlierOrCurrent ==
  \A n, m \in Nat : \A i \in 1 .. m : i < n + 1 => i < n \/ i = n
  OBVIOUS

\* Going on to the next item: the one left behind is done with.
LEMMA NextItemKept ==
  ASSUME TypeOK, CloudDirection, [Next]_vars, NEW r \in Runs, RunInvariant(r),
         NEW label \in {"addon next", "ng next"}, NextItem(r, label),
         label = "addon next" => pc[r] \in AddonLabels,
         label = "ng next" => /\ pc[r] \in NodegroupLabels \ {"ng list"}
                              /\ CurrentNodegroup(r) \in Rollable =>
                                   hop[r] <= ng'[CurrentNodegroup(r)].version
  PROVE  RunInvariant(r)'
  <1>1. /\ pc'[r] = label /\ plan'[r] = plan[r] /\ hop'[r] = hop[r] /\ phase'[r] = phase[r]
        /\ listed'[r] = listed[r]
    BY DEF TypeOK, RunTypeOK, NextItem, Goto
  <1>2. pos'[r] = pos[r] + 1 /\ pos[r] \in Nat
    BY DEF TypeOK, RunTypeOK, NextItem
  <1>3. Snapshots(r)' /\ Walk(r)'
    BY <1>1, SnapshotsKept, WalkKept DEF RunInvariant, PhaseLabels
  <1>4. LabelsMatch(r)'
    BY <1>1 DEF RunInvariant, LabelsMatch, PlanLabels, ControlPlaneLabels, AddonLabels,
                NodegroupLabels
  <1>5. Looping(r)'
    <2>1. CASE label = "addon next"
      BY <1>1, <2>1 DEF Looping, AddonLabels, NodegroupLabels
    <2>2. CASE label = "ng next"
      <3>1. \A i \in 1 .. Len(NodegroupOrder) :
              i < pos[r] /\ NodegroupOrder[i] \in Rollable => hop[r] <= ng'[NodegroupOrder[i]].version
        BY <2>2, RolledKept DEF RunInvariant, Looping
      <3>2. \A i \in 1 .. Len(NodegroupOrder) : i < pos[r] + 1 => i < pos[r] \/ i = pos[r]
        BY <1>2, ListLength, EarlierOrCurrent, Zenon
      <3>3. \A i \in 1 .. Len(NodegroupOrder) :
              i < pos'[r] /\ NodegroupOrder[i] \in Rollable => hop'[r] <= ng'[NodegroupOrder[i]].version
        BY <1>1, <1>2, <2>2, <3>1, <3>2, Zenon DEF CurrentNodegroup
      <3> QED
        BY <1>1, <2>2, <3>3 DEF Looping, AddonLabels
    <2> QED
      BY <2>1, <2>2
  <1>6. Awaited(r)'
    BY <1>1 DEF Awaited
  <1> QED
    BY <1>3, <1>4, <1>5, <1>6 DEF RunInvariant

\* A confirmed phase starts at its first call.
LEMMA ConfirmKept ==
  ASSUME TypeOK, CloudDirection, [Next]_vars, NEW r \in Runs, RunInvariant(r), Confirm(r)
  PROVE  RunInvariant(r)'
  <1>1. /\ plan'[r] = plan[r] /\ hop'[r] = hop[r] /\ phase'[r] = phase[r] /\ listed'[r] = listed[r]
        /\ pc[r] = "phase"
        /\ \/ phase[r] = "control plane" /\ pc'[r] = "cp describe"
           \/ phase[r] = "addons" /\ pc'[r] = "addon list"
           \/ phase[r] = "nodegroups" /\ pc'[r] = "ng list"
    BY DEF TypeOK, RunTypeOK, Confirm, FirstItem, Goto, FirstCall, Phases
  <1>2. Snapshots(r)' /\ Walk(r)'
    BY <1>1, SnapshotsKept, WalkKept DEF RunInvariant
  <1>3. LabelsMatch(r)' /\ Looping(r)' /\ Awaited(r)'
    BY <1>1 DEF LabelsMatch, Looping, Awaited, PlanLabels, ControlPlaneLabels, AddonLabels,
                NodegroupLabels
  <1> QED
    BY <1>2, <1>3 DEF RunInvariant

\* Entering a loop at its first item.
LEMMA FirstItemKept ==
  ASSUME TypeOK, CloudDirection, [Next]_vars, NEW r \in Runs, RunInvariant(r), AddonsList(r)
  PROVE  RunInvariant(r)'
  <1>1. /\ plan'[r] = plan[r] /\ hop'[r] = hop[r] /\ phase'[r] = phase[r] /\ listed'[r] = listed[r]
        /\ pc[r] = "addon list" /\ pc'[r] = "addon next"
    BY DEF TypeOK, RunTypeOK, AddonsList, FirstItem, Goto
  <1>2. Snapshots(r)' /\ Walk(r)'
    BY <1>1, SnapshotsKept, WalkKept DEF RunInvariant, PhaseLabels, AddonLabels
  <1>3. LabelsMatch(r)' /\ Looping(r)' /\ Awaited(r)'
    BY <1>1 DEF RunInvariant, LabelsMatch, Looping, Awaited, PlanLabels, ControlPlaneLabels,
                AddonLabels, NodegroupLabels
  <1> QED
    BY <1>2, <1>3 DEF RunInvariant

\* One nodegroup of a listing is described: its version then, or what was known before,
\* bounds its version now.
LEMMA DescribedBound ==
  ASSUME TypeOK, CloudDirection, [Next]_vars, NEW r, NEW read \in [Nodegroups -> Minors],
         \A g \in Nodegroups : read[g] <= ng[g].version
  PROVE  \A g \in Nodegroups : WithDescribed(read, r)[g] <= ng'[g].version
  <1> TAKE g \in Nodegroups
  <1>1. WithDescribed(read, r)[g] \in {read[g], ng[g].version}
    BY WithDescribedTypes DEF TypeOK
  <1>2. read[g] <= ng[g].version /\ ng[g].version <= ng'[g].version
    BY VersionsRise
  <1>3. read[g] \in Int /\ ng[g].version \in Int /\ ng'[g].version \in Int
    <2>1. read[g] \in Minors
      OBVIOUS
    <2> QED
      BY <2>1, VersionsAreIntegers, PrimedIntegers, MinorsAssumption DEF Minors
  <1> QED
    BY <1>1, <1>2, <1>3

\* The listing goes on, or the loop begins at its first item.
LEMMA ListKept ==
  ASSUME TypeOK, CloudDirection, [Next]_vars, NEW r \in Runs, RunInvariant(r), NodegroupsList(r)
  PROVE  RunInvariant(r)'
  <1>1. /\ plan'[r] = plan[r] /\ hop'[r] = hop[r] /\ phase'[r] = phase[r]
        /\ listed'[r] = WithDescribed(listed[r], r) /\ listed[r] \in [Nodegroups -> Minors]
        /\ pc[r] = "ng list" /\ (pc'[r] = "ng list" \/ (pc'[r] = "ng next" /\ pos'[r] = 1))
    <2>1. /\ plan'[r] = plan[r] /\ hop'[r] = hop[r] /\ phase'[r] = phase[r]
          /\ listed'[r] = WithDescribed(listed[r], r) /\ listed[r] \in [Nodegroups -> Minors]
      BY DEF TypeOK, RunTypeOK, NodegroupsList
    <2>2. pc[r] = "ng list" /\ (UNCHANGED pc \/ FirstItem(r, "ng next"))
      BY Zenon DEF NodegroupsList, DescribedOne
    <2>3. pc \in [Runs -> Labels] /\ pos \in [Runs -> Nat \ {0}]
      BY DEF TypeOK, RunTypeOK
    <2>4. pc'[r] = "ng list" \/ (pc'[r] = "ng next" /\ pos'[r] = 1)
      BY <2>2, <2>3, Zenon DEF FirstItem, Goto
    <2> QED
      BY <2>1, <2>2, <2>4
  <1>2. Walk(r)'
    BY <1>1, WalkKept DEF RunInvariant, PhaseLabels, NodegroupLabels
  <1>3. Snapshots(r)'
    <2>1. plan[r].cp <= cp'.version
      BY VersionsRise, VersionsAreIntegers, PrimedIntegers DEF RunInvariant, Snapshots
    <2>2. \A g \in Nodegroups : plan[r].ng[g] <= ng'[g].version
      BY VersionsRise, VersionsAreIntegers, PrimedIntegers DEF RunInvariant, Snapshots
    <2>3. \A g \in Nodegroups : listed[r][g] <= ng[g].version
      BY DEF RunInvariant, Snapshots
    <2>4. \A g \in Nodegroups : listed'[r][g] <= ng'[g].version
      BY <1>1, <2>3, DescribedBound
    <2> QED
      BY <1>1, <2>1, <2>2, <2>4 DEF Snapshots
  <1>4. LabelsMatch(r)' /\ Awaited(r)'
    BY <1>1 DEF RunInvariant, LabelsMatch, Awaited, PlanLabels, ControlPlaneLabels, AddonLabels,
                NodegroupLabels
  <1>5. Looping(r)'
    <2>1. \A i \in 1 .. Len(NodegroupOrder) : ~(i < 1)
      OBVIOUS
    <2> QED
      BY <1>1, <2>1 DEF Looping, AddonLabels, NodegroupLabels
  <1> QED
    BY <1>2, <1>3, <1>4, <1>5 DEF RunInvariant

\* Arithmetic of bounds and hops.
LEMMA Below == \A i, j, k \in Int : i <= j /\ j <= k => i <= k
  OBVIOUS

\* The hop after one that is not the last is a hop ...
LEMMA HopAfter == \A h, f, t \in Int : h \in f .. t /\ h < t => h + 1 \in f .. t
  OBVIOUS

\* ... and the hop before it is the one it came from.
LEMMA HopBefore == \A h \in Int : (h + 1) - 1 = h
  OBVIOUS

\* A plan's first hop is a minor.
LEMMA FirstHopIsInteger ==
  ASSUME TypeOK, NEW r \in Runs
  PROVE  FirstHop(plan[r]) \in Int
  BY VersionsAreIntegers DEF FirstHop

\* Execute goes on to the next phase: what the phase before it was for is done.
LEMMA NextPhaseKept ==
  ASSUME TypeOK, CloudDirection, [Next]_vars, NEW r \in Runs, RunInvariant(r), NextPhase(r),
         pc[r] \in PhaseLabels \cup {"phase"},
         phase[r] = "control plane" => hop[r] <= cp.version,
         phase[r] = "nodegroups" => \A g \in Rollable : hop[r] <= ng[g].version
  PROVE  RunInvariant(r)'
  <1>1. plan'[r] = plan[r] /\ listed'[r] = listed[r]
    BY DEF NextPhase
  <1>2. Snapshots(r)'
    BY <1>1, SnapshotsKept DEF RunInvariant
  <1>3. pc'[r] \in {"phase", "stopped"}
    BY DEF TypeOK, RunTypeOK, NextPhase, Enter, Goto
  <1>4. LabelsMatch(r)' /\ Looping(r)' /\ Awaited(r)'
    BY <1>3 DEF LabelsMatch, Looping, Awaited, PlanLabels, ControlPlaneLabels, AddonLabels,
                NodegroupLabels
  <1>5. /\ hop[r] \in Hops(plan[r])
        /\ \A h \in Hops(plan[r]) : SkewSafe(plan[r], h)
        /\ phase[r] # "control plane" => hop[r] <= cp.version
    BY DEF RunInvariant, Walk
  <1>6. Walk(r)'
    <2>0. /\ hop \in [Runs -> Minors] /\ phase \in [Runs -> Phases] /\ pc \in [Runs -> Labels]
          /\ hop[r] \in Int /\ plan[r].target \in Int /\ plan[r].cp \in Int
      BY VersionsAreIntegers DEF TypeOK, RunTypeOK
    <2>1. CASE pc'[r] = "stopped"
      BY <2>1 DEF Walk, PhaseLabels, ControlPlaneLabels, AddonLabels, NodegroupLabels
    <2>2. CASE phase[r] # "nodegroups" /\ pc'[r] # "stopped"
      <3>1. hop'[r] = hop[r] /\ phase'[r] # "control plane"
        BY <2>0, <2>2 DEF NextPhase, Enter
      <3>2. hop[r] <= cp.version
        BY <1>5
      <3>3. hop[r] <= cp'.version
        BY <3>2, VersionsRise, VersionsAreIntegers, PrimedIntegers, Below, Zenon
      <3>4. hop'[r] \in Hops(plan'[r]) /\ \A h \in Hops(plan'[r]) : SkewSafe(plan'[r], h)
        BY <1>1, <1>5, <3>1, Zenon
      <3> QED
        BY <3>1, <3>3, <3>4 DEF Walk, Hops, FirstHop, SkewSafe, SimulatedVersion
    <2>3. CASE phase[r] = "nodegroups" /\ pc'[r] # "stopped"
      <3>1. hop'[r] = hop[r] + 1 /\ phase'[r] = "control plane" /\ hop[r] < plan[r].target
        BY <2>0, <2>3 DEF NextPhase, Enter, Goto
      <3>2. hop[r] + 1 \in Hops(plan[r])
        <4>1. FirstHop(plan[r]) \in Int
          BY FirstHopIsInteger
        <4> QED
          BY <1>5, <2>0, <3>1, <4>1, HopAfter, Zenon DEF Hops
      <3>3. hop'[r] \in Hops(plan'[r]) /\ \A h \in Hops(plan'[r]) : SkewSafe(plan'[r], h)
        BY <1>1, <1>5, <3>1, <3>2, Zenon
      <3>4. ASSUME NEW g \in Rollable PROVE hop'[r] - 1 <= ng'[g].version
        <4>1. g \in Nodegroups
          BY DEF Rollable
        <4>2. hop[r] <= ng[g].version
          BY <2>3
        <4>3. hop[r] <= ng'[g].version
          BY <4>1, <4>2, VersionsRise, VersionsAreIntegers, PrimedIntegers, Below, Zenon
        <4>4. hop'[r] - 1 = hop[r]
          BY <2>0, <3>1, HopBefore, Zenon
        <4> QED
          BY <4>3, <4>4
      <3> QED
        BY <3>1, <3>3, <3>4 DEF Walk, Hops, FirstHop, SkewSafe, SimulatedVersion
    <2> QED
      BY <2>1, <2>2, <2>3
  <1> QED
    BY <1>2, <1>4, <1>6 DEF RunInvariant

\* A phase without pending steps is skipped: the plan's snapshot vouches for it.
LEMMA SkipPhaseKept ==
  ASSUME TypeOK, CloudDirection, [Next]_vars, NEW r \in Runs, RunInvariant(r), SkipPhase(r)
  PROVE  RunInvariant(r)'
  <1>1. phase[r] = "control plane" => hop[r] <= cp.version
    <2>1. phase[r] = "control plane" => plan[r].cp >= hop[r]
      BY DEF SkipPhase, Pending, ControlPlaneStep
    <2>2. plan[r].cp <= cp.version
      BY DEF RunInvariant, Snapshots
    <2>3. plan[r].cp >= hop[r] => hop[r] <= plan[r].cp
      BY VersionsAreIntegers
    <2> QED
      BY <2>1, <2>2, <2>3, VersionsAreIntegers, Below, Zenon
  <1>2. ASSUME phase[r] = "nodegroups", NEW g \in Rollable PROVE hop[r] <= ng[g].version
    <2>1. g \in Nodegroups /\ g \notin SkipNodegroups \cup CustomAMI
      BY DEF Rollable
    <2>2. plan[r].ng[g] >= hop[r]
      BY <1>2, <2>1 DEF SkipPhase, Pending, NodegroupStep
    <2>3. plan[r].ng[g] <= ng[g].version
      BY <2>1 DEF RunInvariant, Snapshots
    <2> QED
      BY <2>1, <2>2, <2>3, VersionsAreIntegers
  <1> QED
    BY <1>1, <1>2, NextPhaseKept DEF SkipPhase

\* Building a plan: reads are snapshots, and an unblocked plan may be walked.
LEMMA PlanningKept ==
  ASSUME TypeOK, CloudDirection, [Next]_vars, NEW r \in Runs, RunInvariant(r), PlanNext(r)
  PROVE  RunInvariant(r)'
  <1>0. /\ pc \in [Runs -> Labels] /\ plan \in [Runs -> Plans] /\ hop \in [Runs -> Minors]
    BY DEF TypeOK, RunTypeOK
  <1>1. ASSUME NEW why, Stop(r, why) PROVE RunInvariant(r)'
    BY <1>1, StopKept
  <1>2. phase[r] = "control plane"
    BY DEF RunInvariant, LabelsMatch, PlanNext, PlanCluster, PlanNodegroups, PlanAddon,
           PlanAddonsDone, PlanBlocked, PlanReady, PlanLabels
  <1>3. ASSUME pc'[r] \in PlanLabels, phase'[r] = phase[r], Snapshots(r)' PROVE RunInvariant(r)'
    BY <1>2, <1>3 DEF RunInvariant, LabelsMatch, Walk, Looping, Awaited, PlanLabels, PhaseLabels,
       ControlPlaneLabels, AddonLabels, NodegroupLabels
  <1>4. /\ plan[r].cp <= cp'.version /\ cp.version <= cp'.version
        /\ \A g \in Nodegroups : /\ plan[r].ng[g] <= ng'[g].version
                                 /\ listed[r][g] <= ng'[g].version
                                 /\ ng[g].version <= ng'[g].version
    BY VersionsRise, VersionsAreIntegers, PrimedIntegers DEF RunInvariant, Snapshots
  <1>5. CASE PlanCluster(r)
    <2>1. CASE plan' = [plan EXCEPT ![r].cp = cp.version] /\ Goto(r, "plan nodegroups")
               /\ UNCHANGED <<phase, listed>>
      <3>1. plan'[r].cp = cp.version /\ plan'[r].ng = plan[r].ng /\ pc'[r] = "plan nodegroups"
        BY <1>0, <2>1 DEF Plans, Goto
      <3> QED
        BY <1>3, <1>4, <2>1, <3>1 DEF Snapshots, PlanLabels
    <2> QED
      BY <1>1, <1>5, <2>1 DEF PlanCluster
  <1>6. CASE PlanNodegroups(r)
    <2>1. /\ plan'[r].cp = plan[r].cp /\ plan'[r].ng = WithDescribed(plan[r].ng, r)
          /\ plan[r].ng \in [Nodegroups -> Minors]
      BY <1>0, <1>6 DEF PlanNodegroups, Plans
    <2>2. pc'[r] \in PlanLabels /\ phase'[r] = phase[r] /\ listed'[r] = listed[r]
      BY <1>0, <1>6 DEF PlanNodegroups, DescribedOne, FirstItem, Goto, PlanLabels
    <2>3. \A g \in Nodegroups : plan'[r].ng[g] <= ng'[g].version
      BY <2>1, DescribedBound DEF RunInvariant, Snapshots
    <2> QED
      BY <1>3, <1>4, <2>1, <2>2, <2>3 DEF Snapshots
  <1>7. CASE PlanAddon(r) \/ PlanAddonsDone(r)
    <2>1. plan'[r].cp = plan[r].cp /\ plan'[r].ng = plan[r].ng
      BY <1>0, <1>7 DEF PlanAddon, PlanAddonsDone, Step, Plans
    <2>2. pc'[r] \in PlanLabels /\ phase'[r] = phase[r] /\ listed'[r] = listed[r]
      BY <1>0, <1>7 DEF PlanAddon, PlanAddonsDone, Step, Goto, PlanLabels
    <2> QED
      BY <1>3, <1>4, <2>1, <2>2 DEF Snapshots
  <1>8. CASE PlanBlocked(r)
    BY <1>1, <1>8 DEF PlanBlocked
  <1>9. CASE PlanReady(r)
    <2>1. CASE Stop(r, "nothing")
      BY <1>1, <2>1
    <2>2. CASE ~Stop(r, "nothing")
      <3>1. /\ ~Blocked(plan[r]) /\ hop'[r] = FirstHop(plan[r]) /\ pc'[r] = "phase"
            /\ plan'[r] = plan[r] /\ phase'[r] = phase[r] /\ listed'[r] = listed[r]
        BY <1>0, <1>9, <2>2 DEF PlanReady, Goto
      <3>2. FirstHop(plan[r]) \in Hops(plan[r])
        <4>1. plan[r].cp <= plan[r].target
          BY DEF TypeOK, PlanAhead
        <4> QED
          BY <4>1, VersionsAreIntegers DEF Hops, FirstHop
      <3>3. \A h \in Hops(plan[r]) : SkewSafe(plan[r], h)
        BY <3>1 DEF Blocked
      <3>4. ~(FirstHop(plan[r]) > FirstHop(plan[r]))
        BY VersionsAreIntegers DEF FirstHop
      <3>5. Walk(r)'
        <4>1. /\ hop'[r] \in Hops(plan'[r]) /\ \A h \in Hops(plan'[r]) : SkewSafe(plan'[r], h)
              /\ ~(hop'[r] > FirstHop(plan'[r])) /\ phase'[r] = "control plane"
          BY <1>2, <3>1, <3>2, <3>3, <3>4, Zenon
        <4> QED
          BY <4>1 DEF Walk, Hops, FirstHop, SkewSafe, SimulatedVersion
      <3>6. Snapshots(r)'
        BY <3>1, SnapshotsKept DEF RunInvariant
      <3> QED
        BY <3>1, <3>5, <3>6 DEF RunInvariant, LabelsMatch, Looping, Awaited, PlanLabels,
           ControlPlaneLabels, AddonLabels, NodegroupLabels
    <2> QED
      BY <2>1, <2>2
  <1> QED
    BY <1>5, <1>6, <1>7, <1>8, <1>9 DEF PlanNext

\* A new process has read nothing yet: the oldest minor bounds every version.
LEMMA LaunchKept ==
  ASSUME TypeOK, [Next]_vars, NEW r \in Runs, Launch(r)
  PROVE  RunInvariant(r)'
  <1>1. /\ pc'[r] = "plan cluster" /\ phase'[r] = "control plane" /\ listed'[r] = NoPlan.ng
    BY DEF TypeOK, RunTypeOK, Launch, Goto
  <1>2. plan'[r].cp = FirstMinor /\ plan'[r].ng = NoPlan.ng
    <2>1. PICK t \in Targets : plan' = [plan EXCEPT ![r] = [NoPlan EXCEPT !.target = t]]
      BY DEF Launch
    <2>2. plan'[r] = [NoPlan EXCEPT !.target = t]
      BY <2>1 DEF TypeOK, RunTypeOK
    <2> QED
      BY <2>2 DEF NoPlan
  <1>3. \A g \in Nodegroups : NoPlan.ng[g] = FirstMinor
    BY DEF NoPlan
  <1>4. FirstMinor <= cp'.version /\ \A g \in Nodegroups : FirstMinor <= ng'[g].version
    BY StepTypesAll, MinorsAssumption
    DEF TypeOK, CloudTypeOK, ControlPlaneStates, NodegroupStates, Minors
  <1>5. Snapshots(r)'
    BY <1>1, <1>2, <1>3, <1>4 DEF Snapshots
  <1> QED
    BY <1>1, <1>5 DEF RunInvariant, LabelsMatch, Walk, Looping, Awaited, PhaseLabels,
       ControlPlaneLabels, AddonLabels, NodegroupLabels

\* The control-plane phase: it is left only after the version was read.
LEMMA ControlPlaneKept ==
  ASSUME TypeOK, CloudDirection, [Next]_vars, NEW r \in Runs, RunInvariant(r), ControlPlaneNext(r)
  PROVE  RunInvariant(r)'
  <1>1. pc[r] \in ControlPlaneLabels /\ pc[r] \in PhaseLabels
    BY DEF ControlPlaneNext, ControlPlaneDescribe, WaitForClusterActive, ControlPlaneRecheck,
           ControlPlaneStart, ControlPlaneWait, ControlPlaneVerify, ControlPlaneLabels, PhaseLabels
  <1>2. phase[r] = "control plane"
    BY <1>1 DEF RunInvariant, LabelsMatch
  <1>3. ASSUME NEW label \in ControlPlaneLabels, Step(r, label) PROVE RunInvariant(r)'
    <2>1. label \in PhaseLabels /\ label \notin AddonLabels /\ label \notin NodegroupLabels
      BY DEF PhaseLabels, ControlPlaneLabels, AddonLabels, NodegroupLabels
    <2>2. label \notin {"ng gate", "ng start", "ng wait"}
      BY DEF ControlPlaneLabels
    <2> QED
      BY <1>1, <1>2, <1>3, <2>1, <2>2, StepKept
  <1>4. ASSUME PhaseDone(r), cp.version >= hop[r] PROVE RunInvariant(r)'
    <2>1. hop[r] <= cp.version
      BY <1>4, VersionsAreIntegers
    <2> QED
      BY <1>1, <1>2, <1>4, <2>1, NextPhaseKept DEF PhaseDone
  <1>5. ASSUME NEW why, Stop(r, why) PROVE RunInvariant(r)'
    BY <1>5, StopKept
  <1>6. \/ PhaseDone(r) /\ cp.version >= hop[r]
        \/ \E label \in ControlPlaneLabels : Step(r, label)
        \/ \E why \in Exits : Stop(r, why)
    BY DEF ControlPlaneNext, ControlPlaneDescribe, WaitForClusterActive, ControlPlaneRecheck,
           ControlPlaneStart, ControlPlaneWait, ControlPlaneVerify, Answered, ControlPlaneLabels, Exits
  <1> QED
    BY <1>3, <1>4, <1>5, <1>6

\* The add-on phase acts on add-ons that are not skipped.
LEMMA AddonsKept ==
  ASSUME TypeOK, CloudDirection, [Next]_vars, NEW r \in Runs, RunInvariant(r), AddonsNext(r)
  PROVE  RunInvariant(r)'
  <1>1. pc[r] \in AddonLabels /\ pc[r] \in PhaseLabels
    BY DEF AddonsNext, AddonsList, AddonsDone, AddonNext, WaitForAddon, AddonReread, AddonCheck,
           AddonStart, AddonVerify, AddonLabels, PhaseLabels
  <1>2. phase[r] = "addons"
    BY <1>1 DEF RunInvariant, LabelsMatch
  <1>3. CASE AddonsList(r)
    BY <1>3, FirstItemKept
  <1>4. CASE PhaseDone(r)
    BY <1>1, <1>2, <1>4, NextPhaseKept DEF PhaseDone
  <1>5. CASE NextItem(r, "addon next")
    BY <1>1, <1>5, NextItemKept
  <1>6. ASSUME NEW label \in AddonLabels, Step(r, label), CurrentAddon(r) \in Converged
        PROVE  RunInvariant(r)'
    <2>1. label \in PhaseLabels /\ label \notin ControlPlaneLabels /\ label \notin NodegroupLabels
      BY DEF PhaseLabels, ControlPlaneLabels, AddonLabels, NodegroupLabels
    <2>2. label \notin {"ng gate", "ng start", "ng wait"}
      BY DEF AddonLabels
    <2> QED
      BY <1>1, <1>2, <1>6, <2>1, <2>2, StepKept
  <1>7. ASSUME NEW why, Stop(r, why) PROVE RunInvariant(r)'
    BY <1>7, StopKept
  <1>8. CASE AddonNext(r)
    <2>1. CurrentAddon(r) \notin SkipAddons => CurrentAddon(r) \in Converged
      <3>1. CurrentAddon(r) \in Addons
        <4>1. pos[r] \in Nat /\ pos[r] # 0 /\ Len(AddonOrder) \in Nat
          BY OrderAssumption DEF TypeOK, RunTypeOK
        <4>2. pos[r] \in 1 .. Len(AddonOrder)
          BY <1>8, <4>1, WithinBounds DEF AddonNext
        <4> QED
          BY <4>2, CurrentTypes
      <3> QED
        BY <3>1 DEF Converged
    <2>2. \/ NextItem(r, "addon next")
          \/ CurrentAddon(r) \notin SkipAddons /\ \E label \in AddonLabels : Step(r, label)
          \/ \E why \in Exits : Stop(r, why)
      BY <1>8 DEF AddonNext, AddonLabels, Exits
    <2> QED
      BY <1>5, <1>6, <1>7, <2>1, <2>2
  <1>9. CASE WaitForAddon(r) \/ AddonReread(r) \/ AddonCheck(r) \/ AddonStart(r) \/ AddonVerify(r)
    <2>1. CurrentAddon(r) \in Converged
      BY <1>9 DEF RunInvariant, Looping, WaitForAddon, AddonReread, AddonCheck, AddonStart,
                  AddonVerify, AddonLabels
    <2>2. \/ NextItem(r, "addon next")
          \/ \E label \in AddonLabels : Step(r, label)
          \/ \E why \in Exits : Stop(r, why)
      BY <1>9 DEF WaitForAddon, AddonReread, AddonCheck, AddonStart, AddonVerify, Answered,
                  AddonLabels, Exits
    <2> QED
      BY <1>5, <1>6, <1>7, <2>1, <2>2
  <1> QED
    BY <1>3, <1>4, <1>8, <1>9 DEF AddonsNext, AddonsDone

\* The nodegroup phase passes a nodegroup only when it is at the hop, or not the run's
\* to roll; it is left only when it has passed them all.
LEMMA NodegroupsKept ==
  ASSUME TypeOK, CloudDirection, [Next]_vars, NEW r \in Runs, RunInvariant(r), NodegroupsNext(r)
  PROVE  RunInvariant(r)'
  <1> DEFINE g == CurrentNodegroup(r)
  <1>1. pc[r] \in NodegroupLabels /\ pc[r] \in PhaseLabels
    BY DEF NodegroupsNext, NodegroupsList, NodegroupsDone, NodegroupNext, NodegroupGate,
           NodegroupStart, NodegroupWait, NodegroupLabels, PhaseLabels
  <1>2. phase[r] = "nodegroups"
    BY <1>1 DEF RunInvariant, LabelsMatch
  <1>3. CASE NodegroupsList(r)
    BY <1>3, ListKept
  <1>4. ASSUME NEW why, Stop(r, why) PROVE RunInvariant(r)'
    BY <1>4, StopKept
  <1>5. ASSUME NextItem(r, "ng next"), pc[r] # "ng list",
               g \in Rollable => hop[r] <= ng'[g].version
        PROVE  RunInvariant(r)'
    BY <1>1, <1>5, NextItemKept
  <1>6. ASSUME NEW label \in {"ng gate", "ng start", "ng wait"}, Step(r, label), pc[r] # "ng list",
               g \in Rollable, label = "ng wait" => Awaited(r)'
        PROVE  RunInvariant(r)'
    <2>1. label \in PhaseLabels /\ label \notin ControlPlaneLabels /\ label \notin AddonLabels
      BY DEF PhaseLabels, ControlPlaneLabels, AddonLabels, NodegroupLabels
    <2> QED
      BY <1>1, <1>2, <1>6, <2>1, StepKept
  <1>7. CASE NodegroupsDone(r)
    <2>1. ASSUME NEW x \in Rollable PROVE hop[r] <= ng[x].version
      <3>1. PICK i \in 1 .. Len(NodegroupOrder) : NodegroupOrder[i] = x
        BY OrderAssumption DEF Rollable
      <3>2. i < pos[r]
        <4>1. pos[r] \in Nat /\ pos[r] > Len(NodegroupOrder)
          BY <1>7 DEF NodegroupsDone, TypeOK, RunTypeOK
        <4> QED
          BY <4>1, ListLength
      <3>3. \A j \in 1 .. Len(NodegroupOrder) :
              j < pos[r] /\ NodegroupOrder[j] \in Rollable => hop[r] <= ng[NodegroupOrder[j]].version
        BY <1>7 DEF RunInvariant, Looping, NodegroupsDone, NodegroupLabels
      <3> QED
        BY <3>1, <3>2, <3>3
    <2> QED
      BY <1>1, <1>2, <1>7, <2>1, NextPhaseKept DEF NodegroupsDone, PhaseDone
  <1>8. CASE NodegroupNext(r)
    <2>1. g \in Nodegroups
      <3>1. pos[r] \in Nat /\ pos[r] # 0 /\ Len(NodegroupOrder) \in Nat
        BY ListLength DEF TypeOK, RunTypeOK
      <3>2. pos[r] \in 1 .. Len(NodegroupOrder)
        BY <1>8, <3>1, WithinBounds DEF NodegroupNext
      <3> QED
        BY <3>2, CurrentTypes
    <2>2. CASE (listed[r][g] >= hop[r] \/ g \notin Rollable) /\ NextItem(r, "ng next")
      <3>1. listed[r][g] <= ng[g].version /\ ng[g].version <= ng'[g].version
        BY <2>1, VersionsRise DEF RunInvariant, Snapshots
      <3>2. listed[r][g] >= hop[r] => hop[r] <= ng'[g].version
        BY <2>1, <3>1, VersionsAreIntegers, PrimedIntegers
      <3> QED
        BY <1>5, <1>8, <2>2, <3>2 DEF NodegroupNext
    <2>3. CASE g \in Rollable /\ Step(r, "ng gate")
      BY <1>6, <1>8, <2>3 DEF NodegroupNext
    <2> QED
      BY <1>8, <2>2, <2>3 DEF NodegroupNext
  <1>9. CASE NodegroupGate(r)
    <2>1. g \in Rollable /\ pc[r] # "ng list"
      BY <1>9 DEF NodegroupGate, RunInvariant, Looping
    <2>2. Step(r, "ng start") \/ Stop(r, "gate refused")
      BY <1>9 DEF NodegroupGate
    <2> QED
      BY <1>4, <1>6, <2>1, <2>2
  <1>10. CASE NodegroupStart(r)
    <2>1. g \in Rollable /\ pc[r] # "ng list"
      BY <1>10 DEF NodegroupStart, RunInvariant, Looping
    <2>2. CASE UpdateNodegroupVersion(r, g, hop[r]) /\ Step(r, "ng wait")
      <3>1. g \in Nodegroups
        BY <2>1 DEF Rollable
      <3>2. ng'[g].status = "UPDATING" /\ ng'[g].to = hop[r]
        BY <2>2, <3>1 DEF TypeOK, CloudTypeOK, NodegroupStates, UpdateNodegroupVersion
      <3>3. update'[r].of = g /\ update'[r].status = "InProgress"
        BY <2>2 DEF TypeOK, CloudTypeOK, UpdateNodegroupVersion, StartUpdate
      <3>4. pos'[r] = pos[r] /\ hop'[r] = hop[r]
        BY <2>2 DEF Step
      <3>5. Awaited(r)'
        BY <3>2, <3>3, <3>4 DEF Awaited, Told, CurrentNodegroup
      <3> QED
        BY <1>6, <2>1, <2>2, <3>5
    <2> QED
      BY <1>4, <1>10, <2>2 DEF NodegroupStart, Answered
  <1>11. CASE NodegroupWait(r)
    <2>1. CASE update[r].status = "Successful" /\ NextItem(r, "ng next")
      <3>1. g \in Nodegroups
        BY <1>11, CurrentTypes DEF NodegroupWait, TypeOK, PositionOK, NodegroupLabels
      <3>2. hop[r] <= ng[g].version
        BY <1>11, <2>1 DEF NodegroupWait, RunInvariant, Awaited, Told
      <3>3. hop[r] <= ng'[g].version
        BY <3>1, <3>2, VersionsRise, VersionsAreIntegers, PrimedIntegers, Below, Zenon
      <3> QED
        BY <1>5, <1>11, <2>1, <3>3 DEF NodegroupWait
    <2> QED
      BY <1>4, <1>11, <2>1 DEF NodegroupWait
  <1> QED
    BY <1>3, <1>7, <1>8, <1>9, <1>10, <1>11 DEF NodegroupsNext

\* Whatever a run does, it keeps what its next call relies on.
LEMMA OwnKept ==
  ASSUME TypeOK, CloudDirection, [Next]_vars, NEW r \in Runs, RunInvariant(r), RunActs(r)
  PROVE  RunInvariant(r)'
  <1>1. CASE PlanNext(r) \/ SkipPhase(r) \/ Launch(r)
    BY <1>1, PlanningKept, SkipPhaseKept, LaunchKept
  <1>2. CASE ControlPlaneNext(r) \/ AddonsNext(r) \/ NodegroupsNext(r)
    BY <1>2, ControlPlaneKept, AddonsKept, NodegroupsKept
  <1>3. CASE Confirm(r)
    BY <1>3, ConfirmKept
  <1>4. CASE Decline(r) \/ PlanFails(r) \/ PhaseFails(r)
    BY <1>4, StopKept DEF Decline, PlanFails, PhaseFails
  <1> QED
    BY <1>1, <1>2, <1>3, <1>4 DEF RunActs, RunNext

--------------------------------------------------------------------------------
(***************************************************************************)
(* The induction, and what follows from it.                                 *)
(***************************************************************************)
\* The clusters a run may find are at rest and within the skew; no run has read them.
LEMMA InitSafe == Init => SafetyInvariant
  <1> SUFFICES ASSUME Init PROVE SafetyInvariant
    OBVIOUS
  <1>1. TypeOK
    BY InitTypes
  <1>2. PICK c \in StartClusters : cp = c.cp /\ ng = c.ng /\ addon = c.addon
    BY DEF Init
  <1>3. /\ cp.to = cp.version
        /\ \A g \in Nodegroups : /\ ng[g].to = ng[g].version
                                 /\ ng[g].version <= cp.version
                                 /\ cp.version <= ng[g].version + KubeletSkew
        /\ \A a \in Addons : addon[a].to = addon[a].version
    BY <1>2, StartAssumption
  <1>4. CloudDirection
    BY <1>1, <1>3, VersionsAreIntegers DEF CloudDirection
  <1>5. SkewSupported
    BY <1>1, <1>3, VersionsAreIntegers DEF SkewSupported, KubeletSkew
  <1>6. ASSUME NEW r \in Runs PROVE RunInvariant(r)
    <2>1. /\ pc[r] = "idle" /\ plan[r].cp = FirstMinor
          /\ \A g \in Nodegroups : plan[r].ng[g] = FirstMinor /\ listed[r][g] = FirstMinor
      BY DEF Init, NoPlan
    <2>2. FirstMinor <= cp.version /\ \A g \in Nodegroups : FirstMinor <= ng[g].version
      BY <1>1, MinorsAssumption DEF TypeOK, CloudTypeOK, ControlPlaneStates, NodegroupStates, Minors
    <2>3. Snapshots(r)
      BY <2>1, <2>2 DEF Snapshots
    <2> QED
      BY <2>1, <2>3 DEF RunInvariant, LabelsMatch, Walk, Looping, Awaited, PlanLabels, PhaseLabels,
         ControlPlaneLabels, AddonLabels, NodegroupLabels
  <1> QED
    BY <1>1, <1>4, <1>5, <1>6 DEF SafetyInvariant

\* No step of any run, nor of EKS, leaves the invariant.
LEMMA SafetyKept ==
  ASSUME SafetyInvariant, [Next]_vars
  PROVE  SafetyInvariant'
  <1>1. TypeOK /\ CloudDirection /\ SkewSupported /\ \A r \in Runs : RunInvariant(r)
    BY DEF SafetyInvariant
  <1>2. TypeOK' /\ CloudDirection' /\ SkewSupported'
    BY <1>1, StepTypesAll, DirectionKept, SkewKept
  <1>3. ASSUME NEW s \in Runs PROVE RunInvariant(s)'
    <2>1. \/ RunActs(s)
          \/ \E r \in Runs : r # s /\ RunActs(r)
          \/ CloudNext /\ UNCHANGED runVars
          \/ UNCHANGED vars
      BY DEF Next, RunActs
    <2> QED
      BY <1>1, <2>1, OwnKept, OthersKept
  <1> QED
    BY <1>2, <1>3 DEF SafetyInvariant

\* What a run knows at each call stays true whatever other runs and EKS do meanwhile:
\* snapshots are lower bounds, hops are walked in order, awaited rolls are the run's.
THEOREM SafetyCorrect == Spec => []SafetyInvariant
  <1>1. Init => SafetyInvariant
    BY InitSafe
  <1>2. SafetyInvariant /\ [Next]_vars => SafetyInvariant'
    BY SafetyKept
  <1> QED
    BY <1>1, <1>2, PTL DEF Spec

\* No control-plane update, finished or in flight, ever leaves a nodegroup further behind
\* than the kubelet skew, with any number of overlapping, failing and restarted runs.
THEOREM SkewCorrect == Spec => []SkewSupported
  <1>1. SafetyInvariant => SkewSupported
    BY DEF SafetyInvariant
  <1> QED
    BY <1>1, SafetyCorrect, PTL

--------------------------------------------------------------------------------
(***************************************************************************)
(* UpgradeContract is implemented.                                          *)
(***************************************************************************)
\* The clusters a run may find are clusters of the contract.
LEMMA ContractInit == Init => Contract!Init
  <1> SUFFICES ASSUME Init PROVE Contract!Init
    OBVIOUS
  <1>1. cp \in ControlPlaneStates /\ ng \in [Nodegroups -> NodegroupStates]
        /\ addon \in [Addons -> AddonStates]
    BY InitTypes DEF TypeOK, CloudTypeOK
  <1>2. cp.version \in Nat /\ \A g \in Nodegroups : ng[g].version \in Nat
    BY <1>1, MinorsAssumption DEF ControlPlaneStates, NodegroupStates, Minors
  <1>3. \A a \in Addons : addon[a].version \in Nat
    BY <1>1 DEF AddonStates
  <1> QED
    BY <1>2, <1>3 DEF Contract!Init

\* Every step changes the versions in effect as the contract allows, or not at all.
LEMMA ContractStep ==
  ASSUME SafetyInvariant, [Next]_vars
  PROVE  [Contract!Next]_<<cp.version, [g \in Nodegroups |-> ng[g].version],
                           [a \in Addons |-> addon[a].version]>>
  <1> DEFINE node == [g \in Nodegroups |-> ng[g].version]
  <1> DEFINE version == [a \in Addons |-> addon[a].version]
  <1> DEFINE Goal == [Contract!Next]_<<cp.version, node, version>>
  <1>0. /\ TypeOK /\ CloudDirection /\ SkewSupported
        /\ cp \in ControlPlaneStates /\ ng \in [Nodegroups -> NodegroupStates]
        /\ addon \in [Addons -> AddonStates]
    BY DEF SafetyInvariant, TypeOK, CloudTypeOK
  <1>1. ASSUME cp'.version = cp.version,
               \A g \in Nodegroups : ng'[g].version = ng[g].version,
               \A a \in Addons : addon'[a].version = addon[a].version
        PROVE  Goal
    BY <1>1
  <1>2. CASE Bookkeeping
    BY <1>1, <1>2 DEF Bookkeeping
  <1>3. ASSUME NEW r \in Runs, StartsControlPlane(r) \/ StartsAddon(r) \/ StartsNodegroup(r)
        PROVE  Goal
    <2>1. cp'.version = cp.version
      BY <1>0, <1>3 DEF StartsControlPlane, StartsAddon, StartsNodegroup, UpdateClusterVersion,
                        ControlPlaneStates
    <2>2. ASSUME NEW g \in Nodegroups PROVE ng'[g].version = ng[g].version
      <3>1. CASE StartsNodegroup(r)
        BY <1>0, <3>1 DEF StartsNodegroup, UpdateNodegroupVersion, NodegroupStates
      <3>2. CASE StartsControlPlane(r) \/ StartsAddon(r)
        BY <3>2 DEF StartsControlPlane, StartsAddon
      <3> QED
        BY <1>3, <3>1, <3>2
    <2>3. ASSUME NEW a \in Addons PROVE addon'[a].version = addon[a].version
      <3>1. CASE StartsAddon(r)
        BY <1>0, <3>1 DEF StartsAddon, UpdateAddon, AddonStates
      <3>2. CASE StartsControlPlane(r) \/ StartsNodegroup(r)
        BY <3>2 DEF StartsControlPlane, StartsNodegroup
      <3> QED
        BY <1>3, <3>1, <3>2
    <2> QED
      BY <1>1, <2>1, <2>2, <2>3
  <1>4. CASE ControlPlaneUpdateSucceeds
    <2>1. cp'.version = cp.version + 1 /\ cp.to = cp.version + 1
      BY <1>0, <1>4 DEF ControlPlaneUpdateSucceeds, ControlPlaneStates, CloudDirection
    <2>2. \A g \in Nodegroups : cp'.version <= node[g] + KubeletSkew
      BY <1>0, <2>1, VersionsAreIntegers DEF SkewSupported, KubeletSkew
    <2>3. ng' = ng /\ addon' = addon
      BY <1>4 DEF ControlPlaneUpdateSucceeds
    <2>4. Contract!AdvancePlane
      BY <2>1, <2>2, <2>3 DEF Contract!AdvancePlane
    <2> QED
      BY <2>4 DEF Contract!Next
  <1>5. CASE ControlPlaneUpdateFails \/ ControlPlaneSettles \/ ConfigurationUpdate
    <2>1. cp'.version = cp.version /\ ng' = ng /\ addon' = addon
      BY <1>0, <1>5 DEF ControlPlaneUpdateFails, ControlPlaneSettles, ConfigurationUpdate,
                        ControlPlaneStates
    <2> QED
      BY <1>1, <2>1
  <1>6. ASSUME NEW x \in Nodegroups,
               RollFails(x) \/ NodegroupDegrades(x) \/ NodegroupRecovers(x)
        PROVE  Goal
    <2>1. cp' = cp /\ addon' = addon
      BY <1>6 DEF RollFails, NodegroupDegrades, NodegroupRecovers
    <2>2. ASSUME NEW g \in Nodegroups PROVE ng'[g].version = ng[g].version
      <3>1. CASE RollFails(x)
        <4>1. PICK status \in {"ACTIVE", "DEGRADED"} :
                ng' = [ng EXCEPT ![x] = [version |-> ng[x].version, to |-> ng[x].version,
                                         status |-> status, healthy |-> ng[x].healthy]]
          BY <3>1 DEF RollFails
        <4>2. ng'[x].version = ng[x].version
          BY <1>0, <4>1
        <4>3. g # x => ng'[g] = ng[g]
          BY <1>0, <4>1
        <4> QED
          BY <4>2, <4>3
      <3>2. CASE NodegroupDegrades(x)
        BY <1>0, <3>2 DEF NodegroupDegrades, NodegroupStates
      <3>3. CASE NodegroupRecovers(x)
        BY <1>0, <3>3 DEF NodegroupRecovers, NodegroupStates
      <3> QED
        BY <1>6, <3>1, <3>2, <3>3
    <2> QED
      BY <1>1, <2>1, <2>2
  <1>7. ASSUME NEW x \in Nodegroups, RollSucceeds(x) PROVE Goal
    <2>1. cp' = cp /\ addon' = addon
      BY <1>7 DEF RollSucceeds
    <2>2. PICK healthy \in BOOLEAN :
            ng' = [ng EXCEPT ![x] = [version |-> ng[x].to, to |-> ng[x].to,
                                     status |-> "ACTIVE", healthy |-> healthy]]
      BY <1>7 DEF RollSucceeds
    <2>3. ng'[x].version = ng[x].to /\ \A g \in Nodegroups : g # x => ng'[g] = ng[g]
      BY <1>0, <2>2
    <2>4. CASE ng[x].to = ng[x].version
      BY <1>1, <2>1, <2>3, <2>4
    <2>5. CASE ng[x].to # ng[x].version
      <3>1. x \in Rollable /\ ng[x].to \in ng[x].version + 1 .. cp.version
        BY <1>0, <2>5, VersionsAreIntegers DEF CloudDirection
      <3>2. node' = [node EXCEPT ![x] = ng[x].to]
        BY <2>3
      <3>3. node[x] = ng[x].version
        OBVIOUS
      <3>4. Contract!RollNodegroup(x)
        BY <2>1, <3>1, <3>2, <3>3 DEF Contract!RollNodegroup
      <3> QED
        BY <3>1, <3>4 DEF Contract!Next
    <2> QED
      BY <2>4, <2>5
  <1>8. ASSUME NEW x \in Addons, AddonUpdateFails(x) \/ AddonRecovers(x) PROVE Goal
    <2>1. cp' = cp /\ ng' = ng
      BY <1>8 DEF AddonUpdateFails, AddonRecovers
    <2>2. ASSUME NEW a \in Addons PROVE addon'[a].version = addon[a].version
      <3>1. CASE AddonUpdateFails(x)
        BY <1>0, <3>1 DEF AddonUpdateFails, AddonStates
      <3>2. CASE AddonRecovers(x)
        BY <1>0, <3>2 DEF AddonRecovers, AddonStates
      <3> QED
        BY <1>8, <3>1, <3>2
    <2> QED
      BY <1>1, <2>1, <2>2
  <1>9. ASSUME NEW x \in Addons, AddonUpdateSucceeds(x) PROVE Goal
    <2>1. cp' = cp /\ ng' = ng
      BY <1>9 DEF AddonUpdateSucceeds
    <2>2. PICK status \in {"ACTIVE", "DEGRADED"}, healthy \in BOOLEAN :
            addon' = [addon EXCEPT ![x] = [version |-> addon[x].to, to |-> addon[x].to,
                                           status |-> status, healthy |-> healthy]]
      BY <1>9 DEF AddonUpdateSucceeds
    <2>3. addon'[x].version = addon[x].to /\ \A a \in Addons : a # x => addon'[a] = addon[a]
      BY <1>0, <2>2
    <2>4. CASE addon[x].to = addon[x].version
      BY <1>1, <2>1, <2>3, <2>4
    <2>5. CASE addon[x].to # addon[x].version
      <3>1. PICK k \in FirstMinor .. cp.version : addon[x].to = Latest(x, k)
        BY <1>0, <2>5 DEF CloudDirection
      <3>2. x \in Converged
        BY <1>0, <2>5 DEF CloudDirection
      <3>3. version' = [version EXCEPT ![x] = Latest(x, k)]
        BY <2>3, <3>1
      <3>4. Contract!ConvergeAddon(x)
        BY <2>1, <3>1, <3>3 DEF Contract!ConvergeAddon
      <3> QED
        BY <3>2, <3>4 DEF Contract!Next
    <2> QED
      BY <2>4, <2>5
  <1> QED
    BY <1>2, <1>3, <1>4, <1>5, <1>6, <1>7, <1>8, <1>9, CloudCases DEF CloudNext

\* Runs implement the contract: however many overlap, fail or are rerun, versions in
\* effect move one supported minor at a time, and what is skipped does not move.
THEOREM ContractCorrect == Spec => ContractKept
  <1>1. Init => Contract!Init
    BY ContractInit
  <1>2. SafetyInvariant /\ [Next]_vars =>
          [Contract!Next]_<<cp.version, [g \in Nodegroups |-> ng[g].version],
                            [a \in Addons |-> addon[a].version]>>
    BY ContractStep
  <1> QED
    BY <1>1, <1>2, SafetyCorrect, PTL DEF Spec, ContractKept, Contract!Spec
================================================================================
