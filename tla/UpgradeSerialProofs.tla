--------------------------- MODULE UpgradeSerialProofs ---------------------------
(***************************************************************************)
(* Theorems about UpgradeRun when one terminal runs the command, or several  *)
(* do that have one hop to go: what a report says is true, and the phases    *)
(* keep their order across interrupted, failed and restarted runs, for every *)
(* cluster, plan and number of faults.                                       *)
(***************************************************************************)
EXTENDS UpgradeSafetyProofs, UpgradeSerial

--------------------------------------------------------------------------------
(***************************************************************************)
(* How an add-on moves: not at all, by the end of its update, by recovering, *)
(* or by a run that starts an update.                                        *)
(***************************************************************************)
Finishes(a) ==
  /\ addon[a].status \in Busy
  /\ \/ addon'[a].version = addon[a].to
     \/ /\ addon'[a].version = addon[a].version
        /\ addon[a].status = "UPDATING" => addon'[a].status = "UPDATE_FAILED"
  /\ addon'[a].to = addon'[a].version /\ addon'[a].status \notin Busy

Recovers(a) ==
  /\ addon[a].status \notin Busy
  /\ addon'[a].version = addon[a].version /\ addon'[a].to = addon[a].to
  /\ addon[a].status \in {"ACTIVE", "DEGRADED"} /\ addon'[a].status = "ACTIVE"

Starts(r, a) ==
  /\ pc[r] = "addon start" /\ a = CurrentAddon(r)
  /\ addon'[a].version = addon[a].version /\ addon'[a].to = Chosen(r)
  /\ addon'[a].status = "UPDATING"

LEMMA AddonCloudSteps ==
  ASSUME TypeOK, CloudNext, NEW a \in Addons
  PROVE  addon'[a] = addon[a] \/ Finishes(a) \/ Recovers(a)
  <1>0. addon \in [Addons -> AddonStates]
    BY DEF TypeOK, CloudTypeOK
  <1>1. CASE ~UNCHANGED addon
    <2>1. PICK x \in Addons : AddonUpdateSucceeds(x) \/ AddonUpdateFails(x) \/ AddonRecovers(x)
      BY <1>1 DEF CloudNext, ControlPlaneUpdateSucceeds, ControlPlaneUpdateFails,
         ControlPlaneSettles, ConfigurationUpdate, RollSucceeds, RollFails, NodegroupDegrades,
         NodegroupRecovers
    <2>2. CASE AddonUpdateSucceeds(x)
      <3>1. PICK status \in {"ACTIVE", "DEGRADED"}, healthy \in BOOLEAN :
              addon' = [addon EXCEPT ![x] = [version |-> addon[x].to, to |-> addon[x].to,
                                             status |-> status, healthy |-> healthy]]
        BY <2>2 DEF AddonUpdateSucceeds
      <3>2. CASE a = x
        <4>1. /\ addon'[a].version = addon[a].to /\ addon'[a].to = addon[a].to
              /\ addon'[a].status = status
          BY <1>0, <3>1, <3>2
        <4>2. addon[a].status \in Busy /\ status \notin Busy
          BY <2>2, <3>2 DEF AddonUpdateSucceeds, Busy
        <4> QED
          BY <4>1, <4>2 DEF Finishes
      <3>3. CASE a # x
        BY <1>0, <3>1, <3>3
      <3> QED
        BY <3>2, <3>3
    <2>3. CASE AddonUpdateFails(x)
      <3> DEFINE failed == IF addon[x].status = "CREATING" THEN "CREATE_FAILED" ELSE "UPDATE_FAILED"
      <3>1. addon' = [addon EXCEPT ![x] = [version |-> addon[x].version, to |-> addon[x].version,
                                           status |-> failed, healthy |-> addon[x].healthy]]
        BY <2>3 DEF AddonUpdateFails
      <3>2. CASE a = x
        <4>1. /\ addon'[a].version = addon[a].version /\ addon'[a].to = addon[a].version
              /\ addon'[a].status = failed
          BY <1>0, <3>1, <3>2
        <4>2. addon[a].status \in Busy /\ failed \notin Busy
          BY <2>3, <3>2 DEF AddonUpdateFails, Busy
        <4>3. addon[a].status = "UPDATING" => failed = "UPDATE_FAILED"
          BY <3>2
        <4> HIDE DEF failed
        <4> QED
          BY <4>1, <4>2, <4>3 DEF Finishes
      <3>3. CASE a # x
        BY <1>0, <3>1, <3>3
      <3> QED
        BY <3>2, <3>3
    <2>4. CASE AddonRecovers(x)
      BY <1>0, <2>4 DEF AddonStates, AddonRecovers, Recovers, Busy
    <2> QED
      BY <2>1, <2>2, <2>3, <2>4
  <1> QED
    BY <1>1

LEMMA AddonSteps ==
  ASSUME TypeOK, [Next]_vars, NEW a \in Addons
  PROVE  \/ addon'[a] = addon[a] \/ Finishes(a) \/ Recovers(a)
         \/ \E r \in Runs : Starts(r, a)
  <1>0. addon \in [Addons -> AddonStates]
    BY DEF TypeOK, CloudTypeOK
  <1>1. ASSUME NEW r \in Runs, StartsAddon(r)
        PROVE  addon'[a] = addon[a] \/ Starts(r, a)
    BY <1>0, <1>1 DEF AddonStates, StartsAddon, UpdateAddon, Starts
  <1> QED
    BY <1>1, AddonCloudSteps, CloudCases DEF Bookkeeping, StartsNodegroup, StartsControlPlane

\* The numbers the add-on properties compare.
LEMMA AddonNumbers ==
  ASSUME TypeOK
  PROVE  /\ \A a \in Addons : addon[a].version \in Nat /\ addon[a].to \in Nat
         /\ \A r \in Runs : hop[r] \in Minors /\ plan[r].target \in Minors
                            /\ \A a \in Addons : plan[r].addon[a] \in Nat
         /\ \A a \in Addons, h \in Minors : Latest(a, h) \in Nat
         /\ Len(AddonOrder) \in Nat /\ \A i \in 1 .. Len(AddonOrder) : AddonOrder[i] \in Addons
         /\ \A a \in Addons : \E i \in 1 .. Len(AddonOrder) : AddonOrder[i] = a
         /\ \A r \in Runs : pos[r] \in Nat /\ pos[r] >= 1
  <1>1. addon \in [Addons -> AddonStates] /\ plan \in [Runs -> Plans] /\ hop \in [Runs -> Minors]
        /\ pos \in [Runs -> Nat \ {0}]
    BY DEF TypeOK, CloudTypeOK, RunTypeOK
  <1>2. \A a \in Addons : addon[a].version \in Nat /\ addon[a].to \in Nat
    BY <1>1 DEF AddonStates
  <1>3. \A r \in Runs : /\ hop[r] \in Minors /\ plan[r].target \in Minors
                       /\ \A a \in Addons : plan[r].addon[a] \in Nat
    BY <1>1 DEF Plans
  <1>4. /\ Len(AddonOrder) \in Nat /\ \A i \in 1 .. Len(AddonOrder) : AddonOrder[i] \in Addons
        /\ \A a \in Addons : \E i \in 1 .. Len(AddonOrder) : AddonOrder[i] = a
    BY OrderAssumption
  <1>5. \A r \in Runs : pos[r] \in Nat /\ pos[r] >= 1
    BY <1>1
  <1> QED
    BY <1>2, <1>3, <1>4, <1>5, OfferedAssumption

\* The add-on a run is at.
LEMMA AddonAtHand ==
  ASSUME TypeOK, NEW r \in Runs, pc[r] \in AddonLabels \ {"addon list", "addon next"}
  PROVE  /\ pos[r] \in 1 .. Len(AddonOrder) /\ CurrentAddon(r) \in Addons
         /\ Chosen(r) \in Nat
  <1>1. pos[r] \in 1 .. Len(AddonOrder)
    BY DEF TypeOK, PositionOK
  <1> QED
    BY <1>1, AddonNumbers DEF CurrentAddon, Chosen

LEMMA AddonsRiseStep ==
  ASSUME TypeOK, AddonsRise, \A r \in Runs : AddonsLoop(r), [Next]_vars
  PROVE  AddonsRise' /\ \A a \in Addons : addon[a].version <= addon'[a].version
  <1> SUFFICES ASSUME NEW a \in Addons
               PROVE  /\ addon'[a].version <= addon'[a].to
                      /\ addon'[a].to # addon'[a].version => addon'[a].status = "UPDATING"
                      /\ addon[a].version <= addon'[a].version
    BY DEF AddonsRise
  <1>1. /\ addon[a].version \in Nat /\ addon[a].to \in Nat /\ addon[a].version <= addon[a].to
        /\ addon[a].to # addon[a].version => addon[a].status = "UPDATING"
    BY AddonNumbers DEF AddonsRise
  <1>2. CASE addon'[a] = addon[a] \/ Finishes(a) \/ Recovers(a)
    BY <1>1, <1>2 DEF Finishes, Recovers, Busy
  <1>3. ASSUME NEW r \in Runs, Starts(r, a)
        PROVE  /\ addon[a].to <= addon'[a].to /\ addon'[a].status = "UPDATING"
               /\ addon[a].version = addon'[a].version
    BY <1>3 DEF Starts, AddonsLoop
  <1>4. \A r \in Runs : Starts(r, a) => addon'[a].to \in Nat
    BY AddonAtHand DEF Starts, AddonLabels
  <1> QED
    BY <1>1, <1>2, <1>3, <1>4, AddonSteps

\* What an add-on has reached, it keeps.
LEMMA ReachedKept ==
  ASSUME TypeOK, AddonsRise, \A r \in Runs : AddonsLoop(r), [Next]_vars, NEW h \in Minors
  PROVE  /\ \A a \in Addons : addon[a].version >= Latest(a, h) => addon'[a].version >= Latest(a, h)
         /\ AddonsAt(h) => AddonsAt(h)'
  <1>1. ASSUME NEW a \in Addons, addon[a].version >= Latest(a, h)
        PROVE  addon'[a].version >= Latest(a, h)
    <2>1. /\ addon[a].version \in Nat /\ addon'[a].version \in Nat /\ Latest(a, h) \in Nat
          /\ addon[a].version <= addon'[a].version
      <3>1. TypeOK'
        BY StepTypesAll
      <3>2. addon'[a].version \in Nat
        BY <3>1 DEF TypeOK, CloudTypeOK, AddonStates
      <3> QED
        BY <3>2, AddonNumbers, AddonsRiseStep
    <2> QED
      BY <1>1, <2>1
  <1>2. Converged \subseteq Addons
    BY DEF Converged
  <1>3. \A a \in Addons : Latest(a, h)' = Latest(a, h)
    BY DEF Latest
  <1> QED
    BY <1>1, <1>2, <1>3 DEF AddonsAt

--------------------------------------------------------------------------------
(***************************************************************************)
(* The kinds of steps a run makes, as far as its report and the order of the *)
(* phases are concerned.                                                     *)
(***************************************************************************)
Reads(r) ==
  /\ pc[r] \in PlanLabels /\ pc'[r] \in PlanLabels /\ plan'[r].target = plan[r].target
  /\ plan'[r].cp = cp.version \/ (pc[r] # "plan cluster" /\ plan'[r].cp = plan[r].cp)
  /\ UNCHANGED <<hop, phase, completed, exit>>
  /\ \A a \in Addons : \/ plan'[r].addon[a] = plan[r].addon[a]
                       \/ plan'[r].addon[a] <= addon[a].version
Begins(r) ==
  /\ pc[r] = "decide" /\ pc'[r] = "phase" /\ phase[r] = "control plane" /\ hop'[r] = FirstHop(plan[r])
  /\ UNCHANGED <<plan, phase, completed, exit>>
Halts(r) ==
  /\ pc[r] # "idle" /\ pc'[r] = "stopped" /\ UNCHANGED <<plan, hop, phase, completed>>
  /\ \E why \in Exits \ {"complete"} :
       /\ exit' = [exit EXCEPT ![r] = why]
       /\ why = "nothing" => Upgraded(plan[r].target)
Works(r) ==
  /\ pc[r] \in PhaseLabels \cup {"phase"} /\ pc'[r] \in PhaseLabels
  /\ UNCHANGED <<plan, hop, phase, completed, exit>>
Leaves(r) ==
  /\ pc[r] \in PhaseLabels \cup {"phase"} /\ NextPhase(r)
  /\ PhaseHolds(hop[r], phase[r])
  /\ \/ completed' = completed
     \/ completed' = [completed EXCEPT ![r] = completed[r] \cup {<<hop[r], phase[r]>>}]

Kinds(r) == Reads(r) \/ Begins(r) \/ Halts(r) \/ Works(r) \/ Leaves(r)

LEMMA HaltKind ==
  ASSUME NEW r \in Runs, NEW why \in Exits \ {"complete", "nothing"}, TypeOK, Stop(r, why),
         pc[r] # "idle"
  PROVE  Halts(r)
  <1>1. pc'[r] = "stopped" /\ UNCHANGED <<plan, hop, phase, completed>>
        /\ exit' = [exit EXCEPT ![r] = why]
    BY DEF Stop, Goto, TypeOK, RunTypeOK
  <1> QED
    BY <1>1 DEF Halts

LEMMA WorkKind ==
  ASSUME TypeOK, NEW r \in Runs, NEW label \in PhaseLabels,
         Step(r, label) \/ NextItem(r, label)
           \/ (FirstItem(r, label) /\ UNCHANGED <<plan, hop, phase, completed, exit>>),
         pc[r] \in PhaseLabels \cup {"phase"}
  PROVE  Works(r)
  BY DEF Step, NextItem, FirstItem, Goto, Works, TypeOK, RunTypeOK

\* When a plan read piecemeal has nothing to do, the cluster is at the target by now.
LEMMA NothingMeansUpgraded ==
  ASSUME TypeOK, NEW r \in Runs, RunInvariant(r), AddonsRead(r), NothingToDo(plan[r])
  PROVE  Upgraded(plan[r].target)
  <1> DEFINE p == plan[r]
             t == plan[r].target
  <1>1. t \in Hops(p)
    <2>1. p.cp <= p.target
      BY DEF TypeOK, PlanAhead
    <2> QED
      BY <2>1, VersionsAreIntegers DEF Hops, FirstHop
  <1>2. \A ph \in Phases : ~Pending(p, t, ph)
    BY <1>1 DEF NothingToDo
  <1>3. cp.version >= t
    <2>1. p.cp >= t
      BY <1>2 DEF Phases, Pending, ControlPlaneStep
    <2>2. p.cp <= cp.version
      BY DEF RunInvariant, Snapshots
    <2> QED
      BY <2>1, <2>2, VersionsAreIntegers
  <1>4. AddonsAt(t)
    <2> SUFFICES ASSUME NEW a \in Converged PROVE addon[a].version >= Latest(a, t)
      BY DEF AddonsAt
    <2>1. a \in Addons /\ a \notin SkipAddons
      BY DEF Converged
    <2>2. AddonStep(p, a, t) # "pending"
      BY <1>2, <2>1 DEF Phases, Pending
    <2>3. Latest(a, t) = 0 \/ p.addon[a] >= Latest(a, t)
      BY <2>1, <2>2 DEF AddonStep
    <2>4. p.addon[a] <= addon[a].version
      BY <2>1 DEF AddonsRead
    <2>5. /\ addon[a].version \in Nat /\ p.addon[a] \in Nat /\ Latest(a, t) \in Nat
      BY <2>1, AddonNumbers
    <2> QED
      BY <2>3, <2>4, <2>5
  <1>5. NodegroupsAt(t)
    <2> SUFFICES ASSUME NEW g \in Rollable PROVE ng[g].version >= t
      BY DEF NodegroupsAt
    <2>1. g \in Nodegroups /\ g \notin SkipNodegroups \cup CustomAMI
      BY DEF Rollable
    <2>2. p.ng[g] >= t
      BY <1>2, <2>1 DEF Phases, Pending, NodegroupStep
    <2>3. p.ng[g] <= ng[g].version
      BY <2>1 DEF RunInvariant, Snapshots
    <2> QED
      BY <2>1, <2>2, <2>3, VersionsAreIntegers
  <1> QED
    BY <1>3, <1>4, <1>5 DEF Upgraded

LEMMA PlanningKinds ==
  ASSUME TypeOK, NEW r \in Runs, RunInvariant(r), AddonsRead(r), PlanNext(r)
  PROVE  Kinds(r)
  <1>0. /\ pc \in [Runs -> Labels] /\ plan \in [Runs -> Plans] /\ hop \in [Runs -> Minors]
    BY DEF TypeOK, RunTypeOK
  <1>1. CASE PlanCluster(r)
    <2>1. CASE Stop(r, "error")
      BY <1>1, <2>1, HaltKind DEF PlanCluster, Kinds, Exits
    <2>2. CASE plan' = [plan EXCEPT ![r].cp = cp.version] /\ Goto(r, "plan nodegroups")
               /\ UNCHANGED <<hop, phase, completed, exit>>
      BY <1>0, <1>1, <2>2 DEF PlanCluster, Plans, Goto, PlanLabels, Reads, Kinds
    <2> QED
      BY <1>1, <2>1, <2>2 DEF PlanCluster
  <1>2. CASE PlanNodegroups(r)
    <2>1. plan'[r].target = plan[r].target /\ plan'[r].cp = plan[r].cp
          /\ plan'[r].addon = plan[r].addon
      BY <1>0, <1>2 DEF PlanNodegroups, Plans
    <2>2. pc[r] = "plan nodegroups" /\ pc'[r] \in {"plan nodegroups", "plan addons"}
      BY <1>0, <1>2 DEF PlanNodegroups, DescribedOne, FirstItem, Goto
    <2>3. UNCHANGED <<hop, phase, completed, exit>>
      BY <1>2 DEF PlanNodegroups
    <2> QED
      BY <2>1, <2>2, <2>3 DEF PlanLabels, Reads, Kinds
  <1>3. CASE PlanAddon(r)
    <2>1. PICK a \in Addons : plan' = [plan EXCEPT ![r].addon[a] = addon[a].version]
      BY <1>3 DEF PlanAddon
    <2>2. plan'[r].target = plan[r].target /\ plan'[r].cp = plan[r].cp
      BY <1>0, <2>1 DEF Plans
    <2>3. plan'[r].addon[a] = addon[a].version
          /\ \A b \in Addons : b # a => plan'[r].addon[b] = plan[r].addon[b]
      BY <1>0, <2>1 DEF Plans
    <2>4. \A b \in Addons : \/ plan'[r].addon[b] = plan[r].addon[b]
                            \/ plan'[r].addon[b] <= addon[b].version
      BY <2>3, AddonNumbers
    <2>5. pc[r] = "plan addons" /\ UNCHANGED <<pc, hop, phase, completed, exit>>
      BY <1>3 DEF PlanAddon
    <2> QED
      BY <2>2, <2>4, <2>5 DEF PlanLabels, Reads, Kinds
  <1>6. CASE PlanAddonsDone(r)
    BY <1>0, <1>6 DEF PlanAddonsDone, Step, Goto, PlanLabels, Reads, Kinds
  <1>4. CASE PlanBlocked(r)
    BY <1>4, HaltKind DEF PlanBlocked, Kinds, Exits
  <1>5. CASE PlanReady(r)
    <2>1. CASE NothingToDo(plan[r]) /\ Stop(r, "nothing")
      <3>1. Upgraded(plan[r].target)
        BY <2>1, NothingMeansUpgraded
      <3>2. pc'[r] = "stopped" /\ UNCHANGED <<plan, hop, phase, completed>>
            /\ exit' = [exit EXCEPT ![r] = "nothing"]
        BY <1>0, <2>1 DEF Stop, Goto
      <3> QED
        BY <1>5, <3>1, <3>2 DEF PlanReady, Halts, Kinds, Exits
    <2>2. CASE /\ hop' = [hop EXCEPT ![r] = FirstHop(plan[r])]
               /\ Goto(r, "phase") /\ UNCHANGED <<plan, phase, completed, exit>>
      <3>1. phase[r] = "control plane"
        BY <1>5 DEF PlanReady, RunInvariant, LabelsMatch, PlanLabels
      <3> QED
        BY <1>0, <1>5, <2>2, <3>1 DEF PlanReady, Goto, Begins, Kinds
    <2> QED
      BY <1>5, <2>1, <2>2 DEF PlanReady
  <1> QED
    BY <1>1, <1>2, <1>3, <1>4, <1>5, <1>6 DEF PlanNext

\* A phase without pending steps: the plan's snapshots vouch for it.
LEMMA SkipHolds ==
  ASSUME TypeOK, NEW r \in Runs, RunInvariant(r), AddonsRead(r), SkipPhase(r)
  PROVE  PhaseHolds(hop[r], phase[r])
  <1> DEFINE h == hop[r]
  <1>0. phase[r] \in Phases /\ ~Pending(plan[r], h, phase[r])
    BY DEF SkipPhase, TypeOK, RunTypeOK
  <1>1. CASE phase[r] = "control plane"
    <2>1. plan[r].cp >= h /\ plan[r].cp <= cp.version
      BY <1>0, <1>1 DEF Pending, ControlPlaneStep, RunInvariant, Snapshots
    <2>2. cp.version >= h
      BY <2>1, VersionsAreIntegers
    <2> QED
      BY <1>1, <2>2 DEF PhaseHolds
  <1>2. CASE phase[r] = "addons"
    <2>1. ASSUME NEW a \in Converged PROVE addon[a].version >= Latest(a, h)
      <3>1. a \in Addons /\ a \notin SkipAddons
        BY DEF Converged
      <3>2. AddonStep(plan[r], a, h) # "pending"
        BY <1>0, <1>2, <3>1 DEF Pending
      <3>3. Latest(a, h) = 0 \/ plan[r].addon[a] >= Latest(a, h)
        BY <3>1, <3>2 DEF AddonStep
      <3>4. plan[r].addon[a] <= addon[a].version
        BY <3>1 DEF AddonsRead
      <3>5. /\ addon[a].version \in Nat /\ plan[r].addon[a] \in Nat /\ Latest(a, h) \in Nat
        BY <3>1, AddonNumbers
      <3> QED
        BY <3>3, <3>4, <3>5
    <2> QED
      BY <1>2, <2>1 DEF PhaseHolds, AddonsAt
  <1>3. CASE phase[r] = "nodegroups"
    <2>1. ASSUME NEW g \in Rollable PROVE ng[g].version >= h
      <3>1. g \in Nodegroups /\ g \notin SkipNodegroups \cup CustomAMI
        BY DEF Rollable
      <3>2. plan[r].ng[g] >= h
        BY <1>0, <1>3, <3>1 DEF Pending, NodegroupStep
      <3>3. plan[r].ng[g] <= ng[g].version
        BY <3>1 DEF RunInvariant, Snapshots
      <3> QED
        BY <3>1, <3>2, <3>3, VersionsAreIntegers
    <2> QED
      BY <1>3, <2>1 DEF PhaseHolds, NodegroupsAt
  <1> QED
    BY <1>0, <1>1, <1>2, <1>3 DEF Phases

LEMMA DoneKind ==
  ASSUME NEW r \in Runs, PhaseDone(r), pc[r] \in PhaseLabels, PhaseHolds(hop[r], phase[r])
  PROVE  Kinds(r)
  BY DEF PhaseDone, Leaves, Kinds

LEMMA ExecuteKinds ==
  ASSUME TypeOK, NEW r \in Runs, RunInvariant(r), AddonsRead(r),
         SkipPhase(r) \/ Confirm(r) \/ Decline(r) \/ PlanFails(r) \/ PhaseFails(r)
  PROVE  Kinds(r)
  <1>1. CASE SkipPhase(r)
    BY <1>1, SkipHolds DEF SkipPhase, Leaves, Kinds
  <1>2. CASE Confirm(r)
    <2>1. /\ \/ FirstItem(r, "cp describe") \/ FirstItem(r, "addon list")
             \/ FirstItem(r, "ng list")
          /\ UNCHANGED <<plan, hop, phase, completed, exit>>
      BY <1>2 DEF Confirm, FirstCall, TypeOK, RunTypeOK, Phases
    <2>2. pc[r] \in PhaseLabels \cup {"phase"}
      BY <1>2 DEF Confirm
    <2>3. "cp describe" \in PhaseLabels /\ "addon list" \in PhaseLabels /\ "ng list" \in PhaseLabels
      BY DEF PhaseLabels, ControlPlaneLabels, AddonLabels, NodegroupLabels
    <2> QED
      BY <2>1, <2>2, <2>3, WorkKind DEF Kinds
  <1>3. CASE Decline(r) \/ PlanFails(r) \/ PhaseFails(r)
    <2>1. \E why \in {"aborted", "error", "failed"} : Stop(r, why)
      BY <1>3 DEF Decline, PlanFails, PhaseFails
    <2>2. pc[r] # "idle"
      BY <1>3 DEF Decline, PlanFails, PhaseFails, PlanLabels, PhaseLabels, ControlPlaneLabels,
                  AddonLabels, NodegroupLabels
    <2> QED
      BY <2>1, <2>2, HaltKind DEF Kinds, Exits
  <1> QED
    BY <1>1, <1>2, <1>3

LEMMA ControlPlaneKinds ==
  ASSUME TypeOK, NEW r \in Runs, RunInvariant(r), ControlPlaneNext(r)
  PROVE  Kinds(r)
  <1>1. pc[r] \in ControlPlaneLabels /\ pc[r] \in PhaseLabels /\ ControlPlaneLabels \subseteq PhaseLabels
    BY DEF ControlPlaneNext, ControlPlaneDescribe, WaitForClusterActive, ControlPlaneRecheck,
           ControlPlaneStart, ControlPlaneWait, ControlPlaneVerify, ControlPlaneLabels, PhaseLabels
  <1>2. phase[r] = "control plane"
    BY <1>1 DEF RunInvariant, LabelsMatch
  <1>3. \/ PhaseDone(r) /\ cp.version >= hop[r]
        \/ \E label \in ControlPlaneLabels : Step(r, label)
        \/ Stop(r, "failed")
    BY DEF ControlPlaneNext, ControlPlaneDescribe, WaitForClusterActive, ControlPlaneRecheck,
           ControlPlaneStart, ControlPlaneWait, ControlPlaneVerify, Answered, ControlPlaneLabels
  <1>4. CASE PhaseDone(r) /\ cp.version >= hop[r]
    BY <1>1, <1>2, <1>4, DoneKind DEF PhaseHolds
  <1>5. ASSUME NEW label \in ControlPlaneLabels, Step(r, label) PROVE Kinds(r)
    BY <1>1, <1>5, WorkKind DEF Kinds
  <1>6. pc[r] # "idle"
    BY <1>1 DEF ControlPlaneLabels
  <1> QED
    BY <1>3, <1>4, <1>5, <1>6, HaltKind DEF Kinds, Exits

LEMMA AddonsKinds ==
  ASSUME TypeOK, NEW r \in Runs, RunInvariant(r), AddonsLoop(r), AddonsNext(r)
  PROVE  Kinds(r)
  <1>1. pc[r] \in AddonLabels /\ pc[r] \in PhaseLabels /\ AddonLabels \subseteq PhaseLabels
    BY DEF AddonsNext, AddonsList, AddonsDone, AddonNext, WaitForAddon, AddonReread, AddonCheck,
           AddonStart, AddonVerify, AddonLabels, PhaseLabels
  <1>2. phase[r] = "addons"
    BY <1>1 DEF RunInvariant, LabelsMatch
  <1>3. CASE AddonsDone(r)
    <2>1. ASSUME NEW a \in Converged PROVE addon[a].version >= Latest(a, hop[r])
      <3>1. PICK i \in 1 .. Len(AddonOrder) : AddonOrder[i] = a
        BY AddonNumbers DEF Converged
      <3>2. i < pos[r]
        <4>1. pos[r] \in Nat /\ pos[r] > Len(AddonOrder)
          BY <1>3, AddonNumbers DEF AddonsDone
        <4> QED
          BY <4>1, AddonNumbers
      <3>3. pc[r] \in AddonLabels \ {"addon list"}
        BY <1>3 DEF AddonsDone, AddonLabels
      <3> QED
        BY <3>1, <3>2, <3>3 DEF AddonsLoop
    <2>2. PhaseHolds(hop[r], phase[r])
      BY <1>2, <2>1 DEF PhaseHolds, AddonsAt
    <2> QED
      BY <1>1, <1>3, <2>2, DoneKind DEF AddonsDone
  <1>4. CASE AddonsList(r)
    <2>1. FirstItem(r, "addon next") /\ UNCHANGED <<plan, hop, phase, completed, exit>>
      BY <1>4 DEF AddonsList
    <2>2. "addon next" \in PhaseLabels
      BY DEF PhaseLabels, AddonLabels
    <2> QED
      BY <1>1, <2>1, <2>2, WorkKind DEF Kinds
  <1>5. ASSUME NEW label \in AddonLabels, Step(r, label) \/ NextItem(r, label) PROVE Kinds(r)
    BY <1>1, <1>5, WorkKind DEF Kinds
  <1>6. CASE AddonNext(r) \/ WaitForAddon(r) \/ AddonReread(r) \/ AddonCheck(r) \/ AddonStart(r)
             \/ AddonVerify(r)
    <2>1. \/ \E label \in AddonLabels : Step(r, label) \/ NextItem(r, label)
          \/ Stop(r, "failed")
      BY <1>6 DEF AddonNext, WaitForAddon, AddonReread, AddonCheck, AddonStart, AddonVerify,
                  Answered, AddonLabels
    <2>2. pc[r] # "idle"
      BY <1>1 DEF AddonLabels
    <2> QED
      BY <1>5, <2>1, <2>2, HaltKind DEF Kinds, Exits
  <1> QED
    BY <1>3, <1>4, <1>6 DEF AddonsNext

LEMMA NodegroupsKinds ==
  ASSUME TypeOK, NEW r \in Runs, RunInvariant(r), NodegroupsNext(r)
  PROVE  Kinds(r)
  <1>1. pc[r] \in NodegroupLabels /\ pc[r] \in PhaseLabels /\ NodegroupLabels \subseteq PhaseLabels
    BY DEF NodegroupsNext, NodegroupsList, NodegroupsDone, NodegroupNext, NodegroupGate,
           NodegroupStart, NodegroupWait, NodegroupLabels, PhaseLabels
  <1>2. phase[r] = "nodegroups"
    BY <1>1 DEF RunInvariant, LabelsMatch
  <1>3. CASE NodegroupsDone(r)
    <2>1. ASSUME NEW g \in Rollable PROVE ng[g].version >= hop[r]
      <3>1. PICK i \in 1 .. Len(NodegroupOrder) : NodegroupOrder[i] = g
        BY OrderAssumption DEF Rollable
      <3>2. i < pos[r]
        <4>1. pos[r] \in Nat /\ pos[r] > Len(NodegroupOrder)
          BY <1>3, AddonNumbers DEF NodegroupsDone
        <4> QED
          BY <4>1, ListLength
      <3>3. hop[r] <= ng[g].version
        BY <1>3, <3>1, <3>2 DEF RunInvariant, Looping, NodegroupsDone, NodegroupLabels
      <3>4. g \in Nodegroups
        BY DEF Rollable
      <3> QED
        BY <3>3, <3>4, VersionsAreIntegers
    <2>2. PhaseHolds(hop[r], phase[r])
      BY <1>2, <2>1 DEF PhaseHolds, NodegroupsAt
    <2> QED
      BY <1>1, <1>3, <2>2, DoneKind DEF NodegroupsDone
  <1>4. CASE NodegroupsList(r)
    <2>1. UNCHANGED <<plan, hop, phase, completed, exit>>
      BY <1>4 DEF NodegroupsList
    <2>2. "ng next" \in PhaseLabels
      BY DEF PhaseLabels, NodegroupLabels
    <2>3. CASE FirstItem(r, "ng next")
      BY <1>1, <2>1, <2>2, <2>3, WorkKind DEF Kinds
    <2>4. CASE UNCHANGED pc
      BY <1>1, <2>1, <2>4 DEF Works, Kinds
    <2> QED
      BY <1>4, <2>3, <2>4 DEF NodegroupsList, DescribedOne
  <1>5. ASSUME NEW label \in NodegroupLabels, Step(r, label) \/ NextItem(r, label) PROVE Kinds(r)
    BY <1>1, <1>5, WorkKind DEF Kinds
  <1>6. CASE NodegroupNext(r) \/ NodegroupGate(r) \/ NodegroupStart(r) \/ NodegroupWait(r)
    <2>1. \/ \E label \in NodegroupLabels : Step(r, label) \/ NextItem(r, label)
          \/ \E why \in {"failed", "gate refused"} : Stop(r, why)
      BY <1>6 DEF NodegroupNext, NodegroupGate, NodegroupStart, NodegroupWait, Answered,
                  NodegroupLabels
    <2>2. pc[r] # "idle"
      BY <1>1 DEF NodegroupLabels
    <2> QED
      BY <1>5, <2>1, <2>2, HaltKind DEF Kinds, Exits
  <1> QED
    BY <1>3, <1>4, <1>6 DEF NodegroupsNext

\* Whatever a run does, once launched, is of one of the kinds.
LEMMA RunKinds ==
  ASSUME TypeOK, NEW r \in Runs, RunInvariant(r), AddonsRead(r), AddonsLoop(r), RunActs(r)
  PROVE  Launch(r) \/ Kinds(r)
  BY PlanningKinds, ExecuteKinds, ControlPlaneKinds, AddonsKinds, NodegroupsKinds
  DEF RunActs, RunNext
--------------------------------------------------------------------------------
(***************************************************************************)
(* The conjuncts of SerialInvariant, one at a time. A step is the run's own  *)
(* or leaves it where it is.                                                 *)
(***************************************************************************)
LEMMA SerialParts ==
  ASSUME SerialInvariant
  PROVE  /\ TypeOK /\ CloudDirection /\ AddonsRise
         /\ \A r \in Runs : /\ RunInvariant(r)
                            /\ AddonsRead(r) /\ AddonsWalk(r) /\ AddonsLoop(r)
  BY DEF SerialInvariant, SafetyInvariant

Rests(r) == Still(r) /\ completed'[r] = completed[r] /\ exit'[r] = exit[r]

LEMMA OthersReport ==
  ASSUME TypeOK, NEW r \in Runs, NEW s \in Runs, s # r, Launch(r) \/ Kinds(r)
  PROVE  completed'[s] = completed[s] /\ exit'[s] = exit[s]
  <1>1. /\ completed \in [Runs -> SUBSET (Minors \X Phases)] /\ exit \in [Runs -> Exits]
    BY DEF TypeOK, RunTypeOK
  <1>2. CASE Launch(r)
    BY <1>1, <1>2 DEF Launch
  <1>3. CASE Leaves(r)
    BY <1>1, <1>3 DEF Leaves, NextPhase, Enter
  <1>4. CASE Reads(r) \/ Begins(r) \/ Halts(r) \/ Works(r)
    BY <1>1, <1>4 DEF Reads, Begins, Halts, Works
  <1> QED
    BY <1>2, <1>3, <1>4 DEF Kinds

LEMMA SerialSteps ==
  ASSUME SerialInvariant, [Next]_vars, NEW r \in Runs
  PROVE  \/ RunActs(r)
         \/ Rests(r)
  <1>1. CASE UNCHANGED vars
    BY <1>1 DEF vars, runVars, Rests, Still
  <1>2. CASE CloudNext /\ UNCHANGED runVars
    BY <1>2 DEF runVars, Rests, Still
  <1>3. ASSUME NEW s \in Runs, RunActs(s) PROVE RunActs(r) \/ Rests(r)
    <2>1. CASE s = r
      BY <1>3, <2>1
    <2>2. CASE s # r
      <3>1. Still(r)
        BY <1>3, <2>2, SerialParts, OthersStill
      <3>2. completed'[r] = completed[r] /\ exit'[r] = exit[r]
        BY <1>3, <2>2, SerialParts, RunKinds, OthersReport
      <3> QED
        BY <3>1, <3>2 DEF Rests
    <2> QED
      BY <2>1, <2>2
  <1> QED
    BY <1>1, <1>2, <1>3 DEF Next, RunActs

LEMMA SerialKinds ==
  ASSUME SerialInvariant, [Next]_vars, NEW r \in Runs
  PROVE  Launch(r) \/ Kinds(r) \/ Rests(r)
  BY SerialParts, SerialSteps, RunKinds

\* What a phase was for stays true.
LEMMA PhaseKept ==
  ASSUME SerialInvariant, [Next]_vars, NEW h \in Minors
  PROVE  /\ cp.version >= h => cp'.version >= h
         /\ AddonsAt(h) => \A a \in Converged : addon'[a].version >= Latest(a, h)
         /\ NodegroupsAt(h) => \A g \in Rollable : ng'[g].version >= h
  <1>0. TypeOK /\ CloudDirection
    BY SerialParts
  <1>1. h \in Int
    BY MinorsAssumption DEF Minors
  <1>2. cp.version >= h => cp'.version >= h
    BY <1>0, <1>1, VersionsRise, VersionsAreIntegers, PrimedIntegers
  <1>3. NodegroupsAt(h) => \A g \in Rollable : ng'[g].version >= h
    <2> SUFFICES ASSUME NEW g \in Rollable, ng[g].version >= h PROVE ng'[g].version >= h
      BY DEF NodegroupsAt
    <2>1. g \in Nodegroups
      BY DEF Rollable
    <2> QED
      BY <1>0, <1>1, <2>1, VersionsRise, VersionsAreIntegers, PrimedIntegers
  <1>4. AddonsAt(h) => \A a \in Converged : addon'[a].version >= Latest(a, h)
    <2>1. \A a \in Addons : addon[a].version >= Latest(a, h) => addon'[a].version >= Latest(a, h)
      BY SerialParts, ReachedKept
    <2> QED
      BY <2>1 DEF AddonsAt, Converged
  <1> QED
    BY <1>2, <1>3, <1>4

LEMMA AddonsReadKept ==
  ASSUME SerialInvariant, [Next]_vars, NEW r \in Runs
  PROVE  AddonsRead(r)'
  <1> SUFFICES ASSUME NEW a \in Addons PROVE plan'[r].addon[a] <= addon'[a].version
    BY DEF AddonsRead
  <1>0. TypeOK /\ TypeOK'
    BY SerialParts, StepTypesAll
  <1>1. /\ addon[a].version \in Nat /\ addon'[a].version \in Nat /\ plan[r].addon[a] \in Nat
        /\ addon[a].version <= addon'[a].version /\ plan[r].addon[a] <= addon[a].version
    <2>1. addon'[a].version \in Nat
      BY <1>0 DEF TypeOK, CloudTypeOK, AddonStates
    <2> QED
      BY <1>0, <2>1, SerialParts, AddonNumbers, AddonsRiseStep DEF AddonsRead
  <1>2. CASE plan'[r] = plan[r] \/ plan'[r].addon[a] = plan[r].addon[a]
    BY <1>1, <1>2
  <1>3. CASE Launch(r)
    <2>1. PICK t \in Targets : plan' = [plan EXCEPT ![r] = [NoPlan EXCEPT !.target = t]]
      BY <1>3 DEF Launch
    <2>2. plan'[r] = [NoPlan EXCEPT !.target = t]
      BY <1>0, <2>1 DEF TypeOK, RunTypeOK
    <2>3. plan'[r].addon[a] = 0
      BY <2>2 DEF NoPlan, Unread
    <2> QED
      BY <1>1, <2>3
  <1>4. CASE Reads(r)
    <2>1. plan'[r].addon[a] = plan[r].addon[a] \/ plan'[r].addon[a] <= addon[a].version
      BY <1>4 DEF Reads
    <2>2. plan'[r].addon[a] \in Nat
      BY <1>0 DEF TypeOK, RunTypeOK, Plans
    <2> QED
      BY <1>1, <2>1, <2>2
  <1>5. CASE Begins(r) \/ Halts(r) \/ Works(r) \/ Leaves(r) \/ Rests(r)
    BY <1>2, <1>5 DEF Begins, Halts, Works, Leaves, NextPhase, Rests, Still
  <1> QED
    BY <1>3, <1>4, <1>5, SerialKinds DEF Kinds

\* The hop before one that is not the first is a minor too.
LEMMA HopBeforeIsMinor ==
  ASSUME TypeOK, NEW r \in Runs, hop[r] > FirstHop(plan[r])
  PROVE  hop[r] - 1 \in Minors
  <1>1. plan[r].cp \in Minors /\ plan[r].target \in Minors /\ hop[r] \in Minors
    BY DEF TypeOK, RunTypeOK, Plans
  <1> QED
    BY <1>1, MinorsAssumption DEF Minors, FirstHop

LEMMA AddonsWalkKept ==
  ASSUME SerialInvariant, [Next]_vars, NEW r \in Runs
  PROVE  AddonsWalk(r)'
  <1>0. TypeOK /\ AddonsWalk(r) /\ hop[r] \in Minors /\ phase[r] \in Phases
    BY SerialParts DEF TypeOK, RunTypeOK
  <1>1. CASE pc'[r] \notin PhaseLabels \cup {"phase"}
    BY <1>1 DEF AddonsWalk
  <1>2. CASE Launch(r) \/ Reads(r) \/ Halts(r)
    <2>1. pc'[r] \in PlanLabels \cup {"stopped"}
      BY <1>0, <1>2 DEF Launch, Reads, Halts, Goto, PlanLabels, TypeOK, RunTypeOK
    <2> QED
      BY <1>1, <2>1 DEF PlanLabels, PhaseLabels, ControlPlaneLabels, AddonLabels, NodegroupLabels
  <1>3. CASE Begins(r)
    <2>1. phase'[r] = "control plane" /\ hop'[r] = FirstHop(plan'[r])
      BY <1>3 DEF Begins
    <2>2. ~(hop'[r] > FirstHop(plan'[r]))
      <3>1. FirstHop(plan[r]) \in Int /\ FirstHop(plan'[r]) = FirstHop(plan[r])
        BY <1>0, <1>3, FirstHopIsInteger DEF Begins
      <3>2. ~(FirstHop(plan[r]) > FirstHop(plan[r]))
        BY <3>1
      <3> QED
        BY <2>1, <3>1, <3>2, Zenon
    <2> QED
      BY <2>1, <2>2 DEF AddonsWalk
  <1>4. CASE /\ pc[r] \in PhaseLabels \cup {"phase"}
             /\ plan'[r] = plan[r] /\ hop'[r] = hop[r] /\ phase'[r] = phase[r]
    <2>1. phase[r] = "nodegroups" => \A a \in Converged : addon'[a].version >= Latest(a, hop[r])
      BY <1>0, <1>4, PhaseKept DEF AddonsWalk
    <2>2. phase[r] = "control plane" /\ hop[r] > FirstHop(plan[r]) =>
            \A a \in Converged : addon'[a].version >= Latest(a, hop[r] - 1)
      BY <1>0, <1>4, PhaseKept, HopBeforeIsMinor DEF AddonsWalk
    <2>3. FirstHop(plan'[r]) = FirstHop(plan[r])
      BY <1>4
    <2> QED
      BY <1>4, <2>1, <2>2, <2>3 DEF AddonsWalk, AddonsAt, Latest
  <1>5. CASE Leaves(r)
    <2>1. CASE phase[r] = "control plane" /\ Enter(r, hop[r], "addons")
      BY <1>0, <2>1 DEF Enter, AddonsWalk, TypeOK, RunTypeOK
    <2>2. CASE phase[r] = "addons" /\ Enter(r, hop[r], "nodegroups")
      <3>1. AddonsAt(hop[r])
        BY <1>5, <2>2 DEF Leaves, PhaseHolds
      <3>2. \A a \in Converged : addon'[a].version >= Latest(a, hop[r])
        BY <1>0, <3>1, PhaseKept
      <3>3. phase'[r] = "nodegroups" /\ hop'[r] = hop[r]
        BY <1>0, <2>2 DEF Enter, TypeOK, RunTypeOK
      <3> QED
        BY <3>2, <3>3 DEF AddonsWalk, AddonsAt, Latest
    <2>3. CASE phase[r] = "nodegroups" /\ Enter(r, hop[r] + 1, "control plane")
      <3>1. AddonsAt(hop[r])
        BY <1>0, <1>5, <2>3 DEF Leaves, AddonsWalk
      <3>2. \A a \in Converged : addon'[a].version >= Latest(a, hop[r])
        BY <1>0, <3>1, PhaseKept
      <3>3. phase'[r] = "control plane" /\ hop'[r] = hop[r] + 1
        BY <1>0, <2>3 DEF Enter, TypeOK, RunTypeOK
      <3>4. (hop[r] + 1) - 1 = hop[r]
        BY <1>0, VersionsAreIntegers, HopBefore
      <3> QED
        BY <3>2, <3>3, <3>4 DEF AddonsWalk, AddonsAt, Latest
    <2>4. CASE Goto(r, "stopped")
      <3>1. pc'[r] = "stopped"
        BY <1>0, <2>4 DEF Goto, TypeOK, RunTypeOK
      <3> QED
        BY <1>1, <3>1 DEF PhaseLabels, ControlPlaneLabels, AddonLabels, NodegroupLabels
    <2> QED
      BY <1>5, <2>1, <2>2, <2>3, <2>4 DEF Leaves, NextPhase
  <1>6. CASE Works(r)
    BY <1>4, <1>6 DEF Works
  <1>7. CASE Rests(r)
    BY <1>1, <1>4, <1>7 DEF Rests, Still
  <1> QED
    BY <1>2, <1>3, <1>5, <1>6, <1>7, SerialKinds DEF Kinds

\* What the loop has passed stays at its version.
PassedBefore(r, n) ==
  \A i \in 1 .. Len(AddonOrder) :
    i < n /\ AddonOrder[i] \in Converged => addon[AddonOrder[i]].version >= Latest(AddonOrder[i], hop[r])

PassedAfter(r, n) ==
  \A i \in 1 .. Len(AddonOrder) :
    i < n /\ AddonOrder[i] \in Converged => addon'[AddonOrder[i]].version >= Latest(AddonOrder[i], hop[r])

LEMMA PassedKept ==
  ASSUME SerialInvariant, [Next]_vars, NEW r \in Runs, NEW n \in Nat, PassedBefore(r, n)
  PROVE  PassedAfter(r, n)
  <1> SUFFICES ASSUME NEW i \in 1 .. Len(AddonOrder), i < n, AddonOrder[i] \in Converged
               PROVE  addon'[AddonOrder[i]].version >= Latest(AddonOrder[i], hop[r])
    BY DEF PassedAfter
  <1>1. AddonOrder[i] \in Addons /\ hop[r] \in Minors
    BY SerialParts DEF Converged, TypeOK, RunTypeOK
  <1>2. addon[AddonOrder[i]].version >= Latest(AddonOrder[i], hop[r])
    BY DEF PassedBefore
  <1> QED
    BY <1>1, <1>2, SerialParts, ReachedKept

LEMMA LessIsAtMost == \A v, w \in Nat : v < w => v <= w
  OBVIOUS

\* A run that stays at its call: what it knows of its add-on survives what EKS does, and
\* what a run at the same hop starts.
LEMMA LoopStill ==
  ASSUME SerialInvariant, Agreed, [Next]_vars, NEW r \in Runs, Still(r)
  PROVE  AddonsLoop(r)'
  <1>0. /\ TypeOK /\ AddonsRise /\ AddonsLoop(r) /\ pos[r] \in Nat
        /\ pc'[r] = pc[r] /\ pos'[r] = pos[r] /\ hop'[r] = hop[r]
    BY SerialParts DEF TypeOK, RunTypeOK, Still
  <1>1. pc[r] \in AddonLabels \ {"addon list"} => PassedAfter(r, pos[r])
    BY <1>0, PassedKept DEF AddonsLoop, PassedBefore
  <1> DEFINE a == CurrentAddon(r)
             Joined == addon'[a].to = Chosen(r) /\ addon'[a].status = "UPDATING"
  <1>2. ASSUME pc[r] \in AddonLabels \ {"addon list", "addon next"}
        PROVE  /\ addon'[a] = addon[a] \/ Finishes(a) \/ Recovers(a) \/ Joined
               /\ addon[a].version >= Chosen(r) => addon'[a].version >= Chosen(r)
               /\ Chosen(r) \in Nat
               /\ addon[a].version \in Nat /\ addon[a].to \in Nat /\ addon[a].version <= addon[a].to
    <2>1. a \in Addons /\ hop[r] \in Minors /\ Chosen(r) \in Nat
      BY <1>0, <1>2, AddonAtHand DEF TypeOK, RunTypeOK
    <2>2. ASSUME NEW s \in Runs, Starts(s, a) PROVE Joined
      <3>1. hop[s] = hop[r]
        BY <1>2, <2>2 DEF Agreed, Starts, AddonLabels
      <3>2. Chosen(s) = Chosen(r)
        BY <2>2, <3>1 DEF Starts, Chosen
      <3> QED
        BY <2>2, <3>2 DEF Starts
    <2>3. addon'[a] = addon[a] \/ Finishes(a) \/ Recovers(a) \/ Joined
      BY <1>0, <2>1, <2>2, AddonSteps
    <2>4. addon[a].version >= Chosen(r) => addon'[a].version >= Chosen(r)
      BY <2>1, SerialParts, ReachedKept DEF Chosen
    <2>5. /\ addon[a].version \in Nat /\ addon[a].to \in Nat
          /\ addon[a].version <= addon[a].to
      BY <1>0, <2>1, AddonNumbers DEF AddonsRise
    <2> QED
      BY <2>1, <2>3, <2>4, <2>5
  <1>3. ASSUME pc[r] = "addon reread"
        PROVE  addon'[a].to = addon'[a].version \/ addon'[a].to <= Chosen(r)
    <2>1. addon[a].to = addon[a].version \/ addon[a].to <= Chosen(r)
      BY <1>0, <1>3 DEF AddonsLoop
    <2>2. /\ Chosen(r) \in Nat /\ addon[a].version \in Nat /\ addon[a].to \in Nat
          /\ addon[a].version <= addon[a].to
          /\ addon'[a] = addon[a] \/ Finishes(a) \/ Recovers(a) \/ Joined
      BY <1>2, <1>3 DEF AddonLabels
    <2>3. \/ addon'[a].to = addon[a].to /\ addon'[a].version = addon[a].version
          \/ addon'[a].to = addon'[a].version /\ addon'[a].version \in {addon[a].to, addon[a].version}
          \/ addon'[a].to = Chosen(r)
      BY <2>2, Zenon DEF Finishes, Recovers
    <2>4. CASE addon'[a].to = addon[a].to /\ addon'[a].version = addon[a].version
      BY <2>1, <2>4
    <2>5. CASE addon'[a].to = Chosen(r)
      BY <2>2, <2>5
    <2> QED
      BY <2>3, <2>4, <2>5
  <1>4. ASSUME pc[r] \in {"addon check", "addon start"}
        PROVE  addon'[a].to <= Chosen(r)
    <2>1. addon[a].to <= Chosen(r)
      BY <1>0, <1>4 DEF AddonsLoop
    <2>2. /\ Chosen(r) \in Nat /\ addon[a].version \in Nat /\ addon[a].to \in Nat
          /\ addon[a].version <= addon[a].to
          /\ addon'[a] = addon[a] \/ Finishes(a) \/ Recovers(a) \/ Joined
      BY <1>2, <1>4 DEF AddonLabels
    <2>3. \/ addon'[a].to = addon[a].to /\ addon'[a].version = addon[a].version
          \/ addon'[a].to = addon'[a].version /\ addon'[a].version \in {addon[a].to, addon[a].version}
          \/ addon'[a].to = Chosen(r)
      BY <2>2, Zenon DEF Finishes, Recovers
    <2>4. \A c, v, w \in Nat : c <= c /\ (v <= w /\ w <= c => v <= c)
      OBVIOUS
    <2> QED
      BY <2>1, <2>2, <2>3, <2>4, Zenon
  <1>5. ASSUME pc[r] = "addon wait"
        PROVE  \/ addon'[a].status = "UPDATING" /\ addon'[a].to = Chosen(r)
               \/ addon'[a].status = "UPDATE_FAILED"
               \/ addon'[a].version >= Chosen(r)
    <2>1. CASE addon[a].version >= Chosen(r)
      BY <1>2, <1>5, <2>1 DEF AddonLabels
    <2>2. CASE addon[a].status = "UPDATE_FAILED"
      BY <1>2, <1>5, <2>2 DEF AddonLabels, Finishes, Recovers, Busy
    <2>3. CASE addon[a].status = "UPDATING" /\ addon[a].to = Chosen(r)
      <3>1. Chosen(r) >= Chosen(r)
        <4>1. Chosen(r) \in Nat
          BY <1>2, <1>5 DEF AddonLabels
        <4>2. \A c \in Nat : c >= c
          OBVIOUS
        <4> QED
          BY <4>1, <4>2, Zenon
      <3> QED
        BY <1>2, <1>5, <2>3, <3>1 DEF AddonLabels, Finishes, Recovers, Busy
    <2> QED
      BY <1>0, <1>5, <2>1, <2>2, <2>3 DEF AddonsLoop
  <1>6. pc[r] = "addon verify" => addon'[a].version >= Chosen(r)
    BY <1>0, <1>2 DEF AddonsLoop, AddonLabels
  <1>7. CurrentAddon(r)' = a /\ Chosen(r)' = Chosen(r)
    BY <1>0 DEF CurrentAddon, Chosen
  <1> HIDE DEF a
  <1> QED
    BY <1>0, <1>1, <1>3, <1>4, <1>5, <1>6, <1>7 DEF AddonsLoop, PassedAfter

\* Going on to the next add-on: the one left behind is at its version or not the run's.
LEMMA LoopNextItem ==
  ASSUME SerialInvariant, [Next]_vars, NEW r \in Runs, NextItem(r, "addon next"),
         pc[r] \in AddonLabels \ {"addon list"},
         CurrentAddon(r) \in Converged => addon[CurrentAddon(r)].version >= Chosen(r)
  PROVE  AddonsLoop(r)'
  <1>0. /\ TypeOK /\ AddonsLoop(r) /\ pos[r] \in Nat
        /\ pc'[r] = "addon next" /\ pos'[r] = pos[r] + 1 /\ hop'[r] = hop[r]
    BY SerialParts DEF TypeOK, RunTypeOK, NextItem, Goto
  <1>1. PassedBefore(r, pos[r] + 1)
    <2> SUFFICES ASSUME NEW i \in 1 .. Len(AddonOrder), i < pos[r] + 1, AddonOrder[i] \in Converged
                 PROVE  addon[AddonOrder[i]].version >= Latest(AddonOrder[i], hop[r])
      BY DEF PassedBefore
    <2>1. i < pos[r] \/ i = pos[r]
      BY <1>0, AddonNumbers, EarlierOrCurrent
    <2> QED
      BY <1>0, <2>1 DEF AddonsLoop, CurrentAddon, Chosen
  <1>2. PassedAfter(r, pos[r] + 1)
    <2>1. pos[r] + 1 \in Nat
      <3>1. pos[r] \in Nat
        BY <1>0
      <3> QED
        BY <3>1, NextPosition, Zenon
    <2> QED
      BY <1>1, <2>1, PassedKept
  <1> QED
    BY <1>0, <1>2 DEF AddonsLoop, PassedAfter

\* Going on to another call for the same add-on.
LEMMA LoopStep ==
  ASSUME SerialInvariant, [Next]_vars, NEW r \in Runs,
         NEW label \in AddonLabels \ {"addon list"}, Step(r, label),
         pc[r] \in AddonLabels \ {"addon list"},
         label = "addon reread" =>
           addon'[CurrentAddon(r)].to = addon'[CurrentAddon(r)].version,
         label \in {"addon check", "addon start"} => addon'[CurrentAddon(r)].to <= Chosen(r),
         label = "addon wait" => /\ addon'[CurrentAddon(r)].status = "UPDATING"
                                 /\ addon'[CurrentAddon(r)].to = Chosen(r),
         label = "addon verify" => addon'[CurrentAddon(r)].version >= Chosen(r)
  PROVE  AddonsLoop(r)'
  <1>0. /\ TypeOK /\ AddonsLoop(r) /\ pos[r] \in Nat
        /\ pc'[r] = label /\ pos'[r] = pos[r] /\ hop'[r] = hop[r]
    BY SerialParts DEF TypeOK, RunTypeOK, Step, Goto
  <1>1. PassedAfter(r, pos[r])
    BY <1>0, PassedKept DEF AddonsLoop, PassedBefore
  <1>2. CurrentAddon(r)' = CurrentAddon(r) /\ Chosen(r)' = Chosen(r)
    BY <1>0 DEF CurrentAddon, Chosen
  <1> QED
    BY <1>0, <1>1, <1>2 DEF AddonsLoop, PassedAfter

\* The run's own steps: outside the loop's calls there is nothing to know.
LEMMA LoopLeft ==
  ASSUME NEW r \in Runs, pc'[r] \notin AddonLabels \ {"addon list"}
  PROVE  AddonsLoop(r)'
  BY DEF AddonsLoop, AddonLabels

LEMMA LoopOwn ==
  ASSUME SerialInvariant, [Next]_vars, NEW r \in Runs, AddonsNext(r)
  PROVE  AddonsLoop(r)'
  <1>0. /\ TypeOK /\ AddonsLoop(r) /\ pc \in [Runs -> Labels] /\ pos \in [Runs -> Nat \ {0}]
        /\ addon \in [Addons -> AddonStates]
    BY SerialParts DEF TypeOK, RunTypeOK, CloudTypeOK
  <1> DEFINE a == CurrentAddon(r)
  <1>1. ASSUME NEW why, Stop(r, why) PROVE AddonsLoop(r)'
    <2>1. pc'[r] = "stopped"
      BY <1>0, <1>1 DEF Stop, Goto
    <2> QED
      BY <2>1, LoopLeft DEF AddonLabels
  <1>2. CASE PhaseDone(r)
    <2>1. pc'[r] \in {"phase", "stopped"}
      BY <1>0, <1>2 DEF PhaseDone, NextPhase, Enter, Goto
    <2> QED
      BY <2>1, LoopLeft DEF AddonLabels
  <1>3. CASE AddonsList(r)
    <2>1. pc'[r] = "addon next" /\ pos'[r] = 1
      BY <1>0, <1>3 DEF AddonsList, FirstItem, Goto
    <2>2. \A i \in 1 .. Len(AddonOrder) : ~(i < 1)
      BY AddonNumbers
    <2> QED
      BY <2>1, <2>2 DEF AddonsLoop
  <1>4. CASE AddonNext(r)
    <2>1. addon' = addon /\ pc[r] = "addon next"
      BY <1>4 DEF AddonNext, CloudUntouched, cloudVars
    <2>2. CASE NextItem(r, "addon next") /\ (a \in SkipAddons \/ addon[a].version >= Chosen(r))
      BY <2>1, <2>2, LoopNextItem DEF AddonLabels, Converged
    <2>3. CASE Step(r, "addon attach")
      BY <2>1, <2>3, LoopStep DEF AddonLabels
    <2>4. CASE /\ addon[a].status \notin Busy /\ addon[a].version < Chosen(r)
               /\ Step(r, "addon check")
      <3>1. pos[r] \in 1 .. Len(AddonOrder)
        <4>1. pos[r] \in Nat /\ pos[r] >= 1 /\ pos[r] <= Len(AddonOrder) /\ Len(AddonOrder) \in Nat
          BY <1>0, <1>4, AddonNumbers DEF AddonNext
        <4> QED
          BY <4>1
      <3>2. a \in Addons /\ Chosen(r) \in Nat
        BY <1>0, <3>1, AddonNumbers DEF CurrentAddon, Chosen
      <3>3. addon[a].to = addon[a].version /\ addon[a].version \in Nat
        BY <1>0, <2>4, <3>2, SerialParts, AddonNumbers DEF AddonsRise, Busy
      <3>4. addon[a].to <= Chosen(r)
        BY <2>4, <3>2, <3>3, LessIsAtMost, Zenon
      <3> QED
        BY <2>1, <2>4, <3>4, LoopStep DEF AddonLabels
    <2> QED
      BY <1>1, <1>4, <2>2, <2>3, <2>4 DEF AddonNext
  <1>5. CASE WaitForAddon(r)
    <2>1. addon' = addon /\ pc[r] \in {"addon attach", "addon wait"} /\ addon[a].status \notin Busy
      BY <1>5 DEF WaitForAddon, CloudUntouched, cloudVars
    <2>2. CASE pc[r] = "addon attach" /\ Step(r, "addon reread")
      <3>1. a \in Addons
        BY <1>0, <2>2, AddonAtHand DEF AddonLabels
      <3>2. addon[a].to = addon[a].version
        BY <2>1, <3>1, SerialParts DEF AddonsRise, Busy
      <3> QED
        BY <2>1, <2>2, <3>2, LoopStep DEF AddonLabels
    <2>3. CASE pc[r] = "addon wait" /\ addon[a].status = "ACTIVE" /\ Step(r, "addon verify")
      <3>1. addon[a].version >= Chosen(r)
        BY <1>0, <2>3 DEF AddonsLoop
      <3> QED
        BY <2>1, <2>3, <3>1, LoopStep DEF AddonLabels
    <2> QED
      BY <1>1, <1>5, <2>2, <2>3 DEF WaitForAddon
  <1>6. CASE AddonReread(r)
    <2>1. addon' = addon /\ pc[r] = "addon reread"
      BY <1>6 DEF AddonReread, CloudUntouched, cloudVars
    <2>2. addon[a].to = addon[a].version \/ addon[a].to <= Chosen(r)
      BY <1>0, <2>1 DEF AddonsLoop
    <2>3. CASE addon[a].version >= Chosen(r) /\ NextItem(r, "addon next")
      BY <2>1, <2>3, LoopNextItem DEF AddonLabels
    <2>4. CASE addon[a].version < Chosen(r) /\ Step(r, "addon check")
      <3>1. a \in Addons /\ Chosen(r) \in Nat
        BY <1>0, <2>1, AddonAtHand DEF AddonLabels
      <3>2. addon[a].version \in Nat
        BY <1>0, <3>1, AddonNumbers
      <3>3. addon[a].to <= Chosen(r)
        BY <2>2, <2>4, <3>1, <3>2, LessIsAtMost, Zenon
      <3> QED
        BY <2>1, <2>4, <3>3, LoopStep DEF AddonLabels
    <2> QED
      BY <1>6, <2>3, <2>4 DEF AddonReread
  <1>7. CASE AddonCheck(r)
    <2>1. addon' = addon /\ pc[r] = "addon check"
      BY <1>7 DEF AddonCheck, CloudUntouched, cloudVars
    <2>2. addon[a].to <= Chosen(r)
      BY <1>0, <2>1 DEF AddonsLoop
    <2>3. CASE Step(r, "addon start")
      BY <2>1, <2>2, <2>3, LoopStep DEF AddonLabels
    <2> QED
      BY <1>1, <1>7, <2>3 DEF AddonCheck
  <1>8. CASE AddonStart(r)
    <2>1. pc[r] = "addon start" /\ a \in Addons
      BY <1>0, <1>8, AddonAtHand DEF AddonStart, AddonLabels
    <2>2. CASE UpdateAddon(a, Chosen(r)) /\ Step(r, "addon wait")
      <3>1. addon'[a].status = "UPDATING" /\ addon'[a].to = Chosen(r)
        BY <1>0, <2>1, <2>2 DEF UpdateAddon, AddonStates
      <3> QED
        BY <2>1, <2>2, <3>1, LoopStep DEF AddonLabels
    <2> QED
      BY <1>1, <1>8, <2>2 DEF AddonStart, Answered
  <1>9. CASE AddonVerify(r)
    <2>1. addon' = addon /\ pc[r] = "addon verify"
      BY <1>9 DEF AddonVerify, CloudUntouched, cloudVars
    <2>2. addon[a].version >= Chosen(r)
      BY <1>0, <2>1 DEF AddonsLoop
    <2>3. CASE NextItem(r, "addon next")
      BY <2>1, <2>2, <2>3, LoopNextItem DEF AddonLabels
    <2> QED
      BY <1>1, <1>9, <2>3 DEF AddonVerify
  <1> HIDE DEF a
  <1> QED
    BY <1>2, <1>3, <1>4, <1>5, <1>6, <1>7, <1>8, <1>9 DEF AddonsNext, AddonsDone

LEMMA AddonsLoopKept ==
  ASSUME SerialInvariant, Agreed, [Next]_vars, NEW r \in Runs
  PROVE  AddonsLoop(r)'
  <1>0. TypeOK /\ pc \in [Runs -> Labels] /\ phase[r] \in Phases
    BY SerialParts DEF TypeOK, RunTypeOK
  <1>1. CASE Rests(r)
    BY <1>1, LoopStill DEF Rests
  <1>2. CASE Launch(r) \/ PlanNext(r) \/ SkipPhase(r) \/ Confirm(r) \/ Decline(r) \/ PlanFails(r)
             \/ PhaseFails(r)
    <2>1. pc'[r] \in PlanLabels \cup {"phase", "stopped", "cp describe", "addon list", "ng list"}
      BY <1>0, <1>2 DEF Launch, PlanNext, PlanCluster, PlanNodegroups, DescribedOne,
         FirstItem, PlanAddon, PlanAddonsDone, PlanBlocked, PlanReady, SkipPhase, NextPhase, Enter, Confirm, FirstCall, Phases, Decline, PlanFails,
         PhaseFails, Step, Stop, Goto, PlanLabels
    <2> QED
      BY <2>1, LoopLeft DEF AddonLabels, PlanLabels
  <1>3. CASE ControlPlaneNext(r)
    <2>1. pc'[r] \in ControlPlaneLabels \cup {"phase", "stopped"}
      BY <1>0, <1>3 DEF ControlPlaneNext, ControlPlaneDescribe, WaitForClusterActive,
         ControlPlaneRecheck, ControlPlaneStart, ControlPlaneWait, ControlPlaneVerify, Answered,
         PhaseDone, NextPhase, Enter, Step, Stop, Goto, ControlPlaneLabels
    <2> QED
      BY <2>1, LoopLeft DEF AddonLabels, ControlPlaneLabels
  <1>4. CASE NodegroupsNext(r)
    <2>1. pc'[r] \in NodegroupLabels \cup {"phase", "stopped"}
      BY <1>0, <1>4 DEF NodegroupsNext, NodegroupsList, DescribedOne, NodegroupsDone,
         NodegroupNext, NodegroupGate, NodegroupStart, NodegroupWait, Answered, FirstItem, NextItem,
         PhaseDone, NextPhase, Enter, Step, Stop, Goto, NodegroupLabels
    <2> QED
      BY <2>1, LoopLeft DEF AddonLabels, NodegroupLabels
  <1>5. CASE AddonsNext(r)
    BY <1>5, LoopOwn
  <1> QED
    BY <1>1, <1>2, <1>3, <1>4, <1>5, SerialSteps DEF RunActs, RunNext

LEMMA DependenciesFirstKept ==
  ASSUME SerialInvariant, InstalledOnce, [Next]_vars
  PROVE  DependenciesFirst'
  <1>0. /\ TypeOK /\ \A r \in Runs : hop[r] \in Minors
    BY SerialParts DEF TypeOK, RunTypeOK
  <1> DEFINE At(i, k) == \A j \in 1 .. i - 1 :
               AddonOrder[j] \in Converged => addon'[AddonOrder[j]].version >= Latest(AddonOrder[j], k)
  <1> SUFFICES ASSUME NEW i \in 1 .. Len(AddonOrder), AddonOrder[i] \in Converged,
                      addon'[AddonOrder[i]].status = "UPDATING"
               PROVE  \E k \in Minors : addon'[AddonOrder[i]].to = Latest(AddonOrder[i], k) /\ At(i, k)
    BY DEF DependenciesFirst
  <1> DEFINE a == AddonOrder[i]
  <1>1. a \in Addons /\ i \in Nat /\ \A j \in 1 .. i - 1 : j \in 1 .. Len(AddonOrder) /\ j < i
    BY AddonNumbers, <1>0
  <1>2. CASE addon'[a] = addon[a]
    <2>1. PICK k \in Minors :
            /\ addon[a].to = Latest(a, k)
            /\ \A j \in 1 .. i - 1 :
                 AddonOrder[j] \in Converged => addon[AddonOrder[j]].version >= Latest(AddonOrder[j], k)
      BY <1>2 DEF SerialInvariant, DependenciesFirst
    <2>2. At(i, k)
      <3> SUFFICES ASSUME NEW j \in 1 .. i - 1, AddonOrder[j] \in Converged
                   PROVE  addon'[AddonOrder[j]].version >= Latest(AddonOrder[j], k)
        OBVIOUS
      <3>1. AddonOrder[j] \in Addons
        BY DEF Converged
      <3> QED
        BY <2>1, <3>1, SerialParts, ReachedKept
    <2> QED
      BY <1>2, <2>1, <2>2
  <1>3. ASSUME NEW r \in Runs, Starts(r, a)
        PROVE  addon'[a].to = Latest(a, hop[r]) /\ At(i, hop[r])
    <2>1. pos[r] \in 1 .. Len(AddonOrder) /\ a = AddonOrder[pos[r]]
      BY <1>0, <1>3, AddonAtHand DEF Starts, AddonLabels, CurrentAddon
    <2>2. i = pos[r]
      BY <2>1 DEF InstalledOnce
    <2>3. addon'[a].to = Latest(a, hop[r])
      BY <1>3 DEF Starts, Chosen
    <2>4. PassedBefore(r, i)
      BY <1>3, <2>2, SerialParts DEF Starts, AddonsLoop, PassedBefore, AddonLabels
    <2>5. PassedAfter(r, i)
      BY <1>1, <2>4, PassedKept
    <2>6. At(i, hop[r])
      BY <1>1, <2>5 DEF PassedAfter
    <2> QED
      BY <2>3, <2>6
  <1>4. ~Finishes(a) /\ ~Recovers(a)
    BY DEF Finishes, Recovers, Busy
  <1>5. addon'[a] = addon[a] \/ \E r \in Runs : Starts(r, a)
    BY <1>0, <1>1, <1>4, AddonSteps
  <1> HIDE DEF a, At
  <1> QED
    BY <1>0, <1>2, <1>3, <1>5 DEF a

LEMMA RollAfterAddonsKept ==
  ASSUME SerialInvariant, [Next]_vars
  PROVE  RollAfterAddons'
  <1>0. TypeOK /\ \A r \in Runs : hop[r] \in Minors
    BY SerialParts DEF TypeOK, RunTypeOK
  <1> SUFFICES ASSUME NEW g \in Nodegroups, ng'[g].to # ng'[g].version,
                      NEW a \in Converged
               PROVE  addon'[a].version >= Latest(a, ng'[g].to)
    BY DEF RollAfterAddons, AddonsAt, Latest
  <1>1. CASE ng'[g].version = ng[g].version /\ ng'[g].to = ng[g].to
    <2>1. AddonsAt(ng[g].to) /\ ng[g].to \in Minors
      BY <1>0, <1>1 DEF SerialInvariant, RollAfterAddons, TypeOK, CloudTypeOK, NodegroupStates
    <2>2. addon'[a].version >= Latest(a, ng[g].to)
      BY <2>1, PhaseKept
    <2> QED
      BY <1>1, <2>2
  <1>2. ASSUME NEW r \in Runs, StartsNodegroup(r), ng'[g].to = hop[r]
        PROVE  addon'[a].version >= Latest(a, ng'[g].to)
    <2>1. phase[r] = "nodegroups" /\ pc[r] \in PhaseLabels
      BY <1>2, SerialParts DEF StartsNodegroup, RunInvariant, LabelsMatch, NodegroupLabels, PhaseLabels
    <2>2. AddonsAt(hop[r])
      BY <2>1, SerialParts DEF AddonsWalk
    <2>3. addon'[a].version >= Latest(a, hop[r])
      BY <1>0, <2>2, PhaseKept
    <2> QED
      BY <1>2, <2>3
  <1> QED
    BY <1>0, <1>1, <1>2, NodegroupMoves

LEMMA ReportTruthfulKept ==
  ASSUME SerialInvariant, [Next]_vars
  PROVE  ReportTruthful'
  <1>0. TypeOK /\ completed \in [Runs -> SUBSET (Minors \X Phases)]
    BY SerialParts DEF TypeOK, RunTypeOK
  <1>1. ASSUME NEW h \in Minors, NEW ph \in Phases, PhaseHolds(h, ph)
        PROVE  /\ ph = "control plane" => cp'.version >= h
               /\ ph = "addons" => \A a \in Converged : addon'[a].version >= Latest(a, h)
               /\ ph = "nodegroups" => \A g \in Rollable : ng'[g].version >= h
    BY <1>1, PhaseKept DEF PhaseHolds
  <1> SUFFICES ASSUME NEW r \in Runs, NEW c \in completed'[r]
               PROVE  c[1] \in Minors /\ c[2] \in Phases /\ PhaseHolds(c[1], c[2])
    <2>1. \A r \in Runs : \A c \in completed'[r] : PhaseHolds(c[1], c[2])'
      BY <1>1 DEF PhaseHolds, Phases, AddonsAt, NodegroupsAt, Latest
    <2> QED
      BY <2>1 DEF ReportTruthful
  <1>2. CASE c \in completed[r]
    <2>1. c \in Minors \X Phases
      BY <1>0, <1>2
    <2> QED
      BY <1>2, <2>1 DEF SerialInvariant, ReportTruthful
  <1>3. CASE Launch(r)
    BY <1>0, <1>3 DEF Launch
  <1>4. CASE Leaves(r) /\ c \notin completed[r]
    <2>1. c = <<hop[r], phase[r]>> /\ PhaseHolds(hop[r], phase[r])
      BY <1>0, <1>4 DEF Leaves
    <2> QED
      BY <1>0, <2>1 DEF TypeOK, RunTypeOK
  <1>5. CASE completed'[r] = completed[r]
    BY <1>2, <1>5
  <1> QED
    BY <1>2, <1>3, <1>4, <1>5, SerialKinds DEF Kinds, Reads, Begins, Halts, Works, Rests

LEMMA SuccessKept ==
  ASSUME SerialInvariant, [Next]_vars
  PROVE  SuccessMeansUpgraded'
  <1>0. TypeOK /\ exit \in [Runs -> Exits] /\ pc \in [Runs -> Labels]
        /\ \A r \in Runs : hop[r] \in Minors /\ plan[r].target \in Minors
    BY SerialParts, AddonNumbers DEF TypeOK, RunTypeOK
  <1>1. ASSUME NEW t \in Minors, Upgraded(t)
        PROVE  /\ cp'.version >= t
               /\ \A a \in Converged : addon'[a].version >= Latest(a, t)
               /\ \A g \in Rollable : ng'[g].version >= t
    BY <1>1, PhaseKept DEF Upgraded
  <1> SUFFICES ASSUME NEW r \in Runs, exit'[r] \in {"complete", "nothing"}
               PROVE  Upgraded(plan[r].target) /\ plan'[r].target = plan[r].target
    <2>1. ASSUME NEW r \in Runs, Upgraded(plan[r].target), plan'[r].target = plan[r].target
          PROVE  Upgraded(plan[r].target)'
      <3> DEFINE t == plan[r].target
      <3>1. /\ cp'.version >= t
            /\ \A a \in Converged : addon'[a].version >= Latest(a, t)
            /\ \A g \in Rollable : ng'[g].version >= t
        BY <1>0, <1>1, <2>1
      <3> QED
        BY <2>1, <3>1 DEF Upgraded, AddonsAt, NodegroupsAt
    <2> QED
      BY <2>1 DEF SuccessMeansUpgraded
  <1>2. CASE exit'[r] = exit[r] /\ plan'[r].target = plan[r].target
    BY <1>2 DEF SerialInvariant, SuccessMeansUpgraded
  <1>3. CASE Launch(r)
    BY <1>0, <1>3 DEF Launch
  <1>4. CASE Halts(r)
    BY <1>0, <1>4 DEF Halts
  <1>5. CASE Leaves(r) /\ exit' # exit
    <2>1. phase[r] = "nodegroups" /\ hop[r] = plan[r].target /\ plan'[r].target = plan[r].target
      BY <1>0, <1>5 DEF Leaves, NextPhase, Enter
    <2>2. NodegroupsAt(hop[r])
      BY <1>5, <2>1 DEF Leaves, PhaseHolds
    <2>3. AddonsAt(hop[r]) /\ hop[r] <= cp.version
      BY <1>5, <2>1, SerialParts DEF Leaves, AddonsWalk, RunInvariant, Walk
    <2>4. cp.version >= hop[r]
      BY <1>0, <2>3, VersionsAreIntegers
    <2> QED
      BY <2>1, <2>2, <2>3, <2>4 DEF Upgraded
  <1>6. CASE Leaves(r) /\ exit' = exit
    BY <1>2, <1>6 DEF Leaves, NextPhase
  <1>7. CASE Reads(r) \/ Begins(r) \/ Works(r) \/ Rests(r)
    BY <1>2, <1>7 DEF Reads, Begins, Works, Rests, Still
  <1> QED
    BY <1>3, <1>4, <1>5, <1>6, <1>7, SerialKinds DEF Kinds

LEMMA SerialInit ==
  ASSUME AddonsAtRest, Init
  PROVE  SerialInvariant
  <1>0. SafetyInvariant /\ TypeOK
    BY InitSafe DEF SafetyInvariant
  <1>1. PICK c \in StartClusters : cp = c.cp /\ ng = c.ng /\ addon = c.addon
    BY DEF Init
  <1>2. /\ \A g \in Nodegroups : ng[g].to = ng[g].version
        /\ \A a \in Addons : addon[a].to = addon[a].version /\ addon[a].status # "UPDATING"
    BY <1>1, StartAssumption DEF AddonsAtRest
  <1>3. AddonsRise /\ DependenciesFirst /\ RollAfterAddons
    BY <1>0, <1>2, AddonNumbers DEF AddonsRise, DependenciesFirst, RollAfterAddons
  <1>4. ReportTruthful /\ SuccessMeansUpgraded
    BY DEF Init, ReportTruthful, SuccessMeansUpgraded
  <1>5. ASSUME NEW r \in Runs PROVE AddonsRead(r) /\ AddonsWalk(r) /\ AddonsLoop(r)
    <2>1. pc[r] = "idle" /\ plan[r] = NoPlan
      BY DEF Init
    <2>2. AddonsRead(r)
      BY <1>0, <2>1, AddonNumbers DEF AddonsRead, NoPlan, Unread
    <2>3. AddonsWalk(r) /\ AddonsLoop(r)
      BY <2>1 DEF AddonsWalk, AddonsLoop, PhaseLabels, ControlPlaneLabels, AddonLabels,
                  NodegroupLabels
    <2> QED
      BY <2>2, <2>3
  <1> QED
    BY <1>0, <1>3, <1>4, <1>5 DEF SerialInvariant

LEMMA SerialKept ==
  ASSUME Agreed, InstalledOnce, SerialInvariant, [Next]_vars
  PROVE  SerialInvariant'
  <1>1. SafetyInvariant'
    BY SafetyKept DEF SerialInvariant
  <1>2. AddonsRise'
    BY SerialParts, AddonsRiseStep
  <1>3. DependenciesFirst' /\ RollAfterAddons' /\ ReportTruthful' /\ SuccessMeansUpgraded'
    BY DependenciesFirstKept, RollAfterAddonsKept, ReportTruthfulKept, SuccessKept
  <1>4. \A r \in Runs : AddonsRead(r)' /\ AddonsWalk(r)' /\ AddonsLoop(r)'
    BY AddonsReadKept, AddonsWalkKept, AddonsLoopKept
  <1> QED
    BY <1>1, <1>2, <1>3, <1>4 DEF SerialInvariant

--------------------------------------------------------------------------------
(***************************************************************************)
(* The theorems.                                                            *)
(***************************************************************************)
\* With one terminal, in every reachable state the add-ons only go up, what the run read
\* of them is a lower bound, and each phase finds what the phases before it left.
THEOREM SerialCorrect ==
  ASSUME OneTerminal, InstalledOnce, AddonsAtRest
  PROVE  Spec => []SerialInvariant
  <1>1. Init => SerialInvariant
    BY SerialInit
  <1>2. SerialInvariant /\ [Next]_vars => SerialInvariant'
    BY SerialKept DEF OneTerminal, Agreed
  <1> QED
    BY <1>1, <1>2, PTL DEF Spec

\* Nodes move to a version only after every add-on the run manages has reached the version
\* chosen for it, through interruptions, failed updates and reruns (Execute's phase order).
THEOREM RollAfterAddonsCorrect ==
  ASSUME OneTerminal, InstalledOnce, AddonsAtRest
  PROVE  Spec => []RollAfterAddons
  <1>1. Spec => []SerialInvariant
    BY SerialCorrect
  <1>2. SerialInvariant => RollAfterAddons
    BY DEF SerialInvariant
  <1> QED
    BY <1>1, <1>2, PTL

\* An add-on is being updated for a minor only when every managed add-on before it in
\* dependency order has reached its version for that minor (UpgradeAddons's loop).
THEOREM DependenciesFirstCorrect ==
  ASSUME OneTerminal, InstalledOnce, AddonsAtRest
  PROVE  Spec => []DependenciesFirst
  <1>1. Spec => []SerialInvariant
    BY SerialCorrect
  <1>2. SerialInvariant => DependenciesFirst
    BY DEF SerialInvariant
  <1> QED
    BY <1>1, <1>2, PTL

\* Whatever the run's report calls completed is true of the cluster, and stays true.
THEOREM ReportCorrect ==
  ASSUME OneTerminal, InstalledOnce, AddonsAtRest
  PROVE  Spec => []ReportTruthful
  <1>1. Spec => []SerialInvariant
    BY SerialCorrect
  <1>2. SerialInvariant => ReportTruthful
    BY DEF SerialInvariant
  <1> QED
    BY <1>1, <1>2, PTL

\* "Upgrade complete" and "Nothing to do" are said only of a cluster at the target, though
\* the plan was read piecemeal while EKS was moving.
THEOREM SuccessCorrect ==
  ASSUME OneTerminal, InstalledOnce, AddonsAtRest
  PROVE  Spec => []SuccessMeansUpgraded
  <1>1. Spec => []SerialInvariant
    BY SerialCorrect
  <1>2. SerialInvariant => SuccessMeansUpgraded
    BY DEF SerialInvariant
  <1> QED
    BY <1>1, <1>2, PTL

LEMMA NotBelowBefore == \A v \in Int : v >= (v + 1) - 1
  OBVIOUS

\* A control-plane update that EKS accepts starts from a cluster whose add-ons and
\* nodegroups have finished the hop before.
LEMMA HopStartsInOrder ==
  ASSUME SerialInvariant, [Next]_vars, NEW r \in Runs,
         pc[r] = "cp start", cp'.to # cp.to, hop[r] > FirstHop(plan[r]), pc'[r] # pc[r]
  PROVE  Upgraded(hop[r] - 1)
  <1>0. TypeOK /\ hop[r] - 1 \in Minors
    BY SerialParts, HopBeforeIsMinor
  <1>1. RunActs(r)
    BY SerialSteps DEF Rests, Still
  <1>2. AcceptsControlPlane(hop[r])
    BY <1>1, RunSteps DEF Bookkeeping, StartsControlPlane, StartsAddon, StartsNodegroup
  <1>3. cp.version >= hop[r] - 1
    <2>1. cp.version >= (cp.version + 1) - 1
      BY <1>0, VersionsAreIntegers, NotBelowBefore, Zenon
    <2> QED
      BY <1>2, <2>1, Zenon DEF AcceptsControlPlane
  <1>4. phase[r] = "control plane" /\ pc[r] \in PhaseLabels
    BY SerialParts DEF RunInvariant, LabelsMatch, ControlPlaneLabels, PhaseLabels
  <1>5. AddonsAt(hop[r] - 1)
    BY <1>4, SerialParts DEF AddonsWalk
  <1>6. NodegroupsAt(hop[r] - 1)
    <2> SUFFICES ASSUME NEW g \in Rollable PROVE ng[g].version >= hop[r] - 1
      BY DEF NodegroupsAt
    <2>1. g \in Nodegroups /\ hop[r] - 1 <= ng[g].version
      BY <1>4, SerialParts DEF RunInvariant, Walk, Rollable
    <2> QED
      BY <1>0, <2>1, VersionsAreIntegers
  <1> QED
    BY <1>3, <1>5, <1>6 DEF Upgraded

\* The control plane starts on a later hop only when the hop before it is finished: no step
\* of any run, rerun or update breaks Execute's hop order.
THEOREM HopsCorrect ==
  ASSUME OneTerminal, InstalledOnce, AddonsAtRest
  PROVE  Spec => HopsInOrder
  <1>1. Spec => []SerialInvariant
    BY SerialCorrect
  <1>2. SerialInvariant /\ [Next]_vars =>
          [\A r \in Runs :
             (pc[r] = "cp start" /\ cp'.to # cp.to /\ hop[r] > FirstHop(plan[r]) /\ pc'[r] # pc[r])
               => Upgraded(hop[r] - 1)]_vars
    BY HopStartsInOrder
  <1> QED
    BY <1>1, <1>2, PTL DEF Spec, HopsInOrder

--------------------------------------------------------------------------------
(***************************************************************************)
(* One hop: nothing is started while something else is in flight.            *)
(***************************************************************************)
\* Numbers of a plan and of the control plane.
LEMMA PlanNumbers ==
  ASSUME TypeOK, NEW r \in Runs
  PROVE  /\ plan[r].cp \in Int /\ plan[r].target \in Int /\ hop[r] \in Int /\ cp.version \in Int
         /\ plan[r].cp <= plan[r].target
  BY VersionsAreIntegers DEF TypeOK, PlanAhead

\* A plan whose target is at most one ahead has one hop.
LEMMA OneHopFirst ==
  ASSUME TypeOK, NEW r \in Runs, plan[r].target <= plan[r].cp + 1
  PROVE  FirstHop(plan[r]) = plan[r].target
  <1>1. \A c, t \in Int : c <= t /\ t <= c + 1 => c = t \/ c + 1 = t
    OBVIOUS
  <1>2. plan[r].cp = plan[r].target \/ plan[r].cp + 1 = plan[r].target
    BY <1>1, PlanNumbers
  <1> QED
    BY <1>2 DEF FirstHop

LEMMA AimsKept ==
  ASSUME NEW t \in Minors, Targets = {t}, OneHopInvariant, [Next]_vars, NEW r \in Runs
  PROVE  Aims(r)'
  <1>0. /\ SerialInvariant /\ TypeOK /\ Aims(r) /\ t <= cp.version + 1
        /\ pc \in [Runs -> Labels] /\ plan \in [Runs -> Plans]
    BY SerialParts DEF OneHopInvariant, TargetInFlight, TypeOK, RunTypeOK
  <1>1. CASE Launch(r)
    <2>1. pc'[r] = "plan cluster"
      BY <1>0, <1>1 DEF Launch, Goto
    <2>2. plan'[r].target = t
      BY <1>0, <1>1 DEF Launch, NoPlan
    <2> QED
      BY <2>1, <2>2 DEF Aims, PhaseLabels, ControlPlaneLabels, AddonLabels, NodegroupLabels
  <1>2. CASE Reads(r)
    <2>1. plan[r].target = t /\ plan'[r].target = t /\ pc'[r] \in PlanLabels
      BY <1>0, <1>2 DEF Reads, Aims, PlanLabels
    <2>2. pc'[r] \notin PhaseLabels \cup {"phase"}
      BY <2>1 DEF PlanLabels, PhaseLabels, ControlPlaneLabels, AddonLabels, NodegroupLabels
    <2>3. CASE plan'[r].cp = cp.version
      BY <1>0, <2>1, <2>2, <2>3 DEF Aims
    <2>4. CASE pc[r] # "plan cluster" /\ plan'[r].cp = plan[r].cp
      <3>1. plan[r].target <= plan[r].cp + 1
        BY <1>0, <1>2, <2>4 DEF Aims, Reads
      <3> QED
        BY <2>1, <2>2, <2>4, <3>1 DEF Aims
    <2> QED
      BY <1>2, <2>3, <2>4 DEF Reads
  <1>3. CASE Begins(r)
    <2>1. plan[r].target = t /\ plan[r].target <= plan[r].cp + 1
      BY <1>0, <1>3 DEF Begins, Aims, PlanLabels
    <2>2. hop'[r] = t
      BY <1>0, <1>3, <2>1, OneHopFirst DEF Begins
    <2> QED
      BY <1>3, <2>1, <2>2 DEF Begins, Aims, PlanLabels
  <1>4. CASE Halts(r)
    BY <1>0, <1>4 DEF Halts, Aims, PlanLabels, PhaseLabels, ControlPlaneLabels, AddonLabels,
                      NodegroupLabels
  <1>5. ASSUME pc[r] \in PhaseLabels \cup {"phase"}, plan' = plan, hop' = hop, pc'[r] \notin PlanLabels
        PROVE  Aims(r)'
    BY <1>0, <1>5 DEF Aims, PhaseLabels, ControlPlaneLabels, AddonLabels, NodegroupLabels
  <1>6. CASE Works(r)
    <2>1. pc'[r] \notin PlanLabels
      BY <1>6 DEF Works, PlanLabels, PhaseLabels, ControlPlaneLabels, AddonLabels, NodegroupLabels
    <2> QED
      BY <1>5, <1>6, <2>1 DEF Works
  <1>7. CASE Leaves(r)
    <2>1. hop[r] = t /\ plan[r].target = t
      BY <1>0, <1>7 DEF Leaves, Aims, PhaseLabels, ControlPlaneLabels, AddonLabels, NodegroupLabels
    <2>2. ~(t < t)
      BY <1>0, <2>1, PlanNumbers
    <2>3. pc'[r] \in {"phase", "stopped"} /\ plan' = plan /\ hop'[r] = hop[r]
      BY <1>0, <1>7, <2>1, <2>2 DEF Leaves, NextPhase, Enter, Goto, TypeOK, RunTypeOK
    <2> QED
      BY <2>1, <2>3 DEF Aims, PlanLabels
  <1>8. CASE Rests(r)
    BY <1>0, <1>8 DEF Aims, Rests, Still
  <1> QED
    BY <1>0, <1>1, <1>2, <1>3, <1>4, <1>6, <1>7, <1>8, SerialKinds DEF Kinds

LEMMA NodegroupsInFlightKept ==
  ASSUME NEW t \in Minors, Targets = {t}, ListedOnce, OneHopInvariant, [Next]_vars,
         NEW i \in 1 .. Len(NodegroupOrder), ng'[NodegroupOrder[i]].to # ng'[NodegroupOrder[i]].version,
         NEW j \in 1 .. Len(NodegroupOrder)
  PROVE  /\ ng'[NodegroupOrder[i]].to = t
         /\ j < i /\ NodegroupOrder[j] \in Rollable => t <= ng'[NodegroupOrder[j]].version
  <1>0. SerialInvariant /\ TypeOK /\ CloudDirection /\ TargetInFlight
    BY SerialParts DEF OneHopInvariant
  <1>1. NodegroupOrder[i] \in Nodegroups /\ NodegroupOrder[j] \in Nodegroups /\ t \in Int
    BY OrderAssumption, MinorsAssumption DEF Minors
  <1>2. t <= ng[NodegroupOrder[j]].version => t <= ng'[NodegroupOrder[j]].version
    BY <1>0, <1>1, VersionsRise, VersionsAreIntegers, PrimedIntegers
  <1> DEFINE g == NodegroupOrder[i]
  <1>3. CASE ng'[g].version = ng[g].version /\ ng'[g].to = ng[g].to
    BY <1>0, <1>2, <1>3 DEF TargetInFlight
  <1>4. ASSUME NEW r \in Runs, StartsNodegroup(r), g = CurrentNodegroup(r), ng'[g].to = hop[r]
        PROVE  /\ ng'[g].to = t
               /\ j < i /\ NodegroupOrder[j] \in Rollable => t <= ng[NodegroupOrder[j]].version
    <2>1. pc[r] = "ng start" /\ pc[r] \in PhaseLabels
      BY <1>4 DEF StartsNodegroup, PhaseLabels, NodegroupLabels
    <2>2. hop[r] = t
      BY <2>1 DEF OneHopInvariant, Aims
    <2>3. pos[r] \in 1 .. Len(NodegroupOrder)
      BY <1>0, <2>1 DEF TypeOK, PositionOK, NodegroupLabels
    <2>4. i = pos[r]
      BY <1>4, <2>3 DEF ListedOnce, CurrentNodegroup
    <2>5. j < i /\ NodegroupOrder[j] \in Rollable => hop[r] <= ng[NodegroupOrder[j]].version
      BY <1>0, <2>1, <2>4, SerialParts DEF RunInvariant, Looping, NodegroupLabels
    <2> QED
      BY <1>4, <2>2, <2>5
  <1> QED
    BY <1>0, <1>1, <1>2, <1>3, <1>4, NodegroupMoves

LEMMA AddonsInFlightKept ==
  ASSUME NEW t \in Minors, Targets = {t}, InstalledOnce, OneHopInvariant, [Next]_vars,
         NEW i \in 1 .. Len(AddonOrder), addon'[AddonOrder[i]].to # addon'[AddonOrder[i]].version,
         NEW j \in 1 .. Len(AddonOrder)
  PROVE  /\ addon'[AddonOrder[i]].to = Latest(AddonOrder[i], t)
         /\ t <= cp'.version
         /\ j < i /\ AddonOrder[j] \in Converged =>
              addon'[AddonOrder[j]].version >= Latest(AddonOrder[j], t)
  <1>0. SerialInvariant /\ TypeOK /\ CloudDirection /\ TargetInFlight
    BY SerialParts DEF OneHopInvariant
  <1>1. AddonOrder[i] \in Addons /\ AddonOrder[j] \in Addons /\ t \in Int
    BY <1>0, AddonNumbers, MinorsAssumption DEF Minors
  <1>2. addon[AddonOrder[j]].version >= Latest(AddonOrder[j], t)
          => addon'[AddonOrder[j]].version >= Latest(AddonOrder[j], t)
    BY <1>0, <1>1, SerialParts, ReachedKept
  <1>3. t <= cp.version => t <= cp'.version
    BY <1>0, <1>1, VersionsRise, VersionsAreIntegers, PrimedIntegers
  <1> DEFINE a == AddonOrder[i]
  <1>4. CASE addon'[a].version = addon[a].version /\ addon'[a].to = addon[a].to
    BY <1>0, <1>2, <1>3, <1>4 DEF TargetInFlight
  <1>5. ASSUME NEW r \in Runs, Starts(r, a)
        PROVE  /\ addon'[a].to = Latest(a, t)
               /\ t <= cp.version
               /\ j < i /\ AddonOrder[j] \in Converged =>
                    addon[AddonOrder[j]].version >= Latest(AddonOrder[j], t)
    <2>1. pc[r] = "addon start" /\ pc[r] \in PhaseLabels
      BY <1>5 DEF Starts, PhaseLabels, AddonLabels
    <2>2. hop[r] = t
      BY <2>1 DEF OneHopInvariant, Aims
    <2>3. pos[r] \in 1 .. Len(AddonOrder)
      BY <1>0, <2>1, AddonAtHand DEF AddonLabels
    <2>4. i = pos[r]
      BY <1>5, <2>3 DEF InstalledOnce, Starts, CurrentAddon
    <2>5. hop[r] <= cp.version
      BY <1>0, <2>1, SerialParts DEF RunInvariant, LabelsMatch, Walk, AddonLabels
    <2>6. j < i /\ AddonOrder[j] \in Converged =>
            addon[AddonOrder[j]].version >= Latest(AddonOrder[j], hop[r])
      BY <1>0, <2>1, <2>4, SerialParts DEF AddonsLoop, AddonLabels
    <2>7. addon'[a].to = Latest(a, hop[r])
      BY <1>5 DEF Starts, Chosen
    <2> QED
      BY <2>2, <2>5, <2>6, <2>7
  <1>6. \/ addon'[a].version = addon[a].version /\ addon'[a].to = addon[a].to
        \/ \E r \in Runs : Starts(r, a)
    BY <1>0, <1>1, AddonSteps DEF Finishes, Recovers
  <1> QED
    BY <1>2, <1>3, <1>4, <1>5, <1>6

LEMMA OneHopKept ==
  ASSUME NEW t \in Minors, Targets = {t}, InstalledOnce, ListedOnce,
         OneHopInvariant, [Next]_vars
  PROVE  OneHopInvariant'
  <1>0. SerialInvariant /\ TypeOK /\ CloudDirection /\ t <= cp.version + 1
    BY SerialParts DEF OneHopInvariant, TargetInFlight
  <1>1. SerialInvariant'
    <2>1. Agreed
      BY DEF Agreed, OneHopInvariant, Aims, PhaseLabels
    <2> QED
      BY <1>0, <2>1, SerialKept
  <1>2. \A r \in Runs : Aims(r)'
    BY AimsKept
  <1>3. t <= cp'.version + 1
    <2>1. t \in Int
      BY MinorsAssumption DEF Minors
    <2>2. cp.version \in Int /\ cp'.version \in Int /\ cp.version <= cp'.version
      BY <1>0, VersionsRise, VersionsAreIntegers, PrimedIntegers
    <2>3. \A x, v, w \in Int : x <= v + 1 /\ v <= w => x <= w + 1
      OBVIOUS
    <2> QED
      BY <1>0, <2>1, <2>2, <2>3, Zenon
  <1>4. cp'.to # cp'.version => cp'.to = t
    <2>1. ASSUME NEW r \in Runs, StartsControlPlane(r) PROVE hop[r] = t
      BY <2>1 DEF StartsControlPlane, OneHopInvariant, Aims, PhaseLabels, ControlPlaneLabels
    <2>2. CASE cp'.version = cp.version /\ cp'.to = cp.to
      BY <2>2 DEF OneHopInvariant, TargetInFlight
    <2> QED
      BY <1>0, <2>1, <2>2, ControlPlaneMoves
  <1>5. TargetInFlight'
    BY <1>3, <1>4, NodegroupsInFlightKept, AddonsInFlightKept, Zenon DEF TargetInFlight
  <1> QED
    BY <1>1, <1>2, <1>5 DEF OneHopInvariant

LEMMA OneHopInit ==
  ASSUME NEW t \in Minors, Targets = {t}, \A c \in StartClusters : t <= c.cp.version + 1,
         AddonsAtRest, Init
  PROVE  OneHopInvariant
  <1>1. SerialInvariant
    BY SerialInit
  <1>2. PICK c \in StartClusters : cp = c.cp /\ ng = c.ng /\ addon = c.addon
    BY DEF Init
  <1>3. /\ t <= cp.version + 1 /\ cp.to = cp.version
        /\ \A g \in Nodegroups : ng[g].to = ng[g].version
        /\ \A a \in Addons : addon[a].to = addon[a].version
    BY <1>2, StartAssumption
  <1>4. TargetInFlight
    <2>1. \A i \in 1 .. Len(NodegroupOrder) : NodegroupOrder[i] \in Nodegroups
      BY OrderAssumption
    <2>2. \A i \in 1 .. Len(AddonOrder) : AddonOrder[i] \in Addons
      BY OrderAssumption
    <2> QED
      BY <1>3, <2>1, <2>2 DEF TargetInFlight
  <1>5. \A r \in Runs : Aims(r)
    BY DEF Init, Aims, PlanLabels, PhaseLabels, ControlPlaneLabels, AddonLabels, NodegroupLabels
  <1> QED
    BY <1>1, <1>4, <1>5 DEF OneHopInvariant

\* Two updates in flight would both go to the target, and the later one in Execute's order
\* was started when the earlier one's resource was there.
LEMMA OneInFlightHolds ==
  ASSUME NEW t \in Minors, Targets = {t}, OneHopInvariant
  PROVE  OneInFlight
  <1>0. /\ SerialInvariant /\ TypeOK /\ CloudDirection /\ TargetInFlight /\ RollAfterAddons
        /\ AddonsRise
    BY SerialParts DEF OneHopInvariant, SerialInvariant
  <1> DEFINE Rolls(g) == g \in Nodegroups /\ ng[g].to # ng[g].version
             Raises(a) == a \in Addons /\ addon[a].to # addon[a].version
             Plane == cp.to # cp.version
  <1>1. Plane => ~(t <= cp.version)
    <2>1. \A v \in Int : ~(v + 1 <= v)
      OBVIOUS
    <2>2. Plane => t = cp.version + 1
      BY <1>0 DEF CloudDirection, TargetInFlight
    <2> QED
      BY <1>0, <2>1, <2>2, VersionsAreIntegers, Zenon
  <1>2. ASSUME NEW g, Rolls(g)
        PROVE  t <= cp.version /\ AddonsAt(t) /\ ~(t <= ng[g].version)
    <2>1. PICK i \in 1 .. Len(NodegroupOrder) : NodegroupOrder[i] = g
      BY <1>2, OrderAssumption
    <2>2. ng[g].to = t
      BY <1>0, <1>2, <2>1 DEF TargetInFlight
    <2>3. ng[g].version <= ng[g].to /\ ng[g].to <= cp.version
      BY <1>0, <1>2 DEF CloudDirection
    <2>4. ~(ng[g].to <= ng[g].version)
      BY <1>0, <1>2, <2>3, VersionsAreIntegers
    <2>5. AddonsAt(ng[g].to)
      BY <1>0, <1>2 DEF RollAfterAddons
    <2> QED
      BY <2>2, <2>3, <2>4, <2>5
  <1>3. ASSUME NEW a, Raises(a)
        PROVE  t <= cp.version /\ a \in Converged /\ ~(addon[a].version >= Latest(a, t))
    <2>1. PICK i \in 1 .. Len(AddonOrder) : AddonOrder[i] = a
      BY <1>3, OrderAssumption
    <2>2. addon[a].to = Latest(a, t) /\ t <= cp.version
      BY <1>0, <1>3, <2>1 DEF TargetInFlight
    <2>3. ~(addon[a].version >= addon[a].to)
      BY <1>0, <1>3, AddonNumbers DEF AddonsRise
    <2>4. a \in Converged
      BY <1>0, <1>3 DEF CloudDirection
    <2> QED
      BY <2>2, <2>3, <2>4
  <1>4. \A g, a : ~(Plane /\ Rolls(g)) /\ ~(Plane /\ Raises(a)) /\ ~(Rolls(g) /\ Raises(a))
    BY <1>1, <1>2, <1>3 DEF AddonsAt
  <1>5. ASSUME NEW g, NEW h, Rolls(g), Rolls(h) PROVE g = h
    <2>1. PICK i \in 1 .. Len(NodegroupOrder) : NodegroupOrder[i] = g
      BY <1>5, OrderAssumption
    <2>2. PICK j \in 1 .. Len(NodegroupOrder) : NodegroupOrder[j] = h
      BY <1>5, OrderAssumption
    <2>3. g \in Rollable /\ h \in Rollable
      BY <1>0, <1>5 DEF CloudDirection
    <2>4. ~(j < i) /\ ~(i < j)
      BY <1>0, <1>2, <1>5, <2>1, <2>2, <2>3 DEF TargetInFlight
    <2>5. i = j
      BY <2>4, ListLength
    <2> QED
      BY <2>1, <2>2, <2>5
  <1>6. ASSUME NEW a, NEW b, Raises(a), Raises(b) PROVE a = b
    <2>1. PICK i \in 1 .. Len(AddonOrder) : AddonOrder[i] = a
      BY <1>6, OrderAssumption
    <2>2. PICK j \in 1 .. Len(AddonOrder) : AddonOrder[j] = b
      BY <1>6, OrderAssumption
    <2>3. ~(j < i) /\ ~(i < j)
      BY <1>0, <1>3, <1>6, <2>1, <2>2 DEF TargetInFlight
    <2>4. i = j
      BY <1>0, <2>3, AddonNumbers
    <2> QED
      BY <2>1, <2>2, <2>4
  <1>7. \A x \in InFlight : (x = ControlPlane /\ Plane) \/ Rolls(x) \/ Raises(x)
    BY DEF InFlight
  <1> HIDE DEF Rolls, Raises, Plane
  <1> QED
    BY <1>4, <1>5, <1>6, <1>7 DEF OneInFlight

\* However many terminals, with a target at most one minor ahead whatever is in flight goes
\* to the target, and what Execute does before it is done.
THEOREM OneHopCorrect ==
  ASSUME OneHop, InstalledOnce, ListedOnce, AddonsAtRest
  PROVE  Spec => []OneHopInvariant
  <1>1. PICK t \in Minors : Targets = {t} /\ \A c \in StartClusters : t <= c.cp.version + 1
    BY DEF OneHop
  <1>2. Init => OneHopInvariant
    BY <1>1, OneHopInit
  <1>3. OneHopInvariant /\ [Next]_vars => OneHopInvariant'
    BY <1>1, OneHopKept
  <1> QED
    BY <1>2, <1>3, PTL DEF Spec

\* A run that finds the update of an earlier run, or of another terminal, still going never
\* starts a second one: with a target at most one minor ahead, upgrades are serial.
THEOREM OneInFlightCorrect ==
  ASSUME OneHop, InstalledOnce, ListedOnce, AddonsAtRest
  PROVE  Spec => []OneInFlight
  <1>1. Spec => []OneHopInvariant
    BY OneHopCorrect
  <1>2. OneHopInvariant => OneInFlight
    BY OneInFlightHolds DEF OneHop
  <1> QED
    BY <1>1, <1>2, PTL

\* What several terminals with the same hop to go report is true: a phase is called completed
\* and an upgrade complete only of a cluster that is there, whoever brought it there, and
\* nodes and dependants wait for add-ons that another terminal updates.
THEOREM SharedHopCorrect ==
  ASSUME OneHop, InstalledOnce, ListedOnce, AddonsAtRest
  PROVE  Spec => [](ReportTruthful /\ SuccessMeansUpgraded /\ RollAfterAddons /\ DependenciesFirst)
  <1>1. Spec => []OneHopInvariant
    BY OneHopCorrect
  <1>2. OneHopInvariant =>
          ReportTruthful /\ SuccessMeansUpgraded /\ RollAfterAddons /\ DependenciesFirst
    BY DEF OneHopInvariant, SerialInvariant
  <1> QED
    BY <1>1, <1>2, PTL
=================================================================================
