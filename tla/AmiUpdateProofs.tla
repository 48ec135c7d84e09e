---------------------------- MODULE AmiUpdateProofs ----------------------------
(***************************************************************************)
(* Theorems about AmiUpdate, for every fleet, every set of nodegroups and    *)
(* flags, every number of AMI releases and every number of faults.           *)
(***************************************************************************)
EXTENDS AmiInvariant, TLAPS

--------------------------------------------------------------------------------
(***************************************************************************)
(* What the operators of the model return.                                   *)
(***************************************************************************)

\* The lists of an outcome, and what is reported of a cluster.
Outcomes == [{"started", "skipped", "custom", "failed"} -> SUBSET Nodegroups]
Results == [outcome : Outcomes, healthBlocked : BOOLEAN, verifyFailed : BOOLEAN, error : 0 .. 3]

LEMMA NoOutcomeType == NoOutcome \in Outcomes
  BY DEF NoOutcome, Outcomes

LEMMA NoResultType == NoResult \in Results
  BY NoOutcomeType DEF NoResult, Results

LEMMA ClusterResultType ==
  ASSUME TypeOK, NEW code \in 0 .. 3
  PROVE  ClusterResult(code) \in Results
  BY NoResultType DEF TypeOK, ClusterResult, Results, Outcomes

LEMMA SelectionType ==
  ASSUME TypeOK, NEW c \in Clusters
  PROVE  Selection(c) \in Seq(Nodegroups)
  BY FleetAssumption DEF TypeOK, Selection

\* A fleet names its clusters one by one.
LEMMA OneByOne ==
  /\ \A j \in 1 .. Len(ClusterOrder) : ClusterOrder[j] \in Clusters
  /\ \A i, j \in 1 .. Len(ClusterOrder) : i # j => ClusterOrder[i] # ClusterOrder[j]
  /\ \A c \in Clusters : \E j \in 1 .. Len(ClusterOrder) : ClusterOrder[j] = c
  /\ Len(ClusterOrder) \in Nat
  <1>1. ClusterOrder \in Seq(Clusters)
    BY FleetAssumption
  <1>2. \A i, j \in 1 .. Len(ClusterOrder) : ClusterOrder[i] = ClusterOrder[j] => i = j
    BY FleetAssumption
  <1>3. \A c \in Clusters : \E j \in 1 .. Len(ClusterOrder) : ClusterOrder[j] = c
    BY FleetAssumption
  <1> QED
    BY <1>1, <1>2, <1>3

LEMMA CurrentType ==
  ASSUME TypeOK, at \in 1 .. Len(ClusterOrder)
  PROVE  Current \in Clusters
  BY FleetAssumption DEF TypeOK, Current

\* The fleet's exit code is one of four, and the worst of those of its clusters.
LEMMA FleetExitWorst ==
  /\ FleetExit(result) \in {0, 3, 4, 5}
  /\ \A c \in Clusters : FleetCode(result[c]) <= FleetExit(result)
  <1> DEFINE codes == {FleetCode(result[c]) : c \in Clusters}
  <1>1. \A c \in Clusters : FleetCode(result[c]) \in {0, 3, 4, 5}
    BY DEF FleetCode
  <1>2. codes \subseteq {0, 3, 4, 5} /\ codes # {}
    <2>1. Clusters # {}
      BY FleetAssumption
    <2> QED
      BY <1>1, <2>1, Zenon
  <1>3. \E worst \in codes : \A code \in codes : code <= worst
    <2> HIDE DEF codes
    <2>1. CASE 5 \in codes
      BY <1>2, <2>1
    <2>2. CASE 5 \notin codes /\ 4 \in codes
      BY <1>2, <2>2
    <2>3. CASE 5 \notin codes /\ 4 \notin codes /\ 3 \in codes
      BY <1>2, <2>3
    <2>4. CASE codes = {0}
      BY <2>4
    <2> QED
      BY <1>2, <2>1, <2>2, <2>3, <2>4
  <1>4. FleetExit(result) \in codes /\ \A code \in codes : code <= FleetExit(result)
    BY <1>3 DEF FleetExit
  <1> QED
    BY <1>2, <1>4

\* A cluster's part of the fleet's code is no better than the code of a run of its own,
\* when only a cluster with an error was blocked.
LEMMA FleetCodeWorse ==
  ASSUME NEW r \in Results, r.healthBlocked => r.error # 0
  PROVE  UpdateExit(r) <= FleetCode(r)
  BY DEF UpdateExit, FleetCode, Results

LEMMA UpdateExitType ==
  ASSUME NEW r \in Results
  PROVE  UpdateExit(r) \in 0 .. NoExit
  BY DEF UpdateExit, Results, NoExit

--------------------------------------------------------------------------------
(***************************************************************************)
(* Types and places. Every step of the process keeps the types, leaves it at *)
(* a cluster of the batch and reports only on the cluster it is at.           *)
(***************************************************************************)
Located == TypeOK /\ PlaceOK /\ Unreported

\* Reporting on the current cluster touches its result, the call and the exit code.
LEMMA EndClusterEffect ==
  ASSUME Located, pc \in InCluster, NEW r \in Results, EndCluster(r)
  PROVE  /\ result' = [result EXCEPT ![Current] = r]
         /\ result' \in [Clusters -> Results]
         /\ Current \in Clusters
         /\ UNCHANGED <<flags, kube, targets, at, ctx, goal, others>>
         /\ flags.fleet => pc' = "next" /\ exit' = exit
         /\ ~flags.fleet => pc' = "done" /\ exit' = UpdateExit(r) /\ exit' \in 0 .. NoExit
  <1>1. Current \in Clusters
    BY CurrentType DEF Located, PlaceOK
  <1>2. result' = [result EXCEPT ![Current] = r] /\ result' \in [Clusters -> Results]
    BY DEF EndCluster, Located, TypeOK, Results, Outcomes
  <1>3. CASE flags.fleet
    BY <1>1, <1>2, <1>3 DEF EndCluster, Goto, history
  <1>4. CASE ~flags.fleet
    BY <1>1, <1>2, <1>4, UpdateExitType DEF EndCluster, Goto, Exit, history
  <1> QED
    BY <1>3, <1>4

\* So it leaves the process well placed, provided a blocked cluster has an error.
LEMMA EndClusterLocated ==
  ASSUME Located, pc \in InCluster, NEW r \in Results, EndCluster(r), SameLoop, CloudStill,
         faults' \in Nat, r.healthBlocked => r.error # 0
  PROVE  Located'
  <1>1. TypeOK'
    BY EndClusterEffect DEF Located, TypeOK, PlaceOK, SameLoop, loopVars, CloudStill, Labels, Results,
                           Outcomes
  <1>2. PlaceOK'
    BY EndClusterEffect DEF Located, TypeOK, PlaceOK, InCluster, Looping, Starting, Before, Current
  <1>3. Unreported'
    <2> USE EndClusterEffect DEF Located
    <2>1. pc' \notin Before /\ pc' \notin InCluster
      BY DEF InCluster, Looping, Starting, Before
    <2>2. \A j \in 1 .. Len(ClusterOrder) : j > at => ClusterOrder[j] \in Clusters \ {Current}
      <3>1. at \in 1 .. Len(ClusterOrder)
        BY DEF PlaceOK
      <3> QED
        BY <3>1, OneByOne DEF Current
    <2>3. \A c \in Clusters : result'[c] = r \/ result'[c] = result[c]
      BY DEF TypeOK
    <2>4. \A c \in Clusters \ {Current} : result'[c] = result[c]
      BY DEF TypeOK
    <2>5. at' = at
      OBVIOUS
    <2> QED
      BY <2>1, <2>2, <2>3, <2>4, <2>5 DEF Unreported
  <1> QED
    BY <1>1, <1>2, <1>3 DEF Located

\* A step within a cluster, or on the way to the first one, reports nothing.
LEMMA NothingReported ==
  ASSUME Located, UNCHANGED <<at, result>>, pc' \in Before => pc \in Before,
         pc' \in InCluster => pc \in InCluster \cup Before \cup {"next"} /\ pc # "next"
  PROVE  Unreported'
  <1>1. pc \in Before /\ pc' \in InCluster => \A c \in Clusters : result[c] = NoResult
    BY DEF Located, Unreported
  <1> QED
    BY <1>1, OneByOne DEF Located, Unreported

\* A disposition is that of the nodegroup at the loop's position.
LEMMA ItemType ==
  ASSUME Located, pc \in Looping, pos <= Len(selected)
  PROVE  pos \in 1 .. Len(selected) /\ Item \in Nodegroups /\ selected \in Seq(Nodegroups)
  BY DEF Located, TypeOK, PlaceOK, Item

LEMMA DisposeLocated ==
  ASSUME Located, pc \in {"describe", "latest", "current", "start"}, pos <= Len(selected),
         NEW list \in Lists, Dispose(list), faults' \in Nat, UNCHANGED <<latest, pending>>,
         nodegroup' \in [Nodegroups -> NodegroupStates],
         mine' \in [Nodegroups -> UpdateStatuses], seen' \in [Nodegroups -> UpdateStatuses],
         memo' = memo
  PROVE  Located'
  <1>1. pc \in Looping /\ pc \in InCluster
    BY DEF Looping, InCluster, Starting
  <1>2. pos \in 1 .. Len(selected) /\ Item \in Nodegroups /\ selected \in Seq(Nodegroups)
    BY <1>1, ItemType
  <1>3. outcome' \in Outcomes
    BY <1>2 DEF Dispose, Outcomes, Lists, Located, TypeOK
  <1>4. pos' = pos + 1 /\ pos' \in Nat /\ pos' \in 1 .. Len(selected) + 1
    BY <1>2 DEF Dispose
  <1>5. pc' = "describe" /\ UNCHANGED <<selected, preroll, issues, ctx, goal, others, flags, kube,
                                       targets, at, result, exit>>
    BY DEF Dispose, Goto, SameFleet, fleetVars, history
  <1>6. TypeOK'
    BY <1>3, <1>4, <1>5 DEF Located, TypeOK, Outcomes, Labels
  <1>7. PlaceOK'
    BY <1>1, <1>2, <1>4, <1>5
    DEF Located, PlaceOK, InCluster, Looping, Starting, Before, Current, Selection
  <1>8. Unreported'
    BY <1>1, <1>5, NothingReported DEF Before
  <1> QED
    BY <1>6, <1>7, <1>8 DEF Located

\* A step from one call to another within the loop of a cluster.
LEMMA WithinLoop ==
  ASSUME Located, pc \in Looping, pc' \in Looping, faults' \in Nat, CloudStill,
         pc' \in {"latest", "current", "start"} => pos' <= Len(selected),
         pos' \in 1 .. Len(selected) + 1,
         memo' \in [ok : BOOLEAN, ami : AMIs], seen' \in [Nodegroups -> UpdateStatuses],
         preroll' \subseteq Pods, issues' \in BOOLEAN,
         UNCHANGED <<selected, outcome, ctx, history>>, SameFleet
  PROVE  Located'
  <1>1. pos' \in Nat /\ pc' \in Labels
    BY DEF Located, TypeOK, Labels, Looping, Starting
  <1>2. UNCHANGED <<goal, others, flags, kube, targets, at, result, exit>>
    BY DEF history, SameFleet, fleetVars
  <1>3. TypeOK'
    BY <1>1, <1>2 DEF Located, TypeOK, CloudStill
  <1>4. PlaceOK'
    <2>1. /\ pc \in InCluster /\ pc \notin Before /\ pc # "done"
          /\ pc' \in InCluster /\ pc' \notin Before
          /\ pc' \notin {"done", "idle", "resolve", "discover", "confirm", "next"}
      BY DEF InCluster, Looping, Starting, Before
    <2>2. Current' = Current /\ Selection(Current)' = Selection(Current)
      BY <1>2 DEF Current, Selection
    <2>3. at' \in 1 .. Len(ClusterOrder) /\ (Current \in targets)'
      BY <1>2, <2>1, <2>2 DEF Located, PlaceOK
    <2>6. selected' = selected /\ (selected = Selection(Current))'
      BY <2>2 DEF Located, PlaceOK
    <2>4. ~flags'.fleet => \A c \in targets' : at' \in 1 .. Len(ClusterOrder) /\ c = Current'
      BY <1>2, <2>1, <2>2 DEF Located, PlaceOK
    <2>5. exit' = NoExit
      BY <1>2, <2>1 DEF Located, PlaceOK
    <2>7. pos' \in 1 .. Len(selected') + 1
      BY <2>6
    <2>8. pc' \in {"latest", "current", "start"} => pos' <= Len(selected')
      BY <2>6
    <2> QED
      BY <2>1, <2>3, <2>4, <2>5, <2>6, <2>7, <2>8, Zenon DEF PlaceOK
  <1>5. Unreported'
    BY <1>2, NothingReported DEF Before, Looping, Starting, InCluster
  <1> QED
    BY <1>3, <1>4, <1>5 DEF Located

\* What others, and the end of the context, leave alone.
LEMMA OutsideLocated ==
  ASSUME Located, UNCHANGED <<pc, loopVars, fleetVars, goal>>,
         ctx' \in {"live", "canceled", "deadline"}, faults' \in Nat,
         nodegroup' \in [Nodegroups -> NodegroupStates],
         mine' \in [Nodegroups -> UpdateStatuses], latest' \in AMIs,
         pending' \in [Clusters -> SUBSET Pods], others' \subseteq Nodegroups
  PROVE  Located'
  <1>1. TypeOK'
    BY DEF Located, TypeOK, loopVars, fleetVars
  <1>2. PlaceOK'
    BY DEF Located, PlaceOK, loopVars, fleetVars, Current, Selection
  <1>3. Unreported'
    BY DEF Located, Unreported, fleetVars
  <1> QED
    BY <1>1, <1>2, <1>3 DEF Located

\* The fault counter only counts.
LEMMA FaultsType ==
  ASSUME TypeOK
  PROVE  /\ NoFault => faults' \in Nat
         /\ \A kind : Fault(kind) => faults' \in Nat
         /\ CallFails => faults' \in Nat
         /\ Answered => faults' \in Nat
  <1>1. faults \in Nat
    BY DEF TypeOK
  <1>2. NoFault => faults' \in Nat
    BY <1>1 DEF NoFault
  <1>3. \A kind : Fault(kind) => faults' \in Nat
    BY <1>1 DEF Fault
  <1> QED
    BY <1>2, <1>3 DEF CallFails, Answered

LEMMA LaunchLocated ==
  ASSUME Located, Launch
  PROVE  Located'
  <1>1. flags' \in [Switches -> BOOLEAN] /\ kube' \in KubeClusters \cup {NoCluster}
    BY FleetAssumption DEF Launch
  <1>2. pc = "idle" /\ pc' = (IF flags'.fleet THEN "discover" ELSE "resolve")
    BY DEF Launch, Goto
  <1>3. UNCHANGED <<ctx, targets, at, result, exit>> /\ SameLoop /\ CloudStill /\ NoFault
    BY DEF Launch
  <1>4. TypeOK'
    <2>1. goal' \in AMIs /\ others' \subseteq Nodegroups
      BY DEF Launch, Located, TypeOK
    <2> QED
      BY <1>1, <1>2, <1>3, <2>1 DEF Located, TypeOK, Labels, SameLoop, loopVars, CloudStill, NoFault
  <1>5. PlaceOK'
    BY <1>2, <1>3 DEF Located, PlaceOK, Before, InCluster, Looping, Starting
  <1>6. Unreported'
    BY <1>2, <1>3, NothingReported DEF Before, InCluster, Looping, Starting
  <1> QED
    BY <1>4, <1>5, <1>6 DEF Located

LEMMA ResolveLocated ==
  ASSUME Located, ResolveCluster
  PROVE  Located'
  <1>1. pc = "resolve" /\ ~flags.fleet /\ at = 0 /\ \A c \in Clusters : result[c] = NoResult
    BY DEF ResolveCluster, Located, PlaceOK, Unreported, Before
  <1>2. UNCHANGED <<flags, kube, result, ctx, goal, others>> /\ SameLoop /\ CloudStill
    BY DEF ResolveCluster, Exit, history
  <1>3. faults' \in Nat
    BY FaultsType DEF ResolveCluster, Located
  <1>4. CASE /\ at' \in 1 .. Len(ClusterOrder) /\ targets' = {ClusterOrder[at']}
             /\ pc' = "health" /\ exit' = exit
    <2>1. TypeOK'
      BY <1>2, <1>3, <1>4, OneByOne
      DEF Located, TypeOK, Labels, SameLoop, loopVars, CloudStill
    <2>2. PlaceOK'
      BY <1>1, <1>2, <1>4 DEF Located, PlaceOK, Before, InCluster, Looping, Starting, Current
    <2>3. Unreported'
      BY <1>1, <1>2, <1>4, OneByOne DEF Located, Unreported, Before, NoResult
    <2> QED
      BY <2>1, <2>2, <2>3 DEF Located
  <1>5. CASE Exit(1)
    <2>1. TypeOK'
      BY <1>2, <1>3, <1>5
      DEF Located, TypeOK, Labels, SameLoop, loopVars, CloudStill, Exit, Goto, NoExit
    <2>2. targets = {}
      BY <1>1 DEF Located, PlaceOK
    <2>3. PlaceOK'
      BY <1>1, <1>2, <1>5, <2>2
      DEF Located, PlaceOK, Before, InCluster, Looping, Starting, Exit, Goto
    <2>4. Unreported'
      BY <1>2, <1>5, NothingReported DEF Exit, Goto, Before, InCluster, Looping, Starting
    <2> QED
      BY <2>1, <2>3, <2>4 DEF Located
  <1> QED
    BY <1>4, <1>5 DEF ResolveCluster, Goto

LEMMA DiscoverLocated ==
  ASSUME Located, DiscoverFleetTargets
  PROVE  Located'
  <1>1. pc = "discover" /\ flags.fleet /\ at = 0
    BY DEF DiscoverFleetTargets, Located, PlaceOK, Before
  <1>2. UNCHANGED <<flags, kube, at, result, ctx, goal, others>> /\ SameLoop /\ CloudStill
    BY DEF DiscoverFleetTargets, history
  <1>3. faults' \in Nat /\ targets' \subseteq Clusters
    BY FaultsType DEF DiscoverFleetTargets, Located
  <1>4. (pc' = "done" /\ exit' = 0) \/ (pc' = "confirm" /\ exit' = exit)
    BY DEF DiscoverFleetTargets, Goto
  <1>5. TypeOK'
    BY <1>2, <1>3, <1>4 DEF Located, TypeOK, Labels, SameLoop, loopVars, CloudStill, NoExit
  <1>6. PlaceOK'
    BY <1>1, <1>2, <1>4 DEF Located, PlaceOK, Before, InCluster, Looping, Starting
  <1>7. Unreported'
    BY <1>1, <1>2, <1>4, NothingReported DEF Before, InCluster, Looping, Starting
  <1> QED
    BY <1>5, <1>6, <1>7 DEF Located

LEMMA ConfirmLocated ==
  ASSUME Located, ConfirmFleet
  PROVE  Located'
  <1>1. pc = "confirm" /\ flags.fleet /\ at = 0
    BY DEF ConfirmFleet, Located, PlaceOK, Before
  <1>2. UNCHANGED <<kube, targets, at, result, ctx, goal, others>> /\ SameLoop /\ CloudStill
    BY DEF ConfirmFleet, history, Exit
  <1>3. faults' \in Nat
    BY FaultsType DEF ConfirmFleet, Located
  <1>4. /\ flags' \in [Switches -> BOOLEAN] /\ flags'.fleet
        /\ (pc' = "done" /\ exit' \in {0, 1}) \/ (pc' = "next" /\ exit' = exit)
    <2>1. flags \in [Switches -> BOOLEAN] /\ "fleet" # "yes"
      BY DEF Located, TypeOK
    <2>2. flags' = flags \/ flags' = [flags EXCEPT !["yes"] = TRUE]
      BY DEF ConfirmFleet, Exit
    <2>3. flags' \in [Switches -> BOOLEAN] /\ flags'["fleet"] = flags["fleet"]
      <3>1. CASE flags' = flags
        BY <2>1, <3>1
      <3>2. CASE flags' = [flags EXCEPT !["yes"] = TRUE]
        BY <2>1, <3>2, "fleet" \in Switches, "yes" # "fleet" DEF Switches
      <3> QED
        BY <2>2, <3>1, <3>2
    <2> QED
      BY <1>1, <2>3 DEF ConfirmFleet, Exit, Goto
  <1>5. TypeOK'
    BY <1>2, <1>3, <1>4 DEF Located, TypeOK, Labels, SameLoop, loopVars, CloudStill, NoExit
  <1>6. PlaceOK'
    BY <1>1, <1>2, <1>4 DEF Located, PlaceOK, Before, InCluster, Looping, Starting
  <1>7. Unreported'
    BY <1>1, <1>2, <1>4, NothingReported DEF Before, InCluster, Looping, Starting
  <1> QED
    BY <1>5, <1>6, <1>7 DEF Located

LEMMA NextClusterLocated ==
  ASSUME Located, NextCluster
  PROVE  Located'
  <1>1. pc = "next" /\ flags.fleet
    BY DEF NextCluster, Located, PlaceOK
  <1>2. UNCHANGED <<flags, kube, targets, result, ctx, goal, others>> /\ SameLoop /\ CloudStill
    BY DEF NextCluster, history, Exit
  <1>3. faults' \in Nat /\ at \in Nat
    <2>1. TypeOK /\ NoFault
      BY DEF NextCluster, Located
    <2>2. at \in Nat
      BY <2>1, OneByOne DEF TypeOK
    <2> QED
      BY <2>1, <2>2, FaultsType
  <1>4. CASE at' \in Ahead /\ pc' = "health" /\ exit' = exit
    <2>1. at' \in 1 .. Len(ClusterOrder) /\ at < at' /\ ClusterOrder[at'] \in targets
      BY <1>3, <1>4, OneByOne DEF Ahead
    <2>2. TypeOK'
      BY <1>2, <1>3, <1>4, <2>1 DEF Located, TypeOK, Labels, SameLoop, loopVars, CloudStill
    <2>3. PlaceOK'
      BY <1>1, <1>2, <1>4, <2>1
      DEF Located, PlaceOK, Before, InCluster, Looping, Starting, Current
    <2>4. Unreported'
      BY <1>1, <1>2, <1>3, <1>4, <2>1 DEF Located, Unreported, Before
    <2> QED
      BY <2>2, <2>3, <2>4 DEF Located
  <1>5. CASE Exit(FleetExit(result))
    <2>1. TypeOK'
      BY <1>2, <1>3, <1>5, FleetExitWorst
      DEF Located, TypeOK, Labels, SameLoop, loopVars, CloudStill, Exit, Goto, NoExit
    <2>2. PlaceOK'
      BY <1>1, <1>2, <1>5 DEF Located, PlaceOK, Before, InCluster, Looping, Starting, Exit, Goto
    <2>3. Unreported'
      BY <1>1, <1>2, <1>5, NothingReported
      DEF Before, InCluster, Looping, Starting, Exit, Goto
    <2> QED
      BY <2>1, <2>2, <2>3 DEF Located
  <1> QED
    BY <1>4, <1>5 DEF NextCluster, Goto

LEMMA FlagTypes == TypeOK => \A f \in Switches : flags[f] \in BOOLEAN
  BY DEF TypeOK

\* What a gate may answer: an error stops the cluster.
LEMMA GateVerdicts ==
  ASSUME TypeOK, NEW v \in PreflightHealthCheck
  PROVE  /\ v.done \in BOOLEAN /\ v.code \in 0 .. 3
         /\ v.done /\ v.code = 0 => flags.healthOnly
  <1>1. CASE GateSkipped
    <2>1. v = Verdict(flags.healthOnly, 0)
      BY <1>1 DEF PreflightHealthCheck
    <2> QED
      BY <2>1, FlagTypes DEF Verdict, Switches
  <1>2. CASE ~GateSkipped
    <2>1. PICK d \in Decisions : v \in ApplyHealthDecision(d)
      BY <1>2 DEF PreflightHealthCheck
    <2>2. CASE d = "BLOCK"
      <3>1. v = Verdict(TRUE, IF flags.healthOnly THEN 3 ELSE 1)
        BY <2>1, <2>2 DEF ApplyHealthDecision
      <3> QED
        BY <3>1 DEF Verdict
    <2>3. CASE d = "PROCEED"
      <3>1. v = Verdict(flags.healthOnly, 0)
        BY <2>1, <2>3 DEF ApplyHealthDecision
      <3> QED
        BY <3>1, FlagTypes DEF Verdict, Switches
    <2>4. CASE d = "WARN"
      <3>1. v \in OnWarnings
        BY <2>1, <2>4 DEF ApplyHealthDecision
      <3>2. v \in {Verdict(TRUE, 1), Verdict(TRUE, 2), Verdict(FALSE, 0)}
        BY <3>1 DEF OnWarnings
      <3>3. CASE v = Verdict(TRUE, 1) \/ v = Verdict(TRUE, 2)
        <4>1. v.done = TRUE /\ (v.code = 1 \/ v.code = 2)
          BY <3>3 DEF Verdict
        <4>2. v.code \in 0 .. 3 /\ v.code # 0
          BY <4>1
        <4> QED
          BY <4>1, <4>2, Zenon
      <3>4. CASE v = Verdict(FALSE, 0)
        BY <3>4 DEF Verdict
      <3> QED
        BY <3>2, <3>3, <3>4
    <2> QED
      BY <2>2, <2>3, <2>4 DEF Decisions
  <1> QED
    BY <1>1, <1>2

LEMMA HealthGateLocated ==
  ASSUME Located, HealthGate
  PROVE  Located'
  <1>1. pc = "health" /\ NoFault
    BY DEF HealthGate
  <1>2. PICK v \in PreflightHealthCheck :
          \/ ~v.done /\ Only("select")
          \/ /\ v.done /\ SameLoop /\ CloudStill
             /\ EndCluster([NoResult EXCEPT !.healthBlocked = v.code # 0, !.error = v.code])
    BY DEF HealthGate
  <1>3. CASE Only("select")
    <2>1. pc' = "select" /\ UNCHANGED <<flags, kube, targets, at, result, exit, ctx, goal, others>>
          /\ SameLoop /\ CloudStill
      BY <1>3 DEF Only, Goto, SameFleet, fleetVars, history
    <2>2. TypeOK'
      BY <1>1, <2>1, FaultsType DEF Located, TypeOK, Labels, SameLoop, loopVars, CloudStill
    <2>3. PlaceOK'
      BY <1>1, <2>1 DEF Located, PlaceOK, Before, InCluster, Looping, Starting, Current
    <2>4. Unreported'
      BY <1>1, <2>1, NothingReported DEF Before, InCluster, Looping, Starting
    <2> QED
      BY <2>2, <2>3, <2>4 DEF Located
  <1>4. CASE v.done
    <2> DEFINE r == [NoResult EXCEPT !.healthBlocked = v.code # 0, !.error = v.code]
    <2>1. r \in Results /\ (r.healthBlocked => r.error # 0)
      BY GateVerdicts, NoResultType DEF Located, Results
    <2>2. EndCluster(r) /\ SameLoop /\ CloudStill /\ pc \in InCluster
      BY <1>1, <1>2, <1>4 DEF InCluster
    <2>3. faults' \in Nat
      BY <1>1, FaultsType DEF Located
    <2> HIDE DEF r
    <2> QED
      BY <2>1, <2>2, <2>3, EndClusterLocated
  <1> QED
    BY <1>2, <1>3, <1>4

LEMMA SelectLocated ==
  ASSUME Located, SelectNodegroups
  PROVE  Located'
  <1>1. pc = "select" /\ pc \in InCluster /\ Current \in Clusters /\ at \in 1 .. Len(ClusterOrder)
    BY CurrentType DEF SelectNodegroups, InCluster, Located, PlaceOK
  <1>2. faults' \in Nat
    BY FaultsType DEF SelectNodegroups, Located
  <1>3. CASE EndCluster(NoResult) /\ SameLoop /\ CloudStill
    BY <1>1, <1>2, <1>3, EndClusterLocated, NoResultType DEF NoResult
  <1>4. CASE Refuse(1)
    <2> DEFINE r == [NoResult EXCEPT !.error = 1]
    <2>1. r \in Results /\ (r.healthBlocked => r.error # 0)
      BY NoResultType DEF Results
    <2>2. EndCluster(r) /\ SameLoop /\ CloudStill
      BY <1>4 DEF Refuse
    <2> HIDE DEF r
    <2> QED
      BY <1>1, <1>2, <2>1, <2>2, EndClusterLocated
  <1>5. CASE /\ pc' = "snapshot" /\ Selection(Current) # <<>>
             /\ selected' = Selection(Current) /\ pos' = 1 /\ memo' = Unread
             /\ outcome' = NoOutcome /\ issues' = FALSE
             /\ UNCHANGED <<seen, preroll, ctx, history>>
             /\ SameFleet /\ CloudStill
    <2>1. UNCHANGED <<flags, kube, targets, at, result, exit, goal, others>>
      BY <1>5 DEF history, SameFleet, fleetVars
    <2>2. Selection(Current) \in Seq(Nodegroups) /\ Len(Selection(Current)) \in Nat
      BY <1>1, SelectionType DEF Located
    <2>3. memo' \in [ok : BOOLEAN, ami : AMIs] /\ outcome' \in Outcomes
      BY <1>5, FleetAssumption, NoOutcomeType DEF Unread, AMIs
    <2>4. TypeOK'
      BY <1>2, <1>5, <2>1, <2>2, <2>3 DEF Located, TypeOK, Labels, CloudStill, Outcomes
    <2>5. Selection(Current)' = Selection(Current) /\ Current' = Current
      BY <2>1 DEF Selection, Current
    <2>6. PlaceOK'
      BY <1>1, <1>5, <2>1, <2>2, <2>5 DEF Located, PlaceOK, InCluster, Looping, Starting, Before
    <2>7. Unreported'
      BY <1>1, <1>5, <2>1, NothingReported DEF Before, Looping, Starting, InCluster
    <2> QED
      BY <2>4, <2>6, <2>7 DEF Located
  <1> QED
    BY <1>3, <1>4, <1>5 DEF SelectNodegroups, Goto

\* The calls before the loop and the lookups in it go on within the cluster.
LEMMA LookupLocated ==
  ASSUME Located, \/ SnapshotPendingPods \/ DescribeClusterVersion \/ LatestAmi
  PROVE  Located'
  <1>1. faults' \in Nat /\ CloudStill /\ SameFleet /\ UNCHANGED <<selected, outcome, ctx, history>>
        /\ pos' = pos /\ seen' = seen /\ issues' = issues
    BY FaultsType DEF SnapshotPendingPods, DescribeClusterVersion, LatestAmi, Located
  <1>2. pc \in Looping /\ pc' \in Looping
    BY DEF SnapshotPendingPods, DescribeClusterVersion, LatestAmi, Looping, Starting, Goto
  <1>3. pos' \in 1 .. Len(selected) + 1
    BY <1>1, <1>2 DEF Located, PlaceOK
  <1>4. pc' \in {"latest", "current", "start"} => pos' <= Len(selected)
    <2>1. pc' \in {"latest", "current", "start"} => pc = "latest"
      BY DEF SnapshotPendingPods, DescribeClusterVersion, LatestAmi, Goto
    <2> QED
      BY <1>1, <2>1 DEF Located, PlaceOK
  <1>5. memo' \in [ok : BOOLEAN, ami : AMIs]
    <2>1. 0 \in AMIs /\ latest \in AMIs /\ memo \in [ok : BOOLEAN, ami : AMIs]
      BY FleetAssumption DEF Located, TypeOK, AMIs
    <2>2. \/ memo' = memo \/ memo' = [ok |-> FALSE, ami |-> 0]
          \/ memo' = [ok |-> TRUE, ami |-> 0] \/ memo' = [ok |-> TRUE, ami |-> latest]
      BY DEF SnapshotPendingPods, DescribeClusterVersion, LatestAmi, Unread
    <2>3. \A ok \in BOOLEAN, ami \in AMIs :
            [ok |-> ok, ami |-> ami] \in [ok : BOOLEAN, ami : AMIs]
      OBVIOUS
    <2> QED
      BY <2>1, <2>2, <2>3, Zenon
  <1>6. preroll' \subseteq Pods
    <2>1. kube \in KubeClusters \cup {NoCluster} /\ preroll \subseteq Pods
      BY DEF Located, TypeOK
    <2>2. kube # NoCluster => pending[kube] \subseteq Pods
      BY <2>1, FleetAssumption DEF Located, TypeOK
    <2>3. \/ preroll' = preroll \/ preroll' = {}
          \/ kube # NoCluster /\ preroll' = pending[kube]
      BY DEF SnapshotPendingPods, DescribeClusterVersion, LatestAmi
    <2> QED
      BY <2>1, <2>2, <2>3
  <1>7. seen' \in [Nodegroups -> UpdateStatuses] /\ issues' \in BOOLEAN
    BY <1>1 DEF Located, TypeOK
  <1> QED
    BY <1>1, <1>2, <1>3, <1>4, <1>5, <1>6, <1>7, WithinLoop

LEMMA ItemsLocated ==
  ASSUME Located, DescribeNodegroup \/ CurrentAmi \/ UpdateNodegroupVersion
  PROVE  Located'
  <1>1. /\ pc \in {"describe", "latest", "current", "start"} /\ pos <= Len(selected)
        /\ pc \in Looping
    BY DEF DescribeNodegroup, InLoop, CurrentAmi, UpdateNodegroupVersion, Located, PlaceOK,
           Looping, Starting
  <1>2. pos \in 1 .. Len(selected) /\ Item \in Nodegroups /\ selected \in Seq(Nodegroups)
    BY <1>1, ItemType
  <1>3. memo' = memo /\ UNCHANGED <<latest, pending>>
    BY DEF DescribeNodegroup, CurrentAmi, UpdateNodegroupVersion, CloudStill
  <1>4. faults' \in Nat
    <2>1. TypeOK
      BY DEF Located
    <2> QED
      BY <2>1, FaultsType DEF DescribeNodegroup, CurrentAmi, UpdateNodegroupVersion
  <1>5. /\ nodegroup' \in [Nodegroups -> NodegroupStates]
        /\ mine' \in [Nodegroups -> UpdateStatuses] /\ seen' \in [Nodegroups -> UpdateStatuses]
    <2>1. /\ nodegroup \in [Nodegroups -> NodegroupStates] /\ latest \in AMIs
          /\ mine \in [Nodegroups -> UpdateStatuses] /\ seen \in [Nodegroups -> UpdateStatuses]
      BY DEF Located, TypeOK
    <2>2. Roll(Item) => nodegroup' \in [Nodegroups -> NodegroupStates]
      <3>1. nodegroup[Item] \in NodegroupStates
        BY <1>2, <2>1
      <3>2. [nodegroup[Item] EXCEPT !.status = "UPDATING", !.to = latest] \in NodegroupStates
        BY <2>1, <3>1 DEF NodegroupStates
      <3> QED
        BY <1>2, <2>1, <3>2 DEF Roll
    <2>3. nodegroup' = nodegroup \/ Roll(Item)
      BY DEF DescribeNodegroup, CurrentAmi, UpdateNodegroupVersion, CloudStill
    <2>4. mine' = mine \/ mine' = [mine EXCEPT ![Item] = "InProgress"]
      BY DEF DescribeNodegroup, CurrentAmi, UpdateNodegroupVersion, CloudStill
    <2>5. seen' = seen \/ seen' = [seen EXCEPT ![Item] = "InProgress"]
      BY DEF DescribeNodegroup, CurrentAmi, UpdateNodegroupVersion
    <2>6. "InProgress" \in UpdateStatuses
      BY DEF UpdateStatuses
    <2> QED
      BY <2>1, <2>2, <2>3, <2>4, <2>5, <2>6
  <1>6. CASE \E list \in Lists : Dispose(list)
    BY <1>1, <1>3, <1>4, <1>5, <1>6, DisposeLocated
  <1>7. CASE /\ pc' \in {"latest", "start", "current"}
             /\ UNCHANGED <<selected, pos, outcome, preroll, issues, ctx, history>>
             /\ SameFleet /\ CloudStill
    <2>1. pc' \in Looping
      BY <1>7 DEF Looping, Starting
    <2>2. preroll' \subseteq Pods /\ issues' \in BOOLEAN /\ memo' \in [ok : BOOLEAN, ami : AMIs]
      BY <1>3, <1>7 DEF Located, TypeOK
    <2>3. pos' \in 1 .. Len(selected) + 1 /\ pos' <= Len(selected)
      BY <1>2, <1>7
    <2> QED
      BY <1>1, <1>4, <1>5, <1>7, <2>1, <2>2, <2>3, WithinLoop
  <1>8. CASE DescribeNodegroup
    BY <1>6, <1>7, <1>8 DEF DescribeNodegroup, Goto, AfterDescribe, Lists
  <1>9. CASE CurrentAmi
    BY <1>6, <1>7, <1>9 DEF CurrentAmi, Goto, Lists
  <1>10. CASE UpdateNodegroupVersion
    BY <1>6, <1>10 DEF UpdateNodegroupVersion, Lists
  <1> QED
    BY <1>8, <1>9, <1>10

\* A cluster whose updates were started ends with its result, whatever ends it.
LEMMA ReportLocated ==
  ASSUME Located, pc \in InCluster, NEW code \in 0 .. 3, NEW verifyFailed \in BOOLEAN,
         EndCluster([ClusterResult(code) EXCEPT !.verifyFailed = verifyFailed]),
         SameLoop, CloudStill, faults' \in Nat
  PROVE  Located'
  <1> DEFINE r == [ClusterResult(code) EXCEPT !.verifyFailed = verifyFailed]
  <1>1. r \in Results
    BY ClusterResultType DEF Located, Results
  <1>2. ~r.healthBlocked
    <2>1. ClusterResult(code) \in Results /\ ~ClusterResult(code).healthBlocked
      BY ClusterResultType DEF ClusterResult, NoResult, Located
    <2> QED
      BY <2>1 DEF Results
  <1>3. EndCluster(r)
    OBVIOUS
  <1> HIDE DEF r
  <1> QED
    BY <1>1, <1>2, <1>3, EndClusterLocated

LEMMA ResultAsItIs == ASSUME TypeOK, NEW code \in 0 .. 3
                      PROVE  ClusterResult(code) = [ClusterResult(code) EXCEPT !.verifyFailed = issues]
  BY DEF ClusterResult, NoResult

LEMMA MonitoredLocated ==
  ASSUME Located, pc = "monitor", NEW code \in 0 .. 1, Monitored(code), NoFault
  PROVE  Located'
  <1>1. pc \in Looping /\ pc \in InCluster /\ faults' \in Nat /\ issues \in BOOLEAN /\ TypeOK
    BY FaultsType DEF Looping, InCluster, Located, TypeOK
  <1>2. CASE EndCluster(ClusterResult(code)) /\ SameLoop /\ CloudStill
    BY <1>1, <1>2, ReportLocated, ResultAsItIs
  <1>3. CASE /\ pc' = "verify" /\ pos' = 1
             /\ UNCHANGED <<selected, memo, outcome, seen, preroll, issues, ctx, history>>
             /\ SameFleet /\ CloudStill
    <2>1. pc' \in Looping /\ pos' \in 1 .. Len(selected) + 1
      BY <1>3 DEF Looping, Located, TypeOK
    <2>2. /\ preroll' \subseteq Pods /\ issues' \in BOOLEAN
          /\ memo' \in [ok : BOOLEAN, ami : AMIs] /\ seen' \in [Nodegroups -> UpdateStatuses]
      BY <1>3 DEF Located, TypeOK
    <2> QED
      BY <1>1, <1>3, <2>1, <2>2, WithinLoop
  <1> QED
    BY <1>2, <1>3 DEF Monitored, Goto

LEMMA MonitorLocated ==
  ASSUME Located, \/ UpdatesStarted \/ CompletionSummary \/ MonitorStopped
                  \/ \E g \in Nodegroups : CheckSingleUpdate(g)
  PROVE  Located'
  <1>1. CASE CompletionSummary
    <2>1. pc = "monitor" /\ NoFault /\ \E code \in 0 .. 1 : Monitored(code)
      BY <1>1 DEF CompletionSummary
    <2> QED
      BY <2>1, MonitoredLocated
  <1>2. CASE MonitorStopped
    <2>1. pc = "monitor" /\ NoFault /\ \E code \in 0 .. 1 : Monitored(code)
      BY <1>2 DEF MonitorStopped
    <2> QED
      BY <2>1, MonitoredLocated
  <1>3. CASE UpdatesStarted
    <2>1. /\ pc = "describe" /\ pc \in Looping /\ pc \in InCluster
          /\ faults' \in Nat /\ issues \in BOOLEAN /\ TypeOK
      BY <1>3, FaultsType DEF UpdatesStarted, Looping, Starting, InCluster, Located, TypeOK
    <2>2. CASE EndCluster(ClusterResult(0)) /\ SameLoop /\ CloudStill
      BY <2>1, <2>2, ReportLocated, ResultAsItIs
    <2>3. CASE Only("monitor")
      <3>1. /\ pc' \in Looping /\ pc' = "monitor" /\ CloudStill /\ SameFleet
            /\ UNCHANGED <<selected, pos, memo, outcome, seen, preroll, issues, ctx, history>>
        BY <2>3 DEF Only, Goto, Looping, SameLoop, loopVars
      <3>2. /\ preroll' \subseteq Pods /\ issues' \in BOOLEAN /\ pos' \in 1 .. Len(selected) + 1
            /\ memo' \in [ok : BOOLEAN, ami : AMIs] /\ seen' \in [Nodegroups -> UpdateStatuses]
        BY <2>1, <3>1 DEF Located, TypeOK, PlaceOK
      <3> QED
        BY <2>1, <3>1, <3>2, WithinLoop
    <2> QED
      BY <1>3, <2>2, <2>3 DEF UpdatesStarted
  <1>4. ASSUME NEW g \in Nodegroups, CheckSingleUpdate(g)
        PROVE  Located'
    <2>1. /\ pc = "monitor" /\ pc' = pc /\ pc \in Looping /\ faults' \in Nat
          /\ UNCHANGED <<selected, pos, memo, outcome, preroll, issues, ctx, history>>
          /\ SameFleet /\ CloudStill
      BY <1>4, FaultsType DEF CheckSingleUpdate, Looping, Located
    <2>2. seen' \in [Nodegroups -> UpdateStatuses]
      BY <1>4 DEF CheckSingleUpdate, Located, TypeOK
    <2>3. /\ preroll' \subseteq Pods /\ issues' \in BOOLEAN /\ pos' \in 1 .. Len(selected) + 1
          /\ memo' \in [ok : BOOLEAN, ami : AMIs]
      BY <2>1 DEF Located, TypeOK, PlaceOK
    <2> QED
      BY <2>1, <2>2, <2>3, WithinLoop
  <1> QED
    BY <1>1, <1>2, <1>3, <1>4

LEMMA VerifyLocated ==
  ASSUME Located, VerifyNodegroup \/ VerifyPods
  PROVE  Located'
  <1>1. /\ pc = "verify" /\ pc \in Looping /\ pc \in InCluster /\ TypeOK /\ faults' \in Nat
    BY FaultsType DEF VerifyNodegroup, VerifyPods, Looping, InCluster, Located
  <1>2. CASE VerifyNodegroup
    <2>1. /\ pc' = "verify" /\ pos' = pos + 1 /\ pos <= Len(selected) /\ SameFleet /\ CloudStill
          /\ UNCHANGED <<selected, memo, outcome, seen, preroll, ctx, history>>
      BY <1>2 DEF VerifyNodegroup, Goto
    <2>2. issues' \in BOOLEAN
      BY <1>1, <1>2 DEF VerifyNodegroup, TypeOK
    <2>3. pos' \in 1 .. Len(selected) + 1
      BY <1>1, <2>1, ItemType
    <2>4. /\ preroll' \subseteq Pods /\ memo' \in [ok : BOOLEAN, ami : AMIs]
          /\ seen' \in [Nodegroups -> UpdateStatuses]
      BY <1>1, <2>1 DEF TypeOK
    <2> QED
      BY <1>1, <2>1, <2>2, <2>3, <2>4, WithinLoop
  <1>3. CASE VerifyPods
    <2>1. PICK bad \in BOOLEAN : EndCluster([ClusterResult(0) EXCEPT !.verifyFailed = bad])
      BY <1>3 DEF VerifyPods
    <2>2. SameLoop /\ CloudStill /\ 0 \in 0 .. 3
      BY <1>3 DEF VerifyPods
    <2> QED
      BY <1>1, <2>1, <2>2, ReportLocated
  <1> QED
    BY <1>2, <1>3

--------------------------------------------------------------------------------
(***************************************************************************)
(* What EKS and other people do between the calls of the process.            *)
(***************************************************************************)

\* The running updates go up or end, never start, and somebody else's rolls are
\* remembered.
CloudMoves ==
  /\ UNCHANGED <<pc, ctx, loopVars, fleetVars, goal>>
  /\ latest <= latest' /\ others \subseteq others'
  /\ \A g \in Nodegroups :
       /\ nodegroup[g].ami <= nodegroup'[g].ami /\ nodegroup'[g].ami <= nodegroup'[g].to
       /\ nodegroup'[g].to <= latest'
       /\ nodegroup'[g].status # "UPDATING" => nodegroup'[g].to = nodegroup'[g].ami
       /\ nodegroup'[g].status = "UPDATING" =>
            nodegroup[g].status = "UPDATING" \/ g \in others'
       /\ mine'[g] = mine[g] \/ (mine[g] = "InProgress" /\ mine'[g] \in Final)
       /\ mine'[g] = "InProgress" =>
            nodegroup'[g].status = "UPDATING" /\ nodegroup'[g].to >= goal
       /\ mine'[g] = "Successful" => nodegroup'[g].ami >= goal

LEMMA AmisAreNumbers == AMIs \subseteq Nat /\ 0 \in AMIs
  <1>1. LastAMI \in Nat
    BY FleetAssumption
  <1> QED
    BY <1>1 DEF AMIs

LEMMA NodegroupTypes ==
  ASSUME TypeOK
  PROVE  /\ latest \in Nat /\ goal \in Nat /\ memo.ami \in Nat
         /\ \A g \in Nodegroups :
              /\ nodegroup[g] \in NodegroupStates
              /\ nodegroup[g].ami \in AMIs /\ nodegroup[g].ami \in Nat
              /\ nodegroup[g].to \in AMIs /\ nodegroup[g].to \in Nat
  BY AmisAreNumbers DEF TypeOK, NodegroupStates

LEMMA OneMoves ==
  ASSUME Located, CloudOK, NEW g \in Nodegroups, NEW n \in NodegroupStates,
         NEW m \in UpdateStatuses,
         nodegroup' = [nodegroup EXCEPT ![g] = n], mine' = [mine EXCEPT ![g] = m],
         UNCHANGED <<pc, ctx, loopVars, fleetVars, goal, latest, pending>>,
         faults' \in Nat, others \subseteq others', others' \subseteq Nodegroups,
         nodegroup[g].ami <= n.ami, n.ami <= n.to, n.to <= latest,
         n.status # "UPDATING" => n.to = n.ami,
         n.status = "UPDATING" => nodegroup[g].status = "UPDATING" \/ g \in others',
         m = mine[g] \/ (mine[g] = "InProgress" /\ m \in Final),
         m = "InProgress" => n.status = "UPDATING" /\ n.to >= goal,
         m = "Successful" => n.ami >= goal
  PROVE  Located' /\ CloudMoves
  <1>1. /\ nodegroup \in [Nodegroups -> NodegroupStates] /\ mine \in [Nodegroups -> UpdateStatuses]
        /\ ctx' \in {"live", "canceled", "deadline"} /\ latest' \in AMIs
        /\ pending' \in [Clusters -> SUBSET Pods]
    BY DEF Located, TypeOK
  <1>2. /\ nodegroup' \in [Nodegroups -> NodegroupStates] /\ nodegroup'[g] = n
        /\ mine' \in [Nodegroups -> UpdateStatuses] /\ mine'[g] = m
        /\ \A h \in Nodegroups \ {g} : nodegroup'[h] = nodegroup[h] /\ mine'[h] = mine[h]
    BY <1>1
  <1>3. Located'
    BY <1>1, <1>2, OutsideLocated
  <1>4. latest \in Nat /\ \A h \in Nodegroups : nodegroup[h].ami \in Nat
    BY NodegroupTypes DEF Located
  <1>5. CloudMoves
    BY <1>2, <1>4 DEF CloudOK, CloudMoves
  <1> QED
    BY <1>3, <1>5

LEMMA FinishRollMoves ==
  ASSUME Located, CloudOK, NEW g \in Nodegroups, NEW status \in Final,
         NEW inEffect \in {nodegroup[g].ami, nodegroup[g].to},
         status = "Successful" => inEffect = nodegroup[g].to,
         NEW health \in {"ACTIVE", "DEGRADED"}, FinishRoll(g, status, inEffect, health),
         faults' \in Nat
  PROVE  Located' /\ CloudMoves
  <1> DEFINE n == [ami |-> inEffect, to |-> inEffect, status |-> health]
             m == IF mine[g] = "InProgress" THEN status ELSE mine[g]
  <1>1. /\ nodegroup[g].status = "UPDATING" /\ nodegroup' = [nodegroup EXCEPT ![g] = n]
        /\ mine' = [mine EXCEPT ![g] = m]
        /\ UNCHANGED <<pc, ctx, loopVars, fleetVars, goal, latest, pending, others>>
    BY DEF FinishRoll, RunStill, history
  <1>2. /\ n.ami = inEffect /\ n.to = inEffect /\ n.status = health /\ health # "UPDATING"
    OBVIOUS
  <1>3. n \in NodegroupStates /\ inEffect \in Nat
    <2>1. inEffect \in AMIs /\ inEffect \in Nat
      BY NodegroupTypes DEF Located
    <2> QED
      BY <2>1 DEF NodegroupStates
  <1>4. m \in UpdateStatuses
    BY DEF UpdateStatuses, Located, TypeOK
  <1>5. /\ nodegroup[g].ami \in Nat /\ nodegroup[g].to \in Nat /\ latest \in Nat /\ goal \in Nat
        /\ nodegroup[g].ami <= nodegroup[g].to /\ nodegroup[g].to <= latest
        /\ mine[g] = "InProgress" => nodegroup[g].to >= goal
        /\ mine[g] = "Successful" => nodegroup[g].ami >= goal
    BY NodegroupTypes DEF CloudOK, Located
  <1>6. nodegroup[g].ami <= inEffect /\ inEffect <= inEffect /\ inEffect <= latest
    BY <1>5
  <1>7. m = mine[g] \/ (mine[g] = "InProgress" /\ m \in Final)
    OBVIOUS
  <1>8. m # "InProgress" /\ (m = "Successful" => inEffect >= goal)
    BY <1>5 DEF Final
  <1>9. others \subseteq others' /\ others' \subseteq Nodegroups
    BY <1>1 DEF Located, TypeOK
  <1> HIDE DEF n, m
  <1> QED
    BY <1>1, <1>2, <1>3, <1>4, <1>6, <1>7, <1>8, <1>9, OneMoves

\* A roll somebody else starts, or a change of health.
LEMMA StatusMoves ==
  ASSUME Located, CloudOK, NEW g \in Nodegroups, SomebodyElseRolls(g) \/ HealthChanges(g)
  PROVE  Located' /\ CloudMoves
  <1>1. /\ nodegroup \in [Nodegroups -> NodegroupStates] /\ mine \in [Nodegroups -> UpdateStatuses]
        /\ latest \in AMIs /\ nodegroup[g] \in NodegroupStates /\ latest \in Nat
        /\ nodegroup[g].ami \in Nat /\ nodegroup[g].to \in Nat
    BY NodegroupTypes DEF Located, TypeOK
  <1>2. UNCHANGED <<pc, ctx, loopVars, fleetVars, goal, latest, pending, mine>>
    BY DEF SomebodyElseRolls, HealthChanges, RunStill, history
  <1>3. faults' \in Nat
    BY FaultsType DEF SomebodyElseRolls, HealthChanges, Located
  <1>4. others' \subseteq Nodegroups /\ others \subseteq others'
    BY DEF SomebodyElseRolls, HealthChanges, history, Located, TypeOK
  <1>5. PICK n \in NodegroupStates :
          /\ nodegroup' = [nodegroup EXCEPT ![g] = n] /\ nodegroup[g].status # "UPDATING"
          /\ n.ami = nodegroup[g].ami
          /\ \/ n.status # "UPDATING" /\ n.to = nodegroup[g].to
             \/ n.status = "UPDATING" /\ n.to = latest /\ g \in others'
    <2>1. CASE SomebodyElseRolls(g)
      <3> DEFINE n == [nodegroup[g] EXCEPT !.status = "UPDATING", !.to = latest]
      <3>1. n \in NodegroupStates /\ n.ami = nodegroup[g].ami /\ n.status = "UPDATING"
            /\ n.to = latest
        BY <1>1 DEF NodegroupStates
      <3>2. nodegroup' = [nodegroup EXCEPT ![g] = n] /\ nodegroup[g].status = "ACTIVE"
            /\ g \in others'
        BY <1>1, <2>1 DEF SomebodyElseRolls, Roll
      <3> QED
        BY <3>1, <3>2
    <2>2. CASE HealthChanges(g)
      <3>1. PICK health \in {"ACTIVE", "DEGRADED"} :
              /\ nodegroup' = [nodegroup EXCEPT ![g].status = health]
              /\ nodegroup[g].status # "UPDATING"
        BY <2>2 DEF HealthChanges
      <3> DEFINE n == [nodegroup[g] EXCEPT !.status = health]
      <3>2. n \in NodegroupStates /\ n.ami = nodegroup[g].ami /\ n.status # "UPDATING"
            /\ n.to = nodegroup[g].to
        BY <1>1 DEF NodegroupStates
      <3>3. nodegroup' = [nodegroup EXCEPT ![g] = n]
        BY <1>1, <3>1
      <3> QED
        BY <3>1, <3>2, <3>3
    <2> QED
      BY <2>1, <2>2
  <1>6. mine[g] \in UpdateStatuses /\ mine' = [mine EXCEPT ![g] = mine[g]]
    BY <1>1, <1>2
  <1>7. /\ nodegroup[g].to = nodegroup[g].ami /\ nodegroup[g].to <= latest
        /\ mine[g] # "InProgress" /\ (mine[g] = "Successful" => nodegroup[g].ami >= goal)
    BY <1>5 DEF CloudOK
  <1>8. /\ nodegroup[g].ami <= n.ami /\ n.ami <= n.to /\ n.to <= latest
        /\ n.status # "UPDATING" => n.to = n.ami
        /\ mine[g] = "Successful" => n.ami >= goal
        /\ n.status = "UPDATING" => g \in others'
    BY <1>1, <1>5, <1>7
  <1> QED
    BY <1>2, <1>3, <1>4, <1>5, <1>6, <1>7, <1>8, OneMoves

LEMMA CloudMovesStep ==
  ASSUME Located, CloudOK, CloudNext
  PROVE  Located' /\ CloudMoves
  <1>1. ASSUME NEW g \in Nodegroups, \/ RollSucceeds(g) \/ RollFails(g) \/ RollCancelled(g)
        PROVE  Located' /\ CloudMoves
    <2>1. faults' \in Nat
      BY <1>1, FaultsType DEF RollSucceeds, RollFails, RollCancelled, Located
    <2>2. \E status \in Final, inEffect \in {nodegroup[g].ami, nodegroup[g].to},
             health \in {"ACTIVE", "DEGRADED"} :
            /\ status = "Successful" => inEffect = nodegroup[g].to
            /\ FinishRoll(g, status, inEffect, health)
      BY <1>1 DEF RollSucceeds, RollFails, RollCancelled, Final
    <2> QED
      BY <2>1, <2>2, FinishRollMoves
  <1>2. ASSUME NEW g \in Nodegroups, SomebodyElseRolls(g) \/ HealthChanges(g)
        PROVE  Located' /\ CloudMoves
    BY <1>2, StatusMoves
  <1>3. ASSUME UNCHANGED <<pc, ctx, loopVars, fleetVars, goal, others, nodegroup, mine>>,
               latest' \in AMIs, latest <= latest', pending' \in [Clusters -> SUBSET Pods],
               faults' \in Nat
        PROVE  Located' /\ CloudMoves
    <2>1. /\ ctx' \in {"live", "canceled", "deadline"} /\ others' \subseteq Nodegroups
          /\ nodegroup' \in [Nodegroups -> NodegroupStates] /\ mine' \in [Nodegroups -> UpdateStatuses]
      BY <1>3 DEF Located, TypeOK
    <2>2. Located'
      BY <1>3, <2>1, OutsideLocated
    <2>3. latest \in Nat /\ latest' \in Nat /\ \A h \in Nodegroups :
             nodegroup[h].ami \in Nat /\ nodegroup[h].to \in Nat
      BY <1>3, AmisAreNumbers, NodegroupTypes DEF Located
    <2>4. CloudMoves
      BY <1>3, <2>3 DEF CloudMoves, CloudOK
    <2> QED
      BY <2>2, <2>4
  <1>4. ASSUME AmiReleased
        PROVE  Located' /\ CloudMoves
    <2>1. LastAMI \in Nat /\ latest \in 0 .. LastAMI
      BY FleetAssumption DEF Located, TypeOK, AMIs
    <2>2. latest' = latest + 1 /\ latest < LastAMI /\ NoFault
      BY <1>4 DEF AmiReleased
    <2>3. latest' \in AMIs /\ latest <= latest'
      BY <2>1, <2>2 DEF AMIs
    <2>4. faults' \in Nat
      BY <2>2, FaultsType DEF Located
    <2>5. UNCHANGED <<pc, ctx, loopVars, fleetVars, goal, others, nodegroup, mine, pending>>
      BY <1>4 DEF AmiReleased, RunStill, history
    <2>6. pending' \in [Clusters -> SUBSET Pods]
      BY <2>5 DEF Located, TypeOK
    <2> QED
      BY <1>3, <2>3, <2>4, <2>5, <2>6
  <1>5. ASSUME NEW c \in Clusters, NEW p \in Pods, PodChanges(c, p)
        PROVE  Located' /\ CloudMoves
    <2>1. pending \in [Clusters -> SUBSET Pods] /\ latest \in AMIs /\ latest \in Nat
      BY NodegroupTypes DEF Located, TypeOK
    <2>2. UNCHANGED <<pc, ctx, loopVars, fleetVars, goal, others, nodegroup, mine, latest>>
      BY <1>5 DEF PodChanges, RunStill, history
    <2>3. \E set \in SUBSET Pods : pending' = [pending EXCEPT ![c] = set]
      BY <1>5, <2>1 DEF PodChanges
    <2>4. pending' \in [Clusters -> SUBSET Pods]
      BY <2>1, <2>3
    <2>5. faults' \in Nat
      BY <1>5, FaultsType DEF PodChanges, Located
    <2> QED
      BY <1>3, <2>1, <2>2, <2>4, <2>5
  <1> QED
    BY <1>1, <1>2, <1>4, <1>5 DEF CloudNext

LEMMA InitLocated == Init => Located
  <1> SUFFICES ASSUME Init PROVE Located
    OBVIOUS
  <1>1. 0 \in AMIs /\ latest \in AMIs /\ nodegroup \in [Nodegroups -> NodegroupStates]
    <2>1. LastAMI \in Nat /\ LastAMI >= 1
      BY FleetAssumption, StartAssumption
    <2> QED
      BY <2>1, StartAssumption DEF Init, AMIs
  <1>2. result \in [Clusters -> Results] /\ \A c \in Clusters : result[c] = NoResult
    BY NoResultType DEF Init
  <1>3. TypeOK
    <2>1. /\ mine \in [Nodegroups -> UpdateStatuses] /\ seen \in [Nodegroups -> UpdateStatuses]
          /\ pending \in [Clusters -> SUBSET Pods] /\ flags \in [Switches -> BOOLEAN]
      BY DEF Init, UpdateStatuses
    <2>2. /\ selected \in Seq(Nodegroups) /\ pos \in Nat /\ faults \in Nat /\ pc \in Labels
          /\ exit \in 0 .. NoExit /\ ctx \in {"live", "canceled", "deadline"}
      BY DEF Init, Labels, NoExit
    <2>3. at \in 0 .. Len(ClusterOrder)
      BY OneByOne DEF Init
    <2>4. memo \in [ok : BOOLEAN, ami : AMIs] /\ outcome \in Outcomes /\ goal \in AMIs
      BY <1>1, NoOutcomeType DEF Init, Unread
    <2>5. /\ targets \subseteq Clusters /\ preroll \subseteq Pods /\ issues \in BOOLEAN
          /\ others \subseteq Nodegroups /\ kube \in KubeClusters \cup {NoCluster}
      BY DEF Init
    <2> QED
      BY <1>1, <1>2, <2>1, <2>2, <2>3, <2>4, <2>5 DEF TypeOK, Results, Outcomes
  <1>4. PlaceOK
    BY DEF Init, PlaceOK, InCluster, Looping, Starting, Before
  <1>5. Unreported
    BY <1>2, OneByOne DEF Init, Unreported, InCluster, Looping, Starting, NoResult
  <1> QED
    BY <1>3, <1>4, <1>5 DEF Located

\* The deadline, or Ctrl+C.
LEMMA ContextDoneLocated ==
  ASSUME Located, ContextDone
  PROVE  Located'
  <1>1. UNCHANGED <<pc, loopVars, fleetVars, goal, others, nodegroup, mine, latest, pending>>
    BY DEF ContextDone, SameLoop, SameFleet, CloudStill, history
  <1>2. ctx' \in {"live", "canceled", "deadline"} /\ faults' \in Nat
    BY FaultsType DEF ContextDone, Located
  <1> QED
    BY <1>1, <1>2, OutsideLocated DEF Located, TypeOK

LEMMA LocatedStep ==
  ASSUME Located, CloudOK, [Next]_vars
  PROVE  Located'
  <1>1. CASE RunNext
    BY <1>1, ResolveLocated, DiscoverLocated, ConfirmLocated, NextClusterLocated,
       HealthGateLocated, SelectLocated, LookupLocated, ItemsLocated, MonitorLocated, VerifyLocated
    DEF RunNext
  <1>2. CASE UNCHANGED vars
    <2>1. UNCHANGED <<pc, loopVars, fleetVars, goal, others, nodegroup, mine, latest, pending,
                      ctx, faults>>
      BY <1>2 DEF vars, cloudVars, history
    <2> QED
      BY <2>1, OutsideLocated DEF Located, TypeOK
  <1> QED
    BY <1>1, <1>2, LaunchLocated, ContextDoneLocated, CloudMovesStep DEF Next

--------------------------------------------------------------------------------
(***************************************************************************)
(* The kinds of steps the process makes between the gate of a cluster and    *)
(* its result. Each safety invariant is preserved by each kind.              *)
(***************************************************************************)
Quiet == UNCHANGED <<nodegroup, mine, latest, goal, others, ctx>>
NoneFailed == \A g \in outcome.started : seen[g] # "Failed"

\* The cluster gets its result: of a loop, once all its nodegroups are disposed of.
Ends(r) ==
  /\ pc \in InCluster /\ Quiet /\ SameLoop /\ UNCHANGED <<flags, targets, at>>
  /\ result' = [result EXCEPT ![Current] = r]
  /\ flags.fleet => pc' = "next" /\ exit' = exit
  /\ ~flags.fleet => pc' = "done" /\ exit' = UpdateExit(r)
  /\ r.outcome # NoOutcome =>
       r.outcome = outcome /\ pc \in Looping /\ \A i \in 1 .. Len(selected) : Disposed(i)
  /\ ctx = "live" /\ ~flags.noWait =>
       \/ pc \in {"health", "select", "verify"}
       \/ AllComplete /\ \A i \in 1 .. Len(selected) : Disposed(i)
  /\ Undisturbed /\ r.error = 0 =>
       /\ pc \in Looping /\ r.outcome = outcome
       /\ pc = "verify" \/ (AllComplete /\ NoneFailed /\ \A i \in 1 .. Len(selected) : Disposed(i))

\* The loop begins.
Selects ==
  /\ pc = "select" /\ pc' = "snapshot" /\ Quiet
  /\ UNCHANGED <<flags, targets, at, result, exit, seen>>
  /\ selected' = Selection(Current) /\ pos' = 1 /\ memo' = Unread /\ outcome' = NoOutcome

\* The process goes on within the cluster, and disposes of no nodegroup.
Inside ==
  /\ Quiet /\ UNCHANGED <<flags, targets, at, result, exit, outcome, selected>>
  /\ \/ pc = "health" /\ pc' = "select" /\ UNCHANGED <<pos, memo, seen>>
     \/ /\ pc \in Starting /\ pc' \in Starting /\ UNCHANGED <<pos, seen>>
        /\ pc \in {"snapshot", "version"} \/ pc' \in {"latest", "current", "start"}
        /\ memo'.ok /\ memo'.ami # 0 => memo' = memo \/ memo'.ami = latest
        /\ pc' = "current" => memo'.ok /\ memo'.ami # 0
     \/ /\ pc = "describe" /\ pc' = "monitor" /\ pos > Len(selected)
        /\ UNCHANGED <<pos, memo, seen>>
     \/ /\ pc = "monitor" /\ pc' = "monitor" /\ UNCHANGED <<pos, memo>>
        /\ \A g \in Nodegroups : seen'[g] \in {seen[g], mine[g]}
     \/ /\ pc = "monitor" /\ pc' = "verify" /\ UNCHANGED <<memo, seen>>
        /\ ctx = "live" => AllComplete /\ NoneFailed
     \/ pc = "verify" /\ pc' = "verify" /\ UNCHANGED <<memo, seen>>

\* The nodegroup at the loop's position goes to a list. Only a start, answered or
\* not, touches the cloud.
Disposes(list) ==
  /\ pc \in {"describe", "current", "start"} /\ pos \in 1 .. Len(selected)
  /\ pc' = "describe" /\ pos' = pos + 1
  /\ outcome' = [outcome EXCEPT ![list] = outcome[list] \cup {Item}]
  /\ UNCHANGED <<selected, memo, latest, goal, others, ctx, flags, targets, at, result, exit>>
  /\ list = "custom" => Item \in CustomAMI
  /\ list = "skipped" =>
       \/ nodegroup[Item].status = "UPDATING"
       \/ pc = "current" /\ memo.ami \in {nodegroup[Item].ami, nodegroup[Item].to}
  /\ \/ list # "started" /\ UNCHANGED <<nodegroup, mine, seen>>
     \/ /\ list = "failed" /\ nodegroup[Item].status # "UPDATING" /\ Roll(Item)
        /\ UNCHANGED <<mine, seen>>
     \/ /\ list = "started" /\ nodegroup[Item].status # "UPDATING" /\ Roll(Item)
        /\ mine' = [mine EXCEPT ![Item] = "InProgress"]
        /\ seen' = [seen EXCEPT ![Item] = "InProgress"]

Kinds ==
  \/ \E r \in Results : Ends(r)
  \/ Selects
  \/ Inside
  \/ \E list \in Lists : Disposes(list)

LEMMA EndsKind ==
  ASSUME Located, pc \in InCluster, NEW r \in Results, EndCluster(r), SameLoop, CloudStill,
         r.outcome # NoOutcome =>
           r.outcome = outcome /\ pc \in Looping /\ \A i \in 1 .. Len(selected) : Disposed(i),
         ctx = "live" /\ ~flags.noWait =>
           \/ pc \in {"health", "select", "verify"}
           \/ AllComplete /\ \A i \in 1 .. Len(selected) : Disposed(i),
         Undisturbed /\ r.error = 0 =>
           /\ pc \in Looping /\ r.outcome = outcome
           /\ pc = "verify" \/ (AllComplete /\ NoneFailed
                                /\ \A i \in 1 .. Len(selected) : Disposed(i))
  PROVE  Kinds
  <1>1. Quiet
    BY EndClusterEffect DEF Quiet, CloudStill
  <1> QED
    BY <1>1, EndClusterEffect DEF Ends, Kinds

LEMMA GateKind ==
  ASSUME Located, HealthGate
  PROVE  Kinds
  <1>1. pc = "health" /\ pc \in InCluster /\ pc \notin Looping
    BY DEF HealthGate, InCluster, Looping, Starting
  <1>2. PICK v \in PreflightHealthCheck :
          \/ ~v.done /\ Only("select")
          \/ /\ v.done /\ SameLoop /\ CloudStill
             /\ EndCluster([NoResult EXCEPT !.healthBlocked = v.code # 0, !.error = v.code])
    BY DEF HealthGate
  <1>3. CASE Only("select")
    BY <1>1, <1>3
    DEF Only, Goto, SameLoop, loopVars, SameFleet, fleetVars, history, CloudStill, Quiet, Inside,
        Kinds
  <1>4. CASE v.done
    <2> DEFINE r == [NoResult EXCEPT !.healthBlocked = v.code # 0, !.error = v.code]
    <2>1. r \in Results /\ r.outcome = NoOutcome /\ r.error = v.code
      BY GateVerdicts, NoResultType DEF Located, Results, NoResult
    <2>2. EndCluster(r) /\ SameLoop /\ CloudStill
      BY <1>2, <1>4
    <2>3. Undisturbed => v.code # 0
      BY <1>4, GateVerdicts DEF Located, Undisturbed
    <2> HIDE DEF r
    <2> QED
      BY <1>1, <2>1, <2>2, <2>3, EndsKind
  <1> QED
    BY <1>2, <1>3, <1>4

LEMMA SelectKind ==
  ASSUME Located, SelectNodegroups
  PROVE  Kinds
  <1>1. pc = "select" /\ pc \in InCluster
    BY DEF SelectNodegroups, InCluster
  <1>2. CASE flags.dryRun /\ EndCluster(NoResult) /\ SameLoop /\ CloudStill
    BY <1>1, <1>2, EndsKind, NoResultType DEF NoResult, Undisturbed
  <1>3. CASE Refuse(1)
    <2> DEFINE r == [NoResult EXCEPT !.error = 1]
    <2>1. r \in Results /\ r.outcome = NoOutcome /\ r.error = 1
      <3>1. NoResult \in Results /\ NoResult.outcome = NoOutcome
        BY NoResultType DEF NoResult
      <3> QED
        BY <3>1 DEF Results
    <2>2. EndCluster(r) /\ SameLoop /\ CloudStill
      BY <1>3 DEF Refuse
    <2> HIDE DEF r
    <2> QED
      BY <1>1, <2>1, <2>2, EndsKind
  <1>4. CASE /\ pc' = "snapshot"
             /\ selected' = Selection(Current) /\ pos' = 1 /\ memo' = Unread
             /\ outcome' = NoOutcome
             /\ UNCHANGED <<seen, preroll, ctx, history>>
             /\ SameFleet /\ CloudStill
    BY <1>1, <1>4 DEF Selects, Kinds, Quiet, SameFleet, fleetVars, CloudStill, history
  <1> QED
    BY <1>2, <1>3, <1>4 DEF SelectNodegroups, Goto

LEMMA LookupKind ==
  ASSUME Located, CloudOK, \/ SnapshotPendingPods \/ DescribeClusterVersion \/ LatestAmi
  PROVE  Kinds
  <1>1. /\ Quiet /\ UNCHANGED <<flags, targets, at, result, exit, outcome, selected, pos, seen>>
    BY DEF SnapshotPendingPods, DescribeClusterVersion, LatestAmi, Quiet, SameFleet, fleetVars,
           CloudStill, history, Answered
  <1>2. /\ pc \in Starting /\ pc' \in Starting
        /\ pc \in {"snapshot", "version"} \/ pc' \in {"latest", "current", "start"}
    BY DEF SnapshotPendingPods, DescribeClusterVersion, LatestAmi, Goto, Starting
  <1>3. latest \in Nat /\ latest >= 1
    BY NodegroupTypes DEF CloudOK, Located
  <1>4. /\ memo'.ok /\ memo'.ami # 0 => memo' = memo \/ memo'.ami = latest
        /\ pc' = "current" => memo'.ok /\ memo'.ami # 0
    BY <1>3 DEF SnapshotPendingPods, DescribeClusterVersion, LatestAmi, Goto, Unread
  <1> QED
    BY <1>1, <1>2, <1>4 DEF Inside, Kinds

LEMMA ItemsKind ==
  ASSUME Located, CloudOK, DescribeNodegroup \/ CurrentAmi \/ UpdateNodegroupVersion
  PROVE  Kinds
  <1>1. /\ pc \in {"describe", "current", "start"} /\ pos \in 1 .. Len(selected) /\ memo' = memo
        /\ pc \in Starting
    <2>1. /\ pc \in {"describe", "current", "start"} /\ pos <= Len(selected) /\ memo' = memo
          /\ pc \in Looping
      BY DEF DescribeNodegroup, InLoop, CurrentAmi, UpdateNodegroupVersion, Located, PlaceOK,
             Looping, Starting
    <2> QED
      BY <2>1, ItemType DEF Starting
  <1>2. CASE /\ pc' \in {"latest", "start", "current"}
             /\ pc' = "current" => memo.ok /\ memo.ami # 0
             /\ UNCHANGED <<selected, pos, outcome, preroll, issues, seen, ctx, history>>
             /\ SameFleet /\ CloudStill
    <2>1. pc' \in Starting
      BY <1>2 DEF Starting
    <2>2. Quiet /\ UNCHANGED <<flags, targets, at, result, exit>>
      BY <1>2 DEF Quiet, CloudStill, SameFleet, fleetVars, history
    <2> QED
      BY <1>1, <1>2, <2>1, <2>2 DEF Inside, Kinds
  <1>3. ASSUME NEW list \in Lists, Dispose(list), UNCHANGED latest,
               list = "custom" => Item \in CustomAMI,
               list = "skipped" =>
                 \/ nodegroup[Item].status = "UPDATING"
                 \/ pc = "current" /\ memo.ami \in {nodegroup[Item].ami, nodegroup[Item].to},
               \/ list # "started" /\ UNCHANGED <<nodegroup, mine, seen>>
               \/ /\ list = "failed" /\ nodegroup[Item].status # "UPDATING" /\ Roll(Item)
                  /\ UNCHANGED <<mine, seen>>
               \/ /\ list = "started" /\ nodegroup[Item].status # "UPDATING" /\ Roll(Item)
                  /\ mine' = [mine EXCEPT ![Item] = "InProgress"]
                  /\ seen' = [seen EXCEPT ![Item] = "InProgress"]
        PROVE  Kinds
    <2>1. /\ pc' = "describe" /\ pos' = pos + 1
          /\ outcome' = [outcome EXCEPT ![list] = outcome[list] \cup {Item}]
          /\ UNCHANGED <<selected, goal, others, ctx, flags, targets, at, result, exit>>
      BY <1>3 DEF Dispose, Goto, SameFleet, fleetVars, history
    <2> QED
      BY <1>1, <1>3, <2>1 DEF Disposes, Kinds
  <1>4. CASE DescribeNodegroup
    BY <1>2, <1>3, <1>4
    DEF DescribeNodegroup, Goto, AfterDescribe, Lists, CloudStill
  <1>5. CASE CurrentAmi
    BY <1>2, <1>3, <1>5 DEF CurrentAmi, Goto, Lists, CloudStill
  <1>6. CASE UpdateNodegroupVersion
    BY <1>3, <1>6 DEF UpdateNodegroupVersion, Lists
  <1> QED
    BY <1>4, <1>5, <1>6

\* The result of a cluster whose loop is over.
LEMMA ReportKind ==
  ASSUME Located, pc \in {"describe", "monitor", "verify"}, NEW code \in 0 .. 3, NEW bad \in BOOLEAN,
         EndCluster([ClusterResult(code) EXCEPT !.verifyFailed = bad]), SameLoop, CloudStill,
         pc = "describe" => pos > Len(selected),
         pc # "verify" /\ ctx = "live" /\ ~flags.noWait =>
           AllComplete /\ (code = 0 => NoneFailed)
  PROVE  Kinds
  <1> DEFINE r == [ClusterResult(code) EXCEPT !.verifyFailed = bad]
  <1>1. r \in Results /\ r.outcome = outcome /\ r.error = code
    <2>1. /\ ClusterResult(code) \in Results /\ ClusterResult(code).outcome = outcome
          /\ ClusterResult(code).error = code
      BY ClusterResultType DEF ClusterResult, NoResult, Located
    <2> QED
      BY <2>1 DEF Results
  <1>2. EndCluster(r)
    OBVIOUS
  <1> HIDE DEF r
  <1>3. pc \in Looping /\ pc \in InCluster
    BY DEF Looping, InCluster, Starting
  <1>4. \A i \in 1 .. Len(selected) : Disposed(i)
    <2>1. Len(selected) \in Nat /\ pos \in Nat
      BY DEF Located, TypeOK
    <2> QED
      BY <2>1 DEF Disposed
  <1> QED
    BY <1>1, <1>2, <1>3, <1>4, EndsKind DEF Undisturbed

LEMMA MonitoredKind ==
  ASSUME Located, pc = "monitor", NEW code \in 0 .. 1, Monitored(code),
         ctx = "live" => AllComplete /\ (code = 0 => NoneFailed)
  PROVE  Kinds
  <1>1. TypeOK /\ issues \in BOOLEAN /\ code \in 0 .. 3
    BY DEF Located, TypeOK
  <1>2. CASE EndCluster(ClusterResult(code)) /\ SameLoop /\ CloudStill
    BY <1>1, <1>2, ReportKind, ResultAsItIs
  <1>3. CASE /\ code = 0 /\ pc' = "verify"
             /\ UNCHANGED <<selected, memo, outcome, seen, preroll, issues, ctx, history>>
             /\ SameFleet /\ CloudStill
    BY <1>3 DEF Inside, Kinds, Quiet, CloudStill, SameFleet, fleetVars, history
  <1> QED
    BY <1>2, <1>3 DEF Monitored, Goto

LEMMA MonitorKind ==
  ASSUME Located, \/ UpdatesStarted \/ CompletionSummary \/ MonitorStopped
                  \/ \E g \in Nodegroups : CheckSingleUpdate(g)
  PROVE  Kinds
  <1>1. CASE CompletionSummary
    <2>1. PICK code \in 0 .. 1 : Monitored(code) /\ (code = 0 => NoneFailed)
      BY <1>1 DEF CompletionSummary, NoneFailed
    <2> QED
      BY <1>1, <2>1, MonitoredKind DEF CompletionSummary
  <1>2. CASE MonitorStopped
    BY <1>2, MonitoredKind DEF MonitorStopped
  <1>3. CASE UpdatesStarted
    <2>1. /\ pc = "describe" /\ pos > Len(selected) /\ TypeOK /\ issues \in BOOLEAN
      BY <1>3 DEF UpdatesStarted, Located, TypeOK
    <2>2. CASE /\ outcome.started = {} \/ flags.noWait
               /\ EndCluster(ClusterResult(0)) /\ SameLoop /\ CloudStill
      BY <2>1, <2>2, ReportKind, ResultAsItIs DEF AllComplete, NoneFailed
    <2>3. CASE Only("monitor")
      BY <2>1, <2>3 DEF Only, Goto, SameLoop, loopVars, SameFleet, fleetVars, CloudStill, history,
                        Quiet, Inside, Kinds
    <2> QED
      BY <1>3, <2>2, <2>3 DEF UpdatesStarted
  <1>4. ASSUME NEW g \in Nodegroups, CheckSingleUpdate(g)
        PROVE  Kinds
    <2>1. /\ pc = "monitor" /\ pc' = "monitor" /\ Quiet
          /\ UNCHANGED <<pos, memo, flags, targets, at, result, exit, outcome, selected>>
      BY <1>4 DEF CheckSingleUpdate, Quiet, SameFleet, fleetVars, CloudStill, history
    <2>2. \A h \in Nodegroups : seen'[h] \in {seen[h], mine[h]}
      BY <1>4 DEF CheckSingleUpdate, Located, TypeOK
    <2> QED
      BY <2>1, <2>2 DEF Inside, Kinds
  <1> QED
    BY <1>1, <1>2, <1>3, <1>4

LEMMA VerifyKind ==
  ASSUME Located, VerifyNodegroup \/ VerifyPods
  PROVE  Kinds
  <1>1. CASE VerifyNodegroup
    BY <1>1 DEF VerifyNodegroup, Goto, SameFleet, fleetVars, CloudStill, history, Quiet, Inside,
                Kinds
  <1>2. CASE VerifyPods
    <2>1. PICK bad \in BOOLEAN : EndCluster([ClusterResult(0) EXCEPT !.verifyFailed = bad])
      BY <1>2 DEF VerifyPods
    <2>2. SameLoop /\ CloudStill /\ 0 \in 0 .. 3 /\ pc = "verify"
      BY <1>2 DEF VerifyPods
    <2> QED
      BY <2>1, <2>2, ReportKind
  <1> QED
    BY <1>1, <1>2

\* Between clusters nothing happens to the cloud or to a result.
Between == ResolveCluster \/ DiscoverFleetTargets \/ ConfirmFleet \/ NextCluster

LEMMA RunKinds ==
  ASSUME Located, CloudOK, RunNext
  PROVE  Between \/ Kinds
  BY GateKind, SelectKind, LookupKind, ItemsKind, MonitorKind, VerifyKind DEF RunNext, Between

LEMMA BetweenEffect ==
  ASSUME Located, Between
  PROVE  /\ Quiet /\ SameLoop /\ result' = result /\ flags'.pattern = flags.pattern
         /\ flags'.fleet = flags.fleet /\ flags'.noWait = flags.noWait
         /\ flags'.dryRun = flags.dryRun /\ flags'.healthOnly = flags.healthOnly
         /\ pc \in {"resolve", "discover", "confirm", "next"}
         /\ pc' \in {"health", "confirm", "next", "done"}
         /\ at' = at \/ (at < at' /\ at' \in 1 .. Len(ClusterOrder) /\ ctx = "live")
         /\ pc' = "health" => at < at'
  <1>1. /\ Quiet /\ SameLoop /\ result' = result
    BY DEF Between, ResolveCluster, DiscoverFleetTargets, ConfirmFleet, NextCluster, Quiet,
           CloudStill, history
  <1>2. \A f \in Switches \ {"yes"} : flags'[f] = flags[f]
    <2>1. flags' = flags \/ flags' = [flags EXCEPT !["yes"] = TRUE]
      BY DEF Between, ResolveCluster, DiscoverFleetTargets, ConfirmFleet, NextCluster, Exit
    <2> QED
      BY <2>1 DEF Located, TypeOK
  <1>3. {"pattern", "fleet", "noWait", "dryRun", "healthOnly"} \subseteq Switches \ {"yes"}
    BY DEF Switches
  <1>4. /\ pc \in {"resolve", "discover", "confirm", "next"}
        /\ pc' \in {"health", "confirm", "next", "done"}
    BY DEF Between, ResolveCluster, DiscoverFleetTargets, ConfirmFleet, NextCluster, Exit, Goto
  <1>5. at \in Nat /\ (pc = "resolve" => at = 0)
    <2>1. at \in 0 .. Len(ClusterOrder)
      BY DEF Located, TypeOK
    <2> QED
      BY <2>1, OneByOne DEF Located, PlaceOK, Before
  <1>6. CASE ResolveCluster
    <2>1. (pc' = "done" /\ at' = at) \/ (at' \in 1 .. Len(ClusterOrder) /\ ctx = "live")
      BY <1>6 DEF ResolveCluster, Goto, Exit, Answered
    <2>2. pc = "resolve"
      BY <1>6 DEF ResolveCluster
    <2> QED
      BY <1>1, <1>2, <1>3, <1>4, <1>5, <2>1, <2>2
  <1>7. CASE DiscoverFleetTargets \/ ConfirmFleet
    <2>1. at' = at /\ pc' # "health"
      BY <1>7 DEF DiscoverFleetTargets, ConfirmFleet, Goto, Exit
    <2> QED
      BY <1>1, <1>2, <1>3, <1>4, <2>1
  <1>8. CASE NextCluster
    <2>1. (pc' = "done" /\ at' = at) \/ (at' \in Ahead /\ ctx = "live")
      BY <1>8 DEF NextCluster, Goto, Exit
    <2> QED
      BY <1>1, <1>2, <1>3, <1>4, <1>5, <2>1, OneByOne DEF Ahead
  <1> QED
    BY <1>6, <1>7, <1>8 DEF Between

\* A selection is of one cluster, and names a nodegroup once.
LEMMA SelectionDistinct ==
  ASSUME NEW c \in Clusters, NEW d \in Clusters, NEW i \in 1 .. Len(Selection(c)),
         NEW j \in 1 .. Len(Selection(d)), Selection(c)[i] = Selection(d)[j]
  PROVE  c = d /\ i = j
  <1>1. CASE flags.pattern
    BY <1>1, ListsAssumption DEF Selection
  <1>2. CASE ~flags.pattern
    BY <1>2, ListsAssumption DEF Selection
  <1> QED
    BY <1>1, <1>2

LEMMA SelectionListed ==
  ASSUME NEW c \in Clusters, NEW i \in 1 .. Len(Selection(c))
  PROVE  \E j \in 1 .. Len(NodegroupsOf[c]) : Selection(c)[i] = NodegroupsOf[c][j]
  <1>1. CASE flags.pattern
    BY <1>1, ListsAssumption DEF Selection
  <1>2. CASE ~flags.pattern
    BY <1>2 DEF Selection
  <1> QED
    BY <1>1, <1>2

LEMMA SelectedType ==
  ASSUME Located, NEW c \in Clusters
  PROVE  /\ Len(Selection(c)) \in Nat
         /\ \A i \in 1 .. Len(Selection(c)) : Selection(c)[i] \in Nodegroups
  BY SelectionType DEF Located

\* A disposition is about one nodegroup, and only a start touches it.
LEMMA DisposesEffect ==
  ASSUME Located, NEW list \in Lists, Disposes(list)
  PROVE  /\ Item \in Nodegroups
         /\ \A g \in Nodegroups \ {Item} :
              nodegroup'[g] = nodegroup[g] /\ mine'[g] = mine[g] /\ seen'[g] = seen[g]
         /\ nodegroup'[Item].ami = nodegroup[Item].ami
         /\ \/ UNCHANGED nodegroup
            \/ /\ nodegroup[Item].status # "UPDATING"
               /\ nodegroup'[Item].status = "UPDATING" /\ nodegroup'[Item].to = latest
         /\ \/ list # "started" /\ mine' = mine /\ seen' = seen
            \/ /\ list = "started" /\ mine'[Item] = "InProgress" /\ seen'[Item] = "InProgress"
               /\ nodegroup'[Item].status = "UPDATING" /\ nodegroup'[Item].to = latest
         /\ outcome'[list] = outcome[list] \cup {Item}
         /\ \A other \in Lists \ {list} : outcome'[other] = outcome[other]
  <1>1. pc \in Looping /\ pos <= Len(selected)
    <2>1. Len(selected) \in Nat
      BY DEF Located, TypeOK
    <2> QED
      BY <2>1 DEF Disposes, Looping, Starting
  <1>2. /\ Item \in Nodegroups /\ nodegroup \in [Nodegroups -> NodegroupStates]
        /\ mine \in [Nodegroups -> UpdateStatuses] /\ seen \in [Nodegroups -> UpdateStatuses]
    BY <1>1, ItemType DEF Located, TypeOK
  <1>3. /\ outcome'[list] = outcome[list] \cup {Item}
        /\ \A other \in Lists \ {list} : outcome'[other] = outcome[other]
    BY DEF Disposes, Located, TypeOK, Lists
  <1>4. Roll(Item) => /\ \A g \in Nodegroups \ {Item} : nodegroup'[g] = nodegroup[g]
                      /\ nodegroup'[Item].ami = nodegroup[Item].ami
                      /\ nodegroup'[Item].status = "UPDATING" /\ nodegroup'[Item].to = latest
    <2>1. nodegroup[Item] \in NodegroupStates
      BY <1>2
    <2>2. [nodegroup[Item] EXCEPT !.status = "UPDATING", !.to = latest].ami = nodegroup[Item].ami
      BY <2>1 DEF NodegroupStates
    <2> QED
      BY <1>2, <2>1, <2>2 DEF Roll, NodegroupStates
  <1> QED
    BY <1>2, <1>3, <1>4 DEF Disposes

--------------------------------------------------------------------------------
(***************************************************************************)
(* CloudOK: AMIs go up, and the process' updates install the AMI recommended *)
(* at launch or a newer one.                                                  *)
(***************************************************************************)
LEMMA InsideCloud ==
  ASSUME Located, CloudOK, Inside
  PROVE  CloudOK'
  <1>1. latest \in Nat /\ goal \in Nat /\ memo.ami \in Nat
    BY NodegroupTypes DEF Located
  <1>2. (memo'.ok /\ memo'.ami # 0 => memo'.ami >= goal) /\ (pc' = "current" => memo'.ok /\ memo'.ami # 0)
    BY <1>1 DEF Inside, CloudOK, Quiet
  <1>3. \A g \in Nodegroups : seen'[g] \in Final => mine[g] = seen'[g]
    BY DEF Inside, CloudOK
  <1>4. pc' # "idle"
    BY DEF Inside, Starting
  <1> QED
    BY <1>2, <1>3, <1>4 DEF Inside, CloudOK, Quiet

LEMMA DisposesCloud ==
  ASSUME Located, CloudOK, NEW list \in Lists, Disposes(list)
  PROVE  CloudOK'
  <1>1. /\ latest \in Nat /\ goal \in Nat
        /\ \A g \in Nodegroups : nodegroup[g].ami \in Nat /\ nodegroup[g].to \in Nat
    BY NodegroupTypes DEF Located
  <1>2. /\ UNCHANGED <<memo, latest, goal>> /\ pc' = "describe"
    BY DEF Disposes
  <1>3. \A g \in Nodegroups \ {Item} :
          nodegroup'[g] = nodegroup[g] /\ mine'[g] = mine[g] /\ seen'[g] = seen[g]
    BY DisposesEffect
  <1>4. /\ nodegroup'[Item].ami <= nodegroup'[Item].to /\ nodegroup'[Item].to <= latest
        /\ nodegroup'[Item].status # "UPDATING" => nodegroup'[Item].to = nodegroup'[Item].ami
        /\ mine'[Item] = "InProgress" =>
             nodegroup'[Item].status = "UPDATING" /\ nodegroup'[Item].to >= goal
        /\ mine'[Item] = "Successful" => nodegroup'[Item].ami >= goal
        /\ seen'[Item] \in Final => mine'[Item] = seen'[Item]
    BY <1>1, DisposesEffect DEF CloudOK, Final
  <1> QED
    BY <1>2, <1>3, <1>4 DEF CloudOK

LEMMA CloudStep ==
  ASSUME Located, CloudOK, FreshOK, [Next]_vars
  PROVE  CloudOK'
  <1>1. CASE Launch
    <2>1. /\ goal' = latest /\ pc = "idle" /\ pc' \in {"discover", "resolve"}
          /\ UNCHANGED <<nodegroup, mine, latest, memo, seen>>
      BY <1>1 DEF Launch, Goto, SameLoop, loopVars, CloudStill
    <2>2. latest \in Nat /\ goal \in Nat
      BY NodegroupTypes DEF Located
    <2>3. \A g \in Nodegroups : mine[g] = "none"
      BY <2>1 DEF FreshOK
    <2> QED
      BY <2>1, <2>2, <2>3 DEF CloudOK
  <1>2. CASE Between
    <2>1. UNCHANGED <<nodegroup, mine, latest, goal, memo, seen>> /\ pc' \notin {"idle", "current"}
      BY <1>2, BetweenEffect DEF Quiet, SameLoop, loopVars
    <2> QED
      BY <2>1 DEF CloudOK
  <1>3. CASE Kinds
    <2>1. ASSUME NEW r \in Results, Ends(r)
          PROVE  CloudOK'
      <3>1. UNCHANGED <<nodegroup, mine, latest, goal, memo, seen>> /\ pc' \notin {"idle", "current"}
        BY <2>1 DEF Ends, Quiet, SameLoop, loopVars
      <3> QED
        BY <3>1 DEF CloudOK
    <2>2. CASE Selects
      BY <2>2 DEF Selects, Quiet, CloudOK, Unread
    <2> QED
      BY <1>3, <2>1, <2>2, InsideCloud, DisposesCloud DEF Kinds
  <1>4. CASE ContextDone \/ UNCHANGED vars
    <2>1. UNCHANGED <<nodegroup, mine, latest, goal, memo, seen, pc>>
      BY <1>4 DEF ContextDone, SameLoop, loopVars, CloudStill, history, vars, cloudVars
    <2> QED
      BY <2>1 DEF CloudOK
  <1>5. CASE Alive /\ CloudNext
    <2>1. CloudMoves /\ Located'
      BY <1>5, CloudMovesStep
    <2>2. /\ latest \in Nat /\ latest' \in Nat /\ goal \in Nat
      BY <2>1, NodegroupTypes, AmisAreNumbers DEF Located, TypeOK
    <2>3. UNCHANGED <<pc, memo, seen, goal>>
      BY <2>1 DEF CloudMoves, loopVars
    <2> QED
      BY <2>1, <2>2, <2>3 DEF CloudOK, CloudMoves, Final
  <1> QED
    BY <1>1, <1>2, <1>3, <1>4, <1>5, RunKinds DEF Next

--------------------------------------------------------------------------------
(***************************************************************************)
(* FreshOK: the nodegroups the loop has not come to are untouched.           *)
(***************************************************************************)

\* When nothing new becomes fresh, it is enough that what is fresh stays untouched.
LEMMA FreshKept ==
  ASSUME Located, FreshOK, pc # "idle", pc' # "idle",
         \A c \in Clusters : Selection(c)' = Selection(c),
         \A j \in 1 .. Len(ClusterOrder) : \A i \in 1 .. Len(Selection(ClusterOrder[j])) :
           Fresh(j, i)' => /\ Fresh(j, i)
                           /\ Untouched(Selection(ClusterOrder[j])[i]) =>
                                Untouched(Selection(ClusterOrder[j])[i])'
  PROVE  FreshOK'
  <1> SUFFICES ASSUME NEW j \in 1 .. Len(ClusterOrder),
                      NEW i \in 1 .. Len(Selection(ClusterOrder[j])), Fresh(j, i)'
               PROVE  Untouched(Selection(ClusterOrder[j])[i])'
    BY OneByOne DEF FreshOK
  <1>1. ClusterOrder[j] \in Clusters
    BY OneByOne
  <1>2. Untouched(Selection(ClusterOrder[j])[i])
    BY DEF FreshOK
  <1> QED
    BY <1>1, <1>2

LEMMA SameSelection ==
  ASSUME flags'.pattern = flags.pattern
  PROVE  \A c \in Clusters : Selection(c)' = Selection(c)
  BY DEF Selection

LEMMA QuietUntouched ==
  ASSUME Quiet
  PROVE  \A g \in Nodegroups : Untouched(g)' = Untouched(g)
  BY DEF Quiet, Untouched

\* Between the calls of the process, untouched nodegroups stay so.
LEMMA CloudUntouched ==
  ASSUME CloudMoves, NEW g \in Nodegroups, Untouched(g)
  PROVE  Untouched(g)'
  BY DEF CloudMoves, Untouched

\* The nodegroup at the loop's position is no other of any selection.
LEMMA ItemDistinct ==
  ASSUME Located, pc \in Looping, pos \in 1 .. Len(selected), NEW j \in 1 .. Len(ClusterOrder),
         NEW i \in 1 .. Len(Selection(ClusterOrder[j])), Selection(ClusterOrder[j])[i] = Item
  PROVE  j = at /\ i = pos
  <1>1. /\ at \in 1 .. Len(ClusterOrder) /\ Current \in Clusters /\ selected = Selection(Current)
        /\ Current = ClusterOrder[at]
    <2>1. pc \in InCluster
      BY DEF InCluster
    <2> QED
      BY <2>1, CurrentType DEF Located, PlaceOK, Current
  <1>2. Item = Selection(Current)[pos] /\ pos \in 1 .. Len(Selection(Current))
    BY <1>1 DEF Item
  <1>3. ClusterOrder[j] \in Clusters
    BY OneByOne
  <1>4. ClusterOrder[j] = Current /\ i = pos
    BY <1>1, <1>2, <1>3, SelectionDistinct
  <1> QED
    BY <1>1, <1>4, OneByOne

LEMMA FreshStep ==
  ASSUME Located, CloudOK, FreshOK, [Next]_vars
  PROVE  FreshOK'
  <1>0. at \in Nat
    <2>1. at \in 0 .. Len(ClusterOrder)
      BY DEF Located, TypeOK
    <2> QED
      BY <2>1, OneByOne
  <1>1. CASE Launch
    <2>1. /\ pc = "idle" /\ pc' # "idle" /\ UNCHANGED <<nodegroup, mine>>
          /\ others' = {g \in Nodegroups : nodegroup[g].status = "UPDATING"}
      BY <1>1 DEF Launch, Goto, CloudStill
    <2>2. \A g \in Nodegroups : Untouched(g)'
      BY <2>1 DEF FreshOK, Untouched
    <2>3. Located'
      BY <1>1, LaunchLocated
    <2>4. \A c \in Clusters : Selection(c)' \in Seq(Nodegroups)
      <3>1. flags' \in [Switches -> BOOLEAN]
        BY <2>3 DEF Located, TypeOK
      <3> QED
        BY <3>1, FleetAssumption DEF Selection
    <2> QED
      BY <2>1, <2>2, <2>4, OneByOne DEF FreshOK
  <1>2. CASE Between
    <2>1. /\ Quiet /\ flags'.pattern = flags.pattern
          /\ pc \in {"resolve", "discover", "confirm", "next"}
          /\ pc' \in {"health", "confirm", "next", "done"}
          /\ at' = at \/ (at < at' /\ at' \in 1 .. Len(ClusterOrder))
          /\ pc' = "health" => at < at'
      BY <1>2, BetweenEffect
    <2>2. \A j \in 1 .. Len(ClusterOrder) : \A i \in Nat : Fresh(j, i)' => Fresh(j, i)
      BY <1>0, <2>1 DEF Fresh, Starting
    <2>3. \A c \in Clusters : Selection(c)' = Selection(c)
      BY <2>1, SameSelection
    <2>4. pc # "idle" /\ pc' # "idle"
      BY <2>1
    <2> QED
      BY <2>1, <2>2, <2>3, <2>4, FreshKept, QuietUntouched, SelectedType, OneByOne
  <1>3. ASSUME NEW r \in Results, Ends(r)
        PROVE  FreshOK'
    <2>1. /\ Quiet /\ UNCHANGED <<flags, at>> /\ pc \in InCluster /\ pc' \in {"next", "done"}
      BY <1>3 DEF Ends
    <2>2. \A j \in 1 .. Len(ClusterOrder) : \A i \in Nat : Fresh(j, i)' => Fresh(j, i)
      BY <2>1 DEF Fresh, Starting
    <2>3. pc # "idle" /\ pc' # "idle"
      BY <2>1 DEF InCluster, Looping, Starting
    <2> QED
      BY <2>1, <2>2, <2>3, FreshKept, SameSelection, QuietUntouched, SelectedType, OneByOne
  <1>4. CASE Selects
    <2>1. /\ Quiet /\ UNCHANGED <<flags, at>> /\ pc = "select" /\ pc' = "snapshot" /\ pos' = 1
      BY <1>4 DEF Selects
    <2>2. \A j \in 1 .. Len(ClusterOrder) : \A i \in Nat : Fresh(j, i)' => Fresh(j, i)
      BY <2>1 DEF Fresh, Starting
    <2> QED
      BY <2>1, <2>2, FreshKept, SameSelection, QuietUntouched, SelectedType, OneByOne
  <1>5. CASE Inside
    <2>1. /\ Quiet /\ UNCHANGED <<flags, at>> /\ pc # "idle" /\ pc' # "idle"
          /\ pc' \in {"health", "select"} => pc \in {"health", "select"}
          /\ pc' \in Starting => pc \in Starting /\ pos' = pos
      BY <1>5 DEF Inside, Starting
    <2>2. \A j \in 1 .. Len(ClusterOrder) : \A i \in Nat : Fresh(j, i)' => Fresh(j, i)
      BY <2>1 DEF Fresh
    <2> QED
      BY <2>1, <2>2, FreshKept, SameSelection, QuietUntouched, SelectedType, OneByOne
  <1>6. ASSUME NEW list \in Lists, Disposes(list)
        PROVE  FreshOK'
    <2>1. /\ UNCHANGED <<flags, at, others>> /\ pc \in Starting /\ pc' = "describe" /\ pos' = pos + 1
          /\ pos \in 1 .. Len(selected) /\ pos \in Nat /\ pc \in Looping /\ pc # "idle"
      BY <1>6 DEF Disposes, Starting, Looping, Located, TypeOK
    <2>2. \A j \in 1 .. Len(ClusterOrder) : \A i \in Nat :
            Fresh(j, i)' => Fresh(j, i) /\ ~(j = at /\ i = pos)
      BY <1>0, <2>1 DEF Fresh, Starting
    <2>3. \A g \in Nodegroups \ {Item} : Untouched(g)' = Untouched(g)
      BY <1>6, <2>1, DisposesEffect DEF Untouched
    <2>4. \A c \in Clusters : Selection(c)' = Selection(c)
      BY <2>1, SameSelection
    <2>5. ASSUME NEW j \in 1 .. Len(ClusterOrder), NEW i \in 1 .. Len(Selection(ClusterOrder[j])),
                 Fresh(j, i)'
          PROVE  Fresh(j, i) /\ (Untouched(Selection(ClusterOrder[j])[i]) =>
                                   Untouched(Selection(ClusterOrder[j])[i])')
      <3>1. ClusterOrder[j] \in Clusters /\ i \in Nat
        BY OneByOne, SelectedType
      <3>2. Selection(ClusterOrder[j])[i] \in Nodegroups
        BY <3>1, SelectedType
      <3>3. Fresh(j, i) /\ Selection(ClusterOrder[j])[i] # Item
        BY <2>1, <2>2, <2>5, <3>1, ItemDistinct
      <3>4. Selection(ClusterOrder[j])' = Selection(ClusterOrder[j])
        BY <2>4, <3>1
      <3> QED
        BY <2>3, <3>2, <3>3, <3>4
    <2> QED
      BY <2>1, <2>4, <2>5, FreshKept
  <1>7. CASE ContextDone \/ UNCHANGED vars
    <2>1. UNCHANGED <<nodegroup, mine, others, pc, at, pos, flags>>
      BY <1>7 DEF ContextDone, SameLoop, loopVars, SameFleet, fleetVars, CloudStill, history, vars,
                  cloudVars
    <2> QED
      BY <2>1 DEF FreshOK, Fresh, Untouched, Selection
  <1>8. CASE Alive /\ CloudNext
    <2>1. CloudMoves /\ UNCHANGED <<pc, at, pos, flags>> /\ pc # "idle"
      BY <1>8, CloudMovesStep DEF CloudMoves, loopVars, fleetVars, Alive
    <2>2. \A j \in 1 .. Len(ClusterOrder) : \A i \in Nat : Fresh(j, i)' => Fresh(j, i)
      BY <2>1 DEF Fresh
    <2>3. \A c \in Clusters : Selection(c)' = Selection(c)
      BY <2>1, SameSelection
    <2>4. ASSUME NEW j \in 1 .. Len(ClusterOrder), NEW i \in 1 .. Len(Selection(ClusterOrder[j])),
                 Fresh(j, i)'
          PROVE  Fresh(j, i) /\ (Untouched(Selection(ClusterOrder[j])[i]) =>
                                   Untouched(Selection(ClusterOrder[j])[i])')
      <3>1. ClusterOrder[j] \in Clusters /\ i \in Nat
        BY OneByOne, SelectedType
      <3>2. Selection(ClusterOrder[j])[i] \in Nodegroups
        BY <3>1, SelectedType
      <3>3. Selection(ClusterOrder[j])' = Selection(ClusterOrder[j])
        BY <2>3, <3>1
      <3> QED
        BY <2>1, <2>2, <2>4, <3>1, <3>2, <3>3, CloudUntouched
    <2> QED
      BY <2>1, <2>3, <2>4, FreshKept
  <1> QED
    BY <1>1, <1>2, <1>3, <1>4, <1>5, <1>6, <1>7, <1>8, RunKinds DEF Next, Kinds

--------------------------------------------------------------------------------
(***************************************************************************)
(* OutcomeOK: the loop disposes of each nodegroup once, and knows which      *)
(* updates it started.                                                        *)
(***************************************************************************)

\* Inside a loop, where the process is and what it selected.
LEMMA LoopPlace ==
  ASSUME Located, pc \in Looping
  PROVE  /\ at \in 1 .. Len(ClusterOrder) /\ Current \in Clusters /\ Current = ClusterOrder[at]
         /\ selected = Selection(Current) /\ pos \in Nat /\ Len(selected) \in Nat
         /\ pos \in 1 .. Len(selected) + 1
         /\ \A i \in 1 .. Len(selected) : selected[i] \in Nodegroups
  <1>1. pc \in InCluster
    BY DEF InCluster
  <1>2. /\ at \in 1 .. Len(ClusterOrder) /\ selected = Selection(Current)
        /\ pos \in 1 .. Len(selected) + 1
    BY <1>1 DEF Located, PlaceOK
  <1>3. Current \in Clusters /\ selected \in Seq(Nodegroups)
    BY <1>2, CurrentType DEF Located, TypeOK
  <1> QED
    BY <1>2, <1>3 DEF Current

\* A selected nodegroup the loop has not come to was not started, and if it is at rest
\* it runs what it was rolled to.
LEMMA ItemFresh ==
  ASSUME Located, CloudOK, FreshOK, pc \in Starting, NEW i \in 1 .. Len(selected), i >= pos
  PROVE  /\ mine[selected[i]] = "none"
         /\ nodegroup[selected[i]].status = "UPDATING" => selected[i] \in others
         /\ nodegroup[selected[i]].status # "UPDATING" =>
              nodegroup[selected[i]].to = nodegroup[selected[i]].ami
  <1>1. pc \in Looping /\ pc # "idle"
    BY DEF Looping, Starting
  <1>2. /\ at \in 1 .. Len(ClusterOrder) /\ selected = Selection(ClusterOrder[at])
        /\ selected[i] \in Nodegroups
    BY <1>1, LoopPlace
  <1>3. Untouched(selected[i])
    BY <1>1, <1>2 DEF FreshOK, Fresh
  <1> QED
    BY <1>2, <1>3 DEF Untouched, CloudOK

\* The disposition of one nodegroup leaves the accounts of the others as they are.
LEMMA DisposesOutcome ==
  ASSUME Located, CloudOK, FreshOK, OutcomeOK, NEW list \in Lists, Disposes(list)
  PROVE  OutcomeOK'
  <1>1. /\ pc \in Looping /\ pc \in Starting /\ pos \in 1 .. Len(selected) /\ pos \in Nat
        /\ pc \notin {"monitor", "verify"} /\ pc' = "describe" /\ pos' = pos + 1
        /\ UNCHANGED <<selected, memo, goal, others>>
    BY DEF Disposes, Looping, Starting, Located, TypeOK
  <1>2. /\ at \in 1 .. Len(ClusterOrder) /\ selected = Selection(ClusterOrder[at])
        /\ \A i \in 1 .. Len(selected) : selected[i] \in Nodegroups
    BY <1>1, LoopPlace
  <1>3. \A i \in 1 .. Len(selected) : i # pos => selected[i] # Item
    BY <1>1, <1>2, ItemDistinct
  <1>4. goal \in Nat /\ memo.ami \in Nat /\ \A g \in Nodegroups : nodegroup[g].ami \in Nat
    BY NodegroupTypes DEF Located
  <1>5. ASSUME NEW i \in 1 .. Len(selected), i # pos
        PROVE  Accounted(i)'
    <2>1. /\ selected[i] \in Nodegroups \ {Item} /\ selected' = selected
          /\ nodegroup'[selected[i]] = nodegroup[selected[i]]
          /\ mine'[selected[i]] = mine[selected[i]]
      BY <1>1, <1>2, <1>3, <1>5, DisposesEffect
    <2>2. \A other \in Lists : selected[i] \in outcome'[other] <=> selected[i] \in outcome[other]
      BY <2>1, DisposesEffect
    <2>3. Disposed(i)' <=> Disposed(i)
      BY <1>1, <1>5 DEF Disposed
    <2>4. Accounted(i)
      BY <1>1 DEF OutcomeOK
    <2>5. "started" \in Lists /\ "custom" \in Lists /\ "skipped" \in Lists
      BY DEF Lists
    <2> QED
      BY <1>1, <2>1, <2>2, <2>3, <2>4, <2>5 DEF Accounted, OneList
  <1>6. ASSUME NEW i \in 1 .. Len(selected), i = pos
        PROVE  Accounted(i)'
    <2>1. /\ selected[i] = Item /\ Item \in Nodegroups /\ selected' = selected
      BY <1>1, <1>6, DisposesEffect DEF Item
    <2>2. /\ mine[Item] = "none"
          /\ nodegroup[Item].status = "UPDATING" => Item \in others
          /\ nodegroup[Item].status # "UPDATING" => nodegroup[Item].to = nodegroup[Item].ami
      BY <1>1, <1>6, <2>1, ItemFresh
    <2>3. \A other \in Lists : Item \notin outcome[other]
      <3>1. Accounted(i) /\ ~Disposed(i)
        BY <1>1, <1>6 DEF OutcomeOK, Disposed
      <3> QED
        BY <2>1, <3>1 DEF Accounted
    <2>4. \A other \in Lists : Item \in outcome'[other] <=> other = list
      BY <2>3, DisposesEffect
    <2>5. Item \in outcome'.started <=> mine'[Item] # "none"
      BY <2>2, <2>4, DisposesEffect DEF Lists
    <2>6. Item \in outcome'.custom => Item \in CustomAMI
      BY <2>4 DEF Lists, Disposes
    <2>7. Item \in outcome'.skipped => Item \in others \/ nodegroup'[Item].ami >= goal
      <3>1. CASE list # "skipped"
        BY <2>4, <3>1 DEF Lists
      <3>2. CASE list = "skipped"
        <4>1. pc = "current" => memo.ami >= goal
          BY DEF CloudOK
        <4> QED
          BY <1>4, <2>1, <2>2, <3>2, <4>1, DisposesEffect DEF Disposes
      <3> QED
        BY <3>1, <3>2
    <2>8. Disposed(i)'
      BY <1>1, <1>6 DEF Disposed
    <2> QED
      BY <1>1, <2>1, <2>4, <2>5, <2>6, <2>7, <2>8 DEF Accounted, OneList
  <1> QED
    BY <1>1, <1>5, <1>6 DEF OutcomeOK

LEMMA OutcomeStep ==
  ASSUME Located, CloudOK, FreshOK, OutcomeOK, [Next]_vars
  PROVE  OutcomeOK'
  <1>1. CASE Launch \/ Between \/ \E r \in Results : Ends(r)
    <2>1. pc' \notin Looping
      BY <1>1, BetweenEffect DEF Launch, Goto, Ends, Looping, Starting
    <2> QED
      BY <2>1 DEF OutcomeOK
  <1>2. CASE Selects
    <2>1. /\ Quiet /\ pc = "select" /\ pc' = "snapshot" /\ pos' = 1 /\ outcome' = NoOutcome
          /\ selected' = Selection(Current) /\ pc \in InCluster /\ pc # "idle"
      BY <1>2 DEF Selects, InCluster
    <2>2. /\ at \in 1 .. Len(ClusterOrder) /\ Current = ClusterOrder[at] /\ Current \in Clusters
      BY <2>1, CurrentType DEF Located, PlaceOK, Current
    <2>3. \A list \in Lists : outcome'[list] = {}
      BY <2>1 DEF NoOutcome, Lists
    <2>4. \A i \in 1 .. Len(selected') : selected'[i] \in Nodegroups /\ mine'[selected'[i]] = "none"
      <3>1. \A i \in 1 .. Len(Selection(ClusterOrder[at])) :
              Untouched(Selection(ClusterOrder[at])[i])
        BY <2>1, <2>2 DEF FreshOK, Fresh
      <3> QED
        BY <2>1, <2>2, <3>1, SelectedType DEF Untouched, Quiet
    <2>5. \A i \in 1 .. Len(selected') : ~Disposed(i)'
      BY <2>1 DEF Disposed
    <2>6. "started" \in Lists /\ "custom" \in Lists /\ "skipped" \in Lists
      BY DEF Lists
    <2> QED
      BY <2>3, <2>4, <2>5, <2>6 DEF OutcomeOK, Accounted
  <1>3. CASE Inside
    <2>1. /\ UNCHANGED <<nodegroup, mine, goal, others, outcome, selected>>
          /\ pc' \in Looping => pc \in Looping
      BY <1>3 DEF Inside, Quiet, Looping, Starting
    <2>2. pc' \in Looping => \A i \in 1 .. Len(selected) : Disposed(i)' <=> Disposed(i)
      <3>1. pc \in Looping => pos \in Nat /\ Len(selected) \in Nat
        BY LoopPlace
      <3> QED
        BY <1>3, <2>1, <3>1 DEF Inside, Disposed, Looping, Starting
    <2> QED
      BY <2>1, <2>2 DEF OutcomeOK, Accounted
  <1>4. CASE ContextDone \/ UNCHANGED vars
    <2>1. UNCHANGED <<nodegroup, mine, others, goal, pc, pos, outcome, selected>>
      BY <1>4 DEF ContextDone, SameLoop, loopVars, CloudStill, history, vars, cloudVars
    <2> QED
      BY <2>1 DEF OutcomeOK, Accounted, Disposed
  <1>5. CASE Alive /\ CloudNext
    <2>1. CloudMoves /\ UNCHANGED <<pc, pos, outcome, selected, goal>> /\ Located'
      BY <1>5, CloudMovesStep DEF CloudMoves, loopVars
    <2>2. goal \in Nat /\ \A g \in Nodegroups : nodegroup[g].ami \in Nat /\ nodegroup'[g].ami \in Nat
      <3>1. /\ nodegroup \in [Nodegroups -> NodegroupStates] /\ goal \in AMIs
            /\ nodegroup' \in [Nodegroups -> NodegroupStates]
        BY <2>1 DEF Located, TypeOK
      <3> QED
        BY <3>1, AmisAreNumbers DEF NodegroupStates
    <2>3. ASSUME pc \in Looping, NEW i \in 1 .. Len(selected)
          PROVE  Accounted(i)'
      <3>1. selected[i] \in Nodegroups /\ Accounted(i) /\ selected' = selected
        BY <2>1, <2>3, LoopPlace DEF OutcomeOK
      <3>2. /\ mine'[selected[i]] # "none" <=> mine[selected[i]] # "none"
            /\ nodegroup[selected[i]].ami >= goal => nodegroup'[selected[i]].ami >= goal
        BY <2>1, <2>2, <3>1 DEF CloudMoves, Final
      <3>3. others \subseteq others'
        BY <2>1 DEF CloudMoves
      <3> QED
        BY <2>1, <3>1, <3>2, <3>3 DEF Accounted, Disposed
    <2> QED
      BY <2>1, <2>3 DEF OutcomeOK
  <1> QED
    BY <1>1, <1>2, <1>3, <1>4, <1>5, RunKinds, DisposesOutcome DEF Next, Kinds

--------------------------------------------------------------------------------
(***************************************************************************)
(* ReportOK: what was reported of a cluster stays true of its nodegroups.    *)
(***************************************************************************)
LEMMA ReportKept ==
  ASSUME Located, ReportOK, result' = result, flags'.pattern = flags.pattern,
         \A c \in Clusters : result[c].outcome # NoOutcome =>
           \A i \in 1 .. Len(Selection(c)) :
             mine'[Selection(c)[i]] # "none" <=> mine[Selection(c)[i]] # "none"
  PROVE  ReportOK'
  <1>1. \A c \in Clusters : Selection(c)' = Selection(c)
    BY SameSelection
  <1> QED
    BY <1>1 DEF ReportOK

LEMMA ReportStep ==
  ASSUME Located, CloudOK, FreshOK, OutcomeOK, ReportOK, [Next]_vars
  PROVE  ReportOK'
  <1>1. CASE Launch
    <2>1. \A c \in Clusters : result'[c] = NoResult
      BY <1>1 DEF Launch, Located, Unreported, Before
    <2> QED
      BY <2>1 DEF ReportOK, NoResult
  <1>2. CASE Between
    <2>1. result' = result /\ flags'.pattern = flags.pattern /\ mine' = mine
      BY <1>2, BetweenEffect DEF Quiet
    <2> QED
      BY <2>1, ReportKept
  <1>3. ASSUME NEW r \in Results, Ends(r)
        PROVE  ReportOK'
    <2>1. /\ UNCHANGED <<mine, flags>> /\ result' = [result EXCEPT ![Current] = r] /\ pc \in InCluster
          /\ r.outcome # NoOutcome => r.outcome = outcome /\ pc \in Looping
                                       /\ \A i \in 1 .. Len(selected) : Disposed(i)
      BY <1>3 DEF Ends, Quiet
    <2>2. Current \in Clusters /\ result \in [Clusters -> Results]
      BY <2>1, CurrentType DEF Located, PlaceOK, TypeOK, Results, Outcomes
    <2>3. \A c \in Clusters : Selection(c)' = Selection(c)
      BY <2>1, SameSelection
    <2>4. r.outcome # NoOutcome =>
            \A i \in 1 .. Len(Selection(Current)) :
              /\ OneList(r.outcome, Selection(Current)[i])
              /\ Selection(Current)[i] \in r.outcome.started <=> mine[Selection(Current)[i]] # "none"
      <3>1. pc \in Looping => selected = Selection(Current)
        BY LoopPlace
      <3> QED
        BY <2>1, <3>1 DEF OutcomeOK, Accounted
    <2>5. result'[Current] = r /\ \A c \in Clusters \ {Current} : result'[c] = result[c]
      BY <2>1, <2>2
    <2>6. ASSUME NEW c \in Clusters, result'[c].outcome # NoOutcome, NEW i \in 1 .. Len(Selection(c))
          PROVE  /\ OneList(result'[c].outcome, Selection(c)[i])
                 /\ Selection(c)[i] \in result'[c].outcome.started <=> mine'[Selection(c)[i]] # "none"
      BY <2>1, <2>4, <2>5, <2>6 DEF ReportOK
    <2> QED
      BY <2>3, <2>6 DEF ReportOK, OneList
  <1>4. CASE Selects \/ Inside
    <2>1. result' = result /\ flags'.pattern = flags.pattern /\ mine' = mine
      BY <1>4 DEF Selects, Inside, Quiet
    <2> QED
      BY <2>1, ReportKept
  <1>5. ASSUME NEW list \in Lists, Disposes(list)
        PROVE  ReportOK'
    <2>1. /\ UNCHANGED <<result, flags>> /\ pc \in Looping /\ pc \in InCluster
          /\ pos \in 1 .. Len(selected)
      BY <1>5 DEF Disposes, Looping, Starting, InCluster
    <2>2. /\ at \in 1 .. Len(ClusterOrder) /\ Current = ClusterOrder[at]
          /\ result[Current] = NoResult
      BY <2>1, LoopPlace DEF Located, Unreported
    <2>3. ASSUME NEW c \in Clusters, result[c].outcome # NoOutcome, NEW i \in 1 .. Len(Selection(c))
          PROVE  mine'[Selection(c)[i]] # "none" <=> mine[Selection(c)[i]] # "none"
      <3>1. c # Current
        BY <2>2, <2>3 DEF NoResult
      <3>2. PICK j \in 1 .. Len(ClusterOrder) : ClusterOrder[j] = c
        BY OneByOne
      <3>3. Selection(c)[i] # Item
        BY <2>1, <2>2, <3>1, <3>2, ItemDistinct
      <3> QED
        BY <1>5, <3>3, DisposesEffect, SelectedType
    <2> QED
      BY <2>1, <2>3, ReportKept
  <1>6. CASE ContextDone \/ UNCHANGED vars
    <2>1. UNCHANGED <<result, flags, mine>>
      BY <1>6 DEF ContextDone, SameFleet, fleetVars, CloudStill, vars, cloudVars
    <2> QED
      BY <2>1, ReportKept
  <1>7. CASE Alive /\ CloudNext
    <2>1. CloudMoves /\ UNCHANGED <<result, flags>>
      BY <1>7, CloudMovesStep DEF CloudMoves, fleetVars
    <2>2. \A g \in Nodegroups : mine'[g] # "none" <=> mine[g] # "none"
      BY <2>1 DEF CloudMoves, Final
    <2> QED
      BY <2>1, <2>2, SelectedType, ReportKept
  <1> QED
    BY <1>1, <1>2, <1>3, <1>4, <1>5, <1>6, <1>7, RunKinds DEF Next, Kinds

--------------------------------------------------------------------------------
(***************************************************************************)
(* RunningOK: a run that waits leaves no update it knows of running in a      *)
(* cluster it has gone on from.                                               *)
(***************************************************************************)
Monitoring == {"describe", "latest", "current", "start", "monitor"}

\* Once every nodegroup is disposed of and every started update is seen final, no
\* update the process knows of is running.
LEMMA NoneRunning ==
  ASSUME Located, CloudOK, OutcomeOK, RunningOK, ~flags.noWait, pc \in Looping, AllComplete
  PROVE  \A g \in Nodegroups : mine[g] # "InProgress"
  <1> SUFFICES ASSUME NEW g \in Nodegroups, mine[g] = "InProgress" PROVE FALSE
    OBVIOUS
  <1>1. PICK i \in 1 .. Len(Selection(Current)) : g = Selection(Current)[i]
    BY DEF RunningOK
  <1>2. i \in 1 .. Len(selected) /\ g = selected[i]
    BY <1>1, LoopPlace
  <1>3. g \in outcome.started
    BY <1>2 DEF OutcomeOK, Accounted
  <1>4. seen[g] \in Final
    BY <1>3 DEF AllComplete
  <1> QED
    BY <1>4 DEF CloudOK, Final

LEMMA RunningStep ==
  ASSUME Located, CloudOK, FreshOK, OutcomeOK, RunningOK, [Next]_vars
  PROVE  RunningOK'
  <1>1. CASE Launch
    <2>1. \A g \in Nodegroups : mine'[g] = "none"
      BY <1>1 DEF Launch, CloudStill, FreshOK
    <2> QED
      BY <2>1 DEF RunningOK
  <1>2. CASE Between
    <2>1. /\ Quiet /\ flags'.pattern = flags.pattern /\ flags'.noWait = flags.noWait
          /\ pc \notin Monitoring /\ (ctx # "live" => at' = at)
      BY <1>2, BetweenEffect DEF Monitoring
    <2>2. CASE ctx = "live"
      BY <2>1, <2>2 DEF RunningOK, Quiet, Monitoring
    <2>3. CASE ctx # "live"
      BY <2>1, <2>3 DEF RunningOK, Quiet, Current, Selection
    <2> QED
      BY <2>2, <2>3
  <1>3. ASSUME NEW r \in Results, Ends(r)
        PROVE  RunningOK'
    <2>1. /\ Quiet /\ UNCHANGED <<flags, at>> /\ pc \in InCluster
          /\ ctx = "live" /\ ~flags.noWait =>
               \/ pc \in {"health", "select", "verify"} \/ AllComplete
      BY <1>3 DEF Ends
    <2>2. CASE ctx = "live" /\ ~flags.noWait
      <3>1. CASE pc \in {"health", "select", "verify"}
        BY <2>1, <2>2, <3>1 DEF RunningOK, Quiet
      <3>2. CASE AllComplete /\ pc \in Looping
        BY <2>1, <2>2, <3>2, NoneRunning DEF RunningOK, Quiet
      <3> QED
        BY <2>1, <2>2, <3>1, <3>2 DEF InCluster
    <2>3. CASE ctx # "live" \/ flags.noWait
      BY <2>1, <2>3 DEF RunningOK, Quiet, Current, Selection
    <2> QED
      BY <2>2, <2>3
  <1>4. CASE Selects
    <2>1. /\ Quiet /\ UNCHANGED <<flags, at>> /\ pc = "select"
      BY <1>4 DEF Selects
    <2> QED
      BY <2>1 DEF RunningOK, Quiet, Current, Selection
  <1>5. CASE Inside
    <2>1. Quiet /\ UNCHANGED <<flags, at>>
      BY <1>5 DEF Inside
    <2>2. CASE pc \in Monitoring => pc' \in Monitoring
      BY <2>1, <2>2 DEF RunningOK, Quiet, Current, Selection, Monitoring
    <2>3. CASE pc \in Monitoring /\ pc' \notin Monitoring
      <3>1. pc = "monitor" /\ pc' = "verify" /\ (ctx = "live" => AllComplete) /\ pc \in Looping
        BY <1>5, <2>3 DEF Inside, Monitoring, Starting, Looping
      <3> QED
        BY <2>1, <3>1, NoneRunning DEF RunningOK, Quiet, Current, Selection
    <2> QED
      BY <2>2, <2>3
  <1>6. ASSUME NEW list \in Lists, Disposes(list)
        PROVE  RunningOK'
    <2>1. /\ UNCHANGED <<flags, at, ctx>> /\ pc' \in Monitoring /\ pc \in Looping
          /\ pos \in 1 .. Len(selected)
      BY <1>6 DEF Disposes, Monitoring, Looping, Starting
    <2>2. /\ at \in 1 .. Len(ClusterOrder) /\ pos \in 1 .. Len(Selection(Current))
          /\ Item = Selection(Current)[pos]
      BY <2>1, LoopPlace DEF Item
    <2>3. \A g \in Nodegroups : mine'[g] = "InProgress" => g = Item \/ mine[g] = "InProgress"
      BY <1>6, DisposesEffect
    <2>4. Current' = Current /\ Selection(Current)' = Selection(Current)
      BY <2>1 DEF Current, Selection
    <2> QED
      BY <2>1, <2>2, <2>3, <2>4 DEF RunningOK, Monitoring
  <1>7. CASE ContextDone \/ UNCHANGED vars
    <2>1. UNCHANGED <<mine, flags, at, pc>> /\ (ctx' = "live" => ctx = "live")
      BY <1>7 DEF ContextDone, SameFleet, fleetVars, CloudStill, vars, cloudVars
    <2> QED
      BY <2>1 DEF RunningOK, Current, Selection
  <1>8. CASE Alive /\ CloudNext
    <2>1. CloudMoves /\ UNCHANGED <<pc, ctx, flags, at>>
      BY <1>8, CloudMovesStep DEF CloudMoves, fleetVars
    <2>2. \A g \in Nodegroups : mine'[g] = "InProgress" => mine[g] = "InProgress"
      BY <2>1 DEF CloudMoves, Final
    <2> QED
      BY <2>1, <2>2 DEF RunningOK, Current, Selection
  <1> QED
    BY <1>1, <1>2, <1>3, <1>4, <1>5, <1>6, <1>7, <1>8, RunKinds DEF Next, Kinds

--------------------------------------------------------------------------------
(***************************************************************************)
(* SettledOK: a cluster the process has gone on from without an error is     *)
(* patched, and stays so.                                                     *)
(***************************************************************************)

\* A loop whose updates are all seen final, none of them Failed, patched its cluster.
LEMMA LoopPatched ==
  ASSUME Located, CloudOK, OutcomeOK, pc \in Looping, AllComplete, NoneFailed,
         outcome.failed = {}, \A i \in 1 .. Len(selected) : Disposed(i)
  PROVE  Patched(Current)
  <1> SUFFICES ASSUME NEW i \in 1 .. Len(selected) PROVE Settled(selected[i])
    BY LoopPlace DEF Patched
  <1>1. selected[i] \in Nodegroups /\ Accounted(i)
    BY LoopPlace DEF OutcomeOK
  <1>2. PICK list \in Lists : selected[i] \in outcome[list]
    BY <1>1 DEF Accounted, OneList
  <1>3. CASE list = "custom" \/ list = "skipped" \/ list = "failed"
    BY <1>1, <1>2, <1>3 DEF Accounted, Settled
  <1>4. CASE list = "started"
    <2>1. seen[selected[i]] \in Final \ {"Failed"} /\ mine[selected[i]] = seen[selected[i]]
      BY <1>1, <1>2, <1>4 DEF AllComplete, NoneFailed, CloudOK
    <2> QED
      BY <1>1, <2>1 DEF CloudOK, Settled, Final
  <1> QED
    BY <1>2, <1>3, <1>4 DEF Lists

\* A settled nodegroup stays settled, whoever acts.
LEMMA SettledStays ==
  ASSUME Located, CloudOK, FreshOK, NEW g \in Nodegroups, Settled(g),
         Quiet \/ CloudMoves \/ \E list \in Lists : Disposes(list), Located'
  PROVE  Settled(g)'
  <1>1. /\ goal \in Nat /\ nodegroup[g].ami \in Nat /\ nodegroup'[g].ami \in Nat
    <2>1. /\ nodegroup \in [Nodegroups -> NodegroupStates] /\ goal \in AMIs
          /\ nodegroup' \in [Nodegroups -> NodegroupStates]
      BY DEF Located, TypeOK
    <2> QED
      BY <2>1, AmisAreNumbers DEF NodegroupStates
  <1>2. CASE Quiet
    BY <1>2 DEF Quiet, Settled
  <1>3. CASE CloudMoves
    BY <1>1, <1>3 DEF CloudMoves, Settled
  <1>4. ASSUME NEW list \in Lists, Disposes(list)
        PROVE  Settled(g)'
    <2>1. UNCHANGED <<goal, others>>
      BY <1>4 DEF Disposes
    <2>2. CASE g # Item
      BY <1>4, <2>1, <2>2, DisposesEffect DEF Settled
    <2>3. CASE g = Item
      <3>1. pc \in Starting /\ pos \in 1 .. Len(selected) /\ pos >= pos /\ Item = selected[pos]
        BY <1>4 DEF Disposes, Starting, Item, Located, TypeOK
      <3>2. mine[g] = "none"
        BY <2>3, <3>1, ItemFresh
      <3>3. nodegroup'[g].ami = nodegroup[g].ami
        BY <1>4, <2>3, DisposesEffect
      <3> QED
        BY <2>1, <3>2, <3>3 DEF Settled
    <2> QED
      BY <2>2, <2>3
  <1> QED
    BY <1>2, <1>3, <1>4

LEMMA PatchedStays ==
  ASSUME Located, CloudOK, FreshOK, NEW c \in Clusters, Patched(c), flags'.pattern = flags.pattern,
         Quiet \/ CloudMoves \/ \E list \in Lists : Disposes(list), Located'
  PROVE  Patched(c)'
  <1>1. Selection(c)' = Selection(c)
    BY SameSelection
  <1>2. \A i \in 1 .. Len(Selection(c)) : Settled(Selection(c)[i])'
    <2> TAKE i \in 1 .. Len(Selection(c))
    <2> DEFINE g == Selection(c)[i]
    <2>1. g \in Nodegroups /\ Settled(g)
      BY SelectedType DEF Patched
    <2>2. g' = g
      BY <1>1
    <2> HIDE DEF g
    <2>3. Settled(g)'
      BY <2>1, <2>2, SettledStays
    <2> QED
      BY <2>3 DEF g
  <1> QED
    BY <1>1, <1>2 DEF Patched

\* What a cluster was done with.
Clean(j) ==
  /\ ClusterOrder[j] \in targets
  /\ result[ClusterOrder[j]].error = 0 /\ result[ClusterOrder[j]].outcome.failed = {}

\* When no cluster is newly behind, it is enough that what is patched stays so.
LEMMA SettledKept ==
  ASSUME Located, SettledOK, Undisturbed' => Undisturbed, UNCHANGED <<result, at>>,
         flags'.pattern = flags.pattern,
         \A c \in Clusters : Patched(c) => Patched(c)',
         \A j \in 1 .. Len(ClusterOrder) :
           Behind(j)' /\ ClusterOrder[j] \in targets' => Behind(j) /\ ClusterOrder[j] \in targets,
         Undisturbed' /\ pc' = "verify" /\ outcome'.failed = {} =>
           Patched(Current) /\ Current \in Clusters
  PROVE  SettledOK'
  <1>1. Current' = Current
    BY DEF Current
  <1>2. \A c \in Clusters : Selection(c)' = Selection(c)
    BY SameSelection
  <1> SUFFICES ASSUME Undisturbed'
               PROVE  /\ \A j \in 1 .. Len(ClusterOrder) : Behind(j)' /\ Clean(j)' =>
                           Patched(ClusterOrder[j])'
                      /\ pc' = "verify" /\ outcome'.failed = {} => Patched(Current)'
    BY DEF SettledOK, Clean
  <1>3. ASSUME NEW j \in 1 .. Len(ClusterOrder), Behind(j)', Clean(j)'
        PROVE  Patched(ClusterOrder[j])'
    <2>1. Behind(j) /\ Clean(j) /\ ClusterOrder[j] \in Clusters
      BY <1>3, OneByOne DEF Clean
    <2>2. Patched(ClusterOrder[j])
      BY <2>1 DEF SettledOK, Clean
    <2> QED
      BY <2>1, <2>2
  <1>4. ASSUME pc' = "verify", outcome'.failed = {}
        PROVE  Patched(Current)'
    BY <1>1, <1>2, <1>4 DEF Patched
  <1> QED
    BY <1>3, <1>4

LEMMA BetweenSettled ==
  ASSUME Located, CloudOK, FreshOK, SettledOK, Between, Located'
  PROVE  SettledOK'
  <1>0. at \in Nat
    <2>1. at \in 0 .. Len(ClusterOrder)
      BY DEF Located, TypeOK
    <2> QED
      BY <2>1, OneByOne
  <1>1. /\ Quiet /\ result' = result /\ flags'.pattern = flags.pattern
        /\ Undisturbed' <=> Undisturbed
        /\ pc' # "verify"
    BY BetweenEffect DEF Undisturbed, Quiet
  <1>2. \A c \in Clusters : Patched(c) => Patched(c)'
    BY <1>1, PatchedStays
  <1>3. CASE NextCluster /\ at' # at
    <2>1. pc = "next" /\ pc' = "health" /\ targets' = targets
      BY <1>3 DEF NextCluster, Exit, Goto
    <2>2. at' \in Ahead /\ \A j \in Ahead : at' <= j
      BY <1>3 DEF NextCluster, Exit
    <2>3. at' \in Nat
      BY <1>0, <2>2, OneByOne DEF Ahead
    <2>4. \A j \in 1 .. Len(ClusterOrder) :
            Behind(j)' /\ ClusterOrder[j] \in targets' => Behind(j) /\ ClusterOrder[j] \in targets
      <3> TAKE j \in 1 .. Len(ClusterOrder)
      <3> HAVE Behind(j)' /\ ClusterOrder[j] \in targets'
      <3>1. j \in Nat /\ j < at' /\ ClusterOrder[j] \in targets
        BY <2>1, OneByOne DEF Behind
      <3>2. j \notin Ahead
        BY <2>2, <2>3, <3>1
      <3>3. j <= at
        BY <1>0, <3>1, <3>2, OneByOne DEF Ahead
      <3> QED
        BY <1>0, <2>1, <3>1, <3>3 DEF Behind
    <2>5. ASSUME Undisturbed', NEW j \in 1 .. Len(ClusterOrder), Behind(j)', Clean(j)'
          PROVE  Patched(ClusterOrder[j])'
      <3>1. Behind(j) /\ Clean(j) /\ Undisturbed /\ ClusterOrder[j] \in Clusters
        BY <1>1, <2>1, <2>4, <2>5, OneByOne DEF Clean
      <3>2. Patched(ClusterOrder[j])
        BY <3>1 DEF SettledOK, Clean
      <3> QED
        BY <1>2, <3>1, <3>2
    <2> QED
      BY <1>1, <2>5 DEF SettledOK, Clean
  <1>4. CASE at' = at /\ targets' = targets /\ (pc' = "done" => pc = "next" \/ at = 0)
    <2>1. \A j \in 1 .. Len(ClusterOrder) : Behind(j)' => Behind(j)
      BY <1>0, <1>1, <1>4, BetweenEffect DEF Behind, Located, PlaceOK, Before
    <2> QED
      BY <1>1, <1>2, <1>4, <2>1, SettledKept
  <1>5. CASE ResolveCluster /\ at' # at
    <2>1. /\ at' \in 1 .. Len(ClusterOrder) /\ targets' = {ClusterOrder[at']} /\ pc' = "health"
      BY <1>5 DEF ResolveCluster, Exit, Goto
    <2>2. \A j \in 1 .. Len(ClusterOrder) : ~(Behind(j)' /\ ClusterOrder[j] \in targets')
      BY <2>1, OneByOne DEF Behind
    <2> QED
      BY <1>1, <2>2 DEF SettledOK
  <1>6. CASE DiscoverFleetTargets
    <2>1. pc = "discover" /\ at = 0 /\ at' = 0
      BY <1>6 DEF DiscoverFleetTargets, Located, PlaceOK, Before
    <2>2. \A j \in 1 .. Len(ClusterOrder) : ~Behind(j)'
      BY <2>1, OneByOne DEF Behind
    <2> QED
      BY <1>1, <2>2 DEF SettledOK
  <1>7. CASE (ResolveCluster \/ NextCluster \/ ConfirmFleet) /\ at' = at
    <2>2. ResolveCluster \/ ConfirmFleet => at = 0
      BY DEF ResolveCluster, ConfirmFleet, Located, PlaceOK, Before
    <2>3. targets' = targets
      <3>1. CASE ResolveCluster
        <4>1. at = 0 /\ at' = 0
          BY <1>7, <2>2, <3>1
        <4> QED
          BY <3>1, <4>1, OneByOne DEF ResolveCluster, Exit
      <3>2. CASE NextCluster \/ ConfirmFleet
        BY <3>2 DEF NextCluster, ConfirmFleet, Exit
      <3> QED
        BY <1>7, <3>1, <3>2
    <2>4. pc' = "done" => pc = "next" \/ at = 0
      BY <1>7, <2>2 DEF NextCluster
    <2> QED
      BY <1>4, <1>7, <2>3, <2>4
  <1>8. ConfirmFleet => at' = at
    BY DEF ConfirmFleet, Exit
  <1> QED
    BY <1>3, <1>5, <1>6, <1>7, <1>8 DEF Between

LEMMA EndsSettled ==
  ASSUME Located, CloudOK, FreshOK, OutcomeOK, SettledOK, NEW r \in Results, Ends(r), Located'
  PROVE  SettledOK'
  <1>1. /\ Quiet /\ UNCHANGED <<flags, targets, at>> /\ pc \in InCluster
        /\ pc' \in {"next", "done"} /\ result' = [result EXCEPT ![Current] = r]
    BY DEF Ends
  <1>2. /\ at \in 1 .. Len(ClusterOrder) /\ Current = ClusterOrder[at] /\ Current \in Clusters
        /\ result \in [Clusters -> Results] /\ at \in Nat
    BY <1>1, CurrentType, OneByOne DEF Located, PlaceOK, TypeOK, Results, Outcomes, Current
  <1>3. \A c \in Clusters : Patched(c) => Patched(c)'
    BY <1>1, PatchedStays
  <1>4. Undisturbed' <=> Undisturbed
    BY <1>1 DEF Undisturbed, Quiet
  <1>5. Undisturbed /\ r.error = 0 /\ r.outcome.failed = {} => Patched(Current)
    <2>1. CASE pc = "verify"
      BY <2>1 DEF Ends, SettledOK
    <2>2. CASE pc # "verify"
      BY <2>2, LoopPatched DEF Ends
    <2> QED
      BY <2>1, <2>2
  <1>6. ASSUME Undisturbed, NEW j \in 1 .. Len(ClusterOrder), Behind(j)', Clean(j)'
        PROVE  Patched(ClusterOrder[j])'
    <2>1. CASE j = at
      <3>1. ClusterOrder[j] = Current /\ result'[Current] = r
        BY <1>1, <1>2, <2>1
      <3>2. Patched(Current)
        BY <1>5, <1>6, <3>1 DEF Clean
      <3>3. Patched(ClusterOrder[j])
        BY <3>1, <3>2
      <3> QED
        BY <1>2, <1>3, <3>1, <3>3
    <2>2. CASE j # at
      <3>1. /\ ClusterOrder[j] # Current /\ ClusterOrder[j] \in Clusters
            /\ result'[ClusterOrder[j]] = result[ClusterOrder[j]]
        BY <1>1, <1>2, <2>2, OneByOne
      <3>2. Behind(j) /\ Clean(j)
        BY <1>1, <1>6, <2>2, <3>1 DEF Behind, Clean
      <3>3. Patched(ClusterOrder[j])
        BY <1>6, <3>2 DEF SettledOK, Clean
      <3> QED
        BY <1>3, <3>1, <3>3
    <2> QED
      BY <2>1, <2>2
  <1> QED
    BY <1>1, <1>4, <1>6 DEF SettledOK, Clean

LEMMA SettledStep ==
  ASSUME Located, CloudOK, FreshOK, OutcomeOK, SettledOK, [Next]_vars, Located'
  PROVE  SettledOK'
  <1>1. CASE Launch
    <2>1. at' = 0 /\ pc' # "verify" /\ pc' \notin {"next", "done"}
      BY <1>1 DEF Launch, Goto, Located, PlaceOK, Before
    <2>2. \A j \in 1 .. Len(ClusterOrder) : ~Behind(j)'
      BY <2>1, OneByOne DEF Behind
    <2> QED
      BY <2>1, <2>2 DEF SettledOK
  <1>2. CASE Selects \/ Inside
    <2>1. /\ Quiet /\ UNCHANGED <<flags, targets, at, result>>
          /\ pc' \notin {"next", "done"}
      BY <1>2 DEF Selects, Inside, Starting
    <2>2. \A c \in Clusters : Patched(c) => Patched(c)'
      BY <2>1, PatchedStays
    <2>3. Undisturbed' <=> Undisturbed
      BY <2>1 DEF Undisturbed, Quiet
    <2>4. \A j \in 1 .. Len(ClusterOrder) : Behind(j)' => Behind(j)
      BY <2>1 DEF Behind
    <2>5. ASSUME Undisturbed, pc' = "verify", outcome'.failed = {}
          PROVE  Patched(Current) /\ Current \in Clusters
      <3>1. /\ outcome' = outcome /\ pc \in {"monitor", "verify"} /\ pc \in Looping
            /\ pc = "monitor" /\ ctx = "live" => AllComplete /\ NoneFailed
        BY <1>2, <2>5 DEF Selects, Inside, Starting, Looping
      <3>2. Current \in Clusters
        BY <3>1, LoopPlace
      <3>3. CASE pc = "verify"
        BY <2>5, <3>1, <3>2, <3>3 DEF SettledOK
      <3>4. CASE pc = "monitor"
        <4>1. \A i \in 1 .. Len(selected) : Disposed(i)
          BY <3>4 DEF Disposed
        <4>2. AllComplete /\ NoneFailed
          BY <2>5, <3>1, <3>4 DEF Undisturbed
        <4> QED
          BY <2>5, <3>1, <3>2, <4>1, <4>2, LoopPatched
      <3> QED
        BY <3>1, <3>3, <3>4
    <2> QED
      BY <2>1, <2>2, <2>3, <2>4, <2>5, SettledKept
  <1>3. ASSUME NEW list \in Lists, Disposes(list)
        PROVE  SettledOK'
    <2>1. UNCHANGED <<flags, ctx, targets, at, result>> /\ pc' = "describe"
      BY <1>3 DEF Disposes
    <2>2. \A c \in Clusters : Patched(c) => Patched(c)'
      BY <1>3, <2>1, PatchedStays
    <2>3. \A j \in 1 .. Len(ClusterOrder) : Behind(j)' => Behind(j)
      BY <2>1 DEF Behind
    <2> QED
      BY <2>1, <2>2, <2>3, SettledKept DEF Undisturbed
  <1>4. CASE ContextDone
    <2>1. ctx' # "live"
      BY <1>4 DEF ContextDone
    <2> QED
      BY <2>1 DEF SettledOK, Undisturbed
  <1>5. CASE (Alive /\ CloudNext) \/ UNCHANGED vars
    <2>1. /\ CloudMoves \/ Quiet
          /\ UNCHANGED <<pc, ctx, flags, targets, at, result, outcome>>
      BY <1>5, CloudMovesStep
      DEF CloudMoves, fleetVars, loopVars, vars, cloudVars, history, Quiet
    <2>2. \A c \in Clusters : Patched(c) => Patched(c)'
      BY <2>1, PatchedStays
    <2>3. \A j \in 1 .. Len(ClusterOrder) : Behind(j)' => Behind(j)
      BY <2>1 DEF Behind
    <2>4. pc = "verify" => Current \in Clusters
      BY LoopPlace DEF Looping
    <2> QED
      BY <2>1, <2>2, <2>3, <2>4, SettledKept DEF Undisturbed, SettledOK
  <1> QED
    BY <1>1, <1>2, <1>3, <1>4, <1>5, BetweenSettled, EndsSettled, RunKinds DEF Next, Kinds

--------------------------------------------------------------------------------
(***************************************************************************)
(* ExitOK and DoneOK: what the exit code says of the clusters.               *)
(***************************************************************************)

\* A run that is over does nothing more.
LEMMA OverIsOver ==
  ASSUME pc = "done", [Next]_vars
  PROVE  UNCHANGED vars
  BY DEF Next, Launch, Alive, ContextDone, RunNext, ResolveCluster, DiscoverFleetTargets,
         ConfirmFleet, NextCluster, HealthGate, SelectNodegroups, SnapshotPendingPods,
         DescribeClusterVersion, DescribeNodegroup, InLoop, LatestAmi, CurrentAmi,
         UpdateNodegroupVersion, UpdatesStarted, CompletionSummary, MonitorStopped,
         VerifyNodegroup, VerifyPods, CheckSingleUpdate

\* A run ends at its cluster, or between clusters.
LEMMA EndingSteps ==
  ASSUME Located, CloudOK, [Next]_vars, pc' = "done"
  PROVE  Between \/ (\E r \in Results : Ends(r)) \/ UNCHANGED vars
  <1>1. CASE RunNext
    BY <1>1, RunKinds DEF Kinds, Selects, Inside, Disposes, Starting
  <1>2. CASE Launch
    BY <1>2 DEF Launch, Goto
  <1>3. CASE ContextDone
    BY <1>3 DEF ContextDone, Alive
  <1>4. CASE Alive /\ CloudNext
    BY <1>4, CloudMovesStep DEF CloudMoves, Alive
  <1> QED
    BY <1>1, <1>2, <1>3, <1>4 DEF Next

\* A fleet without a report exits no cluster's code short of it.
LEMMA ExitStep ==
  ASSUME Located, CloudOK, ExitOK, [Next]_vars, Located'
  PROVE  ExitOK'
  <1> SUFFICES ASSUME pc' = "done", flags'.fleet, NEW c \in Clusters
               PROVE  UpdateExit(result[c])' <= exit'
    BY DEF ExitOK
  <1>1. result \in [Clusters -> Results] /\ exit' \in Nat /\ UpdateExit(NoResult) = 0
    <2>1. exit' \in 0 .. 6
      BY DEF Located, TypeOK, NoExit
    <2> QED
      BY <2>1 DEF Located, TypeOK, Results, Outcomes, UpdateExit, NoResult, NoOutcome
  <1>2. CASE UNCHANGED vars
    BY <1>2 DEF ExitOK, vars, fleetVars, UpdateExit
  <1>3. ASSUME NEW r \in Results, Ends(r)
        PROVE  FALSE
    BY <1>3 DEF Ends
  <1>4. CASE Between
    <2>1. result' = result /\ flags.fleet
      BY <1>4, BetweenEffect
    <2>2. CASE ResolveCluster
      BY <2>1, <2>2 DEF ResolveCluster, Located, PlaceOK
    <2>3. CASE DiscoverFleetTargets \/ ConfirmFleet
      <3>1. result[c] = NoResult
        BY <2>3 DEF DiscoverFleetTargets, ConfirmFleet, Located, Unreported, Before
      <3> QED
        BY <1>1, <2>1, <3>1
    <2>4. CASE NextCluster
      <3>1. exit' = FleetExit(result)
        BY <2>4 DEF NextCluster, Exit, Goto
      <3>2. UpdateExit(result[c]) <= FleetCode(result[c])
        BY <1>1, FleetCodeWorse DEF Located, Unreported
      <3>3. FleetCode(result[c]) <= FleetExit(result)
        BY FleetExitWorst
      <3>4. /\ UpdateExit(result[c]) \in Nat /\ FleetCode(result[c]) \in Nat
            /\ FleetExit(result) \in Nat
        BY <1>1, FleetExitWorst, UpdateExitType DEF FleetCode, NoExit
      <3>5. UpdateExit(result[c]) <= FleetExit(result)
        BY <3>2, <3>3, <3>4
      <3> QED
        BY <2>1, <3>1, <3>5
    <2> QED
      BY <1>4, <2>2, <2>3, <2>4 DEF Between
  <1> QED
    BY <1>2, <1>3, <1>4, EndingSteps

\* Code 0 of one cluster's run, or of its part of the fleet's.
LEMMA ZeroIsClean ==
  ASSUME NEW r \in Results
  PROVE  /\ UpdateExit(r) = 0 => r.error = 0 /\ r.outcome.failed = {}
         /\ FleetCode(r) = 0 => r.error = 0 /\ r.outcome.failed = {}
  BY DEF UpdateExit, FleetCode, Results

LEMMA DoneStep ==
  ASSUME Located, CloudOK, DoneOK, [Next]_vars, Located'
  PROVE  DoneOK'
  <1> SUFFICES ASSUME pc' = "done", exit' = 0, Undisturbed', NEW c \in targets'
               PROVE  /\ result'[c].error = 0 /\ result'[c].outcome.failed = {}
                      /\ \E j \in 1 .. Len(ClusterOrder) : c = ClusterOrder[j] /\ j <= at'
    BY DEF DoneOK
  <1>1. result \in [Clusters -> Results] /\ at \in Nat
    <2>1. at \in 0 .. Len(ClusterOrder)
      BY DEF Located, TypeOK
    <2> QED
      BY <2>1, OneByOne DEF Located, TypeOK, Results, Outcomes
  <1>2. CASE UNCHANGED vars
    <2>1. UNCHANGED <<pc, exit, ctx, flags, targets, result, at>>
      BY <1>2 DEF vars, fleetVars
    <2> QED
      BY <2>1 DEF DoneOK, Undisturbed
  <1>3. ASSUME NEW r \in Results, Ends(r)
        PROVE  /\ result'[c].error = 0 /\ result'[c].outcome.failed = {}
               /\ \E j \in 1 .. Len(ClusterOrder) : c = ClusterOrder[j] /\ j <= at'
    <2>1. /\ UNCHANGED <<targets, at>> /\ pc \in InCluster /\ result' = [result EXCEPT ![Current] = r]
          /\ ~flags.fleet /\ UpdateExit(r) = 0
      BY <1>3 DEF Ends
    <2>2. /\ at \in 1 .. Len(ClusterOrder) /\ c = Current
      BY <2>1 DEF Located, PlaceOK, InCluster, Looping, Starting, Before
    <2>3. c \in Clusters /\ result'[c] = r
      BY <1>1, <2>1, <2>2, CurrentType DEF Located
    <2>4. r.error = 0 /\ r.outcome.failed = {}
      BY <2>1, ZeroIsClean
    <2> QED
      BY <1>1, <2>1, <2>2, <2>3, <2>4 DEF Current
  <1>4. CASE ResolveCluster
    BY <1>4 DEF ResolveCluster, Exit, Goto
  <1>5. CASE DiscoverFleetTargets
    BY <1>5 DEF DiscoverFleetTargets, Goto
  <1>6. CASE ConfirmFleet
    BY <1>6 DEF ConfirmFleet, Exit, Goto, Undisturbed
  <1>7. CASE NextCluster
    <2>1. /\ UNCHANGED <<ctx, flags, targets, at, result>> /\ FleetExit(result) = 0
          /\ ctx # "live" \/ Ahead = {}
      BY <1>7 DEF NextCluster, Exit, Goto, history
    <2>2. c \in Clusters /\ Ahead = {} /\ c \in targets
      BY <2>1 DEF Undisturbed, Located, TypeOK
    <2>3. FleetCode(result[c]) = 0
      <3>1. FleetCode(result[c]) <= 0 /\ FleetCode(result[c]) \in {0, 3, 4, 5}
        BY <2>1, <2>2, FleetExitWorst DEF FleetCode
      <3> QED
        BY <3>1
    <2>4. result'[c].error = 0 /\ result'[c].outcome.failed = {}
      BY <1>1, <2>1, <2>2, <2>3, ZeroIsClean
    <2>5. PICK j \in 1 .. Len(ClusterOrder) : ClusterOrder[j] = c
      BY <2>2, OneByOne
    <2>6. j <= at
      BY <1>1, <2>2, <2>5, OneByOne DEF Ahead
    <2> QED
      BY <2>1, <2>4, <2>5, <2>6
  <1> QED
    BY <1>2, <1>3, <1>4, <1>5, <1>6, <1>7, EndingSteps DEF Between

--------------------------------------------------------------------------------
(***************************************************************************)
(* The invariant, and what follows from it.                                  *)
(***************************************************************************)
LEMMA SafetyInit == Init => SafetyInvariant
  <1> SUFFICES ASSUME Init PROVE SafetyInvariant
    OBVIOUS
  <1>1. Located
    BY InitLocated
  <1>2. \A c \in Clusters : result[c] = NoResult
    BY DEF Init
  <1>3. pc = "idle" /\ at = 0 /\ \A g \in Nodegroups : mine[g] = "none" /\ seen[g] = "none"
    BY DEF Init
  <1>4. CloudOK
    <2>1. /\ latest = 1 /\ goal = 1 /\ ~memo.ok
      BY DEF Init, Unread
    <2>2. nodegroup \in StartNodegroups
      BY DEF Init
    <2>3. \A g \in Nodegroups :
            /\ nodegroup[g].ami <= nodegroup[g].to /\ nodegroup[g].to <= 1
            /\ nodegroup[g].status # "UPDATING" => nodegroup[g].to = nodegroup[g].ami
      BY <2>2, StartAssumption
    <2> QED
      BY <1>3, <2>1, <2>3 DEF CloudOK, Final
  <1>5. FreshOK /\ OutcomeOK /\ RunningOK /\ ExitOK /\ DoneOK
    BY <1>3 DEF FreshOK, OutcomeOK, Looping, Starting, RunningOK, ExitOK, DoneOK
  <1>6. ReportOK
    BY <1>2 DEF ReportOK, NoResult
  <1>7. SettledOK
    BY <1>3, OneByOne DEF SettledOK, Behind
  <1> QED
    BY <1>1, <1>4, <1>5, <1>6, <1>7 DEF SafetyInvariant, Located

LEMMA SafetyStep == SafetyInvariant /\ [Next]_vars => SafetyInvariant'
  <1> SUFFICES ASSUME SafetyInvariant, [Next]_vars PROVE SafetyInvariant'
    OBVIOUS
  <1>1. Located /\ CloudOK
    BY DEF SafetyInvariant, Located
  <1>2. FreshOK /\ OutcomeOK /\ ReportOK /\ RunningOK /\ SettledOK /\ ExitOK /\ DoneOK
    BY DEF SafetyInvariant
  <1>3. Located'
    BY <1>1, LocatedStep
  <1>4. CloudOK' /\ FreshOK'
    BY <1>1, <1>2, <1>3, CloudStep, FreshStep
  <1>5. OutcomeOK' /\ ReportOK' /\ RunningOK'
    BY <1>1, <1>2, <1>3, OutcomeStep, ReportStep, RunningStep
  <1>6. SettledOK' /\ ExitOK' /\ DoneOK'
    BY <1>1, <1>2, <1>3, SettledStep, ExitStep, DoneStep
  <1> QED
    BY <1>3, <1>4, <1>5, <1>6 DEF SafetyInvariant, Located

\* What the process knows at each call, whatever EKS and other people do between its
\* calls, and however its calls fail.
THEOREM SafetyCorrect == Spec => []SafetyInvariant
  BY SafetyInit, SafetyStep, PTL DEF Spec

\* Every variable keeps its type; the cluster the process works on is one of the fleet.
THEOREM TypeCorrect == Spec => []TypeOK
  <1>1. SafetyInvariant => TypeOK
    BY DEF SafetyInvariant
  <1> QED
    BY <1>1, SafetyCorrect, PTL

\* The run summary accounts for each selected nodegroup once, and names as started those
\* whose update id the process holds (startNodegroupUpdates).
THEOREM SummaryCorrect == Spec => []SummaryAccounts
  <1>1. SafetyInvariant => SummaryAccounts
    <2> SUFFICES ASSUME SafetyInvariant, NEW c \in Clusters, result[c].outcome # NoOutcome,
                        NEW i \in DOMAIN Selection(c)
                 PROVE  LET o == result[c].outcome
                            g == Selection(c)[i]
                        IN /\ \E list \in DOMAIN o : {other \in DOMAIN o : g \in o[other]} = {list}
                           /\ g \in o.started <=> mine[g] # "none"
      BY DEF SummaryAccounts
    <2> DEFINE o == result[c].outcome
               g == Selection(c)[i]
    <2>1. Selection(c) \in Seq(Nodegroups) /\ DOMAIN o = Lists
      BY SelectionType DEF SafetyInvariant, TypeOK, Lists
    <2>2. i \in 1 .. Len(Selection(c))
      BY <2>1
    <2>3. OneList(o, g) /\ (g \in o.started <=> mine[g] # "none")
      BY <2>2 DEF SafetyInvariant, ReportOK
    <2>4. PICK list \in Lists : \A other \in Lists : g \in o[other] <=> other = list
      BY <2>3 DEF OneList
    <2>5. {other \in DOMAIN o : g \in o[other]} = {list}
      BY <2>1, <2>4
    <2> QED
      BY <2>1, <2>3, <2>5
  <1> QED
    BY <1>1, SafetyCorrect, PTL

\* A fleet run that waits does not start in a cluster while an update it started in
\* another one is in progress (the serial loop of runFleetUpdate).
THEOREM SerialCorrect == Spec => []OneClusterAtATime
  <1>1. SafetyInvariant => OneClusterAtATime
    <2> SUFFICES ASSUME SafetyInvariant, ~flags.noWait, NEW c \in Clusters, NEW d \in Clusters,
                        NEW i \in DOMAIN NodegroupsOf[c], NEW j \in DOMAIN NodegroupsOf[d],
                        mine[NodegroupsOf[c][i]] = "InProgress",
                        mine[NodegroupsOf[d][j]] = "InProgress"
                 PROVE  c = d
      BY DEF OneClusterAtATime
    <2>1. /\ NodegroupsOf[c] \in Seq(Nodegroups) /\ NodegroupsOf[d] \in Seq(Nodegroups)
      BY FleetAssumption
    <2>2. /\ i \in 1 .. Len(NodegroupsOf[c]) /\ NodegroupsOf[c][i] \in Nodegroups
          /\ j \in 1 .. Len(NodegroupsOf[d]) /\ NodegroupsOf[d][j] \in Nodegroups
      BY <2>1
    <2>3. at \in 1 .. Len(ClusterOrder)
      BY <2>2 DEF SafetyInvariant, RunningOK
    <2>4. Current \in Clusters
      BY <2>3, CurrentType DEF SafetyInvariant
    <2>5. ASSUME NEW e \in Clusters, NEW k \in 1 .. Len(NodegroupsOf[e]),
                 NodegroupsOf[e][k] \in Nodegroups, mine[NodegroupsOf[e][k]] = "InProgress"
          PROVE  e = Current
      <3>1. PICK n \in 1 .. Len(Selection(Current)) : NodegroupsOf[e][k] = Selection(Current)[n]
        BY <2>5 DEF SafetyInvariant, RunningOK
      <3>2. PICK m \in 1 .. Len(NodegroupsOf[Current]) :
              Selection(Current)[n] = NodegroupsOf[Current][m]
        BY <2>4, SelectionListed
      <3> QED
        BY <2>4, <2>5, <3>1, <3>2, ListsAssumption
    <2> QED
      BY <2>2, <2>5
  <1> QED
    BY <1>1, SafetyCorrect, PTL

\* The fleet's exit code covers the worst of its clusters (fleetExit).
THEOREM ExitCorrect == Spec => []WorstOutcome
  <1>1. SafetyInvariant => WorstOutcome
    <2> SUFFICES ASSUME SafetyInvariant, flags.fleet, NEW c \in Clusters
                 PROVE  UpdateExit(result[c]) <= exit
      BY DEF WorstOutcome
    <2>1. CASE pc = "done"
      BY <2>1 DEF SafetyInvariant, ExitOK
    <2>2. CASE pc # "done"
      <3>1. exit = 6
        BY <2>2 DEF SafetyInvariant, PlaceOK, NoExit
      <3>2. UpdateExit(result[c]) \in 0 .. 6
        BY UpdateExitType DEF SafetyInvariant, TypeOK, Results, Outcomes, NoExit
      <3> QED
        BY <3>1, <3>2
    <2> QED
      BY <2>1, <2>2
  <1> QED
    BY <1>1, SafetyCorrect, PTL

\* An undisturbed run that waits and exits 0 has patched every nodegroup it selected in
\* every cluster of the batch, and no later call or roll has undone it.
THEOREM SuccessCorrect == Spec => []SuccessMeansPatched
  <1>1. SafetyInvariant => SuccessMeansPatched
    <2> SUFFICES ASSUME SafetyInvariant, exit = 0, Undisturbed, NEW c \in targets,
                        NEW i \in DOMAIN Selection(c)
                 PROVE  Settled(Selection(c)[i])
      BY DEF SuccessMeansPatched, Settled, Undisturbed
    <2>1. TypeOK /\ PlaceOK /\ SettledOK /\ DoneOK
      BY DEF SafetyInvariant
    <2>2. pc = "done"
      BY <2>1 DEF PlaceOK, NoExit
    <2>3. PICK j \in 1 .. Len(ClusterOrder) : c = ClusterOrder[j] /\ j <= at
      BY <2>1, <2>2 DEF DoneOK
    <2>4. result[c].error = 0 /\ result[c].outcome.failed = {}
      BY <2>1, <2>2 DEF DoneOK
    <2>5. Behind(j)
      <3>1. at \in 0 .. Len(ClusterOrder)
        BY <2>1 DEF TypeOK
      <3> QED
        BY <2>2, <2>3, <3>1, OneByOne DEF Behind
    <2>6. Patched(c)
      BY <2>1, <2>3, <2>4, <2>5 DEF SettledOK
    <2>7. i \in 1 .. Len(Selection(c))
      BY <2>1, SelectionType DEF TypeOK
    <2> QED
      BY <2>6, <2>7 DEF Patched
  <1> QED
    BY <1>1, SafetyCorrect, PTL
================================================================================
