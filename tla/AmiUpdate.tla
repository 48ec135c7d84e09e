------------------------------- MODULE AmiUpdate -------------------------------
(***************************************************************************)
(* `refresh nodegroup update`: health gate, selection, start, monitor and   *)
(* verification for one cluster (actions_update.go, verify.go, monitoring), *)
(* and the fleet loop over all of them (fleet.go). One process makes the     *)
(* calls; EKS, other users and the terminal's Ctrl+C act in between.         *)
(***************************************************************************)
EXTENDS Naturals, Sequences, FiniteSets

CONSTANTS
  Clusters,
  ClusterOrder,     \* the fleet: regions as asked for, each in ListClusters order
  RegionOf,
  Nodegroups,
  NodegroupsOf,     \* ListNodegroups order, per cluster
  Matching,         \* those of them whose name contains the pattern
  CustomAMI,        \* nodegroups with AmiType CUSTOM
  LastAMI,          \* AMI releases are 0 .. LastAMI; 1 is recommended at first
  Pods,
  KubeClusters,     \* where a kubeconfig may lead; NoCluster: nowhere
  NoCluster,
  StartNodegroups,  \* the nodegroups a run may find
  Invocations,      \* the flags the command is run with
  FaultKinds,
  MaxFaults

Regions == {RegionOf[c] : c \in Clusters}
AMIs == 0 .. LastAMI
Switches == {"fleet", "pattern", "force", "dryRun", "noWait", "quiet", "skipHealthCheck",
             "healthOnly", "yes", "requireHealthy", "skipVerify", "tty"}

ASSUME FleetAssumption ==
  /\ Clusters # {} /\ NoCluster \notin Clusters
  /\ KubeClusters \subseteq Clusters \cup {NoCluster}
  /\ ClusterOrder \in Seq(Clusters)
  /\ \A c \in Clusters : \E i \in 1 .. Len(ClusterOrder) : ClusterOrder[i] = c
  /\ \A i, j \in 1 .. Len(ClusterOrder) : ClusterOrder[i] = ClusterOrder[j] => i = j
  /\ NodegroupsOf \in [Clusters -> Seq(Nodegroups)]
  /\ Matching \in [Clusters -> Seq(Nodegroups)]
  /\ LastAMI \in Nat /\ MaxFaults \in Nat
  /\ Invocations \subseteq [Switches -> BOOLEAN]

NodegroupStates ==
  [ami : AMIs, to : AMIs, status : {"ACTIVE", "UPDATING", "DEGRADED"}]

\* A nodegroup never runs, or rolls to, an AMI that is not released.
ASSUME StartAssumption ==
  /\ LastAMI >= 1
  /\ StartNodegroups \subseteq [Nodegroups -> NodegroupStates]
  /\ \A start \in StartNodegroups, g \in Nodegroups :
       /\ start[g].ami <= start[g].to /\ start[g].to <= 1
       /\ start[g].status # "UPDATING" => start[g].to = start[g].ami

\* A nodegroup belongs to one cluster and is listed once, whether or not it matches.
ASSUME ListsAssumption ==
  /\ \A list \in {NodegroupsOf, Matching}, c, d \in Clusters :
       \A i \in 1 .. Len(list[c]), j \in 1 .. Len(list[d]) :
         list[c][i] = list[d][j] => c = d /\ i = j
  /\ \A c \in Clusters : \A i \in 1 .. Len(Matching[c]) :
       \E j \in 1 .. Len(NodegroupsOf[c]) : Matching[c][i] = NodegroupsOf[c][j]

VARIABLES
  nodegroup,  \* ami in effect, ami an update in flight installs, status
  mine,       \* DescribeUpdate of the update this process started, per nodegroup
  latest,     \* the recommended AMI
  pending,    \* pods that are Pending, per cluster
  faults

VARIABLES
  pc,         \* the call the process makes next
  flags, kube,
  ctx,        \* the context all calls are made with
  targets,    \* clusters to update
  at,         \* position in ClusterOrder
  selected, pos,
  memo,       \* the latest AMI as this cluster's loop resolved it
  outcome,    \* updateOutcomes of the current cluster
  seen,       \* ProgressMonitor: last status seen, per started update
  preroll,    \* pods Pending before the roll
  issues,     \* PostRollVerification has an issue
  result,     \* clusterUpdateResult, per cluster
  exit

VARIABLES
  goal,       \* history: the AMI recommended at launch
  others      \* history: nodegroups somebody else was rolling since then

cloudVars == <<nodegroup, mine, latest, pending, faults>>
loopVars == <<selected, pos, memo, outcome, seen, preroll, issues>>
fleetVars == <<flags, kube, targets, at, result, exit>>
history == <<goal, others>>
vars == <<cloudVars, pc, ctx, loopVars, fleetVars, history>>

Unread == [ok |-> FALSE, ami |-> 0]
NoExit == 6
NoOutcome == [started |-> {}, skipped |-> {}, custom |-> {}, failed |-> {}]

\* error: 0, or the exit code the error carries.
NoResult == [outcome |-> NoOutcome, healthBlocked |-> FALSE, verifyFailed |-> FALSE, error |-> 0]

Final == {"Successful", "Failed", "Cancelled"}
UpdateStatuses == Final \cup {"none", "InProgress"}
Labels == {"idle", "done", "resolve", "discover", "confirm", "next", "health", "select", "snapshot",
           "version", "describe", "latest", "current", "start", "monitor", "verify", "pods"}

--------------------------------------------------------------------------------
Fault(kind) == kind \in FaultKinds /\ faults < MaxFaults /\ faults' = faults + 1
NoFault == faults' = faults

\* With a done context no call is made; with a live one it may still fail.
Answered == ctx = "live" /\ NoFault
CallFails == IF ctx = "live" THEN Fault("call fails") ELSE NoFault

Goto(label) == pc' = label
SameLoop == UNCHANGED loopVars
SameFleet == UNCHANGED fleetVars
CloudStill == UNCHANGED <<nodegroup, mine, latest, pending>>
Only(label) ==
  Goto(label) /\ SameLoop /\ SameFleet /\ CloudStill /\ UNCHANGED <<ctx, history>>

Current == ClusterOrder[at]
Selection(c) == IF flags.pattern THEN Matching[c] ELSE NodegroupsOf[c]
Item == selected[pos]
Verifying == ~flags.skipVerify /\ ~flags.noWait

Exit(code) ==
  /\ Goto("done")
  /\ exit' = code
  /\ UNCHANGED <<flags, kube, targets, at>>

--------------------------------------------------------------------------------
(***************************************************************************)
(* Exit codes. A single-cluster run returns its error, or updateExit; the   *)
(* fleet returns the worst of its clusters.                                  *)
(***************************************************************************)
UpdateExit(r) ==
  CASE r.error # 0 -> r.error
    [] r.error = 0 /\ r.outcome.failed # {} -> 4
    [] r.error = 0 /\ r.outcome.failed = {} /\ r.verifyFailed -> 5
    [] OTHER -> 0

FleetCode(r) ==
  CASE r.healthBlocked -> 3
    [] ~r.healthBlocked /\ (r.error # 0 \/ r.outcome.failed # {}) -> 4
    [] ~r.healthBlocked /\ r.error = 0 /\ r.outcome.failed = {} /\ r.verifyFailed -> 5
    [] OTHER -> 0

\* Mutant: the last cluster's code instead of the worst.
FleetExitLast(results) == FleetCode(results[ClusterOrder[Len(ClusterOrder)]])

FleetExit(results) ==
  LET codes == {FleetCode(results[c]) : c \in Clusters}
  IN CHOOSE worst \in codes : \A code \in codes : code <= worst

\* The current cluster is done: report, or go on with the next one.
EndCluster(r) ==
  /\ result' = [result EXCEPT ![Current] = r]
  /\ IF flags.fleet
     THEN Goto("next") /\ UNCHANGED <<flags, kube, targets, at, exit>>
     ELSE Exit(UpdateExit(r))
  /\ UNCHANGED <<ctx, history>>

Refuse(code) == EndCluster([NoResult EXCEPT !.error = code]) /\ SameLoop /\ CloudStill

--------------------------------------------------------------------------------
(***************************************************************************)
(* Launch, and which clusters are meant. A process keeps nothing for the     *)
(* next one; what an earlier one left behind is among StartNodegroups.        *)
(***************************************************************************)
Launch ==
  /\ pc = "idle"
  /\ flags' \in Invocations
  /\ kube' \in KubeClusters
  /\ Goto(IF flags'.fleet THEN "discover" ELSE "resolve")
  /\ goal' = latest
  /\ others' = {g \in Nodegroups : nodegroup[g].status = "UPDATING"}
  /\ NoFault
  /\ UNCHANGED <<ctx, targets, at, result, exit>>
  /\ SameLoop /\ CloudStill

ResolveCluster ==
  /\ pc = "resolve"
  /\ \/ /\ Answered
        /\ at' \in 1 .. Len(ClusterOrder)
        /\ targets' = {ClusterOrder[at']}
        /\ Goto("health")
        /\ UNCHANGED <<flags, kube, result, exit>>
     \/ CallFails /\ Exit(1) /\ UNCHANGED result
  /\ SameLoop /\ CloudStill /\ UNCHANGED <<ctx, history>>

\* A region that cannot be listed contributes nothing, and nobody is told.
DiscoverFleetTargets ==
  /\ pc = "discover"
  /\ \E listed \in SUBSET Regions :
       /\ IF listed = Regions THEN Answered ELSE CallFails
       /\ ctx # "live" => listed = {}
       /\ targets' = {c \in Clusters : RegionOf[c] \in listed}
  /\ IF targets' = {} THEN Goto("done") /\ exit' = 0 ELSE Goto("confirm") /\ UNCHANGED exit
  /\ UNCHANGED <<flags, kube, at, result, ctx, history>>
  /\ SameLoop /\ CloudStill

\* One confirmation for the batch; a dry run needs none and changes nothing.
ConfirmFleet ==
  /\ pc = "confirm"
  /\ NoFault
  /\ \/ flags.dryRun /\ Exit(0)
     \/ ~flags.dryRun /\ ~flags.yes /\ Exit(1)    \* answered no, or nobody to ask
     \/ ~flags.dryRun /\ (flags.yes \/ flags.tty)
        /\ Goto("next")
        /\ flags' = [flags EXCEPT !["yes"] = TRUE]
        /\ UNCHANGED <<kube, targets, at, exit>>
  /\ UNCHANGED <<result, ctx, history>>
  /\ SameLoop /\ CloudStill

Ahead == {j \in (at + 1) .. Len(ClusterOrder) : ClusterOrder[j] \in targets}

NextCluster ==
  /\ pc = "next"
  /\ NoFault
  /\ \/ /\ ctx = "live"
        /\ at' \in Ahead /\ \A j \in Ahead : at' <= j
        /\ Goto("health")
        /\ UNCHANGED <<flags, kube, targets, exit>>
     \/ /\ ctx # "live" \/ Ahead = {}
        /\ Exit(FleetExit(result))
  /\ UNCHANGED <<result, ctx, history>>
  /\ SameLoop /\ CloudStill

--------------------------------------------------------------------------------
(***************************************************************************)
(* preflightHealthCheck and applyHealthDecision.                             *)
(***************************************************************************)
Decisions == {"PROCEED", "WARN", "BLOCK"}
GateSkipped == flags.skipHealthCheck \/ flags.dryRun \/ flags.force

\* --yes, or a terminal and --quiet: warnings pass without a question.
Unasked == flags.yes \/ (flags.tty /\ flags.quiet)

Verdict(done, code) == [done |-> done, code |-> code]

\* Mutant: warnings get the code of a failed start.
ApplyHealthDecisionWarn4(decision) ==
  {Verdict(decision # "PROCEED" \/ flags.healthOnly, IF decision = "PROCEED" THEN 0 ELSE 4)}

\* (done, err): err is the exit code it carries, or 0. Of warnings a terminal is asked.
OnWarnings ==
  CASE flags.healthOnly \/ flags.requireHealthy -> {Verdict(TRUE, 2)}
    [] ~flags.healthOnly /\ ~flags.requireHealthy /\ Unasked -> {Verdict(FALSE, 0)}
    [] OTHER -> {Verdict(TRUE, 1)} \cup (IF flags.tty THEN {Verdict(FALSE, 0)} ELSE {})

ApplyHealthDecision(decision) ==
  CASE decision = "BLOCK" -> {Verdict(TRUE, IF flags.healthOnly THEN 3 ELSE 1)}
    [] decision = "PROCEED" -> {Verdict(flags.healthOnly, 0)}
    [] decision = "WARN" -> OnWarnings

PreflightHealthCheck ==
  IF GateSkipped THEN {Verdict(flags.healthOnly, 0)}
  ELSE UNION {ApplyHealthDecision(d) : d \in Decisions}

HealthGate ==
  /\ pc = "health"
  /\ NoFault
  /\ \E v \in PreflightHealthCheck :
       \/ ~v.done /\ Only("select")
       \/ /\ v.done
          /\ EndCluster([NoResult EXCEPT !.healthBlocked = v.code # 0, !.error = v.code])
          /\ SameLoop /\ CloudStill

\* A fleet selects as if --yes were given; no match is an error.  A dry run that fails
\* ends with 1 as a listing that fails does; a fleet's dry run does not come here.
SelectNodegroups ==
  /\ pc = "select"
  /\ LET matches == Selection(Current)
         ambiguous == flags.pattern /\ Len(matches) > 1 /\ ~flags.yes
     IN \/ CallFails /\ Refuse(1)
        \/ Answered /\ (matches = <<>> \/ ambiguous) /\ Refuse(1)
        \/ /\ Answered /\ matches # <<>> /\ (ambiguous => flags.tty)
           /\ flags.dryRun
           /\ EndCluster(NoResult) /\ SameLoop /\ CloudStill
        \/ /\ Answered /\ matches # <<>> /\ (ambiguous => flags.tty)
           /\ ~flags.dryRun
           /\ Goto("snapshot")
           /\ selected' = matches /\ pos' = 1 /\ memo' = Unread
           /\ outcome' = NoOutcome /\ issues' = FALSE
           /\ UNCHANGED <<seen, preroll, ctx, history>>
           /\ SameFleet /\ CloudStill
--------------------------------------------------------------------------------
(***************************************************************************)
(* executeUpdates: snapshot, startNodegroupUpdates, monitor, verify.         *)
(***************************************************************************)
\* Without a client, or when the pods cannot be listed, the set is empty.
SnapshotPendingPods ==
  /\ pc = "snapshot"
  /\ \/ /\ Verifying /\ kube # NoCluster /\ Answered
        /\ preroll' = pending[kube]
     \/ /\ IF Verifying /\ kube # NoCluster THEN CallFails ELSE NoFault
        /\ preroll' = {}
  /\ Goto("version")
  /\ UNCHANGED <<selected, pos, memo, outcome, seen, issues, ctx, history>>
  /\ SameFleet /\ CloudStill

\* newLatestAMISkipChecker: with --force, or without the cluster's version,
\* nothing counts as latest.
DescribeClusterVersion ==
  /\ pc = "version"
  /\ \/ ~flags.force /\ Answered /\ memo' = Unread
     \/ /\ IF flags.force THEN NoFault ELSE CallFails
        /\ memo' = [ok |-> TRUE, ami |-> 0]
  /\ Goto("describe")
  /\ UNCHANGED <<selected, pos, outcome, seen, preroll, issues, ctx, history>>
  /\ SameFleet /\ CloudStill

\* The current nodegroup's disposition; the loop goes on with the next one.
Dispose(list) ==
  /\ outcome' = [outcome EXCEPT ![list] = @ \cup {Item}]
  /\ Goto("describe")
  /\ pos' = pos + 1
  /\ UNCHANGED <<selected, preroll, issues, ctx, history>>
  /\ SameFleet

InLoop == pc = "describe" /\ pos <= Len(selected)

AfterDescribe ==
  IF ~memo.ok THEN "latest" ELSE IF memo.ami = 0 THEN "start" ELSE "current"

\* Mutant: the loop does not continue after a nodegroup that is being updated.
DescribeNodegroupGoesOn ==
  /\ InLoop
  /\ CloudStill /\ UNCHANGED <<memo, seen>>
  /\ Answered
  /\ outcome' = [outcome EXCEPT !.skipped =
                   IF nodegroup[Item].status = "UPDATING" THEN @ \cup {Item} ELSE @]
  /\ Goto(AfterDescribe)
  /\ UNCHANGED <<selected, pos, preroll, issues, ctx, history>>
  /\ SameFleet

DescribeNodegroup ==
  /\ InLoop
  /\ CloudStill /\ UNCHANGED <<memo, seen>>
  /\ \/ CallFails /\ Dispose("failed")
     \/ Answered /\ Item \in CustomAMI /\ Dispose("custom")
     \/ /\ Answered /\ Item \notin CustomAMI
        /\ nodegroup[Item].status = "UPDATING"
        /\ Dispose("skipped")
     \/ /\ Answered /\ Item \notin CustomAMI
        /\ nodegroup[Item].status # "UPDATING"
        /\ Goto(AfterDescribe)
        /\ UNCHANGED <<selected, pos, outcome, preroll, issues, ctx, history>>
        /\ SameFleet

\* Memoized for the cluster, a failure too.
LatestAmi ==
  /\ pc = "latest"
  /\ \/ Answered /\ memo' = [ok |-> TRUE, ami |-> latest] /\ Goto("current")
     \/ CallFails /\ memo' = [ok |-> TRUE, ami |-> 0] /\ Goto("start")
  /\ UNCHANGED <<selected, pos, outcome, seen, preroll, issues, ctx, history>>
  /\ SameFleet /\ CloudStill

\* The image of one instance: during a roll the old one or the new one.
CurrentAmi ==
  /\ pc = "current"
  /\ CloudStill /\ UNCHANGED <<memo, seen>>
  /\ \/ /\ Answered
        /\ memo.ami \in {nodegroup[Item].ami, nodegroup[Item].to}
        /\ Dispose("skipped")
     \/ /\ \/ Answered /\ {nodegroup[Item].ami, nodegroup[Item].to} # {memo.ami}
           \/ CallFails
        /\ Goto("start")
        /\ UNCHANGED <<selected, pos, outcome, preroll, issues, ctx, history>>
        /\ SameFleet

Roll(g) ==
  nodegroup' = [nodegroup EXCEPT ![g].status = "UPDATING", ![g].to = latest]

\* EKS refuses a nodegroup that is being updated, and may refuse a degraded one.
UpdateNodegroupVersion ==
  /\ pc = "start"
  /\ UNCHANGED <<memo, latest, pending>>
  /\ \/ /\ Answered /\ nodegroup[Item].status # "UPDATING"
        /\ Roll(Item)
        /\ mine' = [mine EXCEPT ![Item] = "InProgress"]
        /\ seen' = [seen EXCEPT ![Item] = "InProgress"]
        /\ Dispose("started")
     \/ /\ \/ Answered /\ nodegroup[Item].status # "ACTIVE"
           \/ CallFails
        /\ UNCHANGED <<nodegroup, mine, seen>>
        /\ Dispose("failed")
     \/ /\ ctx = "live" /\ Fault("answer lost") /\ nodegroup[Item].status # "UPDATING"
        /\ Roll(Item)
        /\ UNCHANGED <<mine, seen>>
        /\ Dispose("failed")

ClusterResult(code) ==
  [NoResult EXCEPT !.outcome = outcome, !.error = code, !.verifyFailed = issues]

UpdatesStarted ==
  /\ pc = "describe" /\ pos > Len(selected)
  /\ NoFault
  /\ IF outcome.started = {} \/ flags.noWait
     THEN EndCluster(ClusterResult(0)) /\ SameLoop /\ CloudStill
     ELSE Only("monitor")

(***************************************************************************)
(* MonitorUpdates. A round asks for every update not seen final; one that    *)
(* cannot be read keeps its status and is asked for again.                   *)
(***************************************************************************)
CheckSingleUpdate(g) ==
  /\ pc = "monitor"
  /\ g \in outcome.started /\ seen[g] \notin Final
  /\ Answered
  /\ seen' = [seen EXCEPT ![g] = mine[g]]
  /\ UNCHANGED <<pc, selected, pos, memo, outcome, preroll, issues, ctx, history>>
  /\ SameFleet /\ CloudStill

\* What follows when MonitorUpdates returns: verification, unless it failed.
Monitored(code) ==
  IF code = 0 /\ Verifying
  THEN /\ Goto("verify") /\ pos' = 1
       /\ UNCHANGED <<selected, memo, outcome, seen, preroll, issues, ctx, history>>
       /\ SameFleet /\ CloudStill
  ELSE EndCluster(ClusterResult(code)) /\ SameLoop /\ CloudStill

\* Mutant: one complete update completes the round.
AnyComplete == \E g \in outcome.started : seen[g] \in Final
AllComplete == \A g \in outcome.started : seen[g] \in Final

\* Mutant: the summary reports no failure.
CompletionSummaryNoError ==
  pc = "monitor" /\ NoFault /\ AllComplete /\ Monitored(0)

CompletionSummary ==
  /\ pc = "monitor" /\ NoFault
  /\ AllComplete
  /\ Monitored(IF \E g \in outcome.started : seen[g] = "Failed" THEN 1 ELSE 0)

\* Mutant: only Ctrl+C ends the wait.
MonitorStoppedByUser ==
  pc = "monitor" /\ NoFault /\ ctx = "canceled" /\ Monitored(0)

\* Ctrl+C ends the wait without an error, the deadline with one.
MonitorStopped ==
  /\ pc = "monitor" /\ NoFault
  /\ \/ ctx = "canceled" /\ Monitored(0)
     \/ ctx = "deadline" /\ Monitored(1)

VerifyNodegroup ==
  /\ pc = "verify" /\ pos <= Len(selected)
  /\ \/ Item \notin outcome.started /\ NoFault /\ issues' = issues
     \/ Item \in outcome.started /\ CallFails /\ issues' = TRUE
     \/ /\ Item \in outcome.started /\ Answered
        /\ issues' = (issues \/ nodegroup[Item].status # "ACTIVE")
  /\ pos' = pos + 1
  /\ Goto("verify")
  /\ UNCHANGED <<selected, memo, outcome, seen, preroll, ctx, history>>
  /\ SameFleet /\ CloudStill

VerifyPods ==
  /\ pc = "verify" /\ pos > Len(selected)
  /\ \E after \in SUBSET Pods :
       /\ \/ kube = NoCluster /\ NoFault /\ after = {}
          \/ kube # NoCluster /\ Answered /\ after = pending[kube]
          \/ kube # NoCluster /\ CallFails /\ after = {}
       /\ EndCluster([ClusterResult(0) EXCEPT !.verifyFailed = issues \/ after \ preroll # {}])
  /\ SameLoop /\ CloudStill

--------------------------------------------------------------------------------
(***************************************************************************)
(* The terminal, the deadline of the context, EKS and other people.          *)
(***************************************************************************)
Alive == pc \notin {"idle", "done"}

ContextDone ==
  /\ Alive /\ ctx = "live"
  /\ ctx' \in {"canceled", "deadline"}
  /\ NoFault
  /\ UNCHANGED <<pc, history>>
  /\ SameLoop /\ SameFleet /\ CloudStill

RunStill == UNCHANGED <<pc, ctx, loopVars, fleetVars>>

FinishRoll(g, status, inEffect, health) ==
  /\ nodegroup[g].status = "UPDATING"
  /\ nodegroup' = [nodegroup EXCEPT ![g] = [ami |-> inEffect, to |-> inEffect, status |-> health]]
  /\ mine' = [mine EXCEPT ![g] = IF @ = "InProgress" THEN status ELSE @]
  /\ UNCHANGED <<latest, pending, history>> /\ RunStill

RollSucceeds(g) == NoFault /\ FinishRoll(g, "Successful", nodegroup[g].to, "ACTIVE")

RollFails(g) ==
  /\ Fault("update fails")
  /\ \E health \in {"ACTIVE", "DEGRADED"} :
       FinishRoll(g, "Failed", nodegroup[g].ami, health)

RollCancelled(g) ==
  Fault("update cancelled") /\ FinishRoll(g, "Cancelled", nodegroup[g].ami, "ACTIVE")

SomebodyElseRolls(g) ==
  /\ Fault("somebody else rolls")
  /\ nodegroup[g].status = "ACTIVE"
  /\ Roll(g)
  /\ others' = others \cup {g}
  /\ UNCHANGED <<mine, latest, pending, goal>> /\ RunStill

HealthChanges(g) ==
  /\ \/ nodegroup[g].status = "ACTIVE" /\ Fault("degrades")
        /\ nodegroup' = [nodegroup EXCEPT ![g].status = "DEGRADED"]
     \/ nodegroup[g].status = "DEGRADED" /\ NoFault
        /\ nodegroup' = [nodegroup EXCEPT ![g].status = "ACTIVE"]
  /\ UNCHANGED <<mine, latest, pending, history>> /\ RunStill

AmiReleased ==
  /\ latest < LastAMI /\ latest' = latest + 1
  /\ NoFault
  /\ UNCHANGED <<nodegroup, mine, pending, history>> /\ RunStill

\* A pod gets stuck, or is scheduled.
PodChanges(c, p) ==
  /\ \/ p \notin pending[c] /\ Fault("pod stuck")
        /\ pending' = [pending EXCEPT ![c] = @ \cup {p}]
     \/ p \in pending[c] /\ NoFault
        /\ pending' = [pending EXCEPT ![c] = @ \ {p}]
  /\ UNCHANGED <<nodegroup, mine, latest, history>> /\ RunStill

--------------------------------------------------------------------------------
Init ==
  /\ latest = 1
  /\ nodegroup \in StartNodegroups
  /\ mine = [g \in Nodegroups |-> "none"]
  /\ pending = [c \in Clusters |-> {}]
  /\ faults = 0
  /\ pc = "idle" /\ ctx = "live" /\ exit = NoExit
  /\ flags = [f \in Switches |-> FALSE] /\ kube = NoCluster
  /\ targets = {} /\ at = 0
  /\ selected = <<>> /\ pos = 1 /\ memo = Unread
  /\ outcome = NoOutcome /\ preroll = {} /\ issues = FALSE
  /\ seen = [g \in Nodegroups |-> "none"]
  /\ result = [c \in Clusters |-> NoResult]
  /\ goal = latest /\ others = {}

RunNext ==
  \/ ResolveCluster \/ DiscoverFleetTargets \/ ConfirmFleet \/ NextCluster
  \/ HealthGate \/ SelectNodegroups \/ SnapshotPendingPods \/ DescribeClusterVersion
  \/ DescribeNodegroup \/ LatestAmi \/ CurrentAmi \/ UpdateNodegroupVersion \/ UpdatesStarted
  \/ CompletionSummary \/ MonitorStopped \/ VerifyNodegroup \/ VerifyPods
  \/ \E g \in Nodegroups : CheckSingleUpdate(g)

CloudNext ==
  \/ AmiReleased
  \/ \E g \in Nodegroups : \/ RollSucceeds(g) \/ RollFails(g) \/ RollCancelled(g)
                           \/ SomebodyElseRolls(g) \/ HealthChanges(g)
  \/ \E c \in Clusters, p \in Pods : PodChanges(c, p)

\* The world matters while the process is there to see it.
Next == Launch \/ RunNext \/ ContextDone \/ (Alive /\ CloudNext)

Spec == Init /\ [][Next]_vars

(***************************************************************************)
(* The process makes its next call; its context has a deadline (--timeout,   *)
(* 60s when it is zero). Nothing is assumed of EKS.                          *)
(***************************************************************************)
FairSpec == Spec /\ WF_vars(RunNext) /\ WF_vars(ContextDone)
--------------------------------------------------------------------------------
TypeOK ==
  /\ nodegroup \in [Nodegroups -> NodegroupStates]
  /\ mine \in [Nodegroups -> UpdateStatuses]
  /\ latest \in AMIs
  /\ pending \in [Clusters -> SUBSET Pods]
  /\ faults \in Nat
  /\ pc \in Labels
  /\ flags \in [Switches -> BOOLEAN]
  /\ kube \in KubeClusters \cup {NoCluster}
  /\ ctx \in {"live", "canceled", "deadline"}
  /\ targets \subseteq Clusters
  /\ at \in 0 .. Len(ClusterOrder)
  /\ selected \in Seq(Nodegroups) /\ pos \in Nat
  /\ memo \in [ok : BOOLEAN, ami : AMIs]
  /\ outcome \in [{"started", "skipped", "custom", "failed"} -> SUBSET Nodegroups]
  /\ seen \in [Nodegroups -> UpdateStatuses]
  /\ preroll \subseteq Pods /\ issues \in BOOLEAN
  /\ result \in [Clusters -> [outcome : [{"started", "skipped", "custom", "failed"}
                                           -> SUBSET Nodegroups],
                              healthBlocked : BOOLEAN, verifyFailed : BOOLEAN, error : 0 .. 3]]
  /\ exit \in 0 .. NoExit
  /\ goal \in AMIs /\ others \subseteq Nodegroups

(***************************************************************************)
(* The run summary names every selected nodegroup exactly once, and as       *)
(* started exactly when the process holds the id of an update of it: nothing *)
(* is monitored, verified or reported that was not started, and the reverse. *)
(***************************************************************************)
SummaryAccounts ==
  \A c \in Clusters :
    LET o == result[c].outcome IN
    o # NoOutcome =>
      \A i \in DOMAIN Selection(c) :
        LET g == Selection(c)[i] IN
        /\ \E list \in DOMAIN o : {other \in DOMAIN o : g \in o[other]} = {list}
        /\ g \in o.started <=> mine[g] # "none"

(***************************************************************************)
(* A fleet run that waits works on one cluster at a time: the updates it     *)
(* knows to be running are all in one cluster ("serially", for the blast     *)
(* radius). An update whose start was not answered is not known to it.       *)
(***************************************************************************)
OneClusterAtATime ==
  ~flags.noWait =>
    \A c, d \in Clusters :
      \A i \in DOMAIN NodegroupsOf[c], j \in DOMAIN NodegroupsOf[d] :
        mine[NodegroupsOf[c][i]] = "InProgress" /\ mine[NodegroupsOf[d][j]] = "InProgress"
          => c = d

(***************************************************************************)
(* The fleet's exit code is at least as bad as the code each of its clusters *)
(* would have got from a run of its own.                                     *)
(***************************************************************************)
WorstOutcome == flags.fleet => \A c \in Clusters : UpdateExit(result[c]) <= exit

(***************************************************************************)
(* Exit code 0 from an undisturbed run that waits: every selected nodegroup  *)
(* of every cluster found runs the AMI recommended at the start or a newer   *)
(* one, unless it is custom, somebody cancelled the update, or somebody else *)
(* was rolling it meanwhile.                                                 *)
(***************************************************************************)
SuccessMeansPatched ==
  exit = 0 /\ ctx = "live" /\ ~flags.noWait /\ ~flags.dryRun /\ ~flags.healthOnly =>
    \A c \in targets : \A i \in DOMAIN Selection(c) :
      LET g == Selection(c)[i] IN
      \/ g \in CustomAMI \/ g \in others
      \/ mine[g] = "Cancelled"
      \/ nodegroup[g].ami >= goal

\* A run ends, whatever EKS does: no wait outlives the context.
EveryRunEnds == (pc # "idle") ~> (pc = "done")

(***************************************************************************)
(* Exit code 5 says "update completed but post-roll verification found       *)
(* issues": the updates the run started are over.                            *)
(***************************************************************************)
VerifiedAfterCompletion ==
  exit = 5 => \A g \in Nodegroups : mine[g] # "InProgress"

(***************************************************************************)
(* Exit code 0 of a fleet run that nobody interrupted says that updates      *)
(* "started/completed as expected": no cluster of the fleet was left out.    *)
(***************************************************************************)
FleetSuccessIsComplete ==
  flags.fleet /\ exit = 0 /\ ctx = "live" => targets = Clusters
================================================================================
