# Formal models of refresh

`refresh` is a command-line tool that upgrades and maintains Amazon EKS
clusters: it rolls managed nodegroups onto new AMIs, updates add-ons, scales
nodegroups and drives a whole Kubernetes upgrade. This directory holds TLA+
models of its logic, TLC configurations that check them on small clusters, and
TLAPS proofs of what matters most for clusters of every size.

Contents: [the system](#the-system), [modules](#modules),
[runs](#runs), [bounds](#bounds), [fairness](#fairness), [proofs](#proofs),
[disagreements with the documentation](#disagreements-with-the-documentation),
[what is left out](#what-is-left-out), [plan](#plan).

## The system

Everything that matters is shared with EKS: the tool keeps no state of its own
between two invocations except a file of named contexts and a cache of the
newest release tag. What makes it hard is that a process reads the cluster
through many separate calls, that the updates it starts run on after it has
died, and that several terminals (or a person and a pipeline) work on the same
cluster.

| Part | State | Operations | What makes it correct |
|---|---|---|---|
| Upgrade orchestrator, `services/upgrade`, `commands/cluster/upgrade.go` | the plan, the place in it, the report | `BuildPlan`, `Execute`, three phase executors with their waits | one minor at a time, nobody outside the kubelet skew, add-ons before nodes, dependencies first, true reports, a rerun that gets there |
| Add-on service, `services/addons` | memoized cluster version | `List`, `AddonStatus`, `Update`, `UpdateAll`, dependency sort | compatible versions only, health checked before and after, every add-on accounted for |
| AMI update, `commands/nodegroup/actions_update.go`, `verify.go` | outcome lists | select, health decision, start, monitor, verify, exit code | every nodegroup in exactly one outcome, exit code that tells the worst |
| Fleet update, `commands/nodegroup/fleet.go` | results per cluster | discover, confirm, update one after the other | nothing left out silently |
| Monitor, `monitoring` | progress per update | poll, cancel, time out, summarise | ends, and says why |
| Node roll observer and panel, `noderoll`, `rollview` | baseline, caches, seen nodes, drain starts | capture, observe, draw, complete | feed, eviction bar and completion say what really happened; a settled roll ends the panel |
| Health gate, `health` | one CPU snapshot | eight checks, aggregation to a decision | blocks exactly what is unsafe, as far as it can see; one reading of the load |
| Retry, fan-out, caches, `services/common` | attempts, semaphore, entries | `WithRetry`, `ForEachParallel`, `TTLCache` | one effect per request, bounded concurrency, no stale answer |
| Cluster service, `services/cluster` | TTL cache shared by the regions | multi-region list, upgrade-check, insight detail | every region accounted for, rows under their own region, blocking findings complete |
| Nodegroup service, `services/nodegroup` | image memo per listing | list, scale | stale means stale; a scale has one effect and reports what came of it |
| Status service, `services/status`, `statuscmd` | tier memo per region | sweep, assemble rows, exit code | the exit code the fleet deserves, every tier that of the row's version |
| Context store, `cliconfig`, `ctxcmd` | one YAML file | add, use, remove | atomic replacement, no lost context without an overlap |
| Update check, `updatecheck` | one cache file | read, fetch, write | asks at most once a day, hints only at newer versions |
| Commands, views, rendering, AWS helpers | none | flags, tables, client set-up | out of scope |

They interact by calls. `cluster upgrade` calls the add-on service for the list
and the updates, EKS for everything else, and the live panel between the start
of a roll and the wait for it. `nodegroup update` calls the health gate, EKS,
the panel, the monitor and the verification, and the fleet command repeats
that per cluster. All of them go through `WithRetry`; the list operations
through `ForEachParallel` and `TTLCache`.

The hard behaviours, each listed with its line under `hazards` in
`PROJECT.json`: overlapping invocations; interruption between any two calls
followed by a rerun; a mutating call whose answer is lost after every retry;
a plan put together from reads of different moments; waits that judge a status
somebody else also changes; one item of several failing; several hops with
nodegroups at the limit of the supported skew; for AMI updates, a wait ended by
Ctrl+C or by the deadline, polls that fail, and clusters of a fleet that end in
different ways; for add-ons, updates in parallel under a semaphore that a
cancellation stops handing out, and a dependant behind a dependency that failed;
for the panel, reads of nodes and pods at different moments and node names used
again; for the commands that read, memos and caches filled by whichever goroutine
comes first, a cluster that is upgraded between two reads, fan-outs cut short by
the deadline, and files that several processes write.

## Modules

| Module | Models | Corresponds to |
|---|---|---|
| `EKS` | the service, from how the code uses it | one action per thing EKS does by itself; `UpdateClusterVersion`, `UpdateNodegroupVersion`, `UpdateAddon` with what they accept |
| `UpgradePlan` | `BuildPlan` as operators over what it read | `expandHops`, `readinessStep`, `controlPlaneStep`, `addonSteps`, `nodegroupSteps`, `Blockers`, `PendingSteps` |
| `UpgradeRun` | `cluster upgrade` runs over `EKS` | one action per call that reads or changes the cluster, with every branch taken on its answer |
| `UpgradeContract` | what an upgrade may do to the versions in effect | abstract; `UpgradeRun` implements it |
| `MCUpgrade` | the small clusters TLC checks | |
| `AmiUpdate` | `nodegroup update`, for one cluster and for the fleet | one action per call of `runUpdateAMI`, `runFleetUpdate`, `executeUpdates`, `MonitorUpdates` and `verifyPostRoll` |
| `MCAmiUpdate` | a fleet of two clusters in two regions | |
| `AddonUpdate` | `addon update`, one add-on or `--all` | one action per call of `UpdateAll`, `List`, `Update` and the health checks, by the dispatch loop or by a worker; `sortByDependency` as an operator |
| `MCAddonUpdate` | three add-ons, each depending on those before it | |
| `NodeRoll` | the live panel over a nodegroup being rolled, and over the scripted roll | one action per read and repaint of `LiveRollForUpdate`, `Snapshot`, `Observe`, `runRoll` |
| `MCNodeRoll` | one node replaced, two fresh ones | |
| `ContextStore` | `use`, `context add`, `context remove` in several processes | one action per step of `Load`, the edit and `Save` |
| `UpdateCheck` | the check behind `version`, in several processes | one action per step of `LatestTag` |
| `ClusterList` | `cluster list` over several regions | the dispatch and collection loops, `List` and `TTLCache.Get` per goroutine |
| `FleetStatus` | `status` | `gatherFleet`, one goroutine per row and per nodegroup, both memos, `exitForStatuses` |
| `NodegroupScale` | `nodegroup scale` | one action per call of `Scale` and its wait |
| `HealthChecks` | the health gate | one action per call of the eight checks, `cpuSnapshot`, `aggregateResults` |
| `Readiness` | `cluster upgrade-check` and its `--id` view | one action per read of `UpgradeCheck`, `skewFindings`, `ResolveInsightID` |
| `Commands` | one of these seven commands, chosen at the start | `newApp`, `run` |
| `MCCommands` | the small worlds of the seven | |
| `Slices` | the members of a set, in the order of a slice | the filtering loops of `sortByDependency` and `skewFindings` |
| `UpgradeInvariant` | the inductive invariant of `UpgradeRun` | what a run knows at each call |
| `UpgradeSerial` | the inductive invariants of one terminal, and of any number with one hop to go | what a rerun may rely on |
| `AmiInvariant`, `AddonInvariant`, `NodeRollInvariant`, `CommandsInvariant` | the inductive invariants of the other components | what a process, a worker, a goroutine or the panel knows at each step |
| `UpgradeRunProofs`, `UpgradeSafetyProofs`, `UpgradeSerialProofs` | theorems about `UpgradeRun` | |
| `AmiUpdateProofs`, `AddonUpdateProofs`, `NodeRollProofs`, `CommandsProofs` | theorems about the other components | |
| `DataInduction` | lemmas about naturals, recursive functions and `Slices` that they share | |

**State.** A run's `pc` is the next call it makes; the labels carry the names of
the phases (`"cp ..."`, `"addon ..."`, `"ng ..."`). `plan` is the snapshot
`BuildPlan` read, `hop` and `phase` the place of `Execute` in it, `pos` the
index of the phase's loop, `listed` the versions `UpgradeNodegroups` listed
once at its start, `completed` and `exit` the report. The control plane, a
nodegroup and an add-on each have `version`, the version in effect, and `to`,
the version an update in flight installs (or `version` itself), and a status;
`update` holds what `DescribeUpdate` says of the update a run started last.

**Versions.** A Kubernetes version is its minor: `minorVersion` and
`versionAtLeast` look at nothing else. An add-on version is a number in the
order of `compareAddonVersions`; `Latest` is what `GetAvailableVersions`
returns first.

**Steps.** Between two calls a process only computes, so an action is one call
and everything the code does with its answer. Several runs, and EKS, interleave
between any two actions. So the nodegroups of the plan, and of a phase's listing, are
described one after the other, and the add-ons in any order, as their goroutines
come to it. `Launch` starts the command on an idle terminal and
again after it stopped, with nothing remembered. Interruption, timeout, and a
describe that fails after its retries are `PhaseFails` and `PlanFails`: the
process stops, EKS does not.

**AMI updates.** `AmiUpdate` follows a single invocation; what earlier ones left
behind (nodegroups rolling, degraded, or updated in part) is among
`StartNodegroups`. `flags` are the switches it was run with, `ctx` the context
every call is made with: once it is done, no call succeeds. `targets` and `at`
are the place in the fleet, `selected` and `pos` the place in the start loop and
in the verification, `memo` the image `newLatestAMISkipChecker` looked up,
`outcome` is `updateOutcomes`, `seen` what the monitor last read and `result`
one `clusterUpdateResult` per cluster. `mine` is EKS's word on the updates this
process started. `kube` is the cluster the kubeconfig leads to: one for the
whole run, whichever clusters are updated. An image is the number of its
release; the nodegroups EKS manages share one AMI type. `goal` and `others` are
history for `SuccessMeansPatched`: the image recommended at launch, and the
nodegroups somebody else was rolling. EKS acts only while the process runs.

**Add-on updates.** In `AddonUpdate` the dispatch loop of `UpdateAll` is `pc`,
`work` (its `toUpdate`) and `next`; `worker[i]` is the call of `Update` for the
add-on at position i, a goroutine with `--parallel` and the loop itself without,
`result[i]` its slot in `results`. `known` is the memoized cluster version all
workers share. `mine` is the update EKS keeps under the token `Update` made, so
a repeated request finds it, and `applied` counts the updates EKS accepted. An
add-on whose summary was never filled in, because the context ended while
`ForEachParallel` was handing out, is `Absent`, as is a name the cluster has no
add-on of. A throttled request is free: the attempts bound it. `others` is
history: add-ons somebody else updated. A single update is the same with one
position; the add-on a name resolves to is part of the request.

**The live panel.** In `NodeRoll` the cluster acts between any two reads, and a
frame is put together from a node list (`listed`) and a pod list read, or cached
by informers (`podCache`), at other moments. `baseline` and `desired` are
captured when the panel starts, which is after the update has started; `feed` is
the tracker's last event per node, `drainStart` the pods a node had when it was
first seen draining. A new instance may come up under the name of one that has
gone, as EC2 gives private addresses again. `source` says whether the panel shows
a cluster or the scripted roll of `--simulate`, which is frame after frame of
`DemoTimeline`. `left` and `broughtUp` are history: what really left, and which
fresh nodes really were Ready.

**The other commands.** The seven modules under `Commands` share nothing but EKS,
which each of them reads as external state that changes under it (`running`,
`load`, `ready`, `group`, `plane`). `Commands` therefore is their disjoint sum: a
behaviour picks one command and leaves the variables of the others alone, so that
one instance checks them all, and a command that gets stuck before its end is a
deadlock. The correspondence to the code is by name: `imageMemo` and `tierMemo`
are the maps of `newLatestAMIResolver` and `resolveSupport`, `snapshot` is
`cpuSnapshot` with its `sync.Once`, `cache` the shared `TTLCache`, `sees[i]` what
`List` returned to the goroutine of region i, `loaded`, `doc` and `temp` the file
read, the document edited and the temporary file of a process. History variables
are `about`, `asked`, `hints`, `disturbed` and `answerLost`.

**Faults.** `FaultKinds` names what may go wrong in a configuration and
`MaxFaults` how often. Everything else is free.

The code that never appears as state: progress lines, the rendering of plan and
report, `--dry-run` (it stops after the plan), and in `UpgradeRun` and
`AmiUpdate` the live panel, whose effect there is time only.

## Runs

| Run | Question | Result |
|---|---|---|
| `UpgradeResume` | one operator, one hop, reruns through two faults of any kind but a control-plane update that fails, starting from nodegroups at or behind the control plane and add-ons that are unhealthy or still being created | never two updates in flight, with the invariant that carries its proof, and finally upgraded for good |
| `UpgradeOverlap` | two terminals, two hops, a skipped nodegroup at the skew limit or beyond, an interruption | the skew holds, with the invariant that carries its proof, and the contract is implemented |
| `UpgradeHops` | targets behind, at, and ahead of what EKS offers, plans of zero to two hops over every mix of trailing nodegroups, two faults | order of hops, of phases and of dependencies; true reports and true success |
| `AmiUpdate` | fleet and single runs under seven sets of flags, one fault of any kind, Ctrl+C or the deadline anywhere | the summary is exact, clusters come one after the other, exit codes tell the worst, success means patched, with the invariant behind their proofs; every run ends |
| `AddonUpdate` | one add-on or all, parallel or in dependency order, with and without wait, one fault, the end of the context anywhere | the inductive invariant; order safe, one effect per request, dependants wait, success means updated, results are true of interrupted runs too, every run ends |
| `NodeRoll` | a node replaced while two come up, with failing or lagging reads, reused names, undone drains, and the scripted roll | the inductive invariant; feed, eviction bar and completion are true, and a settled roll ends the panel |
| `Commands` | each of seven commands alone, over a world that fails, moves and is shared | the inductive invariant of all seven, and the list below |
| `UpgradeResumeSkipsHop`, `UpgradeGateNoAttach`, `UpgradeGateBypass` | what the documentation says of reruns and gates | refuted, see below |
| `AmiUpdateInterrupted`, `AmiUpdateFleetSilent` | what the documentation says of exit codes 5 and 0 | refuted, see below |

Every property of a passing run has a mutant in `PROJECT.json`: a plausible
slip in a definition that makes TLC refute the property under the same
configuration.

The type invariants are part of the inductive invariants (`SafetyInvariant`,
`OneHopInvariant`, `AddonsInvariant`, `RollInvariant`, `CommandsInvariant`): a run
checks the latter, and TLC thereby tried on a small instance everything that the
proofs rest on. (Of the seven commands, `CommandsInvariant` holds the running one to
its part, the others' state being that of the start; the theorem has all parts.)

- `OneInFlight`, `EventuallyUpgraded`: a rerun meets what the run before it
  left behind. It attaches or refuses but never starts a second update, and as
  long as the cluster can be upgraded at all, repeating the command succeeds.
- `SkewSupported`, `ContractKept`: about versions in effect only, whoever
  changed them. Overlapping runs at different hops cannot together do what
  neither may do alone.
- `RollAfterAddons`, `DependenciesFirst`, `HopsInOrder`: an order among the
  updates of different resources, kept through reruns.
- `ReportTruthful`, `SuccessMeansUpgraded`: what the tool prints, against the
  cluster.

- `SummaryAccounts`: each selected nodegroup is in one list of the summary, and
  in `started` exactly when the process holds an update id for it.
- `OneClusterAtATime`: the promise of the serial fleet. It rests on the
  monitor: a round that cannot read one update must not end the wait.
- `WorstOutcome`: no cluster's failure is hidden by the aggregate code.
- `SuccessMeansPatched`: exit code 0 of a run that waits, against the images the
  nodegroups run. Cancelled updates, and nodegroups somebody else rolls, count
  as success in the code; the property names them as exceptions.
- `EveryRunEnds`: only the context ends a wait for an update that never does.

- `OrderIsSafe`: `sortByDependency` against what it must return, for every order
  of the list and every subset left by `--skip` and by an interrupted listing.
- `AppliedOnce`: an answer lost after the update was accepted, then a retry.
- `DependenciesSettled`: at the moment EKS accepts the update of an add-on, those
  it depends on are over. A dependency reported as failed does not hold its
  dependants back, and its update may then still run: the property says so.
- `SuccessMeansUpdated`: about undisturbed runs, see below.
- `ResultsHonest`: about every run. A cancelled parallel run leaves zero values among
  its results, which count as not failed; they stand for add-ons it never touched, since
  the command waits for the goroutines that it did start.

- `FeedMatchesPanel`: the feed, which is built from differences, and the table,
  which is built from one snapshot, never contradict each other.
- `EvictedIsReal`: the bar is a difference of two counts taken frames apart; it
  never claims an eviction that has not happened.
- `CompletionHonest`, `StableRollEndsPanel`: the panel does not end a roll early,
  and does end one that has settled. The second is liveness under the ticks of
  the panel alone.
- `StoreReadable`, `LossNeedsOverlap`: a crash leaves the old file; removing a
  context leaves no dangling pointer; an entry changes only by a command told to
  change it, unless two commands overlapped.
- `UpdateCheckKeepsPromise`: once a day as long as nothing fails, and the hint
  names a newer version by the order of releases.
- `RegionsAccounted`, `FreshEntriesStay`: regions race for the shared cache; each
  row is under its own region, and an entry stored meanwhile survives an expiry
  seen before.
- `StatusHonest`: memos filled by whoever comes first, clusters upgraded under
  the sweep; tiers, staleness and the exit code are those of the fleet.
- `ScaleHonest`: one update per command however answers are lost, none from a
  preview or a blocked gate, and success only after the size asked for was seen.
- `OneReading`, `GateEarned`: capacity and balance never disagree about the
  moment; in a cluster that stands still the gate blocks exactly what is unsafe.
  Without the Kubernetes client that is a cluster with no node, or one of whose
  nodegroups some have failed and none that is ACTIVE has an instance.
- `ReadinessHonest`: nothing blocking is missed or invented while nodegroups and
  control plane move between the reads.

`RollAfterAddons`, `DependenciesFirst`, `ReportTruthful`, `SuccessMeansUpgraded`
and `HopsInOrder` are claims about terminals that have the same hop to go:
`UpgradeHops` checks them for one terminal and plans of several hops, and theorem
`SharedHopCorrect` has all but the last for any number of terminals and one hop.
With two terminals started for targets 4 and 5, TLC finds that the run for the
lower target may take an add-on down that the other run has passed, and that a wait,
which judges the add-on's status, may end with the other run's update: then nodes are
rolled before their add-ons, a report claims what no longer holds, and "complete" is
said of a cluster that is not. `UpgradeContract` and `SkewSupported` say what
remains. `OneInFlight` is a claim about upgrades by one minor, from any number of
terminals: over several hops a rerun plans from the control plane and may start its
next update while the roll that the interrupted run left behind goes on.

## Bounds

Minors 1 to 6 and starting clusters at 3 leave room for two hops and for
nodegroups one and two minors behind, so that target 5 meets the skew of 3
exactly and exceeds it by one. Two nodegroups, one of them skipped or custom,
show the difference between what a run rolls and what it must look after. Two
add-ons are the least with a dependency order. Two faults let a fault hit the
recovery from another. `UpgradeResume` has every kind of fault except a failed
control-plane update, which `UpgradeHops` has. Two runs are affordable with less:
`UpgradeOverlap` has one fault, a call that fails, a fixed target and one add-on,
for which neither the skew nor the contract needs a second. Its two runs are
interchangeable, so they are a symmetry set. Two terminals with the same hop to go
were tried once with one nodegroup, two add-ons and two faults (704,214 states),
without a violation of `OneInFlight`; the theorems have them for any number. `UpgradeHops` has three add-ons, the middle one skipped: the order of
dependencies goes past it, and no phase waits for it. There `OfferedMinors` excludes 6, so that a target EKS does not offer
occurs. Nothing else is bounded: reruns are unlimited.

`AmiUpdate` needs two clusters (the serial loop, the aggregate code) in two
regions (partial discovery), two nodegroups in one of them (a round read in
part) and a custom one. Three images are the one in use, the one recommended and
one released meanwhile. The starts are a fleet that is old throughout and one
with a roll in progress beside an up-to-date nodegroup. One fault suffices for
each property to depend on the code that handles it; the same model was also
run with two, without a violation, which takes too long to repeat each time.

`AddonUpdate` has three add-ons, where a chain and a shared dependency both
occur, and a cap of 2 (3 in the code), so that a third add-on waits for a slot;
two attempts (5 in the code) are a retry and the last one. The list comes in the
two orders that differ most from the safe one. Versions 1 to 3: the newest of one
add-on is published, but not for the cluster's Kubernetes version, and a pinned
one is not offered. The starts are add-ons at rest, and one somebody is updating
beside a failed one.

`NodeRoll` starts from one old node, or from a nodegroup scaled to zero, with room
for two launches: the surge that satisfies the desired count while the old node
still serves, and a node that takes a name used before. One pod makes the
difference between evicted and not, one upset an undone drain or a node that
loses readiness.

`Commands` has, per command, the least that makes its hazard possible. Three
commands in two shells overlap or follow each other over three context names, one
of which is "-", the sign for the previous context. Three ticks of the clock
exceed the interval of two. One region is named three times under a limit of two
goroutines, so that one of them finds an entry the other has stored, seen expire,
or replaced. Three clusters of two versions in two regions fill the memos in
every order, with one failing call. Three update attempts (5 in the code) are a
retry, another and the last. The twelve situations of the health gate lie on both
sides of each threshold, with clients missing and nodegroups that are degraded
beside ones that are being updated, and one call fails or the cluster
changes once meanwhile. The nodegroups of the readiness report are one inside
and one at the skew limit.

## Fairness

`FairSpec` assumes that a live process makes its next call (it is sequential
code; every poll loop asks again after `PollInterval`), that EKS finishes the
updates it accepted unless a fault strikes, that nodegroups and add-ons that
report issues recover (the operator's part), and that the operator starts the
command again until it says complete or nothing to do. All are weak fairness.
An add-on whose update failed stays failed until it is updated again: the code
must cope with that one, and does.

In `AmiUpdate` the process makes its next call and its context ends eventually:
`setupAWS` gives every context a deadline unless `--timeout` is negative, and
with a negative one the monitor's own deadline has passed when it starts.
Nothing is assumed of EKS. `AddonUpdate` has the same fairness for the dispatch
loop and for each worker; `--timeout` is 10 minutes by default. `NodeRoll` assumes
that the panel keeps ticking and repainting, and nothing of the cluster or of the
end of the context. `Commands` claims nothing about fairness: its commands only
must not get stuck.

## Proofs

Every safety property that a passing run checks is a theorem: an invariant as
`Spec => []P`, an action property from the same invariant. Each holds for every
value of the constants that the named assumptions admit: any sets of nodegroups,
add-ons, clusters, runs, processes, regions and nodes, any listing order, any cap
and number of attempts, any number of faults. TLC evaluates the assumptions in the
runs.

| Theorem | States | Supposing |
|---|---|---|
| `UpgradeRunProofs!TypeCorrect` | `[]TypeOK` | |
| `UpgradeSafetyProofs!SafetyCorrect` | `[]SafetyInvariant` | |
| `UpgradeSafetyProofs!SkewCorrect` | `[]SkewSupported` | |
| `UpgradeSafetyProofs!ContractCorrect` | `ContractKept`, the refinement of `UpgradeContract` | |
| `UpgradeSerialProofs!SerialCorrect` | `[]SerialInvariant` | one terminal |
| `UpgradeSerialProofs!RollAfterAddonsCorrect`, `DependenciesFirstCorrect`, `ReportCorrect`, `SuccessCorrect`, `HopsCorrect` | `[]RollAfterAddons`, `[]DependenciesFirst`, `[]ReportTruthful`, `[]SuccessMeansUpgraded`, `HopsInOrder` | one terminal |
| `UpgradeSerialProofs!OneHopCorrect`, `OneInFlightCorrect` | `[]OneHopInvariant`, `[]OneInFlight` | one hop, any number of terminals |
| `UpgradeSerialProofs!SharedHopCorrect` | `[]` of `ReportTruthful`, `SuccessMeansUpgraded`, `RollAfterAddons` and `DependenciesFirst` | one hop, any number of terminals |
| `AmiUpdateProofs!SafetyCorrect` | `[]SafetyInvariant` | |
| `AmiUpdateProofs!SummaryCorrect`, `SerialCorrect`, `ExitCorrect`, `SuccessCorrect` | `[]SummaryAccounts`, `[]OneClusterAtATime`, `[]WorstOutcome`, `[]SuccessMeansPatched` | |
| `AddonUpdateProofs!SortSorts` | `SortByDependency` returns its list, each add-on once and after its dependencies | |
| `AddonUpdateProofs!AddonsCorrect` | `[]AddonsInvariant` | |
| `AddonUpdateProofs!OrderCorrect`, `AppliedCorrect`, `DependenciesCorrect`, `SuccessCorrect`, `ResultsCorrect` | `[]OrderIsSafe`, `[]AppliedOnce`, `[]DependenciesSettled`, `[]SuccessMeansUpdated`, `[]ResultsHonest` | |
| `NodeRollProofs!RollCorrect` | `[]RollInvariant` | |
| `NodeRollProofs!FeedCorrect`, `EvictedCorrect`, `CompletionCorrect` | `[]FeedMatchesPanel`, `[]EvictedIsReal`, `[]CompletionHonest` | |
| `CommandsProofs!StoreCorrect`, `LossCorrect` | `[]StoreReadable`, `LossNeedsOverlap` | |
| `CommandsProofs!CheckCorrect` | `[]UpdateCheckKeepsPromise` | |
| `CommandsProofs!ListingCorrect`, `FreshCorrect` | `[]RegionsAccounted`, `FreshEntriesStay` | |
| `CommandsProofs!ScaleCorrect` | `[]ScaleHonest` | |
| `CommandsProofs!OneReadingCorrect`, `GateCorrect` | `[]OneReading`, `[]GateEarned` | |
| `CommandsProofs!StatusCorrect` | `[]StatusHonest` | |
| `CommandsProofs!ReadinessCorrect` | `[]ReadinessHonest` | |
| `CommandsProofs!EveryCommandCorrect` | `[]CommandsInvariant`, `[]CommandsTypeOK`, and the invariant parts of all commands at once (`Parts`) | |

### Assumptions

- `EKS`, `UpgradeRun`: minors are naturals, the list orders enumerate the nodegroups
  and the add-ons, no nodegroup is called like the control plane, and the clusters a
  run may find are at rest and within the skew.
- One terminal is `OneTerminal`; one hop is a single target at most one minor ahead
  of every start (`OneHop`), and `ListedOnce`. Both suppose that the order of add-ons
  names each once (`InstalledOnce`: EKS lists an add-on once) and that no add-on is
  being updated when the first run starts (`AddonsAtRest`). The section on the runs
  says what happens without them; `UpgradeResume` and `UpgradeHops` are instances of
  one terminal, `UpgradeResume` of one hop.
- `AmiUpdate`: a nodegroup belongs to one cluster and is listed once, and what a
  pattern matches is among what is listed (`ListsAssumption`).
- `AddonUpdate`: the dependencies have no cycle (the static map of
  addon_dependencies.go has none), versions are finitely many, and without `--all`
  there is neither `--parallel` nor `--dependency-order`, which the command refuses.
- `Commands`: `--regions` and the region list it falls back to are not empty; a
  cluster's version is one whose support is known; a minor version in
  `upgrade-check` is one whose add-on versions are known, EKS's two lists name every
  nodegroup and every add-on, and nodegroups start at or behind the control plane;
  nodes, insights and sizes are finite sets of what they should be.

### The upgrade

`TypeOK` is inductive only together with `PositionOK` (the loop index is within
the list at every call about an item) and `PlanAhead` (a plan's target is not
behind its control plane: without it a hop could leave the range of minors). The
proof has one lemma per way a run moves on (`Stop`, `Step`, `NextItem`,
`NextPhase`, `Answered`) and one per group of actions.

`SkewSupported` by itself is not inductive. That a control plane may start hop h
rests on `SkewSafe`, evaluated when the plan was built over versions read one
call at a time, with nodegroups assumed to be where the run itself will have
rolled them by then. `SafetyInvariant` (module `UpgradeInvariant`) says why this
look-ahead may be trusted:

- `CloudDirection`: updates in flight go up, nodegroups never past the control
  plane, and only to what some run may choose. So versions in effect only rise
  (`VersionsRise`), and
- `Snapshots`: what a run read stays a lower bound, whoever moves the cluster.
- `Walk`: `Execute` is inside the hops of an unblocked plan, the control plane
  has reached the hop after its phase, and at the control-plane phase of a later
  hop every nodegroup the run rolls has reached the hop before.
- `Looping`: this is what the nodegroup loop establishes, item by item: those
  behind the index are at the hop, those acted on are not skipped.
- `Awaited`: a nodegroup is passed after a wait because the ledger's Successful
  means that its version is in effect, and because EKS takes no other update of
  a nodegroup that one is running on.

The step is split in two. A run keeps its own part (`OwnKept`, by phases); what
another run or EKS does leaves its part alone (`OthersKept`: the process stands
still, versions rise, and the ledger keeps its word). `ContractCorrect` follows
with one case per action of EKS that changes a version in effect; every other
action is a stutter of the contract.

`SerialInvariant` rests on `Agreed`: runs that are in the add-ons phase at once are
at the same hop, which is so of one terminal, and of any number with one hop to go.
It adds that add-ons only go up (`AddonsRise`; the code compares with what it read,
so a run for a lower hop can break it), that what was
read of them is a lower bound, that a run is in its nodegroup phase, or at the next
hop, only with the add-ons at the hop, and what the add-on loop knows of the add-on
at its index at each call. `OneHopInvariant` adds where everything in flight is
going, and what of Execute's order is finished when it is.

### AMI updates

`SafetyInvariant` (module `AmiInvariant`) has a part per kind of knowledge: where
the process is (`PlaceOK`), that clusters it has not come to are not reported on and
their nodegroups not started (`Unreported`, `FreshOK`), the direction of AMIs and
EKS's word on each update (`CloudOK`), the four lists of the summary against the
loop index (`OutcomeOK`, `ReportOK`), that running updates are those of the cluster
at hand (`RunningOK`), and what exit code 0 and the worst code rest on (`SettledOK`,
`ExitOK`, `DoneOK`).

### Add-on updates

`AddonsInvariant` says of each worker what it knows at each call, and of each result
what it vouches for (`WorkerOK`); that positions before the loop's index have a
worker or a result and those behind it neither (`LoopOK`); that a submitted update
has a worker that went that far (`OwnerOK`). Whether the list is complete and in
order (`ListOK`) rests on `SortSorts`: Kahn's algorithm as the code runs it, with its
in-degrees, its queue and the branch for cycles, which is shown never to be taken.
Its proof counts: a queue that runs dry with add-ons left would leave one of least
rank among them, and all of that one's dependencies have been ordered.

### The panel

`PodsAccounted` is why the eviction bar may subtract counts of different moments:
pods counted at any earlier moment are on a node of that name, or have left one.
`FreshAccounted` is why completion may be claimed from a list that is out of date.

### The commands

One lemma per component says that a step of the program is a step of that component
or leaves its state alone (`ContextSteps`, ..., `ReadSteps`); each component has its
own invariant, and `EveryCommandCorrect` puts them together.

- `StoreInvariant`: the document on its way to the context file is well formed,
  whole when it is renamed, and differs from the one loaded only in the context
  the command is about. The three edits keep it (`UseKeeps`, `SetKeeps`,
  `RemoveKeeps`). `StoreReadable` and `LossNeedsOverlap` both follow.
- `CheckInvariant`: in an undisturbed history at most one command is under way,
  and the last call of GitHub is vouched for at each of its points: by the time
  in the cache file, by the interval that has passed since, or by the entry about
  to be written. That the comparison of the first differing component is the
  order of versions is `OlderIsNewer`.
- `ListInvariant`: a fresh entry of the shared cache answers for the region of its
  key, a goroutine that has something to send has an answer for its own region or a
  failure, and the rows are those of the answers collected. `FreshEntriesStay` rests
  on the second look under the write lock.
- `ScaleInvariant`: while the update call is being retried, a token that EKS knows
  means a lost answer; after it, EKS has taken the update.
- `HealthInvariant`: both judges of the CPU have judged the one snapshot, which does
  not change once it is done (hence `OneReading`), and while nothing fails or moves
  every verdict is that of the cluster (`ReadAsIs`). `GateEarned` needs arithmetic
  beside it: `SumsExist`, `SumBounded`, `SumLinear` and `LittleSpread` bound the mean
  and the squared spread of readings that lie within 25 of each other, for any number
  of nodes. The proof found the first version of `Unsafe` wrong: a cluster without
  nodes, and one with a failed nodegroup beside one that is being updated, are blocked
  too.
- `StatusInvariant`: each row, each nodegroup and each memo entry is true of a version
  the cluster had since the sweep began (`RowHonest`, `GroupHonest`, `MemoHonest`),
  and exact when nothing failed or moved (`RowExact`, `GroupExact`, `RegionExact`).
- `ReadInvariant`: versions rise, so what was found behind was so at the start; when
  nothing failed or moved the report is that of the whole list up to the index
  (`ReadAsStood`). That the findings of a report name exactly those things, blocking
  ones first, is `ReportHolds`, from `KeptDraws` about the filtering of a slice.

### Induction

The prover cannot use a theorem that takes an operator as a parameter, so the
library's induction theorems are of no use to it. `DataInduction` proves what is
needed from finite sets instead: a set of naturals that holds 0 and the successors of
its members holds all (`NatSet`), because its complement would have a least element.
From it come the existence of recursive functions on an initial segment
(`RecursionSolved`), and so what `Kept`, the turns of Kahn's algorithm and `SumOf`
compute for every input; these three are recursive functions for that reason.

### What stays with TLC

The liveness properties (`EventuallyUpgraded`, `EveryRunEnds` twice,
`StableRollEndsPanel`), because the prover has no reasoning about fairness; and the
five refutations of the documentation, which are counterexamples.


## Disagreements with the documentation

Five runs refute a sentence of the documentation by what the code does.

- `UpgradeResumeSkipsHop`: "rerunning the same command after a failure (or
  Ctrl+C) resumes where it left off" (docs/reference/cluster.md). `BuildPlan`
  starts at the live control-plane version, so after an interruption between a
  hop's control plane and its nodegroups the rerun drops the rest of that hop
  and raises the control plane again. The skew still holds (`SkewSupported`).
- `UpgradeGateNoAttach`: "The control-plane and nodegroup phases attach to such
  in-flight updates" (internal/services/upgrade/addons.go). The nodegroup gate
  refuses a group that is `UPDATING`.
- `UpgradeGateBypass`: "a health gate after every phase"
  (docs/reference/cluster.md). An add-on that failed its health check has its
  new version already, so the rerun passes over it and rolls nodes.
- `AmiUpdateInterrupted`: exit code 5 is "Post-roll verification found issues"
  (docs/concepts/exit-codes.md). `MonitorUpdates` returns nil on Ctrl+C, so the
  verification runs, on the cancelled context: it finds an issue with every
  nodegroup, and the run reports a completed update while the roll goes on.
- `AmiUpdateFleetSilent`: "Success" (docs/concepts/exit-codes.md) and
  "worst-outcome exit code" (docs/usage/cookbook.md). A region that cannot be
  listed contributes neither a target nor a result, and the fleet exits 0.

Seen while reading and not turned into runs: a blocked health gate exits 1
without `--health-only`, where the documentation lists 3; a fleet cluster with
no matching nodegroup makes the exit code 4; `--require-healthy` stopped by
warnings is 3 in a fleet, not 2; pods are verified through the default
kubeconfig, whatever `--kubeconfig` says and whichever cluster is updated. An
interrupted `addon update --all --parallel` leaves the add-ons it never started
as empty results, which count as successes, so it may exit 0. A dependency that
failed or whose wait timed out does not stop `--dependency-order --wait`
("waiting for each to settle", docs/commands/addon.md). `WAIT_FAILED`, which
`updateAllFailureError` looks for, never reaches it: `Update` returns an error
with it, which becomes `FAILED`.

Of the live panel: its baseline is captured after the update was started, so a
node that came up in between counts as old, `desired` is too large, and a roll
that is over may keep the panel until the timeout; a surge can satisfy `desired`
while an old node is still Ready (the comment at rollview.go:242 says "until every roll-start node is replaced"); a node
that reuses the name of an old one counts as old for good.

Of `cluster list`: when the deadline cuts it, regions never started count as
queried, a failure of all that were started is reported as an empty list, and a
list that is missing clusters is cached; a region named twice is listed twice;
under `--filter status=` a cluster that cannot be described vanishes. Of
`status`: when interrupted it leaves nameless rows that count as healthy, and may
exit 0; a nodegroup that cannot be described is dropped without a word; an
add-on that cannot be described has version "" and counts as behind, although
`addonsBehind` says "don't guess"; "resolves each version at most once"
(support.go:65) does not hold for rows that miss the memo at the same time.

Of `version`: a failed check does not count as a check, so an offline machine
asks every time, against updatecheck.go:110 and the help text's "at most once per
day". Of the health gate: what cannot be described or has no metrics is left out
of the estimates, and deployments that cannot be listed read as "No user
deployments found". Of `nodegroup scale`: without `--desired` any ACTIVE ends the
wait, and the branch for a failed PDB check is never taken, for that check only
warns. Of `cluster upgrade-check`: `--id` looks among the upgrade insights only,
so a row of `--category MISCONFIGURATION` cannot be drilled into, although
`ResolveInsightID` says "anything visible in the table"; a nodegroup that cannot
be described is left out of the skew report.

## What is left out

The views that read, reshape and print: `cluster describe` with its own cache,
`nodegroup list` and `describe`, `addon list` and `describe`, the health column
of `cluster list`, the age of the oldest image and the kind of compute in
`status`. AWS client set-up and error texts; a paginated call is one step that
fails or answers whole. Terminal rendering; documentation generators. EKS beyond
what the code relies on: permissions, quotas, subnets and throttling appear only
as a call that fails. Of `nodegroup update`: changelogs, the warning about
instance offerings, and a zero `--timeout`, with which the monitor's own deadline
has passed at once. Of the health gate: scores and wording, on which no decision
depends. Of the panel: Warning events and pressure conditions, which are drawn as
read, and the widgets.

Three simplifications could hide a fault. Semaphores have no state of their own:
a slot is free when fewer goroutines run than the cap, as the send and the deferred
receive of the code make it, so a slot that is never given back could not show.
Where `AmiUpdate` leaves the panel out it leaves out the time it takes as well: when
a roll uses up the timeout inside the panel (rollview.go:274), the wait that asks EKS
afterwards finds the deadline passed, and a finished roll is reported as failed. And a
Ctrl+C ends the context and the wait of the monitor in one step, while in the code
they are two receivers of one signal (main.go:179, monitor.go:59), so that the monitor
may return a moment before the context is cancelled. What follows are calls, which
take longer than that moment; only the fleet loop, with `--skip-verify`, might in
between go on to its next cluster, all of whose calls then fail, and exit with a worse
code.

## Plan

1. Done: the modules above with their runs, and a theorem for every safety property
   that a passing run checks.
2. The flags per launch of `UpgradeRun`: the printed resume command drops `--skip`.
3. The dry-run preview of `nodegroup update` against the skip checker that decides.
4. What two terminals can still rely on beyond `UpgradeContract` when both have the
   same several hops to go: `SharedHopCorrect` is about one.
