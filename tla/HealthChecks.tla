----------------------------- MODULE HealthChecks -----------------------------
(***************************************************************************)
(* The pre-flight health gate: RunAllChecks runs eight checks in parallel, *)
(* two of which share one CPU snapshot fetched once, and aggregateResults  *)
(* turns their results into a decision (internal/health).  Scores and      *)
(* wording are left out: the decision does not depend on them.             *)
(***************************************************************************)
EXTENDS Integers, FiniteSets

CONSTANTS
    Situations,     \* what the cluster may be like: the readings of the simple checks
    InstancesOf,    \* nodegroup -> its instances, each one a node (external)
    Loads,          \* CPU percentages an instance may be at
    MaxTrouble      \* bound: calls that fail and changes of the cluster meanwhile

Nodes == UNION {InstancesOf[g] : g \in DOMAIN InstancesOf}
Snapshotters == {"capacity", "balance"}
Checks == {"nodes", "utilization", "controlPlane", "quotas", "workloads", "pdbs"}
             \cup Snapshotters

\* What a cluster may be like when the checks start.
Situation ==
    [clients : SUBSET {"kube", "cloudwatch", "quotas", "metrics"},
     load : [Nodes -> 0..100], ready : SUBSET Nodes,
     groupStatus : [DOMAIN InstancesOf -> {"ACTIVE", "CREATING", "UPDATING", "DEGRADED",
                                           "DELETING", "CREATE_FAILED", "DELETE_FAILED"}],
     etcd : Nat, serverErrors : BOOLEAN, throttled : BOOLEAN, reported : BOOLEAN,
     quota : Int, cpuUsed : Nat, memUsed : Nat, pods : Nat, podsUp : Nat,
     deployments : Nat, protected : Nat]

ASSUME HealthChecksAssumption ==
    /\ Loads \subseteq 0..100 /\ MaxTrouble \in Nat /\ IsFiniteSet(Nodes)
    /\ Situations \subseteq Situation
    /\ \A s \in Situations : s.podsUp <= s.pods /\ s.protected <= s.deployments

VARIABLES
    situation,
    clients,        \* of "kube", "cloudwatch", "quotas", "metrics": those wired
    load,           \* node -> CPU percentage (external)
    ready,          \* nodes that are Ready (external)
    groupStatus,    \* nodegroup -> status in EKS (external)
    drift,          \* changes of the cluster so far
    healthFaults,   \* calls that have failed
    verdict,        \* check -> its result
    counted,        \* what CheckNodeHealth read of the Kubernetes API
    snapshot,       \* key -> the CPU snapshot: state, instances, reading
    decision

clusterVars == <<situation, clients, load, ready, groupStatus, drift>>
healthVars == <<clusterVars, healthFaults, verdict, counted, snapshot, decision>>

Pending == [status |-> "PENDING", blocking |-> FALSE, skipped |-> FALSE]
Result(status, blocking) == [status |-> status, blocking |-> blocking, skipped |-> FALSE]
\* Left out of the decision, whatever its status.
Skip == [status |-> "WARN", blocking |-> FALSE, skipped |-> TRUE]
NotCounted == [asked |-> FALSE, known |-> FALSE, total |-> 0, ready |-> 0]
NoSnapshot == [state |-> "none", instances |-> {}, reading |-> [n \in {} |-> 0]]

CallFails == drift + healthFaults < MaxTrouble /\ healthFaults' = healthFaults + 1
CallsAnswer == UNCHANGED healthFaults
Judge(check, result) ==
    verdict[check] = Pending /\ verdict' = [verdict EXCEPT ![check] = result]

-----------------------------------------------------------------------------
(* Node health *)

KubernetesNodeCounts ==
    [asked |-> TRUE, known |-> TRUE, total |-> Cardinality(Nodes), ready |-> Cardinality(ready)]

\* ListNodegroups failing is a blocking failure.
ListForNodes ==
    /\ verdict["nodes"] = Pending /\ ~counted.asked
    /\ \/ /\ CallFails /\ Judge("nodes", Result("FAIL", TRUE)) /\ UNCHANGED counted
       \/ /\ counted' = [NotCounted EXCEPT !.asked = TRUE]
          /\ CallFails \/ (CallsAnswer /\ "kube" \notin clients)
          /\ UNCHANGED verdict
       \/ /\ CallsAnswer /\ "kube" \in clients /\ UNCHANGED verdict
          /\ counted' = KubernetesNodeCounts
    /\ UNCHANGED <<clusterVars, snapshot, decision>>

GroupsIn(described, statuses) == {g \in described : groupStatus[g] \in statuses}
SizeOf(groups) == Cardinality(UNION {InstancesOf[g] : g \in groups})

\* Real node counts supersede the desired sizes; a nodegroup that cannot be described is
\* left out of them.
NodeVerdict(described) ==
    LET total == IF counted.known THEN counted.total ELSE SizeOf(described)
        up == IF counted.known THEN counted.ready
              ELSE SizeOf(GroupsIn(described, {"ACTIVE"}))
        moving == GroupsIn(described, {"CREATING", "UPDATING"})
        sick == \/ described \ GroupsIn(described, {"ACTIVE", "CREATING", "UPDATING"}) # {}
                \/ counted.known /\ counted.ready < counted.total
    IN  CASE total = 0 -> "FAIL"
          [] total > 0 /\ sick -> IF up > 0 THEN "WARN" ELSE "FAIL"
          [] OTHER -> IF up = 0 /\ moving # {} THEN "WARN" ELSE "PASS"

CheckNodeHealth ==
    /\ counted.asked
    /\ \E described \in SUBSET DOMAIN InstancesOf :
         /\ IF described = DOMAIN InstancesOf THEN CallsAnswer ELSE CallFails
         /\ Judge("nodes", Result(NodeVerdict(described), TRUE))
    /\ UNCHANGED <<clusterVars, counted, snapshot, decision>>

-----------------------------------------------------------------------------
(* Capacity and balance over the CPU snapshot *)

\* Mutant: each check makes a snapshot of its own, as CheckClusterCapacity does.
SnapshotKeyEach(check) == check

SnapshotKey(check) == "shared"

Keys == Snapshotters \cup {"shared"}
Fetched(key, reading) ==
    snapshot' = [snapshot EXCEPT ![key].state = "done", ![key].reading = reading]

\* clusterCPUByInstance under the once: instances of the nodegroups that can be
\* described, then their CPU; an empty reading stands for its error.
DiscoverInstances(check) ==
    LET key == SnapshotKey(check)
    IN  /\ verdict[check] = Pending /\ snapshot[key].state = "none"
        /\ \/ /\ "cloudwatch" \notin clients /\ CallsAnswer
              /\ Fetched(key, NoSnapshot.reading)
           \/ /\ "cloudwatch" \in clients
              /\ \E groups \in SUBSET DOMAIN InstancesOf :
                   /\ IF groups = DOMAIN InstancesOf THEN CallsAnswer ELSE CallFails
                   /\ snapshot' = [snapshot EXCEPT ![key].state = "metrics",
                          ![key].instances = UNION {InstancesOf[g] : g \in groups}]
        /\ UNCHANGED <<clusterVars, verdict, counted, decision>>

ReadCPU(key) ==
    /\ snapshot[key].state = "metrics"
    /\ \E reporting \in SUBSET snapshot[key].instances :
         /\ IF reporting = snapshot[key].instances THEN CallsAnswer ELSE CallFails
         /\ Fetched(key, [n \in reporting |-> load[n]])
    /\ UNCHANGED <<clusterVars, verdict, counted, decision>>

\* The readings in some order, and their running total.
SumOf(reading) ==
    LET count == Cardinality(DOMAIN reading)
        order == CHOOSE f \in [1..count -> DOMAIN reading] :
                    \A n \in DOMAIN reading : \E i \in 1..count : f[i] = n
        sum[i \in 0..count] == IF i = 0 THEN 0 ELSE sum[i - 1] + reading[order[i]]
    IN  sum[count]

SumOfSquares(reading) == SumOf([n \in DOMAIN reading |-> reading[n] * reading[n]])
PeakAtLeast(reading, percent) == \E n \in DOMAIN reading : reading[n] >= percent

HeadroomAtLeast(reading, percent) ==
    SumOf(reading) <= (100 - percent) * Cardinality(DOMAIN reading)

CapacityVerdict(reading) ==
    CASE DOMAIN reading = {} -> "WARN"
      [] DOMAIN reading # {} /\ HeadroomAtLeast(reading, 30) /\ ~PeakAtLeast(reading, 85) ->
            "PASS"
      [] OTHER -> IF HeadroomAtLeast(reading, 15) /\ ~PeakAtLeast(reading, 95)
                  THEN "WARN" ELSE "FAIL"

\* Standard deviation over n readings above d: n * sum of squares - sum^2 > (d * n)^2.
SpreadAbove(reading, d) ==
    LET n == Cardinality(DOMAIN reading)
    IN  n * SumOfSquares(reading) - SumOf(reading) * SumOf(reading) > d * d * n * n

BalanceVerdict(reading) ==
    IF DOMAIN reading = {} \/ PeakAtLeast(reading, 81) \/ SpreadAbove(reading, 25)
    THEN "WARN" ELSE "PASS"

\* Capacity may block; balance only warns.
JudgeSnapshot(check) ==
    LET taken == snapshot[SnapshotKey(check)]
    IN  /\ taken.state = "done" /\ CallsAnswer
        /\ Judge(check, IF check = "capacity"
                        THEN Result(CapacityVerdict(taken.reading), TRUE)
                        ELSE Result(BalanceVerdict(taken.reading), FALSE))
        /\ UNCHANGED <<clusterVars, counted, snapshot, decision>>

-----------------------------------------------------------------------------
(* The simple checks *)

ControlPlaneVerdict(s) ==
    IF s.etcd >= 95 THEN "FAIL"
    ELSE IF s.etcd >= 80 \/ s.serverErrors \/ s.throttled THEN "WARN" ELSE "PASS"

QuotaVerdict(s) == IF s.quota >= 95 THEN "FAIL" ELSE IF s.quota >= 85 THEN "WARN" ELSE "PASS"

UtilizationVerdict(s) ==
    IF s.cpuUsed > 85 \/ s.memUsed > 90 THEN "FAIL"
    ELSE IF s.cpuUsed > 70 \/ s.memUsed > 80 THEN "WARN" ELSE "PASS"

WorkloadVerdict(s) ==
    CASE s.pods = 0 -> "WARN"
      [] s.pods > 0 /\ s.podsUp = s.pods -> "PASS"
      [] OTHER -> IF (s.podsUp * 100) \div s.pods >= 90 THEN "WARN" ELSE "FAIL"

PDBVerdict(s) == IF s.deployments = s.protected THEN "PASS" ELSE "WARN"

Needs(check) ==
    CASE check = "utilization" -> {"metrics", "kube"}
      [] check = "controlPlane" -> {"cloudwatch"}
      [] check = "quotas" -> {"quotas", "cloudwatch"}
      [] check \in {"workloads", "pdbs"} -> {"kube"}

Measured(check) ==
    CASE check = "utilization" -> Result(UtilizationVerdict(situation), FALSE)
      [] check = "controlPlane" -> IF situation.reported
                                   THEN Result(ControlPlaneVerdict(situation), TRUE) ELSE Skip
      [] check = "quotas" -> IF situation.quota < 0 THEN Skip
                             ELSE Result(QuotaVerdict(situation), FALSE)
      [] check = "workloads" -> Result(WorkloadVerdict(situation), TRUE)
      [] check = "pdbs" -> Result(PDBVerdict(situation), FALSE)

Counts(good, all) == {<<g, g + bad>> : g \in 0..good, bad \in 0..(all - good)}

\* A namespace that cannot be listed is left out, with whatever it holds; PDBs and
\* namespaces that cannot be listed are a warning; the other checks skip what they
\* cannot read.
Unmeasured(check) ==
    CASE check = "workloads" ->
            {Result(WorkloadVerdict([pods |-> c[2], podsUp |-> c[1]]), TRUE) :
                c \in Counts(situation.podsUp, situation.pods)}
      [] check = "pdbs" ->
            {Result("WARN", FALSE)} \cup
            {Result(PDBVerdict([deployments |-> c[2], protected |-> c[1]]), FALSE) :
                c \in Counts(situation.protected, situation.deployments)}
      [] OTHER -> {Skip}

SimpleCheck(check) ==
    /\ IF Needs(check) \subseteq clients
       THEN \/ CallsAnswer /\ Judge(check, Measured(check))
            \/ CallFails /\ \E result \in Unmeasured(check) : Judge(check, result)
       ELSE CallsAnswer /\ Judge(check, Skip)
    /\ UNCHANGED <<clusterVars, counted, snapshot, decision>>

-----------------------------------------------------------------------------
(* The decision *)

\* Mutant: a skipped check counts.
AggregateSkipped(results) ==
    CASE \E r \in results : r.status = "FAIL" /\ r.blocking -> "BLOCK"
      [] \A r \in results : r.status = "PASS" -> "PROCEED"
      [] OTHER -> "WARN"

AggregateResults(results) ==
    LET measured == {r \in results : ~r.skipped}
    IN  IF \E r \in measured : r.status = "FAIL" /\ r.blocking THEN "BLOCK"
        ELSE IF \E r \in measured : r.status # "PASS" THEN "WARN" ELSE "PROCEED"

Aggregate ==
    /\ decision = "PENDING" /\ \A check \in Checks : verdict[check] # Pending
    /\ decision' = AggregateResults({verdict[check] : check \in Checks})
    /\ UNCHANGED <<clusterVars, healthFaults, verdict, counted, snapshot>>

HealthStep ==
    \/ ListForNodes \/ CheckNodeHealth \/ Aggregate
    \/ \E check \in Snapshotters : DiscoverInstances(check) \/ JudgeSnapshot(check)
    \/ \E key \in Keys : ReadCPU(key)
    \/ \E check \in Checks \ (Snapshotters \cup {"nodes"}) : SimpleCheck(check)

\* The cluster moves on while it is being checked (external).
Drifts ==
    decision = "PENDING" /\ drift + healthFaults < MaxTrouble /\ drift' = drift + 1

LoadChanges ==
    /\ Drifts /\ \E n \in Nodes, percent \in Loads : load' = [load EXCEPT ![n] = percent]
    /\ UNCHANGED <<situation, clients, ready, groupStatus, healthFaults, verdict, counted,
                   snapshot, decision>>

NodeChanges ==
    /\ Drifts
    /\ \E n \in Nodes : ready' = IF n \in ready THEN ready \ {n} ELSE ready \cup {n}
    /\ UNCHANGED <<situation, clients, load, groupStatus, healthFaults, verdict, counted,
                   snapshot, decision>>

HealthChecksInit ==
    /\ situation \in Situations
    /\ clients = situation.clients /\ load = situation.load
    /\ ready = situation.ready /\ groupStatus = situation.groupStatus
    /\ drift = 0 /\ healthFaults = 0
    /\ verdict = [check \in Checks |-> Pending] /\ counted = NotCounted
    /\ snapshot = [key \in Keys |-> NoSnapshot] /\ decision = "PENDING"

HealthChecksNext == HealthStep \/ LoadChanges \/ NodeChanges

-----------------------------------------------------------------------------
(* Properties *)

HealthChecksTypeOK ==
    /\ situation \in Situations /\ load \in [Nodes -> 0..100] /\ ready \subseteq Nodes
    /\ clients \subseteq {"kube", "cloudwatch", "quotas", "metrics"}
    /\ drift \in 0..MaxTrouble /\ healthFaults \in 0..(MaxTrouble - drift)
    /\ verdict \in [Checks -> [status : {"PENDING", "PASS", "WARN", "FAIL"},
                               blocking : BOOLEAN, skipped : BOOLEAN]]
    /\ \A key \in Keys : /\ snapshot[key].state \in {"none", "metrics", "done"}
                         /\ DOMAIN snapshot[key].reading \subseteq snapshot[key].instances
    /\ decision \in {"PENDING", "PROCEED", "WARN", "BLOCK"}

\* Whatever the load does while the checks run, capacity and balance judge the same
\* moment: balance never finds the cluster even and calm when capacity found an
\* overloaded node, nor calls it uneven for a reading capacity did not get
\* (RunAllChecks, cpuSnapshot).
OneReading ==
    verdict["capacity"] # Pending /\ verdict["balance"] # Pending =>
        /\ verdict["balance"].status = "PASS" => verdict["capacity"].status # "FAIL"
        /\ \E reading \in {snapshot[key].reading : key \in Keys} :
              /\ verdict["capacity"].status = CapacityVerdict(reading)
              /\ verdict["balance"].status = BalanceVerdict(reading)

Overloaded ==
    \/ \E n \in Nodes : load[n] >= 95
    \/ SumOf(load) > 85 * Cardinality(Nodes)

\* What must keep an operation from starting, as far as the wired clients can tell.
Unsafe ==
    \/ IF "kube" \in clients
       THEN ready = {} \/ (situation.pods > 0 /\ 10 * situation.podsUp < 9 * situation.pods)
       ELSE \/ Nodes = {}
            \/ /\ \E g \in DOMAIN InstancesOf :
                     groupStatus[g] \notin {"ACTIVE", "CREATING", "UPDATING"}
               /\ \A g \in DOMAIN InstancesOf :
                     groupStatus[g] = "ACTIVE" => InstancesOf[g] = {}
    \/ "cloudwatch" \in clients /\ (Overloaded \/ (situation.reported /\ situation.etcd >= 95))

Sound ==
    /\ Nodes # {} /\ "cloudwatch" \in clients /\ \A n \in Nodes : load[n] < 70
    /\ \A n, o \in Nodes : load[n] - load[o] <= 25
    /\ groupStatus \in [DOMAIN InstancesOf -> {"ACTIVE"}]
    /\ situation.reported =>
         situation.etcd < 80 /\ ~situation.serverErrors /\ ~situation.throttled
    /\ "quotas" \in clients => situation.quota < 85
    /\ "kube" \in clients =>
         /\ ready = Nodes /\ situation.pods = situation.podsUp /\ situation.pods > 0
         /\ situation.deployments = situation.protected
         /\ "metrics" \in clients => situation.cpuUsed <= 70 /\ situation.memUsed <= 80

BlockingChecks == {"nodes", "capacity", "controlPlane", "workloads"}

\* When the cluster stood still and every call was answered, the gate blocks exactly when
\* what the wired clients can see is unsafe, and lets a sound cluster through even when
\* other clients are missing.  In any case only a failed blocking check blocks, and the
\* gate never proceeds without having seen nodes and capacity pass (RunAllChecks,
\* aggregateResults).
GateEarned ==
    decision # "PENDING" =>
        /\ drift = 0 /\ healthFaults = 0 =>
              (decision = "BLOCK" <=> Unsafe) /\ (Sound => decision = "PROCEED")
        /\ decision = "BLOCK" =>
              \E check \in BlockingChecks : verdict[check] = Result("FAIL", TRUE)
        /\ decision = "PROCEED" =>
              verdict["nodes"].status = "PASS" /\ verdict["capacity"].status = "PASS"

=============================================================================
