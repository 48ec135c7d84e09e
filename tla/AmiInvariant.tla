------------------------------ MODULE AmiInvariant ------------------------------
(***************************************************************************)
(* The inductive invariant behind the safety properties of AmiUpdate: what   *)
(* the process knows at each call, whatever EKS and other people do between  *)
(* its calls.                                                                 *)
(***************************************************************************)
EXTENDS AmiUpdate

Before == {"idle", "resolve", "discover", "confirm"}
Starting == {"snapshot", "version", "describe", "latest", "current", "start"}
Looping == Starting \cup {"monitor", "verify"}
InCluster == Looping \cup {"health", "select"}

\* The process is at a cluster of the batch, at a nodegroup of its selection, and has
\* reported on no cluster it has not been to.
PlaceOK ==
  /\ pc # "done" => exit = NoExit
  /\ pc \in InCluster => at \in 1 .. Len(ClusterOrder) /\ Current \in targets
  /\ pc \in Looping => selected = Selection(Current) /\ pos \in 1 .. Len(selected) + 1
  /\ pc \in {"latest", "current", "start"} => pos <= Len(selected)
  /\ pc \in Before => at = 0
  /\ pc \in {"idle", "resolve", "discover"} => targets = {}
  /\ pc = "resolve" => ~flags.fleet
  /\ pc \in {"discover", "confirm", "next"} => flags.fleet
  /\ ~flags.fleet /\ pc \notin Before =>
       \A c \in targets : at \in 1 .. Len(ClusterOrder) /\ c = Current

Unreported ==
  /\ pc \in Before => \A c \in Clusters : result[c] = NoResult
  /\ \A j \in 1 .. Len(ClusterOrder) :
       j > at \/ (j = at /\ pc \in InCluster) => result[ClusterOrder[j]] = NoResult
  /\ \A c \in Clusters : result[c].healthBlocked => result[c].error # 0

\* AMIs only go up, a nodegroup at rest runs what it was rolled to, and the updates
\* the process started install the AMI recommended at launch or a newer one.
CloudOK ==
  /\ 1 <= goal /\ goal <= latest
  /\ memo.ok /\ memo.ami # 0 => memo.ami >= goal
  /\ pc = "idle" => ~memo.ok
  /\ pc = "current" => memo.ok /\ memo.ami # 0
  /\ \A g \in Nodegroups :
       /\ nodegroup[g].ami <= nodegroup[g].to /\ nodegroup[g].to <= latest
       /\ nodegroup[g].status # "UPDATING" => nodegroup[g].to = nodegroup[g].ami
       /\ mine[g] = "InProgress" => nodegroup[g].status = "UPDATING" /\ nodegroup[g].to >= goal
       /\ mine[g] = "Successful" => nodegroup[g].ami >= goal
       /\ seen[g] \in Final => mine[g] = seen[g]

\* A nodegroup the loop has not come to was not started, and if it is being rolled
\* somebody else does it: an answer is lost only when its nodegroup is disposed of.
Untouched(g) == mine[g] = "none" /\ (nodegroup[g].status = "UPDATING" => g \in others)
Fresh(j, i) ==
  \/ j > at
  \/ j = at /\ pc \in {"health", "select"}
  \/ j = at /\ pc \in Starting /\ i >= pos
FreshOK ==
  /\ pc = "idle" => \A g \in Nodegroups : mine[g] = "none"
  /\ pc # "idle" =>
       \A j \in 1 .. Len(ClusterOrder) : \A i \in 1 .. Len(Selection(ClusterOrder[j])) :
         Fresh(j, i) => Untouched(Selection(ClusterOrder[j])[i])

Lists == {"started", "skipped", "custom", "failed"}
OneList(o, g) == \E list \in Lists : \A other \in Lists : g \in o[other] <=> other = list
Disposed(i) == pc \in {"monitor", "verify"} \/ i < pos

\* The loop has disposed of the nodegroups before its position and of no other.
Accounted(i) ==
  LET g == selected[i] IN
  /\ IF Disposed(i) THEN OneList(outcome, g) ELSE \A list \in Lists : g \notin outcome[list]
  /\ g \in outcome.started <=> mine[g] # "none"
  /\ g \in outcome.custom => g \in CustomAMI
  /\ g \in outcome.skipped => g \in others \/ nodegroup[g].ami >= goal
OutcomeOK == pc \in Looping => \A i \in 1 .. Len(selected) : Accounted(i)

ReportOK ==
  \A c \in Clusters : result[c].outcome # NoOutcome =>
    \A i \in 1 .. Len(Selection(c)) :
      /\ OneList(result[c].outcome, Selection(c)[i])
      /\ Selection(c)[i] \in result[c].outcome.started <=> mine[Selection(c)[i]] # "none"

\* A run that waits knows of running updates only in the cluster it is at, and while
\* its context is live only until the monitor returns.
RunningOK ==
  ~flags.noWait => \A g \in Nodegroups : mine[g] = "InProgress" =>
    /\ at \in 1 .. Len(ClusterOrder)
    /\ \E i \in 1 .. Len(Selection(Current)) : g = Selection(Current)[i]
    /\ ctx = "live" => pc \in {"describe", "latest", "current", "start", "monitor"}

\* A cluster done without an error or a failed start is patched.
Undisturbed == ctx = "live" /\ ~flags.noWait /\ ~flags.dryRun /\ ~flags.healthOnly
Settled(g) ==
  g \in CustomAMI \/ g \in others \/ mine[g] = "Cancelled" \/ nodegroup[g].ami >= goal
Patched(c) == \A i \in 1 .. Len(Selection(c)) : Settled(Selection(c)[i])
Behind(j) == j < at \/ (j = at /\ pc \in {"next", "done"})
SettledOK ==
  Undisturbed =>
    /\ \A j \in 1 .. Len(ClusterOrder) :
         Behind(j) /\ ClusterOrder[j] \in targets
           /\ result[ClusterOrder[j]].error = 0 /\ result[ClusterOrder[j]].outcome.failed = {}
           => Patched(ClusterOrder[j])
    /\ pc = "verify" /\ outcome.failed = {} => Patched(Current)

\* What the fleet exits with is at least as bad as each cluster's own code.
ExitOK ==
  pc = "done" /\ flags.fleet => \A c \in Clusters : UpdateExit(result[c]) <= exit

\* A run that exits 0 has been to every cluster of the batch, and none of them has an
\* error or a failed start.
DoneOK ==
  pc = "done" /\ exit = 0 /\ Undisturbed =>
    \A c \in targets :
      /\ result[c].error = 0 /\ result[c].outcome.failed = {}
      /\ \E j \in 1 .. Len(ClusterOrder) : c = ClusterOrder[j] /\ j <= at

SafetyInvariant ==
  /\ TypeOK /\ PlaceOK /\ Unreported /\ CloudOK /\ FreshOK
  /\ OutcomeOK /\ ReportOK /\ RunningOK /\ SettledOK /\ ExitOK /\ DoneOK
================================================================================
