------------------------------ MODULE UpgradeSerial ------------------------------
(***************************************************************************)
(* What holds of UpgradeRun when runs that update add-ons do so for the same *)
(* hop, however often they are interrupted and started again: the add-ons of *)
(* a cluster only go up, so what a run passed over stays done. That is so of *)
(* one terminal, for whatever targets, and of any number with one hop to go. *)
(* A run for a lower hop in another terminal may lower an add-on that this   *)
(* one has passed.                                                          *)
(***************************************************************************)
EXTENDS UpgradeInvariant

OneTerminal == \A r, s \in Runs : r = s

\* Runs that are in the add-ons phase at once are at the same hop.
Agreed ==
  \A r, s \in Runs : (pc[r] \in AddonLabels /\ pc[s] \in AddonLabels) => hop[r] = hop[s]

\* The order of the add-ons names each of them once.
InstalledOnce ==
  \A i, j \in 1 .. Len(AddonOrder) : AddonOrder[i] = AddonOrder[j] => i = j

\* Nobody is updating an add-on of the cluster when the first run is launched.
AddonsAtRest == \A c \in StartClusters, a \in Addons : c.addon[a].status # "UPDATING"

\* Add-on updates go up, and only an update changes a version.
AddonsRise ==
  \A a \in Addons : /\ addon[a].version <= addon[a].to
                    /\ addon[a].to # addon[a].version => addon[a].status = "UPDATING"

\* What a run read of an add-on is a lower bound of its version.
AddonsRead(r) == \A a \in Addons : plan[r].addon[a] <= addon[a].version

\* Nodegroups are rolled to a hop, and the control plane leaves it, with the add-ons at it.
AddonsWalk(r) ==
  pc[r] \in PhaseLabels \cup {"phase"} =>
    /\ phase[r] = "nodegroups" => AddonsAt(hop[r])
    /\ phase[r] = "control plane" /\ hop[r] > FirstHop(plan[r]) => AddonsAt(hop[r] - 1)

\* The loop has passed an add-on only at its version for the hop. It updates one that is
\* not heading beyond that version, though another run may have started the same update
\* meanwhile, and goes on from its wait only when that is there.
AddonsLoop(r) ==
  LET a == addon[CurrentAddon(r)] IN
  /\ pc[r] \in AddonLabels \ {"addon list"} =>
       \A i \in 1 .. Len(AddonOrder) :
         i < pos[r] /\ AddonOrder[i] \in Converged =>
           addon[AddonOrder[i]].version >= Latest(AddonOrder[i], hop[r])
  /\ pc[r] = "addon reread" => (a.to = a.version \/ a.to <= Chosen(r))
  /\ pc[r] \in {"addon check", "addon start"} => a.to <= Chosen(r)
  /\ pc[r] = "addon wait" => \/ a.status = "UPDATING" /\ a.to = Chosen(r)
                             \/ a.status = "UPDATE_FAILED"
                             \/ a.version >= Chosen(r)
  /\ pc[r] = "addon verify" => a.version >= Chosen(r)

SerialInvariant ==
  /\ SafetyInvariant
  /\ AddonsRise /\ DependenciesFirst /\ RollAfterAddons
  /\ ReportTruthful /\ SuccessMeansUpgraded
  /\ \A r \in Runs : AddonsRead(r) /\ AddonsWalk(r) /\ AddonsLoop(r)

--------------------------------------------------------------------------------
(***************************************************************************)
(* OneInFlight, when the target is the minor after the cluster's or its own. *)
(* Over several hops it does not hold: a rerun plans from the control plane, *)
(* and starts its next update while the roll it left behind goes on.         *)
(***************************************************************************)
OneHop ==
  \E t \in Minors : /\ Targets = {t}
                    /\ \A c \in StartClusters : t <= c.cp.version + 1

\* ListNodegroups names each nodegroup once.
ListedOnce ==
  \A i, j \in 1 .. Len(NodegroupOrder) : NodegroupOrder[i] = NodegroupOrder[j] => i = j

\* A run goes to the target, by the one hop there is.
Aims(r) ==
  /\ pc[r] # "idle" => plan[r].target \in Targets
  /\ pc[r] \in PlanLabels \ {"plan cluster"} => plan[r].target <= plan[r].cp + 1
  /\ pc[r] \in PhaseLabels \cup {"phase"} => hop[r] \in Targets

\* What is in flight goes to the target, and what comes before it in Execute's order and
\* in its phase's list is there.
TargetInFlight ==
  \A t \in Targets :
    /\ t <= cp.version + 1
    /\ cp.to # cp.version => cp.to = t
    /\ \A i \in 1 .. Len(NodegroupOrder) :
         LET g == ng[NodegroupOrder[i]] IN
         g.to # g.version =>
           /\ g.to = t
           /\ \A j \in 1 .. Len(NodegroupOrder) :
                j < i /\ NodegroupOrder[j] \in Rollable => t <= ng[NodegroupOrder[j]].version
    /\ \A i \in 1 .. Len(AddonOrder) :
         LET a == addon[AddonOrder[i]] IN
         a.to # a.version =>
           /\ a.to = Latest(AddonOrder[i], t)
           /\ t <= cp.version
           /\ \A j \in 1 .. Len(AddonOrder) :
                j < i /\ AddonOrder[j] \in Converged =>
                  addon[AddonOrder[j]].version >= Latest(AddonOrder[j], t)

OneHopInvariant ==
  /\ SerialInvariant /\ TargetInFlight
  /\ \A r \in Runs : Aims(r)
================================================================================
