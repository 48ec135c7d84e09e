---------------------------- MODULE UpgradeContract ----------------------------
(***************************************************************************)
(* What an upgrade may do to a cluster, seen from the versions in effect     *)
(* alone: the abstract specification UpgradeRun implements, however many     *)
(* runs overlap and wherever they fail, stop or start again.                 *)
(***************************************************************************)
EXTENDS Integers

CONSTANTS
  Nodegroups, Rollable,   \* all nodegroups; those the upgrade may roll
  Addons, Converged,      \* all add-ons; those the upgrade may update
  FirstMinor,             \* the oldest minor there is
  Skew,                   \* how far nodes may trail the control plane
  Latest(_, _)            \* the add-on version chosen for a minor

VARIABLES plane, node, version   \* of the control plane, each nodegroup, each add-on

Init ==
  /\ plane \in Nat
  /\ node \in [Nodegroups -> Nat]
  /\ version \in [Addons -> Nat]

\* One minor at a time, and never so far that a nodegroup is out of support.
AdvancePlane ==
  /\ plane' = plane + 1
  /\ \A g \in Nodegroups : plane' <= node[g] + Skew
  /\ UNCHANGED <<node, version>>

\* Nodes only move up, up to the control plane.
RollNodegroup(g) ==
  /\ \E v \in node[g] + 1 .. plane : node' = [node EXCEPT ![g] = v]
  /\ UNCHANGED <<plane, version>>

\* An add-on gets the version chosen for a minor the control plane has reached.
ConvergeAddon(a) ==
  /\ \E k \in FirstMinor .. plane : version' = [version EXCEPT ![a] = Latest(a, k)]
  /\ UNCHANGED <<plane, node>>

Next ==
  \/ AdvancePlane
  \/ \E g \in Rollable : RollNodegroup(g)
  \/ \E a \in Converged : ConvergeAddon(a)

Spec == Init /\ [][Next]_<<plane, node, version>>
================================================================================
