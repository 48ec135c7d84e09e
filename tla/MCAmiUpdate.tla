------------------------------ MODULE MCAmiUpdate ------------------------------
(***************************************************************************)
(* A fleet of two clusters in two regions for AmiUpdate: east has two        *)
(* nodegroups EKS manages, west one and a custom one.                        *)
(***************************************************************************)
EXTENDS AmiInvariant, TLC

CONSTANTS east, west, web, batch, api, gpu

EastThenWest == <<east, west>>
OwnRegion == [c \in Clusters |-> c]
AllNodegroups == [c \in Clusters |-> IF c = east THEN <<web, batch>> ELSE <<api, gpu>>]
EastPattern == [c \in Clusters |-> IF c = east THEN <<web, batch>> ELSE <<>>]

On(v) == [ami |-> v, to |-> v, status |-> "ACTIVE"]
Rolling == [ami |-> 0, to |-> 1, status |-> "UPDATING"]

\* What a run may find, remains of an earlier one included.
Start(w, b) == [g \in Nodegroups |-> CASE g = web -> w [] g = batch -> b [] OTHER -> On(0)]
Found == {Start(On(0), On(0)), Start(Rolling, On(1))}
AllOld == {[g \in Nodegroups |-> On(0)]}

With(set) == [f \in Switches |-> f \in set]
Invoked ==
  {With({"fleet", "yes"}), With({"fleet", "tty", "healthOnly"}), With({"fleet", "dryRun"}),
   With({"tty", "quiet", "skipVerify"}), With({"tty", "pattern", "noWait", "requireHealthy"}),
   With({"yes", "pattern", "force"}), With({"dryRun"})}
FleetUnverified == {With({"fleet", "yes", "skipHealthCheck", "skipVerify"})}
One == {With({"skipHealthCheck"})}
================================================================================
