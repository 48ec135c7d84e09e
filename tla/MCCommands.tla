------------------------------ MODULE MCCommands ------------------------------
(* Instance of Commands for TLC. *)
EXTENDS CommandsInvariant, TLC

\* Two published releases are older than the binary, by patch and by major number,
\* one is newer, one is not a version.
MCReleases == << <<1, 2, 9>>, <<0, 9, 1>>, <<1, 3, 0>>, <<>> >>
MCRunning == <<1, 2, 10>>

\* One region named three times, two regions with a cluster of the same name.
MCRegions == <<"r1", "r1", "r2", "r1">>
MCClusters == [r1 |-> {"a"}, r2 |-> {"a", "b"}]

\* A cluster in extended support with a stale nodegroup, one with a stale add-on, and
\* one whose nodegroups cannot be judged but which has a health issue.
Group(type, image, status) == [type |-> type, image |-> image, status |-> status]
NoneOf == [k \in {} |-> 0]
MCFleet ==
    [c1 |-> [region |-> "r1", addons |-> NoneOf, issues |-> 0,
             groups |-> [g1 |-> Group("al2", 1, "ACTIVE"), g2 |-> Group("al2", 2, "ACTIVE")]],
     c2 |-> [region |-> "r1", addons |-> [cni |-> 1], issues |-> 0, groups |-> NoneOf],
     c3 |-> [region |-> "r2", addons |-> [cni |-> 2], issues |-> 1,
             groups |-> [g1 |-> Group(Custom, 7, "ACTIVE"), g2 |-> Group("al2", 1, "UPDATING")]]]
MCPatterns == {{}, {"c1", "c2"}, {"c2", "c3"}}
MCFirstVersion == [c1 |-> 1, c2 |-> 2, c3 |-> 2]
MCLatestImage == <<[al2 |-> 1], [al2 |-> 2]>>
MCLatestAddon == <<[cni |-> 1], [cni |-> 2]>>
MCTier == <<"extended", "standard">>
MCCalendar == <<"standard", "unknown">>

\* One sound cluster, and others that differ from it where a verdict turns.
MCInstances == [g1 |-> {"n1", "n2"}, g2 |-> {"n3"}]
Calm ==
    [etcd |-> 40, serverErrors |-> FALSE, throttled |-> FALSE, reported |-> TRUE,
     quota |-> 50, cpuUsed |-> 50, memUsed |-> 60, pods |-> 10, podsUp |-> 10,
     deployments |-> 2, protected |-> 2, clients |-> {"kube", "cloudwatch", "quotas", "metrics"},
     load |-> [n \in Nodes |-> 50], ready |-> Nodes,
     groupStatus |-> [g1 |-> "ACTIVE", g2 |-> "ACTIVE"]]
MCSituations ==
    {Calm,
     [Calm EXCEPT !.clients = {"cloudwatch"}],
     [Calm EXCEPT !.clients = {"kube"}, !.pods = 0, !.podsUp = 0],
     [Calm EXCEPT !.load = ("n1" :> 96) @@ @, !.quota = 96],
     [Calm EXCEPT !.load = [n \in Nodes |-> 72], !.throttled = TRUE, !.protected = 1],
     [Calm EXCEPT !.etcd = 95, !.ready = {"n1"}, !.cpuUsed = 75],
     [Calm EXCEPT !.podsUp = 9, !.ready = {}, !.reported = FALSE, !.quota = -1],
     [Calm EXCEPT !.podsUp = 8, !.cpuUsed = 90, !.quota = 86, !.etcd = 80],
     [Calm EXCEPT !.clients = {"cloudwatch", "quotas"},
                  !.groupStatus = [g1 |-> "UPDATING", g2 |-> "CREATING"]],
     [Calm EXCEPT !.clients = {"cloudwatch"},
                  !.groupStatus = [g1 |-> "DEGRADED", g2 |-> "ACTIVE"]],
     [Calm EXCEPT !.clients = {"cloudwatch"},
                  !.groupStatus = [g1 |-> "DEGRADED", g2 |-> "UPDATING"]],
     [Calm EXCEPT !.clients = {"cloudwatch"},
                  !.groupStatus = [g1 |-> "DEGRADED", g2 |-> "DEGRADED"]]}

\* One nodegroup at the kubelet skew limit, one within it; an add-on behind, one level.
MCSkewGroups == <<"workers", "gpu">>
MCSkewAddons == <<"cni", "dns">>
MCFirstGroups == [workers |-> 2, gpu |-> 1]
MCInstalled == [cni |-> 1, dns |-> 2]
MCNewest == [minor \in 4..5 |-> [cni |-> minor - 2, dns |-> 2]]
MCInsight ==
    [i1 |-> [category |-> ReadinessCategory, passing |-> FALSE],
     i2 |-> [category |-> ReadinessCategory, passing |-> TRUE],
     i3 |-> [category |-> "MISCONFIGURATION", passing |-> FALSE]]
MCReferences ==
    {[exact |-> {"i1"}, like |-> {"i1", "i2"}], [exact |-> {}, like |-> {"i1", "i2"}],
     [exact |-> {}, like |-> {"i3"}], [exact |-> {}, like |-> {"i2", "i3"}]}

=============================================================================
