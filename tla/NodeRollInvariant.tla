--------------------------- MODULE NodeRollInvariant ---------------------------
(***************************************************************************)
(* The inductive invariant behind the panel of NodeRoll: what the observer   *)
(* holds in its hands, compared with a cluster that has moved on.            *)
(***************************************************************************)
EXTENDS NodeRoll

\* The scripted roll has no cluster to count, and an outcome is the end.
Stages ==
    /\ source = "script" => /\ pc \in {"attach", "poll", "done"}
                            /\ pc # "attach" => desired = DemoDesired
    /\ outcome # "none" => pc = "done"
    /\ ~seeded => feed = Nothing

\* What the observer holds of the cluster names nodes of the cluster.
NamesKnown ==
    /\ DOMAIN listed \subseteq Names /\ DOMAIN drainStart \subseteq Names
    /\ podCache # Unread => podCache \in [Names -> 0..MaxPods]
    /\ source = "kube" => DOMAIN shown \subseteq Names

\* Pods only leave and come: those counted at a drain's start, or when the nodes were
\* read, are on a node of that name or have left one.
PodsAccounted ==
    /\ \A n \in DOMAIN drainStart : drainStart[n] <= pods[n] + left[n]
    /\ podCache # Unread =>
         /\ \A n \in Names : podCache[n] <= pods[n] + left[n]
         /\ \A n \in DOMAIN drainStart : drainStart[n] <= podCache[n] + left[n]

\* A fresh instance was not there for the baseline, and one that is Ready, or was in the
\* list in hand, has been brought up.
FreshAccounted ==
    /\ \A n \in DOMAIN nodes : nodes[n].ready /\ nodes[n].new => n \in broughtUp
    /\ source = "kube" /\ pc \in {"total", "count", "poll", "draw"} =>
         \A n \in DOMAIN nodes : n \in baseline \/ nodes[n].new
    /\ \A n \in DOMAIN listed : listed[n].ready => n \in baseline \/ n \in broughtUp

RollInvariant ==
    /\ TypeOK /\ Stages /\ NamesKnown /\ PodsAccounted /\ FreshAccounted
    /\ FeedMatchesPanel /\ EvictedIsReal /\ CompletionHonest
=============================================================================
