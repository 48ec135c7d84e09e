------------------------------ MODULE NodeRoll ------------------------------
(***************************************************************************)
(* The live roll panel of `nodegroup update` and `cluster upgrade`:        *)
(* internal/noderoll reads the nodes and pods of one nodegroup, by List    *)
(* calls or from informer caches, classifies each node and derives the     *)
(* event feed, and internal/rollview redraws the panel until the roll      *)
(* looks complete, the observer fails or the context ends.  Meanwhile EKS  *)
(* launches, drains and terminates nodes; that side is external.           *)
(*                                                                         *)
(* `nodegroup update --simulate` drives the same panel from a scripted     *)
(* observer; the constant-free timeline is DemoTimeline.                   *)
(***************************************************************************)
EXTENDS Integers, FiniteSets, SequencesExt

CONSTANTS
    OldNodes,    \* names of the nodes registered when the update starts
    FreshNames,  \* names that new instances may register under
    MaxPods,     \* evictable pods an old node starts with
    MaxLaunches, \* bound: instances EKS launches for the roll
    MaxUpsets    \* bound: nodes uncordoned or losing readiness by themselves

ASSUME NodeRollAssumption ==
    /\ OldNodes \subseteq Nat /\ FreshNames \subseteq Nat
    /\ IsFiniteSet(OldNodes) /\ IsFiniteSet(FreshNames)
    /\ OldNodes \cap FreshNames = {}
    /\ MaxPods \in Nat /\ MaxLaunches \in Nat /\ MaxUpsets \in Nat

Names == OldNodes \cup FreshNames

VARIABLES
    \* the cluster (external)
    nodes,      \* registered node -> [ready, cordoned, new]
    pods,       \* name -> evictable pods on the node
    left,       \* name -> pods that have left a node of that name (history)
    broughtUp,  \* fresh instances that have been Ready at some time (history)
    launches, upsets,
    \* the observer and the panel
    source,     \* "kube" or "script": which Observer runRoll was given
    pc,
    watching,   \* informers serve the reads
    baseline, desired,
    drainStart, \* node -> pods when it was first seen draining
    listed,     \* the node list the snapshot in progress works on
    podCache,   \* the pods as the informer's cache had them then
    shown,      \* the snapshot last drawn: node -> [phase, new, pods, total]
    seeded,
    feed,       \* node -> its last event in the feed
    frame, outcome

clusterVars == <<nodes, pods, left, broughtUp, launches, upsets>>
panelVars == <<source, watching, baseline, desired, drainStart, listed, podCache,
               shown, seeded, feed, frame, outcome>>
vars == <<clusterVars, panelVars, pc>>

Nothing == [n \in {} |-> 0]

-----------------------------------------------------------------------------
(* Reading the cluster (noderoll/observer.go) *)

Phase(node) == IF node.cordoned THEN "Draining"
               ELSE IF ~node.ready THEN "Joining" ELSE "Ready"

Classify(seen, base) ==
    [n \in DOMAIN seen |-> [phase |-> Phase(seen[n]), new |-> n \notin base,
                            pods |-> 0, total |-> 0]]

InPhase(snap, p) == {n \in DOMAIN snap : snap[n].phase = p}
ReadyTarget(snap) == Cardinality({n \in InPhase(snap, "Ready") : snap[n].new})

\* A List call may fail, also because the context has ended; the informers'
\* listers answer from memory.  What a cache holds is the cluster of some earlier
\* moment: for the nodes that is when ReadNodes steps, any time before the draw,
\* and the pods cache, which lags on its own, holds the pods of that moment or of
\* the draw.  Unread stands for a pod list that failed.
Unread == Nothing
PodReads(snap) == IF InPhase(snap, "Draining") = {} THEN {Unread}
                  ELSE IF watching THEN {podCache, pods} ELSE {pods, Unread}
ListMayFail == ~watching

\* The pods are read only when a node drains.  The count at drain start is kept
\* from the first snapshot that shows the node draining, as long as the observer
\* lives; when the read fails the pod fields stay zero and the bar is omitted.
DrainStarts(snap, counts) ==
    IF counts = Unread THEN drainStart
    ELSE [n \in DOMAIN drainStart \cup InPhase(snap, "Draining") |->
            IF n \in DOMAIN drainStart THEN drainStart[n] ELSE counts[n]]

\* Mutant: a failed pod list counts as no pods.
FillPodEvictionFailedAsNone(snap, counts) ==
    [n \in DOMAIN snap |->
        IF snap[n].phase = "Draining" /\ n \in DOMAIN DrainStarts(snap, counts)
        THEN [snap[n] EXCEPT !.pods = IF counts = Unread THEN 0 ELSE counts[n],
                             !.total = DrainStarts(snap, counts)[n]]
        ELSE snap[n]]

FillPodEviction(snap, counts) ==
    IF counts = Unread THEN snap
    ELSE [n \in DOMAIN snap |->
            IF snap[n].phase = "Draining"
            THEN [snap[n] EXCEPT !.pods = counts[n],
                                 !.total = DrainStarts(snap, counts)[n]]
            ELSE snap[n]]

-----------------------------------------------------------------------------
(* The event feed (noderoll/tracker.go) *)

EventForPhase(p) == CASE p = "Joining" -> "joining"
                      [] p = "Ready" -> "online"
                      [] p = "Draining" -> "draining"

\* Mutant: only nodes that appear count as changed.
ChangedNew(snap) == DOMAIN snap \ DOMAIN shown

Changed(snap) == {n \in DOMAIN snap :
                    n \notin DOMAIN shown \/ shown[n].phase # snap[n].phase}

\* Tracker.Observe diffs a snapshot against the one before; the first is taken as
\* it is.  Of the events, the last one of every node is kept.
Observe(snap) ==
    LET gone == DOMAIN shown \ DOMAIN snap
    IN  /\ seeded' = TRUE
        /\ feed' = IF ~seeded THEN feed
                   ELSE [n \in DOMAIN feed \cup Changed(snap) \cup gone |->
                           IF n \in Changed(snap) THEN EventForPhase(snap[n].phase)
                           ELSE IF n \in gone THEN "terminated" ELSE feed[n]]

-----------------------------------------------------------------------------
(* The scripted observer (noderoll/scripted.go) *)

Frame(old, draining, new, joining) ==
    [n \in old \cup {d[1] : d \in draining} \cup new \cup joining |->
        [phase |-> IF n \in joining THEN "Joining"
                   ELSE IF n \in old \cup new THEN "Ready" ELSE "Draining",
         new   |-> n \in new \cup joining,
         pods  |-> IF \E d \in draining : d[1] = n
                   THEN (CHOOSE d \in draining : d[1] = n)[2] ELSE 0,
         total |-> IF \E d \in draining : d[1] = n
                   THEN (CHOOSE d \in draining : d[1] = n)[3] ELSE 0]]

DemoDesired == 3
DemoTimeline == <<
    Frame({1, 2, 3}, {},            {},        {}),
    Frame({1, 2, 3}, {},            {},        {4}),
    Frame({2, 3},    {<<1, 4, 4>>}, {4},       {}),
    Frame({2, 3},    {<<1, 2, 4>>}, {4},       {}),
    Frame({2, 3},    {<<1, 0, 4>>}, {4},       {}),
    Frame({2, 3},    {},            {4},       {}),
    Frame({2, 3},    {},            {4},       {5}),
    Frame({3},       {<<2, 3, 3>>}, {4, 5},    {}),
    Frame({3},       {<<2, 0, 3>>}, {4, 5},    {}),
    Frame({3},       {},            {4, 5},    {}),
    Frame({3},       {},            {4, 5},    {6}),
    Frame({},        {<<3, 5, 5>>}, {4, 5, 6}, {}),
    Frame({},        {<<3, 0, 5>>}, {4, 5, 6}, {}),
    Frame({},        {},            {4, 5, 6}, {}) >>

\* Mutant: the index passes the last frame.
NextFramePast(i) == i + 1

\* The index stays on the last frame, which then repeats.
NextFrame(i) == IF i < Len(DemoTimeline) THEN i + 1 ELSE i

-----------------------------------------------------------------------------
(* The panel (rollview/rollview.go) *)

\* Mutant: fresh nodes count before they are Ready.
RollCompleteListed(snap) ==
    /\ DOMAIN snap # {}
    /\ Cardinality({n \in DOMAIN snap : snap[n].new}) >= desired
    /\ InPhase(snap, "Draining") = {}

\* Mutant: complete only at exactly the desired count.
RollCompleteExact(snap) ==
    /\ DOMAIN snap # {}
    /\ ReadyTarget(snap) = desired
    /\ InPhase(snap, "Draining") = {} /\ InPhase(snap, "Joining") = {}

RollComplete(snap) ==
    /\ DOMAIN snap # {}
    /\ ReadyTarget(snap) >= desired
    /\ InPhase(snap, "Draining") = {} /\ InPhase(snap, "Joining") = {}

Evicted(row) == IF row.total > row.pods THEN row.total - row.pods ELSE 0

Finish(how) == pc' = "done" /\ outcome' = how

\* LiveRollForUpdate prefers informers, which start once all three caches have
\* synced; otherwise it polls with List calls.  SimulatedRoll has no cluster.
Attach ==
    /\ pc = "attach"
    /\ IF source = "script"
       THEN /\ pc' = "poll" /\ desired' = DemoDesired
            /\ UNCHANGED watching
       ELSE /\ pc' = "baseline"
            /\ watching' \in BOOLEAN
            /\ UNCHANGED desired
    /\ UNCHANGED <<clusterVars, source, baseline, drainStart, listed, podCache, shown,
                   seeded, feed, frame, outcome>>

CaptureBaseline ==
    /\ pc = "baseline"
    /\ baseline' = DOMAIN nodes
    /\ pc' = "total"
    /\ UNCHANGED <<clusterVars, source, watching, desired, drainStart, listed,
                   podCache, shown, seeded, feed, frame, outcome>>

\* A snapshot reads the nodes, then the pods: two reads with time in between.
\* The first snapshot only counts the nodes.
ReadNodes ==
    /\ source = "kube" /\ pc \in {"total", "poll"}
    /\ listed' = nodes
    /\ podCache' = IF watching /\ \E n \in DOMAIN nodes : nodes[n].cordoned
                   THEN pods ELSE Unread
    /\ pc' = IF pc = "total" THEN "count" ELSE "draw"
    /\ UNCHANGED <<clusterVars, source, watching, baseline, desired,
                   drainStart, shown, seeded, feed, frame, outcome>>

\* The node list fails: before the first frame the caller falls back to the
\* standard monitor, later the panel ends on an error line.  The context may also
\* end between two frames (--timeout passes or the user interrupts); with informers
\* that is the only way.  Observer and tracker go, and nothing is handed back to the
\* caller.
Stop ==
    /\ \/ pc \in {"baseline", "total"} /\ ListMayFail
       \/ pc = "poll"
    /\ Finish(IF pc = "poll" THEN "stopped" ELSE "unavailable")
    /\ baseline' = {} /\ drainStart' = Nothing
    /\ seeded' = FALSE /\ feed' = Nothing /\ shown' = Nothing
    /\ UNCHANGED <<clusterVars, source, watching, desired, listed, podCache, frame>>

CountTotal ==
    /\ pc = "count"
    /\ LET snap == Classify(listed, baseline)
       IN  \E counts \in PodReads(snap) : drainStart' = DrainStarts(snap, counts)
    /\ IF DOMAIN listed = {}
       THEN Finish("unavailable") /\ UNCHANGED desired
       ELSE /\ desired' = Cardinality(DOMAIN listed)
            /\ pc' = "poll" /\ UNCHANGED outcome
    /\ listed' = Nothing /\ podCache' = Unread
    /\ UNCHANGED <<clusterVars, source, watching, baseline, shown,
                   seeded, feed, frame>>

\* One repaint: the snapshot is diffed into the feed and drawn; the panel stops
\* when it looks complete and else waits for the next tick.
Repaint(snap) ==
    /\ Observe(snap)
    /\ shown' = snap
    /\ IF RollComplete(snap) THEN Finish("rolled")
       ELSE pc' = "poll" /\ UNCHANGED outcome

DrawNodes ==
    /\ pc = "draw"
    /\ LET snap == Classify(listed, baseline)
       IN  \E counts \in PodReads(snap) :
             /\ drainStart' = DrainStarts(snap, counts)
             /\ Repaint(FillPodEviction(snap, counts))
    /\ listed' = Nothing /\ podCache' = Unread
    /\ UNCHANGED <<clusterVars, source, watching, baseline, desired,
                   frame>>

DrawFrame ==
    /\ source = "script" /\ pc = "poll"
    /\ Repaint(DemoTimeline[frame])
    /\ frame' = NextFrame(frame)
    /\ UNCHANGED <<clusterVars, source, watching, baseline, desired,
                   drainStart, listed, podCache>>

-----------------------------------------------------------------------------
(* EKS and the cluster (external) *)

Rolling == source = "kube" /\ pc # "done"

\* A fresh instance registers, under a fresh name (which of them makes no
\* difference) or under the name of a node that is gone: node names come from
\* private addresses, which are reused.
FreeNames == LET unused == FreshNames \ DOMAIN nodes
             IN  (OldNodes \ DOMAIN nodes) \cup (IF unused = {} THEN {} ELSE {Min(unused)})

Launch ==
    /\ Rolling /\ launches < MaxLaunches
    /\ \E n \in FreeNames :
         nodes' = [m \in DOMAIN nodes \cup {n} |->
                     IF m = n THEN [ready |-> FALSE, cordoned |-> FALSE, new |-> TRUE]
                     ELSE nodes[m]]
    /\ launches' = launches + 1
    /\ UNCHANGED <<pods, left, broughtUp, upsets>>

BecomeReady ==
    /\ Rolling
    /\ \E n \in DOMAIN nodes :
         /\ ~nodes[n].ready
         /\ nodes' = [nodes EXCEPT ![n].ready = TRUE]
         /\ broughtUp' = IF nodes[n].new THEN broughtUp \cup {n} ELSE broughtUp
    /\ UNCHANGED <<pods, left, launches, upsets>>

\* EKS cordons an old node once a fresh instance is Ready.
Cordon ==
    /\ Rolling /\ broughtUp # {}
    /\ \E n \in DOMAIN nodes :
         /\ ~nodes[n].new /\ ~nodes[n].cordoned
         /\ nodes' = [nodes EXCEPT ![n].cordoned = TRUE]
    /\ UNCHANGED <<pods, left, broughtUp, launches, upsets>>

EvictPod ==
    /\ Rolling
    /\ \E n \in DOMAIN nodes :
         /\ nodes[n].cordoned /\ pods[n] > 0
         /\ pods' = [pods EXCEPT ![n] = @ - 1]
         /\ left' = [left EXCEPT ![n] = @ + 1]
    /\ UNCHANGED <<nodes, broughtUp, launches, upsets>>

\* A drained node terminates; a forced update takes its pods with it.
Terminate ==
    /\ Rolling
    /\ \E n \in DOMAIN nodes :
         /\ nodes[n].cordoned
         /\ nodes' = [m \in DOMAIN nodes \ {n} |-> nodes[m]]
         /\ pods' = [pods EXCEPT ![n] = 0]
         /\ left' = [left EXCEPT ![n] = @ + pods[n]]
    /\ UNCHANGED <<broughtUp, launches, upsets>>

\* A node is uncordoned and takes a pod back, or a node stops being Ready.
Upset ==
    /\ Rolling /\ upsets < MaxUpsets
    /\ upsets' = upsets + 1
    /\ \E n \in DOMAIN nodes :
         \/ /\ nodes[n].cordoned
            /\ nodes' = [nodes EXCEPT ![n].cordoned = FALSE]
            /\ pods' = [pods EXCEPT ![n] = IF @ < MaxPods THEN @ + 1 ELSE @]
         \/ /\ nodes[n].ready
            /\ nodes' = [nodes EXCEPT ![n].ready = FALSE]
            /\ UNCHANGED pods
    /\ UNCHANGED <<left, broughtUp, launches>>

Cluster == /\ \/ Launch \/ BecomeReady \/ Cordon \/ EvictPod \/ Terminate \/ Upset
           /\ UNCHANGED <<panelVars, pc>>

-----------------------------------------------------------------------------
Init ==
    \* The nodegroup may be scaled to zero.
    /\ \E present \in {{}, OldNodes} :
         nodes = [n \in present |-> [ready |-> TRUE, cordoned |-> FALSE, new |-> FALSE]]
    /\ pods = [n \in Names |-> IF n \in DOMAIN nodes THEN MaxPods ELSE 0]
    /\ left = [n \in Names |-> 0]
    /\ broughtUp = {} /\ launches = 0 /\ upsets = 0
    /\ source \in {"kube", "script"}
    /\ pc = "attach" /\ watching = FALSE
    /\ baseline = {} /\ desired = 0 /\ drainStart = Nothing
    /\ listed = Nothing /\ podCache = Unread /\ shown = Nothing
    /\ seeded = FALSE /\ feed = Nothing /\ frame = 1
    /\ outcome = "none"

Panel == \/ Attach \/ CaptureBaseline \/ ReadNodes \/ CountTotal
         \/ DrawNodes \/ DrawFrame

Done == pc = "done" /\ UNCHANGED vars

Next == Panel \/ Stop \/ Cluster \/ Done

\* The program keeps stepping.  Nothing is assumed of EKS, of the cluster or of
\* the end of the context.
Fairness == WF_vars(Panel)

Spec == Init /\ [][Next]_vars /\ Fairness

-----------------------------------------------------------------------------
(* Properties *)

Row == [phase : {"Ready", "Joining", "Draining"}, new : BOOLEAN, pods : Nat, total : Nat]
NodeState == [ready : BOOLEAN, cordoned : BOOLEAN, new : BOOLEAN]
Kinds == {"joining", "online", "draining", "terminated"}

\* Every variable has its type, and a list of nodes in hand belongs to a
\* snapshot in progress.
TypeOK ==
    /\ DOMAIN nodes \subseteq Names /\ \A n \in DOMAIN nodes : nodes[n] \in NodeState
    /\ \A n \in DOMAIN listed : listed[n] \in NodeState
    /\ pods \in [Names -> 0..MaxPods] /\ left \in [Names -> Nat]
    /\ broughtUp \subseteq Names /\ launches \in 0..MaxLaunches /\ upsets \in 0..MaxUpsets
    /\ source \in {"kube", "script"} /\ watching \in BOOLEAN
    /\ pc \in {"attach", "baseline", "total", "count", "poll", "draw", "done"}
    /\ baseline \subseteq Names /\ desired \in Nat
    /\ \A n \in DOMAIN drainStart : drainStart[n] \in 0..MaxPods
    /\ \A n \in DOMAIN shown : shown[n] \in Row
    /\ seeded \in BOOLEAN /\ frame \in 1..Len(DemoTimeline)
    /\ \A n \in DOMAIN feed : feed[n] \in Kinds
    /\ outcome \in {"none", "rolled", "stopped", "unavailable"}
    /\ (listed # Nothing \/ podCache # Unread => pc \in {"count", "draw"})

\* The feed and the table of one frame tell the same story: the last event told
\* of a node is the state its row is in, or "terminated" when it has no row,
\* whatever happened between two repaints (Tracker.Observe).
FeedMatchesPanel ==
    \A n \in DOMAIN feed :
        feed[n] = IF n \in DOMAIN shown THEN EventForPhase(shown[n].phase)
                  ELSE "terminated"

\* The eviction bar never counts a pod that has not left: what a row shows as
\* evicted is at most what has left nodes of that name, although the nodes and
\* the pods are read at different moments, a pod list may fail, and a drain may
\* be undone (fillPodEviction, nodeStateCell).
EvictedIsReal ==
    source = "kube" => \A n \in DOMAIN shown : Evicted(shown[n]) <= left[n]

\* When the panel stops because the roll looks complete, as many fresh instances
\* as there were nodes at the start have really been Ready; the scripted roll
\* that ends with "3/3" has replaced every old node (rollComplete).
CompletionHonest ==
    outcome = "rolled" =>
        IF source = "kube" THEN Cardinality(broughtUp \ baseline) >= desired
        ELSE \A n \in DOMAIN shown : shown[n].new

RolledOut ==
    /\ \A n \in DOMAIN nodes : nodes[n].ready /\ ~nodes[n].cordoned
    /\ Cardinality(DOMAIN nodes \ baseline) >= desired

\* A roll that settles with as many fresh Ready nodes as the panel counted ends
\* the panel, with or without --timeout: the informers catch up, the next repaint
\* sees it (LiveRollForUpdate, runRoll).
StableRollEndsPanel == <>[]RolledOut => <>(pc = "done")

=============================================================================
