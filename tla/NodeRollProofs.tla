----------------------------- MODULE NodeRollProofs -----------------------------
(***************************************************************************)
(* Theorems about NodeRoll: the panel's feed, its eviction bar and its last   *)
(* word are true of any cluster, whatever happens between two of its reads.  *)
(***************************************************************************)
EXTENDS NodeRollInvariant, FiniteSetTheorems, DataInduction, TLAPS

-----------------------------------------------------------------------------
(* The frames of the scripted roll. *)

LEMMA FrameRows ==
  ASSUME NEW old, NEW draining, NEW new, NEW joining,
         \A d \in draining : d[2] \in Nat /\ d[3] \in Nat
  PROVE  \A n \in DOMAIN Frame(old, draining, new, joining) :
           Frame(old, draining, new, joining)[n] \in Row
  BY DEF Frame, Row

\* A frame with a node that joins or drains is not the end of the roll ...
LEMMA FrameMoving ==
  ASSUME NEW old, NEW draining, NEW new, NEW joining,
         joining # {} \/ \E d \in draining : d[1] \notin old \cup new \cup joining
  PROVE  ~RollComplete(Frame(old, draining, new, joining))
  <1> DEFINE f == Frame(old, draining, new, joining)
  <1>1. ASSUME NEW n \in joining PROVE n \in InPhase(f, "Joining")
    BY DEF Frame, InPhase
  <1>2. ASSUME NEW d \in draining, d[1] \notin old \cup new \cup joining
        PROVE  d[1] \in InPhase(f, "Draining")
    BY <1>2 DEF Frame, InPhase
  <1> QED
    BY <1>1, <1>2 DEF RollComplete

\* ... nor is one with too few new nodes.
LEMMA FrameFew ==
  ASSUME NEW old, NEW draining, NEW new, NEW joining, IsFiniteSet(new),
         Cardinality(new) \in Nat, desired \in Nat, Cardinality(new) < desired
  PROVE  joining = {} => ~RollComplete(Frame(old, draining, new, joining))
  <1> SUFFICES ASSUME joining = {} PROVE ~RollComplete(Frame(old, draining, new, joining))
    OBVIOUS
  <1> DEFINE f == Frame(old, draining, new, joining)
             fresh == {n \in InPhase(f, "Ready") : f[n].new}
  <1>1. fresh \subseteq new
    BY DEF Frame, InPhase
  <1>2. Cardinality(fresh) <= Cardinality(new) /\ Cardinality(fresh) \in Nat
    BY <1>1, FS_Subset, FS_CardinalityType
  <1>3. ~(Cardinality(fresh) >= desired)
    BY <1>2
  <1> QED
    BY <1>3 DEF RollComplete, ReadyTarget

LEMMA FrameNew ==
  ASSUME NEW new
  PROVE  \A n \in DOMAIN Frame({}, {}, new, {}) : Frame({}, {}, new, {})[n].new
  BY DEF Frame

LEMMA SmallSets ==
  /\ IsFiniteSet({}) /\ Cardinality({}) = 0
  /\ \A a : IsFiniteSet({a}) /\ Cardinality({a}) = 1
  /\ IsFiniteSet({4, 5}) /\ Cardinality({4, 5}) = 2
  <1>1. IsFiniteSet({}) /\ Cardinality({}) = 0
    BY FS_EmptySet
  <1>2. ASSUME NEW a PROVE IsFiniteSet({a}) /\ Cardinality({a}) = 1
    BY FS_Singleton
  <1>3. {4, 5} = {4} \cup {5} /\ 5 \notin {4}
    OBVIOUS
  <1>4. IsFiniteSet({4}) /\ Cardinality({4}) = 1
    BY <1>2
  <1>5. IsFiniteSet({4} \cup {5}) /\ Cardinality({4} \cup {5}) = Cardinality({4}) + 1
    BY <1>3, <1>4, FS_AddElement
  <1>6. IsFiniteSet({4, 5}) /\ Cardinality({4, 5}) = 2
    BY <1>3, <1>4, <1>5
  <1>7. \A a : IsFiniteSet({a}) /\ Cardinality({a}) = 1
    BY <1>2
  <1> QED
    BY <1>1, <1>6, <1>7, Zenon

\* The demo draws rows, and says "3/3" of new nodes only.
LEMMA DemoFrames ==
  ASSUME desired = DemoDesired, NEW i \in 1 .. Len(DemoTimeline)
  PROVE  /\ \A n \in DOMAIN DemoTimeline[i] : DemoTimeline[i][n] \in Row
         /\ RollComplete(DemoTimeline[i]) =>
              \A n \in DOMAIN DemoTimeline[i] : DemoTimeline[i][n].new
  <1> DEFINE f == DemoTimeline[i]
  <1>0. desired = 3
    BY DEF DemoDesired
  <1>1. i \in 1 .. 14
    BY DEF DemoTimeline
  <1>2. \/ f = Frame({1, 2, 3}, {}, {}, {}) \/ f = Frame({2, 3}, {}, {4}, {})
        \/ f = Frame({3}, {}, {4, 5}, {})
        \/ f = Frame({1, 2, 3}, {}, {}, {4}) \/ f = Frame({2, 3}, {}, {4}, {5})
        \/ f = Frame({3}, {}, {4, 5}, {6})
        \/ f = Frame({2, 3}, {<<1, 4, 4>>}, {4}, {}) \/ f = Frame({2, 3}, {<<1, 2, 4>>}, {4}, {})
        \/ f = Frame({2, 3}, {<<1, 0, 4>>}, {4}, {})
        \/ f = Frame({3}, {<<2, 3, 3>>}, {4, 5}, {}) \/ f = Frame({3}, {<<2, 0, 3>>}, {4, 5}, {})
        \/ f = Frame({}, {<<3, 5, 5>>}, {4, 5, 6}, {}) \/ f = Frame({}, {<<3, 0, 5>>}, {4, 5, 6}, {})
        \/ f = Frame({}, {}, {4, 5, 6}, {})
    BY <1>1 DEF DemoTimeline
  <1> DEFINE Good(g) == /\ \A n \in DOMAIN g : g[n] \in Row
                        /\ RollComplete(g) => \A n \in DOMAIN g : g[n].new
  <1>3. ASSUME NEW old, NEW draining, NEW new, NEW joining,
               \A d \in draining : d[2] \in Nat /\ d[3] \in Nat,
               joining # {} \/ \E d \in draining : d[1] \notin old \cup new \cup joining
        PROVE  Good(Frame(old, draining, new, joining))
    BY <1>3, FrameRows, FrameMoving
  <1>4. ASSUME NEW old, NEW new, IsFiniteSet(new), Cardinality(new) \in {0, 1, 2}
        PROVE  Good(Frame(old, {}, new, {}))
    <2>1. Cardinality(new) \in Nat /\ desired \in Nat /\ Cardinality(new) < desired
      BY <1>0, <1>4
    <2>2. ~RollComplete(Frame(old, {}, new, {}))
      BY <1>4, <2>1, FrameFew
    <2> QED
      BY <2>2, FrameRows
  <1>5. Good(Frame({}, {}, {4, 5, 6}, {}))
    BY FrameNew, FrameRows
  <1>6. ASSUME NEW old, NEW new, NEW x, NEW p \in Nat, NEW t \in Nat, x \notin old \cup new
        PROVE  Good(Frame(old, {<<x, p, t>>}, new, {}))
    <2>1. \A d \in {<<x, p, t>>} : d[1] = x /\ d[2] \in Nat /\ d[3] \in Nat
      OBVIOUS
    <2>2. \E d \in {<<x, p, t>>} : d[1] \notin old \cup new \cup {}
      BY <1>6
    <2> QED
      BY <1>3, <2>1, <2>2
  <1>7. ASSUME NEW old, NEW new, NEW x PROVE Good(Frame(old, {}, new, {x}))
    BY <1>3
  <1>8. Good(Frame({1, 2, 3}, {}, {}, {})) /\ Good(Frame({2, 3}, {}, {4}, {}))
        /\ Good(Frame({3}, {}, {4, 5}, {}))
    BY <1>4, SmallSets
  <1>9. Good(Frame({1, 2, 3}, {}, {}, {4})) /\ Good(Frame({2, 3}, {}, {4}, {5}))
        /\ Good(Frame({3}, {}, {4, 5}, {6}))
    BY <1>7
  <1>10. /\ Good(Frame({2, 3}, {<<1, 4, 4>>}, {4}, {})) /\ Good(Frame({2, 3}, {<<1, 2, 4>>}, {4}, {}))
         /\ Good(Frame({2, 3}, {<<1, 0, 4>>}, {4}, {}))
    <2>1. 1 \notin {2, 3} \cup {4}
      OBVIOUS
    <2> HIDE DEF Good
    <2> QED
      BY <1>6, <2>1
  <1>11. /\ Good(Frame({3}, {<<2, 3, 3>>}, {4, 5}, {})) /\ Good(Frame({3}, {<<2, 0, 3>>}, {4, 5}, {}))
         /\ Good(Frame({}, {<<3, 5, 5>>}, {4, 5, 6}, {})) /\ Good(Frame({}, {<<3, 0, 5>>}, {4, 5, 6}, {}))
    <2>1. 2 \notin {3} \cup {4, 5} /\ 3 \notin {} \cup {4, 5, 6}
      OBVIOUS
    <2> HIDE DEF Good
    <2> QED
      BY <1>6, <2>1
  <1>12. Good(f)
    <2> HIDE DEF Good, f
    <2> QED
      BY <1>2, <1>5, <1>8, <1>9, <1>10, <1>11
  <1> QED
    BY <1>12

-----------------------------------------------------------------------------
(* A snapshot and the feed. *)

Counts == {Unread} \cup [Names -> 0..MaxPods]

LEMMA MaxPodsNat == MaxPods \in Nat
  BY NodeRollAssumption

\* What a snapshot classifies.
LEMMA Classified ==
  ASSUME NEW seen, NEW base, \A n \in DOMAIN seen : seen[n] \in NodeState
  PROVE  /\ DOMAIN Classify(seen, base) = DOMAIN seen
         /\ \A n \in DOMAIN seen :
              /\ Classify(seen, base)[n] \in Row
              /\ Classify(seen, base)[n].phase = Phase(seen[n])
              /\ Classify(seen, base)[n].new = (n \notin base)
              /\ Classify(seen, base)[n].pods = 0 /\ Classify(seen, base)[n].total = 0
  BY DEF Classify, Phase, NodeState, Row

\* A drain's first count is kept, a new one is what the pod list says.
LEMMA DrainStartsKept ==
  ASSUME NEW snap, NEW counts \in Counts, DOMAIN snap \subseteq Names,
         DOMAIN drainStart \subseteq Names,
         \A n \in DOMAIN drainStart : drainStart[n] \in 0..MaxPods
  PROVE  /\ DOMAIN DrainStarts(snap, counts) \subseteq Names
         /\ \A n \in DOMAIN DrainStarts(snap, counts) :
              /\ DrainStarts(snap, counts)[n] \in 0..MaxPods
              /\ \/ n \in DOMAIN drainStart /\ DrainStarts(snap, counts)[n] = drainStart[n]
                 \/ counts # Unread /\ DrainStarts(snap, counts)[n] = counts[n]
         /\ counts # Unread =>
              \A n \in InPhase(snap, "Draining") :
                /\ n \in DOMAIN DrainStarts(snap, counts)
                /\ n \in DOMAIN drainStart => DrainStarts(snap, counts)[n] = drainStart[n]
                /\ n \notin DOMAIN drainStart => DrainStarts(snap, counts)[n] = counts[n]
  <1>1. CASE counts = Unread
    BY <1>1 DEF DrainStarts
  <1>2. CASE counts # Unread
    <2>1. counts \in [Names -> 0..MaxPods]
      BY <1>2 DEF Counts
    <2>2. DrainStarts(snap, counts) =
            [n \in DOMAIN drainStart \cup InPhase(snap, "Draining") |->
               IF n \in DOMAIN drainStart THEN drainStart[n] ELSE counts[n]]
      BY <1>2 DEF DrainStarts
    <2>3. InPhase(snap, "Draining") \subseteq Names
      BY DEF InPhase
    <2> QED
      BY <1>2, <2>1, <2>2, <2>3
  <1> QED
    BY <1>1, <1>2

\* The rows of a snapshot; only a node that drains shows pods.
LEMMA Filled ==
  ASSUME NEW snap, NEW counts \in Counts, DOMAIN snap \subseteq Names,
         \A n \in DOMAIN snap : snap[n] \in Row /\ snap[n].pods = 0 /\ snap[n].total = 0,
         DOMAIN drainStart \subseteq Names,
         \A n \in DOMAIN drainStart : drainStart[n] \in 0..MaxPods
  PROVE  /\ DOMAIN FillPodEviction(snap, counts) = DOMAIN snap
         /\ \A n \in DOMAIN snap :
              /\ FillPodEviction(snap, counts)[n] \in Row
              /\ FillPodEviction(snap, counts)[n].phase = snap[n].phase
              /\ FillPodEviction(snap, counts)[n].new = snap[n].new
              /\ \/ /\ FillPodEviction(snap, counts)[n].pods = 0
                    /\ FillPodEviction(snap, counts)[n].total = 0
                 \/ /\ counts # Unread
                    /\ FillPodEviction(snap, counts)[n].pods = counts[n]
                    /\ \/ FillPodEviction(snap, counts)[n].total = counts[n]
                       \/ /\ n \in DOMAIN drainStart
                          /\ FillPodEviction(snap, counts)[n].total = drainStart[n]
  <1>1. CASE counts = Unread
    BY <1>1 DEF FillPodEviction
  <1>2. CASE counts # Unread
    <2> DEFINE d == DrainStarts(snap, counts)
               f == FillPodEviction(snap, counts)
    <2>1. counts \in [Names -> 0..MaxPods]
      BY <1>2 DEF Counts
    <2>2. f = [n \in DOMAIN snap |->
                 IF snap[n].phase = "Draining"
                 THEN [snap[n] EXCEPT !["pods"] = counts[n], !["total"] = d[n]]
                 ELSE snap[n]]
      BY <1>2 DEF FillPodEviction
    <2>3. \A n \in InPhase(snap, "Draining") :
            /\ d[n] \in 0..MaxPods
            /\ d[n] = counts[n] \/ (n \in DOMAIN drainStart /\ d[n] = drainStart[n])
      BY <1>2, DrainStartsKept
    <2>4. ASSUME NEW n \in DOMAIN snap, snap[n].phase = "Draining"
          PROVE  /\ f[n] = [phase |-> snap[n].phase, new |-> snap[n].new,
                            pods |-> counts[n], total |-> d[n]]
                 /\ n \in InPhase(snap, "Draining")
                 /\ counts[n] \in Nat
      BY <2>1, <2>2, <2>4, MaxPodsNat DEF InPhase, Row
    <2>5. ASSUME NEW n \in DOMAIN snap, snap[n].phase # "Draining" PROVE f[n] = snap[n]
      BY <2>2, <2>5
    <2>6. DOMAIN f = DOMAIN snap
      BY <2>2
    <2> HIDE DEF d, f
    <2>7. ASSUME NEW n \in DOMAIN snap, snap[n].phase = "Draining"
          PROVE  /\ f[n] \in Row /\ f[n].phase = snap[n].phase /\ f[n].new = snap[n].new
                 /\ f[n].pods = counts[n] /\ f[n].total = d[n]
                 /\ d[n] = counts[n] \/ (n \in DOMAIN drainStart /\ d[n] = drainStart[n])
      <3>1. n \in InPhase(snap, "Draining") /\ counts[n] \in Nat
        BY <2>4, <2>7
      <3>2. f[n] = [phase |-> snap[n].phase, new |-> snap[n].new,
                    pods |-> counts[n], total |-> d[n]]
        BY <2>4, <2>7
      <3>3. /\ d[n] \in Nat
            /\ d[n] = counts[n] \/ (n \in DOMAIN drainStart /\ d[n] = drainStart[n])
        BY <2>3, <3>1, MaxPodsNat
      <3>4. snap[n].phase \in {"Ready", "Joining", "Draining"} /\ snap[n].new \in BOOLEAN
        BY DEF Row
      <3>5. f[n] \in Row
        BY <3>1, <3>2, <3>3, <3>4 DEF Row
      <3>6. /\ f[n].phase = snap[n].phase /\ f[n].new = snap[n].new
            /\ f[n].pods = counts[n] /\ f[n].total = d[n]
        BY <3>2
      <3> QED
        BY <3>3, <3>5, <3>6
    <2>8. ASSUME NEW n \in DOMAIN snap
          PROVE  /\ f[n] \in Row /\ f[n].phase = snap[n].phase /\ f[n].new = snap[n].new
                 /\ \/ f[n].pods = 0 /\ f[n].total = 0
                    \/ /\ counts # Unread /\ f[n].pods = counts[n]
                       /\ \/ f[n].total = counts[n]
                          \/ n \in DOMAIN drainStart /\ f[n].total = drainStart[n]
      <3>1. CASE snap[n].phase = "Draining"
        <4>1. f[n].total = d[n] /\ f[n].pods = counts[n]
          BY <2>7, <3>1
        <4>2. \/ f[n].total = counts[n]
              \/ n \in DOMAIN drainStart /\ f[n].total = drainStart[n]
          BY <2>7, <3>1, <4>1
        <4> QED
          BY <1>2, <2>7, <3>1, <4>1, <4>2
      <3>2. CASE snap[n].phase # "Draining"
        BY <2>5, <3>2
      <3> QED
        BY <3>1, <3>2
    <2>9. \A n \in DOMAIN snap :
            /\ f[n] \in Row
            /\ f[n].phase = snap[n].phase
            /\ f[n].new = snap[n].new
            /\ \/ /\ f[n].pods = 0
                  /\ f[n].total = 0
               \/ /\ counts # Unread
                  /\ f[n].pods = counts[n]
                  /\ \/ f[n].total = counts[n]
                     \/ /\ n \in DOMAIN drainStart
                        /\ f[n].total = drainStart[n]
      BY <2>8
    <2> QED
      BY <2>6, <2>9, Zenon DEF f
  <1> QED
    BY <1>1, <1>2

\* A repaint leaves the feed telling what the table shows.
LEMMA ObserveKept ==
  ASSUME FeedMatchesPanel, NEW snap, Observe(snap), shown' = snap, ~seeded => feed = Nothing,
         \A n \in DOMAIN feed : feed[n] \in Kinds, \A n \in DOMAIN snap : snap[n] \in Row
  PROVE  FeedMatchesPanel' /\ \A n \in DOMAIN feed' : feed'[n] \in Kinds
  <1>1. CASE ~seeded
    <2>1. feed' = Nothing
      BY <1>1 DEF Observe
    <2> QED
      BY <2>1 DEF FeedMatchesPanel, Nothing
  <1>2. CASE seeded
    <2> DEFINE gone == DOMAIN shown \ DOMAIN snap
    <2>1. feed' = [n \in DOMAIN feed \cup Changed(snap) \cup gone |->
                     IF n \in Changed(snap) THEN EventForPhase(snap[n].phase)
                     ELSE IF n \in gone THEN "terminated" ELSE feed[n]]
      BY <1>2 DEF Observe
    <2>2. ASSUME NEW n \in DOMAIN feed'
          PROVE  feed'[n] = IF n \in DOMAIN snap THEN EventForPhase(snap[n].phase)
                            ELSE "terminated"
      <3>1. CASE n \in Changed(snap)
        BY <2>1, <3>1 DEF Changed
      <3>2. CASE n \notin Changed(snap) /\ n \in gone
        BY <2>1, <3>2
      <3>3. CASE n \notin Changed(snap) /\ n \notin gone
        <4>1. n \in DOMAIN feed /\ feed'[n] = feed[n]
          BY <2>1, <3>3
        <4>2. feed[n] = IF n \in DOMAIN shown THEN EventForPhase(shown[n].phase)
                        ELSE "terminated"
          BY <4>1 DEF FeedMatchesPanel
        <4>3. n \in DOMAIN snap => n \in DOMAIN shown /\ shown[n].phase = snap[n].phase
          BY <3>3 DEF Changed
        <4>4. n \notin DOMAIN snap => n \notin DOMAIN shown
          BY <3>3
        <4> QED
          BY <4>1, <4>2, <4>3, <4>4
      <3> QED
        BY <3>1, <3>2, <3>3
    <2>3. \A n \in DOMAIN snap : EventForPhase(snap[n].phase) \in Kinds
      BY DEF Row, EventForPhase, Kinds
    <2>4. \A n \in DOMAIN feed' : feed'[n] \in Kinds
      BY <2>2, <2>3 DEF Kinds
    <2> QED
      BY <2>2, <2>4 DEF FeedMatchesPanel
  <1> QED
    BY <1>1, <1>2

-----------------------------------------------------------------------------
(* The cluster moves: what the observer holds stays accounted for. *)

\* Pods of a name only leave it, and fresh instances only come up.
ClusterMoved ==
  /\ \A n \in Names : pods[n] + left[n] <= pods'[n] + left'[n] /\ left[n] <= left'[n]
  /\ broughtUp \subseteq broughtUp'
  /\ \A n \in DOMAIN nodes' : nodes'[n].ready /\ nodes'[n].new => n \in broughtUp'
  /\ \A n \in DOMAIN nodes' :
       nodes'[n].new \/ (n \in DOMAIN nodes /\ nodes'[n].new = nodes[n].new)

ClusterTyped ==
  /\ DOMAIN nodes' \subseteq Names /\ \A n \in DOMAIN nodes' : nodes'[n] \in NodeState
  /\ pods' \in [Names -> 0..MaxPods] /\ left' \in [Names -> Nat]
  /\ broughtUp' \subseteq Names /\ launches' \in 0..MaxLaunches /\ upsets' \in 0..MaxUpsets

\* A bound on what was there holds of what is there.
LEMMA StillBounded ==
  \A a, p, l, pp, ll \in Int : (a <= p + l /\ p + l <= pp + ll) => a <= pp + ll
  OBVIOUS

LEMMA StillBelow ==
  \A a, b, l, ll \in Int : (a <= b + l /\ l <= ll) => a <= b + ll
  OBVIOUS

LEMMA StillAbove ==
  \A a, l, ll \in Int : (a <= l /\ l <= ll) => a <= ll
  OBVIOUS

LEMMA EvictedNat ==
  ASSUME NEW row \in Row PROVE Evicted(row) \in Nat
  BY DEF Row, Evicted

LEMMA ClusterKept ==
  ASSUME RollInvariant, Rolling, UNCHANGED <<panelVars, pc>>, ClusterTyped, ClusterMoved
  PROVE  RollInvariant'
  <1> USE DEF panelVars
  <1>1. TypeOK'
    BY DEF RollInvariant, TypeOK, ClusterTyped
  <1>2. Stages'
    BY DEF RollInvariant, Stages
  <1>3. NamesKnown'
    BY DEF RollInvariant, NamesKnown
  <1>4. PodsAccounted'
    <2>1. /\ pods \in [Names -> Int] /\ left \in [Names -> Int]
          /\ pods' \in [Names -> Int] /\ left' \in [Names -> Int]
      BY MaxPodsNat DEF RollInvariant, TypeOK, ClusterTyped
    <2>2. \A n \in DOMAIN drainStart : n \in Names /\ drainStart[n] \in Int
      BY MaxPodsNat DEF RollInvariant, TypeOK, NamesKnown
    <2>3. podCache # Unread => podCache \in [Names -> Int]
      BY MaxPodsNat DEF RollInvariant, NamesKnown
    <2>4. ASSUME NEW n \in DOMAIN drainStart PROVE drainStart[n] <= pods'[n] + left'[n]
      <3>1. drainStart[n] <= pods[n] + left[n] /\ pods[n] + left[n] <= pods'[n] + left'[n]
        BY <2>2 DEF RollInvariant, PodsAccounted, ClusterMoved
      <3> QED
        BY <2>1, <2>2, <3>1, StillBounded
    <2>5. ASSUME podCache # Unread, NEW n \in Names PROVE podCache[n] <= pods'[n] + left'[n]
      <3>1. podCache[n] <= pods[n] + left[n] /\ pods[n] + left[n] <= pods'[n] + left'[n]
        BY <2>5 DEF RollInvariant, PodsAccounted, ClusterMoved
      <3> QED
        BY <2>1, <2>3, <2>5, <3>1, StillBounded
    <2>6. ASSUME podCache # Unread, NEW n \in DOMAIN drainStart
          PROVE  drainStart[n] <= podCache[n] + left'[n]
      <3>1. drainStart[n] <= podCache[n] + left[n] /\ left[n] <= left'[n]
        BY <2>2, <2>6 DEF RollInvariant, PodsAccounted, ClusterMoved
      <3> QED
        BY <2>1, <2>2, <2>3, <2>6, <3>1, StillBelow
    <2> QED
      BY <2>4, <2>5, <2>6 DEF PodsAccounted, Unread, Nothing
  <1>5. FreshAccounted'
    <2>1. \A n \in DOMAIN nodes' : nodes'[n].ready /\ nodes'[n].new => n \in broughtUp'
      BY DEF ClusterMoved
    <2>2. source = "kube" /\ pc \in {"total", "count", "poll", "draw"} =>
            \A n \in DOMAIN nodes' : n \in baseline \/ nodes'[n].new
      BY DEF RollInvariant, FreshAccounted, ClusterMoved
    <2>3. \A n \in DOMAIN listed : listed[n].ready => n \in baseline \/ n \in broughtUp'
      BY DEF RollInvariant, FreshAccounted, ClusterMoved
    <2> QED
      BY <2>1, <2>2, <2>3 DEF FreshAccounted
  <1>6. FeedMatchesPanel'
    BY DEF RollInvariant, FeedMatchesPanel
  <1>7. EvictedIsReal'
    <2>1. ASSUME NEW n \in DOMAIN shown PROVE Evicted(shown[n]) <= left'[n]
      <3>1. n \in Names /\ shown[n] \in Row
        BY DEF RollInvariant, NamesKnown, TypeOK, Rolling
      <3>2. Evicted(shown[n]) <= left[n] /\ left[n] <= left'[n]
        BY <3>1 DEF RollInvariant, EvictedIsReal, ClusterMoved, Rolling
      <3>3. Evicted(shown[n]) \in Int /\ left[n] \in Int /\ left'[n] \in Int
        BY <3>1, EvictedNat DEF RollInvariant, TypeOK, ClusterTyped
      <3> QED
        BY <3>2, <3>3, StillAbove
    <2> QED
      BY <2>1 DEF EvictedIsReal, Evicted
  <1>8. CompletionHonest'
    BY DEF RollInvariant, Stages, CompletionHonest, Rolling
  <1> QED
    BY <1>1, <1>2, <1>3, <1>4, <1>5, <1>6, <1>7, <1>8 DEF RollInvariant

\* What the cluster's own moves need of its variables.
ClusterSound ==
  /\ DOMAIN nodes \subseteq Names /\ \A n \in DOMAIN nodes : nodes[n] \in NodeState
  /\ pods \in [Names -> 0..MaxPods] /\ left \in [Names -> Nat]
  /\ broughtUp \subseteq Names /\ launches \in 0..MaxLaunches /\ upsets \in 0..MaxUpsets
  /\ \A n \in DOMAIN nodes : nodes[n].ready /\ nodes[n].new => n \in broughtUp

LEMMA Sound == RollInvariant => ClusterSound
  BY DEF RollInvariant, TypeOK, FreshAccounted, ClusterSound

LEMMA FreeNamesKnown == FreeNames \subseteq Names \ DOMAIN nodes
  <1> DEFINE unused == FreshNames \ DOMAIN nodes
  <1>1. ASSUME unused # {} PROVE Min(unused) \in unused
    <2>1. PICK n \in unused : TRUE
      BY <1>1
    <2>2. unused \subseteq FreshNames /\ FreshNames \subseteq Nat
      BY NodeRollAssumption
    <2>2a. unused \in SUBSET Nat
      BY <2>2
    <2>3. \E m \in unused : \A k \in unused : m <= k
      BY <2>1, <2>2a, LeastNatural
    <2> QED
      BY <2>3 DEF Min
  <1>2. FreeNames = (OldNodes \ DOMAIN nodes) \cup (IF unused = {} THEN {} ELSE {Min(unused)})
    BY DEF FreeNames
  <1> HIDE DEF unused
  <1>3. unused \subseteq Names \ DOMAIN nodes /\ OldNodes \subseteq Names
    BY DEF unused, Names
  <1> QED
    BY <1>1, <1>2, <1>3

LEMMA LaunchKept ==
  ASSUME ClusterSound, Launch PROVE ClusterTyped /\ ClusterMoved
  <1>1. PICK n \in FreeNames :
          nodes' = [m \in DOMAIN nodes \cup {n} |->
                      IF m = n THEN [ready |-> FALSE, cordoned |-> FALSE, new |-> TRUE]
                      ELSE nodes[m]]
    BY DEF Launch
  <1>2. n \in Names
    BY FreeNamesKnown
  <1>3. /\ DOMAIN nodes' \subseteq Names /\ \A m \in DOMAIN nodes' : nodes'[m] \in NodeState
        /\ \A m \in DOMAIN nodes' : nodes'[m].ready /\ nodes'[m].new => m \in broughtUp
        /\ \A m \in DOMAIN nodes' :
             nodes'[m].new \/ (m \in DOMAIN nodes /\ nodes'[m].new = nodes[m].new)
    BY <1>1, <1>2 DEF ClusterSound, NodeState
  <1>4. /\ launches' = launches + 1 /\ launches < MaxLaunches
        /\ UNCHANGED <<pods, left, broughtUp, upsets>>
    BY DEF Launch
  <1>5. launches' \in 0..MaxLaunches
    BY <1>4, NodeRollAssumption DEF ClusterSound
  <1>6. \A m \in Names : pods[m] \in Int /\ left[m] \in Int
    BY MaxPodsNat DEF ClusterSound
  <1>7. \A m \in Names : pods[m] + left[m] <= pods'[m] + left'[m] /\ left[m] <= left'[m]
    BY <1>4, <1>6
  <1> QED
    BY <1>3, <1>4, <1>5, <1>7 DEF ClusterSound, ClusterTyped, ClusterMoved

LEMMA BecomeReadyKept ==
  ASSUME ClusterSound, BecomeReady PROVE ClusterTyped /\ ClusterMoved
  <1>1. PICK n \in DOMAIN nodes :
          /\ nodes' = [nodes EXCEPT ![n]["ready"] = TRUE]
          /\ broughtUp' = IF nodes[n].new THEN broughtUp \cup {n} ELSE broughtUp
    BY DEF BecomeReady
  <1>2. n \in Names
    BY DEF ClusterSound
  <1>3. /\ DOMAIN nodes' = DOMAIN nodes
        /\ \A m \in DOMAIN nodes : m # n => nodes'[m] = nodes[m]
        /\ nodes'[n] = [nodes[n] EXCEPT !["ready"] = TRUE]
    BY <1>1
  <1>4. nodes[n] \in NodeState
    BY DEF ClusterSound
  <1>5. nodes'[n] \in NodeState /\ nodes'[n].new = nodes[n].new
    BY <1>3, <1>4 DEF NodeState
  <1>6. /\ DOMAIN nodes' \subseteq Names /\ \A m \in DOMAIN nodes' : nodes'[m] \in NodeState
        /\ \A m \in DOMAIN nodes' : m \in DOMAIN nodes /\ nodes'[m].new = nodes[m].new
    BY <1>3, <1>5 DEF ClusterSound
  <1>7. broughtUp \subseteq broughtUp' /\ broughtUp' \subseteq Names
    BY <1>1, <1>2 DEF ClusterSound
  <1>8. \A m \in DOMAIN nodes' : nodes'[m].ready /\ nodes'[m].new => m \in broughtUp'
    BY <1>1, <1>3, <1>5, <1>7 DEF ClusterSound
  <1>9. UNCHANGED <<pods, left, launches, upsets>>
    BY DEF BecomeReady
  <1>10. \A m \in Names : pods[m] \in Int /\ left[m] \in Int
    BY MaxPodsNat DEF ClusterSound
  <1>11. \A m \in Names : pods[m] + left[m] <= pods'[m] + left'[m] /\ left[m] <= left'[m]
    BY <1>9, <1>10
  <1> QED
    BY <1>6, <1>7, <1>8, <1>9, <1>11 DEF ClusterSound, ClusterTyped, ClusterMoved

\* A node's flags change, its freshness does not.
LEMMA FlagKept ==
  ASSUME ClusterSound, NEW n \in DOMAIN nodes, NEW flag \in {"cordoned", "ready"},
         NEW to \in BOOLEAN, flag = "ready" => ~to,
         nodes' = [nodes EXCEPT ![n][flag] = to]
  PROVE  /\ DOMAIN nodes' \subseteq Names /\ \A m \in DOMAIN nodes' : nodes'[m] \in NodeState
         /\ \A m \in DOMAIN nodes' : nodes'[m].ready /\ nodes'[m].new => m \in broughtUp
         /\ \A m \in DOMAIN nodes' : m \in DOMAIN nodes /\ nodes'[m].new = nodes[m].new
  <1>1. /\ DOMAIN nodes' = DOMAIN nodes
        /\ \A m \in DOMAIN nodes : m # n => nodes'[m] = nodes[m]
        /\ nodes'[n] = [nodes[n] EXCEPT ![flag] = to]
    OBVIOUS
  <1>2. nodes[n] \in NodeState
    BY DEF ClusterSound
  <1>3. /\ nodes'[n] \in NodeState /\ nodes'[n].new = nodes[n].new
        /\ nodes'[n].ready => nodes[n].ready
    BY <1>1, <1>2 DEF NodeState
  <1> QED
    BY <1>1, <1>3 DEF ClusterSound

LEMMA CordonKept ==
  ASSUME ClusterSound, Cordon PROVE ClusterTyped /\ ClusterMoved
  <1>1. PICK n \in DOMAIN nodes : nodes' = [nodes EXCEPT ![n]["cordoned"] = TRUE]
    BY DEF Cordon
  <1>2. /\ DOMAIN nodes' \subseteq Names /\ \A m \in DOMAIN nodes' : nodes'[m] \in NodeState
        /\ \A m \in DOMAIN nodes' : nodes'[m].ready /\ nodes'[m].new => m \in broughtUp
        /\ \A m \in DOMAIN nodes' : m \in DOMAIN nodes /\ nodes'[m].new = nodes[m].new
    BY <1>1, FlagKept
  <1>3. UNCHANGED <<pods, left, broughtUp, launches, upsets>>
    BY DEF Cordon
  <1>4. \A m \in Names : pods[m] \in Int /\ left[m] \in Int
    BY MaxPodsNat DEF ClusterSound
  <1>5. \A m \in Names : pods[m] + left[m] <= pods'[m] + left'[m] /\ left[m] <= left'[m]
    BY <1>3, <1>4
  <1> QED
    BY <1>2, <1>3, <1>5 DEF ClusterSound, ClusterTyped, ClusterMoved

LEMMA EvictPodKept ==
  ASSUME ClusterSound, EvictPod PROVE ClusterTyped /\ ClusterMoved
  <1>1. PICK n \in DOMAIN nodes : /\ pods[n] > 0
                                  /\ pods' = [pods EXCEPT ![n] = pods[n] - 1]
                                  /\ left' = [left EXCEPT ![n] = left[n] + 1]
    BY DEF EvictPod
  <1>2. n \in Names
    BY DEF ClusterSound
  <1>3. pods[n] \in 0..MaxPods /\ pods[n] \in Int /\ left[n] \in Nat
    BY <1>2, MaxPodsNat DEF ClusterSound
  <1>4. pods[n] - 1 \in 0..MaxPods /\ left[n] + 1 \in Nat
    BY <1>1, <1>3, MaxPodsNat
  <1>5. pods' \in [Names -> 0..MaxPods] /\ left' \in [Names -> Nat]
    BY <1>1, <1>4 DEF ClusterSound
  <1>6. UNCHANGED <<nodes, broughtUp, launches, upsets>>
    BY DEF EvictPod
  <1>7. pods[n] + left[n] <= (pods[n] - 1) + (left[n] + 1) /\ left[n] <= left[n] + 1
    BY <1>3
  <1>8. pods'[n] = pods[n] - 1 /\ left'[n] = left[n] + 1
    BY <1>1, <1>2 DEF ClusterSound
  <1>9. ASSUME NEW m \in Names, m # n
        PROVE  pods[m] + left[m] <= pods'[m] + left'[m] /\ left[m] <= left'[m]
    <2>1. pods'[m] = pods[m] /\ left'[m] = left[m]
      BY <1>1, <1>9 DEF ClusterSound
    <2>2. pods[m] \in Int /\ left[m] \in Int
      BY MaxPodsNat DEF ClusterSound
    <2> QED
      BY <2>1, <2>2
  <1>10. \A m \in Names : pods[m] + left[m] <= pods'[m] + left'[m] /\ left[m] <= left'[m]
    BY <1>7, <1>8, <1>9
  <1> QED
    BY <1>5, <1>6, <1>10 DEF ClusterSound, ClusterTyped, ClusterMoved

LEMMA TerminateKept ==
  ASSUME ClusterSound, Terminate PROVE ClusterTyped /\ ClusterMoved
  <1>1. PICK n \in DOMAIN nodes : /\ nodes' = [m \in DOMAIN nodes \ {n} |-> nodes[m]]
                                  /\ pods' = [pods EXCEPT ![n] = 0]
                                  /\ left' = [left EXCEPT ![n] = left[n] + pods[n]]
    BY DEF Terminate
  <1>2. n \in Names
    BY DEF ClusterSound
  <1>3. pods[n] \in 0..MaxPods /\ pods[n] \in Nat /\ left[n] \in Nat
    BY <1>2, MaxPodsNat DEF ClusterSound
  <1>4. 0 \in 0..MaxPods /\ left[n] + pods[n] \in Nat
    BY <1>3, MaxPodsNat
  <1>5. pods' \in [Names -> 0..MaxPods] /\ left' \in [Names -> Nat]
    BY <1>1, <1>4 DEF ClusterSound
  <1>6. UNCHANGED <<broughtUp, launches, upsets>>
    BY DEF Terminate
  <1>7. pods[n] + left[n] <= 0 + (left[n] + pods[n]) /\ left[n] <= left[n] + pods[n]
    BY <1>3
  <1>8. pods'[n] = 0 /\ left'[n] = left[n] + pods[n]
    BY <1>1, <1>2 DEF ClusterSound
  <1>9. ASSUME NEW m \in Names, m # n
        PROVE  pods[m] + left[m] <= pods'[m] + left'[m] /\ left[m] <= left'[m]
    <2>1. pods'[m] = pods[m] /\ left'[m] = left[m]
      BY <1>1, <1>9 DEF ClusterSound
    <2>2. pods[m] \in Int /\ left[m] \in Int
      BY MaxPodsNat DEF ClusterSound
    <2> QED
      BY <2>1, <2>2
  <1>10. \A m \in Names : pods[m] + left[m] <= pods'[m] + left'[m] /\ left[m] <= left'[m]
    BY <1>7, <1>8, <1>9
  <1>11. DOMAIN nodes' = DOMAIN nodes \ {n} /\ \A m \in DOMAIN nodes' : nodes'[m] = nodes[m]
    BY <1>1
  <1> QED
    BY <1>5, <1>6, <1>10, <1>11 DEF ClusterSound, ClusterTyped, ClusterMoved

LEMMA UpsetKept ==
  ASSUME ClusterSound, Upset PROVE ClusterTyped /\ ClusterMoved
  <1>1. /\ upsets' = upsets + 1 /\ upsets < MaxUpsets
        /\ UNCHANGED <<left, broughtUp, launches>>
    BY DEF Upset
  <1>2. upsets' \in 0..MaxUpsets
    BY <1>1, NodeRollAssumption DEF ClusterSound
  <1>3. PICK n \in DOMAIN nodes :
          \/ /\ nodes' = [nodes EXCEPT ![n]["cordoned"] = FALSE]
             /\ pods' = [pods EXCEPT ![n] = IF pods[n] < MaxPods THEN pods[n] + 1 ELSE pods[n]]
          \/ /\ nodes' = [nodes EXCEPT ![n]["ready"] = FALSE]
             /\ UNCHANGED pods
    BY DEF Upset
  <1>4. /\ DOMAIN nodes' \subseteq Names /\ \A m \in DOMAIN nodes' : nodes'[m] \in NodeState
        /\ \A m \in DOMAIN nodes' : nodes'[m].ready /\ nodes'[m].new => m \in broughtUp
        /\ \A m \in DOMAIN nodes' : m \in DOMAIN nodes /\ nodes'[m].new = nodes[m].new
    BY <1>3, FlagKept
  <1>5. \A m \in Names : pods[m] \in 0..MaxPods /\ pods[m] \in Int /\ left[m] \in Int
    BY MaxPodsNat DEF ClusterSound
  <1>6. n \in Names
    BY DEF ClusterSound
  <1>7. /\ pods' \in [Names -> 0..MaxPods]
        /\ \A m \in Names : pods[m] <= pods'[m] /\ pods'[m] \in Int
    <2>1. CASE UNCHANGED pods
      BY <1>5, <2>1 DEF ClusterSound
    <2>2. CASE pods' = [pods EXCEPT ![n] = IF pods[n] < MaxPods THEN pods[n] + 1 ELSE pods[n]]
      <3> DEFINE count == IF pods[n] < MaxPods THEN pods[n] + 1 ELSE pods[n]
      <3>1. count \in 0..MaxPods /\ pods[n] <= count /\ count \in Int
        BY <1>5, <1>6, MaxPodsNat
      <3>2. pods' = [pods EXCEPT ![n] = count]
        BY <2>2
      <3> HIDE DEF count
      <3>3. pods' \in [Names -> 0..MaxPods]
        BY <3>1, <3>2 DEF ClusterSound
      <3>4. ASSUME NEW m \in Names PROVE pods[m] <= pods'[m] /\ pods'[m] \in Int
        <4>1. m = n => pods'[m] = count
          BY <1>6, <3>2 DEF ClusterSound
        <4>2. m # n => pods'[m] = pods[m]
          BY <3>2 DEF ClusterSound
        <4> QED
          BY <1>5, <3>1, <4>1, <4>2
      <3> QED
        BY <3>3, <3>4
    <2> QED
      BY <1>3, <2>1, <2>2
  <1>8. \A a, b, l \in Int : a <= b => a + l <= b + l /\ l <= l
    OBVIOUS
  <1>9. \A m \in Names : pods[m] + left[m] <= pods'[m] + left'[m] /\ left[m] <= left'[m]
    BY <1>1, <1>5, <1>7, <1>8
  <1> QED
    BY <1>1, <1>2, <1>4, <1>7, <1>9 DEF ClusterSound, ClusterTyped, ClusterMoved

LEMMA ClusterStep ==
  ASSUME RollInvariant, Cluster PROVE RollInvariant'
  <1>1. Rolling /\ UNCHANGED <<panelVars, pc>>
    BY DEF Cluster, Launch, BecomeReady, Cordon, EvictPod, Terminate, Upset
  <1>2. ClusterSound
    BY Sound
  <1>3. ClusterTyped /\ ClusterMoved
    BY <1>2, LaunchKept, BecomeReadyKept, CordonKept, EvictPodKept, TerminateKept, UpsetKept
       DEF Cluster
  <1> QED
    BY <1>1, <1>3, ClusterKept

-----------------------------------------------------------------------------
(* The panel steps while the cluster stands still. *)

LEMMA Frames == Len(DemoTimeline) = 14
  BY DEF DemoTimeline

LEMMA InitEstablished == Init => RollInvariant
  <1> SUFFICES ASSUME Init PROVE RollInvariant
    OBVIOUS
  <1>1. PICK present \in {{}, OldNodes} :
          nodes = [n \in present |-> [ready |-> TRUE, cordoned |-> FALSE, new |-> FALSE]]
    BY DEF Init
  <1>2. present \subseteq Names
    BY DEF Names
  <1>3. DOMAIN nodes \subseteq Names
    BY <1>1, <1>2
  <1>3a. \A n \in DOMAIN nodes : nodes[n] \in NodeState /\ ~nodes[n].new
    BY <1>1 DEF NodeState
  <1>4. pods \in [Names -> 0..MaxPods] /\ left \in [Names -> Nat]
    BY MaxPodsNat DEF Init
  <1>4a. launches \in 0..MaxLaunches /\ upsets \in 0..MaxUpsets /\ frame \in 1..Len(DemoTimeline)
    BY Frames, NodeRollAssumption DEF Init
  <1>4b. /\ DOMAIN listed = {} /\ DOMAIN drainStart = {} /\ DOMAIN shown = {}
         /\ DOMAIN feed = {} /\ listed = Nothing /\ podCache = Unread
    BY DEF Init, Nothing
  <1>5. TypeOK
    BY <1>3, <1>3a, <1>4, <1>4a, <1>4b DEF Init, TypeOK
  <1>6. Stages /\ NamesKnown /\ PodsAccounted
    BY DEF Init, Stages, NamesKnown, PodsAccounted, Nothing, Unread
  <1>7. FreshAccounted
    BY <1>3a DEF Init, FreshAccounted, Nothing
  <1>8. FeedMatchesPanel /\ EvictedIsReal /\ CompletionHonest
    BY DEF Init, FeedMatchesPanel, EvictedIsReal, CompletionHonest, Nothing
  <1> QED
    BY <1>5, <1>6, <1>7, <1>8 DEF RollInvariant

LEMMA AttachKept ==
  ASSUME RollInvariant, Attach PROVE RollInvariant'
  <1> USE DEF Attach, clusterVars
  <1>1. TypeOK'
    BY DEF RollInvariant, TypeOK, DemoDesired
  <1>2. Stages' /\ NamesKnown' /\ PodsAccounted'
    BY DEF RollInvariant, Stages, NamesKnown, PodsAccounted, Unread, Nothing
  <1>3. FreshAccounted'
    BY DEF RollInvariant, FreshAccounted
  <1>4. FeedMatchesPanel' /\ EvictedIsReal' /\ CompletionHonest'
    BY DEF RollInvariant, FeedMatchesPanel, EvictedIsReal, CompletionHonest, Evicted, Stages
  <1> QED
    BY <1>1, <1>2, <1>3, <1>4 DEF RollInvariant

LEMMA CaptureBaselineKept ==
  ASSUME RollInvariant, CaptureBaseline PROVE RollInvariant'
  <1> USE DEF CaptureBaseline, clusterVars
  <1>1. TypeOK'
    BY DEF RollInvariant, TypeOK
  <1>2. Stages' /\ NamesKnown' /\ PodsAccounted'
    BY DEF RollInvariant, Stages, NamesKnown, PodsAccounted, Unread, Nothing
  <1>3. FreshAccounted'
    <2>1. listed = Nothing
      BY DEF RollInvariant, TypeOK
    <2> QED
      BY <2>1 DEF RollInvariant, FreshAccounted, Nothing
  <1>4. FeedMatchesPanel' /\ EvictedIsReal' /\ CompletionHonest'
    BY DEF RollInvariant, FeedMatchesPanel, EvictedIsReal, CompletionHonest, Evicted, Stages
  <1> QED
    BY <1>1, <1>2, <1>3, <1>4 DEF RollInvariant

LEMMA ReadNodesKept ==
  ASSUME RollInvariant, ReadNodes PROVE RollInvariant'
  <1>1. /\ source = "kube" /\ pc \in {"total", "poll"} /\ listed' = nodes
        /\ podCache' \in {pods, Unread} /\ pc' \in {"count", "draw"}
        /\ UNCHANGED <<nodes, pods, left, broughtUp, launches, upsets>>
        /\ UNCHANGED <<source, watching, baseline, desired, drainStart, shown, seeded,
                       feed, frame, outcome>>
    BY DEF ReadNodes, clusterVars
  <1>2. TypeOK'
    BY <1>1 DEF RollInvariant, TypeOK
  <1>3. Stages'
    BY <1>1 DEF RollInvariant, Stages
  <1>4. NamesKnown'
    BY <1>1 DEF RollInvariant, TypeOK, NamesKnown, Unread, Nothing
  <1>5. PodsAccounted'
    <2>1. \A n \in Names : pods[n] \in Int /\ left[n] \in Nat
      BY MaxPodsNat DEF RollInvariant, TypeOK
    <2>2. \A n \in Names : pods[n] <= pods[n] + left[n]
      BY <2>1
    <2>3. \A n \in DOMAIN drainStart : drainStart[n] <= pods[n] + left[n]
      BY DEF RollInvariant, PodsAccounted
    <2>4. podCache' # Unread => podCache' = pods
      BY <1>1
    <2> QED
      BY <1>1, <2>2, <2>3, <2>4 DEF PodsAccounted, Unread, Nothing
  <1>6. FreshAccounted'
    <2>1. \A n \in DOMAIN nodes : n \in baseline \/ nodes[n].new
      BY <1>1 DEF RollInvariant, FreshAccounted
    <2>2. \A n \in DOMAIN nodes : nodes[n].ready /\ nodes[n].new => n \in broughtUp
      BY DEF RollInvariant, FreshAccounted
    <2> QED
      BY <1>1, <2>1, <2>2 DEF FreshAccounted
  <1>7. FeedMatchesPanel' /\ EvictedIsReal' /\ CompletionHonest'
    BY <1>1 DEF RollInvariant, FeedMatchesPanel, EvictedIsReal, CompletionHonest, Evicted, Stages
  <1> QED
    BY <1>2, <1>3, <1>4, <1>5, <1>6, <1>7 DEF RollInvariant

LEMMA StopKept ==
  ASSUME RollInvariant, Stop PROVE RollInvariant'
  <1>1. /\ pc \in {"baseline", "total", "poll"} /\ pc' = "done"
        /\ outcome' \in {"stopped", "unavailable"}
        /\ baseline' = {} /\ drainStart' = Nothing
        /\ seeded' = FALSE /\ feed' = Nothing /\ shown' = Nothing
        /\ UNCHANGED <<nodes, pods, left, broughtUp, launches, upsets>>
        /\ UNCHANGED <<source, watching, desired, listed, podCache, frame>>
    BY DEF Stop, Finish, clusterVars
  <1>2. listed = Nothing /\ podCache = Unread
    BY <1>1 DEF RollInvariant, TypeOK
  <1>3. TypeOK'
    BY <1>1, <1>2 DEF RollInvariant, TypeOK, Nothing
  <1>4. Stages'
    BY <1>1 DEF RollInvariant, Stages
  <1>5. NamesKnown' /\ PodsAccounted'
    BY <1>1, <1>2 DEF NamesKnown, PodsAccounted, Nothing, Unread
  <1>6. FreshAccounted'
    BY <1>1, <1>2 DEF RollInvariant, FreshAccounted, Nothing
  <1>7. FeedMatchesPanel' /\ EvictedIsReal' /\ CompletionHonest'
    BY <1>1 DEF FeedMatchesPanel, EvictedIsReal, CompletionHonest, Nothing
  <1> QED
    BY <1>3, <1>4, <1>5, <1>6, <1>7 DEF RollInvariant

-----------------------------------------------------------------------------
(* The snapshots. *)

LEMMA NamesFinite == IsFiniteSet(Names)
  BY NodeRollAssumption, FS_Union DEF Names

\* Whatever pod list a snapshot works with, it is one of a moment after the drains it
\* knows began, and no later than now.
LEMMA PodReadsAccounted ==
  ASSUME RollInvariant, NEW snap, NEW counts \in PodReads(snap)
  PROVE  /\ counts \in Counts
         /\ counts # Unread =>
              /\ \A n \in Names : counts[n] <= pods[n] + left[n]
              /\ \A n \in DOMAIN drainStart : drainStart[n] <= counts[n] + left[n]
  <1>1. counts \in {Unread, podCache, pods}
    BY DEF PodReads
  <1>2. CASE counts = Unread
    BY <1>2 DEF Counts
  <1>3. CASE counts = podCache /\ podCache # Unread
    BY <1>3 DEF Counts, RollInvariant, NamesKnown, PodsAccounted
  <1>4. CASE counts = pods
    <2>1. pods \in [Names -> 0..MaxPods]
      BY DEF RollInvariant, TypeOK
    <2>2. \A n \in Names : pods[n] \in Int /\ left[n] \in Nat
      BY MaxPodsNat DEF RollInvariant, TypeOK
    <2>3. \A n \in Names : pods[n] <= pods[n] + left[n]
      BY <2>2
    <2> QED
      BY <1>4, <2>1, <2>3 DEF Counts, RollInvariant, PodsAccounted
  <1> QED
    BY <1>1, <1>2, <1>3, <1>4

LEMMA DrainsKept ==
  ASSUME RollInvariant, NEW snap, DOMAIN snap \subseteq Names, NEW counts \in PodReads(snap),
         drainStart' = DrainStarts(snap, counts), UNCHANGED <<pods, left>>,
         listed' = Nothing, podCache' = Unread
  PROVE  /\ \A n \in DOMAIN drainStart' : drainStart'[n] \in 0..MaxPods
         /\ DOMAIN drainStart' \subseteq Names
         /\ PodsAccounted'
  <1>1. /\ counts \in Counts
        /\ counts # Unread => \A n \in Names : counts[n] <= pods[n] + left[n]
    BY PodReadsAccounted
  <1>2. /\ DOMAIN drainStart \subseteq Names
        /\ \A n \in DOMAIN drainStart : drainStart[n] \in 0..MaxPods
        /\ \A n \in DOMAIN drainStart : drainStart[n] <= pods[n] + left[n]
    BY DEF RollInvariant, TypeOK, NamesKnown, PodsAccounted
  <1>3. /\ DOMAIN drainStart' \subseteq Names
        /\ \A n \in DOMAIN drainStart' :
             /\ drainStart'[n] \in 0..MaxPods
             /\ \/ n \in DOMAIN drainStart /\ drainStart'[n] = drainStart[n]
                \/ counts # Unread /\ drainStart'[n] = counts[n]
    BY <1>1, <1>2, DrainStartsKept
  <1>4. \A n \in DOMAIN drainStart' : drainStart'[n] <= pods'[n] + left'[n]
    BY <1>1, <1>2, <1>3
  <1> QED
    BY <1>3, <1>4 DEF PodsAccounted

LEMMA CountTotalKept ==
  ASSUME RollInvariant, CountTotal PROVE RollInvariant'
  <1> DEFINE snap == Classify(listed, baseline)
  <1>1. PICK counts \in PodReads(snap) : drainStart' = DrainStarts(snap, counts)
    BY DEF CountTotal
  <1>2. /\ pc = "count" /\ listed' = Nothing /\ podCache' = Unread
        /\ UNCHANGED <<nodes, pods, left, broughtUp, launches, upsets>>
        /\ UNCHANGED <<source, watching, baseline, shown, seeded, feed, frame>>
        /\ \/ pc' = "done" /\ outcome' = "unavailable" /\ desired' = desired
           \/ pc' = "poll" /\ outcome' = outcome /\ desired' = Cardinality(DOMAIN listed)
    BY DEF CountTotal, Finish, clusterVars
  <1>3. DOMAIN listed \subseteq Names /\ \A n \in DOMAIN listed : listed[n] \in NodeState
    BY DEF RollInvariant, NamesKnown, TypeOK
  <1>4. DOMAIN snap \subseteq Names
    BY <1>3, Classified
  <1>5. desired' \in Nat
    <2>1. Cardinality(DOMAIN listed) \in Nat
      BY <1>3, NamesFinite, FS_Subset, FS_CardinalityType
    <2> QED
      BY <1>2, <2>1 DEF RollInvariant, TypeOK
  <1> HIDE DEF snap
  <1>6. /\ \A n \in DOMAIN drainStart' : drainStart'[n] \in 0..MaxPods
        /\ DOMAIN drainStart' \subseteq Names /\ PodsAccounted'
    BY <1>1, <1>2, <1>4, DrainsKept
  <1>7. TypeOK'
    BY <1>2, <1>5, <1>6 DEF RollInvariant, TypeOK, Nothing
  <1>8. source = "kube" /\ outcome = "none"
    BY <1>2 DEF RollInvariant, Stages, TypeOK
  <1>9. Stages' /\ NamesKnown'
    BY <1>2, <1>6, <1>8 DEF RollInvariant, Stages, NamesKnown, Nothing
  <1>10. FreshAccounted'
    BY <1>2 DEF RollInvariant, FreshAccounted, Nothing
  <1>11. FeedMatchesPanel' /\ EvictedIsReal' /\ CompletionHonest'
    BY <1>2, <1>8 DEF RollInvariant, FeedMatchesPanel, EvictedIsReal, CompletionHonest, Evicted
  <1> QED
    BY <1>6, <1>7, <1>9, <1>10, <1>11 DEF RollInvariant

\* No row shows more evicted pods than have left its name.
LEMMA EvictedCounted ==
  \A t, p, l \in Int : (t <= p + l /\ 0 <= l) => (IF t > p THEN t - p ELSE 0) <= l
  OBVIOUS

LEMMA DrawnHonest ==
  ASSUME RollInvariant, NEW snap, DOMAIN snap \subseteq Names, NEW counts \in PodReads(snap),
         \A n \in DOMAIN snap : snap[n] \in Row /\ snap[n].pods = 0 /\ snap[n].total = 0
  PROVE  \A n \in DOMAIN snap : Evicted(FillPodEviction(snap, counts)[n]) <= left[n]
  <1> DEFINE f == FillPodEviction(snap, counts)
  <1>1. /\ counts \in Counts
        /\ counts # Unread => \A n \in DOMAIN drainStart : drainStart[n] <= counts[n] + left[n]
    BY PodReadsAccounted
  <1>2. /\ DOMAIN drainStart \subseteq Names
        /\ \A n \in DOMAIN drainStart : drainStart[n] \in 0..MaxPods
        /\ \A n \in Names : left[n] \in Nat
    BY DEF RollInvariant, TypeOK, NamesKnown
  <1>3. \A n \in DOMAIN snap :
          \/ f[n].pods = 0 /\ f[n].total = 0
          \/ /\ counts # Unread /\ f[n].pods = counts[n]
             /\ f[n].total = counts[n] \/ (n \in DOMAIN drainStart /\ f[n].total = drainStart[n])
    BY <1>1, <1>2, Filled
  <1> HIDE DEF f
  <1>4. ASSUME NEW n \in DOMAIN snap PROVE Evicted(f[n]) <= left[n]
    <2>1. left[n] \in Int /\ 0 <= left[n]
      BY <1>2
    <2>2. CASE f[n].pods = 0 /\ f[n].total = 0
      BY <2>1, <2>2 DEF Evicted
    <2>3. CASE counts # Unread /\ f[n].pods = counts[n]
      <3>1. counts[n] \in Int
        BY <1>1, <2>3, MaxPodsNat DEF Counts
      <3>2. CASE f[n].total = counts[n]
        BY <2>1, <2>3, <3>1, <3>2 DEF Evicted
      <3>3. CASE n \in DOMAIN drainStart /\ f[n].total = drainStart[n]
        <4>1. drainStart[n] \in Int /\ drainStart[n] <= counts[n] + left[n]
          BY <1>1, <1>2, <2>3, <3>3, MaxPodsNat
        <4>2. (IF drainStart[n] > counts[n] THEN drainStart[n] - counts[n] ELSE 0) <= left[n]
          BY <2>1, <3>1, <4>1, EvictedCounted, Zenon
        <4> QED
          BY <2>3, <3>3, <4>2 DEF Evicted
      <3>4. CASE f[n].pods = 0 /\ f[n].total = 0
        BY <2>2, <3>4
      <3> QED
        BY <1>3, <3>2, <3>3, <3>4
    <2> QED
      BY <1>3, <2>2, <2>3
  <1> QED
    BY <1>4 DEF f

\* A fresh Ready row is an instance that has come up.
LEMMA FreshDrawn ==
  ASSUME RollInvariant, NEW f, DOMAIN f = DOMAIN listed,
         \A n \in DOMAIN f : f[n].phase = Phase(listed[n]) /\ f[n].new = (n \notin baseline),
         RollComplete(f)
  PROVE  Cardinality(broughtUp \ baseline) >= desired
  <1> DEFINE fresh == {n \in InPhase(f, "Ready") : f[n].new}
  <1>1. ASSUME NEW n \in fresh PROVE n \in broughtUp \ baseline
    <2>1. n \in DOMAIN listed /\ Phase(listed[n]) = "Ready" /\ n \notin baseline
      BY DEF InPhase
    <2>2. listed[n].ready
      BY <2>1 DEF Phase
    <2> QED
      BY <2>1, <2>2 DEF RollInvariant, FreshAccounted
  <1>2. broughtUp \ baseline \subseteq Names
    BY DEF RollInvariant, TypeOK
  <1>3. IsFiniteSet(broughtUp \ baseline)
    BY <1>2, NamesFinite, FS_Subset
  <1>4. fresh \subseteq broughtUp \ baseline
    BY <1>1
  <1>5. /\ Cardinality(fresh) <= Cardinality(broughtUp \ baseline)
        /\ Cardinality(fresh) \in Nat /\ Cardinality(broughtUp \ baseline) \in Nat
    BY <1>3, <1>4, FS_Subset, FS_CardinalityType
  <1>6. Cardinality(fresh) >= desired
    BY DEF RollComplete, ReadyTarget
  <1>7. desired \in Nat
    BY DEF RollInvariant, TypeOK
  <1> QED
    BY <1>5, <1>6, <1>7

LEMMA DrawNodesKept ==
  ASSUME RollInvariant, DrawNodes PROVE RollInvariant'
  <1> DEFINE snap == Classify(listed, baseline)
  <1>1. PICK counts \in PodReads(snap) :
          drainStart' = DrainStarts(snap, counts) /\ Repaint(FillPodEviction(snap, counts))
    BY DEF DrawNodes
  <1> DEFINE f == FillPodEviction(snap, counts)
  <1>2. /\ pc = "draw" /\ listed' = Nothing /\ podCache' = Unread
        /\ UNCHANGED <<nodes, pods, left, broughtUp, launches, upsets>>
        /\ UNCHANGED <<source, watching, baseline, desired, frame>>
    BY DEF DrawNodes, clusterVars
  <1>3. /\ Observe(f) /\ shown' = f /\ seeded' = TRUE
        /\ \/ RollComplete(f) /\ pc' = "done" /\ outcome' = "rolled"
           \/ pc' = "poll" /\ outcome' = outcome
    BY <1>1 DEF Repaint, Finish, Observe
  <1>4. source = "kube" /\ outcome = "none" /\ (~seeded => feed = Nothing)
    BY <1>2 DEF RollInvariant, Stages, TypeOK
  <1>5. DOMAIN listed \subseteq Names /\ \A n \in DOMAIN listed : listed[n] \in NodeState
    BY DEF RollInvariant, NamesKnown, TypeOK
  <1>6. /\ DOMAIN snap = DOMAIN listed
        /\ \A n \in DOMAIN snap : /\ snap[n] \in Row /\ snap[n].pods = 0 /\ snap[n].total = 0
                                  /\ snap[n].phase = Phase(listed[n])
                                  /\ snap[n].new = (n \notin baseline)
    BY <1>5, Classified
  <1> HIDE DEF snap
  <1>7. /\ counts \in Counts /\ DOMAIN drainStart \subseteq Names
        /\ \A n \in DOMAIN drainStart : drainStart[n] \in 0..MaxPods
    BY PodReadsAccounted DEF RollInvariant, NamesKnown, TypeOK
  <1>8. /\ DOMAIN f = DOMAIN snap
        /\ \A n \in DOMAIN snap : /\ f[n] \in Row /\ f[n].phase = snap[n].phase
                                  /\ f[n].new = snap[n].new
    BY <1>5, <1>6, <1>7, Filled
  <1>9. \A n \in DOMAIN f : Evicted(f[n]) <= left[n]
    BY <1>5, <1>6, <1>8, DrawnHonest
  <1> HIDE DEF f
  <1>10. FeedMatchesPanel' /\ \A n \in DOMAIN feed' : feed'[n] \in Kinds
    <2>1. \A n \in DOMAIN f : f[n] \in Row
      BY <1>8
    <2>2. FeedMatchesPanel /\ \A n \in DOMAIN feed : feed[n] \in Kinds
      BY DEF RollInvariant, TypeOK
    <2> QED
      BY <1>3, <1>4, <2>1, <2>2, ObserveKept
  <1>11. /\ \A n \in DOMAIN drainStart' : drainStart'[n] \in 0..MaxPods
         /\ DOMAIN drainStart' \subseteq Names /\ PodsAccounted'
    BY <1>1, <1>2, <1>5, <1>6, DrainsKept
  <1>12. TypeOK'
    BY <1>2, <1>3, <1>8, <1>10, <1>11 DEF RollInvariant, TypeOK, Nothing
  <1>13. Stages' /\ NamesKnown'
    BY <1>2, <1>3, <1>4, <1>5, <1>6, <1>8, <1>11 DEF RollInvariant, Stages, NamesKnown, Nothing
  <1>14. FreshAccounted'
    BY <1>2, <1>3 DEF RollInvariant, FreshAccounted, Nothing
  <1>15. EvictedIsReal'
    BY <1>2, <1>3, <1>9 DEF EvictedIsReal, Evicted
  <1>16. CompletionHonest'
    <2>1. CASE RollComplete(f)
      <3>1. Cardinality(broughtUp \ baseline) >= desired
        BY <1>6, <1>8, <2>1, FreshDrawn
      <3> QED
        BY <1>2, <1>4, <3>1 DEF CompletionHonest
    <2>2. CASE ~RollComplete(f)
      BY <1>3, <1>4, <2>2 DEF CompletionHonest
    <2> QED
      BY <2>1, <2>2
  <1> QED
    BY <1>10, <1>11, <1>12, <1>13, <1>14, <1>15, <1>16 DEF RollInvariant

LEMMA DrawFrameKept ==
  ASSUME RollInvariant, DrawFrame PROVE RollInvariant'
  <1> DEFINE f == DemoTimeline[frame]
  <1>1. /\ source = "script" /\ pc = "poll" /\ frame' = NextFrame(frame)
        /\ UNCHANGED <<nodes, pods, left, broughtUp, launches, upsets>>
        /\ UNCHANGED <<source, watching, baseline, desired, drainStart, listed, podCache>>
    BY DEF DrawFrame, clusterVars
  <1>2. /\ Observe(f) /\ shown' = f /\ seeded' = TRUE
        /\ \/ RollComplete(f) /\ pc' = "done" /\ outcome' = "rolled"
           \/ ~RollComplete(f) /\ pc' = "poll" /\ outcome' = outcome
    BY DEF DrawFrame, Repaint, Finish, Observe
  <1>3. desired = DemoDesired /\ outcome = "none" /\ (~seeded => feed = Nothing)
    BY <1>1 DEF RollInvariant, Stages
  <1>4. frame \in 1 .. Len(DemoTimeline)
    BY DEF RollInvariant, TypeOK
  <1>5. /\ \A n \in DOMAIN f : f[n] \in Row
        /\ RollComplete(f) => \A n \in DOMAIN f : f[n].new
    BY <1>3, <1>4, DemoFrames
  <1>6. frame' \in 1 .. Len(DemoTimeline)
    BY <1>1, <1>4, Frames DEF NextFrame
  <1> HIDE DEF f
  <1>7. FeedMatchesPanel' /\ \A n \in DOMAIN feed' : feed'[n] \in Kinds
    <2>1. FeedMatchesPanel /\ \A n \in DOMAIN feed : feed[n] \in Kinds
      BY DEF RollInvariant, TypeOK
    <2> QED
      BY <1>2, <1>3, <1>5, <2>1, ObserveKept
  <1>8. listed = Nothing /\ podCache = Unread
    BY <1>1 DEF RollInvariant, TypeOK
  <1>9. TypeOK'
    BY <1>1, <1>2, <1>5, <1>6, <1>7, <1>8 DEF RollInvariant, TypeOK
  <1>10. Stages' /\ NamesKnown' /\ PodsAccounted'
    BY <1>1, <1>2, <1>3, <1>8
       DEF RollInvariant, Stages, NamesKnown, PodsAccounted
  <1>11. FreshAccounted' /\ EvictedIsReal'
    BY <1>1, <1>2 DEF RollInvariant, FreshAccounted, EvictedIsReal, Evicted
  <1>12. CompletionHonest'
    BY <1>1, <1>2, <1>3, <1>5 DEF CompletionHonest
  <1> QED
    BY <1>7, <1>9, <1>10, <1>11, <1>12 DEF RollInvariant

-----------------------------------------------------------------------------
(* Theorems. *)

LEMMA StutterKept ==
  ASSUME RollInvariant, UNCHANGED vars PROVE RollInvariant'
  <1> USE DEF vars, clusterVars, panelVars
  <1>1. TypeOK' /\ Stages' /\ NamesKnown'
    BY DEF RollInvariant, TypeOK, Stages, NamesKnown
  <1>2. PodsAccounted' /\ FreshAccounted'
    BY DEF RollInvariant, PodsAccounted, FreshAccounted
  <1>3. FeedMatchesPanel' /\ EvictedIsReal' /\ CompletionHonest'
    BY DEF RollInvariant, FeedMatchesPanel, EvictedIsReal, CompletionHonest, Evicted
  <1> QED
    BY <1>1, <1>2, <1>3 DEF RollInvariant

LEMMA StepKept == RollInvariant /\ [Next]_vars => RollInvariant'
  <1> SUFFICES ASSUME RollInvariant, [Next]_vars PROVE RollInvariant'
    OBVIOUS
  <1>1. CASE Panel
    BY <1>1, AttachKept, CaptureBaselineKept, ReadNodesKept, CountTotalKept, DrawNodesKept,
       DrawFrameKept DEF Panel
  <1>2. CASE Stop
    BY <1>2, StopKept
  <1>3. CASE Cluster
    BY <1>3, ClusterStep
  <1>4. CASE Done
    BY <1>4, StutterKept DEF Done
  <1>5. CASE UNCHANGED vars
    BY <1>5, StutterKept
  <1> QED
    BY <1>1, <1>2, <1>3, <1>4, <1>5 DEF Next

\* The panel's inductive invariant, for any nodegroup, any number of pods, instances and
\* upsets: types, what the observer holds compared with the cluster, and the three
\* properties below.
THEOREM RollCorrect == Spec => []RollInvariant
  <1>1. Init => RollInvariant
    BY InitEstablished
  <1>2. RollInvariant /\ [Next]_vars => RollInvariant'
    BY StepKept
  <1> QED
    BY <1>1, <1>2, PTL DEF Spec

\* The feed and the table of a frame tell the same story (Tracker.Observe).
THEOREM FeedCorrect == Spec => []FeedMatchesPanel
  <1>1. RollInvariant => FeedMatchesPanel
    BY DEF RollInvariant
  <1> QED
    BY <1>1, RollCorrect, PTL

\* The eviction bar never counts a pod that has not left (fillPodEviction, nodeStateCell).
THEOREM EvictedCorrect == Spec => []EvictedIsReal
  <1>1. RollInvariant => EvictedIsReal
    BY DEF RollInvariant
  <1> QED
    BY <1>1, RollCorrect, PTL

\* A panel that says the roll is complete is right about the fresh instances
\* (rollComplete), and the scripted roll about having replaced every old node.
THEOREM CompletionCorrect == Spec => []CompletionHonest
  <1>1. RollInvariant => CompletionHonest
    BY DEF RollInvariant
  <1> QED
    BY <1>1, RollCorrect, PTL
=============================================================================
