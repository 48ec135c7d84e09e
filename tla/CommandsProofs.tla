---------------------------- MODULE CommandsProofs ----------------------------
(***************************************************************************)
(* Theorems about the commands: `nodegroup scale`, `cluster list` and its  *)
(* cache, the context file, the update check, the health gate, `status`,   *)
(* `cluster upgrade-check`, and all of them as one program.                *)
(***************************************************************************)
EXTENDS CommandsInvariant, DataInduction

-----------------------------------------------------------------------------
(* A step of the program is a step of the command that runs; the state of all *)
(* others stands still.                                                      *)

LEMMA ContextSteps ==
  ASSUME [CommandsNext]_commandVars
  PROVE  ContextStoreNext \/ UNCHANGED contextVars
  BY DEF CommandsNext, RunContext, RunVersion, RunClusterList, RunStatusCommand,
         RunNodegroupScale, RunHealthCheck, RunUpgradeCheck, Finished, commandVars

LEMMA CheckSteps ==
  ASSUME [CommandsNext]_commandVars
  PROVE  UpdateCheckNext \/ UNCHANGED checkVars
  BY DEF CommandsNext, RunContext, RunVersion, RunClusterList, RunStatusCommand,
         RunNodegroupScale, RunHealthCheck, RunUpgradeCheck, Finished, commandVars

LEMMA ListSteps ==
  ASSUME [CommandsNext]_commandVars
  PROVE  ClusterListNext \/ UNCHANGED listVars
  BY DEF CommandsNext, RunContext, RunVersion, RunClusterList, RunStatusCommand,
         RunNodegroupScale, RunHealthCheck, RunUpgradeCheck, Finished, commandVars

LEMMA ScaleSteps ==
  ASSUME [CommandsNext]_commandVars
  PROVE  NodegroupScaleNext \/ UNCHANGED scaleVars
  BY DEF CommandsNext, RunContext, RunVersion, RunClusterList, RunStatusCommand,
         RunNodegroupScale, RunHealthCheck, RunUpgradeCheck, Finished, commandVars

-----------------------------------------------------------------------------
(* `nodegroup scale` *)

LEMMA ScaleTypesStart == ASSUME CommandsInit PROVE NodegroupScaleTypeOK
  <1>1. NodegroupScaleInit
    BY DEF CommandsInit
  <1>2. /\ wish \in [desired : Sizes \cup {NoSize}, dryRun : BOOLEAN, health : BOOLEAN,
                     pdbs : BOOLEAN, wait : BOOLEAN]
        /\ group \in [size : Sizes, status : {"ACTIVE", "UPDATING"}] /\ seen = group
    BY <1>1 DEF NodegroupScaleInit
  <1>3. /\ others = 0 /\ attempt = 0 /\ scale = "start" /\ accepted = {} /\ answerLost = FALSE
        /\ expired = FALSE /\ outcome = "none"
    BY <1>1 DEF NodegroupScaleInit
  <1>4. others \in 0..MaxOtherScales /\ attempt \in 0..UpdateAttempts
    BY <1>3, NodegroupScaleAssumption
  <1>5. accepted \subseteq 1..UpdateAttempts /\ answerLost \in BOOLEAN /\ expired \in BOOLEAN
    BY <1>3
  <1>6. {group, seen} \subseteq [size : Sizes, status : {"ACTIVE", "UPDATING"}]
    BY <1>2
  <1> QED
    BY <1>2, <1>3, <1>4, <1>5, <1>6 DEF NodegroupScaleTypeOK

LEMMA ScaleTypesKept ==
  ASSUME NodegroupScaleTypeOK, NodegroupScaleNext \/ UNCHANGED scaleVars
  PROVE  NodegroupScaleTypeOK'
  <1> USE NodegroupScaleAssumption DEF NodegroupScaleTypeOK, Finish, Continues
  <1>1. CASE PrintScaleDryRun \/ PreScaleHealth \/ CheckPDBs
    BY <1>1 DEF PrintScaleDryRun, PreScaleHealth, CheckPDBs
  <1>2. ASSUME Accept
        PROVE  /\ accepted' \subseteq 1..UpdateAttempts
               /\ group' \in [size : Sizes, status : {"ACTIVE", "UPDATING"}]
    BY <1>2 DEF Accept, Token, NoSize
  <1>3. CASE UpdateAnswered
    BY <1>2, <1>3 DEF UpdateAnswered, AfterUpdate
  <1>4. CASE UpdateLost
    <2>1. attempt' \in 0..UpdateAttempts
      BY <1>4 DEF UpdateLost, MayTry
    <2>2. /\ accepted' \subseteq 1..UpdateAttempts /\ answerLost' \in BOOLEAN
          /\ group' \in [size : Sizes, status : {"ACTIVE", "UPDATING"}]
      BY <1>2, <1>4 DEF UpdateLost
    <2>3. UNCHANGED <<wish, others, scale, expired, seen, outcome>>
      BY <1>4 DEF UpdateLost
    <2> QED
      BY <2>1, <2>2, <2>3
  <1>5. CASE UpdateGivesUp \/ WaitForScale \/ PostScaleHealth
    BY <1>5 DEF UpdateGivesUp, WaitForScale, PostScaleHealth
  <1>6. CASE ScaleExpires \/ GroupSettles \/ UNCHANGED scaleVars
    BY <1>6 DEF ScaleExpires, GroupSettles, scaleVars
  <1>7. CASE OtherScales
    BY <1>7 DEF OtherScales
  <1> QED
    BY <1>1, <1>3, <1>4, <1>5, <1>6, <1>7 DEF NodegroupScaleNext, ScaleStep

LEMMA ScaleStart == ASSUME CommandsInit PROVE ScaleInvariant
  BY DEF CommandsInit, NodegroupScaleInit, ScaleInvariant, Token

LEMMA ScaleKept ==
  ASSUME ScaleInvariant, NodegroupScaleNext \/ UNCHANGED scaleVars
  PROVE  ScaleInvariant'
  <1> USE DEF ScaleInvariant, Token, Finish, Continues, Scaled
  <1>1. CASE PrintScaleDryRun
    BY <1>1 DEF PrintScaleDryRun
  <1>2. CASE PreScaleHealth
    BY <1>2 DEF PreScaleHealth
  <1>3. CASE CheckPDBs
    BY <1>3 DEF CheckPDBs
  <1>4. CASE UpdateAnswered
    BY <1>4 DEF UpdateAnswered, Accept, AfterUpdate
  <1>5. CASE UpdateLost
    BY <1>5 DEF UpdateLost, Accept
  <1>6. CASE UpdateGivesUp
    BY <1>6 DEF UpdateGivesUp
  <1>7. CASE WaitForScale
    BY <1>7 DEF WaitForScale
  <1>8. CASE PostScaleHealth
    BY <1>8 DEF PostScaleHealth
  <1>9. CASE ScaleExpires \/ GroupSettles \/ OtherScales \/ UNCHANGED scaleVars
    BY <1>9 DEF ScaleExpires, GroupSettles, OtherScales, scaleVars
  <1> QED
    BY <1>1, <1>2, <1>3, <1>4, <1>5, <1>6, <1>7, <1>8, <1>9 DEF NodegroupScaleNext, ScaleStep

\* One `nodegroup scale` starts at most one update, and its outcome says truly whether
\* it did and what the nodegroup came to, whatever answers are lost and whoever else
\* scales (Scale, WithRetry, waitForScaleCompletion).
THEOREM ScaleCorrect == CommandsSpec => []ScaleHonest
  <1>1. ASSUME ScaleInvariant PROVE ScaleHonest
    <2>1. accepted = {} \/ accepted = {Token}
      BY <1>1 DEF ScaleInvariant
    <2>2. Cardinality(accepted) <= 1
      BY <2>1, FS_EmptySet, FS_Singleton
    <2> QED
      BY <1>1, <2>2 DEF ScaleInvariant, ScaleHonest, Scaled
  <1>2. ScaleInvariant /\ [CommandsNext]_commandVars => ScaleInvariant'
    BY ScaleSteps, ScaleKept
  <1> QED
    BY ScaleStart, <1>1, <1>2, PTL DEF CommandsSpec

-----------------------------------------------------------------------------
(* `cluster list` *)

LEMMA AtMostOne ==
  ASSUME NEW S, \A x, y \in S : x = y PROVE Cardinality(S) <= 1
  <1>1. CASE S = {}
    BY <1>1, FS_EmptySet
  <1>2. CASE S # {}
    <2>1. PICK x \in S : TRUE
      BY <1>2
    <2>2. S = {x}
      BY <2>1
    <2>3. Cardinality({x}) = 1
      BY FS_Singleton
    <2> QED
      BY <2>2, <2>3
  <1> QED
    BY <1>1, <1>2

LEMMA ListConstants ==
  /\ Len(ListRegions) \in Nat \ {0} /\ Index = 1..Len(ListRegions)
  /\ \A i \in Index : ListRegions[i] \in DOMAIN ClustersIn
  BY ClusterListAssumption DEF Index

\* A status is none of the words of a failed listing.
LEMMA AnswerIsNoFailure ==
  ASSUME NEW r, NEW rows, Answer(r, rows) PROVE rows # FailedList
  <1>1. ASSUME rows = FailedList PROVE FALSE
    <2>1. <<"failed", "failed">> \in ClustersIn[r] \X Statuses
      BY <1>1 DEF Answer, FailedList
    <2> QED
      BY <2>1 DEF Statuses
  <1> QED
    BY <1>1

LEMMA KeyRegion == \A i : Key(i)[1] = ListRegions[i]
  BY DEF Key

LEMMA ListStart == ASSUME CommandsInit PROVE ListInvariant
  <1>1. ClusterListInit
    BY DEF CommandsInit
  <1>2. /\ listing = "dispatch" /\ cut = FALSE /\ dispatched = 0 /\ collected = {} /\ listed = {}
        /\ filter \in {"any"} \cup Statuses
        /\ report.kind = "none" /\ report.queried = 0
    BY <1>1 DEF ClusterListInit
  <1>3. /\ region = [i \in Index |-> "none"] /\ sees = [i \in Index |-> {}]
        /\ cache = [k \in {Key(i) : i \in Index} |-> NoEntry]
    BY <1>1 DEF ClusterListInit, Index
  <1>4. ClusterListTypeOK
    <2>1. \A i \in DOMAIN region : region[i] = "none" /\ i > 0
      BY <1>3, ListConstants
    <2>2. \A k \in DOMAIN cache : cache[k].state = "none"
      BY <1>3 DEF NoEntry
    <2>3. cut \in BOOLEAN
      BY <1>2
    <2>4. dispatched \in 0..Len(ListRegions) /\ report.queried \in 0..Len(ListRegions)
      BY <1>2, ListConstants
    <2>5. \A line \in listed : line[1] \in collected /\ line[3] \in Statuses
      BY <1>2
    <2>6. \A i \in DOMAIN region :
            /\ region[i] \in {"none", "start", "evict", "list", "summarize", "send", "sent"}
            /\ region[i] = "none" <=> i > dispatched
      BY <1>2, <2>1
    <2> QED
      BY <1>2, <2>2, <2>3, <2>4, <2>5, <2>6 DEF ClusterListTypeOK
  <1>5. Contributed = {}
    BY <1>2 DEF Contributed
  <1>6. \A k \in DOMAIN cache : cache[k] = NoEntry
    BY <1>3
  <1> QED
    BY <1>2, <1>3, <1>4, <1>5, <1>6, ListConstants DEF ListInvariant, NoEntry

\* A goroutine that has not sent yet moves on, with what it saw and stored.
LEMMA GoroutineMoves ==
  ASSUME ListInvariant, NEW i \in 1..dispatched, region[i] # "sent",
         NEW where \in {"evict", "list", "summarize", "send", "sent"}, Moves(i, where),
         UNCHANGED <<listing, cut, dispatched, filter, collected, listed, report>>,
         NEW rows, DOMAIN sees' = Index,
         \A j \in Index : sees'[j] = IF j = i THEN rows ELSE sees[j],
         IF where \in {"send", "sent"}
         THEN rows = FailedList \/ Answer(ListRegions[i], rows) ELSE rows = {},
         DOMAIN cache' = DOMAIN cache,
         \A k \in DOMAIN cache :
           /\ cache'[k] = [state |-> cache'[k].state, rows |-> cache'[k].rows]
           /\ cache'[k].state \in {"none", "fresh", "expired"}
           /\ cache'[k].state = "fresh" => Answer(k[1], cache'[k].rows)
  PROVE  ListInvariant'
  <1> USE ListConstants DEF ListInvariant, ClusterListTypeOK, Moves
  <1>1. i \in Index /\ i \notin collected
    OBVIOUS
  <1>2. \A j \in collected : sees'[j] = sees[j] /\ region'[j] = region[j]
    BY <1>1
  <1>3. Contributed' = Contributed /\ Failed' = Failed
    BY <1>2 DEF Contributed, Failed
  <1>4. /\ \A line \in listed' : /\ line[1] \in Contributed' /\ <<line[2], line[3]>> \in sees'[line[1]]
                               /\ line = <<line[1], line[2], line[3]>>
        /\ \A j \in Contributed' : \A x \in sees'[j] : <<j, x[1], x[2]>> \in listed'
    BY <1>2, <1>3 DEF Contributed
  <1>5. ClusterListTypeOK'
    <2>1. \A j \in DOMAIN region' :
            /\ region'[j] \in {"none", "start", "evict", "list", "summarize", "send", "sent"}
            /\ region'[j] = "none" <=> j > dispatched'
      BY <1>1
    <2>2. \A k \in DOMAIN cache' : cache'[k].state \in {"none", "fresh", "expired"}
      OBVIOUS
    <2> QED
      BY <2>1, <2>2
  <1>6. \A j \in Index :
          IF region'[j] \in {"send", "sent"}
          THEN sees'[j] = FailedList \/ Answer(ListRegions[j], sees'[j])
          ELSE sees'[j] = {}
    BY <1>1
  <1>7. \A j \in Index :
          IF region'[j] \in {"send", "sent"}
          THEN sees'[j] = FailedList \/ Answer(ListRegions[j], sees[j])'
          ELSE sees'[j] = {}
    BY <1>6 DEF Answer
  <1>8. \A k \in DOMAIN cache : cache'[k].state = "fresh" => Answer(k[1], cache[k].rows)'
    BY DEF Answer
  <1>9. region' \in [Index -> {"none", "start", "evict", "list", "summarize", "send", "sent"}]
    BY <1>1
  <1>10. (\A j \in Index : IF region[j] \in {"send", "sent"}
                          THEN sees[j] = FailedList \/ Answer(ListRegions[j], sees[j])
                          ELSE sees[j] = {})'
    BY <1>7
  <1>11. /\ DOMAIN sees' = Index /\ DOMAIN cache' = {Key(j) : j \in Index}
         /\ filter' \in {"any"} \cup Statuses
         /\ \A j \in collected' : region'[j] = "sent"
    BY <1>2
  <1>12. /\ listing' = "dispatch" => collected' = {}
         /\ listing' # "dispatch" /\ ~cut' => dispatched' = Len(ListRegions)
         /\ report'.kind # "none" <=> listing' = "over"
         /\ report'.kind # "none" =>
              /\ collected' = 1..dispatched'
              /\ report'.kind = "error" <=> Cardinality(Failed') = Len(ListRegions)
              /\ report'.kind = "clusters" => report'.queried = Len(ListRegions) - Cardinality(Failed')
              /\ report'.kind = "error" => report'.queried = 0
    BY <1>3
  <1>13. \A k \in DOMAIN cache' :
           /\ cache'[k] = [state |-> cache'[k].state, rows |-> cache'[k].rows]
           /\ cache'[k].state = "fresh" => Answer(k[1], cache[k].rows)'
    BY <1>8
  <1> QED
    BY <1>4, <1>5, <1>9, <1>10, <1>11, <1>12, <1>13 DEF Key

LEMMA DispatchKeeps == ASSUME ListInvariant, Dispatch PROVE ListInvariant'
  <1> USE ListConstants DEF ListInvariant, ClusterListTypeOK, Dispatch
  <1>1. PICK i \in Index : i = dispatched + 1
    OBVIOUS
  <1>2. region' = [region EXCEPT ![i] = "start"] /\ region[i] = "none" /\ i \notin collected
    BY <1>1
  <1>3. Contributed' = Contributed /\ Failed' = Failed
    BY DEF Contributed, Failed
  <1>4. ClusterListTypeOK'
    BY <1>1, <1>2
  <1>5. \A j \in Index :
          IF region'[j] \in {"send", "sent"}
          THEN sees'[j] = FailedList \/ Answer(ListRegions[j], sees[j])'
          ELSE sees'[j] = {}
    BY <1>2 DEF Answer
  <1>6. \A k \in DOMAIN cache : cache'[k].state = "fresh" => Answer(k[1], cache[k].rows)'
    BY DEF Answer
  <1> QED
    BY <1>1, <1>2, <1>3, <1>4, <1>5, <1>6 DEF Key

LEMMA CacheGetKeeps ==
  ASSUME ListInvariant, NEW i \in 1..dispatched, CacheGet(i) PROVE ListInvariant'
  <1>1. /\ i \in Index /\ Key(i) \in DOMAIN cache /\ Key(i)[1] = ListRegions[i]
        /\ region[i] = "start" /\ sees[i] = {} /\ DOMAIN sees = Index
    BY KeyRegion, ListConstants DEF ListInvariant, ClusterListTypeOK, CacheGet
  <1>2. \A k \in DOMAIN cache :
           /\ cache[k] = [state |-> cache[k].state, rows |-> cache[k].rows]
           /\ cache[k].state \in {"none", "fresh", "expired"}
           /\ cache[k].state = "fresh" => Answer(k[1], cache[k].rows)
    BY DEF ListInvariant, ClusterListTypeOK
  <1>3. cache' = cache /\ UNCHANGED <<listing, cut, dispatched, filter, collected, listed, report>>
    BY DEF CacheGet
  <1>4. CASE cache[Key(i)].state = "fresh"
    <2>1. Moves(i, "send") /\ Returns(i, cache[Key(i)].rows)
      BY <1>4 DEF CacheGet
    <2>2. /\ DOMAIN sees' = Index
          /\ \A j \in Index : sees'[j] = IF j = i THEN cache[Key(i)].rows ELSE sees[j]
      BY <1>1, <2>1 DEF Returns
    <2>3. Answer(ListRegions[i], cache[Key(i)].rows)
      BY <1>1, <1>2, <1>4
    <2> DEFINE rows == cache[Key(i)].rows
    <2> HIDE DEF rows
    <2> QED
      BY <1>1, <1>2, <1>3, <2>1, <2>2, <2>3, GoroutineMoves DEF rows
  <1>5. ASSUME cache[Key(i)].state # "fresh",
               NEW where \in {"evict", "list"}, Moves(i, where), UNCHANGED sees
        PROVE  ListInvariant'
    <2>1. \A j \in Index : sees'[j] = IF j = i THEN {} ELSE sees[j]
      BY <1>1, <1>5
    <2> QED
      BY <1>1, <1>2, <1>3, <1>5, <2>1, GoroutineMoves
  <1>6. CASE cache[Key(i)].state = "expired"
    BY <1>5, <1>6 DEF CacheGet
  <1>7. CASE cache[Key(i)].state = "none"
    BY <1>5, <1>7 DEF CacheGet
  <1> QED
    BY <1>1, <1>2, <1>4, <1>6, <1>7

LEMMA CacheEvictKeeps ==
  ASSUME ListInvariant, NEW i \in 1..dispatched, CacheEvict(i) PROVE ListInvariant'
  <1>1. /\ i \in Index /\ region[i] = "evict" /\ sees[i] = {} /\ DOMAIN sees = Index
        /\ sees' = sees /\ Moves(i, "list")
        /\ UNCHANGED <<listing, cut, dispatched, filter, collected, listed, report>>
    BY ListConstants DEF ListInvariant, ClusterListTypeOK, CacheEvict
  <1>2. /\ DOMAIN cache' = DOMAIN cache
        /\ \A k \in DOMAIN cache : cache'[k] \in {cache[k], NoEntry}
    BY DEF CacheEvict
  <1>3. \A k \in DOMAIN cache :
           /\ cache'[k] = [state |-> cache'[k].state, rows |-> cache'[k].rows]
           /\ cache'[k].state \in {"none", "fresh", "expired"}
           /\ cache'[k].state = "fresh" => Answer(k[1], cache'[k].rows)
    BY <1>2 DEF ListInvariant, ClusterListTypeOK, NoEntry
  <1>4. \A j \in Index : sees'[j] = IF j = i THEN {} ELSE sees[j]
    BY <1>1
  <1> QED
    BY <1>1, <1>2, <1>3, <1>4, GoroutineMoves

LEMMA ListPagesKeeps ==
  ASSUME ListInvariant, NEW i \in 1..dispatched, ListPages(i) PROVE ListInvariant'
  <1>1. /\ i \in Index /\ region[i] = "list" /\ sees[i] = {} /\ DOMAIN sees = Index
        /\ cache' = cache
        /\ UNCHANGED <<listing, cut, dispatched, filter, collected, listed, report>>
    BY ListConstants DEF ListInvariant, ClusterListTypeOK, ListPages
  <1>2. \A k \in DOMAIN cache :
           /\ cache[k] = [state |-> cache[k].state, rows |-> cache[k].rows]
           /\ cache[k].state \in {"none", "fresh", "expired"}
           /\ cache[k].state = "fresh" => Answer(k[1], cache[k].rows)
    BY DEF ListInvariant, ClusterListTypeOK
  <1>3. CASE Moves(i, "summarize") /\ UNCHANGED sees
    <2>1. \A j \in Index : sees'[j] = IF j = i THEN {} ELSE sees[j]
      BY <1>1, <1>3
    <2> QED
      BY <1>1, <1>2, <1>3, <2>1, GoroutineMoves
  <1>4. CASE Moves(i, "send") /\ Returns(i, FailedList)
    <2>1. /\ DOMAIN sees' = Index
          /\ \A j \in Index : sees'[j] = IF j = i THEN FailedList ELSE sees[j]
      BY <1>1, <1>4 DEF Returns
    <2> QED
      BY <1>1, <1>2, <1>4, <2>1, GoroutineMoves
  <1> QED
    BY <1>3, <1>4 DEF ListPages

LEMMA SummarizeKeeps ==
  ASSUME ListInvariant, NEW i \in 1..dispatched, Summarize(i) PROVE ListInvariant'
  <1>1. /\ i \in Index /\ region[i] = "summarize" /\ DOMAIN sees = Index
        /\ Key(i) \in DOMAIN cache /\ \A k \in DOMAIN cache : k = Key(i) => k[1] = ListRegions[i]
        /\ Moves(i, "send")
        /\ UNCHANGED <<listing, cut, dispatched, filter, collected, listed, report>>
    BY KeyRegion, ListConstants DEF ListInvariant, ClusterListTypeOK, Summarize
  <1>0. PICK started \in SUBSET ClustersIn[ListRegions[i]] :
          /\ cut \/ started = ClustersIn[ListRegions[i]]
          /\ \E status \in [started -> Statuses] :
               LET rows == {<<c, status[c]>> : c \in {d \in started : filter \in {"any", status[d]}}}
               IN  /\ Returns(i, rows)
                   /\ cache' = [cache EXCEPT ![Key(i)] = [state |-> "fresh", rows |-> rows]]
    BY DEF Summarize
  <1>2. PICK status, rows :
          /\ status \in [started -> Statuses]
          /\ rows = {<<c, status[c]>> : c \in {d \in started : filter \in {"any", status[d]}}}
          /\ Returns(i, rows)
          /\ cache' = [cache EXCEPT ![Key(i)] = [state |-> "fresh", rows |-> rows]]
    BY <1>0
  <1>3. Answer(ListRegions[i], rows)
    <2>1. rows \subseteq ClustersIn[ListRegions[i]] \X Statuses
      BY <1>2
    <2>2. \A x, y \in rows : x[1] = y[1] => x = y
      BY <1>2
    <2>3. ASSUME ~cut, filter = "any" PROVE {x[1] : x \in rows} = ClustersIn[ListRegions[i]]
      <3>1. ASSUME NEW c \in ClustersIn[ListRegions[i]] PROVE \E x \in rows : x[1] = c
        <4>1. c \in started /\ status[c] \in Statuses /\ filter \in {"any", status[c]}
          BY <1>0, <1>2, <2>3
        <4>2. <<c, status[c]>> \in rows /\ <<c, status[c]>>[1] = c
          BY <1>2, <4>1
        <4> QED
          BY <4>2
      <3>2. \A c \in ClustersIn[ListRegions[i]] : c \in {x[1] : x \in rows}
        BY <3>1
      <3>3. \A x \in rows : x[1] \in ClustersIn[ListRegions[i]]
        BY <2>1
      <3> QED
        BY <3>2, <3>3
    <2> QED
      BY <2>1, <2>2, <2>3 DEF Answer
  <1>4. /\ DOMAIN sees' = Index
        /\ \A j \in Index : sees'[j] = IF j = i THEN rows ELSE sees[j]
    BY <1>1, <1>2 DEF Returns
  <1>5. /\ DOMAIN cache' = DOMAIN cache
        /\ \A k \in DOMAIN cache :
             cache'[k] = IF k = Key(i) THEN [state |-> "fresh", rows |-> rows] ELSE cache[k]
    BY <1>2
  <1>6. \A k \in DOMAIN cache :
           /\ cache'[k] = [state |-> cache'[k].state, rows |-> cache'[k].rows]
           /\ cache'[k].state \in {"none", "fresh", "expired"}
           /\ cache'[k].state = "fresh" => Answer(k[1], cache'[k].rows)
    BY <1>1, <1>3, <1>5 DEF ListInvariant, ClusterListTypeOK
  <1> QED
    BY <1>1, <1>3, <1>4, <1>5, <1>6, GoroutineMoves

LEMMA SendKeeps ==
  ASSUME ListInvariant, NEW i \in 1..dispatched, Send(i) PROVE ListInvariant'
  <1>1. /\ i \in Index /\ region[i] = "send" /\ DOMAIN sees = Index /\ sees' = sees
        /\ Moves(i, "sent") /\ cache' = cache
        /\ UNCHANGED <<listing, cut, dispatched, filter, collected, listed, report>>
    BY ListConstants DEF ListInvariant, ClusterListTypeOK, Send
  <1>2. \A k \in DOMAIN cache :
           /\ cache[k] = [state |-> cache[k].state, rows |-> cache[k].rows]
           /\ cache[k].state \in {"none", "fresh", "expired"}
           /\ cache[k].state = "fresh" => Answer(k[1], cache[k].rows)
    BY DEF ListInvariant, ClusterListTypeOK
  <1>3. sees[i] = FailedList \/ Answer(ListRegions[i], sees[i])
    BY <1>1 DEF ListInvariant
  <1>4. \A j \in Index : sees'[j] = IF j = i THEN sees[i] ELSE sees[j]
    BY <1>1
  <1> DEFINE rows == sees[i]
  <1> HIDE DEF rows
  <1> QED
    BY <1>1, <1>2, <1>3, <1>4, GoroutineMoves DEF rows

LEMMA CollectKeeps == ASSUME ListInvariant, Collect PROVE ListInvariant'
  <1> USE ListConstants DEF ListInvariant, ClusterListTypeOK
  <1>1. PICK i \in 1..dispatched \ collected :
          /\ region[i] = "sent" /\ collected' = collected \cup {i}
          /\ listed' = IF sees[i] = FailedList THEN listed
                       ELSE listed \cup {<<i, x[1], x[2]>> : x \in sees[i]}
    BY DEF Collect
  <1>2. /\ listing = "collect"
        /\ UNCHANGED <<listing, cut, dispatched, region, sees, cache, filter, report>>
    BY DEF Collect
  <1>3. i \in Index /\ (sees[i] = FailedList \/ Answer(ListRegions[i], sees[i]))
    BY <1>1
  <1>4. \A x \in sees[i] : sees[i] # FailedList => x = <<x[1], x[2]>> /\ x[2] \in Statuses
    BY <1>3 DEF Answer
  <1>5. Contributed' = IF sees[i] = FailedList THEN Contributed ELSE Contributed \cup {i}
    BY <1>1, <1>2 DEF Contributed
  <1>6. /\ \A line \in listed' : /\ line[1] \in Contributed' /\ <<line[2], line[3]>> \in sees'[line[1]]
                               /\ line = <<line[1], line[2], line[3]>>
        /\ \A j \in Contributed' : \A x \in sees'[j] : <<j, x[1], x[2]>> \in listed'
    <2>1. CASE sees[i] = FailedList
      BY <1>1, <1>2, <1>5, <2>1
    <2>2. CASE sees[i] # FailedList
      <3>1. listed' = listed \cup {<<i, x[1], x[2]>> : x \in sees[i]}
        BY <1>1, <2>2
      <3>2. i \in Contributed' /\ sees' = sees /\ Contributed \subseteq Contributed'
        BY <1>2, <1>5, <2>2
      <3>3. ASSUME NEW x \in sees[i] PROVE <<x[1], x[2]>> \in sees[i]
        BY <1>4, <2>2, <3>3
      <3>4. ASSUME NEW line \in listed'
            PROVE  /\ line[1] \in Contributed' /\ <<line[2], line[3]>> \in sees[line[1]]
                   /\ line = <<line[1], line[2], line[3]>>
        <4>1. CASE line \in listed
          BY <3>2, <4>1
        <4>2. CASE line \notin listed
          <5>1. PICK x \in sees[i] : line = <<i, x[1], x[2]>>
            BY <3>1, <4>2
          <5> QED
            BY <3>2, <3>3, <5>1
        <4> QED
          BY <4>1, <4>2
      <3>5. ASSUME NEW j \in Contributed', NEW x \in sees[j] PROVE <<j, x[1], x[2]>> \in listed'
        BY <1>5, <2>2, <3>1
      <3> QED
        BY <3>2, <3>4, <3>5
    <2> QED
      BY <2>1, <2>2
  <1>7. \A line \in listed' : line[1] \in collected' /\ line[3] \in Statuses
    BY <1>1, <1>4
  <1>8. ClusterListTypeOK'
    BY <1>1, <1>2, <1>7
  <1>9. \A j \in Index :
          IF region'[j] \in {"send", "sent"}
          THEN sees'[j] = FailedList \/ Answer(ListRegions[j], sees[j])'
          ELSE sees'[j] = {}
    BY <1>2 DEF Answer
  <1>10. \A k \in DOMAIN cache : cache'[k].state = "fresh" => Answer(k[1], cache[k].rows)'
    BY <1>2 DEF Answer
  <1>11. report'.kind = "none"
    BY <1>2
  <1> QED
    BY <1>1, <1>2, <1>6, <1>8, <1>9, <1>10, <1>11 DEF Key

LEMMA FailedCounted ==
  ASSUME ListInvariant
  PROVE  /\ IsFiniteSet(Failed) /\ Cardinality(Failed) \in 0..Len(ListRegions)
         /\ Cardinality(Failed) = Len(ListRegions) <=> Failed = Index
         /\ Cardinality(Index \ Failed) = Len(ListRegions) - Cardinality(Failed)
  <1>1. Failed \subseteq Index
    BY ListConstants DEF ListInvariant, ClusterListTypeOK, Failed
  <1>2. IsFiniteSet(Index) /\ Cardinality(Index) = Len(ListRegions)
    <2>1. 1 \in Int /\ Len(ListRegions) \in Int /\ ~(1 > Len(ListRegions))
      BY ListConstants
    <2>2. /\ IsFiniteSet(1..Len(ListRegions))
          /\ Cardinality(1..Len(ListRegions)) = Len(ListRegions) - 1 + 1
      BY <2>1, FS_Interval
    <2> QED
      BY <2>1, <2>2, ListConstants
  <1>3. IsFiniteSet(Failed) /\ Cardinality(Failed) \in Nat /\ Cardinality(Failed) <= Len(ListRegions)
        /\ (Cardinality(Failed) = Len(ListRegions) => Failed = Index)
    BY <1>1, <1>2, FS_Subset, FS_CardinalityType
  <1>4. Cardinality(Index \ Failed) = Cardinality(Index) - Cardinality(Index \cap Failed)
    BY <1>2, <1>3, FS_Difference
  <1>5. Index \cap Failed = Failed
    BY <1>1
  <1>6. Failed = Index => Cardinality(Failed) = Len(ListRegions)
    BY <1>2
  <1>7. Cardinality(Failed) \in 0..Len(ListRegions)
    BY <1>3, ListConstants
  <1> QED
    BY <1>2, <1>3, <1>4, <1>5, <1>6, <1>7

LEMMA ReportKeeps == ASSUME ListInvariant, Report PROVE ListInvariant'
  <1> USE ListConstants DEF ListInvariant, ClusterListTypeOK
  <1>1. /\ listing = "collect" /\ collected = 1..dispatched /\ listing' = "over"
        /\ UNCHANGED <<cut, dispatched, region, sees, cache, filter, collected, listed>>
        /\ report' = IF Cardinality(Failed) = Len(ListRegions)
                     THEN [kind |-> "error", queried |-> 0]
                     ELSE [kind |-> "clusters", queried |-> Len(ListRegions) - Cardinality(Failed)]
    BY DEF Report
  <1>2. Contributed' = Contributed /\ Failed' = Failed
    BY <1>1 DEF Contributed, Failed
  <1>3. Cardinality(Failed) \in 0..Len(ListRegions)
    BY FailedCounted
  <1>4. /\ report'.kind \in {"error", "clusters"} /\ report'.queried \in 0..Len(ListRegions)
        /\ report'.kind = "error" <=> Cardinality(Failed') = Len(ListRegions)
        /\ report'.kind = "clusters" => report'.queried = Len(ListRegions) - Cardinality(Failed')
        /\ report'.kind = "error" => report'.queried = 0
    BY <1>1, <1>2, <1>3
  <1>5. ClusterListTypeOK'
    BY <1>1, <1>4
  <1>6. \A j \in Index :
          IF region'[j] \in {"send", "sent"}
          THEN sees'[j] = FailedList \/ Answer(ListRegions[j], sees[j])'
          ELSE sees'[j] = {}
    BY <1>1 DEF Answer
  <1>7. \A k \in DOMAIN cache : cache'[k].state = "fresh" => Answer(k[1], cache[k].rows)'
    BY <1>1 DEF Answer
  <1> QED
    BY <1>1, <1>2, <1>4, <1>5, <1>6, <1>7 DEF Key

LEMMA EnvironmentKeepsList ==
  ASSUME ListInvariant, DispatchOver \/ CutList \/ Expire \/ UNCHANGED listVars
  PROVE  ListInvariant'
  <1> USE ListConstants DEF ListInvariant, ClusterListTypeOK
  <1>1. /\ UNCHANGED <<dispatched, region, sees, filter, collected, listed, report>>
        /\ cut => cut'
    BY DEF DispatchOver, CutList, Expire, listVars
  <1>2. Contributed' = Contributed /\ Failed' = Failed
    BY <1>1 DEF Contributed, Failed
  <1>3. \A j \in Index :
          IF region'[j] \in {"send", "sent"}
          THEN sees'[j] = FailedList \/ Answer(ListRegions[j], sees[j])'
          ELSE sees'[j] = {}
    BY <1>1 DEF Answer
  <1>4. /\ DOMAIN cache' = DOMAIN cache
        /\ \A k \in DOMAIN cache :
             /\ cache'[k] = [state |-> cache'[k].state, rows |-> cache'[k].rows]
             /\ cache'[k].rows = cache[k].rows
             /\ cache'[k].state \in {"none", "fresh", "expired"}
             /\ cache'[k].state = "fresh" => cache[k].state = "fresh"
    <2>1. CASE Expire
      <3>1. PICK e \in DOMAIN cache : cache' = [cache EXCEPT ![e]["state"] = "expired"]
        BY <2>1 DEF Expire
      <3>2. \A k \in DOMAIN cache : cache[k] = [state |-> cache[k].state, rows |-> cache[k].rows]
        OBVIOUS
      <3>3. /\ DOMAIN cache' = DOMAIN cache
            /\ \A k \in DOMAIN cache : k # e => cache'[k] = cache[k]
            /\ cache'[e] = [cache[e] EXCEPT !["state"] = "expired"]
        BY <3>1
      <3>4. cache'[e] = [state |-> "expired", rows |-> cache[e].rows]
        <4>1. cache[e] = [state |-> cache[e].state, rows |-> cache[e].rows]
          BY <3>1, <3>2
        <4>2. \A x, y : [[state |-> x, rows |-> y] EXCEPT !["state"] = "expired"]
                         = [state |-> "expired", rows |-> y]
          OBVIOUS
        <4> QED
          BY <3>3, <4>1, <4>2
      <3> QED
        BY <3>2, <3>3, <3>4
    <2>2. CASE DispatchOver \/ CutList \/ UNCHANGED listVars
      BY <2>2 DEF DispatchOver, CutList, listVars
    <2> QED
      BY <2>1, <2>2
  <1>5. \A k \in DOMAIN cache : cache'[k].state = "fresh" => Answer(k[1], cache[k].rows)'
    <2>1. SUFFICES ASSUME NEW k \in DOMAIN cache, cache'[k].state = "fresh"
                   PROVE  Answer(k[1], cache[k].rows)'
      OBVIOUS
    <2>2. Answer(k[1], cache[k].rows)
      BY <1>4, <2>1
    <2> QED
      BY <1>1, <1>4, <2>1, <2>2 DEF Answer
  <1>6. ClusterListTypeOK'
    BY <1>1, <1>4 DEF DispatchOver, CutList, Expire, listVars
  <1>7. /\ listing' = "dispatch" => collected' = {}
        /\ listing' # "dispatch" /\ ~cut' => dispatched' = Len(ListRegions)
        /\ report'.kind # "none" <=> listing' = "over"
    BY <1>1 DEF DispatchOver, CutList, Expire, listVars
  <1> QED
    BY <1>1, <1>2, <1>3, <1>4, <1>5, <1>6, <1>7 DEF Key

LEMMA ListKept ==
  ASSUME ListInvariant, ClusterListNext \/ UNCHANGED listVars PROVE ListInvariant'
  <1>1. ASSUME NEW i \in 1..dispatched, RegionStep(i) PROVE ListInvariant'
    BY <1>1, CacheGetKeeps, CacheEvictKeeps, ListPagesKeeps, SummarizeKeeps, SendKeeps
    DEF RegionStep
  <1> QED
    BY <1>1, DispatchKeeps, CollectKeeps, ReportKeeps, EnvironmentKeepsList
    DEF ClusterListNext, ListStep

\* An uncut listing is an account of every region: each of its clusters is shown once, in
\* its own region, served from the shared cache or not, and only the failure of every
\* region is an error (ListAllRegionsWithMeta, regionOptionsFor, TTLCache.Get).
THEOREM ListingCorrect == CommandsSpec => []RegionsAccounted
  <1>1. ASSUME ListInvariant PROVE RegionsAccounted
    <2> DEFINE answered == {i \in 1..Len(ListRegions) : sees[i] # FailedList}
    <2>1. \A i \in Contributed : Answer(ListRegions[i], sees[i])
      BY <1>1, ListConstants DEF ListInvariant, ClusterListTypeOK, Contributed
    <2>2. \A line \in listed :
            /\ line[1] \in Contributed /\ <<line[2], line[3]>> \in sees[line[1]]
            /\ line = <<line[1], line[2], line[3]>>
      BY <1>1 DEF ListInvariant
    <2>3. \A line \in listed : line[2] \in ClustersIn[ListRegions[line[1]]]
      BY <2>1, <2>2 DEF Answer
    <2>4. ASSUME report.kind # "none", ~cut
          PROVE  /\ report.kind = "error" <=> answered = {}
                 /\ report.queried = Cardinality(answered)
                 /\ \A i \in answered :
                      /\ \A c \in ClustersIn[ListRegions[i]] :
                           Cardinality({r \in Rows(i) : r[1] = c}) <= 1
                      /\ filter = "any" => {r[1] : r \in Rows(i)} = ClustersIn[ListRegions[i]]
      <3>1. collected = Index /\ report.kind \in {"error", "clusters"}
        BY <1>1, <2>4, ListConstants DEF ListInvariant, ClusterListTypeOK
      <3>2. answered = Index \ Failed /\ answered = Contributed
        BY <3>1, ListConstants DEF Failed, Contributed
      <3>3. Failed \subseteq Index
        BY <3>1 DEF Failed
      <3>4. report.kind = "error" <=> answered = {}
        BY <1>1, <2>4, <3>2, <3>3, FailedCounted DEF ListInvariant
      <3>5. report.queried = Cardinality(answered)
        <4>1. CASE report.kind = "clusters"
          BY <1>1, <2>4, <3>2, <4>1, FailedCounted DEF ListInvariant
        <4>2. CASE report.kind = "error"
          BY <1>1, <3>4, <4>2, FS_EmptySet DEF ListInvariant
        <4> QED
          BY <3>1, <4>1, <4>2
      <3>6. ASSUME NEW i \in answered
            PROVE  /\ \A c \in ClustersIn[ListRegions[i]] :
                        Cardinality({r \in Rows(i) : r[1] = c}) <= 1
                   /\ filter = "any" => {r[1] : r \in Rows(i)} = ClustersIn[ListRegions[i]]
        <4>1. Answer(ListRegions[i], sees[i])
          BY <2>1, <3>2
        <4>2. Rows(i) = sees[i]
          <5>1. ASSUME NEW x \in sees[i] PROVE x \in Rows(i)
            <6>1. x = <<x[1], x[2]>>
              BY <4>1 DEF Answer
            <6>2. <<i, x[1], x[2]>> \in listed
              BY <1>1, <3>2 DEF ListInvariant
            <6> DEFINE line == <<i, x[1], x[2]>>
            <6>3. line[1] = i /\ line[2] = x[1] /\ line[3] = x[2]
              OBVIOUS
            <6> QED
              BY <6>1, <6>2, <6>3 DEF Rows
          <5>2. ASSUME NEW x \in Rows(i) PROVE x \in sees[i]
            BY <2>2 DEF Rows
          <5> QED
            BY <5>1, <5>2
        <4>3. ASSUME NEW c \in ClustersIn[ListRegions[i]]
              PROVE  Cardinality({r \in Rows(i) : r[1] = c}) <= 1
          <5> DEFINE same == {r \in Rows(i) : r[1] = c}
          <5>1. \A x, y \in same : x = y
            BY <4>1, <4>2 DEF Answer
          <5> HIDE DEF same
          <5>2. Cardinality(same) <= 1
            BY <5>1, AtMostOne
          <5> QED
            BY <5>2 DEF same
        <4> QED
          BY <2>4, <4>1, <4>2, <4>3 DEF Answer
      <3> QED
        BY <3>4, <3>5, <3>6
    <2> QED
      BY <2>3, <2>4 DEF RegionsAccounted
  <1>2. ListInvariant /\ [CommandsNext]_commandVars => ListInvariant'
    BY ListSteps, ListKept
  <1> QED
    BY ListStart, <1>1, <1>2, PTL DEF CommandsSpec

\* A fresh entry of the shared cache is replaced or grows old, it is never deleted:
\* the goroutine that saw an expired entry looks again under the write lock
\* (TTLCache.Get).
THEOREM FreshCorrect == CommandsSpec => FreshEntriesStay
  <1>1. ListInvariant /\ [CommandsNext]_commandVars => ListInvariant'
    BY ListSteps, ListKept
  <1>2. ASSUME ListInvariant, [CommandsNext]_commandVars
        PROVE  [\A k \in DOMAIN cache :
                  cache[k].state = "fresh" => cache'[k].state # "none"]_listVars
    <2> SUFFICES ASSUME NEW k \in DOMAIN cache, cache[k].state = "fresh"
                 PROVE  cache'[k].state # "none"
      OBVIOUS
    <2>1. CASE Expire
      BY <1>2, <2>1 DEF Expire, ListInvariant
    <2>2. ASSUME NEW i \in 1..dispatched, RegionStep(i)
          PROVE  cache'[k].state # "none"
      <3>1. CASE CacheEvict(i)
        BY <3>1 DEF CacheEvict, StillExpired
      <3>2. CASE Summarize(i)
        BY <3>2 DEF Summarize
      <3> QED
        BY <2>2, <3>1, <3>2 DEF RegionStep, CacheGet, ListPages, Send
    <2>3. CASE Dispatch \/ DispatchOver \/ Collect \/ Report \/ CutList \/ UNCHANGED listVars
      BY <2>3 DEF Dispatch, DispatchOver, Collect, Report, CutList, listVars
    <2> QED
      BY <1>2, <2>1, <2>2, <2>3, ListSteps DEF ClusterListNext, ListStep
  <1> QED
    BY ListStart, <1>1, <1>2, PTL DEF CommandsSpec, FreshEntriesStay

-----------------------------------------------------------------------------
(* The context file *)

LEMMA DocumentShape ==
  ASSUME NEW d
  PROVE  d \in Documents <=>
           \E some \in SUBSET ContextNames :
             d \in [current : ContextNames \cup {NoName}, previous : ContextNames \cup {NoName},
                   contexts : [some -> Targets]]
  BY DEF Documents

LEMMA EmptyWellFormed == WellFormed(EmptyFile)
  <1>1. [n \in {} |-> 0] \in [{} -> Targets]
    OBVIOUS
  <1>2. EmptyFile \in [current : ContextNames \cup {NoName}, previous : ContextNames \cup {NoName},
                      contexts : [{} -> Targets]]
    BY <1>1 DEF EmptyFile
  <1>3. EmptyFile \in Documents
    BY <1>2, DocumentShape
  <1> QED
    BY <1>3 DEF WellFormed, EmptyFile

\* No well-formed document is the torn one.
LEMMA WellFormedWhole == ASSUME NEW d, WellFormed(d) PROVE d # Torn
  BY DEF WellFormed, Torn, NoName

LEMMA UseKeeps ==
  ASSUME NEW d, WellFormed(d), NEW name, CanUse(d, name)
  PROVE  WellFormed(UseContext(d, name)) /\ UseContext(d, name).contexts = d.contexts
  <1>1. PICK some \in SUBSET ContextNames :
          d \in [current : ContextNames \cup {NoName}, previous : ContextNames \cup {NoName},
                contexts : [some -> Targets]]
    BY DocumentShape DEF WellFormed
  <1>2. name # Swap => name \in some
    BY <1>1 DEF CanUse
  <1> DEFINE used == UseContext(d, name)
  <1>3. /\ used \in [current : ContextNames \cup {NoName}, previous : ContextNames \cup {NoName},
                    contexts : [some -> Targets]]
        /\ used.contexts = d.contexts
    <2>1. CASE name = Swap
      BY <1>1, <2>1 DEF UseContext
    <2>2. CASE name # Swap
      BY <1>1, <1>2, <2>2 DEF UseContext
    <2> QED
      BY <2>1, <2>2
  <1>4. {used.current, used.previous} \subseteq DOMAIN used.contexts \cup {NoName}
    <2>1. CASE name = Swap
      BY <1>1, <1>3, <2>1 DEF UseContext, WellFormed
    <2>2. CASE name # Swap
      BY <1>1, <1>2, <1>3, <2>2 DEF UseContext, WellFormed
    <2> QED
      BY <2>1, <2>2
  <1>5. used.current = used.previous => used.current = NoName
    <2>1. CASE name = Swap
      BY <1>1, <2>1 DEF UseContext, WellFormed
    <2>2. CASE name # Swap
      BY <1>1, <2>2 DEF UseContext, WellFormed
    <2> QED
      BY <2>1, <2>2
  <1>6. used \in Documents
    BY <1>3, DocumentShape
  <1> QED
    BY <1>3, <1>4, <1>5, <1>6 DEF WellFormed

LEMMA SetKeeps ==
  ASSUME NEW d, WellFormed(d), NEW name \in ContextNames, NEW target \in Targets
  PROVE  /\ WellFormed(SetContext(d, name, target))
         /\ \A n \in ContextNames \ {name} : Entry(SetContext(d, name, target), n) = Entry(d, n)
  <1> DEFINE set == SetContext(d, name, target)
  <1>1. PICK some \in SUBSET ContextNames :
          d \in [current : ContextNames \cup {NoName}, previous : ContextNames \cup {NoName},
                contexts : [some -> Targets]]
    BY DocumentShape DEF WellFormed
  <1>2. /\ set.contexts = [n \in some \cup {name} |-> IF n = name THEN target ELSE d.contexts[n]]
        /\ set.current = d.current /\ set.previous = d.previous
        /\ set \in [current : ContextNames \cup {NoName}, previous : ContextNames \cup {NoName},
                    contexts : [some \cup {name} -> Targets]]
    BY <1>1 DEF SetContext
  <1>3. WellFormed(set)
    BY <1>1, <1>2, DocumentShape DEF WellFormed
  <1>4. ASSUME NEW n \in ContextNames \ {name} PROVE Entry(set, n) = Entry(d, n)
    BY <1>1, <1>2 DEF Entry
  <1> QED
    BY <1>3, <1>4

LEMMA RemoveKeeps ==
  ASSUME NEW d, WellFormed(d), NEW name \in DOMAIN d.contexts
  PROVE  /\ WellFormed(RemoveContext(d, name))
         /\ \A n \in ContextNames \ {name} : Entry(RemoveContext(d, name), n) = Entry(d, n)
  <1> DEFINE rest == RemoveContext(d, name)
  <1>1. PICK some \in SUBSET ContextNames :
          d \in [current : ContextNames \cup {NoName}, previous : ContextNames \cup {NoName},
                contexts : [some -> Targets]]
    BY DocumentShape DEF WellFormed
  <1>2. /\ rest.contexts = [n \in some \ {name} |-> d.contexts[n]]
        /\ rest.current = IF d.current = name THEN NoName ELSE d.current
        /\ rest.previous = IF d.previous = name THEN NoName ELSE d.previous
        /\ rest \in [current : ContextNames \cup {NoName}, previous : ContextNames \cup {NoName},
                     contexts : [some \ {name} -> Targets]]
    BY <1>1 DEF RemoveContext
  <1>3. WellFormed(rest)
    BY <1>1, <1>2, DocumentShape DEF WellFormed
  <1>4. ASSUME NEW n \in ContextNames \ {name} PROVE Entry(rest, n) = Entry(d, n)
    BY <1>1, <1>2 DEF Entry
  <1> QED
    BY <1>3, <1>4

LEMMA StoreStart == ASSUME CommandsInit PROVE StoreInvariant
  <1>1. EmptyFile \in Documents
    BY EmptyWellFormed DEF WellFormed
  <1> QED
    BY <1>1, EmptyWellFormed DEF CommandsInit, ContextStoreInit, StoreInvariant

\* An edit that keeps documents well formed and touches one context at most.
LEMMA EditKeeps ==
  ASSUME StoreInvariant, NEW p \in Shells, NEW d, NEW name \in ContextNames \cup {NoName},
         WellFormed(d), Edited(p, d, name),
         \A n \in ContextNames \ {name} : Entry(d, n) = Entry(loaded[p], n)
  PROVE  StoreInvariant'
  <1> USE DEF StoreInvariant, Edited, GoesTo
  <1>1. /\ file' = file /\ loaded' = loaded /\ temp' = temp
        /\ shell' = [shell EXCEPT ![p] = "write"]
        /\ doc' = [doc EXCEPT ![p] = d] /\ about' = [about EXCEPT ![p] = name]
    OBVIOUS
  <1>2. d \in Documents
    BY DEF WellFormed
  <1>3. /\ shell' \in [Shells -> {"idle", "edit", "write", "rename"}]
        /\ about' \in [Shells -> ContextNames \cup {NoName}]
        /\ doc' \in [Shells -> Documents]
    BY <1>1, <1>2
  <1>4. ASSUME NEW q \in Shells
        PROVE  /\ WellFormed(loaded'[q]) /\ WellFormed(doc'[q])
               /\ shell'[q] = "rename" => temp'[q] = "whole"
               /\ shell'[q] \in {"write", "rename"} =>
                    \A n \in ContextNames \ {about'[q]} : Entry(doc'[q], n) = Entry(loaded'[q], n)
    <2>1. CASE q = p
      BY <1>1, <2>1
    <2>2. CASE q # p
      BY <1>1, <2>2
    <2> QED
      BY <2>1, <2>2
  <1>5. WellFormed(file)'
    BY <1>1 DEF WellFormed
  <1>6. \A q \in Shells : WellFormed(loaded[q])' /\ WellFormed(doc[q])'
    BY <1>4 DEF WellFormed
  <1>7. \A q \in Shells : (shell[q] \in {"write", "rename"})' =>
          \A n \in ContextNames \ {about'[q]} : Entry(doc[q], n)' = Entry(loaded[q], n)'
    BY <1>4 DEF Entry
  <1> QED
    BY <1>1, <1>3, <1>4, <1>5, <1>6, <1>7 DEF Entry

LEMMA LoadKeeps ==
  ASSUME StoreInvariant, NEW p \in Shells, Load(p)
  PROVE  StoreInvariant'
  <1> USE DEF StoreInvariant, Load, GoesTo
  <1>1. file # Torn
    BY WellFormedWhole
  <1>2. /\ file' = file /\ doc' = doc /\ temp' = temp /\ about' = about
        /\ shell' = [shell EXCEPT ![p] = "edit"] /\ loaded' = [loaded EXCEPT ![p] = file]
    BY <1>1
  <1>3. file \in Documents
    BY DEF WellFormed
  <1>4. \A q \in Shells : WellFormed(loaded'[q]) /\ WellFormed(doc'[q])
    BY <1>2
  <1>5. WellFormed(file)' /\ \A q \in Shells : WellFormed(loaded[q])' /\ WellFormed(doc[q])'
    BY <1>2, <1>4 DEF WellFormed
  <1>6. \A q \in Shells : shell'[q] \in {"write", "rename"} => q # p /\ shell'[q] = shell[q]
    BY <1>2
  <1> QED
    BY <1>2, <1>3, <1>5, <1>6 DEF Entry

LEMMA ForgetsKeeps ==
  ASSUME StoreInvariant, NEW p \in Shells, Forgets(p), WellFormed(file)'
  PROVE  StoreInvariant'
  <1> USE DEF StoreInvariant, Forgets
  <1>1. EmptyFile \in Documents
    BY EmptyWellFormed DEF WellFormed
  <1>2. \A q \in Shells : WellFormed(loaded'[q]) /\ WellFormed(doc'[q])
    BY EmptyWellFormed
  <1>3. \A q \in Shells : WellFormed(loaded[q])' /\ WellFormed(doc[q])'
    BY <1>2 DEF WellFormed
  <1>4. \A q \in Shells : shell'[q] \in {"write", "rename"} => q # p /\ shell'[q] = shell[q]
    OBVIOUS
  <1> QED
    BY <1>1, <1>3, <1>4 DEF Entry

LEMMA StoreKept ==
  ASSUME StoreInvariant, ContextStoreNext \/ UNCHANGED contextVars
  PROVE  StoreInvariant'
  <1>1. ASSUME NEW p \in Shells, Load(p) PROVE StoreInvariant'
    BY <1>1, LoadKeeps
  <1>2. ASSUME NEW p \in Shells, RunUse(p) PROVE StoreInvariant'
    <2>1. PICK name \in ContextNames \cup {Swap} :
            CanUse(loaded[p], name) /\ Edited(p, UseContext(loaded[p], name), NoName)
      BY <1>2 DEF RunUse
    <2>2. /\ WellFormed(UseContext(loaded[p], name))
          /\ UseContext(loaded[p], name).contexts = loaded[p].contexts
      BY <2>1, UseKeeps DEF StoreInvariant
    <2> QED
      BY <2>1, <2>2, EditKeeps DEF Entry
  <1>3. ASSUME NEW p \in Shells, ContextAdd(p) PROVE StoreInvariant'
    <2>1. PICK name \in ContextNames, target \in Targets, use \in BOOLEAN :
            /\ use => CanUse(SetContext(loaded[p], name, target), name)
            /\ Edited(p, IF use THEN UseContext(SetContext(loaded[p], name, target), name)
                         ELSE SetContext(loaded[p], name, target), name)
      BY <1>3 DEF ContextAdd
    <2> DEFINE set == SetContext(loaded[p], name, target)
               d == IF use THEN UseContext(set, name) ELSE set
    <2>2. /\ WellFormed(set)
          /\ \A n \in ContextNames \ {name} : Entry(set, n) = Entry(loaded[p], n)
      BY SetKeeps DEF StoreInvariant
    <2>3. WellFormed(d) /\ d.contexts = set.contexts
      <3> HIDE DEF set
      <3>1. CASE use
        BY <2>1, <2>2, <3>1, UseKeeps DEF set
      <3>2. CASE ~use
        BY <2>2, <3>2
      <3> QED
        BY <3>1, <3>2
    <2>4. \A n \in ContextNames \ {name} : Entry(d, n) = Entry(loaded[p], n)
      <3> HIDE DEF d, set
      <3> QED
        BY <2>2, <2>3 DEF Entry
    <2>5. Edited(p, d, name)
      BY <2>1
    <2> HIDE DEF d
    <2> QED
      BY <2>3, <2>4, <2>5, EditKeeps
  <1>4. ASSUME NEW p \in Shells, ContextRemove(p) PROVE StoreInvariant'
    <2>1. PICK name \in DOMAIN loaded[p].contexts :
            Edited(p, RemoveContext(loaded[p], name), name)
      BY <1>4 DEF ContextRemove
    <2>2. name \in ContextNames
      <3>1. loaded[p] \in Documents
        BY DEF StoreInvariant, WellFormed
      <3> QED
        BY <3>1, DocumentShape
    <2> QED
      BY <2>1, <2>2, RemoveKeeps, EditKeeps DEF StoreInvariant
  <1>5. ASSUME NEW p \in Shells, WriteTemp(p) PROVE StoreInvariant'
    <2> USE <1>5 DEF StoreInvariant, WriteTemp, GoesTo
    <2>1. /\ file' = file /\ loaded' = loaded /\ doc' = doc /\ about' = about
          /\ shell' \in [Shells -> {"idle", "edit", "write", "rename"}]
          /\ temp' \in [Shells -> {"none", "part", "whole"}]
      OBVIOUS
    <2>2. \A q \in Shells :
            /\ shell'[q] = "rename" => temp'[q] = "whole"
            /\ shell'[q] \in {"write", "rename"} => shell[q] \in {"write", "rename"}
      OBVIOUS
    <2>3. WellFormed(file)' /\ \A q \in Shells : WellFormed(loaded[q])' /\ WellFormed(doc[q])'
      BY <2>1 DEF WellFormed
    <2> QED
      BY <2>1, <2>2, <2>3 DEF Entry
  <1>6. ASSUME NEW p \in Shells, RenameTemp(p) PROVE StoreInvariant'
    <2>1. file' = doc[p] /\ Forgets(p) /\ WellFormed(doc[p])
      BY <1>6 DEF RenameTemp, StoreInvariant
    <2>2. WellFormed(file)'
      BY <2>1 DEF WellFormed
    <2> QED
      BY <2>1, <2>2, ForgetsKeeps
  <1>7. ASSUME NEW p \in Shells, Fail(p) PROVE StoreInvariant'
    <2>1. WellFormed(file)'
      BY <1>7 DEF Fail, StoreInvariant, WellFormed
    <2> QED
      BY <1>7, <2>1, ForgetsKeeps DEF Fail
  <1>8. CASE UNCHANGED contextVars
    <2> USE <1>8 DEF StoreInvariant, contextVars
    <2>1. WellFormed(file)' /\ \A q \in Shells : WellFormed(loaded[q])' /\ WellFormed(doc[q])'
      BY DEF WellFormed
    <2> QED
      BY <2>1 DEF Entry
  <1> QED
    BY <1>1, <1>2, <1>3, <1>4, <1>5, <1>6, <1>7, <1>8 DEF ContextStoreNext, ContextStep

LEMMA StoreTypes ==
  ASSUME StoreInvariant, typed \in 0..MaxContextCommands PROVE ContextStoreTypeOK
  BY DEF StoreInvariant, ContextStoreTypeOK, WellFormed

LEMMA CommandsBounded ==
  ASSUME typed \in 0..MaxContextCommands, ContextStoreNext \/ UNCHANGED contextVars
  PROVE  typed' \in 0..MaxContextCommands
  BY ContextStoreAssumption
  DEF ContextStoreNext, ContextStep, contextVars, Load, RunUse, ContextAdd, ContextRemove, Edited,
      WriteTemp, RenameTemp, Fail

\* Whatever crashes and whichever processes save over each other, the context file is
\* whole and its two pointers name saved contexts (Save, Use, Remove).
THEOREM StoreCorrect == CommandsSpec => []StoreReadable
  <1>1. StoreInvariant => StoreReadable
    BY WellFormedWhole DEF StoreInvariant, StoreReadable, WellFormed
  <1>2. StoreInvariant /\ [CommandsNext]_commandVars => StoreInvariant'
    BY ContextSteps, StoreKept
  <1> QED
    BY StoreStart, <1>1, <1>2, PTL DEF CommandsSpec

\* A saved context changes only by a command told to change it, or by one that loaded
\* the file before another changed it: losing an update takes an overlap (Load, Save).
THEOREM LossCorrect == CommandsSpec => LossNeedsOverlap
  <1> DEFINE Overlap ==
        \A n \in ContextNames :
          Entry(file', n) # Entry(file, n) =>
            \E p \in Shells : /\ shell[p] = "rename" /\ shell'[p] = "idle"
                              /\ about[p] = n \/ Entry(loaded[p], n) # Entry(file, n)
  <1>1. StoreInvariant /\ [CommandsNext]_commandVars => StoreInvariant'
    BY ContextSteps, StoreKept
  <1>2. ASSUME StoreInvariant, [CommandsNext]_commandVars
        PROVE  [Overlap]_contextVars
    <2> SUFFICES ASSUME NEW n \in ContextNames, Entry(file', n) # Entry(file, n)
                 PROVE  \E p \in Shells :
                          /\ shell[p] = "rename" /\ shell'[p] = "idle"
                          /\ about[p] = n \/ Entry(loaded[p], n) # Entry(file, n)
      OBVIOUS
    <2>1. file' # file
      OBVIOUS
    <2>2. PICK p \in Shells : RenameTemp(p)
      BY <1>2, <2>1, ContextSteps
      DEF ContextStoreNext, ContextStep, contextVars, Load, RunUse, ContextAdd, ContextRemove,
          Edited, WriteTemp, Fail
    <2>3. shell[p] = "rename" /\ file' = doc[p] /\ shell'[p] = "idle"
      BY <1>2, <2>2 DEF RenameTemp, Forgets, StoreInvariant
    <2>4. about[p] # n => Entry(doc[p], n) = Entry(loaded[p], n)
      BY <1>2, <2>3 DEF StoreInvariant
    <2> QED
      BY <2>3, <2>4
  <1> QED
    BY StoreStart, <1>1, <1>2, PTL DEF CommandsSpec, LossNeedsOverlap

-----------------------------------------------------------------------------
(* The update check *)

LEMMA ReleaseTypes ==
  /\ Len(Releases) \in Nat /\ Running \in Tags
  /\ \A i \in 1..Len(Releases) : Releases[i] \in Tags
  BY UpdateCheckAssumption

\* The comparison of compareSemver is that of versions.
LEMMA OlderIsNewer ==
  ASSUME NEW v \in Tags, OlderThan(Running, v)
  PROVE  Newer(v)
  <1>1. v \in Nat \X Nat \X Nat /\ Running \in Nat \X Nat \X Nat
    BY ReleaseTypes DEF Tags, OlderThan
  <1>2. PICK i \in 1..3 : Running[i] < v[i] /\ \A j \in 1..(i - 1) : Running[j] = v[j]
    BY DEF OlderThan
  <1>3. CASE i = 1
    BY <1>1, <1>2, <1>3 DEF Newer
  <1>4. CASE i = 2
    <2>1. Running[1] = v[1]
      BY <1>2, <1>4
    <2> QED
      BY <1>1, <1>2, <1>4, <2>1 DEF Newer
  <1>5. CASE i = 3
    <2>1. Running[1] = v[1] /\ Running[2] = v[2]
      BY <1>2, <1>5
    <2> QED
      BY <1>1, <1>2, <1>5, <2>1 DEF Newer
  <1> QED
    BY <1>3, <1>4, <1>5

LEMMA HintIsNewer ==
  ASSUME \A v \in hints : Newer(v), NEW tag \in 0..Len(Releases), UpgradeHint(tag)
  PROVE  \A v \in hints' : Newer(v)
  BY ReleaseTypes, OlderIsNewer DEF UpgradeHint

LEMMA CheckStart == ASSUME CommandsInit PROVE CheckInvariant
  <1>1. NoCache \in CacheType
    BY ReleaseTypes DEF NoCache, CacheType
  <1>2. UpdateCheckInit
    BY DEF CommandsInit
  <1>3. CheckTypes
    <2>1. 1 \in 1..Len(Releases) /\ 0 \in 0..Len(Releases)
      BY ReleaseTypes, UpdateCheckAssumption
    <2>2. /\ version \in [Terminals -> {"idle", "fetch", "open", "write"}]
          /\ found \in [Terminals -> CacheType] /\ answer \in [Terminals -> 0..Len(Releases)]
      BY <1>1, <1>2, <2>1 DEF UpdateCheckInit
    <2>3. asked \in Seq(Nat)
      BY <1>2 DEF UpdateCheckInit
    <2> QED
      BY <1>1, <1>2, <2>1, <2>2, <2>3 DEF UpdateCheckInit, CheckTypes
  <1>4. Undisturbed
    BY <1>2 DEF UpdateCheckInit, Undisturbed
  <1>5. hints = {}
    BY <1>2 DEF UpdateCheckInit
  <1> QED
    BY <1>3, <1>4, <1>5 DEF CheckInvariant

LEMMA CheckTypesKept ==
  ASSUME CheckTypes, UpdateCheckNext \/ UNCHANGED checkVars
  PROVE  CheckTypes'
  <1> USE ReleaseTypes DEF CheckTypes
  <1>1. NoCache \in CacheType
    BY DEF NoCache, CacheType
  <1>2. \A p \in Terminals : CheckedNow(p) \in CacheType
    BY DEF CheckedNow, CacheType
  <1>3. ASSUME NEW p \in Terminals, ReadCache(p) PROVE CheckTypes'
    BY <1>3, <1>1 DEF ReadCache
  <1>4. ASSUME NEW p \in Terminals, FetchLatest(p) PROVE CheckTypes'
    BY <1>4 DEF FetchLatest
  <1>5. ASSUME NEW p \in Terminals, FetchFails(p) PROVE CheckTypes'
    BY <1>5, <1>1 DEF FetchFails, Idle
  <1>6. ASSUME NEW p \in Terminals, OpenCache(p) PROVE CheckTypes'
    BY <1>6, <1>1, <1>2 DEF OpenCache
  <1>7. ASSUME NEW p \in Terminals, WriteCache(p) PROVE CheckTypes'
    BY <1>7, <1>1 DEF WriteCache, Idle
  <1>8. ASSUME NEW p \in Terminals, WriteFails(p) PROVE CheckTypes'
    BY <1>8, <1>1 DEF WriteFails, Idle
  <1>9. CASE Tick \/ Publish \/ UNCHANGED checkVars
    BY <1>9 DEF Tick, Publish, checkVars
  <1> QED
    BY <1>3, <1>4, <1>5, <1>6, <1>7, <1>8, <1>9 DEF UpdateCheckNext, CheckStep

LEMMA HintsKept ==
  ASSUME CheckTypes, \A v \in hints : Newer(v), UpdateCheckNext \/ UNCHANGED checkVars
  PROVE  \A v \in hints' : Newer(v)
  <1>1. CASE UNCHANGED hints
    BY <1>1
  <1>2. ASSUME NEW tag \in 0..Len(Releases), UpgradeHint(tag)
        PROVE  \A v \in hints' : Newer(v)
    BY <1>2, HintIsNewer
  <1>3. checkFile.tag \in 0..Len(Releases)
        /\ \A p \in Terminals : found[p].tag \in 0..Len(Releases) /\ answer[p] \in 0..Len(Releases)
    BY DEF CheckTypes, CacheType
  <1> QED
    BY <1>1, <1>2, <1>3
    DEF UpdateCheckNext, CheckStep, ReadCache, FetchLatest, FetchFails, OpenCache, WriteCache,
        WriteFails, Tick, Publish, checkVars

\* An undisturbed step, of one command while all others are idle.
LEMMA UndisturbedKept ==
  ASSUME CheckTypes, Undisturbed, ~disturbed', UpdateCheckNext \/ UNCHANGED checkVars
  PROVE  Undisturbed'
  <1> USE DEF CheckTypes, CacheType, Undisturbed
  <1>1. Len(asked) \in Nat /\ \A i \in 1..Len(asked) : asked[i] \in Nat
    OBVIOUS
  <1>2. CheckInterval \in Nat
    BY UpdateCheckAssumption
  <1>3. ASSUME NEW p \in Terminals, ReadCache(p) PROVE Undisturbed'
    <2> USE <1>3 DEF ReadCache
    <2>1. \A q \in Terminals : version[q] = "idle"
      OBVIOUS
    <2>2. asked' = asked /\ clock' = clock /\ checkFile' = checkFile
      OBVIOUS
    <2>3. CASE Fresh(checkFile)
      BY <2>1, <2>2, <2>3
    <2>4. CASE ~Fresh(checkFile)
      <3>1. version' = [version EXCEPT ![p] = "fetch"]
        BY <2>4
      <3>2. ASSUME Len(asked) > 0
            PROVE  clock - asked[Len(asked)] >= CheckInterval
        <4> DEFINE last == asked[Len(asked)]
        <4>1. checkFile.ok /\ checkFile.at >= last
          BY <2>1, <3>2
        <4>2. ~(clock - checkFile.at < CheckInterval)
          BY <2>4, <4>1 DEF Fresh
        <4>3. last \in Nat /\ checkFile.at \in Nat
          BY <1>1, <3>2
        <4> HIDE DEF last
        <4>4. clock - last >= CheckInterval
          BY <1>2, <4>1, <4>2, <4>3
        <4> QED
          BY <4>4 DEF last
      <3> QED
        BY <2>1, <2>2, <3>1, <3>2
    <2> QED
      BY <2>3, <2>4
  <1>4. ASSUME NEW p \in Terminals, FetchLatest(p) PROVE Undisturbed'
    <2> USE <1>4 DEF FetchLatest
    <2>1. /\ Len(asked') = Len(asked) + 1 /\ asked'[Len(asked')] = clock
          /\ \A i \in 1..Len(asked) : asked'[i] = asked[i]
      BY <1>1
    <2>2. /\ version' = [version EXCEPT ![p] = "open"] /\ clock' = clock
          /\ \A q \in Terminals : q # p => version[q] = "idle"
      OBVIOUS
    <2>3. \A i \in 2..Len(asked') : asked'[i] - asked'[i - 1] >= CheckInterval
      <3> SUFFICES ASSUME NEW i \in 2..Len(asked')
                   PROVE  asked'[i] - asked'[i - 1] >= CheckInterval
        OBVIOUS
      <3>1. CASE i = Len(asked')
        BY <1>1, <2>1, <3>1
      <3>2. CASE i # Len(asked')
        <4>1. i \in 2..Len(asked) /\ i \in 1..Len(asked) /\ i - 1 \in 1..Len(asked)
          BY <1>1, <2>1, <3>2
        <4>2. asked'[i] = asked[i] /\ asked'[i - 1] = asked[i - 1]
          BY <2>1, <4>1
        <4> QED
          BY <4>1, <4>2
      <3> QED
        BY <3>1, <3>2
    <2> QED
      BY <1>1, <2>1, <2>2, <2>3
  <1>5. ASSUME NEW p \in Terminals, OpenCache(p) PROVE Undisturbed'
    <2> USE <1>5 DEF OpenCache
    <2>1. found'[p].ok /\ found'[p].at = clock
      BY DEF CheckedNow
    <2>2. /\ version' = [version EXCEPT ![p] = "write"] /\ clock' = clock /\ asked' = asked
          /\ \A q \in Terminals : q # p => version[q] = "idle"
      OBVIOUS
    <2> QED
      BY <1>1, <2>1, <2>2
  <1>6. ASSUME NEW p \in Terminals, WriteCache(p) PROVE Undisturbed'
    <2> USE <1>6 DEF WriteCache, Idle
    <2>1. /\ version' = [version EXCEPT ![p] = "idle"] /\ clock' = clock /\ asked' = asked
          /\ checkFile' = found[p]
          /\ \A q \in Terminals : q # p => version[q] = "idle"
      OBVIOUS
    <2> QED
      BY <1>1, <2>1
  <1>7. CASE Tick
    BY <1>1, <1>2, <1>7 DEF Tick
  <1>8. CASE Publish \/ UNCHANGED checkVars
    BY <1>8 DEF Publish, checkVars
  <1> QED
    BY <1>3, <1>4, <1>5, <1>6, <1>7, <1>8
    DEF UpdateCheckNext, CheckStep, FetchFails, WriteFails

LEMMA CheckKept ==
  ASSUME CheckInvariant, UpdateCheckNext \/ UNCHANGED checkVars
  PROVE  CheckInvariant'
  <1>1. CheckTypes' /\ (\A v \in hints : Newer(v))'
    BY CheckTypesKept, HintsKept DEF CheckInvariant, Newer
  <1>2. disturbed => disturbed'
    BY DEF CheckInvariant, CheckTypes, UpdateCheckNext, CheckStep, ReadCache, FetchLatest, FetchFails,
           OpenCache, WriteCache, WriteFails, Tick, Publish, checkVars
  <1>3. ~disturbed' => Undisturbed'
    BY <1>2, UndisturbedKept DEF CheckInvariant
  <1> QED
    BY <1>1, <1>3 DEF CheckInvariant

LEMMA BoundsStart == ASSUME CommandsInit PROVE Dated /\ QuestionsCounted
  <1>1. /\ clock = 0 /\ published = 1 /\ checkFile = NoCache /\ checks = 0 /\ asked = <<>>
        /\ version = [p \in Terminals |-> "idle"] /\ found = [p \in Terminals |-> NoCache]
        /\ answer = [p \in Terminals |-> 0]
    BY DEF CommandsInit, UpdateCheckInit
  <1>2. Fetching = {}
    BY <1>1 DEF Fetching
  <1>3. Len(asked) = 0 /\ IsFiniteSet({}) /\ Cardinality({}) = 0
    BY <1>1, FS_EmptySet
  <1>4. Dated
    BY <1>1, UpdateCheckAssumption DEF Dated, NoCache
  <1>5. QuestionsCounted
    BY <1>1, <1>2, <1>3, UpdateCheckAssumption DEF QuestionsCounted
  <1> QED
    BY <1>4, <1>5

LEMMA DatedKept ==
  ASSUME CheckTypes, Dated, UpdateCheckNext \/ UNCHANGED checkVars PROVE Dated'
  <1> USE UpdateCheckAssumption DEF CheckTypes, CacheType, Dated
  <1>1. ASSUME NEW p \in Terminals, ReadCache(p) PROVE Dated'
    BY <1>1 DEF ReadCache
  <1>2. ASSUME NEW p \in Terminals, FetchLatest(p) PROVE Dated'
    BY <1>2 DEF FetchLatest
  <1>3. ASSUME NEW p \in Terminals, Idle(p), UNCHANGED <<clock, published>>,
               checkFile' = checkFile \/ checkFile' = found[p]
        PROVE  Dated'
    BY <1>3 DEF Idle, NoCache
  <1>4. ASSUME NEW p \in Terminals, OpenCache(p) PROVE Dated'
    BY <1>4 DEF OpenCache, CheckedNow, NoCache
  <1>5. CASE Tick \/ Publish \/ UNCHANGED checkVars
    BY <1>5 DEF Tick, Publish, checkVars
  <1> QED
    BY <1>1, <1>2, <1>3, <1>4, <1>5
    DEF UpdateCheckNext, CheckStep, FetchFails, WriteCache, WriteFails

LEMMA QuestionsKept ==
  ASSUME CheckTypes, QuestionsCounted, UpdateCheckNext \/ UNCHANGED checkVars
  PROVE  QuestionsCounted'
  <1> USE DEF CheckTypes
  <1>1. /\ checks \in 0..MaxChecks /\ IsFiniteSet(Fetching)
        /\ Len(asked) + Cardinality(Fetching) <= checks
        /\ Len(asked) \in Nat /\ Cardinality(Fetching) \in Nat /\ MaxChecks \in Nat
    BY UpdateCheckAssumption, FS_CardinalityType DEF QuestionsCounted
  <1>2. CASE Fetching' = Fetching /\ UNCHANGED asked
             /\ (checks' = checks \/ (checks < MaxChecks /\ checks' = checks + 1))
    BY <1>1, <1>2 DEF QuestionsCounted
  <1>3. ASSUME NEW p \in Terminals, ReadCache(p) PROVE QuestionsCounted'
    <2>1. checks < MaxChecks /\ checks' = checks + 1 /\ asked' = asked /\ p \notin Fetching
      BY <1>3 DEF ReadCache, Fetching
    <2>2. CASE Fetching' = Fetching
      BY <1>2, <2>1, <2>2
    <2>3. CASE Fetching' # Fetching
      <3>1. Fetching' = Fetching \cup {p}
        BY <1>3, <2>3 DEF ReadCache, Fetching
      <3>2. /\ IsFiniteSet(Fetching \cup {p})
            /\ Cardinality(Fetching \cup {p}) = Cardinality(Fetching) + 1
        BY <1>1, <2>1, FS_AddElement
      <3> QED
        BY <1>1, <2>1, <3>1, <3>2 DEF QuestionsCounted
    <2> QED
      BY <2>2, <2>3
  <1>4. ASSUME NEW p \in Terminals, FetchLatest(p) \/ FetchFails(p) PROVE QuestionsCounted'
    <2>1. checks' = checks /\ Len(asked') = Len(asked) + 1 /\ p \in Fetching
      BY <1>4 DEF FetchLatest, FetchFails, Fetching
    <2>2. Fetching' = Fetching \ {p}
      BY <1>4 DEF FetchLatest, FetchFails, Idle, Fetching
    <2>3. /\ IsFiniteSet(Fetching \ {p})
          /\ Cardinality(Fetching \ {p}) = Cardinality(Fetching) - 1
      BY <1>1, <2>1, FS_RemoveElement
    <2> QED
      BY <1>1, <2>1, <2>2, <2>3 DEF QuestionsCounted
  <1>5. ASSUME NEW p \in Terminals, OpenCache(p) \/ WriteCache(p) \/ WriteFails(p)
        PROVE  QuestionsCounted'
    <2>1. checks' = checks /\ asked' = asked /\ Fetching' = Fetching
      BY <1>5 DEF OpenCache, WriteCache, WriteFails, Idle, Fetching
    <2> QED
      BY <1>2, <2>1
  <1>6. CASE Tick \/ Publish \/ UNCHANGED checkVars
    <2>1. checks' = checks /\ asked' = asked /\ Fetching' = Fetching
      BY <1>6 DEF Tick, Publish, checkVars, Fetching
    <2> QED
      BY <1>2, <2>1
  <1> QED
    BY <1>3, <1>4, <1>5, <1>6 DEF UpdateCheckNext, CheckStep

LEMMA CheckTyped ==
  ASSUME CheckTypes, Dated, QuestionsCounted PROVE UpdateCheckTypeOK
  <1>1. Len(asked) \in Nat /\ Cardinality(Fetching) \in Nat
    BY FS_CardinalityType DEF CheckTypes, QuestionsCounted
  <1>2. Len(asked) <= checks
    BY <1>1 DEF QuestionsCounted
  <1>3. clock \in 0..MaxClock /\ published \in 1..Len(Releases)
    BY UpdateCheckAssumption DEF CheckTypes, Dated
  <1>4. checkFile.ok \in BOOLEAN /\ checkFile.at \in 0..clock /\ checkFile.tag \in 0..published
    BY <1>3, ReleaseTypes DEF CheckTypes, CacheType, Dated
  <1>5. \A p \in Terminals : answer[p] \in 0..published /\ found[p].tag \in 0..published
    BY <1>3, ReleaseTypes DEF CheckTypes, CacheType, Dated
  <1> QED
    BY <1>2, <1>3, <1>4, <1>5 DEF UpdateCheckTypeOK, CheckTypes, QuestionsCounted

\* While every call and write succeeds and commands do not overlap, GitHub is asked at
\* most once per interval, whatever the interval, the releases and the number of
\* processes; and every version a hint names is newer than the binary (LatestTag,
\* writeCache, compareSemver).
THEOREM CheckCorrect == CommandsSpec => []UpdateCheckKeepsPromise
  <1>1. CheckInvariant => UpdateCheckKeepsPromise
    BY DEF CheckInvariant, Undisturbed, UpdateCheckKeepsPromise, Newer
  <1>2. CheckInvariant /\ [CommandsNext]_commandVars => CheckInvariant'
    BY CheckSteps, CheckKept
  <1> QED
    BY CheckStart, <1>1, <1>2, PTL DEF CommandsSpec

-----------------------------------------------------------------------------
(* The health gate: sums of readings *)

\* The recursion of SumOf has a solution, and all readings of the same nodes are summed
\* in the same order.
LEMMA SumsExist ==
  ASSUME NEW D, IsFiniteSet(D)
  PROVE  LET n == Cardinality(D)
         IN \E order \in [1..n -> D] :
              /\ \A m \in D : \E i \in 1..n : order[i] = m
              /\ \A r \in [D -> Int] :
                   \E sum \in [0..n -> Int] :
                     /\ sum[0] = 0 /\ SumOf(r) = sum[n]
                     /\ \A i \in 1..n : sum[i] = sum[i - 1] + r[order[i]]
  <1> DEFINE n == Cardinality(D)
             Onto(f) == \A m \in D : \E i \in 1..n : f[i] = m
             order == CHOOSE f \in [1..n -> D] : Onto(f)
  <1>1. n \in Nat
    BY FS_CardinalityType
  <1>2. \E f \in [1..n -> D] : Onto(f)
    <2>1. PICK f : f \in Bijection(1..n, D)
      BY FS_CardinalityType DEF ExistsBijection
    <2> QED
      BY <2>1 DEF Bijection, Surjection
  <1>3. order \in [1..n -> D] /\ Onto(order)
    <2> HIDE DEF Onto
    <2> QED
      BY <1>2
  <1>4. ASSUME NEW r \in [D -> Int]
        PROVE  \E sum \in [0..n -> Int] :
                 /\ sum[0] = 0 /\ SumOf(r) = sum[n]
                 /\ \A i \in 1..n : sum[i] = sum[i - 1] + r[order[i]]
    <2> DEFINE Body(f) == [i \in 0..n |-> IF i = 0 THEN 0 ELSE f[i - 1] + r[order[i]]]
               sum == CHOOSE f : f = Body(f)
               step == [i \in 1..n |-> [x \in Int |-> x + r[order[i]]]]
    <2>1. \A i \in 1..n : order[i] \in D /\ r[order[i]] \in Int
      BY <1>3
    <2>2. step \in [1..n -> [Int -> Int]] /\ 0 \in Int
      <3> HIDE DEF order
      <3>1. \A i \in 1..n : \A x \in Int : x + r[order[i]] \in Int
        BY <2>1
      <3> QED
        BY <3>1
    <2>3. PICK f \in [0..n -> Int] :
            f = [i \in 0..n |-> IF i = 0 THEN 0 ELSE step[i][f[i - 1]]]
      <3> DEFINE States == Int
                 zero == 0
      <3>1. n \in Nat /\ zero \in States /\ step \in [1..n -> [States -> States]]
        BY <1>1, <2>2
      <3> HIDE DEF step, n, States, zero
      <3>2. \E h \in [0..n -> States] :
              h = [i \in 0..n |-> IF i = 0 THEN zero ELSE step[i][h[i - 1]]]
        BY <3>1, RecursionSolved
      <3> QED
        BY <3>2 DEF States, zero
    <2>4. f = Body(f)
      <3> HIDE DEF n, order
      <3>1. \A i \in 0..n : i = 0 \/ (i \in 1..n /\ i - 1 \in 0..n)
        BY <1>1
      <3>2. \A i \in 0..n : f[i] = IF i = 0 THEN 0 ELSE f[i - 1] + r[order[i]]
        BY <2>1, <2>3, <3>1
      <3> QED
        BY <2>3, <3>2
    <2>5. sum = Body(sum)
      <3> HIDE DEF Body
      <3> QED
        BY <2>4
    <2>6. SumOf(r) = sum[n]
      <3>1. DOMAIN r = D
        OBVIOUS
      <3> QED
        BY <3>1 DEF SumOf
    <2> HIDE DEF sum, n, order
    <2>7. sum[0] = 0
      <3>1. Body(sum)[0] = 0
        BY <1>1
      <3> QED
        BY <2>5, <3>1
    <2>8. \A i \in 1..n : sum[i] = sum[i - 1] + r[order[i]]
      <3>1. \A i \in 1..n : Body(sum)[i] = sum[i - 1] + r[order[i]]
        BY <1>1
      <3> HIDE DEF Body
      <3> QED
        BY <2>5, <3>1
    <2>9. DOMAIN sum = 0..n /\ sum = [i \in 0..n |-> sum[i]]
      <3>1. DOMAIN Body(sum) = 0..n /\ Body(sum) = [i \in 0..n |-> Body(sum)[i]]
        OBVIOUS
      <3> HIDE DEF Body
      <3> QED
        BY <2>5, <3>1
    <2>10. \A i \in 0..n : sum[i] \in Int
      <3> DEFINE T == {i \in Nat : i <= n => sum[i] \in Int}
      <3>1. 0 \in T
        BY <2>7
      <3>2. \A i \in T : i + 1 \in T
        <4> SUFFICES ASSUME NEW i \in T, i + 1 <= n PROVE sum[i + 1] \in Int
          OBVIOUS
        <4>1. sum[i] \in Int /\ i + 1 \in 1..n /\ (i + 1) - 1 = i
          BY <1>1
        <4>2. sum[i + 1] = sum[i] + r[order[i + 1]]
          BY <2>8, <4>1
        <4> QED
          BY <2>1, <4>1, <4>2
      <3>3. T \in SUBSET Nat
        OBVIOUS
      <3> HIDE DEF T
      <3>4. T = Nat
        BY <3>1, <3>2, <3>3, NatSet
      <3>5. \A i \in 0..n : i \in T /\ i <= n
        BY <1>1, <3>4
      <3> QED
        BY <3>5 DEF T
    <2>11. sum \in [0..n -> Int]
      BY <2>9, <2>10
    <2> QED
      BY <2>6, <2>7, <2>8, <2>11
  <1> HIDE DEF order
  <1> QED
    BY <1>3, <1>4

\* Readings of at most k add up to at most k a node.
LEMMA SumBounded ==
  ASSUME NEW D, IsFiniteSet(D), NEW r \in [D -> Int], NEW k \in Int, \A m \in D : r[m] <= k
  PROVE  SumOf(r) \in Int /\ SumOf(r) <= k * Cardinality(D)
  <1> DEFINE n == Cardinality(D)
  <1>1. n \in Nat
    BY FS_CardinalityType
  <1>2. PICK order \in [1..n -> D] :
          \A q \in [D -> Int] :
            \E sum \in [0..n -> Int] :
              /\ sum[0] = 0 /\ SumOf(q) = sum[n]
              /\ \A i \in 1..n : sum[i] = sum[i - 1] + q[order[i]]
    BY SumsExist
  <1>3. PICK sum \in [0..n -> Int] :
          /\ sum[0] = 0 /\ SumOf(r) = sum[n]
          /\ \A i \in 1..n : sum[i] = sum[i - 1] + r[order[i]]
    BY <1>2
  <1> HIDE DEF n
  <1> DEFINE T == {i \in Nat : i <= n => sum[i] <= k * i}
  <1>4. 0 \in T
    BY <1>3
  <1>5. \A i \in T : i + 1 \in T
    <2> SUFFICES ASSUME NEW i \in T, i + 1 <= n PROVE sum[i + 1] <= k * (i + 1)
      OBVIOUS
    <2>1. i \in 0..n /\ i + 1 \in 1..n /\ (i + 1) - 1 = i /\ sum[i] <= k * i /\ i \in Nat
      BY <1>1
    <2>2. sum[i + 1] = sum[i] + r[order[i + 1]] /\ r[order[i + 1]] <= k
      BY <1>2, <1>3, <2>1
    <2>3. sum[i] \in Int /\ r[order[i + 1]] \in Int
      BY <1>2, <1>3, <2>1
    <2>4. \A x, y \in Int : x <= k * i /\ y <= k => x + y <= k * (i + 1)
      BY <2>1
    <2> QED
      BY <2>1, <2>2, <2>3, <2>4
  <1>6. T \in SUBSET Nat
    OBVIOUS
  <1> HIDE DEF T
  <1>7. T = Nat
    BY <1>4, <1>5, <1>6, NatSet
  <1>8. n \in T /\ n \in 0..n
    BY <1>1, <1>7
  <1>9. sum[n] <= k * n /\ sum[n] \in Int
    BY <1>1, <1>3, <1>8 DEF T
  <1> QED
    BY <1>3, <1>9 DEF n

Combined(b, c, e, d) == [m \in DOMAIN b |-> b[m] + e * c[m] + d]

\* Sums are linear.
LEMMA SumLinear ==
  ASSUME NEW D, IsFiniteSet(D), NEW b \in [D -> Int], NEW c \in [D -> Int],
         NEW e \in Int, NEW d \in Int
  PROVE  /\ SumOf(b) \in Int /\ SumOf(c) \in Int
         /\ SumOf(Combined(b, c, e, d)) = SumOf(b) + e * SumOf(c) + d * Cardinality(D)
  <1> DEFINE a == Combined(b, c, e, d)
             n == Cardinality(D)
             Totals(order, q, sum) ==
               /\ sum[0] = 0 /\ SumOf(q) = sum[n]
               /\ \A i \in 1..n : sum[i] = sum[i - 1] + q[order[i]]
  <1>1. n \in Nat
    BY FS_CardinalityType
  <1>2. PICK order \in [1..n -> D] : \A q \in [D -> Int] : \E sum \in [0..n -> Int] : Totals(order, q, sum)
    BY SumsExist
  <1>0. a \in [D -> Int] /\ \A m \in D : a[m] = b[m] + e * c[m] + d
    <2>1. \A i, j \in Int : i + e * j + d \in Int
      OBVIOUS
    <2> QED
      BY <2>1 DEF Combined
  <1> HIDE DEF a, n, Totals
  <1>3. PICK x \in [0..n -> Int] : Totals(order, a, x)
    BY <1>0, <1>2
  <1>4. PICK y \in [0..n -> Int] : Totals(order, b, y)
    BY <1>2
  <1>5. PICK z \in [0..n -> Int] : Totals(order, c, z)
    BY <1>2
  <1> DEFINE Law(i) == x[i] = y[i] + e * z[i] + d * i
             T == {i \in Nat : i <= n => Law(i)}
  <1>6. 0 \in T
    BY <1>3, <1>4, <1>5 DEF Totals
  <1> HIDE DEF Law
  <1>7. \A i \in T : i + 1 \in T
    <2> SUFFICES ASSUME NEW i \in T, i + 1 <= n PROVE Law(i + 1)
      OBVIOUS
    <2>1. /\ i \in 0..n /\ i + 1 \in 1..n /\ (i + 1) - 1 = i /\ i \in Nat
          /\ x[i] = y[i] + e * z[i] + d * i
      BY <1>1 DEF Law
    <2> DEFINE m == order[i + 1]
    <2>2. m \in D
      BY <1>2, <2>1
    <2>3. x[i + 1] = x[i] + a[m] /\ y[i + 1] = y[i] + b[m] /\ z[i + 1] = z[i] + c[m]
      BY <1>3, <1>4, <1>5, <2>1 DEF Totals
    <2>4. x[i] \in Int /\ y[i] \in Int /\ z[i] \in Int /\ b[m] \in Int /\ c[m] \in Int
      BY <1>3, <1>4, <1>5, <2>1, <2>2
    <2>5. a[m] = b[m] + e * c[m] + d
      BY <1>0, <2>2
    <2> HIDE DEF m
    <2>6. x[i + 1] = (y[i] + e * z[i] + d * i) + (b[m] + e * c[m] + d)
      BY <2>1, <2>3, <2>5
    <2>7. x[i + 1] = (y[i] + b[m]) + e * (z[i] + c[m]) + d * (i + 1)
      <3>1. PICK p \in Int : p = y[i]
        BY <2>4
      <3>2. PICK q \in Int : q = z[i]
        BY <2>4
      <3>3. PICK s \in Int : s = b[m]
        BY <2>4
      <3>4. PICK t \in Int : t = c[m]
        BY <2>4
      <3>5. (p + e * q + d * i) + (s + e * t + d) = (p + s) + e * (q + t) + d * (i + 1)
        BY <2>1
      <3> QED
        BY <2>6, <3>1, <3>2, <3>3, <3>4, <3>5
    <2> QED
      BY <2>3, <2>7 DEF Law
  <1>8. T \in SUBSET Nat
    OBVIOUS
  <1> HIDE DEF T
  <1>9. T = Nat
    BY <1>6, <1>7, <1>8, NatSet
  <1>10. n \in T /\ n \in 0..n
    BY <1>1, <1>9
  <1>11. x[n] = y[n] + e * z[n] + d * n /\ x[n] \in Int /\ y[n] \in Int /\ z[n] \in Int
    BY <1>1, <1>3, <1>4, <1>5, <1>10 DEF T, Law
  <1>12. SumOf(a) = x[n] /\ SumOf(b) = y[n] /\ SumOf(c) = z[n]
    BY <1>3, <1>4, <1>5 DEF Totals
  <1> QED
    BY <1>11, <1>12 DEF n, a

\* Readings that differ by at most 25 do not spread by more.
LEMMA LittleSpread ==
  ASSUME NEW D, IsFiniteSet(D), NEW r \in [D -> Int], NEW lo \in Int,
         \A m \in D : lo <= r[m] /\ r[m] <= lo + 25
  PROVE  ~SpreadAbove(r, 25)
  <1> DEFINE n == Cardinality(D)
             b == [m \in D |-> r[m] - lo]
             squares == [m \in D |-> b[m] * b[m]]
             all == [m \in D |-> r[m] * r[m]]
  <1>1. n \in Nat
    BY FS_CardinalityType
  <1>2. b \in [D -> Int] /\ \A m \in D : b[m] = r[m] - lo /\ 0 <= b[m] /\ b[m] <= 25
    OBVIOUS
  <1>3. \A i, j \in Int : i * i \in Int /\ i * j \in Int /\ i + j \in Int
    OBVIOUS
  <1>4. squares \in [D -> Int] /\ \A m \in D : squares[m] = b[m] * b[m]
    <2> HIDE DEF b
    <2> QED
      BY <1>2, <1>3
  <1>5. all \in [D -> Int] /\ \A m \in D : all[m] = r[m] * r[m]
    BY <1>3
  <1>6. \A m \in D : squares[m] <= 625
    <2>1. \A i \in Int : 0 <= i /\ i <= 25 => i * i <= 25 * 25
      OBVIOUS
    <2> HIDE DEF b, squares
    <2>2. \A m \in D : b[m] \in Int
      BY <1>2
    <2>3. \A m \in D : b[m] * b[m] <= 25 * 25
      BY <1>2, <2>1, <2>2, Zenon
    <2> QED
      BY <1>4, <2>3
  <1>7. \A m \in D : all[m] = squares[m] + (2 * lo) * b[m] + lo * lo
    <2>1. \A i, j \in Int : i = j - lo => j * j = i * i + (2 * lo) * i + lo * lo
      OBVIOUS
    <2> HIDE DEF b, squares, all
    <2> QED
      BY <1>2, <1>4, <1>5, <2>1
  <1>8. \A m \in D : r[m] = b[m] + 0 * b[m] + lo
    <2>1. \A i, j \in Int : i = j - lo => j = i + 0 * i + lo
      OBVIOUS
    <2> HIDE DEF b
    <2> QED
      BY <1>2, <2>1
  <1> HIDE DEF b, squares, all
  <1>9. SumOf(squares) \in Int /\ SumOf(squares) <= 625 * n
    BY <1>4, <1>6, SumBounded
  <1>10. /\ SumOf(all) \in Int /\ SumOf(b) \in Int
         /\ SumOf(all) = SumOf(squares) + (2 * lo) * SumOf(b) + (lo * lo) * n
    <2> DEFINE e == 2 * lo
               d == lo * lo
    <2>1. e \in Int /\ d \in Int /\ \A m \in D : all[m] = squares[m] + e * b[m] + d
      BY <1>3, <1>7
    <2> HIDE DEF e, d
    <2>2. all = Combined(squares, b, e, d)
      BY <1>4, <1>5, <2>1 DEF Combined
    <2>3. /\ SumOf(squares) \in Int /\ SumOf(b) \in Int
          /\ SumOf(all) = SumOf(squares) + e * SumOf(b) + d * n
      BY <1>2, <1>4, <2>1, <2>2, SumLinear
    <2>4. SumOf(squares) + e * SumOf(b) + d * n \in Int
      <3> HIDE DEF n
      <3> QED
        BY <1>1, <2>1, <2>3
    <2> QED
      BY <2>3, <2>4 DEF e, d
  <1>11. SumOf(r) \in Int /\ SumOf(r) = SumOf(b) + 0 * SumOf(b) + lo * n
    <2> DEFINE zero == 0
    <2>1. zero \in Int /\ \A m \in D : r[m] = b[m] + zero * b[m] + lo
      BY <1>8
    <2> HIDE DEF zero
    <2>2. r = Combined(b, b, zero, lo)
      BY <1>2, <2>1 DEF Combined
    <2>3. SumOf(r) = SumOf(b) + zero * SumOf(b) + lo * n
      <3>1. b \in [D -> Int] /\ zero \in Int /\ lo \in Int
        BY <1>2, <2>1
      <3>2. SumOf(Combined(b, b, zero, lo)) = SumOf(b) + zero * SumOf(b) + lo * Cardinality(D)
        BY <3>1, SumLinear
      <3> QED
        BY <2>2, <3>2
    <2>4. SumOf(b) + 0 * SumOf(b) + lo * n \in Int
      <3> HIDE DEF n
      <3> QED
        BY <1>1, <1>10
    <2> QED
      BY <2>3, <2>4 DEF zero
  <1>12. n * SumOf(all) - SumOf(r) * SumOf(r) <= 25 * 25 * n * n
    <2> HIDE DEF n
    <2>1. PICK s \in Int : s = SumOf(squares)
      BY <1>9
    <2>2. PICK t \in Int : t = SumOf(b)
      BY <1>10
    <2>3. SumOf(all) = s + (2 * lo) * t + (lo * lo) * n /\ SumOf(r) = t + lo * n
      BY <1>1, <1>10, <1>11, <2>1, <2>2
    <2>4. n * (s + (2 * lo) * t + (lo * lo) * n) - (t + lo * n) * (t + lo * n) = n * s - t * t
      BY <1>1
    <2>5. t * t >= 0 /\ n * s <= n * (625 * n)
      BY <1>1, <1>9, <2>1
    <2>6. n * s - t * t <= 25 * 25 * n * n
      <3>1. n * (625 * n) = 25 * 25 * n * n
        BY <1>1
      <3>2. n * s \in Int /\ t * t \in Int /\ n * (625 * n) \in Int
        BY <1>1
      <3> QED
        BY <2>5, <3>1, <3>2
    <2> QED
      BY <2>3, <2>4, <2>6
  <1>13. DOMAIN r = D /\ SumOfSquares(r) = SumOf(all)
    BY DEF SumOfSquares, all
  <1>14. n * SumOf(all) - SumOf(r) * SumOf(r) \in Int /\ 25 * 25 * n * n \in Int
    <2> HIDE DEF n
    <2> QED
      BY <1>1, <1>10, <1>11
  <1>15. ~(n * SumOf(all) - SumOf(r) * SumOf(r) > 25 * 25 * n * n)
    <2> HIDE DEF n
    <2> QED
      BY <1>12, <1>14
  <1> QED
    BY <1>13, <1>15 DEF SpreadAbove

\* An even and calm reading passes both checks of the CPU.
LEMMA CalmPasses ==
  ASSUME NEW D, IsFiniteSet(D), D # {}, NEW r \in [D -> 0..100],
         \A m \in D : r[m] < 70, \A m, o \in D : r[m] - r[o] <= 25
  PROVE  CapacityVerdict(r) = "PASS" /\ BalanceVerdict(r) = "PASS"
  <1>1. r \in [D -> Int] /\ DOMAIN r = D
    OBVIOUS
  <1>2. \A m \in D : r[m] <= 70
    OBVIOUS
  <1>3. SumOf(r) <= 70 * Cardinality(D)
    BY <1>1, <1>2, SumBounded
  <1>4. HeadroomAtLeast(r, 30)
    BY <1>1, <1>3 DEF HeadroomAtLeast
  <1>5. ~PeakAtLeast(r, 85) /\ ~PeakAtLeast(r, 81)
    BY <1>1 DEF PeakAtLeast
  <1>6. ~SpreadAbove(r, 25)
    <2> DEFINE T == {r[m] : m \in D}
    <2>1. T \in SUBSET Nat /\ \E x \in T : TRUE
      OBVIOUS
    <2>2. PICK lo \in T : \A k \in T : lo <= k
      BY <2>1, LeastNatural
    <2>3. PICK o \in D : lo = r[o]
      BY <2>2
    <2>4. lo \in Int /\ \A m \in D : lo <= r[m] /\ r[m] <= lo + 25
      <3>1. \A m \in D : r[m] \in T
        OBVIOUS
      <3> QED
        BY <2>2, <2>3, <3>1
    <2> QED
      BY <1>1, <2>4, LittleSpread
  <1> QED
    BY <1>1, <1>4, <1>5, <1>6 DEF CapacityVerdict, BalanceVerdict

\* Balance never passes what capacity fails.
LEMMA VerdictsAgree ==
  ASSUME NEW D, IsFiniteSet(D), NEW r \in [D -> 0..100], BalanceVerdict(r) = "PASS"
  PROVE  CapacityVerdict(r) # "FAIL"
  <1>1. r \in [D -> Int] /\ DOMAIN r = D
    OBVIOUS
  <1>2. D # {} /\ \A m \in D : r[m] <= 85
    BY <1>1 DEF BalanceVerdict, PeakAtLeast
  <1>3. SumOf(r) <= 85 * Cardinality(D)
    BY <1>1, <1>2, SumBounded
  <1>4. HeadroomAtLeast(r, 15)
    BY <1>1, <1>3 DEF HeadroomAtLeast
  <1>5. ~PeakAtLeast(r, 95)
    BY <1>1, <1>2 DEF PeakAtLeast
  <1> QED
    BY <1>4, <1>5 DEF CapacityVerdict

-----------------------------------------------------------------------------
(* The health gate: results *)

LEMMA HealthSteps ==
  ASSUME [CommandsNext]_commandVars
  PROVE  HealthChecksNext \/ UNCHANGED healthVars
  BY DEF CommandsNext, RunContext, RunVersion, RunClusterList, RunStatusCommand,
         RunNodegroupScale, RunHealthCheck, RunUpgradeCheck, Finished, commandVars

\* A result that a check can give, and not the absence of one.
Given(result) ==
  /\ result \in [status : {"PENDING", "PASS", "WARN", "FAIL"}, blocking : BOOLEAN,
                 skipped : BOOLEAN]
  /\ result # Pending

LEMMA ResultGiven ==
  ASSUME NEW status \in {"PASS", "WARN", "FAIL"}, NEW blocking \in BOOLEAN
  PROVE  /\ Given(Result(status, blocking)) /\ Result(status, blocking).blocking = blocking
         /\ ~Result(status, blocking).skipped /\ Result(status, blocking).status = status
  BY DEF Given, Result, Pending

LEMMA SkipGiven == Given(Skip) /\ ~Skip.blocking /\ Skip.skipped
  BY DEF Given, Skip, Pending

LEMMA CallCounted ==
  ASSUME HealthChecksTypeOK, drift' = drift, CallFails \/ CallsAnswer
  PROVE  /\ healthFaults' \in 0..(MaxTrouble - drift')
         /\ healthFaults' = 0 => healthFaults = 0 /\ CallsAnswer
  BY HealthChecksAssumption DEF HealthChecksTypeOK, CallFails, CallsAnswer

LEMMA NodeVerdictStatus ==
  ASSUME NEW described PROVE NodeVerdict(described) \in {"PASS", "WARN", "FAIL"}
  BY DEF NodeVerdict

LEMMA SnapshotVerdictStatus ==
  ASSUME NEW r PROVE CapacityVerdict(r) \in {"PASS", "WARN", "FAIL"}
                     /\ BalanceVerdict(r) \in {"PASS", "WARN", "FAIL"}
  BY DEF CapacityVerdict, BalanceVerdict

LEMMA WorkloadStatus ==
  ASSUME NEW s PROVE WorkloadVerdict(s) \in {"PASS", "WARN", "FAIL"}
  BY DEF WorkloadVerdict

\* The simple checks give results, and only two of them block.
LEMMA MeasuredGiven ==
  ASSUME NEW check \in SimpleChecks
  PROVE  Given(Measured(check)) /\ (check \notin BlockingChecks => ~Measured(check).blocking)
  <1>1. CASE check = "utilization"
    <2>1. Measured(check) = Result(UtilizationVerdict(situation), FALSE)
      BY <1>1 DEF Measured
    <2> QED
      BY <2>1, ResultGiven DEF UtilizationVerdict
  <1>2. CASE check = "controlPlane"
    <2>1. Measured(check) = IF situation.reported
                            THEN Result(ControlPlaneVerdict(situation), TRUE) ELSE Skip
      BY <1>2 DEF Measured
    <2>2. ControlPlaneVerdict(situation) \in {"PASS", "WARN", "FAIL"}
      BY DEF ControlPlaneVerdict
    <2> QED
      BY <1>2, <2>1, <2>2, ResultGiven, SkipGiven DEF BlockingChecks
  <1>3. CASE check = "quotas"
    <2>1. Measured(check) = IF situation.quota < 0 THEN Skip
                            ELSE Result(QuotaVerdict(situation), FALSE)
      BY <1>3 DEF Measured
    <2>2. QuotaVerdict(situation) \in {"PASS", "WARN", "FAIL"}
      BY DEF QuotaVerdict
    <2> QED
      BY <2>1, <2>2, ResultGiven, SkipGiven
  <1>4. CASE check = "workloads"
    <2>1. Measured(check) = Result(WorkloadVerdict(situation), TRUE)
      BY <1>4 DEF Measured
    <2> QED
      BY <1>4, <2>1, WorkloadStatus, ResultGiven DEF BlockingChecks
  <1>5. CASE check = "pdbs"
    <2>1. Measured(check) = Result(PDBVerdict(situation), FALSE)
      BY <1>5 DEF Measured
    <2>2. PDBVerdict(situation) \in {"PASS", "WARN", "FAIL"}
      BY DEF PDBVerdict
    <2> QED
      BY <2>1, <2>2, ResultGiven
  <1> QED
    BY <1>1, <1>2, <1>3, <1>4, <1>5 DEF SimpleChecks, Checks, Snapshotters

LEMMA UnmeasuredGiven ==
  ASSUME NEW check \in SimpleChecks, NEW result \in Unmeasured(check)
  PROVE  Given(result) /\ (check \notin BlockingChecks => ~result.blocking)
  <1>1. CASE check = "workloads"
    <2>1. Unmeasured(check) =
            {Result(WorkloadVerdict([pods |-> c[2], podsUp |-> c[1]]), TRUE) :
               c \in Counts(situation.podsUp, situation.pods)}
      BY <1>1 DEF Unmeasured
    <2> QED
      BY <1>1, <2>1, WorkloadStatus, ResultGiven DEF BlockingChecks
  <1>2. CASE check = "pdbs"
    <2>1. Unmeasured(check) =
            {Result("WARN", FALSE)} \cup
            {Result(PDBVerdict([deployments |-> c[2], protected |-> c[1]]), FALSE) :
               c \in Counts(situation.protected, situation.deployments)}
      BY <1>2 DEF Unmeasured
    <2>2. ASSUME NEW s PROVE PDBVerdict(s) \in {"PASS", "WARN", "FAIL"}
      BY DEF PDBVerdict
    <2> QED
      BY <2>1, <2>2, ResultGiven
  <1>3. CASE check \notin {"workloads", "pdbs"}
    <2>1. Unmeasured(check) = {Skip}
      BY <1>3 DEF Unmeasured
    <2> QED
      BY <2>1, SkipGiven
  <1> QED
    BY <1>1, <1>2, <1>3

LEMMA NodeVerdictStands ==
  ASSUME UNCHANGED <<counted, groupStatus>>, NEW described
  PROVE  NodeVerdict(described)' = NodeVerdict(described)
  BY DEF NodeVerdict, GroupsIn, SizeOf

LEMMA ExactlyStands ==
  ASSUME UNCHANGED <<situation, clients>>, NEW check
  PROVE  Exactly(check)' = Exactly(check)
  BY DEF Exactly, Measured

-----------------------------------------------------------------------------
(* The health gate: steps *)

LEMMA HealthStart == ASSUME CommandsInit PROVE HealthInvariant
  <1>1. HealthChecksInit
    BY DEF CommandsInit
  <1>2. /\ situation \in Situations /\ clients = situation.clients /\ load = situation.load
        /\ ready = situation.ready /\ drift = 0 /\ healthFaults = 0
        /\ verdict = [check \in Checks |-> Pending] /\ counted = NotCounted
        /\ snapshot = [key \in Keys |-> NoSnapshot] /\ decision = "PENDING"
    BY <1>1 DEF HealthChecksInit
  <1>3. situation \in Situation
    BY <1>2, HealthChecksAssumption
  <1>4. /\ clients \in SUBSET {"kube", "cloudwatch", "quotas", "metrics"}
        /\ load \in [Nodes -> 0..100] /\ ready \in SUBSET Nodes
    BY <1>2, <1>3 DEF Situation
  <1>5. \A check \in Checks : verdict[check] = Pending
    BY <1>2
  <1>6. verdict \in [Checks -> [status : {"PENDING", "PASS", "WARN", "FAIL"},
                                blocking : BOOLEAN, skipped : BOOLEAN]]
    BY <1>2 DEF Pending
  <1>7. \A key \in Keys : snapshot[key] = NoSnapshot
    BY <1>2
  <1>8. /\ NoSnapshot.state = "none" /\ NoSnapshot.instances = {}
        /\ NoSnapshot.reading \in [{} -> 0..100] /\ DOMAIN NoSnapshot.reading = {}
        /\ NoSnapshot = [state |-> NoSnapshot.state, instances |-> NoSnapshot.instances,
                         reading |-> NoSnapshot.reading]
    BY DEF NoSnapshot
  <1>9. drift \in 0..MaxTrouble /\ healthFaults \in 0..(MaxTrouble - drift)
    BY <1>2, HealthChecksAssumption
  <1>10. HealthChecksTypeOK
    BY <1>2, <1>4, <1>6, <1>7, <1>8, <1>9 DEF HealthChecksTypeOK
  <1>11. Snapshotters \subseteq Checks /\ "nodes" \in Checks /\ SimpleChecks \subseteq Checks
         /\ "shared" \in Keys
    BY DEF Checks, SimpleChecks, Keys
  <1>12. ReadAsIs
    BY <1>2, <1>5, <1>7, <1>8, <1>11 DEF ReadAsIs, NotCounted
  <1>13. \A check \in Checks : ~verdict[check].blocking
    BY <1>5 DEF Pending
  <1>14. DOMAIN snapshot = Keys
    BY <1>2
  <1> QED
    BY <1>2, <1>5, <1>7, <1>8, <1>10, <1>11, <1>12, <1>13, <1>14 DEF HealthInvariant

\* What a check that gives its result has to show.
LEMMA JudgeKeeps ==
  ASSUME HealthInvariant, NEW check \in Checks, NEW result, Given(result),
         Judge(check, result), CallFails \/ CallsAnswer,
         UNCHANGED <<clusterVars, counted, snapshot, decision>>,
         check \in Snapshotters =>
           /\ snapshot["shared"].state = "done"
           /\ result = Judgement(check, snapshot["shared"].reading),
         check = "nodes" => result.blocking /\ ~result.skipped,
         check \notin BlockingChecks => ~result.blocking,
         drift = 0 /\ healthFaults = 0 /\ CallsAnswer =>
           /\ check = "nodes" =>
                counted.asked /\ result = Result(NodeVerdict(DOMAIN InstancesOf), TRUE)
           /\ check \in SimpleChecks => result = Exactly(check)
  PROVE  HealthInvariant'
  <1>1. /\ verdict[check] = Pending /\ verdict' = [verdict EXCEPT ![check] = result]
        /\ HealthChecksTypeOK
    BY DEF Judge, HealthInvariant
  <1>2. verdict \in [Checks -> [status : {"PENDING", "PASS", "WARN", "FAIL"},
                                blocking : BOOLEAN, skipped : BOOLEAN]]
    BY <1>1 DEF HealthChecksTypeOK
  <1>3. /\ verdict'[check] = result /\ \A c \in Checks \ {check} : verdict'[c] = verdict[c]
        /\ verdict' \in [Checks -> [status : {"PENDING", "PASS", "WARN", "FAIL"},
                                    blocking : BOOLEAN, skipped : BOOLEAN]]
        /\ result # Pending
    BY <1>1, <1>2 DEF Given
  <1>4. decision = "PENDING" /\ decision' = decision
    BY <1>1 DEF HealthInvariant
  <1>5. /\ UNCHANGED <<situation, clients, load, ready, groupStatus, drift>>
        /\ counted' = counted /\ snapshot' = snapshot
    BY DEF clusterVars
  <1>6. HealthChecksTypeOK'
    BY <1>1, <1>3, <1>4, <1>5, CallCounted DEF HealthChecksTypeOK
  <1>7. Snapshotters \subseteq Checks /\ "nodes" \in Checks /\ SimpleChecks \subseteq Checks
        /\ "nodes" \notin Snapshotters
    BY DEF Checks, SimpleChecks, Snapshotters
  <1>8. ASSUME NEW c \in Snapshotters, verdict'[c] # Pending
        PROVE  /\ snapshot'["shared"].state = "done"
               /\ verdict'[c] = Judgement(c, snapshot'["shared"].reading)
    BY <1>3, <1>5, <1>7, <1>8 DEF HealthInvariant
  <1>9. verdict'["nodes"] # Pending => verdict'["nodes"].blocking /\ ~verdict'["nodes"].skipped
    BY <1>3, <1>7 DEF HealthInvariant
  <1>10. \A c \in Checks \ BlockingChecks : ~verdict'[c].blocking
    BY <1>3 DEF HealthInvariant
  <1>11. ASSUME drift' = 0 /\ healthFaults' = 0 PROVE ReadAsIs'
    <2>1. drift = 0 /\ healthFaults = 0 /\ CallsAnswer
      BY <1>1, <1>5, <1>11, CallCounted
    <2>2. ReadAsIs
      BY <2>1 DEF HealthInvariant
    <2>3. NodeVerdict(DOMAIN InstancesOf)' = NodeVerdict(DOMAIN InstancesOf)
      BY <1>5, NodeVerdictStands
    <2>4. \A c : Exactly(c)' = Exactly(c)
      BY <1>5, ExactlyStands
    <2>5. KubernetesNodeCounts' = KubernetesNodeCounts
      BY <1>5 DEF KubernetesNodeCounts
    <2>6. verdict'["nodes"] # Pending =>
            counted.asked /\ verdict'["nodes"] = Result(NodeVerdict(DOMAIN InstancesOf), TRUE)
      BY <1>3, <1>7, <2>1, <2>2 DEF ReadAsIs
    <2>7. \A c \in SimpleChecks : verdict'[c] # Pending => verdict'[c] = Exactly(c)
      BY <1>3, <1>7, <2>1, <2>2 DEF ReadAsIs
    <2>8. (counted.asked => counted = IF "kube" \in clients THEN KubernetesNodeCounts
                                      ELSE [NotCounted EXCEPT !.asked = TRUE])'
      BY <1>5, <2>2, <2>5 DEF ReadAsIs
    <2>9. (verdict["nodes"] # Pending =>
             counted.asked /\ verdict["nodes"] = Result(NodeVerdict(DOMAIN InstancesOf), TRUE))'
      BY <1>5, <2>3, <2>6
    <2>10. (/\ snapshot["shared"].state = "metrics" =>
                 "cloudwatch" \in clients /\ snapshot["shared"].instances = Nodes
            /\ snapshot["shared"].state = "done" =>
                 snapshot["shared"].reading =
                   IF "cloudwatch" \in clients THEN load ELSE NoSnapshot.reading)'
      BY <1>5, <2>2 DEF ReadAsIs
    <2>11. (\A c \in SimpleChecks : verdict[c] # Pending => verdict[c] = Exactly(c))'
      BY <2>4, <2>7
    <2> QED
      BY <2>8, <2>9, <2>10, <2>11 DEF ReadAsIs
  <1>12. /\ DOMAIN snapshot' = Keys
         /\ \A key \in Keys :
              /\ snapshot'[key] =
                   [state |-> snapshot'[key].state, instances |-> snapshot'[key].instances,
                    reading |-> snapshot'[key].reading]
              /\ snapshot'[key].instances \subseteq Nodes
              /\ snapshot'[key].reading \in [DOMAIN snapshot'[key].reading -> 0..100]
              /\ snapshot'[key].state # "done" => snapshot'[key].reading = NoSnapshot.reading
    BY <1>5 DEF HealthInvariant
  <1>13. decision' = "PENDING"
    BY <1>4
  <1> QED
    BY <1>6, <1>8, <1>9, <1>10, <1>11, <1>12, <1>13 DEF HealthInvariant

LEMMA SimpleCheckKeeps ==
  ASSUME HealthInvariant, NEW check \in SimpleChecks, SimpleCheck(check) PROVE HealthInvariant'
  <1>1. check \in Checks /\ check \notin Snapshotters /\ check # "nodes"
    BY DEF SimpleChecks
  <1>2. UNCHANGED <<clusterVars, counted, snapshot, decision>>
    BY DEF SimpleCheck
  <1>3. PICK result : /\ Judge(check, result) /\ (CallFails \/ CallsAnswer)
                      /\ Given(result) /\ (check \notin BlockingChecks => ~result.blocking)
                      /\ healthFaults = 0 /\ CallsAnswer => result = Exactly(check)
    <2>1. CASE Needs(check) \subseteq clients /\ CallsAnswer /\ Judge(check, Measured(check))
      BY <2>1, MeasuredGiven DEF Exactly
    <2>2. CASE Needs(check) \subseteq clients /\ CallFails
               /\ \E result \in Unmeasured(check) : Judge(check, result)
      <3>1. PICK result \in Unmeasured(check) : Judge(check, result)
        BY <2>2
      <3>2. ~(healthFaults = 0 /\ CallsAnswer)
        BY <2>2 DEF CallFails, CallsAnswer
      <3> QED
        BY <2>2, <3>1, <3>2, UnmeasuredGiven
    <2>3. CASE ~(Needs(check) \subseteq clients) /\ CallsAnswer /\ Judge(check, Skip)
      BY <2>3, SkipGiven DEF Exactly
    <2> QED
      BY <2>1, <2>2, <2>3 DEF SimpleCheck
  <1>4. /\ check \in Snapshotters =>
             /\ snapshot["shared"].state = "done"
             /\ result = Judgement(check, snapshot["shared"].reading)
        /\ check = "nodes" => result.blocking /\ ~result.skipped
        /\ drift = 0 /\ healthFaults = 0 /\ CallsAnswer =>
             /\ check = "nodes" =>
                  counted.asked /\ result = Result(NodeVerdict(DOMAIN InstancesOf), TRUE)
             /\ check \in SimpleChecks => result = Exactly(check)
    BY <1>1, <1>3
  <1> QED
    BY <1>1, <1>2, <1>3, <1>4, JudgeKeeps

LEMMA CheckNodeHealthKeeps ==
  ASSUME HealthInvariant, CheckNodeHealth PROVE HealthInvariant'
  <1>1. PICK described \in SUBSET DOMAIN InstancesOf :
          /\ IF described = DOMAIN InstancesOf THEN CallsAnswer ELSE CallFails
          /\ Judge("nodes", Result(NodeVerdict(described), TRUE))
    BY DEF CheckNodeHealth
  <1>2. counted.asked /\ UNCHANGED <<clusterVars, counted, snapshot, decision>>
    BY DEF CheckNodeHealth
  <1> DEFINE result == Result(NodeVerdict(described), TRUE)
  <1>3. Given(result) /\ result.blocking /\ ~result.skipped
    BY NodeVerdictStatus, ResultGiven
  <1>4. CallFails \/ CallsAnswer
    BY <1>1
  <1>5. healthFaults = 0 /\ CallsAnswer => described = DOMAIN InstancesOf
    BY <1>1 DEF CallFails, CallsAnswer
  <1>6. "nodes" \in Checks /\ "nodes" \notin Snapshotters /\ "nodes" \notin SimpleChecks
        /\ "nodes" \in BlockingChecks
    BY DEF Checks, Snapshotters, SimpleChecks, BlockingChecks
  <1>7. healthFaults = 0 /\ CallsAnswer =>
          counted.asked /\ result = Result(NodeVerdict(DOMAIN InstancesOf), TRUE)
    BY <1>2, <1>5
  <1>8. Judge("nodes", result)
    BY <1>1
  <1> HIDE DEF result
  <1> QED
    BY <1>2, <1>3, <1>4, <1>6, <1>7, <1>8, JudgeKeeps

LEMMA JudgeSnapshotKeeps ==
  ASSUME HealthInvariant, NEW check \in Snapshotters, JudgeSnapshot(check)
  PROVE  HealthInvariant'
  <1> DEFINE result == Judgement(check, snapshot["shared"].reading)
  <1>1. /\ snapshot["shared"].state = "done" /\ CallsAnswer /\ Judge(check, result)
        /\ UNCHANGED <<clusterVars, counted, snapshot, decision>>
    BY DEF JudgeSnapshot, SnapshotKey, Judgement
  <1>2. Given(result) /\ (check \notin BlockingChecks => ~result.blocking)
    BY SnapshotVerdictStatus, ResultGiven DEF Judgement, Snapshotters, BlockingChecks
  <1>3. check \in Checks /\ check # "nodes" /\ check \notin SimpleChecks
    BY DEF Checks, Snapshotters, SimpleChecks
  <1>4. result = Judgement(check, snapshot["shared"].reading)
    OBVIOUS
  <1> HIDE DEF result
  <1> QED
    BY <1>1, <1>2, <1>3, <1>4, JudgeKeeps

LEMMA ListForNodesKeeps ==
  ASSUME HealthInvariant, ListForNodes PROVE HealthInvariant'
  <1>1. /\ verdict["nodes"] = Pending /\ ~counted.asked /\ (CallFails \/ CallsAnswer)
        /\ UNCHANGED <<clusterVars, snapshot, decision>>
    BY DEF ListForNodes
  <1>2. CASE CallFails /\ Judge("nodes", Result("FAIL", TRUE)) /\ UNCHANGED counted
    <2> DEFINE result == Result("FAIL", TRUE)
    <2>1. Given(result) /\ result.blocking /\ ~result.skipped
      BY ResultGiven
    <2>2. "nodes" \in Checks /\ "nodes" \notin Snapshotters /\ "nodes" \notin SimpleChecks
          /\ "nodes" \in BlockingChecks
      BY DEF Checks, Snapshotters, SimpleChecks, BlockingChecks
    <2>3. ~(healthFaults = 0 /\ CallsAnswer)
      BY <1>2 DEF CallFails, CallsAnswer
    <2>4. Judge("nodes", result) /\ UNCHANGED <<clusterVars, counted, snapshot, decision>>
      BY <1>1, <1>2
    <2> HIDE DEF result
    <2> QED
      BY <1>1, <2>1, <2>2, <2>3, <2>4, JudgeKeeps
  <1>3. CASE UNCHANGED verdict
             /\ (CallsAnswer => counted' = IF "kube" \in clients THEN KubernetesNodeCounts
                                           ELSE [NotCounted EXCEPT !.asked = TRUE])
    <2>1. /\ UNCHANGED <<situation, clients, load, ready, groupStatus, drift>>
          /\ snapshot' = snapshot /\ decision' = decision /\ verdict' = verdict
      BY <1>1, <1>3 DEF clusterVars
    <2>2. HealthChecksTypeOK
      BY DEF HealthInvariant
    <2>3. HealthChecksTypeOK'
      BY <1>1, <2>1, <2>2, CallCounted DEF HealthChecksTypeOK
    <2>4. ASSUME drift' = 0 /\ healthFaults' = 0 PROVE ReadAsIs'
      <3>1. drift = 0 /\ healthFaults = 0 /\ CallsAnswer
        BY <1>1, <2>1, <2>2, <2>4, CallCounted
      <3>2. ReadAsIs
        BY <3>1 DEF HealthInvariant
      <3>3. \A c : Exactly(c)' = Exactly(c)
        BY <2>1, ExactlyStands
      <3>4. KubernetesNodeCounts' = KubernetesNodeCounts
        BY <2>1 DEF KubernetesNodeCounts
      <3>5. (counted.asked => counted = IF "kube" \in clients THEN KubernetesNodeCounts
                                        ELSE [NotCounted EXCEPT !.asked = TRUE])'
        BY <1>3, <2>1, <3>1, <3>4
      <3>6. verdict'["nodes"] = Pending
        BY <1>1, <2>1
      <3>7. (/\ snapshot["shared"].state = "metrics" =>
                  "cloudwatch" \in clients /\ snapshot["shared"].instances = Nodes
             /\ snapshot["shared"].state = "done" =>
                  snapshot["shared"].reading =
                    IF "cloudwatch" \in clients THEN load ELSE NoSnapshot.reading)'
        BY <2>1, <3>2 DEF ReadAsIs
      <3>8. (\A c \in SimpleChecks : verdict[c] # Pending => verdict[c] = Exactly(c))'
        BY <2>1, <3>2, <3>3 DEF ReadAsIs
      <3> QED
        BY <3>5, <3>6, <3>7, <3>8 DEF ReadAsIs
    <2> QED
      BY <2>1, <2>3, <2>4 DEF HealthInvariant
  <1>4. CallFails => ~CallsAnswer
    BY DEF HealthInvariant, HealthChecksTypeOK, CallFails, CallsAnswer
  <1>5. \/ CallFails /\ Judge("nodes", Result("FAIL", TRUE)) /\ UNCHANGED counted
        \/ /\ UNCHANGED verdict
           /\ \/ /\ counted' = [NotCounted EXCEPT !.asked = TRUE]
                 /\ CallFails \/ (CallsAnswer /\ "kube" \notin clients)
              \/ CallsAnswer /\ "kube" \in clients /\ counted' = KubernetesNodeCounts
    BY DEF ListForNodes
  <1> QED
    BY <1>2, <1>3, <1>4, <1>5

Taken(s) ==
  /\ s = [state |-> s.state, instances |-> s.instances, reading |-> s.reading]
  /\ s.state \in {"none", "metrics", "done"}
  /\ s.instances \subseteq Nodes /\ DOMAIN s.reading \subseteq s.instances
  /\ s.reading \in [DOMAIN s.reading -> 0..100]
  /\ s.state # "done" => s.reading = NoSnapshot.reading

\* What a step of the CPU snapshot has to show.
LEMMA SnapshotKeeps ==
  ASSUME HealthInvariant, NEW key \in Keys, snapshot[key].state # "done",
         UNCHANGED <<clusterVars, verdict, counted, decision>>, CallFails \/ CallsAnswer,
         DOMAIN snapshot' = Keys, \A k \in Keys \ {key} : snapshot'[k] = snapshot[k],
         Taken(snapshot'[key]),
         key = "shared" /\ drift = 0 /\ healthFaults = 0 /\ CallsAnswer =>
           /\ snapshot'[key].state = "metrics" =>
                "cloudwatch" \in clients /\ snapshot'[key].instances = Nodes
           /\ snapshot'[key].state = "done" =>
                snapshot'[key].reading =
                  IF "cloudwatch" \in clients THEN load ELSE NoSnapshot.reading
  PROVE  HealthInvariant'
  <1>1. /\ UNCHANGED <<situation, clients, load, ready, groupStatus, drift>>
        /\ counted' = counted /\ decision' = decision /\ verdict' = verdict
        /\ HealthChecksTypeOK
    BY DEF clusterVars, HealthInvariant
  <1>3. ASSUME NEW k \in Keys
        PROVE  /\ snapshot'[k] =
                    [state |-> snapshot'[k].state, instances |-> snapshot'[k].instances,
                     reading |-> snapshot'[k].reading]
               /\ snapshot'[k].instances \subseteq Nodes
               /\ snapshot'[k].reading \in [DOMAIN snapshot'[k].reading -> 0..100]
               /\ snapshot'[k].state \in {"none", "metrics", "done"}
               /\ DOMAIN snapshot'[k].reading \subseteq snapshot'[k].instances
               /\ snapshot'[k].state # "done" => snapshot'[k].reading = NoSnapshot.reading
    <2>1. CASE k = key
      BY <2>1 DEF Taken
    <2>2. CASE k # key
      BY <1>1, <2>2 DEF HealthInvariant, HealthChecksTypeOK
    <2> QED
      BY <2>1, <2>2
  <1>4. HealthChecksTypeOK'
    BY <1>1, <1>3, CallCounted DEF HealthChecksTypeOK
  <1>5. "shared" \in Keys
    BY DEF Keys
  <1>6. ASSUME drift' = 0 /\ healthFaults' = 0 PROVE ReadAsIs'
    <2>1. drift = 0 /\ healthFaults = 0 /\ CallsAnswer
      BY <1>1, <1>6, CallCounted
    <2>2. ReadAsIs
      BY <2>1 DEF HealthInvariant
    <2>3. \A c : Exactly(c)' = Exactly(c)
      BY <1>1, ExactlyStands
    <2>4. KubernetesNodeCounts' = KubernetesNodeCounts
          /\ NodeVerdict(DOMAIN InstancesOf)' = NodeVerdict(DOMAIN InstancesOf)
      BY <1>1, NodeVerdictStands DEF KubernetesNodeCounts
    <2>5. (counted.asked => counted = IF "kube" \in clients THEN KubernetesNodeCounts
                                      ELSE [NotCounted EXCEPT !.asked = TRUE])'
      BY <1>1, <2>2, <2>4 DEF ReadAsIs
    <2>6. (verdict["nodes"] # Pending =>
             counted.asked /\ verdict["nodes"] = Result(NodeVerdict(DOMAIN InstancesOf), TRUE))'
      BY <1>1, <2>2, <2>4 DEF ReadAsIs
    <2>7. /\ snapshot'["shared"].state = "metrics" =>
               "cloudwatch" \in clients /\ snapshot'["shared"].instances = Nodes
          /\ snapshot'["shared"].state = "done" =>
               snapshot'["shared"].reading =
                 IF "cloudwatch" \in clients THEN load ELSE NoSnapshot.reading
      <3>1. CASE key = "shared"
        BY <2>1, <3>1
      <3>2. CASE key # "shared"
        BY <1>5, <2>2, <3>2 DEF ReadAsIs
      <3> QED
        BY <3>1, <3>2
    <2>8. (\A c \in SimpleChecks : verdict[c] # Pending => verdict[c] = Exactly(c))'
      BY <1>1, <2>2, <2>3 DEF ReadAsIs
    <2> QED
      BY <1>1, <2>5, <2>6, <2>7, <2>8 DEF ReadAsIs
  <1>7. ASSUME NEW c \in Snapshotters, verdict'[c] # Pending
        PROVE  /\ snapshot'["shared"].state = "done"
               /\ verdict'[c] = Judgement(c, snapshot'["shared"].reading)
    <2>1. /\ snapshot["shared"].state = "done"
          /\ verdict[c] = Judgement(c, snapshot["shared"].reading)
      BY <1>1, <1>7 DEF HealthInvariant
    <2>2. key # "shared"
      BY <2>1
    <2> QED
      BY <1>1, <1>5, <2>1, <2>2
  <1>8. (/\ verdict["nodes"] # Pending => verdict["nodes"].blocking /\ ~verdict["nodes"].skipped
         /\ \A c \in Checks \ BlockingChecks : ~verdict[c].blocking
         /\ decision # "PENDING" =>
              /\ \A c \in Checks : verdict[c] # Pending
              /\ decision = AggregateResults({verdict[c] : c \in Checks}))'
    BY <1>1 DEF HealthInvariant
  <1>9. DOMAIN snapshot' = Keys
    OBVIOUS
  <1>10. \A k \in Keys :
           /\ snapshot'[k] =
                [state |-> snapshot'[k].state, instances |-> snapshot'[k].instances,
                 reading |-> snapshot'[k].reading]
           /\ snapshot'[k].instances \subseteq Nodes
           /\ snapshot'[k].reading \in [DOMAIN snapshot'[k].reading -> 0..100]
           /\ snapshot'[k].state # "done" => snapshot'[k].reading = NoSnapshot.reading
    BY <1>3
  <1> QED
    BY <1>4, <1>6, <1>7, <1>8, <1>9, <1>10 DEF HealthInvariant

LEMMA DiscoverInstancesKeeps ==
  ASSUME HealthInvariant, NEW check \in Snapshotters, DiscoverInstances(check)
  PROVE  HealthInvariant'
  <1> DEFINE taken == snapshot["shared"]
  <1>1. "shared" \in Keys /\ SnapshotKey(check) = "shared"
    BY DEF Keys, SnapshotKey
  <1>2. /\ taken.state = "none" /\ DOMAIN snapshot = Keys
        /\ taken = [state |-> taken.state, instances |-> taken.instances,
                    reading |-> taken.reading]
        /\ taken.instances \in SUBSET Nodes
        /\ taken.reading = NoSnapshot.reading
    BY <1>1 DEF DiscoverInstances, HealthInvariant
  <1>3. UNCHANGED <<clusterVars, verdict, counted, decision>>
    BY DEF DiscoverInstances
  <1>4. CASE "cloudwatch" \notin clients /\ CallsAnswer /\ Fetched("shared", NoSnapshot.reading)
    <2>1. snapshot' = [snapshot EXCEPT !["shared"]["state"] = "done",
                                       !["shared"]["reading"] = NoSnapshot.reading]
      BY <1>4 DEF Fetched
    <2>2. \A x, y, z : [[state |-> x, instances |-> y, reading |-> z]
                          EXCEPT !["state"] = "done", !["reading"] = NoSnapshot.reading]
                       = [state |-> "done", instances |-> y, reading |-> NoSnapshot.reading]
      OBVIOUS
    <2>3. snapshot'["shared"] = [state |-> "done", instances |-> taken.instances,
                                 reading |-> NoSnapshot.reading]
      BY <1>1, <1>2, <2>1, <2>2
    <2>4. DOMAIN snapshot' = Keys /\ \A k \in Keys \ {"shared"} : snapshot'[k] = snapshot[k]
      BY <1>2, <2>1
    <2>5. /\ NoSnapshot.reading \in [DOMAIN NoSnapshot.reading -> 0..100]
          /\ DOMAIN NoSnapshot.reading = {}
      BY DEF NoSnapshot
    <2>6. Taken(snapshot'["shared"]) /\ snapshot'["shared"].state = "done"
          /\ snapshot'["shared"].reading = NoSnapshot.reading
      BY <1>2, <2>3, <2>5 DEF Taken
    <2> QED
      BY <1>1, <1>2, <1>3, <1>4, <2>4, <2>6, SnapshotKeeps
  <1>5. ASSUME "cloudwatch" \in clients,
               NEW groups \in SUBSET DOMAIN InstancesOf,
               IF groups = DOMAIN InstancesOf THEN CallsAnswer ELSE CallFails,
               snapshot' = [snapshot EXCEPT !["shared"].state = "metrics",
                              !["shared"].instances = UNION {InstancesOf[g] : g \in groups}]
        PROVE  HealthInvariant'
    <2> DEFINE instances == UNION {InstancesOf[g] : g \in groups}
    <2>1. \A w, x, y, z : [[state |-> x, instances |-> y, reading |-> z]
                             EXCEPT !["state"] = "metrics", !["instances"] = w]
                          = [state |-> "metrics", instances |-> w, reading |-> z]
      OBVIOUS
    <2>2. snapshot' = [snapshot EXCEPT !["shared"]["state"] = "metrics",
                                       !["shared"]["instances"] = instances]
      BY <1>5
    <2>3. instances \in SUBSET Nodes
      BY DEF Nodes
    <2>4. healthFaults = 0 /\ CallsAnswer => instances = Nodes
      BY <1>5 DEF CallsAnswer, CallFails, Nodes
    <2>5. CallFails \/ CallsAnswer
      BY <1>5
    <2> HIDE DEF instances
    <2>6. snapshot'["shared"] = [state |-> "metrics", instances |-> instances,
                                 reading |-> NoSnapshot.reading]
      BY <1>1, <1>2, <2>1, <2>2
    <2>7. DOMAIN snapshot' = Keys /\ \A k \in Keys \ {"shared"} : snapshot'[k] = snapshot[k]
      BY <1>2, <2>2
    <2>8. /\ NoSnapshot.reading \in [DOMAIN NoSnapshot.reading -> 0..100]
          /\ DOMAIN NoSnapshot.reading = {}
      BY DEF NoSnapshot
    <2>9. Taken(snapshot'["shared"]) /\ snapshot'["shared"].state = "metrics"
          /\ snapshot'["shared"].instances = instances
      BY <2>3, <2>6, <2>8 DEF Taken
    <2> QED
      BY <1>1, <1>2, <1>3, <1>5, <2>4, <2>5, <2>7, <2>9, SnapshotKeeps
  <1> QED
    BY <1>1, <1>4, <1>5 DEF DiscoverInstances

LEMMA ReadCPUKeeps ==
  ASSUME HealthInvariant, NEW key \in Keys, ReadCPU(key) PROVE HealthInvariant'
  <1> DEFINE taken == snapshot[key]
  <1>1. /\ taken.state = "metrics" /\ DOMAIN snapshot = Keys
        /\ taken = [state |-> taken.state, instances |-> taken.instances,
                    reading |-> taken.reading]
        /\ taken.instances \subseteq Nodes /\ load \in [Nodes -> 0..100]
    BY DEF ReadCPU, HealthInvariant, HealthChecksTypeOK
  <1>2. UNCHANGED <<clusterVars, verdict, counted, decision>>
    BY DEF ReadCPU
  <1>3. PICK reporting \in SUBSET taken.instances :
          /\ IF reporting = taken.instances THEN CallsAnswer ELSE CallFails
          /\ Fetched(key, [n \in reporting |-> load[n]])
    BY DEF ReadCPU
  <1> DEFINE readings == [n \in reporting |-> load[n]]
  <1>4. readings \in [DOMAIN readings -> 0..100] /\ DOMAIN readings \subseteq taken.instances
    BY <1>1
  <1>5. \A w, x, y, z : [[state |-> x, instances |-> y, reading |-> z]
                           EXCEPT !["state"] = "done", !["reading"] = w]
                        = [state |-> "done", instances |-> y, reading |-> w]
    OBVIOUS
  <1>6. snapshot' = [snapshot EXCEPT ![key]["state"] = "done", ![key]["reading"] = readings]
    BY <1>3 DEF Fetched
  <1>7. reporting = Nodes => readings = load
    BY <1>1
  <1> HIDE DEF readings
  <1>8. snapshot'[key] = [state |-> "done", instances |-> taken.instances, reading |-> readings]
    BY <1>1, <1>5, <1>6
  <1>9. DOMAIN snapshot' = Keys /\ \A k \in Keys \ {key} : snapshot'[k] = snapshot[k]
    BY <1>1, <1>6
  <1>10. Taken(snapshot'[key]) /\ snapshot'[key].state = "done"
         /\ snapshot'[key].reading = readings
    BY <1>1, <1>4, <1>8 DEF Taken
  <1>11. ASSUME key = "shared", drift = 0, healthFaults = 0, CallsAnswer
         PROVE  readings = IF "cloudwatch" \in clients THEN load ELSE NoSnapshot.reading
    <2>1. "cloudwatch" \in clients /\ taken.instances = Nodes
      BY <1>1, <1>11 DEF HealthInvariant, ReadAsIs
    <2>2. reporting = taken.instances
      BY <1>3, <1>11 DEF CallFails, CallsAnswer
    <2> QED
      BY <1>7, <2>1, <2>2
  <1>12. CallFails \/ CallsAnswer
    BY <1>3
  <1> QED
    BY <1>1, <1>2, <1>9, <1>10, <1>11, <1>12, SnapshotKeeps

LEMMA AggregateKeeps == ASSUME HealthInvariant, Aggregate PROVE HealthInvariant'
  <1>1. /\ UNCHANGED <<situation, clients, load, ready, groupStatus, drift>>
        /\ healthFaults' = healthFaults /\ verdict' = verdict /\ counted' = counted
        /\ snapshot' = snapshot /\ HealthChecksTypeOK
    BY DEF Aggregate, clusterVars, HealthInvariant
  <1>2. (\A check \in Checks : verdict[check] # Pending)
        /\ decision' = AggregateResults({verdict[check] : check \in Checks})
    BY DEF Aggregate
  <1>3. decision' \in {"PENDING", "PROCEED", "WARN", "BLOCK"}
    BY <1>2 DEF AggregateResults
  <1>4. HealthChecksTypeOK'
    BY <1>1, <1>3 DEF HealthChecksTypeOK
  <1>5. ReadAsIs' <=> ReadAsIs
    <2>1. \A c : Exactly(c)' = Exactly(c)
      BY <1>1, ExactlyStands
    <2>2. KubernetesNodeCounts' = KubernetesNodeCounts
          /\ NodeVerdict(DOMAIN InstancesOf)' = NodeVerdict(DOMAIN InstancesOf)
      BY <1>1, NodeVerdictStands DEF KubernetesNodeCounts
    <2> QED
      BY <1>1, <2>1, <2>2 DEF ReadAsIs
  <1>6. (decision # "PENDING" =>
           /\ \A c \in Checks : verdict[c] # Pending
           /\ decision = AggregateResults({verdict[c] : c \in Checks}))'
    BY <1>1, <1>2
  <1>7. (/\ DOMAIN snapshot = Keys
         /\ \A key \in Keys :
              /\ snapshot[key] =
                   [state |-> snapshot[key].state, instances |-> snapshot[key].instances,
                    reading |-> snapshot[key].reading]
              /\ snapshot[key].instances \subseteq Nodes
              /\ snapshot[key].reading \in [DOMAIN snapshot[key].reading -> 0..100]
              /\ snapshot[key].state # "done" => snapshot[key].reading = NoSnapshot.reading
         /\ \A check \in Snapshotters :
              verdict[check] # Pending =>
                /\ snapshot["shared"].state = "done"
                /\ verdict[check] = Judgement(check, snapshot["shared"].reading)
         /\ verdict["nodes"] # Pending => verdict["nodes"].blocking /\ ~verdict["nodes"].skipped
         /\ \A check \in Checks \ BlockingChecks : ~verdict[check].blocking)'
    BY <1>1 DEF HealthInvariant
  <1>8. (drift = 0 /\ healthFaults = 0 => ReadAsIs)'
    BY <1>1, <1>5 DEF HealthInvariant
  <1> QED
    BY <1>4, <1>6, <1>7, <1>8 DEF HealthInvariant

LEMMA DriftKeeps ==
  ASSUME HealthInvariant,
         \/ LoadChanges \/ NodeChanges
         \/ UNCHANGED healthVars
  PROVE  HealthInvariant'
  <1>1. /\ UNCHANGED <<situation, clients, groupStatus>>
        /\ healthFaults' = healthFaults /\ verdict' = verdict /\ counted' = counted
        /\ snapshot' = snapshot /\ decision' = decision /\ HealthChecksTypeOK
    BY DEF LoadChanges, NodeChanges, healthVars, clusterVars, HealthInvariant
  <1>2. load' \in [Nodes -> 0..100] /\ ready' \subseteq Nodes
        /\ drift' \in 0..MaxTrouble /\ healthFaults' \in 0..(MaxTrouble - drift')
    <2>1. CASE LoadChanges
      BY <1>1, <2>1, HealthChecksAssumption DEF LoadChanges, Drifts, HealthChecksTypeOK
    <2>2. CASE NodeChanges
      BY <1>1, <2>2, HealthChecksAssumption DEF NodeChanges, Drifts, HealthChecksTypeOK
    <2>3. CASE UNCHANGED healthVars
      BY <1>1, <2>3 DEF healthVars, clusterVars, HealthChecksTypeOK
    <2> QED
      BY <2>1, <2>2, <2>3
  <1>3. HealthChecksTypeOK'
    BY <1>1, <1>2 DEF HealthChecksTypeOK
  <1>4. (/\ DOMAIN snapshot = Keys
         /\ \A key \in Keys :
              /\ snapshot[key] =
                   [state |-> snapshot[key].state, instances |-> snapshot[key].instances,
                    reading |-> snapshot[key].reading]
              /\ snapshot[key].instances \subseteq Nodes
              /\ snapshot[key].reading \in [DOMAIN snapshot[key].reading -> 0..100]
              /\ snapshot[key].state # "done" => snapshot[key].reading = NoSnapshot.reading
         /\ \A check \in Snapshotters :
              verdict[check] # Pending =>
                /\ snapshot["shared"].state = "done"
                /\ verdict[check] = Judgement(check, snapshot["shared"].reading)
         /\ verdict["nodes"] # Pending => verdict["nodes"].blocking /\ ~verdict["nodes"].skipped
         /\ \A check \in Checks \ BlockingChecks : ~verdict[check].blocking
         /\ decision # "PENDING" =>
              /\ \A c \in Checks : verdict[c] # Pending
              /\ decision = AggregateResults({verdict[c] : c \in Checks}))'
    BY <1>1 DEF HealthInvariant
  <1>5. ASSUME drift' = 0 PROVE UNCHANGED healthVars
    BY <1>5 DEF LoadChanges, NodeChanges, Drifts, HealthInvariant, HealthChecksTypeOK
  <1>6. (drift = 0 /\ healthFaults = 0 => ReadAsIs)'
    <2> SUFFICES ASSUME drift' = 0, healthFaults' = 0 PROVE ReadAsIs'
      OBVIOUS
    <2>1. UNCHANGED <<situation, clients, load, ready, groupStatus, drift>>
      BY <1>5 DEF healthVars, clusterVars
    <2>2. \A c : Exactly(c)' = Exactly(c)
      BY <2>1, ExactlyStands
    <2>3. KubernetesNodeCounts' = KubernetesNodeCounts
          /\ NodeVerdict(DOMAIN InstancesOf)' = NodeVerdict(DOMAIN InstancesOf)
      BY <1>1, <2>1, NodeVerdictStands DEF KubernetesNodeCounts
    <2>4. ReadAsIs
      BY <1>1, <2>1 DEF HealthInvariant
    <2> QED
      BY <1>1, <2>1, <2>2, <2>3, <2>4 DEF ReadAsIs
  <1> QED
    BY <1>3, <1>4, <1>6 DEF HealthInvariant

LEMMA HealthKept ==
  ASSUME HealthInvariant, HealthChecksNext \/ UNCHANGED healthVars PROVE HealthInvariant'
  BY ListForNodesKeeps, CheckNodeHealthKeeps, AggregateKeeps, DiscoverInstancesKeeps,
     JudgeSnapshotKeeps, ReadCPUKeeps, SimpleCheckKeeps, DriftKeeps
  DEF HealthChecksNext, HealthStep, SimpleChecks

\* Whatever the load does while the checks run, capacity and balance judge the same
\* moment, and never contradict each other (RunAllChecks, cpuSnapshot).
THEOREM OneReadingCorrect == CommandsSpec => []OneReading
  <1>1. ASSUME HealthInvariant PROVE OneReading
    <2> SUFFICES ASSUME verdict["capacity"] # Pending, verdict["balance"] # Pending
                 PROVE  /\ verdict["balance"].status = "PASS" => verdict["capacity"].status # "FAIL"
                        /\ \E taken \in {snapshot[key].reading : key \in Keys} :
                              /\ verdict["capacity"].status = CapacityVerdict(taken)
                              /\ verdict["balance"].status = BalanceVerdict(taken)
      BY DEF OneReading
    <2> DEFINE r == snapshot["shared"].reading
    <2>1. "capacity" \in Snapshotters /\ "balance" \in Snapshotters /\ "shared" \in Keys
      BY DEF Snapshotters, Keys
    <2>2. verdict["capacity"] = Judgement("capacity", r) /\ verdict["balance"] = Judgement("balance", r)
      BY <1>1, <2>1 DEF HealthInvariant
    <2>3. verdict["capacity"].status = CapacityVerdict(r)
          /\ verdict["balance"].status = BalanceVerdict(r)
      BY <2>2 DEF Judgement, Result
    <2>4. r \in [DOMAIN r -> 0..100] /\ DOMAIN r \subseteq Nodes
      BY <1>1, <2>1 DEF HealthInvariant, HealthChecksTypeOK
    <2>5. IsFiniteSet(DOMAIN r)
      BY <2>4, FS_Subset, HealthChecksAssumption
    <2> HIDE DEF r
    <2>6. BalanceVerdict(r) = "PASS" => CapacityVerdict(r) # "FAIL"
      BY <2>4, <2>5, VerdictsAgree
    <2> QED
      BY <2>1, <2>3, <2>6 DEF r
  <1>2. HealthInvariant /\ [CommandsNext]_commandVars => HealthInvariant'
    BY HealthSteps, HealthKept
  <1> QED
    BY HealthStart, <1>1, <1>2, PTL DEF CommandsSpec

-----------------------------------------------------------------------------
(* The health gate: what its decision rests on *)

LEMMA NodesFail ==
  ASSUME HealthChecksTypeOK,
         counted = IF "kube" \in clients THEN KubernetesNodeCounts
                   ELSE [NotCounted EXCEPT !.asked = TRUE]
  PROVE  NodeVerdict(DOMAIN InstancesOf) = "FAIL" <=>
           IF "kube" \in clients THEN ready = {}
           ELSE \/ Nodes = {}
                \/ /\ \E g \in DOMAIN InstancesOf :
                        groupStatus[g] \notin {"ACTIVE", "CREATING", "UPDATING"}
                   /\ \A g \in DOMAIN InstancesOf :
                        groupStatus[g] = "ACTIVE" => InstancesOf[g] = {}
  <1> DEFINE total == IF counted.known THEN counted.total ELSE SizeOf(DOMAIN InstancesOf)
             up == IF counted.known THEN counted.ready
                   ELSE SizeOf(GroupsIn(DOMAIN InstancesOf, {"ACTIVE"}))
             moving == GroupsIn(DOMAIN InstancesOf, {"CREATING", "UPDATING"})
             sick == \/ DOMAIN InstancesOf
                          \ GroupsIn(DOMAIN InstancesOf, {"ACTIVE", "CREATING", "UPDATING"}) # {}
                     \/ counted.known /\ counted.ready < counted.total
  <1>1. NodeVerdict(DOMAIN InstancesOf) =
          CASE total = 0 -> "FAIL"
            [] total > 0 /\ sick -> IF up > 0 THEN "WARN" ELSE "FAIL"
            [] OTHER -> IF up = 0 /\ moving # {} THEN "WARN" ELSE "PASS"
    BY DEF NodeVerdict
  <1>2. ASSUME NEW S \in SUBSET Nodes
        PROVE  Cardinality(S) \in Nat /\ (Cardinality(S) = 0 <=> S = {})
    BY FS_Subset, FS_CardinalityType, FS_EmptySet, HealthChecksAssumption
  <1>3. CASE "kube" \in clients
    <2>1. /\ counted.known /\ counted.total = Cardinality(Nodes)
          /\ counted.ready = Cardinality(ready) /\ ready \in SUBSET Nodes
      BY <1>3 DEF KubernetesNodeCounts, HealthChecksTypeOK
    <2>2. total = Cardinality(Nodes) /\ up = Cardinality(ready) /\ total \in Nat /\ up \in Nat
          /\ (up = 0 <=> ready = {}) /\ (total = 0 => ready = {})
      BY <1>2, <2>1
    <2>3. counted.ready < counted.total => sick
      BY <2>1
    <2>4. up < total => sick
      BY <2>1, <2>2
    <2> HIDE DEF total, up, moving, sick
    <2>5. NodeVerdict(DOMAIN InstancesOf) = "FAIL" <=> total = 0 \/ (sick /\ up = 0)
      BY <1>1, <2>2
    <2> QED
      BY <1>3, <2>2, <2>4, <2>5
  <1>4. CASE "kube" \notin clients
    <2> DEFINE active == GroupsIn(DOMAIN InstancesOf, {"ACTIVE"})
               serving == UNION {InstancesOf[g] : g \in active}
    <2>1. ~counted.known
      BY <1>4 DEF NotCounted
    <2>2. total = Cardinality(Nodes) /\ up = Cardinality(serving)
      BY <2>1 DEF SizeOf, Nodes
    <2>3. serving \in SUBSET Nodes /\ active \subseteq DOMAIN InstancesOf
      BY DEF Nodes, GroupsIn
    <2>4. sick <=> \E g \in DOMAIN InstancesOf :
                     groupStatus[g] \notin {"ACTIVE", "CREATING", "UPDATING"}
      BY <2>1 DEF GroupsIn
    <2>5. serving = {} <=> \A g \in DOMAIN InstancesOf :
                             groupStatus[g] = "ACTIVE" => InstancesOf[g] = {}
      BY DEF GroupsIn
    <2> HIDE DEF serving, active, total, up, sick, moving
    <2>6. total \in Nat /\ up \in Nat /\ (total = 0 <=> Nodes = {}) /\ (up = 0 <=> serving = {})
      BY <1>2, <2>2, <2>3
    <2>7. NodeVerdict(DOMAIN InstancesOf) = "FAIL" <=> total = 0 \/ (sick /\ up = 0)
      BY <1>1, <2>6
    <2> QED
      BY <1>4, <2>4, <2>5, <2>6, <2>7
  <1> QED
    BY <1>3, <1>4

LEMMA CapacityFails ==
  ASSUME HealthChecksTypeOK PROVE CapacityVerdict(load) = "FAIL" <=> Overloaded
  <1>1. load \in [Nodes -> 0..100] /\ load \in [Nodes -> Int] /\ DOMAIN load = Nodes
    BY DEF HealthChecksTypeOK
  <1>2. \A n \in Nodes : load[n] <= 100
    BY <1>1
  <1>3. SumOf(load) \in Int /\ SumOf(load) <= 100 * Cardinality(Nodes)
    BY <1>1, <1>2, SumBounded, HealthChecksAssumption
  <1>4. Cardinality(Nodes) \in Nat
    BY FS_CardinalityType, HealthChecksAssumption
  <1>5. CASE Nodes = {}
    <2>1. CapacityVerdict(load) = "WARN"
      BY <1>1, <1>5 DEF CapacityVerdict
    <2>2. Cardinality(Nodes) = 0
      BY <1>5, FS_EmptySet
    <2>3. ~(SumOf(load) > 85 * Cardinality(Nodes))
      BY <1>3, <2>2
    <2> QED
      BY <1>5, <2>1, <2>3 DEF Overloaded
  <1>6. CASE Nodes # {}
    <2>1. HeadroomAtLeast(load, 15) <=> ~(SumOf(load) > 85 * Cardinality(Nodes))
      BY <1>1, <1>3, <1>4 DEF HeadroomAtLeast
    <2>2. PeakAtLeast(load, 95) <=> \E n \in Nodes : load[n] >= 95
      BY <1>1 DEF PeakAtLeast
    <2>3. HeadroomAtLeast(load, 30) => HeadroomAtLeast(load, 15)
      BY <1>1, <1>3, <1>4 DEF HeadroomAtLeast
    <2>4. ~PeakAtLeast(load, 85) => ~PeakAtLeast(load, 95)
      BY <1>1 DEF PeakAtLeast
    <2>5. CapacityVerdict(load) = "FAIL" <=> ~(HeadroomAtLeast(load, 15) /\ ~PeakAtLeast(load, 95))
      BY <1>1, <1>6, <2>3, <2>4 DEF CapacityVerdict
    <2> QED
      BY <2>1, <2>2, <2>5 DEF Overloaded
  <1> QED
    BY <1>5, <1>6

LEMMA WorkloadFails ==
  ASSUME NEW s, s.pods \in Nat, s.podsUp \in Nat
  PROVE  WorkloadVerdict(s) = "FAIL" <=> s.pods > 0 /\ 10 * s.podsUp < 9 * s.pods
  <1>1. \A p \in Nat \ {0} : \A u \in Nat : (u * 100) \div p >= 90 <=> ~(10 * u < 9 * p)
    <2> SUFFICES ASSUME NEW p \in Nat \ {0}, NEW u \in Nat
                 PROVE  (u * 100) \div p >= 90 <=> ~(10 * u < 9 * p)
      OBVIOUS
    <2>1. PICK q \in Int : q = (u * 100) \div p
      OBVIOUS
    <2>2. p * q <= u * 100 /\ u * 100 < p * (q + 1)
      BY <2>1
    <2>3. q >= 90 => p * 90 <= p * q
      OBVIOUS
    <2>4. q <= 89 => p * (q + 1) <= p * 90
      OBVIOUS
    <2> QED
      BY <2>1, <2>2, <2>3, <2>4
  <1>2. CASE s.pods = 0
    BY <1>2 DEF WorkloadVerdict
  <1>3. CASE s.pods > 0 /\ s.podsUp = s.pods
    BY <1>3 DEF WorkloadVerdict
  <1>4. CASE s.pods > 0 /\ s.podsUp # s.pods
    <2>1. WorkloadVerdict(s) = IF (s.podsUp * 100) \div s.pods >= 90 THEN "WARN" ELSE "FAIL"
      BY <1>4 DEF WorkloadVerdict
    <2>2. (s.podsUp * 100) \div s.pods >= 90 <=> ~(10 * s.podsUp < 9 * s.pods)
      BY <1>1, <1>4
    <2> QED
      BY <1>4, <2>1, <2>2
  <1> QED
    BY <1>2, <1>3, <1>4

\* The result of each check when the cluster stood still and every call was answered.
LEMMA Verdicts ==
  ASSUME HealthInvariant, decision # "PENDING", drift = 0, healthFaults = 0
  PROVE  LET r == IF "cloudwatch" \in clients THEN load ELSE NoSnapshot.reading
         IN /\ verdict["nodes"] = Result(NodeVerdict(DOMAIN InstancesOf), TRUE)
            /\ counted = IF "kube" \in clients THEN KubernetesNodeCounts
                         ELSE [NotCounted EXCEPT !.asked = TRUE]
            /\ verdict["capacity"] = Result(CapacityVerdict(r), TRUE)
            /\ verdict["balance"] = Result(BalanceVerdict(r), FALSE)
            /\ \A check \in SimpleChecks : verdict[check] = Exactly(check)
  <1>1. ReadAsIs /\ \A check \in Checks : verdict[check] # Pending
    BY DEF HealthInvariant
  <1>2. "nodes" \in Checks /\ "capacity" \in Checks /\ "balance" \in Checks
        /\ "capacity" \in Snapshotters /\ "balance" \in Snapshotters /\ SimpleChecks \subseteq Checks
    BY DEF Checks, Snapshotters, SimpleChecks
  <1>3. /\ snapshot["shared"].state = "done"
        /\ verdict["capacity"] = Judgement("capacity", snapshot["shared"].reading)
        /\ verdict["balance"] = Judgement("balance", snapshot["shared"].reading)
    BY <1>1, <1>2 DEF HealthInvariant
  <1>4. snapshot["shared"].reading = IF "cloudwatch" \in clients THEN load ELSE NoSnapshot.reading
    BY <1>1, <1>3 DEF ReadAsIs
  <1>5. \A x : Judgement("capacity", x) = Result(CapacityVerdict(x), TRUE)
               /\ Judgement("balance", x) = Result(BalanceVerdict(x), FALSE)
    BY DEF Judgement
  <1>6. \A check \in SimpleChecks : verdict[check] = Exactly(check)
    BY <1>1, <1>2 DEF ReadAsIs
  <1>7. /\ verdict["nodes"] = Result(NodeVerdict(DOMAIN InstancesOf), TRUE)
        /\ counted = IF "kube" \in clients THEN KubernetesNodeCounts
                     ELSE [NotCounted EXCEPT !.asked = TRUE]
    BY <1>1, <1>2 DEF ReadAsIs
  <1> QED
    BY <1>3, <1>4, <1>5, <1>6, <1>7

LEMMA FailedBlocks ==
  ASSUME NEW status, NEW blocking \in BOOLEAN
  PROVE  /\ Result(status, blocking).status = "FAIL" /\ Result(status, blocking).blocking
              /\ ~Result(status, blocking).skipped <=> status = "FAIL" /\ blocking
         /\ Result(status, blocking).status = status /\ ~Result(status, blocking).skipped
  BY DEF Result

\* When it stood still, the gate blocks exactly what is unsafe.
LEMMA BlocksUnsafe ==
  ASSUME HealthInvariant, decision # "PENDING", drift = 0, healthFaults = 0
  PROVE  decision = "BLOCK" <=> Unsafe
  <1> DEFINE r == IF "cloudwatch" \in clients THEN load ELSE NoSnapshot.reading
             Bars(check) == /\ verdict[check].status = "FAIL" /\ verdict[check].blocking
                            /\ ~verdict[check].skipped
  <1>1. /\ verdict["nodes"] = Result(NodeVerdict(DOMAIN InstancesOf), TRUE)
        /\ counted = IF "kube" \in clients THEN KubernetesNodeCounts
                     ELSE [NotCounted EXCEPT !.asked = TRUE]
        /\ verdict["capacity"] = Result(CapacityVerdict(r), TRUE)
        /\ \A check \in SimpleChecks : verdict[check] = Exactly(check)
    BY Verdicts
  <1>2. HealthChecksTypeOK /\ situation \in Situation
    BY HealthChecksAssumption DEF HealthInvariant, HealthChecksTypeOK
  <1>3. decision = "BLOCK" <=> \E check \in Checks : Bars(check)
    BY DEF HealthInvariant, AggregateResults
  <1>4. \A check \in Checks : Bars(check) => check \in BlockingChecks
    BY DEF HealthInvariant
  <1>5. BlockingChecks \subseteq Checks /\ "controlPlane" \in SimpleChecks
        /\ "workloads" \in SimpleChecks
    BY DEF BlockingChecks, Checks, Snapshotters, SimpleChecks
  <1>6. decision = "BLOCK" <=>
          Bars("nodes") \/ Bars("capacity") \/ Bars("controlPlane") \/ Bars("workloads")
    BY <1>3, <1>4, <1>5 DEF BlockingChecks
  <1>7. Bars("nodes") <=>
          IF "kube" \in clients THEN ready = {}
          ELSE \/ Nodes = {}
               \/ /\ \E g \in DOMAIN InstancesOf :
                       groupStatus[g] \notin {"ACTIVE", "CREATING", "UPDATING"}
                  /\ \A g \in DOMAIN InstancesOf :
                       groupStatus[g] = "ACTIVE" => InstancesOf[g] = {}
    <2>1. Bars("nodes") <=> NodeVerdict(DOMAIN InstancesOf) = "FAIL"
      BY <1>1, FailedBlocks
    <2> HIDE DEF Bars
    <2> QED
      BY <1>1, <1>2, <2>1, NodesFail
  <1>8. Bars("capacity") <=> "cloudwatch" \in clients /\ Overloaded
    <2>1. Bars("capacity") <=> CapacityVerdict(r) = "FAIL"
      <3> HIDE DEF r
      <3>1. verdict["capacity"] = Result(CapacityVerdict(r), TRUE)
        BY <1>1
      <3> QED
        BY <3>1 DEF Result
    <2>2. CASE "cloudwatch" \in clients
      BY <1>2, <2>1, <2>2, CapacityFails
    <2>3. CASE "cloudwatch" \notin clients
      <3>1. DOMAIN r = {}
        BY <2>3 DEF NoSnapshot
      <3>2. CapacityVerdict(r) = "WARN"
        BY <3>1 DEF CapacityVerdict
      <3> QED
        BY <2>1, <2>3, <3>2
    <2> QED
      BY <2>2, <2>3
  <1>9. Bars("controlPlane") <=>
          "cloudwatch" \in clients /\ situation.reported /\ situation.etcd >= 95
    <2>1. verdict["controlPlane"] =
            IF {"cloudwatch"} \subseteq clients
            THEN IF situation.reported
                 THEN Result(ControlPlaneVerdict(situation), TRUE) ELSE Skip
            ELSE Skip
      BY <1>1, <1>5 DEF Exactly, Needs, Measured
    <2>2. ControlPlaneVerdict(situation) = "FAIL" <=> situation.etcd >= 95
      BY DEF ControlPlaneVerdict
    <2>3. ASSUME "cloudwatch" \in clients /\ situation.reported
          PROVE  Bars("controlPlane") <=> ControlPlaneVerdict(situation) = "FAIL"
      BY <2>1, <2>3 DEF Result
    <2>4. ASSUME ~("cloudwatch" \in clients /\ situation.reported) PROVE ~Bars("controlPlane")
      <3>1. CASE "cloudwatch" \notin clients
        <4>1. verdict["controlPlane"] = Skip
          BY <2>1, <3>1
        <4> QED
          BY <4>1 DEF Skip
      <3>2. CASE ~situation.reported
        <4>1. verdict["controlPlane"] = Skip
          BY <2>1, <3>2
        <4> QED
          BY <4>1 DEF Skip
      <3> QED
        BY <2>4, <3>1, <3>2
    <2> HIDE DEF Bars
    <2> QED
      BY <2>2, <2>3, <2>4
  <1>10. Bars("workloads") <=>
           "kube" \in clients /\ situation.pods > 0 /\ 10 * situation.podsUp < 9 * situation.pods
    <2>1. verdict["workloads"] =
            IF {"kube"} \subseteq clients THEN Result(WorkloadVerdict(situation), TRUE) ELSE Skip
      BY <1>1, <1>5 DEF Exactly, Needs, Measured
    <2>2. situation.pods \in Nat /\ situation.podsUp \in Nat
      BY <1>2 DEF Situation
    <2>3. WorkloadVerdict(situation) = "FAIL" <=>
            situation.pods > 0 /\ 10 * situation.podsUp < 9 * situation.pods
      BY <2>2, WorkloadFails
    <2>4. ASSUME "kube" \in clients
          PROVE  Bars("workloads") <=> WorkloadVerdict(situation) = "FAIL"
      BY <2>1, <2>4 DEF Result
    <2>5. ASSUME "kube" \notin clients PROVE ~Bars("workloads")
      <3>1. verdict["workloads"] = Skip
        BY <2>1, <2>5
      <3> QED
        BY <3>1 DEF Skip
    <2> HIDE DEF Bars
    <2> QED
      BY <2>3, <2>4, <2>5
  <1> HIDE DEF Bars
  <1> QED
    BY <1>6, <1>7, <1>8, <1>9, <1>10 DEF Unsafe

\* ... and lets a sound cluster through.
LEMMA SoundProceeds ==
  ASSUME HealthInvariant, decision # "PENDING", drift = 0, healthFaults = 0, Sound
  PROVE  decision = "PROCEED"
  <1> DEFINE Fine(check) == verdict[check].skipped \/ verdict[check].status = "PASS"
  <1>1. /\ verdict["nodes"] = Result(NodeVerdict(DOMAIN InstancesOf), TRUE)
        /\ counted = IF "kube" \in clients THEN KubernetesNodeCounts
                     ELSE [NotCounted EXCEPT !.asked = TRUE]
        /\ verdict["capacity"] = Result(CapacityVerdict(load), TRUE)
        /\ verdict["balance"] = Result(BalanceVerdict(load), FALSE)
        /\ \A check \in SimpleChecks : verdict[check] = Exactly(check)
    BY Verdicts DEF Sound
  <1>2. HealthChecksTypeOK /\ situation \in Situation /\ Nodes # {}
    BY HealthChecksAssumption DEF HealthInvariant, HealthChecksTypeOK, Sound
  <1>3. /\ situation.etcd \in Nat /\ situation.quota \in Int /\ situation.cpuUsed \in Nat
        /\ situation.memUsed \in Nat /\ situation.pods \in Nat /\ situation.podsUp \in Nat
    BY <1>2 DEF Situation
  <1>4. Fine("nodes")
    <2>1. \A g \in DOMAIN InstancesOf : groupStatus[g] = "ACTIVE"
      BY DEF Sound
    <2>2. /\ GroupsIn(DOMAIN InstancesOf, {"ACTIVE"}) = DOMAIN InstancesOf
          /\ GroupsIn(DOMAIN InstancesOf, {"ACTIVE", "CREATING", "UPDATING"}) = DOMAIN InstancesOf
          /\ GroupsIn(DOMAIN InstancesOf, {"CREATING", "UPDATING"}) = {}
      BY <2>1 DEF GroupsIn
    <2>3. SizeOf(DOMAIN InstancesOf) = Cardinality(Nodes)
      BY DEF SizeOf, Nodes
    <2>4. Cardinality(Nodes) \in Nat /\ Cardinality(Nodes) > 0
      BY <1>2, FS_CardinalityType, FS_EmptySet, HealthChecksAssumption
    <2>5. CASE "kube" \in clients
      <3>1. counted.known /\ counted.total = Cardinality(Nodes) /\ counted.ready = Cardinality(Nodes)
        BY <1>1, <2>5 DEF KubernetesNodeCounts, Sound
      <3>2. NodeVerdict(DOMAIN InstancesOf) = "PASS"
        BY <2>2, <2>4, <3>1 DEF NodeVerdict
      <3> QED
        BY <1>1, <3>2, FailedBlocks
    <2>6. CASE "kube" \notin clients
      <3>1. ~counted.known
        BY <1>1, <2>6 DEF NotCounted
      <3>2. NodeVerdict(DOMAIN InstancesOf) = "PASS"
        BY <2>2, <2>3, <2>4, <3>1 DEF NodeVerdict
      <3> QED
        BY <1>1, <3>2, FailedBlocks
    <2> QED
      BY <2>5, <2>6
  <1>5. Fine("capacity") /\ Fine("balance")
    <2>1. load \in [Nodes -> 0..100]
      BY <1>2 DEF HealthChecksTypeOK
    <2>2. (\A m \in Nodes : load[m] < 70) /\ \A m, o \in Nodes : load[m] - load[o] <= 25
      BY DEF Sound
    <2>3. CapacityVerdict(load) = "PASS" /\ BalanceVerdict(load) = "PASS"
      BY <1>2, <2>1, <2>2, CalmPasses, HealthChecksAssumption
    <2> QED
      BY <1>1, <2>3, FailedBlocks
  <1>6. Fine("utilization")
    <2>1. verdict["utilization"] =
            IF {"metrics", "kube"} \subseteq clients
            THEN Result(UtilizationVerdict(situation), FALSE) ELSE Skip
      BY <1>1 DEF Exactly, Needs, Measured, SimpleChecks, Checks, Snapshotters
    <2>2. {"metrics", "kube"} \subseteq clients => UtilizationVerdict(situation) = "PASS"
      BY <1>3 DEF Sound, UtilizationVerdict
    <2> QED
      BY <2>1, <2>2, FailedBlocks, SkipGiven
  <1>7. Fine("controlPlane")
    <2>1. verdict["controlPlane"] =
            IF {"cloudwatch"} \subseteq clients
            THEN IF situation.reported
                 THEN Result(ControlPlaneVerdict(situation), TRUE) ELSE Skip
            ELSE Skip
      BY <1>1 DEF Exactly, Needs, Measured, SimpleChecks, Checks, Snapshotters
    <2>2. situation.reported => ControlPlaneVerdict(situation) = "PASS"
      BY <1>3 DEF Sound, ControlPlaneVerdict
    <2> QED
      BY <2>1, <2>2, FailedBlocks, SkipGiven
  <1>8. Fine("quotas")
    <2>1. verdict["quotas"] =
            IF {"quotas", "cloudwatch"} \subseteq clients
            THEN IF situation.quota < 0 THEN Skip ELSE Result(QuotaVerdict(situation), FALSE)
            ELSE Skip
      BY <1>1 DEF Exactly, Needs, Measured, SimpleChecks, Checks, Snapshotters
    <2>2. "quotas" \in clients => QuotaVerdict(situation) = "PASS"
      BY <1>3 DEF Sound, QuotaVerdict
    <2> QED
      BY <2>1, <2>2, FailedBlocks, SkipGiven
  <1>9. Fine("workloads")
    <2>1. verdict["workloads"] =
            IF {"kube"} \subseteq clients THEN Result(WorkloadVerdict(situation), TRUE) ELSE Skip
      BY <1>1 DEF Exactly, Needs, Measured, SimpleChecks, Checks, Snapshotters
    <2>2. "kube" \in clients => WorkloadVerdict(situation) = "PASS"
      BY <1>3 DEF Sound, WorkloadVerdict
    <2> QED
      BY <2>1, <2>2, FailedBlocks, SkipGiven
  <1>10. Fine("pdbs")
    <2>1. verdict["pdbs"] =
            IF {"kube"} \subseteq clients THEN Result(PDBVerdict(situation), FALSE) ELSE Skip
      BY <1>1 DEF Exactly, Needs, Measured, SimpleChecks, Checks, Snapshotters
    <2>2. "kube" \in clients => PDBVerdict(situation) = "PASS"
      BY DEF Sound, PDBVerdict
    <2> QED
      BY <2>1, <2>2, FailedBlocks, SkipGiven
  <1> HIDE DEF Fine
  <1>11. \A check \in Checks : Fine(check)
    BY <1>4, <1>5, <1>6, <1>7, <1>8, <1>9, <1>10 DEF Checks, Snapshotters
  <1>12. \A result \in {verdict[check] : check \in Checks} :
           result.skipped \/ result.status = "PASS"
    BY <1>11 DEF Fine
  <1> QED
    BY <1>12 DEF HealthInvariant, AggregateResults

\* When the cluster stood still and every call was answered, the gate blocks exactly when
\* what the wired clients can see is unsafe, and lets a sound cluster through; in any
\* case only a failed blocking check blocks, and the gate never proceeds without having
\* seen nodes and capacity pass (RunAllChecks, aggregateResults).
THEOREM GateCorrect == CommandsSpec => []GateEarned
  <1>1. ASSUME HealthInvariant PROVE GateEarned
    <2> SUFFICES ASSUME decision # "PENDING"
                 PROVE  /\ drift = 0 /\ healthFaults = 0 =>
                             (decision = "BLOCK" <=> Unsafe) /\ (Sound => decision = "PROCEED")
                        /\ decision = "BLOCK" =>
                             \E check \in BlockingChecks : verdict[check] = Result("FAIL", TRUE)
                        /\ decision = "PROCEED" =>
                             verdict["nodes"].status = "PASS" /\ verdict["capacity"].status = "PASS"
      BY DEF GateEarned
    <2> DEFINE results == {verdict[check] : check \in Checks}
    <2>1. decision = AggregateResults(results) /\ \A check \in Checks : verdict[check] # Pending
      BY <1>1 DEF HealthInvariant
    <2>2. ASSUME decision = "BLOCK"
          PROVE  \E check \in BlockingChecks : verdict[check] = Result("FAIL", TRUE)
      <3>1. PICK check \in Checks : /\ verdict[check].status = "FAIL" /\ verdict[check].blocking
                                    /\ ~verdict[check].skipped
        BY <2>1, <2>2 DEF AggregateResults
      <3>2. verdict[check] \in [status : {"PENDING", "PASS", "WARN", "FAIL"},
                                blocking : BOOLEAN, skipped : BOOLEAN]
        BY <1>1 DEF HealthInvariant, HealthChecksTypeOK
      <3>3. check \in BlockingChecks
        BY <1>1, <3>1 DEF HealthInvariant
      <3> QED
        BY <3>1, <3>2, <3>3 DEF Result
    <2>3. ASSUME decision = "PROCEED"
          PROVE  verdict["nodes"].status = "PASS" /\ verdict["capacity"].status = "PASS"
      <3>1. \A check \in Checks : verdict[check].skipped \/ verdict[check].status = "PASS"
        BY <2>1, <2>3 DEF AggregateResults
      <3>2. "nodes" \in Checks /\ "capacity" \in Checks /\ "capacity" \in Snapshotters
        BY DEF Checks, Snapshotters
      <3>3. ~verdict["nodes"].skipped
        BY <1>1, <2>1, <3>2 DEF HealthInvariant
      <3>4. ~verdict["capacity"].skipped
        BY <1>1, <2>1, <3>2 DEF HealthInvariant, Judgement, Result
      <3> QED
        BY <3>1, <3>2, <3>3, <3>4
    <2> QED
      BY <1>1, <2>2, <2>3, BlocksUnsafe, SoundProceeds
  <1>2. HealthInvariant /\ [CommandsNext]_commandVars => HealthInvariant'
    BY HealthSteps, HealthKept
  <1> QED
    BY HealthStart, <1>1, <1>2, PTL DEF CommandsSpec

-----------------------------------------------------------------------------
(* `status` *)

LEMMA StatusSteps ==
  ASSUME [CommandsNext]_commandVars
  PROVE  FleetStatusNext \/ UNCHANGED statusVars
  BY DEF CommandsNext, RunContext, RunVersion, RunClusterList, RunStatusCommand,
         RunNodegroupScale, RunHealthCheck, RunUpgradeCheck, Finished, commandVars

LEMMA StatusStart == ASSUME CommandsInit PROVE StatusInvariant
  <1>1. FleetStatusInit
    BY DEF CommandsInit
  <1>2. /\ chosen \subseteq Fleets /\ running = FirstVersion /\ stopped = FALSE /\ faults = 0
        /\ exit = -1
    BY <1>1, FleetStatusAssumption DEF FleetStatusInit
  <1>3. /\ sweep = [r \in SweepRegions |-> "todo"] /\ job = [c \in Fleets |-> "todo"]
        /\ row = [c \in Fleets |-> ZeroRow] /\ imageFor = [c \in Fleets |-> 0]
        /\ groupJob = [g \in AllGroups |-> "todo"]
        /\ imageMemo = [c \in Fleets |-> NoMemo] /\ tierMemo = [r \in SweepRegions |-> NoMemo]
    BY <1>1 DEF FleetStatusInit, AllGroups
  <1>4. /\ ZeroRow.tier = "" /\ ZeroRow.staleImages = {} /\ ZeroRow.staleAddons = {}
        /\ ZeroRow.errors = {} /\ ZeroRow.version = 0 /\ DOMAIN ZeroRow = RowFields
    BY DEF ZeroRow, RowFields
  <1>5. DOMAIN NoMemo = {}
    BY DEF NoMemo
  <1>6. \A c \in Fleets : running[c] \in DOMAIN Tier /\ running[c] \in Nat
    BY <1>2, FleetStatusAssumption
  <1>7. FleetStatusTypeOK
    <2>1. /\ faults \in 0..MaxFaults /\ stopped \in BOOLEAN /\ exit \in {-1, 0, 1, 2, 3}
          /\ running \in [Fleets -> DOMAIN Tier]
      <3>1. MaxFaults \in Nat /\ FirstVersion \in [Fleets -> DOMAIN Tier]
        BY FleetStatusAssumption
      <3>2. faults \in 0..MaxFaults
        BY <1>2, <3>1
      <3> QED
        BY <1>2, <3>1, <3>2
    <2>2. sweep \in [SweepRegions -> {"todo", "rows", "merged", "failed"}]
      BY <1>3
    <2>3. ASSUME NEW c \in Fleets
          PROVE  job[c] = "todo" /\ row[c] = ZeroRow /\ imageFor[c] = 0
      BY <1>3
    <2>4. \A g \in DOMAIN groupJob : groupJob[g] = "todo"
      BY <1>3
    <2> QED
      BY <1>2, <1>4, <2>1, <2>2, <2>3, <2>4 DEF FleetStatusTypeOK
  <1>8. StatusShape
    BY <1>3, <1>4, <1>7 DEF StatusShape
  <1>9. \A c \in Fleets : RowHonest(c)
    <2> TAKE c \in Fleets
    <2>1. /\ job[c] = "todo" /\ row[c] = ZeroRow /\ imageFor[c] = 0 /\ DOMAIN imageMemo[c] = {}
          /\ FirstVersion[c] <= running[c]
      BY <1>2, <1>3, <1>5, <1>6
    <2> QED
      BY <1>4, <2>1 DEF RowHonest, RowStage, TierHonest, ImagesHonest
  <1>10. \A g \in AllGroups : GroupHonest(g) /\ GroupExact(g)
    BY <1>3 DEF GroupHonest, GroupExact
  <1>11. \A r \in SweepRegions : MemoHonest(r) /\ RegionExact(r)
    BY <1>3, <1>5 DEF MemoHonest, RegionExact
  <1>12. \A c \in Fleets : RowExact(c)
    BY <1>3, <1>5 DEF RowExact
  <1> QED
    BY <1>2, <1>8, <1>9, <1>10, <1>11, <1>12 DEF StatusInvariant

\* What holds of a row, a nodegroup or the exit code holds while they stand still.
LEMMA RowStands ==
  ASSUME NEW d, UNCHANGED running, job'[d] = job[d], row'[d] = row[d],
         imageFor'[d] = imageFor[d], imageMemo'[d] = imageMemo[d]
  PROVE  /\ RowHonest(d) => RowHonest(d)'
         /\ RowExact(d) => RowExact(d)'
  BY DEF RowHonest, RowStage, TierHonest, ImagesHonest, RowExact, Outdated

LEMMA GroupStands ==
  ASSUME NEW g, UNCHANGED running, groupJob'[g] = groupJob[g], imageFor'[g[1]] = imageFor[g[1]]
  PROVE  /\ GroupHonest(g) => GroupHonest(g)'
         /\ GroupExact(g) => GroupExact(g)'
  BY DEF GroupHonest, GroupExact, Outdated

LEMMA ExitStands ==
  ASSUME UNCHANGED <<chosen, running>> PROVE TrueExit' = TrueExit
  BY DEF TrueExit, Outdated

LEMMA CallsCounted ==
  ASSUME StatusShape, UNCHANGED stopped, Answers \/ Fails \/ UNCHANGED faults
  PROVE  /\ faults' \in 0..MaxFaults
         /\ ~stopped' /\ faults' = 0 => ~stopped /\ faults = 0 /\ ~Fails
  BY FleetStatusAssumption DEF StatusShape, FleetStatusTypeOK, Answers, Fails

\* A step of one row: what is left to show is what it does to the row, its nodegroups and
\* the memo of its region.
LEMMA RowMoves ==
  ASSUME StatusInvariant, NEW c \in Fleets, UNCHANGED <<worldVars, sweep, exit>>,
         Answers \/ Fails \/ UNCHANGED faults, job[c] = "done" => job'[c] = "done", StatusShape',
         \A d \in Fleets \ {c} : /\ job'[d] = job[d] /\ row'[d] = row[d]
                                 /\ imageFor'[d] = imageFor[d] /\ imageMemo'[d] = imageMemo[d],
         \A g \in AllGroups \ GroupsOf(c) :
           groupJob'[g] = groupJob[g] /\ imageFor'[g[1]] = imageFor[g[1]],
         \A r \in SweepRegions \ {Fleet[c].region} : tierMemo'[r] = tierMemo[r],
         RowHonest(c)', \A g \in GroupsOf(c) : GroupHonest(g)', MemoHonest(Fleet[c].region)',
         Uneventful /\ ~Fails =>
           /\ RowExact(c)' /\ \A g \in GroupsOf(c) : GroupExact(g)'
           /\ \A v \in DOMAIN tierMemo'[Fleet[c].region] :
                tierMemo'[Fleet[c].region][v] = Tier[v]
  PROVE  StatusInvariant'
  <1>1. /\ StatusShape /\ chosen' = chosen /\ running' = running /\ stopped' = stopped
        /\ sweep' = sweep /\ exit' = exit
    BY DEF StatusInvariant, worldVars
  <1>2. \A d \in Fleets : RowHonest(d)'
    <2> TAKE d \in Fleets
    <2>1. CASE d = c
      BY <2>1
    <2>2. CASE d # c
      BY <1>1, <2>2, RowStands DEF StatusInvariant
    <2> QED
      BY <2>1, <2>2
  <1>3. \A g \in AllGroups : GroupHonest(g)'
    BY <1>1, GroupStands DEF StatusInvariant
  <1>4. \A r \in SweepRegions : MemoHonest(r)'
    BY <1>1 DEF StatusInvariant, MemoHonest
  <1>5. Uneventful' => Uneventful /\ ~Fails
    BY <1>1, CallsCounted DEF Uneventful
  <1>6. Uneventful' => \A d \in Fleets : RowExact(d)'
    <2> SUFFICES ASSUME Uneventful', NEW d \in Fleets PROVE RowExact(d)'
      OBVIOUS
    <2>1. CASE d = c
      BY <1>5, <2>1
    <2>2. CASE d # c
      BY <1>1, <1>5, <2>2, RowStands DEF StatusInvariant
    <2> QED
      BY <2>1, <2>2
  <1>7. Uneventful' => \A g \in AllGroups : GroupExact(g)'
    BY <1>1, <1>5, GroupStands DEF StatusInvariant
  <1>8. Uneventful' => \A r \in SweepRegions : RegionExact(r)'
    <2> SUFFICES ASSUME Uneventful', NEW r \in SweepRegions PROVE RegionExact(r)'
      OBVIOUS
    <2>1. RegionExact(r)
      BY <1>5 DEF StatusInvariant
    <2>2. sweep'[r] # "failed"
          /\ (sweep'[r] = "merged" => \A d \in ClustersOf(r) : job[d] = "done")
      BY <1>1, <2>1 DEF RegionExact
    <2>3. ClustersOf(r)' = ClustersOf(r) /\ ClustersOf(r) \subseteq Fleets
      BY <1>1 DEF ClustersOf, StatusShape, FleetStatusTypeOK
    <2>4. \A d \in ClustersOf(r) : job[d] = "done" => job'[d] = "done"
      BY <2>3
    <2>5. \A v \in DOMAIN tierMemo'[r] : tierMemo'[r][v] = Tier[v]
      BY <1>5, <2>1 DEF RegionExact
    <2> QED
      BY <2>2, <2>3, <2>4, <2>5 DEF RegionExact
  <1>9. Uneventful' => (exit' # -1 => exit' = TrueExit')
    BY <1>1, <1>5, ExitStands DEF StatusInvariant
  <1> QED
    BY <1>2, <1>3, <1>4, <1>6, <1>7, <1>8, <1>9 DEF StatusInvariant

\* Types and domains after a step of one row.
LEMMA ShapeKept ==
  ASSUME StatusShape, NEW c \in Fleets, UNCHANGED <<worldVars, sweep, exit>>,
         Answers \/ Fails \/ UNCHANGED faults,
         DOMAIN job' = Fleets, DOMAIN row' = Fleets, DOMAIN row'[c] = RowFields,
         DOMAIN imageFor' = Fleets, DOMAIN imageMemo' = Fleets, DOMAIN groupJob' = AllGroups,
         DOMAIN tierMemo' = SweepRegions,
         \A d \in Fleets \ {c} : job'[d] = job[d] /\ row'[d] = row[d] /\ imageFor'[d] = imageFor[d],
         job'[c] \in {"todo", "describe", "support", "resolve", "groups", "images", "addons",
                      "done"},
         row'[c].version \in DOMAIN Tier \cup {0}, imageFor'[c] \in DOMAIN Tier \cup {0},
         row'[c].staleImages \subseteq DOMAIN Fleet[c].groups,
         row'[c].staleAddons \subseteq DOMAIN Fleet[c].addons,
         row'[c].errors \subseteq {"describe", "nodegroups", "addons"},
         \A g \in AllGroups : groupJob'[g] = groupJob[g] \/
           groupJob'[g] \in {"todo", "lookup", "dropped", "updating", "custom", "unknown",
                             "latest", "outdated"}
  PROVE  StatusShape'
  <1>1. faults' \in 0..MaxFaults /\ UNCHANGED <<chosen, running, stopped>>
    BY CallsCounted DEF worldVars
  <1>2. /\ chosen' \subseteq Fleets /\ running' \in [Fleets -> DOMAIN Tier] /\ stopped' \in BOOLEAN
        /\ sweep' \in [SweepRegions -> {"todo", "rows", "merged", "failed"}]
        /\ exit' \in {-1, 0, 1, 2, 3}
    BY <1>1 DEF StatusShape, FleetStatusTypeOK
  <1>3. ASSUME NEW d \in Fleets
        PROVE  /\ job'[d] \in {"todo", "describe", "support", "resolve", "groups", "images",
                               "addons", "done"}
               /\ row'[d].version \in DOMAIN Tier \cup {0} /\ imageFor'[d] \in DOMAIN Tier \cup {0}
               /\ row'[d].staleImages \subseteq DOMAIN Fleet[d].groups
               /\ row'[d].staleAddons \subseteq DOMAIN Fleet[d].addons
               /\ row'[d].errors \subseteq {"describe", "nodegroups", "addons"}
               /\ DOMAIN row'[d] = RowFields
    <2>1. CASE d = c
      BY <2>1
    <2>2. CASE d # c
      BY <2>2 DEF StatusShape, FleetStatusTypeOK
    <2> QED
      BY <2>1, <2>2
  <1>4. ASSUME NEW g \in AllGroups
        PROVE  groupJob'[g] \in {"todo", "lookup", "dropped", "updating", "custom", "unknown",
                                 "latest", "outdated"}
    BY DEF StatusShape, FleetStatusTypeOK
  <1>5. FleetStatusTypeOK'
    BY <1>1, <1>2, <1>3, <1>4 DEF FleetStatusTypeOK
  <1> QED
    BY <1>3, <1>5 DEF StatusShape

LEMMA TierStands ==
  ASSUME NEW d, row'[d].tier = row[d].tier, row'[d].version = row[d].version, TierHonest(d)
  PROVE  TierHonest(d)'
  BY DEF TierHonest

LEMMA TierGiven ==
  ASSUME NEW d, NEW v \in DOMAIN Tier, NEW tier \in {Tier[v], Calendar[v]},
         row'[d].tier = tier, row'[d].version = v
  PROVE  TierHonest(d)'
  <1>1. /\ Tier[v] \in {Tier[w] : w \in {v} \cap DOMAIN Tier}
        /\ Calendar[v] \in {Calendar[w] : w \in {v} \cap DOMAIN Tier}
    OBVIOUS
  <1>2. tier \in {"", "unknown"} \cup {Tier[w] : w \in {v} \cap DOMAIN Tier}
                  \cup {Calendar[w] : w \in {v} \cap DOMAIN Tier}
    BY <1>1
  <1> QED
    BY <1>2 DEF TierHonest

LEMMA ImagesStay ==
  ASSUME NEW d, UNCHANGED running, row'[d].staleImages = row[d].staleImages,
         imageFor'[d] = imageFor[d], imageMemo'[d] = imageMemo[d], ImagesHonest(d)
  PROVE  ImagesHonest(d)'
  BY DEF ImagesHonest, Outdated

\* One field of one row is set.
LEMMA FieldSet ==
  ASSUME StatusShape, NEW c \in Fleets, NEW k \in RowFields, NEW w,
         row' = [row EXCEPT ![c][k] = w]
  PROVE  /\ DOMAIN row' = Fleets /\ DOMAIN row'[c] = RowFields /\ row'[c][k] = w
         /\ \A f \in RowFields \ {k} : row'[c][f] = row[c][f]
         /\ \A d \in Fleets \ {c} : row'[d] = row[d]
  BY DEF StatusShape

LEMMA RowGoesOn ==
  ASSUME StatusShape, NEW c \in Fleets, NEW where, RowGoes(c, where)
  PROVE  /\ DOMAIN job' = Fleets /\ job'[c] = where
         /\ \A d \in Fleets \ {c} : job'[d] = job[d]
  BY DEF StatusShape, RowGoes

LEMMA ImagesStand ==
  ASSUME StatusInvariant, NEW c \in Fleets, UNCHANGED <<running, imageVars>>
  PROVE  /\ \A g \in GroupsOf(c) : GroupHonest(g)'
         /\ Uneventful => \A g \in GroupsOf(c) : GroupExact(g)'
  <1>1. GroupsOf(c) \subseteq AllGroups
    BY DEF AllGroups
  <1> QED
    BY <1>1, GroupStands DEF StatusInvariant, imageVars

\* A step that leaves the images and the memos alone.
LEMMA RowAlone ==
  ASSUME StatusInvariant, NEW c \in Fleets, NEW where,
         where \in {"todo", "describe", "support", "resolve", "groups", "images", "addons",
                    "done"},
         UNCHANGED <<worldVars, sweep, imageVars, tierMemo, exit>>,
         Answers \/ Fails \/ UNCHANGED faults, job[c] # "done", RowGoes(c, where),
         DOMAIN row' = Fleets, DOMAIN row'[c] = RowFields, \A d \in Fleets \ {c} : row'[d] = row[d],
         row'[c].version \in DOMAIN Tier \cup {0},
         row'[c].staleImages \subseteq DOMAIN Fleet[c].groups,
         row'[c].staleAddons \subseteq DOMAIN Fleet[c].addons,
         row'[c].errors \subseteq {"describe", "nodegroups", "addons"},
         RowStage(c)', TierHonest(c)', ImagesHonest(c)',
         Uneventful /\ ~Fails => RowExact(c)'
  PROVE  StatusInvariant'
  <1>1. /\ UNCHANGED <<worldVars, sweep, exit>> /\ UNCHANGED <<running, imageVars>>
        /\ imageFor' = imageFor /\ imageMemo' = imageMemo
        /\ groupJob' = groupJob /\ tierMemo' = tierMemo
    BY DEF worldVars, imageVars
  <1>2. StatusShape /\ Fleet[c].region \in SweepRegions
    BY FleetStatusAssumption DEF StatusInvariant
  <1>3. /\ DOMAIN job' = Fleets /\ job'[c] = where /\ \A d \in Fleets \ {c} : job'[d] = job[d]
    BY <1>2, RowGoesOn
  <1>4. StatusShape'
    BY <1>1, <1>2, <1>3, ShapeKept DEF StatusShape, FleetStatusTypeOK
  <1>5. RowHonest(c)'
    BY DEF RowHonest
  <1>6. MemoHonest(Fleet[c].region)'
    BY <1>1, <1>2 DEF StatusInvariant, MemoHonest
  <1>7. Uneventful => \A v \in DOMAIN tierMemo'[Fleet[c].region] :
                         tierMemo'[Fleet[c].region][v] = Tier[v]
    BY <1>1, <1>2 DEF StatusInvariant, RegionExact
  <1> QED
    BY <1>1, <1>3, <1>4, <1>5, <1>6, <1>7, RowMoves, ImagesStand

LEMMA StartRowKeeps ==
  ASSUME StatusInvariant, NEW c \in Fleets, StartRow(c) PROVE StatusInvariant'
  <1>1. /\ job[c] = "todo" /\ RowGoes(c, "describe") /\ row' = row /\ faults' = faults
        /\ UNCHANGED <<worldVars, sweep, imageVars, tierMemo, exit>>
    BY DEF StartRow, RowGoes
  <1>2. running' = running /\ imageFor' = imageFor /\ imageMemo' = imageMemo
    BY <1>1 DEF worldVars, imageVars
  <1>3. StatusShape /\ RowStage(c) /\ TierHonest(c) /\ ImagesHonest(c)
    BY DEF StatusInvariant, RowHonest
  <1>4. job'[c] = "describe"
    BY <1>1, <1>3, RowGoesOn
  <1>5. RowStage(c)' /\ TierHonest(c)' /\ ImagesHonest(c)'
    BY <1>1, <1>2, <1>3, <1>4, TierStands, ImagesStay DEF RowStage
  <1>6. Uneventful => RowExact(c)'
    BY <1>1, <1>2, <1>4 DEF StatusInvariant, RowExact
  <1> QED
    BY <1>1, <1>3, <1>5, <1>6, RowAlone DEF StatusShape, FleetStatusTypeOK

LEMMA DescribeKeeps ==
  ASSUME StatusInvariant, NEW c \in Fleets, Describe(c) PROVE StatusInvariant'
  <1>1. job[c] = "describe" /\ UNCHANGED <<worldVars, sweep, imageVars, tierMemo, exit>>
    BY DEF Describe
  <1>2. running' = running /\ imageFor' = imageFor /\ imageMemo' = imageMemo
    BY <1>1 DEF worldVars, imageVars
  <1>3. /\ StatusShape /\ ImagesHonest(c) /\ row[c] = ZeroRow /\ imageFor[c] = 0
        /\ running[c] \in DOMAIN Tier
    BY <1>1 DEF StatusInvariant, RowHonest, RowStage, StatusShape, FleetStatusTypeOK
  <1>4. DOMAIN row[c] = RowFields /\ DOMAIN row = Fleets
    BY <1>3 DEF StatusShape
  <1>5. /\ row[c].tier = "" /\ row[c].staleImages = {} /\ row[c].staleAddons = {}
        /\ row[c].errors = {} /\ row[c].version = 0
    <2>1. /\ ZeroRow.tier = "" /\ ZeroRow.staleImages = {} /\ ZeroRow.staleAddons = {}
          /\ ZeroRow.errors = {} /\ ZeroRow.version = 0
      BY DEF ZeroRow
    <2> QED
      BY <1>3, <2>1
  <1> DEFINE answered == [row EXCEPT ![c].named = TRUE, ![c].version = running[c],
                                     ![c].issues = Fleet[c].issues]
             failed == [row EXCEPT ![c].named = TRUE, ![c].tier = "unknown",
                                   ![c].errors = {"describe"}]
  <1>6. \/ Answers /\ RowGoes(c, "support") /\ row' = answered
        \/ Fails /\ RowGoes(c, "done") /\ row' = failed
    BY DEF Describe
  <1>7. /\ DOMAIN answered = Fleets /\ DOMAIN answered[c] = RowFields
        /\ answered[c].version = running[c] /\ answered[c].issues = Fleet[c].issues
        /\ answered[c].tier = "" /\ answered[c].staleImages = {} /\ answered[c].staleAddons = {}
        /\ answered[c].errors = {} /\ \A d \in Fleets \ {c} : answered[d] = row[d]
    BY <1>4, <1>5 DEF RowFields
  <1>8. /\ DOMAIN failed = Fleets /\ DOMAIN failed[c] = RowFields
        /\ failed[c].version = 0 /\ failed[c].tier = "unknown"
        /\ failed[c].staleImages = {} /\ failed[c].staleAddons = {}
        /\ failed[c].errors = {"describe"} /\ \A d \in Fleets \ {c} : failed[d] = row[d]
    BY <1>4, <1>5 DEF RowFields
  <1> HIDE DEF answered, failed
  <1>9. CASE Answers /\ RowGoes(c, "support") /\ row' = answered
    <2>1. job'[c] = "support"
      BY <1>3, <1>9, RowGoesOn
    <2>2. RowStage(c)'
      BY <1>2, <1>3, <1>7, <1>9, <2>1 DEF RowStage
    <2>3. TierHonest(c)'
      BY <1>7, <1>9 DEF TierHonest
    <2>4. ImagesHonest(c)'
      BY <1>2, <1>3, <1>5, <1>7, <1>9, ImagesStay
    <2>5. Uneventful => RowExact(c)'
      BY <1>1, <1>2, <1>7, <1>9, <2>1 DEF StatusInvariant, RowExact, Uneventful
    <2>6. /\ DOMAIN row' = Fleets /\ DOMAIN row'[c] = RowFields
          /\ \A d \in Fleets \ {c} : row'[d] = row[d]
          /\ row'[c].version \in DOMAIN Tier \cup {0} /\ row'[c].staleImages = {}
          /\ row'[c].staleAddons = {} /\ row'[c].errors = {}
      BY <1>3, <1>7, <1>9
    <2> QED
      BY <1>1, <1>9, <2>2, <2>3, <2>4, <2>5, <2>6, RowAlone
  <1>10. CASE Fails /\ RowGoes(c, "done") /\ row' = failed
    <2>1. job'[c] = "done"
      BY <1>3, <1>10, RowGoesOn
    <2>2. RowStage(c)'
      BY <2>1 DEF RowStage
    <2>3. TierHonest(c)'
      BY <1>8, <1>10 DEF TierHonest
    <2>4. ImagesHonest(c)'
      BY <1>2, <1>3, <1>5, <1>8, <1>10, ImagesStay
    <2>5. /\ DOMAIN row' = Fleets /\ DOMAIN row'[c] = RowFields
          /\ \A d \in Fleets \ {c} : row'[d] = row[d]
          /\ row'[c].version \in DOMAIN Tier \cup {0} /\ row'[c].staleImages = {}
          /\ row'[c].staleAddons = {} /\ row'[c].errors = {"describe"}
      BY <1>8, <1>10
    <2> QED
      BY <1>1, <1>10, <2>2, <2>3, <2>4, <2>5, RowAlone
  <1> QED
    BY <1>6, <1>9, <1>10

LEMMA ResolveSupportKeeps ==
  ASSUME StatusInvariant, NEW c \in Fleets, ResolveSupport(c) PROVE StatusInvariant'
  <1>1. /\ job[c] = "support" /\ faults' = faults
        /\ UNCHANGED <<worldVars, sweep, imageVars, tierMemo, exit>>
    BY DEF ResolveSupport
  <1>2. running' = running /\ imageFor' = imageFor /\ imageMemo' = imageMemo
    BY <1>1 DEF worldVars, imageVars
  <1>3. /\ StatusShape /\ RowStage(c) /\ TierHonest(c) /\ ImagesHonest(c)
        /\ Fleet[c].region \in SweepRegions /\ MemoHonest(Fleet[c].region)
        /\ row[c].version \in DOMAIN Tier
    BY <1>1, FleetStatusAssumption DEF StatusInvariant, RowHonest, RowStage
  <1>4. PICK v : v = row[c].version
    OBVIOUS
  <1>5. PICK memo : memo = tierMemo[Fleet[c].region]
    OBVIOUS
  <1>6. \/ RowGoes(c, "resolve") /\ row' = row
        \/ /\ v \in DOMAIN memo /\ row' = [row EXCEPT ![c]["tier"] = memo[v]]
           /\ RowGoes(c, "groups")
    BY <1>4, <1>5 DEF ResolveSupport, MemoTier
  <1>7. CASE RowGoes(c, "resolve") /\ row' = row
    <2>1. job'[c] = "resolve"
      BY <1>3, <1>7, RowGoesOn
    <2>2. RowStage(c)' /\ TierHonest(c)' /\ ImagesHonest(c)'
      BY <1>1, <1>2, <1>3, <1>7, <2>1, TierStands, ImagesStay DEF RowStage
    <2>3. Uneventful => RowExact(c)'
      BY <1>1, <1>2, <1>7, <2>1 DEF StatusInvariant, RowExact
    <2> QED
      BY <1>1, <1>3, <1>7, <2>2, <2>3, RowAlone DEF StatusShape, FleetStatusTypeOK
  <1>8. CASE /\ v \in DOMAIN memo /\ row' = [row EXCEPT ![c]["tier"] = memo[v]]
             /\ RowGoes(c, "groups")
    <2>1. job'[c] = "groups"
      BY <1>3, <1>8, RowGoesOn
    <2>2. /\ DOMAIN row' = Fleets /\ DOMAIN row'[c] = RowFields /\ row'[c].tier = memo[v]
          /\ \A f \in RowFields \ {"tier"} : row'[c][f] = row[c][f]
          /\ \A d \in Fleets \ {c} : row'[d] = row[d]
      BY <1>3, <1>8, FieldSet DEF RowFields
    <2>3. /\ row'[c].version = v /\ row'[c].staleImages = row[c].staleImages
          /\ row'[c].staleAddons = row[c].staleAddons /\ row'[c].errors = row[c].errors
          /\ row'[c].issues = row[c].issues
      BY <1>4, <2>2 DEF RowFields
    <2>4. memo[v] \in {Tier[v], Calendar[v]} /\ v \in DOMAIN Tier
      BY <1>3, <1>5, <1>8 DEF MemoHonest
    <2>5. TierHonest(c)'
      BY <2>2, <2>3, <2>4, TierGiven
    <2>6. RowStage(c)' /\ ImagesHonest(c)'
      BY <1>1, <1>2, <1>3, <1>4, <2>1, <2>3, ImagesStay DEF RowStage
    <2>7. ASSUME Uneventful PROVE RowExact(c)'
      <3>1. /\ v = FirstVersion[c] /\ row[c].issues = Fleet[c].issues /\ memo[v] = Tier[v]
            /\ RowExact(c)
        BY <1>1, <1>3, <1>4, <1>5, <1>8, <2>7 DEF StatusInvariant, RowExact, RegionExact
      <3> QED
        BY <1>2, <2>1, <2>2, <2>3, <3>1 DEF RowExact
    <2> QED
      BY <1>1, <1>3, <1>4, <1>8, <2>2, <2>3, <2>5, <2>6, <2>7, RowAlone
      DEF StatusShape, FleetStatusTypeOK
  <1> QED
    BY <1>6, <1>7, <1>8

LEMMA SupportDatesKeeps ==
  ASSUME StatusInvariant, NEW c \in Fleets, SupportDates(c) PROVE StatusInvariant'
  <1>1. /\ job[c] = "resolve" /\ RowGoes(c, "groups")
        /\ UNCHANGED <<worldVars, sweep, imageVars, exit>>
    BY DEF SupportDates
  <1>2. /\ UNCHANGED <<worldVars, sweep, exit>> /\ UNCHANGED <<running, imageVars>>
        /\ running' = running /\ imageFor' = imageFor /\ imageMemo' = imageMemo
        /\ groupJob' = groupJob
    BY <1>1 DEF worldVars, imageVars
  <1>3. /\ StatusShape /\ RowStage(c) /\ TierHonest(c) /\ ImagesHonest(c)
        /\ row[c].version \in DOMAIN Tier
    BY <1>1, FleetStatusAssumption DEF StatusInvariant, RowHonest, RowStage
  <1>4. PICK r \in SweepRegions : r = Fleet[c].region
    BY FleetStatusAssumption
  <1>5. PICK v \in DOMAIN Tier : v = row[c].version
    BY <1>3
  <1>6. PICK tier \in {Tier[v], Calendar[v]} :
          /\ (Answers /\ tier = Tier[v]) \/ (Fails /\ tier = Calendar[v])
          /\ row' = [row EXCEPT ![c]["tier"] = tier]
          /\ tierMemo' = [tierMemo EXCEPT ![r] =
                 [w \in DOMAIN tierMemo[r] \cup {v} |-> IF w = v THEN tier ELSE tierMemo[r][w]]]
    BY <1>4, <1>5 DEF SupportDates
  <1>7. /\ DOMAIN tierMemo' = SweepRegions /\ DOMAIN tierMemo'[r] = DOMAIN tierMemo[r] \cup {v}
        /\ \A w \in DOMAIN tierMemo'[r] :
             tierMemo'[r][w] = IF w = v THEN tier ELSE tierMemo[r][w]
        /\ \A s \in SweepRegions \ {r} : tierMemo'[s] = tierMemo[s]
    BY <1>3, <1>6 DEF StatusShape
  <1>8. /\ DOMAIN job' = Fleets /\ job'[c] = "groups" /\ \A d \in Fleets \ {c} : job'[d] = job[d]
    BY <1>1, <1>3, RowGoesOn
  <1>9. /\ DOMAIN row' = Fleets /\ DOMAIN row'[c] = RowFields /\ row'[c].tier = tier
        /\ \A f \in RowFields \ {"tier"} : row'[c][f] = row[c][f]
        /\ \A d \in Fleets \ {c} : row'[d] = row[d]
    BY <1>3, <1>6, FieldSet DEF RowFields
  <1>10. /\ row'[c].version = v /\ row'[c].staleImages = row[c].staleImages
         /\ row'[c].staleAddons = row[c].staleAddons /\ row'[c].errors = row[c].errors
         /\ row'[c].issues = row[c].issues
    BY <1>5, <1>9 DEF RowFields
  <1>11. StatusShape'
    BY <1>2, <1>3, <1>6, <1>7, <1>8, <1>9, <1>10, ShapeKept DEF StatusShape, FleetStatusTypeOK
  <1>12. RowHonest(c)'
    <2>1. TierHonest(c)'
      BY <1>9, <1>10, TierGiven
    <2>2. RowStage(c)' /\ ImagesHonest(c)'
      BY <1>1, <1>2, <1>3, <1>8, <1>10, ImagesStay DEF RowStage
    <2> QED
      BY <2>1, <2>2 DEF RowHonest
  <1>13. MemoHonest(r)'
    BY <1>7 DEF StatusInvariant, MemoHonest
  <1>14. ASSUME Uneventful, ~Fails
         PROVE  RowExact(c)' /\ \A w \in DOMAIN tierMemo'[r] : tierMemo'[r][w] = Tier[w]
    <2>1. tier = Tier[v] /\ RowExact(c) /\ RegionExact(r)
      BY <1>6, <1>14 DEF StatusInvariant
    <2>2. v = FirstVersion[c] /\ row[c].issues = Fleet[c].issues
      BY <1>1, <1>5, <2>1 DEF RowExact
    <2>3. RowExact(c)'
      BY <1>2, <1>8, <1>9, <1>10, <2>1, <2>2 DEF RowExact
    <2> QED
      BY <1>7, <2>1, <2>3 DEF RegionExact
  <1>15. /\ \A s \in SweepRegions \ {Fleet[c].region} : tierMemo'[s] = tierMemo[s]
         /\ MemoHonest(Fleet[c].region)'
         /\ Uneventful /\ ~Fails =>
              /\ RowExact(c)'
              /\ \A w \in DOMAIN tierMemo'[Fleet[c].region] :
                   tierMemo'[Fleet[c].region][w] = Tier[w]
    BY <1>4, <1>7, <1>13, <1>14
  <1>16. Answers \/ Fails
    BY <1>6
  <1> QED
    BY <1>1, <1>2, <1>8, <1>9, <1>11, <1>12, <1>15, <1>16, RowMoves, ImagesStand

LEMMA ListGroupsKeeps ==
  ASSUME StatusInvariant, NEW c \in Fleets, ListGroups(c) PROVE StatusInvariant'
  <1>1. /\ job[c] = "groups"
        /\ UNCHANGED <<worldVars, sweep, groupJob, imageMemo, tierMemo, exit>>
    BY DEF ListGroups
  <1>2. /\ UNCHANGED <<worldVars, sweep, exit>> /\ running' = running /\ imageMemo' = imageMemo
        /\ groupJob' = groupJob /\ tierMemo' = tierMemo
    BY <1>1 DEF worldVars
  <1>3. /\ StatusShape /\ RowStage(c) /\ TierHonest(c) /\ ImagesHonest(c)
        /\ Fleet[c].region \in SweepRegions /\ imageFor[c] = 0 /\ row[c].version \in DOMAIN Tier
    BY <1>1, FleetStatusAssumption DEF StatusInvariant, RowHonest, RowStage
  <1>4. \/ /\ Answers /\ RowGoes(c, "images") /\ row' = row
           /\ imageFor' = [imageFor EXCEPT ![c] = running[c]]
        \/ /\ Fails /\ RowGoes(c, "addons") /\ imageFor' = imageFor
           /\ row' = [row EXCEPT ![c]["errors"] = row[c].errors \cup {"nodegroups"}]
    BY DEF ListGroups
  <1>5. CASE /\ Answers /\ RowGoes(c, "images") /\ row' = row
             /\ imageFor' = [imageFor EXCEPT ![c] = running[c]]
    <2>1. /\ DOMAIN job' = Fleets /\ job'[c] = "images" /\ \A d \in Fleets \ {c} : job'[d] = job[d]
      BY <1>3, <1>5, RowGoesOn
    <2>2. /\ DOMAIN imageFor' = Fleets /\ imageFor'[c] = running[c]
          /\ \A d \in Fleets \ {c} : imageFor'[d] = imageFor[d]
      BY <1>3, <1>5 DEF StatusShape
    <2>3. /\ running[c] \in DOMAIN Tier /\ running[c] \in Nat \ {0} /\ FirstVersion[c] \in Nat
      BY <1>3, FleetStatusAssumption DEF StatusShape, FleetStatusTypeOK
    <2>4. StatusShape'
      BY <1>2, <1>3, <1>5, <2>1, <2>2, <2>3, ShapeKept DEF StatusShape, FleetStatusTypeOK
    <2>5. RowStage(c)'
      BY <1>3, <1>5, <2>1, <2>2, <2>3 DEF RowStage
    <2>6. TierHonest(c)'
      BY <1>3, <1>5, TierStands
    <2>7. ImagesHonest(c)'
      <3>1. /\ FirstVersion[c] <= running'[c]
            /\ \A g \in row'[c].staleImages :
                 \E v \in FirstVersion[c]..running'[c] : Outdated(c, g, v)
        BY <1>2, <1>3, <1>5 DEF ImagesHonest
      <3>2. DOMAIN imageMemo'[c] = {}
        BY <1>2, <1>3 DEF ImagesHonest
      <3>3. imageFor'[c] \in FirstVersion[c]..running'[c]
        BY <1>2, <2>2, <2>3, <3>1
      <3> QED
        BY <2>2, <2>3, <3>1, <3>2, <3>3 DEF ImagesHonest, Outdated
    <2>8. \A g \in GroupsOf(c) : groupJob'[g] = "todo"
      <3>1. \A g \in GroupsOf(c) : g \in AllGroups /\ g[1] = c
        BY DEF AllGroups, GroupsOf
      <3> QED
        BY <1>2, <1>3, <3>1 DEF StatusInvariant, GroupHonest
    <2>9. \A g \in GroupsOf(c) : GroupHonest(g)' /\ GroupExact(g)'
      BY <2>8 DEF GroupHonest, GroupExact
    <2>10. Uneventful => RowExact(c)'
      BY <1>1, <1>2, <1>5, <2>1 DEF StatusInvariant, RowExact
    <2>11. MemoHonest(Fleet[c].region)'
      BY <1>2, <1>3 DEF StatusInvariant, MemoHonest
    <2>12. Uneventful => \A v \in DOMAIN tierMemo'[Fleet[c].region] :
                           tierMemo'[Fleet[c].region][v] = Tier[v]
      BY <1>2, <1>3 DEF StatusInvariant, RegionExact
    <2>13. \A g \in AllGroups \ GroupsOf(c) : imageFor'[g[1]] = imageFor[g[1]]
      BY <2>2 DEF AllGroups, GroupsOf
    <2> QED
      BY <1>1, <1>2, <1>5, <2>1, <2>2, <2>4, <2>5, <2>6, <2>7, <2>9, <2>10, <2>11, <2>12, <2>13,
         RowMoves DEF RowHonest
  <1>6. CASE /\ Fails /\ RowGoes(c, "addons") /\ imageFor' = imageFor
             /\ row' = [row EXCEPT ![c]["errors"] = row[c].errors \cup {"nodegroups"}]
    <2>1. job'[c] = "addons"
      BY <1>3, <1>6, RowGoesOn
    <2>2. /\ DOMAIN row' = Fleets /\ DOMAIN row'[c] = RowFields
          /\ row'[c].errors = row[c].errors \cup {"nodegroups"}
          /\ \A f \in RowFields \ {"errors"} : row'[c][f] = row[c][f]
          /\ \A d \in Fleets \ {c} : row'[d] = row[d]
      BY <1>3, <1>6, FieldSet DEF RowFields
    <2>3. /\ row'[c].version = row[c].version /\ row'[c].staleImages = row[c].staleImages
          /\ row'[c].staleAddons = row[c].staleAddons /\ row'[c].tier = row[c].tier
      BY <2>2 DEF RowFields
    <2>4. RowStage(c)' /\ TierHonest(c)' /\ ImagesHonest(c)'
      BY <1>1, <1>2, <1>3, <1>6, <2>1, <2>3, TierStands, ImagesStay DEF RowStage
    <2>5. UNCHANGED <<worldVars, sweep, imageVars, tierMemo, exit>>
      BY <1>1, <1>6 DEF imageVars
    <2> QED
      BY <1>1, <1>3, <1>6, <2>2, <2>3, <2>4, <2>5, RowAlone DEF StatusShape, FleetStatusTypeOK
  <1> QED
    BY <1>4, <1>5, <1>6

LEMMA StaleAMISummaryKeeps ==
  ASSUME StatusInvariant, NEW c \in Fleets, StaleAMISummary(c) PROVE StatusInvariant'
  <1> DEFINE stale == {g[2] : g \in {h \in GroupsOf(c) : groupJob[h] = "outdated"}}
  <1>1. /\ job[c] = "images" /\ RowGoes(c, "addons") /\ faults' = faults
        /\ row' = [row EXCEPT ![c]["staleImages"] = stale]
        /\ \A g \in GroupsOf(c) : groupJob[g] \notin {"todo", "lookup"}
        /\ UNCHANGED <<worldVars, sweep, imageVars, tierMemo, exit>>
    BY DEF StaleAMISummary
  <1>2. running' = running /\ imageFor' = imageFor /\ imageMemo' = imageMemo
    BY <1>1 DEF worldVars, imageVars
  <1>3. /\ StatusShape /\ RowStage(c) /\ TierHonest(c) /\ ImagesHonest(c)
        /\ row[c].version \in DOMAIN Tier
    BY <1>1 DEF StatusInvariant, RowHonest, RowStage
  <1>4. \A x \in DOMAIN Fleet[c].groups : <<c, x>> \in GroupsOf(c) /\ <<c, x>> \in AllGroups
    BY DEF GroupsOf, AllGroups
  <1>5. stale = {x \in DOMAIN Fleet[c].groups : groupJob[<<c, x>>] = "outdated"}
    BY <1>4 DEF GroupsOf
  <1> HIDE DEF stale
  <1>6. job'[c] = "addons"
    BY <1>1, <1>3, RowGoesOn
  <1>7. /\ DOMAIN row' = Fleets /\ DOMAIN row'[c] = RowFields /\ row'[c].staleImages = stale
        /\ \A f \in RowFields \ {"staleImages"} : row'[c][f] = row[c][f]
        /\ \A d \in Fleets \ {c} : row'[d] = row[d]
    BY <1>1, <1>3, FieldSet DEF RowFields
  <1>8. /\ row'[c].version = row[c].version /\ row'[c].tier = row[c].tier
        /\ row'[c].staleAddons = row[c].staleAddons /\ row'[c].errors = row[c].errors
        /\ row'[c].issues = row[c].issues
    BY <1>7 DEF RowFields
  <1>9. RowStage(c)' /\ TierHonest(c)'
    BY <1>1, <1>2, <1>3, <1>6, <1>8, TierStands DEF RowStage
  <1>10. ImagesHonest(c)'
    <2>1. ASSUME NEW x \in stale
          PROVE  \E v \in FirstVersion[c]..running[c] : Outdated(c, x, v)
      <3>1. <<c, x>> \in AllGroups /\ groupJob[<<c, x>>] = "outdated"
        BY <1>4, <1>5, <2>1
      <3>2. GroupHonest(<<c, x>>)
        BY <3>1 DEF StatusInvariant
      <3> QED
        BY <3>1, <3>2 DEF GroupHonest
    <2> QED
      BY <1>2, <1>3, <1>7, <2>1 DEF ImagesHonest, Outdated
  <1>11. ASSUME Uneventful PROVE RowExact(c)'
    <2>1. ASSUME NEW x \in DOMAIN Fleet[c].groups
          PROVE  groupJob[<<c, x>>] = "outdated" <=> Outdated(c, x, FirstVersion[c])
      <3>1. GroupExact(<<c, x>>)
        BY <1>4, <1>11 DEF StatusInvariant
      <3> QED
        BY <1>1, <1>4, <3>1 DEF GroupExact
    <2>2. row'[c].staleImages
            = {x \in DOMAIN Fleet[c].groups : Outdated(c, x, FirstVersion[c])}
      BY <1>5, <1>7, <2>1
    <2>3. RowExact(c)
      BY <1>11 DEF StatusInvariant
    <2> QED
      BY <1>1, <1>2, <1>6, <1>8, <2>2, <2>3 DEF RowExact, Outdated
  <1>12. row'[c].staleImages \subseteq DOMAIN Fleet[c].groups
    BY <1>5, <1>7
  <1> QED
    BY <1>1, <1>3, <1>7, <1>8, <1>9, <1>10, <1>11, <1>12, RowAlone
    DEF StatusShape, FleetStatusTypeOK

LEMMA AddonsBehindKeeps ==
  ASSUME StatusInvariant, NEW c \in Fleets, AddonsBehind(c) PROVE StatusInvariant'
  <1>1. /\ job[c] = "addons" /\ RowGoes(c, "done")
        /\ UNCHANGED <<worldVars, sweep, imageVars, tierMemo, exit>>
    BY DEF AddonsBehind
  <1>2. running' = running /\ imageFor' = imageFor /\ imageMemo' = imageMemo
    BY <1>1 DEF worldVars, imageVars
  <1>3. /\ StatusShape /\ RowStage(c) /\ TierHonest(c) /\ ImagesHonest(c)
        /\ row[c].version \in DOMAIN Tier
    BY <1>1 DEF StatusInvariant, RowHonest, RowStage
  <1>4. job'[c] = "done"
    BY <1>1, <1>3, RowGoesOn
  <1>5. RowStage(c)'
    BY <1>4 DEF RowStage
  <1> DEFINE installed == Fleet[c].addons
             latest == LatestAddon[row[c].version]
             older(unread, unknown) == {a \in DOMAIN installed \ unknown :
                                          a \in unread \/ installed[a] < latest[a]}
  <1>6. \/ Fails /\ row' = [row EXCEPT ![c]["errors"] = row[c].errors \cup {"addons"}]
        \/ \E unread \in SUBSET DOMAIN installed : \E unknown \in SUBSET DOMAIN installed :
             /\ IF unread \cup unknown = {} THEN Answers ELSE Fails
             /\ row' = [row EXCEPT ![c]["staleAddons"] = older(unread, unknown)]
    BY DEF AddonsBehind
  <1>7. CASE Fails /\ row' = [row EXCEPT ![c]["errors"] = row[c].errors \cup {"addons"}]
    <2>1. /\ DOMAIN row' = Fleets /\ DOMAIN row'[c] = RowFields
          /\ row'[c].errors = row[c].errors \cup {"addons"}
          /\ \A f \in RowFields \ {"errors"} : row'[c][f] = row[c][f]
          /\ \A d \in Fleets \ {c} : row'[d] = row[d]
      <3>1. PICK errors : errors = row[c].errors \cup {"addons"}
        OBVIOUS
      <3>2. row' = [row EXCEPT ![c]["errors"] = errors] /\ "errors" \in RowFields
        BY <1>7, <3>1 DEF RowFields
      <3> QED
        BY <1>3, <3>1, <3>2, FieldSet
    <2>2. /\ row'[c].version = row[c].version /\ row'[c].staleImages = row[c].staleImages
          /\ row'[c].staleAddons = row[c].staleAddons /\ row'[c].tier = row[c].tier
      BY <2>1 DEF RowFields
    <2>3. TierHonest(c)' /\ ImagesHonest(c)'
      BY <1>2, <1>3, <2>2, TierStands, ImagesStay
    <2> QED
      BY <1>1, <1>3, <1>5, <1>7, <2>1, <2>2, <2>3, RowAlone DEF StatusShape, FleetStatusTypeOK
  <1>8. ASSUME NEW unread \in SUBSET DOMAIN installed, NEW unknown \in SUBSET DOMAIN installed,
               IF unread \cup unknown = {} THEN Answers ELSE Fails,
               row' = [row EXCEPT ![c]["staleAddons"] = older(unread, unknown)]
        PROVE  StatusInvariant'
    <2>1. PICK behindNow : behindNow = older(unread, unknown)
      OBVIOUS
    <2>2. /\ DOMAIN row' = Fleets /\ DOMAIN row'[c] = RowFields /\ row'[c].staleAddons = behindNow
          /\ \A f \in RowFields \ {"staleAddons"} : row'[c][f] = row[c][f]
          /\ \A d \in Fleets \ {c} : row'[d] = row[d]
      BY <1>3, <1>8, <2>1, FieldSet DEF RowFields
    <2>3. /\ row'[c].version = row[c].version /\ row'[c].staleImages = row[c].staleImages
          /\ row'[c].tier = row[c].tier /\ row'[c].errors = row[c].errors
          /\ row'[c].issues = row[c].issues
      BY <2>2 DEF RowFields
    <2>4. TierHonest(c)' /\ ImagesHonest(c)'
      BY <1>2, <1>3, <2>3, TierStands, ImagesStay
    <2>5. behindNow \subseteq DOMAIN Fleet[c].addons /\ (Answers \/ Fails)
      BY <1>8, <2>1
    <2>6. ASSUME Uneventful, ~Fails PROVE RowExact(c)'
      <3>1. unread = {} /\ unknown = {}
        BY <1>8, <2>6
      <3>2. RowExact(c)
        BY <2>6 DEF StatusInvariant
      <3>3. row[c].version = FirstVersion[c]
        BY <1>1, <3>2 DEF RowExact
      <3>4. row'[c].staleAddons = {a \in DOMAIN Fleet[c].addons :
                                     Fleet[c].addons[a] < LatestAddon[FirstVersion[c]][a]}
        BY <2>1, <2>2, <3>1, <3>3
      <3> QED
        BY <1>1, <1>2, <1>4, <2>3, <3>2, <3>4 DEF RowExact
    <2> QED
      BY <1>1, <1>3, <1>5, <2>2, <2>3, <2>4, <2>5, <2>6, RowAlone
      DEF StatusShape, FleetStatusTypeOK
  <1> QED
    BY <1>6, <1>7, <1>8

LEMMA Classified ==
  ASSUME NEW ng, NEW current, NEW latest
  PROVE  /\ ClassifyAMI(ng, current, latest)
              \in {"updating", "custom", "unknown", "latest", "outdated"}
         /\ ClassifyAMI(ng, current, latest) = "outdated" <=>
              /\ ng.status # "UPDATING" /\ ng.type # Custom
              /\ current # NoImage /\ latest # NoImage /\ current # latest
  BY DEF ClassifyAMI, Custom

\* What a nodegroup may be judged by: an image its type has at the version listed for.
Fits(g, latest) ==
  LET type == Fleet[g[1]].groups[g[2]].type
  IN  latest = NoImage \/ (type # Custom /\ latest = LatestImage[imageFor[g[1]]][type])

Known(g, latest) == latest # NoImage \/ Fleet[g[1]].groups[g[2]].type = Custom

JudgedWell(g, latest, from) ==
  /\ DOMAIN groupJob' = AllGroups
  /\ \A h \in AllGroups \ {g} : groupJob'[h] = groupJob[h]
  /\ groupJob'[g] \in {"updating", "custom", "unknown", "latest", "outdated"}
  /\ groupJob'[g] = "outdated" => Outdated(g[1], g[2], imageFor[g[1]])
  /\ Fails \/ UNCHANGED faults
  /\ ~Fails /\ Known(g, latest)
       => (Outdated(g[1], g[2], imageFor[g[1]]) => groupJob'[g] = "outdated")
  /\ ~Fails /\ from = "lookup" => Known(g, latest)

\* Judged by an image that its cluster's version recommends, a nodegroup is stale only if
\* it is outdated for that version, and exactly then if no call failed.
LEMMA JudgedRight ==
  ASSUME StatusShape, NEW g \in AllGroups, NEW latest, NEW from,
         Judged(g, latest, from), Fits(g, latest)
  PROVE  JudgedWell(g, latest, from)
  <1>1. PICK ng : ng = Fleet[g[1]].groups[g[2]]
    OBVIOUS
  <1>2. PICK current \in {ng.image, NoImage} :
          /\ IF current = NoImage \/ (from = "lookup" /\ latest = NoImage /\ ng.type # Custom)
             THEN Fails ELSE UNCHANGED faults
          /\ groupJob' = [groupJob EXCEPT ![g] = ClassifyAMI(ng, current, latest)]
    BY <1>1 DEF Judged, GroupGoes
  <1>3. /\ DOMAIN groupJob' = AllGroups /\ groupJob'[g] = ClassifyAMI(ng, current, latest)
        /\ \A h \in AllGroups \ {g} : groupJob'[h] = groupJob[h]
    BY <1>2 DEF StatusShape
  <1>. PICK v : v = imageFor[g[1]]
    OBVIOUS
  <1>4. Outdated(g[1], g[2], v) <=>
          /\ ng.status # "UPDATING" /\ ng.type # Custom /\ ng.image # LatestImage[v][ng.type]
    BY <1>1 DEF Outdated
  <1>5. /\ latest = NoImage \/ (ng.type # Custom /\ latest = LatestImage[v][ng.type])
        /\ Known(g, latest) <=> latest # NoImage \/ ng.type = Custom
    BY <1>1 DEF Fits, Known
  <1>6. groupJob'[g] \in {"updating", "custom", "unknown", "latest", "outdated"}
    BY <1>3, Classified
  <1>7. groupJob'[g] = "outdated" <=>
          /\ ng.status # "UPDATING" /\ ng.type # Custom
          /\ current # NoImage /\ latest # NoImage /\ current # latest
    BY <1>3, Classified
  <1>8. groupJob'[g] = "outdated" => Outdated(g[1], g[2], v)
    BY <1>2, <1>4, <1>5, <1>7
  <1>9. ~Fails /\ Known(g, latest) => (Outdated(g[1], g[2], v) => groupJob'[g] = "outdated")
    BY <1>2, <1>4, <1>5, <1>7
  <1>10. ~Fails /\ from = "lookup" => Known(g, latest)
    BY <1>2, <1>5
  <1> QED
    BY <1>2, <1>3, <1>6, <1>8, <1>9, <1>10 DEF JudgedWell

\* A step of one nodegroup: what is left to show is what it does to the memo of its
\* cluster.
LEMMA GroupMoves ==
  ASSUME StatusInvariant, NEW c \in Fleets, NEW g \in GroupsOf(c),
         UNCHANGED <<worldVars, sweep, job, row, imageFor, tierMemo, exit>>,
         Answers \/ Fails \/ UNCHANGED faults,
         DOMAIN groupJob' = AllGroups, \A h \in AllGroups \ {g} : groupJob'[h] = groupJob[h],
         groupJob'[g] \in {"todo", "lookup", "dropped", "updating", "custom", "unknown",
                           "latest", "outdated"},
         imageFor[c] # 0, groupJob'[g] = "outdated" => Outdated(c, g[2], imageFor[c]),
         Uneventful /\ ~Fails /\ groupJob'[g] \notin {"todo", "lookup"} =>
           (Outdated(c, g[2], FirstVersion[c]) => groupJob'[g] = "outdated"),
         DOMAIN imageMemo' = Fleets, \A d \in Fleets \ {c} : imageMemo'[d] = imageMemo[d],
         \A t \in DOMAIN imageMemo'[c] :
           \/ imageMemo'[c][t] = NoImage
           \/ t # Custom /\ imageMemo'[c][t] = LatestImage[imageFor[c]][t],
         Uneventful /\ ~Fails =>
           \A t \in DOMAIN imageMemo'[c] :
             t # Custom => /\ imageMemo'[c][t] = LatestImage[FirstVersion[c]][t]
                           /\ imageMemo'[c][t] # NoImage
  PROVE  StatusInvariant'
  <1>1. /\ UNCHANGED <<worldVars, sweep, exit>> /\ running' = running /\ job' = job /\ row' = row
        /\ imageFor' = imageFor /\ tierMemo' = tierMemo
    BY DEF worldVars
  <1>2. /\ StatusShape /\ RowStage(c) /\ TierHonest(c) /\ ImagesHonest(c)
        /\ Fleet[c].region \in SweepRegions
    BY FleetStatusAssumption DEF StatusInvariant, RowHonest
  <1>3. g \in AllGroups /\ g[1] = c /\ \A h \in GroupsOf(c) : h \in AllGroups /\ h[1] = c
    BY DEF AllGroups, GroupsOf
  <1>4. StatusShape'
    BY <1>1, <1>2, ShapeKept DEF StatusShape, FleetStatusTypeOK
  <1>5. imageFor[c] \in FirstVersion[c]..running[c]
    BY <1>2 DEF ImagesHonest
  <1>6. RowHonest(c)'
    <2>1. RowStage(c)' /\ TierHonest(c)'
      BY <1>1, <1>2, TierStands DEF RowStage
    <2>2. ImagesHonest(c)'
      BY <1>1, <1>2 DEF ImagesHonest, Outdated
    <2> QED
      BY <2>1, <2>2 DEF RowHonest
  <1>7. ASSUME NEW h \in GroupsOf(c) PROVE GroupHonest(h)'
    <2>1. CASE h = g
      <3>1. groupJob'[g] = "outdated" => Outdated(c, g[2], imageFor[c])'
        BY <1>1 DEF Outdated
      <3> QED
        BY <1>1, <1>3, <1>5, <2>1, <3>1 DEF GroupHonest
    <2>2. CASE h # g
      BY <1>1, <1>3, <2>2, GroupStands DEF StatusInvariant
    <2> QED
      BY <2>1, <2>2
  <1>8. ASSUME Uneventful, ~Fails, NEW h \in GroupsOf(c) PROVE GroupExact(h)'
    <2>1. CASE h = g
      <3>1. imageFor[c] = FirstVersion[c]
        BY <1>2, <1>5, <1>8, FleetStatusAssumption DEF Uneventful, StatusShape, FleetStatusTypeOK
      <3>2. Outdated(c, g[2], FirstVersion[c])' <=> Outdated(c, g[2], FirstVersion[c])
        BY DEF Outdated
      <3> QED
        BY <1>3, <1>8, <2>1, <3>1, <3>2 DEF GroupExact
    <2>2. CASE h # g
      BY <1>1, <1>3, <1>8, <2>2, GroupStands DEF StatusInvariant
    <2> QED
      BY <2>1, <2>2
  <1>9. Uneventful /\ ~Fails => RowExact(c)'
    BY <1>1 DEF StatusInvariant, RowExact, Outdated
  <1>10. MemoHonest(Fleet[c].region)'
    BY <1>1, <1>2 DEF StatusInvariant, MemoHonest
  <1>11. Uneventful => \A v \in DOMAIN tierMemo'[Fleet[c].region] :
                          tierMemo'[Fleet[c].region][v] = Tier[v]
    BY <1>1, <1>2 DEF StatusInvariant, RegionExact
  <1>12. \A h \in AllGroups \ GroupsOf(c) : groupJob'[h] = groupJob[h]
    OBVIOUS
  <1> QED
    BY <1>1, <1>4, <1>6, <1>7, <1>8, <1>9, <1>10, <1>11, <1>12, RowMoves

LEMMA GroupDropsKeeps ==
  ASSUME StatusInvariant, NEW c \in Fleets, NEW g \in GroupsOf(c), GroupDrops(g)
  PROVE  StatusInvariant'
  <1>1. g \in AllGroups /\ g[1] = c
    BY DEF AllGroups, GroupsOf
  <1>2. /\ job[c] = "images" /\ Fails /\ groupJob' = [groupJob EXCEPT ![g] = "dropped"]
        /\ UNCHANGED <<worldVars, sweep, job, row, imageFor, imageMemo, tierMemo, exit>>
    BY <1>1 DEF GroupDrops, GroupGoes
  <1>3. StatusShape /\ RowStage(c) /\ ImagesHonest(c)
    BY DEF StatusInvariant, RowHonest
  <1>4. /\ DOMAIN groupJob' = AllGroups /\ groupJob'[g] = "dropped"
        /\ \A h \in AllGroups \ {g} : groupJob'[h] = groupJob[h]
    BY <1>1, <1>2, <1>3 DEF StatusShape
  <1>5. imageFor[c] # 0 /\ imageMemo' = imageMemo /\ DOMAIN imageMemo' = Fleets
    BY <1>2, <1>3 DEF RowStage, StatusShape
  <1>6. \A t \in DOMAIN imageMemo'[c] :
          \/ imageMemo'[c][t] = NoImage
          \/ t # Custom /\ imageMemo'[c][t] = LatestImage[imageFor[c]][t]
    BY <1>3, <1>5 DEF ImagesHonest
  <1> QED
    BY <1>2, <1>4, <1>5, <1>6, GroupMoves

LEMMA MemoImageKeeps ==
  ASSUME StatusInvariant, NEW c \in Fleets, NEW g \in GroupsOf(c), MemoImage(g)
  PROVE  StatusInvariant'
  <1>1. g \in AllGroups /\ g[1] = c
    BY DEF AllGroups, GroupsOf
  <1>2. PICK type : type = Fleet[g[1]].groups[g[2]].type
    OBVIOUS
  <1>3. /\ job[c] = "images"
        /\ \/ type \in DOMAIN imageMemo[c] /\ Judged(g, imageMemo[c][type], "memo")
           \/ groupJob' = [groupJob EXCEPT ![g] = "lookup"] /\ UNCHANGED faults
        /\ UNCHANGED <<worldVars, sweep, job, row, imageFor, imageMemo, tierMemo, exit>>
    BY <1>1, <1>2 DEF MemoImage, GroupGoes
  <1>4. StatusShape /\ RowStage(c) /\ ImagesHonest(c)
    BY DEF StatusInvariant, RowHonest
  <1>5. imageFor[c] # 0 /\ imageMemo' = imageMemo /\ DOMAIN imageMemo' = Fleets
    BY <1>3, <1>4 DEF RowStage, StatusShape
  <1>6. \A t \in DOMAIN imageMemo'[c] :
          \/ imageMemo'[c][t] = NoImage
          \/ t # Custom /\ imageMemo'[c][t] = LatestImage[imageFor[c]][t]
    BY <1>4, <1>5 DEF ImagesHonest
  <1>7. Uneventful => \A t \in DOMAIN imageMemo'[c] :
                         t # Custom => /\ imageMemo'[c][t] = LatestImage[FirstVersion[c]][t]
                                       /\ imageMemo'[c][t] # NoImage
    BY <1>5 DEF StatusInvariant, RowExact
  <1>8. CASE type \in DOMAIN imageMemo[c] /\ Judged(g, imageMemo[c][type], "memo")
    <2>1. PICK latest : latest = imageMemo[c][type]
      OBVIOUS
    <2>2. Judged(g, latest, "memo") /\ Fits(g, latest)
      BY <1>1, <1>2, <1>5, <1>6, <1>8, <2>1 DEF Fits
    <2>3. PICK v : v = imageFor[c]
      OBVIOUS
    <2>4. JudgedWell(g, latest, "memo")
      BY <1>1, <1>4, <2>2, JudgedRight
    <2>5. Uneventful => v = FirstVersion[c]
      BY <1>4, <1>5, <2>3, FleetStatusAssumption
      DEF ImagesHonest, Uneventful, StatusShape, FleetStatusTypeOK
    <2>6. Uneventful => Known(g, latest)
      BY <1>1, <1>2, <1>5, <1>7, <1>8, <2>1 DEF Known
    <2>7. /\ DOMAIN groupJob' = AllGroups
          /\ \A h \in AllGroups \ {g} : groupJob'[h] = groupJob[h]
          /\ groupJob'[g] \in {"updating", "custom", "unknown", "latest", "outdated"}
          /\ groupJob'[g] = "outdated" => Outdated(c, g[2], v)
          /\ Fails \/ UNCHANGED faults
          /\ Uneventful /\ ~Fails => (Outdated(c, g[2], v) => groupJob'[g] = "outdated")
      BY <1>1, <2>3, <2>4, <2>6 DEF JudgedWell
    <2> QED
      BY <1>3, <1>5, <1>6, <1>7, <2>3, <2>5, <2>7, GroupMoves
  <1>9. CASE groupJob' = [groupJob EXCEPT ![g] = "lookup"] /\ UNCHANGED faults
    <2>1. /\ DOMAIN groupJob' = AllGroups /\ groupJob'[g] = "lookup"
          /\ \A h \in AllGroups \ {g} : groupJob'[h] = groupJob[h]
      BY <1>1, <1>4, <1>9 DEF StatusShape
    <2> QED
      BY <1>3, <1>5, <1>6, <1>7, <1>9, <2>1, GroupMoves
  <1> QED
    BY <1>3, <1>8, <1>9

LEMMA LookupImageKeeps ==
  ASSUME StatusInvariant, NEW c \in Fleets, NEW g \in GroupsOf(c), LookupImage(g)
  PROVE  StatusInvariant'
  <1>1. g \in AllGroups /\ g[1] = c
    BY DEF AllGroups, GroupsOf
  <1>2. PICK type : type = Fleet[g[1]].groups[g[2]].type
    OBVIOUS
  <1>3. StatusShape /\ ImagesHonest(c) /\ GroupHonest(g)
    BY <1>1 DEF StatusInvariant, RowHonest
  <1>4. PICK v : v = imageFor[c]
    OBVIOUS
  <1>5. PICK latest :
          /\ latest = NoImage \/ (type # Custom /\ latest = LatestImage[v][type])
          /\ imageMemo' = [imageMemo EXCEPT ![c] =
                 [t \in DOMAIN imageMemo[c] \cup {type} |->
                    IF t = type THEN latest ELSE imageMemo[c][t]]]
          /\ Judged(g, latest, "lookup")
    BY <1>1, <1>2, <1>4 DEF LookupImage
  <1>6. /\ groupJob[g] = "lookup"
        /\ UNCHANGED <<worldVars, sweep, job, row, imageFor, tierMemo, exit>>
    BY DEF LookupImage
  <1>7. v # 0
    BY <1>1, <1>3, <1>4, <1>6 DEF GroupHonest
  <1>8. /\ DOMAIN imageMemo' = Fleets /\ \A d \in Fleets \ {c} : imageMemo'[d] = imageMemo[d]
        /\ DOMAIN imageMemo'[c] = DOMAIN imageMemo[c] \cup {type}
        /\ \A t \in DOMAIN imageMemo'[c] :
             imageMemo'[c][t] = IF t = type THEN latest ELSE imageMemo[c][t]
    BY <1>3, <1>5 DEF StatusShape
  <1>9. /\ DOMAIN groupJob' = AllGroups
        /\ \A h \in AllGroups \ {g} : groupJob'[h] = groupJob[h]
        /\ groupJob'[g] \in {"updating", "custom", "unknown", "latest", "outdated"}
        /\ groupJob'[g] = "outdated" => Outdated(c, g[2], v)
        /\ Fails \/ UNCHANGED faults
        /\ ~Fails => (Outdated(c, g[2], v) => groupJob'[g] = "outdated")
        /\ ~Fails => latest # NoImage \/ type = Custom
    <2>1. Fits(g, latest) /\ (Known(g, latest) <=> latest # NoImage \/ type = Custom)
      BY <1>1, <1>2, <1>4, <1>5 DEF Fits, Known
    <2>2. JudgedWell(g, latest, "lookup")
      BY <1>1, <1>3, <1>5, <2>1, JudgedRight
    <2> QED
      BY <1>1, <1>4, <2>1, <2>2 DEF JudgedWell
  <1>10. Uneventful => v = FirstVersion[c]
    BY <1>3, <1>4, <1>7, FleetStatusAssumption
    DEF ImagesHonest, Uneventful, StatusShape, FleetStatusTypeOK
  <1>11. \A t \in DOMAIN imageMemo'[c] :
           imageMemo'[c][t] = NoImage \/ (t # Custom /\ imageMemo'[c][t] = LatestImage[v][t])
    BY <1>3, <1>4, <1>5, <1>8 DEF ImagesHonest
  <1>12. ASSUME Uneventful, ~Fails, NEW t \in DOMAIN imageMemo'[c], t # Custom
         PROVE  /\ imageMemo'[c][t] = LatestImage[FirstVersion[c]][t]
                /\ imageMemo'[c][t] # NoImage
    <2>1. CASE t = type
      BY <1>5, <1>8, <1>9, <1>10, <1>12, <2>1
    <2>2. CASE t # type
      BY <1>8, <1>12, <2>2 DEF StatusInvariant, RowExact
    <2> QED
      BY <2>1, <2>2
  <1> QED
    BY <1>4, <1>6, <1>7, <1>8, <1>9, <1>10, <1>11, <1>12, GroupMoves

-----------------------------------------------------------------------------
(* `status`: the sweep, the command and the world around it *)

\* A step that leaves every row, nodegroup and memo alone.
LEMMA RowsStay ==
  ASSUME StatusInvariant, UNCHANGED <<running, job, row, imageVars, tierMemo>>
  PROVE  /\ \A c \in Fleets : RowHonest(c)' /\ (Uneventful => RowExact(c)')
         /\ \A g \in AllGroups : GroupHonest(g)' /\ (Uneventful => GroupExact(g)')
         /\ \A r \in SweepRegions :
              /\ MemoHonest(r)'
              /\ Uneventful => \A v \in DOMAIN tierMemo'[r] : tierMemo'[r][v] = Tier[v]
  <1>1. /\ running' = running /\ job' = job /\ row' = row /\ imageFor' = imageFor
        /\ imageMemo' = imageMemo /\ groupJob' = groupJob /\ tierMemo' = tierMemo
    BY DEF imageVars
  <1>2. \A c \in Fleets : RowHonest(c)' /\ (Uneventful => RowExact(c)')
    BY <1>1, RowStands DEF StatusInvariant
  <1>3. \A g \in AllGroups : GroupHonest(g)' /\ (Uneventful => GroupExact(g)')
    BY <1>1, GroupStands DEF StatusInvariant
  <1>4. \A r \in SweepRegions :
          /\ MemoHonest(r)'
          /\ Uneventful => \A v \in DOMAIN tierMemo'[r] : tierMemo'[r][v] = Tier[v]
    BY <1>1 DEF StatusInvariant, MemoHonest, RegionExact
  <1> QED
    BY <1>2, <1>3, <1>4

LEMMA SweepRegionKeeps ==
  ASSUME StatusInvariant, NEW r \in SweepRegions, SweepRegion(r) PROVE StatusInvariant'
  <1>1. /\ sweep[r] = "todo" /\ UNCHANGED <<worldVars, job, row, imageVars, tierMemo, exit>>
        /\ \/ Answers /\ sweep' = [sweep EXCEPT ![r] = "rows"]
           \/ Fails /\ sweep' = [sweep EXCEPT ![r] = "failed"]
    BY DEF SweepRegion
  <1>2. /\ running' = running /\ chosen' = chosen /\ stopped' = stopped /\ exit' = exit
        /\ job' = job /\ row' = row /\ imageFor' = imageFor /\ imageMemo' = imageMemo
        /\ groupJob' = groupJob /\ tierMemo' = tierMemo
        /\ UNCHANGED <<running, job, row, imageVars, tierMemo>>
    BY <1>1 DEF worldVars, imageVars
  <1>3. StatusShape
    BY DEF StatusInvariant
  <1>4. faults' \in 0..MaxFaults /\ (Uneventful' => Uneventful /\ ~Fails)
    BY <1>1, <1>2, <1>3, CallsCounted DEF Uneventful
  <1>5. sweep' \in [SweepRegions -> {"todo", "rows", "merged", "failed"}]
        /\ \A s \in SweepRegions : sweep'[s] = sweep[s] \/ sweep'[s] = "rows"
                                   \/ (Fails /\ sweep'[s] = "failed")
    BY <1>1, <1>3 DEF StatusShape, FleetStatusTypeOK
  <1>6. FleetStatusTypeOK'
    BY <1>2, <1>3, <1>4, <1>5 DEF StatusShape, FleetStatusTypeOK
  <1>7. StatusShape'
    BY <1>2, <1>3, <1>6 DEF StatusShape
  <1>8. ASSUME Uneventful', NEW s \in SweepRegions PROVE RegionExact(s)'
    <2>1. RegionExact(s)
      BY <1>4, <1>8 DEF StatusInvariant
    <2>2. ClustersOf(s)' = ClustersOf(s)
      BY <1>2 DEF ClustersOf
    <2> QED
      BY <1>2, <1>4, <1>5, <1>8, <2>1, <2>2 DEF RegionExact
  <1>9. Uneventful' => (exit' # -1 => exit' = TrueExit')
    BY <1>2, <1>4, ExitStands DEF StatusInvariant
  <1> QED
    BY <1>2, <1>4, <1>7, <1>8, <1>9, RowsStay DEF StatusInvariant

LEMMA MergeRowsKeeps ==
  ASSUME StatusInvariant, NEW r \in SweepRegions, MergeRows(r) PROVE StatusInvariant'
  <1>1. /\ sweep[r] = "rows" /\ sweep' = [sweep EXCEPT ![r] = "merged"]
        /\ stopped \/ \A c \in ClustersOf(r) : job[c] = "done"
        /\ UNCHANGED <<worldVars, faults, job, row, imageVars, tierMemo, exit>>
    BY DEF MergeRows
  <1>2. /\ running' = running /\ chosen' = chosen /\ stopped' = stopped /\ exit' = exit
        /\ job' = job /\ row' = row /\ imageFor' = imageFor /\ imageMemo' = imageMemo
        /\ groupJob' = groupJob /\ tierMemo' = tierMemo /\ faults' = faults
        /\ UNCHANGED <<running, job, row, imageVars, tierMemo>>
    BY <1>1 DEF worldVars, imageVars
  <1>3. StatusShape
    BY DEF StatusInvariant
  <1>4. Uneventful' => Uneventful
    BY <1>2 DEF Uneventful
  <1>5. sweep' \in [SweepRegions -> {"todo", "rows", "merged", "failed"}]
        /\ sweep'[r] = "merged" /\ \A s \in SweepRegions \ {r} : sweep'[s] = sweep[s]
    BY <1>1, <1>3 DEF StatusShape, FleetStatusTypeOK
  <1>6. FleetStatusTypeOK'
    BY <1>2, <1>3, <1>5 DEF StatusShape, FleetStatusTypeOK
  <1>7. StatusShape'
    BY <1>2, <1>3, <1>6 DEF StatusShape
  <1>8. ASSUME Uneventful', NEW s \in SweepRegions PROVE RegionExact(s)'
    <2>1. RegionExact(s) /\ ~stopped
      BY <1>4, <1>8 DEF StatusInvariant, Uneventful
    <2>2. ClustersOf(s)' = ClustersOf(s)
      BY <1>2 DEF ClustersOf
    <2> QED
      BY <1>1, <1>2, <1>5, <2>1, <2>2 DEF RegionExact
  <1>9. Uneventful' => (exit' # -1 => exit' = TrueExit')
    BY <1>2, <1>4, ExitStands DEF StatusInvariant
  <1> QED
    BY <1>2, <1>4, <1>7, <1>8, <1>9, RowsStay DEF StatusInvariant

\* When every row is done and nothing happened meanwhile, the rows deserve the exit code
\* that the fleet deserves.
LEMMA ExitDeserved ==
  ASSUME StatusInvariant, Uneventful, \A c \in chosen : job[c] = "done",
         NEW lines, lines = {row[c] : c \in chosen}
  PROVE  ExitForStatuses(lines) = TrueExit
  <1>1. chosen \subseteq Fleets /\ running = FirstVersion
    BY DEF StatusInvariant, StatusShape, FleetStatusTypeOK, Uneventful
  <1>2. ASSUME NEW c \in chosen
        PROVE  /\ row[c].tier = Tier[running[c]] /\ row[c].issues = Fleet[c].issues
               /\ row[c].staleImages
                    = {g \in DOMAIN Fleet[c].groups : Outdated(c, g, running[c])}
               /\ row[c].staleAddons
                    = {a \in DOMAIN Fleet[c].addons :
                         Fleet[c].addons[a] < LatestAddon[running[c]][a]}
    BY <1>1, <1>2 DEF StatusInvariant, RowExact
  <1>3. ASSUME NEW c \in chosen
        PROVE  SupportRisk(row[c]) <=> Tier[running[c]] \in {"extended", "unsupported"}
    BY <1>2, <1>3 DEF SupportRisk
  <1>4. ASSUME NEW c \in chosen
        PROVE  NeedsAttention(row[c]) <=>
                 \/ Fleet[c].issues > 0
                 \/ \E g \in DOMAIN Fleet[c].groups : Outdated(c, g, running[c])
                 \/ \E a \in DOMAIN Fleet[c].addons :
                       Fleet[c].addons[a] < LatestAddon[running[c]][a]
    <2>1. row[c].staleImages # {}
            <=> \E g \in DOMAIN Fleet[c].groups : Outdated(c, g, running[c])
      BY <1>2
    <2>2. row[c].staleAddons # {}
            <=> \E a \in DOMAIN Fleet[c].addons : Fleet[c].addons[a] < LatestAddon[running[c]][a]
      BY <1>2
    <2>3. row[c].issues = Fleet[c].issues
      BY <1>2
    <2> QED
      BY <2>1, <2>2, <2>3 DEF NeedsAttention
  <1>5. (\E line \in lines : SupportRisk(line))
          <=> \E c \in chosen : Tier[running[c]] \in {"extended", "unsupported"}
    BY <1>3
  <1>6. (\E line \in lines : NeedsAttention(line))
          <=> \E c \in chosen :
                \/ Fleet[c].issues > 0
                \/ \E g \in DOMAIN Fleet[c].groups : Outdated(c, g, running[c])
                \/ \E a \in DOMAIN Fleet[c].addons :
                      Fleet[c].addons[a] < LatestAddon[running[c]][a]
    BY <1>4
  <1> QED
    BY <1>5, <1>6 DEF ExitForStatuses, TrueExit

LEMMA RunStatusKeeps == ASSUME StatusInvariant, RunStatus PROVE StatusInvariant'
  <1>1. /\ \A r \in SweepRegions : sweep[r] \in {"merged", "failed"}
        /\ exit' = IF FleetRows = {} /\ \E r \in SweepRegions : sweep[r] = "failed" THEN 1
                   ELSE ExitForStatuses(FleetRows)
        /\ UNCHANGED <<worldVars, faults, sweep, job, row, imageVars, tierMemo>>
    BY DEF RunStatus
  <1>2. /\ running' = running /\ chosen' = chosen /\ stopped' = stopped /\ sweep' = sweep
        /\ job' = job /\ row' = row /\ imageFor' = imageFor /\ imageMemo' = imageMemo
        /\ groupJob' = groupJob /\ tierMemo' = tierMemo /\ faults' = faults
        /\ UNCHANGED <<running, job, row, imageVars, tierMemo>>
    BY <1>1 DEF worldVars, imageVars
  <1>3. StatusShape
    BY DEF StatusInvariant
  <1>4. Uneventful' => Uneventful
    BY <1>2 DEF Uneventful
  <1>5. exit' \in {-1, 0, 1, 2, 3}
    BY <1>1 DEF ExitForStatuses
  <1>6. FleetStatusTypeOK'
    BY <1>2, <1>3, <1>5 DEF StatusShape, FleetStatusTypeOK
  <1>7. StatusShape'
    BY <1>2, <1>3, <1>6 DEF StatusShape
  <1>8. ASSUME Uneventful', NEW s \in SweepRegions PROVE RegionExact(s)'
    <2>1. RegionExact(s)
      BY <1>4, <1>8 DEF StatusInvariant
    <2> QED
      BY <1>2, <2>1 DEF RegionExact, ClustersOf
  <1>9. ASSUME Uneventful' PROVE exit' = TrueExit'
    <2>1. Uneventful /\ \A r \in SweepRegions : sweep[r] = "merged" /\ RegionExact(r)
      BY <1>1, <1>4, <1>9 DEF StatusInvariant, RegionExact
    <2>2. \A c \in chosen : sweep[Fleet[c].region] = "merged" /\ job[c] = "done"
      BY <1>3, <2>1, FleetStatusAssumption
      DEF RegionExact, ClustersOf, StatusShape, FleetStatusTypeOK
    <2>3. FleetRows = {row[c] : c \in chosen}
      BY <2>2 DEF FleetRows
    <2>4. exit' = ExitForStatuses(FleetRows)
      BY <1>1, <2>1
    <2>5. ExitForStatuses(FleetRows) = TrueExit
      BY <2>1, <2>2, <2>3, ExitDeserved
    <2> QED
      BY <1>2, <2>4, <2>5, ExitStands
  <1> QED
    BY <1>2, <1>4, <1>7, <1>8, <1>9, RowsStay DEF StatusInvariant

LEMMA StopSweepKeeps == ASSUME StatusInvariant, StopSweep PROVE StatusInvariant'
  <1>1. /\ stopped' = TRUE /\ running' = running /\ chosen' = chosen /\ sweep' = sweep
        /\ job' = job /\ row' = row /\ imageFor' = imageFor /\ imageMemo' = imageMemo
        /\ groupJob' = groupJob /\ tierMemo' = tierMemo /\ faults' = faults /\ exit' = exit
        /\ UNCHANGED <<running, job, row, imageVars, tierMemo>>
    BY DEF StopSweep, imageVars
  <1>2. StatusShape'
    BY <1>1 DEF StatusInvariant, StatusShape, FleetStatusTypeOK
  <1>3. ~Uneventful'
    BY <1>1 DEF Uneventful
  <1> QED
    BY <1>1, <1>2, <1>3, RowsStay DEF StatusInvariant

LEMMA PlaneUpgradedKeeps == ASSUME StatusInvariant, PlaneUpgraded PROVE StatusInvariant'
  <1>1. /\ chosen' = chosen /\ stopped' = stopped /\ sweep' = sweep
        /\ job' = job /\ row' = row /\ imageFor' = imageFor /\ imageMemo' = imageMemo
        /\ groupJob' = groupJob /\ tierMemo' = tierMemo /\ faults' = faults /\ exit' = exit
    BY DEF PlaneUpgraded, imageVars
  <1>2. StatusShape
    BY DEF StatusInvariant
  <1>3. \A d \in Fleets : /\ running[d] \in Nat /\ FirstVersion[d] \in Nat
                          /\ FirstVersion[d] <= running[d]
    BY <1>2, FleetStatusAssumption
    DEF StatusInvariant, StatusShape, FleetStatusTypeOK, RowHonest, ImagesHonest
  <1>4. PICK c \in chosen : /\ running[c] + 1 \in DOMAIN Tier
                            /\ running' = [running EXCEPT ![c] = running[c] + 1]
    BY DEF PlaneUpgraded
  <1>5. c \in Fleets /\ running \in [Fleets -> DOMAIN Tier]
    BY <1>2 DEF StatusShape, FleetStatusTypeOK
  <1>6. /\ running' \in [Fleets -> DOMAIN Tier] /\ running'[c] = running[c] + 1
        /\ \A d \in Fleets : running'[d] \in Nat /\ running[d] <= running'[d]
    BY <1>3, <1>4, <1>5
  <1>7. StatusShape'
    BY <1>1, <1>2, <1>6 DEF StatusShape, FleetStatusTypeOK
  <1>8. ~Uneventful'
    BY <1>3, <1>5, <1>6 DEF Uneventful
  <1>9. \A d \in Fleets : \A v \in FirstVersion[d]..running[d] : v \in FirstVersion[d]..running'[d]
    BY <1>3, <1>6
  <1>10. ASSUME NEW d \in Fleets PROVE RowHonest(d)'
    <2>1. RowStage(d) /\ TierHonest(d) /\ ImagesHonest(d)
      BY DEF StatusInvariant, RowHonest
    <2>2. RowStage(d)' /\ TierHonest(d)'
      BY <1>1, <2>1, TierStands DEF RowStage
    <2>3. FirstVersion[d] <= running'[d]
      BY <1>3, <1>6
    <2>4. ImagesHonest(d)'
      BY <1>1, <1>9, <2>1, <2>3 DEF ImagesHonest, Outdated
    <2> QED
      BY <2>2, <2>4 DEF RowHonest
  <1>11. ASSUME NEW g \in AllGroups PROVE GroupHonest(g)'
    <2>1. GroupHonest(g) /\ g[1] \in Fleets
      BY DEF StatusInvariant, AllGroups, GroupsOf
    <2> QED
      BY <1>1, <1>9, <2>1 DEF GroupHonest, Outdated
  <1>12. \A r \in SweepRegions : MemoHonest(r)'
    BY <1>1 DEF StatusInvariant, MemoHonest
  <1> QED
    BY <1>7, <1>8, <1>10, <1>11, <1>12 DEF StatusInvariant

LEMMA StatusStands == ASSUME StatusInvariant, UNCHANGED statusVars PROVE StatusInvariant'
  <1>1. /\ running' = running /\ chosen' = chosen /\ stopped' = stopped /\ sweep' = sweep
        /\ job' = job /\ row' = row /\ imageFor' = imageFor /\ imageMemo' = imageMemo
        /\ groupJob' = groupJob /\ tierMemo' = tierMemo /\ faults' = faults /\ exit' = exit
        /\ UNCHANGED <<running, job, row, imageVars, tierMemo>>
    BY DEF statusVars, worldVars, imageVars
  <1>2. Uneventful' => Uneventful
    BY <1>1 DEF Uneventful
  <1>3. StatusShape'
    BY <1>1 DEF StatusInvariant, StatusShape, FleetStatusTypeOK
  <1>4. ASSUME Uneventful', NEW s \in SweepRegions PROVE RegionExact(s)'
    <2>1. RegionExact(s)
      BY <1>2, <1>4 DEF StatusInvariant
    <2> QED
      BY <1>1, <2>1 DEF RegionExact, ClustersOf
  <1>5. Uneventful' => (exit' # -1 => exit' = TrueExit')
    BY <1>1, <1>2, ExitStands DEF StatusInvariant
  <1> QED
    BY <1>1, <1>2, <1>3, <1>4, <1>5, RowsStay DEF StatusInvariant

LEMMA StatusKept ==
  ASSUME StatusInvariant, FleetStatusNext \/ UNCHANGED statusVars PROVE StatusInvariant'
  <1>1. chosen \subseteq Fleets
    BY DEF StatusInvariant, StatusShape, FleetStatusTypeOK
  <1>2. CASE \E r \in SweepRegions : SweepRegion(r) \/ MergeRows(r)
    BY <1>2, SweepRegionKeeps, MergeRowsKeeps
  <1>3. ASSUME NEW c \in chosen,
               \/ StartRow(c) \/ Describe(c) \/ ResolveSupport(c) \/ SupportDates(c)
               \/ ListGroups(c) \/ StaleAMISummary(c) \/ AddonsBehind(c)
        PROVE  StatusInvariant'
    BY <1>1, <1>3, StartRowKeeps, DescribeKeeps, ResolveSupportKeeps, SupportDatesKeeps,
       ListGroupsKeeps, StaleAMISummaryKeeps, AddonsBehindKeeps
  <1>4. ASSUME NEW c \in chosen, NEW g \in GroupsOf(c),
               GroupDrops(g) \/ MemoImage(g) \/ LookupImage(g)
        PROVE  StatusInvariant'
    BY <1>1, <1>4, GroupDropsKeeps, MemoImageKeeps, LookupImageKeeps
  <1> QED
    BY <1>2, <1>3, <1>4, RunStatusKeeps, StopSweepKeeps, PlaneUpgradedKeeps, StatusStands
    DEF FleetStatusNext, StatusStep

\* However rows, nodegroups, failing calls and an upgrade by somebody else interleave over
\* the memos, a row's tier is one of the row's own version, a nodegroup counted as stale is
\* so for a version its cluster had, and an undisturbed sweep exits with the code the fleet
\* deserves (resolveSupport, newLatestAMIResolver, exitForStatuses).
THEOREM StatusCorrect == CommandsSpec => []StatusHonest
  <1>1. StatusInvariant => StatusHonest
    BY DEF StatusInvariant, StatusHonest, RowHonest, TierHonest, ImagesHonest, Uneventful
  <1>2. StatusInvariant /\ [CommandsNext]_commandVars => StatusInvariant'
    BY StatusSteps, StatusKept
  <1> QED
    BY StatusStart, <1>1, <1>2, PTL DEF CommandsSpec

-----------------------------------------------------------------------------
(* `cluster upgrade-check` *)

LEMMA ReadSteps ==
  ASSUME [CommandsNext]_commandVars
  PROVE  ReadinessNext \/ UNCHANGED readVars
  BY DEF CommandsNext, RunContext, RunVersion, RunClusterList, RunStatusCommand,
         RunNodegroupScale, RunHealthCheck, RunUpgradeCheck, Finished, commandVars

NamesIn(named) == {named[i][2] : i \in 1..Len(named)}
Covers(order, names) == \A x \in names : \E j \in 1..Len(order) : order[j] = x

\* The findings of one kind: the names of the list that are to be named, and no other.
LEMMA NamedHolds ==
  ASSUME NEW S, NEW order \in Seq(S), NEW names, NEW kind, NEW named,
         named = Named(kind, order, names), Covers(order, names)
  PROVE  /\ named \in Seq({kind} \X names)
         /\ names = NamesIn(named)
  <1>1. PICK kept : kept = Kept(order, names)
    OBVIOUS
  <1>2. Draws(order, names, kept, Len(order))
    BY <1>1, KeptDraws
  <1>3. named = [i \in 1..Len(kept) |-> <<kind, kept[i]>>]
    BY <1>1 DEF Named
  <1>4. kept \in Seq(names) /\ Len(kept) \in Nat /\ \A i \in 1..Len(kept) : kept[i] \in names
    BY <1>2 DEF Draws
  <1>5. named \in [1..Len(kept) -> {kind} \X names]
    BY <1>3, <1>4
  <1>6. named \in Seq({kind} \X names) /\ Len(named) = Len(kept)
    BY <1>4, <1>5
  <1>7. \A j \in 1..Len(order) : order[j] \in names => \E i \in 1..Len(kept) : kept[i] = order[j]
    BY <1>2 DEF Draws
  <1>8. \A i \in 1..Len(kept) : named[i] = <<kind, kept[i]>>
    BY <1>3
  <1>9. ASSUME NEW x \in names PROVE \E i \in 1..Len(named) : named[i] = <<kind, x>>
    <2>1. PICK i \in 1..Len(kept) : kept[i] = x
      BY <1>7, <1>9 DEF Covers
    <2> QED
      BY <1>6, <1>8, <2>1
  <1>10. \A i \in 1..Len(named) : named[i][2] \in names
    BY <1>4, <1>6, <1>8
  <1>11. names = NamesIn(named)
    <2>1. ASSUME NEW x \in names PROVE x \in NamesIn(named)
      <3>1. PICK i \in 1..Len(named) : named[i] = <<kind, x>>
        BY <1>9, <2>1
      <3>2. named[i][2] = x
        BY <3>1
      <3> QED
        BY <3>2 DEF NamesIn
    <2>2. NamesIn(named) \subseteq names
      BY <1>10 DEF NamesIn
    <2> QED
      BY <2>1, <2>2
  <1> QED
    BY <1>6, <1>11

\* Three lists of findings, one after the other.
LEMMA Joined ==
  ASSUME NEW X, NEW a \in Seq(X), NEW b \in Seq(X), NEW c \in Seq(X), NEW all, all = a \o b \o c
  PROVE  /\ all \in Seq(X) /\ Len(all) = Len(a) + Len(b) + Len(c)
         /\ \A i \in 1..Len(a) : i \in 1..Len(all) /\ all[i] = a[i]
         /\ \A i \in 1..Len(b) : Len(a) + i \in 1..Len(all) /\ all[Len(a) + i] = b[i]
         /\ \A i \in 1..Len(c) :
              Len(a) + Len(b) + i \in 1..Len(all) /\ all[Len(a) + Len(b) + i] = c[i]
         /\ \A k \in 1..Len(all) :
              \/ k \in 1..Len(a)
              \/ k - Len(a) \in 1..Len(b) /\ k = Len(a) + (k - Len(a))
              \/ k - (Len(a) + Len(b)) \in 1..Len(c) /\ k = Len(a) + Len(b) + (k - (Len(a) + Len(b)))
  <1>1. PICK ab : ab = a \o b
    OBVIOUS
  <1>2. /\ ab \in Seq(X) /\ Len(ab) = Len(a) + Len(b)
        /\ \A i \in 1..Len(a) : ab[i] = a[i]
        /\ \A i \in 1..Len(b) : ab[Len(a) + i] = b[i]
    BY <1>1
  <1>3. /\ all \in Seq(X) /\ Len(all) = Len(ab) + Len(c)
        /\ \A i \in 1..Len(ab) : all[i] = ab[i]
        /\ \A i \in 1..Len(c) : all[Len(ab) + i] = c[i]
    BY <1>1, <1>2
  <1>4. Len(a) \in Nat /\ Len(b) \in Nat /\ Len(c) \in Nat
    OBVIOUS
  <1> DEFINE m == Len(a)
             n == Len(b)
             o == Len(c)
  <1>6. /\ m \in Nat /\ n \in Nat /\ o \in Nat /\ Len(ab) = m + n /\ Len(all) = m + n + o
        /\ \A i \in 1..m : ab[i] = a[i]
        /\ \A i \in 1..n : ab[m + i] = b[i]
        /\ \A i \in 1..(m + n) : all[i] = ab[i]
        /\ \A i \in 1..o : all[m + n + i] = c[i]
    BY <1>2, <1>3, <1>4
  <1> HIDE DEF m, n, o
  <1>7. \A i \in 1..m : i \in 1..(m + n) /\ i \in 1..Len(all)
    BY <1>6
  <1>8. \A i \in 1..n : m + i \in 1..(m + n) /\ m + i \in 1..Len(all)
    BY <1>6
  <1>9. \A i \in 1..o : m + n + i \in 1..Len(all)
    BY <1>6
  <1>10. \A i \in 1..m : i \in 1..Len(all) /\ all[i] = a[i]
    BY <1>6, <1>7
  <1>11. \A i \in 1..n : m + i \in 1..Len(all) /\ all[m + i] = b[i]
    BY <1>6, <1>8
  <1>12. \A i \in 1..o : m + n + i \in 1..Len(all) /\ all[m + n + i] = c[i]
    BY <1>6, <1>9
  <1>13. \A k \in 1..Len(all) :
           \/ k \in 1..m
           \/ k - m \in 1..n /\ k = m + (k - m)
           \/ k - (m + n) \in 1..o /\ k = m + n + (k - (m + n))
    BY <1>6
  <1> QED
    BY <1>3, <1>6, <1>10, <1>11, <1>12, <1>13 DEF m, n, o

NamedBlocking == {g \in DOMAIN skews : Blocks(skews[g])}
NamedLagging == {g \in DOMAIN skews : skews[g] > 0} \ NamedBlocking

\* What the report names, kind by kind, and in which order.
LEMMA ReportHolds ==
  ASSUME DOMAIN skews \subseteq DOMAIN FirstGroups, behind \subseteq DOMAIN InstalledAddon,
         findings = SkewReport
  PROVE  /\ Found("blocking") = NamedBlocking /\ Found("lagging") = NamedLagging
         /\ Found("addon") = behind
         /\ \A i, j \in 1..Len(findings) :
              findings[i][1] = "blocking" /\ findings[j][1] # "blocking" => i < j
  <1>1. PICK B : B = NamedBlocking
    OBVIOUS
  <1>2. PICK L : L = NamedLagging
    OBVIOUS
  <1>3. PICK a : a = Named("blocking", SkewGroups, B)
    OBVIOUS
  <1>4. PICK b : b = Named("lagging", SkewGroups, L)
    OBVIOUS
  <1>5. PICK c : c = Named("addon", SkewAddons, behind)
    OBVIOUS
  <1>6. findings = a \o b \o c
    BY <1>1, <1>2, <1>3, <1>4, <1>5 DEF SkewReport, NamedBlocking, NamedLagging
  <1>7. /\ a \in Seq({"blocking"} \X B)
        /\ \A x \in B : \E i \in 1..Len(a) : a[i] = <<"blocking", x>>
    <2>1. \A x \in B : \E j \in 1..Len(SkewGroups) : SkewGroups[j] = x
      BY <1>1, ReadinessAssumption DEF NamedBlocking
    <2>2. PICK S : S = DOMAIN FirstGroups
      OBVIOUS
    <2>3. PICK order \in Seq(S) : order = SkewGroups
      BY <2>2, ReadinessAssumption
    <2>4. PICK kind : kind = "blocking"
      OBVIOUS
    <2>5. a = Named(kind, order, B) /\ Covers(order, B)
      BY <1>3, <2>1, <2>3, <2>4 DEF Covers
    <2>6. a \in Seq({kind} \X B)
      BY <2>3, <2>5, NamedHolds
    <2>7. B = NamesIn(a)
      BY <2>3, <2>5, NamedHolds
    <2>8. \A i \in 1..Len(a) : a[i] = <<kind, a[i][2]>>
      BY <2>6
    <2> QED
      BY <2>4, <2>6, <2>7, <2>8 DEF NamesIn
  <1>8. /\ b \in Seq({"lagging"} \X L)
        /\ \A x \in L : \E i \in 1..Len(b) : b[i] = <<"lagging", x>>
    <2>1. \A x \in L : \E j \in 1..Len(SkewGroups) : SkewGroups[j] = x
      BY <1>2, ReadinessAssumption DEF NamedLagging
    <2>2. PICK S : S = DOMAIN FirstGroups
      OBVIOUS
    <2>3. PICK order \in Seq(S) : order = SkewGroups
      BY <2>2, ReadinessAssumption
    <2>4. PICK kind : kind = "lagging"
      OBVIOUS
    <2>5. b = Named(kind, order, L) /\ Covers(order, L)
      BY <1>4, <2>1, <2>3, <2>4 DEF Covers
    <2>6. b \in Seq({kind} \X L)
      BY <2>3, <2>5, NamedHolds
    <2>7. L = NamesIn(b)
      BY <2>3, <2>5, NamedHolds
    <2>8. \A i \in 1..Len(b) : b[i] = <<kind, b[i][2]>>
      BY <2>6
    <2> QED
      BY <2>4, <2>6, <2>7, <2>8 DEF NamesIn
  <1>9. /\ c \in Seq({"addon"} \X behind)
        /\ \A x \in behind : \E i \in 1..Len(c) : c[i] = <<"addon", x>>
    <2>1. \A x \in behind : \E j \in 1..Len(SkewAddons) : SkewAddons[j] = x
      BY ReadinessAssumption
    <2>2. PICK S : S = DOMAIN InstalledAddon
      OBVIOUS
    <2>3. PICK order \in Seq(S) : order = SkewAddons
      BY <2>2, ReadinessAssumption
    <2>4. PICK kind : kind = "addon"
      OBVIOUS
    <2>5. c = Named(kind, order, behind) /\ Covers(order, behind)
      BY <1>5, <2>1, <2>3, <2>4 DEF Covers
    <2>6. c \in Seq({kind} \X behind)
      BY <2>3, <2>5, NamedHolds
    <2>7. behind = NamesIn(c)
      BY <2>3, <2>5, NamedHolds
    <2>8. \A i \in 1..Len(c) : c[i] = <<kind, c[i][2]>>
      BY <2>6
    <2> QED
      BY <2>4, <2>6, <2>7, <2>8 DEF NamesIn
  <1>10. /\ Len(a) \in Nat /\ Len(findings) \in Nat
         /\ \A i \in 1..Len(a) : i \in 1..Len(findings) /\ findings[i] = a[i]
         /\ \A i \in 1..Len(b) : Len(a) + i \in 1..Len(findings) /\ findings[Len(a) + i] = b[i]
         /\ \A i \in 1..Len(c) : /\ Len(a) + Len(b) + i \in 1..Len(findings)
                                 /\ findings[Len(a) + Len(b) + i] = c[i]
         /\ \A k \in 1..Len(findings) :
              \/ k \in 1..Len(a)
              \/ k - Len(a) \in 1..Len(b) /\ k = Len(a) + (k - Len(a))
              \/ k - (Len(a) + Len(b)) \in 1..Len(c) /\ k = Len(a) + Len(b) + (k - (Len(a) + Len(b)))
    <2>1. PICK X : X = {"blocking", "lagging", "addon"} \X (B \cup L \cup behind)
      OBVIOUS
    <2>2. {"blocking"} \X B \subseteq X /\ {"lagging"} \X L \subseteq X /\ {"addon"} \X behind \subseteq X
      BY <2>1
    <2>3. a \in Seq(X) /\ b \in Seq(X) /\ c \in Seq(X)
      BY <1>7, <1>8, <1>9, <2>2
    <2>4. PICK all : all = findings
      OBVIOUS
    <2>5. all = a \o b \o c
      BY <1>6, <2>4
    <2>6. all \in Seq(X)
      BY <2>3, <2>5, Joined
    <2>7. \A i \in 1..Len(a) : i \in 1..Len(all) /\ all[i] = a[i]
      BY <2>3, <2>5, Joined
    <2>8. \A i \in 1..Len(b) : Len(a) + i \in 1..Len(all) /\ all[Len(a) + i] = b[i]
      BY <2>3, <2>5, Joined
    <2>9. \A i \in 1..Len(c) :
            Len(a) + Len(b) + i \in 1..Len(all) /\ all[Len(a) + Len(b) + i] = c[i]
      BY <2>3, <2>5, Joined
    <2>10. \A k \in 1..Len(all) :
             \/ k \in 1..Len(a)
             \/ k - Len(a) \in 1..Len(b) /\ k = Len(a) + (k - Len(a))
             \/ k - (Len(a) + Len(b)) \in 1..Len(c) /\ k = Len(a) + Len(b) + (k - (Len(a) + Len(b)))
      BY <2>3, <2>5, Joined
    <2>11. Len(a) \in Nat /\ Len(all) \in Nat
      BY <2>3, <2>6
    <2> QED
      BY <2>4, <2>7, <2>8, <2>9, <2>10, <2>11
  <1>11. /\ \A i \in 1..Len(a) : a[i][1] = "blocking" /\ a[i][2] \in B
         /\ \A i \in 1..Len(b) : b[i][1] = "lagging" /\ b[i][2] \in L
         /\ \A i \in 1..Len(c) : c[i][1] = "addon" /\ c[i][2] \in behind
    <2>1. /\ \A i \in 1..Len(a) : a[i] \in {"blocking"} \X B
          /\ \A i \in 1..Len(b) : b[i] \in {"lagging"} \X L
          /\ \A i \in 1..Len(c) : c[i] \in {"addon"} \X behind
      BY <1>7, <1>8, <1>9
    <2> QED
      BY <2>1
  <1>12. ASSUME NEW k \in 1..Len(findings)
         PROVE  /\ findings[k][1] = "blocking" => k \in 1..Len(a) /\ findings[k][2] \in B
                /\ findings[k][1] = "lagging" => findings[k][2] \in L
                /\ findings[k][1] = "addon" => findings[k][2] \in behind
                /\ findings[k][1] # "blocking" => k \notin 1..Len(a)
    <2>1. CASE k \in 1..Len(a)
      BY <1>10, <1>11, <2>1
    <2>2. CASE k - Len(a) \in 1..Len(b) /\ k = Len(a) + (k - Len(a))
      <3>1. findings[k] = b[k - Len(a)] /\ k \notin 1..Len(a)
        BY <1>10, <2>2
      <3> QED
        BY <1>11, <2>2, <3>1
    <2>3. CASE /\ k - (Len(a) + Len(b)) \in 1..Len(c)
               /\ k = Len(a) + Len(b) + (k - (Len(a) + Len(b)))
      <3>1. findings[k] = c[k - (Len(a) + Len(b))] /\ k \notin 1..Len(a)
        <4>1. Len(b) \in Nat
          BY <1>8
        <4> QED
          BY <1>10, <2>3, <4>1
      <3> QED
        BY <1>11, <2>3, <3>1
    <2> QED
      BY <1>10, <2>1, <2>2, <2>3
  <1>13. Found("blocking") = B
    <2>1. ASSUME NEW x \in B
          PROVE  \E k \in 1..Len(findings) : findings[k][1] = "blocking" /\ findings[k][2] = x
      BY <1>7, <1>10, <2>1
    <2> QED
      BY <1>12, <2>1 DEF Found
  <1>14. Found("lagging") = L
    <2>1. ASSUME NEW x \in L
          PROVE  \E k \in 1..Len(findings) : findings[k][1] = "lagging" /\ findings[k][2] = x
      <3>1. PICK i \in 1..Len(b) : b[i] = <<"lagging", x>>
        BY <1>8, <2>1
      <3>2. PICK k : k = Len(a) + i
        OBVIOUS
      <3>3. k \in 1..Len(findings) /\ findings[k] = <<"lagging", x>>
        BY <1>10, <3>1, <3>2
      <3> QED
        BY <3>3
    <2> QED
      BY <1>12, <2>1 DEF Found
  <1>15. Found("addon") = behind
    <2>1. ASSUME NEW x \in behind
          PROVE  \E k \in 1..Len(findings) : findings[k][1] = "addon" /\ findings[k][2] = x
      <3>1. PICK i \in 1..Len(c) : c[i] = <<"addon", x>>
        BY <1>9, <2>1
      <3>2. PICK k : k = Len(a) + Len(b) + i
        OBVIOUS
      <3>3. k \in 1..Len(findings) /\ findings[k] = <<"addon", x>>
        BY <1>10, <3>1, <3>2
      <3> QED
        BY <3>3
    <2> QED
      BY <1>12, <2>1 DEF Found
  <1>16. ASSUME NEW i \in 1..Len(findings), NEW j \in 1..Len(findings),
                findings[i][1] = "blocking", findings[j][1] # "blocking"
         PROVE  i < j
    BY <1>10, <1>12, <1>16
  <1> QED
    BY <1>1, <1>2, <1>13, <1>14, <1>15, <1>16

LEMMA ReadStart ==
  ASSUME ReadinessInit
  PROVE  ReadInvariant
  <1>1. /\ DOMAIN skews = {} /\ behind = {} /\ findings = << >> /\ reading = "start"
        /\ plane = FirstPlane /\ groupMinor = FirstGroups /\ next = 1 /\ planeRead = 0
        /\ insights = DOMAIN Insight /\ shown = {} /\ detail = NoInsight /\ readFaults = 0
    BY DEF ReadinessInit
  <1>2. ReadinessTypeOK
    BY <1>1, ReadinessAssumption DEF ReadinessTypeOK
  <1>3. \A g \in DOMAIN FirstGroups : FirstGroups[g] \in Nat
    BY ReadinessAssumption
  <1> QED
    BY <1>1, <1>2, <1>3, ReadinessAssumption DEF ReadInvariant, Reporting

LEMMA ReadPlaneKept ==
  ASSUME ReadInvariant, ReadPlane
  PROVE  ReadInvariant'
  <1>1. /\ DOMAIN skews = {} /\ behind = {} /\ findings = << >> /\ reading = "start"
        /\ plane \in Nat /\ plane \in DOMAIN NewestAddon /\ FirstPlane \in Nat
    BY ReadinessAssumption DEF ReadInvariant, ReadPlane, ReadinessTypeOK
  <1>2. /\ UNCHANGED <<plane, groupMinor, insights, reference, next, shown, skews, behind, findings,
                      matched, detail>>
        /\ \/ reading' = "insights" /\ planeRead' = plane /\ readFaults' = readFaults
           \/ reading' = "error" /\ planeRead' = planeRead /\ readFaults' \in 0..MaxReadFaults
        /\ reference = NoReference
    BY ReadinessAssumption DEF ReadPlane, Reads, ReadFails, readWorld, ReadInvariant, ReadinessTypeOK
  <1>3. ReadinessTypeOK'
    BY <1>1, <1>2 DEF ReadInvariant, ReadinessTypeOK
  <1>4. (Reporting /\ Still => ReadAsStood)'
    BY <1>1, <1>2, ReadinessAssumption DEF Reporting, Still, ReadAsStood, GroupsRead, AddonsRead
  <1> QED
    BY <1>1, <1>2, <1>3, <1>4 DEF ReadInvariant

LEMMA ReadInsightsKept ==
  ASSUME ReadInvariant, ReadInsights
  PROVE  ReadInvariant'
  <1>1. /\ DOMAIN skews = {} /\ behind = {} /\ findings = << >> /\ reading = "insights"
        /\ reference = NoReference /\ planeRead \in DOMAIN NewestAddon
    BY DEF ReadInvariant, ReadInsights
  <1>2. /\ UNCHANGED <<plane, groupMinor, insights, reference, planeRead, skews, behind, findings,
                      matched, detail>>
        /\ shown' \subseteq DOMAIN Insight
        /\ \/ reading' = "groups" /\ next' = 1 /\ readFaults' = readFaults
           \/ reading' = "error" /\ next' = next /\ readFaults' \in 0..MaxReadFaults
    BY ReadinessAssumption DEF ReadInsights, Reads, ReadFails, readWorld, ReadInvariant, ReadinessTypeOK
  <1>3. Len(SkewGroups) \in Nat /\ Len(SkewAddons) \in Nat
    BY ReadinessAssumption
  <1>4. ReadinessTypeOK'
    BY <1>1, <1>2, <1>3 DEF ReadInvariant, ReadinessTypeOK
  <1>5. (Reporting /\ Still => ReadAsStood)'
    BY <1>1, <1>2 DEF ReadInvariant, Reporting, Still, ReadAsStood, GroupsRead, AddonsRead
  <1> QED
    BY <1>1, <1>2, <1>3, <1>4, <1>5 DEF ReadInvariant

LEMMA ReadGroupKept ==
  ASSUME ReadInvariant, ReadGroup
  PROVE  ReadInvariant'
  <1>1. PICK g : g = SkewGroups[next]
    OBVIOUS
  <1>2. /\ reading = "groups" /\ next \in 1..Len(SkewGroups) /\ reference = NoReference
        /\ g \in DOMAIN FirstGroups /\ Len(SkewGroups) \in Nat /\ Len(SkewAddons) \in Nat
        /\ planeRead \in DOMAIN NewestAddon /\ planeRead \in Nat /\ plane \in Nat
        /\ findings = << >> /\ readFaults \in 0..MaxReadFaults /\ MaxReadFaults \in Nat
    <2>1. reading = "groups" /\ next \in 1..Len(SkewGroups)
      BY DEF ReadGroup
    <2>2. /\ reference = NoReference /\ planeRead \in DOMAIN NewestAddon /\ plane \in DOMAIN NewestAddon
          /\ findings = << >> /\ readFaults \in 0..MaxReadFaults
      BY <2>1 DEF ReadInvariant, ReadinessTypeOK
    <2>3. /\ DOMAIN NewestAddon \subseteq Nat /\ MaxReadFaults \in Nat
          /\ SkewGroups \in Seq(DOMAIN FirstGroups) /\ SkewAddons \in Seq(DOMAIN InstalledAddon)
      BY ReadinessAssumption
    <2> QED
      BY <1>1, <2>1, <2>2, <2>3
  <1>3. /\ UNCHANGED <<plane, groupMinor, insights, reference, planeRead, shown, behind, findings,
                      matched, detail>>
        /\ next' = next + 1 /\ reading' = "groups"
        /\ \/ /\ skews' = [h \in DOMAIN skews \cup {g} |-> IF h = g THEN MinorsBehind(g) ELSE skews[h]]
              /\ readFaults' = readFaults
           \/ skews' = skews /\ readFaults' \in 0..MaxReadFaults /\ readFaults' # 0
    <2>1. \/ /\ skews' = [h \in DOMAIN skews \cup {g} |-> IF h = g THEN MinorsBehind(g) ELSE skews[h]]
             /\ readFaults' = readFaults
          \/ skews' = skews /\ readFaults < MaxReadFaults /\ readFaults' = readFaults + 1
      BY <1>1 DEF ReadGroup, Reads, ReadFails
    <2>2. readFaults < MaxReadFaults => readFaults + 1 \in 0..MaxReadFaults /\ readFaults + 1 # 0
      BY <1>2
    <2>3. /\ UNCHANGED <<plane, groupMinor, insights, reference, planeRead, shown, behind, findings,
                         matched, detail>>
          /\ next' = next + 1 /\ reading' = "groups"
      BY DEF ReadGroup, Reads, ReadFails, readWorld
    <2> QED
      BY <2>1, <2>2, <2>3
  <1>4. /\ MinorsBehind(g) \in 0..planeRead
        /\ MinorsBehind(g) = 0 \/ MinorsBehind(g) <= planeRead - FirstGroups[g]
    <2>1. groupMinor[g] \in Nat /\ FirstGroups[g] \in Nat /\ FirstGroups[g] <= groupMinor[g]
      BY <1>2, ReadinessAssumption DEF ReadInvariant, ReadinessTypeOK
    <2> QED
      BY <1>2, <2>1 DEF MinorsBehind
  <1>5. \A h \in DOMAIN skews : /\ h \in DOMAIN FirstGroups /\ skews[h] \in 0..plane
                                /\ skews[h] = 0 \/ skews[h] <= planeRead - FirstGroups[h]
    BY DEF ReadInvariant, ReadinessTypeOK
  <1>6. planeRead <= plane
    BY DEF ReadInvariant
  <1>7. /\ DOMAIN skews' \subseteq DOMAIN FirstGroups
        /\ \A h \in DOMAIN skews' : /\ skews'[h] \in 0..plane
                                    /\ skews'[h] = 0 \/ skews'[h] <= planeRead - FirstGroups[h]
    <2>1. CASE skews' = skews
      BY <1>5, <2>1
    <2>2. CASE skews' = [h \in DOMAIN skews \cup {g} |-> IF h = g THEN MinorsBehind(g) ELSE skews[h]]
      <3>1. MinorsBehind(g) \in 0..plane
        BY <1>2, <1>4, <1>6
      <3> QED
        BY <1>2, <1>4, <1>5, <2>2, <3>1
    <2> QED
      BY <1>3, <2>1, <2>2
  <1>8. ReadinessTypeOK'
    BY <1>2, <1>3, <1>7 DEF ReadInvariant, ReadinessTypeOK
  <1>9. (Reporting /\ Still => ReadAsStood)'
    <2>1. SUFFICES ASSUME Reporting', Still' PROVE ReadAsStood'
      OBVIOUS
    <2>2. /\ skews' = [h \in DOMAIN skews \cup {g} |-> IF h = g THEN MinorsBehind(g) ELSE skews[h]]
          /\ Reporting /\ Still
      BY <1>2, <1>3, <2>1 DEF Reporting, Still
    <2>3. /\ planeRead = FirstPlane /\ DOMAIN skews = {SkewGroups[i] : i \in 1..(next - 1)}
          /\ \A h \in DOMAIN skews : skews[h] = FirstPlane - FirstGroups[h]
          /\ behind = {}
      <3>1. ReadAsStood
        BY <2>2 DEF ReadInvariant
      <3>2. GroupsRead = next - 1 /\ AddonsRead = 0
        BY <1>2 DEF GroupsRead, AddonsRead
      <3> QED
        BY <3>1, <3>2 DEF ReadAsStood
    <2>4. MinorsBehind(g) = FirstPlane - FirstGroups[g]
      <3>1. groupMinor[g] = FirstGroups[g] /\ FirstGroups[g] \in 0..FirstPlane /\ FirstPlane \in Nat
        BY <1>2, <2>2, ReadinessAssumption DEF Still
      <3> QED
        BY <2>3, <3>1 DEF MinorsBehind
    <2>5. DOMAIN skews' = {SkewGroups[i] : i \in 1..next}
      <3>1. DOMAIN skews' = DOMAIN skews \cup {SkewGroups[next]}
        BY <1>1, <2>2
      <3> QED
        BY <1>2, <2>3, <3>1
    <2>6. \A h \in DOMAIN skews' : skews'[h] = FirstPlane - FirstGroups[h]
      BY <2>2, <2>3, <2>4
    <2>7. GroupsRead' = next /\ AddonsRead' = 0
      BY <1>2, <1>3 DEF GroupsRead, AddonsRead
    <2>8. {a \in {SkewAddons[i] : i \in 1..0} : InstalledAddon[a] < NewestAddon[FirstPlane][a]} = {}
      OBVIOUS
    <2> QED
      BY <1>3, <2>3, <2>5, <2>6, <2>7, <2>8 DEF ReadAsStood
  <1> QED
    BY <1>2, <1>3, <1>7, <1>8, <1>9 DEF ReadInvariant

LEMMA ListAddonsKept ==
  ASSUME ReadInvariant, ListAddons
  PROVE  ReadInvariant'
  <1>1. /\ reading = "groups" /\ next = Len(SkewGroups) + 1 /\ reference = NoReference
        /\ findings = << >> /\ planeRead \in DOMAIN NewestAddon
        /\ Len(SkewGroups) \in Nat /\ Len(SkewAddons) \in Nat
    BY ReadinessAssumption DEF ListAddons, ReadInvariant
  <1>2. /\ UNCHANGED <<plane, groupMinor, insights, reference, planeRead, shown, skews, behind,
                      findings, matched, detail>>
        /\ \/ reading' = "addons" /\ next' = 1 /\ readFaults' = readFaults
           \/ reading' = "error" /\ next' = next /\ readFaults' \in 0..MaxReadFaults
    BY ReadinessAssumption
       DEF ListAddons, Reads, ReadFails, readWorld, reportVars, ReadInvariant, ReadinessTypeOK
  <1>3. ReadinessTypeOK'
    BY <1>1, <1>2 DEF ReadInvariant, ReadinessTypeOK
  <1>4. (Reporting /\ Still => ReadAsStood)'
    <2>1. SUFFICES ASSUME Reporting', Still' PROVE ReadAsStood'
      OBVIOUS
    <2>2. Reporting /\ Still /\ reading' = "addons" /\ next' = 1
      BY <1>1, <1>2, <2>1 DEF Reporting, Still
    <2>3. ReadAsStood
      BY <2>2 DEF ReadInvariant
    <2>4. GroupsRead' = GroupsRead /\ AddonsRead' = AddonsRead
      BY <1>1, <2>2 DEF GroupsRead, AddonsRead
    <2> QED
      BY <1>2, <2>3, <2>4 DEF ReadAsStood
  <1> QED
    BY <1>1, <1>2, <1>3, <1>4 DEF ReadInvariant

LEMMA ReadAddonKept ==
  ASSUME ReadInvariant, ReadAddon
  PROVE  ReadInvariant'
  <1>1. PICK a : a = SkewAddons[next]
    OBVIOUS
  <1>2. /\ reading = "addons" /\ next \in 1..Len(SkewAddons) /\ reference = NoReference
        /\ a \in DOMAIN InstalledAddon /\ Len(SkewGroups) \in Nat /\ Len(SkewAddons) \in Nat
        /\ planeRead \in DOMAIN NewestAddon /\ findings = << >>
        /\ readFaults \in 0..MaxReadFaults /\ MaxReadFaults \in Nat
    <2>1. reading = "addons" /\ next \in 1..Len(SkewAddons)
      BY DEF ReadAddon
    <2>2. /\ reference = NoReference /\ planeRead \in DOMAIN NewestAddon
          /\ findings = << >> /\ readFaults \in 0..MaxReadFaults
      BY <2>1 DEF ReadInvariant, ReadinessTypeOK
    <2>3. /\ MaxReadFaults \in Nat
          /\ SkewGroups \in Seq(DOMAIN FirstGroups) /\ SkewAddons \in Seq(DOMAIN InstalledAddon)
      BY ReadinessAssumption
    <2> QED
      BY <1>1, <2>1, <2>2, <2>3
  <1>3. /\ UNCHANGED <<plane, groupMinor, insights, reference, planeRead, shown, skews, findings,
                      matched, detail>>
        /\ next' = next + 1 /\ reading' = "addons"
        /\ \/ /\ behind' = behind \cup {b \in {a} : InstalledAddon[a] < NewestAddon[planeRead][a]}
              /\ readFaults' = readFaults
           \/ behind' = behind /\ readFaults' \in 0..MaxReadFaults /\ readFaults' # 0
    <2>1. \/ /\ behind' = behind \cup {b \in {a} : InstalledAddon[a] < NewestAddon[planeRead][a]}
             /\ readFaults' = readFaults
          \/ behind' = behind /\ readFaults < MaxReadFaults /\ readFaults' = readFaults + 1
      BY <1>1 DEF ReadAddon, Reads, ReadFails
    <2>2. readFaults < MaxReadFaults => readFaults + 1 \in 0..MaxReadFaults /\ readFaults + 1 # 0
      BY <1>2
    <2>3. /\ UNCHANGED <<plane, groupMinor, insights, reference, planeRead, shown, skews, findings,
                         matched, detail>>
          /\ next' = next + 1 /\ reading' = "addons"
      BY DEF ReadAddon, Reads, ReadFails, readWorld
    <2> QED
      BY <2>1, <2>2, <2>3
  <1>4. behind' \subseteq DOMAIN InstalledAddon
    BY <1>2, <1>3 DEF ReadInvariant
  <1>5. ReadinessTypeOK'
    BY <1>2, <1>3 DEF ReadInvariant, ReadinessTypeOK
  <1>6. (Reporting /\ Still => ReadAsStood)'
    <2>1. SUFFICES ASSUME Reporting', Still' PROVE ReadAsStood'
      OBVIOUS
    <2>2. /\ behind' = behind \cup {b \in {a} : InstalledAddon[a] < NewestAddon[planeRead][a]}
          /\ Reporting /\ Still
      BY <1>2, <1>3, <2>1 DEF Reporting, Still
    <2>3. ReadAsStood
      BY <2>2 DEF ReadInvariant
    <2>4. /\ GroupsRead = Len(SkewGroups) /\ GroupsRead' = Len(SkewGroups)
          /\ AddonsRead = next - 1 /\ AddonsRead' = next
      BY <1>2, <1>3 DEF GroupsRead, AddonsRead
    <2>5. planeRead = FirstPlane
      BY <2>3 DEF ReadAsStood
    <2>6. behind = {b \in {SkewAddons[i] : i \in 1..(next - 1)} :
                      InstalledAddon[b] < NewestAddon[FirstPlane][b]}
      BY <2>3, <2>4 DEF ReadAsStood
    <2>7. {SkewAddons[i] : i \in 1..next} = {SkewAddons[i] : i \in 1..(next - 1)} \cup {a}
      BY <1>1, <1>2
    <2>8. behind' = {b \in {SkewAddons[i] : i \in 1..next} :
                       InstalledAddon[b] < NewestAddon[FirstPlane][b]}
      BY <2>2, <2>5, <2>6, <2>7
    <2>9. /\ DOMAIN skews = {SkewGroups[i] : i \in 1..Len(SkewGroups)}
          /\ \A g \in DOMAIN skews : skews[g] = FirstPlane - FirstGroups[g]
      BY <2>3, <2>4 DEF ReadAsStood
    <2> QED
      BY <1>3, <2>4, <2>5, <2>8, <2>9 DEF ReadAsStood
  <1> QED
    BY <1>2, <1>3, <1>4, <1>5, <1>6 DEF ReadInvariant

LEMMA SkewFindingsKept ==
  ASSUME ReadInvariant, SkewFindings
  PROVE  ReadInvariant'
  <1>1. /\ reading = "addons" /\ next = Len(SkewAddons) + 1 /\ reference = NoReference
        /\ planeRead \in DOMAIN NewestAddon /\ Len(SkewAddons) \in Nat
    BY ReadinessAssumption DEF SkewFindings, ReadInvariant
  <1>2. /\ UNCHANGED <<plane, groupMinor, insights, reference, planeRead, shown, skews, behind,
                      next, matched, detail, readFaults>>
        /\ reading' = "over" /\ findings' = SkewReport
    BY DEF SkewFindings, Reads, readWorld
  <1>3. ReadinessTypeOK'
    BY <1>1, <1>2 DEF ReadInvariant, ReadinessTypeOK
  <1>4. SkewReport' = SkewReport
    BY <1>2 DEF SkewReport
  <1>5. (Reporting /\ Still => ReadAsStood)'
    <2>1. SUFFICES ASSUME Reporting', Still' PROVE ReadAsStood'
      OBVIOUS
    <2>2. Reporting /\ Still
      BY <1>1, <1>2, <2>1 DEF Reporting, Still
    <2>3. ReadAsStood
      BY <2>2 DEF ReadInvariant
    <2>4. GroupsRead' = GroupsRead /\ AddonsRead' = AddonsRead
      BY <1>1, <1>2 DEF GroupsRead, AddonsRead
    <2> QED
      BY <1>2, <2>3, <2>4 DEF ReadAsStood
  <1> QED
    BY <1>1, <1>2, <1>3, <1>4, <1>5 DEF ReadInvariant

\* An insight is shown when it is the one named or the only one the reference matched.
LEMMA ResolveKept ==
  ASSUME ReadInvariant, ResolveInsightID
  PROVE  ReadInvariant'
  <1>1. PICK visible : visible = {i \in insights : Insight[i].category = ReadinessCategory}
    OBVIOUS
  <1>2. /\ reading = "start" /\ reference # NoReference /\ DOMAIN skews = {} /\ behind = {}
        /\ findings = << >> /\ insights \subseteq DOMAIN Insight /\ visible \subseteq insights
        /\ IsFiniteSet(DOMAIN Insight)
    BY <1>1, ReadinessAssumption DEF ResolveInsightID, ReadInvariant, ReadinessTypeOK
  <1>3. /\ UNCHANGED <<plane, groupMinor, insights, reference, planeRead, shown, skews, behind,
                      findings, next>>
        /\ \/ /\ reading' \in {"error", "detail"} /\ readFaults' = readFaults
              /\ detail' = Resolved(visible)
              /\ matched' = (reference.exact \cup reference.like) \cap visible
           \/ reading' = "error" /\ readFaults' \in 0..MaxReadFaults /\ UNCHANGED <<matched, detail>>
    BY <1>1, ReadinessAssumption
       DEF ResolveInsightID, Reads, ReadFails, readWorld, reportVars, ReadInvariant, ReadinessTypeOK
  <1>4. /\ Resolved(visible) \in DOMAIN Insight \cup {NoInsight}
        /\ \/ Resolved(visible) = NoInsight
           \/ Resolved(visible) \in reference.exact
           \/ (reference.exact \cup reference.like) \cap visible = {Resolved(visible)}
    <2>1. PICK exact : exact = reference.exact \cap visible
      OBVIOUS
    <2>2. PICK like : like = reference.like \cap visible
      OBVIOUS
    <2>3. Resolved(visible) = IF exact # {} THEN CHOOSE i \in exact : TRUE
                             ELSE IF Cardinality(like) = 1 THEN CHOOSE i \in like : TRUE
                             ELSE NoInsight
      BY <2>1, <2>2 DEF Resolved
    <2>4. CASE exact # {}
      BY <1>2, <2>1, <2>3, <2>4
    <2>5. CASE exact = {} /\ Cardinality(like) = 1
      <3>1. IsFiniteSet(like)
        BY <1>2, <2>2, FS_Subset
      <3>2. PICK i : like = {i}
        BY <2>5, <3>1, FS_Singleton
      <3>3. Resolved(visible) = i
        BY <2>3, <2>5, <3>2
      <3> QED
        BY <1>2, <2>1, <2>2, <2>5, <3>2, <3>3
    <2> QED
      BY <2>3, <2>4, <2>5
  <1>5. detail' \in DOMAIN Insight \cup {NoInsight}
    BY <1>3, <1>4 DEF ReadInvariant, ReadinessTypeOK
  <1>6. detail' # NoInsight => detail' \in reference.exact \/ matched' = {detail'}
    BY <1>3, <1>4 DEF ReadInvariant
  <1>7. readFaults' \in 0..MaxReadFaults
    BY <1>3 DEF ReadInvariant, ReadinessTypeOK
  <1>8. ReadinessTypeOK'
    BY <1>2, <1>3, <1>5, <1>7 DEF ReadInvariant, ReadinessTypeOK
  <1> QED
    BY <1>2, <1>3, <1>6, <1>8 DEF ReadInvariant, Reporting

LEMMA DescribeInsightKept ==
  ASSUME ReadInvariant, DescribeInsight
  PROVE  ReadInvariant'
  <1>1. reading = "detail" /\ reference # NoReference /\ findings = << >>
    BY DEF DescribeInsight, ReadInvariant
  <1>2. /\ UNCHANGED <<plane, groupMinor, insights, reference, planeRead, shown, skews, behind,
                      findings, next, matched, detail>>
        /\ reading' \in {"over", "error"} /\ readFaults' \in 0..MaxReadFaults
    BY ReadinessAssumption
       DEF DescribeInsight, Reads, ReadFails, readWorld, reportVars, ReadInvariant, ReadinessTypeOK
  <1>3. ReadinessTypeOK'
    BY <1>2 DEF ReadInvariant, ReadinessTypeOK
  <1> QED
    BY <1>1, <1>2, <1>3 DEF ReadInvariant, Reporting

\* While somebody else moves the world under it, the command has read what it has read.
LEMMA ReadWorldMoves ==
  ASSUME ReadInvariant, CheckedPlaneMoves \/ CheckedGroupMoves \/ InsightResolves
  PROVE  ReadInvariant'
  <1>1. /\ UNCHANGED <<reference, reading, next, planeRead, shown, skews, behind, findings, matched,
                      detail, readFaults>>
        /\ reading \notin {"over", "error"}
    BY DEF CheckedPlaneMoves, CheckedGroupMoves, InsightResolves, reportVars
  <1>2. findings = << >>
    BY <1>1 DEF ReadInvariant
  <1>3. plane \in Nat /\ FirstPlane \in Nat /\ DOMAIN NewestAddon \subseteq Nat
    BY ReadinessAssumption DEF ReadInvariant, ReadinessTypeOK
  <1>4. /\ plane' \in DOMAIN NewestAddon /\ plane <= plane' /\ insights' \subseteq insights
        /\ plane' # plane => plane' = plane + 1
    BY <1>3 DEF CheckedPlaneMoves, CheckedGroupMoves, InsightResolves, ReadInvariant, ReadinessTypeOK
  <1>5. /\ DOMAIN groupMinor' = DOMAIN groupMinor
        /\ \A g \in DOMAIN groupMinor : /\ groupMinor'[g] \in 0..plane
                                        /\ groupMinor[g] <= groupMinor'[g]
    <2>1. \A g \in DOMAIN groupMinor : groupMinor[g] \in 0..plane
      BY DEF ReadInvariant, ReadinessTypeOK
    <2>2. CASE groupMinor' = groupMinor
      BY <1>3, <2>1, <2>2
    <2>3. CASE CheckedGroupMoves
      <3>1. PICK g \in DOMAIN groupMinor :
              groupMinor[g] < plane /\ groupMinor' = [groupMinor EXCEPT ![g] = plane]
        BY <2>3 DEF CheckedGroupMoves
      <3> QED
        BY <1>3, <2>1, <3>1
    <2> QED
      BY <2>2, <2>3 DEF CheckedPlaneMoves, InsightResolves
  <1>6. /\ \A g \in DOMAIN groupMinor' : groupMinor'[g] \in 0..plane'
        /\ \A g \in DOMAIN FirstGroups : FirstGroups[g] <= groupMinor'[g]
    <2>1. DOMAIN groupMinor = DOMAIN FirstGroups
      BY DEF ReadInvariant
    <2>2. \A g \in DOMAIN FirstGroups : /\ groupMinor[g] \in 0..plane /\ FirstGroups[g] <= groupMinor[g]
                                        /\ FirstGroups[g] \in Nat
      BY <2>1, ReadinessAssumption DEF ReadInvariant, ReadinessTypeOK
    <2>3. plane' \in Nat
      BY <1>3, <1>4
    <2> QED
      BY <1>3, <1>4, <1>5, <2>1, <2>2, <2>3
  <1>7. FirstPlane <= plane' /\ planeRead <= plane' /\ \A g \in DOMAIN skews : skews[g] \in 0..plane'
    <2>1. planeRead \in Nat
      BY <1>3 DEF ReadInvariant, ReadinessTypeOK
    <2>2. FirstPlane <= plane /\ planeRead <= plane /\ plane' \in Nat
          /\ \A g \in DOMAIN skews : skews[g] \in 0..plane
      BY <1>3, <1>4 DEF ReadInvariant, ReadinessTypeOK
    <2> QED
      BY <1>3, <1>4, <2>1, <2>2
  <1>8. ReadinessTypeOK'
    BY <1>1, <1>4, <1>6, <1>7 DEF ReadInvariant, ReadinessTypeOK
  <1>9. Still' => Still
    <2>1. SUFFICES ASSUME Still' PROVE Still
      OBVIOUS
    <2>2. readFaults = 0 /\ plane' = FirstPlane /\ groupMinor' = FirstGroups
      BY <1>1, <2>1 DEF Still
    <2>3. plane = FirstPlane
      BY <1>3, <1>4, <2>2 DEF ReadInvariant
    <2>4. groupMinor = FirstGroups
      <3>1. CASE groupMinor' = groupMinor
        BY <2>2, <3>1
      <3>2. CASE CheckedGroupMoves
        <4>1. PICK g \in DOMAIN groupMinor :
                groupMinor[g] < plane /\ groupMinor' = [groupMinor EXCEPT ![g] = plane]
          BY <3>2 DEF CheckedGroupMoves
        <4>2. groupMinor[g] \in 0..plane /\ FirstGroups[g] <= groupMinor[g]
          BY DEF ReadInvariant, ReadinessTypeOK
        <4>3. FirstGroups[g] = plane
          BY <2>2, <4>1
        <4> QED
          BY <1>3, <4>1, <4>2, <4>3
      <3> QED
        BY <3>1, <3>2 DEF CheckedPlaneMoves, InsightResolves
    <2> QED
      BY <2>2, <2>3, <2>4 DEF Still
  <1>10. (Reporting /\ Still => ReadAsStood)'
    <2>1. SUFFICES ASSUME Reporting', Still' PROVE ReadAsStood'
      OBVIOUS
    <2>2. ReadAsStood
      BY <1>1, <1>9, <2>1 DEF ReadInvariant, Reporting
    <2> QED
      BY <1>1, <2>2 DEF ReadAsStood, GroupsRead, AddonsRead
  <1> QED
    BY <1>1, <1>2, <1>5, <1>6, <1>7, <1>8, <1>10 DEF ReadInvariant

LEMMA ReadKept ==
  ASSUME ReadInvariant, ReadinessNext \/ UNCHANGED readVars
  PROVE  ReadInvariant'
  <1>1. CASE ReadPlane
    BY <1>1, ReadPlaneKept
  <1>2. CASE ReadInsights
    BY <1>2, ReadInsightsKept
  <1>3. CASE ReadGroup
    BY <1>3, ReadGroupKept
  <1>4. CASE ListAddons
    BY <1>4, ListAddonsKept
  <1>5. CASE ReadAddon
    BY <1>5, ReadAddonKept
  <1>6. CASE SkewFindings
    BY <1>6, SkewFindingsKept
  <1>7. CASE ResolveInsightID
    BY <1>7, ResolveKept
  <1>8. CASE DescribeInsight
    BY <1>8, DescribeInsightKept
  <1>9. CASE CheckedPlaneMoves \/ CheckedGroupMoves \/ InsightResolves
    BY <1>9, ReadWorldMoves
  <1>10. CASE UNCHANGED readVars
    <2>1. UNCHANGED <<reference, plane, groupMinor, insights, reading, next, planeRead, shown, skews,
                      behind, findings, matched, detail, readFaults>>
      BY <1>10 DEF readVars, readWorld, reportVars
    <2> QED
      BY <2>1 DEF ReadInvariant, ReadinessTypeOK, Reporting, Still, ReadAsStood, GroupsRead,
                  AddonsRead, SkewReport
  <1> QED
    BY <1>1, <1>2, <1>3, <1>4, <1>5, <1>6, <1>7, <1>8, <1>9, <1>10 DEF ReadinessNext, ReadStep

\* What the invariant says of a report is what ReadinessHonest asks of it.
LEMMA ReadTold ==
  ASSUME ReadInvariant
  PROVE  ReadinessHonest
  <1>1. detail # NoInsight => detail \in reference.exact \/ matched = {detail}
    BY DEF ReadInvariant
  <1>2. CASE ~(reading = "over" /\ reference = NoReference)
    <2>1. findings = << >>
      BY <1>2 DEF ReadInvariant
    <2>2. Found("blocking") = {}
      BY <2>1 DEF Found
    <2> QED
      BY <1>1, <1>2, <2>1, <2>2 DEF ReadinessHonest
  <1>3. CASE reading = "over" /\ reference = NoReference
    <2>1. /\ DOMAIN skews \subseteq DOMAIN FirstGroups /\ behind \subseteq DOMAIN InstalledAddon
          /\ findings = SkewReport
      BY <1>3 DEF ReadInvariant
    <2>2. /\ Found("blocking") = NamedBlocking /\ Found("lagging") = NamedLagging
          /\ Found("addon") = behind
      BY <2>1, ReportHolds
    <2>3. \A i, j \in 1..Len(findings) :
            findings[i][1] = "blocking" /\ findings[j][1] # "blocking" => i < j
      BY <2>1, ReportHolds
    <2>4. \A g \in Found("blocking") : planeRead - FirstGroups[g] >= SkewLimit
      <3>1. SUFFICES ASSUME NEW g \in NamedBlocking PROVE planeRead - FirstGroups[g] >= SkewLimit
        BY <2>2
      <3>2. g \in DOMAIN skews /\ skews[g] >= 3
        BY DEF NamedBlocking, Blocks, SkewLimit
      <3>3. /\ skews[g] = 0 \/ skews[g] <= planeRead - FirstGroups[g]
            /\ skews[g] \in 0..plane /\ plane \in Nat /\ planeRead \in Nat /\ FirstGroups[g] \in Nat
        <4>1. /\ skews[g] = 0 \/ skews[g] <= planeRead - FirstGroups[g]
              /\ skews[g] \in 0..plane /\ plane \in DOMAIN NewestAddon
              /\ planeRead \in DOMAIN NewestAddon \cup {0}
          BY <3>2 DEF ReadInvariant, ReadinessTypeOK
        <4>2. FirstGroups[g] \in 0..FirstPlane /\ DOMAIN NewestAddon \subseteq Nat
          BY <2>1, <3>2, ReadinessAssumption
        <4> QED
          BY <4>1, <4>2
      <3> QED
        BY <3>2, <3>3 DEF SkewLimit
    <2>5. ASSUME readFaults = 0, plane = FirstPlane, groupMinor = FirstGroups
          PROVE  /\ \A g \in DOMAIN FirstGroups :
                      /\ g \in Found("blocking") <=> plane >= FirstGroups[g] + SkewLimit
                      /\ g \in Found("blocking") \cup Found("lagging") <=> plane # FirstGroups[g]
                 /\ Found("addon") = {a \in DOMAIN InstalledAddon :
                                        InstalledAddon[a] < NewestAddon[plane][a]}
      <3>1. ReadAsStood
        BY <1>3, <2>5 DEF ReadInvariant, Reporting, Still
      <3>2. GroupsRead = Len(SkewGroups) /\ AddonsRead = Len(SkewAddons)
        BY <1>3 DEF GroupsRead, AddonsRead
      <3>3. DOMAIN skews = DOMAIN FirstGroups
        <4>1. DOMAIN skews = {SkewGroups[i] : i \in 1..Len(SkewGroups)}
          BY <3>1, <3>2 DEF ReadAsStood
        <4>2. \A g \in DOMAIN FirstGroups : \E i \in 1..Len(SkewGroups) : SkewGroups[i] = g
          BY ReadinessAssumption
        <4> QED
          BY <2>1, <4>1, <4>2
      <3>4. ASSUME NEW g \in DOMAIN FirstGroups
            PROVE  /\ g \in Found("blocking") <=> plane >= FirstGroups[g] + SkewLimit
                   /\ g \in Found("blocking") \cup Found("lagging") <=> plane # FirstGroups[g]
        <4>1. skews[g] = FirstPlane - FirstGroups[g] /\ g \in DOMAIN skews
          BY <3>1, <3>3 DEF ReadAsStood
        <4>2. FirstGroups[g] \in 0..FirstPlane /\ FirstPlane \in Nat
          BY ReadinessAssumption
        <4>3. g \in Found("blocking") <=> skews[g] >= 3
          BY <2>2, <4>1 DEF NamedBlocking, Blocks, SkewLimit
        <4>4. g \in Found("blocking") \cup Found("lagging") <=> skews[g] > 0
          <5>1. g \in Found("lagging") <=> skews[g] > 0 /\ ~(skews[g] >= 3)
            BY <2>2, <4>1 DEF NamedLagging, NamedBlocking, Blocks, SkewLimit
          <5> QED
            BY <4>1, <4>2, <4>3, <5>1
        <4> QED
          BY <2>5, <4>1, <4>2, <4>3, <4>4 DEF SkewLimit
      <3>5. behind = {a \in DOMAIN InstalledAddon : InstalledAddon[a] < NewestAddon[FirstPlane][a]}
        <4>1. behind = {a \in {SkewAddons[i] : i \in 1..Len(SkewAddons)} :
                          InstalledAddon[a] < NewestAddon[FirstPlane][a]}
          BY <3>1, <3>2 DEF ReadAsStood
        <4>2. {SkewAddons[i] : i \in 1..Len(SkewAddons)} = DOMAIN InstalledAddon
          <5>1. SkewAddons \in Seq(DOMAIN InstalledAddon)
            BY ReadinessAssumption
          <5>2. \A a \in DOMAIN InstalledAddon : \E i \in 1..Len(SkewAddons) : SkewAddons[i] = a
            BY ReadinessAssumption
          <5>3. \A i \in 1..Len(SkewAddons) : SkewAddons[i] \in DOMAIN InstalledAddon
            BY <5>1
          <5> QED
            BY <5>2, <5>3
        <4> QED
          BY <4>1, <4>2
      <3> QED
        BY <2>2, <2>5, <3>4, <3>5
    <2> QED
      BY <1>1, <2>3, <2>4, <2>5 DEF ReadinessHonest
  <1> QED
    BY <1>2, <1>3

\* A report of `cluster upgrade-check` claims no blocking skew that was not there and, when
\* nothing failed or moved, misses nothing; the insight shown is the one meant (UpgradeCheck,
\* computeSkew, skewFindings, ResolveInsightID).
THEOREM ReadinessCorrect == CommandsSpec => []ReadinessHonest
  <1>1. CommandsInit => ReadInvariant
    BY ReadStart DEF CommandsInit
  <1>2. ReadInvariant /\ [CommandsNext]_commandVars => ReadInvariant'
    BY ReadSteps, ReadKept
  <1> QED
    BY <1>1, <1>2, ReadTold, PTL DEF CommandsSpec

-----------------------------------------------------------------------------
(* The whole program *)

\* The parts of the invariant, whichever command runs; the types only where no part
\* holds them.
Parts ==
  /\ command \in CommandNames
  /\ StoreInvariant /\ typed \in 0..MaxContextCommands
  /\ CheckInvariant /\ Dated /\ QuestionsCounted
  /\ ListInvariant /\ StatusInvariant /\ HealthInvariant /\ ReadInvariant
  /\ ScaleInvariant /\ NodegroupScaleTypeOK

LEMMA PartsStart == ASSUME CommandsInit PROVE Parts
  <1>1. command \in CommandNames /\ typed \in 0..MaxContextCommands
    <2>1. command \in CommandNames /\ ContextStoreInit
      BY DEF CommandsInit
    <2>2. typed = 0
      BY <2>1 DEF ContextStoreInit
    <2> QED
      BY <2>1, <2>2, ContextStoreAssumption
  <1>2. StoreInvariant /\ CheckInvariant /\ Dated /\ QuestionsCounted
    BY StoreStart, CheckStart, BoundsStart
  <1>3. ListInvariant /\ StatusInvariant /\ HealthInvariant
    BY ListStart, StatusStart, HealthStart
  <1>4. ScaleInvariant /\ NodegroupScaleTypeOK
    BY ScaleStart, ScaleTypesStart
  <1>5. ReadInvariant
    BY ReadStart DEF CommandsInit
  <1> QED
    BY <1>1, <1>2, <1>3, <1>4, <1>5 DEF Parts

LEMMA PartsKept ==
  ASSUME Parts, [CommandsNext]_commandVars PROVE Parts'
  <1>1. (command \in CommandNames)'
    BY DEF Parts, CommandsNext, RunContext, RunVersion, RunClusterList, RunStatusCommand,
           RunNodegroupScale, RunHealthCheck, RunUpgradeCheck, Finished, commandVars
  <1>2. StoreInvariant' /\ (typed \in 0..MaxContextCommands)'
    BY ContextSteps, StoreKept, CommandsBounded DEF Parts
  <1>3. CheckInvariant' /\ Dated' /\ QuestionsCounted'
    <2>1. UpdateCheckNext \/ UNCHANGED checkVars
      BY CheckSteps
    <2> QED
      BY <2>1, CheckKept, DatedKept, QuestionsKept DEF Parts, CheckInvariant
  <1>4. ListInvariant'
    BY ListSteps, ListKept DEF Parts
  <1>5. StatusInvariant'
    BY StatusSteps, StatusKept DEF Parts
  <1>6. ScaleInvariant' /\ NodegroupScaleTypeOK'
    BY ScaleSteps, ScaleKept, ScaleTypesKept DEF Parts
  <1>7. HealthInvariant'
    BY HealthSteps, HealthKept DEF Parts
  <1>8. ReadInvariant'
    BY ReadSteps, ReadKept DEF Parts
  <1> QED
    BY <1>1, <1>2, <1>3, <1>4, <1>5, <1>6, <1>7, <1>8 DEF Parts

LEMMA PartsTyped == ASSUME Parts PROVE CommandsTypeOK /\ CommandsInvariant
  <1>1. ContextStoreTypeOK /\ UpdateCheckTypeOK
    BY StoreTypes, CheckTyped DEF Parts, CheckInvariant
  <1>2. ClusterListTypeOK /\ FleetStatusTypeOK /\ HealthChecksTypeOK /\ ReadinessTypeOK
    BY DEF Parts, ListInvariant, StatusInvariant, StatusShape, HealthInvariant, ReadInvariant
  <1> QED
    BY <1>1, <1>2 DEF Parts, CommandsInvariant, CommandsTypeOK

\* Whichever command runs, its state keeps its types and the invariant of its part (every
\* command but the upgrade, the updates and the roll, which have theorems of their own),
\* and the types and the parts of the others hold as well.
THEOREM EveryCommandCorrect ==
  CommandsSpec => []CommandsInvariant /\ []CommandsTypeOK /\ []Parts
  BY PartsStart, PartsKept, PartsTyped, PTL DEF CommandsSpec

=============================================================================
