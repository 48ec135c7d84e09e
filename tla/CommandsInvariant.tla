--------------------------- MODULE CommandsInvariant ---------------------------
(***************************************************************************)
(* What the properties of the commands need to be inductive, a part per      *)
(* command.                                                                 *)
(***************************************************************************)
EXTENDS Commands

-----------------------------------------------------------------------------
(* The context file *)

\* A document whose two pointers name saved contexts, and not the same one.
WellFormed(d) ==
  /\ d \in Documents
  /\ {d.current, d.previous} \subseteq DOMAIN d.contexts \cup {NoName}
  /\ d.current = d.previous => d.current = NoName

\* What StoreReadable and LossNeedsOverlap need to be inductive: the document on its
\* way to the file is well formed, is whole when it is renamed, and differs from the one
\* loaded only in the context the command is about.
StoreInvariant ==
  /\ WellFormed(file)
  /\ shell \in [Shells -> {"idle", "edit", "write", "rename"}]
  /\ temp \in [Shells -> {"none", "part", "whole"}]
  /\ about \in [Shells -> ContextNames \cup {NoName}]
  /\ loaded \in [Shells -> Documents] /\ doc \in [Shells -> Documents]
  /\ \A p \in Shells : WellFormed(loaded[p]) /\ WellFormed(doc[p])
  /\ \A p \in Shells : shell[p] = "rename" => temp[p] = "whole"
  /\ \A p \in Shells : shell[p] \in {"write", "rename"} =>
       \A n \in ContextNames \ {about[p]} : Entry(doc[p], n) = Entry(loaded[p], n)

-----------------------------------------------------------------------------
(* The update check *)

CacheType == [ok : BOOLEAN, at : Nat, tag : 0..Len(Releases)]

CheckTypes ==
  /\ clock \in Nat /\ published \in 1..Len(Releases) /\ checkFile \in CacheType
  /\ version \in [Terminals -> {"idle", "fetch", "open", "write"}]
  /\ found \in [Terminals -> CacheType] /\ answer \in [Terminals -> 0..Len(Releases)]
  /\ asked \in Seq(Nat) /\ disturbed \in BOOLEAN

\* The newer of two versions, spelled out.
Newer(v) ==
  \/ v[1] > Running[1]
  \/ v[1] = Running[1] /\ v[2] > Running[2]
  \/ v[1] = Running[1] /\ v[2] = Running[2] /\ v[3] > Running[3]

\* The last time GitHub was asked is vouched for at every point of an undisturbed
\* check: by the file, by the interval that has passed since, or by what is about to
\* be written.
Undisturbed ==
  /\ \A p, q \in Terminals : version[p] # "idle" /\ version[q] # "idle" => p = q
  /\ \A i \in 2..Len(asked) : asked[i] - asked[i - 1] >= CheckInterval
  /\ Len(asked) > 0 =>
       /\ asked[Len(asked)] <= clock
       /\ (\A p \in Terminals : version[p] = "idle") =>
            checkFile.ok /\ checkFile.at >= asked[Len(asked)]
       /\ \A p \in Terminals :
            /\ version[p] = "fetch" => clock - asked[Len(asked)] >= CheckInterval
            /\ version[p] = "write" => found[p].ok /\ found[p].at >= asked[Len(asked)]

\* Nothing read, learnt or written is newer than the clock and the releases.
Dated ==
  /\ clock <= MaxClock /\ checkFile.at <= clock /\ checkFile.tag <= published
  /\ \A p \in Terminals :
       answer[p] <= published /\ found[p].tag <= published /\ found[p].at <= clock

Fetching == {p \in Terminals : version[p] = "fetch"}

\* Every question to GitHub took a command.
QuestionsCounted ==
  /\ checks \in 0..MaxChecks /\ IsFiniteSet(Fetching)
  /\ Len(asked) + Cardinality(Fetching) <= checks

CheckInvariant ==
  /\ CheckTypes
  /\ \A v \in hints : Newer(v)
  /\ ~disturbed => Undisturbed

-----------------------------------------------------------------------------
(* `cluster list` *)

\* What the listing of region r may hold: its own clusters, each with one status, and
\* all of them when neither a deadline nor a filter left any out.
Answer(r, rows) ==
  /\ rows \subseteq ClustersIn[r] \X Statuses
  /\ \A x, y \in rows : x[1] = y[1] => x = y
  /\ ~cut /\ filter = "any" => {x[1] : x \in rows} = ClustersIn[r]

Index == 1..Len(ListRegions)

Contributed == {i \in collected : sees[i] # FailedList}

\* What RegionsAccounted needs to be inductive: an entry of the shared cache answers for
\* the region of its key, a goroutine that has something to send has an answer for its
\* own region or a failure, and the rows are those of the answers collected.
ListInvariant ==
  /\ ClusterListTypeOK
  /\ region \in [Index -> {"none", "start", "evict", "list", "summarize", "send", "sent"}]
  /\ DOMAIN sees = Index /\ DOMAIN cache = {Key(i) : i \in Index}
  /\ filter \in {"any"} \cup Statuses
  /\ \A i \in Index :
       IF region[i] \in {"send", "sent"}
       THEN sees[i] = FailedList \/ Answer(ListRegions[i], sees[i])
       ELSE sees[i] = {}
  /\ \A k \in DOMAIN cache :
       /\ cache[k] = [state |-> cache[k].state, rows |-> cache[k].rows]
       /\ cache[k].state = "fresh" => Answer(k[1], cache[k].rows)
  /\ \A i \in collected : region[i] = "sent"
  /\ \A line \in listed : /\ line[1] \in Contributed /\ <<line[2], line[3]>> \in sees[line[1]]
                         /\ line = <<line[1], line[2], line[3]>>
  /\ \A i \in Contributed : \A x \in sees[i] : <<i, x[1], x[2]>> \in listed
  /\ listing = "dispatch" => collected = {}
  /\ listing # "dispatch" /\ ~cut => dispatched = Len(ListRegions)
  /\ report.kind # "none" <=> listing = "over"
  /\ report.kind # "none" =>
       /\ collected = 1..dispatched
       /\ report.kind = "error" <=> Cardinality(Failed) = Len(ListRegions)
       /\ report.kind = "clusters" => report.queried = Len(ListRegions) - Cardinality(Failed)
       /\ report.kind = "error" => report.queried = 0

-----------------------------------------------------------------------------
(* `nodegroup scale` *)

\* What ScaleHonest needs to be inductive: while the update call is retried, a token
\* EKS knows means that an answer was lost; past it, EKS has taken the update.
ScaleInvariant ==
  /\ accepted \subseteq {Token}
  /\ scale # "over" => outcome = "none"
  /\ scale \in {"pdbs", "update", "wait", "after"} => ~wish.dryRun
  /\ scale \in {"start", "pdbs"} => accepted = {}
  /\ scale = "update" /\ accepted # {} => answerLost
  /\ scale \in {"wait", "after"} => accepted # {}
  /\ scale = "after" /\ wish.wait => Scaled(seen)
  /\ wish.dryRun \/ outcome = "blocked" => accepted = {}
  /\ outcome = "ok" /\ ~wish.dryRun => accepted # {} /\ (wish.wait => Scaled(seen))
  /\ outcome = "failed" /\ ~answerLost => accepted = {}

-----------------------------------------------------------------------------
(* The health gate *)

SimpleChecks == Checks \ (Snapshotters \cup {"nodes"})

\* What a check that judges the CPU makes of a reading.
Judgement(check, readings) ==
  IF check = "capacity" THEN Result(CapacityVerdict(readings), TRUE)
  ELSE Result(BalanceVerdict(readings), FALSE)

\* What a simple check says when its call is answered.
Exactly(check) == IF Needs(check) \subseteq clients THEN Measured(check) ELSE Skip

\* While the cluster stands still and every call is answered, whatever has been read is
\* what there is.
ReadAsIs ==
  /\ counted.asked => counted = IF "kube" \in clients THEN KubernetesNodeCounts
                                ELSE [NotCounted EXCEPT !.asked = TRUE]
  /\ verdict["nodes"] # Pending =>
       counted.asked /\ verdict["nodes"] = Result(NodeVerdict(DOMAIN InstancesOf), TRUE)
  /\ snapshot["shared"].state = "metrics" =>
       "cloudwatch" \in clients /\ snapshot["shared"].instances = Nodes
  /\ snapshot["shared"].state = "done" =>
       snapshot["shared"].reading = IF "cloudwatch" \in clients THEN load ELSE NoSnapshot.reading
  /\ \A check \in SimpleChecks : verdict[check] # Pending => verdict[check] = Exactly(check)

\* What OneReading and GateEarned need to be inductive: both judges of the CPU have judged
\* the one snapshot, which does not change once it is done, and the decision is that of
\* the results.
HealthInvariant ==
  /\ HealthChecksTypeOK
  /\ DOMAIN snapshot = Keys
  /\ \A key \in Keys :
       /\ snapshot[key] = [state |-> snapshot[key].state, instances |-> snapshot[key].instances,
                           reading |-> snapshot[key].reading]
       /\ snapshot[key].instances \subseteq Nodes
       /\ snapshot[key].reading \in [DOMAIN snapshot[key].reading -> 0..100]
       /\ snapshot[key].state # "done" => snapshot[key].reading = NoSnapshot.reading
  /\ \A check \in Snapshotters :
       verdict[check] # Pending =>
         /\ snapshot["shared"].state = "done"
         /\ verdict[check] = Judgement(check, snapshot["shared"].reading)
  /\ verdict["nodes"] # Pending => verdict["nodes"].blocking /\ ~verdict["nodes"].skipped
  /\ \A check \in Checks \ BlockingChecks : ~verdict[check].blocking
  /\ drift = 0 /\ healthFaults = 0 => ReadAsIs
  /\ decision # "PENDING" =>
       /\ \A check \in Checks : verdict[check] # Pending
       /\ decision = AggregateResults({verdict[check] : check \in Checks})

-----------------------------------------------------------------------------
(* `status` *)

RowFields == {"named", "version", "tier", "staleImages", "staleAddons", "issues", "errors"}
AllGroups == UNION {GroupsOf(c) : c \in Fleets}

StatusShape ==
  /\ FleetStatusTypeOK
  /\ DOMAIN job = Fleets /\ DOMAIN row = Fleets /\ \A c \in Fleets : DOMAIN row[c] = RowFields
  /\ DOMAIN imageFor = Fleets /\ DOMAIN imageMemo = Fleets /\ DOMAIN groupJob = AllGroups
  /\ DOMAIN tierMemo = SweepRegions

\* A row is empty until the cluster is described, and no nodegroup is looked at before
\* the version to compare it for is known.
RowStage(c) ==
  /\ job[c] \in {"todo", "describe"} => row[c] = ZeroRow
  /\ job[c] \in {"support", "resolve", "groups", "images", "addons"} =>
       row[c].version \in DOMAIN Tier
  /\ job[c] \in {"todo", "describe", "support", "resolve", "groups"} => imageFor[c] = 0
  /\ job[c] = "images" => imageFor[c] # 0

\* The tier of a row is one of its own version.
TierHonest(c) ==
  row[c].tier \in {"", "unknown"}
    \cup {Tier[v] : v \in {row[c].version} \cap DOMAIN Tier}
    \cup {Calendar[v] : v \in {row[c].version} \cap DOMAIN Tier}

\* The nodegroups of a cluster are compared for a version the cluster had, and the stale
\* ones are so for such a version.
ImagesHonest(c) ==
  /\ FirstVersion[c] <= running[c]
  /\ \A g \in row[c].staleImages : \E v \in FirstVersion[c]..running[c] : Outdated(c, g, v)
  /\ imageFor[c] # 0 => imageFor[c] \in FirstVersion[c]..running[c]
  /\ imageFor[c] = 0 => DOMAIN imageMemo[c] = {}
  /\ \A t \in DOMAIN imageMemo[c] :
       \/ imageMemo[c][t] = NoImage
       \/ t # Custom /\ imageMemo[c][t] = LatestImage[imageFor[c]][t]

RowHonest(c) == RowStage(c) /\ TierHonest(c) /\ ImagesHonest(c)

GroupHonest(g) ==
  /\ imageFor[g[1]] = 0 => groupJob[g] = "todo"
  /\ groupJob[g] = "outdated" =>
       \E v \in FirstVersion[g[1]]..running[g[1]] : Outdated(g[1], g[2], v)

MemoHonest(r) ==
  \A v \in DOMAIN tierMemo[r] : v \in DOMAIN Tier /\ tierMemo[r][v] \in {Tier[v], Calendar[v]}

\* What a row, a nodegroup and a memo show when nothing failed and nobody upgraded.
RowExact(c) ==
  LET v == FirstVersion[c]
  IN  /\ job[c] \notin {"todo", "describe"} =>
           row[c].version = v /\ row[c].issues = Fleet[c].issues
      /\ job[c] \in {"groups", "images", "addons", "done"} => row[c].tier = Tier[v]
      /\ job[c] \in {"addons", "done"} =>
           row[c].staleImages = {g \in DOMAIN Fleet[c].groups : Outdated(c, g, v)}
      /\ job[c] = "done" =>
           row[c].staleAddons = {a \in DOMAIN Fleet[c].addons :
                                   Fleet[c].addons[a] < LatestAddon[v][a]}
      /\ \A t \in DOMAIN imageMemo[c] :
           t # Custom => imageMemo[c][t] = LatestImage[v][t] /\ imageMemo[c][t] # NoImage

GroupExact(g) ==
  groupJob[g] \notin {"todo", "lookup"} =>
    (groupJob[g] = "outdated" <=> Outdated(g[1], g[2], FirstVersion[g[1]]))

RegionExact(r) ==
  /\ sweep[r] # "failed" /\ (sweep[r] = "merged" => \A c \in ClustersOf(r) : job[c] = "done")
  /\ \A v \in DOMAIN tierMemo[r] : tierMemo[r][v] = Tier[v]

Uneventful == faults = 0 /\ ~stopped /\ running = FirstVersion

\* What StatusHonest needs to be inductive.
StatusInvariant ==
  /\ StatusShape
  /\ \A c \in Fleets : RowHonest(c)
  /\ \A g \in AllGroups : GroupHonest(g)
  /\ \A r \in SweepRegions : MemoHonest(r)
  /\ Uneventful =>
       /\ \A c \in Fleets : RowExact(c)
       /\ \A g \in AllGroups : GroupExact(g)
       /\ \A r \in SweepRegions : RegionExact(r)
       /\ exit # -1 => exit = TrueExit

-----------------------------------------------------------------------------
(* `cluster upgrade-check` *)

Reporting == reference = NoReference /\ reading \in {"insights", "groups", "addons", "over"}
Still == readFaults = 0 /\ plane = FirstPlane /\ groupMinor = FirstGroups

GroupsRead ==
  IF reading = "insights" THEN 0 ELSE IF reading = "groups" THEN next - 1 ELSE Len(SkewGroups)
AddonsRead ==
  IF reading = "over" THEN Len(SkewAddons) ELSE IF reading = "addons" THEN next - 1 ELSE 0

\* What has been read when nothing failed or moved.
ReadAsStood ==
  /\ planeRead = FirstPlane
  /\ DOMAIN skews = {SkewGroups[i] : i \in 1..GroupsRead}
  /\ \A g \in DOMAIN skews : skews[g] = FirstPlane - FirstGroups[g]
  /\ behind = {a \in {SkewAddons[i] : i \in 1..AddonsRead} :
                 InstalledAddon[a] < NewestAddon[FirstPlane][a]}

\* What ReadinessHonest needs to be inductive: versions only rise, so a nodegroup is never
\* further behind than it was at the start, and the findings are those of what was read.
ReadInvariant ==
  /\ ReadinessTypeOK
  /\ DOMAIN groupMinor = DOMAIN FirstGroups
  /\ \A g \in DOMAIN FirstGroups : FirstGroups[g] <= groupMinor[g]
  /\ FirstPlane <= plane /\ planeRead <= plane
  /\ DOMAIN skews \subseteq DOMAIN FirstGroups /\ behind \subseteq DOMAIN InstalledAddon
  /\ \A g \in DOMAIN skews : skews[g] = 0 \/ skews[g] <= planeRead - FirstGroups[g]
  /\ reading \in {"insights", "groups", "addons"} =>
       reference = NoReference /\ planeRead \in DOMAIN NewestAddon
  /\ reading = "detail" => reference # NoReference
  /\ reading \in {"start", "insights"} => DOMAIN skews = {} /\ behind = {}
  /\ reading = "groups" => next <= Len(SkewGroups) + 1
  /\ reading = "addons" => next <= Len(SkewAddons) + 1
  /\ findings = IF reading = "over" /\ reference = NoReference THEN SkewReport ELSE << >>
  /\ detail # NoInsight => detail \in reference.exact \/ matched = {detail}
  /\ Reporting /\ Still => ReadAsStood

-----------------------------------------------------------------------------

\* The inductive invariant of the program: the command that runs keeps its part of it,
\* which includes its types.  The state of the others stays where it was at the start.
CommandsInvariant ==
  /\ command \in CommandNames
  /\ command = "context" => ContextStoreTypeOK /\ StoreInvariant
  /\ command = "version" => UpdateCheckTypeOK /\ CheckInvariant /\ Dated /\ QuestionsCounted
  /\ command = "cluster list" => ListInvariant
  /\ command = "status" => StatusInvariant
  /\ command = "nodegroup scale" => NodegroupScaleTypeOK /\ ScaleInvariant
  /\ command = "health check" => HealthInvariant
  /\ command = "cluster upgrade-check" => ReadInvariant

=============================================================================
