----------------------------- MODULE FleetStatus -----------------------------
(***************************************************************************)
(* `refresh status`: gatherFleet sweeps the regions, ListClusterStatuses   *)
(* assembles one row per cluster in parallel from best-effort reads, two   *)
(* memos save calls (the support window per version, the latest image per  *)
(* image type), and the rows decide the exit code (internal/commands/      *)
(* statuscmd, internal/services/status, internal/services/nodegroup).      *)
(***************************************************************************)
EXTENDS Integers, FiniteSets

CONSTANTS
    SweepRegions,
    Fleet,          \* cluster -> [region, groups, addons, issues] as EKS has it (external)
    Patterns,       \* the sets of clusters a name pattern given may match
    FirstVersion,   \* cluster -> its Kubernetes version when the sweep starts
    LatestImage,    \* version -> image type -> recommended image (SSM)
    LatestAddon,    \* version -> add-on -> latest compatible version
    Tier,           \* version -> support tier by DescribeClusterVersions
    Calendar,       \* version -> tier by the compiled-in calendar, or "unknown"
    RowWorkers,     \* --max-concurrency, of regions and of rows in each
    MaxFaults       \* bound: calls that fail while the command is not interrupted

Fleets == DOMAIN Fleet
Custom == "CUSTOM"
NoImage == 0

ASSUME FleetStatusAssumption ==
    /\ RowWorkers \in Nat \ {0} /\ MaxFaults \in Nat /\ Patterns \subseteq SUBSET Fleets
    /\ \A c \in Fleets : Fleet[c].region \in SweepRegions
    /\ FirstVersion \in [Fleets -> DOMAIN Tier]
    /\ DOMAIN Tier = DOMAIN Calendar /\ DOMAIN Tier \subseteq Nat \ {0}
    /\ DOMAIN LatestImage = DOMAIN Tier /\ DOMAIN LatestAddon = DOMAIN Tier

VARIABLES
    chosen,     \* the clusters whose name matches the pattern given
    running,    \* cluster -> its version now (external)
    stopped,    \* the command's context is done
    faults,     \* how many calls have failed on their own
    sweep,      \* region -> "todo", "rows", "merged" or "failed"
    job,        \* cluster -> where the goroutine of its row stands
    row,        \* cluster -> its row so far
    imageFor,   \* cluster -> the version its nodegroups are compared for
    groupJob,   \* <<cluster, group>> -> where the goroutine of the nodegroup stands
    imageMemo,  \* cluster -> image type -> memoized image, NoImage when
                \* the lookup failed
    tierMemo,   \* region -> version -> memoized tier
    exit        \* of the command; -1 while it runs, 1 on total failure

worldVars == <<chosen, running, stopped>>
imageVars == <<imageFor, groupJob, imageMemo>>
statusVars == <<worldVars, faults, sweep, job, row, imageVars, tierMemo, exit>>

ZeroRow == [named |-> FALSE, version |-> 0, tier |-> "", staleImages |-> {},
            staleAddons |-> {}, issues |-> 0, errors |-> {}]
NoMemo == [k \in {} |-> ""]
GroupsOf(c) == {c} \X DOMAIN Fleet[c].groups
ClustersOf(r) == {c \in chosen : Fleet[c].region = r}

-----------------------------------------------------------------------------
(* Regions: gatherFleet, ListClusterStatuses *)

\* A call of a command that is stopped fails; another may.
Fails == faults' = (IF stopped THEN faults ELSE faults + 1) /\ faults' <= MaxFaults
Answers == ~stopped /\ UNCHANGED faults

Sweeping == {r \in SweepRegions : sweep[r] = "rows"}

\* The sweep itself does not look at the context; the calls fail when it is done.
SweepRegion(r) ==
    /\ sweep[r] = "todo" /\ Cardinality(Sweeping) < RowWorkers
    /\ \/ Answers /\ sweep' = [sweep EXCEPT ![r] = "rows"]
       \/ Fails /\ sweep' = [sweep EXCEPT ![r] = "failed"]
    /\ UNCHANGED <<worldVars, job, row, imageVars, tierMemo, exit>>

Working(r) == {c \in ClustersOf(r) : job[c] \notin {"todo", "done"}}

StartRow(c) ==
    /\ c \in chosen /\ sweep[Fleet[c].region] = "rows" /\ job[c] = "todo"
    /\ Cardinality(Working(Fleet[c].region)) < RowWorkers
    /\ job' = [job EXCEPT ![c] = "describe"]
    /\ UNCHANGED <<worldVars, faults, sweep, row, imageVars, tierMemo, exit>>

\* ForEachParallel returns when every row is done; on a done context rows that were
\* never started stay zero values.
MergeRows(r) ==
    /\ sweep[r] = "rows" /\ Working(r) = {}
    /\ stopped \/ \A c \in ClustersOf(r) : job[c] = "done"
    /\ sweep' = [sweep EXCEPT ![r] = "merged"]
    /\ UNCHANGED <<worldVars, faults, job, row, imageVars, tierMemo, exit>>

-----------------------------------------------------------------------------
(* One row: assembleCluster *)

RowGoes(c, where) == job' = [job EXCEPT ![c] = where]

Describe(c) ==
    /\ job[c] = "describe"
    /\ \/ /\ Answers /\ RowGoes(c, "support")
          /\ row' = [row EXCEPT ![c].named = TRUE, ![c].version = running[c],
                                ![c].issues = Fleet[c].issues]
       \/ /\ Fails /\ RowGoes(c, "done")
          /\ row' = [row EXCEPT ![c].named = TRUE, ![c].tier = "unknown",
                                ![c].errors = {"describe"}]
    /\ UNCHANGED <<worldVars, sweep, imageVars, tierMemo, exit>>

\* Mutant: a hit on any version will do.
MemoTierAny(r, v) == {tierMemo[r][w] : w \in DOMAIN tierMemo[r]}

MemoTier(r, v) == {tierMemo[r][w] : w \in DOMAIN tierMemo[r] \cap {v}}

\* resolveSupport looks the version up under the lock and asks without it.
ResolveSupport(c) ==
    /\ job[c] = "support"
    /\ IF MemoTier(Fleet[c].region, row[c].version) = {}
       THEN RowGoes(c, "resolve") /\ UNCHANGED row
       ELSE /\ \E t \in MemoTier(Fleet[c].region, row[c].version) :
                 row' = [row EXCEPT ![c].tier = t]
            /\ RowGoes(c, "groups")
    /\ UNCHANGED <<worldVars, faults, sweep, imageVars, tierMemo, exit>>

SupportDates(c) ==
    LET v == row[c].version
    IN  /\ job[c] = "resolve"
        /\ \E tier \in {Tier[v], Calendar[v]} :
             /\ (Answers /\ tier = Tier[v]) \/ (Fails /\ tier = Calendar[v])
             /\ row' = [row EXCEPT ![c].tier = tier]
             /\ tierMemo' = [tierMemo EXCEPT ![Fleet[c].region] =
                    [w \in DOMAIN @ \cup {v} |-> IF w = v THEN tier ELSE @[w]]]
        /\ RowGoes(c, "groups")
        /\ UNCHANGED <<worldVars, sweep, imageVars, exit>>

\* The nodegroup service describes the cluster once more for its version.
ListGroups(c) ==
    /\ job[c] = "groups"
    /\ \/ /\ Answers /\ RowGoes(c, "images")
          /\ imageFor' = [imageFor EXCEPT ![c] = running[c]] /\ UNCHANGED row
       \/ /\ Fails /\ RowGoes(c, "addons")
          /\ row' = [row EXCEPT ![c].errors = @ \cup {"nodegroups"}] /\ UNCHANGED imageFor
    /\ UNCHANGED <<worldVars, sweep, groupJob, imageMemo, tierMemo, exit>>

\* CurrentAmiID tries the launch template, then an instance; NoImage when neither tells.
ClassifyAMI(group, current, latest) ==
    CASE group.status = "UPDATING" -> "updating"
      [] group.status # "UPDATING" /\ group.type = Custom -> "custom"
      [] OTHER -> IF NoImage \in {current, latest} THEN "unknown"
                  ELSE IF current = latest THEN "latest" ELSE "outdated"

GroupGoes(g, where) == groupJob' = [groupJob EXCEPT ![g] = where]

\* The recommended image comes from a lookup made just now, or from the memo, where the
\* failure of an earlier lookup may be all there is: no call fails then.
Judged(g, latest, from) ==
    LET group == Fleet[g[1]].groups[g[2]]
    IN  \E current \in {group.image, NoImage} :
          /\ IF current = NoImage \/ (from = "lookup" /\ latest = NoImage /\ group.type # Custom)
             THEN Fails ELSE UNCHANGED faults
          /\ GroupGoes(g, ClassifyAMI(group, current, latest))

\* A nodegroup that cannot be described drops out; the row does not record it.
GroupDrops(g) ==
    /\ job[g[1]] = "images" /\ groupJob[g] = "todo"
    /\ Fails /\ GroupGoes(g, "dropped")
    /\ UNCHANGED <<worldVars, sweep, job, row, imageFor, imageMemo, tierMemo, exit>>

\* The resolver's memo is read under the lock and the image looked up without it.
MemoImage(g) ==
    LET type == Fleet[g[1]].groups[g[2]].type
        memo == imageMemo[g[1]]
    IN  /\ job[g[1]] = "images" /\ groupJob[g] = "todo" /\ ~stopped
        /\ IF type \in DOMAIN memo THEN Judged(g, memo[type], "memo")
           ELSE GroupGoes(g, "lookup") /\ UNCHANGED faults
        /\ UNCHANGED <<worldVars, sweep, job, row, imageFor, imageMemo, tierMemo, exit>>

LookupImage(g) ==
    LET c == g[1]
        type == Fleet[c].groups[g[2]].type
        known == {LatestImage[imageFor[c]][t] : t \in {type} \ {Custom}}
    IN  /\ groupJob[g] = "lookup"
        /\ \E latest \in {NoImage} \cup known :
             /\ stopped => latest = NoImage
             /\ imageMemo' = [imageMemo EXCEPT ![c] =
                    [t \in DOMAIN @ \cup {type} |-> IF t = type THEN latest ELSE @[t]]]
             /\ Judged(g, latest, "lookup")
        /\ UNCHANGED <<worldVars, sweep, job, row, imageFor, tierMemo, exit>>

StaleAMISummary(c) ==
    /\ job[c] = "images"
    /\ \A g \in GroupsOf(c) : groupJob[g] \notin {"todo", "lookup"}
    /\ row' = [row EXCEPT ![c].staleImages =
                 {g[2] : g \in {h \in GroupsOf(c) : groupJob[h] = "outdated"}}]
    /\ RowGoes(c, "addons")
    /\ UNCHANGED <<worldVars, faults, sweep, imageVars, tierMemo, exit>>

\* An add-on whose latest version is unknown is passed over.  One that could not be
\* described has no version, and no version compares as older than any.
AddonsBehind(c) ==
    LET installed == Fleet[c].addons
        latest == LatestAddon[row[c].version]
    IN  /\ job[c] = "addons"
        /\ \/ /\ Fails /\ row' = [row EXCEPT ![c].errors = @ \cup {"addons"}]
           \/ \E unread \in SUBSET DOMAIN installed : \E unknown \in SUBSET DOMAIN installed :
                /\ IF unread \cup unknown = {} THEN Answers ELSE Fails
                /\ stopped => unknown = DOMAIN installed
                /\ row' = [row EXCEPT ![c].staleAddons =
                             {a \in DOMAIN installed \ unknown :
                                a \in unread \/ installed[a] < latest[a]}]
        /\ RowGoes(c, "done")
        /\ UNCHANGED <<worldVars, sweep, imageVars, tierMemo, exit>>

-----------------------------------------------------------------------------
(* The command: runStatus *)

FleetRows == {row[c] : c \in {d \in chosen : sweep[Fleet[d].region] = "merged"}}

SupportRisk(line) == line.tier \in {"extended", "unsupported"}
NeedsAttention(line) == line.staleImages # {} \/ line.staleAddons # {} \/ line.issues > 0

ExitForStatuses(lines) ==
    IF \E line \in lines : SupportRisk(line) THEN 3
    ELSE IF \E line \in lines : NeedsAttention(line) THEN 2 ELSE 0

\* No rows and a failed region are fatal; other failures are warnings.
RunStatus ==
    /\ exit = -1 /\ \A r \in SweepRegions : sweep[r] \in {"merged", "failed"}
    /\ exit' = IF FleetRows = {} /\ \E r \in SweepRegions : sweep[r] = "failed" THEN 1
               ELSE ExitForStatuses(FleetRows)
    /\ UNCHANGED <<worldVars, faults, sweep, job, row, imageVars, tierMemo>>

StopSweep ==
    /\ exit = -1 /\ ~stopped /\ stopped' = TRUE
    /\ UNCHANGED <<chosen, running, faults, sweep, job, row, imageVars, tierMemo, exit>>

\* Somebody upgrades a control plane meanwhile (external).
PlaneUpgraded ==
    /\ exit = -1
    /\ \E c \in chosen : /\ running[c] + 1 \in DOMAIN Tier
                         /\ running' = [running EXCEPT ![c] = @ + 1]
    /\ UNCHANGED <<chosen, stopped, faults, sweep, job, row, imageVars, tierMemo, exit>>

StatusStep ==
    \/ \E r \in SweepRegions : SweepRegion(r) \/ MergeRows(r)
    \/ \E c \in chosen :
          \/ StartRow(c) \/ Describe(c) \/ ResolveSupport(c) \/ SupportDates(c)
          \/ ListGroups(c) \/ StaleAMISummary(c) \/ AddonsBehind(c)
          \/ \E g \in GroupsOf(c) : GroupDrops(g) \/ MemoImage(g) \/ LookupImage(g)
    \/ RunStatus

FleetStatusInit ==
    /\ chosen \in Patterns
    /\ running = FirstVersion /\ stopped = FALSE /\ faults = 0
    /\ sweep = [r \in SweepRegions |-> "todo"]
    /\ job = [c \in Fleets |-> "todo"] /\ row = [c \in Fleets |-> ZeroRow]
    /\ imageFor = [c \in Fleets |-> 0]
    /\ groupJob = [g \in UNION {GroupsOf(c) : c \in Fleets} |-> "todo"]
    /\ imageMemo = [c \in Fleets |-> NoMemo] /\ tierMemo = [r \in SweepRegions |-> NoMemo]
    /\ exit = -1

FleetStatusNext == StatusStep \/ StopSweep \/ PlaneUpgraded

-----------------------------------------------------------------------------
(* Properties *)

FleetStatusTypeOK ==
    /\ chosen \subseteq Fleets /\ running \in [Fleets -> DOMAIN Tier]
    /\ stopped \in BOOLEAN /\ faults \in 0..MaxFaults
    /\ sweep \in [SweepRegions -> {"todo", "rows", "merged", "failed"}]
    /\ \A c \in Fleets :
         /\ job[c] \in {"todo", "describe", "support", "resolve", "groups", "images",
                        "addons", "done"}
         /\ row[c].version \in DOMAIN Tier \cup {0} /\ imageFor[c] \in DOMAIN Tier \cup {0}
         /\ row[c].staleImages \subseteq DOMAIN Fleet[c].groups
         /\ row[c].staleAddons \subseteq DOMAIN Fleet[c].addons
         /\ row[c].errors \subseteq {"describe", "nodegroups", "addons"}
    /\ \A g \in DOMAIN groupJob :
         groupJob[g] \in {"todo", "lookup", "dropped", "updating", "custom", "unknown",
                         "latest", "outdated"}
    /\ exit \in {-1, 0, 1, 2, 3}

Outdated(c, g, v) ==
    LET group == Fleet[c].groups[g]
    IN  /\ group.status # "UPDATING" /\ group.type # Custom
        /\ group.image # LatestImage[v][group.type]

\* What the fleet itself would have the command exit with.
TrueExit ==
    IF \E c \in chosen : Tier[running[c]] \in {"extended", "unsupported"} THEN 3
    ELSE IF \E c \in chosen :
              \/ Fleet[c].issues > 0
              \/ \E g \in DOMAIN Fleet[c].groups : Outdated(c, g, running[c])
              \/ \E a \in DOMAIN Fleet[c].addons :
                    Fleet[c].addons[a] < LatestAddon[running[c]][a]
         THEN 2 ELSE 0

\* Whatever fails, and however rows, nodegroups and an upgrade by somebody else
\* interleave over the memos: the support tier of a row is that of the row's own
\* version, a nodegroup is counted as stale only when its image really is not the
\* recommended one for its type and a version its cluster had, and when nothing failed
\* and nobody upgraded the exit code is the one the fleet deserves (resolveSupport,
\* newLatestAMIResolver, exitForStatuses).
StatusHonest ==
    /\ \A c \in Fleets :
         /\ row[c].tier \in {"", "unknown"}
              \cup {Tier[v] : v \in {row[c].version} \cap DOMAIN Tier}
              \cup {Calendar[v] : v \in {row[c].version} \cap DOMAIN Tier}
         /\ \A g \in row[c].staleImages :
              \E v \in FirstVersion[c]..running[c] : Outdated(c, g, v)
    /\ exit # -1 /\ faults = 0 /\ ~stopped /\ running = FirstVersion => exit = TrueExit

=============================================================================
