------------------------------- MODULE Readiness -------------------------------
(***************************************************************************)
(* `cluster upgrade-check`: one read after the other of the control plane, *)
(* its insights, every nodegroup and every add-on, joined into a skew      *)
(* report, or with --id the detail of the one insight a reference names    *)
(* (internal/services/cluster/insights.go and internal/commands/cluster).  *)
(***************************************************************************)
EXTENDS Integers, FiniteSets, Sequences, Slices

CONSTANTS
    SkewGroups,         \* nodegroups in the order EKS lists them
    SkewAddons,         \* add-ons in the order EKS lists them
    FirstPlane,         \* minor version of the control plane at the start
    FirstGroups,        \* nodegroup -> its minor version at the start
    InstalledAddon,     \* add-on -> installed version (external)
    NewestAddon,        \* minor -> add-on -> latest compatible version (external)
    Insight,            \* id -> [category, passing] (external)
    References,         \* what --id may say: [exact, like], sets of ids
    MaxReadFaults       \* bound: calls that fail

SkewLimit == 3
ReadinessCategory == "UPGRADE_READINESS"

ASSUME ReadinessAssumption ==
    /\ DOMAIN NewestAddon \subseteq Nat /\ FirstPlane \in DOMAIN NewestAddon
    /\ MaxReadFaults \in Nat /\ IsFiniteSet(DOMAIN Insight)
    /\ SkewGroups \in Seq(DOMAIN FirstGroups) /\ SkewAddons \in Seq(DOMAIN InstalledAddon)
    /\ \A g \in DOMAIN FirstGroups : /\ FirstGroups[g] \in 0..FirstPlane
                                     /\ \E i \in 1..Len(SkewGroups) : SkewGroups[i] = g
    /\ \A a \in DOMAIN InstalledAddon : \E i \in 1..Len(SkewAddons) : SkewAddons[i] = a

VARIABLES
    reference,  \* the --id given, or NoReference
    plane,      \* the control plane's minor version (external)
    groupMinor, \* nodegroup -> its minor version (external)
    insights,   \* the insights EKS holds (external)
    reading,    \* where the command stands
    next,       \* index of the nodegroup or add-on to read
    planeRead,  \* the version the report is about
    shown,      \* insights in the report
    skews,      \* nodegroup -> minors behind, of those described
    behind,     \* add-ons found behind
    findings,   \* of the report, in order: <<kind, name>>
    matched,    \* insights the reference matched when they were listed
    detail,     \* the insight --id resolved to
    readFaults

readWorld == <<reference, plane, groupMinor, insights>>
reportVars == <<planeRead, shown, skews, behind, findings>>
readVars == <<readWorld, reading, next, reportVars, matched, detail, readFaults>>

NoReference == [exact |-> {"none"}, like |-> {}]
NoInsight == "no insight"

Reads(where) == reading' = where /\ UNCHANGED readFaults
ReadFails(where) ==
    reading' = where /\ readFaults < MaxReadFaults /\ readFaults' = readFaults + 1

-----------------------------------------------------------------------------
(* The report: UpgradeCheck, computeSkew *)

ReadPlane ==
    /\ reading = "start" /\ reference = NoReference
    /\ \/ Reads("insights") /\ planeRead' = plane
       \/ ReadFails("error") /\ UNCHANGED planeRead
    /\ UNCHANGED <<readWorld, next, shown, skews, behind, findings, matched, detail>>

\* ListInsights; passing insights are shown with --show-passing only.
ReadInsights ==
    /\ reading = "insights"
    /\ \/ /\ Reads("groups") /\ next' = 1
          /\ \E showPassing \in BOOLEAN :
               shown' = {i \in insights : /\ Insight[i].category = ReadinessCategory
                                          /\ showPassing \/ ~Insight[i].passing}
       \/ ReadFails("error") /\ UNCHANGED <<next, shown>>
    /\ UNCHANGED <<readWorld, planeRead, skews, behind, findings, matched, detail>>

\* A nodegroup newer than the version read counts as level with it; one that cannot be
\* described is left out of the report without a word.
MinorsBehind(g) == IF groupMinor[g] > planeRead THEN 0 ELSE planeRead - groupMinor[g]

ReadGroup ==
    /\ reading = "groups" /\ next \in 1..Len(SkewGroups) /\ next' = next + 1
    /\ LET g == SkewGroups[next]
       IN  \/ /\ Reads("groups")
              /\ skews' = [h \in DOMAIN skews \cup {g} |->
                             IF h = g THEN MinorsBehind(g) ELSE skews[h]]
           \/ ReadFails("groups") /\ UNCHANGED skews
    /\ UNCHANGED <<readWorld, planeRead, shown, behind, findings, matched, detail>>

ListAddons ==
    /\ reading = "groups" /\ next = Len(SkewGroups) + 1
    /\ \/ Reads("addons") /\ next' = 1
       \/ ReadFails("error") /\ UNCHANGED next
    /\ UNCHANGED <<readWorld, reportVars, matched, detail>>

\* Without a latest version, or without the add-on itself, nothing is claimed.
ReadAddon ==
    /\ reading = "addons" /\ next \in 1..Len(SkewAddons) /\ next' = next + 1
    /\ LET a == SkewAddons[next]
       IN  \/ /\ Reads("addons")
              /\ behind' = behind \cup {b \in {a} : InstalledAddon[a] < NewestAddon[planeRead][a]}
           \/ ReadFails("addons") /\ UNCHANGED behind
    /\ UNCHANGED <<readWorld, planeRead, shown, skews, findings, matched, detail>>

Blocks(minors) == minors >= SkewLimit

Named(kind, order, names) ==
    [i \in 1..Len(Kept(order, names)) |-> <<kind, Kept(order, names)[i]>>]

SkewReport ==
    LET blocking == {g \in DOMAIN skews : Blocks(skews[g])}
        lagging == {g \in DOMAIN skews : skews[g] > 0} \ blocking
    IN  Named("blocking", SkewGroups, blocking) \o Named("lagging", SkewGroups, lagging)
          \o Named("addon", SkewAddons, behind)

SkewFindings ==
    /\ reading = "addons" /\ next = Len(SkewAddons) + 1 /\ Reads("over")
    /\ findings' = SkewReport
    /\ UNCHANGED <<readWorld, next, planeRead, shown, skews, behind, matched, detail>>

-----------------------------------------------------------------------------
(* The detail view: ResolveInsightID, DescribeInsight *)

\* Mutant: the first match is taken.
ResolvedFirst(listed) ==
    LET like == reference.like \cap listed
    IN  IF like = {} THEN NoInsight ELSE CHOOSE i \in like : TRUE

\* An exact id wins; otherwise the only match does.
Resolved(listed) ==
    LET exact == reference.exact \cap listed
        like == reference.like \cap listed
    IN  IF exact # {} THEN CHOOSE i \in exact : TRUE
        ELSE IF Cardinality(like) = 1 THEN CHOOSE i \in like : TRUE ELSE NoInsight

\* The listing behind --id always asks for the upgrade-readiness category.
ResolveInsightID ==
    /\ reading = "start" /\ reference # NoReference
    /\ LET listed == {i \in insights : Insight[i].category = ReadinessCategory}
       IN  \/ /\ Reads(IF Resolved(listed) = NoInsight THEN "error" ELSE "detail")
              /\ detail' = Resolved(listed)
              /\ matched' = (reference.exact \cup reference.like) \cap listed
           \/ ReadFails("error") /\ UNCHANGED <<matched, detail>>
    /\ UNCHANGED <<readWorld, next, reportVars>>

DescribeInsight ==
    /\ reading = "detail"
    /\ \/ detail \in insights /\ Reads("over")
       \/ detail \notin insights /\ Reads("error")
       \/ ReadFails("error")
    /\ UNCHANGED <<readWorld, next, reportVars, matched, detail>>

ReadStep ==
    \/ ReadPlane \/ ReadInsights \/ ReadGroup \/ ListAddons \/ ReadAddon \/ SkewFindings
    \/ ResolveInsightID \/ DescribeInsight

\* Meanwhile somebody upgrades, and EKS refreshes the insights (external).
CheckedPlaneMoves ==
    /\ reading \notin {"over", "error"} /\ plane + 1 \in DOMAIN NewestAddon /\ plane' = plane + 1
    /\ UNCHANGED <<reference, groupMinor, insights, reading, next, reportVars, matched,
                   detail, readFaults>>

CheckedGroupMoves ==
    /\ reading \notin {"over", "error"}
    /\ \E g \in DOMAIN groupMinor : groupMinor[g] < plane
                                     /\ groupMinor' = [groupMinor EXCEPT ![g] = plane]
    /\ UNCHANGED <<reference, plane, insights, reading, next, reportVars, matched, detail,
                   readFaults>>

InsightResolves ==
    /\ reading \notin {"over", "error"} /\ \E i \in insights : insights' = insights \ {i}
    /\ UNCHANGED <<reference, plane, groupMinor, reading, next, reportVars, matched, detail,
                   readFaults>>

ReadinessInit ==
    /\ reference \in References \cup {NoReference}
    /\ plane = FirstPlane /\ groupMinor = FirstGroups /\ insights = DOMAIN Insight
    /\ reading = "start" /\ next = 1 /\ planeRead = 0 /\ shown = {}
    /\ skews = [g \in {} |-> 0] /\ behind = {} /\ findings = << >>
    /\ matched = {} /\ detail = NoInsight /\ readFaults = 0

ReadinessNext == ReadStep \/ CheckedPlaneMoves \/ CheckedGroupMoves \/ InsightResolves

-----------------------------------------------------------------------------
(* Properties *)

ReadinessTypeOK ==
    /\ plane \in DOMAIN NewestAddon /\ planeRead \in DOMAIN NewestAddon \cup {0}
    /\ \A g \in DOMAIN groupMinor : groupMinor[g] \in 0..plane
    /\ insights \subseteq DOMAIN Insight /\ shown \subseteq DOMAIN Insight
    /\ reading \in {"start", "insights", "groups", "addons", "detail", "over", "error"}
    /\ next \in 1..(Len(SkewGroups) + Len(SkewAddons) + 1)
    /\ \A g \in DOMAIN skews : skews[g] \in 0..plane
    /\ detail \in DOMAIN Insight \cup {NoInsight} /\ readFaults \in 0..MaxReadFaults

Found(kind) == {findings[i][2] : i \in {j \in 1..Len(findings) : findings[j][1] = kind}}

\* Whatever is upgraded between the reads: a nodegroup reported as blocking really was at
\* the kubelet skew limit of the version reported; when nothing failed or moved, no
\* blocking, lagging or outdated thing is missing; blocking findings come first; and the
\* insight shown by --id is the one named or the only one matched (UpgradeCheck,
\* skewFindings, ResolveInsightID).
ReadinessHonest ==
    /\ \A g \in Found("blocking") : planeRead - FirstGroups[g] >= SkewLimit
    /\ reading = "over" /\ reference = NoReference /\ readFaults = 0
         /\ plane = FirstPlane /\ groupMinor = FirstGroups =>
           /\ \A g \in DOMAIN FirstGroups :
                /\ g \in Found("blocking") <=> plane >= FirstGroups[g] + SkewLimit
                /\ g \in Found("blocking") \cup Found("lagging") <=> plane # FirstGroups[g]
           /\ Found("addon") = {a \in DOMAIN InstalledAddon :
                                  InstalledAddon[a] < NewestAddon[plane][a]}
    /\ \A i, j \in 1..Len(findings) :
         findings[i][1] = "blocking" /\ findings[j][1] # "blocking" => i < j
    /\ detail # NoInsight => detail \in reference.exact \/ matched = {detail}

=============================================================================
