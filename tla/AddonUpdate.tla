------------------------------ MODULE AddonUpdate ------------------------------
(***************************************************************************)
(* `refresh addon update`: one add-on, or all of them one after the other   *)
(* or in parallel (services/addons). The command is one process; a worker   *)
(* is a call of Update for one add-on. EKS, other people, Ctrl+C and the    *)
(* deadline act in between.                                                  *)
(***************************************************************************)
EXTENDS Naturals, Sequences, FiniteSets, SequencesExt, Slices

CONSTANTS
  Addons,        \* those the cluster has
  Absent,        \* a name the cluster has no add-on of: mistyped, or never filled in
  DependsOn,     \* addonDependencies
  ListOrders,    \* orders ListAddons may answer in
  Versions,      \* 0 .. n, 0 standing for "latest"
  Offered,       \* versions of an add-on for the cluster's Kubernetes version
  Published,     \* versions of an add-on for any Kubernetes version
  Cap,           \* maxParallelAddonUpdates
  MaxAttempts,   \* of WithRetry
  StartAddons,   \* what a run may find
  Invocations,   \* what it may be asked for
  FaultKinds,
  MaxFaults

Switches == {"all", "parallel", "dependencyOrder", "wait", "healthCheck", "dryRun"}
Names == Addons \cup {Absent}
Requests == [switches : SUBSET Switches, addon : Names, version : Versions, skip : SUBSET Addons]

\* runUpdateAll refuses --parallel with --dependency-order, and runUpdate ignores both.
ASSUME RequestAssumption ==
  /\ Invocations \subseteq Requests
  /\ \A r \in Invocations :
       /\ ~{"parallel", "dependencyOrder"} \subseteq r.switches
       /\ "all" \notin r.switches => {"parallel", "dependencyOrder"} \cap r.switches = {}

ASSUME AddonAssumption ==
  /\ Absent \notin Addons
  /\ IsFiniteSet(Addons)
  /\ DependsOn \in [Addons -> SUBSET Addons]
  /\ \E rank \in [Addons -> 0 .. Cardinality(Addons)] :  \* no cycles
       \A a \in Addons : \A b \in DependsOn[a] : rank[b] < rank[a]
  /\ ListOrders \subseteq Seq(Addons)
  /\ \A list \in ListOrders : ToSet(list) = Addons
  /\ \A list \in ListOrders : \A i, j \in 1 .. Len(list) : list[i] = list[j] => i = j

ASSUME NumberAssumption ==
  /\ Versions \subseteq Nat /\ 0 \in Versions /\ IsFiniteSet(Versions)
  /\ Offered \in [Names -> SUBSET (Versions \ {0})]
  /\ Published \in [Names -> SUBSET (Versions \ {0})]
  /\ Cap \in Nat \ {0} /\ MaxAttempts \in Nat \ {0} /\ MaxFaults \in Nat

AddonStates ==
  [version : Versions, to : Versions, status : {"ACTIVE", "UPDATING", "DEGRADED", "UPDATE_FAILED"},
   healthy : BOOLEAN]

ASSUME StartAssumption ==
  /\ StartAddons \subseteq [Addons -> AddonStates]
  /\ \A start \in StartAddons, a \in Addons :
       start[a].status # "UPDATING" => start[a].to = start[a].version

VARIABLES
  addon,      \* version in effect, version an update in flight installs
  mine,       \* the update EKS runs, or ran, under a worker's token
  applied,    \* how many updates it accepted from this process
  faults

VARIABLES
  pc, request, ctx,
  work,       \* toUpdate
  next,       \* the dispatch loop's position
  known,      \* the cluster's version is in k8sVersions
  worker,     \* per position: the call it makes next, and what it found
  result,     \* per position: Status, "" when never filled in
  exit

VARIABLE others  \* history: add-ons somebody else updated meanwhile

cloudVars == <<addon, mine, applied>>
mainVars == <<pc, request, work, next, exit>>
workVars == <<known, worker, result>>
vars == <<cloudVars, faults, mainVars, ctx, workVars, others>>

Positions == 1 .. Cardinality(Names)  \* enough for all add-ons, and for one mistyped
Started == {"version", "resolve", "current", "precheck", "update", "wait", "verify"}
Idle == [at |-> "idle", scoped |-> FALSE, target |-> 0, attempt |-> 1]
NoExit == 2
Statuses == {"", "FAILED", "DRY_RUN", "STARTED", "COMPLETED", "COMPLETED_WITH_ISSUES"}

--------------------------------------------------------------------------------
Has(switch) == switch \in request.switches

Fault(kind) == kind \in FaultKinds /\ faults < MaxFaults /\ faults' = faults + 1
NoFault == faults' = faults

\* With a done context no call is made; with a live one it may still fail.
Answered == ctx = "live" /\ NoFault
CallFails == IF ctx = "live" THEN Fault("call fails") ELSE NoFault

\* versions[0] of GetAvailableVersions; 0 when it finds none and fails.
Newest(set) == IF set = {} THEN 0 ELSE CHOOSE v \in set : \A w \in set : w <= v

(***************************************************************************)
(* sortByDependency: Kahn's algorithm over the add-ons that are present.     *)
(***************************************************************************)
Present(list, a) == IF a = Absent THEN {} ELSE DependsOn[a] \cap ToSet(list)

\* Mutant: an add-on follows the first of its dependencies.
ReleasedByFirst(list, name, ordered) ==
  Kept(list, {a \in ToSet(list) : name \in Present(list, a) /\ a \notin ToSet(ordered)})

\* In-degree zero now that name has been taken from the queue.
Released(list, name, ordered) ==
  Kept(list, {a \in ToSet(list) : name \in Present(list, a)
                                  /\ Present(list, a) \subseteq ToSet(ordered)})

SortStates == [ordered : Seq(Names), queue : Seq(Names)]

\* One turn of the loop.
Kahn(list) == [state \in SortStates |->
  IF state.queue = <<>> THEN state
  ELSE LET name == Head(state.queue)
           ordered == Append(state.ordered, name)
       IN [ordered |-> ordered, queue |-> Tail(state.queue) \o Released(list, name, ordered)]]

\* The loop ends when the queue is empty: each turn takes a name, so as many turns do
\* as there are names.
Turns(list) ==
  LET seed == [ordered |-> <<>>, queue |-> Kept(list, {a \in ToSet(list) : Present(list, a) = {}})]
      turn[k \in 0 .. Len(list)] == IF k = 0 THEN seed ELSE Kahn(list)[turn[k - 1]]
  IN turn

SortByDependency(list) ==
  LET ordered == Turns(list)[Len(list)].ordered
  IN ordered \o Kept(list, ToSet(list) \ ToSet(ordered))

--------------------------------------------------------------------------------
(***************************************************************************)
(* The command: flags, List, UpdateAll's loop, exit code.                    *)
(***************************************************************************)
Exit(code) == pc' = "done" /\ exit' = code

Running == {i \in Positions : worker[i].at \in Started}

\* Credentials, the cluster's name and a single add-on's are looked up first.
Launch ==
  /\ pc = "idle"
  /\ \/ Has("all") /\ NoFault /\ pc' = "list" /\ UNCHANGED <<work, exit>>
     \/ ~Has("all") /\ NoFault /\ pc' = "dispatch" /\ work' = <<request.addon>> /\ UNCHANGED exit
     \/ CallFails /\ Exit(1) /\ UNCHANGED work
  /\ UNCHANGED <<cloudVars, request, ctx, next, workVars, others>>

ListAddons ==
  /\ pc = "list"
  /\ \/ Answered /\ pc' = "describe" /\ work' \in ListOrders /\ UNCHANGED exit
     \/ CallFails /\ Exit(1) /\ UNCHANGED work
  /\ UNCHANGED <<cloudVars, request, next, ctx, workVars, others>>

\* A describe that fails leaves the name; one never started leaves nothing.
ListSummaries ==
  /\ pc = "describe"
  /\ NoFault
  /\ \E named \in 0 .. Len(work) :
       /\ ctx = "live" => named = Len(work)
       /\ LET list == [i \in 1 .. Len(work) |-> IF i <= named THEN work[i] ELSE Absent]
              kept == Kept(list, Names \ request.skip)
          IN work' = IF Has("dependencyOrder") THEN SortByDependency(kept) ELSE kept
  /\ pc' = "dispatch"
  /\ UNCHANGED <<cloudVars, request, next, exit, ctx, workVars, others>>

HasSlot == IF Has("parallel") THEN Cardinality(Running) < Cap ELSE Running = {}

Dispatch ==
  /\ pc = "dispatch" /\ next <= Len(work)
  /\ HasSlot
  /\ NoFault
  /\ worker' = [worker EXCEPT ![next].at = "version"]
  /\ next' = next + 1
  /\ UNCHANGED <<cloudVars, pc, request, work, exit, ctx, known, result, others>>

\* Every add-on has been handed out, or the loop saw the cancellation.
DispatchEnds ==
  /\ pc = "dispatch"
  /\ next > Len(work) \/ (Has("parallel") /\ ctx # "live")
  /\ pc' = "join"
  /\ NoFault
  /\ UNCHANGED <<cloudVars, request, work, next, exit, ctx, workVars, others>>

\* Mutant: an interrupted command does not wait for its goroutines.
AllJoinedUnlessStopped == ctx # "live" \/ Running = {}
\* Mutant: the wait group counts every add-on, started or not.
AllJoinedEveryAddon == \A i \in 1 .. Len(work) : result[i] # ""
AllJoined == Running = {}

UpdateAllFailureError ==
  IF \E i \in 1 .. Len(work) : result[i] = "FAILED" THEN 1 ELSE 0

Join ==
  /\ pc = "join" /\ AllJoined
  /\ Exit(UpdateAllFailureError)
  /\ NoFault
  /\ UNCHANGED <<cloudVars, request, work, next, ctx, workVars, others>>

MainNext == ListAddons \/ ListSummaries \/ Dispatch \/ DispatchEnds \/ Join

--------------------------------------------------------------------------------
(***************************************************************************)
(* One call of Update, by the worker at position i.                          *)
(***************************************************************************)
At(i, label) == worker[i].at = label
Name(i) == work[i]
MainStill == UNCHANGED <<mainVars, ctx, others>>

Moves(i, w) ==
  /\ worker' = [worker EXCEPT ![i] = w]
  /\ UNCHANGED result

Goto(i, label) == Moves(i, [worker[i] EXCEPT !.at = label])

\* The goroutine stores what Update returned and gives its slot back.
Ends(i, status) ==
  /\ worker' = [worker EXCEPT ![i] = Idle]
  /\ result' = [result EXCEPT ![i] = status]

\* clusterK8sVersion: memoized, and shared by all workers; "" when unknown.
ClusterVersion(i) ==
  /\ At(i, "version")
  /\ \/ /\ IF known THEN NoFault ELSE Answered
        /\ known' = TRUE
        /\ Moves(i, [worker[i] EXCEPT !.at = "resolve", !.scoped = TRUE])
     \/ ~known /\ CallFails /\ UNCHANGED known /\ Goto(i, "resolve")
  /\ UNCHANGED cloudVars /\ MainStill

\* "latest", scoped if the version is known; a pinned version is validated only then.
ResolveVersion(i) ==
  /\ At(i, "resolve")
  /\ LET latest == Newest(IF worker[i].scoped THEN Offered[Name(i)] ELSE Published[Name(i)])
         pinned == request.version
         Takes(v) == Moves(i, [worker[i] EXCEPT !.at = "current", !.target = v])
     IN IF Has("all") \/ pinned = 0
        THEN \/ Answered /\ latest # 0 /\ Takes(latest)
             \/ Answered /\ latest = 0 /\ Ends(i, "FAILED")
             \/ CallFails /\ Ends(i, "FAILED")
        ELSE \/ ~worker[i].scoped /\ NoFault /\ Takes(pinned)
             \/ worker[i].scoped /\ CallFails /\ Takes(pinned)
             \/ /\ worker[i].scoped /\ Answered
                /\ latest # 0 /\ pinned \notin Offered[Name(i)]
                /\ Ends(i, "FAILED")
             \/ /\ worker[i].scoped /\ Answered
                /\ latest = 0 \/ pinned \in Offered[Name(i)]
                /\ Takes(pinned)
  /\ UNCHANGED <<cloudVars, known>> /\ MainStill

\* --dry-run stops before the mutating call.
Submits(i) == IF Has("dryRun") THEN Ends(i, "DRY_RUN") ELSE Goto(i, "update")

DescribeCurrent(i) ==
  /\ At(i, "current")
  /\ \/ Answered /\ Name(i) # Absent
        /\ IF Has("healthCheck") THEN Goto(i, "precheck") ELSE Submits(i)
     \/ Answered /\ Name(i) = Absent /\ Ends(i, "FAILED")
     \/ CallFails /\ Ends(i, "FAILED")
  /\ UNCHANGED <<cloudVars, known>> /\ MainStill

PreUpdateHealthCheck(i) ==
  /\ At(i, "precheck")
  /\ \/ Answered /\ addon[Name(i)].status # "UPDATING" /\ Submits(i)
     \/ Answered /\ addon[Name(i)].status = "UPDATING" /\ Ends(i, "FAILED")
     \/ CallFails /\ Ends(i, "FAILED")
  /\ UNCHANGED <<cloudVars, known>> /\ MainStill

(***************************************************************************)
(* UpdateAddon through WithRetry. The token is made once per Update, so EKS  *)
(* answers a repeated request with the update it has already accepted.       *)
(***************************************************************************)
\* Mutant: a fresh token for every attempt.
FreshToken(a) == FALSE
IsReplay(a) == mine[a] # "none"

Accepts(i) == addon[Name(i)].status # "UPDATING" /\ worker[i].target \in Offered[Name(i)]

Apply(i) ==
  /\ addon' = [addon EXCEPT ![Name(i)].status = "UPDATING", ![Name(i)].to = worker[i].target]
  /\ mine' = [mine EXCEPT ![Name(i)] = "InProgress"]
  /\ applied' = [applied EXCEPT ![Name(i)] = @ + 1]

\* Mutant: nobody waits.
AfterUpdateNoWait(i) == Ends(i, "STARTED")
\* The wait looks at the add-on: version and attempts no longer matter.
AfterUpdate(i) ==
  IF Has("wait") THEN Moves(i, [Idle EXCEPT !.at = "wait"]) ELSE Ends(i, "STARTED")

\* Mutant: the attempts are not counted.
TriesAgainForever(i) == Moves(i, [worker[i] EXCEPT !.attempt = @ + 1])

\* shouldRetry: throttling and a lost connection, not a refusal.
TriesAgain(i) ==
  IF worker[i].attempt = MaxAttempts THEN Ends(i, "FAILED")
  ELSE Moves(i, [worker[i] EXCEPT !.attempt = @ + 1])

UpdateAddon(i) ==
  /\ At(i, "update")
  /\ \/ Answered /\ IsReplay(Name(i)) /\ AfterUpdate(i) /\ UNCHANGED cloudVars
     \/ Answered /\ ~IsReplay(Name(i)) /\ Accepts(i) /\ Apply(i) /\ AfterUpdate(i)
     \/ /\ Answered /\ ~IsReplay(Name(i)) /\ ~Accepts(i)
        /\ Ends(i, "FAILED") /\ UNCHANGED cloudVars
     \/ CallFails /\ Ends(i, "FAILED") /\ UNCHANGED cloudVars
     \/ Answered /\ TriesAgain(i) /\ UNCHANGED cloudVars  \* throttled
     \/ /\ ctx = "live" /\ Fault("answer lost") /\ ~IsReplay(Name(i)) /\ Accepts(i)
        /\ Apply(i)
        /\ TriesAgain(i) \/ Ends(i, "FAILED")
  /\ UNCHANGED known /\ MainStill

Failed == {"DEGRADED", "UPDATE_FAILED"}

\* Mutant: any end of the update is a good one.
EndsWellAnyhow(status) == status # "UPDATING"
EndsWell(status) == status = "ACTIVE"

\* waitForAddonUpdate looks at the add-on's status, not at the update.
WaitForAddonUpdate(i) ==
  /\ At(i, "wait")
  /\ \/ Answered /\ EndsWell(addon[Name(i)].status) /\ Goto(i, "verify")
     \/ Answered /\ addon[Name(i)].status \in Failed /\ Ends(i, "FAILED")
     \/ ctx # "live" /\ NoFault /\ Ends(i, "FAILED")
     \/ ctx = "live" /\ Fault("wait times out") /\ Ends(i, "FAILED")
  /\ UNCHANGED <<cloudVars, known>> /\ MainStill

PostUpdateHealthCheck(i) ==
  /\ At(i, "verify")
  /\ LET fine == addon[Name(i)].status = "ACTIVE" /\ addon[Name(i)].healthy
     IN \/ Answered /\ fine /\ Ends(i, "COMPLETED")
        \/ Answered /\ ~fine /\ Ends(i, "COMPLETED_WITH_ISSUES")
        \/ CallFails /\ Ends(i, "COMPLETED_WITH_ISSUES")
  /\ UNCHANGED <<cloudVars, known>> /\ MainStill

WorkerNext(i) ==
  \/ ClusterVersion(i) \/ ResolveVersion(i) \/ DescribeCurrent(i) \/ PreUpdateHealthCheck(i)
  \/ UpdateAddon(i) \/ WaitForAddonUpdate(i) \/ PostUpdateHealthCheck(i)

--------------------------------------------------------------------------------
(***************************************************************************)
(* Ctrl+C and the deadline; EKS and other people.                            *)
(***************************************************************************)
Alive == pc \notin {"idle", "done"}
RunStill == UNCHANGED <<mainVars, ctx, workVars>>

ContextDone ==
  /\ Alive /\ ctx = "live"
  /\ ctx' = "done"
  /\ NoFault
  /\ UNCHANGED <<cloudVars, mainVars, workVars, others>>

Finishes(a, state, verdict) ==
  /\ addon[a].status = "UPDATING"
  /\ addon' = [addon EXCEPT ![a] = state]
  /\ mine' = [mine EXCEPT ![a] = IF @ = "InProgress" THEN verdict ELSE @]
  /\ UNCHANGED <<applied, others>> /\ RunStill

\* The new version may come up unhealthy: DEGRADED, or ACTIVE with issues.
AddonUpdateSucceeds(a) ==
  \E status \in {"ACTIVE", "DEGRADED"}, healthy \in BOOLEAN :
    /\ IF healthy THEN status = "ACTIVE" /\ NoFault ELSE Fault("unhealthy")
    /\ Finishes(a, [version |-> addon[a].to, to |-> addon[a].to, status |-> status,
                    healthy |-> healthy], "Successful")

AddonUpdateFails(a) ==
  /\ Fault("update fails")
  /\ Finishes(a, [addon[a] EXCEPT !.to = addon[a].version, !.status = "UPDATE_FAILED"], "Failed")

SomebodyElseUpdates(a) ==
  /\ Fault("somebody else updates")
  /\ addon[a].status # "UPDATING"
  /\ \E v \in Offered[a] : addon' = [addon EXCEPT ![a].status = "UPDATING", ![a].to = v]
  /\ others' = others \cup {a}
  /\ UNCHANGED <<mine, applied>> /\ RunStill

CloudNext ==
  \E a \in Addons : AddonUpdateSucceeds(a) \/ AddonUpdateFails(a) \/ SomebodyElseUpdates(a)

--------------------------------------------------------------------------------
Init ==
  /\ addon \in StartAddons
  /\ mine = [a \in Addons |-> "none"]
  /\ applied = [a \in Addons |-> 0]
  /\ faults = 0
  /\ pc = "idle" /\ ctx = "live" /\ exit = NoExit
  /\ request \in Invocations
  /\ work = <<>> /\ next = 1 /\ known = FALSE
  /\ worker = [i \in Positions |-> Idle]
  /\ result = [i \in Positions |-> ""]
  /\ others = {}

Next ==
  \/ Launch \/ MainNext \/ ContextDone
  \/ \E i \in Positions : WorkerNext(i)
  \/ Alive /\ CloudNext

Spec == Init /\ [][Next]_vars

(***************************************************************************)
(* The loop and every goroutine go on; the context has a deadline (10m by    *)
(* default). Nothing is assumed of EKS.                                      *)
(***************************************************************************)
FairSpec ==
  /\ Spec
  /\ WF_vars(MainNext) /\ WF_vars(ContextDone)
  /\ \A i \in Positions : WF_vars(WorkerNext(i))
--------------------------------------------------------------------------------
TypeOK ==
  /\ addon \in [Addons -> AddonStates]
  /\ mine \in [Addons -> {"none", "InProgress", "Successful", "Failed"}]
  /\ applied \in [Addons -> Nat] /\ faults \in Nat
  /\ pc \in {"idle", "list", "describe", "dispatch", "join", "done"}
  /\ ctx \in {"live", "done"}
  /\ request \in Requests
  /\ work \in Seq(Names) /\ Len(work) <= Cardinality(Names)
  /\ next \in 1 .. Len(work) + 1
  /\ known \in BOOLEAN
  /\ worker \in [Positions -> [at : Started \cup {"idle"}, scoped : BOOLEAN,
                              target : Versions, attempt : 1 .. MaxAttempts]]
  /\ result \in [Positions -> Statuses]
  /\ exit \in 0 .. NoExit
  /\ others \subseteq Addons

(***************************************************************************)
(* sortByDependency returns each add-on to update once, its dependencies     *)
(* before it, from whatever order ListAddons answered in.                    *)
(***************************************************************************)
OrderIsSafe ==
  Has("dependencyOrder") /\ pc \in {"dispatch", "join"} =>
    /\ Absent \notin ToSet(work) => ToSet(work) = Addons \ request.skip
    /\ \A i, j \in DOMAIN work :
         i < j /\ work[i] # Absent => work[j] \notin DependsOn[work[i]] \cup {work[i]}

(***************************************************************************)
(* One Update, one effect: whatever is lost or retried, EKS accepts at most  *)
(* one update of an add-on from this process.                                *)
(***************************************************************************)
AppliedOnce == \A a \in Addons : applied[a] <= 1

(***************************************************************************)
(* --dependency-order with --wait: an add-on is touched only when the        *)
(* updates of those it depends on are over, or have been reported failed.    *)
(***************************************************************************)
DependenciesSettled ==
  {"all", "dependencyOrder", "wait"} \subseteq request.switches =>
    \A i, j \in DOMAIN work :
      Absent \notin {work[i], work[j]} /\ work[j] \in DependsOn[work[i]]
        /\ mine[work[i]] # "none" =>
          /\ result[j] # ""
          /\ mine[work[j]] = "InProgress" => result[j] = "FAILED"

(***************************************************************************)
(* Exit code 0 of an undisturbed run: EKS accepted an update of every add-on *)
(* asked for, and with --wait it succeeded, unless somebody else's took its  *)
(* place.                                                                    *)
(***************************************************************************)
SuccessMeansUpdated ==
  exit = 0 /\ ctx = "live" /\ ~Has("dryRun") =>
    \A a \in IF Has("all") THEN Addons \ request.skip ELSE {request.addon} :
      /\ a \in Addons
      /\ IF Has("wait") THEN mine[a] = "Successful" \/ a \in others ELSE mine[a] # "none"

(***************************************************************************)
(* What UpdateAll returns is what was done, however the run ended, an        *)
(* interruption included: an add-on whose result was never filled in, or is  *)
(* a preview, was not touched, one reported as started has its update, and   *)
(* one reported as completed is updated, unless somebody else's update took  *)
(* its place.                                                                *)
(***************************************************************************)
ResultsHonest ==
  pc = "done" =>
    \A i \in DOMAIN work : work[i] # Absent =>
      /\ result[i] \in {"", "DRY_RUN"} => mine[work[i]] = "none"
      /\ result[i] = "STARTED" => mine[work[i]] # "none"
      /\ result[i] \in {"COMPLETED", "COMPLETED_WITH_ISSUES"} =>
           mine[work[i]] = "Successful" \/ work[i] \in others

\* A command ends, however its add-ons fare and wherever it is interrupted.
EveryRunEnds == (pc # "idle") ~> (pc = "done")
================================================================================
