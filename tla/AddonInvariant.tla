----------------------------- MODULE AddonInvariant -----------------------------
(***************************************************************************)
(* The inductive invariant behind the safety properties of AddonUpdate: what *)
(* the list of add-ons, a worker and the loop may rely on, whatever EKS,     *)
(* other people and Ctrl+C do between their steps.                           *)
(***************************************************************************)
EXTENDS AddonUpdate

\* A list that names no add-on of the cluster twice; the rest of it is Absent.
Listed(list) ==
  /\ list \in Seq(Names)
  /\ \A i, j \in 1 .. Len(list) : list[i] = list[j] /\ list[i] # Absent => i = j

\* No add-on comes before one it depends on.
Ordered(list) ==
  \A i, j \in 1 .. Len(list) :
    i < j /\ list[i] # Absent => list[j] \notin DependsOn[list[i]] \cup {list[i]}

\* What is to be updated: known from the listing on, complete unless the listing was
\* interrupted, and ordered if that was asked for.
ListOK ==
  /\ request \in Invocations /\ Listed(work)
  /\ pc \in {"list", "describe"} => Has("all")
  /\ pc = "describe" => work \in ListOrders
  /\ pc # "describe" /\ Has("dependencyOrder") => Ordered(work)
  /\ pc \in {"dispatch", "join"} \/ exit = 0 =>
       IF Has("all")
       THEN /\ Absent \notin ToSet(work) => ToSet(work) = Addons \ request.skip
            /\ ctx = "live" => Absent \notin ToSet(work)
       ELSE work = <<request.addon>>

\* A position before the loop's has a worker or a result, one after it has neither.
LoopOK ==
  /\ pc \in {"idle", "list", "describe"} => next = 1
  /\ \A i \in Positions :
       IF i < next THEN worker[i].at = "idle" <=> result[i] # ""
                   ELSE worker[i].at = "idle" /\ result[i] = ""
  /\ IF Has("parallel") THEN Cardinality(Running) <= Cap ELSE Running \subseteq {next - 1}
  /\ pc = "join" /\ ctx = "live" => next = Len(work) + 1

\* A command that has ended has no worker left, and code 0 leaves out no failure.
ExitOK ==
  /\ exit # NoExit <=> pc = "done"
  /\ pc = "done" => Running = {}
  /\ exit = 0 =>
       /\ \A i \in 1 .. Len(work) : result[i] # "FAILED"
       /\ ctx = "live" => next = Len(work) + 1

\* EKS's side of an update this process submitted; a failed one shows until somebody
\* else starts another.
CloudOK ==
  \A a \in Addons :
    /\ applied[a] = IF mine[a] = "none" THEN 0 ELSE 1
    /\ mine[a] = "InProgress" => addon[a].status = "UPDATING"
    /\ mine[a] = "Failed" /\ a \notin others => addon[a].status = "UPDATE_FAILED"

\* An add-on whose update was submitted has, or had, a worker that went that far.
Submitting == {"update", "wait", "verify"}
OwnerOK ==
  \A a \in Addons : mine[a] # "none" =>
    /\ ~Has("dryRun")
    /\ \E i \in 1 .. Len(work) : i < next /\ work[i] = a
                                /\ worker[i].at \in Submitting \cup {"idle"}

\* Over, with success or, as somebody else's took its place, without.
Settled(a) ==
  a \in Addons /\ (mine[a] = "Successful" \/ (mine[a] = "Failed" /\ a \in others))

\* What a worker knows of its add-on at each call, and what its status tells.
Knows(i) ==
  /\ worker[i].at \in Submitting \cup {"precheck"} => work[i] \in Addons
  /\ worker[i].at \in Submitting => ~Has("dryRun")
  /\ worker[i].at \in {"wait", "verify"} => Has("wait") /\ mine[work[i]] # "none"
  /\ worker[i].at = "verify" => Settled(work[i])
  /\ result[i] \in {"COMPLETED", "COMPLETED_WITH_ISSUES"} => Settled(work[i])
  /\ result[i] = "STARTED" => ~Has("wait") /\ work[i] \in Addons /\ mine[work[i]] # "none"
  /\ result[i] = "DRY_RUN" => Has("dryRun")

WorkerOK == \A i \in Positions : i < next => Knows(i)

AddonsInvariant ==
  /\ TypeOK /\ ListOK /\ LoopOK /\ ExitOK /\ CloudOK /\ OwnerOK /\ WorkerOK
================================================================================
