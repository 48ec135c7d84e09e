---------------------------- MODULE NodegroupScale ----------------------------
(***************************************************************************)
(* `nodegroup scale`: optional health and PDB gates, one retried           *)
(* UpdateNodegroupConfig under a pinned token, an optional wait, a closing *)
(* health check (internal/services/nodegroup/nodegroup_scale.go and        *)
(* internal/commands/nodegroup/actions_scale.go).                          *)
(***************************************************************************)
EXTENDS Integers, FiniteSets

CONSTANTS
    Sizes,          \* desired sizes that may be asked for
    UpdateAttempts, \* DefaultRetryConfig.MaxAttempts
    MaxOtherScales  \* bound: scalings by somebody else

NoSize == -1    \* --desired not given

ASSUME NodegroupScaleAssumption ==
    Sizes \subseteq Nat /\ Sizes # {} /\ UpdateAttempts \in Nat \ {0} /\ MaxOtherScales \in Nat

VARIABLES
    wish,       \* the flags: desired, dryRun, health, pdbs, wait
    group,      \* the nodegroup in EKS: size and status (external)
    others,     \* scalings by somebody else so far
    scale,      \* where the command stands
    attempt,    \* of the update call
    accepted,   \* tokens of this command for which EKS started an update
    answerLost, \* an answer to the update call did not arrive (history)
    expired,    \* the command's or the wait's context is done
    seen,       \* the nodegroup as last described by the wait
    outcome     \* what the command reports

scaleVars == <<wish, group, others, scale, attempt, accepted, answerLost, expired, seen,
               outcome>>

Finish(how) == scale' = "over" /\ outcome' = how
Continues(where) == scale' = where /\ UNCHANGED outcome

-----------------------------------------------------------------------------
\* A preview describes the nodegroup and lists the budgets; it sends nothing.
PrintScaleDryRun ==
    /\ scale = "start" /\ wish.dryRun
    /\ \E how \in {"ok", "failed"} : (expired => how = "failed") /\ Finish(how)
    /\ UNCHANGED <<wish, group, others, attempt, accepted, answerLost, expired, seen>>

PreScaleHealth ==
    /\ scale = "start" /\ ~wish.dryRun
    /\ \E decision \in (IF wish.health THEN {"PROCEED", "WARN", "BLOCK"} ELSE {"PROCEED"}) :
         IF decision = "BLOCK" THEN Finish("blocked") ELSE Continues("pdbs")
    /\ UNCHANGED <<wish, group, others, attempt, accepted, answerLost, expired, seen>>

\* The PDB check warns at most; only the description it needs can stop the command.
CheckPDBs ==
    /\ scale = "pdbs"
    /\ \/ (wish.pdbs /\ wish.desired # NoSize => ~expired) /\ Continues("update")
       \/ wish.pdbs /\ wish.desired # NoSize /\ Finish("failed")
    /\ UNCHANGED <<wish, group, others, attempt, accepted, answerLost, expired, seen>>

\* Mutant: every attempt makes its own token.
TokenPerAttempt == attempt + 1

\* IdempotencyToken is called once, outside WithRetry.
Token == 1

\* EKS answers a known token without doing anything, and refuses another update while
\* one is running.
Accept ==
    /\ Token \notin accepted /\ group.status = "ACTIVE"
    /\ accepted' = accepted \cup {Token}
    /\ group' = [size |-> IF wish.desired = NoSize THEN group.size ELSE wish.desired,
                 status |-> "UPDATING"]

AfterUpdate == IF wish.wait THEN "wait" ELSE "after"

\* Mutant: transient errors are retried without limit.
MayTryForever == ~expired

MayTry == ~expired /\ attempt < UpdateAttempts

UpdateAnswered ==
    /\ scale = "update" /\ MayTry
    /\ \/ Accept /\ Continues(AfterUpdate)
       \/ Token \in accepted /\ UNCHANGED <<accepted, group>> /\ Continues(AfterUpdate)
       \/ UNCHANGED <<accepted, group>> /\ Finish("failed")
    /\ UNCHANGED <<wish, others, attempt, answerLost, expired, seen>>

\* A transient error: the request or its answer is lost, and WithRetry sends it again.
UpdateLost ==
    /\ scale = "update" /\ MayTry
    /\ attempt' = attempt + 1
    /\ \/ Accept /\ answerLost' = TRUE
       \/ UNCHANGED <<accepted, group, answerLost>>
    /\ UNCHANGED <<wish, others, scale, expired, seen, outcome>>

UpdateGivesUp ==
    /\ scale = "update" /\ ~MayTry
    /\ Finish("failed")
    /\ UNCHANGED <<wish, group, others, attempt, accepted, answerLost, expired, seen>>

Scaled(description) ==
    description.status = "ACTIVE" /\ wish.desired \in {NoSize, description.size}

\* waitForScaleCompletion: a failed description is logged and asked again.
WaitForScale ==
    /\ scale = "wait"
    /\ \/ ~expired /\ seen' = group /\ Continues(IF Scaled(group) THEN "after" ELSE "wait")
       \/ expired /\ Finish("timeout") /\ UNCHANGED seen
    /\ UNCHANGED <<wish, group, others, attempt, accepted, answerLost, expired>>

PostScaleHealth ==
    /\ scale = "after"
    /\ \E decision \in (IF wish.health THEN {"PROCEED", "WARN", "BLOCK"} ELSE {"PROCEED"}) :
         Finish(IF decision = "BLOCK" THEN "unhealthy" ELSE "ok")
    /\ UNCHANGED <<wish, group, others, attempt, accepted, answerLost, expired, seen>>

ScaleStep ==
    \/ PrintScaleDryRun \/ PreScaleHealth \/ CheckPDBs \/ UpdateAnswered \/ UpdateLost
    \/ UpdateGivesUp \/ WaitForScale \/ PostScaleHealth

ScaleExpires ==
    /\ scale # "over" /\ ~expired /\ expired' = TRUE
    /\ UNCHANGED <<wish, group, others, scale, attempt, accepted, answerLost, seen, outcome>>

\* EKS finishes an update; somebody else scales the same nodegroup (external).
GroupSettles ==
    /\ group.status = "UPDATING" /\ group' = [group EXCEPT !.status = "ACTIVE"]
    /\ UNCHANGED <<wish, others, scale, attempt, accepted, answerLost, expired, seen, outcome>>

OtherScales ==
    /\ group.status = "ACTIVE" /\ others < MaxOtherScales /\ others' = others + 1
    /\ \E size \in Sizes : group' = [size |-> size, status |-> "UPDATING"]
    /\ UNCHANGED <<wish, scale, attempt, accepted, answerLost, expired, seen, outcome>>

NodegroupScaleInit ==
    /\ wish \in [desired : Sizes \cup {NoSize}, dryRun : BOOLEAN, health : BOOLEAN,
                 pdbs : BOOLEAN, wait : BOOLEAN]
    /\ group \in [size : Sizes, status : {"ACTIVE", "UPDATING"}] /\ others = 0
    /\ scale = "start" /\ attempt = 0 /\ accepted = {} /\ answerLost = FALSE
    /\ expired = FALSE /\ seen = group /\ outcome = "none"

NodegroupScaleNext == ScaleStep \/ ScaleExpires \/ GroupSettles \/ OtherScales

-----------------------------------------------------------------------------
(* Properties *)

NodegroupScaleTypeOK ==
    /\ wish \in [desired : Sizes \cup {NoSize}, dryRun : BOOLEAN, health : BOOLEAN,
                 pdbs : BOOLEAN, wait : BOOLEAN]
    /\ {group, seen} \subseteq [size : Sizes, status : {"ACTIVE", "UPDATING"}]
    /\ others \in 0..MaxOtherScales /\ attempt \in 0..UpdateAttempts
    /\ scale \in {"start", "pdbs", "update", "wait", "after", "over"}
    /\ accepted \subseteq 1..UpdateAttempts /\ answerLost \in BOOLEAN /\ expired \in BOOLEAN
    /\ outcome \in {"none", "ok", "failed", "blocked", "timeout", "unhealthy"}

\* However answers are lost and somebody else scales meanwhile, one command starts at most
\* one update; a preview or a blocked gate starts none; success means that EKS took it
\* and, with --wait, that the last description showed the nodegroup ACTIVE at the size
\* asked for; and a failure of which every answer arrived changed nothing (Scale).
ScaleHonest ==
    /\ Cardinality(accepted) <= 1
    /\ wish.dryRun \/ outcome = "blocked" => accepted = {}
    /\ outcome = "ok" /\ ~wish.dryRun =>
          /\ accepted # {}
          /\ wish.wait => seen.status = "ACTIVE" /\ wish.desired \in {NoSize, seen.size}
    /\ outcome = "failed" /\ ~answerLost => accepted = {}

=============================================================================
