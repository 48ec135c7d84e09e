------------------------------- MODULE Commands -------------------------------
(***************************************************************************)
(* The commands of `refresh` that neither upgrade a cluster nor roll nodes  *)
(* or add-ons: main's dispatch gives each invocation one of them.  They     *)
(* share no memory and no file with one another, so a behaviour is that of  *)
(* one command, with the processes and goroutines its module has.           *)
(***************************************************************************)
EXTENDS ContextStore, UpdateCheck, ClusterList, FleetStatus, NodegroupScale, HealthChecks,
        Readiness

VARIABLE command    \* the one the command line names

commandVars == <<command, contextVars, checkVars, listVars, statusVars, scaleVars, healthVars,
                 readVars>>

CommandNames == {"context", "version", "cluster list", "status", "nodegroup scale",
                 "health check", "cluster upgrade-check"}

\* The choices of a command that is not run are fixed.
CommandsInit ==
    /\ command \in CommandNames
    /\ ContextStoreInit
    /\ UpdateCheckInit
    /\ ClusterListInit /\ (command # "cluster list" => filter = "any")
    /\ FleetStatusInit /\ (command # "status" => chosen = CHOOSE p \in Patterns : TRUE)
    /\ NodegroupScaleInit
    /\ command # "nodegroup scale" =>
         /\ wish = [desired |-> NoSize, dryRun |-> TRUE, health |-> FALSE, pdbs |-> FALSE,
                    wait |-> FALSE]
         /\ group = [size |-> CHOOSE n \in Sizes : TRUE, status |-> "ACTIVE"]
    /\ HealthChecksInit
    /\ command # "health check" => situation = CHOOSE s \in Situations : TRUE
    /\ ReadinessInit /\ (command # "cluster upgrade-check" => reference = NoReference)

RunContext ==
    /\ command = "context" /\ ContextStoreNext
    /\ UNCHANGED <<command, checkVars, listVars, statusVars, scaleVars, healthVars, readVars>>

RunVersion ==
    /\ command = "version" /\ UpdateCheckNext
    /\ UNCHANGED <<command, contextVars, listVars, statusVars, scaleVars, healthVars, readVars>>

RunClusterList ==
    /\ command = "cluster list" /\ ClusterListNext
    /\ UNCHANGED <<command, contextVars, checkVars, statusVars, scaleVars, healthVars, readVars>>

RunStatusCommand ==
    /\ command = "status" /\ FleetStatusNext
    /\ UNCHANGED <<command, contextVars, checkVars, listVars, scaleVars, healthVars, readVars>>

RunNodegroupScale ==
    /\ command = "nodegroup scale" /\ NodegroupScaleNext
    /\ UNCHANGED <<command, contextVars, checkVars, listVars, statusVars, healthVars, readVars>>

RunHealthCheck ==
    /\ command = "health check" /\ HealthChecksNext
    /\ UNCHANGED <<command, contextVars, checkVars, listVars, statusVars, scaleVars, readVars>>

RunUpgradeCheck ==
    /\ command = "cluster upgrade-check" /\ ReadinessNext
    /\ UNCHANGED <<command, contextVars, checkVars, listVars, statusVars, scaleVars, healthVars>>

AtRest ==
    CASE command = "context" -> shell = [p \in Shells |-> "idle"]
      [] command = "version" -> version = [p \in Terminals |-> "idle"]
      [] command = "cluster list" -> listing = "over"
      [] command = "status" -> exit # -1
      [] command = "nodegroup scale" -> scale = "over"
      [] command = "health check" -> decision # "PENDING"
      [] command = "cluster upgrade-check" -> reading \in {"over", "error"}

\* Only a command that has come to its end may stop: a step that is missing before it
\* is a deadlock to TLC.
Finished == AtRest /\ UNCHANGED commandVars

CommandsNext ==
    \/ RunContext \/ RunVersion \/ RunClusterList \/ RunStatusCommand \/ RunNodegroupScale
    \/ RunHealthCheck \/ RunUpgradeCheck \/ Finished

CommandsSpec == CommandsInit /\ [][CommandsNext]_commandVars

-----------------------------------------------------------------------------
(* Properties *)

\* Every command keeps its state within its types.
CommandsTypeOK ==
    /\ command \in CommandNames
    /\ ContextStoreTypeOK /\ UpdateCheckTypeOK /\ ClusterListTypeOK /\ FleetStatusTypeOK
    /\ NodegroupScaleTypeOK /\ HealthChecksTypeOK /\ ReadinessTypeOK

=============================================================================
