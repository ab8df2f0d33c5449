---------------------------- MODULE RunLifecycle ----------------------------
(***************************************************************************)
(* What a Product Run promises to the people who watch it, whoever executes *)
(* it: the seven persisted lifecycle states, the steps between them, and    *)
(* the artifact a Run publishes.  RunExecution shows how the external       *)
(* workers, the API and the queue keep this promise.                        *)
(***************************************************************************)

CONSTANTS
    Artifacts,     \* the artifact identities a Run may publish
    NoArtifact     \* no artifact published yet, not one of Artifacts

VARIABLES
    state,         \* RunView.lifecycle_state
    result         \* RunView.result_artifact_id

lifecycleVars == <<state, result>>

\* models.py RunLifecycle and TERMINAL_RUN_STATES.
Terminal == {"completed", "failed", "canceled"}
Active == {"queued", "running"}
Lifecycle == Active \cup Terminal \cup {"waiting_input", "cancel_requested"}

LifecycleInit == state = "queued" /\ result = NoArtifact

(***************************************************************************)
(* The steps.  A Run that asks for input does so before it has published    *)
(* anything; publication and the final verdict are separate steps; once a   *)
(* user has asked for cancellation, only the cancellation remains.          *)
(***************************************************************************)
Start         == state = "queued" /\ state' = "running" /\ UNCHANGED result
RequireInput  == /\ state = "running" /\ result = NoArtifact
                 /\ state' = "waiting_input" /\ UNCHANGED result
SupplyInput   == state = "waiting_input" /\ state' = "queued" /\ UNCHANGED result
Publish       == /\ state = "running" /\ result = NoArtifact
                 /\ result' \in Artifacts /\ UNCHANGED state
Complete      == /\ state = "running" /\ result # NoArtifact
                 /\ state' = "completed" /\ UNCHANGED result
Fail          == state \in Active /\ state' = "failed" /\ UNCHANGED result
RequestCancel == /\ state \in Active \cup {"waiting_input"}
                 /\ state' = "cancel_requested" /\ UNCHANGED result
Cancel        == /\ state = "cancel_requested"
                 /\ state' = "canceled" /\ UNCHANGED result

LifecycleNext ==
    \/ Start \/ RequireInput \/ SupplyInput \/ Publish \/ Complete \/ Fail
    \/ RequestCancel \/ Cancel

LifecycleSpec == LifecycleInit /\ [][LifecycleNext]_lifecycleVars
=============================================================================
