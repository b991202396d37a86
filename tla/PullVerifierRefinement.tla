------------------------ MODULE PullVerifierRefinement ------------------------
(***************************************************************************)
(* The pull-mode verifier (PullVerifier) against the lifecycle it promises *)
(* (PollingLifecycle).  The operational states map to what GET reports,    *)
(* and a reactivation is pending while a chain started by POST or PUT      *)
(* reactivate has not yet written its START.                               *)
(***************************************************************************)
EXTENDS PullVerifier

\* The lifecycle row that an operational state stands for.
RowOf(s) ==
    CASE s = Absent                                -> "absent"
      [] s \in {"START", "GET_QUOTE", "PROVIDE_V"}  -> "polling"
      [] s \in {"FAILED", "INVALID_QUOTE"}          -> "failed"
      [] s = "TENANT_FAILED"                        -> "stopped"
      [] s = "TERMINATED"                           -> "terminating"
      [] s = "SAVED"                                -> "saved"

\* A chain whose in-memory state is still START: process_agent has not yet
\* propagated it (line 606).
Resuming == \E c \in Chains : Live(c) /\ chain[c].mem = "START"

Lifecycle == INSTANCE PollingLifecycle WITH row <- RowOf(db), resume <- Resuming

(* The pull-mode verifier implements its lifecycle: no step of process_agent *)
(* or of the handlers changes what GET reports except as PollingLifecycle   *)
(* allows (in particular a failed agent is polled again only after a PUT    *)
(* reactivate), and every reactivation is acted on.                         *)
LifecycleSpec == Lifecycle!Spec

=============================================================================
