--------------------------- MODULE PollingLifecycle ---------------------------
(***************************************************************************)
(* What the pull-mode verifier promises the tenant about one agent: the    *)
(* lifecycle of its row as a GET /agents/{id} reports it.  The verifier   *)
(* itself may only                                                         *)
(*   - turn a polled agent into a failed one (a quote was invalid or the   *)
(*     agent could not be reached max_retries times);                      *)
(*   - carry out the tenant's requests: a DELETE of a polled agent (it is  *)
(*     terminating until the poller removes it) and a PUT reactivate       *)
(*     (resume: polling is to start again from START);                     *)
(*   - set every agent to saved when it restarts.                          *)
(* A failed, stopped or saved agent is polled again only by a reactivate.  *)
(***************************************************************************)
VARIABLES row, resume

avars == <<row, resume>>

Absent == "absent"

Rows == {Absent, "polling", "failed", "stopped", "terminating", "saved"}

Init == row = Absent /\ resume = FALSE

\* POST: the agent is added and polling starts.
Add == row = Absent /\ row' = "polling" /\ resume' = TRUE

\* PUT reactivate is accepted.
Request == row # Absent /\ resume' = TRUE /\ UNCHANGED row

\* The reactivated poller starts: the agent is polled from START again.
Resume == resume /\ row # Absent /\ row' = "polling" /\ resume' \in {FALSE, resume}

\* The reactivated poller finds nothing to resume.
Drop == resume /\ resume' = FALSE /\ UNCHANGED row

\* The poller gives up on the agent.
Fail == row = "polling" /\ row' = "failed" /\ UNCHANGED resume

\* DELETE of a polled agent: the poller is to remove it.
Terminate == row = "polling" /\ row' = "terminating" /\ UNCHANGED resume

\* DELETE of an agent nobody polls.
Remove == row \in Rows \ {Absent, "polling"} /\ row' = Absent /\ UNCHANGED resume

\* The poller acts on a DELETE: it removes the agent and ends.
Finish == row = "terminating" /\ row' = Absent /\ resume' \in {FALSE, resume}

\* PUT stop.
Stop == row # Absent /\ row' = "stopped" /\ UNCHANGED resume

\* The verifier restarts: every poller is gone and every agent saved.
Restart == row' = (IF row = Absent THEN Absent ELSE "saved") /\ resume' = FALSE

Next == Add \/ Request \/ Resume \/ Drop \/ Fail \/ Terminate \/ Remove \/ Finish \/ Stop \/ Restart

\* A reactivation is acted on.
Spec == Init /\ [][Next]_avars /\ WF_avars(Resume) /\ WF_avars(Drop)

\* Type invariant.
TypeOK == row \in Rows /\ resume \in BOOLEAN
=============================================================================
