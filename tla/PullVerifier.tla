---------------------------- MODULE PullVerifier ----------------------------
(***************************************************************************)
(* The pull-mode polling of one agent by the cloud verifier                *)
(* (keylime/cloud_verifier_tornado.py): the tenant's POST, PUT and DELETE  *)
(* handlers, and the chain of coroutines process_agent -> invoke_get_quote *)
(* / invoke_provide_v -> process_agent ... that polls the agent.           *)
(*                                                                         *)
(* db     : the agent's row in the verifier database, its                  *)
(*          operational_state, or Absent.                                  *)
(* chain  : the polling chains.  A chain is the in-memory agent dict that  *)
(*          process_agent and the invoke_* coroutines pass along, with the *)
(*          point it has reached.  Every ensure_future continues the same  *)
(*          chain; POST and PUT reactivate start a new one.                *)
(* tenant : the request of the tenant being handled (DELETE is cut between *)
(*          its get_agent and its write).                                  *)
(* reactivated : a PUT reactivate has been answered since the last other   *)
(*          tenant request.                                                *)
(*                                                                         *)
(* Tornado runs the coroutines of one process one at a time, switching     *)
(* only at an await; fork_processes runs several processes on one         *)
(* database.  A step of a process is atomic with respect to the other      *)
(* actors of the same process; "hold" marks a chain or a handler between   *)
(* two database calls of one uninterrupted piece of code.                  *)
(***************************************************************************)
EXTENDS Naturals, FiniteSets

CONSTANTS
    Chains,       \* slots for polling chains (bounds POST / reactivate)
    Procs,        \* tornado worker processes
    MaxRetries,   \* [cloud_verifier] max_retries
    Malformed,    \* whether an agent may answer 200 with a malformed body
    Faults        \* whether worker processes crash and the verifier restarts

ASSUME PullAssumption ==
    /\ IsFiniteSet(Chains) /\ Procs # {} /\ MaxRetries \in Nat
    /\ Malformed \in BOOLEAN /\ Faults \in BOOLEAN

VARIABLES db, chain, tenant, reactivated

vars == <<db, chain, tenant, reactivated>>

Absent == "absent"

\* CloudAgent_Operational_State values written by this file.
OpStates == {"START", "SAVED", "GET_QUOTE", "PROVIDE_V", "FAILED",
             "TERMINATED", "TENANT_FAILED", "INVALID_QUOTE"}

\* The new_operational_state arguments of process_agent.
Args == {"GET_QUOTE", "PROVIDE_V", "GET_QUOTE_RETRY", "PROVIDE_V_RETRY",
         "FAILED", "INVALID_QUOTE"}

\* States in which DELETE removes the row at once (lines 280-289).
Removable == {"SAVED", "FAILED", "TERMINATED", "TENANT_FAILED", "INVALID_QUOTE"}

ChainPCs == {"none", "process", "decide", "quote", "provide"}

Chain == [pc: ChainPCs, proc: Procs, mem: OpStates, arg: Args,
          retries: 0..MaxRetries, hold: BOOLEAN, stored: OpStates \cup {Absent}]

NoChain == [pc |-> "none", proc |-> CHOOSE p \in Procs : TRUE, mem |-> "START",
            arg |-> "GET_QUOTE", retries |-> 0, hold |-> FALSE, stored |-> Absent]

Tenant == [pc: {"idle", "delete_write"}, proc: Procs, stored: OpStates \cup {Absent}]

TenantIdle == [pc |-> "idle", proc |-> CHOOSE p \in Procs : TRUE, stored |-> Absent]

Live(c) == chain[c].pc # "none"

\* The chains inside uninterrupted code of process p.
Holders(p) == {c \in Chains : chain[c].proc = p /\ chain[c].hold}

\* A DELETE of process p is between its two database calls.
InDelete(p) == tenant.pc = "delete_write" /\ tenant.proc = p

\* Chain c may run: no other actor of its process is inside such code.
ChainMayRun(c) == Holders(chain[c].proc) \subseteq {c} /\ ~InDelete(chain[c].proc)

\* A tenant request may start in process p.
TenantMayRun(p) == tenant.pc = "idle" /\ Holders(p) = {}

\* A chain that process_agent starts with new_operational_state GET_QUOTE.
Started(p, mem) ==
    [NoChain EXCEPT !.pc = "process", !.proc = p, !.mem = mem]

-----------------------------------------------------------------------------
Init ==
    /\ db = Absent
    /\ chain = [c \in Chains |-> NoChain]
    /\ tenant = TenantIdle
    /\ reactivated = FALSE

(* POST /agents/{id} (lines 293-364): add_agent with operational state     *)
(* START, refused (409) when the row exists; then process_agent(GET_QUOTE). *)
Post(p, c) ==
    /\ TenantMayRun(p)
    /\ db = Absent
    /\ ~Live(c)
    /\ db' = "START"
    /\ chain' = [chain EXCEPT ![c] = Started(p, "START")]
    /\ reactivated' = FALSE
    /\ UNCHANGED tenant

(* DELETE /agents/{id} (lines 250-291), first database call: get_agent;    *)
(* 404 when the row is absent.                                             *)
DeleteRead(p) ==
    /\ TenantMayRun(p)
    /\ db # Absent
    /\ tenant' = [pc |-> "delete_write", proc |-> p, stored |-> db]
    /\ reactivated' = FALSE
    /\ UNCHANGED <<db, chain>>

(* DELETE, second call: remove_agent when the state read is one of the    *)
(* final ones, else update_agent to TERMINATED for the chain to remove.   *)
(* update_agent of a row deleted meanwhile changes nothing.                *)
DeleteWrite ==
    /\ tenant.pc = "delete_write"
    /\ db' = IF tenant.stored \in Removable THEN Absent
             ELSE IF db = Absent THEN Absent ELSE "TERMINATED"
    /\ tenant' = TenantIdle
    /\ UNCHANGED <<chain, reactivated>>

(* PUT /agents/{id}?reactivate (lines 387-398): the test at line 390 is    *)
(* inverted, so an existing agent is answered 404 and the handler goes on: *)
(* the dict read by get_agent is set to START in memory only and           *)
(* process_agent(GET_QUOTE) is started on it (the 200 at line 397 then     *)
(* writes to a finished response).  Without a row,                         *)
(* agent['operational_state'] raises.                                      *)
Reactivate(p, c) ==
    /\ TenantMayRun(p)
    /\ db # Absent
    /\ ~Live(c)
    /\ chain' = [chain EXCEPT ![c] = Started(p, "START")]
    /\ reactivated' = TRUE
    /\ UNCHANGED <<db, tenant>>

(* PUT /agents/{id}?stop (lines 399-405): update_agent to TENANT_FAILED.   *)
Stop(p) ==
    /\ TenantMayRun(p)
    /\ db # Absent
    /\ db' = "TENANT_FAILED"
    /\ reactivated' = FALSE
    /\ UNCHANGED <<chain, tenant>>

-----------------------------------------------------------------------------
\* Mutant: get_agent yields to the event loop before overwrite_agent.
ReadNoHold(c) ==
    /\ chain[c].pc = "process"
    /\ ChainMayRun(c)
    /\ chain' = [chain EXCEPT ![c].pc = "decide", ![c].stored = db]
    /\ UNCHANGED <<db, tenant, reactivated>>

(* process_agent (lines 569-708), first database call: get_agent.  A      *)
(* nested call (await self.process_agent(agent, FAILED)) runs while its    *)
(* caller still holds the process.                                         *)
Read(c) ==
    /\ chain[c].pc = "process"
    /\ ChainMayRun(c)
    /\ chain' = [chain EXCEPT ![c].pc = "decide", ![c].stored = db, ![c].hold = TRUE]
    /\ UNCHANGED <<db, tenant, reactivated>>

\* overwrite_agent of a row deleted since get_agent: the database layer is
\* not part of the source; either it writes the row again or nothing.
Overwritten(s) == IF db = Absent THEN {Absent, s} ELSE {s}

\* Mutant: the TENANT_FAILED check of process_agent dropped.
HaltedByTenantNoStop(ch) == ch.stored \in {Absent, "TERMINATED"}

\* Lines 572-587: the chain stops when the stored row is gone (the lookup
\* raises and is logged), TERMINATED (remove_agent) or TENANT_FAILED.
HaltedByTenant(ch) == ch.stored \in {Absent, "TERMINATED", "TENANT_FAILED"}

\* Mutant: remove_agent dropped from the TERMINATED branch.
RemovedIfTerminatedKept(ch) == db

\* Lines 575-580: a TERMINATED row is removed, the other halts leave it.
RemovedIfTerminated(ch) == IF ch.stored = "TERMINATED" THEN Absent ELSE db

\* Lines 591-603: FAILED and INVALID_QUOTE are stored and the chain stops.
EndsOnFailure(ch) == ch.arg \in {"FAILED", "INVALID_QUOTE"}

\* Mutant: > for >= in the max_retries test.
RetryOrFailOffByOne(ch, pc) ==
    IF ch.retries > MaxRetries
    THEN [ch EXCEPT !.pc = "process", !.arg = "FAILED", !.hold = TRUE]
    ELSE [ch EXCEPT !.pc = pc, !.retries = @ + 1, !.hold = FALSE]

\* Lines 651-668 (and 690-702 for provide V): within max_retries the call
\* is rescheduled with one more retry; past it, a nested process_agent
\* with FAILED.
RetryOrFail(ch, pc) ==
    IF ch.retries >= MaxRetries
    THEN [ch EXCEPT !.pc = "process", !.arg = "FAILED", !.hold = TRUE]
    ELSE [ch EXCEPT !.pc = pc, !.retries = @ + 1, !.hold = FALSE]

\* Mutant: the PROVIDE_V -> GET_QUOTE transition missing (it raises).
AdvanceNoProvideReturn(ch) ==
    LET Poll(pc, st) == [ch EXCEPT !.pc = pc, !.mem = st, !.retries = 0, !.hold = FALSE]
    IN  CASE ch.mem = "START" /\ ch.arg = "GET_QUOTE" -> Poll("quote", "GET_QUOTE")
          [] ch.mem = "GET_QUOTE" /\ ch.arg = "PROVIDE_V" -> Poll("provide", "PROVIDE_V")
          [] ch.mem = "GET_QUOTE" /\ ch.arg = "GET_QUOTE" -> Poll("quote", "GET_QUOTE")
          [] ch.mem = "GET_QUOTE" /\ ch.arg = "GET_QUOTE_RETRY" -> RetryOrFail(ch, "quote")
          [] ch.mem = "PROVIDE_V" /\ ch.arg = "PROVIDE_V_RETRY" -> RetryOrFail(ch, "provide")
          [] OTHER -> NoChain

\* Lines 606-649: the transition from the in-memory state (main) on the
\* new_operational_state; anything else raises (line 703).
Advance(ch) ==
    LET main == ch.mem
        new  == ch.arg
        Poll(pc, st) == [ch EXCEPT !.pc = pc, !.mem = st, !.retries = 0, !.hold = FALSE]
    IN  CASE main = "START" /\ new = "GET_QUOTE" -> Poll("quote", "GET_QUOTE")
          [] main = "GET_QUOTE" /\ new = "PROVIDE_V" -> Poll("provide", "PROVIDE_V")
          [] main \in {"GET_QUOTE", "PROVIDE_V"} /\ new = "GET_QUOTE" ->
                 Poll("quote", "GET_QUOTE")
          [] main = "GET_QUOTE" /\ new = "GET_QUOTE_RETRY" -> RetryOrFail(ch, "quote")
          [] main = "PROVIDE_V" /\ new = "PROVIDE_V_RETRY" -> RetryOrFail(ch, "provide")
          [] OTHER -> NoChain

(* The rest of process_agent, up to its await or its return, in the order *)
(* of its tests.  The stored row stops the chain (lines 572-587).          *)
DecideHalt(c) ==
    /\ chain[c].pc = "decide"
    /\ HaltedByTenant(chain[c])
    /\ db' = RemovedIfTerminated(chain[c])
    /\ chain' = [chain EXCEPT ![c] = NoChain]
    /\ UNCHANGED <<tenant, reactivated>>

\* FAILED or INVALID_QUOTE is stored and the chain stops (lines 591-603).
DecideFail(c) ==
    /\ chain[c].pc = "decide"
    /\ ~HaltedByTenant(chain[c])
    /\ EndsOnFailure(chain[c])
    /\ db' \in Overwritten(chain[c].arg)
    /\ chain' = [chain EXCEPT ![c] = NoChain]
    /\ UNCHANGED <<tenant, reactivated>>

\* Line 606, "propagate all state": the row is overwritten with the state
\* before the step, then the transition (lines 609-703).
DecidePropagate(c) ==
    /\ chain[c].pc = "decide"
    /\ ~HaltedByTenant(chain[c])
    /\ ~EndsOnFailure(chain[c])
    /\ db' \in Overwritten(chain[c].mem)
    /\ chain' = [chain EXCEPT ![c] = Advance(chain[c])]
    /\ UNCHANGED <<tenant, reactivated>>

Decide(c) == DecideHalt(c) \/ DecideFail(c) \/ DecidePropagate(c)

\* The answers invoke_get_quote can get (lines 434-461): a connection
\* error (599), another error code, a valid quote with or without V to
\* provide, an invalid quote, and a body that json.loads or the checks
\* raise on, which the except at line 463 swallows.
QuoteOutcomes ==
    {"unreachable", "error", "valid", "valid_v", "invalid"}
        \cup (IF Malformed THEN {"malformed"} ELSE {})

(* invoke_get_quote (lines 420-464), after its await: the next             *)
(* process_agent is scheduled with ensure_future.                          *)
Quote(c, o) ==
    /\ chain[c].pc = "quote"
    /\ ChainMayRun(c)
    /\ chain' = [chain EXCEPT ![c] =
         IF o = "malformed" THEN NoChain
         ELSE [@ EXCEPT !.pc = "process", !.arg =
                 CASE o = "unreachable" -> "GET_QUOTE_RETRY"
                   [] o = "error"       -> "FAILED"
                   [] o = "valid_v"     -> "PROVIDE_V"
                   [] o = "valid"       -> "GET_QUOTE"
                   [] o = "invalid"     -> "INVALID_QUOTE"]]
    /\ UNCHANGED <<db, tenant, reactivated>>

(* invoke_provide_v (lines 548-566), after its await.                      *)
ProvideV(c, o) ==
    /\ chain[c].pc = "provide"
    /\ ChainMayRun(c)
    /\ chain' = [chain EXCEPT ![c].pc = "process", ![c].arg =
                   CASE o = "unreachable" -> "PROVIDE_V_RETRY"
                     [] o = "error"       -> "FAILED"
                     [] o = "ok"          -> "GET_QUOTE"]
    /\ UNCHANGED <<db, tenant, reactivated>>

(* A worker process dies.  fork_processes (line 751) starts a new one,     *)
(* which begins with an empty event loop: the chains and the request of    *)
(* the dead process are gone.                                              *)
Crash(p) ==
    /\ Faults
    /\ chain' = [c \in Chains |-> IF chain[c].proc = p THEN NoChain ELSE chain[c]]
    /\ tenant' = IF tenant.proc = p THEN TenantIdle ELSE tenant
    /\ UNCHANGED <<db, reactivated>>

(* The verifier restarts: main (line 728) sets every agent to SAVED.  *)
Restart ==
    /\ Faults
    /\ db' = IF db = Absent THEN Absent ELSE "SAVED"
    /\ chain' = [c \in Chains |-> NoChain]
    /\ tenant' = TenantIdle
    /\ UNCHANGED reactivated

Next ==
    \/ DeleteWrite \/ Restart
    \/ \E p \in Procs :
         \/ DeleteRead(p) \/ Stop(p) \/ Crash(p)
         \/ \E c \in Chains : Post(p, c) \/ Reactivate(p, c)
    \/ \E c \in Chains :
         \/ Read(c) \/ Decide(c)
         \/ \E o \in QuoteOutcomes : Quote(c, o)
         \/ \E o \in {"unreachable", "error", "ok"} : ProvideV(c, o)

(* Tornado's event loop runs every ready coroutine and fires every timer,  *)
(* and the HTTP client answers every request (599 on a timeout); a handler *)
(* runs to its end.  The tenant is not obliged to do anything.             *)
Fairness ==
    /\ WF_vars(DeleteWrite)
    /\ \A c \in Chains :
         /\ WF_vars(Read(c)) /\ WF_vars(Decide(c))
         /\ WF_vars(\E o \in QuoteOutcomes : Quote(c, o))
         /\ WF_vars(\E o \in {"unreachable", "error", "ok"} : ProvideV(c, o))

Spec == Init /\ [][Next]_vars /\ Fairness

-----------------------------------------------------------------------------
\* Type invariant.
TypeOK ==
    /\ db \in OpStates \cup {Absent}
    /\ chain \in [Chains -> Chain]
    /\ tenant \in Tenant
    /\ reactivated \in BOOLEAN

\* The agent is meant to be polled: its row is in none of the final states.
Monitored == db \notin Removable \cup {Absent}

(* A row in a polling state always has a live chain polling it: no path of *)
(* process_agent and the invoke_* coroutines ends without storing a final  *)
(* state, so a GET shows the truth and DELETE's TERMINATED is acted on.    *)
OrphanFree == Monitored => \E c \in Chains : Live(c)

(* A stop or a delete of the tenant sticks: once the row is TENANT_FAILED  *)
(* or TERMINATED, a step of process_agent either leaves it or removes the  *)
(* row, never writes a polling state over it (line 606 overwrites the row  *)
(* with the chain's in-memory copy).                                       *)
StopSticks ==
    [][\A c \in Chains :
         Decide(c) /\ db \in {"TENANT_FAILED", "TERMINATED"} => db' \in {db, Absent}]_vars

(* A DELETE answered 202 is carried out: a TERMINATED row does not stay    *)
(* TERMINATED, the polling chain removing it at its next process_agent.    *)
TerminationHonoured == db = "TERMINATED" ~> db # "TERMINATED"

(* A PUT reactivate makes the agent polled again: its row leaves the      *)
(* final states, which is what the process_agent(GET_QUOTE) started at     *)
(* line 396 is for.  The handler answers 404 (line 390), sets START only   *)
(* in memory, and process_agent stops at the stored TENANT_FAILED.         *)
ReactivateResumes == reactivated ~> db \notin Removable
=============================================================================
