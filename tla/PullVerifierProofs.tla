------------------------- MODULE PullVerifierProofs -------------------------
(***************************************************************************)
(* Proofs about the PullVerifier model, for every value of its constants.  *)
(***************************************************************************)
EXTENDS PullVerifier, TLAPS

USE PullAssumption

\* The empty chain slot and the idle tenant are well typed.
LEMMA IdleTypes ==
    NoChain \in Chain /\ TenantIdle \in Tenant
BY DEF NoChain, Chain, TenantIdle, Tenant, ChainPCs, OpStates, Args

(* The retry step of process_agent keeps num_retries within max_retries:   *)
(* it adds one only below the bound.                                       *)
LEMMA RetryType ==
    ASSUME NEW ch \in Chain, NEW pc \in {"quote", "provide"}
    PROVE  RetryOrFail(ch, pc) \in Chain
<1>1. CASE ch.retries >= MaxRetries
  BY <1>1 DEF RetryOrFail, Chain, ChainPCs, Args
<1>2. CASE ~(ch.retries >= MaxRetries)
  <2>1. ch.retries + 1 \in 0..MaxRetries
    BY <1>2 DEF Chain
  <2>. QED
    BY <1>2, <2>1 DEF RetryOrFail, Chain, ChainPCs
<1>. QED
  BY <1>1, <1>2

\* Every transition of process_agent yields a well-typed chain.
LEMMA AdvanceType ==
    ASSUME NEW ch \in Chain
    PROVE  Advance(ch) \in Chain
<1> DEFINE Poll(pc, st) == [ch EXCEPT !.pc = pc, !.mem = st, !.retries = 0, !.hold = FALSE]
<1>1. ASSUME NEW pc \in {"quote", "provide"}, NEW st \in {"GET_QUOTE", "PROVIDE_V"}
      PROVE  Poll(pc, st) \in Chain
  <2>1. 0 \in 0..MaxRetries /\ pc \in ChainPCs /\ st \in OpStates
    BY DEF ChainPCs, OpStates
  <2>. QED
    BY <2>1 DEF Chain
<1>2. /\ RetryOrFail(ch, "quote") \in Chain
      /\ RetryOrFail(ch, "provide") \in Chain
  BY RetryType
<1>3. NoChain \in Chain
  BY IdleTypes
<1>. QED
  BY <1>1, <1>2, <1>3 DEF Advance, Poll

\* A chain step leaves the slots of the other chains alone.
LEMMA ChainUpdate ==
    ASSUME NEW f \in [Chains -> Chain], NEW c \in Chains, NEW x \in Chain
    PROVE  [f EXCEPT ![c] = x] \in [Chains -> Chain]
OBVIOUS

(* Every step keeps the row, the chains and the tenant's request in their  *)
(* types; in particular num_retries never exceeds max_retries.            *)
LEMMA TypeStep == TypeOK /\ [Next]_vars => TypeOK'
<1> SUFFICES ASSUME TypeOK, [Next]_vars PROVE TypeOK'
  OBVIOUS
<1>. USE DEF TypeOK
<1>0. NoChain \in Chain /\ TenantIdle \in Tenant
  BY IdleTypes
<1>1. ASSUME NEW p \in Procs, NEW c \in Chains, Post(p, c) PROVE TypeOK'
  <2>1. Started(p, "START") \in Chain
    BY <1>0 DEF Started, NoChain, Chain, ChainPCs, OpStates
  <2>. QED
    BY <1>1, <2>1, ChainUpdate DEF Post, OpStates
<1>2. ASSUME NEW p \in Procs, NEW c \in Chains, Reactivate(p, c) PROVE TypeOK'
  <2>1. Started(p, "START") \in Chain
    BY <1>0 DEF Started, NoChain, Chain, ChainPCs, OpStates
  <2>. QED
    BY <1>2, <2>1, ChainUpdate DEF Reactivate
<1>3. ASSUME NEW p \in Procs, DeleteRead(p) PROVE TypeOK'
  BY <1>3 DEF DeleteRead, Tenant
<1>4. CASE DeleteWrite
  BY <1>4, <1>0 DEF DeleteWrite, OpStates
<1>5. ASSUME NEW p \in Procs, Stop(p) PROVE TypeOK'
  BY <1>5 DEF Stop, OpStates
<1>6. ASSUME NEW p \in Procs, Crash(p) PROVE TypeOK'
  BY <1>6, <1>0 DEF Crash
<1>7. CASE Restart
  BY <1>7, <1>0 DEF Restart, OpStates
<1>8. ASSUME NEW c \in Chains, Read(c) PROVE TypeOK'
  <2>1. [chain[c] EXCEPT !.pc = "decide", !.stored = db, !.hold = TRUE] \in Chain
    BY DEF Chain, ChainPCs
  <2>. QED
    BY <1>8, <2>1, ChainUpdate DEF Read
<1>9. ASSUME NEW c \in Chains, Decide(c) PROVE TypeOK'
  <2>1. chain[c] \in Chain
    OBVIOUS
  <2>2. CASE DecideHalt(c)
    <3>1. RemovedIfTerminated(chain[c]) \in OpStates \cup {Absent}
      BY DEF RemovedIfTerminated
    <3>. QED
      BY <2>2, <3>1, <1>0, ChainUpdate DEF DecideHalt
  <2>3. CASE DecideFail(c)
    <3>1. chain[c].arg \in OpStates
      BY <2>3, <2>1 DEF DecideFail, EndsOnFailure, Chain, OpStates
    <3>. QED
      BY <2>3, <3>1, <1>0, ChainUpdate DEF DecideFail, Overwritten
  <2>4. CASE DecidePropagate(c)
    <3>1. Advance(chain[c]) \in Chain /\ chain[c].mem \in OpStates
      BY <2>1, AdvanceType DEF Chain
    <3>. QED
      BY <2>4, <3>1, ChainUpdate DEF DecidePropagate, Overwritten
  <2>. QED
    BY <1>9, <2>2, <2>3, <2>4 DEF Decide
<1>10. ASSUME NEW c \in Chains, NEW o \in QuoteOutcomes, Quote(c, o) PROVE TypeOK'
  <2>1. CASE o = "malformed"
    BY <1>10, <2>1, <1>0, ChainUpdate DEF Quote
  <2>2. CASE o # "malformed"
    <3> DEFINE a == CASE o = "unreachable" -> "GET_QUOTE_RETRY"
                      [] o = "error"       -> "FAILED"
                      [] o = "valid_v"     -> "PROVIDE_V"
                      [] o = "valid"       -> "GET_QUOTE"
                      [] o = "invalid"     -> "INVALID_QUOTE"
    <3>1. a \in Args
      BY <2>2 DEF QuoteOutcomes, Args
    <3>2. [chain[c] EXCEPT !.pc = "process", !.arg = a] \in Chain
      BY <3>1 DEF Chain, ChainPCs
    <3>. QED
      BY <1>10, <2>2, <3>2, ChainUpdate DEF Quote
  <2>. QED
    BY <2>1, <2>2
<1>11. ASSUME NEW c \in Chains, NEW o \in {"unreachable", "error", "ok"}, ProvideV(c, o)
       PROVE TypeOK'
  <2> DEFINE a == CASE o = "unreachable" -> "PROVIDE_V_RETRY"
                    [] o = "error"       -> "FAILED"
                    [] o = "ok"          -> "GET_QUOTE"
  <2>1. a \in Args
    BY DEF Args
  <2>2. [chain[c] EXCEPT !.pc = "process", !.arg = a] \in Chain
    BY <2>1 DEF Chain, ChainPCs
  <2>. QED
    BY <1>11, <2>2, ChainUpdate DEF ProvideV
<1>12. CASE UNCHANGED vars
  BY <1>12 DEF vars
<1>. QED
  BY <1>1, <1>2, <1>3, <1>4, <1>5, <1>6, <1>7, <1>8, <1>9, <1>10, <1>11, <1>12
     DEF Next

(* The model of the pull-mode verifier is well typed, for any number of    *)
(* chains, processes and retries.                                          *)
THEOREM TypeCorrect == Spec => []TypeOK
<1>1. Init => TypeOK
  BY IdleTypes DEF Init, TypeOK
<1>. QED
  BY <1>1, TypeStep, PTL DEF Spec


(* Within one process, the code between get_agent and the next await runs  *)
(* alone: a chain deciding holds the process and still sees the row it     *)
(* read, at most one actor holds the process, and a DELETE between its two *)
(* database calls excludes every chain.                                    *)
HoldInv ==
    /\ \A c \in Chains : chain[c].hold => chain[c].pc \in {"process", "decide"}
    /\ \A c \in Chains : chain[c].pc = "decide" => chain[c].hold /\ chain[c].stored = db
    /\ \A c, d \in Chains : chain[c].hold /\ chain[d].hold => c = d
    /\ tenant.pc = "delete_write" => \A c \in Chains : ~chain[c].hold

\* The invariant of StopSticks, strengthened so as to be inductive.
StopInv == TypeOK /\ HoldInv


(* With one process, the chains and the tenant's request all run in it.    *)
LEMMA OneProcess ==
    ASSUME NEW p, Procs = {p}, TypeOK
    PROVE  /\ \A c \in Chains : chain[c].proc = p
           /\ \A q \in Procs : TenantMayRun(q) => \A c \in Chains : ~chain[c].hold
           /\ \A c \in Chains : ChainMayRun(c) =>
                 /\ \A d \in Chains \ {c} : ~chain[d].hold
                 /\ tenant.pc # "delete_write"
<1>1. \A c \in Chains : chain[c].proc = p
  BY DEF TypeOK, Chain
<1>2. tenant.proc = p
  BY DEF TypeOK, Tenant
<1>. QED
  BY <1>1, <1>2 DEF TenantMayRun, ChainMayRun, Holders, InDelete

(* Every step of one process keeps HoldInv: the handlers and the chains    *)
(* that may run find the process free, and only the chain that holds it    *)
(* writes the row while it is deciding.                                    *)
LEMMA HoldStep ==
    ASSUME NEW p, Procs = {p}
    PROVE  StopInv /\ [Next]_vars => HoldInv'
<1> SUFFICES ASSUME StopInv, [Next]_vars PROVE HoldInv'
  OBVIOUS
<1>0. /\ \A c \in Chains : chain[c].proc = p
      /\ \A q \in Procs : TenantMayRun(q) => \A c \in Chains : ~chain[c].hold
      /\ \A c \in Chains : ChainMayRun(c) =>
            /\ \A d \in Chains \ {c} : ~chain[d].hold
            /\ tenant.pc # "delete_write"
  BY OneProcess DEF StopInv
<1>1. NoChain.hold = FALSE /\ NoChain.pc = "none"
  BY DEF NoChain
<1>. USE DEF StopInv, HoldInv
<1>2. ASSUME NEW q \in Procs, NEW c \in Chains, Post(q, c) \/ Reactivate(q, c)
      PROVE HoldInv'
  <2>1. \A d \in Chains : ~chain[d].hold
    BY <1>0, <1>2 DEF Post, Reactivate
  <2>2. chain' = [chain EXCEPT ![c] = Started(q, "START")] /\ UNCHANGED tenant
    BY <1>2 DEF Post, Reactivate
  <2>3. Started(q, "START").hold = FALSE /\ Started(q, "START").pc = "process"
    BY DEF Started, NoChain
  <2>. QED
    BY <2>1, <2>2, <2>3 DEF TypeOK
<1>3. ASSUME NEW q \in Procs, DeleteRead(q) \/ Stop(q) PROVE HoldInv'
  <2>1. \A d \in Chains : ~chain[d].hold
    BY <1>0, <1>3 DEF DeleteRead, Stop
  <2>. QED
    BY <2>1, <1>3 DEF DeleteRead, Stop
<1>4. CASE DeleteWrite
  BY <1>4 DEF DeleteWrite, TenantIdle
<1>5. ASSUME NEW q \in Procs, Crash(q) PROVE HoldInv'
  BY <1>5, <1>1 DEF Crash, TenantIdle
<1>6. CASE Restart
  BY <1>6, <1>1 DEF Restart, TenantIdle
<1>7. ASSUME NEW c \in Chains, Read(c) PROVE HoldInv'
  <2>1. (\A d \in Chains \ {c} : ~chain[d].hold) /\ tenant.pc # "delete_write"
    BY <1>0, <1>7 DEF Read
  <2>. QED
    BY <2>1, <1>7 DEF Read, TypeOK
<1>8. ASSUME NEW c \in Chains, Decide(c) PROVE HoldInv'
  <2>1. chain[c].hold /\ chain[c] \in Chain
    BY <1>8 DEF Decide, DecideHalt, DecideFail, DecidePropagate, TypeOK
  <2>2. (\A d \in Chains \ {c} : ~chain[d].hold /\ chain[d].pc # "decide")
        /\ tenant.pc # "delete_write"
    BY <2>1
  <2>3. ASSUME NEW x, chain' = [chain EXCEPT ![c] = x], UNCHANGED tenant,
               x.hold => x.pc \in {"process", "decide"}, x.pc # "decide"
        PROVE  HoldInv'
    BY <2>2, <2>3 DEF TypeOK
  <2>4. CASE DecideHalt(c) \/ DecideFail(c)
    BY <2>4, <2>3, <1>1 DEF DecideHalt, DecideFail, NoChain
  <2>5. CASE DecidePropagate(c)
    <3>1. Advance(chain[c]).hold => Advance(chain[c]).pc \in {"process", "decide"}
      BY <2>1 DEF Advance, RetryOrFail, NoChain
    <3>2. Advance(chain[c]).pc # "decide"
      BY <2>1 DEF Advance, RetryOrFail, NoChain
    <3>. QED
      BY <2>5, <2>3, <3>1, <3>2 DEF DecidePropagate
  <2>. QED
    BY <1>8, <2>4, <2>5 DEF Decide
<1>9. ASSUME NEW c \in Chains, NEW o \in QuoteOutcomes, Quote(c, o) PROVE HoldInv'
  <2>1. (\A d \in Chains \ {c} : ~chain[d].hold) /\ tenant.pc # "delete_write"
        /\ ~chain[c].hold
    BY <1>0, <1>9 DEF Quote
  <2>. QED
    BY <2>1, <1>9, <1>1 DEF Quote, TypeOK
<1>10. ASSUME NEW c \in Chains, NEW o \in {"unreachable", "error", "ok"}, ProvideV(c, o)
       PROVE HoldInv'
  <2>1. (\A d \in Chains \ {c} : ~chain[d].hold) /\ tenant.pc # "delete_write"
        /\ ~chain[c].hold
    BY <1>0, <1>10 DEF ProvideV
  <2>. QED
    BY <2>1, <1>10 DEF ProvideV, TypeOK
<1>11. CASE UNCHANGED vars
  BY <1>11 DEF vars
<1>. QED
  BY <1>2, <1>3, <1>4, <1>5, <1>6, <1>7, <1>8, <1>9, <1>10, <1>11 DEF Next


\* What StopSticks requires of a single step.
StopStep ==
    \A c \in Chains :
        Decide(c) /\ db \in {"TENANT_FAILED", "TERMINATED"} => db' \in {db, Absent}

(* A chain that decides on a TENANT_FAILED or TERMINATED row read it      *)
(* itself, so it stops (and removes a TERMINATED row).                     *)
LEMMA StopStepHolds ==
    ASSUME StopInv
    PROVE  StopStep
<1> SUFFICES ASSUME NEW c \in Chains, Decide(c), db \in {"TENANT_FAILED", "TERMINATED"}
             PROVE  db' \in {db, Absent}
  BY DEF StopStep
<1>1. chain[c].pc = "decide"
  BY DEF Decide, DecideHalt, DecideFail, DecidePropagate
<1>2. chain[c].stored = db
  BY <1>1 DEF StopInv, HoldInv
<1>3. HaltedByTenant(chain[c])
  BY <1>2 DEF HaltedByTenant
<1>4. DecideHalt(c)
  BY <1>3 DEF Decide, DecideFail, DecidePropagate
<1>. QED
  BY <1>4 DEF DecideHalt, RemovedIfTerminated

(* With one worker process, a stop or a delete sticks: no step of           *)
(* process_agent writes a polling state over a TENANT_FAILED or TERMINATED *)
(* row, for any number of chains, retries, crashes and malformed answers.   *)
THEOREM SingleProcessStopSticks ==
    ASSUME NEW p, Procs = {p}
    PROVE  Spec => StopSticks
<1>1. Init => StopInv
  <2> SUFFICES ASSUME Init PROVE StopInv
    OBVIOUS
  <2>1. TypeOK
    BY IdleTypes DEF Init, TypeOK
  <2>2. NoChain.hold = FALSE /\ NoChain.pc = "none" /\ TenantIdle.pc = "idle"
    BY DEF NoChain, TenantIdle
  <2>3. HoldInv
    BY <2>2 DEF Init, HoldInv
  <2>. QED
    BY <2>1, <2>3 DEF StopInv
<1>2. StopInv /\ [Next]_vars => StopInv'
  <2> SUFFICES ASSUME StopInv, [Next]_vars PROVE StopInv'
    OBVIOUS
  <2>1. TypeOK'
    BY TypeStep DEF StopInv
  <2>2. HoldInv'
    BY HoldStep
  <2>. QED
    BY <2>1, <2>2 DEF StopInv
<1>3. StopInv => [StopStep]_vars
  BY StopStepHolds
<1>. QED
  BY <1>1, <1>2, <1>3, PTL DEF Spec, StopSticks, StopStep

=============================================================================
