--------------------------- MODULE PushAttestation ---------------------------
(***************************************************************************)
(* The push-mode attestation lifecycle of one agent, as implemented by the *)
(* PushAttestation model (keylime/models/verifier/push_attestation.py) and *)
(* driven by the verifier's push controller.                               *)
(*                                                                         *)
(* store  : the rows of the "attestations" table for the agent, a function *)
(*          from the indices present to the persisted fields.              *)
(* task   : the requests in flight.  Each handler is split at its database *)
(*          round trips, so that tasks of several worker processes         *)
(*          interleave exactly where the code gives up atomicity.          *)
(* accept : the agent's accept_attestations flag.                          *)
(* boottime : the boot time the agent currently reports.                   *)
(* now    : the verifier's clock, in seconds.                              *)
(*                                                                         *)
(* The controller (push_attestation_controller) is not part of the source  *)
(* tree; its checks are taken from the specification (section 6.1) and are *)
(* kept in operators of their own.                                         *)
(***************************************************************************)
EXTENDS Integers, FiniteSets

CONSTANTS
    Tasks,               \* concurrent request handlers (worker tasks)
    MaxIndex,            \* largest attestation index explored
    MaxTime,             \* clock bound
    MaxBoot,             \* number of boots of the agent explored
    MaxImaEntries,       \* largest number of IMA entries in one evidence
    QuoteInterval,       \* [verifier] quote_interval, seconds
    VerificationTimeout, \* [verifier] verification_timeout, seconds
    NonceLifetime,       \* [verifier] nonce_lifetime
    DaySeconds,          \* seconds in the day unit of timedelta(n)
    RuntimePolicy,       \* whether the agent has a runtime (IMA) policy
    AgentOverlaps,       \* whether the agent resends a request still in flight
    PullModeNextImaEntry \* agent.next_ima_ml_entry left by pull mode (0: none)

ASSUME ConstantsAssumption ==
    /\ Tasks # {} /\ IsFiniteSet(Tasks)
    /\ MaxIndex \in Nat /\ MaxTime \in Nat /\ MaxBoot \in Nat \ {0}
    /\ MaxImaEntries \in Nat
    /\ QuoteInterval \in Nat /\ VerificationTimeout \in Nat
    /\ NonceLifetime \in Nat /\ DaySeconds \in Nat
    /\ RuntimePolicy \in BOOLEAN /\ AgentOverlaps \in BOOLEAN
    /\ PullModeNextImaEntry \in Nat

VARIABLES store, task, accept, boottime, now

vars == <<store, task, accept, boottime, now>>

-----------------------------------------------------------------------------
(* Values of the fields (lines 139-179).                                   *)

Status == {"waiting", "received", "verified", "failed"}

\* The values the failure_type column accepts (OneOf, line 141).
FailureTypeField == {"quote_authentication", "policy_violation"}

\* The values _set_failure_type assigns (lines 422-471).
FailureTypes == FailureTypeField \cup {"log_authentication"}

NoFailure == "none"
NoTime == -1
NoIndex == -1

Rec == [status: Status, ftype: FailureTypes \cup {NoFailure},
        boottime: 1..MaxBoot, offset: Nat, quoted: Nat, received: Nat,
        nca: 0..MaxTime, era: 0..MaxTime \cup {NoTime}]

\* Placeholder for the fields of an idle task.
NullRec == [status |-> "waiting", ftype |-> NoFailure, boottime |-> 1,
            offset |-> 0, quoted |-> 0, received |-> 0, nca |-> 0,
            era |-> NoTime]

PCs == {"idle", "create_check", "create_insert", "create_cleanup",
        "evidence_commit", "verify", "verify_commit"}

Task == [pc: PCs, idx: 0..MaxIndex \cup {NoIndex}, obj: Rec,
         prevIdx: 0..MaxIndex \cup {NoIndex}, prev: Rec]

\* Phases in which the agent still waits for the HTTP response.
RequestPCs == {"create_check", "create_insert", "create_cleanup", "evidence_commit"}

IdleTask == [pc |-> "idle", idx |-> NoIndex, obj |-> NullRec,
             prevIdx |-> NoIndex, prev |-> NullRec]

(* Events of a Failure returned by Tpm.check_quote, abstracted to their    *)
(* kind.  The adapter stops at a quote that cannot be authenticated, so    *)
(* that event is never combined with another (specification, 4.A).         *)
QuoteEvent  == "quote_validation.quote_validation"
MbPcrEvent  == "measured_boot.invalid_pcr_"
ImaPcrEvent == "ima.pcr_mismatch"
PolicyEvent == "ima.hash_mismatch"

CheckQuoteResults ==
    {{}, {QuoteEvent}, {MbPcrEvent}, {ImaPcrEvent, PolicyEvent}, {PolicyEvent}}

-----------------------------------------------------------------------------
(* Store helpers.                                                          *)

MaxOf(S) == CHOOSE i \in S : \A j \in S : j <= i

Insert(s, k, r) == [i \in DOMAIN s \cup {k} |-> IF i = k THEN r ELSE s[i]]

Remove(s, k) == [i \in DOMAIN s \ {k} |-> s[i]]

\* get_last (lines 217-221): the row with the highest index.
HasLast == DOMAIN store # {}
LastIndex == MaxOf(DOMAIN store)

\* previous_authenticated_attestation (lines 591-624).
PrevAuthIndices(idx) ==
    {i \in DOMAIN store : /\ i < idx
                          /\ store[i].status \in {"verified", "failed"}
                          /\ store[i].ftype # "quote_authentication"}

\* next_ima_offset (lines 677-682).
NextImaOffset(r) == r.offset + r.quoted

\* next_attestation_expected_after and decision_expected_by (684-700).
NextAttestationExpectedAfter(r) ==
    (IF r.era # NoTime THEN r.era ELSE r.nca) + QuoteInterval

DecisionExpectedBy(r) ==
    (IF r.era # NoTime THEN r.era ELSE r.nca + QuoteInterval)
        + VerificationTimeout

\* nonce_expires_at (line 283): timedelta(n) counts days, not seconds.
NonceExpiresAt(r) == r.nca + NonceLifetime * DaySeconds

\* accept_new_attestations_in (lines 223-243), for an existing last row.
\* Line 241 adds two datetimes, which raises TypeError: no wait is returned
\* (NoTime) and the POST fails.
AcceptNewAttestationsIn(r) ==
    IF now < NextAttestationExpectedAfter(r)
    THEN NextAttestationExpectedAfter(r) - now
    ELSE IF r.status = "received" /\ now <= DecisionExpectedBy(r)
         THEN NoTime
         ELSE 0

\* Mutant: a same-boot attestation restarts the IMA log (>= for >).
ImaOffsetSameBootReset(boot, idx) ==
    IF PrevAuthIndices(idx) = {} THEN 0
    ELSE LET p == store[MaxOf(PrevAuthIndices(idx))]
         IN  IF boot >= p.boottime THEN 0 ELSE NoIndex

\* _set_ima_offset (lines 298-312); NoIndex marks the boottime error.
ImaOffset(boot, idx) ==
    IF PrevAuthIndices(idx) = {} THEN 0
    ELSE LET p == store[MaxOf(PrevAuthIndices(idx))]
         IN  IF boot > p.boottime THEN 0
             ELSE IF boot = p.boottime THEN NextImaOffset(p)
             ELSE NoIndex

\* create / create_from_agent (lines 182-213): the pull-mode offset is
\* carried over when the agent has no attestation yet.
StartingImaOffset(boot, idx) ==
    IF ~HasLast /\ PullModeNextImaEntry # 0 THEN PullModeNextImaEntry
    ELSE ImaOffset(boot, idx)

\* _validate_ima_entries (lines 354-370), for an agent that echoes the
\* offset it was given and starts a fresh log with boot_aggregate.
ImaEntriesValid(e) == IF RuntimePolicy THEN e > 0 ELSE e = 0

\* _set_failure_type (lines 422-471).
FailureTypeOf(events) ==
    IF QuoteEvent \in events THEN "quote_authentication"
    ELSE IF events \cap {MbPcrEvent, ImaPcrEvent} # {} THEN "log_authentication"
    ELSE "policy_violation"

(* The agent sends its next request once it has the response to the last *)
(* one, unless it gives up waiting and resends (AgentOverlaps).  The       *)
(* verification runs after the PATCH response, on the worker that took it. *)
AgentMaySend ==
    AgentOverlaps \/ \A u \in Tasks : task[u].pc \notin RequestPCs

\* Controller checks before a POST (specification 6.1: 412, 429).
ControllerAcceptsCreate ==
    /\ accept
    /\ HasLast => AcceptNewAttestationsIn(store[LastIndex]) = 0

\* Mutant: evidence accepted whatever the status of the last attestation.
ControllerAcceptsEvidenceAnyStatus(r) == now <= NonceExpiresAt(r)

\* Controller checks before a PATCH (specification 6.1, 7: 404, 410, 4xx
\* for a record that is not waiting).
ControllerAcceptsEvidence(r) ==
    /\ r.status = "waiting"
    /\ now <= NonceExpiresAt(r)
-----------------------------------------------------------------------------
Init ==
    /\ store = [i \in {} |-> NullRec]
    /\ task = [t \in Tasks |-> IdleTask]
    /\ accept = TRUE
    /\ boottime = 1
    /\ now = 0

(* POST /attestations: accept_new_attestations_in, then PushAttestation.   *)
(* create: initialise (_set_index, timestamps, status) and                 *)
(* receive_capabilities (_set_nonce, _set_ima_offset, which reads and      *)
(* caches previous_attestation).  Algorithm negotiation is abstracted      *)
(* away (module AlgNegotiation).                                           *)
CreateBegin(t) ==
    /\ task[t].pc = "idle"
    /\ AgentMaySend
    /\ ControllerAcceptsCreate
    /\ LET idx == IF HasLast THEN LastIndex + 1 ELSE 0
           off == StartingImaOffset(boottime, idx)
       IN  /\ idx <= MaxIndex
           /\ off # NoIndex
           /\ task' = [task EXCEPT ![t] =
                [pc |-> "create_check", idx |-> idx,
                 obj |-> [status |-> "waiting", ftype |-> NoFailure,
                          boottime |-> boottime, offset |-> off,
                          quoted |-> 0, received |-> 0, nca |-> now,
                          era |-> NoTime],
                 prevIdx |-> IF HasLast THEN LastIndex ELSE NoIndex,
                 prev |-> IF HasLast THEN store[LastIndex] ELSE NullRec]]
    /\ UNCHANGED <<store, accept, boottime, now>>

(* commit_changes (lines 574-583), first round trip: a waiting attestation *)
(* is refused when get_last already has an index as high as its own.      *)
CreateCheck(t) ==
    /\ task[t].pc = "create_check"
    /\ task' = [task EXCEPT ![t].pc =
                  IF HasLast /\ LastIndex >= task[t].idx
                  THEN "idle" ELSE "create_insert"]
    /\ UNCHANGED <<store, accept, boottime, now>>

(* commit_changes, second round trip: the INSERT, refused by the primary   *)
(* key (agent_id, index) when the row exists.                              *)
CreateInsert(t) ==
    /\ task[t].pc = "create_insert"
    /\ IF task[t].idx \in DOMAIN store
       THEN /\ task' = [task EXCEPT ![t] = IdleTask]
            /\ UNCHANGED store
       ELSE /\ store' = Insert(store, task[t].idx, task[t].obj)
            /\ task' = [task EXCEPT ![t].pc = "create_cleanup"]
    /\ UNCHANGED <<accept, boottime, now>>

\* cleanup_stale_priors (lines 254-262): the prior is deleted when it never
\* got evidence, or its verification is overdue.
IsStalePrior(p) ==
    \/ p.status = "waiting"
    \/ p.status = "received" /\ now > DecisionExpectedBy(p)

(* previous_attestation as cleanup_stale_priors sees it (lines 655-675):   *)
(* the copy cached at create, or, when create cached none (there was no    *)
(* row then), the highest-indexed row queried now (line 668 has no         *)
(* index < self.index), which is the new attestation itself.               *)
CleanupPrior(t) ==
    IF task[t].prevIdx # NoIndex
    THEN [idx |-> task[t].prevIdx, row |-> task[t].prev]
    ELSE IF HasLast THEN [idx |-> LastIndex, row |-> store[LastIndex]]
    ELSE [idx |-> NoIndex, row |-> NullRec]

\* cleanup_stale_priors (lines 245-262), called by the controller after the
\* INSERT (specification 4.D, step 6).
CreateCleanup(t) ==
    /\ task[t].pc = "create_cleanup"
    /\ LET p == CleanupPrior(t)
       IN  store' = IF p.idx # NoIndex /\ IsStalePrior(p.row)
                    THEN Remove(store, p.idx)
                    ELSE store
    /\ task' = [task EXCEPT ![t] = IdleTask]
    /\ UNCHANGED <<accept, boottime, now>>

(* PATCH /attestations/{index}: the last attestation is loaded and         *)
(* receive_evidence (lines 405-420) binds the evidence, validates the IMA  *)
(* entries and sets evidence_received_at and status.                       *)
EvidenceBegin(t, e) ==
    /\ task[t].pc = "idle"
    /\ AgentMaySend
    /\ HasLast
    /\ LET r == store[LastIndex]
       IN  /\ ControllerAcceptsEvidence(r)
           /\ r.status # "received"
           /\ ImaEntriesValid(e)
           /\ task' = [task EXCEPT ![t] =
                [IdleTask EXCEPT !.pc = "evidence_commit", !.idx = LastIndex,
                   !.obj = [r EXCEPT !.status = "received", !.era = now,
                                     !.received = e]]]
    /\ UNCHANGED <<store, accept, boottime, now>>

(* commit_changes of the evidence: an UPDATE of the changed columns, which *)
(* fails when the row has been deleted meanwhile.                          *)
EvidenceCommit(t) ==
    /\ task[t].pc = "evidence_commit"
    /\ LET k == task[t].idx
           o == task[t].obj
       IN  IF k \in DOMAIN store
           THEN /\ store' = [store EXCEPT ![k].status = o.status,
                               ![k].era = o.era, ![k].received = o.received]
                /\ task' = [task EXCEPT ![t].pc = "verify"]
           ELSE /\ task' = [task EXCEPT ![t] = IdleTask]
                /\ UNCHANGED store
    /\ UNCHANGED <<accept, boottime, now>>

\* Mutant: attest_state left at its default next entry.
AttestStateNextImaEntryUnset(o) == 0

\* attest_state (line 764): before verification, the next IMA entry is the
\* starting offset of this attestation.
AttestStateNextImaEntry(o) == o.offset

\* Mutant: _set_failure_type without its early return for success.
SetFailureTypeAlways(o, ev) == FailureTypeOf(ev)

\* _set_failure_type (lines 422-471): nothing is set for an empty Failure.
SetFailureType(o, ev) == IF ev = {} THEN o.ftype ELSE FailureTypeOf(ev)

(* verify_evidence (lines 476-543) up to the commit: check_quote returns   *)
(* the events ev and consumes q of the received IMA entries (none when the *)
(* quote is not authentic); status and failure type are set; then the      *)
(* housekeeping deletes previous_attestation, queried afresh as the        *)
(* highest-indexed row (line 668), when it and this attestation are        *)
(* verified and it is not a boot anchor.                                   *)
Verify(t, ev, q) ==
    /\ task[t].pc = "verify"
    /\ q \in 0..task[t].obj.received
    /\ QuoteEvent \in ev => q = 0
    /\ LET o  == task[t].obj
           st == IF ev = {} THEN "verified" ELSE "failed"
           o2 == [o EXCEPT !.status = st,
                           !.quoted = AttestStateNextImaEntry(o) + q - o.offset,
                           !.ftype = SetFailureType(o, ev)]
       IN  /\ store' = IF /\ st = "verified"
                          /\ HasLast
                          /\ store[LastIndex].status = "verified"
                          /\ store[LastIndex].offset # 0
                       THEN Remove(store, LastIndex)
                       ELSE store
           /\ task' = [task EXCEPT ![t].pc = "verify_commit", ![t].obj = o2]
    /\ UNCHANGED <<accept, boottime, now>>

\* commit_changes of the verdict (line 549): an UPDATE of the columns the
\* verification changed (failure_type only when it was set), which fails when
\* the row is gone or failure_type holds a value outside its OneOf (141).
VerdictCommits(k, o) ==
    k \in DOMAIN store /\ o.ftype \in FailureTypeField \cup {NoFailure}

\* Mutant: the agent row saved even when the verdict's commit fails.
AgentCommitsAlways(k, o) == TRUE

\* The agent row (accept_attestations, line 534) is saved with the verdict.
AgentCommits(k, o) == VerdictCommits(k, o)

VerifyCommit(t) ==
    /\ task[t].pc = "verify_commit"
    /\ LET k == task[t].idx
           o == task[t].obj
       IN  /\ store' = IF VerdictCommits(k, o)
                       THEN [store EXCEPT ![k].status = o.status,
                               ![k].quoted = o.quoted,
                               ![k].ftype = IF o.ftype # NoFailure
                                            THEN o.ftype ELSE @]
                       ELSE store
           /\ accept' = IF AgentCommits(k, o) THEN o.status = "verified"
                        ELSE accept
    /\ task' = [task EXCEPT ![t] = IdleTask]
    /\ UNCHANGED <<boottime, now>>

(* A worker process dies; tornado's fork_processes restarts it and the     *)
(* request in flight is lost.                                              *)
Crash(t) ==
    /\ task[t].pc # "idle"
    /\ task' = [task EXCEPT ![t] = IdleTask]
    /\ UNCHANGED <<store, accept, boottime, now>>

\* The agent's machine reboots: later capabilities report a later boottime.
Reboot ==
    /\ boottime < MaxBoot
    /\ boottime' = boottime + 1
    /\ UNCHANGED <<store, task, accept, now>>

Tick ==
    /\ now < MaxTime
    /\ now' = now + 1
    /\ UNCHANGED <<store, task, accept, boottime>>

Next ==
    \/ Tick
    \/ Reboot
    \/ \E t \in Tasks :
         \/ CreateBegin(t) \/ CreateCheck(t) \/ CreateInsert(t)
         \/ CreateCleanup(t) \/ EvidenceCommit(t) \/ VerifyCommit(t)
         \/ Crash(t)
         \/ \E e \in 0..MaxImaEntries : EvidenceBegin(t, e)
         \/ \E ev \in CheckQuoteResults, q \in 0..MaxImaEntries : Verify(t, ev, q)

Spec == Init /\ [][Next]_vars

-----------------------------------------------------------------------------
(* Type invariant.                                                         *)
TypeOK ==
    /\ DOMAIN store \subseteq 0..MaxIndex
    /\ \A i \in DOMAIN store : store[i] \in Rec
    /\ task \in [Tasks -> Task]
    /\ accept \in BOOLEAN
    /\ boottime \in 1..MaxBoot
    /\ now \in 0..MaxTime


\* The indices of the decided attestations in the store.
Decided == {i \in DOMAIN store : store[i].status \in {"verified", "failed"}}

-----------------------------------------------------------------------------
(* Safety properties.                                                      *)

(* Specification P2: at most one waiting attestation, and only as the      *)
(* last.  The INSERT of the new attestation and the deletion of the prior  *)
(* one are separate commits of create.                                     *)
WaitingIsLast ==
    \A i \in DOMAIN store :
        store[i].status = "waiting" => i = LastIndex

(* A stored attestation carries a failure type exactly when it failed:     *)
(* _set_failure_type runs for every verdict, the evidence UPDATE and the   *)
(* verdict UPDATE of commit_changes write different columns, and several   *)
(* handlers may update the same row.                                       *)
FailureTypeIffFailed ==
    \A i \in DOMAIN store :
        (store[i].ftype # NoFailure) <=> (store[i].status = "failed")

(* accept_attestations reflects the verdict of the newest decided          *)
(* attestation (verify_evidence line 534): a failed one has closed the     *)
(* gate, a later verified one opened it.  Verdicts of lagging              *)
(* verifications, deletions by cleanup and housekeeping all bear on it.    *)
AcceptMatchesLatestVerdict ==
    Decided # {} =>
        (accept <=> store[MaxOf(Decided)].status = "verified")

(* Specification P5 across attestations: a decided attestation whose quote *)
(* was authenticated continues the IMA log where the previous such one, on *)
(* the same boot, stopped (its offset plus the entries it quoted).  The    *)
(* offset is computed when the attestation is created, from the store as   *)
(* it was then.                                                            *)
ImaOffsetChain ==
    \A i, j \in DOMAIN store :
        /\ i < j
        /\ store[i].status \in {"verified", "failed"}
        /\ store[j].status \in {"verified", "failed"}
        /\ store[i].ftype # "quote_authentication"
        /\ store[j].ftype # "quote_authentication"
        /\ store[i].boottime = store[j].boottime
        /\ \A k \in DOMAIN store :
              i < k /\ k < j =>
                 \/ store[k].status \notin {"verified", "failed"}
                 \/ store[k].ftype = "quote_authentication"
        => store[j].offset = store[i].offset + store[i].quoted

(* Specification P3: a stored attestation only moves waiting -> received   *)
(* -> verified | failed, and a decided one never changes its verdict.  An  *)
(* index may be deleted and given again to a new attestation; a step that  *)
(* keeps the index must respect the order.                                 *)
StatusSuccessor ==
    {<<"waiting", "waiting">>, <<"waiting", "received">>,
     <<"received", "received">>, <<"received", "verified">>,
     <<"received", "failed">>, <<"verified", "verified">>,
     <<"failed", "failed">>}

StatusTransitions ==
    [][\A i \in DOMAIN store \cap DOMAIN store' :
         <<store[i].status, store'[i].status>> \in StatusSuccessor]_vars

(* Specification 4.D.4 and the comment of cleanup_stale_priors (lines      *)
(* 246-247): an attestation may be deleted only when it is the stale prior *)
(* of a newer one that stays (waiting, or received past its decision       *)
(* time), or a verified attestation that is not a boot anchor once a newer *)
(* one is verified, or is being verified by the deleting step.  Cleanup    *)
(* acts on a copy of the prior read at creation or on a row it queries     *)
(* again; housekeeping on a row queried during verification.               *)
MayBeDeleted(i) ==
    LET r == store[i]
        staysNewer == \E j \in DOMAIN store' : j > i
    IN  \/ staysNewer /\ r.status = "waiting"
        \/ /\ staysNewer
           /\ r.status = "received"
           /\ now > DecisionExpectedBy(r)
        \/ /\ r.status = "verified"
           /\ r.offset # 0
           /\ \/ \E j \in DOMAIN store' : j > i /\ store'[j].status = "verified"
              \/ \E t \in Tasks : /\ task'[t].pc = "verify_commit"
                                /\ task'[t].obj.status = "verified"
                                /\ task'[t].idx > i

RetentionPolicy ==
    [][\A i \in DOMAIN store \ DOMAIN store' : MayBeDeleted(i)]_vars

(* Specification 7, step 8: once an attestation is verified, no verified   *)
(* attestation other than the boot anchors (starting offset 0) is kept     *)
(* below it.  The housekeeping of verify_evidence looks the previous       *)
(* attestation up with previous_attestation (lines 652-675).               *)
HistoryPruned ==
    \A i, j \in DOMAIN store :
        /\ i < j
        /\ store[i].status = "verified"
        /\ store[j].status = "verified"
        => store[i].offset = 0

=============================================================================
