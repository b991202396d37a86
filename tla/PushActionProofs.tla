-------------------------- MODULE PushActionProofs --------------------------
(***************************************************************************)
(* Proof of an action property of the push attestation lifecycle with one *)
(* worker process: statuses only move forward (StatusTransitions).  It is *)
(* false with two workers; the lagging verdict of stale_verdict_reopens_   *)
(* gate breaks it.                                                         *)
(***************************************************************************)
EXTENDS PushAttestationProofs

USE ConstantsAssumption

\* The step predicate of StatusTransitions.
StatusMoves ==
    \A i \in DOMAIN store \cap DOMAIN store' :
        <<store[i].status, store'[i].status>> \in StatusSuccessor

\* A step that leaves the rows it keeps alone moves no status.
LEMMA StatusFrame ==
    ASSUME TypeOK,
           \A i \in DOMAIN store \cap DOMAIN store' : store'[i] = store[i]
    PROVE  StatusMoves
BY DEF TypeOK, Rec, Status, StatusMoves, StatusSuccessor

(* With one worker process, a row keeps its index only on a forward move   *)
(* of its status: the evidence UPDATE finds its row waiting and the        *)
(* verdict's UPDATE finds it received; every other step writes no column   *)
(* of a row it keeps.                                                      *)
LEMMA StatusStep ==
    ASSUME NEW w, Tasks = {w}, GateInv, [Next]_vars
    PROVE  StatusMoves
<1>. DEFINE T == task[w]
<1>. USE DEF T
<1>1. /\ TypeOK /\ RequestConsistent
      /\ w \in Tasks /\ task \in [Tasks -> Task] /\ T \in Task
      /\ \A i \in DOMAIN store : store[i] \in Rec
  BY DEF GateInv, TypeInv, TypeOK
<1>2. CASE Tick \/ Reboot \/ UNCHANGED vars
  BY <1>1, <1>2, StatusFrame DEF Tick, Reboot, vars
<1>3. ASSUME NEW t \in Tasks, NEW e \in 0..MaxImaEntries,
             CreateBegin(t) \/ CreateCheck(t) \/ Crash(t) \/ EvidenceBegin(t, e)
      PROVE  StatusMoves
  <2>1. UNCHANGED store
    BY <1>3 DEF CreateBegin, CreateCheck, Crash, EvidenceBegin
  <2>. QED
    BY <1>1, <2>1, StatusFrame
<1>4. ASSUME NEW t \in Tasks, CreateInsert(t) \/ CreateCleanup(t) PROVE StatusMoves
  <2>0. CASE CreateCleanup(t)
    <3>1. \/ store' = store
          \/ store' = Remove(store, task[t].prevIdx)
          \/ store' = Remove(store, LastIndex)
      BY <2>0, CleanupCases
    <3>2. \A i \in DOMAIN store \cap DOMAIN store' : store'[i] = store[i]
      BY <3>1 DEF Remove
    <3>. QED
      BY <1>1, <3>2, StatusFrame
  <2>1. CASE CreateInsert(t)
    <3>1. \A i \in DOMAIN store \cap DOMAIN store' : store'[i] = store[i]
      BY <2>1 DEF CreateInsert, Insert
    <3>. QED
      BY <1>1, <3>1, StatusFrame
  <2>. QED
    BY <1>4, <2>0, <2>1
<1>5. ASSUME NEW t \in Tasks, NEW ev \in CheckQuoteResults,
             NEW q \in 0..MaxImaEntries, Verify(t, ev, q)
      PROVE  StatusMoves
  <2>1. \A i \in DOMAIN store \cap DOMAIN store' : store'[i] = store[i]
    BY <1>5 DEF Verify, Remove
  <2>. QED
    BY <1>1, <2>1, StatusFrame
<1>6. ASSUME NEW t \in Tasks, EvidenceCommit(t) PROVE StatusMoves
  <2>. DEFINE k == T.idx
  <2>. USE DEF k
  <2>1. t = w /\ T.pc = "evidence_commit" /\ T.obj.status = "received"
        /\ (k \in DOMAIN store => store[k].status = "waiting")
    BY <1>1, <1>6 DEF EvidenceCommit, RequestConsistent
  <2>2. CASE k \in DOMAIN store
    <3>1. store' = [store EXCEPT ![k].status = T.obj.status, ![k].era = T.obj.era,
                      ![k].received = T.obj.received]
      BY <1>6, <2>1, <2>2 DEF EvidenceCommit
    <3>2. /\ DOMAIN store' = DOMAIN store
          /\ \A i \in DOMAIN store \ {k} : store'[i] = store[i]
          /\ store'[k].status = "received"
      BY <1>1, <2>1, <2>2, <3>1 DEF Rec
    <3>. QED
      BY <1>1, <2>1, <2>2, <3>2 DEF Rec, Status, StatusMoves, StatusSuccessor
  <2>3. CASE k \notin DOMAIN store
    BY <1>1, <1>6, <2>1, <2>3, StatusFrame DEF EvidenceCommit
  <2>. QED
    BY <2>2, <2>3
<1>7. ASSUME NEW t \in Tasks, VerifyCommit(t) PROVE StatusMoves
  <2>. DEFINE k == T.idx
              o == T.obj
  <2>. USE DEF k, o
  <2>1. t = w /\ T.pc = "verify_commit" /\ o.status \in {"verified", "failed"}
        /\ HasLast /\ k = LastIndex
    BY <1>1, <1>7 DEF VerifyCommit, RequestConsistent
  <2>2. CASE VerdictCommits(k, o)
    <3>1. k \in DOMAIN store /\ store[k].status = "received"
      BY <1>1, <2>1, <2>2 DEF VerdictCommits, RequestConsistent
    <3>2. store' = [store EXCEPT ![k].status = o.status, ![k].quoted = o.quoted,
                      ![k].ftype = IF o.ftype # NoFailure THEN o.ftype ELSE @]
      BY <1>7, <2>1, <2>2 DEF VerifyCommit
    <3>3. /\ DOMAIN store' = DOMAIN store
          /\ \A i \in DOMAIN store \ {k} : store'[i] = store[i]
          /\ store'[k].status = o.status
      BY <1>1, <3>1, <3>2 DEF Rec
    <3>. QED
      BY <1>1, <2>1, <3>1, <3>3 DEF Rec, Status, StatusMoves, StatusSuccessor
  <2>3. CASE ~VerdictCommits(k, o)
    BY <1>1, <1>7, <2>1, <2>3, StatusFrame DEF VerifyCommit
  <2>. QED
    BY <2>2, <2>3
<1>. QED
  BY <1>2, <1>3, <1>4, <1>5, <1>6, <1>7 DEF Next


(* Specification P3, with one worker process: no step moves a stored       *)
(* attestation's status backwards or changes a verdict.  With two workers  *)
(* a lagging verdict can land on a reused index (stale_verdict_reopens_    *)
(* gate), and this fails.                                                  *)
THEOREM SingleWorkerStatusTransitions ==
    ASSUME NEW w, Tasks = {w}
    PROVE  Spec => StatusTransitions
<1>1. GateInv /\ [Next]_vars => GateInv'
  BY TypeStep, GateStep DEF GateInv
<1>2. GateInv /\ [Next]_vars => [StatusMoves]_vars
  BY StatusStep
<1>. QED
  BY InitGate, <1>1, <1>2, PTL DEF Spec, StatusTransitions, StatusMoves

=============================================================================
