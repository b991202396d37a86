------------------------ MODULE PushFailureTypeProofs ------------------------
(***************************************************************************)
(* Proof that, with one worker process, a stored attestation carries a     *)
(* failure type exactly when it failed (FailureTypeIffFailed).  With two   *)
(* workers the property is false: a lagging verified verdict can land on a *)
(* reused index whose row has failed, and the verdict's UPDATE leaves the  *)
(* failure_type column alone.                                              *)
(***************************************************************************)
EXTENDS PushAttestationProofs

(* What a request in flight holds as failure type: none until the verdict, *)
(* and a verdict about to be committed has one exactly when it failed.    *)
ObjFType ==
    \A t \in Tasks :
        /\ task[t].pc # "verify_commit" => task[t].obj.ftype = NoFailure
        /\ task[t].pc = "verify_commit" =>
              (task[t].obj.ftype # NoFailure <=> task[t].obj.status = "failed")

\* The invariant of FailureTypeIffFailed, strengthened so as to be inductive.
FTypeInv == GateInv /\ ObjFType /\ FailureTypeIffFailed

\* _set_failure_type assigns a failure type to every non-empty Failure.
LEMMA FailureTypeSet ==
    ASSUME NEW ev \in CheckQuoteResults, ev # {}
    PROVE  FailureTypeOf(ev) # NoFailure
BY DEF FailureTypeOf, NoFailure

(* With one worker process, every step keeps the failure type of the rows  *)
(* and of the request in flight in line with their status.  The evidence  *)
(* UPDATE and the verdict's UPDATE write failure_type only with a failed   *)
(* status, and a verified verdict lands on the received row its own        *)
(* evidence created, whose failure type is empty.                          *)
LEMMA FTypeStep ==
    ASSUME NEW w, Tasks = {w}, FTypeInv, [Next]_vars
    PROVE  (ObjFType /\ FailureTypeIffFailed)'
<1>. DEFINE T == task[w]
            OK(r) == (r.ftype # NoFailure) <=> (r.status = "failed")
<1>. USE DEF T, OK
<1>1. /\ TypeOK /\ RequestConsistent
      /\ w \in Tasks /\ task \in [Tasks -> Task] /\ T \in Task
      /\ \A i \in DOMAIN store : store[i] \in Rec /\ OK(store[i])
      /\ T.pc # "verify_commit" => T.obj.ftype = NoFailure
      /\ T.pc = "verify_commit" => OK(T.obj)
  BY DEF FTypeInv, GateInv, TypeInv, TypeOK, ObjFType, FailureTypeIffFailed
<1>2. SUFFICES /\ task'[w].pc # "verify_commit" => task'[w].obj.ftype = NoFailure
               /\ task'[w].pc = "verify_commit" => OK(task'[w].obj)
               /\ \A i \in DOMAIN store' : OK(store'[i])
  BY DEF ObjFType, FailureTypeIffFailed
<1>3. IdleTask.pc = "idle" /\ IdleTask.obj.ftype = NoFailure
  BY DEF IdleTask, NullRec
<1>4. CASE Tick \/ Reboot \/ UNCHANGED vars
  BY <1>1, <1>4 DEF Tick, Reboot, vars
<1>5. ASSUME NEW t \in Tasks, CreateBegin(t) \/ CreateCheck(t)
      PROVE  <1>2!1
  <2>1. t = w /\ UNCHANGED store
    BY <1>5 DEF CreateBegin, CreateCheck
  <2>2. CASE CreateBegin(t)
    BY <1>1, <2>1, <2>2 DEF CreateBegin
  <2>3. CASE CreateCheck(t)
    BY <1>1, <2>1, <2>3 DEF CreateCheck
  <2>. QED
    BY <1>5, <2>2, <2>3
<1>6. ASSUME NEW t \in Tasks, CreateInsert(t) PROVE <1>2!1
  <2>1. t = w /\ T.pc = "create_insert"
    BY <1>6 DEF CreateInsert
  <2>2. T.obj.status = "waiting" /\ T.obj.ftype = NoFailure
    BY <1>1, <2>1 DEF RequestConsistent
  <2>3. CASE T.idx \in DOMAIN store
    BY <1>1, <1>3, <1>6, <2>1, <2>3 DEF CreateInsert
  <2>4. CASE T.idx \notin DOMAIN store
    <3>1. store' = Insert(store, T.idx, T.obj) /\ task' = [task EXCEPT ![w].pc = "create_cleanup"]
      BY <1>6, <2>1, <2>4 DEF CreateInsert
    <3>. QED
      BY <1>1, <2>2, <3>1 DEF Insert
  <2>. QED
    BY <2>3, <2>4
<1>7. ASSUME NEW t \in Tasks, CreateCleanup(t) \/ Crash(t) PROVE <1>2!1
  <2>0. /\ task' = [task EXCEPT ![t] = IdleTask]
        /\ \/ store' = store
           \/ store' = Remove(store, task[t].prevIdx)
           \/ store' = Remove(store, LastIndex)
    <3>1. CASE CreateCleanup(t)
      BY <3>1, CleanupCases
    <3>2. CASE Crash(t)
      BY <3>2 DEF Crash
    <3>. QED
      BY <1>7, <3>1, <3>2
  <2>1. t = w /\ task' = [task EXCEPT ![w] = IdleTask]
    BY <2>0
  <2>2. \A i \in DOMAIN store' : i \in DOMAIN store /\ store'[i] = store[i]
    BY <2>0 DEF Remove
  <2>. QED
    BY <1>1, <1>3, <2>1, <2>2
<1>8. ASSUME NEW t \in Tasks, NEW e \in 0..MaxImaEntries, EvidenceBegin(t, e)
      PROVE  <1>2!1
  <2>1. t = w /\ HasLast /\ UNCHANGED store
    BY <1>8 DEF EvidenceBegin
  <2>2. LastIndex \in DOMAIN store
    BY <1>1, <2>1, LastIndexFacts
  <2>3. store[LastIndex].status = "waiting"
    BY <1>8 DEF EvidenceBegin, ControllerAcceptsEvidence
  <2>4. store[LastIndex].ftype = NoFailure
    BY <1>1, <2>2, <2>3
  <2>. QED
    BY <1>1, <1>8, <2>1, <2>4 DEF EvidenceBegin, IdleTask
<1>9. ASSUME NEW t \in Tasks, EvidenceCommit(t) PROVE <1>2!1
  <2>1. t = w /\ T.pc = "evidence_commit"
    BY <1>9 DEF EvidenceCommit
  <2>2. CASE T.idx \in DOMAIN store
    <3>1. store' = [store EXCEPT ![T.idx].status = T.obj.status,
                      ![T.idx].era = T.obj.era, ![T.idx].received = T.obj.received]
          /\ task' = [task EXCEPT ![w].pc = "verify"]
      BY <1>9, <2>1, <2>2 DEF EvidenceCommit
    <3>2. T.obj.status = "received" /\ store[T.idx].status = "waiting"
      BY <1>1, <2>1 DEF RequestConsistent
    <3>3. store[T.idx].ftype = NoFailure
      BY <1>1, <2>2, <3>2
    <3>4. OK(store'[T.idx])
      <4>1. store'[T.idx].status = T.obj.status
            /\ store'[T.idx].ftype = store[T.idx].ftype
        BY <1>1, <2>2, <3>1 DEF Rec
      <4>. QED
        BY <3>2, <3>3, <4>1
    <3>5. \A i \in DOMAIN store' : i # T.idx => store'[i] = store[i]
      BY <3>1
    <3>6. DOMAIN store' = DOMAIN store
      BY <3>1
    <3>7. task'[w].pc = "verify" /\ task'[w].obj = T.obj
      BY <1>1, <3>1
    <3>8. \A i \in DOMAIN store' : OK(store'[i])
      BY <1>1, <3>4, <3>5, <3>6
    <3>9. task'[w].obj.ftype = NoFailure
      BY <1>1, <2>1, <3>7
    <3>. QED
      BY <3>7, <3>8, <3>9
  <2>3. CASE T.idx \notin DOMAIN store
    BY <1>1, <1>3, <1>9, <2>1, <2>3 DEF EvidenceCommit
  <2>. QED
    BY <2>2, <2>3
<1>10. ASSUME NEW t \in Tasks, NEW ev \in CheckQuoteResults,
              NEW q \in 0..MaxImaEntries, Verify(t, ev, q)
       PROVE  <1>2!1
  <2>1. t = w /\ T.pc = "verify" /\ T.obj.ftype = NoFailure
    BY <1>1, <1>10 DEF Verify
  <2> DEFINE st == IF ev = {} THEN "verified" ELSE "failed"
             o2 == [T.obj EXCEPT !.status = st,
                      !.quoted = AttestStateNextImaEntry(T.obj) + q - T.obj.offset,
                      !.ftype = SetFailureType(T.obj, ev)]
  <2>2. task' = [task EXCEPT ![w].pc = "verify_commit", ![w].obj = o2]
    BY <1>10, <2>1 DEF Verify
  <2>3. OK(o2)
    <3>1. CASE ev = {}
      BY <1>1, <2>1, <3>1 DEF SetFailureType, Task, Rec
    <3>2. CASE ev # {}
      BY <1>1, <3>2, FailureTypeSet DEF SetFailureType, Task, Rec
    <3>. QED
      BY <3>1, <3>2
  <2>4. \A i \in DOMAIN store' : i \in DOMAIN store /\ store'[i] = store[i]
    BY <1>10 DEF Verify, Remove
  <2>. QED
    BY <1>1, <2>2, <2>3, <2>4
<1>11. ASSUME NEW t \in Tasks, VerifyCommit(t) PROVE <1>2!1
  <2>1. t = w /\ T.pc = "verify_commit" /\ task' = [task EXCEPT ![w] = IdleTask]
    BY <1>11 DEF VerifyCommit
  <2> DEFINE k == T.idx
             o == T.obj
  <2>. USE DEF k, o
  <2>2. CASE VerdictCommits(k, o)
    <3>1. store' = [store EXCEPT ![k].status = o.status, ![k].quoted = o.quoted,
                      ![k].ftype = IF o.ftype # NoFailure THEN o.ftype ELSE @]
      BY <1>11, <2>1, <2>2 DEF VerifyCommit
    <3>2. k \in DOMAIN store /\ o.status \in {"verified", "failed"}
          /\ store[k].status = "received"
      BY <1>1, <2>1, <2>2 DEF VerdictCommits, RequestConsistent
    <3>3. /\ store'[k].status = o.status
          /\ store'[k].ftype = IF o.ftype # NoFailure THEN o.ftype ELSE store[k].ftype
      BY <1>1, <3>1, <3>2 DEF Rec
    <3>4. OK(store'[k])
      <4>1. CASE o.status = "failed"
        BY <1>1, <2>1, <3>3, <4>1
      <4>2. CASE o.status = "verified"
        <5>1. o.ftype = NoFailure /\ store[k].ftype = NoFailure
          BY <1>1, <2>1, <3>2, <4>2
        <5>. QED
          BY <3>3, <4>2, <5>1
      <4>. QED
        BY <3>2, <4>1, <4>2
    <3>. QED
      BY <1>1, <1>3, <2>1, <3>1, <3>4
  <2>3. CASE ~VerdictCommits(k, o)
    BY <1>1, <1>3, <1>11, <2>1, <2>3 DEF VerifyCommit
  <2>. QED
    BY <2>2, <2>3
<1>. QED
  BY <1>4, <1>5, <1>6, <1>7, <1>8, <1>9, <1>10, <1>11 DEF Next

(* With a single worker process, a stored attestation has a failure type   *)
(* exactly when its status is failed: _set_failure_type sets one for every *)
(* failed verdict and none for a verified one, and a verdict whose failure *)
(* type the column refuses (log_authentication) is not stored at all.      *)
THEOREM SingleWorkerFailureType ==
    ASSUME NEW w, Tasks = {w}
    PROVE  Spec => []FailureTypeIffFailed
<1>1. Init => FTypeInv
  <2> SUFFICES ASSUME Init PROVE FTypeInv
    OBVIOUS
  <2>1. GateInv
    BY InitGate
  <2>2. ObjFType
    BY DEF Init, ObjFType, IdleTask, NullRec
  <2>3. FailureTypeIffFailed
    BY DEF Init, FailureTypeIffFailed
  <2>. QED
    BY <2>1, <2>2, <2>3 DEF FTypeInv
<1>2. FTypeInv /\ [Next]_vars => FTypeInv'
  BY TypeStep, GateStep, FTypeStep DEF FTypeInv, GateInv
<1>. QED
  BY <1>1, <1>2, PTL DEF Spec, FTypeInv
=============================================================================
