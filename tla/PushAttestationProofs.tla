------------------------ MODULE PushAttestationProofs ------------------------
(***************************************************************************)
(* Proofs about the PushAttestation model, for every value of its          *)
(* constants.                                                              *)
(***************************************************************************)
EXTENDS PushAttestation, WellFoundedInduction, TLAPS

USE ConstantsAssumption

(* The highest index of a nonempty bounded set of indices, which get_last  *)
(* returns, exists: the least upper bound of the set belongs to it.        *)
LEMMA MaxOfIsMax ==
    ASSUME NEW S \in SUBSET Nat, S # {}, NEW N \in Nat, \A j \in S : j <= N
    PROVE  MaxOf(S) \in S /\ \A j \in S : j <= MaxOf(S)
<1> DEFINE U == {n \in Nat : \A j \in S : j <= n}
<1>1. U \subseteq Nat /\ U # {}
  BY DEF U
<1>2. PICK u \in U : \A y \in U : ~(<<y, u>> \in OpToRel(<, Nat))
  BY <1>1, NatLessThanWellFounded, WFMin
<1>3. \A y \in U : ~(y < u)
  BY <1>1, <1>2 DEF OpToRel
<1>4. u \in S
  <2>1. SUFFICES ASSUME u \notin S PROVE FALSE
    OBVIOUS
  <2>2. CASE u = 0
    <3>1. PICK j \in S : TRUE
      OBVIOUS
    <3>2. j = 0
      BY <3>1, <2>2 DEF U
    <3>. QED
      BY <3>1, <3>2, <2>1, <2>2
  <2>3. CASE u # 0
    <3>1. u - 1 \in U
      BY <2>1, <2>3 DEF U
    <3>. QED
      BY <3>1, <1>3, <2>3 DEF U
  <2>. QED
    BY <2>2, <2>3
<1>5. \E m \in S : \A j \in S : j <= m
  BY <1>4 DEF U
<1>. QED
  BY <1>5 DEF MaxOf

(* get_last: when the store has rows, LastIndex is one of them and the     *)
(* highest.                                                                *)
LEMMA LastIndexFacts ==
    ASSUME TypeOK, HasLast
    PROVE  /\ LastIndex \in DOMAIN store
           /\ LastIndex \in 0..MaxIndex
           /\ \A j \in DOMAIN store : j <= LastIndex
<1>1. DOMAIN store \in SUBSET Nat /\ \A j \in DOMAIN store : j <= MaxIndex
  BY DEF TypeOK
<1>2. LastIndex \in DOMAIN store /\ \A j \in DOMAIN store : j <= LastIndex
  BY <1>1, MaxOfIsMax DEF HasLast, LastIndex
<1>. QED
  BY <1>2 DEF TypeOK

\* The placeholder record and the idle task are well typed.
LEMMA IdleTaskType ==
    NullRec \in Rec /\ IdleTask \in Task
BY DEF NullRec, Rec, IdleTask, Task, NoTime, NoIndex, NoFailure, PCs, Status

(* The cleanup of create leaves the store alone, deletes the prior cached  *)
(* at create when that copy looked stale, or, when create cached no prior, *)
(* deletes the current last row when it is stale.                          *)
LEMMA CleanupCases ==
    ASSUME NEW t \in Tasks, CreateCleanup(t)
    PROVE  /\ task' = [task EXCEPT ![t] = IdleTask]
           /\ UNCHANGED <<accept, boottime, now>>
           /\ \/ store' = store
              \/ /\ task[t].prevIdx # NoIndex /\ IsStalePrior(task[t].prev)
                 /\ store' = Remove(store, task[t].prevIdx)
              \/ /\ task[t].prevIdx = NoIndex /\ HasLast
                 /\ IsStalePrior(store[LastIndex])
                 /\ store' = Remove(store, LastIndex)
<1>1. CASE task[t].prevIdx # NoIndex
  BY <1>1 DEF CreateCleanup, CleanupPrior
<1>2. CASE task[t].prevIdx = NoIndex /\ HasLast
  BY <1>2 DEF CreateCleanup, CleanupPrior
<1>3. CASE task[t].prevIdx = NoIndex /\ ~HasLast
  BY <1>3 DEF CreateCleanup, CleanupPrior, NoIndex
<1>. QED
  BY <1>1, <1>2, <1>3

(* A request in flight works on an index within the bound.               *)
BusyTaskIndex ==
    \A t \in Tasks : task[t].pc # "idle" => task[t].idx \in 0..MaxIndex

\* The type invariant strengthened so as to be inductive.
TypeInv == TypeOK /\ BusyTaskIndex

(* Every step keeps the fields of the rows and of the requests in flight   *)
(* in their types: the index a create computes from get_last stays within  *)
(* the bound it is guarded by, the IMA offset of a new attestation is a    *)
(* natural number once the boottime error is excluded, and a verdict's     *)
(* quoted count is the number of entries check_quote consumed.             *)
LEMMA TypeStep == TypeInv /\ [Next]_vars => TypeInv'
<1> SUFFICES ASSUME TypeInv, [Next]_vars PROVE TypeInv'
  OBVIOUS
<1>. USE DEF TypeInv, TypeOK, BusyTaskIndex
<1>1. CASE Tick
  BY <1>1 DEF Tick
<1>2. CASE Reboot
  BY <1>2 DEF Reboot
<1>3. ASSUME NEW t \in Tasks, CreateBegin(t) PROVE TypeInv'
  <2>. DEFINE idx == IF HasLast THEN LastIndex + 1 ELSE 0
              off == StartingImaOffset(boottime, idx)
  <2>1. idx \in 0..MaxIndex /\ off # NoIndex
    BY <1>3, LastIndexFacts DEF CreateBegin
  <2>2. off \in Nat
    <3>1. CASE ~HasLast /\ PullModeNextImaEntry # 0
      BY <3>1 DEF StartingImaOffset
    <3>2. CASE PrevAuthIndices(idx) = {}
      BY <3>2, <2>1 DEF StartingImaOffset, ImaOffset, NoIndex
    <3>3. CASE ~(~HasLast /\ PullModeNextImaEntry # 0) /\ PrevAuthIndices(idx) # {}
      <4>. DEFINE p == store[MaxOf(PrevAuthIndices(idx))]
      <4>1. MaxOf(PrevAuthIndices(idx)) \in DOMAIN store
        <5>1. PrevAuthIndices(idx) \in SUBSET Nat
              /\ \A j \in PrevAuthIndices(idx) : j <= MaxIndex
          BY DEF PrevAuthIndices
        <5>. QED
          BY <5>1, <3>3, MaxOfIsMax DEF PrevAuthIndices
      <4>2. p \in Rec
        BY <4>1
      <4>3. NextImaOffset(p) \in Nat
        BY <4>2 DEF Rec, NextImaOffset
      <4>. QED
        BY <3>3, <4>3, <2>1 DEF StartingImaOffset, ImaOffset, NoIndex
    <3>. QED
      BY <3>1, <3>2, <3>3
  <2>3. HasLast => store[LastIndex] \in Rec /\ LastIndex \in 0..MaxIndex
    BY LastIndexFacts
  <2>4. [status |-> "waiting", ftype |-> NoFailure, boottime |-> boottime,
         offset |-> off, quoted |-> 0, received |-> 0, nca |-> now,
         era |-> NoTime] \in Rec
    BY <2>2 DEF Rec, Status, NoFailure, NoTime
  <2>. QED
    BY <1>3, <2>1, <2>3, <2>4, IdleTaskType
       DEF CreateBegin, Task, PCs, NoIndex
<1>4. ASSUME NEW t \in Tasks, CreateCheck(t) PROVE TypeInv'
  BY <1>4 DEF CreateCheck, Task, PCs
<1>5. ASSUME NEW t \in Tasks, CreateInsert(t) PROVE TypeInv'
  <2>1. task[t].idx \in 0..MaxIndex /\ task[t].obj \in Rec
    BY <1>5 DEF CreateInsert, Task, BusyTaskIndex
  <2>2. UNCHANGED <<accept, boottime, now>>
    BY <1>5 DEF CreateInsert
  <2>3. CASE task[t].idx \in DOMAIN store
    <3>1. task' = [task EXCEPT ![t] = IdleTask] /\ store' = store
      BY <1>5, <2>3 DEF CreateInsert
    <3>. QED
      BY <2>2, <3>1, IdleTaskType DEF IdleTask
  <2>4. CASE task[t].idx \notin DOMAIN store
    <3>1. store' = Insert(store, task[t].idx, task[t].obj)
          /\ task' = [task EXCEPT ![t].pc = "create_cleanup"]
      BY <1>5, <2>4 DEF CreateInsert
    <3>2. DOMAIN store' \subseteq 0..MaxIndex /\ \A i \in DOMAIN store' : store'[i] \in Rec
      BY <2>1, <3>1 DEF Insert
    <3>3. task' \in [Tasks -> Task] /\ BusyTaskIndex'
      BY <2>1, <3>1 DEF Task, PCs
    <3>. QED
      BY <2>2, <3>2, <3>3
  <2>. QED
    BY <2>3, <2>4
<1>6. ASSUME NEW t \in Tasks, CreateCleanup(t) PROVE TypeInv'
  <2>0. \/ store' = store
        \/ store' = Remove(store, task[t].prevIdx)
        \/ store' = Remove(store, LastIndex)
    BY <1>6, CleanupCases
  <2>1. DOMAIN store' \subseteq DOMAIN store /\ \A i \in DOMAIN store' : store'[i] = store[i]
    BY <2>0 DEF Remove
  <2>2. task' = [task EXCEPT ![t] = IdleTask] /\ UNCHANGED <<accept, boottime, now>>
    BY <1>6, CleanupCases
  <2>. QED
    BY <2>1, <2>2, IdleTaskType DEF IdleTask
<1>7. ASSUME NEW t \in Tasks, NEW e \in 0..MaxImaEntries, EvidenceBegin(t, e)
      PROVE TypeInv'
  <2>. DEFINE r == store[LastIndex]
              o == [r EXCEPT !.status = "received", !.era = now, !.received = e]
              n == [IdleTask EXCEPT !.pc = "evidence_commit", !.idx = LastIndex,
                                    !.obj = o]
  <2>1. r \in Rec /\ LastIndex \in 0..MaxIndex
    BY <1>7, LastIndexFacts DEF EvidenceBegin
  <2>2. o \in Rec
    <3>1. e \in Nat
      OBVIOUS
    <3>. QED
      BY <2>1, <3>1 DEF Rec, Status
  <2>3. n \in Task /\ n.pc # "idle" /\ n.idx \in 0..MaxIndex
    BY <2>1, <2>2, IdleTaskType DEF IdleTask, Task, PCs
  <2>4. task' = [task EXCEPT ![t] = n]
    BY <1>7 DEF EvidenceBegin
  <2>. QED
    BY <1>7, <2>3, <2>4 DEF EvidenceBegin
<1>8. ASSUME NEW t \in Tasks, EvidenceCommit(t) PROVE TypeInv'
  <2>. DEFINE k == task[t].idx
              o == task[t].obj
  <2>1. o \in Rec
    BY DEF Task
  <2>2. CASE k \in DOMAIN store
    <3>1. store' = [store EXCEPT ![k].status = o.status, ![k].era = o.era,
                                ![k].received = o.received]
      BY <1>8, <2>2 DEF EvidenceCommit
    <3>2. store[k] \in Rec /\ DOMAIN store' = DOMAIN store
      BY <2>2, <3>1
    <3>3. store'[k] \in Rec
      BY <2>1, <2>2, <3>1, <3>2 DEF Rec
    <3>4. \A i \in DOMAIN store' : i # k => store'[i] = store[i]
      BY <3>1
    <3>5. \A i \in DOMAIN store' : store'[i] \in Rec
      BY <3>2, <3>3, <3>4
    <3>6. task' = [task EXCEPT ![t].pc = "verify"]
          /\ UNCHANGED <<accept, boottime, now>>
      BY <1>8, <2>2 DEF EvidenceCommit
    <3>7. task' \in [Tasks -> Task] /\ BusyTaskIndex'
      BY <1>8, <3>6 DEF EvidenceCommit, Task, PCs
    <3>. QED
      BY <3>2, <3>5, <3>6, <3>7
  <2>3. CASE k \notin DOMAIN store
    <3>1. task' = [task EXCEPT ![t] = IdleTask]
          /\ UNCHANGED <<store, accept, boottime, now>>
      BY <1>8, <2>3 DEF EvidenceCommit
    <3>2. task' \in [Tasks -> Task] /\ BusyTaskIndex'
      BY <3>1, IdleTaskType DEF IdleTask
    <3>. QED
      BY <3>1, <3>2
  <2>. QED
    BY <2>2, <2>3
<1>9. ASSUME NEW t \in Tasks, NEW ev \in CheckQuoteResults,
             NEW q \in 0..MaxImaEntries, Verify(t, ev, q)
      PROVE TypeInv'
  <2>. DEFINE o  == task[t].obj
              st == IF ev = {} THEN "verified" ELSE "failed"
              o2 == [o EXCEPT !.status = st,
                              !.quoted = AttestStateNextImaEntry(o) + q - o.offset,
                              !.ftype = SetFailureType(o, ev)]
  <2>1. o \in Rec /\ q \in 0..o.received
    BY <1>9 DEF Task, Verify
  <2>2. SetFailureType(o, ev) \in FailureTypes \cup {NoFailure}
    BY <2>1 DEF SetFailureType, FailureTypeOf, FailureTypes, FailureTypeField, Rec
  <2>3. AttestStateNextImaEntry(o) + q - o.offset \in Nat
    <3>1. q \in Nat /\ o.offset \in Nat
      BY <2>1 DEF Rec
    <3>. QED
      BY <3>1 DEF AttestStateNextImaEntry
  <2>4. o2 \in Rec
    BY <2>1, <2>2, <2>3 DEF Rec, Status
  <2>5. task' = [task EXCEPT ![t].pc = "verify_commit", ![t].obj = o2]
    BY <1>9 DEF Verify
  <2>6. DOMAIN store' \subseteq DOMAIN store /\ \A i \in DOMAIN store' : store'[i] = store[i]
    BY <1>9 DEF Verify, Remove
  <2>7. task' \in [Tasks -> Task]
    <3>1. [task[t] EXCEPT !.pc = "verify_commit", !.obj = o2] \in Task
      BY <2>4 DEF Task, PCs
    <3>2. task' = [task EXCEPT ![t] = [task[t] EXCEPT !.pc = "verify_commit",
                                                       !.obj = o2]]
      BY <2>5
    <3>. QED
      BY <3>1, <3>2
  <2>8. BusyTaskIndex'
    BY <1>9, <2>5 DEF Verify
  <2>9. UNCHANGED <<accept, boottime, now>>
    BY <1>9 DEF Verify
  <2>. QED
    BY <2>6, <2>7, <2>8, <2>9
<1>10. ASSUME NEW t \in Tasks, VerifyCommit(t) PROVE TypeInv'
  <2>. DEFINE k == task[t].idx
              o == task[t].obj
  <2>1. o \in Rec
    BY DEF Task
  <2>2. \A i \in DOMAIN store' : store'[i] \in Rec
    <3>1. CASE VerdictCommits(k, o)
      <4>1. store' = [store EXCEPT ![k].status = o.status, ![k].quoted = o.quoted,
                        ![k].ftype = IF o.ftype # NoFailure THEN o.ftype ELSE @]
        BY <1>10, <3>1 DEF VerifyCommit
      <4>2. k \in DOMAIN store /\ store[k] \in Rec /\ DOMAIN store' = DOMAIN store
        BY <3>1, <4>1 DEF VerdictCommits
      <4>3. store'[k] \in Rec
        BY <2>1, <4>1, <4>2 DEF Rec
      <4>4. \A i \in DOMAIN store' : i # k => store'[i] = store[i]
        BY <4>1
      <4>. QED
        BY <4>2, <4>3, <4>4
    <3>2. CASE ~VerdictCommits(k, o)
      BY <1>10, <3>2 DEF VerifyCommit
    <3>. QED
      BY <3>1, <3>2
  <2>3. DOMAIN store' = DOMAIN store
    BY <1>10 DEF VerifyCommit
  <2>4. /\ task' = [task EXCEPT ![t] = IdleTask]
        /\ UNCHANGED <<boottime, now>> /\ accept' \in BOOLEAN
    BY <1>10 DEF VerifyCommit
  <2>5. task' \in [Tasks -> Task] /\ BusyTaskIndex'
    BY <2>4, IdleTaskType DEF IdleTask
  <2>. QED
    BY <2>2, <2>3, <2>4, <2>5
<1>11. ASSUME NEW t \in Tasks, Crash(t) PROVE TypeInv'
  BY <1>11, IdleTaskType DEF Crash, IdleTask
<1>12. CASE UNCHANGED vars
  BY <1>12 DEF vars
<1>. QED
  BY <1>1, <1>2, <1>3, <1>4, <1>5, <1>6, <1>7, <1>8, <1>9, <1>10,
     <1>11, <1>12 DEF Next

\* Spec => []TypeOK, through the inductive TypeInv.
THEOREM TypeCorrect == Spec => []TypeOK
<1>1. Init => TypeInv
  BY IdleTaskType DEF Init, TypeInv, TypeOK, BusyTaskIndex, IdleTask
<1>. QED
  BY <1>1, TypeStep, PTL DEF Spec, TypeInv

-----------------------------------------------------------------------------
(* The gate with one worker process.                                       *)

(* What a single worker's request in flight knows of the store: the prior  *)
(* cached by create still has the status it was read with; the attestation *)
(* being given evidence or verified is the last one, waiting until the     *)
(* evidence is committed and received until the verdict is; a verdict      *)
(* about to be committed decides.                                          *)
RequestConsistent ==
    \A t \in Tasks :
        /\ task[t].pc \in {"create_check", "create_insert", "create_cleanup"}
              => /\ task[t].obj.status = "waiting"
                 /\ task[t].prevIdx # NoIndex => task[t].prevIdx < task[t].idx
        /\ task[t].pc \in {"create_check", "create_insert", "create_cleanup"}
           /\ task[t].prevIdx # NoIndex /\ task[t].prevIdx \in DOMAIN store
              => store[task[t].prevIdx].status = task[t].prev.status
        /\ task[t].pc = "evidence_commit" => task[t].obj.status = "received"
        /\ task[t].pc \in {"evidence_commit", "verify", "verify_commit"}
              => HasLast /\ task[t].idx = LastIndex
        /\ task[t].pc = "evidence_commit" => store[task[t].idx].status = "waiting"
        /\ task[t].pc \in {"verify", "verify_commit"}
              => store[task[t].idx].status = "received"
        /\ task[t].pc = "verify_commit"
              => task[t].obj.status \in {"verified", "failed"}

\* The strengthening of AcceptMatchesLatestVerdict that a step preserves.
GateInv == TypeInv /\ RequestConsistent /\ AcceptMatchesLatestVerdict

\* The highest index is the one no other index exceeds.
LEMMA MaxOfEq ==
    ASSUME NEW S \in SUBSET Nat, NEW k \in S, \A j \in S : j <= k
    PROVE  MaxOf(S) = k
<1>1. S # {} /\ k \in Nat
  OBVIOUS
<1>2. MaxOf(S) \in S /\ \A j \in S : j <= MaxOf(S)
  BY <1>1, MaxOfIsMax
<1>3. MaxOf(S) \in Nat /\ MaxOf(S) <= k /\ k <= MaxOf(S)
  BY <1>2
<1>. QED
  BY <1>1, <1>3

(* A step that neither decides nor deletes a decided attestation, nor      *)
(* touches accept_attestations, keeps the gate in line with the newest     *)
(* verdict.                                                                *)
LEMMA GateFrame ==
    ASSUME TypeOK, AcceptMatchesLatestVerdict,
           Decided' = Decided,
           \A i \in Decided : store'[i].status = store[i].status,
           accept' = accept
    PROVE  AcceptMatchesLatestVerdict'
<1>1. SUFFICES ASSUME Decided # {} PROVE accept <=> store'[MaxOf(Decided)].status = "verified"
  BY DEF AcceptMatchesLatestVerdict
<1>2. MaxOf(Decided) \in Decided
  <2>1. Decided \in SUBSET Nat /\ \A j \in Decided : j <= MaxIndex
    BY DEF Decided, TypeOK
  <2>. QED
    BY <1>1, <2>1, MaxOfIsMax
<1>. QED
  BY <1>1, <1>2 DEF AcceptMatchesLatestVerdict

(* With one worker process, every step keeps a request in flight           *)
(* consistent with the store and accept_attestations in line with the      *)
(* newest verdict.                                                         *)
LEMMA GateStep ==
    ASSUME NEW w, Tasks = {w}, GateInv, [Next]_vars
    PROVE  (RequestConsistent /\ AcceptMatchesLatestVerdict)'
<1>. USE DEF GateInv, TypeInv
<1>. DEFINE T == task[w]
<1>1. /\ TypeOK /\ BusyTaskIndex
      /\ w \in Tasks /\ task \in [Tasks -> Task] /\ T \in Task
      /\ DOMAIN store \subseteq 0..MaxIndex
      /\ \A i \in DOMAIN store : store[i] \in Rec
  BY DEF TypeOK
<1>2. \A t \in Tasks : t = w
  OBVIOUS
<1>3. RequestConsistent <=>
        /\ T.pc \in {"create_check", "create_insert", "create_cleanup"}
              => /\ T.obj.status = "waiting"
                 /\ T.prevIdx # NoIndex => T.prevIdx < T.idx
        /\ T.pc \in {"create_check", "create_insert", "create_cleanup"}
           /\ T.prevIdx # NoIndex /\ T.prevIdx \in DOMAIN store
              => store[T.prevIdx].status = T.prev.status
        /\ T.pc = "evidence_commit" => T.obj.status = "received"
        /\ T.pc \in {"evidence_commit", "verify", "verify_commit"}
              => HasLast /\ T.idx = LastIndex
        /\ T.pc = "evidence_commit" => store[T.idx].status = "waiting"
        /\ T.pc \in {"verify", "verify_commit"} => store[T.idx].status = "received"
        /\ T.pc = "verify_commit" => T.obj.status \in {"verified", "failed"}
  BY <1>2 DEF RequestConsistent
<1>4. RequestConsistent' <=>
        /\ task'[w].pc \in {"create_check", "create_insert", "create_cleanup"}
              => /\ task'[w].obj.status = "waiting"
                 /\ task'[w].prevIdx # NoIndex => task'[w].prevIdx < task'[w].idx
        /\ task'[w].pc \in {"create_check", "create_insert", "create_cleanup"}
           /\ task'[w].prevIdx # NoIndex /\ task'[w].prevIdx \in DOMAIN store'
              => store'[task'[w].prevIdx].status = task'[w].prev.status
        /\ task'[w].pc = "evidence_commit" => task'[w].obj.status = "received"
        /\ task'[w].pc \in {"evidence_commit", "verify", "verify_commit"}
              => HasLast' /\ task'[w].idx = LastIndex'
        /\ task'[w].pc = "evidence_commit" => store'[task'[w].idx].status = "waiting"
        /\ task'[w].pc \in {"verify", "verify_commit"}
              => store'[task'[w].idx].status = "received"
        /\ task'[w].pc = "verify_commit"
              => task'[w].obj.status \in {"verified", "failed"}
  BY <1>2 DEF RequestConsistent
<1>13. task' = [task EXCEPT ![w] = IdleTask] => RequestConsistent'
  <2>1. task' = [task EXCEPT ![w] = IdleTask] => task'[w].pc = "idle"
    BY <1>1 DEF IdleTask
  <2>. QED
    BY <2>1, <1>4
<1>5. CASE Tick \/ Reboot \/ UNCHANGED vars
  <2>1. UNCHANGED <<store, task, accept>>
    BY <1>5 DEF Tick, Reboot, vars
  <2>2. RequestConsistent'
    BY <2>1, <1>3, <1>4 DEF HasLast, LastIndex
  <2>. QED
    BY <2>1, <2>2, GateFrame DEF Decided
<1>6. ASSUME NEW t \in Tasks, CreateBegin(t) \/ CreateCheck(t) \/ Crash(t)
      PROVE  (RequestConsistent /\ AcceptMatchesLatestVerdict)'
  <2>1. UNCHANGED <<store, accept>>
    BY <1>6 DEF CreateBegin, CreateCheck, Crash
  <2>2. RequestConsistent'
    <3>1. CASE CreateBegin(t)
      <4>. DEFINE nidx == IF HasLast THEN LastIndex + 1 ELSE 0
                  pidx == IF HasLast THEN LastIndex ELSE NoIndex
      <4>1. CreateBegin(w)
        BY <3>1, <1>2
      <4>2. task'[w] = [pc |-> "create_check", idx |-> nidx,
                        obj |-> [status |-> "waiting", ftype |-> NoFailure,
                                 boottime |-> boottime,
                                 offset |-> StartingImaOffset(boottime, nidx),
                                 quoted |-> 0, received |-> 0, nca |-> now,
                                 era |-> NoTime],
                        prevIdx |-> pidx,
                        prev |-> IF HasLast THEN store[LastIndex] ELSE NullRec]
        BY <4>1, <1>1 DEF CreateBegin
      <4>3. HasLast => LastIndex \in Nat
        BY <1>1, LastIndexFacts
      <4>4. pidx # NoIndex => HasLast /\ pidx < nidx
        BY <4>3 DEF NoIndex
      <4>5. pidx # NoIndex /\ pidx \in DOMAIN store'
              => store'[pidx].status = task'[w].prev.status
        BY <4>2, <4>4, <2>1
      <4>. QED
        BY <4>2, <4>4, <4>5, <1>4
    <3>2. CASE CreateCheck(t)
      BY <3>2, <1>2, <1>3, <1>4, <2>1 DEF CreateCheck
    <3>3. CASE Crash(t)
      BY <3>3, <1>2, <1>13 DEF Crash
    <3>. QED
      BY <1>6, <3>1, <3>2, <3>3
  <2>. QED
    BY <2>1, <2>2, GateFrame DEF Decided
<1>7. ASSUME NEW t \in Tasks, CreateInsert(t)
      PROVE  (RequestConsistent /\ AcceptMatchesLatestVerdict)'
  <2>1. t = w /\ T.pc = "create_insert" /\ UNCHANGED accept
    BY <1>2, <1>7 DEF CreateInsert
  <2>2. CASE T.idx \in DOMAIN store
    <3>1. store' = store /\ task' = [task EXCEPT ![w] = IdleTask]
      BY <2>1, <2>2, <1>7 DEF CreateInsert
    <3>2. RequestConsistent'
      BY <3>1, <1>13
    <3>. QED
      BY <2>1, <3>1, <3>2, GateFrame DEF Decided
  <2>3. CASE T.idx \notin DOMAIN store
    <3>1. store' = Insert(store, T.idx, T.obj)
          /\ task' = [task EXCEPT ![w].pc = "create_cleanup"]
      BY <2>1, <2>3, <1>7 DEF CreateInsert
    <3>2. T.obj.status = "waiting" /\ (T.prevIdx # NoIndex => T.prevIdx < T.idx)
      BY <2>1, <1>3
    <3>3. DOMAIN store' = DOMAIN store \cup {T.idx}
          /\ (\A i \in DOMAIN store : store'[i] = store[i])
          /\ store'[T.idx].status = "waiting"
      BY <3>1, <3>2, <2>3 DEF Insert
    <3>4. RequestConsistent'
      <4>1. T.prevIdx # NoIndex => T.prevIdx # T.idx
        BY <3>2, <1>1 DEF TypeOK, Task, NoIndex
      <4>. QED
        BY <2>1, <1>3, <1>4, <3>1, <3>3, <4>1, <1>1 DEF TypeOK, Task
    <3>5. Decided' = Decided
      <4>1. \A i \in DOMAIN store' :
              store'[i].status \in {"verified", "failed"}
                <=> i \in DOMAIN store /\ store[i].status \in {"verified", "failed"}
        <5>1. SUFFICES ASSUME NEW i \in DOMAIN store'
                       PROVE  store'[i].status \in {"verified", "failed"}
                <=> i \in DOMAIN store /\ store[i].status \in {"verified", "failed"}
          OBVIOUS
        <5>2. CASE i = T.idx
          BY <5>2, <3>3, <2>3
        <5>3. CASE i # T.idx
          <6>1. i \in DOMAIN store
            BY <5>3, <3>3
          <6>2. store'[i] = store[i]
            BY <6>1, <3>3
          <6>. QED
            BY <6>1, <6>2
        <5>. QED
          BY <5>2, <5>3
      <4>. QED
        BY <4>1, <3>3 DEF Decided
    <3>. QED
      BY <2>1, <2>3, <3>3, <3>4, <3>5, GateFrame DEF Decided
  <2>. QED
    BY <2>2, <2>3
<1>8. ASSUME NEW t \in Tasks, CreateCleanup(t)
      PROVE  (RequestConsistent /\ AcceptMatchesLatestVerdict)'
  <2>1. t = w /\ T.pc = "create_cleanup" /\ UNCHANGED accept
        /\ task' = [task EXCEPT ![w] = IdleTask]
    BY <1>2, <1>8, CleanupCases DEF CreateCleanup
  <2>2. RequestConsistent'
    BY <2>1, <1>13
  <2>3. CASE T.prevIdx # NoIndex /\ IsStalePrior(T.prev)
             /\ store' = Remove(store, T.prevIdx)
    <3>1. T.prevIdx \in DOMAIN store => T.prevIdx \notin Decided
      BY <2>1, <2>3, <1>3 DEF IsStalePrior, Decided
    <3>2. Decided' = Decided /\ \A i \in Decided : store'[i] = store[i]
      BY <2>3, <3>1 DEF Remove, Decided
    <3>. QED
      BY <2>1, <2>2, <3>2, GateFrame
  <2>4. CASE IsStalePrior(store[LastIndex]) /\ store' = Remove(store, LastIndex)
    <3>1. LastIndex \notin Decided
      BY <2>4 DEF IsStalePrior, Decided
    <3>2. Decided' = Decided /\ \A i \in Decided : store'[i] = store[i]
      BY <2>4, <3>1 DEF Remove, Decided
    <3>. QED
      BY <2>1, <2>2, <3>2, GateFrame
  <2>5. CASE store' = store
    BY <2>1, <2>2, <2>5, GateFrame DEF Decided
  <2>. QED
    BY <1>8, <2>1, <2>3, <2>4, <2>5, CleanupCases
<1>9. ASSUME NEW t \in Tasks, NEW e \in 0..MaxImaEntries, EvidenceBegin(t, e)
      PROVE  (RequestConsistent /\ AcceptMatchesLatestVerdict)'
  <2>1. t = w /\ UNCHANGED <<store, accept>> /\ HasLast
        /\ store[LastIndex].status = "waiting"
    BY <1>2, <1>9 DEF EvidenceBegin, ControllerAcceptsEvidence
  <2>2. task'[w].pc = "evidence_commit" /\ task'[w].idx = LastIndex
        /\ task'[w].obj.status = "received"
    BY <2>1, <1>9, <1>1 DEF EvidenceBegin, IdleTask, TypeOK
  <2>3. RequestConsistent'
    BY <2>1, <2>2, <1>4 DEF HasLast, LastIndex
  <2>. QED
    BY <2>1, <2>3, GateFrame DEF Decided
<1>10. ASSUME NEW t \in Tasks, EvidenceCommit(t)
       PROVE  (RequestConsistent /\ AcceptMatchesLatestVerdict)'
  <2>. DEFINE k == T.idx
  <2>1. t = w /\ T.pc = "evidence_commit" /\ UNCHANGED accept
    BY <1>2, <1>10 DEF EvidenceCommit
  <2>2. HasLast /\ k = LastIndex /\ store[k].status = "waiting"
        /\ T.obj.status = "received"
    BY <2>1, <1>3
  <2>3. k \in DOMAIN store
    BY <2>2, <1>1, LastIndexFacts
  <2>4. store' = [store EXCEPT ![k].status = T.obj.status, ![k].era = T.obj.era,
                               ![k].received = T.obj.received]
        /\ task' = [task EXCEPT ![w].pc = "verify"]
    BY <2>1, <2>3, <1>10 DEF EvidenceCommit
  <2>5. DOMAIN store' = DOMAIN store /\ store'[k].status = "received"
        /\ \A i \in DOMAIN store \ {k} : store'[i] = store[i]
    <3>1. store[k] \in Rec
      BY <2>3, <1>1
    <3>. QED
      BY <2>2, <2>3, <2>4, <3>1 DEF Rec
  <2>6. HasLast' /\ LastIndex' = LastIndex
    BY <2>2, <2>5 DEF HasLast, LastIndex
  <2>7. RequestConsistent'
    <3>1. task'[w].pc = "verify" /\ task'[w].idx = k
      BY <2>4, <1>1 DEF Task
    <3>2. HasLast' /\ task'[w].idx = LastIndex'
      BY <3>1, <2>2, <2>6
    <3>3. store'[task'[w].idx].status = "received"
      BY <3>1, <2>5
    <3>. QED
      BY <3>1, <3>2, <3>3, <1>4
  <2>8. Decided' = Decided /\ \A i \in Decided : store'[i] = store[i]
    <3>1. k \notin Decided /\ k \notin Decided'
      BY <2>2, <2>5 DEF Decided
    <3>2. \A i \in DOMAIN store \ {k} :
            i \in Decided <=> i \in Decided'
      BY <2>5 DEF Decided
    <3>3. Decided \subseteq DOMAIN store /\ Decided' \subseteq DOMAIN store
      BY <2>5 DEF Decided
    <3>. QED
      BY <3>1, <3>2, <3>3, <2>5
  <2>. QED
    BY <2>1, <2>7, <2>8, GateFrame
<1>11. ASSUME NEW t \in Tasks, NEW ev \in CheckQuoteResults,
              NEW q \in 0..MaxImaEntries, Verify(t, ev, q)
       PROVE  (RequestConsistent /\ AcceptMatchesLatestVerdict)'
  <2>1. t = w /\ T.pc = "verify" /\ UNCHANGED accept
    BY <1>2, <1>11 DEF Verify
  <2>2. HasLast /\ T.idx = LastIndex /\ store[T.idx].status = "received"
    BY <2>1, <1>3
  <2>3. store' = store
    BY <2>2, <1>11 DEF Verify
  <2>4. task'[w].pc = "verify_commit" /\ task'[w].idx = T.idx
        /\ task'[w].obj.status \in {"verified", "failed"}
    BY <2>1, <1>11, <1>1 DEF Verify, TypeOK
  <2>5. RequestConsistent'
    BY <2>2, <2>3, <2>4, <1>4 DEF HasLast, LastIndex
  <2>. QED
    BY <2>1, <2>3, <2>5, GateFrame DEF Decided
<1>12. ASSUME NEW t \in Tasks, VerifyCommit(t)
       PROVE  (RequestConsistent /\ AcceptMatchesLatestVerdict)'
  <2>. DEFINE k == T.idx
              o == T.obj
  <2>1. t = w /\ T.pc = "verify_commit" /\ task' = [task EXCEPT ![w] = IdleTask]
    BY <1>2, <1>12 DEF VerifyCommit
  <2>2. RequestConsistent'
    BY <2>1, <1>13
  <2>3. HasLast /\ k = LastIndex /\ o.status \in {"verified", "failed"}
    BY <2>1, <1>3
  <2>4. k \in DOMAIN store /\ \A j \in DOMAIN store : j <= k
    BY <2>3, <1>1, LastIndexFacts
  <2>5. CASE VerdictCommits(k, o)
    <3>1. store' = [store EXCEPT ![k].status = o.status, ![k].quoted = o.quoted,
                      ![k].ftype = IF o.ftype # NoFailure THEN o.ftype ELSE @]
          /\ accept' = (o.status = "verified")
      BY <2>1, <2>5, <1>12 DEF VerifyCommit, AgentCommits
    <3>2. DOMAIN store' = DOMAIN store /\ store'[k].status = o.status
      <4>1. store[k] \in Rec
        BY <2>4, <1>1
      <4>. QED
        BY <3>1, <2>4, <4>1 DEF Rec
    <3>3. k \in Decided' /\ Decided' \in SUBSET Nat /\ \A j \in Decided' : j <= k
      BY <2>3, <2>4, <3>2, <1>1 DEF Decided, TypeOK
    <3>4. MaxOf(Decided') = k
      BY <3>3, MaxOfEq
    <3>. QED
      BY <2>2, <3>1, <3>2, <3>4 DEF AcceptMatchesLatestVerdict
  <2>6. CASE ~VerdictCommits(k, o)
    <3>1. store' = store /\ accept' = accept
      BY <2>1, <2>6, <1>12 DEF VerifyCommit, AgentCommits
    <3>. QED
      BY <2>2, <3>1, GateFrame DEF Decided
  <2>. QED
    BY <2>5, <2>6
<1>. QED
  BY <1>5, <1>6, <1>7, <1>8, <1>9, <1>10, <1>11, <1>12 DEF Next

\* The initial state, with no attestation and idle workers, satisfies GateInv.
LEMMA InitGate == Init => GateInv
<1> SUFFICES ASSUME Init PROVE GateInv
  OBVIOUS
<1>1. TypeOK
  BY IdleTaskType DEF Init, TypeOK
<1>2. BusyTaskIndex
  BY DEF Init, BusyTaskIndex, IdleTask
<1>3. RequestConsistent
  BY DEF Init, RequestConsistent, IdleTask
<1>4. AcceptMatchesLatestVerdict
  BY DEF Init, AcceptMatchesLatestVerdict, Decided
<1>. QED
  BY <1>1, <1>2, <1>3, <1>4 DEF GateInv, TypeInv

(* With a single worker process (verification inline in the handler that  *)
(* received the evidence), accept_attestations always reflects the verdict *)
(* of the newest decided attestation in the store: verify_evidence sets it *)
(* from the verdict it commits, and no deletion by cleanup_stale_priors or *)
(* by the housekeeping removes a decided attestation.                      *)
THEOREM SingleWorkerGate ==
    ASSUME NEW w, Tasks = {w}
    PROVE  Spec => []AcceptMatchesLatestVerdict
<1>1. Init => GateInv
  BY InitGate
<1>2. GateInv /\ [Next]_vars => GateInv'
  BY TypeStep, GateStep DEF GateInv
<1>. QED
  BY <1>1, <1>2, PTL DEF Spec, GateInv
=============================================================================
