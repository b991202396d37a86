------------------------- MODULE PushImaOffsetProofs -------------------------
(***************************************************************************)
(* Proof that, with one worker process, the IMA offsets of the stored      *)
(* attestations form a chain (ImaOffsetChain): each decided attestation   *)
(* whose quote was authenticated starts where the previous such one on the *)
(* same boot stopped.                                                      *)
(***************************************************************************)
EXTENDS PushAttestationProofs

USE ConstantsAssumption

\* previous_authenticated_attestation's filter on a row.
AuthDecided(r) ==
    r.status \in {"verified", "failed"} /\ r.ftype # "quote_authentication"

(* The offset r, created at index j over the rows s, has by _set_ima_offset *)
(* when the nearest authenticated decided row before j is on r's boot.     *)
Chained(s, j, r) ==
    \A i \in DOMAIN s :
        /\ i < j
        /\ AuthDecided(s[i])
        /\ s[i].boottime = r.boottime
        /\ \A k \in DOMAIN s : i < k /\ k < j => ~AuthDecided(s[k])
        => r.offset = NextImaOffset(s[i])

\* Every stored row has the offset of its place in the chain, decided or not.
StoreChained == \A j \in DOMAIN store : Chained(store, j, store[j])

(* A create between its get_last and its INSERT holds an index above every *)
(* row and an offset chained to the rows below it.                         *)
PendingChained ==
    \A t \in Tasks :
        task[t].pc \in {"create_check", "create_insert"} =>
            /\ \A j \in DOMAIN store : j < task[t].idx
            /\ Chained(store, task[t].idx, task[t].obj)

\* The inductive invariant of ImaOffsetChain with one worker process.
OffsetInv == GateInv /\ StoreChained /\ PendingChained

(* Deleting a row that is not an authenticated verdict (cleanup_stale_     *)
(* priors deletes only waiting or overdue received ones) keeps an offset   *)
(* chained: the row it was chained to stays the nearest one.               *)
LEMMA ChainedRemove ==
    ASSUME NEW s, NEW m, NEW j, NEW r, Chained(s, j, r),
           m \in DOMAIN s => ~AuthDecided(s[m])
    PROVE  Chained(Remove(s, m), j, r)
BY DEF Chained, Remove

(* The INSERT of a new row above every existing one, with an offset        *)
(* chained to the rows below it, keeps every row chained: the new row is   *)
(* above the rows it could come between.                                   *)
LEMMA ChainedInsert ==
    ASSUME NEW s, DOMAIN s \subseteq Nat, NEW n \in Nat, NEW r,
           \A j \in DOMAIN s : j < n,
           \A j \in DOMAIN s : Chained(s, j, s[j]),
           Chained(s, n, r)
    PROVE  \A j \in DOMAIN Insert(s, n, r) :
               Chained(Insert(s, n, r), j, Insert(s, n, r)[j])
<1> DEFINE s2 == Insert(s, n, r)
<1>1. DOMAIN s2 = DOMAIN s \cup {n} /\ s2[n] = r
      /\ \A j \in DOMAIN s : s2[j] = s[j]
  BY DEF Insert
<1>2. Chained(s2, n, r)
  BY <1>1 DEF Chained
<1>3. ASSUME NEW j \in DOMAIN s PROVE Chained(s2, j, s2[j])
  <2>1. \A i \in DOMAIN s2 : i < j => i \in DOMAIN s
    BY <1>1, <1>3
  <2>. QED
    BY <1>1, <1>3, <2>1 DEF Chained
<1>. QED
  BY <1>1, <1>2, <1>3

(* Committing new columns of the newest row, its offset and boot left      *)
(* alone (the evidence and the verdict UPDATEs), keeps every row chained:  *)
(* no row lies above it.                                                   *)
LEMMA ChainedTopUpdate ==
    ASSUME NEW s, NEW s2, DOMAIN s \subseteq Nat, DOMAIN s2 = DOMAIN s,
           NEW k \in DOMAIN s, \A j \in DOMAIN s : j <= k,
           \A j \in DOMAIN s \ {k} : s2[j] = s[j],
           s2[k].offset = s[k].offset, s2[k].boottime = s[k].boottime,
           \A j \in DOMAIN s : Chained(s, j, s[j])
    PROVE  \A j \in DOMAIN s2 : Chained(s2, j, s2[j])
<1>1. ASSUME NEW j \in DOMAIN s, j # k PROVE Chained(s2, j, s2[j])
  <2>1. j < k
    BY <1>1
  <2>2. \A i \in DOMAIN s : i < j => s2[i] = s[i]
    BY <2>1
  <2>3. \A i, l \in DOMAIN s : i < l /\ l < j => s2[l] = s[l]
    BY <2>1
  <2>. QED
    BY <1>1, <2>2, <2>3 DEF Chained
<1>2. Chained(s2, k, s2[k])
  <2>1. \A i \in DOMAIN s : i < k => s2[i] = s[i]
    OBVIOUS
  <2>. QED
    BY <2>1 DEF Chained
<1>. QED
  BY <1>1, <1>2

(* _set_ima_offset reads previous_authenticated_attestation, the nearest   *)
(* authenticated verdict below the new index: a same-boot one gives its    *)
(* next_ima_offset, so the new offset is chained to the store it read.     *)
LEMMA ImaOffsetChained ==
    ASSUME TypeOK, NEW idx \in Nat, NEW r, r.offset = ImaOffset(r.boottime, idx),
           ImaOffset(r.boottime, idx) # NoIndex
    PROVE  Chained(store, idx, r)
<1> SUFFICES ASSUME NEW i \in DOMAIN store, i < idx, AuthDecided(store[i]),
                    store[i].boottime = r.boottime,
                    \A k \in DOMAIN store : i < k /\ k < idx => ~AuthDecided(store[k])
             PROVE  r.offset = NextImaOffset(store[i])
  BY DEF Chained
<1>1. PrevAuthIndices(idx) \in SUBSET Nat /\ i \in PrevAuthIndices(idx)
      /\ \A j \in PrevAuthIndices(idx) : j <= MaxIndex
  BY DEF PrevAuthIndices, AuthDecided, TypeOK
<1>. DEFINE p == MaxOf(PrevAuthIndices(idx))
<1>. USE DEF p
<1>2. p \in PrevAuthIndices(idx) /\ i <= p
  BY <1>1, MaxOfIsMax
<1>3. p \in DOMAIN store /\ p < idx /\ AuthDecided(store[p])
  BY <1>2 DEF PrevAuthIndices, AuthDecided
<1>4. ~(i < p)
  BY <1>3
<1>5. p = i
  BY <1>1, <1>2, <1>4
<1>6. store[i].boottime \in Nat
  BY DEF TypeOK, Rec
<1>. QED
  BY <1>1, <1>5, <1>6 DEF ImaOffset


(* With one worker process, every step keeps the rows and the create in    *)
(* flight chained.  Only the create computes an offset; the evidence and   *)
(* the verdict UPDATEs change columns of the newest row other than its     *)
(* offset and boot; cleanup_stale_priors deletes a row that is no verdict; *)
(* and the housekeeping in verify_evidence never fires, since the newest   *)
(* row is the one being verified, still received.                          *)
LEMMA OffsetStep ==
    ASSUME NEW w, Tasks = {w}, OffsetInv, [Next]_vars
    PROVE  (StoreChained /\ PendingChained)'
<1>. DEFINE T == task[w]
<1>. USE DEF T
<1>1. /\ TypeOK /\ RequestConsistent /\ BusyTaskIndex
      /\ w \in Tasks /\ task \in [Tasks -> Task] /\ T \in Task
      /\ DOMAIN store \subseteq Nat /\ \A j \in DOMAIN store : store[j] \in Rec
      /\ StoreChained
      /\ T.pc \in {"create_check", "create_insert"} =>
            /\ \A j \in DOMAIN store : j < T.idx
            /\ Chained(store, T.idx, T.obj)
  BY DEF OffsetInv, GateInv, TypeInv, TypeOK, PendingChained
<1>. DEFINE Goal ==
         /\ \A j \in DOMAIN store' : Chained(store', j, store'[j])
         /\ task'[w].pc \in {"create_check", "create_insert"} =>
               /\ \A j \in DOMAIN store' : j < task'[w].idx
               /\ Chained(store', task'[w].idx, task'[w].obj)
<1>. USE DEF Goal
<1>2. SUFFICES Goal
  BY DEF StoreChained, PendingChained
<1>3. IdleTask.pc = "idle"
  BY DEF IdleTask
<1>4. CASE Tick \/ Reboot \/ UNCHANGED vars
  BY <1>1, <1>4 DEF Tick, Reboot, vars, StoreChained
<1>5. ASSUME NEW t \in Tasks, CreateBegin(t) PROVE Goal
  <2>. DEFINE idx == IF HasLast THEN LastIndex + 1 ELSE 0
              off == StartingImaOffset(boottime, idx)
              r   == [status |-> "waiting", ftype |-> NoFailure,
                      boottime |-> boottime, offset |-> off,
                      quoted |-> 0, received |-> 0, nca |-> now, era |-> NoTime]
  <2>. USE DEF idx, off, r
  <2>1. t = w /\ UNCHANGED store /\ off # NoIndex
        /\ task'[w].idx = idx /\ task'[w].obj = r
    BY <1>1, <1>5 DEF CreateBegin
  <2>2. CASE HasLast
    <3>1. LastIndex \in Nat /\ \A j \in DOMAIN store : j <= LastIndex
      BY <1>1, <2>2, LastIndexFacts
    <3>2. off = ImaOffset(r.boottime, idx)
      BY <2>2 DEF StartingImaOffset
    <3>3. Chained(store, idx, r)
      BY <1>1, <2>1, <3>1, <3>2, ImaOffsetChained
    <3>. QED
      BY <1>1, <2>1, <2>2, <3>1, <3>3 DEF StoreChained
  <2>3. CASE ~HasLast
    <3>1. DOMAIN store = {}
      BY <2>3 DEF HasLast
    <3>. QED
      BY <1>1, <2>1, <3>1 DEF StoreChained, Chained
  <2>. QED
    BY <2>2, <2>3
<1>6. ASSUME NEW t \in Tasks, NEW e \in 0..MaxImaEntries,
             CreateCheck(t) \/ Crash(t) \/ EvidenceBegin(t, e)
      PROVE  Goal
  <2>1. t = w
    OBVIOUS
  <2>2. CASE CreateCheck(t)
    BY <1>1, <2>1, <2>2 DEF CreateCheck, StoreChained, PendingChained, Task
  <2>3. CASE Crash(t)
    BY <1>1, <1>3, <2>1, <2>3 DEF Crash, StoreChained
  <2>4. CASE EvidenceBegin(t, e)
    BY <1>1, <2>1, <2>4 DEF EvidenceBegin, StoreChained, IdleTask
  <2>. QED
    BY <1>6, <2>2, <2>3, <2>4

<1>7. ASSUME NEW t \in Tasks, CreateInsert(t) PROVE Goal
  <2>1. t = w /\ T.pc = "create_insert" /\ T.idx \in 0..MaxIndex
    BY <1>1, <1>7 DEF CreateInsert, BusyTaskIndex
  <2>2. CASE T.idx \in DOMAIN store
    BY <1>1, <1>3, <1>7, <2>1, <2>2 DEF CreateInsert, StoreChained
  <2>3. CASE T.idx \notin DOMAIN store
    <3>1. store' = Insert(store, T.idx, T.obj)
          /\ task' = [task EXCEPT ![w].pc = "create_cleanup"]
      BY <1>7, <2>1, <2>3 DEF CreateInsert
    <3>2. \A j \in DOMAIN store' : Chained(store', j, store'[j])
      BY <1>1, <2>1, <3>1, ChainedInsert DEF StoreChained
    <3>. QED
      BY <1>1, <3>1, <3>2
  <2>. QED
    BY <2>2, <2>3
<1>8. ASSUME NEW t \in Tasks, CreateCleanup(t) PROVE Goal
  <2>1. t = w /\ T.pc = "create_cleanup" /\ task' = [task EXCEPT ![w] = IdleTask]
    BY <1>8, <1>3 DEF CreateCleanup
  <2>2. task'[w].pc = "idle"
    BY <1>1, <1>3, <2>1
  (* The row deleted is not an authenticated verdict, so every row that  *)
  (* stays keeps its place in the chain.                                  *)
  <2>3. ASSUME NEW m, m \in DOMAIN store => ~AuthDecided(store[m]),
               store' = Remove(store, m)
        PROVE  Goal
    <3>1. ASSUME NEW j \in DOMAIN store' PROVE Chained(store', j, store'[j])
      <4>1. j \in DOMAIN store /\ store'[j] = store[j]
        BY <2>3, <3>1 DEF Remove
      <4>. QED
        BY <1>1, <2>3, <4>1, ChainedRemove DEF StoreChained
    <3>. QED
      BY <2>2, <3>1
  <2>4. CASE T.prevIdx # NoIndex /\ IsStalePrior(T.prev)
             /\ store' = Remove(store, T.prevIdx)
    <3>1. T.prevIdx \in DOMAIN store => ~AuthDecided(store[T.prevIdx])
      BY <1>1, <2>1, <2>4 DEF RequestConsistent, IsStalePrior, AuthDecided
    <3>. QED
      BY <2>3, <2>4, <3>1
  <2>5. CASE IsStalePrior(store[LastIndex]) /\ store' = Remove(store, LastIndex)
    <3>1. ~AuthDecided(store[LastIndex])
      BY <2>5 DEF IsStalePrior, AuthDecided
    <3>. QED
      BY <2>3, <2>5, <3>1
  <2>6. CASE store' = store
    BY <1>1, <2>2, <2>6 DEF StoreChained
  <2>. QED
    BY <1>8, <2>1, <2>4, <2>5, <2>6, CleanupCases
<1>9. ASSUME NEW t \in Tasks, EvidenceCommit(t) PROVE Goal
  <2>. DEFINE k == T.idx
              o == T.obj
  <2>. USE DEF k, o
  <2>1. t = w /\ T.pc = "evidence_commit" /\ HasLast /\ k = LastIndex
    BY <1>1, <1>9 DEF EvidenceCommit, RequestConsistent
  <2>2. \A j \in DOMAIN store : j <= k
    BY <1>1, <2>1, LastIndexFacts
  <2>3. CASE k \in DOMAIN store
    <3>1. store' = [store EXCEPT ![k].status = o.status, ![k].era = o.era,
                      ![k].received = o.received]
          /\ task' = [task EXCEPT ![w].pc = "verify"]
      BY <1>9, <2>1, <2>3 DEF EvidenceCommit
    <3>2. /\ DOMAIN store' = DOMAIN store
          /\ \A j \in DOMAIN store \ {k} : store'[j] = store[j]
          /\ store'[k].offset = store[k].offset
          /\ store'[k].boottime = store[k].boottime
      BY <1>1, <2>3, <3>1 DEF Rec
    <3>3. \A j \in DOMAIN store' : Chained(store', j, store'[j])
      BY <1>1, <2>2, <2>3, <3>2, ChainedTopUpdate DEF StoreChained
    <3>4. task'[w].pc = "verify"
      BY <1>1, <3>1 DEF Task
    <3>. QED
      BY <3>3, <3>4
  <2>4. CASE k \notin DOMAIN store
    BY <1>1, <1>3, <1>9, <2>1, <2>4 DEF EvidenceCommit, StoreChained
  <2>. QED
    BY <2>3, <2>4
<1>10. ASSUME NEW t \in Tasks, NEW ev \in CheckQuoteResults,
              NEW q \in 0..MaxImaEntries, Verify(t, ev, q)
       PROVE  Goal
  <2>1. t = w /\ T.pc = "verify" /\ HasLast /\ T.idx = LastIndex
        /\ store[LastIndex].status = "received"
    BY <1>1, <1>10 DEF Verify, RequestConsistent
  <2>2. UNCHANGED store /\ task'[w].pc = "verify_commit"
    BY <1>1, <1>10, <2>1 DEF Verify
  <2>. QED
    BY <1>1, <2>2 DEF StoreChained
<1>11. ASSUME NEW t \in Tasks, VerifyCommit(t) PROVE Goal
  <2>. DEFINE k == T.idx
              o == T.obj
  <2>. USE DEF k, o
  <2>1. t = w /\ T.pc = "verify_commit" /\ HasLast /\ k = LastIndex
        /\ task' = [task EXCEPT ![w] = IdleTask]
    BY <1>1, <1>11 DEF VerifyCommit, RequestConsistent
  <2>2. task'[w].pc = "idle"
    BY <1>1, <1>3, <2>1
  <2>3. CASE VerdictCommits(k, o)
    <3>0. k \in DOMAIN store /\ \A j \in DOMAIN store : j <= k
      BY <1>1, <2>1, <2>3, LastIndexFacts DEF VerdictCommits
    <3>1. store' = [store EXCEPT ![k].status = o.status, ![k].quoted = o.quoted,
                      ![k].ftype = IF o.ftype # NoFailure THEN o.ftype ELSE @]
      BY <1>11, <2>1, <2>3 DEF VerifyCommit
    <3>2. /\ DOMAIN store' = DOMAIN store
          /\ \A j \in DOMAIN store \ {k} : store'[j] = store[j]
          /\ store'[k].offset = store[k].offset
          /\ store'[k].boottime = store[k].boottime
      BY <1>1, <3>0, <3>1 DEF Rec
    <3>3. \A j \in DOMAIN store' : Chained(store', j, store'[j])
      BY <1>1, <3>0, <3>2, ChainedTopUpdate DEF StoreChained
    <3>. QED
      BY <2>2, <3>3
  <2>4. CASE ~VerdictCommits(k, o)
    BY <1>1, <1>11, <2>2, <2>4 DEF VerifyCommit, StoreChained
  <2>. QED
    BY <2>3, <2>4
<1>. QED
  BY <1>4, <1>5, <1>6, <1>7, <1>8, <1>9, <1>10, <1>11 DEF Next


(* With a single worker process, the IMA offsets of the decided,           *)
(* authenticated attestations of one boot form a chain: _set_ima_offset    *)
(* starts each where the previous one stopped, and no later step moves the *)
(* offset or removes a verdict the chain goes through.                     *)
THEOREM SingleWorkerImaChain ==
    ASSUME NEW w, Tasks = {w}
    PROVE  Spec => []ImaOffsetChain
<1>1. Init => OffsetInv
  <2> SUFFICES ASSUME Init PROVE OffsetInv
    OBVIOUS
  <2>1. DOMAIN store = {} /\ task[w].pc = "idle"
    BY DEF Init, IdleTask
  <2>. QED
    BY <2>1, InitGate DEF OffsetInv, StoreChained, PendingChained
<1>2. OffsetInv /\ [Next]_vars => OffsetInv'
  BY TypeStep, GateStep, OffsetStep DEF OffsetInv, GateInv
<1>3. OffsetInv => ImaOffsetChain
  BY DEF OffsetInv, StoreChained, Chained, AuthDecided, NextImaOffset, ImaOffsetChain
<1>. QED
  BY <1>1, <1>2, <1>3, PTL DEF Spec

=============================================================================
