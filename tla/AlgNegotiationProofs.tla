------------------------ MODULE AlgNegotiationProofs ------------------------
(***************************************************************************)
(* Proofs that the negotiation loop of PushAttestation._set_algs keeps its *)
(* types and selects the first accepted algorithm the agent supports, for  *)
(* every set of algorithms and every length of the accepted list.          *)
(***************************************************************************)
EXTENDS AlgNegotiation, SequenceTheorems, TLAPS

(* The loop invariant of the for loop in _set_algs: every accepted         *)
(* algorithm before position i was unsupported and added one error; while  *)
(* the loop runs nothing is selected; once it is done either the list ran  *)
(* out with nothing selected, or the loop broke at i on a supported one.   *)
Scanned ==
    /\ i \in 1..Len(accepted) + 1
    /\ errors = i - 1
    /\ \A k \in 1..i - 1 : accepted[k] \notin supported
    /\ pc = "loop" => alg = NoAlg
    /\ pc = "done" =>
          \/ i = Len(accepted) + 1 /\ alg = NoAlg
          \/ i <= Len(accepted) /\ accepted[i] \in supported /\ alg = accepted[i]

\* The inductive invariant of ChosenIsFirstMatch.
LoopInv == TypeOK /\ Scanned

\* An accepted list is a sequence of algorithms no longer than MaxAccept.
LEMMA AcceptListFacts ==
    ASSUME NEW s \in AcceptLists
    PROVE  s \in Seq(Algs) /\ Len(s) \in 0..MaxAccept
<1>1. PICK m \in 0..MaxAccept : s \in [1..m -> Algs]
  BY AlgsAssumption DEF AcceptLists, SeqOf
<1>2. s \in Seq(Algs)
  BY <1>1, SeqDef, AlgsAssumption
<1>3. s \in [1..Len(s) -> Algs] /\ Len(s) \in Nat
  BY <1>2, LenProperties
<1>4. Len(s) = m
  BY <1>1, <1>3, AlgsAssumption
<1>. QED
  BY <1>1, <1>2, <1>4

(* FirstMatch picks the least position whose algorithm is supported: when  *)
(* no position before p is supported and p is, it is the one at p; when    *)
(* none is, it is NoAlg.                                                   *)
LEMMA FirstMatchAt ==
    ASSUME NEW acc \in Seq(Algs), NEW sup,
           NEW p \in 1..Len(acc) + 1,
           \A k \in 1..p - 1 : acc[k] \notin sup
    PROVE  /\ p <= Len(acc) /\ acc[p] \in sup => FirstMatch(acc, sup) = acc[p]
           /\ p = Len(acc) + 1 => FirstMatch(acc, sup) = NoAlg
<1>. DEFINE hits == {k \in DOMAIN acc : acc[k] \in sup}
<1>1. DOMAIN acc = 1..Len(acc) /\ Len(acc) \in Nat
  BY LenProperties
<1>2. ASSUME p <= Len(acc), acc[p] \in sup
      PROVE  FirstMatch(acc, sup) = acc[p]
  <2>1. p \in hits /\ \A m \in hits : p <= m
    BY <1>1, <1>2
  <2>2. (CHOOSE k \in hits : \A m \in hits : k <= m) = p
    BY <1>1, <2>1
  <2>. QED
    BY <2>1, <2>2 DEF FirstMatch
<1>3. ASSUME p = Len(acc) + 1 PROVE FirstMatch(acc, sup) = NoAlg
  <2>1. hits = {}
    BY <1>1, <1>3
  <2>. QED
    BY <2>1 DEF FirstMatch
<1>. QED
  BY <1>2, <1>3

(* Every iteration of the loop keeps the invariant: a supported algorithm  *)
(* at i is selected and breaks the loop with i left on it; an unsupported  *)
(* one adds its error and moves on; running out selects nothing.          *)
LEMMA LoopStepInv == LoopInv /\ [Next]_vars => LoopInv'
<1> SUFFICES ASSUME LoopInv, [Next]_vars PROVE LoopInv'
  OBVIOUS
<1>1. accepted \in Seq(Algs) /\ Len(accepted) \in 0..MaxAccept
  BY AcceptListFacts DEF LoopInv, TypeOK
<1>2. CASE LoopStep /\ accepted[i] \in supported
  <2>1. i \in 1..Len(accepted) /\ accepted[i] \in Algs
    BY <1>1, <1>2, ElementOfSeq DEF LoopStep, LoopInv, Scanned
  <2>. QED
    BY <1>1, <1>2, <2>1 DEF LoopStep, LoopInv, TypeOK, Scanned
<1>3. CASE LoopStep /\ accepted[i] \notin supported
  <2>1. i \in 1..Len(accepted)
    BY <1>1, <1>3 DEF LoopStep, LoopInv, Scanned
  <2>. QED
    BY <1>1, <1>3, <2>1 DEF LoopStep, LoopInv, TypeOK, Scanned
<1>4. CASE LoopExhausted
  BY <1>1, <1>4 DEF LoopExhausted, LoopInv, TypeOK, Scanned
<1>5. CASE Done \/ UNCHANGED vars
  BY <1>5 DEF Done, vars, LoopInv, TypeOK, Scanned
<1>. QED
  BY <1>2, <1>3, <1>4, <1>5 DEF Next

\* Every initial state satisfies the loop invariant.
LEMMA InitLoopInv == Init => LoopInv
<1> SUFFICES ASSUME Init PROVE LoopInv
  OBVIOUS
<1>1. accepted \in Seq(Algs) /\ Len(accepted) \in 0..MaxAccept
  BY AcceptListFacts DEF Init
<1>. QED
  BY <1>1, AlgsAssumption DEF Init, LoopInv, TypeOK, Scanned

(* The variables of _set_algs keep their types: the selected algorithm is  *)
(* one the agent supports or none, and the errors added never outnumber   *)
(* the accepted algorithms.                                                *)
THEOREM NegotiationTypeCorrect == Spec => []TypeOK
BY InitLoopInv, LoopStepInv, PTL DEF Spec, LoopInv

(* _set_algs selects the first accepted algorithm the agent supports, and  *)
(* none when the agent supports none of them: the break at the first      *)
(* match is what makes it the first.                                       *)
THEOREM FirstMatchSelected == Spec => []ChosenIsFirstMatch
<1>1. LoopInv => ChosenIsFirstMatch
  <2> SUFFICES ASSUME LoopInv, pc = "done"
               PROVE  alg = FirstMatch(accepted, supported)
    BY DEF ChosenIsFirstMatch
  <2>1. accepted \in Seq(Algs)
    BY AcceptListFacts DEF LoopInv, TypeOK
  <2>2. /\ i \in 1..Len(accepted) + 1
        /\ \A k \in 1..i - 1 : accepted[k] \notin supported
    BY DEF LoopInv, Scanned
  <2>3. /\ i <= Len(accepted) /\ accepted[i] \in supported => FirstMatch(accepted, supported) = accepted[i]
        /\ i = Len(accepted) + 1 => FirstMatch(accepted, supported) = NoAlg
    BY <2>1, <2>2, FirstMatchAt
  <2>. QED
    BY <2>3 DEF LoopInv, Scanned
<1>. QED
  BY InitLoopInv, LoopStepInv, <1>1, PTL DEF Spec

=============================================================================
