--------------------------- MODULE AlgNegotiation ---------------------------
(***************************************************************************)
(* The algorithm negotiation of PushAttestation._set_algs (push_attestation *)
(* .py lines 314-352), run when an attestation is created.  The three loops *)
(* (hash, encryption, signing) have the same code; one of them is modelled, *)
(* one iteration per step.                                                 *)
(*                                                                         *)
(* accepted  : agent.accept_tpm_*_algs, the tenant's ordered preferences.  *)
(* supported : the supported_*_algs reported by the agent.                 *)
(* alg       : the algorithm selected (NoAlg while none is).               *)
(* errors    : the number of errors added to the attestation by _add_error. *)
(* i, pc     : the loop position.                                          *)
(***************************************************************************)
EXTENDS Naturals, Sequences, SequencesExt

CONSTANTS
    Algs,      \* algorithm names
    NoAlg,     \* the unset field
    MaxAccept  \* longest list of accepted algorithms explored

ASSUME AlgsAssumption ==
    /\ IsFiniteSet(Algs) /\ NoAlg \notin Algs /\ MaxAccept \in Nat

VARIABLES accepted, supported, alg, errors, i, pc

vars == <<accepted, supported, alg, errors, i, pc>>

\* The agent's ordered list of accepted algorithms, without repetitions.
AcceptLists == {s \in SeqOf(Algs, MaxAccept) : IsInjective(s)}

-----------------------------------------------------------------------------
Init ==
    /\ accepted \in AcceptLists
    /\ supported \in SUBSET Algs
    /\ alg = NoAlg
    /\ errors = 0
    /\ i = 1
    /\ pc = "loop"

\* Mutant: the loop without its break, so that a later match overrides.
LoopStepNoBreak ==
    /\ pc = "loop"
    /\ i <= Len(accepted)
    /\ IF accepted[i] \in supported
       THEN UNCHANGED errors /\ alg' = accepted[i]
       ELSE UNCHANGED alg /\ errors' = errors + 1
    /\ i' = i + 1
    /\ UNCHANGED <<accepted, supported, pc>>

(* One iteration: the first accepted algorithm that the agent supports is  *)
(* selected and the loop breaks; every one before it adds an error.        *)
LoopStep ==
    /\ pc = "loop"
    /\ i <= Len(accepted)
    /\ IF accepted[i] \in supported
       THEN /\ alg' = accepted[i]
            /\ pc' = "done"
            /\ UNCHANGED <<errors, i>>
       ELSE /\ errors' = errors + 1
            /\ i' = i + 1
            /\ UNCHANGED <<alg, pc>>
    /\ UNCHANGED <<accepted, supported>>

\* Mutant: a Python for ... else that adds one more error when the loop
\* ends without a break.
LoopExhaustedAddsError ==
    /\ pc = "loop"
    /\ i > Len(accepted)
    /\ errors' = errors + 1
    /\ pc' = "done"
    /\ UNCHANGED <<accepted, supported, alg, i>>

\* The loop runs out of accepted algorithms without a break.
LoopExhausted ==
    /\ pc = "loop"
    /\ i > Len(accepted)
    /\ pc' = "done"
    /\ UNCHANGED <<accepted, supported, alg, errors, i>>

\* _set_algs has returned; create goes on with the result.
Done ==
    /\ pc = "done"
    /\ UNCHANGED vars

Next == LoopStep \/ LoopExhausted \/ Done

Spec == Init /\ [][Next]_vars

-----------------------------------------------------------------------------
(* The reference: the first accepted algorithm the agent supports          *)
(* (specification 5.1, step 3), NoAlg when there is none.                  *)
FirstMatch(acc, sup) ==
    LET hits == {k \in DOMAIN acc : acc[k] \in sup}
    IN  IF hits = {} THEN NoAlg
        ELSE acc[CHOOSE k \in hits : \A m \in hits : k <= m]

\* Type invariant.
TypeOK ==
    /\ accepted \in AcceptLists
    /\ supported \subseteq Algs
    /\ alg \in Algs \cup {NoAlg}
    /\ errors \in 0..Len(accepted)
    /\ i \in 1..Len(accepted) + 1
    /\ pc \in {"loop", "done"}

(* The loop of _set_algs selects the first accepted algorithm the agent    *)
(* supports, with the break stopping it at the first match.                *)
ChosenIsFirstMatch ==
    pc = "done" => alg = FirstMatch(accepted, supported)

(* Specification 4.D, step 3 and scenarios 1-2: the attestation is refused *)
(* (an error is added, answered 422) exactly when no accepted algorithm is *)
(* supported.  The else branch of the loop (lines 326-330) adds an error  *)
(* for every unsupported algorithm tried before the match, and none for   *)
(* an empty accepted list.                                                 *)
RefusedIffNoMatch ==
    pc = "done" => (errors > 0 <=> FirstMatch(accepted, supported) = NoAlg)

=============================================================================
