-------------------------- MODULE PullOrphanProofs --------------------------
(***************************************************************************)
(* Proof that, without crashes and malformed answers, a row in a polling  *)
(* state always has a polling chain (OrphanFree), for any number of        *)
(* worker processes, chain slots and retries.                              *)
(***************************************************************************)
EXTENDS PullVerifierProofs

\* The (in-memory state, new_operational_state) pairs a chain can bring to
\* process_agent: the transitions of lines 609-649, and the failures.
Handled ==
    { <<"START", "GET_QUOTE">>,
      <<"GET_QUOTE", "GET_QUOTE">>, <<"GET_QUOTE", "PROVIDE_V">>,
      <<"GET_QUOTE", "GET_QUOTE_RETRY">>, <<"GET_QUOTE", "FAILED">>,
      <<"GET_QUOTE", "INVALID_QUOTE">>,
      <<"PROVIDE_V", "GET_QUOTE">>, <<"PROVIDE_V", "PROVIDE_V_RETRY">>,
      <<"PROVIDE_V", "FAILED">> }

(* Every chain is in a shape the code handles: process_agent is       *)
(* called with a pair it has a branch for, invoke_get_quote runs on a      *)
(* GET_QUOTE dict, invoke_provide_v on a PROVIDE_V one.                    *)
ChainOK(ch) ==
    /\ ch.pc \in {"process", "decide"} => <<ch.mem, ch.arg>> \in Handled
    /\ ch.pc = "quote" => ch.mem = "GET_QUOTE"
    /\ ch.pc = "provide" => ch.mem = "PROVIDE_V"

ChainsHandled == \A c \in Chains : ChainOK(chain[c])

\* A chain that will go on polling: live, and not about to stop on the row
\* it read.
Keeper(c) == Live(c) /\ ~(chain[c].pc = "decide" /\ HaltedByTenant(chain[c]))

(* The invariant of OrphanFree, strengthened so as to be inductive: a      *)
(* polled row has a chain that will not stop before it has stored a final *)
(* state or written the row again.                                         *)
OrphanInv ==
    /\ TypeOK
    /\ ChainsHandled
    /\ Monitored => \E c \in Chains : Keeper(c)

-----------------------------------------------------------------------------
(* The transition of process_agent takes a handled pair that is not a      *)
(* failure to a live chain in a handled shape, and never to one at        *)
(* decide: the OTHER branch of Advance (line 703) is not reached.          *)
LEMMA AdvanceOK ==
    ASSUME NEW ch \in Chain, <<ch.mem, ch.arg>> \in Handled, ~EndsOnFailure(ch)
    PROVE  /\ ChainOK(Advance(ch))
           /\ Advance(ch).pc \in {"process", "quote", "provide"}
<1>1. ch.mem = "GET_QUOTE" =>
        ChainOK(RetryOrFail(ch, "quote")) /\ RetryOrFail(ch, "quote").pc \in {"process", "quote"}
  BY DEF RetryOrFail, ChainOK, Handled, Chain
<1>3. ch.mem = "PROVIDE_V" =>
        ChainOK(RetryOrFail(ch, "provide")) /\ RetryOrFail(ch, "provide").pc \in {"process", "provide"}
  BY DEF RetryOrFail, ChainOK, Handled, Chain
<1>2. <<ch.mem, ch.arg>> \in
        { <<"START", "GET_QUOTE">>, <<"GET_QUOTE", "GET_QUOTE">>,
          <<"GET_QUOTE", "PROVIDE_V">>, <<"GET_QUOTE", "GET_QUOTE_RETRY">>,
          <<"PROVIDE_V", "GET_QUOTE">>, <<"PROVIDE_V", "PROVIDE_V_RETRY">> }
  BY DEF Handled, EndsOnFailure
<1>. QED
  BY <1>1, <1>2, <1>3 DEF Advance, ChainOK, Chain

(* Replacing one chain by a chain in a handled shape keeps every chain     *)
(* handled.                                                                *)
LEMMA UpdateOK ==
    ASSUME NEW c \in Chains, NEW x, chain \in [Chains -> Chain], ChainsHandled,
           ChainOK(x), chain' = [chain EXCEPT ![c] = x]
    PROVE  ChainsHandled'
BY DEF ChainsHandled

\* A chain just started by POST or PUT reactivate is handled and live.
LEMMA StartedOK ==
    ASSUME NEW p
    PROVE  ChainOK(Started(p, "START")) /\ Started(p, "START").pc = "process"
BY DEF Started, NoChain, ChainOK, Handled

\* The empty slot is handled.
LEMMA NoChainOK == ChainOK(NoChain) /\ NoChain.pc = "none"
BY DEF NoChain, ChainOK

(* Without crashes and malformed answers, every step keeps OrphanInv.  A   *)
(* chain stops only on a final state it stores or on a row it read that    *)
(* is final (then another chain keeps the polled row); every other chain   *)
(* step leaves a live chain that is not about to stop.                     *)
LEMMA OrphanStep ==
    ASSUME ~Faults, ~Malformed
    PROVE  OrphanInv /\ [Next]_vars => OrphanInv'
<1> SUFFICES ASSUME OrphanInv, [Next]_vars
             PROVE  ChainsHandled' /\ (Monitored' => \E c \in Chains : Keeper(c)')
  BY TypeStep DEF OrphanInv
<1>0. /\ TypeOK /\ ChainsHandled /\ (Monitored => \E c \in Chains : Keeper(c))
      /\ chain \in [Chains -> Chain]
  BY DEF OrphanInv, TypeOK
<1>1. ASSUME NEW p \in Procs, NEW c \in Chains, Post(p, c) \/ Reactivate(p, c)
      PROVE  ChainsHandled' /\ (Monitored' => \E d \in Chains : Keeper(d)')
  <2>1. chain' = [chain EXCEPT ![c] = Started(p, "START")]
    BY <1>1 DEF Post, Reactivate
  <2>2. ChainsHandled'
    BY <1>0, <2>1, StartedOK, UpdateOK
  <2>3. Keeper(c)'
    BY <1>0, <2>1, StartedOK DEF Keeper, Live
  <2>. QED
    BY <2>2, <2>3
<1>2. CASE UNCHANGED <<db, chain>>
  BY <1>0, <1>2 DEF ChainsHandled, Monitored, Keeper, Live, HaltedByTenant
<1>3. ASSUME NEW p \in Procs, DeleteRead(p) PROVE ChainsHandled' /\ (Monitored' => \E c \in Chains : Keeper(c)')
  BY <1>2, <1>3 DEF DeleteRead
<1>4. CASE DeleteWrite \/ \E p \in Procs : Stop(p)
  <2>1. ~Monitored'
    BY <1>4 DEF DeleteWrite, Stop, Monitored, Removable
  <2>2. UNCHANGED chain
    BY <1>4 DEF DeleteWrite, Stop
  <2>. QED
    BY <1>0, <2>1, <2>2 DEF ChainsHandled
<1>5. CASE Restart \/ \E p \in Procs : Crash(p)
  BY <1>5 DEF Restart, Crash
<1>6. ASSUME NEW c \in Chains, Read(c)
      PROVE  ChainsHandled' /\ (Monitored' => \E d \in Chains : Keeper(d)')
  <2> DEFINE x == [chain[c] EXCEPT !.pc = "decide", !.stored = db, !.hold = TRUE]
  <2>1. chain' = [chain EXCEPT ![c] = x] /\ chain[c].pc = "process" /\ UNCHANGED db
    BY <1>6 DEF Read
  <2>2. ChainOK(x)
    BY <1>0, <2>1 DEF ChainsHandled, ChainOK, Chain
  <2>3. ChainsHandled'
    BY <1>0, <2>1, <2>2, UpdateOK
  <2>4. ASSUME Monitored' PROVE \E d \in Chains : Keeper(d)'
    <3>1. PICK k \in Chains : Keeper(k)
      BY <1>0, <2>1, <2>4 DEF Monitored
    <3>2. CASE k = c
      <4>1. ~HaltedByTenant(x) /\ x.pc = "decide"
        BY <2>1, <2>4, <1>0 DEF HaltedByTenant, Monitored, Removable, Chain
      <4>. QED
        BY <1>0, <2>1, <3>2, <4>1 DEF Keeper, Live
    <3>3. CASE k # c
      BY <1>0, <2>1, <3>1, <3>3 DEF Keeper, Live
    <3>. QED
      BY <3>2, <3>3
  <2>. QED
    BY <2>3, <2>4
<1>7. ASSUME NEW c \in Chains, Decide(c)
      PROVE  ChainsHandled' /\ (Monitored' => \E d \in Chains : Keeper(d)')
  <2>1. chain[c].pc = "decide" /\ chain[c] \in Chain
    BY <1>0, <1>7 DEF Decide, DecideHalt, DecideFail, DecidePropagate
  <2>2. CASE DecideHalt(c)
    <3>1. chain' = [chain EXCEPT ![c] = NoChain]
      BY <2>2 DEF DecideHalt
    <3>2. ChainsHandled'
      BY <1>0, <3>1, NoChainOK, UpdateOK
    <3>3. ASSUME Monitored' PROVE \E d \in Chains : Keeper(d)'
      <4>1. db' = db /\ Monitored
        BY <2>2, <3>3 DEF DecideHalt, RemovedIfTerminated, Monitored, Removable
      <4>2. PICK k \in Chains : Keeper(k)
        BY <1>0, <4>1
      <4>3. k # c
        BY <2>1, <2>2, <4>2 DEF Keeper, DecideHalt
      <4>. QED
        BY <1>0, <3>1, <4>2, <4>3 DEF Keeper, Live
    <3>. QED
      BY <3>2, <3>3
  <2>3. CASE DecideFail(c)
    <3>1. chain' = [chain EXCEPT ![c] = NoChain]
      BY <2>3 DEF DecideFail
    <3>2. ~Monitored'
      BY <2>3 DEF DecideFail, EndsOnFailure, Overwritten, Monitored, Removable
    <3>. QED
      BY <1>0, <3>1, <3>2, NoChainOK, UpdateOK
  <2>4. CASE DecidePropagate(c)
    <3>1. chain' = [chain EXCEPT ![c] = Advance(chain[c])]
      BY <2>4 DEF DecidePropagate
    <3>2. ChainOK(Advance(chain[c])) /\ Advance(chain[c]).pc \in {"process", "quote", "provide"}
      <4>1. <<chain[c].mem, chain[c].arg>> \in Handled /\ ~EndsOnFailure(chain[c])
        BY <1>0, <2>1, <2>4 DEF ChainsHandled, ChainOK, DecidePropagate
      <4>. QED
        BY <2>1, <4>1, AdvanceOK
    <3>3. Keeper(c)'
      BY <1>0, <3>1, <3>2 DEF Keeper, Live
    <3>. QED
      BY <1>0, <3>1, <3>2, <3>3, UpdateOK
  <2>. QED
    BY <1>7, <2>2, <2>3, <2>4 DEF Decide
<1>8. ASSUME NEW c \in Chains, NEW o \in QuoteOutcomes, Quote(c, o)
      PROVE  ChainsHandled' /\ (Monitored' => \E d \in Chains : Keeper(d)')
  <2>1. o # "malformed" /\ chain[c].pc = "quote" /\ chain[c] \in Chain
    BY <1>0, <1>8 DEF QuoteOutcomes, Quote
  <2> DEFINE a == CASE o = "unreachable" -> "GET_QUOTE_RETRY"
                    [] o = "error"       -> "FAILED"
                    [] o = "valid_v"     -> "PROVIDE_V"
                    [] o = "valid"       -> "GET_QUOTE"
                    [] o = "invalid"     -> "INVALID_QUOTE"
       x == [chain[c] EXCEPT !.pc = "process", !.arg = a]
  <2>2. chain' = [chain EXCEPT ![c] = x]
    BY <1>8, <2>1 DEF Quote
  <2>3. ChainOK(x) /\ x.pc = "process"
    <3>1. chain[c].mem = "GET_QUOTE"
      BY <1>0, <2>1 DEF ChainsHandled, ChainOK
    <3>2. <<"GET_QUOTE", a>> \in Handled
      BY <2>1 DEF QuoteOutcomes, Handled
    <3>. QED
      BY <2>1, <3>1, <3>2 DEF ChainOK, Chain
  <2>. QED
    BY <1>0, <2>2, <2>3, UpdateOK DEF Keeper, Live
<1>9. ASSUME NEW c \in Chains, NEW o \in {"unreachable", "error", "ok"}, ProvideV(c, o)
      PROVE  ChainsHandled' /\ (Monitored' => \E d \in Chains : Keeper(d)')
  <2> DEFINE a == CASE o = "unreachable" -> "PROVIDE_V_RETRY"
                    [] o = "error"       -> "FAILED"
                    [] o = "ok"          -> "GET_QUOTE"
       x == [chain[c] EXCEPT !.pc = "process", !.arg = a]
  <2>1. chain' = [chain EXCEPT ![c] = x] /\ chain[c].pc = "provide"
    BY <1>9 DEF ProvideV
  <2>2. ChainOK(x) /\ x.pc = "process"
    <3>1. chain[c].mem = "PROVIDE_V" /\ chain[c] \in Chain
      BY <1>0, <2>1 DEF ChainsHandled, ChainOK
    <3>2. <<"PROVIDE_V", a>> \in Handled
      BY DEF Handled
    <3>. QED
      BY <3>1, <3>2 DEF ChainOK, Chain
  <2>. QED
    BY <1>0, <2>1, <2>2, UpdateOK DEF Keeper, Live
<1>10. CASE UNCHANGED vars
  BY <1>2, <1>10 DEF vars
<1>. QED
  BY <1>1, <1>3, <1>4, <1>5, <1>6, <1>7, <1>8, <1>9, <1>10 DEF Next

(* Without worker crashes, verifier restarts and malformed answers, a row  *)
(* in a polling state always has a chain polling it (OrphanFree), for any  *)
(* number of worker processes and chain slots and any max_retries: every  *)
(* path of process_agent and the invoke_* coroutines either stores a final *)
(* state or schedules the next step.                                       *)
THEOREM OrphanFreeWithoutFaults ==
    ASSUME ~Faults, ~Malformed
    PROVE  Spec => []OrphanFree
<1>1. Init => OrphanInv
  <2> SUFFICES ASSUME Init PROVE OrphanInv
    OBVIOUS
  <2>1. TypeOK
    BY IdleTypes DEF Init, TypeOK
  <2>2. ChainsHandled
    BY NoChainOK DEF Init, ChainsHandled
  <2>3. ~Monitored
    BY DEF Init, Monitored
  <2>. QED
    BY <2>1, <2>2, <2>3 DEF OrphanInv
<1>2. OrphanInv => OrphanFree
  BY DEF OrphanInv, OrphanFree, Keeper
<1>. QED
  BY <1>1, <1>2, OrphanStep, PTL DEF Spec

=============================================================================
