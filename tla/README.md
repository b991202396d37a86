# TLA+ models of the Keylime verifier

These modules model two parts of the Keylime verifier:
- the push-mode attestation lifecycle
  (`src/keylime/models/verifier/push_attestation.py`);
- the pull-mode polling loop and the tenant's requests that race it
  (`src/keylime/cloud_verifier_tornado.py`).

They are checked with TLC on small instances. TLAPS proves, for every value of
the constants, with one worker process and without faults where the property
needs that (the runs check the same configurations):
- the type invariants;
- every invariant and action property that the passing runs check, except
  `TerminationHonoured`, which is liveness.
`PROJECT.json` lists every run, mutant, finding and hazard. It also maps each
modelling definition to the source lines it translates.

## The system

An agent in push mode attests itself to the verifier in two requests:

1. **POST /attestations** (the *create* request). The controller checks:
   - that the agent's `accept_attestations` gate is open;
   - that `accept_new_attestations_in` is 0 (the rate limit).

   Then `PushAttestation.create` builds a new attestation:
   - `_set_index` takes the last index + 1;
   - nonce and timestamps are set;
   - `_set_ima_offset` takes the starting IMA offset from the previous
     authenticated attestation;
   - `_set_algs` negotiates the algorithms.

   `commit_changes` refuses the new attestation if a row with an index at least
   as high already exists, and otherwise INSERTs it. `cleanup_stale_priors` then
   deletes the previous attestation if it never got evidence or if its
   verification is overdue. When create cached no previous attestation (there
   was none), `previous_attestation` queries the highest row after the INSERT,
   which is the new attestation itself, waiting: it deletes it (lines 255 and
   668).
2. **PATCH /attestations/{index}** (the *evidence* request).
   `receive_evidence` stores the quote and IMA entries and sets the status to
   received. Then `verify_evidence` runs, on the worker that took the request,
   after the response:
   - `check_quote` produces the verdict;
   - the status becomes verified or failed, and `_set_failure_type` sets the
     failure type;
   - `agent.accept_attestations` is set from the verdict;
   - a housekeeping step deletes `previous_attestation` when both it and this
     attestation are verified and it is not a boot anchor (starting offset ≠ 0).

Tornado forks several worker processes (`cloud_verifier_tornado.py:751`). Each
handler talks to the database in several round trips, so the handlers of
different workers interleave. A worker may die and be restarted, and the request
it was serving is then lost.

## Modules

| Module | Models |
|---|---|
| `PushAttestation` | The lifecycle of one agent's attestations. |
| `MCPushAttestation` | The TLC instance: model values for the worker tasks and symmetry. |
| `PushAttestationProofs` | TLAPS proofs of the type invariant and of the gate invariant. |
| `PushFailureTypeProofs` | TLAPS proof of `FailureTypeIffFailed` with one worker. |
| `PushImaOffsetProofs` | TLAPS proof of `ImaOffsetChain` with one worker. |
| `PushActionProofs` | TLAPS proof of the action property `StatusTransitions` with one worker. |
| `AlgNegotiation` | The first-match loop of `_set_algs`. |
| `AlgNegotiationProofs` | TLAPS proofs of the loop's type invariant and of `ChosenIsFirstMatch`. |
| `PullVerifier` | Pull-mode polling of one agent: `process_agent`, the invoke coroutines, POST, DELETE, PUT, worker crashes and verifier restarts. |
| `PollingLifecycle` | The abstract lifecycle of an agent's row, as the tenant sees it. |
| `PullVerifierRefinement` | The refinement mapping from `PullVerifier` to `PollingLifecycle`, checked (and found false) by TLC. |
| `MCPullVerifier` | The TLC instance: model values for the chain slots and the processes. |
| `PullVerifierProofs` | TLAPS proofs of the pull-mode type invariant and of `StopSticks`. |
| `PullOrphanProofs` | TLAPS proof of `OrphanFree` without faults, for any number of processes. |

### PushAttestation

The variables:
- `store` is the `attestations` table of one agent: a function from the indices
  present to the persisted fields. The fields are status, failure type, boot
  time, starting IMA offset, quoted entries, received entries, and the nonce
  and evidence timestamps.
- `task` holds one record per worker task: its program counter, the index it
  works on, its in-memory copy of the attestation, and the prior attestation
  it read at creation.
- `accept` is `agent.accept_attestations`.
- `boottime` is the boot time the agent reports.
- `now` is the clock.

Each handler is cut at its database round trips. Each piece is one action:

| Actions | Code |
|---|---|
| `CreateBegin` | create / initialise / receive_capabilities |
| `CreateCheck` | the mid-creation check of commit_changes |
| `CreateInsert` | the INSERT, refused by the primary key if the row exists |
| `CreateCleanup` | cleanup_stale_priors, on the prior cached during create (line 302), or on the highest row queried after the INSERT when none was cached (`CleanupPrior`) |
| `EvidenceBegin`, `EvidenceCommit` | receive_evidence and its UPDATE |
| `Verify`, `VerifyCommit` | verify_evidence: the verdict, the housekeeping deletion, and the commit of the verdict and of the agent's gate |
| `Crash` | a worker dies (specification scenario 8; the push server is not under `src/`) |
| `Reboot` | the agent's machine reboots |
| `Tick` | the clock advances |

How the code is abstracted:
- `check_quote` is reduced to the kinds of event it can return
  (`CheckQuoteResults`) and to how many IMA entries it consumes.
- The commit of the verdict writes only the columns that changed.
- That commit fails when the row is gone, or when the failure type lies outside
  the column's `OneOf` (line 141).
- `CreateBegin` is one step for the reads of create (`get_last`,
  `previous_attestation`, `get_last` in `_set_ima_offset`), which are separate
  round trips in the code. With one worker nothing runs between them, so the
  single-worker runs and proofs lose nothing; with two workers a create of
  another worker between those reads is not explored.
- `accept_new_attestations_in` adds two datetimes at line 241, which raises
  TypeError: the model returns no wait (`NoTime`), and the POST fails.

The controller's checks are not under `src/`. They are taken from the
specification and kept in operators of their own: `ControllerAcceptsCreate`,
`ControllerAcceptsEvidence` and `AgentMaySend`, the last saying that the agent
waits for one response before it sends the next request.

### AlgNegotiation

This module models one of the three identical loops of `_set_algs`, one
iteration per step. The algorithm it chooses is compared with a first-match
reference (`FirstMatch`). `errors` counts the errors the loop adds. An
attestation with errors is refused with 422.

## The pull-mode verifier

In pull mode the verifier polls each agent. The tenant's requests race that
polling. The polling and the requests are all in `cloud_verifier_tornado.py`:

- **POST /agents/{id}** (lines 293-364) adds the row with operational state
  START and starts `process_agent(agent, GET_QUOTE)`.
- **`process_agent`** (569-708):
  1. reads the row with `get_agent`;
  2. stops on a stored TERMINATED (it removes the row) or TENANT_FAILED;
     when its own argument is FAILED or INVALID_QUOTE, it stores that verdict
     and stops;
  3. otherwise overwrites the row with its in-memory dict (line 606);
  4. takes the next step: `invoke_get_quote` (420-464) or
     `invoke_provide_v` (548-566), or a retry of either.

  The retry happens after an unreachable agent, up to `max_retries` (651-702).
  After the last retry the agent becomes FAILED. Each invoke awaits the agent's
  answer and then schedules the next `process_agent` with `ensure_future`. The
  result is a chain of coroutines that carries one in-memory agent dict.
- **DELETE** (250-291) reads the row. It then removes the row if the state read
  is final. Otherwise it writes TERMINATED and leaves the removal to the chain.
- **PUT reactivate** (394-398) sets START in the dict it read, in memory only,
  and starts a new chain.
- **PUT stop** (399-405) writes TENANT_FAILED.

Tornado runs the coroutines of one process one at a time, and switches only at
an `await`. `fork_processes` (line 751) runs several processes on one database.

### PullVerifier

The module models one agent. The variables:
- `db` is the row's operational state, or `Absent`.
- `chain` holds one record per chain slot (the constant `Chains`). Each record
  has the chain's point in the code (`pc`), its process, the dict's state
  (`mem`), the argument of the pending `process_agent` (`arg`), `num_retries`,
  the state it read (`stored`), and `hold`.
- `tenant` is a DELETE between its two database calls.
- `reactivated` records that a PUT reactivate was answered.

| Actions | Code |
|---|---|
| `Post` | `post`: `add_agent`, then a new chain |
| `DeleteRead`, `DeleteWrite` | `delete`: `get_agent`, then `remove_agent` or `update_agent(TERMINATED)` |
| `Reactivate`, `Stop` | `put` |
| `Read` | `process_agent` up to its `get_agent` |
| `DecideHalt`, `DecideFail`, `DecidePropagate` | the rest of `process_agent`: the halting branches, the failure branch with its nested call, and the overwrite with every transition and retry |
| `Quote`, `ProvideV` | `invoke_get_quote` and `invoke_provide_v` after their await, one outcome per answer the code tells apart |
| `Crash` | a worker process dies and `fork_processes` restarts it empty |
| `Restart` | the verifier restarts: `update_all_agents(SAVED)` at line 728 |

How the code is abstracted and how its atomicity is kept:
- The agent's answers are reduced to the outcomes the code tells apart. A
  malformed 200 body is the constant `Malformed`: `invoke_get_quote` swallows
  its exception at line 463, and the chain ends.
- `hold` marks a chain between its `get_agent` and its overwrite. Those are two
  database calls with no `await` of the event loop between them.
- Within one process nothing else runs while a chain holds or a DELETE is
  between its calls (`ChainMayRun`, `TenantMayRun`). Between processes nothing
  is excluded.
- The timers (`quote_interval`, `retry_interval`) are steps that fire
  eventually. Their length does not matter to the properties.
- `invoke_get_prov_quote` is not modelled: `need_provider_quote` is always
  False, so it cannot be reached.
- GET is not modelled, because it changes nothing.

The PUT handler tests `if agent is not None` where `is None` is meant (line
390), and it does not return. A PUT on an existing agent therefore answers 404
and goes on: reactivate sets START in memory and starts `process_agent`, and the
200 at line 397 is written to a response already finished. A PUT on an absent
agent answers nothing useful and raises on `agent.operational_state`; the model
leaves it out (`db # Absent`), since it changes no state.

### PollingLifecycle and the refinement

`PollingLifecycle` is what the verifier promises the tenant about one agent,
as GET reports it. The row is one of absent, polling, failed, stopped,
terminating or saved. Its transitions:
- the verifier may only fail a polled agent, finish a terminating one, or save
  all agents on restart;
- the tenant adds, stops, deletes and reactivates;
- a reactivation (`resume`) is eventually acted on (weak fairness of `Resume`
  and `Drop`).

`PullVerifierRefinement` maps `db` onto a row with `RowOf`:
- START, GET_QUOTE and PROVIDE_V and their retries are polling;
- FAILED and INVALID_QUOTE are failed;
- TENANT_FAILED is stopped;
- TERMINATED is terminating;
- SAVED is saved.

`resume` is mapped to "some live chain still holds START". The property
`LifecycleSpec` is `PollingLifecycle!Spec` under that mapping.

## Runs

Passing runs:

| Run | Checks |
|---|---|
| `single_worker` (Tasks = {t1}) | `TypeOK`; `FailureTypeIffFailed`; `AcceptMatchesLatestVerdict` (the gate reflects the newest verdict); `ImaOffsetChain` (the IMA offsets chain across same-boot authenticated attestations); `StatusTransitions` (the status order, as an action property) |
| `alg_first_match` | `ChosenIsFirstMatch` over every accepted list of up to 3 algorithms and every supported set |
| `pull_single_process` | `TypeOK`; `OrphanFree` (a row in a polling state has a live chain); `StopSticks` (no step of `process_agent` writes over TENANT_FAILED or TERMINATED); `TerminationHonoured` (a TERMINATED row is eventually removed) |
| `pull_faults` | `StopSticks` with worker crashes, verifier restarts and malformed answers |

`single_worker` runs with MaxIndex 3, MaxTime 5, MaxBoot 2, MaxImaEntries 1 and
timing constants of 1. It reaches 409,692 distinct states in about 10 s.
Indices up to 3 leave room for:
- a deletion followed by a reuse;
- a housekeeping deletion with an anchor below it;
- a reboot between attestations.

Because a fresh attestation deletes itself when no prior was cached, rows
survive their create only when the worker dies before the cleanup; the runs
reach stored, received and decided rows through `Crash`. Five ticks let a
received attestation become overdue. Deadlock is not checked:
- after a failed verdict the agent really stops, because the gate stays closed
  until the tenant reopens it;
- the bounds end every behaviour.

The pull runs use one worker process (`Procs = {p1}`). With two processes
`StopSticks` and `TerminationHonoured` are false: see the violation runs below.
- `pull_single_process` has two chain slots and `MaxRetries` 2. That is room
  for a reactivation started while a chain still runs, and for a retry, a second
  retry and the FAILED that follows. It reaches 218,439 distinct states.
- `pull_faults` has the same bounds with `Malformed` and `Faults` TRUE, so
  crashes, restarts and malformed answers happen. It reaches 237,940 distinct
  states.

`pull_single_process` leaves faults out because `OrphanFree` and
`TerminationHonoured` are false with them. TLC finds three counterexamples,
which the project does not keep as runs:
- a malformed body ends the chain at line 463;
- a dead worker takes its chain with it;
- with two processes, a FAILED is stored between DELETE's two calls, so
  TERMINATED is never removed.

`hazards` in `PROJECT.json` records them.

Deadlock is checked: the tenant can always act on the agent. No symmetry is
used, because these runs check liveness.

Violation runs. Each one checks a single property, which TLC finds violated by
what the code does. `PROJECT.json` gives the finding for each.

| Run | What TLC shows |
|---|---|
| `crash_two_waiting` | A crash between the INSERT and the cleanup leaves two waiting rows. |
| `history_not_pruned` | `previous_attestation` returns the attestation itself, so the housekeeping never prunes. |
| `stale_verdict_reopens_gate` | A lagging verified verdict reopens a gate that a newer failure had closed. |
| `fresh_attestation_deleted` | `RetentionPolicy` (a row is deleted only as the stale prior of a newer row that stays, or as a superseded verified one): the cleanup of the first attestation deletes the attestation itself. |
| `alg_match_refused` | `RefusedIffNoMatch` (errors exactly when nothing matches): an empty accepted list adds no error, and a match after an unsupported entry adds one. |
| `pull_failure_undone` | A reactivate starts a second chain while one polls; it overwrites the FAILED verdict that the first stored, which no lifecycle step allows. |
| `pull_reactivate_after_stop` | A reactivate after a stop answers 404 (line 390), goes on, but polling never resumes: START is set in memory only, and `process_agent` reads TENANT_FAILED. |
| `pull_stop_overwritten` | With two processes, a stop between `get_agent` and the overwrite at line 606 is overwritten. |

Every property of a passing run has a mutant in `PROJECT.json`: a plausible bug
in a mapped definition that TLC catches. Examples:
- the early return of `_set_failure_type` dropped;
- `>=` in place of `>` in `_set_ima_offset`;
- the hold dropped from `process_agent`'s `get_agent`;
- the `break` dropped from `_set_algs`.

## Fairness

The push-mode model checks no liveness, so it assumes no fairness. The agent's
behaviour there (when it sends, when it gives up) is outside the code.

The pull-mode `Spec` assumes weak fairness of the following steps:
- each chain's `Read`, `Decide`, `Quote` and `ProvideV`;
- `DeleteWrite`.

The code justifies each of them:
- a chain step is a coroutine scheduled with `ensure_future` or a
  `tornado` timer on the event loop, which runs every ready callback;
- the agent's answer is awaited with a timeout, and a timeout is the
  unreachable outcome (the 599 test at line 436), so an answer always comes;
- the second half of DELETE runs without an `await` after its first.

The tenant's requests, `Crash` and `Restart` get no fairness: nothing in the
code makes them happen.

## Proofs

`PushAttestationProofs` is checked by `tlapm`. It rests on `ConstantsAssumption`
alone: finite non-empty `Tasks` and natural bounds.

**`TypeCorrect`** proves `Spec => []TypeOK` for any number of worker tasks.
`TypeOK` alone is not inductive. The strengthening `TypeInv` adds
`BusyTaskIndex`: a busy task holds an index in `0..MaxIndex`. The step lemma
`TypeStep` has one step per action. It uses two lemmas:
- `MaxOfIsMax`: the maximum of a finite set of naturals is in the set and
  bounds it, proved by well-founded minimality of an upper bound;
- `LastIndexFacts`.

**`SingleWorkerGate`** proves `Spec => []AcceptMatchesLatestVerdict` when
`Tasks = {w}`, for every bound. The invariant is inductive only together with
`RequestConsistent`, which says what a worker in flight holds:
- a create in flight holds a waiting object, and its cached prior has a lower
  index and the status the prior still has;
- an evidence or verify step works on the last index, which is waiting or
  received;
- a verdict about to commit is decided.

Given `RequestConsistent`, the proof goes as follows:
- every action either leaves the decided set and the gate alone (`GateFrame`)
  or changes them together;
- a verdict commits on the last index, which is then the highest decided one;
- deletions remove only undecided rows or the last row. A verified row is
  removed only when a verified verdict for a higher row is about to commit.

TLC checked `GateInv` as an invariant of `single_worker` before the proof.
With two workers the property is false (`stale_verdict_reopens_gate`), so the
single-worker hypothesis is necessary.

`PullVerifierProofs` rests on `PullAssumption` alone. It proves two theorems.

**`TypeCorrect`** proves `Spec => []TypeOK` for any set of chains and processes
and any `max_retries`. `TypeOK` is inductive as it stands. The lemma
`RetryType` shows that the retry branch adds one to `num_retries` only below
`max_retries`.

**`SingleProcessStopSticks`** proves `StopSticks` when `Procs = {p}`, for any
number of chains, with faults and malformed answers. The invariant behind it is
`StopInv == TypeOK /\ HoldInv`. `HoldInv` states the atomicity of a process:
- a holding chain is at `process` or `decide`;
- a chain at `decide` holds, and the state it read is still the row;
- at most one chain holds;
- no chain holds while a DELETE is between its calls.

Given `HoldInv`, a chain that decides on TENANT_FAILED or TERMINATED read that
state itself, so it stops (`StopStepHolds`).

**`OrphanFreeWithoutFaults`** (module `PullOrphanProofs`) proves
`Spec => []OrphanFree` under the hypotheses `~Faults` and `~Malformed`, for
any number of processes, chains and retries. The inductive invariant is
`OrphanInv`. It adds two facts to `TypeOK`:
- `ChainsHandled`: a chain at `process` or `decide` holds a pair of argument and
  memory state that `process_agent` handles (`Handled`, nine pairs); a chain
  awaiting a quote has GET_QUOTE in memory, and one awaiting provide_v has
  PROVIDE_V;
- a monitored row has a `Keeper`: a live chain that is not about to halt on a
  tenant's stop.

The step lemma `OrphanStep` has one step per action. The lemmas `AdvanceOK`,
`UpdateOK`, `StartedOK` and `NoChainOK` show that every branch of
`process_agent` either keeps its chain handled or stores a final state. Both
hypotheses are necessary. With `Faults`, TLC finds a dead worker's chain gone
and its row left polling. With `Malformed`, it finds the swallowed exception
at line 463 ending the chain. The hazard notes in `PROJECT.json` record both.

**`SingleWorkerFailureType`** (module `PushFailureTypeProofs`) proves
`Spec => []FailureTypeIffFailed` when `Tasks = {w}`. The invariant `FTypeInv`
adds `ObjFType` to `GateInv`. `ObjFType` says that a request in flight has no
failure type before its verdict, and that a verdict about to commit has one
exactly when it failed. With `RequestConsistent`, a verified verdict lands on
the received row its own evidence created, whose failure type is empty. The
verdict's UPDATE leaves `failure_type` alone when it is unset, so that row
keeps none. The lemma `FailureTypeSet` shows that `_set_failure_type` gives
every non-empty Failure a type. With two workers TLC finds the property false
(`stale_verdict_reopens_gate`'s configuration).

**`SingleWorkerImaChain`** (module `PushImaOffsetProofs`) proves
`Spec => []ImaOffsetChain` when `Tasks = {w}`. `ImaOffsetChain` speaks only of
decided, authenticated rows. The inductive invariant `OffsetInv` extends it to
every row, decided or not (`StoreChained`). It also covers a create between
`get_last` and its INSERT (`PendingChained`), whose index lies above every row.
`Chained(s, j, r)` says that r's offset continues the nearest authenticated
verdict below index j when that verdict is on r's boot. Four lemmas carry the
proof:
- `ImaOffsetChained`: the offset `_set_ima_offset` computes is chained. It uses
  `MaxOfIsMax` on `previous_authenticated_attestation`.
- `ChainedInsert`, `ChainedRemove` and `ChainedTopUpdate`: an INSERT above
  every row, the deletion of a row that is not a verdict, and an UPDATE of the
  newest row's other columns keep every row chained.

The proof also shows that the housekeeping deletion in `verify_evidence` never
fires with one worker, since the newest row is the one being verified.

**`SingleWorkerStatusTransitions`** (module `PushActionProofs`) proves the
action property `StatusTransitions` when `Tasks = {w}`. It is derived from an
invariant by the usual rule: `Inv /\ [Next]_vars => [A]_vars` with
`Spec => []Inv` gives `Spec => [][A]_vars`. It rests on `GateInv`: the evidence
UPDATE finds its row waiting and the verdict's finds it received. The lemma
`CleanupCases` lists what `cleanup_stale_priors` may delete: the cached prior,
or, when none was cached, the highest row.

**`NegotiationTypeCorrect`** and **`FirstMatchSelected`** (module
`AlgNegotiationProofs`) prove `TypeOK` and `ChosenIsFirstMatch` for every set
of algorithms and every `MaxAccept`. The loop invariant `Scanned` says:
- every accepted algorithm before `i` was unsupported and added one error;
- once the loop is done, it either ran out or broke at a supported `i`.

`FirstMatchAt` shows that the reference `FirstMatch` picks that `i`.
`AcceptListFacts` turns `SeqOf` into `Seq` and a length bound with
`SequenceTheorems`.

Out of the prover's reach, and so checked by TLC only:
- liveness (`TerminationHonoured`) and anything about ENABLED;
- the pull-mode refinement: every reactivation starts a chain whatever chain is
  running, so any configuration where a reactivation can be acted on has room
  for two chains, and there the refinement is false (`pull_failure_undone`);
- the theorems for several processes or workers, where TLC finds them false,
  and `OrphanFree` with faults or malformed answers, where it is false too.

## Not modelled yet

The following are not modelled yet (see `components` in `PROJECT.json`):
- within the pull-mode verifier, GET (it changes no state), the quote
  collection it calls, and `invoke_get_prov_quote`, which cannot be reached;
- `update_crl`;
- `tpm_ek_ca` and `web_util`, which are pure I/O and conversions;
- the migrations;
- within the push lifecycle, the TPM clock, PCR and keyring data that
  `check_quote` consumes. These are abstracted to its outcome.

## Plan

Later sittings will:
- add an abstract lifecycle specification that `PushAttestation` refines, with
  a refinement mapping from `store` to the abstract attestation history;
- state liveness for a fair, single-worker push verifier (every received
  attestation is eventually decided);
- compose the pull-mode model of one agent into a verifier that polls several
  agents from a shared pool of processes.
