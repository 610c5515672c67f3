# TLA+ verification of the rusk node core

This directory holds TLA+ models of the rusk node's consensus and chain components, together with TLC configurations that model-check them and TLAPS proofs. The models are of the code under `src/`. `spec.md` is used only where code outside `src/` must be modelled, and those definitions are marked `spec_modelled` in `PROJECT.json`.

## The system and how its parts interact

The data flows in one direction:

1. The network (`node/src/network.rs`) decodes wire messages (`node-data/src/encoding.rs`) and hands each one to a spawned sender task. The task puts the message on the queue registered as the route of its topic.
2. Consensus checks each message (`consensus/src/msg_handler.rs`) and feeds it to the agreement Accumulator (`consensus/src/agreement/accumulator.rs`).
3. A pool of workers in the Accumulator verifies the votes, tallies them per (block hash, step), and emits `CollectedVotes` when the quorum is reached.
4. Quorum messages carried in block headers are checked by the quorum verifier (`consensus/src/quorum/verifiers.rs`).
5. The Acceptor (`node/src/chain/acceptor.rs`) applies an attested block:
   - to the VM (`accept`, `finalize_state`, `revert`) and to the DB (blocks and labels by height, plus `MD_HASH_KEY`);
   - with a label given by rolling finality;
   - and on a state mismatch at start-up it reverts to the last finalized state.
6. The network's `send_and_wait` is used by the synchroniser to request a resource and wait for its answer.

## Modules

| Module | Models | State | Actions |
|---|---|---|---|
| `Acceptor` | acceptor.rs: `try_accept_block`, `rolling_finality`, `try_revert`, `init_consensus`, `get_latest_final_block` | `ledger` (height → block and label), `mdHash`, `vmHead`, `vmFinal`, `tip`, `alive` | `AcceptBlock` and its failure paths (`AcceptDbFailure`, `AcceptResyncFailure`, `AcceptFinalizeFailure`, `AcceptStateMismatch`); `Crash`; `Restart`; `RestartWithRevert` (init_consensus with `try_revert`, its only caller) |
| `AcceptorProofs`, `VmCommitsProofs`, `NetworkProofs`, `QuorumVerifierProofs`, `AccumulatorProofs`, `ConsensusProofs` | the TLAPS proofs about the module named | | |
| `WeightSums` | lemmas about `MapThenSumSet` sums of naturals | | |
| `Accumulator` | accumulator.rs | channel `queue`, per-worker `pc` and `held` message, `stores`, `emitted`, `dropped` | `Process`, `Recv`, `Verify`, `Accumulate`, `Send`, `Drop` |
| `Network` | network.rs routing | `routes`, `queues`, `pending` (the wrapping `pending_senders`), in-flight `senders`, and `pc` and `call` of `send_and_wait` | `OnMessage` (on_message + reroute), `RouteInternal`, `SenderRun`, `Consume`, and the steps of `send_and_wait`: `SawRemove`, `SawAdd`, `SawSend`/`SawSendFail`, `SawRecv`/`SawTimeout`, `SawCleanup` |
| `QuorumVerifier` | verifiers.rs | the Quorum message under check, `pc`, the committee cache, `result` | `VerifyValidation`, `VerifyRatification` (each one `verify_step_votes`) |
| `VmCommits` | the abstract specification of what the Acceptor does to the VM | `head`, `final` (the VM's current and finalized commit) | `Commit`, `CommitFinal`, `RevertToFinal` |
| `MsgHandler` | msg_handler.rs `is_valid`, commons.rs `RoundUpdate::new`, the window of acceptor.rs `reroute_msg` | none (pure operators) | |
| `Consensus` | one consensus step composed from `reroute_msg`, `is_valid` and `Accumulator` (instantiated) | `inbound` (`main_inbound`), `received`, `arrivals`, and the Accumulator's variables | `RerouteMsg`, `HandleMsg` (is_valid, then `Process` or drop), `Worker`, `Abort` |
| `Encoding` | encoding.rs | one typed value, the stream it is written to, the read result | `Write`, `Read`: the `assert_serializable` test applied to a stream that continues after the value |

Abstractions:

- **Acceptor**:
  - A block is its path of fork choices from genesis, so its height is the path's length and the parent relation is the prefix relation.
  - A VM state is the block it was computed for.
  - A DB transaction is one atomic step, or a failure that changes nothing.
  - The accept transaction writes the block and `MD_HASH_KEY` together (`Persist`). `store_block` lies outside `src/`, so this follows spec §4.6 step 4 and is marked spec-modelled.
  - `try_revert` is called only by `init_consensus` at start-up, so the revert is part of `RestartWithRevert`. Its walk transaction and the `update_tip` that follows are taken as one step, and the provisioner calls of `update_tip` are not modelled.
- **Accumulator**: verification and committee weights are constants (`Invalid`, `Weight`).
- **Consensus**: the round's tip, iteration and step are constants, since the task is restarted with a fresh `RoundUpdate` on every accepted block. A message is a record of signer, round, iteration, step, `prev_block_hash`, voted hash and payload. The Accumulator sees the projection of an admitted message to signer, hash, step and payload. `Message::compare` (outside `src/`) is the lexicographic order of (round, iteration, step).
- **QuorumVerifier**:
  - BLS signatures are abstracted to "good" (aggregated by exactly the selected members over this header, step and vote) or "bad".
  - The committee and the thresholds follow spec §4.2, because `committee.rs` is not under `src/`.
- **Encoding**:
  - Integers are written little-endian at their width.
  - A fixed-size array (signature, key, hash, economic mode) is one opaque stream element.
- **Everywhere**: messages and payloads are model values. Logging, metrics and formatting are left out.

## Runs

Every run uses `MC*.tla` and `MC*.cfg`. "pass" runs check every listed property. Each property of a pass run also has a mutant in `PROJECT.json`, which TLC must find violated.

| Run (cfg) | Expect | Checks | Shows |
|---|---|---|---|
| `MCAcceptor` | pass | `TypeOK`, `LedgerChain`, `FinalizedBlockKept` | The ledger is always a gap-free chain up to the tip, and the VM's finalized block is always stored Final. This holds across every interleaving of accepts, failures, crashes and restarts with their revert. |
| `MCAcceptor_final` | violation | `FinalLabelIrreversible` | A Final block committed with `MD_HASH_KEY`, whose resync or `finalize_state` then fails, leaves the VM's finalized state older; the next accept panics on `assert_eq!`, and at restart `try_revert` deletes the Final block. |
| `MCAcceptor_revert` | violation | `RevertConverges` | At start-up with only genesis finalized and the tip above it, the revert walk never examines genesis and `init_consensus` fails. |
| `MCAcceptor_latest` | violation | `LatestFinalBlockCorrect` | The scan skips the tip's parent. |
| `MCConsensus` | pass | `TypeOK`, `CollectedBackedByQuorum`, `CollectedFromCurrentTip`, `QuorumEventuallyCollected` | Messages queued by `reroute_msg` and admitted by `is_valid` reach the Accumulator's workers. Only valid, distinct, quorum-weight votes are emitted. Every emitted quorum consists of committee votes of the present round, iteration and step on the task's tip. A quorum is eventually collected. |
| `MCAccumulator_twice` | violation | `AtMostOneCollected` | Two workers emit for the same key. |
| `MCAccumulator_pool` | violation | `QuorumEventuallyCollected` | A one-worker pool stops after its first emission. |
| `MCNetwork` | pass | `TypeOK`, `SendAndWaitReturns` | The counter stays a u-Width value, and every `send_and_wait` returns. |
| `MCNetwork_leak` | violation | `TempRouteUnregistered` | A timeout leaves the temporary route registered (against the comment at network.rs:334). |
| `MCQuorumVerifier` | pass | `QuorumSoundness`, `HonestQuorumAccepted` | Over all 3072 messages of a 4-weight committee, accepted Valid attestations carry a super-majority, and honest ones are accepted. |
| `MCEncoding` | pass | `ReadConsumesWrite` | Values of eight types are read back from a longer stream, consuming exactly their bytes. |
| `MCEncoding_spent` | violation | `ReadConsumesWrite` | A `SpentTransaction` without an error is written with 8 bytes and read with 4. The pass run leaves `SpentTransaction` out for this reason. |

### Bounds, and why they are enough

- **Acceptor**:
  - `MaxHeight = 3`, with two forks (symmetric) and `Threshold = 2`.
  - Three heights above genesis are the fewest that give a Final block below an Attested one below the tip.
  - Two forks give a stale tip and a competing block at one height.
  - All three violations are reached at these bounds.
- **Accumulator**:
  - Two workers, and four signers of weights 1, 1, 1 and 0.
  - Quorum 2 and up to 4 `process` calls.
  - One message is rejected, one has the empty hash, and one comes from a non-member.
  - Two workers are enough to race on the store.
- **Consensus** (MCConsensus):
  - The Accumulator's bounds above, behind seven inbound messages.
  - These cover every `is_valid` outcome: two present votes on the tip, a vote on another tip, a past-round vote, a non-member's vote, a future-round vote, and an empty-hash vote.
  - `main_inbound` holds 2, so `try_send` drops, and four messages are delivered.
- **Network**:
  - One consumer topic and the response topic; `MAX_PENDING_SENDERS = 1` and a 2-bit counter.
  - Three arrivals and two `send_and_wait` calls.
  - These are the least that make the reset, the wrap, the temporary queue's capacity and a late answer to an earlier call happen.
- **QuorumVerifier and Encoding**: the inputs are exhaustive over the listed domains. These include the bitset values 0, a middle value, 2^16 and 2^31-1, and every vote shape and tag.
- **Deadlock**: it is not checked in the runs whose bounds end the behaviour. These are the bounded message supply, the single `verify_quorum` call, the single encode/decode, and the acceptor's failed restart revert, where `init_consensus` returns `Err` and the node really stops.

### Fairness

- **Accumulator and Consensus**: `WF` of each worker's step, and in Consensus `WF` of `HandleMsg` (the task's loop keeps reading `main_inbound`). Tokio polls every ready task, and the consensus loop drains `output_chan`.
- **Network**:
  - `WF` of the sender tasks, because every spawned task runs.
  - `WF` of each `send_and_wait` step. `SawRecv \/ SawTimeout` is weakly fair because `timeout_at` arms a deadline that always fires.
- **Safety-only modules**: no fairness.

## What is proved (TLAPS)

Seven modules hold theorems. Each proof module EXTENDS the module it is about. The `IInv` of each module was checked with TLC as an invariant of a run before it was proved.

### `AcceptorProofs`

The theorems hold for every value of `Forks`, `MaxHeight ∈ Nat \ {0}`, `Threshold ∈ Nat` and `NoBlock ∉ Entries`:

- `TypeCorrect`: `Spec => []TypeOK`.
- `LedgerChainInvariant`: `Spec => []LedgerChain`.
- `FinalizedBlockKeptInvariant`: `Spec => []FinalizedBlockKept`.
- `IInvInvariant`: `Spec => []IInv`.
- `Refinement`: `Spec => VmRefinement` (a theorem only; no run checks it), that is, `Acceptor` implements `VmCommits` under the mapping `head <- vmHead, final <- vmFinal`. `InitVm` maps both initial states to `VM!Init`. `AcceptVm` maps the four accept actions to `Commit` or `CommitFinal`. `OtherVm` maps crashes and restarts with their revert to `RevertToFinal` or a stutter. The accept cases need `IInv` (the VM's head is the tip, so the new block is a child of the head), and the revert cases need `VmChain`.
- `VmFinalityMonotone`: the VM's finalized state only moves forward along one chain. It is inherited from `VmCommitsProofs!FinalityMonotoneHolds` through the refinement.

`LedgerChain` and `FinalizedBlockKept` are not inductive on their own. `IInv` strengthens them with two conjuncts:

- `MdChain`: every height up to `MD_HASH_KEY`'s block holds that block's ancestor. A restart reloads the tip from `MD_HASH_KEY`, so this is what a restart needs. Every accept writes `MD_HASH_KEY` with its block, so the chain below it is the chain below the new tip (`StoreKeeps`).
- `VmChain`: the VM's finalized block is an ancestor of its head. This bounds what a revert or a restart can leave.

`NextIInv` has one lemma per action family (`AcceptBlockIInv`, `AcceptFailuresIInv`, `CrashIInv`, `RestartIInv`, `RevertsIInv` for `RestartWithRevert`). These rest on lemmas about `Store`, `Reverted`, `Ancestor`, prefixes and `HighestOf`. `HighestOf` is the existence of a maximum of a finite set of naturals, proved by well-founded minimality.

### `VmCommitsProofs`

- `FinalBelowHeadInvariant`: in the abstract specification the finalized commit is an ancestor of the head.
- `FinalityMonotoneHolds`: each finalized commit descends from the one before it.

### `NetworkProofs`

- `TypeCorrect`: `Spec => []TypeOK`, for every topic set, width and bound. `TypeOK` includes that `pending_senders` stays a `Width`-bit value however its `fetch_sub` wraps. The invariant adds that while `send_and_wait` runs, its call number names a temporary queue, because `SawAdd` routes the response topic to that queue.

### `WeightSums`

Lemmas about `Sum(c, S) == MapThenSumSet(LAMBDA i : c[i], S)`, the form in which committee occurrences and signer weights are added up. `MapThenFoldSet` is a recursive function defined by `CHOOSE`, so every fact about it first needs a function that satisfies its equation:

- `FoldExists` builds that function layer by layer over subsets of at most `n` elements.
- `FoldAgree` shows that two such functions agree.
- From these follow `SumEmpty`, `SumNat`, `SumUnfold`, `SumRemove` (any element can be taken out first), `SumAdd` and `SumMono` (a sum grows with its set).
- `SumCongruent` (two functions that agree on `S` have the same sum), `SumIncrement` (raising one entry by 1 raises the sum by 1) and `SumZero` are about changing the function rather than the set.

Every induction is a least counterexample under `<` on `Nat`, not an induction theorem with an operator parameter, which the provers cannot instantiate.

### `QuorumVerifierProofs`

For every pair of step committees, bit width and vote set:

- `QuorumSoundnessInvariant`: `Spec => []QuorumSoundness`.
- `HonestQuorumAcceptedInvariant`: `Spec => []HonestQuorumAccepted`.

The invariant records that at the Ratification step the Validation votes were accepted, and that `result = "Ok"` exactly when both `verify_votes` calls returned Ok. The lemmas `ValidVotesBacked` and `HonestVotesAccepted` are about a single `verify_votes` call.

### `AccumulatorProofs`

- `CollectedBackedByQuorumHolds`: `AccumulatorAssumption => (Spec => []CollectedBackedByQuorum)`, for every worker pool, agreement set, weights and quorum.

The argument:

- `PW` gives each valid payload the weight of its signer.
- The invariant says a store's set holds payloads of valid submitted votes for its key (`PV(k)`), and its weight is `Sum(PW, set)`. `AccumulateIInv` needs `SumAdd` for this.
- It also says that a worker at `send` and every emitted key have a store at the quorum. Weights only grow, so this is kept.
- `PayloadWeightSum` shows that the property's `PayloadWeight(k)` is `Sum(PW, PV(k))`, by `FoldAgree` against the fold `PayloadWeight` chooses.
- `SumMono` closes the argument.

The proof needs one assumption that the model itself does not impose. It is the last conjunct of `AccumulatorAssumption`: two valid agreements with the same payload have the same signer. In the code the payload is the signed message, so a payload names its signer. Without the assumption `PayloadWeight` would be an arbitrary choice among signers, and the property would be undefined.

### `ConsensusProofs`

For every message set, worker pool, weights and capacity satisfying `ConsensusAssumption`:

- `TypeCorrect`: `Spec => []TypeOK`. It needs that what `is_valid` admits is a signed agreement.
- `StoredFromCurrentTipInvariant`: every payload in the stores came from a verified committee vote of the present round, iteration and step on the task's tip. The invariant adds that `main_inbound` holds received messages, and that the Accumulator's channel and workers carry only agreements `is_valid` admitted (`Admitted`).
- `AccumulatorRefinement`: `Spec => Acc!Spec`. `RerouteMsg` and a rejected message stutter, an admitted message is `Acc!Process` of its projection, and `Worker` and `Abort` are the Accumulator's own steps.
- `CollectedBackedByQuorumInvariant`: `Spec => []CollectedBackedByQuorum`, the property the `consensus` run checks. It follows from the refinement and `AccumulatorProofs` instantiated with the consensus step's constants.

The lifting goes through a second instance `AccP` of `Accumulator` whose message set is the projection of the admitted agreements. `AccPAssumption` shows that `ConsensusAssumption` gives `AccP`'s assumption, `AccPSpec` that `Acc!Spec` and `AccP!Spec` are the same formula, and the property is then shown equal under both names. The two instances have their own copies of `IsFiniteSet`, `Cardinality` and `MapThenSumSet`, so each equivalence expands both.

## What is only model-checked

- **Liveness** (`QuorumEventuallyCollected`, `SendAndWaitReturns`): it needs fairness and ENABLED, which are outside the prover's reach.
- **`CollectedFromCurrentTip`**: it is not an invariant of every instance. Dedup in `accumulate()` is by payload, so one signer's two different payloads for a key are both counted, while `CurrentWeight` counts the signer once. The `consensus` instance, with one payload per signer and key, passes. The general case is the double-counting hazard in `PROJECT.json`.
- **Encoding** (`ReadConsumesWrite`): the readers are `RECURSIVE`, which takes away tlapm's SMT backend, and a round trip for every value would need induction over data, which the installed provers cannot instantiate.
- **The violation runs**: they show that a property fails, which TLC's counterexample already establishes.

## Not modelled

- **The phase implementations of `MsgHandler`** (`verify`, `collect`, `collect_from_past`, `handle_timeout`): declared in msg_handler.rs, implemented outside `src/`. `verify` is the constant set `Verified`.
- **Provisioner updates** (`selective_update`, `changed_provisioners`, `parse_stake_call`): their content is VM data. Only the failure of the resync (`AcceptResyncFailure`) is modelled.
- **Ratification, ValidationResult and QuorumType encodings**: their field encodings lie outside `src/`.
- **Network broadcast, flood_request, send_to_peer and add_filter**: they only send bytes.
- **rusk-recovery genesis state**: file and VM I/O.
- **Transfer types**: plain data.
- **ZK circuits**: field arithmetic.
- **Test keys**.

Spec note: §4.2 and §8 give the super-majority as ⌈2·size/3⌉+1, while the §8 scenario uses 3 for a committee of 4. The model follows the formula.

## Hazards recorded without a run

Some behaviours are found in the code, but no run judges them. Each is listed in `PROJECT.json` with the reason:

- **A crash between the revert walk and `update_tip` (acceptor.rs:663, 364)**: the walk's transaction deletes the blocks above the target, and `update_tip` writes `MD_HASH_KEY` in a second transaction. A crash between them leaves `MD_HASH_KEY` naming a deleted block. The tip loader that reads it at start-up lies outside `src/`, so the model takes the two as one step.
- **`pending_senders` reset with senders in flight (network.rs:49)**: the `fetch_sub`s then wrap the counter. The model keeps the wrap, and `TypeOK` bounds it.
- **The NoQuorum quorum skip for any validation bitset (verifiers.rs:149)**: spec §4.5 names only bitset 0.
- **The panic of `Label::read` on a byte above 2 (encoding.rs:309)**: `ReadLabel` models it.

## Further work

1. A `Network` property relating a response to its request, once a reference for it is found in the code.
2. Compose `Consensus` with `Acceptor`: a block accepted while the task runs aborts it and restarts it on the new tip.
3. An action property of the Accumulator's stores: a stored payload is never removed and a weight never decreases until the Accumulator is dropped.
4. Prove `CollectedFromCurrentTip` for the instances where each signer has one payload per key, stated as an assumption on `Inbound`.
5. Model the provisioner calls of `update_tip` that can fail after `MD_HASH_KEY` is written, and the crash window between the revert walk and `update_tip`, once the tip loader's behaviour on a missing block is known.
