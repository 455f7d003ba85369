# TLA+ models of ev-reth

ev-reth is the execution node of an Evolve chain: reth with a transaction type
of its own (0x76: batches of calls and fee sponsors), a redirect of the base
fee, an allowlist for contract deployment, a mint precompile, and blocks built
from transactions the sequencer (ev-node) passes through the Engine API. This
directory holds TLA+ models of its parts, the TLC configurations that check
them on small instances, and theorems that TLAPS proves for all instances.

Paths below are relative to the repository (`src/` in `PROJECT.json`).

| file | role |
| --- | --- |
| `EvHandler.tla` | execution of transactions by the handler of `crates/ev-revm` |
| `MCEvHandler.tla`, `MCEvHandler*.cfg` | its instance for TLC, three runs |
| `EvHandlerProofs.tla` | type correctness, conservation of wei, atomic batches, nonces that move once, gated deployments, covered values, the exact ledger, proved |
| `BlockProduction.tla` | payload jobs, block building, import, restart (`crates/node`, `crates/evolve`) |
| `MCBlockProduction.tla`, `MCBlockProduction*.cfg` | its instance for TLC, three runs |
| `BlockProductionProofs.tla` | no gas underflow, greedy builds, exact import, nonces along chains, proved |
| `EnginePayload.tla` | the round trip of a block: attributes, block, envelope, payload, block (`crates/node`) |
| `MCEnginePayload.tla`, `MCEnginePayload.cfg` | its instance for TLC |
| `EnginePayloadProofs.tla` | the round trip and the re-execution of blocks, proved |
| `ChainConfig.tla` | chain spec, settings with activation heights, block environments |
| `Pool.tla` | launch, pool validation, `get_txs`, block building, on top of `ChainConfig` |
| `MCPool.tla`, `MCPool.cfg` | its instance for TLC |
| `PoolProofs.tla` | agreement of the node's components, of its block environments, and of pool and handler, proved |
| `Frames.tla`, `MintPrecompile.tla`, `FeeVault.tla`, `AdminProxy.tla`, `Treasury.tla` | the mint precompile and the contracts, each on top of the one before |
| `MCTreasury.tla`, `MCTreasury*.cfg` | their instance for TLC, two runs |
| `TreasuryProofs.tla` | supply, allowlist and distribution, proved |
| `TxCodec.tla` | the 0x76 transaction as node and client encode, hash and decode it |
| `SponsorFlow.tla` | clients, sponsor service and node, on top of `TxCodec` |
| `MCSponsorFlow.tla`, `MCSponsorFlow.cfg` | its instance for TLC |
| `SponsorFlowProofs.tla` | the codecs are inverse to each other, charges, reports, refusals and the bounded overdraft, proved |
| `Deployer.tla` | the commands of `bin/ev-deployer` with crashes, ev-dev's genesis |
| `DeployOnce.tla` | what the deployer promises, in four steps |
| `MCDeployer.tla`, `MCDeployer.cfg` | its instance for TLC |
| `DeployerProofs.tla` | invariants, merges and the refinement of `DeployOnce`, proved |
| `Iterators.tla` | fold, filter and sums over lists, as the models use them |
| `IteratorsProofs.tla` | induction over numbers and sequences, and what the iterators give, proved |
| `PROJECT.json` | components, runs, mutants, source lines of every definition, hazards, findings, theorems |

To repeat the checks, in this directory:

    tlc -workers 2 -config MCEvHandler.cfg MCEvHandler
    tlc -workers 2 -config MCBlockProduction.cfg MCBlockProduction
    tlc -workers 2 -config MCEnginePayload.cfg MCEnginePayload
    tlc -workers 2 -config MCPool.cfg MCPool
    tlc -workers 2 -config MCTreasury.cfg MCTreasury
    tlc -workers 2 -config MCSponsorFlow.cfg MCSponsorFlow
    tlc -workers 2 -config MCDeployer.cfg MCDeployer
    tlapm IteratorsProofs.tla
    tlapm EvHandlerProofs.tla
    tlapm BlockProductionProofs.tla
    tlapm EnginePayloadProofs.tla
    tlapm PoolProofs.tla
    tlapm TreasuryProofs.tla
    tlapm SponsorFlowProofs.tla
    tlapm DeployerProofs.tla

The configurations named after a finding (section 10) end with a counterexample.

The large proof modules begin with `USE Zenon`: most of their leaves are first-order
reasoning, and a leaf that needs arithmetic, records or sequences names `SMT`.
`tlapm` takes up to 20 minutes for the largest of them.

## 1. Inventory of the system

### Components, their state and operations

**Execution handler** (`crates/ev-revm/src/handler.rs`, `tx_env.rs`,
`base_fee.rs`, `deploy.rs`). State: the journal (balances, nonces, storage) and
its checkpoint, the gas of the transaction in flight. Operations: `validate_env`
and the initial gas of a batch, `validate_against_state_and_deduct_caller` with
and without sponsor, `execution` of one call or of a batch under one
checkpoint, `refund` and the EIP-7623 floor, `reimburse_caller`,
`reward_beneficiary` with `BaseFeeRedirect::apply`. *Correct if* no wei appears
or disappears, the payer pays exactly the gas spent, a batch is all or nothing,
the nonce advances once, and no top-level CREATE deploys for a caller that is not
allowed.

**EVM wrapper and factory** (`evm.rs`, `factory.rs`, `config.rs`). Fixes, per
block, the fee sink, the deploy allowlist, the mint admin and the contract size
limit by activation height. No state beyond its configuration.

**Typed transaction 0x76** (`crates/ev-primitives`). Encoding, two signing
hashes (executor and sponsor), recovery, the compact form of the database.
*Correct if* node and client read one transaction and one set of signers in any
bytes, and the database gives back what went in.

**Mint precompile** (`crates/ev-precompiles/src/mint.rs`). State: balances and
the allowlist in the precompile's own storage. Operations: `mint`, `burn`,
`addToAllowList`, `removeFromAllowList`, `allowlist`. *Correct if* only the
admin and allowed callers change the supply, each call changes it by exactly its
amount, a failing call leaves nothing, and the allowlist survives state clearing.

**Transaction pool validator** (`crates/node/src/txpool.rs`). State: none of its
own; it reads the head's state and the pool. Operations: validation of 0x76
transactions (calls, sponsor signature, sponsor balance, deploy allowlist).
*Correct if* what it rejects can never execute in the next block, and what it
admits fails there only for reasons that arose after admission.

**Payload builder and payload service** (`builder.rs`, `payload_service.rs`,
`attributes.rs`). State: one job per payload id (attributes, best payload) and
the process-wide `CURRENT_BLOCK_GAS_LIMIT`. Operations: `try_build`,
`build_payload`, `on_missing_payload`. *Correct if* a payload contains what the
request and the state determine, nothing of a failed build remains, and its own
node accepts it.

**Block executor** (`evm_executor.rs`). State: gas counters and receipts of one
block. Operations: pre-execution system calls, `execute_transaction_without_commit`,
`commit_transaction`, `finish`. *Correct if* the gas counted never exceeds the
block's limit and a failed transaction leaves no trace.

**Consensus and payload validation** (`crates/evolve/src/consensus.rs`,
`crates/node/src/validator.rs`). No state. Operations: header against parent
(equal timestamps are allowed), block before and after execution, parsing of
payloads with 0x76 transactions. *Correct if* exactly the blocks that follow
from their parent are accepted.

**Transaction selection RPC** (`crates/evolve/src/rpc/txpool.rs`, `config.rs`).
State: reads `CURRENT_BLOCK_GAS_LIMIT` and the pool. Operation: `get_txs`.
*Correct if* what it returns fits the next block and every executable
transaction is eventually returned.

**Chain configuration** (`crates/node/src/config.rs`, `chainspec.rs`, `args.rs`).
Parsing and validation of the genesis extras, read by three components.
*Correct if* all of them gate by the same settings.

**Node assembly and RPC types** (`node.rs`, `executor.rs`, `rpc.rs`,
`payload_types.rs`, `error.rs`, `tracing_ext.rs`), **ev-reth** and **ev-dev**
binaries. Launch, block environments and contexts, envelopes, RPC objects.
*Correct if* a block is built, imported and executed again in one environment,
and the RPC reports who paid.

**ev-deployer** (`bin/ev-deployer`). State: a state file (salt, steps done) and
the chain. Operations: the resumable pipeline: check the deterministic deployer,
deploy each contract by CREATE2, verify, save. *Correct if*, whatever crashes
and restarts happen, each contract is deployed at most once, at the address of
the recorded salt, and a run that is not interrupted completes.

**Sponsor service** (`bin/sponsor-service`). State: the sponsor's balance on the
chain, read per request. Operation: `sponsorIntent` (policy, balance, signature,
submission). *Correct if* it pays only for what it signed within the policy, and
answers every request.

**FeeVault and AdminProxy** (`contracts/src`). State: shares, recipients,
minimum; owner and pending owner. Operations: `distribute` and the setters;
ownership transfer in two steps, `execute`. *Correct if* the split pays out
exactly the balance and there is exactly one owner at any time.

**Client library** (`clients/src`). Fields, signing, encoding, sending; no state.
**Backup scripts** (`scripts/reth-backup`). File copies by external tools.

### Interactions

- ev-node calls `txpoolExt_getTxs` (pool, published gas limit), then
  `forkchoiceUpdated` with attributes (opens a payload job), `getPayload`
  (fetches, ends the job), `newPayload` (imports), `forkchoiceUpdated` (moves the
  head). Nothing ties these calls together: each may be delayed, repeated or
  lost, and the node may restart between any two.
- The payload service publishes the gas limit of the build for the selection RPC
  through a static: shared state between two otherwise unrelated components.
- The builder reads the *latest* state and, separately, the header of the
  *requested* parent.
- The block executor calls the handler once per transaction, at building and at
  import. The two must agree.
- The pool validator repeats some of the handler's checks, against the head
  instead of the next block.
- The mint precompile runs inside frames of the handler and is undone with them.
- ev-deployer and the sponsor service see the chain over RPC and may fail
  between sending and seeing the answer.

### What is hard here

Overlapping roles (caller, sponsor, sink and beneficiary may be one account)
through a settlement of six steps; a batch with one checkpoint and three places
where the nonce moves; jobs that read the head while it moves; a published value
nobody takes back; retries and restarts of sequencer and node; crashes of the
deployer between a transaction and the save. `hazards` in `PROJECT.json` lists
each at its line, with the properties that cover it or a note on what they leave open.

## 2. EvHandler

### State and actions

`db`, `journal` and `checkpoint` are worlds: balances, nonces, and `store`, the
number of calls that left their effect on an account, which is all that
atomicity needs to know of storage. `db` stays the state before the transaction
until `Commit`, so an invariant about phase `commit` relates the state before a
transaction to the state after it.

| action | code |
| --- | --- |
| `Begin`, `RejectStatic` | `validate_env`, `validate_initial_tx_gas` (batch sums, CREATE only first) |
| `DeductCaller`, `RejectCaller`, `PanicOnOverflow` | `validate_against_state_and_deduct_caller` without sponsor, `calculate_caller_fee` |
| `DeductSponsor`, `RejectSponsored` | the same with sponsor |
| `CallSucceeds`, `CallFails` | `execution`: one frame, single or of a batch |
| `Refund` | `refund`, `eip7623_check_gas_floor` |
| `ReimburseCaller` | `reimburse_caller` |
| `RewardBeneficiary` | `reward_beneficiary`, `BaseFeeRedirect::apply` |
| `Commit` | `execution_result` and the commit of the journal |

What a frame does is revm's: it ends in success, revert or halt with some gas
used and some refund, chosen nondeterministically from `GasUses` and `Refunds`.
Transactions, environments and initial worlds are constants.

### Runs

`handler` (`MCEvHandler.cfg`) checks seven invariants: `TypeOK`, `Conservation`
(wei in the journal plus wei the handler holds equal wei in the database, at
every step), `SettlementIsExact` (the ledger of a settled transaction, account by
account), `AllOrNothing`, `NonceAdvancesOnce`, `DeploysAreAllowed` (no top-level
`CREATE` of a batch deploys for a caller that the active allowlist does not name), and
`ValueIsCovered`: after validation, no call lacks its value, unless fee and value
come from one balance that was compared with each alone, or the values add up to
more than a word, so that validation compared a saturated sum.

Bounds: four accounts (a sender, a sponsor that may be the sender, a vault, the
account of created contracts), words up to 40, two initial distributions, seven
shapes of calls (empty, CALL, CREATE, too large a value, two CALLs, CREATE first,
CREATE second), with no, own and foreign sponsor, six environments. They are
enough for every role overlap (sink, beneficiary, sponsor and caller each meet
each other), every rejection, both sides of the activation height, the refund
cap, the gas floor above and below the gas spent, and a supply equal to the
largest word, where any wei created saturates. Numbers are tiny because the
arithmetic is linear in balances; the theorem below removes the bound.

`handler_nonce` and `handler_overflow` are findings: see section 10.

### Theorems

`EvHandlerProofs` proves, for any finite set of accounts, any word size, any
transactions, environments, frames and initial worlds that satisfy the named
assumptions:

- `TypeCorrect`: `Spec => []TypeOK`. Balances stay words and the gas in hand
  never exceeds the gas limit, so no subtraction underflows.
- `WeiConserved`: `Spec => []Conservation`.

Neither is inductive. The invariant is `IInv == TypeOK /\ Conservation /\
Admitted /\ Backed`: `Admitted` keeps what validation established for the rest of
the transaction (the price covers the base fee, the floor fits the gas limit, the
gas handed back is at most the gas limit), `Backed` says that the supply of the
database fits a word and that the checkpoint a batch may return to lacks the fee
and nothing else. `Conservation` needs the first part of `Backed`, since an
addition that saturates destroys wei, and the second for a batch that fails;
that a single balance is bounded comes in turn from conservation. The supply is
the cardinality of the set of wei; `SupplyUpdate` (changing one balance changes
it by the difference) rests on the library's theorems on finite sets.

Assumptions: `AddressAssumption`, `NumberAssumption`, `InputAssumption` (a plain
transaction has one call and no sponsor; the worst fee fits the arithmetic),
`GenesisAssumption` (the supply fits a word). TLC evaluates each on every run.

Its second part, the effects of a transaction, proves from the same assumptions:

- `BatchesAreAtomic`: `Spec => []AllOrNothing`, for batches of any length that
  fail at any call.
- `NonceMovesOnce`: `Spec => []NonceAdvancesOnce`, so the self-sponsored `CREATE`
  of the finding `handler_nonce` is the only case in which the nonce stays.
- `DeploysGated`: `Spec => []DeploysAreAllowed`, for top-level `CREATE`s at any place
  of a batch. A contract that is called may create others whoever the caller is
  (`handler.rs:71` looks at the transaction, as `docs/guide/permissioned-evm.md` says):
  the frames of the model create nothing.
- `ValuesCovered`: `Spec => []ValueIsCovered`, for batches of any length.
- `SettledExactly`: `Spec => []SettlementIsExact`, the ledger of every account
  whatever roles coincide and however many calls pay whom.

The first four share one invariant, `EInv`, on top of `IInv`. `CallByCall` follows
the execution: the journal holds one effect for every call before the one that runs
next, counted per account, and the nonce has moved unless the next call is the
first and a `CREATE`; the checkpoint holds no effect. `Validated` says that no call
after the first is a `CREATE`, so that the check of the first call covers them all.
`Covered` says that the caller has what the total leaves after the calls that ran;
since prefix sums grow (`PrefixSumsGrow`) and the capped sum is the smaller of sum
and cap (`CappedSumIsMin`), that covers the next call. It is also what leaves the
one exception of `NonceAdvancesOnce`. `SettledExactly` has an invariant of its own,
`Ledger`: the balance of each account in each phase, as the prefix sums of what it
sent and received. Settlement can subtract and add without saturation because of
`Conservation` and `Backed`.

Every property that TLC checks of the handler is proved.

### Left out

EIP-8037 state gas, EIP-7702 authorisations, blob fees, access-list warming,
the EIP-7825 cap on the gas limit of a transaction: none meets the code this
repository adds. Contracts created by called contracts (see `DeploysGated`). The
`saturating_mul` of the reimbursement (`handler.rs:369`), which cannot saturate for
the fees that `InputAssumption` admits. Fees of 2^128 wei and more are excluded by `InputAssumption`.

## 3. BlockProduction

### State and actions

`blocks` are the valid blocks the node knows, `head` the canonical one, `cap` the
static `CURRENT_BLOCK_GAS_LIMIT`, `jobs` the payload job of every payload id,
`payload` what the sequencer fetched last. The state of the chain is abstracted
to the nonce of every account: it tells any two states on a chain apart (by the
state root in the code) and decides which transaction may run. A raw transaction
decodes or does not, and its signer recovers or does not.

| action | code |
| --- | --- |
| `SetHead`, `RequestPayload` | `forkchoiceUpdated` without and with attributes (reth), attributes accepted with any timestamp (`validator.rs`), payload id from parent and standard attributes (`attributes.rs`) |
| `PublishGasLimit` | `try_build` up to `build_payload`: effective limit, publication, decoding |
| `OpenLatest` | `build_payload`: `validate`, `latest()` |
| `FindParent` | `build_payload`: the parent's header, found on the canonical chain only |
| `ExecuteNext` | one round of the loop: recovery failure aborts, execution failure skips |
| `Finish` | `finish`, sealing, `BuildOutcome::Better` |
| `Rebuild`, `Expire` | interval and deadline of the job (reth) |
| `GetPayload` | the best payload, or the build in progress awaited (`AwaitInProgress`) |
| `NewPayload` | `ensure_well_formed_payload`, consensus checks, re-execution |
| `Restart` | the process ends and starts: jobs and the static are lost, the head falls back to a persisted ancestor |

A build is split where it reads or writes what others write, so the head may
move, the node restart or the sequencer act between any two of these steps. The
parts of reth (job life cycle, head changes, persistence, the gas limit bound)
are modelled from how this code uses them and marked external.

### Runs

`production` (`MCBlockProduction.cfg`, about 408,000 states) checks

- `GasStaysInBlock`: the available-gas subtraction never underflows;
- `BuildIsGreedy`: a payload is the greedy selection, in the order of the request,
  from the state it was built on; failed and earlier builds leave no trace. The
  reference is a fold that knows nothing of jobs and steps;
- `ImportsIffBuiltOnParent`: a payload is importable exactly if it was built on
  its parent's state with timestamp and gas limit in bounds. The build that reads
  a moved head is thus always caught by the import, and nothing else is;
- `ChainNonces`: on every accepted chain each sender's nonces run 0, 1, 2, ...
  without gap or repetition, whatever was requested twice, built on a stale head,
  fetched late or imported after a restart;
- `TypeOK`.

Bounds: three blocks (a chain of two on genesis, or two siblings: the stale head,
the fork and the fallback all occur), one job at a time, two senders, two lists
of transactions (one with an undecodable one, one that no longer fits and one
that becomes valid through its predecessor; one that aborts half way), timestamps
equal to and before genesis, gas limits absent, 0, in bounds and out of bounds.
One job is enough: two jobs share only `cap`, which no build reads, and `head`,
which the run moves at every step anyway.

`production_cap` and `production_limit` are findings: see section 10.

### Theorems

`BlockProductionProofs` proves `TypeCorrect` and `GasNeverUnderflows` (`Spec =>
[]GasStaysInBlock`), `BuildsAreGreedy`, `ImportsExactly` and `NoncesRunOn` for any
transactions, gas limits, and numbers of blocks and jobs. `GasStaysInBlock` is not
inductive: nothing in it says that a build that starts has used no gas, and a job
builds repeatedly. The invariant is `IInv == TypeOK /\ GasStaysInBlock /\
FreshBuild`, where `FreshBuild` says that a job that is not executing has used none.
The arithmetic step is `IncludeBuild`: a transaction uses at most its gas limit,
which fits what the block has left.

The other three follow from `ChainInv == IInv /\ SoundJobs /\ Linked`. `SoundJobs`
says where a build is: what it took is the greedy choice among the transactions it
is done with, and replaying the choice on the state it opened succeeds and gives
the state and gas it has. `Linked` says that every block replays on its parent's
state. `BuildIsGreedy` is then a finished build. `ImportsIffBuiltOnParent` needs one
fact more, `ReplayShift`: a list of transactions moves every nonce by
the number it holds of that sender, so it cannot lead two states to one, and a
payload built on another state has another result. `ChainNonces` says that the n-th
transaction of a sender on a chain has nonce n, counting from 0, and the state the
number of its transactions; the proof is an induction along the chain of a block
and, within a block, over its transactions.

Assumptions: `InputAssumption` (types; a transaction uses at most its gas limit,
which the handler guarantees) and `NumberAssumption`. Every property that TLC
checks of block production is proved.

### Left out

The fee recipient and the base fee (section 5), system calls, receipts, requests,
envelopes and the errors that payload validation bypasses (section 4),
`build_empty_payload` (reached only if a missing payload is raced, which
`on_missing_payload` rules out), EIP-8037 gas (Amsterdam is not scheduled). The
available gas is compared with the smaller of gas limit and Osaka's cap in the code;
revm refuses a gas limit above the cap, so the outcome is one. London is active from
genesis: no block multiplies its parent's gas limit. That two requests that differ in
transactions alone share a payload id is modelled and no property's subject. The checks of the handler other
than the nonce are those of section 2.

## 4. EnginePayload

### State and actions

`BlockProduction` asks which state a block is built on; `EnginePayload` asks what
becomes of its fields on the way out and back. A block is the record of what its
header commits to and is its own hash. `job` and `built` are the payload job,
`sent` what the sequencer holds, `answer` the answer to `newPayload`; `node` says
whether it runs in dev mode and whether genesis holds the system contracts of
EIP-2935, EIP-4788 and EIP-7685.

| action | code |
| --- | --- |
| `RequestPayload`, `RequestLocal` | attributes of the sequencer (`ensure_well_formed_attributes`) and of a dev node (`attributes.rs`) |
| `Build`, `GetNothing` | `try_build`, `build_payload`: zero root and no withdrawals whatever was asked for; a gas limit of 0 is refused |
| `GetPayload`, `GetLocal` | the six envelope conversions of `payload_types.rs`, `block_to_payload` |
| `NewPayload` | version check, `convert_payload_to_block` or `ensure_well_formed_payload` with its two bypasses, `parse_evolve_payload`, execution in `context_for_payload`, consensus checks |
| `Forkchoice`, `Restart` | the head moves (reth); the node comes back with a persisted ancestor |

Which of the two conversions reth calls is its business, so both are taken.

### Run

`engine_payload` (about 226,000 states) checks

- `BuiltBlockReturns`: a built block comes back under its own hash *exactly* if its
  gas limit is within the bound of the consensus (`consensus.rs:87`), it was fetched
  with the version of its fork, the sequencer repeats the zero root, the block made
  no requests, and its parent is known and not later. On a dev node the gas limit
  alone decides. The conditions are what a sequencer has to know:
  `builder.rs:133` ignores the root of the attributes, and `payload_service.rs:272`
  drops the requests;
- `OnlyRootSubstituted`: the hash comparison that validation bypasses is made up
  for by execution. A block accepted under another hash differs in the beacon root
  alone, on a chain without the beacon-roots contract;
- `ReexecutionAgrees`: every block the node keeps executes again to the same
  result in the context of the stored block.

Bounds: a chain of three blocks and one orphan, timestamps before and at Prague,
two roots, one list of withdrawals, gas limits that are refused by the builder (0),
taken from the parent, and outside the bound of the consensus (4 after 2, with a
`BoundDivisor` of 1); blocks with both transaction types, with a
deposit, with an undecodable and a failing transaction. Each conversion looks at
one block and its parent, so longer chains add nothing; three blocks give a parent
before the fork, one after it, and a restart that forgets both.

### Theorems

`EnginePayloadProofs` proves `BuiltBlocksReturn`, `RootAloneSubstituted` and
`ReexecutionsAgree` for any transactions, roots, timestamps, gas limits and numbers of
blocks.
The invariant `IInv` follows a block from the job to the answer: `KnownInv` (the
node's blocks are closed under parents, with consecutive numbers) and `PhaseInv`
(what is built is `Honest`, that is, its header is what its execution on the parent
with the zero root gives; what is sent is an envelope of an honest block), with the
three properties. Two lemmas on the execution of a list carry it. `RunRoot`: two
executions that differ in the root alone agree on receipts, gas and requests, and on
the state exactly if there are no system contracts. `Imported`: what the import
makes of a conveyed payload is the honest block up to its root, so the comparison of
results that is left after the bypassed hash comparison decides. `AncestorsKnown`
(a restart keeps a block's ancestors) is an induction down the chain.

Assumptions: `InputAssumption` (types, and that "absent" is none of the values).

### Left out

Header fields that every conversion copies, the base fee among them: import compares
it with a function of the parent's header (`consensus.rs:89`), by which the block was
built. Payloads that no node built: what is sent is always an envelope of a block of
this node, with the root and the requests that came beside it. Blob fields (sidecars are always
empty, so no conversion fails); the access list of Amsterdam's envelope. Cancun is
active from genesis and Amsterdam is not scheduled, as in every genesis file of
the repository. `block_value` is the gas used and not the fees.

## 5. ChainConfig and Pool

### State and actions

`ChainConfig` has the pure part: `parse_custom_chain_spec` with the base-fee
overrides, `from_chain_spec` and the settings with their activation heights, what
`build_evm_config`, `build_payload_builder` and `build_pool` each take of them,
the three environments of `executor.rs` (block to build, payload to import, header
to execute again, each with difficulty, randomness and excess blob gas), what revm's
`validate_env` asks of them, and what `factory.rs` fixes for a height. `Pool` puts a node on
top of it: `head` and the `evm` it was built with, balances and nonces, the pool
with the balance it knows of each sender (`view`), the published gas limit `cap`,
the sequencer's `batch` and the block in the making.

| action | code |
| --- | --- |
| `Launch`, `RefuseLaunch`, `Crash` | start of the node (`node.rs`, `main.rs`), failing where a chain spec or component does not build; the end of the process loses pool and static |
| `AddTransaction` | `validate_transaction`: inner validation, `validate_evnode` (allowlist, calls, sponsor, balances), the outcome with the sponsor's balance |
| `GetTxs` | `get_txs`: both caps, the loop that stops at the first misfit |
| `OpenBlock` | `try_build`: publication, `resolve_fee_recipient`, `next_evm_env`, `create_evm` |
| `ExecuteNext`, `Seal` | the build loop with what executor and handler check, then import and head change |

reth's pool is external and modelled by what the code relies on: one balance per
sender, which the last validation or a block that touches the account sets, and a
best-first order by fee that respects nonces.

### Run

`pool` (about 205,000 states) checks

- `ComponentsAgree`: three components parse the settings on their own and only two
  validate them; all gate alike at every height;
- `EnvironmentsAgree`: a block is executed again in a complete environment, the one it
  was built in, as payload and as header, across activations, the London transition
  and restarts, but for two differences that the property states. Before the Merge
  the builder has a randomness (`executor.rs:247`), the others have none. And the
  builder prices blobs by the *parent's* excess blob gas as it stands
  (`executor.rs:208`), the others by the block's own: the two are at most as far apart
  as the blobs of the parent move the excess, and the first block of Cancun, whose
  parent has none, is built without a price. revm refuses every transaction in such
  an environment, so that block is empty, and empty it executes again;
- `ValidatorsAgree`: with the next nonce and enough fee, the pool admits exactly
  what the next block can execute. The exceptions are stated in the property: the
  allowlist is asked for the head's height, so one block before its activation
  the pool takes deployments the next block refuses; and the first block of London
  has a base fee and a gas limit of its own. Forks by time are those of the head;
- `BatchIsExecutable`: what a block skips of a fresh batch that fits is unfunded on
  the way, a deployment, above the cap of Osaka, or behind such a one of its sender;
  the first block of Cancun skips everything;
- `EventuallyIncluded`: a pending, executable transaction does not stay in a pool
  that fits a block. The room is needed: a transaction that does not fit hides
  all behind it (`rpc/txpool.rs:77`), even one that will never execute.

Bounds: three accounts (one pays for itself and another, one sponsors itself),
eight transactions covering each way validation ends, four chain specs that start
(no extras, without Cancun and with every fork and an excess at genesis; every gate at
its own height with Cancun and Osaka on the way; London and the Merge later) and nine
that do not, gas limits 0 and 3, blocks with no blob gas and with twice the target, an
excess up to 1, one fault, heights told apart up to 2, the last activation. A block of
Cancun with transactions may have blobs; which of them carried them is left open.
Fees order transactions of different senders, so `best_transactions` is unique.

### Theorems

`PoolProofs` proves `ComponentsAlwaysAgree`, `EnvironmentsAlwaysAgree` and
`ValidatorsAlwaysAgree` for any chain specs, transactions, limits and heights. None
is inductive: the invariant
`IInv == NodeOK /\ BuildOK /\ EvmOK` says that a running node is the one its chain
spec gives, that a block in the making is the next one in an environment of this
node, and that the EVM of the head is the one the chain spec gives its header, up to
its excess blob gas. `BlobsOK` adds what the latter is: absent on both sides, 0 after
an empty block that was built without one, or what `NextExcess` makes of the one it
was built with. It needs `HeadOK`, which says that only a complete environment executes
a transaction and that the excess of a block in the making is its parent's.
`next_evm_env` and the derivations from payload and header must agree on the
number and on what the timestamp decides, which is `OpenPreserves` and
`SealPreserves`.
`ValidatorsAlwaysAgree` compares two programs that check the same things in another
order and against another block: `HeadOK` gives the types of the head, `NextFees`
that the pool's base fee is the one of the next block, `SameAllowlist` that the two
heights the allowlist is asked for are on one side of its activation, `SameFunds`
that sponsor and sender are held to the same sums. It rests on `PoolAssumption` (a
plain transaction has calls and no sponsor) and `FileAssumption` (types of the
settings).

Model-checked only: `EventuallyIncluded` (liveness) and `BatchIsExecutable`. The
latter is not true of all constants: a transaction selected for the first block of
London may be below its base fee, and the instance has none. Stated with this
exception it would need that the best-first order exists,
a choice among all orders of a pool of any size, and sums over arbitrary selections.

### Left out

Blob parameters but for one target, and the price, which is a function of the excess;
blob transactions, which pay it; the slot number (`evm_env` has 0 where the others take it from
their input, `executor.rs:174`: no scheduled fork shows it to code); gas limits
outside the consensus bound (section 3); a priority fee below the maximal fee.
A sponsored transaction hands the *sponsor's* balance to the pool as the sender's
(`txpool.rs:535`); `view` models it, its effect on reth's sub-pools is external.

## 6. Frames, MintPrecompile, FeeVault, AdminProxy, Treasury

### State and actions

One world `w`: balances, the precompile's account (code and nonce, allowlist,
whether it existed when the transaction began), the storage of both contracts.
`Frames` has what the EVM contributes: a frame keeps or reverts what it did,
transfers, and EIP-161 clearing after a transaction, which removes an empty
account *with its storage*. `MintPrecompile` has the five calls of `mint.rs` and
their authorisation, `FeeVault` and `AdminProxy` the external functions of the
contracts. `Treasury` composes them as the comments of `AdminProxy.sol` set them
up, the proxy being `mintAdmin` and owner of the vault: `Direct` is a call by a
user, `Forwarded` an `execute`, `executeWithValue` or `executeBatch` of the
proxy, `NextBlock` lets activation heights pass.

### Runs

`treasury` (about 78,000 states) checks

- `SupplyIsAccounted`: balances are genesis plus minted minus burned, whatever
  reverts, halts on overflow or is forwarded;
- `AllowlistByOwnerOrEmptied`: the allowlist changes only where the owner of the proxy
  has it forward the change for that account (`AllowlistByOwner`), with one exception:
  an account of the precompile that was paid ether while it had neither code nor nonce
  loses the list in the transaction that empties it. `paid` is the history variable
  that remembers such a payment; in every other case the list survives clearing;
- `DistributionIsExact`: a distribution empties the vault, rounds the bridge's
  share down, respects the minimum, and pays the rest to the other recipient (two
  recipients that differ and are not the vault itself).

`treasury_clear` asks for `AllowlistByOwner` without the exception: a finding
(section 10). In both runs the precompile activates at height 1, so that ether can
reach its address before, and by calls and batches with value after.

Bounds: two users, four transactions, balances up to 5 (the largest word, so that
a mint overflows), shares of none, half and all, twelve direct calls and fifteen
batches: each call, authorised and not, batches that fail at the second call, an
owner that is handed over, recipients that refuse. Four transactions are one more
than the longest scenario needs (set recipients, fund, distribute).

### Theorems

`TreasuryProofs` proves `SupplyAccounted`, `AllowlistOwned` and `DistributionsExact`
for any accounts, word size, shares, direct calls and batches of any length.

Every operation of the model is a function from a world to a result, so the proof
is by composition and not by phases: `Steps(u, v, S)` says that the way from `u` to
`v` keeps the books (balances and burned against minted) and changes the allowlist
for the accounts in `S` at most. Every operation is shown to be such a step
(`TransferSteps`, `MintCallSteps`, `DistributeSteps`, `CallSteps`, ...), steps
compose (`StepsThen`), and a batch is an induction over its calls (`ExecuteSteps`)
in which the first failure returns to the beginning. The total is the number of wei,
`{<<a, n>> : n <= bal[a]}`, so that one changed balance changes it by the difference
(`TotalUpdate`). The inductive invariant is `w \in World /\ height \in Nat /\
SupplyIsAccounted`; that balances are words is what makes a credit that overflows
halt and not wrap.

`AllowlistOwned` (`Spec => AllowlistByOwnerOrEmptied`) has no hypothesis on activation
or payments. An account is `Held` if it is marked with code and nonce or was paid.
`Secured`, that an account with ether or a list is held, is invariant between
transactions, and within one `Safe` adds the account that existed at its beginning,
for which `ensure_account_created` does nothing. Transfers and contracts are `Quiet`:
the list stays, and ether they bring is on record as paid. So when clearing takes a
list, the account was held and is not marked, hence was paid, which is the exception.

`DistributionsExact` is arithmetic on one transaction: the product of balance and
share is checked (Solidity reverts on overflow), `ShareOf` bounds the rounding, and
`Amounts` follows the two payments when the recipients differ from the vault and
from each other, one of them possibly being the caller.

Assumptions: `FramesAssumption` (finitely many accounts, the precompile and the
contracts at addresses of their own), `ActivationAssumption`, `ShareAssumption`
(`10000` in the code is not 0), `TreasuryAssumption` (types; users are no contracts;
the vault's constructor bounds the share). Every property that TLC checks is proved.

Left out: events, gas, functions that only read; contracts besides the two, and with
them `STATICCALL` and `DELEGATECALL` to the precompile (`mint.rs:210`) and ether that
reaches its address by `SELFDESTRUCT`; fees credited to that address; a batch that makes
the proxy its own owner and then has it call its own `execute`. `executeWithValue` is a
batch of one call with value.

## 7. TxCodec and SponsorFlow

### State and actions

`TxCodec` writes the 0x76 transaction twice, as `tx.rs` and as `encoding.ts` and
`signing.ts` do it: fields in order, the two signing payloads, the sponsor
signature (byte `v` 0 or 1 from the client, 27 or 28 from the node), the refusals
of the node's decoder (leading zeros, words too large), the compact form of the
database. RLP is an injective code of trees and keccak is injective, so encodings
and hashes are what they encode; a signature recovers its key for the payload it
was made for and a stranger otherwise.

`SponsorFlow` runs clients, the service and the node over it. A request passes the
stages between two awaits of the service:

| action | code |
| --- | --- |
| `Start`, `SignAndSend` | `resolveBaseFields`, signing, encoding, sending to node or service (`client.ts`) |
| `Reprice`, `Resend` | a client signs anew under an old sponsor signature, or repeats its bytes |
| `HandleSendRaw` | `handleEvNodeSendRaw`: decoding, pass-through of sponsored bytes, policy |
| `AnswerBalance`, `sponsorIntent` | the balance is read, compared, the intent signed and submitted |
| `Receive`, `Timeout` | the answer, or ten seconds without one; the node may see the call later |
| `SendRawTransaction`, `LoseCall`, `Mine` | pool and block of the node |

### Run

`sponsorship` (about 93,000 states) checks

- `SignersAgree`: in whatever bytes travel, both codecs read one transaction,
  executor and sponsor, re-encoding and database included;
- `ChargesAreApproved`: a sponsor is charged only for what it signed, the service
  only within its policy, whoever sends the bytes and how often;
- `ReportsAreTrue`: receipts and transactions name who paid, though the payer is
  not stored and each query recovers it;
- `OverdraftIsBounded`: the comment of `sponsor-service.ts:46` admits a race on the
  balance. The balance may fall below the minimum (or below what the account had,
  if that was less), by at most one transaction of the policy for each sponsorship
  open at once;
- `RefusedIsUnsponsored`: what the service signed belongs to a request it did not
  refuse, or refused only when the client repeated an intent that was signed before
  (the sponsor's balance may have fallen in between);
- `EventuallyAnswered`: every request that reaches the service is answered,
  whatever becomes of the node.

Bounds: two executors, two requests at once (the race needs two), one fault, seven
jobs (by the service, self-sponsored, unsponsored with CREATE and access list,
above the policy, above a word, without gas, without calls), both signature parities, a sponsor
balance at exactly the minimum. Deadlock is not checked: clients stop sending.

### Theorems

`SponsorFlowProofs` proves, for any executors, jobs, limits of the policy, balances,
parities, word size and numbers of requests and faults:

- `CodecsAgree`: what either program encodes the client decodes as the same
  transaction; the node decodes both encodings if every number is a word, refuses
  both otherwise, and gets what it decodes back from its database;
- `SignersAlwaysAgree`, `ChargesAlwaysApproved`, `ReportsAlwaysTrue`,
  `RefusalsAreClean`, `OverdraftAlwaysBounded`: `Spec => []P` for the five
  invariants of the run.

`CodecsAgree` is an induction over the digits of a number (by halving it:
`HalvingInductive`) and a comparison of lists item by item. The rest needs to know
*which* bytes can travel. `Bytes(e, tx, key, old)` are those of the transaction `tx`
signed by `e` that carries a signature of `key` on `old`; they are `Genuine` when
`key` gave that signature, and when `old` is `tx` or `tx` is a dearer copy
(`Reprice`). The inductive invariant is `IInv == FlowInv /\ PeakInv`:

- `RequestsInv`, `NodeInv`: whatever a request, the wire, the pool or the database
  holds is genuine. A transaction that carries the signature of another one
  recovers `Stranger` as its sponsor, and `LedgerInv` says that this account stays
  empty; such a transaction has a fee and needs gas (`validate_initial_tx_gas`), so
  it is never mined. Hence what is mined carries a signature on itself, which is
  what charges and reports need.
- `ApprovalInv`: approvals of the service are within the policy, and each belongs to
  a request that is being submitted, was answered other than by a refusal, or is
  being repeated.
- `PeakInv`: what is missing in the account of the service was spent on as many
  sponsorships as were once open and are `Live` no longer, that is
  `bal[Sponsor] + (peak - Cardinality(Live)) * MaxCost >= Floor`. A charge takes at
  most `MaxCost` and ends a live sponsorship; one is opened only by an answer of at
  least the minimum, read from the present balance, in which state the bound holds
  anew. `Open` alone would not do: it also holds requests whose nonce was used by
  another transaction, and which can not be charged.

`Effects` says what any action of a client or of the service may do: move one
request, and add genuine calls and approvals. Each of them is shown to do no more,
and `EffectsKeep` and `EffectsPeak` are proved once for all of them; the node's
steps have proofs of their own (`CallKeeps`, `MineKeeps`, `MinePeak`).

Assumptions: `SponsorAssumption` (types of the constants), `PartyAssumption` (the
service, the local sponsor and the stranger are different accounts and no
executors), `JobsAssumption` (types of `EvnodeSendArgs`), `AnswerAssumption`,
`WordAssumption` (a word holds 1). The bound of the overdraft mentions the initial
balance: an account that starts below the minimum sponsors nothing, and is below
it.

Model-checked only: `EventuallyAnswered`.

### Left out

One bound for all widths of numbers (`u64`, `u128`, `U256`); bytes that no client
produces. Gas below the limit and refunds, credits to recipients, Ethereum
transactions and other proxied methods, the health and policy routes (they read).

Known and not a property: because of the byte `v`, `computeTxHash` of the client
differs from the node's hash for a sponsored transaction (no code uses it so), and
`docs/adr/ADR-0003` describes another sponsor payload than both programs use. A
caller that repeats `send` after a timeout, and not its bytes, gets a new nonce and
may execute twice.

## 8. Deployer and DeployOnce

### State and actions

The operator's `config` and endpoint, the genesis files and code of the chains,
deploy transactions, the state file and its temporary copy, and the running
process, which may be killed between any two of its effects.

| action | code |
| --- | --- |
| `Edit`, `InitCommand`, `GenesisCommand` | changes of `deploy.toml`; `init`; `genesis --merge-into` with and without `--force` |
| `StartChain`, `StartDev` | a chain starts from its genesis; ev-dev merges first |
| `DeployCommand`, `CheckChainId`, `CheckFactory` | validation, steps 1 and 2 of `run` |
| `LoadOrCreate`, `SaveWrite`, `SaveRename` | the state file: load and `validate_immutability`, or a new salt saved before use |
| `Probe`, `SendCreate2`, `GetReceipt` | `deploy_contract` |
| `VerifyAll`, `Output` | `verify_all`, manifest |
| `Abort`, `MineTx` | a kill or failed call, a write cut short; a transaction mined at any later time, reverting or not |

`DeployOnce` is what the deployer's README promises: the salt is chosen once, the
contract created at most once, claimed and verified only when it is there.

### Run

`deployer` (about 355,000 states) checks `OneDeployment` (every deploy transaction
carries the salt and chain of the state file), `RecordsAreTrue` (file and manifest
against the chain), `ImplementsDeployOnce` (the refinement; salt, creation and
record are read off the state file and the chain), `MergeKeepsAccounts` (a merge
loses no account, puts at each configured address the contract built for it and leaves
no second spelling of the address), and
`EventuallyVerified` (once the setup stays resumable, repeated runs verify the
contract from whatever the cut runs left).

Bounds: two chains, two salts, five configs, one edit, two faults (a crash and a
late or failed transaction), genesis files without factory, with a prefixed
spelling, and with other code in the factory's place. The theorems remove them.

### Theorems

`DeployerProofs` proves `OneDeploymentHolds`, `RecordsHold`, `MergesKeepAccounts`
(`Spec => MergeKeepsAccounts`) and `Refinement`
(`Spec => ImplementsDeployOnce`) for any chains, configs, salts, genesis files and
numbers of edits and faults. The inductive invariant `IInv` has seven parts; those
that carry the argument are `TxsOK` (transactions have the file's salt and chain,
and one that succeeded on a real factory left the contract), `CodeOK` (only the
deployment of the file puts code at a CREATE2 address) and `SaveOK` (a state being
saved is new, or the file advanced by one step whose evidence is on the chain),
with `RunOK` saying that outside a save the process's copy is the file. The
refinement then maps `SaveRename` to `Choose`, `Claim` or `Verify`, a mined
transaction to `Create`, and everything else to a stutter. Assumptions:
`AddressAssumption` (CREATE2 addresses are none of the configured ones),
`FileAssumption`, `InputAssumption`.

Model-checked only: `EventuallyVerified`.

ev-dev merges into the genesis file that is compiled into it, so `GenesisCommand`
does not write the file of its chain.

Left out: `compute-address` and the manifest of `genesis` (they print), the banner
of ev-dev; the balance of a placed account, which `insert_contract` sets to zero; a chain that loses its history, on which a file that says verified is
believed without a look (`pipeline.rs:205`).

## 9. Fairness and deadlock

`EvHandler`, `BlockProduction`, `EnginePayload` and `Treasury` state safety only.
Liveness is claimed of three, and of nothing the code does not drive itself:

- `Pool`: weak fairness of the sequencer's loop (ev-node selects and builds on a
  timer, and does not ask for a gas limit of 0 for ever) and of the build that was
  opened. None of users, launch or crash.
- `SponsorFlow`: weak fairness of the service's event loop for a request it has
  received, and of a timer that is set (`AbortSignal.timeout`, ten seconds). None
  of the node, the network or the clients.
- `Deployer`: weak fairness of the process's own steps including the operator's
  next `deploy`, and of mining what a chain accepted. `get_receipt` waits without a
  timeout (`deployer.rs:84`), so the last is needed: a transaction that is never mined
  leaves the command waiting. None of the configuration:
  the property assumes a setup that stays resumable.

Liveness is out of TLAPS's reach here and stays with TLC.

Deadlock is checked in every run but `sponsorship`, where clients may be done.

## 10. Findings

- `handler_nonce`: a comment says the nonce always increments even on failure.
  A single CREATE of a caller that is its own sponsor, with a value that its
  balance covers before the fee and not after, is charged for gas and leaves the
  nonce. `NonceAdvancesOnce` states the rule with exactly this exception.
- `handler_overflow`: the `expect` in `calculate_caller_fee` claims that the
  spending cannot overflow; no earlier check bounds it.
- `production_cap`: the README says the cap of transaction selection follows the
  head block's gas limit. It is the limit of the last build *started*, which may
  have failed, expired or never been imported.
- `production_limit`: the README offers custom gas limits per payload. The
  consensus rule keeps Ethereum's bound against the parent, so a payload with a
  limit outside it is built and then refused.
- `treasury_clear`: a comment in `mint.rs` says the precompile's account is made
  non-empty so that pruning does not wipe its storage. This happens only where the
  account did not exist. One that got ether before the activation is not marked;
  when its balance is burned it is empty and goes, with the allowlist.

## 11. Not modelled

- Backup scripts: the consistency of a copy lies in MDBX and reth's static files.
- `evm.rs`, `api/` of ev-revm: delegation to revm, generic in its types, no state.
- Conversions that only rename fields (`rpc.rs`, `pool.rs`, `error.rs`), tracing,
  argument parsing, key derivation and banner of ev-dev.
- EIP-8037 state gas, EIP-7702 authorisations, blobs: carried through to revm and
  reth unchanged.
- Bytecode of the contracts and its immutables: abstracted to what it depends on.

## 12. Induction, and what stays with TLC

The library's induction rules take the formula to prove as a parameter, which the
provers cannot instantiate. `IteratorsProofs` therefore states induction about sets:
a set that holds 0 and with every number its successor holds all numbers
(`NatInductive`, from the least element of a set of naturals), the same for the
numbers of an interval and for sequences (`SeqInductive`), where the set is the set of the
arguments that satisfy the claim. `Recursion` shows that a function defined by
recursion along an interval exists. `Iterators` has the folds of the models with a
step that is a *function*, so that `FoldSteps` and `FoldAppend` hold for all of them:
the lemmas on batches, builds, replays and executions are inductions by these.

With TLC alone:

- liveness: `EventuallyIncluded`, `EventuallyVerified`, `EventuallyAnswered`;
- `BatchIsExecutable` (section 5).
