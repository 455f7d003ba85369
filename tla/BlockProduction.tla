--------------------------- MODULE BlockProduction ---------------------------
(***************************************************************************)
(* Block production and import.  The sequencer (ev-node) drives the node   *)
(* over the Engine API: forkchoiceUpdated with attributes opens a payload  *)
(* job (payload_service.rs), the job builds a block (builder.rs) with the  *)
(* block executor (evm_executor.rs), getPayload fetches it and newPayload  *)
(* imports it (validator.rs, consensus.rs).                                *)
(*                                                                         *)
(* Jobs run concurrently with each other and with every call of the        *)
(* sequencer.  A build has the steps at which the code reads or writes     *)
(* what others write: publishing the gas limit, reading the latest state,  *)
(* reading the parent's header, executing one transaction, finishing.      *)
(*                                                                         *)
(* The state of the chain is the nonce of every account: enough to tell    *)
(* two states on a chain apart and to decide which transaction may run.    *)
(***************************************************************************)
EXTENDS Integers, Sequences, SequencesExt, FiniteSets, Iterators

CONSTANTS
  Account,          \* the senders
  None,             \* Option::None
  Txs,              \* raw transactions of payload attributes
  Batches,          \* the transaction lists the sequencer may ask for
  Timestamps,       \* the timestamps it may ask for
  GasLimits,        \* the gas limits it may ask for
  GenesisGasLimit,
  GenesisTimestamp,
  DefaultCap,       \* DEFAULT_MAX_TXPOOL_GAS
  BoundDivisor,     \* GAS_LIMIT_BOUND_DIVISOR, 1024
  MinGasLimit,      \* MINIMUM_GAS_LIMIT, 5000
  MaxBlocks,        \* bound: blocks the node knows
  MaxJobs           \* bound: payload jobs alive

VARIABLES
  blocks,    \* the valid blocks the node knows, genesis first
  head,      \* the canonical head, an index of blocks
  cap,       \* CURRENT_BLOCK_GAS_LIMIT
  jobs,      \* the payload job of every payload id, or None
  payload    \* the payload the sequencer fetched last, or None

vars == <<blocks, head, cap, jobs, payload>>

(* A raw transaction: kind tells whether it decodes, and if so whether its *)
(* signer recovers; used is the gas its execution uses.                    *)
Transaction ==
  [kind : {"ok", "undecodable", "unrecoverable"}, sender : Account, nonce : Nat,
   gas_limit : Nat, used : Nat]

Nonces == [Account -> Nat]

Block ==
  [parent : 0 .. MaxBlocks, number : Nat, timestamp : Nat, gas_limit : Nat,
   gas_used : Nat, txs : Seq(Txs), state : Nonces]

(* EvolveEnginePayloadAttributes::payload_id: parent and timestamp count,  *)
(* transactions and gas_limit do not.                                      *)
PayloadId == (1 .. MaxBlocks) \X Timestamps

Parent(id) == blocks[id[1]]

(* What a build keeps in its local variables: the effective gas limit, the *)
(* transactions left, the state it started from, and the state, gas and    *)
(* transactions of the block so far.                                       *)
Progress ==
  [limit : Nat, todo : Seq(Txs), base : Nonces, state : Nonces, used : Nat,
   txs : Seq(Txs)]

NoProgress ==
  [limit |-> 0, todo |-> <<>>, base |-> [a \in Account |-> 0],
   state |-> [a \in Account |-> 0], used |-> 0, txs |-> <<>>]

(* A payload job: the attributes, the build in progress, and the best      *)
(* payload so far with the state it was built on.                          *)
Job ==
  [request : Batches, gas_limit : GasLimits \cup {None},
   stage : {"waiting", "published", "opened", "executing", "idle"}, build : Progress,
   best : Block \cup {None}, best_base : Nonces]

(* The transactions of a request that decode.                              *)
Decoded(request) ==
  Fold(request, <<>>,
       [txs \in Seq(Txs) |-> [t \in Txs |->
          IF t.kind = "undecodable" THEN txs ELSE Append(txs, t)]])

ASSUME InputAssumption ==
  /\ Txs \subseteq Transaction
  /\ \A t \in Txs : t.used <= t.gas_limit
  /\ Batches \subseteq Seq(Txs)
  /\ Timestamps \subseteq Nat
  /\ GasLimits \subseteq Nat
  /\ None \notin Nat /\ None \notin Block /\ None \notin Job

ASSUME NumberAssumption ==
  /\ GenesisGasLimit \in Nat \ {0}
  /\ {GenesisTimestamp, DefaultCap, MinGasLimit, MaxJobs} \subseteq Nat
  /\ {BoundDivisor, MaxBlocks} \subseteq Nat \ {0}

-----------------------------------------------------------------------------
(* The block executor.                                                     *)

(* Mutant: the gas used by earlier transactions is not taken off.          *)
AvailableWhole(t, limit, used) == t.gas_limit <= limit

(* The code compares the smaller of the transaction's gas limit and the    *)
(* cap of Osaka: a transaction above the cap is refused all the same, by   *)
(* revm.                                                                   *)
Available(t, limit, used) == t.gas_limit <= limit - used

(* Mutant: a nonce that was used before passes.                            *)
ExecutableAgain(t, state, limit, used) ==
  Available(t, limit, used) /\ t.nonce <= state[t.sender]

(* execute_transaction_without_commit succeeds.  Of the checks of the      *)
(* handler it keeps the nonce, the one that depends on earlier blocks and  *)
(* transactions.                                                           *)
Executable(t, state, limit, used) ==
  Available(t, limit, used) /\ t.nonce = state[t.sender]

AfterCommit(t, state) == [state EXCEPT ![t.sender] = @ + 1]

Outcome == [ok : BOOLEAN, state : Nonces, used : Nat]

(* The import of a block executes its transactions one by one and stops at *)
(* the first that fails.                                                   *)
Replay(state, limit, txs) ==
  Fold(txs, [ok |-> TRUE, state |-> state, used |-> 0],
       [r \in Outcome |-> [t \in Txs |->
          IF r.ok /\ Executable(t, r.state, limit, r.used)
          THEN [ok |-> TRUE, state |-> AfterCommit(t, r.state), used |-> r.used + t.used]
          ELSE [r EXCEPT !.ok = FALSE]]])

-----------------------------------------------------------------------------
(* Consensus and payload validation.                                       *)

(* validate_against_parent_gas_limit.  London is active from genesis: no   *)
(* block multiplies its parent's limit by the elasticity.                  *)
GasLimitInBounds(limit, parent) ==
  LET diff == IF limit > parent THEN limit - parent ELSE parent - limit
  IN  diff < parent \div BoundDivisor /\ limit >= MinGasLimit

ValidHeaderAgainstParent(b, p) ==
  /\ b.number = p.number + 1
  /\ b.timestamp >= p.timestamp
  /\ GasLimitInBounds(b.gas_limit, p.gas_limit)

(* Mutant: the state root of the block is not compared.                    *)
ValidBlockNoRoot(b) ==
  LET p == blocks[b.parent]
      r == Replay(p.state, b.gas_limit, b.txs)
  IN  /\ ValidHeaderAgainstParent(b, p)
      /\ b.gas_used <= b.gas_limit
      /\ r.ok
      /\ r.used = b.gas_used

(* ensure_well_formed_payload gets through to the header checks and the    *)
(* execution for every block this node built.                              *)
ValidBlock(b) ==
  LET p == blocks[b.parent]
      r == Replay(p.state, b.gas_limit, b.txs)
  IN  /\ ValidHeaderAgainstParent(b, p)
      /\ b.gas_used <= b.gas_limit
      /\ r.ok
      /\ r.used = b.gas_used
      /\ r.state = b.state

-----------------------------------------------------------------------------
(* The chain.                                                              *)

GenesisBlock ==
  [parent |-> 0, number |-> 0, timestamp |-> GenesisTimestamp,
   gas_limit |-> GenesisGasLimit, gas_used |-> 0, txs |-> <<>>,
   state |-> [a \in Account |-> 0]]

(* Chain(i)[n] is the n-th ancestor of block i, itself the 0-th.           *)
Chain(i) ==
  LET up[n \in 0 .. blocks[i].number] == IF n = 0 THEN i ELSE blocks[up[n - 1]].parent
  IN  up

Ancestors(i) == {Chain(i)[n] : n \in 1 .. blocks[i].number}

Init ==
  /\ blocks = <<GenesisBlock>>
  /\ head = 1
  /\ cap = DefaultCap
  /\ jobs = [id \in PayloadId |-> None]
  /\ payload = None

(* forkchoiceUpdated without attributes.  A canonical ancestor of the head *)
(* is answered without moving it.                                          *)
SetHead(b) ==
  /\ b # head /\ b \notin Ancestors(head)
  /\ head' = b
  /\ UNCHANGED <<blocks, cap, jobs, payload>>

(* forkchoiceUpdated with attributes.  They are accepted with any          *)
(* timestamp.  A job that is alive under the same id is kept as it is.     *)
RequestPayload(id, request, gas_limit) ==
  /\ id[1] \notin Ancestors(head)
  /\ head' = id[1]
  /\ \/ /\ jobs[id] = None
        /\ Cardinality({i \in PayloadId : jobs[i] # None}) < MaxJobs
        /\ jobs' = [jobs EXCEPT ![id] =
             [request |-> request, gas_limit |-> gas_limit, stage |-> "waiting",
              build |-> NoProgress, best |-> None, best_base |-> NoProgress.base]]
     \/ jobs[id] # None /\ UNCHANGED jobs
  /\ UNCHANGED <<blocks, cap, payload>>

-----------------------------------------------------------------------------
(* The build of a payload job.                                             *)

Active(id, stage) == jobs[id] # None /\ jobs[id].stage = stage

(* Mutant: a request without a gas limit has no default.                   *)
EffectiveGasLimitNoDefault(id) == jobs[id].gas_limit

EffectiveGasLimit(id) ==
  IF jobs[id].gas_limit = None THEN Parent(id).gas_limit ELSE jobs[id].gas_limit

(* try_build up to the call of build_payload: the limit is published and   *)
(* what does not decode is dropped.                                        *)
PublishGasLimit(id) ==
  /\ Active(id, "waiting")
  /\ cap' = EffectiveGasLimit(id)
  /\ jobs' = [jobs EXCEPT ![id].stage = "published",
                          ![id].build.limit = EffectiveGasLimit(id),
                          ![id].build.todo = Decoded(jobs[id].request)]
  /\ UNCHANGED <<blocks, head, payload>>

(* A build that fails leaves the job alive with the payload it has.        *)
Fail(id) == jobs' = [jobs EXCEPT ![id].stage = "idle", ![id].build = NoProgress]

(* build_payload opens the state of the head of this moment, after it      *)
(* refused a gas limit of 0.                                               *)
OpenLatest(id) ==
  /\ Active(id, "published")
  /\ IF jobs[id].build.limit = 0
     THEN Fail(id)
     ELSE jobs' = [jobs EXCEPT
            ![id].stage = "opened",
            ![id].build = [@ EXCEPT !.base = blocks[head].state,
                                    !.state = blocks[head].state]]
  /\ UNCHANGED <<blocks, head, cap, payload>>

(* The header of the requested parent is looked up, apart from the state:  *)
(* the node finds the headers of the canonical chain.                      *)
FindParent(id) ==
  /\ Active(id, "opened")
  /\ IF id[1] = head \/ id[1] \in Ancestors(head)
     THEN jobs' = [jobs EXCEPT ![id].stage = "executing"]
     ELSE Fail(id)
  /\ UNCHANGED <<blocks, head, cap, payload>>

(* Mutant: the gas of a skipped transaction stays counted.                 *)
SkipCountsGas(b) == [b EXCEPT !.todo = Tail(@), !.used = @ + Head(b.todo).used]

(* A transaction that fails to execute is skipped.                         *)
Skip(b) == [b EXCEPT !.todo = Tail(@)]

Include(b) ==
  LET t == Head(b.todo)
  IN  [b EXCEPT !.todo = Tail(@), !.state = AfterCommit(t, @),
                !.used = @ + t.used, !.txs = Append(@, t)]

(* One round of the loop of build_payload; a signer that does not recover  *)
(* ends the whole build.                                                   *)
ExecuteNext(id) ==
  LET b == jobs[id].build
      t == Head(b.todo)
  IN  /\ Active(id, "executing")
      /\ b.todo # <<>>
      /\ IF t.kind = "unrecoverable"
         THEN Fail(id)
         ELSE jobs' = [jobs EXCEPT ![id].build =
                IF Executable(t, b.state, b.limit, b.used) THEN Include(b) ELSE Skip(b)]
      /\ UNCHANGED <<blocks, head, cap, payload>>

(* The block that the finished build seals: header fields from the         *)
(* requested parent, state from the execution.                             *)
Sealed(id) ==
  LET b == jobs[id].build
  IN  [parent |-> id[1], number |-> Parent(id).number + 1, timestamp |-> id[2],
       gas_limit |-> b.limit, gas_used |-> b.used, txs |-> b.txs, state |-> b.state]

Finish(id) ==
  /\ Active(id, "executing")
  /\ jobs[id].build.todo = <<>>
  /\ jobs' = [jobs EXCEPT ![id].stage = "idle",
                          ![id].build = NoProgress,
                          ![id].best = Sealed(id),
                          ![id].best_base = jobs[id].build.base]
  /\ UNCHANGED <<blocks, head, cap, payload>>

(* The interval of the job ticks: it builds again, and every build is a    *)
(* better one.                                                             *)
Rebuild(id) ==
  /\ Active(id, "idle")
  /\ jobs' = [jobs EXCEPT ![id].stage = "waiting"]
  /\ UNCHANGED <<blocks, head, cap, payload>>

(* The deadline of the job passes.                                         *)
Expire(id) ==
  /\ jobs[id] # None
  /\ jobs' = [jobs EXCEPT ![id] = None]
  /\ UNCHANGED <<blocks, head, cap, payload>>

-----------------------------------------------------------------------------
(* Fetching, importing, restarting.                                        *)

(* getPayload takes the best payload at once; without one it awaits the    *)
(* build in progress, and fails if there is none.  It ends the job.        *)
GetPayload(id) ==
  /\ jobs[id] # None
  /\ \/ /\ jobs[id].best # None
        /\ payload' = jobs[id].best
     \/ /\ jobs[id].best = None /\ jobs[id].stage = "idle"
        /\ UNCHANGED payload
  /\ jobs' = [jobs EXCEPT ![id] = None]
  /\ UNCHANGED <<blocks, head, cap>>

(* newPayload, at any time and any number of times after the payload was   *)
(* fetched: a valid block becomes known, an invalid one changes nothing.   *)
NewPayload ==
  /\ payload # None
  /\ ValidBlock(payload)
  /\ payload \notin ToSet(blocks)
  /\ Len(blocks) < MaxBlocks
  /\ blocks' = Append(blocks, payload)
  /\ UNCHANGED <<head, cap, jobs, payload>>

(* The process ends and starts again: jobs and the static are gone, the    *)
(* head is the last block that was persisted.                              *)
Restart(h) ==
  /\ h = head \/ h \in Ancestors(head)
  /\ head' = h
  /\ cap' = DefaultCap
  /\ jobs' = [id \in PayloadId |-> None]
  /\ UNCHANGED <<blocks, payload>>

Next ==
  \/ \E b \in DOMAIN blocks : SetHead(b)
  \/ \E b \in DOMAIN blocks, ts \in Timestamps, r \in Batches,
        g \in GasLimits \cup {None} : RequestPayload(<<b, ts>>, r, g)
  \/ \E id \in PayloadId :
       \/ PublishGasLimit(id)
       \/ OpenLatest(id)
       \/ FindParent(id)
       \/ ExecuteNext(id)
       \/ Finish(id)
       \/ Rebuild(id)
       \/ Expire(id)
       \/ GetPayload(id)
  \/ NewPayload
  \/ \E h \in DOMAIN blocks : Restart(h)

Spec == Init /\ [][Next]_vars

-----------------------------------------------------------------------------
(* Properties.                                                             *)

(* Every variable has its type, and the parent of a job is known.          *)
TypeOK ==
  /\ blocks \in Seq(Block) /\ Len(blocks) \in 1 .. MaxBlocks
  /\ head \in DOMAIN blocks
  /\ cap \in Nat
  /\ jobs \in [PayloadId -> Job \cup {None}]
  /\ \A id \in PayloadId : jobs[id] # None => id[1] \in DOMAIN blocks
  /\ payload \in Block \cup {None}

(* The subtraction of the gas used from the block gas limit never          *)
(* underflows, at any transaction of any build, repeated builds included.  *)
GasStaysInBlock ==
  \A id \in PayloadId :
    Active(id, "executing") => jobs[id].build.used <= jobs[id].build.limit

(* The payload of a job is what its request and the state it was built on  *)
(* determine: every decodable transaction is in it that can execute after  *)
(* the ones before it, in the order asked for, and a skipped transaction   *)
(* leaves no trace.  Earlier and failed builds of the job leave none       *)
(* either.                                                                 *)
Greedy(base, limit, request) ==
  Fold(request, [state |-> base, used |-> 0, txs |-> <<>>],
       [r \in [state : Nonces, used : Nat, txs : Seq(Txs)] |-> [t \in Txs |->
          IF t.kind = "ok" /\ t.gas_limit + r.used <= limit /\ t.nonce = r.state[t.sender]
          THEN [state |-> [r.state EXCEPT ![t.sender] = @ + 1],
                used |-> r.used + t.used, txs |-> Append(r.txs, t)]
          ELSE r]])

BuildIsGreedy ==
  \A id \in PayloadId : jobs[id] # None /\ jobs[id].best # None =>
    LET best == jobs[id].best
    IN  Greedy(jobs[id].best_base, best.gas_limit, jobs[id].request)
          = [state |-> best.state, used |-> best.gas_used, txs |-> best.txs]

(* A payload is importable exactly if it was built while the head had the  *)
(* state of its parent, and its timestamp and gas limit are in bounds:     *)
(* builder and importer agree on every execution, and no block built on    *)
(* another state than its parent's ever passes.                            *)
ImportsIffBuiltOnParent ==
  \A id \in PayloadId : jobs[id] # None /\ jobs[id].best # None =>
    LET best == jobs[id].best
    IN  ValidBlock(best) <=>
          /\ jobs[id].best_base = Parent(id).state
          /\ best.timestamp >= Parent(id).timestamp
          /\ GasLimitInBounds(best.gas_limit, Parent(id).gas_limit)

(* The transactions from genesis to block i, oldest first.                 *)
History(i) ==
  LET number == blocks[i].number
      txs[n \in 0 .. number] ==
        IF n = 0 THEN <<>> ELSE txs[n - 1] \o blocks[Chain(i)[number - n]].txs
  IN  txs[number]

(* How many of the first n transactions of a history are of sender a.      *)
SentBy(a, txs, n) == Cardinality({k \in 1 .. n : txs[k].sender = a})

(* On every chain the node accepts, whatever was asked for twice, built on *)
(* a stale head or fetched late: each sender's nonces run 0, 1, 2, ...     *)
(* without gap or repetition, and the state counts them.                   *)
ChainNonces ==
  \A i \in DOMAIN blocks :
    LET txs == History(i)
    IN  /\ \A k \in 1 .. Len(txs) : txs[k].nonce = SentBy(txs[k].sender, txs, k - 1)
        /\ \A a \in Account : blocks[i].state[a] = SentBy(a, txs, Len(txs))

(* "Txpool gas cap: Follows the head block's gas limit automatically"      *)
(* (README.md): once a block was built in this process, with a produced    *)
(* block at the head and no job alive, the cap is its gas limit.           *)
GasCapFollowsHead ==
  head # 1 /\ cap # DefaultCap /\ (\A id \in PayloadId : jobs[id] = None) =>
    cap = blocks[head].gas_limit

(* "Supports custom gas limits per payload." (README.md): a payload built  *)
(* on its parent's state with a timestamp in order is importable, whatever *)
(* positive gas limit was asked for.                                       *)
CustomGasLimitsImport ==
  \A id \in PayloadId :
    /\ jobs[id] # None /\ jobs[id].best # None
    /\ jobs[id].best_base = Parent(id).state
    /\ id[2] >= Parent(id).timestamp
    => ValidBlock(jobs[id].best)

=============================================================================
