-------------------------------- MODULE Pool --------------------------------
(***************************************************************************)
(* From the transaction pool to the block: the node starts from a chain    *)
(* spec, its validator admits transactions (node/src/txpool.rs), the       *)
(* sequencer selects some with txpoolExt_getTxs (evolve/src/rpc/txpool.rs) *)
(* and has a block built of them.  The pool itself is reth's; what the     *)
(* code relies on is modelled and marked external: a sender has one        *)
(* balance in the pool, which is the one of the validation that came last  *)
(* or of the last block that touched the account.                          *)
(*                                                                         *)
(* Heights above MaxHeight, where nothing activates any more, are one, and *)
(* so are excesses of blob gas above MaxExcess.  The blobs of transactions *)
(* are left open: a block with transactions may use any blob gas.          *)
(***************************************************************************)
EXTENDS ChainConfig, FiniteSets, FiniteSetsExt, SequencesExt

CONSTANTS
  Files,          \* the chain spec files
  Txs,            \* the transactions that users may submit
  Genesis,        \* the balances of the accounts at genesis
  GasLimits,      \* the gas limits the sequencer asks for
  GenesisLimit,
  Timestamps,     \* the timestamps of blocks
  Recipients,     \* the fee recipients it suggests
  Randaos,        \* the randomness it hands on
  BlobGas,        \* the blob gas of a block with transactions
  BlobTarget,     \* the blob gas that leaves the excess as it is
  DefaultCap,     \* DEFAULT_MAX_TXPOOL_GAS
  MaxBytes,       \* max_txpool_bytes, 0 for no cap
  MaxHeight,      \* bound: the height above which heights are one
  MaxExcess,      \* bound: the excess above which excesses are one
  MaxFaults       \* bound: restarts and lost answers

VARIABLES
  file,      \* the chain spec file the node is started with
  node,      \* the components of the running node, or None
  head,      \* the header of the canonical head
  evm,       \* the EVM the head was built with, or None at genesis
  bal,       \* the balances at the head
  nonce,     \* the nonces at the head
  pool,      \* the transactions in the pool
  view,      \* the balance the pool knows of a sender
  cap,       \* CURRENT_BLOCK_GAS_LIMIT
  batch,     \* what the sequencer selected last, or None
  building,  \* the block in the making, or None
  faults

vars == <<file, node, head, evm, bal, nonce, pool, view, cap, batch, building, faults>>

(***************************************************************************)
(* A transaction.  calls tells the list of calls of an EvNode transaction: *)
(* plain calls, a CREATE first, a CREATE later, none; an Ethereum          *)
(* transaction has one of the first two.  The priority fee is the maximal  *)
(* fee.  sponsor is Invalid for a signature that does not recover.         *)
(***************************************************************************)
Transaction ==
  [evnode : BOOLEAN, calls : {"calls", "create", "late_create", "empty"},
   sender : Account, nonce : Nat, gas : Nat \ {0}, bytes : Nat, fee : Nat, value : Nat,
   sponsor : Account \cup {None, Invalid}]

ASSUME PoolAssumption ==
  /\ \A t \in Txs : /\ t \in Transaction
                    /\ t.evnode \/ (t.calls \in {"calls", "create"} /\ t.sponsor = None)
  /\ \A t, u \in Txs : t.fee = u.fee => t.sender = u.sender
  /\ GasLimits \subseteq Nat /\ GenesisLimit \in Nat \ {0}
  /\ Randaos \subseteq Nat /\ BlobGas \subseteq Nat /\ 0 \in BlobGas
  /\ {DefaultCap, MaxBytes, BlobTarget, MaxHeight, MaxExcess, MaxFaults} \subseteq Nat
  /\ None # Invalid

(* The unsigned integers of a file that a validator or the environment of  *)
(* a block depends on.                                                     *)
ASSUME FileAssumption ==
  /\ DefaultParams.elasticity \in Nat
  /\ None \notin Nat
  /\ \A f \in Files : f.london \in Nat /\ f.excess \in Nat \cup {None}
  /\ \A f \in Files : f.extras \notin {None, Invalid} =>
       {f.extras.elasticity, f.extras.allowlist_height} \subseteq Nat \cup {None, Invalid}

GasCost(t) == t.gas * t.fee

cost(t) == GasCost(t) + t.value

IsSponsored(t) == t.sponsor # None

Payer(t) == Or(t.sponsor, t.sender)

-----------------------------------------------------------------------------
(* Starting the node.                                                      *)

GenesisHeader(spec) ==
  [number |-> 0, timestamp |-> 0, beneficiary |-> Zero, gas_limit |-> GenesisLimit,
   gas_used |-> 0, basefee |-> IF spec.london = 0 THEN spec.base_fee ELSE 0,
   difficulty |-> 0, mix_hash |-> 0, blob_gas_used |-> 0,
   excess_blob_gas |-> blob_excess_gas(spec, Or(spec.excess, 0), 0)]

Init ==
  /\ file \in Files
  /\ node = None
  /\ head = None
  /\ evm = None
  /\ bal = Genesis
  /\ nonce = [a \in Account |-> 0]
  /\ pool = {}
  /\ view = Genesis
  /\ cap = DefaultCap
  /\ batch = None
  /\ building = None
  /\ faults = 0

(* The chain spec parses and every component can be built.                 *)
Starts ==
  LET spec == parse_custom_chain_spec(file)
  IN  /\ spec # None
      /\ build_evm_config(spec) # None
      /\ build_payload_builder(spec) # None

(* A chain without blocks begins with genesis.                             *)
Launch ==
  LET spec == parse_custom_chain_spec(file)
  IN  /\ node = None
      /\ Starts
      /\ node' = [spec    |-> spec,
                  factory |-> build_evm_config(spec),
                  allow   |-> build_pool(spec),
                  builder |-> build_payload_builder(spec)]
      /\ head' = IF evm = None THEN GenesisHeader(spec) ELSE head
      /\ UNCHANGED <<file, evm, bal, nonce, pool, view, cap, batch, building, faults>>

(* A start that fails leaves everything as it is.                          *)
RefuseLaunch ==
  /\ node = None
  /\ ~Starts
  /\ UNCHANGED vars

(* The process ends.  The pool, the static and a block in the making are   *)
(* lost, the chain and what the sequencer holds are not.                   *)
Crash ==
  /\ node # None
  /\ faults < MaxFaults
  /\ faults' = faults + 1
  /\ node' = None
  /\ pool' = {}
  /\ view' = bal
  /\ cap' = DefaultCap
  /\ building' = None
  /\ UNCHANGED <<file, head, evm, bal, nonce, batch>>

-----------------------------------------------------------------------------
(* Validation.                                                             *)

validate_evnode_calls(t) == t.calls \notin {"empty", "late_create"}

is_top_level_create(t) == t.calls = "create"

(* The Ethereum validator, its balance check disabled.  Its forks are      *)
(* those of the head.                                                      *)
ValidInner(t) ==
  LET osaka == tx_gas_limit_cap(node.spec, head.timestamp)
  IN  /\ t.nonce >= nonce[t.sender]
      /\ t.gas <= head.gas_limit
      /\ osaka # None => t.gas <= osaka

check_sender_overdraft(t) == cost(t) <= bal[t.sender]

validate_sponsor_balance(t) == GasCost(t) <= bal[t.sponsor]

(* Mutant: the sponsor's balance is not compared with the gas cost.        *)
validate_evnode_any_sponsor(t) ==
  /\ check_deploy_allowed(node.allow, t.sender, is_top_level_create(t), head.number)
  /\ t.evnode => validate_evnode_calls(t)
  /\ IF IsSponsored(t)
     THEN t.sponsor # Invalid /\ t.value <= bal[t.sender]
     ELSE check_sender_overdraft(t)

(* The allowlist is asked for the height of the head.                      *)
validate_evnode(t) ==
  /\ check_deploy_allowed(node.allow, t.sender, is_top_level_create(t), head.number)
  /\ t.evnode => validate_evnode_calls(t)
  /\ IF IsSponsored(t)
     THEN /\ t.sponsor # Invalid
          /\ validate_sponsor_balance(t)
          /\ t.value <= bal[t.sender]
     ELSE check_sender_overdraft(t)

validate_transaction(t) == ValidInner(t) /\ validate_evnode(t)

SameSlot(t, u) == t.sender = u.sender /\ t.nonce = u.nonce

(* The pool takes a valid transaction, in the place of a cheaper one with  *)
(* the same nonce, and the balance the validator reports: the sponsor's    *)
(* for a sponsored transaction.                                            *)
AddTransaction(t) ==
  /\ node # None
  /\ t \notin pool
  /\ validate_transaction(t)
  /\ \A u \in pool : SameSlot(t, u) => u.fee < t.fee
  /\ pool' = {u \in pool : ~SameSlot(t, u)} \cup {t}
  /\ view' = [view EXCEPT ![t.sender] = bal[Payer(t)]]
  /\ UNCHANGED <<file, node, head, evm, bal, nonce, cap, batch, building, faults>>

-----------------------------------------------------------------------------
(* Selection.                                                              *)

Parent == [head EXCEPT !.number = IF @ > MaxHeight THEN MaxHeight ELSE @]

(* The base fee the pool is told with every head.                          *)
NextBaseFee ==
  IF Parent.number + 1 <= node.spec.london THEN 0 ELSE next_block_base_fee(node.spec, head)

Before(t) == {u \in pool : u.sender = t.sender /\ u.nonce <= t.nonce}

Costs(S) == MapThenSumSet(cost, S)

(* No nonce is missing up to t, and t and the transactions before it are   *)
(* paid for by the balance the pool knows, at the base fee.                *)
Pending(t) ==
  /\ Cardinality(Before(t)) = t.nonce + 1 - nonce[t.sender]
  /\ Costs(Before(t)) <= view[t.sender]
  /\ \A u \in Before(t) : u.fee >= NextBaseFee

(* best_transactions: by fee, the transactions of a sender by nonce.       *)
Best(S) ==
  LET first == {t \in S : \A u \in S : u.sender = t.sender => t.nonce <= u.nonce}
  IN  CHOOSE t \in first : \A u \in first : u.fee <= t.fee

best_transactions ==
  CHOOSE q \in SetToSeqs({t \in pool : Pending(t)}) :
    \A i \in DOMAIN q : q[i] = Best({q[j] : j \in i .. Len(q)})

GasOf(txs) == FoldLeft(LAMBDA n, t : n + t.gas, 0, txs)

BytesOf(txs) == FoldLeft(LAMBDA n, t : n + t.bytes, 0, txs)

FitsCaps(txs) ==
  /\ MaxBytes > 0 => BytesOf(txs) <= MaxBytes
  /\ cap > 0 => GasOf(txs) <= cap

(* Mutant: a transaction that does not fit is passed over.                 *)
get_txs_passing_over(best) ==
  FoldLeft(LAMBDA txs, t : IF FitsCaps(Append(txs, t)) THEN Append(txs, t) ELSE txs,
           <<>>, best)

(* The loop stops at the first transaction that does not fit.              *)
get_txs(best) ==
  LET fits == {n \in 0 .. Len(best) : FitsCaps(SubSeq(best, 1, n))}
  IN  SubSeq(best, 1, Max(fits))

(* stale: a block was built of the batch before.                           *)
GetTxs ==
  /\ node # None
  /\ batch = None
  /\ \E best \in {best_transactions} :
       batch' = [txs |-> get_txs(best), stale |-> FALSE]
  /\ UNCHANGED <<file, node, head, evm, bal, nonce, pool, view, cap, building, faults>>

-----------------------------------------------------------------------------
(* Building a block of the batch.                                          *)

(* The caller holds the value and the payer the fee, at the balances b.    *)
Funded(b, t) ==
  IF IsSponsored(t)
  THEN t.value <= b[t.sender] /\ GasCost(t) <= b[t.sponsor]
  ELSE cost(t) <= b[t.sender]

(* What the block executor and the handler check of t in a block s with    *)
(* the EVM e.                                                              *)
Admits(e, s, t) ==
  /\ validate_env(node.spec, e.env)
  /\ t.gas <= e.env.gas_limit - s.used
  /\ e.env.tx_cap # None => t.gas <= e.env.tx_cap
  /\ t.fee >= e.env.basefee
  /\ t.evnode => validate_evnode_calls(t)
  /\ check_deploy_allowed(e.allow, t.sender, is_top_level_create(t), e.env.number)
  /\ t.sponsor # Invalid
  /\ t.nonce = s.nonce[t.sender]
  /\ Funded(s.bal, t)

Pay(b, a, amount) == IF a \in Account THEN [b EXCEPT ![a] = @ + amount] ELSE b

(* The fee goes to the beneficiary and, up to the base fee, to the sink or *)
(* nowhere; the value leaves the accounts of the model unless the fee took *)
(* it and the call reverts.                                                *)
Paid(e, s, t) ==
  LET charged == [s.bal EXCEPT ![Payer(t)] = @ - GasCost(t)]
      moved   == IF t.value <= charged[t.sender]
                 THEN [charged EXCEPT ![t.sender] = @ - t.value] ELSE charged
  IN  Pay(Pay(moved, e.env.beneficiary, t.gas * (t.fee - e.env.basefee)),
          e.sink, t.gas * e.env.basefee)

(* The gas limit is used up.                                               *)
Executed(e, s, t) ==
  [evm |-> e, todo |-> s.todo, bal |-> Paid(e, s, t),
   nonce |-> [s.nonce EXCEPT ![t.sender] = @ + 1], used |-> s.used + t.gas]

resolve_fee_recipient(suggested, n) ==
  IF suggested # Zero THEN suggested
  ELSE Or(base_fee_sink_for_block(node.builder, n), Zero)

EvmFor(limit, timestamp, suggested, randao) ==
  create_evm(node.factory,
    next_evm_env(node.spec, Parent,
      [timestamp |-> timestamp, gas_limit |-> limit, prev_randao |-> randao,
       fee_recipient |-> resolve_fee_recipient(suggested, Parent.number + 1)]))

(* The gas limit is published before a limit of 0 is refused.              *)
OpenBlock(limit, timestamp, suggested, randao) ==
  /\ node # None /\ batch # None /\ building = None
  /\ timestamp >= head.timestamp
  /\ cap' = limit
  /\ building' = IF limit = 0 THEN None
                 ELSE [evm |-> EvmFor(limit, timestamp, suggested, randao),
                       todo |-> batch.txs, bal |-> bal, nonce |-> nonce, used |-> 0]
  /\ UNCHANGED <<file, node, head, evm, bal, nonce, pool, view, batch, faults>>

(* Mutant: a transaction that is not admitted ends the block.              *)
ExecuteNextOrStop ==
  /\ building # None
  /\ building.todo # <<>>
  /\ LET t == Head(building.todo)
         s == [building EXCEPT !.todo = Tail(@)]
     IN  building' = IF Admits(building.evm, building, t) THEN Executed(s.evm, s, t)
                     ELSE [building EXCEPT !.todo = <<>>]
  /\ UNCHANGED <<file, node, head, evm, bal, nonce, pool, view, cap, batch, faults>>

(* A transaction that is not admitted is skipped.                          *)
ExecuteNext ==
  /\ building # None
  /\ building.todo # <<>>
  /\ LET t == Head(building.todo)
         s == [building EXCEPT !.todo = Tail(@)]
     IN  building' = IF Admits(building.evm, building, t) THEN Executed(s.evm, s, t) ELSE s
  /\ UNCHANGED <<file, node, head, evm, bal, nonce, pool, view, cap, batch, faults>>

(* The sequencer forgets the batch, or loses the answer and keeps it.      *)
Answer ==
  \/ batch' = None /\ UNCHANGED faults
  \/ /\ faults < MaxFaults
     /\ faults' = faults + 1
     /\ batch' = [batch EXCEPT !.stale = TRUE]

MinOf(x, y) == IF x < y THEN x ELSE y

(* next_block_excess_blob_gas: what blobs may make of an excess.  Blob gas *)
(* above the target adds to it, all of it at most (EIP-7918), and blob gas *)
(* below the target lowers it.                                             *)
NextExcess(excess, used) ==
  IF excess + used < BlobTarget THEN {0}
  ELSE MinOf(excess + used - BlobTarget, MaxExcess) .. MinOf(excess + used, MaxExcess)

(* The excesses that the assembler may give a block after the head: none   *)
(* before Cancun, 0 in its first block.                                    *)
Excesses(timestamp) ==
  IF ~Active(node.spec.cancun, timestamp) THEN {None}
  ELSE IF ~Active(node.spec.cancun, head.timestamp) THEN {0}
  ELSE NextExcess(head.excess_blob_gas, head.blob_gas_used)

(* The header the assembler makes of a block s.                            *)
Assembled(s, excess, blobs) ==
  LET env == s.evm.env
  IN  [number |-> Parent.number + 1, timestamp |-> env.timestamp,
       beneficiary |-> env.beneficiary, gas_limit |-> env.gas_limit,
       gas_used |-> s.used, basefee |-> env.basefee,
       difficulty |-> env.difficulty, mix_hash |-> env.prevrandao,
       blob_gas_used |-> blobs, excess_blob_gas |-> excess]

(* The block is sealed, imported and made the head; the pool drops what is *)
(* behind the nonces and learns the balances that the block changed.       *)
Seal ==
  LET s == building
  IN  /\ building # None
      /\ building.todo = <<>>
      /\ building' = None
      /\ evm' = s.evm
      /\ \E excess \in Excesses(s.evm.env.timestamp),
            blobs \in IF s.used > 0 /\ s.evm.env.blob # None THEN BlobGas ELSE {0} :
           head' = Assembled(s, excess, blobs)
      /\ bal' = s.bal
      /\ nonce' = s.nonce
      /\ pool' = {t \in pool : t.nonce >= s.nonce[t.sender]}
      /\ view' = [a \in Account |->
                    IF s.bal[a] # bal[a] \/ s.nonce[a] # nonce[a] THEN s.bal[a] ELSE view[a]]
      /\ Answer
      /\ UNCHANGED <<file, node, cap>>

OpenSome(limits) ==
  \E limit \in limits, timestamp \in Timestamps, suggested \in Recipients,
     randao \in Randaos :
    OpenBlock(limit, timestamp, suggested, randao)

Next ==
  \/ Launch
  \/ RefuseLaunch
  \/ Crash
  \/ \E t \in Txs : AddTransaction(t)
  \/ GetTxs
  \/ OpenSome(GasLimits)
  \/ ExecuteNext
  \/ Seal

(* The sequencer selects and builds in a loop, and does not ask for a gas  *)
(* limit of 0 for ever; a build that was opened goes on to its end.        *)
Fairness ==
  /\ WF_vars(GetTxs)
  /\ WF_vars(OpenSome(GasLimits \ {0}))
  /\ WF_vars(ExecuteNext)
  /\ WF_vars(Seal)

Spec == Init /\ [][Next]_vars /\ Fairness

-----------------------------------------------------------------------------
(* Properties.                                                             *)

(* The components of a running node gate by the same settings, although    *)
(* each of them reads the chain spec itself and only two validate it: the  *)
(* validator of the pool has the allowlist of the handler, a block with no *)
(* suggested fee recipient pays the sink of the EVM it runs in, and the    *)
(* size limit is the one of the EVM.  No allowlist has the zero address.   *)
ComponentsAgree ==
  node # None =>
    /\ node.allow = node.factory.allow
    /\ \A n \in 0 .. MaxHeight + 1 :
         /\ base_fee_sink_for_block(node.builder, n) = redirect_for_block(node.factory, n)
         /\ contract_size_limit_for_block(node.builder, n)
              = Or(factory_size_limit(node.factory, n), DefaultSizeLimit)
    /\ node.allow # None => Zero \notin node.allow.value

(* The payload that carries a block.                                       *)
PayloadOf(header) ==
  [number |-> header.number, timestamp |-> header.timestamp,
   fee_recipient |-> header.beneficiary, gas_limit |-> header.gas_limit,
   basefee |-> header.basefee, prev_randao |-> header.mix_hash,
   excess_blob_gas |-> header.excess_blob_gas]

(* What an EVM has besides the difficulty, the randomness and the blobs.   *)
Common(e) ==
  <<e.env.number, e.env.timestamp, e.env.beneficiary, e.env.gas_limit, e.env.basefee,
    e.env.tx_cap, e.size, e.sink, e.mint, e.allow>>

(* A block is executed again in the EVM it was built with, whether it      *)
(* comes back as a payload to import or as a header of the chain, before   *)
(* and after a restart and at every activation, but for two differences,   *)
(* and the environment of the second execution is always complete.  Before *)
(* the Merge the builder has a randomness and the others have none.  And   *)
(* the builder prices blobs by the excess of the parent, the others by the *)
(* block's own: the two are as far apart as the parent's blobs can move    *)
(* the excess, and the first block of Cancun, built without a price, has   *)
(* no transaction in it.                                                   *)
EnvironmentsAgree ==
  node # None /\ evm # None =>
    \A env \in {evm_env(node.spec, head), evm_env_for_payload(node.spec, PayloadOf(head))} :
      LET merged == Merged(node.spec, head.number, head.timestamp)
          built  == evm.env
      IN  /\ Common(create_evm(node.factory, env)) = Common(evm)
          /\ validate_env(node.spec, env)
          /\ merged => env.difficulty = built.difficulty
          /\ env.prevrandao = IF merged THEN built.prevrandao ELSE None
          /\ \/ env.blob = built.blob
             \/ built.blob = None /\ env.blob = 0 /\ head.gas_used = 0
             \/ built.blob # None
                /\ \E used \in BlobGas : env.blob \in NextExcess(built.blob, used)

(* The transaction could run first in the next block.                      *)
AdmittedNext(t, limit) ==
  Admits(EvmFor(limit, head.timestamp, Zero, 0), [bal |-> bal, nonce |-> nonce, used |-> 0], t)

(* The validator of the pool and the handler agree: a transaction with the *)
(* next nonce and the base fee the pool is told is admitted to the pool    *)
(* exactly if the next block can execute it under the forks of the head,   *)
(* with two exceptions.  The pool asks the allowlist for the height of the *)
(* head, so in the block before the activation it takes deployments that   *)
(* the next block refuses; and the first block of London has a base fee    *)
(* and a gas limit of its own.                                             *)
ValidatorsAgree ==
  node # None =>
    \A t \in Txs :
      /\ t.nonce = nonce[t.sender]
      /\ t.fee >= NextBaseFee
      /\ ~LondonTransition(node.spec, Parent.number + 1)
      /\ ~(is_top_level_create(t) /\ node.allow # None
           /\ node.allow.height = Parent.number + 1)
      => (validate_transaction(t) <=> AdmittedNext(t, head.gas_limit))

(* A selection is good for the block it was made for: a transaction that a *)
(* block with room for its whole batch skips is one whose payer ran out of *)
(* money on the way, a deployment, one above the cap of Osaka, or one that *)
(* comes after such a one of its sender.  A batch that is built again is   *)
(* skipped by its nonces, and the first block of Cancun skips everything.  *)
BatchIsExecutable ==
  [][building # None /\ building' # None
     /\ building'.todo # building.todo /\ building'.used = building.used
     /\ GasOf(batch.txs) <= building.evm.env.gas_limit
     => LET t == Head(building.todo)
        IN  \/ batch.stale
            \/ ~validate_env(node.spec, building.evm.env)
            \/ is_top_level_create(t)
            \/ building.evm.env.tx_cap # None /\ t.gas > building.evm.env.tx_cap
            \/ ~Funded(building.bal, t)
            \/ \E u \in ToSet(batch.txs) :
                 u.sender = t.sender /\ building.nonce[t.sender] <= u.nonce /\ u.nonce < t.nonce
    ]_vars

(* Everything in the pool fits a selection and a block.                    *)
RoomForAll ==
  LET gas == MapThenSumSet(LAMBDA t : t.gas, pool)
  IN  /\ \A limit \in GasLimits \ {0} : gas <= limit
      /\ cap > 0 => gas <= cap
      /\ MaxBytes > 0 => MapThenSumSet(LAMBDA t : t.bytes, pool) <= MaxBytes

(* A transaction that is pending and executable does not stay in a pool    *)
(* that fits a block: the sequencer's loop includes it, or something takes *)
(* its money, nonce or fee away.  Without the room it may: the selection   *)
(* stops at the first transaction that does not fit, even one that no      *)
(* block will ever execute.                                                *)
EventuallyIncluded ==
  \A t \in Txs :
    []<>~(/\ node # None
          /\ t \in pool /\ Pending(t)
          /\ \A limit \in GasLimits \ {0} : AdmittedNext(t, limit)
          /\ RoomForAll)

=============================================================================
