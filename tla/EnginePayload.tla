---------------------------- MODULE EnginePayload ----------------------------
(***************************************************************************)
(* The round trip of a block through the Engine API.  Attributes become a  *)
(* block (payload_service.rs, builder.rs), the block becomes the envelope  *)
(* of the version asked for (payload_types.rs), the sequencer sends the    *)
(* envelope's payload back with the fields that travel beside it, and the  *)
(* validator makes a block of them again (validator.rs), which is executed *)
(* in the context of the payload (executor.rs, evm_executor.rs).  A dev    *)
(* node makes its own attributes (attributes.rs) and its own payload of    *)
(* the block it built (node.rs).                                           *)
(*                                                                         *)
(* A block is the record of what its header commits to, and its own hash:  *)
(* two blocks have the same hash if and only if they are equal.  Header    *)
(* fields that every conversion copies (fee recipient, randao, base fee,   *)
(* extra data, blob gas) are left out.  Cancun is active from genesis, as  *)
(* in every genesis file of the repository, and Amsterdam in none.         *)
(***************************************************************************)
EXTENDS Integers, Sequences, SequencesExt, FiniteSets, Iterators

CONSTANTS
  None,             \* Option::None
  ZeroRoot,         \* B256::ZERO
  Roots,            \* the beacon roots attributes may carry
  Logs,             \* the logs that make requests
  Batches,          \* the transaction lists attributes may carry
  PoolTxs,          \* the transactions the pool of a dev node may receive
  Withdrawals,      \* the withdrawals attributes may list
  Timestamps,       \* the timestamps of attributes and of the clock
  GasLimits,        \* the gas limits attributes may carry
  GenesisGasLimit,
  Prague,           \* the timestamp of this fork
  BoundDivisor,     \* GAS_LIMIT_BOUND_DIVISOR, 1024
  MinGasLimit,      \* MINIMUM_GAS_LIMIT, 5000
  MaxHeight,        \* bound: the height of the chain
  MaxOrphans        \* bound: the blocks the node knows beside the chain

VARIABLES
  node,     \* dev mode, and whether genesis holds the system contracts
  known,    \* the valid blocks of the node
  head,     \* the head of its canonical chain
  pool,     \* the pending transactions of a dev node
  phase,    \* where the block is that is being made
  job,      \* the payload job: its parent and attributes
  built,    \* the payload of the job
  sent,     \* the ExecutionData in the hands of the sequencer
  answer    \* the last answer to newPayload for it

vars == <<node, known, head, pool, phase, job, built, sent, answer>>

(* A raw transaction: kind tells its type, and whether it decodes;         *)
(* executes tells whether the handler lets it run.                         *)
Transaction ==
  [kind : {"eth", "ev", "undecodable"}, gas : Nat, executes : BOOLEAN, logs : SUBSET Logs]

Decodable == {t \in Transaction : t.kind # "undecodable"}

ASSUME InputAssumption ==
  /\ Batches \subseteq Seq(Transaction) /\ PoolTxs \subseteq Decodable
  /\ Timestamps \subseteq Nat /\ GasLimits \subseteq Nat
  /\ Prague \in Nat /\ GenesisGasLimit \in Nat /\ MaxHeight \in Nat /\ MaxOrphans \in Nat
  /\ BoundDivisor \in Nat \ {0} /\ MinGasLimit \in Nat
  /\ ZeroRoot \in Roots
  /\ None \notin Nat \cup Roots \cup Seq(Withdrawals) \cup Batches
  /\ \A logs \in SUBSET Logs : logs # None

-----------------------------------------------------------------------------
(* evm_executor.rs.  The state is the log of what was written to it; the   *)
(* system contracts write only where genesis holds their code.             *)

Entry ==
  ({"parent"} \X Nat) \cup ({"root"} \X (Roots \cup {None})) \cup ({"tx"} \X Decodable)
  \cup Withdrawals

Receipt ==
  [tx_type : {"eth", "ev"}, cumulative_gas_used : Nat, logs : SUBSET Logs]

Executor ==
  [state : Seq(Entry), receipts : Seq(Receipt), gas_used : Nat, requests : SUBSET Logs]

NewExecutor(state) == [state |-> state, receipts |-> <<>>, gas_used |-> 0, requests |-> {}]

(* From Prague on the block-hashes contract gets the parent's hash.        *)
ParentHash(parent, timestamp) ==
  IF timestamp >= Prague THEN << <<"parent", parent.number>> >> ELSE <<>>

(* The beacon-roots contract gets the root after it.                       *)
apply_pre_execution_changes(r, ctx, timestamp) ==
  IF node.system_contracts
  THEN [r EXCEPT !.state = Append(@ \o ParentHash(ctx.parent, timestamp), <<"root", ctx.root>>)]
  ELSE r

build_receipt(t, cumulative) ==
  [tx_type |-> t.kind, cumulative_gas_used |-> cumulative, logs |-> t.logs]

commit_transaction(r, t) ==
  [r EXCEPT !.state = Append(@, <<"tx", t>>),
            !.gas_used = @ + t.gas,
            !.receipts = Append(@, build_receipt(t, r.gas_used + t.gas))]

(* From Prague on the logs of the receipts make requests; withdrawals are  *)
(* credited.                                                               *)
finish(r, ctx, timestamp) ==
  [r EXCEPT
    !.requests = IF timestamp >= Prague /\ node.system_contracts
                 THEN UNION {x.logs : x \in ToSet(r.receipts)}
                 ELSE {},
    !.state = @ \o ctx.withdrawals]

Execute(state, ctx, timestamp, txs) ==
  finish(Fold(txs, apply_pre_execution_changes(NewExecutor(state), ctx, timestamp),
              [r \in Executor |-> [t \in Decodable |-> commit_transaction(r, t)]]),
         ctx, timestamp)

-----------------------------------------------------------------------------
(* executor.rs: the context of an execution, for the block to build, the   *)
(* payload to import and the block to execute again.                       *)

context_for_next_block(parent, attributes) ==
  [parent |-> parent, root |-> attributes.root, withdrawals |-> attributes.withdrawals,
   slot_number |-> attributes.slot_number]

(* Mutant: the root that every block of this builder has.                  *)
context_for_payload_zero_root(data) ==
  [parent |-> data.payload.parent, root |-> ZeroRoot,
   withdrawals |-> data.payload.withdrawals, slot_number |-> data.payload.slot_number]

context_for_payload(data) ==
  [parent |-> data.payload.parent, root |-> data.root,
   withdrawals |-> data.payload.withdrawals, slot_number |-> data.payload.slot_number]

(* Mutant: the root is left out.                                           *)
context_for_block_no_root(b) ==
  [parent |-> b.parent, root |-> None, withdrawals |-> b.withdrawals,
   slot_number |-> b.slot_number]

context_for_block(b) ==
  [parent |-> b.parent, root |-> b.root, withdrawals |-> b.withdrawals,
   slot_number |-> b.slot_number]

(* The transactions of a payload, which all have to decode.                *)
tx_iterator_for_payload(data) ==
  [ok |-> ToSet(data.payload.txs) \subseteq Decodable, txs |-> data.payload.txs]

-----------------------------------------------------------------------------
(* Attributes.                                                             *)

(* validate_version_specific_fields of reth: the fields of the fork and no *)
(* others.                                                                 *)
FieldsOfFork(data) ==
  /\ data.payload.withdrawals # None /\ data.root # None
  /\ data.requests = None <=> data.payload.timestamp < Prague
  /\ data.payload.slot_number = None

(* ensure_well_formed_attributes; attributes carry no requests, and of     *)
(* transactions nothing is required.                                       *)
ensure_well_formed_attributes(a) == a.withdrawals # None /\ a.root # None

(* The attributes a dev node makes for itself.                             *)
local_payload_attributes(parent, now, root) ==
  [timestamp |-> IF now > parent.timestamp THEN now ELSE parent.timestamp + 1,
   withdrawals |-> <<>>, root |-> root, transactions |-> None, gas_limit |-> None]

-----------------------------------------------------------------------------
(* Building.                                                               *)

(* try_build: the pending transactions in dev mode, otherwise those of the *)
(* attributes that decode, of either type.                                 *)
Transactions(a) ==
  IF node.dev THEN pool
  ELSE IF a.transactions = None THEN <<>>
  ELSE Filter(a.transactions, Decodable)

(* EvolvePayloadAttributes, what try_build hands to the builder: without a *)
(* gas limit it is the parent's, and before Amsterdam there is no slot.    *)
EvolvePayloadAttributes(parent, a) ==
  [transactions |-> Transactions(a),
   gas_limit    |-> IF a.gas_limit = None THEN parent.gas_limit ELSE a.gas_limit,
   timestamp    |-> a.timestamp,
   slot_number  |-> None]

validate(attributes) == attributes.gas_limit # 0

(* NextBlockEnvAttributes of build_payload: the root and the withdrawals   *)
(* of the attributes are not used.                                         *)
next_block_attrs(attributes) ==
  [root |-> ZeroRoot, withdrawals |-> <<>>, slot_number |-> attributes.slot_number]

(* build_payload, with the assembler's block: what does not execute is     *)
(* skipped, and before Prague there is no requests hash.  The state is the *)
(* latest, which here is the parent's: how they come apart is a subject of *)
(* BlockProduction.                                                        *)
build_payload(parent, attributes) ==
  LET txs == Filter(attributes.transactions, {t \in Decodable : t.executes})
      ctx == context_for_next_block(parent, next_block_attrs(attributes))
      r   == Execute(head.state, ctx, attributes.timestamp, txs)
  IN  [parent |-> parent, number |-> parent.number + 1,
       timestamp |-> attributes.timestamp, gas_limit |-> attributes.gas_limit,
       txs |-> txs, state |-> r.state, receipts |-> r.receipts,
       gas_used |-> r.gas_used, withdrawals |-> ctx.withdrawals, root |-> ctx.root,
       requests |-> IF attributes.timestamp < Prague THEN None ELSE r.requests,
       slot_number |-> ctx.slot_number]

(* EvBuiltPayload: try_build passes no requests, whatever the block made.  *)
BuiltPayload(block) == [block |-> block, fees |-> block.gas_used, requests |-> None]

-----------------------------------------------------------------------------
(* Envelopes.  Sidecars are always empty, so no conversion fails.          *)

(* ExecutionPayloadV1::from_block_unchecked; later versions add fields.    *)
from_block_unchecked(b, withdrawals) ==
  [block_hash |-> b, parent |-> b.parent, number |-> b.number, timestamp |-> b.timestamp,
   gas_limit |-> b.gas_limit, txs |-> b.txs, state |-> b.state,
   receipts |-> b.receipts, gas_used |-> b.gas_used, withdrawals |-> withdrawals,
   slot_number |-> None]

into_v1(p) == [execution_payload |-> from_block_unchecked(p.block, None)]

into_v2(p) == [execution_payload |-> from_block_unchecked(p.block, p.block.withdrawals),
               block_value |-> p.fees]

try_into_v3(p) == into_v2(p)

(* unwrap_or_default of the requests.                                      *)
try_into_v4(p) ==
  [execution_payload |-> try_into_v3(p).execution_payload, block_value |-> p.fees,
   execution_requests |-> IF p.requests = None THEN {} ELSE p.requests]

try_into_v5(p) == try_into_v4(p)

(* The envelope of Amsterdam has a slot, 0 for a block without one.        *)
try_into_v6(p) ==
  [try_into_v5(p) EXCEPT !.execution_payload.slot_number =
     IF p.block.slot_number = None THEN 0 ELSE p.block.slot_number]

Envelope(version, p) ==
  CASE version = 1 -> into_v1(p)
    [] version = 2 -> into_v2(p)
    [] version = 3 -> try_into_v3(p)
    [] version = 4 -> try_into_v4(p)
    [] version = 5 -> try_into_v5(p)
    [] version = 6 -> try_into_v6(p)

(* What the sequencer sends for the envelope it fetched: the root it gave  *)
(* in the attributes, and the requests of the envelope.                    *)
ExecutionData(version, p, root) ==
  LET e == Envelope(version, p)
  IN  [payload  |-> e.execution_payload,
       root     |-> IF version < 3 THEN None ELSE root,
       requests |-> IF version < 4 THEN None ELSE e.execution_requests]

(* block_to_payload: what a dev node sends itself, all of it of the block. *)
block_to_payload(b) ==
  [payload |-> from_block_unchecked(b, b.withdrawals), root |-> b.root,
   requests |-> b.requests]

-----------------------------------------------------------------------------
(* validator.rs.                                                           *)

(* The block of a payload: its own fields, and those that came beside it.  *)
Assembled(data) ==
  LET p == data.payload
  IN  [parent |-> p.parent, number |-> p.number, timestamp |-> p.timestamp,
       gas_limit |-> p.gas_limit, txs |-> p.txs, state |-> p.state,
       receipts |-> p.receipts, gas_used |-> p.gas_used, withdrawals |-> p.withdrawals,
       root |-> data.root, requests |-> data.requests, slot_number |-> p.slot_number]

(* The validator of reth for a block whose transactions have these types:  *)
(* they decode, then the hash is compared.                                 *)
inner_ensure_well_formed_payload(data, types) ==
  [error |-> IF \E t \in ToSet(data.payload.txs) : t.kind = "undecodable" THEN "decode"
             ELSE IF \E t \in ToSet(data.payload.txs) : t.kind \notin types
             THEN "unexpected tx type"
             ELSE IF Assembled(data) # data.payload.block_hash THEN "block hash"
             ELSE "none",
   block |-> Assembled(data)]

convert_payload_to_block(data) == inner_ensure_well_formed_payload(data, {"eth", "ev"})

(* Every transaction is wrapped as an Ethereum one; the hash stays.        *)
convert_sealed_block(b) ==
  [b EXCEPT !.txs = [i \in DOMAIN @ |-> [@[i] EXCEPT !.kind = "eth"]]]

(* Mutant: the requests hash of a payload without requests is left out.    *)
parse_evolve_payload_no_requests(data) ==
  [Assembled(data) EXCEPT !.requests = IF data.requests = {} THEN None ELSE data.requests]

(* The block is sealed with its own hash, which is not compared.           *)
parse_evolve_payload(data) == Assembled(data)

is_unknown_tx_type_error(err) == err = "unexpected tx type"

(* ensure_well_formed_payload: an unknown type and a wrong hash are        *)
(* bypassed, another error is returned.                                    *)
ensure_well_formed_payload(data) ==
  LET inner == inner_ensure_well_formed_payload(data, {"eth"})
      should_bypass == inner.error = "block hash" \/ is_unknown_tx_type_error(inner.error)
  IN  [error |-> IF should_bypass THEN "none" ELSE inner.error,
       block |-> IF should_bypass THEN parse_evolve_payload(data)
                 ELSE convert_sealed_block(inner.block)]

(* validate_against_parent_gas_limit, London active from genesis.          *)
GasLimitInBounds(limit, parent) ==
  LET diff == IF limit > parent THEN limit - parent ELSE parent - limit
  IN  diff < parent \div BoundDivisor /\ limit >= MinGasLimit

(* The import of a block: header against parent, then the execution in the *)
(* context of its payload against the header.  The base fee, a function of *)
(* the parent's header, agrees for a block this node built.                *)
Valid(b, data) ==
  LET iter == tx_iterator_for_payload(data)
      r == Execute(b.parent.state, context_for_payload(data), b.timestamp, iter.txs)
  IN  /\ iter.ok
      /\ b.number = b.parent.number + 1
      /\ b.timestamp >= b.parent.timestamp
      /\ GasLimitInBounds(b.gas_limit, b.parent.gas_limit)
      /\ \A t \in ToSet(iter.txs) : t.executes
      /\ r.state = b.state /\ r.receipts = b.receipts /\ r.gas_used = b.gas_used
      /\ b.requests \in {None, r.requests}

-----------------------------------------------------------------------------
(* The calls.                                                              *)

GenesisBlock ==
  [parent |-> None, number |-> 0, timestamp |-> 0, gas_limit |-> GenesisGasLimit,
   txs |-> <<>>, state |-> <<>>, receipts |-> <<>>, gas_used |-> 0,
   withdrawals |-> <<>>, root |-> ZeroRoot, requests |-> None, slot_number |-> None]

(* b and the blocks below it: the n-th of them is n below.                 *)
Ancestors(b) ==
  LET up[n \in 0 .. b.number] == IF n = 0 THEN b ELSE up[n - 1].parent
  IN  {up[n] : n \in 0 .. b.number}

NoAnswer == [status |-> "none", block |-> None]

(* Nothing is being made.                                                  *)
Idle == phase' = "idle" /\ job' = None /\ built' = None /\ sent' = None

Init ==
  /\ node \in [dev : BOOLEAN, system_contracts : BOOLEAN]
  /\ known = {GenesisBlock}
  /\ head = GenesisBlock
  /\ pool = <<>>
  /\ phase = "idle" /\ job = None /\ built = None /\ sent = None
  /\ answer = NoAnswer

(* The bounds on the blocks of the node.                                   *)
MayExtend ==
  /\ head.number < MaxHeight
  /\ Cardinality(known \ Ancestors(head)) <= MaxOrphans

(* forkchoiceUpdated with attributes.                                      *)
RequestPayload(a) ==
  /\ ~node.dev
  /\ phase = "idle" /\ MayExtend
  /\ ensure_well_formed_attributes(a)
  /\ phase' = "requested"
  /\ job' = [parent |-> head, attributes |-> a]
  /\ UNCHANGED <<node, known, head, pool, built, sent, answer>>

(* A dev node asks itself.                                                 *)
RequestLocal(now, root) ==
  /\ node.dev
  /\ phase = "idle" /\ MayExtend
  /\ phase' = "requested"
  /\ job' = [parent |-> head, attributes |-> local_payload_attributes(head, now, root)]
  /\ UNCHANGED <<node, known, head, pool, built, sent, answer>>

(* The pool of a dev node receives a transaction.                          *)
Receive(t) ==
  /\ node.dev
  /\ t \notin ToSet(pool) /\ \A b \in Ancestors(head) : t \notin ToSet(b.txs)
  /\ pool' = Append(pool, t)
  /\ UNCHANGED <<node, known, head, phase, job, built, sent, answer>>

(* try_build.                                                              *)
Build ==
  LET attributes == EvolvePayloadAttributes(job.parent, job.attributes)
  IN  /\ phase = "requested"
      /\ validate(attributes)
      /\ phase' = "built"
      /\ built' = BuiltPayload(build_payload(job.parent, attributes))
      /\ UNCHANGED <<node, known, head, pool, job, sent, answer>>

(* getPayload for a job whose builds are all refused: it ends with nothing. *)
GetNothing ==
  /\ phase = "requested"
  /\ ~validate(EvolvePayloadAttributes(job.parent, job.attributes))
  /\ Idle
  /\ UNCHANGED <<node, known, head, pool, answer>>

(* getPayload of any version; it ends the job.                             *)
GetPayload(version) ==
  /\ ~node.dev
  /\ phase = "built"
  /\ phase' = "sent"
  /\ sent' = ExecutionData(version, built, job.attributes.root)
  /\ job' = None /\ built' = None
  /\ UNCHANGED <<node, known, head, pool, answer>>

GetLocal ==
  /\ node.dev
  /\ phase = "built"
  /\ phase' = "sent"
  /\ sent' = block_to_payload(built.block)
  /\ job' = None /\ built' = None
  /\ UNCHANGED <<node, known, head, pool, answer>>

(* newPayload, of the version the fields belong to; a dev node skips the   *)
(* check of the version.  Which of the two conversions runs is the         *)
(* library's choice.  The sequencer may send the payload again.            *)
NewPayload(converted) ==
  /\ phase = "sent"
  /\ \/ /\ ~node.dev
        /\ ~FieldsOfFork(sent)
        /\ answer' = [status |-> "INVALID", block |-> None]
        /\ UNCHANGED known
     \/ /\ node.dev \/ FieldsOfFork(sent)
        /\ IF sent.payload.parent \notin known
           THEN answer' = [status |-> "SYNCING", block |-> None] /\ UNCHANGED known
           ELSE IF converted.error # "none" \/ ~Valid(converted.block, sent)
           THEN answer' = [status |-> "INVALID", block |-> None] /\ UNCHANGED known
           ELSE /\ answer' = [status |-> "VALID", block |-> converted.block]
                /\ known' = known \cup {converted.block}
  /\ UNCHANGED <<node, head, pool, phase, job, built, sent>>

(* forkchoiceUpdated to the hash that the payload names, which finalizes   *)
(* it: other blocks are forgotten.  An unknown hash moves nothing.         *)
Forkchoice ==
  LET named == sent.payload.block_hash
  IN  /\ answer.status # "none"
      /\ IF named \in known
         THEN /\ head' = named /\ known' = Ancestors(named)
              /\ pool' = Filter(pool, PoolTxs \ ToSet(named.txs))
         ELSE UNCHANGED <<head, known, pool>>
      /\ Idle /\ answer' = NoAnswer
      /\ UNCHANGED node

(* The node ends and starts again: its head is the last persisted block,   *)
(* jobs and pool are gone.  What the sequencer holds stays.                *)
Restart(h) ==
  /\ h \in Ancestors(head)
  /\ head' = h /\ known' = Ancestors(h)
  /\ pool' = <<>>
  /\ IF phase = "sent" /\ ~node.dev THEN UNCHANGED <<phase, job, built, sent>> ELSE Idle
  /\ answer' = NoAnswer
  /\ UNCHANGED node

Next ==
  \/ \E a \in [timestamp : Timestamps,
               withdrawals : {<<>>, None} \cup {<<w>> : w \in Withdrawals},
               root : Roots \cup {None}, transactions : Batches \cup {None},
               gas_limit : GasLimits \cup {None}] :
       RequestPayload(a)
  \/ \E now \in Timestamps, root \in Roots : RequestLocal(now, root)
  \/ \E t \in PoolTxs : Receive(t)
  \/ Build
  \/ GetNothing
  \/ \E version \in 1 .. 6 : GetPayload(version)
  \/ GetLocal
  \/ NewPayload(convert_payload_to_block(sent))
  \/ NewPayload(ensure_well_formed_payload(sent))
  \/ Forkchoice
  \/ \E h \in known : Restart(h)

Spec == Init /\ [][Next]_vars

-----------------------------------------------------------------------------
(* Properties.                                                             *)

(* The version of getPayload conveys the fields of the block's fork.       *)
Conveyed(data) ==
  /\ data.root # None
  /\ data.requests = None <=> data.payload.timestamp < Prague
  /\ data.payload.slot_number = None

(* A block that the node built comes back under the hash it was built with *)
(* exactly if its gas limit is within the bound of the consensus, it was   *)
(* fetched with the version of its fork, the sequencer repeats the zero    *)
(* root, the block made no requests, its parent is known and its timestamp *)
(* not before the parent's: with either conversion (validator.rs),         *)
(* whatever types its transactions have, across forks and restarts.  On a  *)
(* dev node the gas limit alone decides.                                   *)
BuiltBlockReturns ==
  answer.status # "none" =>
    LET b == sent.payload.block_hash
    IN  answer.status = "VALID" /\ answer.block = b <=>
          /\ GasLimitInBounds(b.gas_limit, b.parent.gas_limit)
          /\ \/ node.dev
             \/ /\ Conveyed(sent)
                /\ sent.root = ZeroRoot
                /\ b.requests \in {None, {}}
                /\ b.parent \in known
                /\ b.timestamp >= b.parent.timestamp

(* The hash comparison that ensure_well_formed_payload bypasses is made up *)
(* for by the execution: a block that is accepted under another hash than  *)
(* the payload names differs in the beacon root alone, on a chain without  *)
(* the beacon-roots contract, where nothing depends on it.                 *)
OnlyRootSubstituted ==
  answer.status = "VALID" =>
    LET b == sent.payload.block_hash
    IN  \/ answer.block = b
        \/ ~node.system_contracts /\ answer.block = [b EXCEPT !.root = sent.root]

(* Every block the node keeps gives the same state, receipts, gas and      *)
(* requests when it is executed again from the stored block                *)
(* (context_for_block), however it came to be known.                       *)
ReexecutionAgrees ==
  \A b \in known : b.number > 0 =>
    LET r == Execute(b.parent.state, context_for_block(b), b.timestamp, b.txs)
    IN  /\ r.state = b.state /\ r.receipts = b.receipts /\ r.gas_used = b.gas_used
        /\ b.requests \in {None, r.requests}

=============================================================================
