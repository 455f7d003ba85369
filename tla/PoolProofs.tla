----------------------------- MODULE PoolProofs -----------------------------
(***************************************************************************)
(* Proofs about Pool, for any chain specs, transactions, heights and gas   *)
(* limits: the components of a node gate by the same settings, a block is  *)
(* executed again in the EVM it was built with but for the randomness      *)
(* before the Merge and the price of blobs, and the validator of the pool  *)
(* and the handler agree on a transaction.                                 *)
(***************************************************************************)
EXTENDS Pool, TLAPS

Spec0 == parse_custom_chain_spec(file)

(* A running node is the one its chain spec gives, and it could start.     *)
NodeOK ==
  node # None =>
    /\ Starts
    /\ node = [spec    |-> Spec0,
               factory |-> build_evm_config(Spec0),
               allow   |-> build_pool(Spec0),
               builder |-> build_payload_builder(Spec0)]

(* The environment of a block with this number.                            *)
EnvOf(env, n) ==
  [number |-> n, timestamp |-> env.timestamp, beneficiary |-> env.beneficiary,
   gas_limit |-> env.gas_limit, basefee |-> env.basefee,
   tx_cap |-> tx_gas_limit_cap(Spec0, env.timestamp),
   difficulty |-> 0, prevrandao |-> env.prevrandao, blob |-> env.blob]

(* The block in the making is the next one, in an EVM of this node.        *)
BuildOK ==
  building # None =>
    /\ node # None
    /\ building = [evm |-> building.evm, todo |-> building.todo, bal |-> building.bal,
                   nonce |-> building.nonce, used |-> building.used]
    /\ building.evm.env = EnvOf(building.evm.env, Parent.number + 1)
    /\ building.evm = create_evm(build_evm_config(Spec0), building.evm.env)

(* The EVM of the head is the one the chain spec gives its header, with an *)
(* excess of blob gas of its own.                                          *)
EvmOK ==
  evm # None =>
    /\ evm.env = EnvOf(evm.env, head.number)
    /\ evm = create_evm(build_evm_config(Spec0), evm.env)
    /\ evm.env.timestamp = head.timestamp /\ evm.env.beneficiary = head.beneficiary
    /\ evm.env.gas_limit = head.gas_limit /\ evm.env.basefee = head.basefee
    /\ evm.env.prevrandao = head.mix_hash

IInv == NodeOK /\ BuildOK /\ EvmOK

-----------------------------------------------------------------------------
(* The invariant holds before the first start.                             *)
LEMMA InitIInv ==
  Init => IInv
BY Zenon DEF Init, IInv, NodeOK, BuildOK, EvmOK

(* Steps that leave the file, the node, the head and its EVM alone.        *)
LEMMA Frame ==
  ASSUME IInv, UNCHANGED <<file, node, head, evm>>, BuildOK'
  PROVE  IInv'
BY Zenon DEF IInv, NodeOK, EvmOK, EnvOf, Starts, Spec0

(* A start makes the node of its file; the head is genesis or stays.       *)
LEMMA LaunchPreserves ==
  ASSUME IInv, Launch
  PROVE  IInv'
<1>1. /\ UNCHANGED <<file, evm, building>> /\ node = None /\ Starts
      /\ node' = [spec    |-> Spec0,
                  factory |-> build_evm_config(Spec0),
                  allow   |-> build_pool(Spec0),
                  builder |-> build_payload_builder(Spec0)]
      /\ head' = IF evm = None THEN GenesisHeader(Spec0) ELSE head
  BY Zenon DEF Launch, Spec0
<1>2. NodeOK'
  BY <1>1, Zenon DEF NodeOK, Starts, Spec0
<1>3. BuildOK'
  BY <1>1, Zenon DEF IInv, BuildOK
<1>4. EvmOK'
  BY <1>1, Zenon DEF IInv, EvmOK, EnvOf, Spec0
<1>5. QED
  BY <1>2, <1>3, <1>4, Zenon DEF IInv

(* next_evm_env makes the environment of the next block of this node.      *)
LEMMA OpenPreserves ==
  ASSUME IInv, NEW limit, NEW timestamp, NEW suggested, NEW randao,
         OpenBlock(limit, timestamp, suggested, randao)
  PROVE  IInv'
<1> DEFINE e == EvmFor(limit, timestamp, suggested, randao)
<1>1. UNCHANGED <<file, node, head, evm>> /\ node # None
  BY Zenon DEF OpenBlock
<1>2. node.spec = Spec0 /\ node.factory = build_evm_config(Spec0)
  BY <1>1 DEF IInv, NodeOK
<1>3. /\ e.env = EnvOf(e.env, Parent.number + 1)
      /\ e = create_evm(build_evm_config(Spec0), e.env)
  BY <1>2, Zenon DEF EvmFor, create_evm, next_evm_env, EnvOf
<1>4. \/ building' = None
      \/ building' = [evm |-> e, todo |-> batch.txs, bal |-> bal, nonce |-> nonce, used |-> 0]
  BY Zenon DEF OpenBlock
<1> HIDE DEF e
<1>5. BuildOK'
  BY <1>1, <1>3, <1>4 DEF BuildOK, EnvOf, Spec0, Parent
<1>6. QED
  BY <1>1, <1>5, Frame, Zenon

(* Execution keeps the EVM of the block.                                   *)
LEMMA ExecutePreserves ==
  ASSUME IInv, ExecuteNext
  PROVE  IInv'
<1>1. UNCHANGED <<file, node, head, evm>> /\ building # None
  BY Zenon DEF ExecuteNext
<1>2. building = [evm |-> building.evm, todo |-> building.todo, bal |-> building.bal,
                  nonce |-> building.nonce, used |-> building.used]
  BY <1>1, Zenon DEF IInv, BuildOK
<1>3. PICK t, s : /\ s = [building EXCEPT !.todo = Tail(@)]
                  /\ building' = s \/ building' = Executed(s.evm, s, t)
  BY Zenon DEF ExecuteNext
<1>4. s = [evm |-> building.evm, todo |-> s.todo, bal |-> s.bal, nonce |-> s.nonce,
           used |-> s.used]
  BY <1>2, <1>3, Zenon
<1>5. /\ building' = [evm |-> building'.evm, todo |-> building'.todo, bal |-> building'.bal,
                      nonce |-> building'.nonce, used |-> building'.used]
      /\ building'.evm = building.evm
  <2>1. CASE building' = s
    BY <1>4, <2>1
  <2>2. CASE building' = Executed(s.evm, s, t)
    BY <1>4, <2>2 DEF Executed
  <2>3. QED
    BY <1>3, <2>1, <2>2, Zenon
<1>6. BuildOK'
  BY <1>1, <1>5, Zenon DEF IInv, BuildOK, EnvOf, Spec0, Parent
<1>7. QED
  BY <1>1, <1>6, Frame, Zenon

(* The header of a sealed block has what its EVM was made of.              *)
LEMMA SealPreserves ==
  ASSUME IInv, Seal
  PROVE  IInv'
<1>1. /\ building # None /\ node # None /\ building' = None /\ evm' = building.evm
      /\ UNCHANGED <<file, node>>
      /\ \E excess, blobs : head' = Assembled(building, excess, blobs)
  BY Zenon DEF Seal, IInv, BuildOK
<1>2. NodeOK' /\ BuildOK'
  BY <1>1, Zenon DEF IInv, NodeOK, BuildOK, Starts, Spec0
<1>3. EvmOK'
  <2>1. /\ building.evm.env = EnvOf(building.evm.env, Parent.number + 1)
        /\ building.evm = create_evm(build_evm_config(Spec0), building.evm.env)
    BY <1>1, Zenon DEF IInv, BuildOK
  <2>2. /\ head'.number = Parent.number + 1
        /\ head'.timestamp = building.evm.env.timestamp
        /\ head'.beneficiary = building.evm.env.beneficiary
        /\ head'.gas_limit = building.evm.env.gas_limit
        /\ head'.basefee = building.evm.env.basefee
        /\ head'.mix_hash = building.evm.env.prevrandao
    <3>1. PICK excess, blobs : head' = Assembled(building, excess, blobs)
      BY <1>1, Zenon
    <3>2. QED
      BY <3>1 DEF Assembled
  <2>3. Spec0' = Spec0
    BY <1>1, Zenon DEF Spec0
  <2>4. QED
    BY <1>1, <2>1, <2>2, <2>3, Zenon DEF EvmOK, EnvOf
<1>4. QED
  BY <1>2, <1>3, Zenon DEF IInv

(* Every step preserves the invariant.                                     *)
LEMMA NextIInv ==
  IInv /\ [Next]_vars => IInv'
<1> SUFFICES ASSUME IInv, [Next]_vars PROVE IInv'
  BY Zenon
<1>1. ASSUME UNCHANGED <<file, node, head, evm, building>>
      PROVE  IInv'
  BY <1>1, Frame, Zenon DEF IInv, BuildOK, EnvOf, Spec0, Parent
<1>2. CASE Crash
  BY <1>2, Zenon DEF Crash, IInv, NodeOK, BuildOK, EvmOK, EnvOf, Spec0
<1>3. CASE (\E t \in Txs : AddTransaction(t)) \/ GetTxs
  BY <1>1, <1>3, Zenon DEF AddTransaction, GetTxs
<1>4. CASE OpenSome(GasLimits)
  BY <1>4, OpenPreserves, Zenon DEF OpenSome
<1>5. CASE RefuseLaunch \/ UNCHANGED vars
  BY <1>1, <1>5, Zenon DEF RefuseLaunch, vars
<1>6. QED
  BY <1>2, <1>3, <1>4, <1>5, LaunchPreserves, ExecutePreserves, SealPreserves, Zenon DEF Next

(* For every chain spec, the executor, the builder and the pool of a       *)
(* running node gate by the same settings at every height.                 *)
THEOREM ComponentsAlwaysAgree ==
  Spec => []ComponentsAgree
<1>1. IInv => ComponentsAgree
  <2> SUFFICES ASSUME IInv, node # None PROVE ComponentsAgree
    BY Zenon DEF ComponentsAgree
  <2> DEFINE c == from_chain_spec(Spec0)
  <2>1. /\ Starts
        /\ node.factory = build_evm_config(Spec0) /\ node.allow = build_pool(Spec0)
        /\ node.builder = build_payload_builder(Spec0)
    BY DEF IInv, NodeOK
  <2>2. c # Invalid /\ validate_deploy_allowlist(c)
    BY <2>1, Zenon DEF Starts, build_payload_builder, Spec0
  <2>3. /\ node.builder = c /\ node.allow = deploy_allowlist_settings(c)
        /\ node.factory.allow = deploy_allowlist_settings(c)
        /\ node.factory.redirect = base_fee_redirect_settings(c)
        /\ node.factory.size = contract_size_limit_settings(c)
    BY <2>1, <2>2 DEF build_payload_builder, build_evm_config, build_pool
  <2>4. deploy_allowlist_settings(c) # None =>
          Zero \notin deploy_allowlist_settings(c).value
    BY <2>2, Zenon DEF deploy_allowlist_settings, validate_deploy_allowlist, Setting
  <2> HIDE DEF c
  <2>5. QED
    BY <2>3, <2>4, Zenon DEF ComponentsAgree, base_fee_sink_for_block, redirect_for_block,
       contract_size_limit_for_block, factory_size_limit
<1>2. QED
  BY <1>1, InitIInv, NextIInv, PTL DEF Spec

-----------------------------------------------------------------------------
(* The headers of the chain.                                               *)

(* The header of the head, once there is one: it has an excess of blob gas *)
(* exactly under Cancun.                                                   *)
HeaderOK ==
  /\ head = [number |-> head.number, timestamp |-> head.timestamp,
             beneficiary |-> head.beneficiary, gas_limit |-> head.gas_limit,
             gas_used |-> head.gas_used, basefee |-> head.basefee,
             difficulty |-> head.difficulty, mix_hash |-> head.mix_hash,
             blob_gas_used |-> head.blob_gas_used,
             excess_blob_gas |-> head.excess_blob_gas]
  /\ head.number \in 0 .. MaxHeight + 1
  /\ head.gas_limit \in Nat
  /\ head.mix_hash \in Nat
  /\ head.blob_gas_used \in BlobGas
  /\ Active(Spec0.cancun, head.timestamp) => head.excess_blob_gas \in Nat
  /\ ~Active(Spec0.cancun, head.timestamp) => head.excess_blob_gas = None

(* The block in the making prices blobs by the excess of the head, and has *)
(* transactions only where its environment is complete.                    *)
MakingOK ==
  /\ building.evm.env.gas_limit \in Nat
  /\ building.evm.env.prevrandao \in Nat
  /\ building.evm.env.blob
       = blob_excess_gas(Spec0, head.excess_blob_gas, building.evm.env.timestamp)
  /\ building.used # 0 => validate_env(Spec0, building.evm.env)

HeadOK ==
  /\ file \in Files
  /\ node # None \/ evm # None => HeaderOK
  /\ building # None => MakingOK

(* The numbers of a chain spec that parses.                                *)
LEMMA SpecNumbers ==
  ASSUME NEW f \in Files, parse_custom_chain_spec(f) # None
  PROVE  LET spec == parse_custom_chain_spec(f)
         IN  /\ spec.london \in Nat
             /\ spec.excess \in Nat \cup {None}
             /\ spec.params.elasticity \in Nat
             /\ build_pool(spec) # None => build_pool(spec).height \in Nat
<1> DEFINE spec == parse_custom_chain_spec(f)
           o    == parse_eip1559_overrides(f)
           x    == f.extras
<1>1. Deserializes(x, FeeFields)
  BY Zenon DEF parse_custom_chain_spec
<1>2. /\ spec.london = f.london /\ spec.excess = f.excess
      /\ spec.params.elasticity = Or(o.elasticity, DefaultParams.elasticity)
      /\ spec.extras = x
  BY Zenon DEF parse_custom_chain_spec
<1>3. o.elasticity \in Nat \cup {None}
  <2>1. CASE x = None
    BY <2>1, Zenon DEF parse_eip1559_overrides, NoOverrides
  <2>2. CASE x # None
    <3>1. x # Invalid /\ x["elasticity"] # Invalid
      BY <1>1, <2>2, Zenon DEF Deserializes, FeeFields
    <3>2. x.elasticity \in Nat \cup {None, Invalid}
      BY <2>2, <3>1, FileAssumption, Zenon
    <3>3. QED
      BY <2>2, <3>1, <3>2, Zenon DEF parse_eip1559_overrides
  <2>3. QED
    BY <2>1, <2>2, Zenon
<1>4. /\ spec.london \in Nat /\ spec.excess \in Nat \cup {None}
      /\ spec.params.elasticity \in Nat
  BY <1>2, <1>3, FileAssumption, Zenon DEF Or
<1>5. \/ from_chain_spec(spec) = Invalid
      \/ from_chain_spec(spec).allowlist_height \in Nat \cup {None}
  <2>1. CASE x = None
    BY <1>2, <2>1, Zenon DEF from_chain_spec, NoConfig
  <2>2. CASE x # None /\ ~Deserializes(x, SettingFields)
    BY <1>2, <2>2, Zenon DEF from_chain_spec
  <2>3. CASE x # None /\ Deserializes(x, SettingFields)
    <3>1. x # Invalid /\ x["allowlist_height"] # Invalid
      BY <2>3, Zenon DEF Deserializes, SettingFields
    <3>2. x.allowlist_height \in Nat \cup {None}
      BY <2>3, <3>1, FileAssumption, Zenon
    <3>3. \A p, h : h \in Nat \cup {None} => Height(p, h) \in Nat \cup {None}
      BY Zenon DEF Height
    <3>4. QED
      BY <1>2, <2>3, <3>2, <3>3, Zenon DEF from_chain_spec
  <2>4. QED
    BY <2>1, <2>2, <2>3, Zenon
<1> HIDE DEF spec
<1>6. build_pool(spec) # None => build_pool(spec).height \in Nat
  <2>1. CASE from_chain_spec(spec) = Invalid
    BY <2>1, Zenon DEF build_pool, deploy_allowlist_settings, NoConfig
  <2>2. CASE from_chain_spec(spec) # Invalid
    BY <1>5, <2>2, Zenon DEF build_pool, deploy_allowlist_settings, Setting, Or
  <2>3. QED
    BY <2>1, <2>2, Zenon
<1>7. QED
  BY <1>4, <1>6, Zenon DEF spec

(* The head is well formed before the first start.                         *)
LEMMA InitHeadOK ==
  Init => HeadOK
BY Zenon DEF Init, HeadOK

(* A node that runs has a chain spec that parses.                          *)
LEMMA RunningSpec ==
  ASSUME IInv, HeadOK, node # None
  PROVE  /\ node.spec = Spec0 /\ node.factory.allow = node.allow
         /\ node.spec.london \in Nat
         /\ node.spec.excess \in Nat \cup {None}
         /\ node.spec.params.elasticity \in Nat
         /\ node.allow # None => node.allow.height \in Nat
<1>1. /\ Starts /\ node.spec = Spec0 /\ node.allow = build_pool(Spec0)
      /\ node.factory = build_evm_config(Spec0)
  BY DEF IInv, NodeOK
<1>2. Spec0 # None /\ build_payload_builder(Spec0) # None
  BY <1>1, Zenon DEF Starts, Spec0
<1>3. /\ from_chain_spec(Spec0) # Invalid
      /\ validate_deploy_allowlist(from_chain_spec(Spec0))
  BY <1>2, Zenon DEF build_payload_builder
<1>4. build_evm_config(Spec0).allow = build_pool(Spec0)
  BY <1>3, Zenon DEF build_evm_config, build_pool
<1>5. file \in Files
  BY Zenon DEF HeadOK
<1>6. /\ Spec0.london \in Nat /\ Spec0.excess \in Nat \cup {None}
      /\ Spec0.params.elasticity \in Nat
      /\ build_pool(Spec0) # None => build_pool(Spec0).height \in Nat
  BY <1>2, <1>5, SpecNumbers, Zenon DEF Spec0
<1>7. QED
  BY <1>1, <1>4, <1>6, Zenon

(* The parent of the next block.                                           *)
LEMMA ParentOfNext ==
  ASSUME HeadOK, node # None
  PROVE  /\ Parent.number \in 0 .. MaxHeight
         /\ head.number <= MaxHeight => Parent.number = head.number
         /\ head.number > MaxHeight => Parent.number + 1 = head.number
         /\ Parent.gas_limit = head.gas_limit /\ Parent.basefee = head.basefee
         /\ Parent.gas_used = head.gas_used
         /\ Parent.excess_blob_gas = head.excess_blob_gas
<1>1. /\ head = [number |-> head.number, timestamp |-> head.timestamp,
                 beneficiary |-> head.beneficiary, gas_limit |-> head.gas_limit,
                 gas_used |-> head.gas_used, basefee |-> head.basefee,
                 difficulty |-> head.difficulty, mix_hash |-> head.mix_hash,
                 blob_gas_used |-> head.blob_gas_used,
                 excess_blob_gas |-> head.excess_blob_gas]
      /\ head.number \in 0 .. MaxHeight + 1
  BY Zenon DEF HeadOK, HeaderOK
<1>2. MaxHeight \in Nat
  BY PoolAssumption, Zenon
<1>3. Parent = [number |-> IF head.number > MaxHeight THEN MaxHeight ELSE head.number,
                timestamp |-> head.timestamp,
                beneficiary |-> head.beneficiary, gas_limit |-> head.gas_limit,
                gas_used |-> head.gas_used, basefee |-> head.basefee,
                difficulty |-> head.difficulty, mix_hash |-> head.mix_hash,
                blob_gas_used |-> head.blob_gas_used,
                excess_blob_gas |-> head.excess_blob_gas]
  BY <1>1 DEF Parent
<1>4. QED
  BY <1>1, <1>2, <1>3

(* What the EVM of the next block has, whoever asks for it and how.  The   *)
(* excess of blob gas is the one of the parent.                            *)
LEMMA NextEvm ==
  ASSUME NEW limit, NEW timestamp, NEW suggested, NEW randao
  PROVE  /\ EvmFor(limit, timestamp, suggested, randao).allow = node.factory.allow
         /\ EvmFor(limit, timestamp, suggested, randao).env.number = Parent.number + 1
         /\ EvmFor(limit, timestamp, suggested, randao).env.timestamp = timestamp
         /\ EvmFor(limit, timestamp, suggested, randao).env.prevrandao = randao
         /\ EvmFor(limit, timestamp, suggested, randao).env.tx_cap
              = tx_gas_limit_cap(node.spec, timestamp)
         /\ EvmFor(limit, timestamp, suggested, randao).env.blob
              = blob_excess_gas(node.spec, Parent.excess_blob_gas, timestamp)
BY Zenon DEF EvmFor, create_evm, next_evm_env

(* The gas limit of the first block of London.                             *)
LEMMA LondonLimit ==
  ASSUME NEW limit, NEW timestamp, NEW suggested, NEW randao,
         LondonTransition(node.spec, Parent.number + 1)
  PROVE  EvmFor(limit, timestamp, suggested, randao).env.gas_limit
           = limit * node.spec.params.elasticity
BY Zenon DEF EvmFor, create_evm, next_evm_env

(* The gas limit and the base fee of every other block.                    *)
LEMMA PlainLimit ==
  ASSUME NEW limit, NEW timestamp, NEW suggested, NEW randao,
         ~LondonTransition(node.spec, Parent.number + 1)
  PROVE  /\ EvmFor(limit, timestamp, suggested, randao).env.gas_limit = limit * 1
         /\ EvmFor(limit, timestamp, suggested, randao).env.basefee
              = IF Parent.number + 1 < node.spec.london THEN 0
                ELSE next_block_base_fee(node.spec, Parent)
BY Zenon DEF EvmFor, create_evm, next_evm_env

(* The nonce of a transaction is a number.                                 *)
LEMMA TxNonce ==
  ASSUME NEW t \in Txs
  PROVE  t.nonce \in Nat
<1>1. t \in Transaction
  BY PoolAssumption, Zenon
<1>2. QED
  BY <1>1, Zenon DEF Transaction

(* What blobs make of an excess is a number.                               *)
LEMMA ExcessIsNat ==
  ASSUME NEW excess \in Nat, NEW used \in Nat, NEW e \in NextExcess(excess, used)
  PROVE  e \in Nat
<1>1. BlobTarget \in Nat /\ MaxExcess \in Nat
  BY PoolAssumption, Zenon
<1>2. CASE excess + used < BlobTarget
  BY <1>2 DEF NextExcess
<1>3. CASE ~(excess + used < BlobTarget)
  <2>1. MinOf(excess + used - BlobTarget, MaxExcess) \in Nat
    BY <1>1, <1>3 DEF MinOf
  <2>2. MinOf(excess + used, MaxExcess) \in Nat
    BY <1>1 DEF MinOf
  <2>3. e \in MinOf(excess + used - BlobTarget, MaxExcess) .. MinOf(excess + used, MaxExcess)
    BY <1>3, Zenon DEF NextExcess
  <2>4. QED
    BY <2>1, <2>2, <2>3
<1>4. QED
  BY <1>2, <1>3, Zenon

(* A start gives the chain a well-formed head.                             *)
LEMMA LaunchHeadOK ==
  ASSUME IInv, HeadOK, Launch
  PROVE  HeadOK'
<1>1. /\ UNCHANGED <<file, evm, building>> /\ node = None /\ Starts
      /\ head' = IF evm = None THEN GenesisHeader(Spec0) ELSE head
  BY Zenon DEF Launch, Spec0
<1>2. Spec0' = Spec0 /\ file \in Files /\ Spec0 # None
  BY <1>1, Zenon DEF Spec0, HeadOK, Starts
<1>3. building = None
  BY <1>1, Zenon DEF IInv, BuildOK
<1>4. CASE evm # None
  BY <1>1, <1>2, <1>3, <1>4, Zenon DEF HeadOK, HeaderOK
<1>5. CASE evm = None
  <2>1. Or(Spec0.excess, 0) \in Nat
    <3>1. Spec0.excess \in Nat \cup {None}
      BY <1>2, SpecNumbers, Zenon DEF Spec0
    <3>2. QED
      BY <3>1 DEF Or
  <2>2. GenesisLimit \in Nat /\ MaxHeight \in Nat /\ 0 \in BlobGas
    BY PoolAssumption, Zenon
  <2> DEFINE g == GenesisHeader(Spec0)
  <2>3. /\ Active(Spec0.cancun, 0) => g.excess_blob_gas \in Nat
        /\ ~Active(Spec0.cancun, 0) => g.excess_blob_gas = None
    BY <2>1, Zenon DEF GenesisHeader, blob_excess_gas
  <2>4. /\ g = [number |-> g.number, timestamp |-> g.timestamp,
                beneficiary |-> g.beneficiary, gas_limit |-> g.gas_limit,
                gas_used |-> g.gas_used, basefee |-> g.basefee,
                difficulty |-> g.difficulty, mix_hash |-> g.mix_hash,
                blob_gas_used |-> g.blob_gas_used, excess_blob_gas |-> g.excess_blob_gas]
        /\ g.number = 0 /\ g.timestamp = 0 /\ g.gas_limit = GenesisLimit
        /\ g.mix_hash = 0 /\ g.blob_gas_used = 0
    BY Zenon DEF GenesisHeader
  <2> HIDE DEF g
  <2>5. 0 \in 0 .. MaxHeight + 1 /\ 0 \in Nat
    BY <2>2
  <2>6. head' = g
    BY <1>1, <1>5, Zenon DEF g
  <2>7. HeaderOK'
    BY <1>2, <2>2, <2>3, <2>4, <2>5, <2>6, Zenon DEF HeaderOK
  <2>8. QED
    BY <1>1, <1>2, <1>3, <2>7, Zenon DEF HeadOK
<1>6. QED
  BY <1>4, <1>5, Zenon

(* The block that is opened prices blobs by the excess of the head.        *)
LEMMA OpenHeadOK ==
  ASSUME IInv, HeadOK, OpenSome(GasLimits)
  PROVE  HeadOK'
<1>1. PICK limit \in GasLimits, timestamp \in Timestamps, suggested \in Recipients,
           randao \in Randaos :
        OpenBlock(limit, timestamp, suggested, randao)
  BY Zenon DEF OpenSome
<1> DEFINE e == EvmFor(limit, timestamp, suggested, randao)
<1>2. UNCHANGED <<file, node, head, evm>> /\ node # None
  BY <1>1, Zenon DEF OpenBlock
<1>3. limit \in Nat /\ randao \in Nat /\ node.spec.params.elasticity \in Nat
  BY <1>2, PoolAssumption, RunningSpec, Zenon
<1>4. e.env.gas_limit \in Nat
  <2>1. CASE LondonTransition(node.spec, Parent.number + 1)
    <3>1. e.env.gas_limit = limit * node.spec.params.elasticity
      BY <2>1, LondonLimit, Zenon
    <3> HIDE DEF e
    <3>2. QED
      BY <1>3, <3>1
  <2>2. CASE ~LondonTransition(node.spec, Parent.number + 1)
    <3>1. e.env.gas_limit = limit * 1
      BY <2>2, PlainLimit, Zenon
    <3> HIDE DEF e
    <3>2. QED
      BY <1>3, <3>1
  <2>3. QED
    BY <2>1, <2>2, Zenon
<1>5. /\ e.env.prevrandao = randao /\ e.env.timestamp = timestamp
      /\ e.env.blob = blob_excess_gas(node.spec, Parent.excess_blob_gas, timestamp)
  BY NextEvm
<1>6. node.spec = Spec0 /\ Parent.excess_blob_gas = head.excess_blob_gas
  BY <1>2, RunningSpec, ParentOfNext, Zenon
<1>7. \/ building' = None
      \/ building' = [evm |-> e, todo |-> batch.txs, bal |-> bal, nonce |-> nonce, used |-> 0]
  BY <1>1, Zenon DEF OpenBlock
<1> HIDE DEF e
<1>8. building' # None => MakingOK'
  <2> SUFFICES ASSUME building' # None PROVE MakingOK'
    BY Zenon
  <2>1. building'.evm = e /\ building'.used = 0
    BY <1>7
  <2>2. QED
    BY <1>2, <1>3, <1>4, <1>5, <1>6, <2>1, Zenon DEF MakingOK, Spec0
<1>9. QED
  BY <1>2, <1>8, Zenon DEF HeadOK, HeaderOK, Spec0

(* Only a complete environment executes a transaction.                     *)
LEMMA ExecuteHeadOK ==
  ASSUME IInv, HeadOK, ExecuteNext
  PROVE  HeadOK'
<1>1. UNCHANGED <<file, node, head, evm>> /\ building # None /\ node # None
  BY Zenon DEF ExecuteNext, IInv, BuildOK
<1>2. building = [evm |-> building.evm, todo |-> building.todo, bal |-> building.bal,
                  nonce |-> building.nonce, used |-> building.used]
  BY <1>1, Zenon DEF IInv, BuildOK
<1>3. PICK t, s : /\ s = [building EXCEPT !.todo = Tail(@)]
                  /\ \/ building' = s
                     \/ /\ building' = Executed(s.evm, s, t)
                        /\ Admits(building.evm, building, t)
  BY Zenon DEF ExecuteNext
<1>4. s.evm = building.evm /\ s.used = building.used
  BY <1>2, <1>3, Zenon
<1>5. node.spec = Spec0
  BY <1>1, RunningSpec, Zenon
<1>6. /\ building'.evm = building.evm
      /\ building'.used # 0 => validate_env(Spec0, building.evm.env)
  <2>1. CASE building' = s
    BY <1>1, <1>4, <2>1, Zenon DEF HeadOK, MakingOK
  <2>2. CASE building' = Executed(s.evm, s, t) /\ Admits(building.evm, building, t)
    BY <1>4, <1>5, <2>2, Zenon DEF Executed, Admits
  <2>3. QED
    BY <1>3, <2>1, <2>2, Zenon
<1>7. QED
  BY <1>1, <1>6, Zenon DEF HeadOK, HeaderOK, MakingOK, Spec0

(* What a sealed block leaves: its header, and the excess of blob gas.     *)
LEMMA Sealed ==
  ASSUME IInv, HeadOK, Seal
  PROVE  /\ node # None /\ node.spec = Spec0 /\ Spec0' = Spec0
         /\ building # None /\ building' = None /\ evm' = building.evm
         /\ UNCHANGED <<file, node>>
         /\ \E excess \in Excesses(building.evm.env.timestamp), blobs \in BlobGas :
              head' = Assembled(building, excess, blobs)
<1>1. /\ building # None /\ node # None /\ building' = None /\ evm' = building.evm
      /\ UNCHANGED <<file, node>>
      /\ \E excess \in Excesses(building.evm.env.timestamp),
            blobs \in IF building.used > 0 /\ building.evm.env.blob # None
                      THEN BlobGas ELSE {0} :
           head' = Assembled(building, excess, blobs)
  BY Zenon DEF Seal, IInv, BuildOK
<1>2. 0 \in BlobGas
  BY PoolAssumption, Zenon
<1>3. node.spec = Spec0
  BY <1>1, RunningSpec, Zenon
<1>4. QED
  BY <1>1, <1>2, <1>3, Zenon DEF Spec0

(* The header of a sealed block is well formed.                            *)
LEMMA SealHeadOK ==
  ASSUME IInv, HeadOK, Seal
  PROVE  HeadOK'
<1> DEFINE env == building.evm.env
<1>1. /\ node # None /\ node.spec = Spec0 /\ Spec0' = Spec0
      /\ building # None /\ building' = None /\ UNCHANGED file
  BY Sealed, Zenon
<1>2. PICK excess \in Excesses(env.timestamp), blobs \in BlobGas :
        head' = Assembled(building, excess, blobs)
  BY Sealed, Zenon
<1>3. Parent.number \in 0 .. MaxHeight /\ MaxHeight \in Nat
  BY <1>1, ParentOfNext, PoolAssumption, Zenon
<1>4. /\ Active(Spec0.cancun, env.timestamp) => excess \in Nat
      /\ ~Active(Spec0.cancun, env.timestamp) => excess = None
  <2>1. CASE Active(Spec0.cancun, head.timestamp)
    <3>1. head.excess_blob_gas \in Nat /\ head.blob_gas_used \in Nat
      BY <1>1, <2>1, PoolAssumption, Zenon DEF HeadOK, HeaderOK
    <3>2. QED
      BY <1>1, <1>2, <2>1, <3>1, ExcessIsNat, Zenon DEF Excesses
  <2>2. CASE ~Active(Spec0.cancun, head.timestamp)
    <3>1. 0 \in Nat
      OBVIOUS
    <3>2. QED
      BY <1>1, <1>2, <2>2, <3>1, Zenon DEF Excesses
  <2>3. QED
    BY <2>1, <2>2, Zenon
<1>5. env.gas_limit \in Nat /\ env.prevrandao \in Nat /\ file \in Files
  BY <1>1, Zenon DEF HeadOK, MakingOK
<1>6. Parent.number + 1 \in 0 .. MaxHeight + 1
  BY <1>3
<1>7. HeaderOK'
  BY <1>1, <1>2, <1>4, <1>5, <1>6, Zenon DEF HeaderOK, Assembled
<1>8. QED
  BY <1>1, <1>5, <1>7, Zenon DEF HeadOK

(* Every step keeps the head well formed.                                  *)
LEMMA NextHeadOK ==
  ASSUME IInv, HeadOK, [Next]_vars
  PROVE  HeadOK'
<1>1. ASSUME UNCHANGED <<file, head, evm, building>>, node' \in {node, None}
      PROVE  HeadOK'
  BY <1>1, Zenon DEF HeadOK, HeaderOK, MakingOK, Spec0
<1>2. CASE Crash
  BY <1>2, Zenon DEF Crash, HeadOK, HeaderOK, Spec0
<1>3. CASE (\E t \in Txs : AddTransaction(t)) \/ GetTxs
  BY <1>1, <1>3, Zenon DEF AddTransaction, GetTxs
<1>4. CASE RefuseLaunch \/ UNCHANGED vars
  BY <1>1, <1>4, Zenon DEF RefuseLaunch, vars
<1>5. QED
  BY <1>2, <1>3, <1>4, LaunchHeadOK, OpenHeadOK, ExecuteHeadOK, SealHeadOK, Zenon DEF Next

-----------------------------------------------------------------------------
(* The environments.                                                       *)

(* The excess of blob gas of the head, by its header, is the one its EVM   *)
(* was built with (neither has one), that of the first block of Cancun, or *)
(* what the blobs of the parent made of the latter.                        *)
BlobsOK ==
  evm # None =>
    \/ evm.env.blob = None /\ head.excess_blob_gas = None
    \/ evm.env.blob = None /\ head.excess_blob_gas = 0 /\ head.gas_used = 0
    \/ /\ evm.env.blob # None
       /\ \E used \in BlobGas : head.excess_blob_gas \in NextExcess(evm.env.blob, used)

(* A sealed block follows the excess of its parent.                        *)
LEMMA SealBlobsOK ==
  ASSUME IInv, HeadOK, Seal
  PROVE  BlobsOK'
<1> DEFINE env == building.evm.env
<1>1. /\ node # None /\ node.spec = Spec0
      /\ building # None /\ evm' = building.evm
  BY Sealed, Zenon
<1>2. PICK excess \in Excesses(env.timestamp), blobs \in BlobGas :
        head' = Assembled(building, excess, blobs)
  BY Sealed, Zenon
<1>3. head'.excess_blob_gas = excess /\ head'.gas_used = building.used
  BY <1>2, Zenon DEF Assembled
<1>4. /\ env.blob = blob_excess_gas(Spec0, head.excess_blob_gas, env.timestamp)
      /\ building.used # 0 => validate_env(Spec0, env)
  BY <1>1, Zenon DEF HeadOK, MakingOK
<1>5. CASE ~Active(Spec0.cancun, env.timestamp)
  BY <1>1, <1>2, <1>3, <1>4, <1>5, Zenon DEF BlobsOK, Excesses, blob_excess_gas
<1>6. CASE Active(Spec0.cancun, env.timestamp) /\ ~Active(Spec0.cancun, head.timestamp)
  <2>1. head.excess_blob_gas = None
    BY <1>1, <1>6, Zenon DEF HeadOK, HeaderOK
  <2>2. env.blob = None /\ excess = 0
    BY <1>1, <1>2, <1>4, <1>6, <2>1, Zenon DEF Excesses, blob_excess_gas
  <2>3. building.used = 0
    BY <1>4, <1>6, <2>2, Zenon DEF validate_env
  <2>4. QED
    BY <1>1, <1>3, <2>2, <2>3, Zenon DEF BlobsOK
<1>7. CASE Active(Spec0.cancun, env.timestamp) /\ Active(Spec0.cancun, head.timestamp)
  <2>1. head.excess_blob_gas \in Nat /\ head.blob_gas_used \in BlobGas
    BY <1>1, <1>7, Zenon DEF HeadOK, HeaderOK
  <2>2. env.blob = head.excess_blob_gas /\ env.blob # None
    BY <1>4, <1>7, <2>1, FileAssumption, Zenon DEF blob_excess_gas
  <2>3. excess \in NextExcess(head.excess_blob_gas, head.blob_gas_used)
    BY <1>1, <1>2, <1>7, Zenon DEF Excesses
  <2>4. QED
    BY <1>1, <1>3, <2>1, <2>2, <2>3, Zenon DEF BlobsOK
<1>8. QED
  BY <1>5, <1>6, <1>7, Zenon

(* Every step keeps the excesses together.                                 *)
LEMMA NextBlobsOK ==
  ASSUME IInv, HeadOK, BlobsOK, [Next]_vars
  PROVE  BlobsOK'
<1>1. ASSUME UNCHANGED evm, evm = None \/ head' = head
      PROVE  BlobsOK'
  BY <1>1, Zenon DEF BlobsOK
<1>2. CASE Launch
  BY <1>1, <1>2, Zenon DEF Launch
<1>3. CASE RefuseLaunch \/ Crash \/ GetTxs \/ ExecuteNext \/ UNCHANGED vars
  BY <1>1, <1>3, Zenon DEF RefuseLaunch, Crash, GetTxs, ExecuteNext, vars
<1>4. CASE \E t \in Txs : AddTransaction(t)
  BY <1>1, <1>4, Zenon DEF AddTransaction
<1>5. CASE OpenSome(GasLimits)
  BY <1>1, <1>5, Zenon DEF OpenSome, OpenBlock
<1>6. QED
  BY <1>2, <1>3, <1>4, <1>5, SealBlobsOK, Zenon DEF Next

(* The inductive invariant, without any use of fairness.                   *)
THEOREM Invariance ==
  Spec => [](IInv /\ HeadOK /\ BlobsOK)
<1>1. Init => BlobsOK
  BY Zenon DEF Init, BlobsOK
<1>2. QED
  BY <1>1, InitIInv, InitHeadOK, NextIInv, NextHeadOK, NextBlobsOK, PTL DEF Spec

(* For every chain spec and every chain, the head is executed again in the *)
(* EVM it was built with, from its payload and from its header, but for    *)
(* the randomness before the Merge and the excess of blob gas, which is    *)
(* the parent's while the block is built.  The environment of the second   *)
(* execution is complete at every fork.                                    *)
THEOREM EnvironmentsAlwaysAgree ==
  Spec => []EnvironmentsAgree
<1>1. ASSUME IInv, HeadOK, BlobsOK PROVE EnvironmentsAgree
  <2> SUFFICES ASSUME node # None, evm # None,
                      NEW env \in {evm_env(node.spec, head),
                                   evm_env_for_payload(node.spec, PayloadOf(head))}
               PROVE  LET merged == Merged(node.spec, head.number, head.timestamp)
                          built  == evm.env
                      IN  /\ Common(create_evm(node.factory, env)) = Common(evm)
                          /\ validate_env(node.spec, env)
                          /\ merged => env.difficulty = built.difficulty
                          /\ env.prevrandao = IF merged THEN built.prevrandao ELSE None
                          /\ \/ env.blob = built.blob
                             \/ built.blob = None /\ env.blob = 0 /\ head.gas_used = 0
                             \/ /\ built.blob # None
                                /\ \E used \in BlobGas :
                                     env.blob \in NextExcess(built.blob, used)
    BY Zenon DEF EnvironmentsAgree
  <2> DEFINE merged == Merged(node.spec, head.number, head.timestamp)
             cancun == Active(node.spec.cancun, head.timestamp)
  <2>1. node.spec = Spec0 /\ node.factory = build_evm_config(Spec0)
    BY <1>1 DEF IInv, NodeOK
  <2>2. HeaderOK
    BY <1>1, Zenon DEF HeadOK
  <2>3. /\ env.number = head.number /\ env.timestamp = head.timestamp
        /\ env.beneficiary = head.beneficiary /\ env.gas_limit = head.gas_limit
        /\ env.basefee = head.basefee
        /\ env.tx_cap = tx_gas_limit_cap(node.spec, head.timestamp)
        /\ env.prevrandao = IF merged THEN head.mix_hash ELSE None
        /\ env.blob = blob_excess_gas(node.spec, head.excess_blob_gas, head.timestamp)
        /\ merged => env.difficulty = 0
    <3>1. CASE env = evm_env(node.spec, head)
      BY <3>1 DEF evm_env
    <3>2. CASE env = evm_env_for_payload(node.spec, PayloadOf(head))
      BY <3>2 DEF evm_env_for_payload, PayloadOf
    <3>3. QED
      BY <3>1, <3>2, Zenon
  <2>4. /\ evm.env = EnvOf(evm.env, head.number)
        /\ evm = create_evm(build_evm_config(Spec0), evm.env)
        /\ evm.env.timestamp = head.timestamp /\ evm.env.beneficiary = head.beneficiary
        /\ evm.env.gas_limit = head.gas_limit /\ evm.env.basefee = head.basefee
        /\ evm.env.prevrandao = head.mix_hash
    BY <1>1, Zenon DEF IInv, EvmOK
  <2>5. /\ evm.env.number = head.number /\ evm.env.difficulty = 0
        /\ evm.env.tx_cap = tx_gas_limit_cap(Spec0, head.timestamp)
    BY <2>4 DEF EnvOf
  <2>6. Common(create_evm(node.factory, env)) = Common(evm)
    BY <2>1, <2>3, <2>4, <2>5 DEF Common, create_evm
  <2>7. env.blob = head.excess_blob_gas
    BY <2>1, <2>2, <2>3, Zenon DEF HeaderOK, blob_excess_gas
  <2>8. /\ cancun => env.blob # None
        /\ merged => env.prevrandao # None
    BY <2>1, <2>2, <2>3, <2>7, FileAssumption, Zenon DEF HeaderOK
  <2>9. validate_env(node.spec, env)
    BY <2>3, <2>8, Zenon DEF validate_env
  <2>10. QED
    BY <1>1, <2>3, <2>4, <2>5, <2>6, <2>7, <2>9, Zenon DEF BlobsOK
<1>2. QED
  BY <1>1, Invariance, PTL

-----------------------------------------------------------------------------
(* The pool and the handler.                                               *)

(* The base fee the pool is told is the one of the next block, and the     *)
(* gas limit the sequencer asks for its own, unless London begins with it. *)
LEMMA NextFees ==
  ASSUME IInv, HeadOK, node # None, ~LondonTransition(node.spec, Parent.number + 1)
  PROVE  LET env == EvmFor(head.gas_limit, head.timestamp, Zero, 0).env
         IN  env.basefee = NextBaseFee /\ env.gas_limit = head.gas_limit
<1> DEFINE e   == EvmFor(head.gas_limit, head.timestamp, Zero, 0)
           env == e.env
           n   == Parent.number + 1
<1>1. /\ env.gas_limit = head.gas_limit * 1
      /\ env.basefee = IF n < node.spec.london THEN 0
                       ELSE next_block_base_fee(node.spec, Parent)
  BY PlainLimit
<1> HIDE DEF e
<1>2. head.gas_limit \in Nat
  BY Zenon DEF HeadOK, HeaderOK
<1>3. next_block_base_fee(node.spec, Parent) = next_block_base_fee(node.spec, head)
  BY ParentOfNext, Zenon DEF next_block_base_fee
<1>4. n \in Nat /\ n # 0 /\ node.spec.london \in Nat
  BY ParentOfNext, RunningSpec, PoolAssumption
<1>5. n # node.spec.london
  BY <1>4, Zenon DEF LondonTransition
<1>6. env.basefee = NextBaseFee
  <2>1. n < node.spec.london <=> n <= node.spec.london
    BY <1>4, <1>5
  <2>2. QED
    BY <1>1, <1>3, <2>1, Zenon DEF NextBaseFee
<1> HIDE DEF env
<1>7. env.gas_limit = head.gas_limit
  BY <1>1, <1>2
<1>8. QED
  BY <1>6, <1>7, Zenon DEF env, e

(* The allowlist answers at the head as in the next block, unless it       *)
(* becomes active with that block.                                         *)
LEMMA SameAllowlist ==
  ASSUME IInv, HeadOK, node # None, NEW t \in Txs,
         ~(is_top_level_create(t) /\ node.allow # None
           /\ node.allow.height = Parent.number + 1)
  PROVE  check_deploy_allowed(node.allow, t.sender, is_top_level_create(t), head.number)
           <=> check_deploy_allowed(node.allow, t.sender, is_top_level_create(t),
                                    Parent.number + 1)
<1>1. CASE ~is_top_level_create(t) \/ node.allow = None
  BY <1>1, Zenon DEF check_deploy_allowed, ForBlock
<1>2. CASE is_top_level_create(t) /\ node.allow # None
  <2> DEFINE h == node.allow.height
  <2>1. /\ h \in Nat /\ MaxHeight \in Nat /\ head.number \in Nat /\ Parent.number \in Nat
        /\ head.number <= MaxHeight => Parent.number = head.number
        /\ head.number > MaxHeight => Parent.number + 1 = head.number
    <3>1. h \in Nat
      BY <1>2, RunningSpec, Zenon
    <3>2. MaxHeight \in Nat
      BY PoolAssumption, Zenon
    <3>3. head.number \in Nat
      BY <3>2 DEF HeadOK, HeaderOK
    <3>4. QED
      BY <3>1, <3>2, <3>3, ParentOfNext
  <2>2. h # Parent.number + 1
    BY <1>2, Zenon
  <2>3. head.number >= h <=> Parent.number + 1 >= h
    <3> HIDE DEF h
    <3>1. QED
      BY <2>1, <2>2
  <2>4. ForBlock(node.allow, head.number) = ForBlock(node.allow, Parent.number + 1)
    BY <2>3, Zenon DEF ForBlock
  <2>5. QED
    BY <2>4, Zenon DEF check_deploy_allowed
<1>3. QED
  BY <1>1, <1>2, Zenon

(* What the two validators say of the money of a transaction.              *)
LEMMA SameFunds ==
  ASSUME NEW t \in Txs
  PROVE  /\ t.sponsor # Invalid
         /\ Funded(bal, t)
         <=> IF IsSponsored(t)
             THEN /\ t.sponsor # Invalid
                  /\ validate_sponsor_balance(t)
                  /\ t.value <= bal[t.sender]
             ELSE check_sender_overdraft(t)
BY PoolAssumption, Zenon
   DEF Funded, IsSponsored, validate_sponsor_balance, check_sender_overdraft

(* For every chain spec, every set of transactions and at every head, the  *)
(* pool admits a transaction exactly if the next block can execute it, but *)
(* for deployments at the activation of the allowlist and the first block  *)
(* of London.                                                              *)
THEOREM ValidatorsAlwaysAgree ==
  Spec => []ValidatorsAgree
<1>1. ASSUME IInv, HeadOK PROVE ValidatorsAgree
  <2>1. SUFFICES ASSUME node # None, NEW t \in Txs,
                      t.nonce = nonce[t.sender], t.fee >= NextBaseFee,
                      ~LondonTransition(node.spec, Parent.number + 1),
                      ~(is_top_level_create(t) /\ node.allow # None
                        /\ node.allow.height = Parent.number + 1)
               PROVE  validate_transaction(t) <=> AdmittedNext(t, head.gas_limit)
    BY Zenon DEF ValidatorsAgree
  <2> DEFINE e == EvmFor(head.gas_limit, head.timestamp, Zero, 0)
             s == [bal |-> bal, nonce |-> nonce, used |-> 0]
  <2>2. /\ e.allow = node.allow /\ e.env.number = Parent.number + 1
        /\ e.env.tx_cap = tx_gas_limit_cap(node.spec, head.timestamp)
    <3>1. /\ e.allow = node.factory.allow /\ e.env.number = Parent.number + 1
          /\ e.env.tx_cap = tx_gas_limit_cap(node.spec, head.timestamp)
      BY NextEvm
    <3>2. node.factory.allow = node.allow
      BY <1>1, <2>1, RunningSpec, Zenon
    <3> HIDE DEF e
    <3>3. QED
      BY <3>1, <3>2, Zenon
  <2>3. e.env.basefee = NextBaseFee /\ e.env.gas_limit = head.gas_limit
    BY <1>1, <2>1, NextFees, Zenon
  <2>4. AdmittedNext(t, head.gas_limit) <=> Admits(e, s, t)
    BY Zenon DEF AdmittedNext
  <2> HIDE DEF e
  <2>5. e.env.gas_limit - s.used = head.gas_limit
    BY <1>1, <2>1, <2>3 DEF HeadOK, HeaderOK
  <2>6. validate_env(node.spec, e.env)
    <3>1. /\ e.env.timestamp = head.timestamp /\ e.env.prevrandao = 0
          /\ e.env.blob = blob_excess_gas(node.spec, Parent.excess_blob_gas, head.timestamp)
      BY NextEvm DEF e
    <3>2. node.spec = Spec0 /\ Parent.excess_blob_gas = head.excess_blob_gas
      BY <1>1, <2>1, RunningSpec, ParentOfNext, Zenon
    <3>3. Active(Spec0.cancun, head.timestamp) => head.excess_blob_gas \in Nat
      BY <1>1, <2>1, Zenon DEF HeadOK, HeaderOK
    <3>4. 0 \in Nat
      OBVIOUS
    <3>5. QED
      BY <3>1, <3>2, <3>3, <3>4, FileAssumption, Zenon DEF validate_env, blob_excess_gas
  <2>7. Admits(e, s, t)
          <=> /\ t.gas <= head.gas_limit
              /\ LET osaka == tx_gas_limit_cap(node.spec, head.timestamp)
                 IN  osaka # None => t.gas <= osaka
              /\ t.evnode => validate_evnode_calls(t)
              /\ check_deploy_allowed(node.allow, t.sender, is_top_level_create(t),
                                      Parent.number + 1)
              /\ t.sponsor # Invalid
              /\ Funded(bal, t)
    BY <2>1, <2>2, <2>3, <2>5, <2>6, Zenon DEF Admits
  <2>8. t.nonce >= nonce[t.sender]
    <3>1. t.nonce \in Nat
      BY <2>1, TxNonce, Zenon
    <3>2. QED
      BY <2>1, <3>1
  <2>9. QED
    BY <1>1, <2>1, <2>4, <2>7, <2>8, SameAllowlist, SameFunds, Zenon
       DEF validate_transaction, ValidInner, validate_evnode
<1>2. QED
  BY <1>1, Invariance, PTL

=============================================================================
