----------------------------- MODULE ChainConfig -----------------------------
(***************************************************************************)
(* The configuration of a chain and the EVM it gives a block.              *)
(*                                                                         *)
(* A chain spec file carries the genesis header and an optional "evolve"   *)
(* object.  chainspec.rs reads the base-fee overrides of that object, and  *)
(* config.rs the settings of ev-reth, each of which is gated by a height.  *)
(* Three components read the settings on their own: the executor, the      *)
(* payload builder and the transaction pool.                               *)
(*                                                                         *)
(* executor.rs derives the environment of a block three times: for the     *)
(* block to build from its parent, for a payload to import, for a header   *)
(* to execute again.  factory.rs then fixes what the height gates.         *)
(***************************************************************************)
EXTENDS Naturals, Sequences

CONSTANTS
  Account,             \* addresses, the zero address not among them
  Zero,                \* the zero address
  None,                \* Option::None
  Invalid,             \* extras, or a field of them, that do not deserialize
  DefaultBaseFee,      \* INITIAL_BASE_FEE
  DefaultParams,       \* base-fee parameters without overrides
  DefaultSizeLimit,    \* DEFAULT_CONTRACT_SIZE_LIMIT
  MaxAllowlistLen,     \* MAX_DEPLOY_ALLOWLIST_LEN
  TxGasCap             \* MAX_TX_GAS_LIMIT_OSAKA

Or(option, default) == IF option = None THEN default ELSE option

-----------------------------------------------------------------------------
(* chainspec.rs.  A file is the heights of London and of the Merge, the    *)
(* timestamps of Cancun and Osaka, the base fee and the excess blob gas of *)
(* the genesis header and the evolve object.                               *)

Deserializes(extras, fields) ==
  extras = None \/ (extras # Invalid /\ \A f \in fields : extras[f] # Invalid)

FeeFields == {"denominator", "elasticity", "initial_base_fee"}

NoOverrides == [denominator |-> None, elasticity |-> None, initial_base_fee |-> None]

parse_eip1559_overrides(file) == IF file.extras = None THEN NoOverrides ELSE file.extras

apply_genesis_overrides(file, o) ==
  \/ o.initial_base_fee = None
  \/ file.london = 0 /\ file.base_fee \in {None, o.initial_base_fee}

apply_chain_spec_overrides(o) == o.denominator # 0 /\ o.elasticity # 0

(* parse_custom_chain_spec: None for an error.  Only the base-fee fields   *)
(* of the evolve object are read here.                                     *)
parse_custom_chain_spec(file) ==
  LET o == parse_eip1559_overrides(file)
  IN  IF ~Deserializes(file.extras, FeeFields) \/ ~apply_genesis_overrides(file, o)
         \/ ~apply_chain_spec_overrides(o)
      THEN None
      ELSE [london   |-> file.london,
            merge    |-> file.merge,
            cancun   |-> file.cancun,
            osaka    |-> file.osaka,
            excess   |-> file.excess,
            base_fee |-> Or(o.initial_base_fee, Or(file.base_fee, DefaultBaseFee)),
            params   |-> [denominator |-> Or(o.denominator, DefaultParams.denominator),
                          elasticity  |-> Or(o.elasticity, DefaultParams.elasticity)],
            extras   |-> file.extras]

-----------------------------------------------------------------------------
(* config.rs.                                                              *)

SettingFields ==
  {"base_fee_sink", "redirect_height", "mint_admin", "mint_height", "size_limit",
   "size_height", "allowlist", "allowlist_height"}

NoConfig ==
  [base_fee_sink |-> None, redirect_height |-> None, mint_admin |-> None,
   mint_height |-> None, size_limit |-> None, size_height |-> None,
   allowlist |-> <<>>, allowlist_height |-> None]

(* An absent height of a setting that is there becomes 0.                  *)
Height(present, height) == IF present /\ height = None THEN 0 ELSE height

(* from_chain_spec: Invalid for an error.                                  *)
from_chain_spec(spec) ==
  LET x     == spec.extras
      admin == IF x.mint_admin = Zero THEN None ELSE x.mint_admin
      list  == Or(x.allowlist, <<>>)
  IN  IF x = None THEN NoConfig
      ELSE IF ~Deserializes(x, SettingFields) THEN Invalid
      ELSE [base_fee_sink    |-> x.base_fee_sink,
            redirect_height  |-> Height(x.base_fee_sink # None, x.redirect_height),
            mint_admin       |-> admin,
            mint_height      |-> Height(admin # None, x.mint_height),
            size_limit       |-> x.size_limit,
            size_height      |-> x.size_height,
            allowlist        |-> list,
            allowlist_height |-> IF x.allowlist = None THEN None
                                 ELSE Height(list # <<>>, x.allowlist_height)]

validate_deploy_allowlist(c) ==
  /\ Len(c.allowlist) <= MaxAllowlistLen
  /\ \A i \in DOMAIN c.allowlist :
       /\ c.allowlist[i] # Zero
       /\ \A j \in DOMAIN c.allowlist : c.allowlist[i] = c.allowlist[j] => i = j

Setting(value, height) == [value |-> value, height |-> Or(height, 0)]

base_fee_redirect_settings(c) ==
  IF c.base_fee_sink = None THEN None ELSE Setting(c.base_fee_sink, c.redirect_height)

mint_precompile_settings(c) ==
  IF c.mint_admin = None THEN None ELSE Setting(c.mint_admin, c.mint_height)

contract_size_limit_settings(c) ==
  IF c.size_limit = None THEN None ELSE Setting(c.size_limit, c.size_height)

(* DeployAllowlistSettings::new sorts what is only searched: a set.        *)
deploy_allowlist_settings(c) ==
  IF c.allowlist = <<>> THEN None
  ELSE Setting({c.allowlist[i] : i \in DOMAIN c.allowlist}, c.allowlist_height)

(* The value of a setting that is active at block n, None otherwise.       *)
ForBlock(setting, n) ==
  IF setting = None THEN None
  ELSE IF n >= setting.height THEN setting.value ELSE None

base_fee_sink_for_block(c, n) == ForBlock(base_fee_redirect_settings(c), n)

contract_size_limit_for_block(c, n) ==
  Or(ForBlock(contract_size_limit_settings(c), n), DefaultSizeLimit)

(* deploy.rs *)
check_deploy_allowed(setting, caller, is_top_level_create, n) ==
  is_top_level_create /\ ForBlock(setting, n) # None => caller \in ForBlock(setting, n)

-----------------------------------------------------------------------------
(* The components a node is made of; None where the start fails.           *)

(* Mutant: the redirect of the executor has no activation height.          *)
build_evm_config_ungated(spec) ==
  LET c == from_chain_spec(spec)
  IN  IF c = Invalid \/ ~validate_deploy_allowlist(c) THEN None
      ELSE [redirect |-> base_fee_redirect_settings([c EXCEPT !.redirect_height = 0]),
            mint     |-> mint_precompile_settings(c),
            allow    |-> deploy_allowlist_settings(c),
            size     |-> contract_size_limit_settings(c)]

(* build_evm_config: the factory of the executor.                          *)
build_evm_config(spec) ==
  LET c == from_chain_spec(spec)
  IN  IF c = Invalid \/ ~validate_deploy_allowlist(c) THEN None
      ELSE [redirect |-> base_fee_redirect_settings(c),
            mint     |-> mint_precompile_settings(c),
            allow    |-> deploy_allowlist_settings(c),
            size     |-> contract_size_limit_settings(c)]

(* build_payload_builder: the builder's own settings are all None.         *)
build_payload_builder(spec) ==
  LET c == from_chain_spec(spec)
  IN  IF c = Invalid \/ ~validate_deploy_allowlist(c) THEN None ELSE c

(* build_pool does not validate, and goes on without settings where they   *)
(* do not parse; the other components do not start then.                   *)
build_pool(spec) ==
  LET c == from_chain_spec(spec)
  IN  deploy_allowlist_settings(IF c = Invalid THEN NoConfig ELSE c)

-----------------------------------------------------------------------------
(* executor.rs.  A header has the fields an execution reads.               *)

MaxOf(x, y) == IF x < y THEN y ELSE x

(* ChainSpec::next_block_base_fee: the rule of EIP-1559.                   *)
next_block_base_fee(spec, parent) ==
  LET target == parent.gas_limit \div spec.params.elasticity
      delta(d) == (parent.basefee * d) \div (target * spec.params.denominator)
  IN  IF parent.gas_used = target THEN parent.basefee
      ELSE IF parent.gas_used > target
           THEN parent.basefee + MaxOf(1, delta(parent.gas_used - target))
           ELSE parent.basefee - delta(target - parent.gas_used)

(* Whether a fork that is scheduled by time is active.                     *)
Active(fork, timestamp) == fork # None /\ timestamp >= fork

(* revm_spec: whether block n has the rules of the Merge or of a later     *)
(* fork.                                                                   *)
Merged(spec, n, timestamp) == n >= spec.merge \/ Active(spec.cancun, timestamp)

tx_gas_limit_cap(spec, timestamp) == IF Active(spec.osaka, timestamp) THEN TxGasCap ELSE None

(* blob_excess_gas_and_price: the excess of a header where the fork has    *)
(* blob parameters; the price is computed from it.                         *)
blob_excess_gas(spec, excess, timestamp) ==
  IF Active(spec.cancun, timestamp) THEN excess ELSE None

(* Whether block n, which follows a header, is the first of London.        *)
LondonTransition(spec, n) == spec.london # 0 /\ n = spec.london

(* evm_env: the environment of a block that is executed again.             *)
evm_env(spec, header) ==
  LET merged == Merged(spec, header.number, header.timestamp)
  IN  [number      |-> header.number,
       timestamp   |-> header.timestamp,
       beneficiary |-> header.beneficiary,
       gas_limit   |-> header.gas_limit,
       basefee     |-> header.basefee,
       tx_cap      |-> tx_gas_limit_cap(spec, header.timestamp),
       difficulty  |-> IF merged THEN 0 ELSE header.difficulty,
       prevrandao  |-> IF merged THEN header.mix_hash ELSE None,
       blob        |-> blob_excess_gas(spec, header.excess_blob_gas, header.timestamp)]

(* Mutant: the number of the parent instead of the next one.               *)
next_evm_env_parent(spec, parent, attributes) ==
  [number |-> parent.number, timestamp |-> attributes.timestamp,
   beneficiary |-> attributes.fee_recipient, gas_limit |-> attributes.gas_limit,
   basefee |-> next_block_base_fee(spec, parent),
   tx_cap |-> tx_gas_limit_cap(spec, attributes.timestamp),
   difficulty |-> 0, prevrandao |-> attributes.prev_randao,
   blob |-> blob_excess_gas(spec, parent.excess_blob_gas, attributes.timestamp)]

(* next_evm_env: the environment of the block to build.  The first block   *)
(* of London has its gas limit multiplied and the initial base fee; the    *)
(* blocks before it have none.  The excess blob gas is the parent's as it  *)
(* stands, and the randomness is there before the Merge too.               *)
next_evm_env(spec, parent, attributes) ==
  LET n == parent.number + 1
      first == LondonTransition(spec, n)
  IN  [number      |-> n,
       timestamp   |-> attributes.timestamp,
       beneficiary |-> attributes.fee_recipient,
       gas_limit   |-> attributes.gas_limit * (IF first THEN spec.params.elasticity ELSE 1),
       basefee     |-> IF first THEN DefaultBaseFee
                       ELSE IF n < spec.london THEN 0
                       ELSE next_block_base_fee(spec, parent),
       tx_cap      |-> tx_gas_limit_cap(spec, attributes.timestamp),
       difficulty  |-> 0,
       prevrandao  |-> attributes.prev_randao,
       blob        |-> blob_excess_gas(spec, parent.excess_blob_gas, attributes.timestamp)]

(* evm_env_for_payload: the environment of a payload to import.            *)
evm_env_for_payload(spec, payload) ==
  LET merged == Merged(spec, payload.number, payload.timestamp)
  IN  [number      |-> payload.number,
       timestamp   |-> payload.timestamp,
       beneficiary |-> payload.fee_recipient,
       gas_limit   |-> payload.gas_limit,
       basefee     |-> payload.basefee,
       tx_cap      |-> tx_gas_limit_cap(spec, payload.timestamp),
       difficulty  |-> IF merged THEN 0 ELSE payload.prev_randao,
       prevrandao  |-> IF merged THEN payload.prev_randao ELSE None,
       blob        |-> blob_excess_gas(spec, payload.excess_blob_gas, payload.timestamp)]

(* validate_env of the handler, which is revm's: an environment of the     *)
(* Merge has randomness, one of Cancun an excess of blob gas.              *)
validate_env(spec, env) ==
  /\ Merged(spec, env.number, env.timestamp) => env.prevrandao # None
  /\ Active(spec.cancun, env.timestamp) => env.blob # None

(* factory.rs: the settings of the factory that are active at block n.     *)
factory_size_limit(factory, n) == ForBlock(factory.size, n)

redirect_for_block(factory, n) == ForBlock(factory.redirect, n)

install_mint_precompile(factory, n) == ForBlock(factory.mint, n)

(* create_evm: the environment with what its height gates.                 *)
create_evm(factory, env) ==
  [env   |-> env,
   size  |-> factory_size_limit(factory, env.number),
   sink  |-> redirect_for_block(factory, env.number),
   mint  |-> install_mint_precompile(factory, env.number),
   allow |-> factory.allow]

=============================================================================
