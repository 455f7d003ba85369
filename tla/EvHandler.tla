------------------------------ MODULE EvHandler ------------------------------
(***************************************************************************)
(* Execution of one transaction after another by the EV execution handler  *)
(* (crates/ev-revm/src/handler.rs): validation, the fee deduction from the *)
(* caller or from the sponsor, the calls of the transaction under one      *)
(* journal checkpoint, the reimbursement of unused gas, the redirect of    *)
(* the base fee and the reward of the block beneficiary.                   *)
(*                                                                         *)
(* A world is what the handler reads and writes of the accounts: balances, *)
(* nonces, and for every account the number of calls that left their       *)
(* effect there (its storage, as far as atomicity can tell).  Three worlds *)
(* exist: the database, the journal of the transaction in flight and the   *)
(* journal's checkpoint.  Until Commit the database is the state before    *)
(* the transaction, so that an invariant at phase "commit" compares the    *)
(* state before a transaction with the state after it.                     *)
(***************************************************************************)
EXTENDS Integers, Sequences, FiniteSets, Iterators

CONSTANTS
  Address,          \* the accounts
  None,             \* Option::None, for a sponsor or a fee sink
  Create,           \* TxKind::Create, the target of a CREATE call
  Deployed,         \* the account that stands for every created contract
  HasCode,          \* accounts with code other than an EIP-7702 delegation
  DeployAllowlist,  \* DeployAllowlistSettings.allowlist
  ActivationHeight, \* DeployAllowlistSettings.activation_height
  MaxU256,          \* U256::MAX
  Txs,              \* the transactions that may be submitted
  Envs,             \* the block environments they may be executed in
  Genesis,          \* the worlds execution may start from
  GasUses,          \* gas one frame may use
  Refunds           \* refund one frame may report (negative: taken back)

VARIABLES
  db,          \* the committed world
  journal,     \* the world of the transaction in flight
  checkpoint,  \* the journal's checkpoint of a batch
  tx,          \* the transaction in flight
  env,         \* its block environment
  phase,       \* the handler method that runs next
  idx,         \* the call that runs next
  gas,         \* remaining and refunded gas, and the EIP-7623 floor
  status,      \* instruction result of the execution
  outcome      \* what the last call of transact_one returned

vars == <<db, journal, checkpoint, tx, env, phase, idx, gas, status, outcome>>

Word == 0 .. MaxU256

World == [bal : [Address -> Word], nonce : [Address -> Nat],
          store : [Address -> Nat]]

Call == [to : Address \cup {Create}, value : Word, intrinsic : Nat, floor : Nat]

(***************************************************************************)
(* EvTxEnv.  A transaction that is not of type 0x76 has one call, no       *)
(* sponsor, and evnode FALSE.                                              *)
(***************************************************************************)
Transaction ==
  [caller : Address, nonce : Nat, gas_limit : Nat, max_fee : Nat,
   priority : Nat, access : Nat, calls : Seq(Call),
   sponsor : Address \cup {None}, bad_sponsor : BOOLEAN, evnode : BOOLEAN]

(***************************************************************************)
(* What the block and the EVM configuration fix for a transaction.  sink   *)
(* is the redirect the factory passes for the block, None below its        *)
(* activation height; prague tells whether EIP-7623 sets a gas floor;      *)
(* simulate is is_balance_check_disabled.  EIP-8037 (state gas) is off.    *)
(***************************************************************************)
Environment ==
  [number : Nat, gas_limit : Nat, basefee : Nat, beneficiary : Address,
   sink : Address \cup {None}, prague : BOOLEAN, simulate : BOOLEAN]

(***************************************************************************)
(* The wei in existence: one <<a, i>> for the i-th wei of account a.       *)
(***************************************************************************)
Wei(bal) == {w \in Address \X (1 .. MaxU256) : w[2] <= bal[w[1]]}

Supply(bal) == Cardinality(Wei(bal))

ASSUME AddressAssumption ==
  /\ IsFiniteSet(Address)
  /\ Deployed \in Address
  /\ HasCode \subseteq Address
  /\ DeployAllowlist \subseteq Address
  /\ None \notin Address
  /\ Create \notin Address

ASSUME NumberAssumption ==
  /\ MaxU256 \in Nat
  /\ ActivationHeight \in Nat
  /\ GasUses \subseteq Nat
  /\ Refunds \subseteq Int

(* EvTxEnv::from_recovered_tx: a transaction other than type 0x76 carries  *)
(* one call, and a sponsor whose signature does not recover is None.  The  *)
(* largest fee of a transaction fits the arithmetic of the fees: a word    *)
(* where the handler deducts, a u128 where it reimburses and rewards.      *)
ASSUME InputAssumption ==
  /\ \A t \in Txs : /\ t \in Transaction
                    /\ t.evnode \/ (Len(t.calls) = 1 /\ t.sponsor = None)
                    /\ t.bad_sponsor => t.sponsor = None
                    /\ t.gas_limit * t.max_fee <= MaxU256
  /\ Envs \subseteq Environment

(* The supply of the chain fits a word. *)
ASSUME GenesisAssumption ==
  \A w \in Genesis : w \in World /\ Supply(w.bal) <= MaxU256

-----------------------------------------------------------------------------
(* Arithmetic on words, and updates of a world.                            *)

SatAdd(x, y) == IF x + y > MaxU256 THEN MaxU256 ELSE x + y

SatSub(x, y) == IF x < y THEN 0 ELSE x - y

MaxOf(x, y) == IF x < y THEN y ELSE x

MinOf(x, y) == IF x < y THEN x ELSE y

SetBalance(w, a, b) == [w EXCEPT !.bal[a] = b]

Credit(w, a, amount) == SetBalance(w, a, SatAdd(w.bal[a], amount))

BumpNonce(w, a) == [w EXCEPT !.nonce[a] = @ + 1]

-----------------------------------------------------------------------------
(* The transaction as the handler reads it.                                *)

Values(t) == [i \in DOMAIN t.calls |-> t.calls[i].value]

TotalValue(t) == CappedSumOf(Values(t), MaxU256)

InitialGas(t) == SumOf([i \in DOMAIN t.calls |-> t.calls[i].intrinsic]) + t.access

FloorGas(t, e) ==
  IF e.prague THEN SumOf([i \in DOMAIN t.calls |-> t.calls[i].floor]) ELSE 0

(* kind(): the target of the first call, Create for an empty batch.        *)
IsCreate(t) == t.calls = <<>> \/ t.calls[1].to = Create

IsBatch(t) == t.evnode /\ Len(t.calls) > 1

EffectivePrice(t, e) == MinOf(t.max_fee, e.basefee + t.priority)

ValidEnv(t, e) ==
  /\ t.priority <= t.max_fee
  /\ e.basefee <= t.max_fee
  /\ t.gas_limit <= e.gas_limit

(* Mutant: the gas floor is not compared with the gas limit.               *)
ValidInitialGasNoFloor(t, e) ==
  /\ t.evnode => t.calls # <<>>
  /\ t.evnode => \A i \in DOMAIN t.calls \ {1} : t.calls[i].to # Create
  /\ InitialGas(t) <= t.gas_limit

(* Mutant: a CREATE may be at any position of the batch.                   *)
ValidInitialGasAnyCreate(t, e) ==
  /\ t.evnode => t.calls # <<>>
  /\ InitialGas(t) <= t.gas_limit
  /\ FloorGas(t, e) <= t.gas_limit

ValidInitialGas(t, e) ==
  /\ t.evnode => t.calls # <<>>
  /\ t.evnode => \A i \in DOMAIN t.calls \ {1} : t.calls[i].to # Create
  /\ InitialGas(t) <= t.gas_limit
  /\ FloorGas(t, e) <= t.gas_limit

DeployAllowed(t, e) ==
  \/ ~IsCreate(t)
  \/ e.number < ActivationHeight
  \/ DeployAllowlist = {}
  \/ t.caller \in DeployAllowlist

ValidNonceAndCode(w, t) ==
  /\ t.caller \notin HasCode
  /\ t.nonce = w.nonce[t.caller]

-----------------------------------------------------------------------------
(* The transitions of the transaction in flight.                           *)

NoGas == [remaining |-> 0, refunded |-> 0, floor |-> 0]

Init ==
  /\ db \in Genesis
  /\ journal = db
  /\ checkpoint = db
  /\ tx = None
  /\ env = None
  /\ phase = "idle"
  /\ idx = 1
  /\ gas = NoGas
  /\ status = "none"
  /\ outcome = "none"

(* The end of transact_one: w is the world it leaves, r what it returns.   *)
Return(w, r) ==
  /\ db' = w
  /\ journal' = w
  /\ checkpoint' = w
  /\ tx' = None
  /\ env' = None
  /\ phase' = "idle"
  /\ idx' = 1
  /\ gas' = NoGas
  /\ status' = "none"
  /\ outcome' = r

(* An error discards the journal, what validation wrote there included.    *)
Discard(r) == Return(db, r)

(***************************************************************************)
(* transact_one: the checks that read no account.                          *)
(***************************************************************************)
Begin(t, e) ==
  /\ phase = "idle"
  /\ ValidEnv(t, e)
  /\ ValidInitialGas(t, e)
  /\ tx' = t
  /\ env' = e
  /\ phase' = "validate"
  /\ gas' = [remaining |-> t.gas_limit - InitialGas(t), refunded |-> 0,
             floor |-> FloorGas(t, e)]
  /\ outcome' = "none"
  /\ UNCHANGED <<db, journal, checkpoint, idx, status>>

RejectStatic(t, e) ==
  /\ phase = "idle"
  /\ ~(ValidEnv(t, e) /\ ValidInitialGas(t, e))
  /\ Discard("invalid")

(* Ends validation: the journal now holds w, and execution starts with a   *)
(* checkpoint of it.                                                       *)
StartExecution(w) ==
  /\ journal' = w
  /\ checkpoint' = w
  /\ phase' = "execute"
  /\ UNCHANGED <<db, tx, env, idx, gas, status, outcome>>

PreBump(w) == IF IsCreate(tx) THEN w ELSE BumpNonce(w, tx.caller)

(***************************************************************************)
(* validate_against_state_and_deduct_caller without a sponsor.             *)
(***************************************************************************)
GasCost == tx.gas_limit * EffectivePrice(tx, env)

EffectiveSpending == GasCost + TotalValue(tx)

(* Mutant: a simulation does not keep the value in the balance.            *)
CallerBalanceUnclamped(b) == SatSub(b, GasCost)

CallerBalanceAfterFee(b) ==
  LET left == SatSub(b, EffectiveSpending - TotalValue(tx))
  IN  IF env.simulate THEN MaxOf(left, TotalValue(tx)) ELSE left

Refused(w) ==
  \/ ~DeployAllowed(tx, env)
  \/ tx.bad_sponsor
  \/ ~ValidNonceAndCode(w, tx)

DeductCaller ==
  /\ phase = "validate"
  /\ tx.sponsor = None
  /\ ~Refused(journal)
  /\ EffectiveSpending <= MaxU256
  /\ env.simulate \/ EffectiveSpending <= journal.bal[tx.caller]
  /\ StartExecution(PreBump(SetBalance(journal, tx.caller,
                      CallerBalanceAfterFee(journal.bal[tx.caller]))))

RejectCaller ==
  /\ phase = "validate"
  /\ tx.sponsor = None
  /\ \/ Refused(journal)
     \/ /\ ~env.simulate
        /\ journal.bal[tx.caller] < EffectiveSpending
        /\ EffectiveSpending <= MaxU256
  /\ Discard("invalid")

(* The `expect` of calculate_caller_fee on a spending beyond a word.       *)
PanicOnOverflow ==
  /\ phase = "validate"
  /\ tx.sponsor = None
  /\ ~Refused(journal)
  /\ EffectiveSpending > MaxU256
  /\ Discard("panic")

(***************************************************************************)
(* validate_against_state_and_deduct_caller with a sponsor: the caller     *)
(* must hold the value, the sponsor the worst-case fee, and the sponsor    *)
(* pays the effective one.                                                 *)
(***************************************************************************)
MaxGasCost == tx.gas_limit * tx.max_fee

SponsoredFunded(w) ==
  \/ env.simulate
  \/ /\ TotalValue(tx) <= w.bal[tx.caller]
     /\ MaxGasCost <= w.bal[tx.sponsor]

SponsorBalanceAfterFee(b) ==
  LET left == SatSub(b, GasCost)
  IN  IF env.simulate THEN MaxOf(left, GasCost) ELSE left

DeductSponsor ==
  /\ phase = "validate"
  /\ tx.sponsor # None
  /\ ~Refused(journal)
  /\ SponsoredFunded(journal)
  /\ StartExecution(SetBalance(PreBump(journal), tx.sponsor,
                      SponsorBalanceAfterFee(journal.bal[tx.sponsor])))

RejectSponsored ==
  /\ phase = "validate"
  /\ tx.sponsor # None
  /\ Refused(journal) \/ ~SponsoredFunded(journal)
  /\ Discard("invalid")

(***************************************************************************)
(* execution.  What a frame does is external: it ends in success, a revert *)
(* or a halt, with some gas used and some refund reported; calls and       *)
(* contract creations within it are not modelled.  A frame whose value the *)
(* caller cannot pay reverts before it runs, and before a CREATE frame     *)
(* moves the caller's nonce; one that would overflow the target's balance  *)
(* halts.                                                                  *)
(***************************************************************************)
ThisCall == tx.calls[idx]

(* The account a call leaves its effect on.                                *)
Callee(c) == IF c.to = Create THEN Deployed ELSE c.to

Target == Callee(ThisCall)

CallIsFunded == ThisCall.value <= journal.bal[tx.caller]

TransferOverflows ==
  Target # tx.caller /\ journal.bal[Target] + ThisCall.value > MaxU256

CreateBump(w) == IF ThisCall.to = Create THEN BumpNonce(w, tx.caller) ELSE w

FrameSuccess(w) ==
  LET paid == SetBalance(w, tx.caller, w.bal[tx.caller] - ThisCall.value)
      got  == SetBalance(paid, Target, paid.bal[Target] + ThisCall.value)
  IN  CreateBump([got EXCEPT !.store[Target] = @ + 1])

CallSucceeds(used, refund) ==
  /\ phase = "execute"
  /\ CallIsFunded /\ ~TransferOverflows
  /\ used <= gas.remaining
  /\ gas.refunded + refund >= 0
  /\ journal' = FrameSuccess(journal)
  /\ gas' = [gas EXCEPT !.remaining = @ - used, !.refunded = @ + refund]
  /\ IF idx < Len(tx.calls)
     THEN idx' = idx + 1 /\ UNCHANGED <<phase, status>>
     ELSE phase' = "refund" /\ status' = "success" /\ UNCHANGED idx
  /\ UNCHANGED <<db, checkpoint, tx, env, outcome>>

(* Mutant: a failed call of a batch keeps what earlier calls did.          *)
AfterFailureNoRevert == IF CallIsFunded THEN CreateBump(journal) ELSE journal

(* Mutant: the nonce of a reverted CREATE is not advanced again.           *)
AfterFailureNoBump ==
  IF IsBatch(tx) THEN checkpoint
  ELSE IF CallIsFunded THEN CreateBump(journal) ELSE journal

(* The world after a failed call: a batch returns to the checkpoint and    *)
(* advances the nonce of a CREATE again; a single call keeps what its      *)
(* frame kept.                                                             *)
AfterFailure ==
  CASE IsBatch(tx) /\ IsCreate(tx) -> BumpNonce(checkpoint, tx.caller)
    [] IsBatch(tx) /\ ~IsCreate(tx) -> checkpoint
    [] ~IsBatch(tx) -> IF CallIsFunded THEN CreateBump(journal) ELSE journal

CallFails(result, used) ==
  /\ phase = "execute"
  /\ used <= gas.remaining
  /\ ~CallIsFunded => result = "revert" /\ used = 0
  /\ CallIsFunded /\ TransferOverflows => result = "halt"
  /\ journal' = AfterFailure
  /\ gas' = [gas EXCEPT !.remaining = IF result = "halt" THEN 0 ELSE @ - used,
                        !.refunded = 0]
  /\ status' = result
  /\ phase' = "refund"
  /\ UNCHANGED <<db, checkpoint, tx, env, idx, outcome>>

-----------------------------------------------------------------------------
(* Settlement.                                                             *)

Spent == tx.gas_limit - gas.remaining

SpentSubRefunded == SatSub(Spent, gas.refunded)

(* refund caps the refund at a fifth of the gas spent, then                *)
(* eip7623_check_gas_floor raises the gas spent to the floor.              *)
CappedRefund == MinOf(gas.refunded, Spent \div 5)

Refund ==
  /\ phase = "refund"
  /\ gas' = IF Spent - CappedRefund < gas.floor
            THEN [gas EXCEPT !.remaining = tx.gas_limit - gas.floor, !.refunded = 0]
            ELSE [gas EXCEPT !.refunded = CappedRefund]
  /\ phase' = "reimburse"
  /\ UNCHANGED <<db, journal, checkpoint, tx, env, idx, status, outcome>>

(* Mutant: unused gas is always paid back to the caller.                   *)
PayerIsCaller == tx.caller

Payer == IF tx.sponsor = None THEN tx.caller ELSE tx.sponsor

ReimburseCaller ==
  /\ phase = "reimburse"
  /\ journal' = Credit(journal, Payer,
                  EffectivePrice(tx, env) * (gas.remaining + gas.refunded))
  /\ phase' = "reward"
  /\ UNCHANGED <<db, checkpoint, tx, env, idx, gas, status, outcome>>

(* BaseFeeRedirect.apply, then the tip of the block beneficiary.           *)
RedirectBaseFee(w) ==
  IF env.sink # None /\ SpentSubRefunded # 0
  THEN Credit(w, env.sink, env.basefee * SpentSubRefunded)
  ELSE w

(* Mutant: the beneficiary earns the whole price, base fee included.       *)
TipWholePrice == EffectivePrice(tx, env) * SpentSubRefunded

Tip == (EffectivePrice(tx, env) - env.basefee) * SpentSubRefunded

RewardBeneficiary ==
  /\ phase = "reward"
  /\ journal' = Credit(RedirectBaseFee(journal), env.beneficiary, Tip)
  /\ phase' = "commit"
  /\ UNCHANGED <<db, checkpoint, tx, env, idx, gas, status, outcome>>

(* The journal becomes the database, except that a simulation (the only    *)
(* use of disabled balance checks) throws it away.                         *)
Commit ==
  /\ phase = "commit"
  /\ Return(IF env.simulate THEN db ELSE journal,
            IF status = "success" THEN "success" ELSE "failed")

Next ==
  \/ \E t \in Txs, e \in Envs : Begin(t, e) \/ RejectStatic(t, e)
  \/ DeductCaller
  \/ RejectCaller
  \/ PanicOnOverflow
  \/ DeductSponsor
  \/ RejectSponsored
  \/ \E used \in GasUses, refund \in Refunds : CallSucceeds(used, refund)
  \/ \E result \in {"revert", "halt"}, used \in GasUses : CallFails(result, used)
  \/ Refund
  \/ ReimburseCaller
  \/ RewardBeneficiary
  \/ Commit

Spec == Init /\ [][Next]_vars

-----------------------------------------------------------------------------
(* Properties.                                                             *)

(* Every variable has its type, the gas in hand never exceeds the gas      *)
(* limit, and no balance leaves the words.                                 *)
TypeOK ==
  /\ db \in World /\ journal \in World /\ checkpoint \in World
  /\ tx \in Txs \cup {None} /\ env \in Envs \cup {None}
  /\ phase \in {"idle", "validate", "execute", "refund", "reimburse", "reward",
                "commit"}
  /\ idx \in Nat \ {0}
  /\ gas \in [remaining : Nat, refunded : Nat, floor : Nat]
  /\ status \in {"none", "success", "revert", "halt"}
  /\ outcome \in {"none", "invalid", "panic", "success", "failed"}
  /\ phase # "idle" => /\ tx \in Txs /\ env \in Envs
                       /\ idx \in DOMAIN tx.calls
                       /\ gas.remaining <= tx.gas_limit

(* What the journal has taken from the accounts and not given back yet:    *)
(* the whole fee, then the fee of the gas spent, and after the rewards the *)
(* base fee if no redirect keeps it.                                       *)
Held ==
  CASE phase \in {"idle", "validate"} -> 0
    [] phase \in {"execute", "refund", "reimburse"} -> GasCost
    [] phase = "reward" -> EffectivePrice(tx, env) * SpentSubRefunded
    [] phase = "commit" -> IF env.sink = None THEN env.basefee * SpentSubRefunded
                           ELSE 0

Simulated == phase # "idle" /\ env.simulate

(* No wei appears or disappears at any step of a transaction: what the     *)
(* handler deducts from caller or sponsor, moves between accounts,         *)
(* reimburses, redirects to the sink and pays as tip adds up, whatever the *)
(* transaction, its calls and the overlaps of caller, sponsor, sink and    *)
(* beneficiary; and no saturating addition ever saturates.                 *)
Conservation == ~Simulated => Supply(journal.bal) + Held = Supply(db.bal)

(* What each call of the transaction has for account a.                    *)
Gains(a) ==
  [i \in DOMAIN tx.calls |-> IF a = Callee(tx.calls[i]) THEN tx.calls[i].value ELSE 0]

Paid(a, who, amount) == IF a = who THEN amount ELSE 0

(* The ledger of a settled transaction, account by account: the payer (the *)
(* sponsor if there is one, else the caller) has paid the effective price  *)
(* of the gas spent and not a wei more, the caller the values if and only  *)
(* if every call succeeded, the sink has the base fee and the beneficiary  *)
(* the tip.                                                                *)
SettlementIsExact ==
  phase = "commit" /\ ~Simulated =>
    \A a \in Address :
      journal.bal[a] =
        db.bal[a]
        - Paid(a, IF tx.sponsor = None THEN tx.caller ELSE tx.sponsor,
               EffectivePrice(tx, env) * SpentSubRefunded)
        - Paid(a, tx.caller, IF status = "success" THEN SumOf(Values(tx)) ELSE 0)
        + (IF status = "success" THEN SumOf(Gains(a)) ELSE 0)
        + Paid(a, env.sink, env.basefee * SpentSubRefunded)
        + Paid(a, env.beneficiary, Tip)

(* A batch is atomic: once execution is over, either every call left its   *)
(* effect exactly once, or none did.                                       *)
AllOrNothing ==
  phase \in {"refund", "reimburse", "reward", "commit"} =>
    \A a \in Address :
      journal.store[a] = db.store[a] +
        (IF status = "success"
         THEN Cardinality({i \in DOMAIN tx.calls : a = Callee(tx.calls[i])})
         ELSE 0)

(* Sponsoring oneself: the fee and the value are checked one by one        *)
(* against the same balance.                                               *)
SelfSponsored == tx.sponsor = tx.caller

(* An executed transaction advances the caller's nonce by exactly one,     *)
(* however its calls end, and nobody else's.  The exception is a single    *)
(* CREATE of a caller that sponsors itself and, its fee deducted, cannot   *)
(* pay the value.                                                          *)
NonceAdvancesOnce ==
  phase = "commit" /\ ~Simulated =>
    \/ journal.nonce = [db.nonce EXCEPT ![tx.caller] = @ + 1]
    \/ /\ SelfSponsored /\ IsCreate(tx) /\ ~IsBatch(tx)
       /\ status = "revert"
       /\ journal.nonce = db.nonce

(* From its activation height the allowlist gates every top-level CREATE,  *)
(* at whatever position of a batch, though ensure_deploy_allowed looks     *)
(* only at the first call: the count of the Deployed account, which no     *)
(* call addresses, moves only for allowed callers.  A contract that is     *)
(* called may create others whoever the caller is; the frames of this      *)
(* model create none.                                                      *)
DeploysAreAllowed ==
  phase # "idle" /\ journal.store[Deployed] # db.store[Deployed] =>
    \/ \E i \in DOMAIN tx.calls : tx.calls[i].to = Deployed
    \/ env.number < ActivationHeight
    \/ DeployAllowlist = {}
    \/ tx.caller \in DeployAllowlist

(* A transaction that passed validation never lacks the value of its next  *)
(* call, in a simulation too, unless its caller is its own sponsor (or     *)
(* simulated with a sponsor), or its values add up to more than a word     *)
(* and the sum that validation compares was saturated.                     *)
ValueIsCovered ==
  phase = "execute" =>
    \/ CallIsFunded
    \/ SelfSponsored
    \/ Simulated /\ tx.sponsor # None
    \/ SumOf(Values(tx)) > MaxU256

(* "nonce always increments even on failure" (the comment of the batch     *)
(* path of execution), read for every executed transaction.                *)
NonceAlwaysAdvances ==
  phase = "commit" /\ ~Simulated =>
    journal.nonce[tx.caller] = db.nonce[tx.caller] + 1

(* "effective balance is always smaller than max balance so it can't       *)
(* overflow": the expect of calculate_caller_fee holds.                    *)
SpendingFitsWord == outcome # "panic"

=============================================================================
